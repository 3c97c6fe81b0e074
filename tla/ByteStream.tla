----------------------------- MODULE ByteStream -----------------------------
(***************************************************************************)
(* What Transport promises run_push and run_pull: an ordered stream of     *)
(* bytes.  A byte is named by its place in the stream, so the receiver has *)
(* read a prefix when what it read is <<1, ..., k>>.  The stream may be    *)
(* cut; a clean end is reported only after the last byte was read.         *)
(***************************************************************************)
EXTENDS Naturals, Sequences

VARIABLES
    written,    \* bytes the sender handed over
    read,       \* bytes the receiver was given, in the order it got them
    ended,      \* the sender half-closed: nothing is written any more
    eof         \* the receiver was told that the stream ended

vars == <<written, read, ended, eof>>

Prefix(k) == [i \in 1 .. k |-> i]

Init == written = 0 /\ read = << >> /\ ended = FALSE /\ eof = FALSE

Write ==
    /\ ~ ended
    /\ written' \in Nat /\ written' > written
    /\ UNCHANGED <<read, ended, eof>>

HalfClose == ended' = TRUE /\ UNCHANGED <<written, read, eof>>

Read ==
    /\ \E k \in Len(read) + 1 .. written : read' = Prefix(k)
    /\ UNCHANGED <<written, ended, eof>>

Eof ==
    /\ ended /\ Len(read) = written
    /\ eof' = TRUE
    /\ UNCHANGED <<written, read, ended>>

Next == Write \/ HalfClose \/ Read \/ Eof

Spec == Init /\ [][Next]_vars
=============================================================================
