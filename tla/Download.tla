------------------------------ MODULE Download ------------------------------
(***************************************************************************)
(* What run_pull promises of one output path: a download that can be       *)
(* interrupted at any moment and taken up again.  Whatever it does to the  *)
(* output, the chunks it counts as done stay intact there, and so do those *)
(* it saved the progress of; "complete" is said of all chunks.  Progress   *)
(* saved for another file cannot always be told apart: a download it leads *)
(* astray promises nothing, but still ruins no saved progress.             *)
(***************************************************************************)
EXTENDS Naturals

CONSTANTS
    Offers,     \* the files that may be offered for the output path
    Wanted      \* of each its chunks

VARIABLES
    phase,      \* "idle", "fetching", "complete", or "void": led astray
    offer,      \* the file announced
    have,       \* chunks of it that are done
    good,       \* of each file, the chunks the output holds intact
    saved       \* the progress saved, none or one: for a file, its chunks

vars == <<phase, offer, have, good, saved>>

Nothing == [f \in Offers |-> {}]
Working == phase \in {"fetching", "void"}

Init ==
    /\ phase = "idle" /\ offer \in Offers
    /\ have = {} /\ good = Nothing /\ saved = {}

Announce ==
    /\ phase = "idle" /\ offer' \in Offers
    /\ UNCHANGED <<phase, have, good, saved>>

Resume ==
    /\ phase = "idle" /\ phase' = "fetching"
    /\ \E r \in saved : r.for = offer /\ have' = r.chunks
    /\ UNCHANGED <<offer, good, saved>>

StartOver ==
    /\ phase = "idle" /\ phase' = "fetching"
    /\ have' = {} /\ good' = Nothing /\ saved' = {}
    /\ UNCHANGED offer

(* Only where there is no progress for the file announced. *)
GoAstray ==
    /\ phase = "idle" /\ phase' = "void"
    /\ \A r \in saved : r.for # offer
    /\ UNCHANGED <<offer, have, good, saved>>

(* The output changes, but no chunk done or saved does. *)
Write ==
    /\ Working
    /\ good' \in [Offers -> SUBSET Nat]
    /\ have \subseteq good'[offer]
    /\ \A r \in saved : r.chunks \subseteq good'[r.for]
    /\ UNCHANGED <<phase, offer, have, saved>>

Verify ==
    /\ phase = "fetching"
    /\ \E i \in good[offer] : have' = have \union {i}
    /\ UNCHANGED <<phase, offer, good, saved>>

Forget ==
    /\ Working /\ saved' = {}
    /\ UNCHANGED <<phase, offer, have, good>>

Save ==
    /\ phase = "fetching"
    /\ saved' = {[for |-> offer, chunks |-> have]}
    /\ UNCHANGED <<phase, offer, have, good>>

Complete ==
    /\ phase = "fetching" /\ have = Wanted[offer]
    /\ phase' = "complete" /\ saved' = {}
    /\ UNCHANGED <<offer, have, good>>

(* The end of a session, or the user deleting the record or the output. *)
Leave ==
    /\ phase' = "idle" /\ have' = {} /\ offer' = offer
    /\ \/ UNCHANGED <<good, saved>>
       \/ saved' = {} /\ good' \in {good, Nothing}

Next ==
    \/ Announce \/ Resume \/ StartOver \/ GoAstray
    \/ Write \/ Verify \/ Forget \/ Save \/ Complete \/ Leave

Spec == Init /\ [][Next]_vars

(* What the promise is worth: nothing is counted as done, or saved as done, *)
(* that is not in the output, and a complete download has all its chunks.   *)
Kept ==
    /\ have \subseteq good[offer]
    /\ \A r \in saved : r.chunks \subseteq good[r.for]
Whole == phase = "complete" => Wanted[offer] \subseteq good[offer]
=============================================================================
