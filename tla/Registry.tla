------------------------------ MODULE Registry ------------------------------
(***************************************************************************)
(* What the tracker promises its clients: a directory of who offers a key. *)
(* An entry is gone the moment it expires, whoever sweeps and whenever; a  *)
(* publication and a withdrawal each take effect once, at one instant; a   *)
(* question is answered from the entry that is there at that instant.  A   *)
(* publication may be stamped with an earlier time, and replaces the entry *)
(* of the key even if it has expired by now.                               *)
(***************************************************************************)
EXTENDS Integers

CONSTANTS
    Parties, KeyOf,     \* those that publish, and the key of each
    Keys, Askers,
    Contact,            \* where each party is reached
    Nowhere, Unusable,  \* no answer; a contact that is not given out
    Lifetime

VARIABLES
    time,
    entry,      \* of each key: none or one, by whom and since when
    published,  \* the parties whose publication took effect
    withdrawn,  \* and those whose withdrawal did
    asks,       \* the key each asker asks for
    answer      \* what it was told

vars == <<time, entry, published, withdrawn, asks, answer>>

Empty == [k \in Keys |-> {}]
Lasting(e, t) == {r \in e : t - r.since <= Lifetime}

Init ==
    /\ time = 0 /\ entry = Empty
    /\ published = {} /\ withdrawn = {}
    /\ asks \in [Askers -> Keys \union {Nowhere}]
    /\ answer = [a \in Askers |-> Nowhere]

Publish(p) ==
    /\ p \notin published \union withdrawn
    /\ published' = published \union {p}
    /\ \E t \in 0 .. time :
         entry' = [entry EXCEPT ![KeyOf[p]] = Lasting({[by |-> p, since |-> t]}, time)]
    /\ UNCHANGED <<time, withdrawn, asks, answer>>

(* Of the key: the entry may be another party's. *)
Withdraw(p) ==
    /\ p \in published \ withdrawn
    /\ withdrawn' = withdrawn \union {p}
    /\ entry' = [entry EXCEPT ![KeyOf[p]] = {}]
    /\ UNCHANGED <<time, published, asks, answer>>

Pass ==
    /\ time' = time + 1
    /\ entry' = [k \in Keys |-> Lasting(entry[k], time')]
    /\ UNCHANGED <<published, withdrawn, asks, answer>>

Answer(a) ==
    /\ asks[a] \in Keys /\ answer[a] = Nowhere
    /\ \E r \in entry[asks[a]] :
         /\ Contact[r.by] # Unusable
         /\ answer' = [answer EXCEPT ![a] = Contact[r.by]]
    /\ UNCHANGED <<time, entry, published, withdrawn, asks>>

Forget ==
    /\ entry' = Empty
    /\ UNCHANGED <<time, published, withdrawn, asks, answer>>

Next ==
    \/ \E p \in Parties : Publish(p) \/ Withdraw(p)
    \/ \E a \in Askers : Answer(a)
    \/ Pass \/ Forget

Spec == Init /\ [][Next]_vars

(* What the promise is worth: an entry is fresh, its party's own, and was   *)
(* published and not withdrawn.                                             *)
Current ==
    \A k \in Keys : \A r \in entry[k] :
        /\ r.by \in published \ withdrawn /\ KeyOf[r.by] = k
        /\ time - r.since <= Lifetime

(* Whoever was told anything was told where a party of its key is reached.  *)
Truthful ==
    \A a \in Askers : answer[a] # Nowhere =>
        \E p \in published : KeyOf[p] = asks[a] /\ answer[a] = Contact[p]
=============================================================================
