------------------------------ MODULE Tracker -------------------------------
(***************************************************************************)
(* The tracker (TokenStore, its HTTP handlers, the sweeper thread) with    *)
(* the senders and receivers that use it: run_push_cli binds its port,     *)
(* registers the token of its file, serves one receiver and unregisters;   *)
(* run_pull_cli resolves a token to an address and connects to it.         *)
(*                                                                         *)
(* Handlers run on the server's threads and interleave; a store operation  *)
(* is atomic under TokenStore's mutex, but upsert reads the clock before   *)
(* it takes the lock.  A client gives up after its timeout, while its      *)
(* request may still be waiting at the tracker.  A token stands for the    *)
(* content of a file; an address is an ip and a port, which a later sender *)
(* on the same host uses again.                                            *)
(***************************************************************************)
EXTENDS Integers

CONSTANTS
    Senders, Receivers,     \* one run of embr push, of embr pull, each
    Tokens, TokenOf,        \* the token of the file each sender offers
    Addrs, AddrOf,          \* the address each sender listens on
    None,                   \* no address, no sender
    EmptyIp,                \* a record whose sender_ip is ""
    Via,                    \* how a sender's requests reach the tracker
    TTL,                    \* ttl_
    MaxTime, MaxRestarts    \* bounds on the clock and on tracker restarts

ASSUME TrackerAssumption ==
    /\ TokenOf \in [Senders -> Tokens]
    /\ AddrOf \in [Senders -> Addrs]
    /\ Via \in [Senders -> {"direct", "one_proxy", "proxies"}]
    /\ None \notin Addrs /\ None \notin Senders /\ None \notin Tokens
    /\ EmptyIp \notin Addrs /\ EmptyIp # None
    /\ TTL \in Nat /\ MaxTime \in Nat /\ MaxRestarts \in Nat

VARIABLES
    now,        \* steady_clock, in units of the TTL's grain
    store,      \* token_store_
    sender,     \* where run_push_cli is
    reg, stamp, \* its POST /register at the tracker, and the time upsert read
    unreg,      \* its POST /unregister at the tracker
    receiver,   \* where run_pull_cli is
    wants,      \* the token it was given, None in direct mode
    target,     \* the address it connects to
    peer,       \* the sender behind its connection
    restarts

senderVars == <<sender, reg, stamp, unreg>>
receiverVars == <<receiver, wants, target, peer>>
vars == <<now, store, senderVars, receiverVars, restarts>>

(* by is history: the sender whose registration this is. *)
Record(addr, at, by) == [addr |-> addr, at |-> at, by |-> by]
NoRecord == Record(None, 0, None)

Init ==
    /\ now = 0
    /\ store = [t \in Tokens |-> NoRecord]
    /\ sender = [s \in Senders |-> "off"]
    /\ reg = [s \in Senders |-> "none"] /\ unreg = [s \in Senders |-> "none"]
    /\ stamp = [s \in Senders |-> 0]
    /\ receiver = [r \in Receivers |-> "off"]
    /\ wants \in [Receivers -> Tokens \union {None}]
    /\ target = [r \in Receivers |-> None]
    /\ peer = [r \in Receivers |-> None]
    /\ restarts = 0

----------------------------------------------------------------------------
(* TokenStore                                                               *)

Found(t) == store[t] # NoRecord

Bug_ExpiresEarly(r) == now - r.at >= TTL
Expired(r) == now - r.at > TTL

(* The eviction resolve() and sweep_expired() share. *)
Evicted == [t \in Tokens |-> IF Found(t) /\ Expired(store[t]) THEN NoRecord ELSE store[t]]

----------------------------------------------------------------------------
(* run_push_cli                                                             *)

PortOpen(s) ==
    sender[s] \in {"bound", "registering", "accepting", "serving", "unregistering"}

Goto(s, where) == sender' = [sender EXCEPT ![s] = where]

(* tcp_listen / quic_listen: a port serves one process at a time. *)
Bind(s) ==
    /\ sender[s] = "off"
    /\ Goto(s, IF \E o \in Senders : AddrOf[o] = AddrOf[s] /\ PortOpen(o)
               THEN "failed" ELSE "bound")
    /\ UNCHANGED <<now, store, reg, stamp, unreg, receiverVars, restarts>>

(* With --port 0 the request is one the tracker refuses. *)
Register(s) ==
    /\ sender[s] = "bound"
    /\ \E q \in {"sent", "port_zero"} : reg' = [reg EXCEPT ![s] = q]
    /\ Goto(s, "registering")
    /\ UNCHANGED <<now, store, stamp, unreg, receiverVars, restarts>>

Registered(s) ==
    /\ sender[s] = "registering" /\ reg[s] \in {"stored", "rejected", "lost"}
    /\ Goto(s, IF reg[s] = "stored" THEN "accepting" ELSE "failed")
    /\ UNCHANGED <<now, store, reg, stamp, unreg, receiverVars, restarts>>

Bug_IgnoreTimeout(s) ==
    /\ sender[s] = "registering"
    /\ Goto(s, "accepting")
    /\ UNCHANGED <<now, store, reg, stamp, unreg, receiverVars, restarts>>

(* No answer within the client's timeout: tracker_register throws. *)
RegisterTimesOut(s) ==
    /\ sender[s] = "registering"
    /\ Goto(s, "failed")
    /\ UNCHANGED <<now, store, reg, stamp, unreg, receiverVars, restarts>>

(* tcp_accept / quic_accept takes one of the connections made to the port. *)
Accept(s) ==
    /\ sender[s] = "accepting"
    /\ \E r \in Receivers :
         /\ receiver[r] = "connected" /\ peer[r] = s
         /\ receiver' = [receiver EXCEPT ![r] = "pulling"]
    /\ Goto(s, "serving")
    /\ UNCHANGED <<now, store, reg, stamp, unreg, wants, target, peer, restarts>>

(* run_push returns, and tracker_unregister posts. *)
Served(s) ==
    /\ sender[s] = "serving"
    /\ unreg' = [unreg EXCEPT ![s] = "sent"]
    /\ Goto(s, "unregistering")
    /\ UNCHANGED <<now, store, reg, stamp, receiverVars, restarts>>

(* Answered, timed out or failed: best effort. *)
Unregistered(s) ==
    /\ sender[s] = "unregistering"
    /\ Goto(s, "done")
    /\ UNCHANGED <<now, store, reg, stamp, unreg, receiverVars, restarts>>

(* run_push throws, or the process is killed: nothing is unregistered. *)
SenderDies(s) ==
    /\ PortOpen(s)
    /\ Goto(s, "failed")
    /\ UNCHANGED <<now, store, reg, stamp, unreg, receiverVars, restarts>>

----------------------------------------------------------------------------
(* The handlers                                                             *)

(* X-Forwarded-For is cut at its first comma; without one, "" is returned. *)
client_ip(s) == IF Via[s] = "one_proxy" THEN EmptyIp ELSE AddrOf[s]

(* handle_register up to upsert's reading of the clock. *)
HandleRegister(s) ==
    /\ reg[s] \in {"sent", "port_zero"}
    /\ reg' = [reg EXCEPT ![s] = IF reg[s] = "port_zero" THEN "rejected" ELSE "stamped"]
    /\ stamp' = [stamp EXCEPT ![s] = IF reg[s] = "port_zero" THEN @ ELSE now]
    /\ UNCHANGED <<now, store, sender, unreg, receiverVars, restarts>>

(* upsert under the lock: the last writer wins. *)
Upsert(s) ==
    /\ reg[s] = "stamped"
    /\ store' = [store EXCEPT ![TokenOf[s]] = Record(client_ip(s), stamp[s], s)]
    /\ reg' = [reg EXCEPT ![s] = "stored"]
    /\ UNCHANGED <<now, sender, stamp, unreg, receiverVars, restarts>>

(* handle_unregister: any caller, whoever registered the token. *)
HandleUnregister(s) ==
    /\ unreg[s] = "sent"
    /\ store' = [store EXCEPT ![TokenOf[s]] = NoRecord]
    /\ unreg' = [unreg EXCEPT ![s] = "removed"]
    /\ UNCHANGED <<now, sender, reg, stamp, receiverVars, restarts>>

Bug_ResolveUnswept == store
ResolveView == Evicted

Resolves(t) == ResolveView[t] # NoRecord

(* handle_resolve, and tracker_resolve's reading of the answer: 404 and an  *)
(* empty sender_ip throw.                                                   *)
HandleResolve(r) ==
    /\ receiver[r] = "resolving"
    /\ store' = Evicted
    /\ LET found == ResolveView[wants[r]] IN
       IF Resolves(wants[r]) /\ found.addr # EmptyIp
       THEN /\ receiver' = [receiver EXCEPT ![r] = "connecting"]
            /\ target' = [target EXCEPT ![r] = found.addr]
       ELSE receiver' = [receiver EXCEPT ![r] = "failed"] /\ target' = target
    /\ UNCHANGED <<now, senderVars, wants, peer, restarts>>

(* The sweeper thread; it has something to do. *)
Sweep ==
    /\ store # Evicted
    /\ store' = Evicted
    /\ UNCHANGED <<now, senderVars, receiverVars, restarts>>

----------------------------------------------------------------------------
(* run_pull_cli                                                             *)

(* By token, or directly by address. *)
Pull(r) ==
    /\ receiver[r] = "off"
    /\ IF wants[r] # None
       THEN receiver' = [receiver EXCEPT ![r] = "resolving"] /\ target' = target
       ELSE /\ receiver' = [receiver EXCEPT ![r] = "connecting"]
            /\ \E a \in Addrs : target' = [target EXCEPT ![r] = a]
    /\ UNCHANGED <<now, store, senderVars, wants, peer, restarts>>

ResolveTimesOut(r) ==
    /\ receiver[r] = "resolving"
    /\ receiver' = [receiver EXCEPT ![r] = "failed"]
    /\ UNCHANGED <<now, store, senderVars, wants, target, peer, restarts>>

(* The connection waits in the listener's queue; refused if nobody listens. *)
Connect(r) ==
    /\ receiver[r] = "connecting"
    /\ \/ \E s \in Senders :
            /\ AddrOf[s] = target[r] /\ PortOpen(s)
            /\ receiver' = [receiver EXCEPT ![r] = "connected"]
            /\ peer' = [peer EXCEPT ![r] = s]
       \/ /\ ~ \E s \in Senders : AddrOf[s] = target[r] /\ PortOpen(s)
          /\ receiver' = [receiver EXCEPT ![r] = "failed"] /\ peer' = peer
    /\ UNCHANGED <<now, store, senderVars, wants, target, restarts>>

(* The sender exits without having accepted. *)
ConnectionReset(r) ==
    /\ receiver[r] = "connected" /\ ~ PortOpen(peer[r])
    /\ receiver' = [receiver EXCEPT ![r] = "failed"]
    /\ UNCHANGED <<now, store, senderVars, wants, target, peer, restarts>>

----------------------------------------------------------------------------
Tick ==
    /\ now < MaxTime /\ now' = now + 1
    /\ UNCHANGED <<store, senderVars, receiverVars, restarts>>

(* run_tracker_server ends and is started again: the store is in memory,    *)
(* and requests still at the tracker fail.                                  *)
Lost(q) == [s \in Senders |-> IF q[s] \in {"sent", "port_zero", "stamped"} THEN "lost" ELSE q[s]]
Restart ==
    /\ restarts < MaxRestarts /\ restarts' = restarts + 1
    /\ store' = [t \in Tokens |-> NoRecord]
    /\ reg' = Lost(reg) /\ unreg' = Lost(unreg)
    /\ UNCHANGED <<now, sender, stamp, receiverVars>>

SenderStep(s) ==
    \/ Bind(s) \/ Register(s) \/ Registered(s) \/ RegisterTimesOut(s)
    \/ Accept(s) \/ Served(s) \/ Unregistered(s) \/ SenderDies(s)
Handler(s) == HandleRegister(s) \/ Upsert(s) \/ HandleUnregister(s)
ReceiverStep(r) ==
    Pull(r) \/ HandleResolve(r) \/ ResolveTimesOut(r) \/ Connect(r) \/ ConnectionReset(r)

Next ==
    \/ \E s \in Senders : SenderStep(s) \/ Handler(s)
    \/ \E r \in Receivers : ReceiverStep(r)
    \/ Sweep \/ Tick \/ Restart

Spec == Init /\ [][Next]_vars

----------------------------------------------------------------------------
(* Properties                                                               *)

Records == [addr : Addrs \union {EmptyIp, None}, at : Nat, by : Senders \union {None}]

(* Every variable has its type; a receiver that connects has an address. *)
TypeOK ==
    /\ now \in Nat /\ restarts \in Nat
    /\ store \in [Tokens -> Records]
    /\ sender \in [Senders -> {"off", "bound", "registering", "accepting", "serving",
                               "unregistering", "done", "failed"}]
    /\ reg \in [Senders -> {"none", "sent", "port_zero", "stamped", "stored",
                            "rejected", "lost"}]
    /\ unreg \in [Senders -> {"none", "sent", "removed", "lost"}]
    /\ stamp \in [Senders -> Nat]
    /\ receiver \in [Receivers -> {"off", "resolving", "connecting", "connected",
                                   "pulling", "failed"}]
    /\ wants \in [Receivers -> Tokens \union {None}]
    /\ target \in [Receivers -> Addrs \union {None}]
    /\ peer \in [Receivers -> Senders \union {None}]
    /\ \A r \in Receivers :
         /\ receiver[r] = "resolving" => wants[r] # None
         /\ receiver[r] \in {"connecting", "connected", "pulling"} => target[r] # None
         /\ receiver[r] \in {"connected", "pulling"} => peer[r] # None

(* "port open before pull connection": an address is published only after   *)
(* its sender bound the port, so only a sender that has exited refuses.     *)
PortOpenFirst == \A t \in Tokens : Found(t) => sender[store[t].by] # "off"

(* Once the tracker has handled a sender's unregister, the store never      *)
(* names that sender again: no late registration brings it back.            *)
UnregisterIsFinal ==
    \A s \in Senders : unreg[s] = "removed" => store[TokenOf[s]].by # s

Alone(s) == \A o \in Senders : TokenOf[o] = TokenOf[s] => o = s

(* A sender that waits for its receiver can be found until its registration *)
(* expires: its record is in the store, whatever other tokens' senders and  *)
(* the sweeper do, unless the tracker was restarted.                        *)
WaitingIsFound ==
    \A s \in Senders :
        sender[s] = "accepting" /\ Alone(s) /\ restarts = 0 /\ now - stamp[s] <= TTL
        => store[TokenOf[s]] = Record(client_ip(s), stamp[s], s)

AnswersAreFresh ==
    \A r \in Receivers :
        receiver[r] = "resolving" /\ receiver'[r] = "connecting" =>
            /\ now - store[wants[r]].at <= TTL
            /\ store'[wants[r]] = store[wants[r]]

(* resolve() never answers with an expired record, whether or not the       *)
(* sweeper has run, and never evicts what it answers with.                  *)
FreshAnswers == [][AnswersAreFresh]_vars

(* What the token is for: a receiver that asked for a token is served the   *)
(* file the token was derived from.                                         *)
TokenMeansFile ==
    \A r \in Receivers :
        receiver[r] = "pulling" /\ wants[r] # None => TokenOf[peer[r]] = wants[r]

----------------------------------------------------------------------------
(* The directory the tracker promises                                       *)

Live == [t \in Tokens |->
    IF Found(t) /\ ~ Expired(store[t])
    THEN {[by |-> store[t].by, since |-> store[t].at]} ELSE {}]
Told == [r \in Receivers |-> IF wants[r] = None THEN None ELSE target[r]]

Directory == INSTANCE Registry WITH
    Parties <- Senders, KeyOf <- TokenOf, Keys <- Tokens, Askers <- Receivers,
    Contact <- [s \in Senders |-> client_ip(s)],
    Nowhere <- None, Unusable <- EmptyIp, Lifetime <- TTL,
    time <- now, entry <- Live,
    published <- {s \in Senders : reg[s] = "stored"},
    withdrawn <- {s \in Senders : unreg[s] = "removed"},
    asks <- wants, answer <- Told

(* Nobody can tell when expired records are evicted: with a sweeper, with   *)
(* eviction inside resolve(), with an upsert that comes long after it read  *)
(* the clock, the tracker is a directory whose entries vanish on time and   *)
(* whose registrations and unregistrations take effect once.                *)
IsRegistry == Directory!Spec

----------------------------------------------------------------------------
(* The inductive invariant behind them                                      *)

(* A record is its sender's registration, as stamped and not yet undone. *)
RecordsOwned ==
    \A t \in Tokens : Found(t) =>
        LET s == store[t].by IN
        /\ s \in Senders /\ TokenOf[s] = t
        /\ reg[s] = "stored" /\ unreg[s] # "removed"
        /\ store[t] = Record(client_ip(s), stamp[s], s)

(* What a sender has asked of the tracker by the time it is where it is. *)
RequestsInOrder ==
    \A s \in Senders :
        /\ sender[s] \in {"off", "bound"} => reg[s] = "none"
        /\ sender[s] \in {"accepting", "serving", "unregistering", "done"} => reg[s] = "stored"
        /\ sender[s] \in {"off", "bound", "registering", "accepting", "serving"} => unreg[s] = "none"
        /\ unreg[s] # "none" => reg[s] = "stored"

(* WaitingIsFound, from the moment the registration is stored. *)
StoredIsKept ==
    \A s \in Senders :
        reg[s] = "stored" /\ unreg[s] # "removed" /\ Alone(s) /\ restarts = 0
            /\ now - stamp[s] <= TTL
        => store[TokenOf[s]] = Record(client_ip(s), stamp[s], s)

(* What IsRegistry adds: no stamp is of the future, and a receiver that was *)
(* given a token connects to no address before it has its answer.           *)
StampsPast == \A s \in Senders : stamp[s] <= now
AnswersOnce ==
    \A r \in Receivers :
        wants[r] # None /\ receiver[r] \in {"off", "resolving"} => target[r] = None
DirectoryInv == StampsPast /\ AnswersOnce

TrackerInv == TypeOK /\ RecordsOwned /\ RequestsInOrder /\ StoredIsKept
=============================================================================
