------------------------------ MODULE ZcEgress ------------------------------
(***************************************************************************)
(* The io_uring SEND_ZC egress of one QUIC connection (ZcEgress), driven   *)
(* by QuicTransport's begin_packet / send_packet / flush_packets and by    *)
(* its destructor, over a kernel that completes sends asynchronously: a    *)
(* send CQE, and, when that one carries F_MORE, a later NOTIF CQE until    *)
(* which the kernel may still read the packet slot.                        *)
(*                                                                         *)
(* A slot is prepared at most once at a time, so the submission queue is   *)
(* a set of slots; with 2 * slots entries it cannot be full at a commit    *)
(* (SlotsOwned), which makes the retry in commit() for a missing SQE dead  *)
(* code.  The CQ is a set read in any order, but per slot in FIFO order.   *)
(***************************************************************************)
EXTENDS Integers, FiniteSets

CONSTANTS
    Slots,              \* the packet slots of the slab
    None,               \* reserved_ == -1
    MaxSubmitFaults     \* bound on failed io_uring_submit calls

ASSUME SlotsAssumption ==
    /\ None \notin Slots
    /\ Slots # {}
    /\ MaxSubmitFaults \in Nat

VARIABLES
    phase,      \* where the transport's thread is
    ctx,        \* whom the running flush()/reap() returns to
    free,       \* free_
    reserved,   \* reserved_
    owner,      \* the slots whose inflight_ entry holds a Buffer
    sq,         \* prepared SQEs not yet submitted
    kern,       \* per slot: what the kernel still has to do with it
    cq,         \* completions not yet seen
    err,        \* err_ # 0
    unsupported,
    slab,       \* what became of the slab's memory
    submitFaults

egressVars == <<free, reserved, owner, err, unsupported, slab>>
ringVars == <<sq, kern, cq, submitFaults>>
vars == <<phase, ctx, egressVars, ringVars>>

SendCqe(s, res, more) == [slot |-> s, kind |-> "send", res |-> res, more |-> more]
NotifCqe(s) == [slot |-> s, kind |-> "notif"]

Results == {"ok", "refused", "unsupported", "error"}

(* inflight(): every slot neither free nor reserved. *)
Inflight == Slots \ (free \union {reserved})

Init ==
    /\ phase = "idle" /\ ctx = "flush"
    /\ free = Slots /\ reserved = None /\ owner = {}
    /\ sq = {} /\ kern = [s \in Slots |-> "none"] /\ cq = {}
    /\ err = FALSE /\ unsupported = FALSE /\ slab = "held"
    /\ submitFaults = 0

----------------------------------------------------------------------------
(* QuicTransport::begin_packet and ZcEgress::reserve                        *)

(* Between two calls into the egress. *)
Idle == phase \in {"idle", "failed"}

BeginPacket ==
    /\ Idle /\ phase' = "reserve"
    /\ UNCHANGED <<ctx, egressVars, ringVars>>

(* Not committed since: the same slot again. *)
ReserveAgain ==
    /\ phase = "reserve" /\ reserved # None
    /\ phase' = "assembling"
    /\ UNCHANGED <<ctx, egressVars, ringVars>>

ReserveFree ==
    /\ phase = "reserve" /\ reserved = None
    /\ \E s \in free : reserved' = s /\ free' = free \ {s}
    /\ phase' = "assembling"
    /\ UNCHANGED <<ctx, owner, err, unsupported, slab, ringVars>>

(* No slot and a latched error: nullptr, and begin_packet drops the egress. *)
ReserveNull ==
    /\ phase = "reserve" /\ reserved = None /\ free = {} /\ err
    /\ phase' = "submit" /\ ctx' = "drain"
    /\ UNCHANGED <<egressVars, ringVars>>

Bug_WaitWithoutFlush ==
    /\ phase = "reserve" /\ reserved = None /\ free = {} /\ ~ err
    /\ phase' = "wait" /\ ctx' = "reserve"
    /\ UNCHANGED <<egressVars, ringVars>>

ReserveBlocked ==
    /\ phase = "reserve" /\ reserved = None /\ free = {} /\ ~ err
    /\ phase' = "submit" /\ ctx' = "reserve"
    /\ UNCHANGED <<egressVars, ringVars>>

----------------------------------------------------------------------------
(* ngtcp2 assembles into the slot; QuicTransport::send_packet, commit()     *)

NothingToSend ==
    /\ phase = "assembling" /\ phase' = "idle"
    /\ UNCHANGED <<ctx, egressVars, ringVars>>

Bug_StaysReserved ==
    /\ phase = "assembling" /\ ~ err
    /\ sq' = sq \union {reserved} /\ owner' = owner \union {reserved}
    /\ phase' = "idle"
    /\ UNCHANGED <<ctx, free, reserved, err, unsupported, slab, kern, cq, submitFaults>>

Commit ==
    /\ phase = "assembling" /\ ~ err
    /\ sq' = sq \union {reserved}
    /\ owner' = owner \union {reserved}
    /\ reserved' = None
    /\ phase' = "idle"
    /\ UNCHANGED <<ctx, free, err, unsupported, slab, kern, cq, submitFaults>>

(* commit() returns false: send_packet reports the connection failed.  The   *)
(* slot stays reserved; closing the connection may still pump the egress.    *)
CommitFails ==
    /\ phase = "assembling" /\ err
    /\ phase' = "failed"
    /\ UNCHANGED <<ctx, egressVars, ringVars>>

----------------------------------------------------------------------------
(* flush(): submit until the queue is empty or a submit fails, then reap    *)

FlushPackets ==
    /\ Idle /\ phase' = "submit" /\ ctx' = "flush"
    /\ UNCHANGED <<egressVars, ringVars>>

SubmitSome ==
    /\ phase = "submit"
    /\ \E S \in SUBSET sq :
         /\ S # {}
         /\ sq' = sq \ S
         /\ kern' = [s \in Slots |-> IF s \in S THEN "sending" ELSE kern[s]]
    /\ UNCHANGED <<phase, ctx, egressVars, cq, submitFaults>>

SubmitDone ==
    /\ phase = "submit" /\ sq = {} /\ phase' = "reap"
    /\ UNCHANGED <<ctx, egressVars, ringVars>>

(* EAGAIN and EINTR are transient; any other result is latched. *)
SubmitFails ==
    /\ phase = "submit" /\ sq # {} /\ submitFaults < MaxSubmitFaults
    /\ submitFaults' = submitFaults + 1
    /\ err' \in {err, TRUE}
    /\ phase' = "reap"
    /\ UNCHANGED <<ctx, free, reserved, owner, unsupported, slab, sq, kern, cq>>

----------------------------------------------------------------------------
(* reap(): one completion at a time                                         *)

(* Destroying the slot's Buffer gives the slot back, once. *)
Release(s) ==
    /\ owner' = owner \ {s}
    /\ free' = IF s \in owner THEN free \union {s} ELSE free

ReapNotif ==
    /\ phase = "reap"
    /\ \E c \in cq :
         /\ c.kind = "notif"
         /\ ~ \E d \in cq : d.slot = c.slot /\ d.kind = "send"
         /\ cq' = cq \ {c}
         /\ Release(c.slot)
    /\ UNCHANGED <<phase, ctx, reserved, err, unsupported, slab, sq, kern, submitFaults>>

(* No NOTIF will follow: the slot is released on the send CQE. *)
Bug_ReleaseOnSend(c) == TRUE
Bug_AwaitNotif(c) == FALSE
Final(c) == ~ c.more

(* A refused send is copied with send(), which may fail for good. *)
ReapSend ==
    /\ phase = "reap"
    /\ \E c \in cq :
         /\ c.kind = "send"
         /\ cq' = cq \ {c}
         /\ err' \in CASE c.res = "error" -> {TRUE}
                       [] c.res \in {"refused", "unsupported"} -> {err, TRUE}
                       [] OTHER -> {err}
         /\ unsupported' = (unsupported \/ c.res = "unsupported")
         /\ IF Final(c) THEN Release(c.slot) ELSE UNCHANGED <<owner, free>>
    /\ UNCHANGED <<phase, ctx, reserved, slab, sq, kern, submitFaults>>

ReapFlush ==
    /\ phase = "reap" /\ cq = {} /\ ctx = "flush"
    /\ IF unsupported THEN phase' = "submit" /\ ctx' = "drain"
                      ELSE phase' = "idle" /\ ctx' = ctx
    /\ UNCHANGED <<egressVars, ringVars>>

(* Back in reserve(): still no slot means reap(true), which submits what is *)
(* left and then waits for a completion, whatever that flush() reaped.      *)
ReapReserve ==
    /\ phase = "reap" /\ cq = {} /\ ctx = "reserve"
    /\ \/ free # {} /\ phase' = "reserve" /\ ctx' = ctx
       \/ free = {} /\ sq = {} /\ phase' = "wait" /\ ctx' = ctx
       \/ free = {} /\ sq # {} /\ phase' = "submit" /\ ctx' = "wait"
    /\ UNCHANGED <<egressVars, ringVars>>

ReapThenWait ==
    /\ phase = "reap" /\ cq = {} /\ ctx = "wait"
    /\ phase' = "wait"
    /\ UNCHANGED <<ctx, egressVars, ringVars>>

WaitCqe ==
    /\ phase = "wait" /\ cq # {}
    /\ phase' = "reap" /\ ctx' = "waited"
    /\ UNCHANGED <<egressVars, ringVars>>

(* io_uring_wait_cqe interrupted: reap(true) returns, reserve() looks again. *)
WaitInterrupted ==
    /\ phase = "wait" /\ phase' = "reserve"
    /\ UNCHANGED <<ctx, egressVars, ringVars>>

ReapWaited ==
    /\ phase = "reap" /\ cq = {} /\ ctx = "waited"
    /\ phase' = "reserve"
    /\ UNCHANGED <<ctx, egressVars, ringVars>>

----------------------------------------------------------------------------
(* ~ZcEgress: drain() until all slots are back or one second has passed     *)

(* ~QuicTransport, from a quiet or a failed connection. *)
Reset ==
    /\ Idle
    /\ phase' = "submit" /\ ctx' = "drain"
    /\ UNCHANGED <<egressVars, ringVars>>

DrainAgain ==
    /\ phase = "reap" /\ cq = {} /\ ctx = "drain" /\ Inflight # {}
    /\ phase' = "submit"
    /\ UNCHANGED <<ctx, egressVars, ringVars>>

Bug_FreeAlways == "freed"
SlabAfterDrain == IF Inflight = {} THEN "freed" ELSE "leaked"

Bug_NoDeadline ==
    /\ phase = "reap" /\ cq = {} /\ ctx = "drain" /\ Inflight = {}
    /\ slab' = "freed"
    /\ free' = free \union owner /\ owner' = {} /\ sq' = {}
    /\ phase' = "gone"
    /\ UNCHANGED <<ctx, reserved, err, unsupported, kern, cq, submitFaults>>

(* All slots back, or the deadline: the Buffers go, the ring goes, and the  *)
(* slab is freed only if no slot was outstanding.                           *)
Destroy ==
    /\ phase = "reap" /\ cq = {} /\ ctx = "drain"
    /\ slab' = SlabAfterDrain
    /\ free' = free \union owner /\ owner' = {} /\ sq' = {}
    /\ phase' = "gone"
    /\ UNCHANGED <<ctx, reserved, err, unsupported, kern, cq, submitFaults>>

----------------------------------------------------------------------------
(* The kernel (external).  A closed ring receives no completions.           *)

Post(c) == cq' = IF phase = "gone" THEN cq ELSE cq \union {c}

KernelSend ==
    \E s \in Slots, res \in Results, more \in BOOLEAN :
        /\ kern[s] = "sending"
        /\ Post(SendCqe(s, res, more))
        /\ kern' = [kern EXCEPT ![s] = IF more THEN "notif" ELSE "none"]
        /\ UNCHANGED <<phase, ctx, egressVars, sq, submitFaults>>

KernelNotif ==
    \E s \in Slots :
        /\ kern[s] = "notif"
        /\ Post(NotifCqe(s))
        /\ kern' = [kern EXCEPT ![s] = "none"]
        /\ UNCHANGED <<phase, ctx, egressVars, sq, submitFaults>>

Kernel == KernelSend \/ KernelNotif

----------------------------------------------------------------------------
Reserve == BeginPacket \/ ReserveAgain \/ ReserveFree \/ ReserveNull \/ ReserveBlocked
Assemble == NothingToSend \/ Commit \/ CommitFails
Flush == FlushPackets \/ SubmitSome \/ SubmitDone \/ SubmitFails
Reap == ReapNotif \/ ReapSend \/ ReapFlush \/ ReapReserve \/ ReapThenWait
            \/ WaitCqe \/ ReapWaited
Drain == Reset \/ DrainAgain \/ Destroy

Gone == phase = "gone" /\ kern = [s \in Slots |-> "none"] /\ UNCHANGED vars

Next ==
    Reserve \/ Assemble \/ Flush \/ Reap \/ WaitInterrupted \/ Drain \/ Kernel \/ Gone

Spec == Init /\ [][Next]_vars

(* Inside a call the thread runs on, and drain() meets its deadline; between *)
(* calls nothing is owed, and nothing is assumed of the kernel.              *)
Running ==
    \/ ReserveAgain \/ ReserveFree \/ ReserveNull \/ ReserveBlocked
    \/ SubmitSome \/ SubmitDone \/ SubmitFails \/ Reap \/ DrainAgain

FairSpec == Spec /\ WF_vars(Running) /\ SF_vars(Destroy)

----------------------------------------------------------------------------
(* Properties                                                               *)

Cqes == [slot : Slots, kind : {"send"}, res : Results, more : BOOLEAN]
            \union [slot : Slots, kind : {"notif"}]

(* Every variable has its type: what is handed to ngtcp2, prepared or       *)
(* released is always a slot of the slab.                                   *)
TypeOK ==
    /\ phase \in {"idle", "reserve", "assembling", "submit", "reap", "wait",
                  "failed", "gone"}
    /\ ctx \in {"flush", "reserve", "wait", "waited", "drain"}
    /\ free \subseteq Slots
    /\ reserved \in Slots \union {None}
    /\ phase = "assembling" => reserved # None
    /\ owner \subseteq Slots
    /\ sq \subseteq Slots
    /\ kern \in [Slots -> {"none", "sending", "notif"}]
    /\ cq \subseteq Cqes
    /\ err \in BOOLEAN /\ unsupported \in BOOLEAN
    /\ slab \in {"held", "freed", "leaked"}
    /\ submitFaults \in Nat

(* Each slot is in exactly one place: free, reserved for the next datagram, *)
(* or owned by a Buffer; only an owned slot is queued.  So inflight()       *)
(* counts the owned slots and a commit always finds room in the ring.       *)
SlotsOwned ==
    phase # "gone" =>
        /\ free \intersect owner = {}
        /\ reserved \notin free \union owner
        /\ Slots \subseteq free \union owner \union {reserved}
        /\ sq \subseteq owner

(* A slot the kernel may still read is neither free nor being assembled     *)
(* into: reserve() never hands it out before its last completion.           *)
KernelKeepsSlot ==
    phase # "gone" => \A s \in Slots : kern[s] # "none" => s \in owner

(* The slab is freed only when the kernel reads none of it any more; after  *)
(* a drain() that timed out it is leaked.                                   *)
SlabSafe == slab = "freed" => \A s \in Slots : kern[s] = "none"

LastCqe(c) == c.kind = "notif" \/ ~ c.more

(* A slot in flight will come back: it is still queued, with the kernel, or *)
(* its final completion is waiting to be reaped.                            *)
NoStrandedSlot ==
    phase # "gone" =>
        \A s \in owner : \/ s \in sq
                         \/ kern[s] # "none"
                         \/ \E c \in cq : c.slot = s /\ LastCqe(c)

CompletionDue == cq # {} \/ \E s \in Slots : kern[s] # "none"

(* As long as no submit has failed, reserve() blocks in io_uring_wait_cqe   *)
(* only while a completion is there or on its way.                          *)
WaitsForSomething == phase = "wait" /\ submitFaults = 0 => CompletionDue

(* The same with failing submits, which the code calls transient: "retried  *)
(* on the next flush".                                                      *)
AlwaysWaitsForSomething == phase = "wait" => CompletionDue

(* The destructor returns, even if the kernel never completes anything.     *)
DrainEnds == (ctx = "drain" /\ phase # "gone") ~> phase = "gone"

----------------------------------------------------------------------------
(* The inductive invariant behind them                                      *)

(* What a completion in the queue says about its slot. *)
CqeSound ==
    \A c \in cq :
        /\ c.slot \in owner \ sq
        /\ kern[c.slot] # "sending"
        /\ LastCqe(c) => kern[c.slot] = "none"
        /\ LastCqe(c) => \A d \in cq : d.slot = c.slot /\ LastCqe(d) => d = c
        /\ c.kind = "send" => \A d \in cq : d.slot = c.slot /\ d.kind = "send" => d = c

CallSound ==
    /\ phase \in {"submit", "reap", "wait"} /\ ctx \in {"reserve", "wait", "waited"}
           => reserved = None
    /\ submitFaults = 0 => ctx # "wait" /\ (phase \in {"reap", "wait"} => sq = {})
    /\ phase = "wait" => ctx \in {"reserve", "wait"}

EgressInv ==
    /\ TypeOK /\ SlotsOwned /\ NoStrandedSlot /\ SlabSafe /\ WaitsForSomething
    /\ phase # "gone" =>
           /\ \A s \in Slots : kern[s] # "none" => s \in owner \ sq
           /\ CqeSound
           /\ slab = "held"
    /\ CallSound
=============================================================================
