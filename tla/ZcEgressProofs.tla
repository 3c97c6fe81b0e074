-------------------------- MODULE ZcEgressProofs ----------------------------
(* Theorems about ZcEgress, for any set of slots and any number of failed   *)
(* submits.                                                                 *)
EXTENDS ZcEgress, TLAPS

(* A fresh egress satisfies the invariant. *)
LEMMA EgressInit == Init => EgressInv
  <1> SUFFICES ASSUME Init PROVE EgressInv
    OBVIOUS
  <1>1. TypeOK
    <2>1. kern \in [Slots -> {"none", "sending", "notif"}]
      BY DEF Init
    <2>2. err \in BOOLEAN /\ unsupported \in BOOLEAN
      BY Zenon DEF Init
    <2>3. cq \subseteq Cqes
      BY DEF Init
    <2>4. submitFaults \in Nat /\ free \subseteq Slots /\ reserved \in Slots \union {None}
      BY DEF Init
    <2> QED BY <2>1, <2>2, <2>3, <2>4 DEF Init, TypeOK
  <1>2. SlotsOwned /\ NoStrandedSlot /\ SlabSafe /\ WaitsForSomething
    BY SlotsAssumption DEF Init, SlotsOwned, NoStrandedSlot, SlabSafe, WaitsForSomething
  <1>3. CqeSound /\ CallSound /\ slab = "held"
    BY DEF Init, CqeSound, CallSound
  <1>4. \A s \in Slots : kern[s] # "none" => s \in owner \ sq
    BY DEF Init
  <1> QED BY <1>1, <1>2, <1>3, <1>4 DEF EgressInv

(* The thread's steps that only move it on, changing neither slots nor ring. *)
Moves ==
    \/ BeginPacket \/ ReserveAgain \/ ReserveNull \/ ReserveBlocked
    \/ NothingToSend \/ CommitFails \/ FlushPackets \/ SubmitDone
    \/ ReapFlush \/ ReapReserve \/ ReapThenWait \/ WaitCqe \/ WaitInterrupted
    \/ ReapWaited \/ Reset \/ DrainAgain

(* Moving on keeps the invariant; only ReapReserve enters the wait without a *)
(* failed submit, and then every slot is in flight and none is queued.       *)
LEMMA MovesKeepInv == EgressInv /\ Moves => EgressInv'
  <1> SUFFICES ASSUME EgressInv, Moves PROVE EgressInv'
    OBVIOUS
  <1>1. UNCHANGED <<egressVars, ringVars>> /\ phase # "gone" /\ phase' # "gone"
    BY DEF Moves, BeginPacket, ReserveAgain, ReserveNull, ReserveBlocked,
           NothingToSend, CommitFails, FlushPackets, SubmitDone, ReapFlush,
           ReapReserve, ReapThenWait, WaitCqe, WaitInterrupted, ReapWaited,
           Reset, DrainAgain, Idle
  <1>2. TypeOK'
    BY <1>1 DEF EgressInv, TypeOK, egressVars, ringVars,
           Moves, BeginPacket, ReserveAgain, ReserveNull, ReserveBlocked,
           NothingToSend, CommitFails, FlushPackets, SubmitDone, ReapFlush,
           ReapReserve, ReapThenWait, WaitCqe, WaitInterrupted, ReapWaited,
           Reset, DrainAgain, Idle
  <1>3. /\ SlotsOwned' /\ NoStrandedSlot' /\ SlabSafe' /\ CqeSound' /\ slab' = "held"
        /\ (\A s \in Slots : kern[s] # "none" => s \in owner \ sq)'
    BY <1>1 DEF EgressInv, SlotsOwned, NoStrandedSlot, SlabSafe, CqeSound,
                egressVars, ringVars
  <1>4. CallSound'
    BY <1>1 DEF EgressInv, CallSound, TypeOK, egressVars, ringVars,
           Moves, BeginPacket, ReserveAgain, ReserveNull, ReserveBlocked,
           NothingToSend, CommitFails, FlushPackets, SubmitDone, ReapFlush,
           ReapReserve, ReapThenWait, WaitCqe, WaitInterrupted, ReapWaited,
           Reset, DrainAgain, Idle
  <1>5. WaitsForSomething'
    <2> SUFFICES ASSUME phase' = "wait", submitFaults = 0 PROVE CompletionDue
      BY <1>1 DEF WaitsForSomething, CompletionDue, egressVars, ringVars
    <2>1. ReapReserve /\ cq = {} /\ sq = {} /\ free = {} /\ reserved = None
      BY DEF EgressInv, CallSound,
           Moves, BeginPacket, ReserveAgain, ReserveNull, ReserveBlocked,
           NothingToSend, CommitFails, FlushPackets, SubmitDone, ReapFlush,
           ReapReserve, ReapThenWait, WaitCqe, WaitInterrupted, ReapWaited,
           Reset, DrainAgain, Idle
    <2>2. PICK s \in Slots : s \in owner
      BY <1>1, <2>1, SlotsAssumption DEF EgressInv, SlotsOwned
    <2> QED BY <1>1, <2>1, <2>2 DEF EgressInv, NoStrandedSlot, CompletionDue
  <1> QED BY <1>2, <1>3, <1>4, <1>5 DEF EgressInv

(* What the invariant says while the egress lives. *)
Live ==
    /\ TypeOK /\ SlotsOwned /\ NoStrandedSlot /\ CqeSound /\ CallSound
    /\ slab = "held"
    /\ \A s \in Slots : kern[s] # "none" => s \in owner \ sq

LEMMA LiveInv ==
    /\ EgressInv /\ phase # "gone" => Live
    /\ Live /\ WaitsForSomething => EgressInv
  BY DEF EgressInv, Live, SlabSafe

LEMMA LiveInvNext == (Live /\ WaitsForSomething => EgressInv)'
  BY DEF EgressInv, Live, SlabSafe

(* Handing out a free slot. *)
LEMMA ReserveFreeKeepsInv == EgressInv /\ ReserveFree => EgressInv'
  <1> SUFFICES ASSUME EgressInv, ReserveFree PROVE EgressInv'
    OBVIOUS
  <1>1. Live
    BY LiveInv DEF ReserveFree
  <1>2. PICK s \in free : reserved' = s /\ free' = free \ {s}
    BY DEF ReserveFree
  <1>3. TypeOK'
    BY <1>1, <1>2, SlotsAssumption DEF Live, TypeOK, ReserveFree, ringVars
  <1>4. SlotsOwned' /\ NoStrandedSlot' /\ CqeSound'
    BY <1>1, <1>2, SlotsAssumption
       DEF Live, TypeOK, SlotsOwned, NoStrandedSlot, CqeSound, ReserveFree, ringVars
  <1>5. /\ CallSound' /\ WaitsForSomething' /\ slab' = "held"
        /\ (\A t \in Slots : kern[t] # "none" => t \in owner \ sq)'
    BY <1>1 DEF Live, CallSound, WaitsForSomething, ReserveFree, ringVars
  <1> QED BY <1>3, <1>4, <1>5, LiveInvNext DEF Live

(* Committing the reserved slot: it was neither queued nor in flight, so no *)
(* completion in the CQ is about it.                                        *)
LEMMA CommitKeepsInv == EgressInv /\ Commit => EgressInv'
  <1> SUFFICES ASSUME EgressInv, Commit PROVE EgressInv'
    OBVIOUS
  <1>1. Live
    BY LiveInv DEF Commit
  <1>2. reserved \in Slots /\ reserved \notin owner
    BY <1>1 DEF Live, TypeOK, SlotsOwned, Commit
  <1>3. TypeOK'
    BY <1>1, <1>2 DEF Live, TypeOK, Commit
  <1>4. SlotsOwned' /\ NoStrandedSlot'
    BY <1>1, <1>2, SlotsAssumption
       DEF Live, TypeOK, SlotsOwned, NoStrandedSlot, Commit
  <1>5. CqeSound'
    BY <1>1, <1>2 DEF Live, CqeSound, Commit
  <1>6. /\ CallSound' /\ WaitsForSomething' /\ slab' = "held"
        /\ (\A t \in Slots : kern[t] # "none" => t \in owner \ sq)'
    BY <1>1, <1>2 DEF Live, CallSound, WaitsForSomething, Commit
  <1> QED BY <1>3, <1>4, <1>5, <1>6, LiveInvNext DEF Live

(* Submitting queued slots: each is owned and becomes the kernel's. *)
LEMMA SubmitSomeKeepsInv == EgressInv /\ SubmitSome => EgressInv'
  <1> SUFFICES ASSUME EgressInv, SubmitSome PROVE EgressInv'
    OBVIOUS
  <1>1. Live
    BY LiveInv DEF SubmitSome
  <1>2. PICK S \in SUBSET sq :
            /\ S # {}
            /\ sq' = sq \ S
            /\ kern' = [s \in Slots |-> IF s \in S THEN "sending" ELSE kern[s]]
    BY DEF SubmitSome
  <1>3. UNCHANGED <<phase, ctx, free, reserved, owner, err, unsupported, slab, cq, submitFaults>>
    BY DEF SubmitSome, egressVars
  <1>4. TypeOK'
    <2>1. kern' \in [Slots -> {"none", "sending", "notif"}]
      BY <1>1, <1>2 DEF Live, TypeOK
    <2>2. sq' \subseteq Slots
      BY <1>1, <1>2 DEF Live, TypeOK
    <2> QED BY <1>1, <1>3, <2>1, <2>2 DEF Live, TypeOK
  <1>5. SlotsOwned' /\ NoStrandedSlot'
    BY <1>1, <1>2, <1>3 DEF Live, TypeOK, SlotsOwned, NoStrandedSlot
  <1>6. CqeSound'
    <2>1. \A c \in cq : c.slot \in Slots /\ c.slot \notin sq /\ kern'[c.slot] = kern[c.slot]
      BY <1>1, <1>2 DEF Live, TypeOK, CqeSound
    <2> QED BY <1>1, <1>2, <1>3, <2>1 DEF Live, CqeSound
  <1>7. (\A t \in Slots : kern[t] # "none" => t \in owner \ sq)'
    BY <1>1, <1>2, <1>3 DEF Live, SlotsOwned, SubmitSome
  <1>8. CallSound' /\ WaitsForSomething' /\ slab' = "held"
    BY <1>1, <1>2, <1>3 DEF Live, CallSound, WaitsForSomething, SubmitSome
  <1> QED BY <1>4, <1>5, <1>6, <1>7, <1>8, LiveInvNext DEF Live

(* A failed submit leaves the queue as it is. *)
LEMMA SubmitFailsKeepsInv == EgressInv /\ SubmitFails => EgressInv'
  <1> SUFFICES ASSUME EgressInv, SubmitFails PROVE EgressInv'
    OBVIOUS
  <1>1. Live
    BY LiveInv DEF SubmitFails
  <1>2. err' \in BOOLEAN
    BY <1>1, Zenon DEF Live, TypeOK, SubmitFails
  <1>3. submitFaults' \in Nat /\ submitFaults' # 0
    BY <1>1 DEF Live, TypeOK, SubmitFails
  <1>4. TypeOK'
    BY <1>1, <1>2, <1>3 DEF Live, TypeOK, SubmitFails
  <1>5. SlotsOwned' /\ NoStrandedSlot' /\ CqeSound'
    BY <1>1 DEF Live, SlotsOwned, NoStrandedSlot, CqeSound, SubmitFails
  <1>6. /\ CallSound' /\ WaitsForSomething' /\ slab' = "held"
        /\ (\A t \in Slots : kern[t] # "none" => t \in owner \ sq)'
    BY <1>1, <1>3 DEF Live, CallSound, WaitsForSomething, SubmitFails
  <1> QED BY <1>4, <1>5, <1>6, LiveInvNext DEF Live

(* Reaping a NOTIF: its send CQE has been seen, so it was the last about its *)
(* slot and the slot goes back.                                              *)
LEMMA ReapNotifKeepsInv == EgressInv /\ ReapNotif => EgressInv'
  <1> SUFFICES ASSUME EgressInv, ReapNotif PROVE EgressInv'
    OBVIOUS
  <1>1. Live
    BY LiveInv DEF ReapNotif
  <1>2. PICK c \in cq : /\ c.kind = "notif"
                        /\ ~ \E d \in cq : d.slot = c.slot /\ d.kind = "send"
                        /\ cq' = cq \ {c}
                        /\ Release(c.slot)
    BY DEF ReapNotif
  <1>3. /\ LastCqe(c) /\ c.slot \in owner \ sq /\ c.slot \in Slots
        /\ kern[c.slot] = "none"
    BY <1>1, <1>2 DEF Live, TypeOK, CqeSound, LastCqe
  <1>4. \A d \in cq' : d.slot # c.slot
    <2> SUFFICES ASSUME NEW d \in cq, d.slot = c.slot PROVE d = c
      BY <1>2
    <2>1. d.kind \in {"send", "notif"}
      BY <1>1 DEF Live, TypeOK, Cqes
    <2>2. LastCqe(d)
      BY <1>2, <2>1 DEF LastCqe
    <2> QED BY <1>1, <1>3, <2>2 DEF Live, CqeSound
  <1>5. /\ owner' = owner \ {c.slot} /\ free' = free \union {c.slot}
        /\ UNCHANGED <<phase, ctx, reserved, err, unsupported, slab, sq, kern, submitFaults>>
    BY <1>2, <1>3 DEF Release, ReapNotif
  <1>6. TypeOK'
    BY <1>1, <1>2, <1>3, <1>5 DEF Live, TypeOK
  <1>7. SlotsOwned'
    BY <1>1, <1>3, <1>5 DEF Live, SlotsOwned
  <1>8. NoStrandedSlot'
    BY <1>1, <1>2, <1>5 DEF Live, NoStrandedSlot
  <1>9. CqeSound'
    BY <1>1, <1>2, <1>4, <1>5 DEF Live, CqeSound
  <1>10. (\A t \in Slots : kern[t] # "none" => t \in owner \ sq)'
    BY <1>1, <1>3, <1>5 DEF Live
  <1>11. CallSound' /\ WaitsForSomething' /\ slab' = "held"
    BY <1>1, <1>5 DEF Live, CallSound, WaitsForSomething, ReapNotif
  <1> QED BY <1>6, <1>7, <1>8, <1>9, <1>10, <1>11, LiveInvNext DEF Live

(* Reaping a send CQE: with F_MORE the slot stays the kernel's, without it   *)
(* nothing else is queued about the slot and it goes back.                   *)
LEMMA ReapSendKeepsInv == EgressInv /\ ReapSend => EgressInv'
  <1> SUFFICES ASSUME EgressInv, ReapSend PROVE EgressInv'
    OBVIOUS
  <1>1. Live
    BY LiveInv DEF ReapSend
  <1>2. PICK c \in cq :
          /\ c.kind = "send"
          /\ cq' = cq \ {c}
          /\ err' \in CASE c.res = "error" -> {TRUE}
                        [] c.res \in {"refused", "unsupported"} -> {err, TRUE}
                        [] OTHER -> {err}
          /\ unsupported' = (unsupported \/ c.res = "unsupported")
          /\ IF Final(c) THEN Release(c.slot) ELSE UNCHANGED <<owner, free>>
    BY DEF ReapSend
  <1>3. UNCHANGED <<phase, ctx, reserved, slab, sq, kern, submitFaults>>
    BY DEF ReapSend
  <1>4. err' \in BOOLEAN
    <2>1. CASE c.res = "error"
      BY <1>2, <2>1, Zenon
    <2>2. CASE c.res # "error" /\ c.res \in {"refused", "unsupported"}
      <3>1. err' \in {err, TRUE}
        BY <1>2, <2>2
      <3> QED BY <1>1, <3>1, Zenon DEF Live, TypeOK
    <2>3. CASE c.res # "error" /\ c.res \notin {"refused", "unsupported"}
      <3>1. err' \in {err}
        BY <1>2, <2>3
      <3> QED BY <1>1, <3>1, Zenon DEF Live, TypeOK
    <2> QED BY <2>1, <2>2, <2>3
  <1>5. unsupported' \in BOOLEAN
    BY <1>2, Zenon
  <1>6. c.slot \in owner \ sq /\ c.slot \in Slots
    BY <1>1 DEF Live, TypeOK, CqeSound
  <1>7. CallSound' /\ WaitsForSomething' /\ slab' = "held"
    BY <1>1, <1>3 DEF Live, CallSound, WaitsForSomething, ReapSend
  <1>8. CASE Final(c)
    <2>1. owner' = owner \ {c.slot} /\ free' = free \union {c.slot}
      BY <1>2, <1>6, <1>8 DEF Release
    <2>2. LastCqe(c) /\ kern[c.slot] = "none"
      BY <1>1, <1>8 DEF Live, CqeSound, LastCqe, Final
    <2>3. \A d \in cq' : d.slot # c.slot
      <3> SUFFICES ASSUME NEW d \in cq, d.slot = c.slot PROVE d = c
        BY <1>2
      <3>1. d.kind \in {"send", "notif"}
        BY <1>1 DEF Live, TypeOK, Cqes
      <3>2. CASE d.kind = "send"
        BY <1>1, <1>2, <3>2 DEF Live, CqeSound
      <3>3. CASE d.kind = "notif"
        <4>1. LastCqe(d)
          BY <3>3 DEF LastCqe
        <4> QED BY <1>1, <2>2, <4>1 DEF Live, CqeSound
      <3> QED BY <3>1, <3>2, <3>3
    <2>4. TypeOK'
      BY <1>1, <1>2, <1>3, <1>4, <1>5, <1>6, <2>1 DEF Live, TypeOK
    <2>5. SlotsOwned'
      BY <1>1, <1>3, <1>6, <2>1 DEF Live, SlotsOwned
    <2>6. NoStrandedSlot'
      BY <1>1, <1>2, <1>3, <2>1 DEF Live, NoStrandedSlot
    <2>7. CqeSound'
      BY <1>1, <1>2, <1>3, <2>1, <2>3 DEF Live, CqeSound
    <2>8. (\A t \in Slots : kern[t] # "none" => t \in owner \ sq)'
      BY <1>1, <1>3, <2>1, <2>2 DEF Live
    <2> QED BY <1>7, <2>4, <2>5, <2>6, <2>7, <2>8, LiveInvNext DEF Live
  <1>9. CASE ~ Final(c)
    <2>1. owner' = owner /\ free' = free
      BY <1>2, <1>9
    <2>2. ~ LastCqe(c)
      BY <1>2, <1>9 DEF LastCqe, Final
    <2>3. TypeOK'
      BY <1>1, <1>2, <1>3, <1>4, <1>5, <2>1 DEF Live, TypeOK
    <2>4. SlotsOwned'
      BY <1>1, <1>3, <2>1 DEF Live, SlotsOwned
    <2>5. NoStrandedSlot'
      BY <1>1, <1>2, <1>3, <2>1, <2>2 DEF Live, NoStrandedSlot
    <2>6. CqeSound'
      BY <1>1, <1>2, <1>3, <2>1 DEF Live, CqeSound
    <2>7. (\A t \in Slots : kern[t] # "none" => t \in owner \ sq)'
      BY <1>1, <1>3, <2>1 DEF Live
    <2> QED BY <1>7, <2>3, <2>4, <2>5, <2>6, <2>7, LiveInvNext DEF Live
  <1> QED BY <1>8, <1>9

(* The destructor: inflight() = 0 means no Buffer is left, hence the kernel  *)
(* reads nothing, and only then is the slab freed.                           *)
LEMMA DestroyKeepsInv == EgressInv /\ Destroy => EgressInv'
  <1> SUFFICES ASSUME EgressInv, Destroy PROVE EgressInv'
    OBVIOUS
  <1>1. Live
    BY LiveInv DEF Destroy
  <1>2. TypeOK'
    BY <1>1 DEF Live, TypeOK, Destroy, SlabAfterDrain
  <1>3. SlabSafe'
    <2> SUFFICES ASSUME slab' = "freed" PROVE \A s \in Slots : kern[s] = "none"
      BY DEF SlabSafe, Destroy
    <2>1. Inflight = {}
      BY DEF Destroy, SlabAfterDrain
    <2>2. owner = {}
      BY <1>1, <2>1 DEF Live, TypeOK, SlotsOwned, Inflight, Destroy
    <2> QED BY <1>1, <2>2 DEF Live
  <1>4. SlotsOwned' /\ NoStrandedSlot' /\ WaitsForSomething' /\ CallSound' /\ phase' = "gone"
    BY <1>1 DEF SlotsOwned, NoStrandedSlot, WaitsForSomething, CallSound, Destroy
  <1> QED BY <1>2, <1>3, <1>4 DEF EgressInv

(* A send completing: no completion about its slot was queued before. *)
LEMMA KernelSendKeepsInv == EgressInv /\ KernelSend => EgressInv'
  <1> SUFFICES ASSUME EgressInv, KernelSend PROVE EgressInv'
    OBVIOUS
  <1>1. PICK s \in Slots, res \in Results, more \in BOOLEAN :
          /\ kern[s] = "sending"
          /\ Post(SendCqe(s, res, more))
          /\ kern' = [kern EXCEPT ![s] = IF more THEN "notif" ELSE "none"]
    BY DEF KernelSend
  <1>2. UNCHANGED <<phase, ctx, free, reserved, owner, err, unsupported, slab, sq, submitFaults>>
    BY DEF KernelSend, egressVars
  <1> DEFINE c == SendCqe(s, res, more)
  <1>3. /\ c \in Cqes /\ c.slot = s /\ c.kind = "send" /\ c.more = more
    BY DEF SendCqe, Cqes
  <1>4. kern \in [Slots -> {"none", "sending", "notif"}]
    BY DEF EgressInv, TypeOK
  <1>5. /\ kern' \in [Slots -> {"none", "sending", "notif"}]
        /\ kern'[s] = IF more THEN "notif" ELSE "none"
        /\ \A t \in Slots \ {s} : kern'[t] = kern[t]
    BY <1>1, <1>4
  <1> HIDE DEF c
  <1>6. cq' \subseteq Cqes
    BY <1>1, <1>3 DEF Post, EgressInv, TypeOK, c
  <1>7. TypeOK'
    BY <1>2, <1>5, <1>6 DEF EgressInv, TypeOK
  <1>8. CASE phase = "gone"
    BY <1>1, <1>2, <1>7, <1>8
       DEF EgressInv, SlotsOwned, NoStrandedSlot, SlabSafe, WaitsForSomething, CallSound
  <1>9. CASE phase # "gone"
    <2>1. Live
      BY <1>9, LiveInv
    <2>2. cq' = cq \union {c}
      BY <1>1, <1>9 DEF Post, c
    <2>3. s \in owner \ sq /\ \A d \in cq : d.slot # s
      BY <1>1, <2>1 DEF Live, CqeSound
    <2>4. LastCqe(c) <=> ~ more
      BY <1>3 DEF LastCqe
    <2>5. SlotsOwned'
      BY <1>2, <2>1 DEF Live, SlotsOwned
    <2>6. NoStrandedSlot'
      <3> SUFFICES ASSUME NEW t \in owner
                   PROVE \/ t \in sq
                         \/ kern'[t] # "none"
                         \/ \E d \in cq' : d.slot = t /\ LastCqe(d)
        BY <1>2 DEF NoStrandedSlot
      <3>1. CASE t = s
        BY <1>3, <1>5, <2>2, <2>4, <3>1
      <3>2. CASE t # s
        BY <1>5, <1>9, <2>1, <2>2, <3>2 DEF Live, TypeOK, NoStrandedSlot
      <3> QED BY <3>1, <3>2
    <2>7. CqeSound'
      <3>1. ASSUME NEW d \in cq
            PROVE /\ d.slot \in owner \ sq
                  /\ kern'[d.slot] # "sending"
                  /\ LastCqe(d) => kern'[d.slot] = "none"
                  /\ LastCqe(d) => \A e \in cq' : e.slot = d.slot /\ LastCqe(e) => e = d
                  /\ d.kind = "send" => \A e \in cq' : e.slot = d.slot /\ e.kind = "send" => e = d
        <4>1. d.slot \in Slots \ {s} /\ d.slot # c.slot
          BY <1>3, <2>1, <2>3 DEF Live, TypeOK, CqeSound
        <4> QED BY <1>5, <2>1, <2>2, <4>1 DEF Live, CqeSound
      <3>2. /\ c.slot \in owner \ sq
            /\ kern'[c.slot] # "sending"
            /\ LastCqe(c) => kern'[c.slot] = "none"
            /\ \A e \in cq' : e.slot = c.slot => e = c
        BY <1>3, <1>5, <2>2, <2>3, <2>4
      <3> QED BY <1>2, <2>2, <3>1, <3>2 DEF CqeSound
    <2>8. (\A t \in Slots : kern[t] # "none" => t \in owner \ sq)'
      BY <1>2, <1>5, <2>1, <2>3 DEF Live
    <2>9. CallSound' /\ slab' = "held"
      BY <1>2, <2>1 DEF Live, CallSound
    <2>10. WaitsForSomething'
      BY <2>2 DEF WaitsForSomething, CompletionDue
    <2> QED BY <1>7, <2>1, <2>5, <2>6, <2>7, <2>8, <2>9, <2>10, LiveInvNext DEF Live
  <1> QED BY <1>8, <1>9

(* A NOTIF: what is queued about its slot can only be its own send CQE. *)
LEMMA KernelNotifKeepsInv == EgressInv /\ KernelNotif => EgressInv'
  <1> SUFFICES ASSUME EgressInv, KernelNotif PROVE EgressInv'
    OBVIOUS
  <1>1. PICK s \in Slots :
          /\ kern[s] = "notif"
          /\ Post(NotifCqe(s))
          /\ kern' = [kern EXCEPT ![s] = "none"]
    BY DEF KernelNotif
  <1>2. UNCHANGED <<phase, ctx, free, reserved, owner, err, unsupported, slab, sq, submitFaults>>
    BY DEF KernelNotif, egressVars
  <1> DEFINE c == NotifCqe(s)
  <1>3. /\ c \in Cqes /\ c.slot = s /\ c.kind = "notif"
    BY DEF NotifCqe, Cqes
  <1>4. kern \in [Slots -> {"none", "sending", "notif"}]
    BY DEF EgressInv, TypeOK
  <1>5. /\ kern' \in [Slots -> {"none", "sending", "notif"}]
        /\ kern'[s] = "none"
        /\ \A t \in Slots \ {s} : kern'[t] = kern[t]
    BY <1>1, <1>4
  <1> HIDE DEF c
  <1>6. cq' \subseteq Cqes
    BY <1>1, <1>3 DEF Post, EgressInv, TypeOK, c
  <1>7. TypeOK'
    BY <1>2, <1>5, <1>6 DEF EgressInv, TypeOK
  <1>8. CASE phase = "gone"
    BY <1>1, <1>2, <1>7, <1>8
       DEF EgressInv, SlotsOwned, NoStrandedSlot, SlabSafe, WaitsForSomething, CallSound
  <1>9. CASE phase # "gone"
    <2>1. Live
      BY <1>9, LiveInv
    <2>2. cq' = cq \union {c}
      BY <1>1, <1>9 DEF Post, c
    <2>3. s \in owner \ sq /\ \A d \in cq : d.slot = s => ~ LastCqe(d)
      BY <1>1, <2>1 DEF Live, CqeSound
    <2>4. LastCqe(c)
      BY <1>3 DEF LastCqe
    <2>5. SlotsOwned'
      BY <1>2, <2>1 DEF Live, SlotsOwned
    <2>6. NoStrandedSlot'
      <3> SUFFICES ASSUME NEW t \in owner
                   PROVE \/ t \in sq
                         \/ kern'[t] # "none"
                         \/ \E d \in cq' : d.slot = t /\ LastCqe(d)
        BY <1>2 DEF NoStrandedSlot
      <3>1. CASE t = s
        BY <1>3, <2>2, <2>4, <3>1
      <3>2. CASE t # s
        BY <1>5, <1>9, <2>1, <2>2, <3>2 DEF Live, TypeOK, NoStrandedSlot
      <3> QED BY <3>1, <3>2
    <2>7. CqeSound'
      <3>1. ASSUME NEW d \in cq
            PROVE /\ d.slot \in owner \ sq
                  /\ kern'[d.slot] # "sending"
                  /\ LastCqe(d) => kern'[d.slot] = "none"
                  /\ LastCqe(d) => \A e \in cq' : e.slot = d.slot /\ LastCqe(e) => e = d
                  /\ d.kind = "send" => \A e \in cq' : e.slot = d.slot /\ e.kind = "send" => e = d
        <4>1. d.slot \in owner \ sq /\ d.slot \in Slots
          BY <2>1 DEF Live, TypeOK, CqeSound
        <4>2. CASE d.slot = s
          <5>1. ~ LastCqe(d) /\ c.kind # "send"
            BY <1>3, <2>3, <4>2
          <5> QED BY <1>5, <2>1, <2>2, <4>1, <4>2, <5>1 DEF Live, CqeSound
        <4>3. CASE d.slot # s
          <5>1. d.slot # c.slot /\ kern'[d.slot] = kern[d.slot]
            BY <1>3, <1>5, <4>1, <4>3
          <5> QED BY <2>1, <2>2, <4>1, <5>1 DEF Live, CqeSound
        <4> QED BY <4>2, <4>3
      <3>2. /\ c.slot \in owner \ sq
            /\ kern'[c.slot] = "none"
            /\ \A e \in cq' : e.slot = c.slot /\ LastCqe(e) => e = c
            /\ c.kind # "send"
        BY <1>3, <1>5, <2>2, <2>3
      <3> QED BY <1>2, <2>2, <3>1, <3>2 DEF CqeSound
    <2>8. (\A t \in Slots : kern[t] # "none" => t \in owner \ sq)'
      BY <1>2, <1>5, <2>1, <2>3 DEF Live
    <2>9. CallSound' /\ slab' = "held"
      BY <1>2, <2>1 DEF Live, CallSound
    <2>10. WaitsForSomething'
      BY <2>2 DEF WaitsForSomething, CompletionDue
    <2> QED BY <1>7, <2>1, <2>5, <2>6, <2>7, <2>8, <2>9, <2>10, LiveInvNext DEF Live
  <1> QED BY <1>8, <1>9

(* Stuttering, and the end state's own step. *)
LEMMA StutterKeepsInv == EgressInv /\ UNCHANGED vars => EgressInv'
  BY DEF EgressInv, TypeOK, SlotsOwned, NoStrandedSlot, SlabSafe, WaitsForSomething,
         CompletionDue, CqeSound, CallSound, vars, egressVars, ringVars

(* EgressInv is inductive: Moves and the eight other actions are Next. *)
LEMMA EgressStep == EgressInv /\ [Next]_vars => EgressInv'
  <1> SUFFICES ASSUME EgressInv, [Next]_vars PROVE EgressInv'
    OBVIOUS
  <1>1. \/ Moves \/ ReserveFree \/ Commit \/ SubmitSome \/ SubmitFails
        \/ ReapNotif \/ ReapSend \/ Destroy \/ KernelSend \/ KernelNotif
        \/ UNCHANGED vars
    BY DEF Next, Reserve, Assemble, Flush, Reap, Drain, Kernel, Gone, Moves
  <1> QED BY <1>1, MovesKeepInv, ReserveFreeKeepsInv, CommitKeepsInv,
             SubmitSomeKeepsInv, SubmitFailsKeepsInv, ReapNotifKeepsInv,
             ReapSendKeepsInv, DestroyKeepsInv, KernelSendKeepsInv,
             KernelNotifKeepsInv, StutterKeepsInv

(* Every reachable state of the egress satisfies the inductive invariant. *)
THEOREM EgressIsSound == Spec => []EgressInv
  BY EgressInit, EgressStep, PTL DEF Spec

(* Every variable of the egress keeps its type. *)
THEOREM EgressTyping == Spec => []TypeOK
  <1>1. EgressInv => TypeOK
    BY DEF EgressInv
  <1> QED BY <1>1, EgressIsSound, PTL

(* Each slot is free, reserved or owned, and only owned slots are queued:    *)
(* commit() always finds an SQE.                                             *)
THEOREM SlotsAreOwned == Spec => []SlotsOwned
  <1>1. EgressInv => SlotsOwned
    BY DEF EgressInv
  <1> QED BY <1>1, EgressIsSound, PTL

(* reserve() never hands out, and release never frees, a slot that the       *)
(* kernel may still read.                                                    *)
THEOREM KernelKeepsItsSlots == Spec => []KernelKeepsSlot
  <1>1. EgressInv => KernelKeepsSlot
    BY DEF EgressInv, KernelKeepsSlot
  <1> QED BY <1>1, EgressIsSound, PTL

(* The destructor frees the slab only when the kernel is done with it.       *)
THEOREM SlabIsSafe == Spec => []SlabSafe
  <1>1. EgressInv => SlabSafe
    BY DEF EgressInv
  <1> QED BY <1>1, EgressIsSound, PTL

(* No slot in flight is lost: its release is still to come.                  *)
THEOREM NoSlotStranded == Spec => []NoStrandedSlot
  <1>1. EgressInv => NoStrandedSlot
    BY DEF EgressInv
  <1> QED BY <1>1, EgressIsSound, PTL

(* Until a submit fails, reserve() never blocks with nothing to wait for.    *)
THEOREM ReserveWaitsForSomething == Spec => []WaitsForSomething
  <1>1. EgressInv => WaitsForSomething
    BY DEF EgressInv
  <1> QED BY <1>1, EgressIsSound, PTL
=============================================================================
