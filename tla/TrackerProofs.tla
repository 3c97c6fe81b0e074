--------------------------- MODULE TrackerProofs ----------------------------
(* Theorems about Tracker, for any senders, receivers, tokens and addresses, *)
(* any TTL and any number of restarts.                                       *)
EXTENDS Tracker, TLAPS

(* A tracker nobody has used yet satisfies the invariant. *)
LEMMA TrackerInit == Init => TrackerInv
  <1> SUFFICES ASSUME Init PROVE TrackerInv
    OBVIOUS
  <1>1. NoRecord \in Records
    BY DEF NoRecord, Record, Records
  <1>2. store \in [Tokens -> Records] /\ \A t \in Tokens : ~ Found(t)
    BY <1>1 DEF Init, Found
  <1>3. TypeOK
    BY <1>2, TrackerAssumption DEF Init, TypeOK
  <1>4. RecordsOwned
    BY <1>2 DEF RecordsOwned
  <1>5. RequestsInOrder /\ StoredIsKept
    BY DEF Init, RequestsInOrder, StoredIsKept
  <1> QED BY <1>3, <1>4, <1>5 DEF TrackerInv

(* Evicting keeps the store's type, its owned records and the fresh ones. *)
LEMMA EvictedKeeps ==
  ASSUME TrackerInv, store' = Evicted,
         UNCHANGED <<now, senderVars, restarts>>
  PROVE  /\ store' \in [Tokens -> Records]
         /\ RecordsOwned' /\ RequestsInOrder' /\ StoredIsKept'
  <1>1. NoRecord \in Records
    BY DEF NoRecord, Record, Records
  <1>2. store \in [Tokens -> Records] /\ stamp \in [Senders -> Nat] /\ now \in Nat
    BY DEF TrackerInv, TypeOK
  <1>3. /\ store' \in [Tokens -> Records]
        /\ \A t \in Tokens : store'[t] \in {NoRecord, store[t]}
        /\ \A t \in Tokens : Found(t) /\ ~ Expired(store[t]) => store'[t] = store[t]
    BY <1>1, <1>2 DEF Evicted
  <1>4. RecordsOwned'
    BY <1>3 DEF TrackerInv, RecordsOwned, Found, senderVars, client_ip
  <1>5. RequestsInOrder'
    BY DEF TrackerInv, RequestsInOrder, senderVars
  <1>6. StoredIsKept'
    <2> SUFFICES ASSUME NEW s \in Senders, reg[s] = "stored", unreg[s] # "removed",
                        Alone(s), restarts = 0, now - stamp[s] <= TTL
                 PROVE  store'[TokenOf[s]] = Record(client_ip(s), stamp[s], s)
      BY DEF StoredIsKept, Alone, senderVars, client_ip
    <2>1. TokenOf[s] \in Tokens
      BY TrackerAssumption
    <2>2. store[TokenOf[s]] = Record(client_ip(s), stamp[s], s)
      BY DEF TrackerInv, StoredIsKept
    <2>3. store[TokenOf[s]].by = s /\ store[TokenOf[s]].at = stamp[s]
      BY <2>2 DEF Record
    <2>4. Found(TokenOf[s])
      BY <2>3, TrackerAssumption DEF Found, NoRecord, Record
    <2>5. ~ Expired(store[TokenOf[s]])
      BY <1>2, <2>3, TrackerAssumption DEF Expired
    <2> QED BY <1>3, <2>1, <2>2, <2>4, <2>5
  <1> QED BY <1>3, <1>4, <1>5, <1>6

(* A step that leaves the store, the requests and the clock alone keeps what *)
(* the invariant says of them.                                               *)
LEMMA StoreUntouched ==
  ASSUME TrackerInv, UNCHANGED <<now, store, reg, stamp, unreg, restarts>>
  PROVE  RecordsOwned' /\ StoredIsKept'
  <1>1. RecordsOwned'
    BY DEF TrackerInv, RecordsOwned, Found, client_ip
  <1>2. StoredIsKept'
    BY DEF TrackerInv, StoredIsKept, Alone, client_ip
  <1> QED BY <1>1, <1>2

(* So does a step of a receiver, if it keeps the receivers' types. *)
LEMMA SendersUntouched ==
  ASSUME TrackerInv, UNCHANGED <<now, store, senderVars, restarts>>
  PROVE  RecordsOwned' /\ RequestsInOrder' /\ StoredIsKept'
  <1>1. RecordsOwned' /\ StoredIsKept'
    BY StoreUntouched DEF senderVars
  <1>2. RequestsInOrder'
    BY DEF TrackerInv, RequestsInOrder, senderVars
  <1> QED BY <1>1, <1>2

(* run_push_cli's steps change where the sender is, and one request. *)
LEMMA SenderSteps ==
  ASSUME TrackerInv, NEW s \in Senders, SenderStep(s)
  PROVE  TrackerInv'
  <1> USE DEF TrackerInv
  <1>1. CASE Bind(s) \/ Registered(s) \/ RegisterTimesOut(s) \/ Unregistered(s) \/ SenderDies(s)
    <2>1. UNCHANGED <<now, store, reg, stamp, unreg, receiverVars, restarts>>
      BY <1>1 DEF Bind, Registered, RegisterTimesOut, Unregistered, SenderDies
    <2>2. PICK where \in {"failed", "bound", "accepting", "done"} :
            /\ Goto(s, where)
            /\ where = "bound" => sender[s] = "off"
            /\ where = "accepting" => sender[s] = "registering" /\ reg[s] = "stored"
            /\ where = "done" => sender[s] = "unregistering"
      BY <1>1 DEF Bind, Registered, RegisterTimesOut, Unregistered, SenderDies
    <2>3. TypeOK'
      BY <2>1, <2>2 DEF TypeOK, Goto, receiverVars
    <2>4. RequestsInOrder'
      BY <2>1, <2>2 DEF TypeOK, Goto, RequestsInOrder
    <2> QED BY <2>1, <2>3, <2>4, StoreUntouched
  <1>2. CASE Register(s)
    <2>1. PICK q \in {"sent", "port_zero"} : reg' = [reg EXCEPT ![s] = q]
      BY <1>2 DEF Register
    <2>2. TypeOK'
      BY <1>2, <2>1 DEF Register, TypeOK, Goto, receiverVars
    <2>3. reg[s] = "none" /\ unreg[s] = "none"
      BY <1>2 DEF Register, RequestsInOrder
    <2>4. RequestsInOrder'
      BY <1>2, <2>1, <2>3 DEF Register, TypeOK, Goto, RequestsInOrder
    <2>5. RecordsOwned'
      BY <1>2, <2>1, <2>3 DEF Register, TypeOK, RecordsOwned, Found, client_ip
    <2>6. StoredIsKept'
      BY <1>2, <2>1 DEF Register, TypeOK, StoredIsKept, Alone, client_ip
    <2> QED BY <2>2, <2>4, <2>5, <2>6
  <1>3. CASE Accept(s)
    <2>1. PICK r \in Receivers :
            /\ receiver[r] = "connected" /\ peer[r] = s
            /\ receiver' = [receiver EXCEPT ![r] = "pulling"]
      BY <1>3 DEF Accept
    <2>2. TypeOK'
      BY <1>3, <2>1 DEF Accept, TypeOK, Goto
    <2>3. RequestsInOrder'
      BY <1>3 DEF Accept, TypeOK, Goto, RequestsInOrder
    <2> QED BY <1>3, <2>2, <2>3, StoreUntouched DEF Accept
  <1>4. CASE Served(s)
    <2>1. TypeOK'
      BY <1>4 DEF Served, TypeOK, Goto, receiverVars
    <2>2. RequestsInOrder'
      BY <1>4 DEF Served, TypeOK, Goto, RequestsInOrder
    <2>3. RecordsOwned'
      BY <1>4 DEF Served, TypeOK, RecordsOwned, Found, client_ip
    <2>4. StoredIsKept'
      <3>1. unreg[s] = "none"
        BY <1>4 DEF Served, RequestsInOrder
      <3> QED BY <1>4, <3>1 DEF Served, TypeOK, StoredIsKept, Alone, client_ip
    <2> QED BY <2>1, <2>2, <2>3, <2>4
  <1> QED BY <1>1, <1>2, <1>3, <1>4 DEF SenderStep

(* The handlers of register and unregister. *)
LEMMA HandlerSteps ==
  ASSUME TrackerInv, NEW s \in Senders, Handler(s)
  PROVE  TrackerInv'
  <1> USE DEF TrackerInv
  <1>0. NoRecord \in Records /\ TokenOf[s] \in Tokens
    BY TrackerAssumption DEF NoRecord, Record, Records
  <1>1. CASE HandleRegister(s)
    <2>1. reg[s] # "stored" /\ unreg[s] = "none"
      BY <1>1 DEF HandleRegister, RequestsInOrder, TypeOK
    <2>2. reg'[s] \in {"rejected", "stamped"}
      BY <1>1 DEF HandleRegister, TypeOK
    <2>3. TypeOK'
      BY <1>1 DEF HandleRegister, TypeOK, receiverVars
    <2>4. RequestsInOrder'
      BY <1>1, <2>1, <2>2 DEF HandleRegister, TypeOK, RequestsInOrder
    <2>5. RecordsOwned'
      BY <1>1, <2>1 DEF HandleRegister, TypeOK, RecordsOwned, Found, client_ip
    <2>6. StoredIsKept'
      BY <1>1, <2>1, <2>2 DEF HandleRegister, TypeOK, StoredIsKept, Alone, client_ip
    <2> QED BY <2>3, <2>4, <2>5, <2>6
  <1>2. CASE Upsert(s)
    <2> DEFINE R == Record(client_ip(s), stamp[s], s)
    <2>1. R \in Records /\ R.by = s
      BY TrackerAssumption DEF TypeOK, Record, Records, client_ip
    <2>2. reg[s] # "stored" /\ unreg[s] = "none"
      BY <1>2 DEF Upsert, RequestsInOrder, TypeOK
    <2>3. store' = [store EXCEPT ![TokenOf[s]] = R]
      BY <1>2 DEF Upsert
    <2> HIDE DEF R
    <2>4. TypeOK'
      BY <1>0, <1>2, <2>1, <2>3 DEF Upsert, TypeOK, receiverVars
    <2>5. RequestsInOrder'
      BY <1>2, <2>2 DEF Upsert, TypeOK, RequestsInOrder
    <2>6. RecordsOwned'
      <3> SUFFICES ASSUME NEW t \in Tokens, Found(t)'
                   PROVE  LET o == store'[t].by IN
                          /\ o \in Senders /\ TokenOf[o] = t
                          /\ reg'[o] = "stored" /\ unreg'[o] # "removed"
                          /\ store'[t] = Record(client_ip(o), stamp'[o], o)
        BY DEF RecordsOwned, client_ip
      <3>1. CASE t = TokenOf[s]
        <4>1. store'[t] = R
          BY <1>0, <2>3, <3>1 DEF TypeOK
        <4> QED BY <1>2, <2>1, <2>2, <3>1, <4>1 DEF Upsert, TypeOK, R
      <3>2. CASE t # TokenOf[s]
        <4>1. store'[t] = store[t] /\ Found(t)
          BY <2>3, <3>2 DEF TypeOK, Found
        <4> QED BY <1>2, <2>2, <3>2, <4>1 DEF Upsert, TypeOK, RecordsOwned
      <3> QED BY <3>1, <3>2
    <2>7. StoredIsKept'
      <3> SUFFICES ASSUME NEW o \in Senders, reg'[o] = "stored", unreg[o] # "removed",
                          Alone(o), restarts = 0, now - stamp[o] <= TTL
                   PROVE  store'[TokenOf[o]] = Record(client_ip(o), stamp[o], o)
        BY <1>2 DEF Upsert, StoredIsKept, Alone, client_ip
      <3>1. CASE o = s
        BY <1>0, <2>3, <3>1 DEF TypeOK, R
      <3>2. CASE o # s
        <4>1. TokenOf[o] # TokenOf[s] /\ TokenOf[o] \in Tokens
          BY <3>2, TrackerAssumption DEF Alone
        <4>2. reg[o] = "stored"
          BY <1>2, <3>2 DEF Upsert, TypeOK
        <4> QED BY <2>3, <4>1, <4>2 DEF TypeOK, StoredIsKept
      <3> QED BY <3>1, <3>2
    <2> QED BY <2>4, <2>5, <2>6, <2>7
  <1>3. CASE HandleUnregister(s)
    <2>1. store' = [store EXCEPT ![TokenOf[s]] = NoRecord] /\ unreg' = [unreg EXCEPT ![s] = "removed"]
      BY <1>3 DEF HandleUnregister
    <2>2. TypeOK'
      BY <1>0, <1>3 DEF HandleUnregister, TypeOK, receiverVars
    <2>3. RequestsInOrder'
      BY <1>3 DEF HandleUnregister, TypeOK, RequestsInOrder
    <2>4. RecordsOwned'
      <3> SUFFICES ASSUME NEW t \in Tokens, Found(t)'
                   PROVE  LET o == store'[t].by IN
                          /\ o \in Senders /\ TokenOf[o] = t
                          /\ reg'[o] = "stored" /\ unreg'[o] # "removed"
                          /\ store'[t] = Record(client_ip(o), stamp'[o], o)
        BY DEF RecordsOwned, client_ip
      <3>1. t # TokenOf[s] /\ store'[t] = store[t] /\ Found(t)
        BY <1>0, <2>1 DEF TypeOK, Found
      <3> QED BY <1>3, <2>1, <3>1 DEF HandleUnregister, TypeOK, RecordsOwned
    <2>5. StoredIsKept'
      <3> SUFFICES ASSUME NEW o \in Senders, reg[o] = "stored", unreg'[o] # "removed",
                          Alone(o), restarts = 0, now - stamp[o] <= TTL
                   PROVE  store'[TokenOf[o]] = Record(client_ip(o), stamp[o], o)
        BY <1>3 DEF HandleUnregister, StoredIsKept, Alone, client_ip
      <3>1. o # s /\ unreg[o] # "removed"
        BY <2>1 DEF TypeOK
      <3>2. TokenOf[o] # TokenOf[s] /\ TokenOf[o] \in Tokens
        BY <3>1, TrackerAssumption DEF Alone
      <3> QED BY <2>1, <3>1, <3>2 DEF TypeOK, StoredIsKept
    <2> QED BY <2>2, <2>3, <2>4, <2>5
  <1> QED BY <1>1, <1>2, <1>3 DEF Handler

(* A receiver's steps touch the store only by evicting. *)
LEMMA ReceiverSteps ==
  ASSUME TrackerInv, NEW r \in Receivers, ReceiverStep(r)
  PROVE  TrackerInv'
  <1> USE DEF TrackerInv
  <1>1. CASE Pull(r)
    <2>1. TypeOK'
      <3>1. CASE wants[r] # None
        BY <1>1, <3>1 DEF Pull, TypeOK, senderVars
      <3>2. CASE wants[r] = None
        <4>1. PICK a \in Addrs : target' = [target EXCEPT ![r] = a]
          BY <1>1, <3>2 DEF Pull
        <4> QED BY <1>1, <3>2, <4>1, TrackerAssumption DEF Pull, TypeOK, senderVars
      <3> QED BY <3>1, <3>2
    <2> QED BY <1>1, <2>1, SendersUntouched DEF Pull
  <1>2. CASE HandleResolve(r)
    <2>1. /\ store' \in [Tokens -> Records]
          /\ RecordsOwned' /\ RequestsInOrder' /\ StoredIsKept'
      BY <1>2, EvictedKeeps DEF HandleResolve
    <2>2. wants[r] \in Tokens
      BY <1>2 DEF HandleResolve, TypeOK
    <2>3. CASE Resolves(wants[r]) /\ ResolveView[wants[r]].addr # EmptyIp
      <3>1. Found(wants[r]) /\ ResolveView[wants[r]] = store[wants[r]]
        BY <2>2, <2>3 DEF Resolves, ResolveView, Evicted, Found
      <3>2. store[wants[r]].addr \in {EmptyIp} \union Addrs
        <4> DEFINE s == store[wants[r]].by
        <4>1. s \in Senders /\ store[wants[r]] = Record(client_ip(s), stamp[s], s)
          BY <2>2, <3>1 DEF RecordsOwned
        <4> HIDE DEF s
        <4>2. store[wants[r]].addr = client_ip(s)
          BY <4>1 DEF Record
        <4> QED BY <4>1, <4>2, TrackerAssumption DEF client_ip
      <3>3. /\ receiver' = [receiver EXCEPT ![r] = "connecting"]
            /\ target' = [target EXCEPT ![r] = store[wants[r]].addr]
            /\ store[wants[r]].addr \in Addrs
        BY <1>2, <2>3, <3>1, <3>2 DEF HandleResolve
      <3>4. TypeOK'
        BY <1>2, <2>1, <3>3, TrackerAssumption DEF HandleResolve, TypeOK, senderVars
      <3> QED BY <2>1, <3>4
    <2>4. CASE ~ (Resolves(wants[r]) /\ ResolveView[wants[r]].addr # EmptyIp)
      <3>1. receiver' = [receiver EXCEPT ![r] = "failed"] /\ target' = target
        BY <1>2, <2>4 DEF HandleResolve
      <3>2. TypeOK'
        BY <1>2, <2>1, <3>1 DEF HandleResolve, TypeOK, senderVars
      <3> QED BY <2>1, <3>2
    <2> QED BY <2>3, <2>4
  <1>3. CASE ResolveTimesOut(r) \/ ConnectionReset(r)
    <2>1. /\ receiver' = [receiver EXCEPT ![r] = "failed"]
          /\ UNCHANGED <<now, store, senderVars, wants, target, peer, restarts>>
      BY <1>3 DEF ResolveTimesOut, ConnectionReset
    <2>2. TypeOK'
      BY <2>1 DEF TypeOK, senderVars
    <2> QED BY <2>1, <2>2, SendersUntouched
  <1>4. CASE Connect(r)
    <2>1. /\ receiver[r] = "connecting"
          /\ UNCHANGED <<now, store, senderVars, wants, target, restarts>>
      BY <1>4 DEF Connect
    <2>2. \/ \E s \in Senders : /\ receiver' = [receiver EXCEPT ![r] = "connected"]
                                /\ peer' = [peer EXCEPT ![r] = s]
          \/ receiver' = [receiver EXCEPT ![r] = "failed"] /\ peer' = peer
      BY <1>4 DEF Connect
    <2>3. CASE receiver' = [receiver EXCEPT ![r] = "failed"] /\ peer' = peer
      <3>1. TypeOK'
        BY <2>1, <2>3 DEF TypeOK, senderVars
      <3> QED BY <2>1, <3>1, SendersUntouched
    <2>4. ASSUME NEW s \in Senders, receiver' = [receiver EXCEPT ![r] = "connected"],
                 peer' = [peer EXCEPT ![r] = s]
          PROVE  TrackerInv'
      <3>1. TypeOK'
        BY <2>1, <2>4, TrackerAssumption DEF TypeOK, senderVars
      <3> QED BY <2>1, <3>1, SendersUntouched
    <2> QED BY <2>2, <2>3, <2>4
  <1> QED BY <1>1, <1>2, <1>3, <1>4 DEF ReceiverStep

(* The sweeper, the clock, a restart, and a step that changes nothing. *)
LEMMA TrackerSteps ==
  ASSUME TrackerInv, Sweep \/ Tick \/ Restart \/ UNCHANGED vars
  PROVE  TrackerInv'
  <1> USE DEF TrackerInv
  <1>1. CASE Sweep
    <2>1. /\ store' \in [Tokens -> Records]
          /\ RecordsOwned' /\ RequestsInOrder' /\ StoredIsKept'
      BY <1>1, EvictedKeeps DEF Sweep
    <2>2. TypeOK'
      BY <1>1, <2>1 DEF Sweep, TypeOK, senderVars, receiverVars
    <2> QED BY <2>1, <2>2
  <1>2. CASE Tick
    <2>1. TypeOK'
      BY <1>2 DEF Tick, TypeOK, senderVars, receiverVars
    <2>2. RecordsOwned' /\ RequestsInOrder'
      BY <1>2 DEF Tick, RecordsOwned, RequestsInOrder, Found, client_ip, senderVars
    <2>3. StoredIsKept'
      <3> SUFFICES ASSUME NEW s \in Senders, reg[s] = "stored", unreg[s] # "removed",
                          Alone(s), restarts = 0, now' - stamp[s] <= TTL
                   PROVE  store[TokenOf[s]] = Record(client_ip(s), stamp[s], s)
        BY <1>2 DEF Tick, StoredIsKept, Alone, client_ip, senderVars
      <3>1. now - stamp[s] <= TTL
        BY <1>2, TrackerAssumption DEF Tick, TypeOK
      <3> QED BY <3>1 DEF StoredIsKept
    <2> QED BY <2>1, <2>2, <2>3
  <1>3. CASE Restart
    <2>1. NoRecord \in Records
      BY DEF NoRecord, Record, Records
    <2>2. restarts' \in Nat /\ restarts' # 0
      BY <1>3 DEF Restart, TypeOK
    <2>3. TypeOK'
      BY <1>3, <2>1, <2>2 DEF Restart, TypeOK, Lost, receiverVars
    <2>4. RequestsInOrder'
      BY <1>3 DEF Restart, Lost, TypeOK, RequestsInOrder
    <2>5. RecordsOwned'
      BY <1>3 DEF Restart, RecordsOwned, Found
    <2>6. StoredIsKept'
      BY <2>2 DEF StoredIsKept
    <2> QED BY <2>3, <2>4, <2>5, <2>6
  <1>4. CASE UNCHANGED vars
    <2>1. TypeOK'
      BY <1>4 DEF vars, senderVars, receiverVars, TypeOK
    <2> QED BY <1>4, <2>1, SendersUntouched DEF vars
  <1> QED BY <1>1, <1>2, <1>3, <1>4

(* Every step of the system preserves the invariant. *)
LEMMA TrackerStep == TrackerInv /\ [Next]_vars => TrackerInv'
  BY SenderSteps, HandlerSteps, ReceiverSteps, TrackerSteps DEF Next

(* The inductive invariant: each record is its sender's registration, a      *)
(* sender's requests come in order, and a stored registration is kept.       *)
THEOREM TrackerIsSound == Spec => []TrackerInv
  BY TrackerInit, TrackerStep, PTL DEF Spec

(* The variables of the store and of its clients always have their types. *)
THEOREM TrackerTyping == Spec => []TypeOK
  <1>1. TrackerInv => TypeOK
    BY DEF TrackerInv
  <1> QED BY <1>1, TrackerIsSound, PTL

(* run_push_cli binds before it registers: a published address was bound. *)
THEOREM PublishedIsBound == Spec => []PortOpenFirst
  <1>1. TrackerInv => PortOpenFirst
    BY DEF TrackerInv, RecordsOwned, RequestsInOrder, PortOpenFirst
  <1> QED BY <1>1, TrackerIsSound, PTL

(* A handled unregister is never undone by a late registration. *)
THEOREM UnregisterHolds == Spec => []UnregisterIsFinal
  <1>1. TrackerInv => UnregisterIsFinal
    <2> SUFFICES ASSUME TrackerInv, NEW s \in Senders, unreg[s] = "removed",
                        store[TokenOf[s]].by = s
                 PROVE  FALSE
      BY DEF UnregisterIsFinal
    <2>1. TokenOf[s] \in Tokens /\ Found(TokenOf[s])
      BY TrackerAssumption DEF Found, NoRecord, Record
    <2> QED BY <2>1 DEF TrackerInv, RecordsOwned
  <1> QED BY <1>1, TrackerIsSound, PTL

(* A waiting sender with a token of its own is found until its TTL is over. *)
THEOREM WaitingSenderIsFound == Spec => []WaitingIsFound
  <1>1. TrackerInv => WaitingIsFound
    BY DEF TrackerInv, StoredIsKept, RequestsInOrder, WaitingIsFound
  <1> QED BY <1>1, TrackerIsSound, PTL

(* resolve() answers only with a record that has not expired. *)
THEOREM ResolveAnswersFresh == Spec => FreshAnswers
  <1>1. TrackerInv /\ [Next]_vars => [AnswersAreFresh]_vars
    <2> SUFFICES ASSUME TrackerInv, Next, NEW r \in Receivers,
                        receiver[r] = "resolving", receiver'[r] = "connecting"
                 PROVE  /\ now - store[wants[r]].at <= TTL
                        /\ store'[wants[r]] = store[wants[r]]
      BY DEF AnswersAreFresh
    <2>1. /\ receiver \in [Receivers -> {"off", "resolving", "connecting", "connected",
                                         "pulling", "failed"}]
          /\ now \in Nat /\ store \in [Tokens -> Records]
          /\ wants[r] \in Tokens
      BY DEF TrackerInv, TypeOK
    <2>2. ~ (Sweep \/ Tick \/ Restart)
      BY DEF Sweep, Tick, Restart, receiverVars
    <2>3. ~ \E s \in Senders : SenderStep(s) \/ Handler(s)
      BY <2>1 DEF SenderStep, Handler, Bind, Register, Registered, RegisterTimesOut, Accept,
         Served, Unregistered, SenderDies, HandleRegister, Upsert, HandleUnregister, receiverVars
    <2>4. PICK q \in Receivers : ReceiverStep(q)
      BY <2>2, <2>3 DEF Next
    <2>5. q = r /\ HandleResolve(r)
      BY <2>1, <2>4 DEF ReceiverStep, Pull, HandleResolve, ResolveTimesOut, Connect, ConnectionReset
    <2>6. Resolves(wants[r]) /\ store' = Evicted
      BY <2>1, <2>5 DEF HandleResolve
    <2>7. ~ Expired(store[wants[r]]) /\ store'[wants[r]] = store[wants[r]]
      BY <2>1, <2>6 DEF Resolves, ResolveView, Evicted, Found
    <2>8. store[wants[r]].at \in Nat
      BY <2>1 DEF Records
    <2> QED BY <2>1, <2>7, <2>8, TrackerAssumption DEF Expired
  <1> QED BY <1>1, TrackerIsSound, PTL DEF Spec, FreshAnswers
----------------------------------------------------------------------------
(* The tracker is a directory whose entries vanish on time                   *)

Published == {s \in Senders : reg[s] = "stored"}
Withdrawn == {s \in Senders : unreg[s] = "removed"}

LEMMA DirectoryStart == Init => DirectoryInv
  BY TrackerAssumption DEF Init, DirectoryInv, StampsPast, AnswersOnce

LEMMA DirectoryKept == TrackerInv /\ DirectoryInv /\ [Next]_vars => DirectoryInv'
  <1> SUFFICES ASSUME TrackerInv, DirectoryInv, [Next]_vars PROVE DirectoryInv'
    OBVIOUS
  <1>0. TypeOK
    BY DEF TrackerInv
  <1>1. StampsPast'
    <2>1. CASE \E s \in Senders : HandleRegister(s)
      BY <1>0, <2>1 DEF HandleRegister, TypeOK, DirectoryInv, StampsPast
    <2>2. CASE Tick
      BY <1>0, <2>2 DEF Tick, TypeOK, DirectoryInv, StampsPast, senderVars
    <2>3. CASE UNCHANGED <<now, stamp>>
      BY <2>3 DEF DirectoryInv, StampsPast
    <2> QED
      BY <2>1, <2>2, <2>3 DEF Next, SenderStep, Handler, ReceiverStep, Bind, Register, Registered,
         RegisterTimesOut, Accept, Served, Unregistered, SenderDies, Upsert, HandleUnregister, Pull,
         HandleResolve, ResolveTimesOut, Connect, ConnectionReset, Sweep, Restart, vars, senderVars
  <1>2. AnswersOnce'
    <2>1. ASSUME NEW r \in Receivers, ReceiverStep(r) PROVE AnswersOnce'
      <3>1. CASE Pull(r)
        BY <1>0, <2>1, <3>1 DEF Pull, TypeOK, DirectoryInv, AnswersOnce
      <3>2. CASE HandleResolve(r)
        BY <1>0, <2>1, <3>2 DEF HandleResolve, TypeOK, DirectoryInv, AnswersOnce
      <3>3. CASE ResolveTimesOut(r) \/ Connect(r) \/ ConnectionReset(r)
        BY <1>0, <2>1, <3>3 DEF ResolveTimesOut, Connect, ConnectionReset, TypeOK, DirectoryInv, AnswersOnce
      <3> QED BY <2>1, <3>1, <3>2, <3>3 DEF ReceiverStep
    <2>2. ASSUME NEW s \in Senders, Accept(s) PROVE AnswersOnce'
      BY <1>0, <2>2 DEF Accept, TypeOK, DirectoryInv, AnswersOnce
    <2>3. CASE UNCHANGED receiverVars
      BY <2>3 DEF DirectoryInv, AnswersOnce, receiverVars
    <2> QED
      BY <2>1, <2>2, <2>3 DEF Next, SenderStep, Handler, Bind, Register, Registered,
         RegisterTimesOut, Served, Unregistered, SenderDies, HandleRegister, Upsert,
         HandleUnregister, Sweep, Tick, Restart, vars
  <1> QED BY <1>1, <1>2 DEF DirectoryInv

(* Evicting the expired records changes nothing a client could see. *)
LEMMA EvictionUnseen ==
  ASSUME TypeOK, store' = Evicted, now' = now
  PROVE  Live' = Live
  <1>1. ASSUME NEW t \in Tokens
        PROVE  /\ Found(t)' /\ ~ Expired(store[t])' <=> Found(t) /\ ~ Expired(store[t])
               /\ Found(t) /\ ~ Expired(store[t]) => store'[t] = store[t]
    BY DEF TypeOK, Evicted, Found, Expired
  <1> QED BY <1>1 DEF Live, Expired

(* An upsert, however late, publishes; the entry may be gone at once. *)
LEMMA UpsertPublishes ==
  ASSUME TrackerInv, DirectoryInv, NEW s \in Senders, Upsert(s)
  PROVE  Directory!Publish(s)
  <1> DEFINE t0 == TokenOf[s]
             R == Record(client_ip(s), stamp[s], s)
             E == Directory!Lasting({[by |-> s, since |-> stamp[s]]}, now)
  <1>0. TypeOK /\ t0 \in Tokens /\ stamp[s] \in Nat /\ now \in Nat /\ stamp[s] \in 0 .. now
    BY TrackerAssumption DEF TrackerInv, TypeOK, DirectoryInv, StampsPast
  <1>1. reg[s] = "stamped" /\ unreg[s] = "none"
    BY DEF Upsert, TrackerInv, TypeOK, RequestsInOrder
  <1>2. /\ store' = [store EXCEPT ![t0] = R] /\ reg' = [reg EXCEPT ![s] = "stored"]
        /\ UNCHANGED <<now, unreg, wants, target>>
    BY DEF Upsert, receiverVars
  <1>3. R.by = s /\ R.at = stamp[s] /\ R # NoRecord
    BY TrackerAssumption DEF Record, NoRecord
  <1>4. Live' = [Live EXCEPT ![t0] = E]
    <2>1. Live'[t0] = E
      <3>1. store'[t0] = R
        BY <1>0, <1>2 DEF TypeOK
      <3>2. E = IF now - stamp[s] <= TTL THEN {[by |-> s, since |-> stamp[s]]} ELSE {}
        BY DEF Directory!Lasting
      <3>3. now - stamp[s] > TTL <=> ~ (now - stamp[s] <= TTL)
        BY <1>0, TrackerAssumption
      <3>4. Live'[t0] = IF R # NoRecord /\ ~ (now - R.at > TTL)
                        THEN {[by |-> R.by, since |-> R.at]} ELSE {}
        BY <1>0, <1>2, <3>1 DEF Live, Found, Expired
      <3> QED BY <1>3, <3>2, <3>3, <3>4
    <2>2. ASSUME NEW t \in Tokens, t # t0 PROVE Live'[t] = Live[t]
      <3>1. store'[t] = store[t]
        BY <1>0, <1>2, <2>2 DEF TypeOK
      <3> QED BY <1>2, <3>1 DEF Live, Found, Expired
    <2> HIDE DEF E
    <2> QED BY <1>0, <2>1, <2>2 DEF Live
  <1>5. Published' = Published \union {s}
    BY <1>0, <1>2 DEF Published, TypeOK
  <1>6. s \notin Published /\ s \notin Withdrawn /\ Withdrawn' = Withdrawn
    BY <1>1, <1>2 DEF Published, Withdrawn
  <1>7. Told' = Told
    BY <1>2 DEF Told
  <1> QED BY <1>0, <1>2, <1>4, <1>5, <1>6, <1>7 DEF Directory!Publish, Published, Withdrawn

(* An unregister removes the key's entry, whoever it is of. *)
LEMMA UnregisterWithdraws ==
  ASSUME TrackerInv, NEW s \in Senders, HandleUnregister(s)
  PROVE  Directory!Withdraw(s)
  <1> DEFINE t0 == TokenOf[s]
  <1>0. TypeOK /\ t0 \in Tokens
    BY TrackerAssumption DEF TrackerInv
  <1>1. reg[s] = "stored" /\ unreg[s] = "sent"
    BY DEF HandleUnregister, TrackerInv, RequestsInOrder
  <1>2. /\ store' = [store EXCEPT ![t0] = NoRecord] /\ unreg' = [unreg EXCEPT ![s] = "removed"]
        /\ UNCHANGED <<now, reg, wants, target>>
    BY DEF HandleUnregister, receiverVars
  <1>3. Live' = [Live EXCEPT ![t0] = {}]
    <2>1. Live'[t0] = {}
      BY <1>0, <1>2 DEF TypeOK, Live, Found
    <2>2. ASSUME NEW t \in Tokens, t # t0 PROVE Live'[t] = Live[t]
      <3>1. store'[t] = store[t]
        BY <1>0, <1>2, <2>2 DEF TypeOK
      <3> QED BY <1>2, <3>1 DEF Live, Found, Expired
    <2> QED BY <1>0, <2>1, <2>2 DEF Live
  <1>4. Withdrawn' = Withdrawn \union {s}
    BY <1>0, <1>2 DEF Withdrawn, TypeOK
  <1>5. s \in Published /\ s \notin Withdrawn /\ Published' = Published
    BY <1>1, <1>2 DEF Published, Withdrawn
  <1>6. Told' = Told
    BY <1>2 DEF Told
  <1> QED BY <1>2, <1>3, <1>4, <1>5, <1>6 DEF Directory!Withdraw, Published, Withdrawn

(* resolve() answers from the entry there is, or the receiver is told nothing. *)
LEMMA ResolveAnswers ==
  ASSUME TrackerInv, DirectoryInv, NEW r \in Receivers, HandleResolve(r)
  PROVE  Directory!Answer(r) \/ UNCHANGED Directory!vars
  <1> DEFINE t0 == wants[r]
  <1>0. /\ TypeOK /\ t0 \in Tokens /\ t0 # None /\ target[r] = None
        /\ store' = Evicted /\ UNCHANGED <<now, reg, unreg, wants>>
    BY DEF TrackerInv, TypeOK, HandleResolve, DirectoryInv, AnswersOnce, senderVars
  <1>1. Live' = Live /\ Published' = Published /\ Withdrawn' = Withdrawn
    BY <1>0, EvictionUnseen DEF Published, Withdrawn
  <1>2. CASE Resolves(t0) /\ ResolveView[t0].addr # EmptyIp
    <2>1. Found(t0) /\ ~ Expired(store[t0]) /\ ResolveView[t0] = store[t0]
      BY <1>0, <1>2 DEF Resolves, ResolveView, Evicted, Found
    <2>2. PICK s \in Senders : store[t0] = Record(client_ip(s), stamp[s], s)
      BY <1>0, <2>1 DEF TrackerInv, RecordsOwned
    <2>3. store[t0].by = s /\ store[t0].addr = client_ip(s) /\ client_ip(s) # EmptyIp
      BY <1>2, <2>1, <2>2 DEF Record
    <2>4. [by |-> s, since |-> store[t0].at] \in Live[t0]
      BY <1>0, <2>1, <2>3 DEF Live
    <2>5. target' = [target EXCEPT ![r] = client_ip(s)]
      BY <1>2, <2>1, <2>3 DEF HandleResolve
    <2>6. Told' = [Told EXCEPT ![r] = client_ip(s)] /\ Told[r] = None
      BY <1>0, <2>5 DEF Told, TypeOK
    <2>7. [q \in Senders |-> client_ip(q)][s] = client_ip(s)
      OBVIOUS
    <2> QED BY <1>0, <1>1, <2>3, <2>4, <2>6, <2>7 DEF Directory!Answer, Published, Withdrawn
  <1>3. CASE ~ (Resolves(t0) /\ ResolveView[t0].addr # EmptyIp)
    <2>1. target' = target
      BY <1>3 DEF HandleResolve
    <2> QED BY <1>0, <1>1, <2>1 DEF Directory!vars, Told, Published, Withdrawn
  <1> QED BY <1>2, <1>3

(* Time passes for the records as it does for the entries. *)
LEMMA TickPasses ==
  ASSUME TrackerInv, Tick
  PROVE  Directory!Pass
  <1>0. /\ TypeOK /\ now \in Nat /\ now' = now + 1
        /\ UNCHANGED <<store, reg, unreg, wants, target>>
    BY DEF TrackerInv, TypeOK, Tick, senderVars, receiverVars
  <1>1. ASSUME NEW t \in Tokens PROVE Live'[t] = Directory!Lasting(Live[t], now')
    <2> DEFINE R == [by |-> store[t].by, since |-> store[t].at]
    <2>1. store[t].at \in Nat
      BY <1>0 DEF TypeOK, Records
    <2>2. Live'[t] = IF Found(t) /\ ~ (now' - store[t].at > TTL) THEN {R} ELSE {}
      BY <1>0 DEF Live, Found, Expired
    <2>3. Live[t] = IF Found(t) /\ ~ (now - store[t].at > TTL) THEN {R} ELSE {}
      BY DEF Live, Expired
    <2>4. now' - store[t].at <= TTL <=> ~ (now' - store[t].at > TTL)
      BY <1>0, <2>1, TrackerAssumption
    <2>5. now' - store[t].at <= TTL => ~ (now - store[t].at > TTL)
      BY <1>0, <2>1, TrackerAssumption
    <2>6. R.since = store[t].at
      OBVIOUS
    <2> HIDE DEF R
    <2> QED BY <2>2, <2>3, <2>4, <2>5, <2>6 DEF Directory!Lasting
  <1>2. Live' = [t \in Tokens |-> Directory!Lasting(Live[t], now')]
    BY <1>1 DEF Live
  <1> QED BY <1>0, <1>2 DEF Directory!Pass, Told

(* Every step is one of the directory, or nothing to it. *)
LEMMA RegistryStep ==
  ASSUME TrackerInv, DirectoryInv, [Next]_vars
  PROVE  [Directory!Next]_(Directory!vars)
  <1>0. TypeOK
    BY DEF TrackerInv
  <1>1. ASSUME UNCHANGED <<now, store, reg, unreg, wants, target>>
        PROVE  UNCHANGED Directory!vars
    BY <1>1 DEF Directory!vars, Live, Found, Expired, Told
  <1>2. ASSUME UNCHANGED <<now, store, unreg, wants, Published, Told>>
        PROVE  UNCHANGED Directory!vars
    BY <1>2 DEF Directory!vars, Live, Found, Expired, Published
  <1>3. ASSUME NEW s \in Senders, SenderStep(s)
        PROVE  UNCHANGED Directory!vars
    <2>1. CASE Register(s)
      <3>1. PICK q \in {"sent", "port_zero"} : reg' = [reg EXCEPT ![s] = q]
        BY <2>1 DEF Register
      <3>2. reg[s] = "none"
        BY <2>1 DEF Register, TrackerInv, RequestsInOrder
      <3>3. Published' = Published
        BY <1>0, <3>1, <3>2 DEF TypeOK, Published
      <3> QED BY <1>2, <2>1, <3>3 DEF Register, receiverVars, Told
    <2>2. CASE Served(s)
      <3>1. unreg[s] = "none" /\ unreg' = [unreg EXCEPT ![s] = "sent"]
        BY <2>2 DEF Served, TrackerInv, RequestsInOrder
      <3>2. Withdrawn' = Withdrawn
        BY <1>0, <3>1 DEF TypeOK, Withdrawn
      <3> QED BY <2>2, <3>2 DEF Served, receiverVars, Told, Withdrawn, Directory!vars, Live, Found, Expired
    <2>3. CASE ~ Register(s) /\ ~ Served(s)
      BY <1>1, <1>3, <2>3 DEF SenderStep, Bind, Registered, RegisterTimesOut, Accept, Unregistered,
         SenderDies, receiverVars
    <2> QED BY <2>1, <2>2, <2>3
  <1>4. ASSUME NEW s \in Senders, HandleRegister(s)
        PROVE  UNCHANGED Directory!vars
    <2>1. reg[s] # "stored" /\ reg'[s] # "stored" /\ \A o \in Senders : o # s => reg'[o] = reg[o]
      BY <1>0, <1>4 DEF HandleRegister, TypeOK
    <2>2. Published' = Published
      BY <2>1 DEF Published
    <2> QED BY <1>2, <1>4, <2>2 DEF HandleRegister, receiverVars, Told
  <1>5. ASSUME NEW r \in Receivers, ReceiverStep(r)
        PROVE  [Directory!Next]_(Directory!vars)
    <2>1. CASE HandleResolve(r)
      BY <2>1, ResolveAnswers DEF Directory!Next
    <2>2. CASE Pull(r)
      <3>1. Told' = Told
        BY <1>0, <2>2 DEF Pull, Told, TypeOK
      <3>2. Published' = Published
        BY <2>2 DEF Pull, senderVars, Published
      <3> QED BY <1>2, <2>2, <3>1, <3>2 DEF Pull, senderVars
    <2>3. CASE ~ HandleResolve(r) /\ ~ Pull(r)
      BY <1>1, <1>5, <2>3 DEF ReceiverStep, ResolveTimesOut, Connect, ConnectionReset, senderVars
    <2> QED BY <2>1, <2>2, <2>3
  <1>6. CASE Sweep
    BY <1>0, <1>6, EvictionUnseen DEF Sweep, senderVars, receiverVars, Directory!vars, Told
  <1>7. CASE Restart
    <2>1. Published' = Published /\ Withdrawn' = Withdrawn
      BY <1>0, <1>7 DEF Restart, Lost, Published, Withdrawn, TypeOK
    <2>2. Live' = [t \in Tokens |-> {}]
      BY <1>7 DEF Restart, Live, Found
    <2> QED BY <1>7, <2>1, <2>2 DEF Restart, receiverVars, Directory!Next, Directory!Forget,
         Directory!Empty, Told, Published, Withdrawn
  <1>8. CASE Tick
    BY <1>8, TickPasses DEF Directory!Next
  <1>9. ASSUME NEW s \in Senders, Upsert(s) \/ HandleUnregister(s)
        PROVE  Directory!Next
    BY <1>9, UpsertPublishes, UnregisterWithdraws DEF Directory!Next
  <1>10. CASE UNCHANGED vars
    BY <1>1, <1>10 DEF vars, senderVars, receiverVars
  <1> QED BY <1>3, <1>4, <1>5, <1>6, <1>7, <1>8, <1>9, <1>10 DEF Next, Handler

(* However late an upsert, an eviction or a sweep comes, the tracker is the  *)
(* directory of Registry: entries vanish when they expire, every sender is   *)
(* published and withdrawn once at most, and answers are of the moment.      *)
THEOREM ImplementsRegistry == Spec => IsRegistry
  <1>1. Init => Directory!Init
    <2> SUFFICES ASSUME Init PROVE Directory!Init
      OBVIOUS
    <2>1. Live = [t \in Tokens |-> {}]
      BY DEF Init, Live, Found
    <2>2. Told = [r \in Receivers |-> None]
      BY DEF Init, Told
    <2> QED BY <2>1, <2>2 DEF Init, Directory!Init, Directory!Empty
  <1>2. TrackerInv /\ DirectoryInv /\ [Next]_vars => [Directory!Next]_(Directory!vars)
    BY RegistryStep
  <1> QED BY <1>1, <1>2, TrackerIsSound, DirectoryStart, DirectoryKept, PTL
          DEF Spec, IsRegistry, Directory!Spec

(* What a directory is worth, whoever keeps it: an entry is fresh and its    *)
(* party's own, published and not withdrawn; an answer names where a party   *)
(* that was published under the key is reached.                              *)
THEOREM DirectoriesAreCurrent == Directory!Spec => [](Directory!Current /\ Directory!Truthful)
  <1> DEFINE Inv == Directory!Current /\ Directory!Truthful
             Reach == [s \in Senders |-> client_ip(s)]
  <1>1. Directory!Init => Inv
    BY DEF Directory!Init, Directory!Empty, Directory!Current, Directory!Truthful
  <1>2. Inv /\ [Directory!Next]_(Directory!vars) => Inv'
    <2> SUFFICES ASSUME Inv, [Directory!Next]_(Directory!vars) PROVE Inv'
      OBVIOUS
    <2>0. Reach' = Reach
      BY DEF client_ip
    <2> HIDE DEF Reach
    <2> DEFINE Fine ==
               /\ \A k \in Tokens : \A r \in Live[k] :
                    /\ r.by \in Published \ Withdrawn /\ TokenOf[r.by] = k
                    /\ now - r.since <= TTL
               /\ \A a \in Receivers : Told[a] # None =>
                    \E p \in Published : TokenOf[p] = wants[a] /\ Told[a] = Reach[p]
    <2>a. Fine
      BY DEF Directory!Current, Directory!Truthful, Published, Withdrawn, Reach
    <2>b. SUFFICES Fine'
      BY <2>0 DEF Directory!Current, Directory!Truthful, Published, Withdrawn, Reach
    <2>c. Live = [t \in Tokens |-> Live[t]] /\ Told = [r \in Receivers |-> Told[r]]
      BY DEF Live, Told
    <2>1. ASSUME NEW s \in Senders, Directory!Publish(s) PROVE Fine'
      <3>1. PICK t : Live' = [Live EXCEPT ![TokenOf[s]]
                                = Directory!Lasting({[by |-> s, since |-> t]}, now)]
        BY <2>1 DEF Directory!Publish
      <3>2. /\ s \notin Withdrawn /\ Published' = Published \union {s}
            /\ UNCHANGED <<now, Withdrawn, wants, Told>>
        BY <2>1 DEF Directory!Publish, Published, Withdrawn
      <3>3. TokenOf[s] \in Tokens
        BY TrackerAssumption
      <3> QED BY <2>0, <2>a, <2>c, <3>1, <3>2, <3>3 DEF Directory!Lasting
    <2>2. ASSUME NEW s \in Senders, Directory!Withdraw(s) PROVE Fine'
      <3>1. /\ Withdrawn' = Withdrawn \union {s} /\ Live' = [Live EXCEPT ![TokenOf[s]] = {}]
            /\ UNCHANGED <<now, Published, wants, Told>>
        BY <2>2 DEF Directory!Withdraw, Published, Withdrawn
      <3> QED BY <2>0, <2>a, <2>c, <3>1
    <2>3. CASE Directory!Pass
      <3>1. /\ Live' = [k \in Tokens |-> Directory!Lasting(Live[k], now')]
            /\ UNCHANGED <<Published, Withdrawn, wants, Told>>
        BY <2>3 DEF Directory!Pass, Published, Withdrawn
      <3> QED BY <2>0, <2>a, <3>1 DEF Directory!Lasting
    <2>4. ASSUME NEW a \in Receivers, Directory!Answer(a) PROVE Fine'
      <3>1. PICK r \in Live[wants[a]] : Told' = [Told EXCEPT ![a] = Reach[r.by]]
        BY <2>4 DEF Directory!Answer, Reach
      <3>2. wants[a] \in Tokens /\ UNCHANGED <<now, Live, Published, Withdrawn, wants>>
        BY <2>4 DEF Directory!Answer, Published, Withdrawn
      <3> QED BY <2>0, <2>a, <2>c, <3>1, <3>2
    <2>5. CASE Directory!Forget
      BY <2>0, <2>a, <2>5 DEF Directory!Forget, Directory!Empty, Published, Withdrawn
    <2>6. CASE UNCHANGED Directory!vars
      BY <2>0, <2>a, <2>6 DEF Directory!vars, Published, Withdrawn
    <2> QED BY <2>1, <2>2, <2>3, <2>4, <2>5, <2>6 DEF Directory!Next
  <1> QED BY <1>1, <1>2, PTL DEF Directory!Spec
=============================================================================
