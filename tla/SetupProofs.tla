----------------------------- MODULE SetupProofs ----------------------------
(* Theorems about ConnSetup, for any number of receivers and any number of  *)
(* lost datagrams.                                                          *)
EXTENDS ConnSetup, SequenceTheorems, TLAPS

USE SetupAssumption

----------------------------------------------------------------------------
(* Ways out                                                                 *)

NoFrees == [r \in Resources |-> 0]

(* q gives back, each once and users first, what of M is not given back yet. *)
(* Over QUIC the sender's socket has two owners (TwoOwners). *)
Shared(m, p, r) == m = "quic" /\ p = Push /\ r = "sock"

Plan(m, p, q, M, f) ==
    /\ q \in Seq(Resources)
    /\ \A r \in M : f[r] > 0 \/ \E i \in 1 .. Len(q) : q[i] = r
    /\ \A i \in 1 .. Len(q) : q[i] \in M
    /\ \A r \in Resources : f[r] > 0 => r \in M
    /\ \A r \in Resources : ~ Shared(m, p, r) =>
         /\ f[r] <= 1
         /\ f[r] > 0 => \A i \in 1 .. Len(q) : q[i] # r
         /\ \A i, j \in 1 .. Len(q) : q[i] = r /\ q[j] = r => i = j
    /\ \A n \in Needs : {n[1], n[2]} \subseteq M =>
         /\ f[n[2]] > 0 => f[n[1]] > 0
         /\ \A i \in 1 .. Len(q) :
              q[i] = n[2] => f[n[1]] > 0 \/ \E j \in 1 .. i - 1 : q[j] = n[1]

(* What a destructor or a failed step gives back. *)
Ordered(c, M) ==
    /\ c \in Seq(Resources) /\ c \in Seq(M)
    /\ \A i, j \in 1 .. Len(c) : c[i] = c[j] => i = j
    /\ \A n \in Needs : {n[1], n[2]} \subseteq M =>
         \A i \in 1 .. Len(c) : c[i] = n[2] => \E j \in 1 .. i - 1 : c[j] = n[1]

Covers(c, M) == \A r \in M : \E i \in 1 .. Len(c) : c[i] = r

LEMMA OneHeld ==
    /\ Ordered(<<"sock">>, {"sock"}) /\ Covers(<<"sock">>, {"sock"})
    /\ Len(<<"sock">>) = 1
  BY DEF Ordered, Covers, Resources, Needs

LEMMA TwoHeld ==
    ASSUME NEW c, c = <<"ctx", "sock">>
    PROVE  /\ Ordered(c, {"sock", "ctx"}) /\ Covers(c, {"sock", "ctx"}) /\ Len(c) = 2
  BY DEF Ordered, Covers, Resources, Needs

LEMMA ThreeHeld ==
    ASSUME NEW c, c = <<"ssl", "ctx", "sock">>, NEW M, M = {"sock", "ctx", "ssl"}
    PROVE  Ordered(c, M) /\ Covers(c, M) /\ Len(c) = 3
  BY DEF Ordered, Covers, Resources, Needs

LEMMA FourHeld ==
    ASSUME NEW c, c = <<"conn", "ssl", "ctx", "sock">>, NEW M, M = Built
    PROVE  Ordered(c, M) /\ Covers(c, M) /\ Len(c) = 4
  BY DEF Ordered, Covers, Resources, Needs, Built

LEMMA FiveHeld ==
    ASSUME NEW c, c = <<"conn", "ssl", "ctx", "zc", "sock">>, NEW M, M = Built \union {"zc"}
    PROVE  Ordered(c, M) /\ Covers(c, M) /\ Len(c) = 5
  BY DEF Ordered, Covers, Resources, Needs, Built

LEMMA DataHeld ==
    ASSUME NEW c, c = <<"data">>, NEW M, M = {"sock", "data"}
    PROVE  /\ Ordered(c, M) /\ Covers(c, M \ {"sock"}) /\ Len(c) = 1
           /\ \A i \in 1 .. Len(c) : c[i] # "sock"
  BY DEF Ordered, Covers, Resources, Needs

LEMMA NothingHeld ==
    ASSUME NEW c, c = <<>>, NEW M, M = {"sock"}
    PROVE  /\ Ordered(c, M) /\ Covers(c, M \ {"sock"}) /\ Len(c) = 0
           /\ \A i \in 1 .. Len(c) : c[i] # "sock"
  BY DEF Ordered, Covers, Resources, Needs

(* A receiver holds nothing but its transport. *)
LEMMA PlanOfPull ==
    ASSUME NEW m, NEW p, NEW c, NEW M \in SUBSET Resources, Ordered(c, M), Covers(c, M)
    PROVE  Plan(m, p, c, M, NoFrees)
  <1>1. \A r \in Resources : NoFrees[r] = 0
    BY DEF NoFrees
  <1>2. \A n \in Needs : n[1] \in Resources /\ n[2] \in Resources
    BY DEF Needs, Resources
  <1>3. c \in Seq(Resources) /\ \A i \in 1 .. Len(c) : c[i] \in M
    BY DEF Ordered
  <1>4. \A i, j \in 1 .. Len(c) : c[i] = c[j] => i = j
    BY DEF Ordered
  <1>5. \A n \in Needs : {n[1], n[2]} \subseteq M =>
           \A i \in 1 .. Len(c) : c[i] = n[2] => \E j \in 1 .. i - 1 : c[j] = n[1]
    BY DEF Ordered
  <1>6. \A r \in M : \E i \in 1 .. Len(c) : c[i] = r
    BY DEF Covers
  <1> HIDE DEF NoFrees
  <1> QED BY <1>1, <1>2, <1>3, <1>4, <1>5, <1>6 DEF Plan

(* The sender gives back the SocketFd of run_push_cli last. *)
LEMMA PlanOfPush ==
    ASSUME NEW m, NEW c, NEW M \in SUBSET Resources, Ordered(c, M), "sock" \in M,
           Covers(c, M \ {"sock"}),
           m = "quic" \/ \A i \in 1 .. Len(c) : c[i] # "sock"
    PROVE  Plan(m, Push, c \o <<"sock">>, M, NoFrees) /\ c \o <<"sock">> # <<>>
  <1> DEFINE q == c \o <<"sock">>
             l == Len(c)
  <1>1. /\ q \in Seq(Resources) /\ Len(q) = l + 1 /\ q[l + 1] = "sock" /\ l \in Nat
        /\ \A i \in 1 .. l : q[i] = c[i] /\ c[i] \in M
    <2>1. c \in Seq(Resources) /\ <<"sock">> \in Seq(Resources) /\ Len(<<"sock">>) = 1
          /\ \A i \in 1 .. l : c[i] \in M
      BY DEF Ordered, Resources
    <2> QED BY <2>1, ConcatProperties
  <1> HIDE DEF q, l
  <1>2. \A i \in 1 .. Len(q) : i \in 1 .. l \/ i = l + 1
    BY <1>1
  <1>3. \A i \in 1 .. l : i \in 1 .. Len(q) /\ i - 1 < l /\ l + 1 \in 1 .. Len(q)
    BY <1>1
  <1>4. \A r \in Resources : NoFrees[r] = 0
    BY DEF NoFrees
  <1>5. \A n \in Needs : n[1] \in Resources /\ n[2] \in Resources /\ n[1] # "sock"
    BY DEF Needs, Resources
  <1>6. \A r \in M : \E i \in 1 .. Len(q) : q[i] = r
    <2> SUFFICES ASSUME NEW r \in M PROVE \E i \in 1 .. Len(q) : q[i] = r
      OBVIOUS
    <2>1. CASE r = "sock"
      <3>1. l + 1 \in 1 .. Len(q)
        BY <1>1
      <3> QED BY <1>1, <2>1, <3>1
    <2>2. CASE r # "sock"
      <3>1. PICK i \in 1 .. l : c[i] = r
        BY <2>2 DEF Covers, l
      <3> QED BY <1>1, <1>3, <3>1
    <2> QED BY <2>1, <2>2
  <1>7. \A i \in 1 .. Len(q) : q[i] \in M
    BY <1>1, <1>2
  <1>8. ASSUME NEW r \in Resources, ~ Shared(m, Push, r),
               NEW i \in 1 .. Len(q), NEW j \in 1 .. Len(q), q[i] = r, q[j] = r
        PROVE  i = j
    <2>1. CASE r = "sock"
      <3>1. \A k \in 1 .. l : c[k] # "sock"
        BY <1>8, <2>1 DEF Shared, l
      <3>2. i = l + 1 /\ j = l + 1
        BY <1>1, <1>2, <1>8, <2>1, <3>1
      <3> QED BY <3>2
    <2>2. CASE r # "sock"
      <3>1. i \in 1 .. l /\ j \in 1 .. l
        BY <1>1, <1>2, <1>8, <2>2
      <3> QED BY <1>1, <1>8, <3>1 DEF Ordered, l
    <2> QED BY <2>1, <2>2
  <1>9. ASSUME NEW n \in Needs, {n[1], n[2]} \subseteq M, NEW i \in 1 .. Len(q), q[i] = n[2]
        PROVE  \E j \in 1 .. i - 1 : q[j] = n[1]
    <2>1. CASE i \in 1 .. l
      <3>1. PICK j \in 1 .. i - 1 : c[j] = n[1]
        BY <1>1, <1>9, <2>1 DEF Ordered, l
      <3>2. j \in 1 .. l
        BY <1>1, <2>1
      <3> QED BY <1>1, <3>1, <3>2
    <2>2. CASE i = l + 1
      <3>1. PICK j \in 1 .. l : c[j] = n[1]
        BY <1>5, <1>9 DEF Covers, l
      <3>2. j \in 1 .. i - 1
        BY <1>1, <2>2
      <3> QED BY <1>1, <3>1, <3>2
    <2> QED BY <1>2, <2>1, <2>2
  <1>10. Plan(m, Push, q, M, NoFrees)
    BY <1>1, <1>4, <1>5, <1>6, <1>7, <1>8, <1>9 DEF Plan
  <1>11. q # <<>>
    BY <1>1
  <1> QED BY <1>10, <1>11 DEF q

(* Giving back the next thing leaves a plan for the rest. *)
LEMMA PlanStep ==
    ASSUME NEW m, NEW p, NEW q, NEW M \in SUBSET Resources, NEW f \in [Resources -> Nat],
           Plan(m, p, q, M, f), q # <<>>
    PROVE  /\ Head(q) \in M
           /\ Plan(m, p, Tail(q), M, [f EXCEPT ![Head(q)] = @ + 1])
  <1> DEFINE h == Head(q)
             t == Tail(q)
             g == [f EXCEPT ![h] = @ + 1]
             l == Len(q)
  <1>1. q \in Seq(Resources)
    BY DEF Plan
  <1>2. /\ t \in Seq(Resources) /\ Len(t) = l - 1 /\ l \in Nat /\ l >= 1 /\ h = q[1]
        /\ \A i \in 1 .. l - 1 : t[i] = q[i + 1]
    BY <1>1
  <1> HIDE DEF h, t, l
  <1>3. h \in M /\ h \in Resources
    BY <1>2 DEF Plan, l
  <1>4. g \in [Resources -> Nat] /\ g[h] = f[h] + 1 /\ f[h] \in Nat
        /\ \A r \in Resources : r # h => g[r] = f[r]
    BY <1>3
  <1> HIDE DEF g
  <1>5. \A r \in Resources : f[r] \in Nat /\ (g[r] > 0 <=> f[r] > 0 \/ r = h)
    BY <1>3, <1>4
  <1>6. \A i \in 1 .. l : i = 1 \/ (i - 1 \in 1 .. l - 1 /\ t[i - 1] = q[i])
    BY <1>2
  <1>7. \A i \in 1 .. l - 1 : i + 1 \in 1 .. l /\ t[i] = q[i + 1]
    BY <1>2
  <1>8. \A r \in M : g[r] > 0 \/ \E i \in 1 .. Len(t) : t[i] = r
    <2> SUFFICES ASSUME NEW r \in M, ~ g[r] > 0 PROVE \E i \in 1 .. Len(t) : t[i] = r
      OBVIOUS
    <2>1. ~ f[r] > 0 /\ r # h
      BY <1>5
    <2>2. PICK i \in 1 .. l : q[i] = r
      BY <2>1 DEF Plan, l
    <2>3. i # 1
      BY <1>2, <2>1, <2>2
    <2> QED BY <1>2, <1>6, <2>2, <2>3
  <1>9. (\A i \in 1 .. Len(t) : t[i] \in M) /\ \A r \in Resources : g[r] > 0 => r \in M
    <2>1. \A i \in 1 .. l : q[i] \in M
      BY DEF Plan, l
    <2>2. \A r \in Resources : f[r] > 0 => r \in M
      BY DEF Plan
    <2> QED BY <1>2, <1>3, <1>5, <1>7, <2>1, <2>2
  <1>10. ASSUME NEW r \in Resources, ~ Shared(m, p, r)
         PROVE  /\ g[r] <= 1
                /\ g[r] > 0 => \A i \in 1 .. Len(t) : t[i] # r
                /\ \A i, j \in 1 .. Len(t) : t[i] = r /\ t[j] = r => i = j
    <2>1. /\ f[r] <= 1
          /\ f[r] > 0 => \A i \in 1 .. l : q[i] # r
          /\ \A i, j \in 1 .. l : q[i] = r /\ q[j] = r => i = j
      BY <1>10 DEF Plan, l
    <2>2. 1 \in 1 .. l
      BY <1>2
    <2>3. g[r] <= 1
      <3>1. r = h => f[r] = 0
        BY <1>2, <1>5, <2>1, <2>2
      <3> QED BY <1>4, <2>1, <3>1
    <2>4. ASSUME g[r] > 0, NEW i \in 1 .. Len(t) PROVE t[i] # r
      <3>1. i + 1 \in 1 .. l /\ t[i] = q[i + 1] /\ i + 1 # 1
        BY <1>2, <1>7
      <3> QED BY <1>2, <1>5, <2>1, <2>2, <2>4, <3>1
    <2>5. ASSUME NEW i \in 1 .. Len(t), NEW j \in 1 .. Len(t), t[i] = r, t[j] = r PROVE i = j
      <3>1. i + 1 \in 1 .. l /\ q[i + 1] = r /\ j + 1 \in 1 .. l /\ q[j + 1] = r
        BY <1>2, <1>7, <2>5
      <3>2. i + 1 = j + 1
        BY <2>1, <3>1
      <3> QED BY <1>2, <3>2
    <2> QED BY <2>3, <2>4, <2>5
  <1>11. ASSUME NEW n \in Needs, {n[1], n[2]} \subseteq M
         PROVE  /\ g[n[2]] > 0 => g[n[1]] > 0
                /\ \A i \in 1 .. Len(t) :
                     t[i] = n[2] => g[n[1]] > 0 \/ \E j \in 1 .. i - 1 : t[j] = n[1]
    <2>1. /\ f[n[2]] > 0 => f[n[1]] > 0
          /\ \A i \in 1 .. l : q[i] = n[2] => f[n[1]] > 0 \/ \E j \in 1 .. i - 1 : q[j] = n[1]
      BY <1>11 DEF Plan, l
    <2>2. n[1] \in Resources /\ n[2] \in Resources
      BY DEF Needs, Resources
    <2>3. h = n[2] => f[n[1]] > 0
      <3>1. 1 \in 1 .. l /\ q[1] = h /\ ~ \E j \in 1 .. 1 - 1 : q[j] = n[1]
        BY <1>2
      <3> QED BY <2>1, <3>1
    <2>4. g[n[2]] > 0 => g[n[1]] > 0
      BY <1>5, <2>1, <2>2, <2>3
    <2>5. ASSUME NEW i \in 1 .. Len(t), t[i] = n[2], ~ g[n[1]] > 0
          PROVE  \E j \in 1 .. i - 1 : t[j] = n[1]
      <3>1. i + 1 \in 1 .. l /\ q[i + 1] = n[2] /\ ~ f[n[1]] > 0 /\ n[1] # h
        BY <1>2, <1>5, <1>7, <2>2, <2>5
      <3>2. PICK j \in 1 .. (i + 1) - 1 : q[j] = n[1]
        BY <2>1, <3>1
      <3>3. j # 1 /\ j \in 1 .. l /\ j - 1 \in 1 .. i - 1
        BY <1>2, <3>1, <3>2
      <3> QED BY <1>6, <3>2, <3>3
    <2> QED BY <2>4, <2>5
  <1>12. Plan(m, p, t, M, g)
    BY <1>2, <1>8, <1>9, <1>10, <1>11 DEF Plan
  <1> QED BY <1>3, <1>12 DEF h, t, g

----------------------------------------------------------------------------
(* What a process holds, and what it has still to give back                 *)

Places == Stages \union {"off", "binding", "bound", "accepting", "connecting",
            "hello", "handshake", "opening", "running", "leaving", "ended"}

Alive(p) == pc[p] \notin {"leaving", "ended"}

MadeOK(p) ==
    /\ pc[p] = "off" => made[p] = {}
    /\ pc[p] \in {"binding", "bound", "accepting", "connecting", "ctx"} => made[p] = {"sock"}
    /\ pc[p] = "ssl" => made[p] = {"sock", "ctx"}
    /\ pc[p] \in {"transport", "conn"} => made[p] = {"sock", "ctx", "ssl"}
    /\ pc[p] = "hello" => made[p] = Built
    /\ pc[p] \in {"handshake", "opening"} \/ (pc[p] = "running" /\ Quic)
         => made[p] \in {Built, Built \union {"zc"}}
    /\ pc[p] = "running" /\ ~ Quic
         => made[p] = IF p = Push THEN {"sock", "data"} ELSE {"sock"}

PhaseOK(p) ==
    /\ pc[p] \in Stages \union {"hello", "handshake", "opening"} => Quic
    /\ pc[p] \in {"binding", "bound", "accepting"} => p = Push
    /\ pc[p] \in {"connecting", "opening"} => p # Push

FreeOK(p) ==
    /\ Alive(p) => frees[p] = NoFrees
    /\ ~ Alive(p) => Plan(mode, p, todo[p], made[p], frees[p])
    /\ pc[p] = "leaving" <=> todo[p] # <<>>

LocalType(p) ==
    /\ pc[p] \in Places /\ made[p] \in SUBSET Resources
    /\ frees[p] \in [Resources -> Nat] /\ todo[p] \in Seq(Resources)

Local(p) == LocalType(p) /\ MadeOK(p) /\ PhaseOK(p) /\ FreeOK(p)

Shapes ==
    /\ mode \in {"tcp", "quic"}
    /\ pc = [p \in Procs |-> pc[p]] /\ made = [p \in Procs |-> made[p]]
    /\ frees = [p \in Procs |-> frees[p]] /\ todo = [p \in Procs |-> todo[p]]

GiveInv == Shapes /\ \A p \in Procs : Local(p)

(* A step that touches no other process need only be good for its own. *)
Alone(p) ==
    /\ mode' = mode
    /\ \A q \in Procs \ {p} : /\ pc'[q] = pc[q] /\ made'[q] = made[q]
                              /\ frees'[q] = frees[q] /\ todo'[q] = todo[q]

LEMMA OneProcess ==
    ASSUME GiveInv, NEW p \in Procs, Alone(p), Shapes', Local(p)' PROVE GiveInv'
  <1> SUFFICES ASSUME NEW q \in Procs \ {p} PROVE Local(q)'
    BY DEF GiveInv
  <1>1. Local(q)
    BY DEF GiveInv
  <1>2. /\ pc'[q] = pc[q] /\ made'[q] = made[q] /\ frees'[q] = frees[q]
        /\ todo'[q] = todo[q] /\ mode' = mode
    BY DEF Alone
  <1>3. LocalType(q)' /\ MadeOK(q)' /\ PhaseOK(q)'
    BY <1>1, <1>2 DEF Local, LocalType, MadeOK, PhaseOK, Quic
  <1>4. FreeOK(q)'
    BY <1>1, <1>2 DEF Local, FreeOK, Alive
  <1> QED BY <1>3, <1>4 DEF Local

LEMMA GiveInit == Init => GiveInv
  <1> SUFFICES ASSUME Init PROVE GiveInv
    OBVIOUS
  <1>1. Shapes
    BY DEF Init, Shapes
  <1>2. ASSUME NEW p \in Procs PROVE Local(p)
    <2>1. pc[p] = "off" /\ made[p] = {} /\ frees[p] = NoFrees /\ todo[p] = <<>>
      BY DEF Init, NoFrees
    <2>2. NoFrees \in [Resources -> Nat] /\ <<>> \in Seq(Resources)
      BY DEF NoFrees
    <2>3. LocalType(p)
      BY <2>1, <2>2 DEF LocalType, Places
    <2>4. MadeOK(p) /\ PhaseOK(p) /\ FreeOK(p)
      BY <2>1 DEF MadeOK, PhaseOK, FreeOK, Alive, Stages
    <2> QED BY <2>3, <2>4 DEF Local
  <1> QED BY <1>1, <1>2 DEF GiveInv

(* Going from one place to the next while nothing is given back. *)
LEMMA GoOn ==
    ASSUME GiveInv, NEW p \in Procs, NEW c \in Places, pc' = [pc EXCEPT ![p] = c],
           c \notin {"leaving", "ended"}, Alive(p),
           NEW x \in SUBSET Resources, made'[p] = x,
           made' = [made EXCEPT ![p] = x], UNCHANGED <<mode, frees, todo>>,
           MadeOK(p)', PhaseOK(p)'
    PROVE  GiveInv'
  <1>1. Shapes' /\ Alone(p)
    BY DEF GiveInv, Shapes, Alone
  <1>2. pc'[p] = c /\ Local(p)
    BY DEF GiveInv, Shapes
  <1>3. LocalType(p)'
    BY <1>2 DEF Local, LocalType
  <1>4. FreeOK(p)'
    BY <1>2 DEF Local, FreeOK, Alive
  <1> QED BY <1>1, <1>3, <1>4, OneProcess DEF Local

(* What a thrower may leave to be given back. *)
ThrowOK(p, c) ==
    /\ Ordered(c, made[p])
    /\ p = Push => /\ "sock" \in made[p] /\ Covers(c, made[p] \ {"sock"})
                   /\ Quic \/ \A i \in 1 .. Len(c) : c[i] # "sock"
    /\ p # Push => Covers(c, made[p]) /\ c # <<>>

LEMMA ThrowGives ==
    ASSUME GiveInv, NEW p \in Procs, Alive(p), NEW c, NEW ms, Throw(p, c, ms), ThrowOK(p, c)
    PROVE  GiveInv'
  <1>1. Local(p)
    BY DEF GiveInv
  <1>2. c \in Seq(Resources) /\ made[p] \in SUBSET Resources /\ frees[p] = NoFrees
    BY <1>1 DEF ThrowOK, Ordered, Local, LocalType, FreeOK
  <1>3. todo'[p] = c \o Holder(p) /\ todo' = [todo EXCEPT ![p] = c \o Holder(p)]
        /\ UNCHANGED <<mode, made, frees>>
    BY DEF Throw, GiveInv, Shapes
  <1>4. Plan(mode, p, todo'[p], made[p], NoFrees) /\ todo'[p] # <<>>
    <2>1. CASE p = Push
      <3>1. Holder(p) = <<"sock">>
        BY <2>1 DEF Holder, ThrowOK
      <3> QED BY <1>2, <1>3, <2>1, <3>1, PlanOfPush DEF ThrowOK, Quic
    <2>2. CASE p # Push
      <3>1. Holder(p) = <<>>
        BY <2>2 DEF Holder
      <3>2. c \o <<>> = c
        BY <1>2
      <3> QED BY <1>2, <1>3, <2>2, <3>1, <3>2, PlanOfPull DEF ThrowOK
    <2> QED BY <2>1, <2>2
  <1>5. pc' = [pc EXCEPT ![p] = "leaving"]
    BY <1>4 DEF Throw, Goto
  <1>6. pc'[p] = "leaving" /\ Shapes' /\ Alone(p)
    BY <1>3, <1>5 DEF GiveInv, Shapes, Alone
  <1>7. LocalType(p)'
    <2>1. todo'[p] \in Seq(Resources)
      BY <1>4 DEF Plan
    <2> QED BY <1>1, <1>3, <1>6, <2>1 DEF Local, LocalType, Places
  <1>8. MadeOK(p)' /\ PhaseOK(p)'
    BY <1>6 DEF MadeOK, PhaseOK, Stages
  <1>9. Plan(mode, p, todo[p], made[p], frees[p])'
    BY <1>2, <1>3, <1>4
  <1>10. FreeOK(p)'
    BY <1>4, <1>6, <1>9 DEF FreeOK, Alive
  <1> QED BY <1>6, <1>7, <1>8, <1>10, OneProcess DEF Local

LEMMA FreeGives == ASSUME GiveInv, NEW p \in Procs, Free(p) PROVE GiveInv'
  <1>1. Local(p) /\ pc[p] = "leaving"
    BY DEF GiveInv, Free
  <1> DEFINE h == Head(todo[p])
             g == [frees[p] EXCEPT ![h] = @ + 1]
  <1>2. /\ Plan(mode, p, todo[p], made[p], frees[p]) /\ todo[p] # <<>>
        /\ made[p] \in SUBSET Resources /\ frees[p] \in [Resources -> Nat]
        /\ todo[p] \in Seq(Resources)
    BY <1>1 DEF Local, LocalType, FreeOK, Alive
  <1>3. h \in made[p] /\ Plan(mode, p, Tail(todo[p]), made[p], g)
    BY <1>2, PlanStep
  <1>4. /\ frees'[p] = g /\ todo'[p] = Tail(todo[p]) /\ made' = made /\ mode' = mode
        /\ pc'[p] = IF Len(todo[p]) = 1 THEN "ended" ELSE "leaving"
    BY <1>1 DEF Free, Goto, GiveInv, Shapes
  <1>5. Shapes' /\ Alone(p)
    BY DEF Free, Goto, GiveInv, Shapes, Alone
  <1>6. Tail(todo[p]) \in Seq(Resources) /\ (Tail(todo[p]) = <<>> <=> Len(todo[p]) = 1)
    <2>1. Tail(todo[p]) \in Seq(Resources) /\ Len(Tail(todo[p])) = Len(todo[p]) - 1
      BY <1>2
    <2>2. Len(todo[p]) \in Nat /\ (Tail(todo[p]) # <<>> => Len(Tail(todo[p])) \in Nat \ {0})
      BY <1>2, <2>1, EmptySeq
    <2> DEFINE t == Tail(todo[p])
    <2>3. Len(<<>>) = 0
      OBVIOUS
    <2> HIDE DEF t
    <2>4. t = <<>> => Len(t) = 0
      BY <2>3
    <2> QED BY <2>1, <2>2, <2>4 DEF t
  <1>7. g \in [Resources -> Nat]
    BY <1>2, <1>3
  <1>8. LocalType(p)'
    BY <1>1, <1>4, <1>6, <1>7 DEF Local, LocalType, Places
  <1>9. MadeOK(p)' /\ PhaseOK(p)'
    BY <1>4 DEF MadeOK, PhaseOK, Stages
  <1>10. Plan(mode, p, todo[p], made[p], frees[p])'
    BY <1>3, <1>4
  <1>11. FreeOK(p)'
    BY <1>4, <1>6, <1>10 DEF FreeOK, Alive
  <1> QED BY <1>5, <1>8, <1>9, <1>11, OneProcess DEF Local

(* ~QuicTransport gives back all that was made, in an order. *)
LEMMA DestructorGives ==
    ASSUME GiveInv, NEW p \in Procs, Quic,
           made[p] \in {{"sock", "ctx", "ssl"}, Built, Built \union {"zc"}}
    PROVE  ThrowOK(p, Destructor(p))
  <1> DEFINE d == Destructor(p)
  <1>1. Ordered(d, made[p]) /\ Covers(d, made[p]) /\ "sock" \in made[p] /\ d # <<>>
    <2>1. CASE made[p] = {"sock", "ctx", "ssl"}
      <3>1. d = <<"ssl", "ctx", "sock">>
        BY <2>1 DEF Destructor
      <3> QED BY <2>1, <3>1, ThreeHeld
    <2>2. CASE made[p] = Built
      <3>1. d = <<"conn", "ssl", "ctx", "sock">>
        BY <2>2 DEF Destructor, Built
      <3> QED BY <2>2, <3>1, FourHeld DEF Built
    <2>3. CASE made[p] = Built \union {"zc"}
      <3>1. d = <<"conn", "ssl", "ctx", "zc", "sock">>
        BY <2>3 DEF Destructor, Built
      <3> QED BY <2>3, <3>1, FiveHeld DEF Built
    <2> QED BY <2>1, <2>2, <2>3
  <1> HIDE DEF d
  <1>2. Covers(d, made[p] \ {"sock"})
    BY <1>1 DEF Covers
  <1> QED BY <1>1, <1>2 DEF ThrowOK, d

LEMMA SocketGives ==
    ASSUME GiveInv, NEW p \in Procs, made[p] = {"sock"}, p = Push => Quic
    PROVE  ThrowOK(p, <<"sock">>)
  <1>1. Covers(<<"sock">>, made[p] \ {"sock"}) /\ <<"sock">> # <<>>
    BY DEF Covers
  <1> QED BY <1>1, OneHeld DEF ThrowOK

LEMMA CleanUpGives ==
    ASSUME GiveInv, NEW p \in Procs, pc[p] \in Stages
    PROVE  ThrowOK(p, CleanUp(p, pc[p]))
  <1> DEFINE c == CleanUp(p, pc[p])
  <1>1. Local(p) /\ Quic
    BY DEF GiveInv, Local, PhaseOK
  <1>2. CASE pc[p] = "ctx"
    <2>1. c = <<"sock">> /\ made[p] = {"sock"}
      BY <1>1, <1>2 DEF CleanUp, Local, MadeOK
    <2> QED BY <1>1, <2>1, SocketGives
  <1>3. CASE pc[p] = "ssl"
    <2>1. c = <<"ctx", "sock">> /\ made[p] = {"sock", "ctx"}
      BY <1>1, <1>3 DEF CleanUp, Local, MadeOK
    <2>2. Ordered(c, made[p]) /\ Covers(c, made[p]) /\ "sock" \in made[p] /\ c # <<>>
      BY <2>1, TwoHeld
    <2> HIDE DEF c
    <2>3. Covers(c, made[p] \ {"sock"})
      BY <2>2 DEF Covers
    <2> QED BY <1>1, <2>2, <2>3 DEF ThrowOK, c
  <1>4. CASE pc[p] = "transport"
    <2>1. c = <<"ssl", "ctx", "sock">> /\ made[p] = {"sock", "ctx", "ssl"}
      BY <1>1, <1>4 DEF CleanUp, Local, MadeOK
    <2>2. Ordered(c, made[p]) /\ Covers(c, made[p]) /\ "sock" \in made[p] /\ c # <<>>
      BY <2>1, ThreeHeld
    <2> HIDE DEF c
    <2>3. Covers(c, made[p] \ {"sock"})
      BY <2>2 DEF Covers
    <2> QED BY <1>1, <2>2, <2>3 DEF ThrowOK, c
  <1>5. CASE pc[p] = "conn"
    <2>1. c = Destructor(p) /\ made[p] = {"sock", "ctx", "ssl"}
      BY <1>1, <1>5 DEF CleanUp, Local, MadeOK
    <2> QED BY <1>1, <2>1, DestructorGives
  <1> QED BY <1>2, <1>3, <1>4, <1>5 DEF Stages

(* A connection that is being used ends with its destructor. *)
LEMMA DestructorThrows ==
    ASSUME GiveInv, NEW p \in Procs, Quic,
           pc[p] \in {"hello", "handshake", "opening", "running"},
           NEW ms, Throw(p, Destructor(p), ms)
    PROVE  GiveInv'
  <1>1. Alive(p) /\ made[p] \in {Built, Built \union {"zc"}}
    BY DEF GiveInv, Local, MadeOK, Alive
  <1>2. ThrowOK(p, Destructor(p))
    BY <1>1, DestructorGives
  <1> QED BY <1>1, <1>2, ThrowGives

(* What a place requires depends on little. *)
LEMMA NextPlace ==
    ASSUME GiveInv, NEW p \in Procs, NEW c \in Places, NEW x,
           pc'[p] = c, made'[p] = x, mode' = mode,
           \/ c \in {"binding", "bound", "accepting"} /\ p = Push /\ x = {"sock"}
           \/ c = "connecting" /\ p # Push /\ x = {"sock"}
           \/ c = "ctx" /\ Quic /\ x = {"sock"}
           \/ c = "ssl" /\ Quic /\ x = {"sock", "ctx"}
           \/ c \in {"transport", "conn"} /\ Quic /\ x = {"sock", "ctx", "ssl"}
           \/ c = "hello" /\ Quic /\ x = Built
           \/ c = "handshake" /\ Quic /\ x \in {Built, Built \union {"zc"}}
           \/ c = "opening" /\ p # Push /\ Quic /\ x \in {Built, Built \union {"zc"}}
           \/ c = "running" /\ Quic /\ x \in {Built, Built \union {"zc"}}
           \/ c = "running" /\ ~ Quic /\ x = IF p = Push THEN {"sock", "data"} ELSE {"sock"}
    PROVE  MadeOK(p)' /\ PhaseOK(p)'
  <1>1. MadeOK(p)'
    BY DEF MadeOK, Quic
  <1>2. PhaseOK(p)'
    BY DEF PhaseOK, Stages, Quic
  <1> QED BY <1>1, <1>2

LEMMA GoOnSame ==
    ASSUME GiveInv, NEW p \in Procs, NEW c \in Places, pc' = [pc EXCEPT ![p] = c],
           c \notin {"leaving", "ended"}, Alive(p),
           UNCHANGED <<mode, made, frees, todo>>, MadeOK(p)', PhaseOK(p)'
    PROVE  GiveInv'
  <1>1. made' = [made EXCEPT ![p] = made[p]] /\ made[p] \in SUBSET Resources
    BY DEF GiveInv, Shapes, Local, LocalType
  <1> QED BY <1>1, GoOn

LEMMA SocketStep == ASSUME GiveInv, NEW p \in Procs, Socket(p) PROVE GiveInv'
  <1>1. Local(p) /\ pc[p] = "off" /\ made[p] = {} /\ Alive(p) /\ UNCHANGED <<mode, frees>>
    BY DEF GiveInv, Local, MadeOK, Socket, Alive
  <1>2. CASE pc' = [pc EXCEPT ![p] = "ended"] /\ UNCHANGED <<made, todo>>
    <2>1. Shapes' /\ Alone(p) /\ pc'[p] = "ended"
      BY <1>1, <1>2 DEF GiveInv, Shapes, Alone
    <2>2. frees[p] = NoFrees /\ todo[p] = <<>>
      BY <1>1 DEF Local, FreeOK, Alive
    <2>3. Plan(mode, p, <<>>, {}, NoFrees)
      <3>1. Ordered(<<>>, {}) /\ Covers(<<>>, {})
        BY DEF Ordered, Covers
      <3> QED BY <3>1, PlanOfPull
    <2>4. Local(p)'
      BY <1>1, <1>2, <2>1, <2>2, <2>3
         DEF Local, LocalType, MadeOK, PhaseOK, FreeOK, Alive, Places, Stages
    <2> QED BY <2>1, <2>4, OneProcess
  <1>3. CASE Make(p, "sock") /\ Goto(p, IF p = Push THEN "binding" ELSE "connecting")
             /\ UNCHANGED todo
    <2> DEFINE c == IF p = Push THEN "binding" ELSE "connecting"
    <2>1. made' = [made EXCEPT ![p] = {"sock"}] /\ made'[p] = {"sock"}
          /\ pc' = [pc EXCEPT ![p] = c] /\ pc'[p] = c /\ c \in Places
      BY <1>1, <1>3 DEF Make, Goto, GiveInv, Shapes, Places
    <2>2. MadeOK(p)' /\ PhaseOK(p)'
      BY <1>1, <2>1, NextPlace
    <2>3. {"sock"} \in SUBSET Resources
      BY DEF Resources
    <2> QED BY <1>1, <1>3, <2>1, <2>2, <2>3, GoOn
  <1> QED BY <1>1, <1>2, <1>3 DEF Socket, Goto

LEMMA ListenStep == ASSUME GiveInv, Listen PROVE GiveInv'
  <1>1. /\ Push \in Procs /\ Local(Push) /\ pc[Push] = "binding" /\ made[Push] = {"sock"}
        /\ Alive(Push) /\ UNCHANGED <<mode, made, frees>>
    BY DEF GiveInv, Local, MadeOK, Listen, Alive, Procs
  <1>2. CASE Goto(Push, "bound") /\ UNCHANGED todo
    <2>1. pc' = [pc EXCEPT ![Push] = "bound"] /\ pc'[Push] = "bound" /\ "bound" \in Places
      BY <1>1, <1>2 DEF Goto, GiveInv, Shapes, Places
    <2>2. MadeOK(Push)' /\ PhaseOK(Push)'
      BY <1>1, <2>1, NextPlace
    <2> QED BY <1>1, <1>2, <2>1, <2>2, GoOnSame
  <1>3. CASE todo' = [todo EXCEPT ![Push] = <<"sock">>] /\ Goto(Push, "leaving")
    <2>1. Shapes' /\ Alone(Push) /\ pc'[Push] = "leaving" /\ todo'[Push] = <<"sock">>
      BY <1>1, <1>3 DEF Goto, GiveInv, Shapes, Alone
    <2>2. frees[Push] = NoFrees /\ {"sock"} \in SUBSET Resources
      BY <1>1 DEF Local, FreeOK, Resources
    <2>3. Plan(mode, Push, <<"sock">>, {"sock"}, NoFrees)
      BY <2>2, OneHeld, PlanOfPull
    <2>4. LocalType(Push)'
      BY <1>1, <2>1, <2>3 DEF Local, LocalType, Places, Plan
    <2>5. MadeOK(Push)' /\ PhaseOK(Push)'
      BY <2>1 DEF MadeOK, PhaseOK, Stages
    <2>6. Plan(mode, Push, todo[Push], made[Push], frees[Push])'
      BY <1>1, <2>1, <2>2, <2>3
    <2>7. FreeOK(Push)'
      BY <2>1, <2>6 DEF FreeOK, Alive
    <2> QED BY <1>1, <2>1, <2>4, <2>5, <2>7, OneProcess DEF Local
  <1> QED BY <1>1, <1>2, <1>3 DEF Listen

(* The sender before it has a receiver. *)
LEMMA PortThrows ==
    ASSUME GiveInv, pc[Push] \in {"bound", "accepting"}, Throw(Push, <<>>, {})
    PROVE  GiveInv'
  <1>1. Push \in Procs /\ made[Push] = {"sock"} /\ Alive(Push)
    BY DEF GiveInv, Local, MadeOK, Alive, Procs
  <1>2. ThrowOK(Push, <<>>)
    BY <1>1, NothingHeld DEF ThrowOK
  <1> QED BY <1>1, <1>2, ThrowGives

LEMMA PortStep == ASSUME GiveInv, Register \/ TcpAccept PROVE GiveInv'
  <1>1. Push \in Procs /\ pc[Push] \in {"bound", "accepting"} /\ made[Push] = {"sock"} /\ Alive(Push)
    BY DEF GiveInv, Local, MadeOK, Register, TcpAccept, Alive, Procs
  <1>2. CASE Throw(Push, <<>>, {})
    BY <1>1, <1>2, PortThrows
  <1>3. CASE Goto(Push, "accepting") /\ UNCHANGED <<mode, resVars, wire>>
    <2>1. pc' = [pc EXCEPT ![Push] = "accepting"] /\ pc'[Push] = "accepting"
          /\ "accepting" \in Places /\ UNCHANGED <<mode, made, frees, todo>>
      BY <1>1, <1>3 DEF Goto, GiveInv, Shapes, Places, resVars
    <2>2. MadeOK(Push)' /\ PhaseOK(Push)'
      BY <1>1, <2>1, NextPlace
    <2> QED BY <1>1, <2>1, <2>2, GoOnSame
  <1>4. CASE TcpAccept /\ Make(Push, "data") /\ Goto(Push, "running")
             /\ UNCHANGED <<mode, frees, todo>>
    <2>1. /\ pc' = [pc EXCEPT ![Push] = "running"] /\ pc'[Push] = "running"
          /\ "running" \in Places /\ ~ Quic
          /\ made' = [made EXCEPT ![Push] = {"sock", "data"}] /\ made'[Push] = {"sock", "data"}
      BY <1>1, <1>4 DEF Goto, Make, GiveInv, Shapes, Places, TcpAccept
    <2>2. MadeOK(Push)' /\ PhaseOK(Push)'
      BY <1>1, <1>4, <2>1, NextPlace
    <2>3. {"sock", "data"} \in SUBSET Resources
      BY DEF Resources
    <2> QED BY <1>1, <1>4, <2>1, <2>2, <2>3, GoOn
  <1> QED BY <1>2, <1>3, <1>4 DEF Register, TcpAccept

LEMMA ConnectStep ==
    ASSUME GiveInv, NEW p \in Procs, TcpConnect(p) \/ QuicConnect(p) PROVE GiveInv'
  <1>1. /\ pc[p] = "connecting" /\ p # Push /\ made[p] = {"sock"} /\ Alive(p)
    BY DEF GiveInv, Local, MadeOK, PhaseOK, TcpConnect, QuicConnect, Alive
  <1>2. CASE Throw(p, <<"sock">>, {})
    BY <1>1, <1>2, SocketGives, ThrowGives
  <1>3. CASE ~ Throw(p, <<"sock">>, {})
    <2> DEFINE c == IF Quic THEN "ctx" ELSE "running"
    <2>1. pc' = [pc EXCEPT ![p] = c] /\ pc'[p] = c /\ UNCHANGED <<mode, made, frees, todo>>
          /\ c \in Places
      BY <1>1, <1>3 DEF TcpConnect, QuicConnect, Goto, GiveInv, Shapes, resVars, Places, Stages
    <2>2. MadeOK(p)' /\ PhaseOK(p)'
      BY <1>1, <2>1, NextPlace
    <2> QED BY <1>1, <2>1, <2>2, GoOnSame
  <1> QED BY <1>2, <1>3

LEMMA QuicAcceptStep == ASSUME GiveInv, QuicAccept PROVE GiveInv'
  <1>1. Push \in Procs /\ pc[Push] = "accepting" /\ Quic /\ made[Push] = {"sock"} /\ Alive(Push)
    BY DEF GiveInv, Local, MadeOK, QuicAccept, Alive, Procs
  <1>2. CASE Throw(Push, <<"sock">>, {})
    BY <1>1, <1>2, SocketGives, ThrowGives
  <1>3. CASE ~ Throw(Push, <<"sock">>, {})
    <2>1. pc' = [pc EXCEPT ![Push] = "ctx"] /\ pc'[Push] = "ctx"
          /\ UNCHANGED <<mode, made, frees, todo>> /\ "ctx" \in Places
      BY <1>1, <1>3 DEF QuicAccept, Goto, GiveInv, Shapes, resVars, Places, Stages
    <2>2. MadeOK(Push)' /\ PhaseOK(Push)'
      BY <1>1, <2>1, NextPlace
    <2> QED BY <1>1, <2>1, <2>2, GoOnSame
  <1> QED BY <1>2, <1>3

LEMMA BuildStep == ASSUME GiveInv, NEW p \in Procs, Build(p) PROVE GiveInv'
  <1>1. pc[p] \in Stages /\ Local(p) /\ Quic /\ Alive(p)
    BY DEF GiveInv, Local, PhaseOK, Build, Alive, Stages
  <1>2. CASE Throw(p, CleanUp(p, pc[p]), {})
    BY <1>1, <1>2, CleanUpGives, ThrowGives
  <1>3. CASE ~ Throw(p, CleanUp(p, pc[p]), {})
    <2> DEFINE x == made[p] \union MadeBy(pc[p])
               c == After(pc[p])
    <2>1. /\ pc' = [pc EXCEPT ![p] = c] /\ pc'[p] = c /\ made' = [made EXCEPT ![p] = x]
          /\ made'[p] = x /\ UNCHANGED <<mode, frees, todo>>
      BY <1>1, <1>3 DEF Build, Goto, GiveInv, Shapes
    <2>2. \/ c = "ssl" /\ x = {"sock", "ctx"}
          \/ c = "transport" /\ x = {"sock", "ctx", "ssl"}
          \/ c = "conn" /\ x = {"sock", "ctx", "ssl"}
          \/ c = "hello" /\ x = Built
      <3>1. CASE pc[p] = "ctx"
        BY <1>1, <3>1 DEF Local, MadeOK, After, MadeBy
      <3>2. CASE pc[p] = "ssl"
        BY <1>1, <3>2 DEF Local, MadeOK, After, MadeBy
      <3>3. CASE pc[p] = "transport"
        BY <1>1, <3>3 DEF Local, MadeOK, After, MadeBy
      <3>4. CASE pc[p] = "conn"
        BY <1>1, <3>4 DEF Local, MadeOK, After, MadeBy, Built
      <3> QED BY <1>1, <3>1, <3>2, <3>3, <3>4 DEF Stages
    <2> HIDE DEF c, x
    <2>3. c \in Places /\ x \in SUBSET Resources /\ c \notin {"leaving", "ended"}
      BY <2>2 DEF Places, Stages, Resources, Built
    <2>4. MadeOK(p)' /\ PhaseOK(p)'
      BY <1>1, <2>1, <2>2, <2>3, NextPlace
    <2> QED BY <1>1, <2>1, <2>3, <2>4, GoOn
  <1> QED BY <1>2, <1>3

LEMMA HelloStep == ASSUME GiveInv, NEW p \in Procs, Hello(p) PROVE GiveInv'
  <1>1. pc[p] = "hello" /\ Quic /\ made[p] = Built /\ Alive(p)
    BY DEF GiveInv, Local, MadeOK, PhaseOK, Hello, Alive
  <1>2. CASE Throw(p, Destructor(p), Goodbye(p))
    BY <1>1, <1>2, DestructorThrows
  <1>3. CASE ~ Throw(p, Destructor(p), Goodbye(p))
    <2>1. PICK zc \in {{}, {"zc"}} : made' = [made EXCEPT ![p] = @ \union zc]
      BY <1>3 DEF Hello
    <2> DEFINE x == made[p] \union zc
    <2>2. /\ pc' = [pc EXCEPT ![p] = "handshake"] /\ pc'[p] = "handshake"
          /\ made' = [made EXCEPT ![p] = x] /\ made'[p] = x /\ UNCHANGED <<mode, frees, todo>>
      BY <1>1, <1>3, <2>1 DEF Hello, Goto, GiveInv, Shapes
    <2>3. x \in {Built, Built \union {"zc"}}
      BY <1>1, <2>1
    <2> HIDE DEF x
    <2>4. "handshake" \in Places /\ x \in SUBSET Resources
      BY <2>3 DEF Places, Resources, Built
    <2>5. MadeOK(p)' /\ PhaseOK(p)'
      BY <1>1, <2>2, <2>3, <2>4, NextPlace
    <2> QED BY <1>1, <2>2, <2>4, <2>5, GoOn
  <1> QED BY <1>2, <1>3

LEMMA ReceiveStep == ASSUME GiveInv, NEW p \in Procs, Receive(p) PROVE GiveInv'
  <1>1. pc[p] \in {"handshake", "running"} /\ Quic /\ Alive(p)
        /\ made[p] \in {Built, Built \union {"zc"}} /\ UNCHANGED <<mode, made, frees, todo>>
    BY DEF GiveInv, Local, MadeOK, Receive, Pumping, Alive, resVars
  <1>2. CASE pc' = pc
    BY <1>1, <1>2 DEF GiveInv, Shapes, Local, LocalType, MadeOK, PhaseOK, FreeOK, Alive, Quic
  <1>3. CASE pc' # pc
    <2> DEFINE c == IF p = Push THEN "running" ELSE "opening"
    <2>1. pc' = [pc EXCEPT ![p] = c] /\ pc'[p] = c /\ c \in Places
      BY <1>3 DEF Receive, Goto, GiveInv, Shapes, Places
    <2>2. MadeOK(p)' /\ PhaseOK(p)'
      BY <1>1, <2>1, NextPlace
    <2> QED BY <1>1, <2>1, <2>2, GoOnSame
  <1> QED BY <1>2, <1>3

LEMMA OpenStreamStep == ASSUME GiveInv, NEW p \in Procs, OpenStream(p) PROVE GiveInv'
  <1>1. pc[p] = "opening" /\ p # Push /\ Quic /\ Alive(p) /\ made[p] \in {Built, Built \union {"zc"}}
    BY DEF GiveInv, Local, MadeOK, PhaseOK, OpenStream, Alive
  <1>2. CASE Throw(p, Destructor(p), Goodbye(p))
    BY <1>1, <1>2, DestructorThrows
  <1>3. CASE ~ Throw(p, Destructor(p), Goodbye(p))
    <2>1. pc' = [pc EXCEPT ![p] = "running"] /\ pc'[p] = "running" /\ "running" \in Places
          /\ UNCHANGED <<mode, made, frees, todo>>
      BY <1>3 DEF OpenStream, Goto, GiveInv, Shapes, Places, resVars
    <2>2. MadeOK(p)' /\ PhaseOK(p)'
      BY <1>1, <2>1, NextPlace
    <2> QED BY <1>1, <2>1, <2>2, GoOnSame
  <1> QED BY <1>2, <1>3

LEMMA ClosingStep ==
    ASSUME GiveInv, NEW p \in Procs, Closed(p) \/ IdleTimeout(p) \/ HandshakeFails(p)
    PROVE  GiveInv'
  <1>1. Quic /\ pc[p] \in {"hello", "handshake", "opening", "running"}
    BY DEF Closed, IdleTimeout, HandshakeFails, Pumping
  <1>2. PICK ms : Throw(p, Destructor(p), ms)
    BY DEF Closed, IdleTimeout, HandshakeFails
  <1> QED BY <1>1, <1>2, DestructorThrows

LEMMA FinishStep == ASSUME GiveInv, NEW p \in Procs, Finish(p) PROVE GiveInv'
  <1>1. pc[p] = "running" /\ Alive(p) /\ MadeOK(p)
    BY DEF Finish, Alive, GiveInv, Local
  <1>2. CASE Quic
    BY <1>1, <1>2, DestructorThrows DEF Finish
  <1>3. CASE ~ Quic /\ p = Push
    <2>1. made[p] = {"sock", "data"} /\ Throw(p, <<"data">>, {})
      BY <1>1, <1>3 DEF MadeOK, Finish
    <2>2. ThrowOK(p, <<"data">>)
      BY <1>3, <2>1, DataHeld DEF ThrowOK
    <2> QED BY <1>1, <2>1, <2>2, ThrowGives
  <1>4. CASE ~ Quic /\ p # Push
    <2>1. made[p] = {"sock"} /\ Throw(p, <<"sock">>, {})
      BY <1>1, <1>4 DEF MadeOK, Finish
    <2> QED BY <1>1, <1>4, <2>1, SocketGives, ThrowGives
  <1> QED BY <1>2, <1>3, <1>4

LEMMA StrayTalksStep == ASSUME GiveInv, StrayTalks PROVE GiveInv'
  <1>1. Push \in Procs /\ ~ Quic /\ Throw(Push, <<"data">>, {}) /\ pc[Push] = "running"
    BY DEF StrayTalks, Procs
  <1>2. Alive(Push) /\ MadeOK(Push)
    BY <1>1 DEF Alive, GiveInv, Local
  <1>3. made[Push] = {"sock", "data"}
    BY <1>1, <1>2 DEF MadeOK
  <1>4. ThrowOK(Push, <<"data">>)
    BY <1>1, <1>3, DataHeld DEF ThrowOK
  <1> QED BY <1>1, <1>2, <1>4, ThrowGives

LEMMA NothingGiven ==
    ASSUME GiveInv, UNCHANGED <<mode, pc, made, frees, todo>> PROVE GiveInv'
  BY DEF GiveInv, Shapes, Local, LocalType, MadeOK, PhaseOK, FreeOK, Alive, Quic

LEMMA GiveStep == GiveInv /\ [Next]_vars => GiveInv'
  <1> SUFFICES ASSUME GiveInv, [Next]_vars PROVE GiveInv'
    OBVIOUS
  <1>1. CASE StrayConnect \/ StrayDatagram \/ Lose \/ UNCHANGED vars
    BY <1>1, NothingGiven DEF StrayConnect, StrayDatagram, Lose, vars, resVars
  <1>2. ASSUME NEW p \in Procs, Step(p) PROVE GiveInv'
    BY <1>2, SocketStep, ConnectStep, BuildStep, HelloStep, OpenStreamStep, ClosingStep,
       FinishStep, FreeGives, ListenStep, PortStep, QuicAcceptStep DEF Step
  <1>3. ASSUME NEW p \in Procs, Receive(p) \/ Resend(p) \/ IdleTimeout(p) \/ HandshakeFails(p)
        PROVE  GiveInv'
    <2>1. CASE Resend(p)
      BY <2>1, NothingGiven DEF Resend, resVars
    <2> QED BY <1>3, <2>1, ReceiveStep, ClosingStep
  <1>4. CASE StrayTalks
    BY <1>4, StrayTalksStep
  <1> QED BY <1>1, <1>2, <1>3, <1>4 DEF Next

(* The inductive invariant: what a process has made follows from where it is,  *)
(* and on its way out it has a plan that gives back the rest.                  *)
THEOREM PlansAreGood == Spec => []GiveInv
  BY GiveInit, GiveStep, PTL DEF Spec

(* However many receivers come and whatever fails where, a process that ended  *)
(* gave back all it took, and but for the socket of run_push_cli only once.    *)
THEOREM AllGivenBack == Spec => []GivenBackOnce
  <1>1. GiveInv => GivenBackOnce
    <2> SUFFICES ASSUME GiveInv, NEW p \in Procs, NEW r \in Resources
                 PROVE  /\ Left(p) /\ r \in made[p] => frees[p][r] > 0
                        /\ frees[p][r] > 0 => r \in made[p]
                        /\ ~ TwoOwners(p, r) => frees[p][r] <= 1
      BY DEF GivenBackOnce
    <2>1. LocalType(p) /\ FreeOK(p) /\ (Shared(mode, p, r) <=> TwoOwners(p, r))
      BY DEF GiveInv, Local, Shared, TwoOwners, Quic
    <2>2. CASE Alive(p)
      BY <2>1, <2>2 DEF FreeOK, Alive, Left, NoFrees
    <2>3. CASE ~ Alive(p)
      <3>1. /\ Plan(mode, p, todo[p], made[p], frees[p])
            /\ Left(p) => todo[p] = <<>>
        BY <2>1, <2>3 DEF FreeOK, Left
      <3>2. todo[p] = <<>> => ~ \E i \in 1 .. Len(todo[p]) : todo[p][i] = r
        OBVIOUS
      <3> QED BY <2>1, <3>1, <3>2 DEF Plan
    <2> QED BY <2>2, <2>3
  <1> QED BY <1>1, PlansAreGood, PTL

(* And what uses a thing goes before it: nothing runs on a freed session,      *)
(* context or socket.                                                          *)
THEOREM UsersGoFirst == Spec => []UsersFirst
  <1>1. GiveInv => UsersFirst
    <2> SUFFICES ASSUME GiveInv, NEW p \in Procs
                 PROVE  /\ \A n \in Needs : {n[1], n[2]} \subseteq made[p] /\ frees[p][n[2]] > 0
                                            => frees[p][n[1]] > 0
                        /\ pc[p] # "leaving" /\ ~ Left(p) => \A r \in made[p] : frees[p][r] = 0
      BY DEF UsersFirst
    <2>1. LocalType(p) /\ FreeOK(p)
      BY DEF GiveInv, Local
    <2>2. CASE Alive(p)
      <3>1. \A r \in Resources : frees[p][r] = 0
        BY <2>1, <2>2 DEF FreeOK, NoFrees
      <3> QED BY <2>1, <3>1 DEF LocalType, Needs
    <2>3. CASE ~ Alive(p)
      BY <2>1, <2>3 DEF FreeOK, Alive, Left, Plan
    <2> QED BY <2>2, <2>3
  <1> QED BY <1>1, PlansAreGood, PTL

----------------------------------------------------------------------------
(* The handshake                                                            *)

Ends == Senders \union {Push}
Msgs == [from : Ends, to : Ends, kind : Kinds]
Early == {"off", "binding", "bound", "accepting"}
Late == Stages \union {"hello", "handshake", "opening", "running"}

TypeNet ==
    /\ backlog \subseteq Senders /\ peer \in Ends
    /\ shook \in [Procs -> BOOLEAN] /\ stream \in [Procs -> BOOLEAN]
    /\ wire \subseteq Msgs /\ losses \in Nat

(* A datagram says nothing its sender had not done, and the sender's port, once *)
(* connected, has only datagrams of its peer.                                   *)
MsgOK(m) ==
    /\ m.from = Push => peer \in Pulls /\ m.to = peer
    /\ m.from # Push => m.to = Push
    /\ m.kind = "Initial" => m.from \in Pulls
    /\ m.kind \in {"Finished", "Stream"} => m.from \in Pulls /\ shook[m.from]
    /\ m.kind = "Stream" => stream[m.from]
    /\ m.kind = "Flight" => m.from = Push
    /\ m.to = Push /\ peer # Nobody => m.from = peer

QuicNet ==
    /\ peer \in Pulls \union {Nobody}
    /\ pc[Push] \in Early => peer = Nobody
    /\ pc[Push] \in Late \/ "ctx" \in made[Push] => peer \in Pulls
    /\ \A m \in wire : MsgOK(m)
    /\ \A p \in Pulls : shook[p] => peer = p
    /\ shook[Push] => peer \in Pulls /\ shook[peer]
    /\ stream[Push] => peer \in Pulls /\ stream[peer]

NetInv == TypeNet /\ (Quic => QuicNet)

LEMMA NetInit == Init => NetInv
  BY DEF Init, NetInv, TypeNet, QuicNet, Quic, Early, Late, Stages, Nobody, Ends, Senders, Procs

(* A step without a word about the handshake. *)
LEMMA QuietNet ==
    ASSUME NetInv, UNCHANGED <<mode, peer, shook, stream>>,
           backlog' \subseteq Senders, losses' \in Nat,
           \A m \in wire' : m \in wire \/ (m \in Msgs /\ (Quic => MsgOK(m))),
           pc'[Push] \in Early => pc[Push] \in Early,
           Quic /\ (pc'[Push] \in Late \/ "ctx" \in made'[Push])
             => pc[Push] \in Late \/ "ctx" \in made[Push]
    PROVE  NetInv'
  <1>1. TypeNet'
    BY DEF NetInv, TypeNet
  <1>2. ASSUME Quic PROVE QuicNet'
    <2>1. QuicNet
      BY <1>2 DEF NetInv
    <2>2. \A m \in wire' : MsgOK(m)
      BY <1>2, <2>1 DEF QuicNet
    <2>3. \A m \in wire' : MsgOK(m)'
      BY <2>2 DEF MsgOK
    <2>4. /\ pc'[Push] \in Early => peer' = Nobody
          /\ pc'[Push] \in Late \/ "ctx" \in made'[Push] => peer' \in Pulls
      BY <1>2, <2>1 DEF QuicNet
    <2> QED BY <2>1, <2>3, <2>4 DEF QuicNet
  <1> QED BY <1>1, <1>2 DEF NetInv, Quic

LEMMA FlightOK ==
    ASSUME NetInv, Quic, NEW p \in Procs, pc[p] \in {"hello", "handshake", "running"},
           NEW m \in Readable(Flight(p))
    PROVE  m \in Msgs /\ MsgOK(m)
  <1>1. TypeNet /\ QuicNet
    BY DEF NetInv
  <1>2. CASE p = Push
    <2>1. m = Msg(Push, peer, "Flight") /\ peer \in Pulls
      BY <1>1, <1>2 DEF Readable, Flight, QuicNet, Late
    <2> QED BY <2>1 DEF Msg, Msgs, MsgOK, Ends, Senders, Kinds, Nobody
  <1>3. CASE p # Push
    <2>1. /\ m \in {Msg(p, Push, "Initial"), Msg(p, Push, "Finished"), Msg(p, Push, "Stream")}
          /\ m.kind \in {"Finished", "Stream"} => shook[p]
          /\ m.kind = "Stream" => stream[p]
      BY <1>3 DEF Readable, Flight, Msg
    <2>2. m.to = Push /\ m.from = p /\ p \in Pulls /\ m.kind \in {"Initial", "Finished", "Stream"}
      BY <1>3, <2>1 DEF Msg, Procs
    <2>3. peer \in {Nobody, p}
      BY <2>2 DEF Readable
    <2>4. m \in Msgs
      BY <2>1, <2>2 DEF Msg, Msgs, Ends, Senders, Kinds
    <2> QED BY <1>3, <2>1, <2>2, <2>3, <2>4 DEF MsgOK
  <1> QED BY <1>2, <1>3

LEMMA GoodbyeOK ==
    ASSUME NetInv, Quic, NEW p \in Procs, pc[p] \in Late, NEW m \in Readable(Goodbye(p))
    PROVE  m \in Msgs /\ MsgOK(m)
  <1>1. TypeNet /\ QuicNet
    BY DEF NetInv
  <1>2. m = Msg(p, IF p = Push THEN peer ELSE Push, "Close")
    BY DEF Readable, Goodbye
  <1>3. CASE p = Push
    <2>1. m = Msg(Push, peer, "Close") /\ peer \in Pulls
      BY <1>1, <1>2, <1>3 DEF QuicNet
    <2> QED BY <2>1 DEF Msg, Msgs, MsgOK, Ends, Senders, Kinds, Nobody
  <1>4. CASE p # Push
    <2>1. m.to = Push /\ m.from = p /\ p \in Pulls /\ m.kind = "Close"
      BY <1>2, <1>4 DEF Msg, Procs
    <2>2. peer \in {Nobody, p}
      BY <2>1 DEF Readable
    <2>3. m \in Msgs
      BY <1>2, <1>4, <2>1 DEF Msg, Msgs, Ends, Senders, Kinds
    <2> QED BY <1>4, <2>1, <2>2, <2>3 DEF MsgOK
  <1> QED BY <1>3, <1>4

(* On its way out a process says goodbye, or nothing. *)
LEMMA ThrowNet ==
    ASSUME GiveInv, NetInv, NEW p \in Procs, NEW c, NEW ms, Throw(p, c, ms),
           ms = {} \/ (Quic /\ pc[p] \in Late /\ ms = Goodbye(p)),
           UNCHANGED <<peer, shook, stream>>, backlog' \subseteq Senders, losses' \in Nat
    PROVE  NetInv'
  <1>1. /\ mode' = mode /\ made' = made
        /\ pc' = [pc EXCEPT ![p] = "ended"] \/ pc' = [pc EXCEPT ![p] = "leaving"]
        /\ \A m \in wire' : m \in wire \union Readable(ms)
    BY DEF Throw, Goto
  <1>2. /\ pc'[Push] \in Early => pc[Push] \in Early
        /\ pc'[Push] \in Late => pc[Push] \in Late
    BY <1>1 DEF GiveInv, Shapes, Early, Late, Stages, Procs
  <1>3. \A m \in wire' : m \in wire \/ (m \in Msgs /\ (Quic => MsgOK(m)))
    <2>1. CASE ms = {}
      BY <1>1, <2>1 DEF Readable
    <2>2. CASE Quic /\ pc[p] \in Late /\ ms = Goodbye(p)
      BY <1>1, <2>2, GoodbyeOK
    <2> QED BY <2>1, <2>2
  <1> QED BY <1>1, <1>2, <1>3, QuietNet

(* On its way it may send again what it has to say. *)
LEMMA MoveNet ==
    ASSUME GiveInv, NetInv, NEW p \in Procs, NEW w,
           Goto(p, w) \/ (UNCHANGED pc /\ w = pc[p]),
           w \in Early => pc[p] \in Early, Quic /\ w \in Late => pc[p] \in Late,
           Quic /\ "ctx" \in made'[Push] => pc[Push] \in Late \/ "ctx" \in made[Push],
           UNCHANGED <<mode, peer, shook, stream>>,
           backlog' \subseteq Senders, losses' \in Nat,
           \A m \in wire' : \/ m \in wire
                            \/ /\ Quic /\ pc[p] \in {"hello", "handshake", "running"}
                               /\ m \in Readable(Flight(p))
    PROVE  NetInv'
  <1>1. /\ pc'[Push] \in Early => pc[Push] \in Early
        /\ Quic /\ pc'[Push] \in Late => pc[Push] \in Late
    BY DEF GiveInv, Shapes, Goto, Procs
  <1>2. \A m \in wire' : m \in wire \/ (m \in Msgs /\ (Quic => MsgOK(m)))
    BY FlightOK
  <1> QED BY <1>1, <1>2, QuietNet

LEMMA SocketNet ==
    ASSUME GiveInv, NetInv, NEW p \in Procs, Socket(p) PROVE NetInv'
  <1>1. /\ pc[p] = "off" /\ UNCHANGED <<mode, netVars>>
        /\ \E w \in {"binding", "connecting", "ended"} : Goto(p, w)
    <2>1. CASE Goto(p, IF p = Push THEN "binding" ELSE "connecting")
      BY <2>1 DEF Socket
    <2> QED BY <2>1 DEF Socket
  <1>2. "ctx" \in made'[Push] => "ctx" \in made[Push]
    BY DEF Socket, Make, GiveInv, Shapes, Procs
  <1>3. PICK w \in {"binding", "connecting", "ended"} : Goto(p, w)
    BY <1>1
  <1> QED BY <1>1, <1>2, <1>3, MoveNet DEF netVars, NetInv, TypeNet, Early, Late, Stages

LEMMA ListenNet ==
    ASSUME GiveInv, NetInv, Listen \/ Register PROVE NetInv'
  <1>1. CASE Listen
    <2>1. PICK w \in {"bound", "leaving"} : Goto(Push, w)
      BY <1>1 DEF Listen
    <2> QED BY <1>1, <2>1, MoveNet
        DEF Listen, netVars, NetInv, TypeNet, Early, Late, Stages, Procs
  <1>2. CASE Register /\ Goto(Push, "accepting") /\ UNCHANGED <<mode, resVars, wire>>
    BY <1>2, MoveNet DEF Register, resVars, NetInv, TypeNet, Early, Late, Stages, Procs
  <1>3. CASE Register /\ Throw(Push, <<>>, {})
    BY <1>3, ThrowNet DEF Register, NetInv, TypeNet, Procs
  <1> QED BY <1>1, <1>2, <1>3 DEF Register

LEMMA TcpNet ==
    ASSUME GiveInv, NetInv, NEW p \in Procs, TcpConnect(p) PROVE NetInv'
  <1>1. p \in Senders /\ backlog \subseteq Senders /\ losses \in Nat
    BY DEF GiveInv, Local, PhaseOK, TcpConnect, NetInv, TypeNet, Procs, Senders
  <1>2. CASE Goto(p, "running") /\ UNCHANGED <<mode, resVars, wire>>
    BY <1>1, <1>2, MoveNet DEF TcpConnect, resVars, Early
  <1>3. CASE Throw(p, <<"sock">>, {})
    BY <1>1, <1>3, ThrowNet DEF TcpConnect
  <1> QED BY <1>2, <1>3 DEF TcpConnect

LEMMA TcpAcceptNet ==
    ASSUME GiveInv, NetInv, TcpAccept PROVE NetInv'
  <1>1. CASE Throw(Push, <<>>, {}) /\ UNCHANGED <<backlog, peer>>
    BY <1>1, ThrowNet DEF TcpAccept, NetInv, TypeNet, Procs
  <1>2. CASE \E c \in backlog : backlog' = backlog \ {c} /\ peer' = c /\ UNCHANGED <<mode, wire>>
    BY <1>2 DEF TcpAccept, NetInv, TypeNet, Quic, Ends
  <1> QED BY <1>1, <1>2 DEF TcpAccept

LEMMA StrayNet ==
    ASSUME GiveInv, NetInv, StrayConnect \/ StrayTalks \/ StrayDatagram \/ Lose PROVE NetInv'
  <1>1. CASE StrayConnect
    BY <1>1, QuietNet DEF StrayConnect, resVars, NetInv, TypeNet, Senders
  <1>2. CASE StrayDatagram
    <2>1. peer = Nobody
      BY <1>2 DEF StrayDatagram, NetInv, QuicNet, Early
    <2>2. Msg(Stranger, Push, "junk") \in Msgs /\ MsgOK(Msg(Stranger, Push, "junk"))
      BY <2>1, SetupAssumption DEF Msg, Msgs, MsgOK, Ends, Senders, Kinds
    <2> QED BY <1>2, <2>2, QuietNet DEF StrayDatagram, resVars, NetInv, TypeNet
  <1>3. CASE Lose
    BY <1>3, QuietNet DEF Lose, resVars, NetInv, TypeNet
  <1>4. CASE StrayTalks
    BY <1>4, ThrowNet DEF StrayTalks, NetInv, TypeNet, Procs
  <1> QED BY <1>1, <1>2, <1>3, <1>4

----------------------------------------------------------------------------
(* The steps of the handshake                                               *)

LEMMA QuicConnectNet ==
    ASSUME GiveInv, NetInv, NEW p \in Procs, QuicConnect(p) PROVE NetInv'
  <1>1. p # Push /\ pc[p] = "connecting" /\ backlog \subseteq Senders /\ losses \in Nat
    BY DEF GiveInv, Local, PhaseOK, QuicConnect, NetInv, TypeNet
  <1>2. CASE Goto(p, "ctx") /\ UNCHANGED <<mode, resVars, wire>>
    <2>1. /\ pc'[Push] = pc[Push] /\ UNCHANGED <<mode, made, wire, backlog, peer, shook, stream, losses>>
      BY <1>1, <1>2 DEF Goto, GiveInv, Shapes, Procs, QuicConnect, resVars
    <2> QED BY <1>1, <2>1, QuietNet
  <1>3. CASE Throw(p, <<"sock">>, {})
    BY <1>1, <1>3, ThrowNet DEF QuicConnect
  <1> QED BY <1>2, <1>3 DEF QuicConnect

(* Before the accept nobody has heard from the sender. *)
LEMMA Unheard ==
    ASSUME NetInv, Quic, peer = Nobody
    PROVE  /\ \A q \in Procs : ~ shook[q]
           /\ ~ stream[Push]
           /\ \A m \in wire : m.from # Push /\ m.to = Push
                              /\ m.kind \notin {"Finished", "Stream", "Flight"}
  <1>1. QuicNet /\ Nobody \notin Pulls
    BY SetupAssumption DEF NetInv, Nobody
  <1>2. \A q \in Procs : ~ shook[q]
    BY <1>1 DEF QuicNet, Procs
  <1> QED BY <1>1, <1>2 DEF QuicNet, MsgOK, Procs

LEMMA QuicAcceptNet ==
    ASSUME GiveInv, NetInv, QuicAccept PROVE NetInv'
  <1>1. /\ Quic /\ QuicNet /\ TypeNet /\ peer = Nobody /\ pc[Push] = "accepting"
    BY DEF QuicAccept, NetInv, QuicNet, Early
  <1>2. CASE Throw(Push, <<"sock">>, {}) /\ UNCHANGED peer
    BY <1>1, <1>2, ThrowNet DEF QuicAccept, TypeNet, Procs
  <1>3. ASSUME NEW m \in wire, m.to = Push, m.kind = "Initial",
               peer' = m.from, Goto(Push, "ctx"), UNCHANGED <<mode, resVars>>,
               wire' = {n \in wire \ {m} : n.to = Push => n.from = m.from},
               UNCHANGED <<backlog, shook, stream, losses>>
        PROVE  NetInv'
    <2>1. m.from \in Pulls
      BY <1>1, <1>3 DEF QuicNet, MsgOK
    <2>2. TypeNet'
      BY <1>1, <1>3, <2>1 DEF TypeNet, Ends, Senders
    <2>3. pc'[Push] = "ctx"
      BY <1>3 DEF Goto, GiveInv, Shapes, Procs
    <2>4. \A n \in wire' : MsgOK(n)'
      <3> SUFFICES ASSUME NEW n \in wire' PROVE MsgOK(n)'
        OBVIOUS
      <3>1. n \in wire /\ (n.to = Push => n.from = m.from) /\ MsgOK(n)
        BY <1>1, <1>3 DEF QuicNet
      <3>2. n.from # Push /\ n.to = Push /\ n.kind \notin {"Finished", "Stream", "Flight"}
        BY <1>1, <3>1, Unheard
      <3> QED BY <1>3, <3>1, <3>2 DEF MsgOK
    <2>5. /\ \A q \in Pulls : ~ shook'[q]
          /\ ~ shook'[Push] /\ ~ stream'[Push]
      BY <1>1, <1>3, Unheard DEF Procs
    <2>6. QuicNet'
      BY <1>3, <2>1, <2>3, <2>4, <2>5 DEF QuicNet, Early
    <2> QED BY <2>2, <2>6 DEF NetInv
  <1> QED BY <1>2, <1>3 DEF QuicAccept

LEMMA BuildNet ==
    ASSUME GiveInv, NetInv, NEW p \in Procs, Build(p) PROVE NetInv'
  <1>1. pc[p] \in Late /\ backlog \subseteq Senders /\ losses \in Nat
    BY DEF Build, Late, NetInv, TypeNet
  <1>2. CASE Throw(p, CleanUp(p, pc[p]), {})
    BY <1>1, <1>2, ThrowNet DEF Build
  <1>3. CASE /\ made' = [made EXCEPT ![p] = @ \union MadeBy(pc[p])]
             /\ Goto(p, After(pc[p])) /\ UNCHANGED <<mode, frees, todo, wire>>
    <2>1. After(pc[p]) \in {"ssl", "transport", "conn", "hello"}
      BY DEF Build, Stages, After
    <2>2. "ctx" \in made'[Push] => pc[Push] \in Late \/ "ctx" \in made[Push]
      BY <1>1, <1>3 DEF GiveInv, Shapes, Procs
    <2> QED BY <1>1, <1>3, <2>1, <2>2, MoveNet DEF Build, Early
  <1> QED BY <1>2, <1>3 DEF Build

LEMMA HelloNet ==
    ASSUME GiveInv, NetInv, NEW p \in Procs, Hello(p) PROVE NetInv'
  <1>1. pc[p] = "hello" /\ pc[p] \in Late /\ Quic /\ backlog \subseteq Senders /\ losses \in Nat
    BY DEF Hello, Late, NetInv, TypeNet, GiveInv, Local, PhaseOK
  <1>2. CASE Throw(p, Destructor(p), Goodbye(p))
    BY <1>1, <1>2, ThrowNet DEF Hello
  <1>3. ASSUME NEW zc \in {{}, {"zc"}}, made' = [made EXCEPT ![p] = @ \union zc],
               wire' = wire \union Readable(Flight(p)),
               Goto(p, "handshake"), UNCHANGED <<mode, frees, todo>>
        PROVE  NetInv'
    <2>1. "ctx" \in made'[Push] => "ctx" \in made[Push]
      BY <1>3 DEF GiveInv, Shapes, Procs
    <2> QED BY <1>1, <1>3, <2>1, MoveNet DEF Hello, Early
  <1> QED BY <1>2, <1>3 DEF Hello

LEMMA ResendNet ==
    ASSUME GiveInv, NetInv, NEW p \in Procs, Resend(p) PROVE NetInv'
  BY MoveNet DEF Resend, Pumping, resVars, NetInv, TypeNet

(* What is known of the handshake only grows, and its datagrams stay true. *)
LEMMA MsgsStay ==
    ASSUME NEW m, MsgOK(m), peer' = peer, TypeNet,
           \A q \in Procs : (shook[q] => shook'[q]) /\ (stream[q] => stream'[q])
    PROVE  MsgOK(m)'
  BY DEF MsgOK, Procs

LEMMA ReceiveNet ==
    ASSUME GiveInv, NetInv, NEW p \in Procs, Receive(p) PROVE NetInv'
  <1>1. /\ Quic /\ QuicNet /\ TypeNet /\ pc[p] \in Late /\ Push \notin Pulls
        /\ UNCHANGED <<mode, made, backlog, peer, losses>>
    BY SetupAssumption DEF Receive, Pumping, NetInv, Late, resVars
  <1>2. PICK m \in wire :
          /\ m.to = p /\ m.kind # "Close" /\ wire' = wire \ {m}
          /\ shook' = [shook EXCEPT ![p] = @ \/ m.kind \in {"Finished", "Flight"}]
          /\ stream' = [stream EXCEPT ![p] = @ \/ (m.kind = "Stream" /\ shook[p])]
    BY DEF Receive
  <1>3. MsgOK(m)
    BY <1>1 DEF QuicNet
  <1>4. TypeNet'
    BY <1>1, <1>2 DEF TypeNet
  <1>5. \A q \in Procs : (shook[q] => shook'[q]) /\ (stream[q] => stream'[q])
    BY <1>1, <1>2 DEF TypeNet
  <1>6. \A n \in wire' : MsgOK(n)'
    BY <1>1, <1>2, <1>5, MsgsStay DEF QuicNet
  <1>7. ASSUME NEW q \in Pulls, shook'[q] PROVE peer' = q
    <2>1. CASE shook[q]
      BY <1>1, <2>1 DEF QuicNet
    <2>2. CASE ~ shook[q]
      <3>1. q = p
        BY <1>1, <1>2, <1>7, <2>2 DEF TypeNet, Procs
      <3> QED BY <1>1, <1>2, <1>3, <3>1 DEF MsgOK
    <2> QED BY <2>1, <2>2
  <1>8. p = Push => peer \in Pulls /\ m.from = peer
    BY <1>1, <1>2, <1>3 DEF QuicNet, MsgOK, Nobody
  <1>9. shook'[Push] => peer' \in Pulls /\ shook'[peer']
    <2>1. CASE shook[Push]
      BY <1>1, <1>5, <2>1 DEF QuicNet, Procs
    <2>2. CASE ~ shook[Push] /\ shook'[Push]
      <3>1. p = Push /\ m.kind \in {"Finished", "Flight"}
        BY <1>1, <1>2, <2>2 DEF TypeNet, Procs
      <3>2. peer \in Pulls /\ shook[peer]
        BY <1>1, <1>3, <1>8, <3>1 DEF MsgOK
      <3> QED BY <1>1, <1>5, <3>2 DEF Procs
    <2> QED BY <2>1, <2>2
  <1>10. stream'[Push] => peer' \in Pulls /\ stream'[peer']
    <2>1. CASE stream[Push]
      BY <1>1, <1>5, <2>1 DEF QuicNet, Procs
    <2>2. CASE ~ stream[Push] /\ stream'[Push]
      <3>1. p = Push /\ m.kind = "Stream"
        BY <1>1, <1>2, <2>2 DEF TypeNet, Procs
      <3>2. peer \in Pulls /\ stream[peer]
        BY <1>1, <1>3, <1>8, <3>1 DEF MsgOK
      <3> QED BY <1>1, <1>5, <3>2 DEF Procs
    <2> QED BY <2>1, <2>2
  <1>11. /\ pc'[Push] \in Early => pc[Push] \in Early
         /\ pc'[Push] \in Late => pc[Push] \in Late
    <2>1. pc' = pc \/ pc' = [pc EXCEPT ![p] = "running"] \/ pc' = [pc EXCEPT ![p] = "opening"]
      <3>1. CASE Goto(p, IF p = Push THEN "running" ELSE "opening")
        BY <3>1 DEF Goto
      <3> QED BY <3>1 DEF Receive
    <2> QED BY <1>1, <2>1 DEF GiveInv, Shapes, Early, Late, Procs
  <1>12. QuicNet'
    BY <1>1, <1>6, <1>7, <1>9, <1>10, <1>11 DEF QuicNet
  <1> QED BY <1>4, <1>12 DEF NetInv

LEMMA OpenStreamNet ==
    ASSUME GiveInv, NetInv, NEW p \in Procs, OpenStream(p) PROVE NetInv'
  <1>1. /\ p # Push /\ Quic /\ QuicNet /\ TypeNet /\ pc[p] \in Late /\ pc[p] = "opening"
        /\ UNCHANGED <<backlog, peer, shook, losses>>
    BY DEF OpenStream, GiveInv, Local, PhaseOK, NetInv, Late
  <1>2. CASE Throw(p, Destructor(p), Goodbye(p)) /\ UNCHANGED stream
    BY <1>1, <1>2, ThrowNet DEF TypeNet
  <1>3. CASE /\ stream' = [stream EXCEPT ![p] = TRUE]
             /\ Goto(p, "running") /\ UNCHANGED <<mode, resVars, wire>>
    <2>1. TypeNet'
      BY <1>1, <1>3 DEF TypeNet
    <2>2. \A q \in Procs : (shook[q] => shook'[q]) /\ (stream[q] => stream'[q])
      BY <1>1, <1>3 DEF TypeNet
    <2>3. \A m \in wire' : MsgOK(m)'
      BY <1>1, <1>3, <2>2, MsgsStay DEF QuicNet
    <2>4. pc'[Push] = pc[Push] /\ stream'[Push] = stream[Push] /\ made' = made
      BY <1>1, <1>3 DEF Goto, GiveInv, Shapes, TypeNet, Procs, resVars
    <2>5. QuicNet'
      BY <1>1, <2>2, <2>3, <2>4 DEF QuicNet, Procs
    <2> QED BY <2>1, <2>5 DEF NetInv
  <1> QED BY <1>2, <1>3 DEF OpenStream

LEMMA ClosingNet ==
    ASSUME GiveInv, NetInv, NEW p \in Procs,
           Closed(p) \/ IdleTimeout(p) \/ HandshakeFails(p) \/ Finish(p)
    PROVE  NetInv'
  <1>1. backlog \subseteq Senders /\ losses \in Nat
    BY DEF NetInv, TypeNet
  <1>2. CASE Closed(p) \/ IdleTimeout(p)
    BY <1>1, <1>2, ThrowNet DEF Closed, IdleTimeout
  <1>3. CASE HandshakeFails(p)
    BY <1>1, <1>3, ThrowNet DEF HandshakeFails, Late
  <1>4. CASE Finish(p)
    <2>1. CASE Quic
      BY <1>1, <1>4, <2>1, ThrowNet DEF Finish, Late
    <2>2. CASE ~ Quic
      <3>1. PICK c : Throw(p, c, {})
        BY <1>4, <2>2 DEF Finish
      <3> QED BY <1>1, <1>4, <3>1, ThrowNet DEF Finish
    <2> QED BY <2>1, <2>2
  <1> QED BY <1>2, <1>3, <1>4

LEMMA FreeNet ==
    ASSUME GiveInv, NetInv, NEW p \in Procs, Free(p) PROVE NetInv'
  <1>1. /\ pc[p] = "leaving" /\ UNCHANGED <<mode, made, netVars>>
        /\ Goto(p, "ended") \/ UNCHANGED pc
    BY DEF Free
  <1> QED BY <1>1, MoveNet DEF netVars, NetInv, TypeNet, Early, Late, Stages

LEMMA NetStep == GiveInv /\ NetInv /\ [Next]_vars => NetInv'
  <1> SUFFICES ASSUME GiveInv, NetInv, [Next]_vars PROVE NetInv'
    OBVIOUS
  <1>1. CASE StrayConnect \/ StrayTalks \/ StrayDatagram \/ Lose
    BY <1>1, StrayNet
  <1>2. CASE UNCHANGED vars
    BY <1>2, QuietNet DEF vars, resVars, NetInv, TypeNet
  <1>3. ASSUME NEW p \in Procs, Step(p) PROVE NetInv'
    BY <1>3, SocketNet, TcpNet, QuicConnectNet, BuildNet, HelloNet, OpenStreamNet, ClosingNet,
       FreeNet, ListenNet, TcpAcceptNet, QuicAcceptNet DEF Step
  <1>4. ASSUME NEW p \in Procs, Receive(p) \/ Resend(p) \/ IdleTimeout(p) \/ HandshakeFails(p)
        PROVE  NetInv'
    BY <1>4, ReceiveNet, ResendNet, ClosingNet
  <1> QED BY <1>1, <1>2, <1>3, <1>4 DEF Next

(* The second inductive invariant: who has shaken hands, whom Push serves and  *)
(* what every datagram on its way says of both.                                *)
THEOREM HandshakesMatch == Spec => [](GiveInv /\ NetInv)
  BY GiveInit, GiveStep, NetInit, NetStep, PTL DEF Spec

(* Whoever sends Initials, and whatever is lost, copied or reordered, the one  *)
(* receiver whose handshake completes is the one the sender serves.            *)
THEOREM ServesOneReceiver == Spec => []ServesOne
  <1>1. GiveInv /\ NetInv => ServesOne
    BY DEF NetInv, QuicNet, ServesOne
  <1> QED BY <1>1, HandshakesMatch, PTL

(* Every variable keeps its type, and nobody shakes hands without a socket, a  *)
(* context, a session and a connection.                                        *)
THEOREM SetupTyping == Spec => []TypeOK
  <1>1. GiveInv /\ NetInv => TypeOK
    <2> SUFFICES ASSUME GiveInv, NetInv PROVE TypeOK
      OBVIOUS
    <2>1. \A p \in Procs : LocalType(p) /\ MadeOK(p)
      BY DEF GiveInv, Local
    <2>2. /\ pc \in [Procs -> Places] /\ made \in [Procs -> SUBSET Resources]
          /\ frees \in [Procs -> [Resources -> Nat]] /\ todo \in [Procs -> Seq(Resources)]
      BY <2>1 DEF GiveInv, Shapes, LocalType
    <2>3. \A p \in Procs :
            Quic /\ pc[p] \in {"hello", "handshake", "opening", "running"} => Built \subseteq made[p]
      BY <2>1 DEF MadeOK
    <2>4. TypeNet /\ mode \in {"tcp", "quic"}
      BY DEF GiveInv, Shapes, NetInv
    <2> QED BY <2>2, <2>3, <2>4 DEF TypeOK, TypeNet, Places, Msgs, Ends, Nobody
  <1> QED BY <1>1, HandshakesMatch, PTL
=============================================================================
