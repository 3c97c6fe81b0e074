----------------------------- MODULE QuicProofs ----------------------------
(***************************************************************************)
(* Proofs about QuicStream, for any writes, reads, windows and faults: the *)
(* retained blocks outlive what may be sent again, recv_file's mapping is  *)
(* used only while it is there, a drained close leaves nothing behind, and *)
(* the stream implements ByteStream.                                       *)
(***************************************************************************)
EXTENDS QuicStream, SequenceTheorems, WellFoundedInduction, TLAPS

(* The gap-free prefix, which Contiguous chooses. *)
IsPrefix(k, S) == 1 .. k \subseteq S /\ k + 1 \notin S

LEMMA FirstOf == ASSUME NEW T, T \subseteq Nat, T # {} PROVE \E x \in T : \A y \in T : x <= y
  <1>1. PICK x \in T : \A y \in T : ~ (<<y, x>> \in OpToRel(<, Nat))
    BY NatLessThanWellFounded, WFMin
  <1>2. \A y \in T : ~ (y < x)
    BY <1>1 DEF OpToRel
  <1> QED BY <1>2

LEMMA LastOf ==
    ASSUME NEW n \in Nat, NEW T, T \subseteq 0 .. n, T # {}
    PROVE  \E x \in T : \A y \in T : y <= x
  <1> DEFINE D == {n - t : t \in T}
  <1>1. \A t \in T : n - t \in Nat
    OBVIOUS
  <1>6. D \subseteq Nat /\ D # {}
    BY <1>1
  <1>2. PICK d \in D : \A e \in D : d <= e
    BY <1>6, FirstOf
  <1>3. PICK x \in T : d = n - x
    OBVIOUS
  <1>4. \A y \in T : n - y \in D
    OBVIOUS
  <1>5. \A y \in T : d <= n - y
    BY <1>2, <1>4
  <1> QED BY <1>3, <1>5

LEMMA PrefixExists ==
    ASSUME NEW n \in Nat, NEW S, S \subseteq 1 .. n + 1
    PROVE  \E k \in 0 .. n + 1 : IsPrefix(k, S)
  <1> DEFINE T == {m \in Nat \ {0} : m \notin S}
  <1>1. n + 2 \in T
    OBVIOUS
  <1>2. PICK m \in T : \A y \in T : m <= y
    BY <1>1, FirstOf
  <1>3. m - 1 \in 0 .. n + 1 /\ m \notin S
    BY <1>1, <1>2
  <1>4. \A b \in 1 .. m - 1 : b \in S
    BY <1>2
  <1> QED BY <1>3, <1>4 DEF IsPrefix

LEMMA PrefixUnique ==
    ASSUME NEW S, NEW k \in Nat, NEW j \in Nat, IsPrefix(k, S), IsPrefix(j, S)
    PROVE  k = j
  BY DEF IsPrefix

LEMMA PrefixGrows ==
    ASSUME NEW S, NEW T, S \subseteq T, NEW k \in Nat, NEW j \in Nat, IsPrefix(k, S), IsPrefix(j, T)
    PROVE  k <= j
  BY DEF IsPrefix

Gapless(n, S) == CHOOSE k \in 0 .. n + 1 : IsPrefix(k, S)

LEMMA GaplessIs ==
    ASSUME NEW n \in Nat, NEW S, S \subseteq 1 .. n + 1
    PROVE  Gapless(n, S) \in 0 .. n + 1 /\ IsPrefix(Gapless(n, S), S)
  <1>1. \E k \in 0 .. n + 1 : IsPrefix(k, S)
    BY PrefixExists
  <1> QED BY <1>1 DEF Gapless

----------------------------------------------------------------------------
(* The invariant                                                            *)

SendType ==
    /\ sphase \in {"idle", "writing", "fin", "closing", "closed"}
    /\ calls \in 0 .. Len(Writes) /\ left \in Nat /\ stream_offset \in Nat
    /\ unacked \subseteq Nat /\ freed \in Nat /\ fin_sent \in BOOLEAN /\ sclosed \in BOOLEAN
    /\ how \in {"open", "drained", "peer", "expired", "error", "killed"}
    /\ credit \in Nat
    /\ acked \subseteq got

(* Blocks end where calls of send end: the last one is retained, or all that    *)
(* was ever handed over is acknowledged.                                       *)
BlocksOK ==
    /\ 1 .. freed \subseteq acked
    /\ \A e \in unacked : freed < e /\ e <= stream_offset + left
    /\ freed = stream_offset + left \/ stream_offset + left \in unacked
    /\ left > 0 => stream_offset + left \in unacked /\ ~ fin_sent

PhasesOK ==
    /\ sphase = "writing" => left > 0
    /\ sphase \in {"idle", "fin"} => left = 0
    /\ how = "drained" => sphase = "closed" /\ unacked = {}

SendInv == SendType /\ BlocksOK /\ PhasesOK

RecvType ==
    /\ got \subseteq Sent
    /\ rphase \in {"idle", "recv", "recv_file", "failed", "closing", "closed"}
    /\ pos \in 1 .. Len(Reads) + 1 /\ need \in Nat
    /\ recv_buf \in Seq(Nat) /\ dest \in Seq(Nat) /\ out \in Seq(Nat)
    /\ recv_dest \in BOOLEAN /\ fin_received \in BOOLEAN /\ rclosed \in BOOLEAN
    /\ eagain \in BOOLEAN
    /\ failed \in {"no", "eof", "error"}

Active == rphase \in {"idle", "recv", "recv_file"}

(* A call in progress is one of Reads and has bytes to get. *)
CallOK ==
    /\ rphase \in {"recv", "recv_file"} => pos <= Len(Reads) /\ need > 0
    /\ Active => failed = "no"
    /\ recv_dest <=> rphase = "recv_file"
    /\ recv_dest => Len(dest) <= need
    /\ ~ recv_dest => dest = << >>

(* What was returned, what is in the mapping and what is buffered is what was   *)
(* ingested, in order.                                                         *)
Numbered(s, from) == \A i \in 1 .. Len(s) : s[i] = from + i

BytesOK ==
    /\ Numbered(out, 0) /\ Len(out) <= stream_offset
    /\ Active => /\ Len(out) + Len(dest) + Len(recv_buf) = Ingested
                 /\ Numbered(dest, Len(out))
                 /\ Numbered(recv_buf, Len(out) + Len(dest))
    /\ fin_received => fin_sent /\ Ingested = stream_offset

RecvInv == RecvType /\ CallOK /\ BytesOK

StreamInv == SendInv /\ RecvInv /\ closing \subseteq {"sender", "receiver"} /\ faults \in Nat

LEMMA StreamInit == Init => StreamInv
  <1> SUFFICES ASSUME Init PROVE StreamInv
    OBVIOUS
  <1>1. /\ stream_offset = 0 /\ got = {} /\ out = << >> /\ dest = << >> /\ recv_buf = << >>
        /\ fin_sent = FALSE
    BY DEF Init
  <1>2. Contiguous(got) = Gapless(0, {})
    BY <1>1 DEF Contiguous, Gapless, IsPrefix
  <1>3. Ingested = 0
    BY <1>1, <1>2, GaplessIs DEF Ingested, Least
  <1>4. SendInv
    <2>1. Len(Writes) \in Nat /\ Window \in Nat
      BY QuicAssumption
    <2>3. fin_sent \in BOOLEAN /\ sclosed \in BOOLEAN
      BY DEF Init
    <2>2. SendType
      BY <2>1, <2>3 DEF Init, SendType
    <2> QED BY <2>2 DEF Init, SendInv, BlocksOK, PhasesOK
  <1>5. RecvType /\ CallOK
    <2>1. Len(Reads) \in Nat
      BY QuicAssumption
    <2>2. << >> \in Seq(Nat) /\ got \subseteq Sent
      BY <1>1
    <2>3. recv_dest \in BOOLEAN /\ fin_received \in BOOLEAN /\ rclosed \in BOOLEAN /\ eagain \in BOOLEAN
      BY DEF Init
    <2>4. recv_dest <=> rphase = "recv_file"
      BY DEF Init
    <2> QED BY <2>1, <2>2, <2>3, <2>4 DEF Init, RecvType, CallOK, Active
  <1>6. BytesOK
    BY <1>1, <1>3 DEF Init, BytesOK, Numbered, Active
  <1> QED BY <1>4, <1>5, <1>6 DEF StreamInv, RecvInv, Init

LEMMA IngestedOf ==
    ASSUME NEW n \in Nat, NEW fin \in BOOLEAN, NEW S,
           S \subseteq 1 .. n \union (IF fin THEN {n + 1} ELSE {})
    PROVE  /\ Gapless(n, S) \in 0 .. n + 1 /\ IsPrefix(Gapless(n, S), S)
           /\ Least(Gapless(n, S), n) \in 0 .. n
           /\ ~ fin => Least(Gapless(n, S), n) = Gapless(n, S)
           /\ \A b \in 1 .. n : b \in S \/ Least(Gapless(n, S), n) < b
  <1>1. S \subseteq 1 .. n + 1
    OBVIOUS
  <1>2. Gapless(n, S) \in 0 .. n + 1 /\ IsPrefix(Gapless(n, S), S)
    BY <1>1, GaplessIs
  <1>3. ~ fin => Gapless(n, S) <= n
    BY <1>1, <1>2 DEF IsPrefix
  <1> QED BY <1>2, <1>3 DEF Least, IsPrefix

LEMMA IngestedIs ==
    ASSUME SendType, got \subseteq Sent
    PROVE  /\ Contiguous(got) = Gapless(stream_offset, got)
           /\ Ingested = Least(Gapless(stream_offset, got), stream_offset)
           /\ Contiguous(got) \in 0 .. stream_offset + 1 /\ IsPrefix(Contiguous(got), got)
           /\ Ingested \in 0 .. stream_offset
           /\ ~ fin_sent => Ingested = Contiguous(got)
  <1>1. Contiguous(got) = Gapless(stream_offset, got)
    BY DEF Contiguous, Gapless, IsPrefix
  <1>2. stream_offset \in Nat /\ fin_sent \in BOOLEAN
    BY DEF SendType
  <1> QED BY <1>1, <1>2, IngestedOf DEF Sent, Ingested

LEMMA IngestedNext ==
    ASSUME SendType', got' \subseteq Sent'
    PROVE  /\ Contiguous(got)' = Gapless(stream_offset', got')
           /\ Ingested' = Least(Gapless(stream_offset', got'), stream_offset')
           /\ Contiguous(got)' \in 0 .. stream_offset' + 1 /\ IsPrefix(Contiguous(got)', got')
           /\ Ingested' \in 0 .. stream_offset'
           /\ ~ fin_sent' => Ingested' = Contiguous(got)'
  <1>1. Contiguous(got)' = Gapless(stream_offset', got')
    BY DEF Contiguous, Gapless, IsPrefix
  <1>2. stream_offset' \in Nat /\ fin_sent' \in BOOLEAN
    BY DEF SendType
  <1> QED BY <1>1, <1>2, IngestedOf DEF Sent, Ingested

----------------------------------------------------------------------------
(* The sender                                                               *)

(* What the receiver has stays what it is when the sender goes on. *)
LEMMA SenderFrame ==
    ASSUME StreamInv, SendInv', UNCHANGED receiverVars,
           closing' \subseteq {"sender", "receiver"}, faults' \in Nat,
           \/ stream_offset' = stream_offset /\ (fin_sent => fin_sent')
           \/ stream_offset' > stream_offset /\ ~ fin_sent /\ ~ fin_sent'
    PROVE  StreamInv'
  <1>1. /\ SendType /\ SendType' /\ RecvType /\ CallOK /\ BytesOK
        /\ stream_offset \in Nat /\ stream_offset' \in Nat
        /\ UNCHANGED <<rphase, got, fin_received, rclosed, recv_buf, dest, recv_dest,
                       pos, need, out, failed, eagain>>
    BY DEF StreamInv, SendInv, RecvInv, SendType, receiverVars, inVars, bufVars, callVars
  <1>2. got \subseteq Sent /\ got' \subseteq Sent'
    <2>1. got \subseteq Sent /\ got' = got
      BY <1>1 DEF RecvType
    <2>2. 1 .. stream_offset \subseteq 1 .. stream_offset'
      BY <1>1
    <2>3. Sent \subseteq Sent'
      BY <2>2 DEF Sent
    <2> QED BY <2>1, <2>3
  <1>3. RecvType' /\ CallOK'
    BY <1>1, <1>2 DEF RecvType, CallOK, Active
  <1>4. CASE stream_offset' = stream_offset /\ (fin_sent => fin_sent')
    <2>1. Ingested' = Ingested
      BY <1>1, <1>4 DEF Ingested, Contiguous, Least
    <2> QED BY <1>1, <1>3, <1>4, <2>1 DEF BytesOK, Active, Numbered, StreamInv, RecvInv
  <1>5. CASE stream_offset' > stream_offset /\ ~ fin_sent /\ ~ fin_sent'
    <2>1. /\ Contiguous(got) \in Nat /\ IsPrefix(Contiguous(got), got)
          /\ Ingested = Contiguous(got) /\ Ingested \in Nat
      BY <1>1, <1>2, <1>5, IngestedIs
    <2>2. /\ Contiguous(got)' \in Nat /\ IsPrefix(Contiguous(got)', got')
          /\ Ingested' = Contiguous(got)'
      BY <1>1, <1>2, <1>5, IngestedNext
    <2>3. Ingested' = Ingested
      BY <1>1, <2>1, <2>2, PrefixUnique
    <2> QED BY <1>1, <1>3, <1>5, <2>1, <2>3 DEF BytesOK, Active, Numbered, StreamInv, RecvInv
  <1> QED BY <1>4, <1>5

Hows == {"open", "drained", "peer", "expired", "error", "killed"}

(* A step that hands nothing over and is told of no acknowledgement. *)
LEMMA QuietSender ==
    ASSUME StreamInv, UNCHANGED <<writeVars, blockVars, receiverVars>>,
           sphase' \in {sphase, "closing", "closed"} \/ (sphase = "idle" /\ sphase' = "fin"),
           sclosed' \in BOOLEAN, credit' \in Nat,
           (how' = how /\ sphase # "closed") \/ (how' \in Hows /\ sphase' = "closed"
                                                 /\ (how' = "drained" => unacked = {})),
           closing' \subseteq {"sender", "receiver"}, faults' \in Nat
    PROVE  StreamInv'
  <1>1. /\ SendType /\ BlocksOK /\ PhasesOK
        /\ UNCHANGED <<calls, left, stream_offset, fin_sent, unacked, freed, acked, got>>
    BY DEF StreamInv, SendInv, writeVars, blockVars, receiverVars, inVars
  <1>2. SendType'
    BY <1>1 DEF SendType, Hows
  <1>3. BlocksOK'
    BY <1>1 DEF BlocksOK
  <1>4. PhasesOK'
    BY <1>1 DEF PhasesOK
  <1> QED BY <1>1, <1>2, <1>3, <1>4, SenderFrame DEF SendInv

LEMMA StartWriteStep == ASSUME StreamInv, StartWrite PROVE StreamInv'
  <1>1. /\ SendType /\ BlocksOK /\ PhasesOK /\ sphase = "idle" /\ left = 0 /\ ~ fin_sent
        /\ calls' = calls + 1 /\ calls < Len(Writes) /\ left' = Writes[calls + 1]
        /\ unacked' = unacked \union {stream_offset + left'}
        /\ sphase' = "writing"
        /\ UNCHANGED <<stream_offset, freed, fin_sent, sclosed, how, credit, acked, receiverVars, closing, faults>>
    BY DEF StartWrite, Retain, StreamInv, SendInv, PhasesOK
  <1>2. calls' \in 0 .. Len(Writes) /\ left' \in Nat /\ left' > 0
    BY <1>1, QuicAssumption DEF SendType
  <1>7. got' = got
    BY <1>1 DEF receiverVars, inVars
  <1>8. unacked' \subseteq Nat
    <2>1. stream_offset + left' \in Nat /\ unacked \subseteq Nat
      BY <1>1, <1>2 DEF SendType
    <2> QED BY <1>1, <2>1
  <1>3. SendType'
    BY <1>1, <1>2, <1>7, <1>8 DEF SendType
  <1>4. freed <= stream_offset /\ freed \in Nat /\ stream_offset \in Nat
    BY <1>1 DEF BlocksOK, SendType
  <1>5. BlocksOK'
    <2>1. stream_offset' + left' \in unacked'
      BY <1>1
    <2>2. ASSUME NEW e \in unacked' PROVE freed' < e /\ e <= stream_offset' + left'
      <3>1. CASE e \in unacked
        <4>1. freed < e /\ e <= stream_offset /\ e \in Nat
          BY <1>1, <1>4, <3>1 DEF BlocksOK, SendType
        <4> QED BY <1>1, <1>2, <1>4, <4>1
      <3>2. CASE e = stream_offset + left'
        BY <1>1, <1>2, <1>4, <3>2
      <3> QED BY <1>1, <3>1, <3>2
    <2> QED BY <1>1, <2>1, <2>2 DEF BlocksOK
  <1>6. PhasesOK'
    BY <1>1, <1>2 DEF PhasesOK
  <1> QED BY <1>1, <1>3, <1>5, <1>6, SenderFrame DEF SendInv, StreamInv

(* Bytes go from left to stream_offset, which moves no block's end. *)
LEMMA AcceptStep ==
    ASSUME StreamInv, sphase = "writing", NEW n \in 1 .. left, Accepts(n),
           sphase' \in {"idle", "writing", "closing"}, left' = 0 \/ sphase' # "idle",
           left' # 0 \/ sphase' # "writing",
           faults' \in Nat,
           UNCHANGED <<calls, blockVars, fin_sent, sclosed, how, credit, receiverVars, closing>>
    PROVE  StreamInv'
  <1>1. /\ SendType /\ BlocksOK /\ PhasesOK
        /\ stream_offset' = stream_offset + n /\ left' = left - n
        /\ UNCHANGED <<unacked, freed, acked, got>>
    BY DEF StreamInv, SendInv, Accepts, blockVars, receiverVars, inVars
  <1>2. /\ stream_offset' \in Nat /\ left' \in Nat /\ stream_offset' > stream_offset
        /\ stream_offset' + left' = stream_offset + left /\ left > 0
    BY <1>1 DEF SendType
  <1>7. UNCHANGED <<calls, fin_sent, sclosed, how, credit>>
    OBVIOUS
  <1>3. SendType'
    BY <1>1, <1>2, <1>7 DEF SendType
  <1>6. ~ fin_sent
    BY <1>1, <1>2 DEF BlocksOK
  <1>4. BlocksOK'
    <2>1. stream_offset + left \in unacked
      BY <1>1, <1>2 DEF BlocksOK
    <2>2. stream_offset' + left' \in unacked'
      BY <1>1, <1>2, <2>1
    <2>3. \A e \in unacked' : freed' < e /\ e <= stream_offset' + left'
      BY <1>1, <1>2 DEF BlocksOK
    <2> QED BY <1>1, <1>6, <1>7, <2>2, <2>3 DEF BlocksOK
  <1>5. PhasesOK'
    BY <1>1, <1>2 DEF PhasesOK
  <1> QED BY <1>1, <1>2, <1>3, <1>4, <1>5, <1>6, SenderFrame DEF SendInv, StreamInv

LEMMA WriteStep == ASSUME StreamInv, WriteSome \/ WriteFails PROVE StreamInv'
  <1>1. PICK n \in 1 .. left : Accepts(n)
    BY DEF WriteSome, WriteFails
  <1>2. sphase = "writing" /\ left' \in Nat /\ faults \in Nat
    BY <1>1 DEF Accepts, StreamInv, SendInv, SendType
  <1> QED BY <1>1, <1>2, AcceptStep DEF WriteSome, WriteFails, Fault

LEMMA SendFinStep == ASSUME StreamInv, SendFin PROVE StreamInv'
  <1>1. /\ SendType /\ BlocksOK /\ PhasesOK /\ left = 0 /\ fin_sent' = TRUE /\ sphase' = "idle"
        /\ sphase = "fin"
        /\ UNCHANGED <<calls, left, stream_offset, unacked, freed, acked, sclosed, how, credit,
                       receiverVars, got, closing, faults>>
    BY DEF SendFin, StreamInv, SendInv, PhasesOK, blockVars, receiverVars, inVars
  <1>2. SendType'
    <2>1. fin_sent' \in BOOLEAN
      BY <1>1
    <2> QED BY <1>1, <2>1 DEF SendType
  <1>3. BlocksOK'
    BY <1>1 DEF BlocksOK
  <1>4. PhasesOK'
    BY <1>1 DEF PhasesOK
  <1> QED BY <1>1, <1>2, <1>3, <1>4, SenderFrame DEF SendInv, StreamInv

(* Whatever block is released was acknowledged to its end. *)
LEMMA AckStep == ASSUME StreamInv, AckArrives PROVE StreamInv'
  <1> DEFINE end == AckedEnd(acked')
             released == {e \in unacked : e <= end}
  <1>1. /\ SendType /\ BlocksOK /\ PhasesOK /\ RecvType /\ sphase # "closed"
        /\ unacked' = unacked \ released
        /\ freed' = IF released = {} THEN freed
                    ELSE CHOOSE e \in released : \A f \in released : f <= e
        /\ \E A \in SUBSET (got \ acked) : A # {} /\ acked' = acked \union A
        /\ UNCHANGED <<sphase, calls, left, stream_offset, fin_sent, sclosed, how, credit,
                       receiverVars, got, closing, faults>>
    BY DEF AckArrives, SPumps, StreamInv, SendInv, RecvInv, writeVars, receiverVars, inVars
  <1>2. acked \subseteq acked' /\ acked' \subseteq got
    BY <1>1 DEF SendType
  <1>3. stream_offset \in Nat /\ left \in Nat /\ freed \in Nat
    BY <1>1 DEF SendType
  <1>4. acked' \subseteq 1 .. stream_offset + 1 /\ (~ fin_sent => acked' \subseteq 1 .. stream_offset)
    BY <1>1, <1>2, <1>3 DEF RecvType, Sent
  <1>5. end = Gapless(stream_offset, acked')
    BY DEF AckedEnd, Contiguous, Gapless, IsPrefix
  <1> HIDE DEF end
  <1>6. end \in Nat /\ 1 .. end \subseteq acked' /\ end + 1 \notin acked'
    <2>1. Gapless(stream_offset, acked') \in 0 .. stream_offset + 1 /\ IsPrefix(Gapless(stream_offset, acked'), acked')
      BY <1>3, <1>4, GaplessIs
    <2> QED BY <1>3, <1>5, <2>1 DEF IsPrefix
  <1>7. CASE released = {}
    <2>1. unacked' = unacked /\ freed' = freed
      BY <1>1, <1>7
    <2> QED BY <1>1, <1>2, <2>1, SenderFrame
        DEF SendInv, SendType, BlocksOK, PhasesOK, StreamInv
  <1>8. CASE released # {}
    <2>1. \E e \in released : \A f \in released : f <= e
      <3>1. \A e \in released : e \in 0 .. end
        BY <1>1, <1>6 DEF SendType
      <3> QED BY <1>6, <1>8, <3>1, LastOf
    <2>2. freed' \in released /\ \A f \in released : f <= freed'
      BY <1>1, <1>8, <2>1
    <2>3. freed' \in unacked /\ freed' <= end /\ freed' \in Nat
      BY <1>1, <2>2 DEF SendType
    <2>4. \A e \in unacked' : e \in Nat /\ e \in unacked /\ freed' < e
      BY <1>1, <1>6, <2>3 DEF SendType
    <2>5. left > 0 => stream_offset + left \notin released
      <3>1. ASSUME left > 0 PROVE end <= stream_offset
        BY <1>1, <1>3, <1>4, <1>6, <3>1 DEF BlocksOK
      <3> QED BY <1>3, <1>6, <3>1
    <2>6. freed' = stream_offset + left \/ stream_offset + left \in unacked'
      <3>1. CASE stream_offset + left \in released
        <4>1. stream_offset + left <= freed'
          BY <2>2, <3>1
        <4>2. freed' <= stream_offset + left
          BY <1>1, <2>3 DEF BlocksOK
        <4> QED BY <1>3, <2>3, <4>1, <4>2
      <3>2. CASE stream_offset + left \notin released /\ stream_offset + left \in unacked
        BY <1>1, <3>2
      <3>3. CASE freed = stream_offset + left /\ stream_offset + left \notin unacked
        BY <1>1, <1>3, <2>3, <3>3 DEF BlocksOK
      <3> QED BY <1>1, <3>1, <3>2, <3>3 DEF BlocksOK
    <2>7. 1 .. freed' \subseteq acked'
      BY <1>6, <2>3
    <2>8. BlocksOK'
      BY <1>1, <2>4, <2>5, <2>6, <2>7 DEF BlocksOK
    <2>9. SendType' /\ PhasesOK'
      BY <1>1, <1>2, <2>3 DEF SendType, PhasesOK
    <2> QED BY <1>1, <2>8, <2>9, SenderFrame DEF SendInv, StreamInv
  <1> QED BY <1>7, <1>8

LEMMA SenderStep ==
    ASSUME StreamInv, SenderCalls \/ SenderFails \/ SenderPump PROVE StreamInv'
  <1>1. /\ SendType /\ PhasesOK /\ sclosed \in BOOLEAN /\ credit \in Nat /\ faults \in Nat
        /\ closing \subseteq {"sender", "receiver"} /\ how \in Hows
    BY DEF StreamInv, SendInv, SendType, Hows
  <1>2. CASE BeginClose \/ LingerEnds
    <2>1. closing' \subseteq {"sender", "receiver"}
      BY <1>1, <1>2 DEF BeginClose, LingerEnds, CloseUnlessClosed, SendClose
    <2>2. sclosed' = sclosed /\ credit' = credit /\ faults' = faults
          /\ UNCHANGED <<writeVars, blockVars, receiverVars>>
      BY <1>2 DEF BeginClose, LingerEnds
    <2>3. sphase \in {"idle", "closing"}
      BY <1>2 DEF BeginClose, LingerEnds
    <2>4. \/ sphase' = "closed" /\ how' \in Hows /\ (how' = "drained" => unacked = {})
          \/ sphase' = "closing" /\ how' = how
      BY <1>2 DEF BeginClose, LingerEnds, AfterClose, Ending, Hows
    <2> QED BY <1>1, <2>1, <2>2, <2>3, <2>4, QuietSender
  <1>3. CASE WriteError \/ SenderDies \/ WriteAborts
    <2>1. closing' \subseteq {"sender", "receiver"}
      BY <1>1, <1>3 DEF WriteError, SenderDies, WriteAborts, SendClose
    <2>3. faults' \in Nat
      BY <1>1, <1>3 DEF WriteError, SenderDies, WriteAborts, Fault
    <2>2. sclosed' \in BOOLEAN
      BY <1>1, <1>3 DEF WriteError, SenderDies, WriteAborts
    <2> QED BY <1>1, <1>3, <2>1, <2>2, <2>3, QuietSender DEF WriteError, SenderDies, WriteAborts, Hows
  <1>4. CASE StartFin
    BY <1>1, <1>4, QuietSender DEF StartFin
  <1>5. CASE SCloseArrives \/ SIdle
    <2>1. closing' \subseteq {"sender", "receiver"}
      BY <1>1, <1>5 DEF SCloseArrives, SIdle
    <2>3. faults' \in Nat
      BY <1>1, <1>5 DEF SCloseArrives, SIdle, Silence, Fault
    <2>2. sclosed' \in BOOLEAN
      BY <1>1, <1>5 DEF SCloseArrives, SIdle
    <2> QED BY <1>1, <1>5, <2>1, <2>2, <2>3, QuietSender DEF SCloseArrives, SIdle, SPumps
  <1>6. CASE CreditArrives
    <2>1. Ingested \in Nat
      BY IngestedIs DEF StreamInv, SendInv, RecvInv, RecvType
    <2>2. credit' \in Nat
      BY <1>6, <2>1, QuicAssumption DEF CreditArrives
    <2> QED BY <1>1, <1>6, <2>2, QuietSender DEF CreditArrives, SPumps
  <1> QED BY <1>2, <1>3, <1>4, <1>5, <1>6, StartWriteStep, WriteStep, SendFinStep, AckStep
      DEF SenderCalls, SenderFails, SenderPump

----------------------------------------------------------------------------
(* Sequences of consecutive bytes                                           *)

LEMMA CutBytes ==
    ASSUME NEW s \in Seq(Nat), NEW n \in 0 .. Len(s), NEW from \in Nat
    PROVE  /\ SubSeq(s, 1, n) \in Seq(Nat) /\ Len(SubSeq(s, 1, n)) = n
           /\ SubSeq(s, n + 1, Len(s)) \in Seq(Nat)
           /\ Len(SubSeq(s, n + 1, Len(s))) = Len(s) - n
           /\ Numbered(s, from) => /\ Numbered(SubSeq(s, 1, n), from)
                                   /\ Numbered(SubSeq(s, n + 1, Len(s)), from + n)
  <1>1. Len(s) \in Nat /\ n \in Nat /\ \A i \in 1 .. Len(s) : s[i] \in Nat
    OBVIOUS
  <1>2. /\ SubSeq(s, 1, n) \in Seq(Nat) /\ Len(SubSeq(s, 1, n)) = n
        /\ \A i \in 1 .. n : SubSeq(s, 1, n)[i] = s[i]
    BY <1>1, SubSeqProperties
  <1>3. /\ SubSeq(s, n + 1, Len(s)) \in Seq(Nat)
        /\ Len(SubSeq(s, n + 1, Len(s))) = Len(s) - n
        /\ \A i \in 1 .. Len(s) - n : SubSeq(s, n + 1, Len(s))[i] = s[n + i]
    <2>1. n + 1 \in Int /\ Len(s) \in Int /\ \A i \in n + 1 .. Len(s) : s[i] \in Nat
      BY <1>1
    <2>2. /\ SubSeq(s, n + 1, Len(s)) \in Seq(Nat)
          /\ Len(SubSeq(s, n + 1, Len(s)))
               = IF n + 1 <= Len(s) THEN Len(s) - (n + 1) + 1 ELSE 0
          /\ \A i \in 1 .. Len(s) - (n + 1) + 1 :
               SubSeq(s, n + 1, Len(s))[i] = s[(n + 1) + i - 1]
      BY <2>1, SubSeqProperties
    <2>3. Len(s) - (n + 1) + 1 = Len(s) - n /\ \A i \in Nat : (n + 1) + i - 1 = n + i
      BY <1>1
    <2>4. \A i \in 1 .. Len(s) - n : SubSeq(s, n + 1, Len(s))[i] = s[n + i]
      BY <1>1, <2>2, <2>3
    <2>5. (IF n + 1 <= Len(s) THEN Len(s) - (n + 1) + 1 ELSE 0) = Len(s) - n
      BY <1>1
    <2>6. Len(SubSeq(s, n + 1, Len(s))) = Len(s) - n
      BY <2>2, <2>5
    <2> QED BY <2>2, <2>4, <2>6
  <1> QED BY <1>1, <1>2, <1>3 DEF Numbered

LEMMA JoinBytes ==
    ASSUME NEW s \in Seq(Nat), NEW t \in Seq(Nat), NEW from \in Nat
    PROVE  /\ s \o t \in Seq(Nat) /\ Len(s \o t) = Len(s) + Len(t)
           /\ Numbered(s, from) /\ Numbered(t, from + Len(s)) => Numbered(s \o t, from)
  <1>1. Len(s) \in Nat /\ Len(t) \in Nat
    OBVIOUS
  <1>2. /\ s \o t \in Seq(Nat) /\ Len(s \o t) = Len(s) + Len(t)
        /\ \A i \in 1 .. Len(s) + Len(t) :
             (s \o t)[i] = IF i <= Len(s) THEN s[i] ELSE t[i - Len(s)]
    BY ConcatProperties
  <1>3. ASSUME Numbered(s, from), Numbered(t, from + Len(s)), NEW i \in 1 .. Len(s) + Len(t)
        PROVE  (s \o t)[i] = from + i
    <2>1. CASE i <= Len(s)
      BY <1>1, <1>2, <1>3, <2>1 DEF Numbered
    <2>2. CASE i > Len(s)
      <3>1. i - Len(s) \in 1 .. Len(t) /\ (s \o t)[i] = t[i - Len(s)]
        BY <1>1, <1>2, <2>2
      <3>2. t[i - Len(s)] = (from + Len(s)) + (i - Len(s))
        BY <1>3, <3>1 DEF Numbered
      <3> QED BY <1>1, <3>1, <3>2
    <2> QED BY <1>1, <2>1, <2>2
  <1> QED BY <1>2, <1>3 DEF Numbered

LEMMA NewBytes ==
    ASSUME NEW from \in Nat, NEW to \in Nat, from <= to
    PROVE  /\ Bytes(from, to) \in Seq(Nat) /\ Len(Bytes(from, to)) = to - from
           /\ Numbered(Bytes(from, to), from)
  BY DEF Bytes, Numbered

LEMMA NoBytes == ASSUME NEW s \in Seq(Nat) PROVE s = << >> <=> Len(s) = 0
  BY EmptySeq

----------------------------------------------------------------------------
(* The receiver                                                             *)

LEMMA ReceiverFrame ==
    ASSUME StreamInv, UNCHANGED senderVars, got \subseteq got', RecvInv',
           closing' \subseteq {"sender", "receiver"}, faults' \in Nat
    PROVE  StreamInv'
  <1>1. /\ SendType /\ BlocksOK /\ PhasesOK
        /\ UNCHANGED <<sphase, calls, left, stream_offset, fin_sent, unacked, freed, acked,
                       sclosed, how, credit>>
    BY DEF StreamInv, SendInv, senderVars, writeVars, blockVars
  <1>2. SendType'
    BY <1>1 DEF SendType
  <1>3. BlocksOK'
    BY <1>1 DEF BlocksOK
  <1>4. PhasesOK'
    BY <1>1 DEF PhasesOK
  <1> QED BY <1>2, <1>3, <1>4 DEF StreamInv, SendInv

(* A step that takes in no bytes. *)
LEMMA SameStream ==
    ASSUME UNCHANGED senderVars, UNCHANGED got
    PROVE  Ingested' = Ingested /\ Sent' = Sent /\ stream_offset' = stream_offset
           /\ fin_sent' = fin_sent
  BY DEF senderVars, writeVars, Ingested, Contiguous, Sent

LEMMA RecvPacketStep ==
    ASSUME StreamInv, NEW bytes, RecvPacket(bytes) PROVE StreamInv'
  <1> DEFINE J == Least(Gapless(stream_offset, got'), stream_offset)
             data == Bytes(Ingested, J)
             room == IF recv_dest /\ recv_buf = << >> THEN need - Len(dest) ELSE 0
             taken == Least(Len(data), room)
             mine == SubSeq(data, 1, taken)
             rest == SubSeq(data, taken + 1, Len(data))
  <1>1. /\ SendType /\ RecvType /\ CallOK /\ BytesOK
        /\ got' = got \union bytes /\ bytes \subseteq Sent
        /\ UNCHANGED <<rphase, pos, need, out, failed, recv_dest, rclosed, senderVars, closing, faults>>
        /\ eagain' \in {eagain, TRUE}
    BY DEF RecvPacket, DrainPackets, StreamInv, SendInv, RecvInv, callVars
  <1>2. /\ stream_offset' = stream_offset /\ fin_sent' = fin_sent /\ Sent' = Sent
        /\ got' \subseteq Sent /\ stream_offset \in Nat /\ fin_sent \in BOOLEAN
    BY <1>1 DEF senderVars, writeVars, Sent, RecvType, SendType
  <1>3. /\ Ingested \in 0 .. stream_offset /\ Ingested = Least(Gapless(stream_offset, got), stream_offset)
        /\ Gapless(stream_offset, got) \in Nat /\ IsPrefix(Gapless(stream_offset, got), got)
    BY <1>1, IngestedIs DEF RecvType
  <1>4. /\ J \in 0 .. stream_offset
        /\ Gapless(stream_offset, got') \in Nat /\ IsPrefix(Gapless(stream_offset, got'), got')
    <2>1. got' \subseteq 1 .. stream_offset \union (IF fin_sent THEN {stream_offset + 1} ELSE {})
      BY <1>2 DEF Sent
    <2>2. Gapless(stream_offset, got') \in 0 .. stream_offset + 1
      BY <1>2, <2>1, IngestedOf
    <2>3. IsPrefix(Gapless(stream_offset, got'), got')
      BY <1>2, <2>1, IngestedOf
    <2>4. J \in 0 .. stream_offset
      BY <1>2, <2>2 DEF Least
    <2> QED BY <2>2, <2>3, <2>4
  <1>5. Ingested <= J
    <2>1. Gapless(stream_offset, got) <= Gapless(stream_offset, got')
      BY <1>1, <1>3, <1>4, PrefixGrows
    <2> QED BY <1>2, <1>3, <1>4, <2>1 DEF Least
  <1>6. Contiguous(got') = Gapless(stream_offset, got') /\ Ingested' = J
    BY <1>2 DEF Contiguous, Gapless, IsPrefix, Ingested
  <1>7. /\ dest' = dest \o mine /\ recv_buf' = recv_buf \o rest
        /\ fin_received' = (fin_sent /\ Gapless(stream_offset, got') = stream_offset + 1)
    BY <1>6 DEF RecvPacket, on_recv_stream_data
  <1> HIDE DEF J
  <1>8. data \in Seq(Nat) /\ Len(data) = J - Ingested /\ Numbered(data, Ingested)
    <2>1. Ingested \in Nat /\ J \in Nat
      BY <1>2, <1>3, <1>4
    <2> QED BY <1>5, <2>1, NewBytes
  <1> HIDE DEF data
  <1>9. /\ Len(out) \in Nat /\ Len(dest) \in Nat /\ Len(recv_buf) \in Nat /\ need \in Nat
        /\ out \in Seq(Nat) /\ dest \in Seq(Nat) /\ recv_buf \in Seq(Nat)
    BY <1>1 DEF RecvType
  <1>10. /\ taken \in 0 .. Len(data) /\ (taken > 0 => recv_dest /\ recv_buf = << >>)
         /\ (recv_dest => Len(dest) + taken <= need)
    <2>1. room \in Nat /\ (room > 0 => recv_dest /\ recv_buf = << >>)
          /\ (recv_dest => Len(dest) + room <= need)
      BY <1>1, <1>9 DEF CallOK
    <2>2. Len(data) \in Nat
      BY <1>8
    <2> HIDE DEF room
    <2> QED BY <1>9, <2>1, <2>2 DEF Least
  <1> HIDE DEF taken
  <1>11. /\ mine \in Seq(Nat) /\ Len(mine) = taken /\ Numbered(mine, Ingested)
         /\ rest \in Seq(Nat) /\ Len(rest) = Len(data) - taken /\ Numbered(rest, Ingested + taken)
    BY <1>3, <1>8, <1>10, CutBytes
  <1> HIDE DEF mine, rest
  <1>12. /\ dest' \in Seq(Nat) /\ Len(dest') = Len(dest) + taken
         /\ recv_buf' \in Seq(Nat) /\ Len(recv_buf') = Len(recv_buf) + Len(rest)
    BY <1>7, <1>9, <1>11, JoinBytes
  <1>13. RecvType'
    <2>1. fin_received' \in BOOLEAN
      BY <1>7, <1>2
    <2>2. eagain' \in BOOLEAN
      BY <1>1 DEF RecvType
    <2> QED BY <1>1, <1>2, <1>12, <2>1, <2>2 DEF RecvType
  <1>14. CallOK'
    <2>1. recv_dest' => Len(dest') <= need'
      BY <1>1, <1>10, <1>12
    <2>2. ~ recv_dest' => dest' = << >>
      <3>1. ~ recv_dest => Len(dest') = 0
        BY <1>1, <1>9, <1>10, <1>12, NoBytes DEF CallOK
      <3> QED BY <1>1, <1>12, <3>1, NoBytes
    <2> QED BY <1>1, <2>1, <2>2 DEF CallOK, Active
  <1>15. ASSUME Active
         PROVE  /\ Len(out) + Len(dest') + Len(recv_buf') = J
                /\ Numbered(dest', Len(out)) /\ Numbered(recv_buf', Len(out) + Len(dest'))
    <2>1. /\ Len(out) + Len(dest) + Len(recv_buf) = Ingested
          /\ Numbered(dest, Len(out)) /\ Numbered(recv_buf, Len(out) + Len(dest))
      BY <1>1, <1>15 DEF BytesOK
    <2>2. Numbered(mine, Len(out) + Len(dest))
      <3>1. CASE taken = 0
        BY <1>11, <3>1 DEF Numbered
      <3>2. CASE taken > 0
        <4>1. Len(recv_buf) = 0
          BY <1>9, <1>10, <3>2, NoBytes
        <4>2. Ingested = Len(out) + Len(dest)
          BY <1>9, <2>1, <4>1
        <4> QED BY <1>11, <4>2
      <3> QED BY <1>10, <1>8, <3>1, <3>2
    <2>3. Numbered(recv_buf, Len(out) + Len(dest'))
      <3>1. CASE taken = 0
        <4>1. Len(dest') = Len(dest)
          BY <1>9, <1>12, <3>1
        <4> QED BY <2>1, <4>1
      <3>2. CASE taken > 0
        BY <1>9, <1>10, <3>2, NoBytes DEF Numbered
      <3> QED BY <1>10, <1>8, <3>1, <3>2
    <2>4. Numbered(rest, (Len(out) + Len(dest')) + Len(recv_buf))
      <3>1. (Len(out) + Len(dest')) + Len(recv_buf) = Ingested + taken
        BY <1>9, <1>10, <1>12, <2>1
      <3> QED BY <1>11, <3>1
    <2>5. Numbered(dest', Len(out))
      BY <1>7, <1>9, <1>11, <2>1, <2>2, JoinBytes
    <2>6. Numbered(recv_buf', Len(out) + Len(dest'))
      <3>1. Len(out) + Len(dest') \in Nat
        BY <1>9, <1>12
      <3> QED BY <1>7, <1>9, <1>11, <2>3, <2>4, <3>1, JoinBytes
    <2>7. Len(out) + Len(dest') + Len(recv_buf') = J
      <3>1. Ingested \in Nat /\ J \in Nat /\ taken \in Nat
        BY <1>2, <1>3, <1>4, <1>8, <1>10
      <3>2. Len(recv_buf') = Len(recv_buf) + (J - Ingested) - taken
        BY <1>8, <1>9, <1>11, <1>12, <3>1
      <3>3. Len(dest') = Len(dest) + taken
        BY <1>12
      <3>4. Len(out) \in Nat /\ Len(dest) \in Nat /\ Len(recv_buf) \in Nat
        BY <1>9
      <3>5. Len(out) + Len(dest) + Len(recv_buf) = Ingested
        BY <2>1
      <3>6. \A a, b, c, d \in Nat :
              a + (b + d) + (c + (J - Ingested) - d) = (a + b + c) + (J - Ingested)
        BY <3>1
      <3> QED BY <3>1, <3>2, <3>3, <3>4, <3>5, <3>6
    <2> QED BY <2>5, <2>6, <2>7
  <1>16. fin_received' => fin_sent' /\ Ingested' = stream_offset'
    <2>1. ASSUME fin_received' PROVE fin_sent' /\ J = stream_offset
      <3>1. fin_sent /\ Gapless(stream_offset, got') = stream_offset + 1
        BY <1>7, <2>1
      <3> QED BY <1>2, <3>1 DEF Least, J
    <2> QED BY <1>2, <1>6, <2>1
  <1>17. BytesOK'
    <2>1. Numbered(out, 0) /\ Len(out) <= stream_offset
      BY <1>1 DEF BytesOK
    <2> QED BY <1>1, <1>2, <1>6, <1>15, <1>16, <2>1 DEF BytesOK, Active, Numbered
  <1> QED BY <1>1, <1>13, <1>14, <1>17, ReceiverFrame DEF RecvInv, StreamInv

(* A step that moves no bytes. *)
LEMMA QuietReceiver ==
    ASSUME StreamInv, UNCHANGED <<senderVars, got, fin_received, bufVars, out, pos>>,
           rclosed' \in BOOLEAN, eagain' \in BOOLEAN, faults' \in Nat,
           closing' \subseteq {"sender", "receiver"},
           \/ UNCHANGED <<rphase, need, failed>>
           \/ /\ rphase # "recv_file" /\ rphase' \in {"failed", "closing", "closed"}
              /\ need' = need /\ failed' \in {failed, "eof", "error"}
           \/ /\ rphase = "idle" /\ rphase' = "recv" /\ failed' = failed
              /\ pos <= Len(Reads) /\ need' \in Nat \ {0}
    PROVE  StreamInv'
  <1>1. /\ RecvType /\ CallOK /\ BytesOK
        /\ UNCHANGED <<recv_buf, dest, recv_dest, got, fin_received, out, pos>>
    BY DEF StreamInv, RecvInv, bufVars
  <1>2. Ingested' = Ingested /\ Sent' = Sent /\ stream_offset' = stream_offset /\ fin_sent' = fin_sent
    BY <1>1, SameStream
  <1>3. RecvType'
    <2>1. rphase' \in {"idle", "recv", "recv_file", "failed", "closing", "closed"} /\ need' \in Nat
          /\ failed' \in {"no", "eof", "error"}
      BY <1>1 DEF RecvType
    <2> QED BY <1>1, <1>2, <2>1 DEF RecvType
  <1>4. CallOK'
    BY <1>1 DEF CallOK, Active, RecvType
  <1>5. BytesOK'
    BY <1>1, <1>2 DEF BytesOK, Active, Numbered
  <1> QED BY <1>1, <1>3, <1>4, <1>5, ReceiverFrame DEF RecvInv

LEMMA ReadsAre == \A i \in 1 .. Len(Reads) : Reads[i].len \in Nat \ {0}
  <1>1. \A i \in 1 .. Len(Reads) : Reads[i] \in [call : {"recv", "recv_file"}, len : Nat \ {0}]
    BY QuicAssumption, ElementOfSeq
  <1> QED BY <1>1

LEMMA RecvTakesStep == ASSUME StreamInv, RecvTakes PROVE StreamInv'
  <1> DEFINE n == Least(need, Len(recv_buf))
             mine == SubSeq(recv_buf, 1, n)
             rest == SubSeq(recv_buf, n + 1, Len(recv_buf))
  <1>1. /\ RecvType /\ CallOK /\ BytesOK /\ rphase = "recv" /\ recv_buf # << >>
        /\ out' = out \o mine /\ recv_buf' = rest /\ need' = need - n
        /\ IF need' = 0 THEN rphase' = "idle" /\ pos' = pos + 1 ELSE rphase' = rphase /\ pos' = pos
        /\ UNCHANGED <<got, fin_received, rclosed, dest, recv_dest, eagain, failed, senderVars, closing, faults>>
    BY DEF RecvTakes, HasData, StreamInv, RecvInv, inVars
  <1>2. /\ recv_buf \in Seq(Nat) /\ out \in Seq(Nat) /\ need \in Nat
        /\ Len(recv_buf) \in Nat /\ Len(out) \in Nat /\ n \in 0 .. Len(recv_buf) /\ need - n \in Nat
    BY <1>1 DEF RecvType, Least
  <1> HIDE DEF n
  <1>3. /\ dest = << >> /\ ~ recv_dest /\ Active /\ pos <= Len(Reads) /\ Len(dest) = 0
    BY <1>1 DEF CallOK, Active, RecvType
  <1>4. /\ Len(out) + Len(recv_buf) = Ingested /\ Numbered(recv_buf, Len(out))
        /\ Numbered(out, 0)
    <2>1. /\ Len(out) + Len(dest) + Len(recv_buf) = Ingested /\ Numbered(out, 0)
          /\ Numbered(recv_buf, Len(out) + Len(dest))
      BY <1>1, <1>3 DEF BytesOK
    <2>2. Len(out) + Len(dest) = Len(out)
      BY <1>2, <1>3
    <2> QED BY <2>1, <2>2
  <1>5. /\ mine \in Seq(Nat) /\ Len(mine) = n /\ Numbered(mine, Len(out))
        /\ rest \in Seq(Nat) /\ Len(rest) = Len(recv_buf) - n /\ Numbered(rest, Len(out) + n)
    BY <1>2, <1>4, CutBytes
  <1> HIDE DEF mine, rest
  <1>6. out' \in Seq(Nat) /\ Len(out') = Len(out) + n /\ Numbered(out', 0)
    <2>1. Numbered(mine, 0 + Len(out))
      BY <1>2, <1>5
    <2> QED BY <1>1, <1>2, <1>4, <1>5, <2>1, JoinBytes
  <1>7. Ingested' = Ingested /\ Sent' = Sent /\ stream_offset' = stream_offset /\ fin_sent' = fin_sent
        /\ Ingested \in 0 .. stream_offset /\ stream_offset \in Nat
    BY <1>1, SameStream, IngestedIs DEF StreamInv, SendInv, SendType, RecvType
  <1>8. RecvType'
    <2>1. pos' \in 1 .. Len(Reads) + 1 /\ rphase' \in {"idle", "recv"}
      BY <1>1, <1>3, QuicAssumption DEF RecvType
    <2> QED BY <1>1, <1>2, <1>5, <1>6, <1>7, <2>1 DEF RecvType
  <1>9. CallOK'
    <2>1. rphase' \in {"recv", "recv_file"} => pos' <= Len(Reads) /\ need' > 0
      BY <1>1, <1>2, <1>3
    <2>2. recv_dest' = recv_dest /\ dest' = dest /\ failed' = failed /\ rphase' # "recv_file"
      BY <1>1
    <2> QED BY <1>1, <1>3, <2>1, <2>2 DEF CallOK, Active
  <1>10. BytesOK'
    <2>1. Len(dest') = 0 /\ Numbered(dest', Len(out'))
      BY <1>1, <1>3 DEF Numbered
    <2>2. Len(out') + Len(dest') + Len(recv_buf') = Ingested'
      <3>1. Len(out') = Len(out) + n /\ Len(dest') = 0 /\ Len(recv_buf') = Len(recv_buf) - n
        BY <1>1, <1>5, <1>6, <2>1
      <3>2. Len(out) \in Nat /\ Len(recv_buf) \in Nat /\ n \in Nat
        BY <1>2
      <3>3. Len(out) + Len(recv_buf) = Ingested /\ Ingested' = Ingested
        BY <1>4, <1>7
      <3>4. \A a, b, d \in Nat : (a + d) + 0 + (b - d) = a + b
        OBVIOUS
      <3>5. (Len(out) + n) + 0 + (Len(recv_buf) - n) = Len(out) + Len(recv_buf)
        BY <3>2, <3>4
      <3> QED BY <3>1, <3>3, <3>5
    <2>3. Len(out') + Len(dest') = Len(out) + n
      BY <1>2, <1>6, <2>1
    <2>4. Numbered(recv_buf', Len(out') + Len(dest'))
      BY <1>1, <1>5, <2>3
    <2>5. Len(out') <= stream_offset'
      BY <1>2, <1>4, <1>6, <1>7
    <2>6. fin_received' => fin_sent' /\ Ingested' = stream_offset'
      BY <1>1, <1>7 DEF BytesOK
    <2> QED BY <1>6, <2>1, <2>2, <2>4, <2>5, <2>6 DEF BytesOK
  <1> QED BY <1>1, <1>8, <1>9, <1>10, ReceiverFrame DEF RecvInv, StreamInv

LEMMA StartRecvFileStep == ASSUME StreamInv, StartRecvFile PROVE StreamInv'
  <1> DEFINE n == Least(need', Len(recv_buf))
             mine == SubSeq(recv_buf, 1, n)
             rest == SubSeq(recv_buf, n + 1, Len(recv_buf))
  <1>1. /\ RecvType /\ CallOK /\ BytesOK /\ rphase = "idle" /\ pos <= Len(Reads)
        /\ rphase' = "recv_file" /\ need' = Reads[pos].len /\ recv_dest' = TRUE
        /\ dest' = mine /\ recv_buf' = rest
        /\ UNCHANGED <<got, fin_received, rclosed, pos, eagain, out, failed, senderVars, closing, faults>>
    BY DEF StartRecvFile, Calling, FromBuffer, StreamInv, RecvInv, inVars
  <1>2. /\ recv_buf \in Seq(Nat) /\ out \in Seq(Nat) /\ need' \in Nat /\ need' > 0
        /\ Len(recv_buf) \in Nat /\ Len(out) \in Nat /\ n \in 0 .. Len(recv_buf) /\ n <= need'
    <2>1. need' \in Nat \ {0}
      BY <1>1, ReadsAre DEF RecvType
    <2> QED BY <1>1, <2>1 DEF RecvType, Least
  <1> HIDE DEF n
  <1>3. dest = << >> /\ Active /\ Len(dest) = 0
    BY <1>1 DEF CallOK, Active, RecvType
  <1>4. Len(out) + Len(recv_buf) = Ingested /\ Numbered(recv_buf, Len(out))
    <2>1. /\ Len(out) + Len(dest) + Len(recv_buf) = Ingested
          /\ Numbered(recv_buf, Len(out) + Len(dest))
      BY <1>1, <1>3 DEF BytesOK
    <2>2. Len(out) + Len(dest) = Len(out)
      BY <1>2, <1>3
    <2> QED BY <2>1, <2>2
  <1>5. /\ mine \in Seq(Nat) /\ Len(mine) = n /\ Numbered(mine, Len(out))
        /\ rest \in Seq(Nat) /\ Len(rest) = Len(recv_buf) - n /\ Numbered(rest, Len(out) + n)
    BY <1>2, <1>4, CutBytes
  <1> HIDE DEF mine, rest
  <1>7. Ingested' = Ingested /\ Sent' = Sent /\ stream_offset' = stream_offset /\ fin_sent' = fin_sent
    BY <1>1, SameStream
  <1>8. RecvType'
    <2>1. recv_dest' \in BOOLEAN
      BY <1>1
    <2> QED BY <1>1, <1>2, <1>5, <1>7, <2>1 DEF RecvType
  <1>9. CallOK'
    <2>1. Len(dest') <= need' /\ pos' <= Len(Reads) /\ need' > 0
      BY <1>1, <1>2, <1>5
    <2>2. recv_dest' /\ rphase' = "recv_file" /\ failed' = "no"
      BY <1>1, <1>3 DEF CallOK
    <2> QED BY <2>1, <2>2 DEF CallOK
  <1>10. BytesOK'
    <2>1. Len(out') = Len(out) /\ Len(dest') = n /\ Len(recv_buf') = Len(recv_buf) - n
      BY <1>1, <1>5
    <2>2. Len(out') + Len(dest') + Len(recv_buf') = Ingested'
      BY <1>2, <1>4, <1>7, <2>1
    <2> QED BY <1>1, <1>5, <1>7, <2>1, <2>2 DEF BytesOK
  <1> QED BY <1>1, <1>8, <1>9, <1>10, ReceiverFrame DEF RecvInv, StreamInv

LEMMA FileDoneStep == ASSUME StreamInv, FileDone PROVE StreamInv'
  <1>1. /\ RecvType /\ CallOK /\ BytesOK /\ rphase = "recv_file" /\ pos <= Len(Reads)
        /\ rphase' = "idle" /\ pos' = pos + 1 /\ recv_dest' = FALSE /\ dest' = << >>
        /\ out' = out \o dest
        /\ UNCHANGED <<got, fin_received, rclosed, need, recv_buf, eagain, failed, senderVars, closing, faults>>
    BY DEF FileDone, Unmap, StreamInv, RecvInv, CallOK, inVars
  <1>2. /\ recv_buf \in Seq(Nat) /\ out \in Seq(Nat) /\ dest \in Seq(Nat)
        /\ Len(recv_buf) \in Nat /\ Len(out) \in Nat /\ Len(dest) \in Nat
    BY <1>1 DEF RecvType
  <1>3. /\ Len(out) + Len(dest) + Len(recv_buf) = Ingested /\ Numbered(out, 0)
        /\ Numbered(dest, Len(out)) /\ Numbered(recv_buf, Len(out) + Len(dest))
    BY <1>1 DEF BytesOK, Active
  <1>4. out' \in Seq(Nat) /\ Len(out') = Len(out) + Len(dest) /\ Numbered(out', 0)
    <2>1. Numbered(dest, 0 + Len(out))
      BY <1>2, <1>3
    <2> QED BY <1>1, <1>2, <1>3, <2>1, JoinBytes
  <1>5. Len(dest') = 0 /\ dest' \in Seq(Nat) /\ Numbered(dest', Len(out'))
    BY <1>1 DEF Numbered
  <1>6. Ingested' = Ingested /\ Sent' = Sent /\ stream_offset' = stream_offset /\ fin_sent' = fin_sent
        /\ Ingested \in 0 .. stream_offset /\ stream_offset \in Nat
    BY <1>1, SameStream, IngestedIs DEF StreamInv, SendInv, SendType, RecvType
  <1>7. RecvType'
    <2>1. recv_dest' \in BOOLEAN
      BY <1>1
    <2>2. pos' \in 1 .. Len(Reads) + 1
      BY <1>1, QuicAssumption DEF RecvType
    <2> QED BY <1>1, <1>4, <1>5, <1>6, <2>1, <2>2 DEF RecvType
  <1>8. CallOK'
    <2>1. failed' = "no" /\ rphase' = "idle" /\ ~ recv_dest' /\ dest' = << >>
      BY <1>1 DEF CallOK, Active
    <2> QED BY <2>1 DEF CallOK
  <1>9. BytesOK'
    <2>1. Len(out') + Len(dest') + Len(recv_buf') = Ingested'
      BY <1>1, <1>2, <1>3, <1>4, <1>5, <1>6
    <2>2. Len(out') + Len(dest') = Len(out) + Len(dest)
      BY <1>2, <1>4, <1>5
    <2>3. Len(out') <= stream_offset'
      BY <1>2, <1>3, <1>4, <1>6
    <2>4. fin_received' => fin_sent' /\ Ingested' = stream_offset'
      BY <1>1, <1>6 DEF BytesOK
    <2> QED BY <1>1, <1>3, <1>4, <1>5, <2>1, <2>2, <2>3, <2>4 DEF BytesOK
  <1> QED BY <1>1, <1>7, <1>8, <1>9, ReceiverFrame DEF RecvInv, StreamInv

(* The mapping goes, and what was in it is lost with the call. *)
LEMMA FileLostStep == ASSUME StreamInv, FileFails \/ ReceiverDies PROVE StreamInv'
  <1>1. /\ RecvType /\ CallOK /\ BytesOK
        /\ rphase' \in {"failed", "closed"} /\ recv_dest' = FALSE /\ dest' = << >>
        /\ failed' \in {failed, "error"}
        /\ UNCHANGED <<got, fin_received, rclosed, pos, need, recv_buf, eagain, out, senderVars, closing>>
    BY DEF FileFails, ReceiverDies, Unmap, StreamInv, RecvInv, inVars, callVars
  <1>2. faults' \in Nat
    BY DEF FileFails, ReceiverDies, Fault, StreamInv
  <1>3. Ingested' = Ingested /\ Sent' = Sent /\ stream_offset' = stream_offset /\ fin_sent' = fin_sent
    BY <1>1, SameStream
  <1>4. RecvType'
    <2>1. recv_dest' \in BOOLEAN
      BY <1>1
    <2>3. dest' \in Seq(Nat)
      BY <1>1
    <2>2. failed' \in {"no", "eof", "error"}
      BY <1>1 DEF RecvType
    <2> QED BY <1>1, <1>3, <2>1, <2>2, <2>3 DEF RecvType
  <1>5. CallOK'
    BY <1>1 DEF CallOK, Active
  <1>6. BytesOK'
    BY <1>1, <1>3 DEF BytesOK, Active, Numbered
  <1> QED BY <1>1, <1>2, <1>4, <1>5, <1>6, ReceiverFrame DEF RecvInv, StreamInv

LEMMA ReceiverStep ==
    ASSUME StreamInv, ReceiverCalls \/ ReceiverPump \/ ReceiverDies PROVE StreamInv'
  <1>1. /\ RecvType /\ CallOK /\ rclosed \in BOOLEAN /\ eagain \in BOOLEAN /\ faults \in Nat
        /\ closing \subseteq {"sender", "receiver"}
    BY DEF StreamInv, RecvInv, RecvType
  <1>2. CASE StartRecv
    <2>1. pos <= Len(Reads) /\ need' \in Nat \ {0} /\ rphase = "idle" /\ rphase' = "recv"
      BY <1>1, <1>2, ReadsAre DEF StartRecv, Calling, RecvType
    <2> QED BY <1>1, <1>2, <2>1, QuietReceiver DEF StartRecv, inVars
  <1>3. CASE RecvEof \/ RecvError
    <2>1. faults' \in Nat
      BY <1>1, <1>3 DEF RecvEof, RecvError, Fault
    <2> QED BY <1>1, <1>3, <2>1, QuietReceiver DEF RecvEof, RecvError, inVars
  <1>4. CASE RBeginClose \/ RLingerEnds
    <2>1. closing' \subseteq {"sender", "receiver"}
      BY <1>1, <1>4 DEF RBeginClose, RLingerEnds, CloseUnlessClosed, SendClose
    <2> QED BY <1>1, <1>4, <2>1, QuietReceiver DEF RBeginClose, RLingerEnds, inVars, callVars
  <1>5. CASE RCloseArrives \/ RIdle
    <2>1. rclosed' \in BOOLEAN
      BY <1>5 DEF RCloseArrives, RIdle
    <2>2. closing' \subseteq {"sender", "receiver"}
      BY <1>1, <1>5 DEF RCloseArrives, RIdle
    <2>3. faults' \in Nat
      BY <1>1, <1>5 DEF RCloseArrives, RIdle, Silence, Fault
    <2> QED BY <1>1, <1>5, <2>1, <2>2, <2>3, QuietReceiver DEF RCloseArrives, RIdle, callVars
  <1>6. CASE Refused
    <2>1. eagain' \in BOOLEAN
      BY <1>6 DEF Refused
    <2> QED BY <1>1, <1>6, <2>1, QuietReceiver DEF Refused, inVars, callVars
  <1> QED BY <1>2, <1>3, <1>4, <1>5, <1>6, RecvTakesStep, StartRecvFileStep, FileDoneStep, FileLostStep
      DEF ReceiverCalls, ReceiverPump

LEMMA StreamStep == StreamInv /\ [Next]_vars => StreamInv'
  <1> SUFFICES ASSUME StreamInv, [Next]_vars PROVE StreamInv'
    OBVIOUS
  <1>1. CASE UNCHANGED vars
    <2>1. UNCHANGED <<senderVars, inVars, bufVars, callVars, rphase, eagain, closing, faults>>
      BY <1>1 DEF vars, receiverVars
    <2>2. rclosed' \in BOOLEAN /\ eagain' \in BOOLEAN
      BY <2>1 DEF inVars, StreamInv, RecvInv, RecvType
    <2>3. closing' \subseteq {"sender", "receiver"} /\ faults' \in Nat
      BY <2>1 DEF StreamInv
    <2> QED BY <2>1, <2>2, <2>3, QuietReceiver DEF inVars, callVars
  <1> QED BY <1>1, SenderStep, RecvPacketStep, ReceiverStep DEF Next

----------------------------------------------------------------------------
(* What follows                                                             *)

(* The inductive invariant: every block still needed is retained, and what was *)
(* returned, mapped and buffered is what was ingested.                         *)
THEOREM StreamIsSound == Spec => []StreamInv
  BY StreamInit, StreamStep, PTL DEF Spec

(* Every variable has its type, for any writes, reads and windows. *)
THEOREM StreamTyping == Spec => []TypeOK
  <1>1. StreamInv => TypeOK
    <2> SUFFICES ASSUME StreamInv PROVE TypeOK
      OBVIOUS
    <2>1. SendType /\ RecvType /\ closing \subseteq {"sender", "receiver"} /\ faults \in Nat
      BY DEF StreamInv, SendInv, RecvInv
    <2> QED BY <2>1 DEF TypeOK, SendType, RecvType
  <1> QED BY <1>1, StreamIsSound, PTL

(* ngtcp2 never sends again from a block that was released, whatever the order *)
(* of acknowledgements (on_acked_stream_data_offset).                          *)
THEOREM MemoryIsKept == Spec => []MemoryKept
  <1>1. StreamInv => MemoryKept
    <2> SUFFICES ASSUME StreamInv PROVE MemoryKept
      OBVIOUS
    <2>1. SendType /\ BlocksOK /\ PhasesOK
      BY DEF StreamInv, SendInv
    <2>2. \A b \in 1 .. stream_offset : b > freed \/ b \in acked
      BY <2>1 DEF SendType, BlocksOK
    <2> QED BY <2>1, <2>2 DEF MemoryKept, BlocksOK, PhasesOK
  <1> QED BY <1>1, StreamIsSound, PTL

(* The callback writes to recv_file's mapping only while it is there.          *)
THEOREM MappingIsUsed == Spec => []DestMapped
  <1>1. StreamInv => DestMapped
    <2> SUFFICES ASSUME StreamInv PROVE DestMapped
      OBVIOUS
    <2>1. CallOK
      BY DEF StreamInv, RecvInv
    <2>2. ~ recv_dest => Len(dest) <= 0
      BY <2>1 DEF CallOK
    <2> QED BY <2>1, <2>2 DEF DestMapped, CallOK
  <1> QED BY <1>1, StreamIsSound, PTL

LEMMA DrainedIsIngested == StreamInv => GracefulClose
  <1> SUFFICES ASSUME StreamInv, how = "drained" PROVE Ingested = stream_offset
    BY DEF GracefulClose
  <1>1. /\ SendType /\ BlocksOK /\ unacked = {} /\ got \subseteq Sent
    BY DEF StreamInv, SendInv, PhasesOK, RecvInv, RecvType
  <1>2. left = 0 /\ freed = stream_offset
    BY <1>1 DEF BlocksOK, SendType
  <1>3. 1 .. stream_offset \subseteq got
    BY <1>1, <1>2 DEF BlocksOK, SendType
  <1>4. /\ Gapless(stream_offset, got) \in 0 .. stream_offset + 1
        /\ IsPrefix(Gapless(stream_offset, got), got)
        /\ Ingested = Least(Gapless(stream_offset, got), stream_offset)
    BY <1>1, IngestedIs
  <1>5. stream_offset \in Nat
    BY <1>1 DEF SendType
  <1>6. Gapless(stream_offset, got) >= stream_offset
    BY <1>3, <1>4, <1>5 DEF IsPrefix
  <1> QED BY <1>4, <1>5, <1>6 DEF Least

(* A linger that drained means that the peer's callback has every byte.        *)
THEOREM CloseIsGraceful == Spec => []GracefulClose
  BY DrainedIsIngested, StreamIsSound, PTL

----------------------------------------------------------------------------
(* Why a call of the receiver fails                                         *)

(* What recv_file waits for is not in the buffer; the call is the one named. *)
RoomOK == recv_dest /\ Len(dest) < need => recv_buf = << >>

NamedOK ==
    /\ rphase = "recv" => Reads[pos].call = "recv"
    /\ rphase = "recv_file" => Reads[pos].call = "recv_file"

(* Without a fault a CONNECTION_CLOSE comes from an endpoint that is closed,  *)
(* and the idle timer fires only after one.                                  *)
ClosesOK ==
    /\ "sender" \in closing => sphase = "closed"
    /\ "receiver" \in closing => rphase = "closed"
    /\ rphase # "closed" => ~ sclosed /\ (rclosed => sphase = "closed")

(* No byte follows, so a call that asked too much did so for good. *)
NoMoreSent == fin_sent \/ sphase = "closed"
LossOK ==
    failed # "no" =>
        \/ sphase = "closed" /\ how # "drained"
        \/ NoMoreSent /\ AskedTooMuch

LossInv == RoomOK /\ NamedOK /\ (faults = 0 => ClosesOK /\ LossOK)

LEMMA AnyBytes == ASSUME NEW from \in Nat, NEW to \in Nat PROVE Bytes(from, to) \in Seq(Nat)
  <1>1. CASE from <= to
    BY <1>1, NewBytes
  <1>2. CASE from > to
    <2>1. 1 .. to - from = 1 .. 0
      BY <1>2
    <2>2. Bytes(from, to) \in [1 .. 0 -> Nat]
      BY <2>1 DEF Bytes
    <2> QED BY <2>2
  <1> QED BY <1>1, <1>2

(* The callback buffers only what does not fit into the mapping. *)
LEMMA RoomKept ==
    ASSUME StreamInv, RoomOK, NEW bytes, RecvPacket(bytes) PROVE RoomOK'
  <1> DEFINE data == Bytes(Ingested, Least(Contiguous(got'), stream_offset))
             room == need - Len(dest)
             taken == Least(Len(data), room)
  <1>1. /\ StreamInv' /\ SendType /\ RecvType /\ CallOK /\ UNCHANGED <<need, recv_dest, stream_offset>>
    BY RecvPacketStep DEF RecvPacket, callVars, senderVars, writeVars, StreamInv, SendInv, RecvInv
  <1> SUFFICES ASSUME recv_dest, Len(dest') < need PROVE recv_buf' = << >>
    BY <1>1 DEF RoomOK
  <1>2. /\ Len(dest) \in Nat /\ need \in Nat /\ dest \in Seq(Nat) /\ recv_buf \in Seq(Nat)
        /\ Len(dest) <= need /\ Ingested \in Nat /\ stream_offset \in Nat
    BY <1>1, IngestedIs DEF RecvType, CallOK, SendType
  <1>3. data \in Seq(Nat) /\ Len(data) \in Nat
    <2>1. Contiguous(got)' \in Nat
      BY <1>1, IngestedNext DEF StreamInv, SendInv, RecvInv, RecvType
    <2>2. Least(Contiguous(got'), stream_offset) \in Nat
      BY <1>1, <1>2, <2>1 DEF Least, Contiguous
    <2>3. data \in Seq(Nat)
      BY <1>2, <2>2, AnyBytes
    <2> HIDE DEF data
    <2> QED BY <2>3
  <1> HIDE DEF data
  <1>4. on_recv_stream_data(data)
    BY DEF RecvPacket, data
  <1>5. CASE Len(dest) < need
    <2>1. recv_buf = << >>
      BY <1>5 DEF RoomOK
    <2>2. dest' = dest \o SubSeq(data, 1, taken)
          /\ recv_buf' = recv_buf \o SubSeq(data, taken + 1, Len(data))
      BY <1>4, <2>1 DEF on_recv_stream_data
    <2>3. taken \in 0 .. Len(data) /\ taken <= room /\ (taken < room => taken = Len(data))
      BY <1>2, <1>3 DEF Least
    <2> HIDE DEF taken
    <2>4. SubSeq(data, 1, taken) \in Seq(Nat) /\ Len(SubSeq(data, 1, taken)) = taken
          /\ SubSeq(data, taken + 1, Len(data)) \in Seq(Nat)
          /\ Len(SubSeq(data, taken + 1, Len(data))) = Len(data) - taken
      BY <1>3, <2>3, CutBytes
    <2>5. Len(dest') = Len(dest) + taken
      BY <1>2, <2>2, <2>4, JoinBytes
    <2>6. taken = Len(data)
      BY <1>2, <1>3, <2>3, <2>5
    <2>7. Len(recv_buf') = 0 /\ recv_buf' \in Seq(Nat)
      BY <1>2, <1>3, <2>1, <2>2, <2>4, <2>6, JoinBytes
    <2> QED BY <2>7, NoBytes
  <1>6. CASE Len(dest) = need
    <2>1. Len(dest') >= Len(dest)
      <3> DEFINE r == IF recv_dest /\ recv_buf = << >> THEN need - Len(dest) ELSE 0
                 n == Least(Len(data), r)
      <3>1. n \in 0 .. Len(data)
        BY <1>2, <1>3, <1>6 DEF Least
      <3>2. dest' = dest \o SubSeq(data, 1, n)
        BY <1>4 DEF on_recv_stream_data
      <3> HIDE DEF n
      <3>3. SubSeq(data, 1, n) \in Seq(Nat) /\ Len(SubSeq(data, 1, n)) = n
        BY <1>3, <3>1, CutBytes
      <3> QED BY <1>2, <3>1, <3>2, <3>3, JoinBytes
    <2>2. Len(dest') \in Nat
      BY <1>1 DEF StreamInv, RecvInv, RecvType
    <2> QED BY <1>2, <1>6, <2>1, <2>2
  <1> QED BY <1>2, <1>5, <1>6

(* Every byte that was sent has been ingested when a call can fail. *)
LEMMA CallFails ==
    ASSUME StreamInv, LossInv, RecvEof \/ RecvError \/ FileFails, faults' = 0
    PROVE  LossOK'
  <1>1. /\ SendType /\ RecvType /\ CallOK /\ BytesOK /\ PhasesOK /\ Active
        /\ rphase \in {"recv", "recv_file"} /\ need > 0 /\ pos <= Len(Reads)
        /\ UNCHANGED <<out, need, pos, sphase, stream_offset, fin_sent, how>>
    BY DEF RecvEof, RecvError, FileFails, callVars, senderVars, writeVars, Active, CallOK,
           StreamInv, SendInv, RecvInv
  <1>2. fin_received \/ rclosed
    BY DEF RecvEof, RecvError, FileFails, Fault, StreamInv
  <1>3. faults = 0 /\ ClosesOK
    BY <1>1 DEF RecvEof, RecvError, FileFails, Fault, StreamInv, LossInv
  <1>4. NoMoreSent
    BY <1>1, <1>2, <1>3 DEF NoMoreSent, ClosesOK, BytesOK
  <1>5. CASE sphase = "closed" /\ how # "drained"
    BY <1>1, <1>5 DEF LossOK
  <1>6. CASE fin_received \/ how = "drained"
    <2>1. Ingested = stream_offset
      BY <1>6, DrainedIsIngested, <1>1 DEF BytesOK, GracefulClose
    <2>2. Len(out) + Len(dest) + Len(recv_buf) = stream_offset
          /\ Len(out) \in Nat /\ Len(dest) \in Nat /\ Len(recv_buf) \in Nat /\ need \in Nat
          /\ stream_offset \in Nat
      BY <1>1, <2>1 DEF BytesOK, RecvType, SendType
    <2>3. Len(recv_buf) = 0 /\ Len(dest) < need
      <3>1. CASE RecvEof \/ RecvError
        <4>1. recv_buf = << >> /\ dest = << >>
          BY <1>1, <3>1 DEF RecvEof, RecvError, HasData, CallOK
        <4>2. Len(recv_buf) = 0 /\ Len(dest) = 0
          BY <4>1
        <4> QED BY <1>1, <4>2
      <3>2. CASE FileFails
        <4>1. recv_buf = << >> /\ Len(dest) < need
          BY <1>1, <3>2 DEF FileFails, LossInv, RoomOK, CallOK
        <4> QED BY <4>1
      <3> QED BY <3>1, <3>2
    <2>4. Len(out) + need > stream_offset
      BY <2>2, <2>3
    <2>5. ASSUME Reads[pos].call = "recv" PROVE Len(out) = stream_offset
      <3>1. rphase = "recv"
        BY <1>1, <2>5 DEF LossInv, NamedOK
      <3>2. Len(dest) = 0
        BY <1>1, <3>1 DEF CallOK
      <3> QED BY <2>2, <2>3, <3>2
    <2>6. AskedTooMuch
      BY <2>4, <2>5 DEF AskedTooMuch
    <2> QED BY <1>1, <1>4, <2>6 DEF LossOK, NoMoreSent, AskedTooMuch
  <1> QED BY <1>2, <1>3, <1>1, <1>5, <1>6 DEF ClosesOK

(* A step in which no call of the receiver fails, and none that takes bytes. *)
LEMMA LossKept ==
    ASSUME StreamInv, LossOK, failed' = failed,
           failed # "no" => UNCHANGED <<out, need, pos>>,
           fin_sent => fin_sent',
           NoMoreSent => stream_offset' = stream_offset,
           sphase = "closed" => sphase' = "closed" /\ how' = how
    PROVE  LossOK'
  BY DEF LossOK, NoMoreSent, AskedTooMuch

LEMMA NoFault ==
    ASSUME StreamInv, [Next]_vars, faults' = 0 PROVE faults = 0
  <1>1. faults \in Nat
    BY DEF StreamInv
  <1>2. faults' = faults \/ faults' = faults + 1
    <2>1. CASE UNCHANGED vars
      BY <2>1 DEF vars
    <2>2. CASE SenderCalls \/ SenderFails \/ SenderPump
      BY <2>2 DEF SenderCalls, StartWrite, WriteSome, StartFin, SendFin, BeginClose, WriteAborts,
                  SenderFails, WriteFails, WriteError, SenderDies, SenderPump, AckArrives,
                  CreditArrives, SCloseArrives, SIdle, LingerEnds, Fault, Silence
    <2>3. CASE ReceiverCalls \/ ReceiverPump \/ ReceiverDies
      BY <2>3 DEF ReceiverCalls, StartRecv, RecvTakes, RecvEof, RecvError, StartRecvFile, FileDone,
                  FileFails, RBeginClose, ReceiverPump, RCloseArrives, RIdle, Refused, RLingerEnds,
                  ReceiverDies, Fault, Silence
    <2>4. ASSUME NEW bytes, RecvPacket(bytes) PROVE faults' = faults
      BY <2>4 DEF RecvPacket
    <2> QED BY <2>1, <2>2, <2>3, <2>4 DEF Next
  <1> QED BY <1>1, <1>2

LEMMA SenderLoss ==
    ASSUME StreamInv, LossInv, SenderCalls \/ SenderFails \/ SenderPump PROVE LossInv'
  <1>1. /\ SendType /\ BlocksOK /\ PhasesOK /\ sphase # "closed"
        /\ UNCHANGED <<rphase, rclosed, recv_buf, dest, recv_dest, pos, need, out, failed>>
    BY DEF SenderCalls, StartWrite, WriteSome, StartFin, SendFin, BeginClose, WriteAborts, Accepts,
           SenderFails, WriteFails, WriteError, SenderDies, SenderPump, AckArrives, CreditArrives,
           SCloseArrives, SIdle, LingerEnds, SPumps, receiverVars, inVars, bufVars, callVars,
           StreamInv, SendInv
  <1>2. RoomOK' /\ NamedOK'
    BY <1>1 DEF LossInv, RoomOK, NamedOK
  <1>3. ASSUME faults' = 0 PROVE ClosesOK' /\ LossOK'
    <2>1. faults = 0 /\ ClosesOK /\ LossOK
      BY <1>3, NoFault DEF LossInv, Next
    <2>2. ~ Fault
      BY <1>3, <2>1 DEF Fault
    <2>3. ClosesOK'
      <3>1. CASE BeginClose \/ LingerEnds
        <4>1. sclosed' = sclosed /\ closing' \subseteq closing \union {"sender"}
              /\ (sphase' # "closed" => closing' = closing)
          BY <3>1 DEF BeginClose, LingerEnds, CloseUnlessClosed, SendClose
        <4> QED BY <1>1, <2>1, <4>1 DEF ClosesOK
      <3>2. CASE SIdle
        BY <1>1, <2>1, <2>2, <3>2 DEF ClosesOK, SIdle, SPumps, Silence, RGone
      <3>3. CASE SCloseArrives
        BY <1>1, <2>1, <3>3 DEF ClosesOK, SCloseArrives, SPumps
      <3>4. CASE SenderFails
        BY <2>2, <3>4 DEF SenderFails, WriteFails, WriteError, SenderDies
      <3>5. CASE StartWrite \/ WriteSome \/ StartFin \/ SendFin \/ WriteAborts \/ AckArrives \/ CreditArrives
        <4>1. closing' = closing /\ sclosed' = sclosed
          BY <3>5 DEF StartWrite, WriteSome, StartFin, SendFin, WriteAborts, AckArrives, CreditArrives
        <4> QED BY <1>1, <2>1, <4>1 DEF ClosesOK
      <3> QED BY <3>1, <3>2, <3>3, <3>4, <3>5 DEF SenderCalls, SenderPump
    <2>4. fin_sent => fin_sent'
      BY DEF SenderCalls, StartWrite, WriteSome, StartFin, SendFin, BeginClose, WriteAborts,
             SenderFails, WriteFails, WriteError, SenderDies, SenderPump, AckArrives, CreditArrives,
             SCloseArrives, SIdle, LingerEnds, writeVars
    <2>5. NoMoreSent => stream_offset' = stream_offset
      <3>1. CASE WriteSome
        <4>1. sphase = "writing"
          BY <3>1 DEF WriteSome, Accepts
        <4> QED BY <1>1, <4>1 DEF NoMoreSent, PhasesOK, BlocksOK
      <3>2. CASE ~ WriteSome
        BY <2>2, <3>2
        DEF SenderCalls, StartWrite, StartFin, SendFin, BeginClose, WriteAborts,
            SenderFails, WriteFails, WriteError, SenderDies, SenderPump, AckArrives, CreditArrives,
            SCloseArrives, SIdle, LingerEnds, writeVars
      <3> QED BY <3>1, <3>2
    <2>6. LossOK'
      BY <1>1, <2>1, <2>4, <2>5, LossKept
    <2> QED BY <2>3, <2>6
  <1> QED BY <1>2, <1>3 DEF LossInv

LEMMA PacketLoss ==
    ASSUME StreamInv, LossInv, NEW bytes, RecvPacket(bytes) PROVE LossInv'
  <1>1. UNCHANGED <<rphase, pos, need, out, failed, rclosed, sclosed, sphase, how, fin_sent,
                    stream_offset, closing, faults>>
    BY DEF RecvPacket, callVars, senderVars, writeVars
  <1>2. RoomOK'
    BY RoomKept DEF LossInv
  <1>3. NamedOK'
    BY <1>1 DEF LossInv, NamedOK
  <1>4. faults' = 0 => ClosesOK' /\ LossOK'
    BY <1>1 DEF LossInv, ClosesOK, LossOK, NoMoreSent, AskedTooMuch
  <1> QED BY <1>2, <1>3, <1>4 DEF LossInv

LEMMA ReceiverLoss ==
    ASSUME StreamInv, LossInv, ReceiverCalls \/ ReceiverPump \/ ReceiverDies PROVE LossInv'
  <1>1. /\ SendType /\ RecvType /\ CallOK /\ PhasesOK
        /\ UNCHANGED <<sphase, sclosed, how, fin_sent, stream_offset>>
    BY DEF ReceiverCalls, StartRecv, RecvTakes, RecvEof, RecvError, StartRecvFile, FileDone,
           FileFails, RBeginClose, ReceiverPump, RCloseArrives, RIdle, Refused, RLingerEnds,
           ReceiverDies, senderVars, writeVars, StreamInv, SendInv, RecvInv
  <1>2. RoomOK'
    <2>1. CASE StartRecvFile
      <3> DEFINE n == Least(need', Len(recv_buf))
      <3>1. /\ pos <= Len(Reads) /\ need' = Reads[pos].len
            /\ dest' = SubSeq(recv_buf, 1, n) /\ recv_buf' = SubSeq(recv_buf, n + 1, Len(recv_buf))
        BY <2>1 DEF StartRecvFile, Calling, FromBuffer
      <3>2. need' \in Nat /\ recv_buf \in Seq(Nat) /\ Len(recv_buf) \in Nat
        BY <1>1, <3>1, ReadsAre DEF RecvType
      <3>3. n \in 0 .. Len(recv_buf) /\ (n < need' => n = Len(recv_buf))
        BY <3>2 DEF Least
      <3> HIDE DEF n
      <3>4. Len(dest') = n /\ Len(recv_buf') = Len(recv_buf) - n /\ recv_buf' \in Seq(Nat)
        BY <3>1, <3>2, <3>3, CutBytes
      <3>5. Len(dest') < need' => Len(recv_buf') = 0
        BY <3>2, <3>3, <3>4
      <3> QED BY <3>4, <3>5, NoBytes DEF RoomOK
    <2>2. CASE FileDone \/ FileFails \/ ReceiverDies
      BY <2>2 DEF FileDone, FileFails, ReceiverDies, Unmap, RoomOK
    <2>3. CASE RecvTakes
      BY <1>1, <2>3 DEF RecvTakes, RoomOK, CallOK
    <2>4. CASE StartRecv
      BY <1>1, <2>4 DEF StartRecv, Calling, bufVars, RoomOK, CallOK
    <2>5. CASE RecvEof \/ RecvError \/ RBeginClose \/ ReceiverPump
      <3>1. UNCHANGED <<recv_dest, dest, need, recv_buf>>
        BY <2>5 DEF RecvEof, RecvError, RBeginClose, ReceiverPump, RCloseArrives, RIdle, Refused,
                    RLingerEnds, bufVars, callVars
      <3> QED BY <3>1 DEF LossInv, RoomOK
    <2> QED BY <2>1, <2>2, <2>3, <2>4, <2>5 DEF ReceiverCalls
  <1>3. NamedOK'
    <2>1. CASE StartRecv \/ StartRecvFile
      BY <2>1 DEF StartRecv, StartRecvFile, Calling, NamedOK
    <2>2. CASE RecvTakes
      <3>1. rphase' = "idle" \/ (rphase' = "recv" /\ rphase = "recv" /\ pos' = pos)
        BY <2>2 DEF RecvTakes
      <3> QED BY <3>1 DEF LossInv, NamedOK
    <2>3. CASE FileDone \/ RecvEof \/ RecvError \/ FileFails \/ RBeginClose \/ RLingerEnds \/ ReceiverDies
      BY <2>3 DEF FileDone, RecvEof, RecvError, FileFails, RBeginClose, RLingerEnds, ReceiverDies, NamedOK
    <2>4. CASE RCloseArrives \/ RIdle \/ Refused
      BY <2>4 DEF RCloseArrives, RIdle, Refused, callVars, LossInv, NamedOK
    <2> QED BY <2>1, <2>2, <2>3, <2>4 DEF ReceiverCalls, ReceiverPump
  <1>4. ASSUME faults' = 0 PROVE ClosesOK' /\ LossOK'
    <2>1. faults = 0 /\ ClosesOK /\ LossOK
      BY <1>4, NoFault DEF LossInv, Next
    <2>2. ~ Fault
      BY <1>4, <2>1 DEF Fault
    <2>3. ClosesOK'
      <3>1. CASE RCloseArrives
        BY <1>1, <2>1, <3>1 DEF RCloseArrives, RPumps, ClosesOK
      <3>2. CASE RIdle
        BY <1>1, <2>1, <2>2, <3>2 DEF RIdle, RPumps, Silence, SGone, ClosesOK
      <3>3. CASE RLingerEnds
        <4>1. closing' \subseteq closing \union {"receiver"} /\ rphase' = "closed"
          BY <3>3 DEF RLingerEnds, CloseUnlessClosed, SendClose
        <4> QED BY <1>1, <2>1, <4>1 DEF ClosesOK
      <3>4. CASE ReceiverCalls \/ Refused
        <4>1. UNCHANGED <<closing, rclosed>> /\ rphase # "closed"
          BY <3>4 DEF ReceiverCalls, StartRecv, RecvTakes, RecvEof, RecvError, StartRecvFile,
                      FileDone, FileFails, RBeginClose, Refused, RPumps, Calling, inVars
        <4> QED BY <1>1, <2>1, <4>1 DEF ClosesOK
      <3>5. CASE ReceiverDies
        BY <2>2, <3>5 DEF ReceiverDies
      <3> QED BY <3>1, <3>2, <3>3, <3>4, <3>5 DEF ReceiverPump
    <2>4. LossOK'
      <3>1. CASE RecvEof \/ RecvError \/ FileFails
        BY <1>4, <3>1, CallFails
      <3>2. CASE StartRecv \/ StartRecvFile \/ RecvTakes \/ FileDone
        <4>1. failed = "no" /\ failed' = failed
          BY <1>1, <3>2 DEF StartRecv, StartRecvFile, RecvTakes, FileDone, Calling, CallOK, Active
        <4> QED BY <4>1 DEF LossOK
      <3>3. CASE RBeginClose \/ ReceiverPump \/ ReceiverDies
        <4>1. UNCHANGED <<out, need, pos, failed>>
          BY <3>3 DEF RBeginClose, ReceiverPump, RCloseArrives, RIdle, Refused, RLingerEnds,
                      ReceiverDies, callVars
        <4> QED BY <1>1, <2>1, <4>1, LossKept
      <3> QED BY <3>1, <3>2, <3>3 DEF ReceiverCalls
    <2> QED BY <2>3, <2>4
  <1> QED BY <1>2, <1>3, <1>4 DEF LossInv

LEMMA LossStep == StreamInv /\ LossInv /\ [Next]_vars => LossInv'
  <1>1. ASSUME LossInv, UNCHANGED vars PROVE LossInv'
    BY <1>1 DEF vars, senderVars, writeVars, receiverVars, inVars, bufVars, callVars, LossInv,
                RoomOK, NamedOK, ClosesOK, LossOK, NoMoreSent, AskedTooMuch
  <1> QED BY <1>1, SenderLoss, PacketLoss, ReceiverLoss DEF Next

(* End to end, through any close: where the sender's linger drained and        *)
(* nothing else went wrong, recv_exact and recv_file fail only when asked for  *)
(* more than was sent, whatever the calls, the window and the order of arrival.*)
THEOREM NothingIsLost == Spec => []NothingLost
  <1>1. Init => LossInv
    BY DEF Init, LossInv, RoomOK, NamedOK, ClosesOK, LossOK
  <1>2. Spec => []LossInv
    BY <1>1, LossStep, StreamIsSound, PTL DEF Spec
  <1>3. StreamInv /\ LossInv => NothingLost
    BY DEF StreamInv, SendInv, PhasesOK, LossInv, LossOK, NothingLost
  <1> QED BY <1>2, <1>3, StreamIsSound, PTL

----------------------------------------------------------------------------
(* The refinement                                                           *)

LEMMA ReadIsRead ==
    ASSUME StreamInv, RecvTakes \/ FileDone PROVE Stream!Read
  <1>1. StreamInv'
    BY RecvTakesStep, FileDoneStep
  <1>2. /\ RecvType /\ CallOK /\ BytesOK /\ RecvType' /\ BytesOK'
        /\ Ingested \in 0 .. stream_offset /\ stream_offset \in Nat
    BY <1>1, IngestedIs DEF StreamInv, RecvInv, SendInv, SendType, RecvType
  <1>3. stream_offset' = stream_offset /\ fin_sent' = fin_sent /\ failed' = failed
    BY DEF RecvTakes, FileDone, senderVars, writeVars
  <1>4. Len(out') > Len(out)
    <2>1. CASE RecvTakes
      <3> DEFINE n == Least(need, Len(recv_buf))
      <3>1. /\ recv_buf \in Seq(Nat) /\ out \in Seq(Nat) /\ recv_buf # << >> /\ need > 0 /\ need \in Nat
            /\ out' = out \o SubSeq(recv_buf, 1, n)
        BY <1>2, <2>1 DEF RecvTakes, HasData, RecvType, CallOK
      <3>2. Len(recv_buf) \in Nat /\ Len(recv_buf) # 0
        BY <3>1, NoBytes
      <3>3. n \in 0 .. Len(recv_buf) /\ n > 0
        BY <3>1, <3>2 DEF Least
      <3> HIDE DEF n
      <3>4. SubSeq(recv_buf, 1, n) \in Seq(Nat) /\ Len(SubSeq(recv_buf, 1, n)) = n
        BY <3>1, <3>3, CutBytes
      <3>5. Len(out') = Len(out) + n
        BY <3>1, <3>4, JoinBytes
      <3> QED BY <3>1, <3>3, <3>5
    <2>2. CASE FileDone
      <3>1. /\ dest \in Seq(Nat) /\ out \in Seq(Nat) /\ Len(dest) > 0 /\ out' = out \o dest
        BY <1>2, <2>2 DEF FileDone, RecvType, CallOK
      <3>2. Len(out') = Len(out) + Len(dest)
        BY <3>1, JoinBytes
      <3> QED BY <3>1, <3>2
    <2> QED BY <2>1, <2>2
  <1>5. out' = Stream!Prefix(Len(out'))
    <2>1. out' \in Seq(Nat) /\ \A i \in 1 .. Len(out') : out'[i] = 0 + i
      BY <1>2 DEF RecvType, BytesOK, Numbered
    <2>2. /\ Stream!Prefix(Len(out')) \in Seq(Nat) /\ Len(Stream!Prefix(Len(out'))) = Len(out')
          /\ \A i \in 1 .. Len(out') : Stream!Prefix(Len(out'))[i] = i
      BY <2>1 DEF Stream!Prefix
    <2> QED BY <2>1, <2>2, SeqEqual
  <1>6. Len(out') \in Len(out) + 1 .. stream_offset
    <2>1. Len(out) \in Nat /\ Len(out') \in Nat /\ Len(out') <= stream_offset'
      BY <1>2 DEF RecvType, BytesOK
    <2> QED BY <1>2, <1>3, <1>4, <2>1
  <1> QED BY <1>3, <1>5, <1>6 DEF Stream!Read

LEMMA WriteIsWrite ==
    ASSUME StreamInv, WriteSome \/ WriteFails PROVE Stream!Write
  <1>1. PICK n \in 1 .. left : Accepts(n)
    BY DEF WriteSome, WriteFails
  <1>2. /\ stream_offset \in Nat /\ left \in Nat /\ stream_offset' = stream_offset + n
        /\ left > 0 => ~ fin_sent
    BY <1>1 DEF Accepts, StreamInv, SendInv, SendType, BlocksOK
  <1>3. fin_sent' = fin_sent /\ out' = out /\ failed' = failed
    BY DEF WriteSome, WriteFails, receiverVars, callVars
  <1> QED BY <1>2, <1>3 DEF Stream!Write

LEMMA EofIsEof == ASSUME StreamInv, RecvEof PROVE Stream!Eof
  <1>1. /\ RecvType /\ CallOK /\ BytesOK /\ rphase = "recv" /\ recv_buf = << >> /\ fin_received
        /\ failed' = "eof" /\ UNCHANGED <<out, senderVars>>
    BY DEF RecvEof, HasData, StreamInv, RecvInv
  <1>2. Len(dest) = 0 /\ Len(recv_buf) = 0 /\ Active
    BY <1>1 DEF CallOK, Active, RecvType
  <1>3. Len(out) + Len(dest) + Len(recv_buf) = stream_offset /\ fin_sent /\ Len(out) \in Nat
    BY <1>1, <1>2 DEF BytesOK, RecvType
  <1>4. Len(out) = stream_offset
    BY <1>2, <1>3
  <1> QED BY <1>1, <1>3, <1>4 DEF Stream!Eof, senderVars, writeVars

(* The other steps of the transport are none of the stream's. *)
LEMMA OthersStutter ==
    ASSUME StreamInv, UNCHANGED <<stream_offset, fin_sent, out>>,
           failed' = failed \/ (failed = "no" /\ failed' = "error")
    PROVE  UNCHANGED Stream!vars
  <1>1. (failed' = "eof") = (failed = "eof")
    OBVIOUS
  <1> QED BY <1>1 DEF Stream!vars

(* QuicTransport implements the stream run_push and run_pull are written for:  *)
(* whatever the network and the closes do, its calls return the bytes sent, in *)
(* order and without a gap, and an end of stream only after the last.          *)
THEOREM ImplementsByteStream == Spec => IsByteStream
  <1>1. Init => Stream!Init
    BY DEF Init, Stream!Init
  <1>2. StreamInv /\ [Next]_vars => [Stream!Next]_(Stream!vars)
    <2> SUFFICES ASSUME StreamInv, [Next]_vars PROVE [Stream!Next]_(Stream!vars)
      OBVIOUS
    <2>1. CASE UNCHANGED vars
      BY <2>1, OthersStutter DEF vars, senderVars, writeVars, receiverVars, callVars
    <2>2. CASE SenderCalls
      <3>1. CASE WriteSome
        BY <3>1, WriteIsWrite DEF Stream!Next
      <3>2. CASE SendFin
        BY <3>2 DEF SendFin, receiverVars, callVars, Stream!Next, Stream!HalfClose
      <3>3. CASE StartWrite \/ StartFin \/ BeginClose \/ WriteAborts
        BY <3>3, OthersStutter
        DEF StartWrite, StartFin, BeginClose, WriteAborts, writeVars, receiverVars, callVars
      <3> QED BY <2>2, <3>1, <3>2, <3>3 DEF SenderCalls
    <2>3. CASE SenderFails
      <3>1. CASE WriteFails
        BY <3>1, WriteIsWrite DEF Stream!Next
      <3>2. CASE WriteError \/ SenderDies
        BY <3>2, OthersStutter DEF WriteError, SenderDies, writeVars, receiverVars, callVars
      <3> QED BY <2>3, <3>1, <3>2 DEF SenderFails
    <2>4. CASE SenderPump
      BY <2>4, OthersStutter
      DEF SenderPump, AckArrives, CreditArrives, SCloseArrives, SIdle, LingerEnds,
          writeVars, receiverVars, callVars
    <2>5. ASSUME NEW bytes, RecvPacket(bytes) PROVE UNCHANGED Stream!vars
      BY <2>5, OthersStutter DEF RecvPacket, callVars, senderVars, writeVars
    <2>6. CASE ReceiverCalls
      <3>1. CASE RecvTakes \/ FileDone
        BY <3>1, ReadIsRead DEF Stream!Next
      <3>2. CASE RecvEof
        BY <3>2, EofIsEof DEF Stream!Next
      <3>3. CASE StartRecv \/ StartRecvFile \/ RBeginClose
        BY <3>3, OthersStutter
        DEF StartRecv, StartRecvFile, RBeginClose, callVars, senderVars, writeVars
      <3>4. CASE RecvError \/ FileFails
        <4>1. failed = "no" /\ failed' = "error"
          BY <3>4 DEF RecvError, FileFails, StreamInv, RecvInv, CallOK, Active
        <4> QED BY <3>4, <4>1, OthersStutter DEF RecvError, FileFails, senderVars, writeVars
      <3> QED BY <2>6, <3>1, <3>2, <3>3, <3>4 DEF ReceiverCalls
    <2>7. CASE ReceiverPump \/ ReceiverDies
      BY <2>7, OthersStutter
      DEF ReceiverPump, RCloseArrives, RIdle, Refused, RLingerEnds, ReceiverDies,
          callVars, senderVars, writeVars
    <2> QED BY <2>1, <2>2, <2>3, <2>4, <2>5, <2>6, <2>7 DEF Next
  <1> QED BY <1>1, <1>2, StreamIsSound, PTL DEF Spec, IsByteStream, Stream!Spec
=============================================================================
