----------------------------- MODULE UdpProofs ------------------------------
(***************************************************************************)
(* Proofs about UdpTransport, for any file, chunk, fragment and pool size  *)
(* and any number of repeated, lost and failed operations: each fragment   *)
(* buffer has one owner, the receiver never waits for a completion that    *)
(* cannot come as long as its last submission took the whole queue, and    *)
(* what is acknowledged is on disk.                                        *)
(***************************************************************************)
EXTENDS UdpTransport, FiniteSetTheorems, FunctionTheorems, SequenceTheorems, TLAPS

(* The length of chunk c of a file of n bytes, its fragments and their bytes,  *)
(* as operators of n.                                                          *)
ChunkLen(n, c) == Smaller(n - c * CHUNK_SIZE, CHUNK_SIZE)
FragCount(n, c) == CeilDiv(ChunkLen(n, c), UDP_PAYLOAD_SIZE)
FragLen(n, c, i) ==
    IF i + 1 < FragCount(n, c) THEN UDP_PAYLOAD_SIZE ELSE ChunkLen(n, c) - i * UDP_PAYLOAD_SIZE
PlaceOf(c, i) == c * CHUNK_SIZE + i * UDP_PAYLOAD_SIZE
FragBytes(n, c, i) == [k \in 1 .. FragLen(n, c, i) |-> PlaceOf(c, i) + k - 1]
BytesOf(n, c) ==
    [i \in 0 .. CHUNK_SIZE - 1 |-> IF i < ChunkLen(n, c) THEN c * CHUNK_SIZE + i ELSE NoByte]

(* A datagram as send_file makes it. *)
Genuine(n, d) ==
    \E c \in Nat, i \in Nat :
        i < FragCount(n, c) /\ d = [chunk |-> c, frag |-> i, data |-> FragBytes(n, c, i)]

(* Completions of one kind in a queue. *)
Tags(s, v) == {k \in DOMAIN s : s[k][1] = v}
Count(s, v) == Cardinality(Tags(s, v))

----------------------------------------------------------------------------
(* The sender's invariant                                                   *)

SendPlaces == {"ready", "wait_read", "chunk", "frag", "full", "drain", "ack"} \union Ended
Sending == {"frag", "full", "drain"}

SendTypeOK ==
    /\ len \in Nat
    /\ spc \in SendPlaces /\ chunk_idx \in Nat /\ frag_idx \in Nat
    /\ pending_frags \in 0 .. QUEUE_DEPTH
    /\ slots \in [0 .. QUEUE_DEPTH - 1 -> Int] /\ ssq \in Seq(0 .. QUEUE_DEPTH - 1)
    /\ chunk_buf \in [{0, 1} -> [0 .. CHUNK_SIZE - 1 -> Int]]
    /\ queued_read \in Nat \union {None} /\ reading \in Nat \union {None}
    /\ sending \in Seq(Int)
    /\ scq \in Seq({"read", "send"} \X {"ok", "err"})
    /\ stash \in {"none", "ok", "err"}

(* A fragment of the chunk that is sent. *)
OfChunk(i) == i \in Nat /\ i < FragCount(len, chunk_idx)

(* pending_frags counts the sends queued, in the kernel and completed.  A slot *)
(* may be used again before a short submission has taken what it described:    *)
(* what is sent is then another fragment of the chunk.                         *)
SendsOK ==
    /\ spc \in Sending => /\ pending_frags = Len(ssq) + Len(sending) + Count(scq, "send")
                         /\ \A k \in DOMAIN ssq : OfChunk(slots[ssq[k]])
    /\ spc \notin Sending \union {"failed"} => ssq = <<>> /\ sending = <<>> /\ Count(scq, "send") = 0
    /\ \A k \in DOMAIN sending : OfChunk(sending[k])

(* The chunk whose READ is out: this one before it is sent, then the next one. *)
ReadIs(c) == queued_read \in {None, c} /\ reading \in {None, c}
HasRead == stash = "ok" \/ \E k \in DOMAIN scq : scq[k] = <<"read", "ok">>
Holds(c) == chunk_buf[BufferOf(c)] = BytesOf(len, c)

(* One READ is out at a time, and it is not into the buffer that is sent from. *)
ReadsOK ==
    /\ Count(scq, "read") <= 1
    /\ reading # None => Count(scq, "read") = 0
    /\ stash # "none" => reading = None /\ Count(scq, "read") = 0
    /\ queued_read # None => reading = None /\ stash = "none" /\ Count(scq, "read") = 0
    /\ spc = "ready" => chunk_idx = 0
    /\ spc \in {"ready", "chunk"} =>
         queued_read = None /\ reading = None /\ stash = "none" /\ Count(scq, "read") = 0
    /\ spc = "wait_read" => ReadIs(chunk_idx) /\ (HasRead => Holds(chunk_idx))
    /\ spc \in Sending \union {"ack"} => ReadIs(chunk_idx + 1) /\ (HasRead => Holds(chunk_idx + 1))
    /\ sending # <<>> \/ ssq # <<>> => ReadIs(chunk_idx + 1)
    /\ spc \in Sending \union {"chunk"} \/ sending # <<>> => Holds(chunk_idx)

SendInv == SendTypeOK /\ SendsOK /\ ReadsOK

NetInv == \A x \in net : x = [of |-> x.of, copy |-> x.copy] /\ Genuine(len, x.of)

----------------------------------------------------------------------------
(* The receiver's invariant                                                 *)

Ops == {"recv", "write"}
Sqes == [op : Ops, buf : Bufs, off : Int]
Cqes == Ops \X Bufs \X {"ok", "err"}
RecvPlaces == {"post", "chunk"} \union Ended

RecvTypeOK ==
    /\ len \in Nat
    /\ rpc \in RecvPlaces /\ rchunk \in Nat
    /\ received \subseteq Nat
    /\ pending_writes \in Int /\ pending_recvs \in Int
    /\ rsq \subseteq Sqes /\ rops \subseteq Sqes
    /\ rcq \in Seq(Cqes)
    /\ frag_buf = [b \in Bufs |-> frag_buf[b]]
    /\ disk = [i \in 0 .. len - 1 |-> disk[i]]
    /\ stale \in BOOLEAN /\ short \in BOOLEAN

(* No buffer is in two operations. *)
Unique(q, o, c) ==
    /\ \A s, t \in q \union o : s.buf = t.buf => s = t
    /\ q \intersect o = {}
    /\ \A s \in q \union o, k \in DOMAIN c : c[k][2] # s.buf
    /\ \A j, k \in DOMAIN c : c[j][2] = c[k][2] => j = k

(* The buffers in operations of one kind, and those of them not submitted. *)
Uses(q, o, c, op) ==
    {b \in Bufs : (\E s \in q \union o : s.op = op /\ s.buf = b)
                    \/ (\E k \in DOMAIN c : c[k][1] = op /\ c[k][2] = b)}
Queued(q, op) == {b \in Bufs : \E s \in q : s.op = op /\ s.buf = b}

(* Below the threshold, operations may stay in the queue although the last *)
(* submission took all there was. *)
FewQueued(q) ==
    q # {} => \A op \in Ops : Cardinality(Queued(q, op)) < flush_threshold

(* The fragments of a chunk, and how many of them are still to come. *)
Fragments(n, c) == 0 .. FragCount(n, c) - 1
Missing(n, c, r) == FragCount(n, c) - Cardinality(r)

OwnOK ==
    /\ Unique(rsq, rops, rcq)
    /\ rpc = "post" => /\ rsq = {} /\ rops = {} /\ rcq = <<>>
                    /\ received = {} /\ pending_writes = 0
    /\ rpc = "chunk" =>
         /\ Uses(rsq, rops, rcq, "recv") \union Uses(rsq, rops, rcq, "write") = Bufs
         /\ pending_recvs = Cardinality(Uses(rsq, rops, rcq, "recv"))
         /\ pending_writes = Cardinality(Uses(rsq, rops, rcq, "write"))
         /\ ~ short => FewQueued(rsq)
         /\ received \in SUBSET Fragments(len, rchunk)
         /\ ~ short /\ Missing(len, rchunk, received) <= 0 => Queued(rsq, "write") = {}

(* A fragment buffer holds what the sender sent, and a WRITE takes it where it *)
(* belongs.                                                                    *)
Placed(n, d, off) == Genuine(n, d) /\ off = PlaceOf(d.chunk, d.frag)
OnDisk(n, f, c, i) ==
    \A j \in DOMAIN f : PlaceOf(c, i) <= j /\ j < PlaceOf(c, i) + FragLen(n, c, i) => f[j] = j
WriteFailed(c) == \E k \in DOMAIN c : c[k][1] = "write" /\ c[k][3] = "err"
Underway(s, bufs, c, i) == s.op = "write" /\ bufs[s.buf].chunk = c /\ bufs[s.buf].frag = i

DataOK ==
    /\ \A k \in DOMAIN rcq : rcq[k][1] = "recv" /\ rcq[k][3] = "ok" => Genuine(len, frag_buf[rcq[k][2]])
    /\ ~ stale =>
         /\ \A s \in rsq \union rops : s.op = "write" => Placed(len, frag_buf[s.buf], s.off)
         /\ rpc = "chunk" => \A i \in received :
              \/ OnDisk(len, disk, rchunk, i)
              \/ WriteFailed(rcq)
              \/ \E s \in rsq \union rops : Underway(s, frag_buf, rchunk, i)
         /\ \A c \in 0 .. rchunk - 1 : \A j \in DOMAIN disk :
              c * CHUNK_SIZE <= j /\ j < c * CHUNK_SIZE + ChunkLen(len, c) => disk[j] = j

RecvInv == RecvTypeOK /\ OwnOK /\ DataOK

UdpInv == SendInv /\ NetInv /\ RecvInv

----------------------------------------------------------------------------
(* Arithmetic of chunks and fragments                                       *)

LEMMA MulGrows == ASSUME NEW a \in Nat, NEW b \in Nat, NEW p \in Nat, a <= b PROVE a * p <= b * p
  <1>1. (b - a) * p \in Nat
    OBVIOUS
  <1>2. (b - a) * p = b * p - a * p
    OBVIOUS
  <1> QED BY <1>1, <1>2

LEMMA DivIs ==
    ASSUME NEW x \in Nat, NEW p \in Nat \ {0}
    PROVE  x \div p \in Nat /\ (x \div p) * p <= x /\ x < (x \div p) * p + p
  OBVIOUS

LEMMA CeilInt == ASSUME NEW n \in Int, NEW d \in Nat \ {0} PROVE CeilDiv(n, d) \in Int
  BY DEF CeilDiv

(* A place of the chunk is in one of its fragments. *)
LEMMA PlaceCovered ==
    ASSUME NEW L \in Int, NEW p \in Nat \ {0}, NEW x \in Nat, x < L
    PROVE  LET i == x \div p
           IN  i \in 0 .. CeilDiv(L, p) - 1 /\ i * p <= x /\ x < i * p + p
  <1> DEFINE i == x \div p
             c == (L + p - 1) \div p
  <1>1. i \in Nat /\ i * p <= x /\ x < i * p + p
    BY DivIs
  <1>2. L + p - 1 \in Nat
    OBVIOUS
  <1>3. c \in Nat /\ c * p <= L + p - 1 /\ L + p - 1 < c * p + p
    BY <1>2, DivIs
  <1> HIDE DEF i, c
  <1>4. i < c
    <2> SUFFICES ASSUME c <= i PROVE FALSE
      BY <1>1, <1>3
    <2>1. c * p <= i * p
      BY <1>1, <1>3, MulGrows
    <2>2. c * p \in Int /\ i * p \in Int
      BY <1>1, <1>3
    <2> QED BY <2>1, <2>2, <1>1, <1>3
  <1> QED BY <1>1, <1>3, <1>4 DEF i, c, CeilDiv

(* A fragment is inside its chunk. *)
LEMMA FragmentFits ==
    ASSUME NEW L \in Int, NEW p \in Nat \ {0}, NEW i \in Nat, i + 1 < CeilDiv(L, p)
    PROVE  i * p + p <= L
  <1> DEFINE c == (L + p - 1) \div p
  <1>1. L + p - 1 \in Nat
    <2> SUFFICES ASSUME L + p - 1 < 0 PROVE FALSE
      OBVIOUS
    <2>1. (L + p - 1) \div p < 1
      OBVIOUS
    <2> QED BY <2>1 DEF CeilDiv
  <1>2. c \in Nat /\ c * p <= L + p - 1
    BY <1>1, DivIs
  <1>3. c = CeilDiv(L, p)
    BY DEF CeilDiv
  <1> HIDE DEF c
  <1>4. i + 2 <= c
    BY <1>2, <1>3
  <1>5. (i + 2) * p <= c * p
    BY <1>2, <1>4, MulGrows
  <1>6. (i + 2) * p = i * p + p + p /\ i * p \in Int /\ c * p \in Int
    BY <1>2
  <1> QED BY <1>2, <1>5, <1>6

----------------------------------------------------------------------------
(* Counting in queues                                                       *)

LEMMA TagsFinite ==
    ASSUME NEW T, NEW s \in Seq(T), NEW v
    PROVE  IsFiniteSet(Tags(s, v)) /\ Count(s, v) \in Nat
  <1>1. Tags(s, v) \in SUBSET (1 .. Len(s))
    BY DEF Tags
  <1>2. IsFiniteSet(1 .. Len(s))
    BY FS_Interval
  <1> QED BY <1>1, <1>2, FS_Subset, FS_CardinalityType DEF Count

LEMMA CountAppend ==
    ASSUME NEW T, NEW s \in Seq(T), NEW x \in T, NEW v
    PROVE  Count(Append(s, x), v) = Count(s, v) + (IF x[1] = v THEN 1 ELSE 0)
  <1> DEFINE a == Append(s, x)
             n == Len(s) + 1
  <1>1. /\ DOMAIN a = DOMAIN s \union {n} /\ n \notin DOMAIN s /\ a[n] = x
        /\ \A k \in DOMAIN s : a[k] = s[k]
    OBVIOUS
  <1>2. IsFiniteSet(Tags(s, v)) /\ Count(s, v) \in Nat
    BY TagsFinite
  <1> HIDE DEF a, n
  <1>3. CASE x[1] = v
    <2>1. Tags(a, v) = Tags(s, v) \union {n} /\ n \notin Tags(s, v)
      BY <1>1, <1>3 DEF Tags
    <2>2. Cardinality(Tags(a, v)) = Cardinality(Tags(s, v)) + 1
      BY <1>2, <2>1, FS_AddElement
    <2> QED BY <1>3, <2>2 DEF Count, a
  <1>4. CASE x[1] # v
    <2>1. Tags(a, v) = Tags(s, v)
      BY <1>1, <1>4 DEF Tags
    <2> QED BY <1>2, <1>4, <2>1 DEF Count, a
  <1> QED BY <1>3, <1>4

LEMMA CountTail ==
    ASSUME NEW T, NEW s \in Seq(T), s # << >>, NEW v
    PROVE  Count(s, v) = Count(Tail(s), v) + (IF s[1][1] = v THEN 1 ELSE 0)
  <1> DEFINE t == Tail(s)
             R == Tags(s, v) \ {1}
             f == [k \in Tags(t, v) |-> k + 1]
  <1>1. /\ t \in Seq(T) /\ Len(t) = Len(s) - 1 /\ Len(s) \in Nat \ {0}
        /\ \A k \in 1 .. Len(t) : t[k] = s[k + 1]
    OBVIOUS
  <1>2. IsFiniteSet(Tags(t, v)) /\ Count(t, v) \in Nat /\ IsFiniteSet(Tags(s, v)) /\ Count(s, v) \in Nat
    BY <1>1, TagsFinite
  <1> HIDE DEF t
  <1>3. /\ \A k \in Tags(t, v) : k \in 1 .. Len(t) /\ k + 1 \in R
        /\ \A k \in R : k - 1 \in Tags(t, v) /\ k = (k - 1) + 1 /\ k \in Int
    <2>1. DOMAIN s = 1 .. Len(s) /\ DOMAIN t = 1 .. Len(t)
      BY <1>1
    <2>2. \A k \in Tags(t, v) : k \in 1 .. Len(t) /\ k + 1 \in R
      BY <1>1, <2>1 DEF Tags
    <2>3. ASSUME NEW k \in R PROVE k - 1 \in Tags(t, v) /\ k = (k - 1) + 1 /\ k \in Int
      <3>1. k \in 2 .. Len(s) /\ s[k][1] = v
        BY <1>1, <2>1 DEF Tags
      <3>2. k - 1 \in 1 .. Len(t) /\ k = (k - 1) + 1 /\ k \in Int
        BY <1>1, <3>1
      <3>3. t[k - 1] = s[(k - 1) + 1]
        BY <1>1, <3>2
      <3> QED BY <2>1, <3>1, <3>2, <3>3 DEF Tags
    <2> QED BY <2>2, <2>3
  <1>4. f \in Bijection(Tags(t, v), R)
    <2>1. f \in [Tags(t, v) -> R]
      BY <1>3
    <2>2. \A j, k \in Tags(t, v) : f[j] = f[k] => j = k
      BY <1>3
    <2>3. \A k \in R : \E j \in Tags(t, v) : f[j] = k
      BY <1>3
    <2> QED BY <2>1, <2>2, <2>3, Fun_IsBij
  <1>5. Cardinality(R) = Count(t, v)
    BY <1>2, <1>4, FS_Bijection DEF ExistsBijection, Count
  <1>6. 1 \in DOMAIN s
    BY <1>1
  <1>7. Cardinality(R) = IF 1 \in Tags(s, v) THEN Count(s, v) - 1 ELSE Count(s, v)
    BY <1>2, FS_RemoveElement DEF Count
  <1>8. 1 \in Tags(s, v) <=> s[1][1] = v
    BY <1>6 DEF Tags
  <1> QED BY <1>2, <1>5, <1>7, <1>8 DEF t

----------------------------------------------------------------------------
(* Buffers and the operations they are in                                   *)

LEMMA TailIs ==
    ASSUME NEW T, NEW c \in Seq(T), c # << >>
    PROVE  /\ Tail(c) \in Seq(T) /\ 1 \in DOMAIN c /\ Head(c) = c[1] /\ c[1] \in T
           /\ \A k \in DOMAIN Tail(c) : k + 1 \in DOMAIN c /\ k + 1 # 1 /\ Tail(c)[k] = c[k + 1]
           /\ \A k \in DOMAIN c : k # 1 => k - 1 \in DOMAIN Tail(c) /\ Tail(c)[k - 1] = c[k]
           /\ \A j, k \in DOMAIN Tail(c) : j + 1 = k + 1 => j = k
  <1>1. /\ Tail(c) \in Seq(T) /\ Len(Tail(c)) = Len(c) - 1 /\ Len(c) \in Nat \ {0}
        /\ \A k \in 1 .. Len(Tail(c)) : Tail(c)[k] = c[k + 1]
        /\ DOMAIN c = 1 .. Len(c) /\ DOMAIN Tail(c) = 1 .. Len(Tail(c))
    OBVIOUS
  <1>2. ASSUME NEW k \in DOMAIN c, k # 1 PROVE k - 1 \in DOMAIN Tail(c) /\ Tail(c)[k - 1] = c[k]
    <2>1. k - 1 \in 1 .. Len(Tail(c)) /\ (k - 1) + 1 = k
      BY <1>1, <1>2
    <2> QED BY <1>1, <2>1
  <1>3. \A k \in DOMAIN Tail(c) : k + 1 \in DOMAIN c /\ k + 1 # 1 /\ Tail(c)[k] = c[k + 1]
    BY <1>1
  <1>4. \A j, k \in DOMAIN Tail(c) : j + 1 = k + 1 => j = k
    BY <1>1
  <1> QED BY <1>1, <1>2, <1>3, <1>4

LEMMA AppendIs ==
    ASSUME NEW T, NEW c \in Seq(T), NEW x \in T
    PROVE  /\ Append(c, x) \in Seq(T)
           /\ DOMAIN Append(c, x) = DOMAIN c \union {Len(c) + 1} /\ Len(c) + 1 \notin DOMAIN c
           /\ Append(c, x)[Len(c) + 1] = x
           /\ \A k \in DOMAIN c : Append(c, x)[k] = c[k]
  OBVIOUS

LEMMA ElementIs ==
    ASSUME NEW T, NEW s \in Seq(T), NEW k \in DOMAIN s
    PROVE  s[k] \in T /\ k \in Nat /\ Len(s) \in Nat /\ 1 <= k /\ k <= Len(s)
  OBVIOUS

(* A part of a sequence, and two sequences joined. *)
LEMMA FrontIs ==
    ASSUME NEW T, NEW s \in Seq(T), NEW n \in 0 .. Len(s)
    PROVE  /\ SubSeq(s, 1, n) \in Seq(T) /\ Len(SubSeq(s, 1, n)) = n
           /\ \A j \in DOMAIN SubSeq(s, 1, n) : \E i \in DOMAIN s : SubSeq(s, 1, n)[j] = s[i]
  <1> DEFINE a == SubSeq(s, 1, n)
  <1>1. \A i \in 1 .. n : i \in DOMAIN s /\ s[i] \in T
    OBVIOUS
  <1>2. 1 \in Int /\ n \in Int
    OBVIOUS
  <1>3. /\ a \in Seq(T) /\ Len(a) = (IF 1 <= n THEN n - 1 + 1 ELSE 0)
        /\ \A j \in 1 .. n - 1 + 1 : a[j] = s[1 + j - 1]
    BY <1>1, <1>2, SubSeqProperties
  <1> HIDE DEF a
  <1>4. Len(a) = n /\ DOMAIN a = 1 .. n
    BY <1>3
  <1>5. \A j \in 1 .. n : j \in 1 .. n - 1 + 1 /\ 1 + j - 1 = j
    OBVIOUS
  <1> QED BY <1>1, <1>3, <1>4, <1>5 DEF a

LEMMA BackIs ==
    ASSUME NEW T, NEW s \in Seq(T), NEW n \in 0 .. Len(s)
    PROVE  /\ SubSeq(s, n + 1, Len(s)) \in Seq(T) /\ Len(SubSeq(s, n + 1, Len(s))) = Len(s) - n
           /\ \A j \in DOMAIN SubSeq(s, n + 1, Len(s)) :
                \E i \in DOMAIN s : SubSeq(s, n + 1, Len(s))[j] = s[i]
  <1> DEFINE m == n + 1
             r == Len(s)
             a == SubSeq(s, m, r)
  <1>1. m \in Nat /\ r \in Nat /\ m <= r + 1 /\ r - m + 1 = r - n
    OBVIOUS
  <1>2. \A i \in m .. r : i \in DOMAIN s /\ s[i] \in T
    OBVIOUS
  <1> HIDE DEF m, r
  <1>3. m \in Int /\ r \in Int
    BY <1>1
  <1>4. /\ a \in Seq(T) /\ Len(a) = (IF m <= r THEN r - m + 1 ELSE 0)
        /\ \A j \in 1 .. r - m + 1 : a[j] = s[m + j - 1]
    BY <1>2, <1>3, SubSeqProperties
  <1> HIDE DEF a
  <1>5. Len(a) = r - m + 1 /\ DOMAIN a = 1 .. r - m + 1
    BY <1>1, <1>4
  <1>6. \A j \in 1 .. r - m + 1 : m + j - 1 \in m .. r
    BY <1>1
  <1>7. \A j \in DOMAIN a : \E i \in DOMAIN s : a[j] = s[i]
    BY <1>2, <1>4, <1>5, <1>6
  <1>8. a \in Seq(T) /\ Len(a) = r - n
    BY <1>1, <1>4, <1>5
  <1> QED BY <1>7, <1>8 DEF a, m, r

LEMMA JoinIs ==
    ASSUME NEW T, NEW s \in Seq(T), NEW t \in Seq(T)
    PROVE  /\ s \o t \in Seq(T) /\ Len(s \o t) = Len(s) + Len(t)
           /\ \A j \in DOMAIN (s \o t) :
                \/ j \in DOMAIN s /\ (s \o t)[j] = s[j]
                \/ j - Len(s) \in DOMAIN t /\ (s \o t)[j] = t[j - Len(s)]
  <1> DEFINE a == s \o t
  <1>1. /\ a \in Seq(T) /\ Len(a) = Len(s) + Len(t)
        /\ \A j \in 1 .. Len(s) + Len(t) : a[j] = IF j <= Len(s) THEN s[j] ELSE t[j - Len(s)]
    BY ConcatProperties
  <1>2. Len(s) \in Nat /\ DOMAIN s = 1 .. Len(s) /\ Len(t) \in Nat /\ DOMAIN t = 1 .. Len(t)
    OBVIOUS
  <1> HIDE DEF a
  <1>3. DOMAIN a = 1 .. Len(s) + Len(t)
    BY <1>1
  <1>4. ASSUME NEW j \in DOMAIN a
        PROVE  (j \in DOMAIN s /\ a[j] = s[j]) \/ (j - Len(s) \in DOMAIN t /\ a[j] = t[j - Len(s)])
    BY <1>1, <1>2, <1>3
  <1> QED BY <1>1, <1>4 DEF a

(* A completed operation's buffer waits in the completion queue. *)
LEMMA Completed ==
    ASSUME NEW q, NEW o, NEW c \in Seq(Cqes), Unique(q, o, c),
           NEW s \in o, s.op \in Ops, s.buf \in Bufs, NEW r \in {"ok", "err"}
    PROVE  LET c2 == Append(c, <<s.op, s.buf, r>>)
           IN  /\ Unique(q, o \ {s}, c2)
               /\ \A op : Uses(q, o \ {s}, c2, op) = Uses(q, o, c, op)
  <1> DEFINE d == Append(c, <<s.op, s.buf, r>>)
             n == Len(c) + 1
             o2 == o \ {s}
  <1>1. /\ DOMAIN d = DOMAIN c \union {n} /\ n \notin DOMAIN c
        /\ d[n] = <<s.op, s.buf, r>> /\ \A k \in DOMAIN c : d[k] = c[k]
    <2>1. <<s.op, s.buf, r>> \in Cqes
      BY DEF Cqes
    <2> QED BY <2>1, AppendIs
  <1>2. d[n][1] = s.op /\ d[n][2] = s.buf
    BY <1>1
  <1> HIDE DEF d, n
  <1>3. s \notin q /\ q \union o2 = (q \union o) \ {s}
    BY DEF Unique
  <1> HIDE DEF o2
  <1>4. \A t \in q \union o2 : t.buf # s.buf
    BY <1>3 DEF Unique
  <1>5. Unique(q, o2, d)
    <2>1. \A t, u \in q \union o2 : t.buf = u.buf => t = u
      BY <1>3 DEF Unique
    <2>2. q \intersect o2 = {}
      BY DEF Unique, o2
    <2>3. \A t \in q \union o2, k \in DOMAIN d : d[k][2] # t.buf
      BY <1>1, <1>2, <1>3, <1>4 DEF Unique
    <2>4. \A j, k \in DOMAIN d : d[j][2] = d[k][2] => j = k
      BY <1>1, <1>2 DEF Unique
    <2> QED BY <2>1, <2>2, <2>3, <2>4 DEF Unique
  <1>6. ASSUME NEW op PROVE Uses(q, o2, d, op) = Uses(q, o, c, op)
    <2>1. ASSUME NEW b \in Uses(q, o2, d, op) PROVE b \in Uses(q, o, c, op)
      BY <1>1, <1>2, <1>3, <2>1 DEF Uses
    <2>2. ASSUME NEW b \in Uses(q, o, c, op) PROVE b \in Uses(q, o2, d, op)
      <3>1. CASE \E t \in q \union o : t.op = op /\ t.buf = b
        BY <1>1, <1>2, <1>3, <2>2, <3>1 DEF Uses
      <3>2. CASE \E k \in DOMAIN c : c[k][1] = op /\ c[k][2] = b
        BY <1>1, <2>2, <3>2 DEF Uses
      <3> QED BY <2>2, <3>1, <3>2 DEF Uses
    <2> QED BY <2>1, <2>2
  <1> QED BY <1>5, <1>6 DEF d, o2

----------------------------------------------------------------------------
(* The sender                                                               *)

LEMMA Named ==
    /\ \A c : chunk_len(c) = ChunkLen(len, c) /\ frag_count(c) = FragCount(len, c)
              /\ ChunkBytes(c) = BytesOf(len, c)
    /\ \A c, i : frag_len(c, i) = FragLen(len, c, i)
  BY DEF chunk_len, ChunkLen, frag_count, FragCount, ChunkBytes, BytesOf, frag_len, FragLen

LEMMA LengthsAreInts ==
    ASSUME NEW n \in Nat, NEW c \in Nat
    PROVE  ChunkLen(n, c) \in Int /\ FragCount(n, c) \in Int /\ ChunkLen(n, c) <= CHUNK_SIZE
  <1>1. c * CHUNK_SIZE \in Int /\ CHUNK_SIZE \in Int
    BY UdpAssumption
  <1>2. ChunkLen(n, c) \in Int /\ ChunkLen(n, c) <= CHUNK_SIZE
    BY <1>1 DEF ChunkLen, Smaller
  <1> QED BY <1>2, UdpAssumption, CeilInt DEF FragCount

LEMMA BuffersAlternate ==
    ASSUME NEW c \in Nat
    PROVE  BufferOf(c) \in {0, 1} /\ BufferOf(c + 1) \in {0, 1} /\ BufferOf(c + 1) # BufferOf(c)
  BY DEF BufferOf

LEMMA BytesType == ASSUME NEW n \in Nat, NEW c \in Nat PROVE BytesOf(n, c) \in [0 .. CHUNK_SIZE - 1 -> Int]
  <1>1. c * CHUNK_SIZE \in Int
    BY UdpAssumption
  <1> QED BY <1>1 DEF BytesOf, NoByte

LEMMA SenderInit == Init => SendInv
  <1> SUFFICES ASSUME Init PROVE SendInv
    OBVIOUS
  <1>1. /\ spc = "ready" /\ chunk_idx = 0 /\ frag_idx = 0 /\ pending_frags = 0 /\ len \in Nat
        /\ slots \in [0 .. QUEUE_DEPTH - 1 -> Int] /\ ssq = << >>
        /\ queued_read = None /\ reading = None /\ sending = << >> /\ scq = << >> /\ stash = "none"
    BY UdpAssumption DEF Init, None
  <1>2. chunk_buf \in [{0, 1} -> [0 .. CHUNK_SIZE - 1 -> Int]]
    BY DEF Init, Nothing, NoByte
  <1>3. Tags(scq, "read") = {} /\ Tags(scq, "send") = {}
    BY <1>1 DEF Tags
  <1>4. Count(scq, "read") = 0 /\ Count(scq, "send") = 0
    BY <1>3, FS_EmptySet DEF Count
  <1>5. SendTypeOK
    BY <1>1, <1>2, UdpAssumption DEF SendTypeOK, SendPlaces
  <1>6. SendsOK /\ ReadsOK
    BY <1>1, <1>4 DEF SendsOK, ReadsOK, ReadIs, Sending
  <1> QED BY <1>5, <1>6 DEF SendInv

LEMMA SenderFrame == ASSUME SendInv, len' = len, UNCHANGED senderVars PROVE SendInv'
  BY DEF SendInv, SendTypeOK, SendsOK, OfChunk, ReadsOK, ReadIs, HasRead, Holds,
         senderVars, sqVars, readVars

LEMMA NothingRead == ASSUME SendTypeOK, stash = "none", Count(scq, "read") = 0 PROVE ~ HasRead
  <1>1. \A k \in DOMAIN scq : scq[k] # <<"read", "ok">>
    <2> SUFFICES ASSUME NEW k \in DOMAIN scq, scq[k] = <<"read", "ok">> PROVE FALSE
      OBVIOUS
    <2>1. scq[k][1] = "read"
      OBVIOUS
    <2>2. IsFiniteSet(Tags(scq, "read"))
      BY TagsFinite DEF SendTypeOK
    <2>3. Tags(scq, "read") = {}
      BY <2>2, FS_EmptySet DEF Count
    <2> QED BY <2>1, <2>3 DEF Tags
  <1> QED BY <1>1 DEF HasRead

(* submit_read: the READ is in the kernel or in the queue. *)
LEMMA ReadSubmitted ==
    ASSUME SendTypeOK, NEW c \in Nat, SubmitRead(c), reading = None, queued_read = None
    PROVE  /\ queued_read' \in Nat \union {None} /\ reading' \in Nat \union {None}
           /\ ReadIs(c)' /\ (queued_read' # None => reading' = None)
  BY DEF SubmitRead, ReadIs

LEMMA RecvReadyStep == ASSUME SendInv, len' = len, RecvReady PROVE SendInv'
  <1>1. /\ SendTypeOK /\ SendsOK /\ ReadsOK /\ spc = "ready" /\ SubmitRead(0) /\ spc' = "wait_read"
        /\ UNCHANGED <<len, chunk_idx, frag_idx, pending_frags, slots, ssq, chunk_buf, sending, scq, stash>>
    BY DEF RecvReady, sqVars, SendInv
  <1>2. /\ ssq = << >> /\ sending = << >> /\ queued_read = None /\ reading = None /\ stash = "none"
        /\ Count(scq, "read") = 0 /\ chunk_idx = 0 /\ ~ HasRead
    BY <1>1, NothingRead DEF SendsOK, ReadsOK, Sending
  <1>3. /\ queued_read' \in Nat \union {None} /\ reading' \in Nat \union {None}
        /\ ReadIs(0)' /\ (queued_read' # None => reading' = None)
    BY <1>1, <1>2, ReadSubmitted
  <1>4. SendTypeOK'
    BY <1>1, <1>3 DEF SendTypeOK, SendPlaces
  <1>5. SendsOK'
    BY <1>1, <1>2 DEF SendsOK, Sending
  <1>6. ~ HasRead'
    BY <1>1, <1>2 DEF HasRead
  <1>7. ReadsOK'
    BY <1>1, <1>2, <1>3, <1>6 DEF ReadsOK, ReadIs, Sending
  <1> QED BY <1>4, <1>5, <1>7 DEF SendInv

LEMMA TcpClosedStep == ASSUME SendInv, len' = len, TcpClosed PROVE SendInv'
  <1>1. /\ SendTypeOK /\ SendsOK /\ ReadsOK /\ spc = "ack" /\ spc' = "failed"
        /\ UNCHANGED <<len, chunk_idx, frag_idx, pending_frags, slots, ssq, chunk_buf,
                       queued_read, reading, sending, scq, stash>>
    BY DEF TcpClosed, sqVars, readVars, SendInv
  <1>2. SendTypeOK'
    BY <1>1 DEF SendTypeOK, SendPlaces, Ended
  <1>3. SendsOK'
    BY <1>1 DEF SendsOK, Sending
  <1>4. ReadsOK'
    BY <1>1 DEF ReadsOK, ReadIs, Sending, SendsOK, Holds
  <1> QED BY <1>2, <1>3, <1>4 DEF SendInv

LEMMA WaitReadStep == ASSUME SendInv, len' = len, WaitRead PROVE SendInv'
  <1>1. /\ SendTypeOK /\ SendsOK /\ ReadsOK /\ spc = "wait_read"
        /\ UNCHANGED <<len, chunk_idx, frag_idx, pending_frags, slots, ssq, chunk_buf,
                       queued_read, reading, sending>>
    BY DEF WaitRead, sqVars, readVars, SendInv
  <1>2. sending = << >> /\ Count(scq, "send") = 0 /\ ssq = << >>
    BY <1>1 DEF SendsOK, Sending
  <1>3. CASE stash # "none" /\ stash' = "none" /\ scq' = scq
             /\ spc' = (IF stash = "err" THEN "failed" ELSE "chunk")
    <2>1. SendTypeOK'
      BY <1>1, <1>3 DEF SendTypeOK, SendPlaces, Ended
    <2>2. SendsOK'
      BY <1>1, <1>2, <1>3 DEF SendsOK, Sending
    <2>3. spc' = "chunk" => stash = "ok"
      BY <1>1, <1>3 DEF SendTypeOK
    <2>4. spc' = "chunk" => Holds(chunk_idx)
      BY <1>1, <2>3 DEF ReadsOK, HasRead
    <2>5. ReadsOK'
      BY <1>1, <1>2, <1>3, <2>4 DEF ReadsOK, ReadIs, Sending, Holds
    <2> QED BY <2>1, <2>2, <2>5 DEF SendInv
  <1>4. CASE stash = "none" /\ scq # << >> /\ scq' = Tail(scq) /\ stash' = stash
             /\ spc' = (IF Head(scq) = <<"read", "ok">> THEN "chunk" ELSE "failed")
    <2>1. /\ scq \in Seq({"read", "send"} \X {"ok", "err"})
          /\ scq' \in Seq({"read", "send"} \X {"ok", "err"})
          /\ 1 \in DOMAIN scq /\ Head(scq) = scq[1]
      BY <1>1, <1>4, TailIs DEF SendTypeOK
    <2>2. \A v : /\ Count(scq, v) = Count(scq', v) + (IF scq[1][1] = v THEN 1 ELSE 0)
                 /\ Count(scq', v) \in Nat
      BY <1>4, <2>1, CountTail, TagsFinite
    <2>3. Count(scq', "send") = 0 /\ Count(scq', "read") <= 1
      BY <1>1, <1>2, <2>2 DEF ReadsOK
    <2>4. spc' = "chunk" => /\ Count(scq', "read") = 0 /\ queued_read' = None /\ reading' = None
                            /\ Holds(chunk_idx)
      <3> SUFFICES ASSUME spc' = "chunk"
                   PROVE  /\ Count(scq', "read") = 0 /\ queued_read' = None /\ reading' = None
                          /\ Holds(chunk_idx)
        OBVIOUS
      <3>1. scq[1] = <<"read", "ok">>
        BY <1>4, <2>1
      <3>2. Count(scq, "read") = Count(scq', "read") + 1
        BY <2>2, <3>1
      <3>3. Count(scq', "read") = 0 /\ Count(scq, "read") = 1
        BY <1>1, <2>2, <3>2 DEF ReadsOK
      <3>4. HasRead
        BY <2>1, <3>1 DEF HasRead
      <3> QED BY <1>1, <3>3, <3>4 DEF ReadsOK
    <2>5. SendTypeOK'
      BY <1>1, <1>4, <2>1 DEF SendTypeOK, SendPlaces, Ended
    <2>6. SendsOK'
      BY <1>1, <1>2, <1>4, <2>3 DEF SendsOK, Sending
    <2>7. reading' # None \/ queued_read' # None => Count(scq', "read") = 0
      <3>1. reading # None \/ queued_read # None => Count(scq, "read") = 0
        BY <1>1 DEF ReadsOK
      <3> QED BY <1>1, <2>2, <3>1
    <2>8. ReadsOK'
      BY <1>1, <1>2, <1>4, <2>3, <2>4, <2>7 DEF ReadsOK, ReadIs, Sending, Holds
    <2> QED BY <2>5, <2>6, <2>8 DEF SendInv
  <1> QED BY <1>3, <1>4 DEF WaitRead

LEMMA StartChunkStep == ASSUME SendInv, len' = len, StartChunk PROVE SendInv'
  <1>1. /\ SendTypeOK /\ SendsOK /\ ReadsOK /\ spc = "chunk" /\ frag_idx' = 0 /\ pending_frags' = 0
        /\ UNCHANGED <<len, chunk_idx, slots, ssq, chunk_buf, sending, scq, stash>>
        /\ spc' \in {"frag", "done"}
        /\ \/ spc' = "frag" /\ SubmitRead(chunk_idx + 1)
           \/ UNCHANGED <<queued_read, reading>>
    BY DEF StartChunk, SendInv, readVars
  <1>2. /\ sending = << >> /\ Count(scq, "send") = 0 /\ ssq = << >>
        /\ queued_read = None /\ reading = None /\ stash = "none" /\ Count(scq, "read") = 0
        /\ Holds(chunk_idx) /\ chunk_idx + 1 \in Nat
    BY <1>1 DEF SendTypeOK, SendsOK, ReadsOK, Sending
  <1>3. /\ queued_read' \in Nat \union {None} /\ reading' \in Nat \union {None}
        /\ ReadIs(chunk_idx + 1)' /\ (queued_read' # None => reading' = None)
    <2>1. CASE UNCHANGED <<queued_read, reading>>
      BY <1>2, <2>1 DEF ReadIs
    <2>2. CASE SubmitRead(chunk_idx + 1)
      <3>1. /\ queued_read' \in {None, chunk_idx + 1} /\ reading' \in {None, chunk_idx + 1}
            /\ (queued_read' # None => reading' = None)
        BY <1>2, <2>2 DEF SubmitRead
      <3>2. chunk_idx' + 1 = chunk_idx + 1
        BY <1>1
      <3> QED BY <1>2, <3>1, <3>2 DEF ReadIs
    <2> QED BY <1>1, <2>1, <2>2
  <1>4. SendTypeOK'
    BY <1>1, <1>3, UdpAssumption DEF SendTypeOK, SendPlaces, Ended
  <1>5. SendsOK'
    BY <1>1, <1>2 DEF SendsOK, Sending
  <1>6. ReadsOK'
    <2>1. ~ HasRead'
      <3>1. ~ HasRead
        BY <1>1, <1>2, NothingRead
      <3> QED BY <1>1, <1>2, <3>1 DEF HasRead
    <2> QED BY <1>1, <1>2, <1>3, <2>1 DEF ReadsOK, Sending, Holds
  <1> QED BY <1>4, <1>5, <1>6 DEF SendInv

LEMMA SmallMod == ASSUME NEW d \in Nat \ {0}, NEW p \in 0 .. d - 1 PROVE p % d = p
  OBVIOUS

LEMMA QueueFragStep == ASSUME SendInv, len' = len, QueueFrag PROVE SendInv'
  <1> DEFINE p == pending_frags
             f == frag_idx
  <1>1. /\ SendTypeOK /\ SendsOK /\ ReadsOK /\ spc = "frag"
        /\ f < FragCount(len, chunk_idx) /\ p < QUEUE_DEPTH
        /\ UNCHANGED <<len, chunk_idx, chunk_buf, queued_read, reading, sending, scq, stash>>
    BY Named DEF QueueFrag, SendInv, readVars
  <1>2. CASE spc' = "failed" /\ UNCHANGED <<frag_idx, pending_frags, slots, ssq>>
    <2>1. SendTypeOK'
      BY <1>1, <1>2 DEF SendTypeOK, SendPlaces, Ended
    <2>2. SendsOK'
      BY <1>1, <1>2 DEF SendsOK, OfChunk, Sending
    <2>3. ReadsOK'
      BY <1>1, <1>2 DEF ReadsOK, ReadIs, Sending, Holds
    <2> QED BY <2>1, <2>2, <2>3 DEF SendInv
  <1>3. CASE /\ spc' = spc
             /\ slots' = [slots EXCEPT ![p % QUEUE_DEPTH] = f] /\ ssq' = Append(ssq, p % QUEUE_DEPTH)
             /\ pending_frags' = p + 1 /\ frag_idx' = f + 1
    <2>1. /\ p \in 0 .. QUEUE_DEPTH - 1 /\ f \in Nat
          /\ slots \in [0 .. QUEUE_DEPTH - 1 -> Int] /\ ssq \in Seq(0 .. QUEUE_DEPTH - 1)
      BY <1>1, UdpAssumption DEF SendTypeOK
    <2>2. p % QUEUE_DEPTH = p
      BY <2>1, UdpAssumption, SmallMod
    <2>3. slots' = [slots EXCEPT ![p] = f] /\ ssq' = Append(ssq, p)
      BY <1>3, <2>2
    <2>4. /\ Len(ssq') = Len(ssq) + 1 /\ Len(ssq) \in Nat /\ DOMAIN ssq = 1 .. Len(ssq)
          /\ DOMAIN ssq' = DOMAIN ssq \union {Len(ssq) + 1}
          /\ ssq'[Len(ssq) + 1] = p /\ \A k \in DOMAIN ssq : ssq'[k] = ssq[k]
      BY <2>1, <2>3, AppendIs
    <2>5. SendTypeOK'
      <3>1. p + 1 \in 0 .. QUEUE_DEPTH /\ f + 1 \in Nat
        BY <2>1, UdpAssumption
      <3>2. slots' \in [0 .. QUEUE_DEPTH - 1 -> Int] /\ ssq' \in Seq(0 .. QUEUE_DEPTH - 1)
        BY <2>1, <2>3
      <3> QED BY <1>1, <1>3, <3>1, <3>2 DEF SendTypeOK
    <2>6. \A k \in DOMAIN ssq' : OfChunk(slots'[ssq'[k]])
      <3>1. OfChunk(f)
        BY <1>1, <2>1 DEF OfChunk
      <3>2. \A k \in DOMAIN ssq : OfChunk(slots[ssq[k]]) /\ ssq[k] \in 0 .. QUEUE_DEPTH - 1
        <4>1. ssq \in Seq(0 .. QUEUE_DEPTH - 1)
          BY <2>1
        <4>2. \A k \in DOMAIN ssq : ssq[k] \in 0 .. QUEUE_DEPTH - 1
          BY <4>1, ElementIs
        <4> QED BY <1>1, <4>2 DEF SendsOK, Sending
      <3>3. slots'[p] = f /\ \A m \in 0 .. QUEUE_DEPTH - 1 : m # p => slots'[m] = slots[m]
        BY <2>1, <2>3
      <3>4. \A k \in DOMAIN ssq' : ssq'[k] = p \/ (k \in DOMAIN ssq /\ ssq'[k] = ssq[k])
        BY <2>4
      <3>5. ASSUME NEW k \in DOMAIN ssq' PROVE OfChunk(slots'[ssq'[k]])
        <4>1. CASE ssq'[k] = p
          BY <3>1, <3>3, <4>1
        <4>2. CASE ssq'[k] # p
          <5>1. k \in DOMAIN ssq /\ ssq'[k] = ssq[k]
            BY <3>4, <4>2
          <5> DEFINE m == ssq[k]
          <5>2. m \in 0 .. QUEUE_DEPTH - 1 /\ m # p /\ OfChunk(slots[m]) /\ ssq'[k] = m
            BY <3>2, <4>2, <5>1
          <5> HIDE DEF m
          <5>3. slots'[m] = slots[m]
            BY <3>3, <5>2
          <5> QED BY <5>2, <5>3
        <4> QED BY <4>1, <4>2
      <3> QED BY <3>5
    <2>7. SendsOK'
      <3>1. Count(scq, "send") \in Nat /\ Len(sending) \in Nat
        BY <1>1, TagsFinite DEF SendTypeOK
      <3>2. p = Len(ssq) + Len(sending) + Count(scq, "send")
        BY <1>1 DEF SendsOK, Sending
      <3>3. p + 1 = Len(ssq') + Len(sending) + Count(scq, "send")
        BY <2>4, <3>1, <3>2
      <3> QED BY <1>1, <1>3, <2>6, <3>3 DEF SendsOK, OfChunk, Sending
    <2>8. ReadsOK'
      <3>1. ReadIs(chunk_idx + 1)
        BY <1>1 DEF ReadsOK, Sending
      <3> QED BY <1>1, <1>3, <3>1 DEF ReadsOK, ReadIs, Sending, Holds, HasRead
    <2> QED BY <2>5, <2>7, <2>8 DEF SendInv
  <1> QED BY <1>2, <1>3 DEF QueueFrag, sqVars

LEMMA SubmitFragsStep == ASSUME SendInv, len' = len, SubmitFrags PROVE SendInv'
  <1>1. /\ SendTypeOK /\ SendsOK /\ ReadsOK /\ spc = "frag" /\ spc' \in {"full", "drain"} /\ TakeFrags
        /\ UNCHANGED <<len, chunk_idx, frag_idx, pending_frags, slots, chunk_buf, scq, stash>>
    BY DEF SubmitFrags, SendInv
  <1>2. CASE UNCHANGED <<queued_read, reading, sending, ssq>>
    <2>1. SendTypeOK'
      BY <1>1, <1>2 DEF SendTypeOK, SendPlaces
    <2>2. SendsOK'
      BY <1>1, <1>2 DEF SendsOK, OfChunk, Sending
    <2>3. ReadsOK'
      BY <1>1, <1>2 DEF ReadsOK, ReadIs, Sending, Holds, HasRead
    <2> QED BY <2>1, <2>2, <2>3 DEF SendInv
  <1>3. ASSUME NEW n \in 0 .. Len(ssq),
               reading' = (IF queued_read = None THEN reading ELSE queued_read),
               queued_read' = None,
               sending' = sending \o [k \in 1 .. n |-> slots[ssq[k]]],
               ssq' = SubSeq(ssq, n + 1, Len(ssq))
        PROVE  SendInv'
    <2> DEFINE new == [k \in 1 .. n |-> slots[ssq[k]]]
    <2>1. /\ ssq \in Seq(0 .. QUEUE_DEPTH - 1) /\ sending \in Seq(Int) /\ n \in Nat /\ n <= Len(ssq)
          /\ slots \in [0 .. QUEUE_DEPTH - 1 -> Int] /\ DOMAIN ssq = 1 .. Len(ssq)
          /\ Len(ssq) \in Nat /\ Len(sending) \in Nat
      BY <1>1, <1>3 DEF SendTypeOK
    <2>2. \A k \in 1 .. n : slots[ssq[k]] \in Int /\ OfChunk(slots[ssq[k]])
      <3>1. \A k \in DOMAIN ssq : ssq[k] \in 0 .. QUEUE_DEPTH - 1 /\ OfChunk(slots[ssq[k]])
        <4>1. ssq \in Seq(0 .. QUEUE_DEPTH - 1)
          BY <2>1
        <4>2. \A k \in DOMAIN ssq : ssq[k] \in 0 .. QUEUE_DEPTH - 1
          BY <4>1, ElementIs
        <4> QED BY <1>1, <4>2 DEF SendsOK, Sending
      <3>2. \A k \in 1 .. n : k \in DOMAIN ssq
        BY <2>1
      <3> QED BY <2>1, <3>1, <3>2
    <2>3. new \in Seq(Int) /\ Len(new) = n
      BY <2>1, <2>2
    <2>4. /\ ssq' \in Seq(0 .. QUEUE_DEPTH - 1) /\ Len(ssq') = Len(ssq) - n
          /\ \A k \in DOMAIN ssq' : \E j \in DOMAIN ssq : ssq'[k] = ssq[j]
      <3>1. ssq \in Seq(0 .. QUEUE_DEPTH - 1)
        BY <2>1
      <3> QED BY <1>3, <3>1, BackIs
    <2> HIDE DEF new
    <2>5. /\ sending' \in Seq(Int) /\ Len(sending') = Len(sending) + n
          /\ \A k \in DOMAIN sending' : \/ k \in DOMAIN sending /\ sending'[k] = sending[k]
                                        \/ k - Len(sending) \in 1 .. n /\ sending'[k] = new[k - Len(sending)]
      <3>1. sending' = sending \o new
        BY <1>3 DEF new
      <3>2. DOMAIN new = 1 .. n
        BY DEF new
      <3>3. /\ sending \o new \in Seq(Int) /\ Len(sending \o new) = Len(sending) + Len(new)
            /\ \A k \in DOMAIN (sending \o new) :
                 \/ k \in DOMAIN sending /\ (sending \o new)[k] = sending[k]
                 \/ k - Len(sending) \in DOMAIN new /\ (sending \o new)[k] = new[k - Len(sending)]
        BY <2>1, <2>3, JoinIs
      <3> QED BY <2>3, <3>1, <3>2, <3>3
    <2>6. SendTypeOK'
      BY <1>1, <1>3, <2>4, <2>5 DEF SendTypeOK, SendPlaces
    <2>7. SendsOK'
      <3>1. Count(scq, "send") \in Nat
        BY <1>1, TagsFinite DEF SendTypeOK
      <3>2. pending_frags = Len(ssq) + Len(sending) + Count(scq, "send")
        BY <1>1 DEF SendsOK, Sending
      <3>3. pending_frags = Len(ssq') + Len(sending') + Count(scq, "send")
        BY <2>1, <2>4, <2>5, <3>1, <3>2
      <3>4. \A k \in DOMAIN ssq' : OfChunk(slots[ssq'[k]])
        BY <1>1, <2>4 DEF SendsOK, Sending
      <3>5. \A k \in DOMAIN sending' : OfChunk(sending'[k])
        <4>1. \A k \in 1 .. n : new[k] = slots[ssq[k]]
          BY DEF new
        <4>2. \A k \in DOMAIN sending : OfChunk(sending[k])
          BY <1>1 DEF SendsOK
        <4>3. \A k \in 1 .. n : OfChunk(new[k])
          BY <2>2, <4>1
        <4> QED BY <2>5, <4>2, <4>3
      <3> QED BY <1>1, <3>3, <3>4, <3>5 DEF SendsOK, OfChunk, Sending
    <2>8. ReadsOK'
      <3>1. ReadIs(chunk_idx + 1) /\ (queued_read # None => stash = "none" /\ Count(scq, "read") = 0)
        BY <1>1 DEF ReadsOK, Sending
      <3> QED BY <1>1, <1>3, <3>1 DEF ReadsOK, ReadIs, Sending, Holds, HasRead
    <2> QED BY <2>6, <2>7, <2>8 DEF SendInv
  <1> QED BY <1>1, <1>2, <1>3 DEF TakeFrags, readVars

LEMMA ReapSendStep == ASSUME SendInv, len' = len, ReapSend PROVE SendInv'
  <1>1. /\ SendTypeOK /\ SendsOK /\ ReadsOK /\ spc \in {"full", "drain"} /\ scq # << >> /\ scq' = Tail(scq)
        /\ UNCHANGED <<len, chunk_idx, frag_idx, slots, ssq, chunk_buf, queued_read, reading, sending>>
    BY DEF ReapSend, SendInv, readVars
  <1>2. /\ scq \in Seq({"read", "send"} \X {"ok", "err"})
        /\ scq' \in Seq({"read", "send"} \X {"ok", "err"})
        /\ Head(scq) = scq[1] /\ 1 \in DOMAIN scq /\ scq[1] \in {"read", "send"} \X {"ok", "err"}
        /\ \A k \in DOMAIN scq' : scq'[k] \in {scq[j] : j \in DOMAIN scq}
    BY <1>1, TailIs DEF SendTypeOK
  <1>3. \A v : /\ Count(scq, v) = Count(scq', v) + (IF scq[1][1] = v THEN 1 ELSE 0)
               /\ Count(scq', v) \in Nat
    BY <1>1, <1>2, CountTail, TagsFinite
  <1>4. /\ Len(ssq) \in Nat /\ Len(sending) \in Nat /\ pending_frags \in 0 .. QUEUE_DEPTH
        /\ pending_frags = Len(ssq) + Len(sending) + Count(scq, "send")
    BY <1>1 DEF SendsOK, SendTypeOK, Sending
  <1>5. (Len(ssq) = 0 => ssq = << >>) /\ (Len(sending) = 0 => sending = << >>)
    BY <1>1, EmptySeq DEF SendTypeOK
  <1>6. CASE scq[1][1] = "read" /\ stash' = scq[1][2] /\ UNCHANGED <<pending_frags, spc>>
    <2>1. Count(scq', "send") = Count(scq, "send") /\ Count(scq, "read") = 1 /\ Count(scq', "read") = 0
      BY <1>1, <1>3, <1>6 DEF ReadsOK
    <2>2. SendTypeOK'
      BY <1>1, <1>2, <1>6 DEF SendTypeOK
    <2>3. SendsOK'
      BY <1>1, <1>6, <2>1 DEF SendsOK, OfChunk, Sending
    <2>4. reading = None /\ queued_read = None
      BY <1>1, <2>1 DEF ReadsOK
    <2>5. HasRead' => HasRead
      <3>1. scq[1] = <<"read", stash'>>
        BY <1>2, <1>6
      <3> QED BY <1>2, <3>1 DEF HasRead
    <2>6. ReadsOK'
      BY <1>1, <1>6, <2>1, <2>4, <2>5 DEF ReadsOK, ReadIs, Sending, Holds
    <2> QED BY <2>2, <2>3, <2>6 DEF SendInv
  <1>7. CASE scq[1][1] # "read" /\ stash' = stash
    <2>1. /\ scq[1][1] = "send"
          /\ Count(scq', "read") = Count(scq, "read") /\ Count(scq, "send") = Count(scq', "send") + 1
      BY <1>2, <1>3, <1>7
    <2>2. HasRead' => HasRead
      BY <1>2, <1>7 DEF HasRead
    <2>3. CASE scq[1][2] = "err" /\ spc' = "failed" /\ UNCHANGED pending_frags
      <3>1. SendTypeOK'
        BY <1>1, <1>2, <1>7, <2>3 DEF SendTypeOK, SendPlaces, Ended
      <3>2. SendsOK'
        BY <1>1, <2>3 DEF SendsOK, OfChunk, Sending
      <3>3. ReadsOK'
        BY <1>1, <1>7, <2>1, <2>3 DEF ReadsOK, ReadIs, Sending, Holds
      <3> QED BY <3>1, <3>2, <3>3 DEF SendInv
    <2>4. CASE /\ pending_frags' = pending_frags - 1
               /\ spc' = CASE spc = "full" -> "frag"
                           [] spc = "drain" /\ pending_frags > 1 -> "drain"
                           [] OTHER -> "ack"
      <3>1. /\ pending_frags' \in 0 .. QUEUE_DEPTH
            /\ pending_frags' = Len(ssq) + Len(sending) + Count(scq', "send")
        <4>1. QUEUE_DEPTH \in Nat /\ Count(scq', "send") \in Nat /\ Count(scq, "send") \in Nat
          BY <1>3, UdpAssumption, <2>1
        <4>2. \A a, b, c, d, q, m \in Nat :
                 q <= m /\ q = a + b + c /\ c = d + 1 => q - 1 \in 0 .. m /\ q - 1 = a + b + d
          OBVIOUS
        <4>3. pending_frags \in Nat /\ pending_frags <= QUEUE_DEPTH
          BY <1>4
        <4> QED BY <1>4, <2>1, <2>4, <4>1, <4>2, <4>3
      <3>2. spc' \in {"frag", "drain", "ack"} /\ (spc' = "ack" => pending_frags <= 1)
        BY <1>1, <1>4, <2>4
      <3>3. SendTypeOK'
        BY <1>1, <1>2, <1>7, <3>1, <3>2 DEF SendTypeOK, SendPlaces
      <3>4. spc' = "ack" => ssq = << >> /\ sending = << >> /\ Count(scq', "send") = 0
        <4>1. spc' = "ack" => pending_frags' = 0
          BY <1>4, <2>4, <3>1, <3>2
        <4>2. Count(scq', "send") \in Nat
          BY <1>3
        <4>3. \A a, c, d \in Nat : a + c + d = 0 => a = 0 /\ c = 0 /\ d = 0
          OBVIOUS
        <4>4. spc' = "ack" => Len(ssq) = 0 /\ Len(sending) = 0 /\ Count(scq', "send") = 0
          BY <1>4, <3>1, <4>1, <4>2, <4>3
        <4> QED BY <1>5, <4>4
      <3>5. SendsOK'
        BY <1>1, <3>1, <3>2, <3>4 DEF SendsOK, OfChunk, Sending
      <3>6. ReadsOK'
        BY <1>1, <1>7, <2>1, <2>2, <3>2 DEF ReadsOK, ReadIs, Sending, Holds
      <3> QED BY <3>3, <3>5, <3>6 DEF SendInv
    <2> QED BY <1>1, <1>2, <1>7, <2>3, <2>4 DEF ReapSend
  <1> QED BY <1>1, <1>2, <1>6, <1>7 DEF ReapSend

LEMMA RecvAckStep == ASSUME SendInv, len' = len, RecvAck PROVE SendInv'
  <1>1. /\ SendTypeOK /\ SendsOK /\ ReadsOK /\ spc = "ack"
        /\ UNCHANGED <<len, frag_idx, pending_frags, slots, ssq, chunk_buf,
                       queued_read, reading, sending, scq, stash>>
        /\ \/ chunk_idx' = chunk_idx + 1 /\ spc' \in {"wait_read", "done"}
           \/ chunk_idx' = chunk_idx /\ spc' = "failed"
    BY DEF RecvAck, SendInv, sqVars, readVars
  <1>2. sending = << >> /\ ssq = << >> /\ Count(scq, "send") = 0
    BY <1>1 DEF SendsOK, Sending
  <1>3. SendTypeOK'
    BY <1>1 DEF SendTypeOK, SendPlaces, Ended
  <1>4. SendsOK'
    BY <1>1, <1>2 DEF SendsOK, Sending
  <1>5. ReadsOK'
    BY <1>1, <1>2 DEF ReadsOK, ReadIs, Sending, Holds, HasRead
  <1> QED BY <1>3, <1>4, <1>5 DEF SendInv

LEMMA KernelReadStep == ASSUME SendInv, KernelRead PROVE SendInv'
  <1>1. PICK result \in {"ok", "err"} :
          /\ scq' = Append(scq, <<"read", result>>)
          /\ chunk_buf' = IF result = "ok"
                          THEN [chunk_buf EXCEPT ![BufferOf(reading)] = ChunkBytes(reading)]
                          ELSE chunk_buf
    BY DEF KernelRead
  <1>2. /\ SendTypeOK /\ SendsOK /\ ReadsOK /\ reading # None /\ reading' = None
        /\ queued_read = None /\ queued_read' = None
        /\ UNCHANGED <<len, spc, chunk_idx, frag_idx, pending_frags, slots, ssq, sending, stash>>
    BY DEF KernelRead, SendInv, sqVars, ReadsOK
  <1>3. /\ reading \in Nat /\ chunk_idx \in Nat /\ len \in Nat
        /\ scq \in Seq({"read", "send"} \X {"ok", "err"})
        /\ <<"read", result>> \in {"read", "send"} \X {"ok", "err"}
        /\ chunk_buf \in [{0, 1} -> [0 .. CHUNK_SIZE - 1 -> Int]]
    BY <1>2 DEF SendTypeOK
  <1>4. \A v : /\ Count(scq', v) = Count(scq, v) + (IF "read" = v THEN 1 ELSE 0)
               /\ Count(scq, v) \in Nat
    <2>1. <<"read", result>>[1] = "read"
      OBVIOUS
    <2> QED BY <1>1, <1>3, <2>1, CountAppend, TagsFinite
  <1>5. Count(scq', "send") = Count(scq, "send") /\ Count(scq', "read") = 1 /\ stash = "none"
    BY <1>2, <1>4 DEF ReadsOK, SendTypeOK
  <1>6. /\ scq' \in Seq({"read", "send"} \X {"ok", "err"})
        /\ BufferOf(reading) \in {0, 1} /\ BytesOf(len, reading) \in [0 .. CHUNK_SIZE - 1 -> Int]
    BY <1>1, <1>3, AppendIs, BuffersAlternate, BytesType
  <1>7. chunk_buf' \in [{0, 1} -> [0 .. CHUNK_SIZE - 1 -> Int]]
    BY <1>1, <1>3, <1>6, Named
  <1>8. SendTypeOK'
    BY <1>2, <1>6, <1>7 DEF SendTypeOK
  <1>9. SendsOK'
    BY <1>2, <1>5 DEF SendsOK, OfChunk, Sending
  <1>10. result = "ok" => chunk_buf'[BufferOf(reading)] = BytesOf(len, reading)
    BY <1>1, <1>3, <1>6, Named
  <1>11. HasRead' => result = "ok"
    <2>1. Count(scq, "read") = 0
      BY <1>2 DEF ReadsOK
    <2>2. ~ HasRead
      BY <1>2, <1>5, <2>1, NothingRead
    <2> QED BY <1>1, <1>2, <1>3, <1>5, <2>2, AppendIs DEF HasRead
  <1>12. ASSUME reading # chunk_idx, Holds(chunk_idx), reading = chunk_idx + 1 PROVE Holds(chunk_idx)'
    BY <1>1, <1>2, <1>3, <1>12, BuffersAlternate DEF Holds
  <1>13. ReadsOK'
    <2>1. spc \notin {"ready", "chunk"} /\ (spc = "wait_read" => reading = chunk_idx)
          /\ (spc \in Sending \union {"ack"} => reading = chunk_idx + 1)
          /\ (sending # << >> \/ ssq # << >> => reading = chunk_idx + 1)
      BY <1>2 DEF ReadsOK, ReadIs
    <2>2. spc = "wait_read" => (HasRead' => Holds(chunk_idx)')
      BY <1>2, <1>10, <1>11, <2>1 DEF Holds
    <2>3. spc \in Sending \union {"ack"} => (HasRead' => Holds(chunk_idx + 1)')
      BY <1>2, <1>10, <1>11, <2>1 DEF Holds
    <2>4. spc \in Sending \union {"chunk"} \/ sending # << >> => Holds(chunk_idx)'
      <3>1. spc \in Sending \union {"chunk"} \/ sending # << >> => Holds(chunk_idx) /\ reading = chunk_idx + 1
        BY <1>2, <2>1 DEF ReadsOK
      <3>2. chunk_idx + 1 # chunk_idx
        BY <1>3
      <3> QED BY <1>12, <3>1, <3>2
    <2> QED BY <1>2, <1>5, <2>1, <2>2, <2>3, <2>4 DEF ReadsOK, ReadIs
  <1> QED BY <1>8, <1>9, <1>13 DEF SendInv

(* What is sent are the bytes of the file, each fragment its own. *)
LEMMA SentIsGenuine ==
    ASSUME len \in Nat, chunk_idx \in Nat, Holds(chunk_idx),
           NEW i \in Nat, i < FragCount(len, chunk_idx)
    PROVE  Genuine(len, Datagram(chunk_idx, i))
  <1> DEFINE c == chunk_idx
             L == ChunkLen(len, c)
             n == FragLen(len, c, i)
             a == i * UDP_PAYLOAD_SIZE
  <1>1. /\ UDP_PAYLOAD_SIZE \in Nat \ {0} /\ CHUNK_SIZE \in Nat \ {0} /\ L \in Int /\ L <= CHUNK_SIZE
        /\ a \in Nat /\ c * CHUNK_SIZE \in Nat
    BY UdpAssumption, LengthsAreInts
  <1>2. n \in Int /\ a + n <= L
    <2>1. CASE i + 1 < FragCount(len, c)
      <3>1. a + UDP_PAYLOAD_SIZE <= L
        BY <1>1, <2>1, FragmentFits DEF FragCount
      <3> QED BY <1>1, <2>1, <3>1 DEF FragLen
    <2>2. CASE ~ (i + 1 < FragCount(len, c))
      <3>1. n = L - a
        BY <2>2 DEF FragLen
      <3> QED BY <1>1, <3>1
    <2> QED BY <2>1, <2>2
  <1>3. ASSUME NEW k \in 1 .. n
        PROVE  chunk_buf[BufferOf(c)][a + k - 1] = PlaceOf(c, i) + k - 1
    <2> HIDE DEF a, L, n
    <2>1. a + k - 1 \in 0 .. CHUNK_SIZE - 1 /\ a + k - 1 < L
      BY <1>1, <1>2
    <2>2. BytesOf(len, c)[a + k - 1] = c * CHUNK_SIZE + (a + k - 1)
      BY <2>1 DEF BytesOf, L
    <2>3. c * CHUNK_SIZE + (a + k - 1) = c * CHUNK_SIZE + a + k - 1
      BY <1>1
    <2> QED BY <2>2, <2>3 DEF Holds, PlaceOf, a
  <1>4. Datagram(c, i) = [chunk |-> c, frag |-> i, data |-> FragBytes(len, c, i)]
    BY <1>3, Named DEF Datagram, FragBytes
  <1> QED BY <1>4 DEF Genuine

(* What is left of a sequence is of the sequence. *)
LEMMA RemovedAt ==
    ASSUME NEW s \in Seq(Int), NEW k \in DOMAIN s
    PROVE  /\ RemoveAt(s, k) \in Seq(Int) /\ Len(RemoveAt(s, k)) = Len(s) - 1 /\ Len(s) \in Nat
           /\ \A j \in DOMAIN RemoveAt(s, k) : \E m \in DOMAIN s : RemoveAt(s, k)[j] = s[m]
  <1> DEFINE b == k - 1
             left == SubSeq(s, 1, b)
             right == SubSeq(s, k + 1, Len(s))
  <1>1. RemoveAt(s, k) = left \o right
    BY DEF RemoveAt
  <1>2. k \in Nat /\ Len(s) \in Nat /\ 1 <= k /\ k <= Len(s)
    BY ElementIs
  <1>3. b \in 0 .. Len(s) /\ k \in 0 .. Len(s) /\ b + (Len(s) - k) = Len(s) - 1
    BY <1>2
  <1> HIDE DEF b
  <1>4. /\ left \in Seq(Int) /\ Len(left) = b
        /\ \A j \in DOMAIN left : \E m \in DOMAIN s : left[j] = s[m]
    BY <1>3, FrontIs
  <1>5. /\ right \in Seq(Int) /\ Len(right) = Len(s) - k
        /\ \A j \in DOMAIN right : \E m \in DOMAIN s : right[j] = s[m]
    BY <1>3, BackIs
  <1> HIDE DEF left, right
  <1>6. /\ left \o right \in Seq(Int) /\ Len(left \o right) = Len(left) + Len(right)
        /\ \A j \in DOMAIN (left \o right) :
             \/ j \in DOMAIN left /\ (left \o right)[j] = left[j]
             \/ j - Len(left) \in DOMAIN right /\ (left \o right)[j] = right[j - Len(left)]
    BY <1>4, <1>5, JoinIs
  <1>7. ASSUME NEW j \in DOMAIN (left \o right) PROVE \E m \in DOMAIN s : (left \o right)[j] = s[m]
    <2>1. CASE j \in DOMAIN left /\ (left \o right)[j] = left[j]
      BY <1>4, <2>1
    <2>2. CASE j - Len(left) \in DOMAIN right /\ (left \o right)[j] = right[j - Len(left)]
      <3> DEFINE i == j - Len(left)
      <3>1. i \in DOMAIN right /\ (left \o right)[j] = right[i]
        BY <2>2
      <3> HIDE DEF i
      <3> QED BY <1>5, <3>1
    <2> QED BY <1>6, <2>1, <2>2
  <1> QED BY <1>1, <1>2, <1>3, <1>4, <1>5, <1>6, <1>7

LEMMA KernelSendStep == ASSUME SendInv, NetInv, KernelSend PROVE SendInv' /\ NetInv'
  <1>1. PICK k \in DOMAIN sending, result \in {"ok", "err"} :
          /\ sending' = RemoveAt(sending, k)
          /\ scq' = Append(scq, <<"send", result>>)
          /\ net' = IF result = "ok"
                    THEN net \union {[of |-> Datagram(chunk_idx, sending[k]), copy |-> 0]}
                    ELSE net
          /\ UNCHANGED <<len, spc, chunk_idx, sqVars, chunk_buf, readVars, stash>>
    BY DEF KernelSend
  <1>2. /\ SendTypeOK /\ SendsOK /\ ReadsOK
        /\ UNCHANGED <<len, spc, chunk_idx, frag_idx, pending_frags, slots, ssq, chunk_buf,
                       queued_read, reading, stash>>
    BY <1>1 DEF SendInv, sqVars, readVars
  <1>3. /\ chunk_idx \in Nat /\ len \in Nat /\ sending \in Seq(Int) /\ sending # << >>
        /\ scq \in Seq({"read", "send"} \X {"ok", "err"})
        /\ <<"send", result>> \in {"read", "send"} \X {"ok", "err"}
    <2>1. sending = << >> => DOMAIN sending = {}
      OBVIOUS
    <2> QED BY <1>1, <1>2, <2>1 DEF SendTypeOK
  <1>4. \A v : /\ Count(scq', v) = Count(scq, v) + (IF "send" = v THEN 1 ELSE 0)
               /\ Count(scq, v) \in Nat
    <2>1. <<"send", result>>[1] = "send"
      OBVIOUS
    <2> QED BY <1>1, <1>3, <2>1, CountAppend, TagsFinite
  <1>5. /\ Count(scq', "send") = Count(scq, "send") + 1 /\ Count(scq', "read") = Count(scq, "read")
        /\ Count(scq, "send") \in Nat
    BY <1>4
  <1>6. /\ sending' \in Seq(Int) /\ Len(sending') = Len(sending) - 1 /\ Len(sending) \in Nat
        /\ \A j \in DOMAIN sending' : \E m \in DOMAIN sending : sending'[j] = sending[m]
    BY <1>1, <1>3, RemovedAt
  <1>7. scq' \in Seq({"read", "send"} \X {"ok", "err"})
    BY <1>1, <1>3, AppendIs
  <1>8. SendTypeOK'
    BY <1>1, <1>2, <1>3, <1>6, <1>7 DEF SendTypeOK
  <1>9. spc \in Sending \union {"failed"}
    BY <1>2, <1>3 DEF SendsOK
  <1>10. SendsOK'
    <2>1. spc \in Sending => pending_frags = Len(ssq) + Len(sending') + Count(scq', "send")
      <3>1. spc \in Sending => pending_frags = Len(ssq) + Len(sending) + Count(scq, "send")
        BY <1>2 DEF SendsOK
      <3>2. Len(ssq) \in Nat
        BY <1>2 DEF SendTypeOK
      <3>3. \A a, b, d \in Nat : a + b + d = a + (b - 1) + (d + 1)
        OBVIOUS
      <3> QED BY <1>5, <1>6, <3>1, <3>2, <3>3
    <2>2. \A j \in DOMAIN sending' : OfChunk(sending'[j])
      BY <1>2, <1>6 DEF SendsOK
    <2> QED BY <1>2, <1>9, <2>1, <2>2 DEF SendsOK, OfChunk
  <1>11. HasRead' => HasRead
    <2>1. <<"send", result>> # <<"read", "ok">>
      OBVIOUS
    <2> QED BY <1>1, <1>2, <1>3, <2>1, AppendIs DEF HasRead
  <1>12. ReadsOK'
    BY <1>2, <1>3, <1>5, <1>9, <1>11 DEF ReadsOK, ReadIs, Holds
  <1>13. NetInv'
    <2> DEFINE i == sending[k]
    <2>1. i \in Nat /\ i < FragCount(len, chunk_idx) /\ Holds(chunk_idx)
      BY <1>2, <1>3 DEF SendsOK, OfChunk, ReadsOK
    <2>2. Genuine(len, Datagram(chunk_idx, i))
      BY <1>3, <2>1, SentIsGenuine
    <2> DEFINE x == [of |-> Datagram(chunk_idx, i), copy |-> 0]
    <2>3. x = [of |-> x.of, copy |-> x.copy] /\ Genuine(len, x.of)
      BY <2>2
    <2>4. net' \subseteq net \union {x}
      BY <1>1
    <2> HIDE DEF x
    <2> QED BY <1>2, <2>3, <2>4 DEF NetInv
  <1> QED BY <1>8, <1>10, <1>12, <1>13 DEF SendInv

LEMMA NetFrame == ASSUME NetInv, len' = len, net' \subseteq net PROVE NetInv'
  BY DEF NetInv

LEMMA DuplicateStep == ASSUME NetInv, Duplicate PROVE NetInv'
  <1>1. PICK d \in net : net' = net \union {[d EXCEPT !.copy = 1]} /\ len' = len
    BY DEF Duplicate
  <1> DEFINE x == [of |-> d.of, copy |-> 1]
  <1>2. d = [of |-> d.of, copy |-> d.copy] /\ Genuine(len, d.of)
    BY DEF NetInv
  <1>3. [d EXCEPT !.copy = 1] = x
    BY <1>2
  <1>4. x = [of |-> x.of, copy |-> x.copy] /\ Genuine(len, x.of)
    BY <1>2
  <1>5. net' \subseteq net \union {x} /\ len' = len
    BY <1>1, <1>3
  <1> HIDE DEF x
  <1> QED BY <1>4, <1>5 DEF NetInv

----------------------------------------------------------------------------
(* The receiver                                                             *)

LEMMA BufsFinite == IsFiniteSet(Bufs) /\ Cardinality(Bufs) = UDP_FRAG_BUFS /\ flush_threshold \in Nat
                    /\ 2 * flush_threshold <= UDP_FRAG_BUFS
  <1>1. UDP_FRAG_BUFS \in Nat \ {0}
    BY UdpAssumption
  <1>2. IsFiniteSet(Bufs) /\ Cardinality(Bufs) = UDP_FRAG_BUFS
    BY <1>1, FS_Interval DEF Bufs
  <1> QED BY <1>1, <1>2 DEF flush_threshold

LEMMA UsesFinite ==
    ASSUME NEW q, NEW o, NEW c, NEW op
    PROVE  /\ IsFiniteSet(Uses(q, o, c, op)) /\ Cardinality(Uses(q, o, c, op)) \in Nat
           /\ IsFiniteSet(Queued(q, op)) /\ Cardinality(Queued(q, op)) \in Nat
           /\ Cardinality(Queued(q, op)) <= Cardinality(Uses(q, o, c, op))
  <1>1. Uses(q, o, c, op) \in SUBSET Bufs /\ Queued(q, op) \in SUBSET Uses(q, o, c, op)
    BY DEF Uses, Queued
  <1>2. IsFiniteSet(Uses(q, o, c, op))
    BY <1>1, BufsFinite, FS_Subset
  <1> QED BY <1>1, <1>2, FS_Subset, FS_CardinalityType

(* The head of the completion queue says what its buffer was used for. *)
LEMMA HeadUses ==
    ASSUME NEW q, NEW o, NEW c \in Seq(Cqes), c # << >>, Unique(q, o, c), NEW op
    PROVE  c[1][2] \in Bufs /\ (c[1][2] \in Uses(q, o, c, op) <=> c[1][1] = op)
  <1>1. 1 \in DOMAIN c /\ c[1] \in Cqes
    BY TailIs
  <1>2. c[1][2] \in Bufs
    BY <1>1 DEF Cqes
  <1> QED BY <1>1, <1>2 DEF Uses, Unique

(* A reaped completion's buffer goes into the queue with its next operation,   *)
(* and the queue may be submitted, all of it or a part.                        *)
Requeue(q, o, c, s, q2, o2) ==
    /\ c \in Seq(Cqes) /\ c # << >> /\ Unique(q, o, c) /\ s.buf = c[1][2]
    /\ q2 \subseteq q \union {s} /\ o2 = o \union ((q \union {s}) \ q2)

Moved(q, o, c, s, q2, o2, c2) ==
    /\ Unique(q2, o2, c2)
    /\ Uses(q2, o2, c2, s.op) = Uses(q, o, c, s.op) \union {s.buf}
    /\ Cardinality(Uses(q2, o2, c2, s.op))
         = Cardinality(Uses(q, o, c, s.op)) + (IF c[1][1] = s.op THEN 0 ELSE 1)
    /\ \A op : op # s.op =>
         /\ Uses(q2, o2, c2, op) = Uses(q, o, c, op) \ {s.buf}
         /\ Cardinality(Uses(q2, o2, c2, op))
              = Cardinality(Uses(q, o, c, op)) - (IF c[1][1] = op THEN 1 ELSE 0)

LEMMA Reused ==
    ASSUME NEW q, NEW o, NEW c, NEW s, NEW q2, NEW o2, Requeue(q, o, c, s, q2, o2)
    PROVE  Moved(q, o, c, s, q2, o2, Tail(c))
  <1> USE DEF Requeue
  <1>10. s.buf \in Bufs
    BY HeadUses
  <1>11. \A op : s.buf \in Uses(q, o, c, op) <=> c[1][1] = op
    BY HeadUses
  <1> DEFINE d == Tail(c)
  <1>1. q2 \union o2 = q \union o \union {s} /\ q2 \intersect o2 \subseteq (q \union {s}) \intersect o
    BY DEF Unique
  <1>2. \A t \in q \union o : t.buf # s.buf
    BY TailIs DEF Unique
  <1>3. s \notin q \union o
    BY <1>2
  <1>4. /\ 1 \in DOMAIN c
        /\ \A k \in DOMAIN d : k + 1 \in DOMAIN c /\ k + 1 # 1 /\ d[k] = c[k + 1]
        /\ \A k \in DOMAIN c : k # 1 => k - 1 \in DOMAIN d /\ d[k - 1] = c[k]
        /\ \A j, k \in DOMAIN d : j + 1 = k + 1 => j = k
    BY TailIs
  <1> HIDE DEF d
  <1>5. \A k \in DOMAIN d : d[k][2] # s.buf
    BY <1>4 DEF Unique
  <1>6. Unique(q2, o2, d)
    <2>1. \A t, u \in q2 \union o2 : t.buf = u.buf => t = u
      BY <1>1, <1>2 DEF Unique
    <2>2. q2 \intersect o2 = {}
      BY <1>1, <1>3 DEF Unique
    <2>3. \A t \in q2 \union o2, k \in DOMAIN d : d[k][2] # t.buf
      BY <1>1, <1>4, <1>5 DEF Unique
    <2>4. \A j, k \in DOMAIN d : d[j][2] = d[k][2] => j = k
      BY <1>4 DEF Unique
    <2> QED BY <2>1, <2>2, <2>3, <2>4 DEF Unique
  <1>7. ASSUME NEW op
        PROVE  Uses(q2, o2, d, op)
                 = (Uses(q, o, c, op) \ {s.buf}) \union (IF s.op = op THEN {s.buf} ELSE {})
    <2> DEFINE old == Uses(q, o, c, op)
               new == Uses(q2, o2, d, op)
    <2>1. ASSUME NEW b \in new PROVE b \in old \ {s.buf} \/ (s.op = op /\ b = s.buf)
      <3>1. CASE \E t \in q2 \union o2 : t.op = op /\ t.buf = b
        BY <1>1, <1>2, <2>1, <3>1 DEF Uses
      <3>2. CASE \E k \in DOMAIN d : d[k][1] = op /\ d[k][2] = b
        BY <1>4, <1>5, <2>1, <3>2 DEF Uses
      <3> QED BY <2>1, <3>1, <3>2 DEF Uses
    <2>2. ASSUME NEW b \in old, b # s.buf PROVE b \in new
      <3>1. CASE \E t \in q \union o : t.op = op /\ t.buf = b
        BY <1>1, <2>2, <3>1 DEF Uses
      <3>2. CASE \E k \in DOMAIN c : c[k][1] = op /\ c[k][2] = b
        <4>1. PICK k \in DOMAIN c : c[k][1] = op /\ c[k][2] = b
          BY <3>2
        <4>2. k # 1
          BY <2>2, <4>1
        <4> QED BY <1>4, <2>2, <4>1, <4>2 DEF Uses
      <3> QED BY <2>2, <3>1, <3>2 DEF Uses
    <2>3. s.op = op => s.buf \in new
      BY <1>1, <1>10 DEF Uses
    <2> QED BY <2>1, <2>2, <2>3
  <1>8. Uses(q2, o2, d, s.op) = Uses(q, o, c, s.op) \union {s.buf}
    BY <1>7
  <1>9. ASSUME NEW op, op # s.op PROVE Uses(q2, o2, d, op) = Uses(q, o, c, op) \ {s.buf}
    BY <1>7, <1>9
  <1>12. \A op : IsFiniteSet(Uses(q, o, c, op)) /\ Cardinality(Uses(q, o, c, op)) \in Nat
    BY UsesFinite
  <1>13. Cardinality(Uses(q2, o2, Tail(c), s.op))
          = Cardinality(Uses(q, o, c, s.op)) + (IF c[1][1] = s.op THEN 0 ELSE 1)
    <2> DEFINE U == Uses(q, o, c, s.op)
    <2>1. Cardinality(U) \in Nat /\ IsFiniteSet(U) /\ (s.buf \in U <=> c[1][1] = s.op)
      BY <1>11, <1>12
    <2> HIDE DEF U
    <2>2. Cardinality(U \union {s.buf}) = IF s.buf \in U THEN Cardinality(U) ELSE Cardinality(U) + 1
      BY <2>1, FS_AddElement
    <2>3. Cardinality(U \union {s.buf}) = Cardinality(U) + (IF c[1][1] = s.op THEN 0 ELSE 1)
      BY <2>1, <2>2
    <2> QED BY <1>8, <2>3 DEF U, d
  <1>14. ASSUME NEW op, op # s.op
        PROVE  Cardinality(Uses(q2, o2, Tail(c), op))
                 = Cardinality(Uses(q, o, c, op)) - (IF c[1][1] = op THEN 1 ELSE 0)
    <2> DEFINE U == Uses(q, o, c, op)
    <2>1. Cardinality(U) \in Nat /\ IsFiniteSet(U) /\ (s.buf \in U <=> c[1][1] = op)
      BY <1>11, <1>12
    <2>2. Uses(q2, o2, Tail(c), op) = U \ {s.buf}
      BY <1>9, <1>14 DEF d
    <2> HIDE DEF U
    <2>3. Cardinality(U \ {s.buf}) = IF s.buf \in U THEN Cardinality(U) - 1 ELSE Cardinality(U)
      BY <2>1, FS_RemoveElement
    <2>4. Cardinality(U \ {s.buf}) = Cardinality(U) - (IF c[1][1] = op THEN 1 ELSE 0)
      BY <2>1, <2>3
    <2> QED BY <2>2, <2>4 DEF U
  <1> QED BY <1>6, <1>8, <1>9, <1>13, <1>14 DEF d, Moved

(* An operation stays in the queue only below the threshold. *)
LEMMA StillFew ==
    ASSUME NEW q, NEW o2, NEW c2, FewQueued(q), NEW s, s.op \in Ops, NEW q2,
           q2 = q \union {s}, Cardinality(Uses(q2, o2, c2, s.op)) < flush_threshold
    PROVE  FewQueued(q2)
  <1> SUFFICES ASSUME q2 # {}, NEW op \in Ops PROVE Cardinality(Queued(q2, op)) < flush_threshold
    BY DEF FewQueued
  <1>1. /\ Cardinality(Uses(q2, o2, c2, s.op)) < flush_threshold
        /\ Cardinality(Uses(q2, o2, c2, s.op)) \in Nat /\ flush_threshold \in Nat
        /\ Cardinality(Queued(q2, s.op)) <= Cardinality(Uses(q2, o2, c2, s.op))
        /\ Cardinality(Queued(q2, s.op)) \in Nat
    BY UsesFinite, BufsFinite
  <1>2. CASE op = s.op
    BY <1>1, <1>2
  <1>3. CASE op # s.op
    <2>1. Queued(q2, op) = Queued(q, op)
      BY <1>3 DEF Queued
    <2>2. CASE q = {}
      <3>1. Queued(q, op) = {}
        BY <2>2 DEF Queued
      <3>2. Cardinality(Queued(q2, op)) = 0
        BY <2>1, <3>1, FS_EmptySet
      <3> QED BY <1>1, <3>2
    <2>3. CASE q # {}
      BY <2>1, <2>3 DEF FewQueued
    <2> QED BY <2>2, <2>3
  <1> QED BY <1>2, <1>3

LEMMA ReceiverInit == Init => RecvInv /\ NetInv
  <1> SUFFICES ASSUME Init PROVE RecvInv /\ NetInv
    OBVIOUS
  <1>1. NetInv
    BY DEF Init, NetInv
  <1>2. RecvTypeOK
    <2>1. /\ len \in Nat /\ rpc = "post" /\ rchunk = 0 /\ received = {} /\ pending_writes = 0
          /\ pending_recvs = 0 /\ rsq = {} /\ rops = {} /\ rcq = << >> /\ stale = FALSE /\ short = FALSE
      BY UdpAssumption DEF Init
    <2>2. frag_buf = [b \in Bufs |-> frag_buf[b]]
      BY DEF Init
    <2>3. disk = [i \in 0 .. len - 1 |-> disk[i]]
      BY DEF Init
    <2>4. rsq \subseteq Sqes /\ rops \subseteq Sqes /\ received \subseteq Nat
      BY <2>1
    <2>5. rcq \in Seq(Cqes)
      BY <2>1
    <2>6. rpc \in RecvPlaces /\ rchunk \in Nat /\ pending_writes \in Int /\ pending_recvs \in Int
      BY <2>1 DEF RecvPlaces
    <2>7. stale \in BOOLEAN /\ short \in BOOLEAN
      BY <2>1
    <2> QED BY <2>1, <2>2, <2>3, <2>4, <2>5, <2>6, <2>7 DEF RecvTypeOK
  <1>3. OwnOK
    BY DEF Init, OwnOK, Unique
  <1>4. DataOK
    BY DEF Init, DataOK
  <1> QED BY <1>1, <1>2, <1>3, <1>4 DEF RecvInv

LEMMA ReceiverFrame == ASSUME RecvInv, len' = len, UNCHANGED receiverVars PROVE RecvInv'
  BY DEF RecvInv, RecvTypeOK, OwnOK, DataOK, receiverVars, chunkVars, ringVars

(* The fragments a chunk still misses. *)
LEMMA FragmentsLeft ==
    ASSUME NEW n \in Nat, NEW c \in Nat, NEW r \in SUBSET Fragments(n, c)
    PROVE  /\ IsFiniteSet(r) /\ Missing(n, c, r) \in Int
           /\ Missing(n, c, r) <= 0 => r = Fragments(n, c)
           /\ \A d \in Fragments(n, c) :
                d \notin r => /\ Missing(n, c, r) > 0
                              /\ Missing(n, c, r \union {d}) = Missing(n, c, r) - 1
  <1> DEFINE N == FragCount(n, c)
  <1>1. N \in Int
    BY LengthsAreInts
  <1> HIDE DEF N
  <1>2. /\ IsFiniteSet(0 .. N - 1)
        /\ Cardinality(0 .. N - 1) = IF N >= 1 THEN N ELSE 0
    <2>1. IsFiniteSet(0 .. N - 1) /\ Cardinality(0 .. N - 1) = IF 0 > N - 1 THEN 0 ELSE (N - 1) - 0 + 1
      BY <1>1, FS_Interval
    <2> QED BY <1>1, <2>1
  <1>3. /\ IsFiniteSet(r) /\ Cardinality(r) \in Nat /\ Cardinality(r) <= Cardinality(0 .. N - 1)
        /\ Cardinality(r) = Cardinality(0 .. N - 1) => r = 0 .. N - 1
    BY <1>2, FS_Subset, FS_CardinalityType DEF N, Fragments
  <1>4. Missing(n, c, r) = N - Cardinality(r)
    BY DEF Missing, N
  <1>5. Missing(n, c, r) <= 0 => r = 0 .. N - 1
    BY <1>1, <1>2, <1>3, <1>4
  <1>6. ASSUME NEW d \in 0 .. N - 1, d \notin r
        PROVE  Missing(n, c, r) > 0 /\ Missing(n, c, r \union {d}) = Missing(n, c, r) - 1
    <2>1. Missing(n, c, r) > 0
      BY <1>1, <1>3, <1>4, <1>5, <1>6
    <2>2. Cardinality(r \union {d}) = Cardinality(r) + 1
      BY <1>3, <1>6, FS_AddElement
    <2> QED BY <1>1, <1>3, <1>4, <2>1, <2>2 DEF Missing, N
  <1> QED BY <1>1, <1>3, <1>4, <1>5, <1>6 DEF N, Fragments

(* The bytes of a datagram the sender made, at their place in the file. *)
LEMMA BytesInPlace ==
    ASSUME NEW n \in Nat, NEW d, Genuine(n, d), NEW j \in Int, PlaceOf(d.chunk, d.frag) <= j
    PROVE  /\ PlaceOf(d.chunk, d.frag) \in Int
           /\ Len(d.data) \in Nat
           /\ j < PlaceOf(d.chunk, d.frag) + Len(d.data)
                => d.data[j - PlaceOf(d.chunk, d.frag) + 1] = j
           /\ j < PlaceOf(d.chunk, d.frag) + FragLen(n, d.chunk, d.frag)
                => j < PlaceOf(d.chunk, d.frag) + Len(d.data)
  <1>1. /\ d.chunk \in Nat /\ d.frag \in Nat
        /\ d.data = FragBytes(n, d.chunk, d.frag)
    BY DEF Genuine
  <1> DEFINE off == PlaceOf(d.chunk, d.frag)
             m == FragLen(n, d.chunk, d.frag)
  <1>2. off \in Int
    <2>1. d.chunk * CHUNK_SIZE \in Int /\ d.frag * UDP_PAYLOAD_SIZE \in Int
      BY <1>1, UdpAssumption
    <2> QED BY <2>1 DEF PlaceOf
  <1>3. m \in Int
    <2>1. ChunkLen(n, d.chunk) \in Int /\ d.frag * UDP_PAYLOAD_SIZE \in Int /\ UDP_PAYLOAD_SIZE \in Int
      BY <1>1, UdpAssumption, LengthsAreInts
    <2> QED BY <2>1 DEF FragLen
  <1>4. d.data = [k \in 1 .. m |-> off + k - 1]
    BY <1>1 DEF FragBytes
  <1> HIDE DEF off, m
  <1>5. CASE m >= 0
    <2>1. Len(d.data) = m
      BY <1>3, <1>4, <1>5
    <2>2. ASSUME off <= j, j < off + m PROVE d.data[j - off + 1] = j
      <3>1. j - off + 1 \in 1 .. m
        BY <1>2, <1>3, <2>2
      <3>2. d.data[j - off + 1] = off + (j - off + 1) - 1
        BY <1>4, <3>1
      <3> QED BY <1>2, <3>2
    <2> QED BY <1>2, <1>3, <1>5, <2>1, <2>2 DEF off, m
  <1>6. CASE m < 0
    <2>1. d.data = << >>
      BY <1>3, <1>4, <1>6
    <2> QED BY <1>2, <1>3, <1>6, <2>1 DEF off, m
  <1> QED BY <1>3, <1>5, <1>6

(* The requeue of a reaped buffer keeps the counters and the queue in order.   *)
LEMMA Requeued ==
    ASSUME RecvTypeOK, OwnOK, rpc = "chunk", rcq # << >>, rcq' = Tail(rcq),
           NEW s \in Sqes, s.buf = rcq[1][2],
           \/ /\ rsq' \subseteq rsq \union {s} /\ rops' = rops \union ((rsq \union {s}) \ rsq')
              /\ short' = (rsq' # {})
           \/ /\ rsq' = rsq \union {s} /\ rops' = rops /\ short' = short
              /\ s.op = "recv" => pending_recvs' < flush_threshold
              /\ s.op = "write" => pending_writes' < flush_threshold,
           s.op = "recv" => /\ pending_recvs' = pending_recvs + (IF rcq[1][1] = "recv" THEN 0 ELSE 1)
                            /\ pending_writes' = pending_writes - (IF rcq[1][1] = "write" THEN 1 ELSE 0),
           s.op = "write" => /\ pending_recvs' = pending_recvs - (IF rcq[1][1] = "recv" THEN 1 ELSE 0)
                             /\ pending_writes' = pending_writes + (IF rcq[1][1] = "write" THEN 0 ELSE 1)
    PROVE  /\ Unique(rsq', rops', rcq')
           /\ Uses(rsq', rops', rcq', "recv") \union Uses(rsq', rops', rcq', "write") = Bufs
           /\ pending_recvs' = Cardinality(Uses(rsq', rops', rcq', "recv"))
           /\ pending_writes' = Cardinality(Uses(rsq', rops', rcq', "write"))
           /\ ~ short' => FewQueued(rsq')
           /\ rsq' \subseteq rsq \union {s} /\ rops' \subseteq rops \union rsq \union {s}
           /\ rsq' \union rops' = rsq \union rops \union {s}
           /\ rcq' \in Seq(Cqes) /\ rsq' \subseteq Sqes /\ rops' \subseteq Sqes
  <1>1. rcq \in Seq(Cqes) /\ rsq \subseteq Sqes /\ rops \subseteq Sqes /\ s.op \in Ops
    BY DEF RecvTypeOK, Sqes
  <1>2. Unique(rsq, rops, rcq)
    BY DEF OwnOK
  <1>3. rsq' \subseteq rsq \union {s} /\ rops' = rops \union ((rsq \union {s}) \ rsq')
    OBVIOUS
  <1>4. /\ Unique(rsq', rops', rcq')
        /\ Uses(rsq', rops', rcq', s.op) = Uses(rsq, rops, rcq, s.op) \union {s.buf}
        /\ Cardinality(Uses(rsq', rops', rcq', s.op))
             = Cardinality(Uses(rsq, rops, rcq, s.op)) + (IF rcq[1][1] = s.op THEN 0 ELSE 1)
        /\ \A op : op # s.op =>
             /\ Uses(rsq', rops', rcq', op) = Uses(rsq, rops, rcq, op) \ {s.buf}
             /\ Cardinality(Uses(rsq', rops', rcq', op))
                  = Cardinality(Uses(rsq, rops, rcq, op)) - (IF rcq[1][1] = op THEN 1 ELSE 0)
    <2>1. Requeue(rsq, rops, rcq, s, rsq', rops')
      BY <1>1, <1>2, <1>3 DEF Requeue
    <2>2. Moved(rsq, rops, rcq, s, rsq', rops', Tail(rcq))
      BY <2>1, Reused
    <2> QED BY <2>2 DEF Moved
  <1>5. /\ Uses(rsq, rops, rcq, "recv") \union Uses(rsq, rops, rcq, "write") = Bufs
        /\ pending_recvs = Cardinality(Uses(rsq, rops, rcq, "recv"))
        /\ pending_writes = Cardinality(Uses(rsq, rops, rcq, "write"))
        /\ ~ short => FewQueued(rsq)
    BY DEF OwnOK
  <1>6. s.buf \in Bufs
    BY DEF Sqes
  <1>7. s.op = "recv" \/ s.op = "write"
    BY <1>1 DEF Ops
  <1>8. Uses(rsq', rops', rcq', "recv") \union Uses(rsq', rops', rcq', "write") = Bufs
    BY <1>4, <1>5, <1>6, <1>7
  <1>9. /\ pending_recvs' = Cardinality(Uses(rsq', rops', rcq', "recv"))
        /\ pending_writes' = Cardinality(Uses(rsq', rops', rcq', "write"))
    BY <1>4, <1>5, <1>7
  <1>10. ASSUME ~ short' PROVE FewQueued(rsq')
    <2>1. CASE short' = (rsq' # {})
      BY <1>10, <2>1 DEF FewQueued
    <2>2. CASE short' # (rsq' # {})
      <3>1. rsq' = rsq \union {s} /\ ~ short /\ Cardinality(Uses(rsq', rops', rcq', s.op)) < flush_threshold
        BY <1>7, <1>9, <1>10, <2>2
      <3> QED BY <1>1, <1>5, <3>1, StillFew
    <2> QED BY <2>1, <2>2
  <1>11. rcq' \in Seq(Cqes)
    BY <1>1, TailIs
  <1> QED BY <1>1, <1>3, <1>4, <1>8, <1>9, <1>10, <1>11

(* What the requeue leaves of the data invariant: s's own fragment apart. *)
LEMMA RequeuedData ==
    ASSUME RecvTypeOK, DataOK, rcq # << >>, rcq' = Tail(rcq), ~ RecvFails(Head(rcq)),
           NEW s, rsq' \union rops' = rsq \union rops \union {s},
           ~ stale' => ~ stale /\ (s.op = "write" => Placed(len, frag_buf[s.buf], s.off)),
           \/ received' = received
           \/ \E i : received' = received \union {i} /\ (~ stale' => Underway(s, frag_buf, rchunk, i)),
           UNCHANGED <<len, rpc, rchunk, frag_buf, disk>>
    PROVE  DataOK'
  <1>1. /\ rcq \in Seq(Cqes) /\ 1 \in DOMAIN rcq /\ Head(rcq) = rcq[1]
        /\ \A k \in DOMAIN rcq' : k + 1 \in DOMAIN rcq /\ rcq'[k] = rcq[k + 1]
        /\ \A k \in DOMAIN rcq : k # 1 => k - 1 \in DOMAIN rcq' /\ rcq'[k - 1] = rcq[k]
    BY TailIs DEF RecvTypeOK
  <1>2. rcq[1][3] # "err"
    BY <1>1 DEF RecvFails
  <1>3. WriteFailed(rcq) => WriteFailed(rcq')
    <2> SUFFICES ASSUME NEW k \in DOMAIN rcq, rcq[k][1] = "write" /\ rcq[k][3] = "err" PROVE WriteFailed(rcq')
      BY DEF WriteFailed
    <2> DEFINE j == k - 1
    <2>1. k # 1
      BY <1>2
    <2>2. j \in DOMAIN rcq' /\ rcq'[j] = rcq[k]
      BY <1>1, <2>1
    <2> HIDE DEF j
    <2> QED BY <2>2 DEF WriteFailed
  <1>4. \A k \in DOMAIN rcq' : rcq'[k][1] = "recv" /\ rcq'[k][3] = "ok" => Genuine(len, frag_buf[rcq'[k][2]])
    BY <1>1 DEF DataOK
  <1>5. ASSUME ~ stale', NEW t \in rsq' \union rops', t.op = "write" PROVE Placed(len, frag_buf[t.buf], t.off)
    BY <1>5 DEF DataOK
  <1>6. ASSUME ~ stale', rpc = "chunk", NEW i \in received'
        PROVE  \/ OnDisk(len, disk, rchunk, i)
               \/ WriteFailed(rcq')
               \/ \E t \in rsq' \union rops' : Underway(t, frag_buf, rchunk, i)
    <2>1. CASE i \in received
      <3>1. \/ OnDisk(len, disk, rchunk, i)
            \/ WriteFailed(rcq)
            \/ \E t \in rsq \union rops : Underway(t, frag_buf, rchunk, i)
        BY <1>6, <2>1 DEF DataOK
      <3> QED BY <1>3, <3>1
    <2>2. CASE i \notin received
      <3>1. Underway(s, frag_buf, rchunk, i)
        BY <1>6, <2>2
      <3> QED BY <3>1
    <2> QED BY <2>1, <2>2
  <1>7. ~ stale' => \A c \in 0 .. rchunk - 1 : \A j \in DOMAIN disk :
              c * CHUNK_SIZE <= j /\ j < c * CHUNK_SIZE + ChunkLen(len, c) => disk[j] = j
    BY DEF DataOK
  <1> QED BY <1>4, <1>5, <1>6, <1>7 DEF DataOK

LEMMA PostRecvsStep == ASSUME RecvInv, len' = len, PostRecvs PROVE RecvInv'
  <1> DEFINE all == {RecvSqe(b) : b \in Bufs}
  <1>1. /\ RecvTypeOK /\ OwnOK /\ DataOK /\ rpc = "post" /\ rpc' \in {"done", "chunk"}
        /\ pending_recvs' = UDP_FRAG_BUFS
        /\ UNCHANGED <<len, rchunk, received, pending_writes, stale, rcq, frag_buf, disk>>
    BY DEF PostRecvs, RecvInv
  <1>2. rops = {} /\ rcq = << >> /\ received = {} /\ pending_writes = 0
    BY <1>1 DEF OwnOK
  <1>3. rsq' \subseteq all /\ rops' = all \ rsq' /\ short' = (rsq' # {})
    BY <1>2 DEF PostRecvs, Submit
  <1>4. /\ \A s \in all : s.op = "recv" /\ s.buf \in Bufs /\ s \in Sqes
        /\ \A s, t \in all : s.buf = t.buf => s = t
        /\ \A b \in Bufs : \E s \in all : s.op = "recv" /\ s.buf = b
    <2>1. \A b \in Bufs : RecvSqe(b).op = "recv" /\ RecvSqe(b).buf = b /\ RecvSqe(b) \in Sqes
      BY DEF RecvSqe, Sqes, Ops
    <2> QED BY <2>1
  <1>5. rsq' \union rops' = all /\ rsq' \intersect rops' = {}
    BY <1>3
  <1> HIDE DEF all
  <1>6. RecvTypeOK'
    <2>1. UDP_FRAG_BUFS \in Int
      BY UdpAssumption
    <2>2. rpc' \in RecvPlaces
      BY <1>1 DEF RecvPlaces, Ended
    <2>3. rsq' \subseteq Sqes /\ rops' \subseteq Sqes /\ short' \in BOOLEAN
      BY <1>3, <1>4
    <2> QED BY <1>1, <2>1, <2>2, <2>3 DEF RecvTypeOK
  <1>7. OwnOK'
    <2>1. Unique(rsq', rops', rcq')
      BY <1>1, <1>2, <1>4, <1>5 DEF Unique
    <2>2. Uses(rsq', rops', rcq', "recv") = Bufs
      BY <1>1, <1>2, <1>4, <1>5 DEF Uses
    <2>3. Uses(rsq', rops', rcq', "write") = {}
      BY <1>1, <1>2, <1>4, <1>5 DEF Uses
    <2>4. Queued(rsq', "write") = {} /\ (~ short' => FewQueued(rsq'))
      BY <1>3, <1>4 DEF Queued, FewQueued
    <2>5. Cardinality(Bufs) = UDP_FRAG_BUFS /\ Cardinality({}) = 0
      BY BufsFinite, FS_EmptySet
    <2> QED BY <1>1, <1>2, <2>1, <2>2, <2>3, <2>4, <2>5 DEF OwnOK
  <1>8. DataOK'
    BY <1>1, <1>2, <1>4, <1>5 DEF DataOK
  <1> QED BY <1>6, <1>7, <1>8 DEF RecvInv

LEMMA ThrowsStep == ASSUME RecvInv, len' = len, Throws PROVE RecvInv'
  <1>1. /\ RecvTypeOK /\ OwnOK /\ DataOK /\ rcq # << >> /\ rcq' = Tail(rcq) /\ rpc' = "failed"
        /\ UNCHANGED <<len, rchunk, received, pending_writes, pending_recvs, stale, rsq, rops, short,
                       frag_buf, disk>>
    BY DEF Throws, RecvInv, chunkVars
  <1>2. /\ rcq \in Seq(Cqes) /\ rcq' \in Seq(Cqes)
        /\ \A k \in DOMAIN rcq' : k + 1 \in DOMAIN rcq /\ rcq'[k] = rcq[k + 1]
        /\ \A j, k \in DOMAIN rcq' : j + 1 = k + 1 => j = k
    BY <1>1, TailIs DEF RecvTypeOK
  <1>3. RecvTypeOK'
    BY <1>1, <1>2 DEF RecvTypeOK, RecvPlaces, Ended
  <1>4. OwnOK'
    <2>1. Unique(rsq', rops', rcq')
      BY <1>1, <1>2 DEF OwnOK, Unique
    <2> QED BY <1>1, <2>1 DEF OwnOK
  <1>5. DataOK'
    BY <1>1, <1>2 DEF DataOK
  <1> QED BY <1>3, <1>4, <1>5 DEF RecvInv

(* A reaped buffer takes the next datagram. *)
LEMMA ReclaimStep ==
    ASSUME RecvInv, len' = len, InLoop, rcq # << >>, rcq' = Tail(rcq), ~ RecvFails(Head(rcq)),
           NEW recvs, Reclaim(rcq[1][2], recvs),
           \/ rcq[1][1] = "recv" /\ recvs = pending_recvs - 1 /\ pending_writes' = pending_writes
           \/ rcq[1][1] = "write" /\ recvs = pending_recvs /\ pending_writes' = pending_writes - 1,
           stale' \in BOOLEAN, ~ stale' => ~ stale,
           UNCHANGED <<rpc, rchunk, received, frag_buf, disk>>
    PROVE  RecvInv'
  <1> DEFINE s == RecvSqe(rcq[1][2])
  <1>1. RecvTypeOK /\ OwnOK /\ DataOK /\ rpc = "chunk"
    BY DEF RecvInv, InLoop
  <1>2. rcq \in Seq(Cqes) /\ rcq[1] \in Cqes
    BY <1>1, TailIs DEF RecvTypeOK
  <1>3. s \in Sqes /\ s.buf = rcq[1][2] /\ s.op = "recv"
    BY <1>2 DEF Cqes, RecvSqe, Sqes, Ops
  <1>4. /\ pending_recvs' = recvs + 1
        /\ \/ /\ rsq' \subseteq rsq \union {s} /\ rops' = rops \union ((rsq \union {s}) \ rsq')
              /\ short' = (rsq' # {})
           \/ /\ rsq' = rsq \union {s} /\ rops' = rops /\ short' = short
              /\ ~ (recvs + 1 >= flush_threshold)
    BY DEF Reclaim, Queue, Submit
  <1>5. pending_recvs \in Int /\ pending_writes \in Int /\ flush_threshold \in Nat
    BY <1>1, BufsFinite DEF RecvTypeOK
  <1> HIDE DEF s
  <1>6. /\ pending_recvs' = pending_recvs + (IF rcq[1][1] = "recv" THEN 0 ELSE 1)
        /\ pending_writes' = pending_writes - (IF rcq[1][1] = "write" THEN 1 ELSE 0)
        /\ pending_recvs' \in Int /\ pending_writes' \in Int
    BY <1>4, <1>5
  <1>7. \/ /\ rsq' \subseteq rsq \union {s} /\ rops' = rops \union ((rsq \union {s}) \ rsq')
           /\ short' = (rsq' # {})
        \/ /\ rsq' = rsq \union {s} /\ rops' = rops /\ short' = short
           /\ pending_recvs' < flush_threshold
    BY <1>4, <1>5, <1>6
  <1>8. /\ Unique(rsq', rops', rcq')
        /\ Uses(rsq', rops', rcq', "recv") \union Uses(rsq', rops', rcq', "write") = Bufs
        /\ pending_recvs' = Cardinality(Uses(rsq', rops', rcq', "recv"))
        /\ pending_writes' = Cardinality(Uses(rsq', rops', rcq', "write"))
        /\ ~ short' => FewQueued(rsq')
        /\ rsq' \subseteq rsq \union {s}
        /\ rsq' \union rops' = rsq \union rops \union {s}
        /\ rcq' \in Seq(Cqes) /\ rsq' \subseteq Sqes /\ rops' \subseteq Sqes
    BY <1>1, <1>3, <1>6, <1>7, Requeued
  <1>9. RecvTypeOK'
    <2>1. short' \in BOOLEAN
      BY <1>1, <1>7 DEF RecvTypeOK
    <2> QED BY <1>1, <1>6, <1>8, <2>1 DEF RecvTypeOK
  <1>10. OwnOK'
    <2>1. Queued(rsq', "write") \subseteq Queued(rsq, "write")
      BY <1>3, <1>8 DEF Queued
    <2>2. ~ short' => ~ short \/ Queued(rsq', "write") = {}
      BY <1>7 DEF Queued
    <2> QED BY <1>1, <1>8, <2>1, <2>2 DEF OwnOK
  <1>11. DataOK'
    BY <1>1, <1>3, <1>8, RequeuedData
  <1> QED BY <1>9, <1>10, <1>11 DEF RecvInv

LEMMA RecvDuplicateStep == ASSUME RecvInv, len' = len, RecvDuplicate PROVE RecvInv'
  <1>1. rcq \in Seq(Cqes) /\ Head(rcq) = rcq[1] /\ stale \in BOOLEAN
    BY TailIs DEF RecvDuplicate, RecvInv, RecvTypeOK
  <1>2. /\ InLoop /\ rcq # << >> /\ rcq' = Tail(rcq) /\ ~ RecvFails(Head(rcq)) /\ rcq[1][1] = "recv"
        /\ Reclaim(rcq[1][2], pending_recvs - 1) /\ pending_writes' = pending_writes
        /\ UNCHANGED <<rpc, rchunk, received, frag_buf, disk>>
    BY <1>1 DEF RecvDuplicate
  <1>3. stale' \in BOOLEAN /\ (~ stale' => ~ stale)
    BY <1>1 DEF RecvDuplicate
  <1> QED BY <1>2, <1>3, ReclaimStep

LEMMA WriteDoneStep == ASSUME RecvInv, len' = len, WriteDone PROVE RecvInv'
  <1>1. rcq \in Seq(Cqes) /\ Head(rcq) = rcq[1] /\ stale \in BOOLEAN
    BY TailIs DEF WriteDone, RecvInv, RecvTypeOK
  <1>2. /\ InLoop /\ rcq # << >> /\ rcq' = Tail(rcq) /\ ~ RecvFails(Head(rcq)) /\ rcq[1][1] = "write"
        /\ Reclaim(rcq[1][2], pending_recvs) /\ pending_writes' = pending_writes - 1
        /\ UNCHANGED <<rpc, rchunk, received, frag_buf, disk>>
        /\ stale' \in BOOLEAN /\ (~ stale' => ~ stale)
    BY <1>1 DEF WriteDone
  <1> QED BY <1>2, ReclaimStep

LEMMA RecvFragmentStep == ASSUME RecvInv, len' = len, RecvFragment PROVE RecvInv'
  <1> DEFINE b == rcq[1][2]
             d == frag_buf[b]
             s == WriteSqe(b, PlaceOf(rchunk, d.frag))
  <1>1. RecvTypeOK /\ OwnOK /\ DataOK /\ rpc = "chunk"
    BY DEF RecvInv, RecvFragment, InLoop
  <1>2. rcq # << >> /\ rcq \in Seq(Cqes) /\ rcq[1] \in Cqes /\ Head(rcq) = rcq[1] /\ 1 \in DOMAIN rcq
    BY <1>1, TailIs DEF RecvTypeOK, RecvFragment
  <1>3. /\ rcq' = Tail(rcq) /\ ~ RecvFails(Head(rcq)) /\ rcq[1][1] = "recv" /\ d.frag \notin received
        /\ received' = received \union {d.frag}
        /\ stale' = (stale \/ d.chunk # rchunk)
        /\ pending_recvs' = pending_recvs - 1 /\ pending_writes' = pending_writes + 1
        /\ UNCHANGED <<len, rpc, rchunk, frag_buf, disk>>
        /\ Queue(s, FlushDue(pending_writes + 1, frag_remaining - 1))
    BY <1>2 DEF RecvFragment, IsDuplicate, PlaceOf
  <1>4. ~ (d.frag >= FragCount(len, rchunk)) /\ rcq[1][3] # "err"
    BY <1>2, <1>3, Named DEF RecvFails
  <1>5. Genuine(len, d)
    <2>1. rcq[1][3] = "ok"
      BY <1>2, <1>4 DEF Cqes
    <2> QED BY <1>1, <1>2, <1>3, <2>1 DEF DataOK
  <1>6. /\ d.frag \in Nat /\ rchunk \in Nat /\ len \in Nat /\ b \in Bufs
        /\ pending_recvs \in Int /\ pending_writes \in Int /\ stale \in BOOLEAN
        /\ flush_threshold \in Nat /\ FragCount(len, rchunk) \in Int
    <2>1. d.frag \in Nat
      BY <1>5 DEF Genuine
    <2>2. b \in Bufs
      BY <1>2 DEF Cqes
    <2>3. /\ rchunk \in Nat /\ len \in Nat /\ pending_recvs \in Int /\ pending_writes \in Int
          /\ stale \in BOOLEAN
      BY <1>1 DEF RecvTypeOK
    <2> QED BY <2>1, <2>2, <2>3, BufsFinite, LengthsAreInts
  <1>7. PlaceOf(rchunk, d.frag) \in Int
    <2>1. rchunk * CHUNK_SIZE \in Int /\ d.frag * UDP_PAYLOAD_SIZE \in Int
      BY <1>6, UdpAssumption
    <2> QED BY <2>1 DEF PlaceOf
  <1>8. /\ s \in Sqes /\ s.buf = b /\ s.op = "write" /\ s.off = PlaceOf(rchunk, d.frag)
    BY <1>6, <1>7 DEF WriteSqe, Sqes, Ops
  <1>9. /\ Missing(len, rchunk, received) \in Int
        /\ Missing(len, rchunk, received') = Missing(len, rchunk, received) - 1
        /\ Missing(len, rchunk, received) > 0
        /\ received' \in SUBSET Fragments(len, rchunk)
    <2> DEFINE f == d.frag
    <2>1. f \in Fragments(len, rchunk)
      <3>1. f \in Nat /\ FragCount(len, rchunk) \in Int /\ ~ (f >= FragCount(len, rchunk))
        BY <1>4, <1>6
      <3> HIDE DEF f
      <3> QED BY <3>1 DEF Fragments
    <2>2. received \in SUBSET Fragments(len, rchunk)
      BY <1>1 DEF OwnOK
    <2>3. len \in Nat /\ rchunk \in Nat /\ f \notin received /\ received' = received \union {f}
      BY <1>3, <1>6
    <2> HIDE DEF f
    <2> QED BY <2>1, <2>2, <2>3, FragmentsLeft
  <1>10. frag_remaining = Missing(len, rchunk, received)
    BY Named DEF frag_remaining, Missing
  <1>11. \/ /\ rsq' \subseteq rsq \union {s} /\ rops' = rops \union ((rsq \union {s}) \ rsq')
            /\ short' = (rsq' # {})
         \/ /\ rsq' = rsq \union {s} /\ rops' = rops /\ short' = short
            /\ pending_writes' < flush_threshold /\ Missing(len, rchunk, received') # 0
    <2>1. CASE FlushDue(pending_writes + 1, frag_remaining - 1)
      BY <1>3, <2>1 DEF Queue, Submit
    <2>2. CASE ~ FlushDue(pending_writes + 1, frag_remaining - 1)
      <3>1. ~ (pending_writes + 1 >= flush_threshold) /\ frag_remaining - 1 # 0
        BY <2>2 DEF FlushDue
      <3>2. pending_writes' < flush_threshold /\ Missing(len, rchunk, received') # 0
        BY <1>3, <1>6, <1>9, <1>10, <3>1
      <3> QED BY <1>3, <2>2, <3>2 DEF Queue
    <2> QED BY <2>1, <2>2
  <1>12. ~ stale' => d.chunk = rchunk /\ ~ stale
    BY <1>3, <1>6
  <1>13. stale' \in BOOLEAN
    BY <1>3, <1>6
  <1>14. Underway(s, frag_buf, d.chunk, d.frag)
    BY <1>8 DEF Underway
  <1>15. ~ stale' => Placed(len, frag_buf[s.buf], s.off) /\ Underway(s, frag_buf, rchunk, d.frag)
    BY <1>5, <1>8, <1>12, <1>14 DEF Placed
  <1> HIDE DEF s
  <1>16. /\ Unique(rsq', rops', rcq')
         /\ Uses(rsq', rops', rcq', "recv") \union Uses(rsq', rops', rcq', "write") = Bufs
         /\ pending_recvs' = Cardinality(Uses(rsq', rops', rcq', "recv"))
         /\ pending_writes' = Cardinality(Uses(rsq', rops', rcq', "write"))
         /\ ~ short' => FewQueued(rsq')
         /\ rsq' \union rops' = rsq \union rops \union {s}
         /\ rcq' \in Seq(Cqes) /\ rsq' \subseteq Sqes /\ rops' \subseteq Sqes
    BY <1>1, <1>2, <1>3, <1>8, <1>11, Requeued
  <1>17. RecvTypeOK'
    <2>1. pending_recvs' \in Int /\ pending_writes' \in Int
      BY <1>3, <1>6
    <2>2. received' \subseteq Nat
      BY <1>1, <1>3, <1>6 DEF RecvTypeOK
    <2>3. short' \in BOOLEAN
      BY <1>1, <1>11 DEF RecvTypeOK
    <2> QED BY <1>1, <1>3, <1>13, <1>16, <2>1, <2>2, <2>3 DEF RecvTypeOK
  <1>18. OwnOK'
    <2>1. ~ short' /\ Missing(len, rchunk, received') <= 0 => Queued(rsq', "write") = {}
      <3>1. Missing(len, rchunk, received') <= 0 => Missing(len, rchunk, received') = 0
        BY <1>9
      <3>2. ~ short' /\ Missing(len, rchunk, received') <= 0 => rsq' = {}
        BY <1>11, <3>1
      <3> QED BY <3>2 DEF Queued
    <2> QED BY <1>1, <1>3, <1>9, <1>16, <2>1 DEF OwnOK
  <1>19. DataOK'
    <2>1. ~ stale' => ~ stale /\ (s.op = "write" => Placed(len, frag_buf[s.buf], s.off))
      BY <1>12, <1>15
    <2>2. \E i : received' = received \union {i} /\ (~ stale' => Underway(s, frag_buf, rchunk, i))
      BY <1>3, <1>15
    <2> QED BY <1>1, <1>2, <1>3, <1>16, <2>1, <2>2, RequeuedData
  <1> QED BY <1>17, <1>18, <1>19 DEF RecvInv

(* With every fragment received and no WRITE pending, the chunk is on disk. *)
LEMMA ChunkOnDisk ==
    ASSUME RecvTypeOK, OwnOK, DataOK, rpc = "chunk", ~ stale, pending_writes <= 0,
           Missing(len, rchunk, received) <= 0,
           NEW j \in DOMAIN disk,
           rchunk * CHUNK_SIZE <= j, j < rchunk * CHUNK_SIZE + ChunkLen(len, rchunk)
    PROVE  disk[j] = j
  <1> DEFINE L == ChunkLen(len, rchunk)
             a == rchunk * CHUNK_SIZE
             x == j - a
             i == x \div UDP_PAYLOAD_SIZE
             p == UDP_PAYLOAD_SIZE
  <1>1. len \in Nat /\ rchunk \in Nat /\ L \in Int /\ a \in Int /\ p \in Nat \ {0} /\ j \in Int
    <2>1. len \in Nat /\ rchunk \in Nat /\ disk = [k \in 0 .. len - 1 |-> disk[k]]
      BY DEF RecvTypeOK
    <2>2. j \in 0 .. len - 1
      BY <2>1
    <2>3. L \in Int
      BY <2>1, LengthsAreInts
    <2>4. a \in Int /\ p \in Nat \ {0}
      BY <2>1, UdpAssumption
    <2>5. j \in Int
      BY <2>2
    <2> QED BY <2>1, <2>3, <2>4, <2>5
  <1>2. x \in Nat /\ x < L
    <2>1. a <= j /\ j < a + L
      OBVIOUS
    <2> HIDE DEF a, L
    <2> QED BY <1>1, <2>1
  <1>3. i \in 0 .. CeilDiv(L, p) - 1 /\ i * p <= x /\ x < i * p + p
    <2> HIDE DEF x, L
    <2> QED BY <1>1, <1>2, PlaceCovered
  <1>4. i \in Fragments(len, rchunk)
    BY <1>3 DEF Fragments, FragCount
  <1>5. received = Fragments(len, rchunk)
    BY <1>1, FragmentsLeft DEF OwnOK
  <1>6. Uses(rsq, rops, rcq, "write") = {}
    <2>1. pending_writes = Cardinality(Uses(rsq, rops, rcq, "write"))
      BY DEF OwnOK
    <2>2. /\ IsFiniteSet(Uses(rsq, rops, rcq, "write"))
          /\ Cardinality(Uses(rsq, rops, rcq, "write")) \in Nat
      BY UsesFinite
    <2>3. Cardinality(Uses(rsq, rops, rcq, "write")) = 0
      BY <2>1, <2>2
    <2> QED BY <2>2, <2>3, FS_EmptySet
  <1>7. ~ WriteFailed(rcq)
    <2> SUFFICES ASSUME NEW k \in DOMAIN rcq, rcq[k][1] = "write" PROVE FALSE
      BY DEF WriteFailed
    <2>1. rcq[k] \in Cqes
      BY DEF RecvTypeOK
    <2>2. rcq[k][2] \in Bufs
      BY <2>1 DEF Cqes
    <2> QED BY <1>6, <2>2 DEF Uses
  <1>8. ~ \E s \in rsq \union rops : Underway(s, frag_buf, rchunk, i)
    <2> SUFFICES ASSUME NEW s \in rsq \union rops, s.op = "write" PROVE FALSE
      BY DEF Underway
    <2>1. s.buf \in Bufs
      BY DEF RecvTypeOK, Sqes
    <2> QED BY <1>6, <2>1 DEF Uses
  <1>9. OnDisk(len, disk, rchunk, i)
    <2> HIDE DEF i
    <2> QED BY <1>4, <1>5, <1>7, <1>8 DEF DataOK
  <1>10. i * p <= x /\ x < i * p + FragLen(len, rchunk, i) /\ i * p \in Int
         /\ FragLen(len, rchunk, i) \in Int
    <2>1. i * p \in Int
      BY <1>1, <1>3
    <2> HIDE DEF x, i, L, p
    <2>2. FragLen(len, rchunk, i) = IF i + 1 < FragCount(len, rchunk) THEN p ELSE L - i * p
      BY DEF FragLen, L, p
    <2> QED BY <1>1, <1>2, <1>3, <2>1, <2>2
  <1>11. PlaceOf(rchunk, i) = a + i * p
    BY DEF PlaceOf
  <1>12. PlaceOf(rchunk, i) <= j /\ j < PlaceOf(rchunk, i) + FragLen(len, rchunk, i)
    <2>1. j = a + x
      BY <1>1
    <2> HIDE DEF a, i, p, x
    <2> QED BY <1>1, <1>2, <1>10, <1>11, <2>1
  <1> QED BY <1>9, <1>12 DEF OnDisk

LEMMA SendAckStep == ASSUME RecvInv, len' = len, SendAck PROVE RecvInv'
  <1>1. /\ RecvTypeOK /\ OwnOK /\ DataOK /\ rpc = "chunk" /\ rpc' \in {"chunk", "done"}
        /\ rchunk' = rchunk + 1 /\ received' = {} /\ pending_writes' = 0
        /\ UNCHANGED <<len, pending_recvs, stale, rsq, rops, short, rcq, frag_buf, disk>>
    BY DEF SendAck, RecvInv, ringVars
  <1>2. /\ len \in Nat /\ rchunk \in Nat /\ pending_writes \in Int
        /\ frag_remaining = Missing(len, rchunk, received)
    BY <1>1, Named DEF RecvTypeOK, frag_remaining, Missing
  <1>3. Missing(len, rchunk, received) <= 0 /\ pending_writes <= 0
    <2>1. received \in SUBSET Fragments(len, rchunk)
      BY <1>1 DEF OwnOK
    <2>2. Missing(len, rchunk, received) \in Int
      BY <1>2, <2>1, FragmentsLeft
    <2>3. ~ (frag_remaining > 0 \/ pending_writes > 0)
      BY <1>1 DEF SendAck, InLoop
    <2> QED BY <1>2, <2>2, <2>3
  <1>4. RecvTypeOK'
    <2>1. rchunk' \in Nat /\ received' \subseteq Nat /\ pending_writes' \in Int /\ rpc' \in RecvPlaces
      BY <1>1, <1>2 DEF RecvPlaces, Ended
    <2> QED BY <1>1, <2>1 DEF RecvTypeOK
  <1>5. OwnOK'
    <2>1. /\ pending_writes = Cardinality(Uses(rsq, rops, rcq, "write"))
          /\ Cardinality(Uses(rsq, rops, rcq, "write")) \in Nat
      BY <1>1, UsesFinite DEF OwnOK
    <2>2. pending_writes' = Cardinality(Uses(rsq, rops, rcq, "write"))
      BY <1>1, <1>3, <2>1
    <2>3. Queued(rsq, "write") = {}
      <3>1. /\ IsFiniteSet(Queued(rsq, "write")) /\ Cardinality(Queued(rsq, "write")) \in Nat
            /\ Cardinality(Queued(rsq, "write")) <= Cardinality(Uses(rsq, rops, rcq, "write"))
        BY UsesFinite
      <3>2. Cardinality(Queued(rsq, "write")) = 0
        BY <1>2, <1>3, <2>1, <3>1
      <3> QED BY <3>1, <3>2, FS_EmptySet
    <2> QED BY <1>1, <2>2, <2>3 DEF OwnOK
  <1>6. DataOK'
    <2>1. ASSUME ~ stale, NEW c \in 0 .. rchunk', NEW j \in DOMAIN disk, c < rchunk + 1,
                 c * CHUNK_SIZE <= j, j < c * CHUNK_SIZE + ChunkLen(len, c)
          PROVE  disk[j] = j
      <3>1. CASE c = rchunk
        BY <1>1, <1>3, <2>1, <3>1, ChunkOnDisk
      <3>2. CASE c # rchunk
        <4>1. c \in 0 .. rchunk - 1
          BY <1>1, <1>2, <2>1, <3>2
        <4> QED BY <1>1, <2>1, <4>1 DEF DataOK
      <3> QED BY <3>1, <3>2
    <2>2. \A c \in 0 .. rchunk' - 1 : c \in 0 .. rchunk' /\ c < rchunk + 1
      BY <1>1, <1>2
    <2>3. ~ stale' => \A c \in 0 .. rchunk' - 1 : \A j \in DOMAIN disk' :
              c * CHUNK_SIZE <= j /\ j < c * CHUNK_SIZE + ChunkLen(len', c) => disk'[j] = j
      BY <1>1, <2>1, <2>2
    <2>4. \A k \in DOMAIN rcq : rcq[k][1] = "recv" /\ rcq[k][3] = "ok" => Genuine(len, frag_buf[rcq[k][2]])
      BY <1>1 DEF DataOK
    <2>5. ~ stale => \A s \in rsq \union rops : s.op = "write" => Placed(len, frag_buf[s.buf], s.off)
      BY <1>1 DEF DataOK
    <2> QED BY <1>1, <2>3, <2>4, <2>5 DEF DataOK
  <1> QED BY <1>4, <1>5, <1>6 DEF RecvInv

LEMMA KernelRecvStep == ASSUME RecvInv, NetInv, KernelRecv PROVE RecvInv' /\ NetInv'
  <1>1. /\ RecvTypeOK /\ OwnOK /\ DataOK
        /\ UNCHANGED <<len, rpc, rchunk, received, pending_writes, pending_recvs, stale, rsq, short, disk>>
    BY DEF RecvInv, KernelRecv, chunkVars
  <1>2. PICK s \in rops, r \in {"ok", "err"} :
          /\ s.op = "recv" /\ rops' = rops \ {s}
          /\ rcq' = Append(rcq, <<"recv", s.buf, r>>)
          /\ net' \subseteq net
          /\ \/ r = "ok" /\ \E d \in net : frag_buf' = [frag_buf EXCEPT ![s.buf] = d.of]
             \/ r = "err" /\ frag_buf' = frag_buf
    BY DEF KernelRecv
  <1>3. /\ rcq \in Seq(Cqes) /\ s \in Sqes /\ s.buf \in Bufs /\ s.op \in Ops
        /\ Unique(rsq, rops, rcq) /\ <<"recv", s.buf, r>> \in Cqes
        /\ frag_buf = [b \in Bufs |-> frag_buf[b]]
    BY <1>1, <1>2 DEF RecvTypeOK, OwnOK, Sqes, Cqes, Ops
  <1>4. /\ rcq' \in Seq(Cqes) /\ DOMAIN rcq' = DOMAIN rcq \union {Len(rcq) + 1}
        /\ rcq'[Len(rcq) + 1] = <<"recv", s.buf, r>> /\ \A k \in DOMAIN rcq : rcq'[k] = rcq[k]
    BY <1>2, <1>3, AppendIs
  <1>5. /\ Unique(rsq', rops', rcq')
        /\ \A op : Uses(rsq', rops', rcq', op) = Uses(rsq, rops, rcq, op)
    <2>1. rcq' = Append(rcq, <<s.op, s.buf, r>>) /\ rsq' = rsq /\ rops' = rops \ {s}
      BY <1>1, <1>2
    <2>2. /\ Unique(rsq, rops \ {s}, Append(rcq, <<s.op, s.buf, r>>))
          /\ \A op : Uses(rsq, rops \ {s}, Append(rcq, <<s.op, s.buf, r>>), op) = Uses(rsq, rops, rcq, op)
      BY <1>3, Completed
    <2> QED BY <2>1, <2>2
  <1>6. /\ frag_buf' = [b \in Bufs |-> frag_buf'[b]]
        /\ \A b \in Bufs : b # s.buf => frag_buf'[b] = frag_buf[b]
        /\ r = "ok" => Genuine(len, frag_buf'[s.buf])
    <2>1. CASE r = "err" /\ frag_buf' = frag_buf
      BY <1>3, <2>1
    <2>2. CASE r = "ok" /\ \E d \in net : frag_buf' = [frag_buf EXCEPT ![s.buf] = d.of]
      <3>1. PICK d \in net : frag_buf' = [frag_buf EXCEPT ![s.buf] = d.of]
        BY <2>2
      <3>2. Genuine(len, d.of)
        BY DEF NetInv
      <3> QED BY <1>3, <3>1, <3>2
    <2> QED BY <1>2, <2>1, <2>2
  <1>7. NetInv'
    BY <1>1, <1>2, NetFrame
  <1>8. RecvTypeOK'
    BY <1>1, <1>2, <1>4, <1>6 DEF RecvTypeOK
  <1>9. OwnOK'
    <2>1. rpc # "post"
      BY <1>1, <1>2 DEF OwnOK
    <2> QED BY <1>1, <1>5, <2>1 DEF OwnOK
  <1>10. DataOK'
    <2>1. ASSUME NEW k \in DOMAIN rcq', rcq'[k][1] = "recv", rcq'[k][3] = "ok"
          PROVE  Genuine(len, frag_buf'[rcq'[k][2]])
      <3>1. CASE k \in DOMAIN rcq
        <4>1. rcq[k][2] # s.buf /\ rcq[k][2] \in Bufs
          <5>1. rcq[k] \in Cqes
            BY <1>3, <3>1
          <5> QED BY <1>3, <3>1, <5>1 DEF Unique, Cqes
        <4> QED BY <1>1, <1>4, <1>6, <2>1, <3>1, <4>1 DEF DataOK
      <3>2. CASE k = Len(rcq) + 1
        BY <1>4, <1>6, <2>1, <3>2
      <3> QED BY <1>4, <3>1, <3>2
    <2>2. ASSUME NEW t \in rsq \union rops, t.op = "write"
          PROVE  t \in rsq' \union rops' /\ frag_buf'[t.buf] = frag_buf[t.buf]
      <3>1. t # s /\ t.buf \in Bufs
        BY <1>1, <1>2, <2>2 DEF RecvTypeOK, Sqes
      <3>2. t.buf # s.buf
        BY <1>3, <3>1 DEF Unique
      <3> QED BY <1>1, <1>2, <1>6, <3>1, <3>2
    <2>3. rsq' \union rops' \subseteq rsq \union rops
      BY <1>1, <1>2
    <2>4. \A i : ( \/ OnDisk(len, disk, rchunk, i)
                   \/ WriteFailed(rcq)
                   \/ \E t \in rsq \union rops : Underway(t, frag_buf, rchunk, i) )
              => ( \/ OnDisk(len, disk, rchunk, i)
                   \/ WriteFailed(rcq')
                   \/ \E t \in rsq' \union rops' : Underway(t, frag_buf', rchunk, i) )
      <3>1. WriteFailed(rcq) => WriteFailed(rcq')
        BY <1>4 DEF WriteFailed
      <3> QED BY <2>2, <3>1 DEF Underway
    <2>5. ~ stale => \A t \in rsq' \union rops' : t.op = "write" => Placed(len, frag_buf'[t.buf], t.off)
      BY <1>1, <2>2, <2>3 DEF DataOK
    <2>6. ~ stale /\ rpc = "chunk" => \A i \in received :
                   \/ OnDisk(len, disk, rchunk, i)
                   \/ WriteFailed(rcq')
                   \/ \E t \in rsq' \union rops' : Underway(t, frag_buf', rchunk, i)
      BY <1>1, <2>4 DEF DataOK
    <2>7. ~ stale => \A c \in 0 .. rchunk - 1 : \A j \in DOMAIN disk :
              c * CHUNK_SIZE <= j /\ j < c * CHUNK_SIZE + ChunkLen(len, c) => disk[j] = j
      BY <1>1 DEF DataOK
    <2> QED BY <1>1, <2>1, <2>5, <2>6, <2>7 DEF DataOK
  <1> QED BY <1>7, <1>8, <1>9, <1>10 DEF RecvInv

LEMMA KernelWriteStep == ASSUME RecvInv, KernelWrite PROVE RecvInv'
  <1>1. /\ RecvTypeOK /\ OwnOK /\ DataOK
        /\ UNCHANGED <<len, rpc, rchunk, received, pending_writes, pending_recvs, stale, rsq, short,
                       frag_buf>>
    BY DEF RecvInv, KernelWrite, chunkVars
  <1>2. PICK s \in rops, r \in {"ok", "err"} :
          /\ s.op = "write" /\ rops' = rops \ {s}
          /\ rcq' = Append(rcq, <<"write", s.buf, r>>)
          /\ disk' = IF r = "err" THEN disk
                     ELSE [i \in DOMAIN disk |->
                             IF s.off <= i /\ i < s.off + Len(frag_buf[s.buf].data)
                             THEN frag_buf[s.buf].data[i - s.off + 1] ELSE disk[i]]
    BY DEF KernelWrite
  <1>3. /\ rcq \in Seq(Cqes) /\ s \in Sqes /\ s.buf \in Bufs /\ s.op \in Ops
        /\ Unique(rsq, rops, rcq) /\ <<"write", s.buf, r>> \in Cqes
        /\ len \in Nat /\ disk = [i \in 0 .. len - 1 |-> disk[i]]
    BY <1>1, <1>2 DEF RecvTypeOK, OwnOK, Sqes, Cqes, Ops
  <1>4. /\ rcq' \in Seq(Cqes) /\ DOMAIN rcq' = DOMAIN rcq \union {Len(rcq) + 1}
        /\ rcq'[Len(rcq) + 1] = <<"write", s.buf, r>> /\ \A k \in DOMAIN rcq : rcq'[k] = rcq[k]
    BY <1>2, <1>3, AppendIs
  <1>5. /\ Unique(rsq', rops', rcq')
        /\ \A op : Uses(rsq', rops', rcq', op) = Uses(rsq, rops, rcq, op)
    <2>1. rcq' = Append(rcq, <<s.op, s.buf, r>>) /\ rsq' = rsq /\ rops' = rops \ {s}
      BY <1>1, <1>2
    <2>2. /\ Unique(rsq, rops \ {s}, Append(rcq, <<s.op, s.buf, r>>))
          /\ \A op : Uses(rsq, rops \ {s}, Append(rcq, <<s.op, s.buf, r>>), op) = Uses(rsq, rops, rcq, op)
      BY <1>3, Completed
    <2> QED BY <2>1, <2>2
  <1>6. DOMAIN disk' = DOMAIN disk /\ disk' = [i \in 0 .. len - 1 |-> disk'[i]]
    <2>1. DOMAIN disk = 0 .. len - 1
      BY <1>3
    <2> QED BY <1>2, <1>3, <2>1
  <1>7. RecvTypeOK'
    BY <1>1, <1>2, <1>4, <1>6 DEF RecvTypeOK
  <1>8. OwnOK'
    <2>1. rpc # "post"
      BY <1>1, <1>2 DEF OwnOK
    <2> QED BY <1>1, <1>5, <2>1 DEF OwnOK
  <1>9. ASSUME ~ stale, NEW j \in DOMAIN disk
        PROVE  /\ disk[j] = j => disk'[j] = j
               /\ r = "ok" /\ PlaceOf(frag_buf[s.buf].chunk, frag_buf[s.buf].frag) <= j
                  /\ j < PlaceOf(frag_buf[s.buf].chunk, frag_buf[s.buf].frag)
                           + FragLen(len, frag_buf[s.buf].chunk, frag_buf[s.buf].frag)
                 => disk'[j] = j
    <2> DEFINE d == frag_buf[s.buf]
               m == FragLen(len, d.chunk, d.frag)
    <2>1. Genuine(len, d) /\ s.off = PlaceOf(d.chunk, d.frag)
      BY <1>1, <1>2, <1>9 DEF DataOK, Placed
    <2>2. j \in Int
      <3>1. j \in 0 .. len - 1
        BY <1>3
      <3> QED BY <3>1
    <2> HIDE DEF d
    <2>3. s.off <= j =>
             /\ j < s.off + Len(d.data) => d.data[j - s.off + 1] = j
             /\ j < s.off + m => j < s.off + Len(d.data)
      BY <1>3, <2>1, <2>2, BytesInPlace
    <2>4. disk' = IF r = "err" THEN disk
                  ELSE [i \in DOMAIN disk |->
                             IF s.off <= i /\ i < s.off + Len(d.data)
                             THEN d.data[i - s.off + 1] ELSE disk[i]]
      BY <1>2 DEF d
    <2> HIDE DEF m
    <2>5. CASE r = "err"
      BY <2>4, <2>5
    <2>6. CASE r = "ok"
      <3>1. disk'[j] = IF s.off <= j /\ j < s.off + Len(d.data) THEN d.data[j - s.off + 1] ELSE disk[j]
        BY <2>4, <2>6
      <3>2. (disk[j] = j => disk'[j] = j) /\ (s.off <= j /\ j < s.off + m => disk'[j] = j)
        BY <2>3, <3>1
      <3> QED BY <2>1, <3>2 DEF d, m
    <2> QED BY <2>1, <2>5, <2>6 DEF d, m
  <1>10. DataOK'
    <2>1. \A k \in DOMAIN rcq' : rcq'[k][1] = "recv" /\ rcq'[k][3] = "ok" => Genuine(len, frag_buf[rcq'[k][2]])
      <3> SUFFICES ASSUME NEW k \in DOMAIN rcq', rcq'[k][1] = "recv", rcq'[k][3] = "ok"
                   PROVE  Genuine(len, frag_buf[rcq'[k][2]])
        OBVIOUS
      <3>1. rcq'[Len(rcq) + 1][1] = "write"
        BY <1>4
      <3>2. k \in DOMAIN rcq
        BY <1>4, <3>1
      <3> QED BY <1>1, <1>4, <3>2 DEF DataOK
    <2>2. rsq' \union rops' \subseteq rsq \union rops
      BY <1>1, <1>2
    <2>3. ~ stale => \A t \in rsq' \union rops' : t.op = "write" => Placed(len, frag_buf[t.buf], t.off)
      BY <1>1, <2>2 DEF DataOK
    <2>4. ASSUME ~ stale, rpc = "chunk", NEW i \in received
          PROVE  \/ OnDisk(len, disk', rchunk, i)
                 \/ WriteFailed(rcq')
                 \/ \E t \in rsq' \union rops' : Underway(t, frag_buf, rchunk, i)
      <3>1. CASE OnDisk(len, disk, rchunk, i)
        BY <1>6, <1>9, <2>4, <3>1 DEF OnDisk
      <3>2. CASE WriteFailed(rcq)
        BY <1>4, <3>2 DEF WriteFailed
      <3>3. CASE \E t \in rsq \union rops : Underway(t, frag_buf, rchunk, i)
        <4>1. PICK t \in rsq \union rops : Underway(t, frag_buf, rchunk, i)
          BY <3>3
        <4>2. CASE t # s
          BY <1>1, <1>2, <4>1, <4>2
        <4>3. CASE t = s /\ r = "err"
          <5>1. rcq'[Len(rcq) + 1][1] = "write" /\ rcq'[Len(rcq) + 1][3] = "err"
            BY <1>4, <4>3
          <5> QED BY <1>4, <5>1 DEF WriteFailed
        <4>4. CASE t = s /\ r = "ok"
          BY <1>6, <1>9, <2>4, <4>1, <4>4 DEF OnDisk, Underway
        <4> QED BY <4>2, <4>3, <4>4
      <3> QED BY <1>1, <2>4, <3>1, <3>2, <3>3 DEF DataOK
    <2>5. ~ stale => \A c \in 0 .. rchunk - 1 : \A j \in DOMAIN disk' :
              c * CHUNK_SIZE <= j /\ j < c * CHUNK_SIZE + ChunkLen(len, c) => disk'[j] = j
      BY <1>1, <1>6, <1>9 DEF DataOK
    <2> QED BY <1>1, <2>1, <2>3, <2>4, <2>5 DEF DataOK
  <1> QED BY <1>7, <1>8, <1>10 DEF RecvInv

----------------------------------------------------------------------------
(* The invariant                                                            *)

LEMMA UdpStep == UdpInv /\ [Next]_vars => UdpInv'
  <1> SUFFICES ASSUME UdpInv, [Next]_vars PROVE UdpInv'
    OBVIOUS
  <1> USE DEF UdpInv
  <1>1. CASE SenderStep
    <2>1. len' = len /\ UNCHANGED receiverVars /\ net' = net
      BY <1>1 DEF SenderStep, netVars
    <2>2. RecvInv' /\ NetInv'
      BY <2>1, ReceiverFrame, NetFrame
    <2>3. SendInv'
      BY <1>1, <2>1, RecvReadyStep, TcpClosedStep, WaitReadStep, StartChunkStep,
         QueueFragStep, SubmitFragsStep, ReapSendStep, RecvAckStep DEF SenderStep
    <2> QED BY <2>2, <2>3
  <1>2. CASE ReceiverStep
    <2>1. len' = len /\ UNCHANGED senderVars /\ net' = net
      BY <1>2 DEF ReceiverStep, netVars
    <2>2. SendInv' /\ NetInv'
      BY <2>1, SenderFrame, NetFrame
    <2>3. RecvInv'
      BY <1>2, <2>1, PostRecvsStep, ThrowsStep, RecvDuplicateStep, RecvFragmentStep,
         WriteDoneStep, SendAckStep DEF ReceiverStep
    <2> QED BY <2>2, <2>3
  <1>3. CASE KernelRead
    <2>1. len' = len /\ UNCHANGED receiverVars /\ net' = net
      BY <1>3 DEF KernelRead, netVars
    <2> QED BY <1>3, <2>1, KernelReadStep, ReceiverFrame, NetFrame
  <1>4. CASE KernelSend
    <2>1. len' = len /\ UNCHANGED receiverVars
      BY <1>4 DEF KernelSend
    <2> QED BY <1>4, <2>1, KernelSendStep, ReceiverFrame
  <1>5. CASE KernelRecv
    <2>1. len' = len /\ UNCHANGED senderVars
      BY <1>5 DEF KernelRecv
    <2> QED BY <1>5, <2>1, KernelRecvStep, SenderFrame
  <1>6. CASE KernelWrite
    <2>1. len' = len /\ UNCHANGED senderVars /\ net' = net
      BY <1>6 DEF KernelWrite, netVars
    <2> QED BY <1>6, <2>1, KernelWriteStep, SenderFrame, NetFrame
  <1>7. CASE Duplicate
    <2>1. len' = len /\ UNCHANGED senderVars /\ UNCHANGED receiverVars
      BY <1>7 DEF Duplicate
    <2> QED BY <1>7, <2>1, DuplicateStep, SenderFrame, ReceiverFrame
  <1>8. CASE Lose
    <2>1. len' = len /\ UNCHANGED senderVars /\ UNCHANGED receiverVars /\ net' \subseteq net
      BY <1>8 DEF Lose
    <2> QED BY <2>1, SenderFrame, ReceiverFrame, NetFrame
  <1>9. CASE UNCHANGED vars
    <2>1. len' = len /\ UNCHANGED senderVars /\ UNCHANGED receiverVars /\ net' = net
      BY <1>9 DEF vars, netVars
    <2> QED BY <2>1, SenderFrame, ReceiverFrame, NetFrame
  <1> QED BY <1>1, <1>2, <1>3, <1>4, <1>5, <1>6, <1>7, <1>8, <1>9 DEF Next, Kernel

(* The counters, queues and bytes of both loops of send_file and recv_file     *)
(* stay consistent in every interleaving with the kernel and the network.      *)
THEOREM UdpCorrect == Spec => []UdpInv
  <1>1. Init => UdpInv
    BY SenderInit, ReceiverInit DEF UdpInv
  <1> QED BY <1>1, UdpStep, PTL DEF Spec

----------------------------------------------------------------------------
(* One owner for every buffer                                               *)

(* Operations and completions have as many buffers as there are of them. *)
LEMMA OperationsCounted ==
    ASSUME NEW q, NEW o, NEW c \in Seq(Cqes), Unique(q, o, c), q \union o \subseteq Sqes, NEW op
    PROVE  Cardinality(Uses(q, o, c, op))
             = Cardinality({s \in q \union o : s.op = op}) + Cardinality({k \in DOMAIN c : c[k][1] = op})
  <1> DEFINE S == {s \in q \union o : s.op = op}
             K == {k \in DOMAIN c : c[k][1] = op}
             A == {b \in Bufs : \E s \in S : s.buf = b}
             B == {b \in Bufs : \E k \in K : c[k][2] = b}
             f == [b \in A |-> CHOOSE s \in S : s.buf = b]
             g == [b \in B |-> CHOOSE k \in K : c[k][2] = b]
  <1>1. /\ \A s \in S : s.buf \in A
        /\ \A s, t \in S : s.buf = t.buf => s = t
    BY DEF Unique, Sqes
  <1>2. /\ \A k \in K : c[k][2] \in B
        /\ \A j, k \in K : c[j][2] = c[k][2] => j = k
    <2>1. \A k \in DOMAIN c : c[k] \in Cqes
      OBVIOUS
    <2> QED BY <2>1 DEF Unique, Cqes
  <1>3. Uses(q, o, c, op) = A \union B /\ A \intersect B = {}
    BY DEF Uses, Unique
  <1>4. IsFiniteSet(A) /\ IsFiniteSet(B)
    <2>1. A \in SUBSET Bufs /\ B \in SUBSET Bufs
      OBVIOUS
    <2> HIDE DEF A, B
    <2> QED BY <2>1, BufsFinite, FS_Subset
  <1>5. Cardinality(A) = Cardinality(S)
    <2>1. \A b \in A : f[b] \in S /\ f[b].buf = b
      OBVIOUS
    <2> HIDE DEF f
    <2>2. \A s \in S : f[s.buf] = s
      BY <1>1, <2>1
    <2>3. f \in Bijection(A, S)
      <3>1. f \in [A -> S]
        BY <2>1 DEF f
      <3>2. \A a, b \in A : f[a] = f[b] => a = b
        BY <2>1
      <3>3. \A s \in S : \E b \in A : f[b] = s
        BY <1>1, <2>2
      <3> HIDE DEF A, S
      <3> QED BY <3>1, <3>2, <3>3, Fun_IsBij
    <2> HIDE DEF A, S
    <2> QED BY <1>4, <2>3, FS_Bijection DEF ExistsBijection
  <1>6. Cardinality(B) = Cardinality(K)
    <2>1. \A b \in B : g[b] \in K /\ c[g[b]][2] = b
      OBVIOUS
    <2> HIDE DEF g
    <2>2. \A k \in K : g[c[k][2]] = k
      BY <1>2, <2>1
    <2>3. g \in Bijection(B, K)
      <3>1. g \in [B -> K]
        BY <2>1 DEF g
      <3>2. \A a, b \in B : g[a] = g[b] => a = b
        BY <2>1
      <3>3. \A k \in K : \E b \in B : g[b] = k
        BY <1>2, <2>2
      <3> HIDE DEF B, K
      <3> QED BY <3>1, <3>2, <3>3, Fun_IsBij
    <2> HIDE DEF B, K
    <2> QED BY <1>4, <2>3, FS_Bijection DEF ExistsBijection
  <1> HIDE DEF A, B, S, K
  <1>7. Cardinality(A \union B) = Cardinality(A) + Cardinality(B)
    <2>1. Cardinality(A \union B) = Cardinality(A) + Cardinality(B) - Cardinality(A \intersect B)
      BY <1>4, FS_Union
    <2>2. Cardinality(A \intersect B) = 0 /\ Cardinality(A) \in Nat /\ Cardinality(B) \in Nat
      BY <1>3, <1>4, FS_EmptySet, FS_CardinalityType
    <2> QED BY <2>1, <2>2
  <1> QED BY <1>3, <1>5, <1>6, <1>7 DEF S, K

LEMMA OwnedOnce ==
    ASSUME RecvInv, rpc = "chunk", NEW b \in Bufs
    PROVE  Owners(b) = 1
  <1> DEFINE S == {s \in rsq \union rops : s.buf = b}
             K == {k \in DOMAIN rcq : rcq[k][2] = b}
  <1>1. /\ Unique(rsq, rops, rcq)
        /\ b \in Uses(rsq, rops, rcq, "recv") \union Uses(rsq, rops, rcq, "write")
    BY DEF RecvInv, OwnOK
  <1>2. Owners(b) = Cardinality(S) + Cardinality(K)
    BY DEF Owners
  <1>3. CASE \E s \in rsq \union rops : s.buf = b
    <2>1. PICK s \in rsq \union rops : s.buf = b
      BY <1>3
    <2>2. S = {s}
      BY <1>1, <2>1 DEF Unique
    <2>3. K = {}
      BY <1>1, <2>1 DEF Unique
    <2>4. Cardinality(S) = 1 /\ Cardinality(K) = 0
      BY <2>2, <2>3, FS_Singleton, FS_EmptySet
    <2> QED BY <1>2, <2>4
  <1>4. CASE \E k \in DOMAIN rcq : rcq[k][2] = b
    <2>1. PICK k \in DOMAIN rcq : rcq[k][2] = b
      BY <1>4
    <2>2. S = {}
      BY <1>1, <2>1 DEF Unique
    <2>3. K = {k}
      BY <1>1, <2>1 DEF Unique
    <2>4. Cardinality(S) = 0 /\ Cardinality(K) = 1
      BY <2>2, <2>3, FS_Singleton, FS_EmptySet
    <2> QED BY <1>2, <2>4
  <1> QED BY <1>1, <1>3, <1>4 DEF Uses

(* A fragment buffer is never in two operations, so no datagram overwrites a   *)
(* fragment still to be written; the counters that decide the submissions of   *)
(* recv_file count its operations; and send_file never reads a chunk into the  *)
(* buffer it sends from.                                                       *)
THEOREM BuffersHaveOneOwner == Spec => []BuffersOwned
  <1>1. ASSUME UdpInv PROVE BuffersOwned
    <2>1. SendTypeOK /\ SendsOK /\ ReadsOK /\ RecvInv
      BY <1>1 DEF UdpInv, SendInv
    <2>2. ASSUME rpc = "chunk" PROVE pending_recvs = Pending("recv") /\ pending_writes = Pending("write")
      <3>1. /\ rcq \in Seq(Cqes) /\ rsq \union rops \subseteq Sqes /\ Unique(rsq, rops, rcq)
            /\ pending_recvs = Cardinality(Uses(rsq, rops, rcq, "recv"))
            /\ pending_writes = Cardinality(Uses(rsq, rops, rcq, "write"))
        BY <2>1, <2>2 DEF RecvInv, RecvTypeOK, OwnOK
      <3> QED BY <3>1, OperationsCounted DEF Pending
    <2>3. ASSUME NEW c \in {queued_read, reading} \ {None}, sending # << >> \/ ssq # << >>
          PROVE  BufferOf(c) # BufferOf(chunk_idx)
      <3>1. c = chunk_idx + 1 /\ chunk_idx \in Nat
        BY <2>1, <2>3 DEF SendTypeOK, ReadsOK, ReadIs
      <3> QED BY <3>1, BuffersAlternate
    <2> QED BY <2>1, <2>2, <2>3, OwnedOnce DEF BuffersOwned
  <1> QED BY <1>1, UdpCorrect, PTL

(* As long as its last io_uring_submit took all that was queued, recv_file has *)
(* no wait that nothing can end: fewer queued operations than the threshold    *)
(* are never all there is, and the last fragment submits them.  (A submission  *)
(* that failed or took a part is what the condition leaves out.)               *)
THEOREM NeverWaitsInVain == Spec => []NeverStalled
  <1>1. ASSUME UdpInv PROVE NeverStalled
    <2> SUFFICES ASSUME ~ short, InLoop, rcq = << >>
                 PROVE  IF frag_remaining > 0 THEN rops # {} ELSE \A sqe \in rsq : sqe.op = "recv"
      BY DEF NeverStalled
    <2>1. RecvTypeOK /\ OwnOK /\ rpc = "chunk"
      BY <1>1 DEF UdpInv, RecvInv, InLoop
    <2>2. ASSUME rops = {} PROVE FALSE
      <3> DEFINE R == Queued(rsq, "recv")
                 W == Queued(rsq, "write")
      <3>1. Uses(rsq, rops, rcq, "recv") = R /\ Uses(rsq, rops, rcq, "write") = W
        BY <2>2 DEF Uses, Queued
      <3>2. R \union W = Bufs
        BY <2>1, <3>1 DEF OwnOK
      <3>3. /\ IsFiniteSet(R) /\ Cardinality(R) \in Nat /\ IsFiniteSet(W) /\ Cardinality(W) \in Nat
        BY UsesFinite
      <3>4. /\ Cardinality(Bufs) = UDP_FRAG_BUFS /\ UDP_FRAG_BUFS \in Nat \ {0}
            /\ flush_threshold \in Nat /\ 2 * flush_threshold <= UDP_FRAG_BUFS
        BY BufsFinite, UdpAssumption
      <3>5. 0 \in Bufs
        BY <3>4 DEF Bufs
      <3>6. rsq # {}
        BY <3>2, <3>5 DEF Queued
      <3>7. Cardinality(R) < flush_threshold /\ Cardinality(W) < flush_threshold
        BY <2>1, <3>6 DEF OwnOK, FewQueued, Ops
      <3> HIDE DEF R, W
      <3>8. Cardinality(R \union W) = Cardinality(R) + Cardinality(W) - Cardinality(R \intersect W)
        BY <3>3, FS_Union
      <3>9. Cardinality(R \intersect W) \in Nat
        <4>1. R \intersect W \in SUBSET R
          OBVIOUS
        <4> QED BY <3>3, <4>1, FS_Subset, FS_CardinalityType
      <3>10. UDP_FRAG_BUFS = Cardinality(R) + Cardinality(W) - Cardinality(R \intersect W)
        BY <3>2, <3>4, <3>8
      <3>11. \A u, v, w, t, n \in Nat : ~ (u < t /\ v < t /\ 2 * t <= n /\ n = u + v - w)
        OBVIOUS
      <3>12. UDP_FRAG_BUFS \in Nat
        BY <3>4
      <3> QED BY <3>3, <3>4, <3>7, <3>9, <3>10, <3>11, <3>12
    <2>3. ASSUME ~ (frag_remaining > 0), NEW s \in rsq PROVE s.op = "recv"
      <3>1. frag_remaining = Missing(len, rchunk, received)
        BY Named DEF frag_remaining, Missing
      <3>2. Missing(len, rchunk, received) \in Int
        BY <2>1, FragmentsLeft DEF RecvTypeOK, OwnOK
      <3>3. Queued(rsq, "write") = {}
        BY <2>1, <2>3, <3>1, <3>2 DEF OwnOK
      <3>4. s.op \in {"recv", "write"} /\ s.buf \in Bufs
        BY <2>1 DEF RecvTypeOK, Sqes, Ops
      <3> QED BY <3>3, <3>4 DEF Queued
    <2> QED BY <2>2, <2>3
  <1> QED BY <1>1, UdpCorrect, PTL

(* An acknowledged chunk is in the file, byte for byte, unless a fragment of   *)
(* another chunk came into it.                                                 *)
THEOREM AcknowledgedIsOnDisk == Spec => []AckedOnDisk
  <1>1. ASSUME UdpInv PROVE AckedOnDisk
    <2> SUFFICES ASSUME ~ stale, NEW c \in 0 .. rchunk - 1, NEW i \in Places(c) PROVE disk[i] = i
      BY DEF AckedOnDisk
    <2>1. RecvTypeOK /\ DataOK /\ c \in Nat
      <3>1. RecvTypeOK /\ DataOK
        BY <1>1 DEF UdpInv, RecvInv
      <3> QED BY <3>1 DEF RecvTypeOK
    <2>2. len \in Nat /\ DOMAIN disk = 0 .. len - 1
      BY <2>1 DEF RecvTypeOK
    <2> DEFINE a == c * CHUNK_SIZE
    <2>3. i \in a .. a + ChunkLen(len, c) - 1
      BY Named DEF Places
    <2>4. a \in Nat /\ ChunkLen(len, c) \in Int
      BY <2>1, <2>2, UdpAssumption, LengthsAreInts
    <2>5. ChunkLen(len, c) <= len - a
      <3>1. CHUNK_SIZE \in Int /\ len - a \in Int
        BY <2>2, <2>4, UdpAssumption
      <3>2. ChunkLen(len, c) = Smaller(len - a, CHUNK_SIZE)
        BY DEF ChunkLen
      <3> HIDE DEF a
      <3> QED BY <3>1, <3>2 DEF Smaller
    <2> HIDE DEF a
    <2>6. a <= i /\ i < a + ChunkLen(len, c) /\ i \in 0 .. len - 1
      BY <2>2, <2>3, <2>4, <2>5
    <2> QED BY <2>1, <2>2, <2>6 DEF DataOK, a
  <1> QED BY <1>1, UdpCorrect, PTL

----------------------------------------------------------------------------
(* Type correctness                                                         *)

(* Where each side is in the file, and the bounded counters. *)
SenderAt ==
    /\ chunk_idx \in 0 .. chunk_count
    /\ spc \in Sending \union {"ack"} => chunk_idx < chunk_count
    /\ queued_read \in Chunks \union {None, 0} /\ reading \in Chunks \union {None, 0}
ReceiverAt ==
    /\ rchunk \in 0 .. chunk_count
    /\ rpc = "chunk" => rchunk < chunk_count
    /\ rpc = "post" => rchunk = 0
    /\ pending_writes \in 0 .. UDP_FRAG_BUFS /\ pending_recvs \in 0 .. UDP_FRAG_BUFS
Counted ==
    /\ len \in FileSizes
    /\ dups \in 0 .. MaxDups /\ losses \in 0 .. MaxLosses
    /\ faults \in Nat /\ submitFaults \in Nat /\ faults + submitFaults <= MaxFaults
At == SenderAt /\ ReceiverAt /\ Counted

LEMMA ChunksCounted == ASSUME len \in FileSizes PROVE len \in Nat /\ chunk_count \in Nat
  <1>1. len \in Nat /\ CHUNK_SIZE \in Nat \ {0}
    BY UdpAssumption
  <1>2. len + CHUNK_SIZE - 1 \in Nat
    BY <1>1
  <1>3. (len + CHUNK_SIZE - 1) \div CHUNK_SIZE \in Nat
    BY <1>1, <1>2, DivIs
  <1> QED BY <1>1, <1>3 DEF chunk_count, CeilDiv

LEMMA UsesInRange ==
    ASSUME NEW q, NEW o, NEW c, NEW op
    PROVE  Cardinality(Uses(q, o, c, op)) \in 0 .. UDP_FRAG_BUFS
  <1>1. Uses(q, o, c, op) \in SUBSET Bufs
    BY DEF Uses
  <1>2. /\ Cardinality(Uses(q, o, c, op)) \in Nat
        /\ Cardinality(Uses(q, o, c, op)) <= UDP_FRAG_BUFS
    BY <1>1, BufsFinite, FS_Subset, FS_CardinalityType
  <1> QED BY <1>2, UdpAssumption

(* A submission fails only below the bound. *)
LEMMA TakenCounted ==
    ASSUME Counted, len' = len, UNCHANGED <<dups, losses, faults>>,
           UNCHANGED submitFaults \/ \E all \in BOOLEAN : Taken(all)
    PROVE  Counted'
  <1>1. faults \in Nat /\ submitFaults \in Nat /\ MaxFaults \in Nat /\ faults + submitFaults <= MaxFaults
    BY UdpAssumption DEF Counted
  <1>2. submitFaults' = submitFaults
          \/ (faults + submitFaults < MaxFaults /\ submitFaults' = submitFaults + 1)
    BY DEF Taken
  <1>3. submitFaults' \in Nat /\ faults + submitFaults' <= MaxFaults
    BY <1>1, <1>2
  <1> QED BY <1>1, <1>3 DEF Counted

LEMMA SenderAtStep == ASSUME At, SenderStep PROVE At'
  <1>1. /\ SenderAt /\ ReceiverAt /\ Counted
        /\ UNCHANGED <<len, rpc, rchunk, pending_writes, pending_recvs, dups, losses, faults>>
    BY DEF At, SenderStep, receiverVars, chunkVars, netVars
  <1>2. chunk_count \in Nat /\ chunk_count' = chunk_count /\ Chunks' = Chunks
    BY <1>1, ChunksCounted DEF Counted, chunk_count, Chunks
  <1>3. Counted'
    <2>1. UNCHANGED submitFaults \/ \E all \in BOOLEAN : Taken(all)
      <3>1. ASSUME NEW c, SubmitRead(c) PROVE \E all \in BOOLEAN : Taken(all)
        BY <3>1 DEF SubmitRead
      <3>2. ASSUME TakeFrags PROVE \E all \in BOOLEAN : Taken(all)
        <4>1. (\E n \in 0 .. Len(ssq) : Taken(n = Len(ssq))) \/ Taken(FALSE)
          BY <3>2 DEF TakeFrags
        <4> QED BY <4>1
      <3> QED BY <3>1, <3>2 DEF SenderStep, RecvReady, TcpClosed, WaitRead, StartChunk, QueueFrag,
                                SubmitFrags, ReapSend, RecvAck
    <2> QED BY <1>1, <2>1, TakenCounted
  <1>4. ReceiverAt'
    BY <1>1, <1>2 DEF ReceiverAt
  <1>5. SenderAt'
    <2>1. ASSUME NEW c \in Chunks \union {0}, SubmitRead(c)
          PROVE  queued_read' \in Chunks \union {None, 0} /\ reading' \in Chunks \union {None, 0}
      BY <1>1, <2>1 DEF SubmitRead, SenderAt
    <2>2. CASE RecvReady
      <3>1. chunk_idx' = chunk_idx /\ spc' = "wait_read" /\ SubmitRead(0)
        BY <2>2 DEF RecvReady
      <3> QED BY <1>1, <1>2, <2>1, <3>1 DEF SenderAt, Sending
    <2>3. CASE TcpClosed \/ WaitRead
      BY <1>1, <1>2, <2>3 DEF TcpClosed, WaitRead, readVars, SenderAt, Sending
    <2>4. CASE StartChunk
      <3>1. chunk_idx' = chunk_idx /\ chunk_idx \in 0 .. chunk_count
        BY <1>1, <2>4 DEF StartChunk, SenderAt
      <3>2. spc' \in Sending \union {"ack"} => chunk_idx < chunk_count
        BY <2>4 DEF StartChunk, Sending
      <3>3. \/ UNCHANGED <<queued_read, reading>>
            \/ SubmitRead(chunk_idx + 1) /\ chunk_idx + 1 < chunk_count
        BY <2>4 DEF StartChunk, readVars
      <3>4. chunk_idx + 1 < chunk_count => chunk_idx + 1 \in Chunks
        BY <1>2, <3>1 DEF Chunks
      <3>5. queued_read' \in Chunks \union {None, 0} /\ reading' \in Chunks \union {None, 0}
        BY <1>1, <2>1, <3>3, <3>4 DEF SenderAt
      <3> QED BY <1>2, <3>1, <3>2, <3>5 DEF SenderAt
    <2>5. CASE QueueFrag
      BY <1>1, <1>2, <2>5 DEF QueueFrag, readVars, SenderAt, Sending, Ended
    <2>6. CASE SubmitFrags
      <3>1. spc \in Sending /\ chunk_idx' = chunk_idx
        BY <2>6 DEF SubmitFrags, Sending
      <3>2. queued_read' \in {None, queued_read} /\ reading' \in {reading, queued_read}
        BY <2>6 DEF SubmitFrags, TakeFrags, readVars
      <3> QED BY <1>1, <1>2, <3>1, <3>2 DEF SenderAt
    <2>7. CASE ReapSend
      <3>1. spc \in Sending /\ UNCHANGED <<chunk_idx, queued_read, reading>>
        BY <2>7 DEF ReapSend, readVars, Sending
      <3> QED BY <1>1, <1>2, <3>1 DEF SenderAt
    <2>8. CASE RecvAck
      <3>1. /\ UNCHANGED <<queued_read, reading>> /\ spc = "ack" /\ spc' \notin Sending \union {"ack"}
            /\ chunk_idx' = chunk_idx \/ chunk_idx' = chunk_idx + 1
        BY <2>8 DEF RecvAck, readVars, Sending
      <3>2. chunk_idx' \in 0 .. chunk_count
        BY <1>1, <1>2, <3>1 DEF SenderAt
      <3> QED BY <1>1, <1>2, <3>1, <3>2 DEF SenderAt
    <2> QED BY <2>2, <2>3, <2>4, <2>5, <2>6, <2>7, <2>8 DEF SenderStep
  <1> QED BY <1>3, <1>4, <1>5 DEF At

LEMMA ReceiverAtStep == ASSUME At, OwnOK', ReceiverStep PROVE At'
  <1>1. /\ SenderAt /\ ReceiverAt /\ Counted
        /\ UNCHANGED <<len, spc, chunk_idx, queued_read, reading, dups, losses, faults>>
    BY DEF At, ReceiverStep, senderVars, readVars, netVars
  <1>2. chunk_count \in Nat /\ chunk_count' = chunk_count /\ Chunks' = Chunks
    BY <1>1, ChunksCounted DEF Counted, chunk_count, Chunks
  <1>3. SenderAt' /\ Counted'
    <2>1. UNCHANGED submitFaults \/ \E all \in BOOLEAN : Taken(all)
      <3>1. ASSUME NEW q, Submit(q) PROVE \E all \in BOOLEAN : Taken(all)
        <4>1. \E left : Taken(left = {})
          BY <3>1 DEF Submit
        <4> QED BY <4>1
      <3>2. ASSUME NEW s, NEW due, Queue(s, due) PROVE UNCHANGED submitFaults \/ \E all \in BOOLEAN : Taken(all)
        BY <3>1, <3>2 DEF Queue
      <3>3. CASE PostRecvs
        BY <3>1, <3>3 DEF PostRecvs
      <3>4. CASE Throws \/ SendAck
        BY <3>4 DEF Throws, SendAck
      <3>5. CASE RecvDuplicate \/ WriteDone
        BY <3>2, <3>5 DEF RecvDuplicate, WriteDone, Reclaim
      <3>6. CASE RecvFragment
        BY <3>2, <3>6 DEF RecvFragment
      <3> QED BY <3>3, <3>4, <3>5, <3>6 DEF ReceiverStep
    <2> QED BY <1>1, <1>2, <2>1, TakenCounted DEF SenderAt
  <1>4. rpc' = "chunk" => pending_writes' \in 0 .. UDP_FRAG_BUFS /\ pending_recvs' \in 0 .. UDP_FRAG_BUFS
    BY UsesInRange DEF OwnOK
  <1>5. ReceiverAt'
    <2>1. CASE PostRecvs
      <3>1. /\ rpc = "post" /\ rchunk' = rchunk /\ pending_writes' = pending_writes
            /\ pending_recvs' = UDP_FRAG_BUFS
            /\ rpc' = IF chunk_count = 0 THEN "done" ELSE "chunk"
        BY <2>1 DEF PostRecvs
      <3>2. UDP_FRAG_BUFS \in Nat /\ rchunk = 0 /\ pending_writes \in 0 .. UDP_FRAG_BUFS
        BY <1>1, <3>1, UdpAssumption DEF ReceiverAt
      <3>3. pending_recvs' \in 0 .. UDP_FRAG_BUFS /\ pending_writes' \in 0 .. UDP_FRAG_BUFS
        BY <3>1, <3>2
      <3>4. rpc' = "chunk" => 0 < chunk_count
        BY <1>2, <3>1
      <3> QED BY <1>2, <3>1, <3>2, <3>3, <3>4 DEF ReceiverAt
    <2>2. CASE Throws
      BY <1>1, <1>2, <2>2 DEF Throws, chunkVars, ReceiverAt
    <2>3. CASE RecvDuplicate \/ RecvFragment \/ WriteDone
      <3>1. rpc = "chunk" /\ rpc' = rpc /\ rchunk' = rchunk
        BY <2>3 DEF RecvDuplicate, RecvFragment, WriteDone, InLoop
      <3> QED BY <1>1, <1>2, <1>4, <3>1 DEF ReceiverAt
    <2>4. CASE SendAck
      <3>1. /\ rpc = "chunk" /\ rchunk' = rchunk + 1 /\ pending_writes' = 0 /\ pending_recvs' = pending_recvs
            /\ rpc' = IF rchunk + 1 < chunk_count THEN "chunk" ELSE "done"
        BY <2>4 DEF SendAck
      <3>2. rchunk \in 0 .. chunk_count /\ rchunk < chunk_count /\ pending_recvs \in 0 .. UDP_FRAG_BUFS
        BY <1>1, <3>1 DEF ReceiverAt
      <3>3. rchunk' \in 0 .. chunk_count
        BY <1>2, <3>1, <3>2
      <3>4. 0 \in 0 .. UDP_FRAG_BUFS
        BY UdpAssumption
      <3>5. rpc' # "post" /\ (rpc' = "chunk" => rchunk' < chunk_count)
        BY <3>1
      <3> QED BY <1>2, <3>1, <3>2, <3>3, <3>4, <3>5 DEF ReceiverAt
    <2> QED BY <2>1, <2>2, <2>3, <2>4 DEF ReceiverStep
  <1> QED BY <1>3, <1>5 DEF At

LEMMA OthersAtStep == ASSUME At, Kernel \/ Duplicate \/ Lose \/ UNCHANGED vars PROVE At'
  <1>1. /\ SenderAt /\ ReceiverAt /\ Counted
        /\ UNCHANGED <<len, spc, chunk_idx, rpc, rchunk, pending_writes, pending_recvs>>
        /\ queued_read' = queued_read /\ (reading' = reading \/ reading' = None)
    BY DEF At, Kernel, KernelRead, KernelSend, KernelRecv, KernelWrite, Duplicate, Lose, vars,
           senderVars, readVars, receiverVars, chunkVars
  <1>2. chunk_count' = chunk_count /\ Chunks' = Chunks
    BY <1>1 DEF chunk_count, Chunks
  <1>3. SenderAt' /\ ReceiverAt'
    BY <1>1, <1>2 DEF SenderAt, ReceiverAt
  <1>4. /\ dups' = dups \/ (dups < MaxDups /\ dups' = dups + 1)
        /\ losses' = losses \/ (losses < MaxLosses /\ losses' = losses + 1)
        /\ faults' = faults \/ (faults + submitFaults < MaxFaults /\ faults' = faults + 1)
        /\ submitFaults' = submitFaults
    BY DEF Kernel, KernelRead, KernelSend, KernelRecv, KernelWrite, Completes, Duplicate, Lose, vars, netVars, faultVars
  <1>5. MaxDups \in Nat /\ MaxLosses \in Nat /\ MaxFaults \in Nat
    BY UdpAssumption
  <1>6. Counted'
    <2>1. dups \in 0 .. MaxDups /\ losses \in 0 .. MaxLosses
          /\ faults \in Nat /\ submitFaults \in Nat /\ faults + submitFaults <= MaxFaults
      BY <1>1 DEF Counted
    <2>2. dups' \in 0 .. MaxDups /\ losses' \in 0 .. MaxLosses
          /\ faults' \in Nat /\ submitFaults' \in Nat /\ faults' + submitFaults' <= MaxFaults
      BY <1>4, <1>5, <2>1
    <2> QED BY <1>1, <2>2 DEF Counted
  <1> QED BY <1>3, <1>6 DEF At

(* Both loops keep their variables in their types: at most QUEUE_DEPTH sends   *)
(* pending, at most one operation counted per buffer, chunks of the file.      *)
THEOREM UdpTyping == Spec => []TypeOK
  <1>1. Init => At
    <2> SUFFICES ASSUME Init PROVE At
      OBVIOUS
    <2>1. len \in FileSizes /\ chunk_count \in Nat
      BY ChunksCounted DEF Init
    <2>2. UDP_FRAG_BUFS \in Nat /\ MaxDups \in Nat /\ MaxLosses \in Nat /\ MaxFaults \in Nat
      BY UdpAssumption
    <2> QED BY <2>1, <2>2 DEF Init, At, SenderAt, ReceiverAt, Counted, Sending
  <1>2. UdpInv' /\ At /\ [Next]_vars => At'
    BY SenderAtStep, ReceiverAtStep, OthersAtStep DEF Next, UdpInv, RecvInv
  <1>3. UdpInv /\ At => TypeOK
    <2> SUFFICES ASSUME UdpInv, At PROVE TypeOK
      OBVIOUS
    <2>1. rpc = "chunk" => received \subseteq 0 .. frag_count(rchunk) - 1
      BY Named DEF UdpInv, RecvInv, OwnOK, Fragments
    <2>2. /\ spc \in SendPlaces /\ pending_frags \in 0 .. QUEUE_DEPTH /\ stash \in {"none", "ok", "err"}
          /\ rpc \in RecvPlaces /\ stale \in BOOLEAN /\ short \in BOOLEAN
      BY DEF UdpInv, SendInv, SendTypeOK, RecvInv, RecvTypeOK
    <2> QED BY <2>1, <2>2 DEF TypeOK, At, SenderAt, ReceiverAt, Counted, SendPlaces, RecvPlaces
  <1> QED BY <1>1, <1>2, <1>3, UdpCorrect, PTL DEF Spec
=============================================================================
