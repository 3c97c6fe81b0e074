----------------------------- MODULE HashProofs -----------------------------
(* Theorems about HashCache, for every number of processes and of cores,    *)
(* every chunk size, any sizes of the file and any number of edits.         *)
EXTENDS HashCache, FiniteSetTheorems, TLAPS

USE HashAssumption

----------------------------------------------------------------------------
(* Chunks, cells and slots                                                  *)

LEMMA DivBounds ==
    ASSUME NEW s \in Nat
    PROVE  /\ s \div CHUNK_SIZE \in Nat
           /\ CHUNK_SIZE * (s \div CHUNK_SIZE) <= s
           /\ s < CHUNK_SIZE * (s \div CHUNK_SIZE) + CHUNK_SIZE
  BY SMT

(* A file that is not empty has a chunk, and threads to hash it. *)
LEMMA ChunkCount ==
    ASSUME NEW s \in Nat
    PROVE  /\ chunk_count(s) \in Nat
           /\ s > 0 => chunk_count(s) > 0
           /\ num_workers(s) \in 0 .. Cores
           /\ chunk_count(s) > 0 => num_workers(s) > 0
  <1>1. s + CHUNK_SIZE - 1 \in Nat
    OBVIOUS
  <1>2. /\ chunk_count(s) \in Nat
        /\ s + CHUNK_SIZE - 1 < CHUNK_SIZE * chunk_count(s) + CHUNK_SIZE
    BY <1>1, DivBounds DEF chunk_count
  <1>3. s > 0 => chunk_count(s) # 0
    BY <1>2
  <1> QED BY <1>2, <1>3 DEF num_workers

LEMMA HashType ==
    ASSUME NEW f \in Nat, NEW i \in Nat, NEW s \in Nat
    PROVE  /\ chunk_len(s, i) \in Int
           /\ sha256(f, i, chunk_len(s, i)) \in Hashes
  <1>1. (i - 1) * CHUNK_SIZE \in Int
    OBVIOUS
  <1>2. chunk_len(s, i) \in Int
    BY <1>1 DEF chunk_len
  <1> QED BY <1>2 DEF sha256, Hashes

LEMMA ZeroType == ZeroHash \in Hashes
  BY DEF ZeroHash, sha256, Hashes

(* What the processes keep in memory. *)
Places == {"idle", "sized", "loading", "missed", "hashing", "unwinding",
           "saving", "writing", "done", "failed", "killed"}
MetaSizes == Sizes \union {0}
Metas == [size : MetaSizes, mtime : Nat, hashes : Seq(Hashes)]
Threads == [at : {"unborn", "free", "reading", "ended", "threw"}, chunk : Nat, saw : Nat]

(* The cells of the cache are a sequence. *)
CacheIsSeq == cache \in Seq(Nat \union Hashes)

LEMMA SizeType == ASSUME NEW s \in Sizes \union {0} PROVE s \in Nat
  <1>1. s \in Sizes \/ s = 0
    OBVIOUS
  <1>2. s \in Sizes => s \in Nat
    OBVIOUS
  <1> QED BY <1>1, <1>2

LEMMA MetaSize ==
    ASSUME NEW m \in Metas
    PROVE  m.size \in Nat /\ m.mtime \in Nat
  <1>1. m.size \in MetaSizes /\ m.mtime \in Nat
    BY DEF Metas
  <1> QED BY <1>1, SizeType DEF MetaSizes

LEMMA MakeMeta ==
    ASSUME NEW z \in MetaSizes, NEW t \in Nat, NEW h \in Seq(Hashes)
    PROVE  [size |-> z, mtime |-> t, hashes |-> h] \in Metas
  BY DEF Metas

LEMMA NewMeta ==
    ASSUME NEW m \in Metas, NEW t \in Nat, NEW h \in Seq(Hashes)
    PROVE  /\ [m EXCEPT !.mtime = t] \in Metas
           /\ [m EXCEPT !.hashes = h] \in Metas
  BY DEF Metas

LEMMA CellType ==
    ASSUME NEW m \in Metas, NEW k \in 1 .. LastCell(m),
           Len(m.hashes) = chunk_count(m.size)
    PROVE  IF k <= Fields THEN Cell(m, k) \in Nat ELSE Cell(m, k) \in Hashes
  <1>1. m.size \in Nat /\ m.mtime \in Nat
    BY MetaSize
  <1> chunk_count(m.size) \in Nat
    BY <1>1, ChunkCount
  <1>2. CASE k <= Fields
    <2>1. k \in {1, 2, 3, 4}
      BY <1>1, <1>2 DEF Fields, LastCell
    <2> QED BY <1>1, <1>2, <2>1 DEF Cell, Header
  <1>3. CASE ~ (k <= Fields)
    <2>1. k - Fields \in 1 .. Len(m.hashes)
      BY <1>1, <1>3 DEF Fields, LastCell
    <2> QED BY <1>3, <2>1 DEF Cell, Metas
  <1> QED BY <1>2, <1>3

(* write(2) at the next cell. *)
LEMMA PutCell ==
    ASSUME CacheIsSeq, TypeOK, NEW k \in Nat \ {0}, NEW v,
           IF k <= Fields THEN v \in Nat ELSE v \in Hashes
    PROVE  /\ Put(k, v) \in Seq(Nat \union Hashes)
           /\ Len(Put(k, v)) = IF k > Len(cache) THEN k ELSE Len(cache)
           /\ Put(k, v)[k] = v
           /\ \A i \in 1 .. Len(cache) : i # k => Put(k, v)[i] = cache[i]
           /\ \A i \in 1 .. Len(Put(k, v)) :
                IF i <= Fields THEN Put(k, v)[i] \in Nat ELSE Put(k, v)[i] \in Hashes
  <1> DEFINE n == IF k > Len(cache) THEN k ELSE Len(cache)
             P(i) == IF i = k THEN v ELSE IF i <= Len(cache) THEN cache[i] ELSE Hole(i)
  <1>1. Len(cache) \in Nat /\ DOMAIN cache = 1 .. Len(cache) /\ n \in Nat /\ k \in 1 .. n
    BY DEF CacheIsSeq
  <1>2. ASSUME NEW i \in 1 .. n
        PROVE  IF i <= Fields THEN P(i) \in Nat ELSE P(i) \in Hashes
    <2>0. \A j \in DOMAIN cache : IF j <= Fields THEN cache[j] \in Nat ELSE cache[j] \in Hashes
      BY DEF TypeOK
    <2>1. i <= Len(cache) => IF i <= Fields THEN cache[i] \in Nat ELSE cache[i] \in Hashes
      BY <1>1, <2>0
    <2>2. IF i <= Fields THEN Hole(i) \in Nat ELSE Hole(i) \in Hashes
      BY ZeroType DEF Hole
    <2> QED BY <2>1, <2>2
  <1>3. \A i \in 1 .. n : P(i) \in Nat \union Hashes
    BY <1>2
  <1>4. Put(k, v) = [i \in 1 .. n |-> P(i)]
    BY DEF Put
  <1> HIDE DEF P
  <1>5. Put(k, v) \in Seq(Nat \union Hashes) /\ Len(Put(k, v)) = n
    BY <1>1, <1>3, <1>4
  <1>6. Put(k, v)[k] = v /\ \A i \in 1 .. Len(cache) : i # k => Put(k, v)[i] = cache[i]
    BY <1>1, <1>4 DEF P
  <1>7. \A i \in 1 .. n : IF i <= Fields THEN Put(k, v)[i] \in Nat ELSE Put(k, v)[i] \in Hashes
    BY <1>2, <1>4
  <1> QED BY <1>5, <1>6, <1>7

----------------------------------------------------------------------------
(* One process: what WorkInv says of it, and steps that leave the others alone *)

Shapes ==
    /\ pc = [p \in Pushers |-> pc[p]] /\ meta = [p \in Pushers |-> meta[p]]
    /\ pos = [p \in Pushers |-> pos[p]] /\ next = [p \in Pushers |-> next[p]]
    /\ worker = [p \in Pushers |-> worker[p]]
    /\ mapped = [p \in Pushers |-> mapped[p]] /\ runs = [p \in Pushers |-> runs[p]]

LocalType(p) ==
    /\ pc[p] \in Places /\ meta[p] \in Metas
    /\ pos[p] \in Nat \ {0} /\ next[p] \in Nat \ {0}
    /\ worker[p] \in [Ids -> Threads]
    /\ mapped[p] \in BOOLEAN /\ runs[p] \in Nat

Local(p) == LocalType(p) /\ ClaimsOK(p) /\ SlotsOK(p)

FileOK == file \in [size : Sizes, mtime : Nat \ {0}]
CacheOK ==
    /\ CacheIsSeq
    /\ \A k \in 1 .. Len(cache) : IF k <= Fields THEN cache[k] \in Nat ELSE cache[k] \in Hashes

WholeInv == Shapes /\ FileOK /\ CacheOK /\ \A p \in Pushers : Local(p)

(* WholeInv is WorkInv, told process by process. *)
LEMMA WholeIsWork == WholeInv => WorkInv
  <1> SUFFICES ASSUME WholeInv PROVE WorkInv
    OBVIOUS
  <1>1. TypeOK
    <2>1. DOMAIN cache = 1 .. Len(cache)
      BY DEF WholeInv, CacheOK, CacheIsSeq
    <2>2. \A k \in DOMAIN cache : IF k <= Fields THEN cache[k] \in Nat ELSE cache[k] \in Hashes
      BY <2>1 DEF WholeInv, CacheOK
    <2>3. /\ pc \in [Pushers -> Places] /\ meta \in [Pushers -> Metas]
          /\ pos \in [Pushers -> Nat \ {0}] /\ next \in [Pushers -> Nat \ {0}]
          /\ worker \in [Pushers -> [Ids -> Threads]]
          /\ mapped \in [Pushers -> BOOLEAN] /\ runs \in [Pushers -> Nat]
      BY DEF WholeInv, Shapes, Local, LocalType
    <2>4. ASSUME NEW p \in Pushers, NEW k \in Ids, worker[p][k].at = "reading"
          PROVE  worker[p][k].chunk \in DOMAIN meta[p].hashes
      <3>1. DOMAIN meta[p].hashes = 1 .. Len(meta[p].hashes)
        BY <2>3 DEF Metas
      <3> QED BY <2>4, <3>1 DEF WholeInv, Local, ClaimsOK
    <2> QED BY <2>2, <2>3, <2>4 DEF TypeOK, WholeInv, FileOK, Places, Metas, MetaSizes, Threads
  <1> QED BY <1>1 DEF WholeInv, Local, WorkInv

LEMMA WorkSuffices == WorkInv => MappingHeld /\ OneThreadPerChunk
  BY DEF WorkInv, ClaimsOK, SlotsOK, MappingHeld, OneThreadPerChunk, Hashing

(* A step that touches no other process need only be good for its own. *)
Alone(p) ==
    \A q \in Pushers \ {p} :
        /\ pc'[q] = pc[q] /\ meta'[q] = meta[q] /\ pos'[q] = pos[q] /\ next'[q] = next[q]
        /\ worker'[q] = worker[q] /\ mapped'[q] = mapped[q] /\ runs'[q] = runs[q]

LEMMA OneProcess ==
    ASSUME WholeInv, NEW p \in Pushers, Alone(p),
           Shapes', FileOK', CacheOK', Local(p)'
    PROVE  WholeInv'
  <1> SUFFICES ASSUME NEW q \in Pushers \ {p} PROVE Local(q)'
    BY DEF WholeInv
  <1> QED BY DEF WholeInv, Alone, Local, LocalType, ClaimsOK, SlotsOK, Hashing

----------------------------------------------------------------------------
(* Each action preserves it                                                 *)

LEMMA WorkInit == Init => WholeInv
  <1> SUFFICES ASSUME Init PROVE WholeInv
    OBVIOUS
  <1> USE DEF Init
  <1>1. Shapes
    BY DEF Shapes
  <1>2. FileOK /\ CacheOK
    <2>1. <<>> \in Seq(Nat \union Hashes) /\ Len(<<>>) = 0
      OBVIOUS
    <2> QED BY <2>1 DEF FileOK, CacheOK, CacheIsSeq
  <1>3. ASSUME NEW p \in Pushers PROVE Local(p)
    <2>1. meta[p] \in Metas
      <3>1. <<>> \in Seq(Hashes) /\ 0 \in MetaSizes
        BY DEF MetaSizes
      <3> QED BY <3>1, MakeMeta
    <2>2. LocalType(p)
      BY <2>1 DEF LocalType, Places, Threads, Unborn
    <2>3. ClaimsOK(p) /\ SlotsOK(p)
      BY DEF ClaimsOK, SlotsOK, Hashing, Unborn, Running
    <2> QED BY <2>2, <2>3 DEF Local
  <1> QED BY <1>1, <1>2, <1>3 DEF WholeInv

LEMMA GetSizeWork == ASSUME WholeInv, NEW p \in Pushers, GetSize(p) PROVE WholeInv'
  <1>1. Shapes' /\ Alone(p)
    BY DEF WholeInv, Shapes, Alone, GetSize, Goto
  <1>2. FileOK' /\ CacheOK'
    BY DEF WholeInv, FileOK, CacheOK, CacheIsSeq, GetSize
  <1>3. /\ pc'[p] \in {"failed", "sized"}
        /\ meta'[p] = [size |-> file.size, mtime |-> 0, hashes |-> <<>>]
        /\ worker'[p] = [k \in Ids |-> Unborn] /\ mapped'[p] = FALSE
        /\ pos'[p] = pos[p] /\ next'[p] = next[p] /\ runs'[p] = runs[p] + 1
    BY DEF WholeInv, Shapes, GetSize, Goto
  <1>4. meta'[p] \in Metas
    <2>1. file.size \in MetaSizes
      BY DEF WholeInv, FileOK, MetaSizes
    <2>2. <<>> \in Seq(Hashes)
      OBVIOUS
    <2>3. [size |-> file.size, mtime |-> 0, hashes |-> <<>>] \in Metas
      BY <2>1, <2>2, MakeMeta
    <2> QED BY <1>3, <2>3
  <1>5. LocalType(p)'
    <2>1. Unborn \in Threads
      BY DEF Unborn, Threads
    <2>2. LocalType(p)
      BY DEF WholeInv, Local
    <2>3. worker'[p] \in [Ids -> Threads] /\ pc'[p] \in Places
      BY <1>3, <2>1 DEF Places
    <2>4. mapped'[p] \in BOOLEAN
      BY <1>3
    <2>5. pos'[p] \in Nat \ {0} /\ next'[p] \in Nat \ {0} /\ runs'[p] \in Nat
      BY <1>3, <2>2 DEF LocalType
    <2> QED BY <1>4, <2>3, <2>4, <2>5 DEF LocalType
  <1>6. ClaimsOK(p)' /\ SlotsOK(p)'
    BY <1>3 DEF ClaimsOK, SlotsOK, Hashing, Unborn, Running
  <1> QED BY <1>1, <1>2, <1>5, <1>6, OneProcess DEF Local

(* A process that does not hash, and neither saves nor writes after the step, *)
(* needs only its types.                                                      *)
LEMMA QuietStep ==
    ASSUME WholeInv, NEW p \in Pushers, ~ Hashing(p), LocalType(p)', worker'[p] = worker[p],
           ~ Hashing(p)', pc'[p] \notin {"saving", "writing"}
    PROVE  Local(p)'
  <1>1. \A k \in Ids : ~ Running(worker'[p][k])
    BY DEF WholeInv, Local, ClaimsOK
  <1> QED BY <1>1 DEF Local, ClaimsOK, SlotsOK, Running

LEMMA StatWork == ASSUME WholeInv, NEW p \in Pushers, Stat(p) PROVE WholeInv'
  <1> USE DEF Stat, Goto
  <1>1. Shapes' /\ Alone(p)
    BY DEF WholeInv, Shapes, Alone
  <1>2. FileOK' /\ CacheOK'
    BY DEF WholeInv, FileOK, CacheOK, CacheIsSeq
  <1>3. LocalType(p)'
    <2>1. meta'[p] = [meta[p] EXCEPT !.mtime = file.mtime] /\ file.mtime \in Nat
      BY DEF WholeInv, Shapes, FileOK
    <2>2. meta'[p] \in Metas
      BY <2>1, NewMeta DEF WholeInv, Local, LocalType, Metas
    <2> QED BY <2>2 DEF WholeInv, Shapes, Local, LocalType, Places
  <1>4. ~ Hashing(p) /\ ~ Hashing(p)' /\ pc'[p] \notin {"saving", "writing"} /\ worker'[p] = worker[p]
    BY DEF WholeInv, Shapes, Hashing
  <1> QED BY <1>1, <1>2, <1>3, <1>4, QuietStep, OneProcess

LEMMA LoadWork ==
    ASSUME WholeInv, NEW p \in Pushers, LoadCell(p) \/ LoadFails(p) PROVE WholeInv'
  <1>1. Shapes' /\ Alone(p)
    BY DEF WholeInv, Shapes, Alone, LoadCell, LoadFails, Goto
  <1>2. FileOK' /\ CacheOK'
    BY DEF WholeInv, FileOK, CacheOK, CacheIsSeq, LoadCell, LoadFails
  <1>3. LocalType(p)
    BY DEF WholeInv, Local
  <1>4. meta'[p] \in Metas
    <2>1. CASE meta' = meta
      BY <1>3, <2>1 DEF LocalType
    <2>2. CASE meta' # meta
      <3> DEFINE k == pos[p]
      <3>1. /\ k <= Len(cache) /\ k > Fields
            /\ meta' = [meta EXCEPT ![p].hashes = Append(@, cache[k])]
        BY <2>2 DEF LoadCell, LoadFails
      <3>2. cache[k] \in Hashes
        BY <1>3, <3>1 DEF LocalType, WholeInv, CacheOK, CacheIsSeq, Fields
      <3>3. meta[p].hashes \in Seq(Hashes) /\ Append(meta[p].hashes, cache[k]) \in Seq(Hashes)
        BY <1>3, <3>2 DEF LocalType, Metas
      <3>4. meta'[p] = [meta[p] EXCEPT !.hashes = Append(meta[p].hashes, cache[k])]
        BY <3>1 DEF WholeInv, Shapes
      <3> HIDE DEF k
      <3> QED BY <1>3, <3>3, <3>4, NewMeta DEF LocalType
    <2> QED BY <2>1, <2>2
  <1>5. LocalType(p)'
    BY <1>3, <1>4 DEF WholeInv, Shapes, LocalType, Places, LoadCell, LoadFails, Goto
  <1>6. ~ Hashing(p) /\ ~ Hashing(p)' /\ pc'[p] \notin {"saving", "writing"} /\ worker'[p] = worker[p]
    BY DEF WholeInv, Shapes, Hashing, LoadCell, LoadFails, Goto
  <1> QED BY <1>1, <1>2, <1>5, <1>6, QuietStep, OneProcess

LEMMA MapWork == ASSUME WholeInv, NEW p \in Pushers, Map(p) PROVE WholeInv'
  <1>1. Shapes' /\ Alone(p)
    BY DEF WholeInv, Shapes, Alone, Map, Goto
  <1>2. FileOK' /\ CacheOK'
    BY DEF WholeInv, FileOK, CacheOK, CacheIsSeq, Map
  <1>3. LocalType(p) /\ ~ Hashing(p) /\ \A k \in Ids : ~ Running(worker[p][k])
    BY DEF WholeInv, Local, ClaimsOK, Hashing, Map
  <1>4. CASE pc'[p] = "failed"
    <2>1. meta' = meta /\ mapped' = mapped /\ next' = next
      BY <1>4 DEF Map, Goto, WholeInv, Shapes
    <2>2. LocalType(p)'
      BY <1>3, <1>4, <2>1 DEF LocalType, Places, Map
    <2> QED BY <1>1, <1>2, <1>3, <1>4, <2>2, QuietStep, OneProcess DEF Map, Hashing
  <1>5. CASE pc'[p] # "failed"
    <2> DEFINE n == chunk_count(meta[p].size)
               h == [i \in 1 .. n |-> ZeroHash]
    <2>1. /\ meta'[p] = [meta[p] EXCEPT !.hashes = h]
          /\ mapped'[p] = TRUE /\ next'[p] = 1 /\ pc'[p] = "hashing"
          /\ pos' = pos /\ worker' = worker /\ runs' = runs
      BY <1>5 DEF Map, Goto, WholeInv, Shapes
    <2>2. n \in Nat
      BY <1>3, MetaSize, ChunkCount DEF LocalType
    <2> HIDE DEF n
    <2>3. h \in Seq(Hashes) /\ Len(h) = n /\ \A i \in 1 .. n : h[i] = ZeroHash
      BY <2>2, ZeroType
    <2>4. meta'[p] \in Metas /\ meta'[p].hashes = h /\ meta'[p].size = meta[p].size
      <3>1. [meta[p] EXCEPT !.hashes = h] \in Metas
        BY <1>3, <2>3, NewMeta DEF LocalType
      <3> QED BY <1>3, <2>1, <3>1 DEF LocalType, Metas
    <2>5. mapped'[p] \in BOOLEAN
      BY <2>1
    <2>6. LocalType(p)'
      BY <1>3, <2>1, <2>4, <2>5 DEF LocalType, Places
    <2>7. ClaimsOK(p)'
      BY <1>3, <2>1 DEF ClaimsOK, Running
    <2>8. SlotsOK(p)'
      BY <2>1, <2>3, <2>4 DEF SlotsOK, n
    <2> QED BY <1>1, <1>2, <2>6, <2>7, <2>8, OneProcess DEF Local
  <1> QED BY <1>4, <1>5

(* A thread that starts, or stops reading, leaves the slots as they are. *)
LEMMA ThreadWork ==
    ASSUME WholeInv, NEW p \in Pushers, NEW k \in Ids,
           NEW at \in {"free", "ended", "threw"}, Become(p, k, In(at, 0, 0)),
           Hashing(p), UNCHANGED <<file, cache, pc, meta, pos, next, mapped, runs>>
    PROVE  WholeInv'
  <1>1. Shapes' /\ Alone(p)
    BY DEF WholeInv, Shapes, Alone, Become
  <1>2. FileOK' /\ CacheOK'
    BY DEF WholeInv, FileOK, CacheOK, CacheIsSeq
  <1>3. LocalType(p) /\ ClaimsOK(p) /\ SlotsOK(p)
    BY DEF WholeInv, Local
  <1>4. worker'[p] = [worker[p] EXCEPT ![k] = In(at, 0, 0)] /\ In(at, 0, 0) \in Threads
    BY DEF Become, WholeInv, Shapes, In, Threads
  <1>5. worker'[p] \in [Ids -> Threads]
    BY <1>3, <1>4 DEF LocalType
  <1>6. LocalType(p)'
    BY <1>3, <1>5 DEF LocalType
  <1>7. \A j \in Ids : worker'[p][j].at = "reading" => worker'[p][j] = worker[p][j] /\ j # k
    BY <1>3, <1>4 DEF LocalType, In
  <1>8. ClaimsOK(p)'
    BY <1>3, <1>7 DEF ClaimsOK, Hashing
  <1>9. SlotsOK(p)'
    BY <1>3 DEF SlotsOK, Hashing
  <1> QED BY <1>1, <1>2, <1>6, <1>8, <1>9, OneProcess DEF Local

LEMMA SpawnWork ==
    ASSUME WholeInv, NEW p \in Pushers, NEW k \in Ids, Spawn(p, k) PROVE WholeInv'
  BY ThreadWork DEF Spawn, Toward, Hashing

LEMMA HashThrowsWork ==
    ASSUME WholeInv, NEW p \in Pushers, NEW k \in Ids, HashThrows(p, k) PROVE WholeInv'
  <1>1. Hashing(p)
    BY DEF WholeInv, Local, ClaimsOK, HashThrows, Running
  <1> QED BY <1>1, ThreadWork DEF HashThrows

LEMMA ClaimWork ==
    ASSUME WholeInv, NEW p \in Pushers, NEW k \in Ids, Claim(p, k) PROVE WholeInv'
  <1>1. Shapes' /\ Alone(p)
    BY DEF WholeInv, Shapes, Alone, Claim, Become
  <1>2. FileOK' /\ CacheOK'
    BY DEF WholeInv, FileOK, CacheOK, CacheIsSeq, Claim
  <1>3. LocalType(p) /\ ClaimsOK(p) /\ SlotsOK(p) /\ Hashing(p)
    BY DEF WholeInv, Local, ClaimsOK, Claim, Running
  <1>4. file.mtime \in Nat
    BY DEF WholeInv, FileOK
  <1> DEFINE n == chunk_count(meta[p].size)
             w == IF next[p] > n THEN In("ended", 0, 0) ELSE In("reading", next[p], file.mtime)
  <1>5. worker'[p] = [worker[p] EXCEPT ![k] = w]
    BY DEF Claim, Become, WholeInv, Shapes
  <1>6. n \in Nat /\ Len(meta[p].hashes) = n /\ next'[p] = next[p] + 1 /\ next[p] \in Nat \ {0}
    BY <1>3, MetaSize, ChunkCount DEF LocalType, SlotsOK, Claim, WholeInv, Shapes
  <1>7. w \in Threads
    BY <1>4, <1>6 DEF In, Threads
  <1>8. worker'[p] \in [Ids -> Threads]
    BY <1>3, <1>5, <1>7 DEF LocalType
  <1>9. LocalType(p)'
    BY <1>3, <1>6, <1>8 DEF LocalType, Claim
  <1>10. /\ \A j \in Ids \ {k} : worker'[p][j] = worker[p][j]
         /\ worker'[p][k].at = "reading" =>
              worker'[p][k].chunk = next[p] /\ next[p] \in 1 .. n
    BY <1>3, <1>5, <1>6 DEF LocalType, In
  <1>11. meta[p].hashes[next[p]] = ZeroHash \/ next[p] > n
    BY <1>3, <1>6 DEF SlotsOK
  <1> HIDE DEF n, w
  <1>12. ASSUME NEW j \in Ids, worker'[p][j].at = "reading"
         PROVE  /\ worker'[p][j].chunk \in 1 .. Len(meta'[p].hashes)
                /\ worker'[p][j].chunk < next'[p]
                /\ meta'[p].hashes[worker'[p][j].chunk] = ZeroHash
                /\ \A i \in Ids \ {j} : worker'[p][i].at = "reading"
                                        => worker'[p][i].chunk # worker'[p][j].chunk
    <2>1. CASE j = k
      <3>1. \A i \in Ids \ {k} : worker[p][i].at = "reading" => worker[p][i].chunk < next[p]
        BY <1>3 DEF ClaimsOK
      <3>2. \A i \in Ids \ {k} : worker[p][i].at = "reading" => worker[p][i].chunk # next[p]
        BY <1>6, <3>1
      <3> QED BY <1>6, <1>10, <1>11, <1>12, <2>1, <3>2 DEF Claim
    <2>2. CASE j # k
      <3>1. /\ worker[p][j].at = "reading" /\ worker[p][j].chunk \in 1 .. Len(meta[p].hashes)
            /\ worker[p][j].chunk < next[p] /\ meta[p].hashes[worker[p][j].chunk] = ZeroHash
            /\ \A i \in Ids \ {j} : worker[p][i].at = "reading"
                                    => worker[p][i].chunk # worker[p][j].chunk
        BY <1>3, <1>10, <1>12, <2>2 DEF ClaimsOK
      <3> QED BY <1>6, <1>10, <2>2, <3>1 DEF Claim
    <2> QED BY <2>1, <2>2
  <1>13. ClaimsOK(p)'
    BY <1>3, <1>12 DEF ClaimsOK, Hashing, Claim
  <1>14. SlotsOK(p)'
    BY <1>3, <1>6 DEF SlotsOK, Hashing, Claim, n
  <1> QED BY <1>1, <1>2, <1>9, <1>13, <1>14, OneProcess DEF Local

(* Whatever was seen of a chunk, its hash is one. *)
LEMMA SeenType ==
    ASSUME WholeInv, NEW p \in Pushers, NEW k \in Ids, NEW h \in Seen(p, worker[p][k])
    PROVE  h \in Hashes
  <1>1. /\ file.mtime \in Nat /\ file.size \in Nat
        /\ worker[p][k].saw \in Nat /\ worker[p][k].chunk \in Nat /\ meta[p].size \in Nat
    BY MetaSize DEF WholeInv, FileOK, Local, LocalType, Threads
  <1> DEFINE w == worker[p][k]
             s == IF file.size < meta[p].size THEN file.size ELSE meta[p].size
  <1>2. PICK v \in {w.saw, file.mtime, Mixed} : h = sha256(v, w.chunk, chunk_len(s, w.chunk))
    BY DEF Seen
  <1>3. v \in Nat /\ s \in Nat
    BY <1>1 DEF Mixed
  <1> QED BY <1>1, <1>2, <1>3, HashType

LEMMA HashWork ==
    ASSUME WholeInv, NEW p \in Pushers, NEW k \in Ids, Hash(p, k) PROVE WholeInv'
  <1>1. Shapes' /\ Alone(p)
    BY DEF WholeInv, Shapes, Alone, Hash, Become
  <1>2. FileOK' /\ CacheOK'
    BY DEF WholeInv, FileOK, CacheOK, CacheIsSeq, Hash
  <1>3. LocalType(p) /\ ClaimsOK(p) /\ SlotsOK(p) /\ Hashing(p)
    BY DEF WholeInv, Local, ClaimsOK, Hash, Running
  <1> DEFINE c == worker[p][k].chunk
  <1>4. PICK h \in Seen(p, worker[p][k]) : meta' = [meta EXCEPT ![p].hashes[c] = h]
    BY DEF Hash
  <1>5. h \in Hashes
    BY SeenType
  <1>6. c \in 1 .. Len(meta[p].hashes) /\ c < next[p]
    BY <1>3 DEF Hash, ClaimsOK
  <1> DEFINE hs == [meta[p].hashes EXCEPT ![c] = h]
  <1>7. meta'[p] = [meta[p] EXCEPT !.hashes = hs]
    BY <1>4 DEF WholeInv, Shapes
  <1>8. meta[p].hashes \in Seq(Hashes)
    BY <1>3 DEF LocalType, Metas
  <1>9. hs \in Seq(Hashes) /\ Len(hs) = Len(meta[p].hashes)
        /\ \A i \in 1 .. Len(hs) : i # c => hs[i] = meta[p].hashes[i]
    BY <1>5, <1>6, <1>8
  <1>10. meta'[p] \in Metas /\ meta'[p].hashes = hs /\ meta'[p].size = meta[p].size
    <2>1. [meta[p] EXCEPT !.hashes = hs] \in Metas
      BY <1>3, <1>9, NewMeta DEF LocalType
    <2> QED BY <1>3, <1>7, <2>1 DEF LocalType, Metas
  <1>11. worker'[p] = [worker[p] EXCEPT ![k] = In("free", 0, 0)] /\ In("free", 0, 0) \in Threads
    BY DEF Hash, Become, WholeInv, Shapes, In, Threads
  <1>12. worker'[p] \in [Ids -> Threads]
    BY <1>3, <1>11 DEF LocalType
  <1>13. LocalType(p)'
    BY <1>3, <1>10, <1>12 DEF LocalType, Hash
  <1>14. \A j \in Ids : worker'[p][j].at = "reading" => worker'[p][j] = worker[p][j] /\ j # k
    BY <1>3, <1>11 DEF LocalType, In
  <1> HIDE DEF hs, c
  <1>15. ASSUME NEW j \in Ids, worker'[p][j].at = "reading"
         PROVE  /\ worker'[p][j].chunk \in 1 .. Len(meta'[p].hashes)
                /\ worker'[p][j].chunk < next'[p]
                /\ meta'[p].hashes[worker'[p][j].chunk] = ZeroHash
                /\ \A i \in Ids \ {j} : worker'[p][i].at = "reading"
                                        => worker'[p][i].chunk # worker'[p][j].chunk
    <2>1. /\ worker'[p][j] = worker[p][j] /\ j # k
          /\ worker[p][j].chunk \in 1 .. Len(meta[p].hashes)
          /\ worker[p][j].chunk < next[p] /\ meta[p].hashes[worker[p][j].chunk] = ZeroHash
          /\ \A i \in Ids \ {j} : worker[p][i].at = "reading"
                                  => worker[p][i].chunk # worker[p][j].chunk
      BY <1>3, <1>14, <1>15 DEF ClaimsOK
    <2>2. worker[p][j].chunk # c
      BY <2>1 DEF Hash, c
    <2>3. hs[worker[p][j].chunk] = ZeroHash
      BY <1>9, <2>1, <2>2
    <2> QED BY <1>9, <1>10, <1>14, <2>1, <2>3 DEF Hash
  <1>16. ClaimsOK(p)'
    BY <1>3, <1>15 DEF ClaimsOK, Hashing, Hash
  <1>17. SlotsOK(p)'
    <2>1. ASSUME NEW i \in 1 .. chunk_count(meta[p].size), i >= next[p]
          PROVE  hs[i] = ZeroHash
      <3>1. Len(meta[p].hashes) = chunk_count(meta[p].size) /\ meta[p].hashes[i] = ZeroHash
        BY <1>3, <2>1 DEF SlotsOK
      <3>2. next[p] \in Nat /\ i \in Int /\ c \in Int
        BY <1>3, <1>6 DEF LocalType
      <3>3. i # c
        BY <1>6, <2>1, <3>2
      <3> QED BY <1>9, <3>1, <3>3
    <2>2. pc' = pc /\ mapped' = mapped /\ next' = next
      BY DEF Hash
    <2> QED BY <1>3, <1>9, <1>10, <2>1, <2>2 DEF SlotsOK, Hashing
  <1> QED BY <1>1, <1>2, <1>13, <1>16, <1>17, OneProcess DEF Local

(* A process that dies stops its threads. *)
LEMMA DeathWork ==
    ASSUME WholeInv, NEW p \in Pushers, Killed(p) \/ \E k \in Ids : Bus(p, k)
    PROVE  WholeInv'
  <1>1. /\ pc' = [pc EXCEPT ![p] = "killed"]
        /\ worker' = [worker EXCEPT ![p] = [j \in Ids |-> Unborn]]
        /\ mapped' = [mapped EXCEPT ![p] = FALSE]
        /\ UNCHANGED <<file, cache, meta, pos, next, runs>>
    BY DEF Killed, Bus, Goto
  <1>2. Shapes' /\ Alone(p)
    BY <1>1 DEF WholeInv, Shapes, Alone
  <1>3. FileOK' /\ CacheOK'
    BY <1>1 DEF WholeInv, FileOK, CacheOK, CacheIsSeq
  <1>4. LocalType(p) /\ Unborn \in Threads
    BY DEF WholeInv, Local, Unborn, Threads
  <1>5. pc'[p] = "killed" /\ worker'[p] = [j \in Ids |-> Unborn] /\ mapped'[p] = FALSE
    BY <1>1 DEF WholeInv, Shapes
  <1>6. mapped'[p] \in BOOLEAN /\ worker'[p] \in [Ids -> Threads]
    BY <1>4, <1>5
  <1>7. LocalType(p)'
    BY <1>1, <1>4, <1>5, <1>6 DEF LocalType, Places
  <1>8. ClaimsOK(p)' /\ SlotsOK(p)'
    BY <1>5 DEF ClaimsOK, SlotsOK, Hashing, Unborn, Running
  <1> QED BY <1>2, <1>3, <1>7, <1>8, OneProcess DEF Local

LEMMA SpawnFailsWork ==
    ASSUME WholeInv, NEW p \in Pushers, NEW k \in Ids, SpawnFails(p, k) PROVE WholeInv'
  <1>1. Shapes' /\ Alone(p)
    BY DEF WholeInv, Shapes, Alone, SpawnFails, Goto
  <1>2. FileOK' /\ CacheOK'
    BY DEF WholeInv, FileOK, CacheOK, CacheIsSeq, SpawnFails
  <1>3. LocalType(p) /\ ClaimsOK(p) /\ SlotsOK(p)
    BY DEF WholeInv, Local
  <1>4. pc[p] = "hashing" /\ pc'[p] = "unwinding"
    BY DEF SpawnFails, Toward, Goto, WholeInv, Shapes
  <1>5. Local(p)'
    BY <1>3, <1>4 DEF Local, LocalType, ClaimsOK, SlotsOK, Hashing, SpawnFails, Places
  <1> QED BY <1>1, <1>2, <1>5, OneProcess

LEMMA JoinWork ==
    ASSUME WholeInv, NEW p \in Pushers, Join(p) \/ Unwind(p) PROVE WholeInv'
  <1>1. Shapes' /\ Alone(p)
    BY DEF WholeInv, Shapes, Alone, Join, Unwind, Goto
  <1>2. FileOK' /\ CacheOK'
    BY DEF WholeInv, FileOK, CacheOK, CacheIsSeq, Join, Unwind
  <1>3. LocalType(p) /\ SlotsOK(p)
    BY DEF WholeInv, Local
  <1>4. /\ pc'[p] \in {"saving", "failed"} /\ Hashing(p)
        /\ worker' = worker /\ \A k \in Ids : ~ Running(worker[p][k])
        /\ UNCHANGED <<meta, pos, next, runs>>
    BY DEF Join, Unwind, Goto, Joined, WholeInv, Shapes, Hashing
  <1>5. mapped'[p] \in BOOLEAN
    BY <1>3 DEF Join, Unwind, WholeInv, Shapes, LocalType
  <1>6. LocalType(p)'
    BY <1>3, <1>4, <1>5 DEF LocalType, Places
  <1>7. ClaimsOK(p)' /\ SlotsOK(p)'
    BY <1>3, <1>4 DEF ClaimsOK, SlotsOK, Running, Hashing
  <1> QED BY <1>1, <1>2, <1>6, <1>7, OneProcess DEF Local

LEMMA SaveWork ==
    ASSUME WholeInv, NEW p \in Pushers, SaveOpen(p) \/ SaveCell(p) \/ SaveFails(p)
    PROVE  WholeInv'
  <1>1. Shapes' /\ Alone(p)
    BY DEF WholeInv, Shapes, Alone, SaveOpen, SaveCell, SaveFails, Goto
  <1>2. FileOK'
    BY DEF WholeInv, FileOK, SaveOpen, SaveCell, SaveFails
  <1>3. LocalType(p) /\ ClaimsOK(p) /\ SlotsOK(p)
    BY DEF WholeInv, Local
  <1>4. pc[p] \in {"saving", "writing"} /\ UNCHANGED <<meta, next, worker, mapped, runs>>
    BY DEF SaveOpen, SaveCell, SaveFails
  <1>5. Len(meta[p].hashes) = chunk_count(meta[p].size) /\ chunk_count(meta[p].size) \in Nat
    BY <1>3, <1>4, MetaSize, ChunkCount DEF SlotsOK, LocalType
  <1>6. CASE SaveOpen(p)
    <2>1. CacheOK'
      <3>1. <<>> \in Seq(Nat \union Hashes) /\ Len(<<>>) = 0
        OBVIOUS
      <3>2. CASE cache' = <<>>
        BY <3>1, <3>2 DEF CacheOK, CacheIsSeq
      <3>3. CASE cache' = cache
        BY <3>3 DEF WholeInv, CacheOK, CacheIsSeq
      <3> QED BY <1>6, <3>2, <3>3 DEF SaveOpen
    <2>2. /\ pc'[p] \in {"writing", "failed"} /\ pos'[p] \in Nat \ {0}
          /\ pc'[p] = "writing" => pos'[p] = 1
      BY <1>3, <1>6 DEF SaveOpen, Goto, WholeInv, Shapes, LocalType
    <2>3. LocalType(p)'
      BY <1>3, <1>4, <2>2 DEF LocalType, Places
    <2>4. ClaimsOK(p)' /\ SlotsOK(p)'
      BY <1>3, <1>4, <1>5, <2>2 DEF ClaimsOK, SlotsOK, Hashing, LastCell, Fields
    <2> QED BY <1>1, <1>2, <2>1, <2>3, <2>4, OneProcess DEF Local
  <1>7. CASE SaveCell(p)
    <2> DEFINE k == pos[p]
    <2>1. k \in 1 .. LastCell(meta[p]) /\ k \in Nat \ {0}
      BY <1>3, <1>5, <1>7 DEF SaveCell, SlotsOK, LocalType, LastCell, Fields
    <2>2. IF k <= Fields THEN Cell(meta[p], k) \in Nat ELSE Cell(meta[p], k) \in Hashes
      BY <1>3, <1>5, <2>1, CellType DEF LocalType
    <2>3. CacheOK'
      <3>1. CacheIsSeq /\ TypeOK
        BY WholeIsWork DEF WholeInv, CacheOK, WorkInv
      <3>2. cache' = Put(k, Cell(meta[p], k))
        BY <1>7 DEF SaveCell
      <3> DEFINE v == Cell(meta[p], k)
      <3> HIDE DEF k, v
      <3>3. /\ Put(k, v) \in Seq(Nat \union Hashes)
            /\ \A i \in 1 .. Len(Put(k, v)) :
                 IF i <= Fields THEN Put(k, v)[i] \in Nat ELSE Put(k, v)[i] \in Hashes
        <4>1. k \in Nat \ {0}
          BY <2>1
        <4>2. IF k <= Fields THEN v \in Nat ELSE v \in Hashes
          BY <2>2 DEF v
        <4> QED BY <4>1, <4>2, <3>1, PutCell
      <3>4. cache' = Put(k, v)
        BY <3>2 DEF v
      <3> HIDE DEF Put
      <3> QED BY <3>3, <3>4 DEF CacheOK, CacheIsSeq
    <2>4. /\ pos'[p] = k + 1
          /\ pc'[p] = IF k = LastCell(meta[p]) THEN "done" ELSE "writing"
      BY <1>7 DEF SaveCell, Goto, WholeInv, Shapes
    <2>5. LocalType(p)'
      BY <1>3, <1>4, <2>1, <2>4 DEF LocalType, Places
    <2>6. ClaimsOK(p)' /\ SlotsOK(p)'
      BY <1>3, <1>4, <1>5, <2>1, <2>4 DEF ClaimsOK, SlotsOK, Hashing, LastCell, Fields
    <2> QED BY <1>1, <1>2, <2>3, <2>5, <2>6, OneProcess DEF Local
  <1>8. CASE SaveFails(p)
    <2>1. CacheOK'
      BY <1>8 DEF SaveFails, WholeInv, CacheOK, CacheIsSeq
    <2>2. pc'[p] = "failed" /\ pos' = pos
      BY <1>8 DEF SaveFails, Goto, WholeInv, Shapes
    <2>3. Local(p)'
      BY <1>3, <1>4, <2>2 DEF Local, LocalType, ClaimsOK, SlotsOK, Hashing, Places
    <2> QED BY <1>1, <1>2, <2>1, <2>3, OneProcess
  <1> QED BY <1>6, <1>7, <1>8

LEMMA EditWork == ASSUME WholeInv, Edit \/ UNCHANGED vars PROVE WholeInv'
  <1>1. UNCHANGED <<cache, pc, meta, pos, next, worker, mapped, runs>>
    BY DEF Edit, vars
  <1>2. FileOK'
    BY DEF WholeInv, FileOK, Edit, vars
  <1> QED BY <1>1, <1>2 DEF WholeInv, Shapes, CacheOK, CacheIsSeq, Local, LocalType, ClaimsOK,
                            SlotsOK, Hashing

LEMMA WorkStep == WholeInv /\ [Next]_vars => WholeInv'
  <1> SUFFICES ASSUME WholeInv, [Next]_vars PROVE WholeInv'
    OBVIOUS
  <1>1. CASE Edit \/ UNCHANGED vars
    BY <1>1, EditWork
  <1>2. ASSUME NEW p \in Pushers, GetSize(p) \/ Main(p) \/ Killed(p) PROVE WholeInv'
    <2>1. CASE \E k \in Ids : Spawn(p, k) \/ SpawnFails(p, k)
      BY <2>1, SpawnWork, SpawnFailsWork
    <2>2. CASE ~ \E k \in Ids : Spawn(p, k) \/ SpawnFails(p, k)
      BY <1>2, <2>2, GetSizeWork, StatWork, LoadWork, MapWork, JoinWork, SaveWork, DeathWork
         DEF Main
    <2> QED BY <2>1, <2>2
  <1>3. ASSUME NEW p \in Pushers, NEW k \in Ids, Worker(p, k) PROVE WholeInv'
    BY <1>3, ClaimWork, HashWork, HashThrowsWork, DeathWork DEF Worker
  <1> QED BY <1>1, <1>2, <1>3 DEF Next

(* WorkInv, with the cells of the cache a sequence: claimed slots are taken  *)
(* once and what threads read is mapped (hash_compute_parallel).              *)
THEOREM WorkIsSound == Spec => []WholeInv
  BY WorkInit, WorkStep, PTL DEF Spec

(* Every variable keeps its type: no cell of the cache, slot or descriptor of *)
(* a thread is ever of another kind.                                          *)
THEOREM HashTyping == Spec => []TypeOK
  BY WholeIsWork, WorkIsSound, PTL DEF WorkInv

(* No thread reads what munmap has taken away, on any way out of             *)
(* hash_compute_parallel.                                                    *)
THEOREM MappingIsHeld == Spec => []MappingHeld
  BY WholeIsWork, WorkSuffices, WorkIsSound, PTL

(* No two threads write one slot of chunk_hashes, and none is written twice. *)
THEOREM ChunksHashedOnce == Spec => []OneThreadPerChunk
  BY WholeIsWork, WorkSuffices, WorkIsSound, PTL

----------------------------------------------------------------------------
(* The cache, for one push at a time                                        *)

FullInv ==
    /\ WholeInv /\ OneActive /\ CacheSound /\ CacheNotNewer
    /\ \A p \in Pushers : KnownOK(p)

LEMMA FullIsCache == FullInv => CacheInv
  BY WholeIsWork DEF FullInv, CacheInv

OthersEnded(p) == \A q \in Pushers \ {p} : Ended(q)

LEMMA ActiveAlone ==
    ASSUME FullInv, NEW p \in Pushers, ~ Ended(p) PROVE OthersEnded(p)
  BY DEF FullInv, OneActive, OthersEnded

(* While the others have ended, a step of p need only be good for p.  *)
LEMMA OnePush ==
    ASSUME FullInv, NEW p \in Pushers, Alone(p), OthersEnded(p), file' = file,
           WholeInv', CacheSound', CacheNotNewer', KnownOK(p)'
    PROVE  FullInv'
  <1>1. OneActive'
    BY DEF OneActive, OthersEnded, Alone, Ended
  <1>2. ASSUME NEW q \in Pushers \ {p} PROVE KnownOK(q)'
    <2>1. /\ KnownOK(q) /\ Ended(q) /\ pc'[q] = pc[q] /\ meta'[q] = meta[q]
          /\ ~ Hashing(q)' /\ Ended(q)'
          /\ pc'[q] \notin {"sized", "loading", "missed", "hashing", "writing", "saving"}
      BY DEF FullInv, OthersEnded, Alone, Ended, Hashing
    <2>2. NotNewer(q)'
      BY <2>1 DEF KnownOK, NotNewer
    <2>3. ClaimedAreHashed(q)' /\ LoadedSoFar(q)' /\ SavedSoFar(q)'
      BY <2>1 DEF ClaimedAreHashed, LoadedSoFar, SavedSoFar
    <2>4. HashesTrue(q)'
      BY <2>1 DEF KnownOK, HashesTrue, IsFile, TrueHashes
    <2> QED BY <2>2, <2>3, <2>4 DEF KnownOK
  <1> QED BY <1>1, <1>2 DEF FullInv

(* The cache unchanged is as sound as it was. *)
LEMMA SameCache ==
    ASSUME FullInv, UNCHANGED <<file, cache>> PROVE CacheSound' /\ CacheNotNewer'
  BY DEF FullInv, CacheSound, CacheNotNewer, Accepted

LEMMA FullInit == Init => FullInv
  <1> SUFFICES ASSUME Init PROVE FullInv
    OBVIOUS
  <1>1. WholeInv
    BY WorkInit
  <1>2. Len(cache) = 0
    BY DEF Init
  <1>3. CacheSound
    <2>1. chunk_count(file.size) \in Nat
      BY <1>1, SizeType, ChunkCount DEF WholeInv, FileOK
    <2> QED BY <1>2, <2>1 DEF CacheSound, Accepted, Fields
  <1>4. OneActive /\ CacheNotNewer
    BY <1>2 DEF Init, OneActive, Ended, CacheNotNewer
  <1>5. ASSUME NEW p \in Pushers PROVE KnownOK(p)
    <2>1. pc[p] = "idle" /\ meta[p].mtime = 0 /\ file.mtime = 1 /\ Ended(p) /\ ~ Hashing(p)
      BY DEF Init, Ended, Hashing
    <2>2. NotNewer(p)
      BY <2>1 DEF NotNewer
    <2> QED BY <2>1, <2>2 DEF KnownOK, ClaimedAreHashed, LoadedSoFar, SavedSoFar, HashesTrue
  <1> QED BY <1>1, <1>3, <1>4, <1>5 DEF FullInv

LEMMA GetSizeFull ==
    ASSUME FullInv, Exclusive, NEW p \in Pushers, GetSize(p) PROVE FullInv'
  <1>1. WholeInv' /\ Alone(p) /\ WholeInv
    BY GetSizeWork DEF FullInv, GetSize, WholeInv, Shapes, Alone, Goto
  <1>2. OthersEnded(p)
    BY DEF GetSize, OthersEnded
  <1>3. CacheSound' /\ CacheNotNewer'
    BY SameCache DEF GetSize
  <1>4. /\ pc'[p] = IF file.size = 0 THEN "failed" ELSE "sized"
        /\ meta'[p] = [size |-> file.size, mtime |-> 0, hashes |-> <<>>]
        /\ worker'[p] = [k \in Ids |-> Unborn] /\ file' = file
    BY <1>1 DEF GetSize, Goto, WholeInv, Shapes
  <1>5. file.size \in Nat /\ file.mtime \in Nat
    BY <1>1, SizeType DEF WholeInv, FileOK
  <1>6. NotNewer(p)'
    BY <1>4, <1>5 DEF NotNewer, Hashing, Ended
  <1>7. KnownOK(p)'
    BY <1>4, <1>6 DEF KnownOK, ClaimedAreHashed, LoadedSoFar, SavedSoFar, HashesTrue
  <1> QED BY <1>1, <1>2, <1>3, <1>4, <1>7, OnePush

LEMMA StatFull == ASSUME FullInv, NEW p \in Pushers, Stat(p) PROVE FullInv'
  <1>1. WholeInv' /\ Alone(p) /\ WholeInv /\ OthersEnded(p) /\ KnownOK(p) /\ LocalType(p)
    BY StatWork, ActiveAlone DEF FullInv, Stat, WholeInv, Local, Shapes, Alone, Goto, Ended
  <1>2. CacheSound' /\ CacheNotNewer'
    BY SameCache DEF Stat
  <1>3. /\ pc'[p] \in {"loading", "missed", "failed"} /\ pc[p] = "sized" /\ pos'[p] = 1
        /\ meta'[p] = [meta[p] EXCEPT !.mtime = file.mtime]
        /\ worker' = worker /\ file' = file /\ cache' = cache
    BY <1>1 DEF Stat, Goto, WholeInv, Shapes
  <1>4. meta'[p].mtime = file.mtime /\ meta'[p].size = meta[p].size /\ meta'[p].hashes = meta[p].hashes
    BY <1>1, <1>3 DEF LocalType, Metas
  <1>5. file.mtime \in Nat /\ Len(cache) \in Nat /\ meta[p].size \in Nat
    BY <1>1, MetaSize DEF WholeInv, FileOK, CacheOK, CacheIsSeq, LocalType
  <1>6. NotNewer(p)'
    BY <1>1, <1>3, <1>4, <1>5 DEF KnownOK, NotNewer, Hashing, Ended
  <1>7. ClaimedAreHashed(p)'
    BY <1>1, <1>3 DEF KnownOK, ClaimedAreHashed
  <1>8. LoadedSoFar(p)'
    <2>1. Len(meta'[p].hashes) = 0 /\ chunk_count(meta[p].size) \in Nat
      BY <1>1, <1>3, <1>4, <1>5, ChunkCount DEF KnownOK, LoadedSoFar
    <2> QED BY <1>3, <1>4, <1>5, <2>1 DEF LoadedSoFar, LastCell, Fields
  <1>9. SavedSoFar(p)' /\ HashesTrue(p)'
    BY <1>3 DEF SavedSoFar, HashesTrue
  <1> QED BY <1>1, <1>2, <1>3, <1>6, <1>7, <1>8, <1>9, OnePush DEF KnownOK

(* A step that only goes to a place where nothing is claimed of a process. *)
LEMMA LeaveFull ==
    ASSUME FullInv, WholeInv', NEW p \in Pushers, Alone(p), OthersEnded(p), ~ Ended(p),
           UNCHANGED <<file, cache>>, meta'[p] = meta[p], worker'[p] = worker[p],
           pc'[p] \in {"missed", "failed", "killed", "unwinding"},
           pc'[p] = "missed" => pc[p] = "loading",
           pc'[p] = "unwinding" => pc[p] = "hashing"
    PROVE  FullInv'
  <1>1. CacheSound' /\ CacheNotNewer'
    BY SameCache
  <1>2. KnownOK(p)
    BY DEF FullInv
  <1>3. NotNewer(p)'
    BY <1>2 DEF KnownOK, NotNewer, Hashing, Ended
  <1>4. KnownOK(p)'
    BY <1>2, <1>3 DEF KnownOK, ClaimedAreHashed, LoadedSoFar, SavedSoFar, HashesTrue
  <1> QED BY <1>1, <1>4, OnePush

(* A hash taken from the cache is the file's, if the file is what stat said. *)
LEMMA LoadFull ==
    ASSUME FullInv, NEW p \in Pushers, LoadCell(p) \/ LoadFails(p) PROVE FullInv'
  <1>1. /\ WholeInv' /\ Alone(p) /\ WholeInv /\ OthersEnded(p) /\ KnownOK(p) /\ LocalType(p)
        /\ ~ Ended(p)
    BY LoadWork, ActiveAlone
       DEF FullInv, LoadCell, LoadFails, WholeInv, Local, Shapes, Alone, Goto, Ended
  <1> DEFINE k == pos[p]
             n == chunk_count(meta[p].size)
             hs == meta[p].hashes
  <1>2. /\ k \in Nat \ {0} /\ n \in Nat \ {0} /\ hs \in Seq(Hashes) /\ Len(cache) \in Nat
        /\ file.size \in Nat
    <2>1. meta[p].size \in Nat /\ meta[p].size > 0
      BY <1>1, MetaSize DEF LocalType, KnownOK, NotNewer
    <2>2. hs \in Seq(Hashes) /\ k \in Nat \ {0}
      BY <1>1 DEF LocalType, Metas
    <2>3. Len(cache) \in Nat /\ file.size \in MetaSizes
      BY <1>1 DEF WholeInv, FileOK, CacheOK, CacheIsSeq, MetaSizes
    <2>4. file.size \in Nat
      BY <2>3, SizeType DEF MetaSizes
    <2>5. n \in Nat /\ n > 0
      BY <2>1, ChunkCount
    <2> HIDE DEF n
    <2> QED BY <2>2, <2>3, <2>4, <2>5
  <1>3. /\ pc[p] = "loading" /\ worker' = worker /\ UNCHANGED <<file, cache>>
    BY DEF LoadCell, LoadFails
  <1>4. /\ k <= LastCell(meta[p]) /\ k <= Len(cache) + 1
        /\ \A j \in 1 .. Fields : j < k => Matches(p, j)
        /\ Len(hs) = (IF k <= Fields THEN 0 ELSE k - 1 - Fields)
        /\ \A i \in 1 .. Len(hs) : hs[i] = cache[Fields + i]
    BY <1>1, <1>3 DEF KnownOK, LoadedSoFar
  <1>5. CacheSound' /\ CacheNotNewer'
    BY <1>3, SameCache
  <1>6. CASE pc'[p] = "missed" /\ meta' = meta
    BY <1>1, <1>3, <1>6, LeaveFull
  <1>7. CASE k <= Len(cache) /\ k <= Fields /\ Matches(p, k) /\ UNCHANGED <<pc, meta>>
             /\ pos' = [pos EXCEPT ![p] = k + 1]
    <2>1. pos'[p] = k + 1
      BY <1>1, <1>7 DEF WholeInv, Shapes
    <2>2. \A j \in 1 .. Fields : j < k + 1 => Matches(p, j)
      BY <1>2, <1>4, <1>7 DEF Fields
    <2>3. \A j \in 1 .. Fields : Matches(p, j)' = Matches(p, j)
      BY <1>3, <1>7 DEF Matches, Cell, Header
    <2>4. LoadedSoFar(p)'
      BY <1>2, <1>3, <1>4, <1>7, <2>1, <2>2, <2>3 DEF LoadedSoFar, LastCell, Fields
    <2>5. NotNewer(p)'
      BY <1>1, <1>3, <1>7 DEF KnownOK, NotNewer, Hashing, Ended
    <2>6. ClaimedAreHashed(p)' /\ SavedSoFar(p)' /\ HashesTrue(p)'
      BY <1>1, <1>3, <1>7 DEF KnownOK, ClaimedAreHashed, SavedSoFar, HashesTrue
    <2> QED BY <1>1, <1>3, <1>5, <2>4, <2>5, <2>6, OnePush DEF KnownOK
  <1>8. CASE /\ k <= Len(cache) /\ k > Fields
             /\ meta' = [meta EXCEPT ![p].hashes = Append(@, cache[k])]
             /\ pos' = [pos EXCEPT ![p] = k + 1]
             /\ IF k = LastCell(meta[p]) THEN Goto(p, "done") ELSE UNCHANGED pc
    <2> DEFINE gs == Append(hs, cache[k])
    <2>1. /\ pos'[p] = k + 1 /\ meta'[p] = [meta[p] EXCEPT !.hashes = gs]
          /\ pc'[p] = IF k = LastCell(meta[p]) THEN "done" ELSE "loading"
      BY <1>1, <1>3, <1>8 DEF WholeInv, Shapes, Goto
    <2>2. meta'[p].hashes = gs /\ meta'[p].size = meta[p].size /\ meta'[p].mtime = meta[p].mtime
      BY <1>1, <2>1 DEF LocalType, Metas
    <2>3. Len(hs) = k - 1 - Fields
      BY <1>2, <1>4, <1>8 DEF Fields
    <2>4. Len(gs) = k - Fields /\ \A i \in 1 .. Len(gs) : gs[i] = cache[Fields + i]
      <3>1. Len(gs) = Len(hs) + 1 /\ gs[Len(hs) + 1] = cache[k]
            /\ \A i \in 1 .. Len(hs) : gs[i] = hs[i]
        BY <1>2
      <3>2. Len(hs) + 1 = k - Fields /\ Fields + (Len(hs) + 1) = k /\ Len(hs) \in Nat
        BY <1>2, <2>3 DEF Fields
      <3> HIDE DEF gs, hs, k
      <3>3. \A i \in 1 .. Len(hs) : gs[i] = cache[Fields + i]
        BY <1>4, <3>1
      <3>4. \A i \in 1 .. Len(hs) + 1 : i \in 1 .. Len(hs) \/ i = Len(hs) + 1
        BY <3>2
      <3> QED BY <3>1, <3>2, <3>3, <3>4
    <2> HIDE DEF gs
    <2>5. \A j \in 1 .. Fields : Matches(p, j) /\ Matches(p, j)'
      <3>1. \A j \in 1 .. Fields : Matches(p, j)
        <4>1. \A j \in 1 .. Fields : j < k
          BY <1>2, <1>8 DEF Fields
        <4> QED BY <1>4, <4>1
      <3>2. \A j \in 1 .. Fields : Cell(meta'[p], j) = Cell(meta[p], j)
        BY <2>2 DEF Cell, Header
      <3> QED BY <1>3, <3>1, <3>2 DEF Matches
    <2>6. LoadedSoFar(p)'
      <3>1. LastCell(meta'[p]) = LastCell(meta[p]) /\ LastCell(meta[p]) = Fields + n
        BY <2>2 DEF LastCell
      <3>2. pc'[p] = "loading" => k + 1 <= LastCell(meta[p])
        BY <1>2, <1>4, <2>1, <3>1 DEF Fields
      <3>3. Len(gs) = k - Fields /\ k + 1 <= Len(cache) + 1 /\ k > 4
        BY <1>2, <1>8, <2>4 DEF Fields
      <3> HIDE DEF k, n
      <3>4. pc'[p] \in {"loading", "done"} /\ cache' = cache
        BY <1>3, <2>1
      <3>5. pos'[p] <= Len(cache') + 1 /\ \A i \in 1 .. Len(gs) : gs[i] = cache'[Fields + i]
        BY <2>1, <2>4, <3>3, <3>4
      <3>6. pc'[p] = "loading" => pos'[p] <= LastCell(meta'[p])
        BY <2>1, <3>1, <3>2
      <3>7. Len(gs) = (IF pos'[p] <= Fields THEN 0 ELSE pos'[p] - 1 - Fields)
        <4>1. pos'[p] = k + 1 /\ k \in Nat /\ pos'[p] \in Nat /\ k > 4
          BY <1>2, <2>1, <3>3
        <4>2. Len(gs) = k - 4
          BY <3>3 DEF Fields
        <4> QED BY <4>1, <4>2 DEF Fields
      <3> QED BY <2>2, <2>5, <3>4, <3>5, <3>6, <3>7 DEF LoadedSoFar
    <2>7. NotNewer(p)'
      BY <1>1, <1>3, <2>1, <2>2 DEF KnownOK, NotNewer, Hashing, Ended
    <2>8. ClaimedAreHashed(p)' /\ SavedSoFar(p)'
      BY <1>1, <1>3, <2>1 DEF KnownOK, ClaimedAreHashed, SavedSoFar
    <2>9. HashesTrue(p)'
      <3> SUFFICES ASSUME pc'[p] = "done", IsFile(meta[p])'
                   PROVE  TrueHashes(meta[p])'
        BY <2>1 DEF HashesTrue
      <3>1. k = Fields + n /\ meta[p].size = file.size /\ meta[p].mtime = file.mtime
        BY <1>3, <2>1, <2>2 DEF IsFile, LastCell
      <3>2. cache[1] = file.size /\ cache[2] = file.mtime /\ cache[4] = n
        <4>1. Matches(p, 1) /\ Matches(p, 2) /\ Matches(p, 4)
          BY <2>5 DEF Fields
        <4> QED BY <3>1, <4>1 DEF Matches, Cell, Header, Fields
      <3>3. Accepted(file)
        BY <1>2, <1>8, <3>1, <3>2 DEF Accepted
      <3>4. \A i \in 1 .. n : cache[Fields + i] = TrueHash(file, i)
        BY <3>1, <3>3 DEF FullInv, CacheSound
      <3>5. Len(gs) = n
        BY <1>2, <2>4, <3>1 DEF Fields
      <3>6. \A i \in 1 .. n : gs[i] = TrueHash(file, i)
        BY <2>4, <3>4, <3>5
      <3> QED BY <1>3, <2>2, <3>5, <3>6 DEF TrueHashes
    <2> QED BY <1>1, <1>3, <1>5, <2>6, <2>7, <2>8, <2>9, OnePush DEF KnownOK
  <1>9. LoadFails(p) => pc'[p] = "missed" /\ meta' = meta
    BY <1>1 DEF LoadFails, Goto, WholeInv, Shapes
  <1>10. Goto(p, "missed") => pc'[p] = "missed"
    BY <1>1 DEF Goto, WholeInv, Shapes
  <1> QED BY <1>6, <1>7, <1>8, <1>9, <1>10 DEF LoadCell

LEMMA MapFull == ASSUME FullInv, NEW p \in Pushers, Map(p) PROVE FullInv'
  <1>1. /\ WholeInv' /\ Alone(p) /\ WholeInv /\ OthersEnded(p) /\ KnownOK(p) /\ LocalType(p)
        /\ ~ Ended(p)
    BY MapWork, ActiveAlone DEF FullInv, Map, WholeInv, Local, Shapes, Alone, Goto, Ended
  <1>2. UNCHANGED <<file, cache, worker>> /\ pc[p] = "missed"
    BY DEF Map
  <1>3. CacheSound' /\ CacheNotNewer'
    BY <1>2, SameCache
  <1>4. /\ pc'[p] \in {"failed", "hashing"}
        /\ meta'[p].size = meta[p].size /\ meta'[p].mtime = meta[p].mtime
        /\ pc'[p] = "hashing" => next'[p] = 1
    BY <1>1 DEF Map, Goto, WholeInv, Shapes, LocalType, Metas
  <1>5. worker'[p] = [k \in Ids |-> Unborn]
    BY <1>1, <1>2 DEF KnownOK, ClaimedAreHashed
  <1>6. NotNewer(p)'
    BY <1>1, <1>2, <1>4, <1>5 DEF KnownOK, NotNewer, Hashing, Ended, Unborn
  <1>7. ClaimedAreHashed(p)'
    <2>1. chunk_count(meta'[p].size) \in Nat
      BY <1>1, <1>4, MetaSize, ChunkCount DEF LocalType
    <2>2. \A i \in 1 .. chunk_count(meta'[p].size) : ~ (i < 1)
      BY <2>1
    <2>3. \A k \in Ids : worker'[p][k] = Unborn /\ Unborn.at = "unborn"
      BY <1>5 DEF Unborn
    <2> QED BY <1>4, <2>2, <2>3 DEF ClaimedAreHashed
  <1>8. LoadedSoFar(p)' /\ SavedSoFar(p)' /\ HashesTrue(p)'
    BY <1>4 DEF LoadedSoFar, SavedSoFar, HashesTrue
  <1> QED BY <1>1, <1>2, <1>3, <1>6, <1>7, <1>8, OnePush DEF KnownOK

LEMMA SpawnFull ==
    ASSUME FullInv, NEW p \in Pushers, NEW k \in Ids, Spawn(p, k) PROVE FullInv'
  <1>1. /\ WholeInv' /\ Alone(p) /\ WholeInv /\ OthersEnded(p) /\ KnownOK(p) /\ LocalType(p)
        /\ ~ Ended(p)
    BY SpawnWork, ActiveAlone
       DEF FullInv, Spawn, Toward, Become, WholeInv, Local, Shapes, Alone, Ended
  <1>2. /\ UNCHANGED <<file, cache, pc, meta, next>> /\ pc[p] = "hashing"
        /\ worker[p][k] = Unborn
        /\ worker'[p] = [worker[p] EXCEPT ![k] = In("free", 0, 0)]
    BY <1>1 DEF Spawn, Toward, Become, WholeInv, Shapes
  <1>3. CacheSound' /\ CacheNotNewer'
    BY <1>2, SameCache
  <1>4. /\ worker'[p][k].at = "free"
        /\ \A j \in Ids \ {k} : worker'[p][j] = worker[p][j]
        /\ worker[p][k].at = "unborn"
    BY <1>1, <1>2 DEF LocalType, In, Unborn
  <1>5. NotNewer(p)'
    BY <1>1, <1>2, <1>4 DEF KnownOK, NotNewer, Hashing, Ended
  <1>6. Threw(p) => Threw(p)'
    BY <1>4 DEF Threw
  <1>7. ClaimedAreHashed(p)'
    BY <1>1, <1>2, <1>4, <1>6 DEF KnownOK, ClaimedAreHashed, IsFile
  <1>8. LoadedSoFar(p)' /\ SavedSoFar(p)' /\ HashesTrue(p)'
    BY <1>2 DEF LoadedSoFar, SavedSoFar, HashesTrue
  <1> QED BY <1>1, <1>2, <1>3, <1>5, <1>7, <1>8, OnePush DEF KnownOK

LEMMA SpawnFailsFull ==
    ASSUME FullInv, NEW p \in Pushers, NEW k \in Ids, SpawnFails(p, k) PROVE FullInv'
  <1>1. WholeInv' /\ Alone(p) /\ OthersEnded(p) /\ ~ Ended(p)
    BY SpawnFailsWork, ActiveAlone
       DEF FullInv, SpawnFails, Toward, WholeInv, Shapes, Alone, Goto, Ended
  <1>2. pc[p] = "hashing" /\ pc'[p] = "unwinding" /\ UNCHANGED <<file, cache, meta, worker>>
    BY DEF SpawnFails, Toward, Goto, FullInv, WholeInv, Shapes
  <1> QED BY <1>1, <1>2, LeaveFull

LEMMA ClaimFull ==
    ASSUME FullInv, NEW p \in Pushers, NEW k \in Ids, Claim(p, k) PROVE FullInv'
  <1>1. /\ WholeInv' /\ Alone(p) /\ WholeInv /\ KnownOK(p) /\ LocalType(p)
        /\ Hashing(p)
    BY ClaimWork DEF FullInv, Claim, Become, WholeInv, Local, ClaimsOK, Shapes, Alone, Running
  <1>2. OthersEnded(p) /\ ~ Ended(p)
    BY <1>1, ActiveAlone DEF Hashing, Ended
  <1> DEFINE n == chunk_count(meta[p].size)
  <1>3. /\ UNCHANGED <<file, cache, pc, meta>> /\ next'[p] = next[p] + 1
        /\ worker[p][k].at = "free"
        /\ \A j \in Ids \ {k} : worker'[p][j] = worker[p][j]
        /\ worker'[p][k] = IF next[p] > n THEN In("ended", 0, 0)
                                          ELSE In("reading", next[p], file.mtime)
    BY <1>1 DEF Claim, Become, WholeInv, Shapes, LocalType
  <1>4. n \in Nat /\ next[p] \in Nat /\ file.mtime \in Nat /\ meta[p].mtime \in Nat
    BY <1>1, MetaSize, ChunkCount DEF LocalType, WholeInv, FileOK
  <1>5. CacheSound' /\ CacheNotNewer'
    BY <1>3, SameCache
  <1>6. NotNewer(p)'
    <2>1. meta[p].mtime <= file.mtime
      BY <1>1 DEF KnownOK, NotNewer
    <2>2. worker'[p][k].at = "reading" => worker'[p][k].saw \in meta[p].mtime .. file.mtime
      BY <1>3, <1>4, <2>1 DEF In
    <2> HIDE DEF n
    <2> QED BY <1>1, <1>3, <2>2 DEF KnownOK, NotNewer, Hashing, Ended
  <1>7. ClaimedAreHashed(p)'
    <2>1. CASE pc[p] = "hashing"
      <3>1. Threw(p) => Threw(p)'
        BY <1>3 DEF Threw
      <3>2. ASSUME NEW i \in 1 .. n, i < next[p] + 1
            PROVE  \/ Threw(p)'
                   \/ \E j \in Ids : worker'[p][j].at = "reading" /\ worker'[p][j].chunk = i
                   \/ IsFile(meta[p]) => meta[p].hashes[i] = TrueHash(file, i)
        <4>1. CASE i = next[p]
          <5>1. worker'[p][k].at = "reading" /\ worker'[p][k].chunk = i
            BY <1>3, <1>4, <4>1 DEF In
          <5> QED BY <5>1
        <4>2. CASE i # next[p]
          <5>1. i < next[p]
            BY <1>4, <3>2, <4>2
          <5>2. \/ Threw(p)
                \/ \E j \in Ids : worker[p][j].at = "reading" /\ worker[p][j].chunk = i
                \/ IsFile(meta[p]) => meta[p].hashes[i] = TrueHash(file, i)
            BY <1>1, <2>1, <5>1 DEF KnownOK, ClaimedAreHashed
          <5>3. \A j \in Ids : worker[p][j].at = "reading" => j # k
            BY <1>3
          <5> QED BY <1>3, <3>1, <5>2, <5>3
        <4> QED BY <4>1, <4>2
      <3>3. ASSUME NEW j \in Ids
            PROVE  /\ worker'[p][j].at = "ended" => next[p] + 1 > n
                   /\ worker'[p][j].at = "unborn" => worker'[p][j] = Unborn
        <4>1. CASE j = k
          BY <1>3, <1>4, <4>1 DEF In
        <4>2. CASE j # k
          <5>1. /\ worker[p][j].at = "ended" => next[p] > n
                /\ worker[p][j].at = "unborn" => worker[p][j] = Unborn
            BY <1>1, <2>1 DEF KnownOK, ClaimedAreHashed
          <5> HIDE DEF n
          <5>2. next[p] > n => next[p] + 1 > n
            BY <1>4
          <5> QED BY <1>3, <4>2, <5>1, <5>2
        <4> QED BY <4>1, <4>2
      <3>4. IsFile(meta[p])' = IsFile(meta[p])
        BY <1>3 DEF IsFile
      <3> QED BY <1>3, <2>1, <3>2, <3>3, <3>4 DEF ClaimedAreHashed
    <2>2. CASE pc[p] # "hashing"
      BY <1>1, <1>3, <2>2 DEF ClaimedAreHashed, Hashing
    <2> QED BY <2>1, <2>2
  <1>8. LoadedSoFar(p)' /\ SavedSoFar(p)' /\ HashesTrue(p)'
    BY <1>1, <1>3 DEF LoadedSoFar, SavedSoFar, HashesTrue, Hashing
  <1> QED BY <1>1, <1>2, <1>3, <1>5, <1>6, <1>7, <1>8, OnePush DEF KnownOK

(* Read while the file was what it is, and what stat said, a chunk has its     *)
(* true hash.                                                                  *)
LEMMA HashFull ==
    ASSUME FullInv, NEW p \in Pushers, NEW k \in Ids, Hash(p, k) PROVE FullInv'
  <1>1. /\ WholeInv' /\ Alone(p) /\ WholeInv /\ KnownOK(p) /\ LocalType(p)
        /\ Hashing(p) /\ ClaimsOK(p)
    BY HashWork DEF FullInv, Hash, Become, WholeInv, Local, ClaimsOK, Shapes, Alone, Running
  <1>2. OthersEnded(p) /\ ~ Ended(p)
    BY <1>1, ActiveAlone DEF Hashing, Ended
  <1> DEFINE w == worker[p][k]
             c == w.chunk
             hs == meta[p].hashes
  <1>3. PICK h \in Seen(p, w) : meta' = [meta EXCEPT ![p].hashes[c] = h]
    BY DEF Hash
  <1>4. /\ UNCHANGED <<file, cache, pc, next>> /\ w.at = "reading"
        /\ \A j \in Ids \ {k} : worker'[p][j] = worker[p][j]
        /\ worker'[p][k].at = "free"
    BY <1>1 DEF Hash, Become, WholeInv, Shapes, LocalType, In
  <1>5. /\ meta'[p].size = meta[p].size /\ meta'[p].mtime = meta[p].mtime
        /\ meta'[p].hashes = [hs EXCEPT ![c] = h]
        /\ meta'[p] = [meta[p] EXCEPT !.hashes = [hs EXCEPT ![c] = h]]
    BY <1>1, <1>3 DEF LocalType, Metas, WholeInv, Shapes
  <1>6. hs \in Seq(Hashes) /\ c \in 1 .. Len(hs)
    BY <1>1, <1>4 DEF LocalType, Metas, ClaimsOK
  <1>7. meta'[p].hashes[c] = h /\ \A i \in 1 .. Len(hs) : i # c => meta'[p].hashes[i] = hs[i]
    BY <1>5, <1>6
  <1>8. IsFile(meta[p]) => h = TrueHash(file, c)
    <2> SUFFICES ASSUME IsFile(meta[p]) PROVE h = TrueHash(file, c)
      OBVIOUS
    <2>1. w.saw \in meta[p].mtime .. file.mtime /\ meta[p].mtime = file.mtime /\ file.mtime \in Nat
      BY <1>1, <1>4 DEF KnownOK, NotNewer, IsFile, WholeInv, FileOK
    <2>2. w.saw = file.mtime
      BY <2>1
    <2>3. meta[p].size = file.size
      BY DEF IsFile
    <2> QED BY <2>2, <2>3 DEF Seen, TrueHash
  <1> HIDE DEF w, c, hs
  <1>9. CacheSound' /\ CacheNotNewer'
    BY <1>4, SameCache
  <1>10. NotNewer(p)'
    BY <1>1, <1>4, <1>5 DEF KnownOK, NotNewer, Hashing, Ended
  <1>11. IsFile(meta[p])' = IsFile(meta[p])
    BY <1>4, <1>5 DEF IsFile
  <1>12. Threw(p) => Threw(p)'
    BY <1>4 DEF Threw, w
  <1>13. ASSUME pc[p] = "hashing", NEW i \in 1 .. chunk_count(meta[p].size), i < next[p]
         PROVE  \/ Threw(p)'
                \/ \E j \in Ids : worker'[p][j].at = "reading" /\ worker'[p][j].chunk = i
                \/ IsFile(meta[p]) => meta'[p].hashes[i] = TrueHash(file, i)
    <2>1. CASE i = c
      BY <1>7, <1>8, <2>1
    <2>2. CASE i # c
      <3>1. \/ Threw(p)
            \/ \E j \in Ids : worker[p][j].at = "reading" /\ worker[p][j].chunk = i
            \/ IsFile(meta[p]) => hs[i] = TrueHash(file, i)
        BY <1>1, <1>13 DEF KnownOK, ClaimedAreHashed, hs
      <3>2. i \in 1 .. Len(hs)
        BY <1>1, <1>13 DEF WholeInv, Local, SlotsOK, Hashing, hs
      <3>3. worker[p][k].chunk # i
        BY <2>2 DEF c, w
      <3> QED BY <1>4, <1>7, <1>12, <2>2, <3>1, <3>2, <3>3
    <2> QED BY <2>1, <2>2
  <1>14. ClaimedAreHashed(p)'
    BY <1>1, <1>4, <1>5, <1>11, <1>13 DEF KnownOK, ClaimedAreHashed, Hashing
  <1>15. LoadedSoFar(p)' /\ SavedSoFar(p)' /\ HashesTrue(p)'
    BY <1>1, <1>4 DEF LoadedSoFar, SavedSoFar, HashesTrue, Hashing
  <1> QED BY <1>1, <1>2, <1>4, <1>9, <1>10, <1>14, <1>15, OnePush DEF KnownOK

LEMMA HashThrowsFull ==
    ASSUME FullInv, NEW p \in Pushers, NEW k \in Ids, HashThrows(p, k) PROVE FullInv'
  <1>1. /\ WholeInv' /\ Alone(p) /\ WholeInv /\ KnownOK(p) /\ LocalType(p) /\ Hashing(p)
    BY HashThrowsWork
       DEF FullInv, HashThrows, Become, WholeInv, Local, ClaimsOK, Shapes, Alone, Running
  <1>2. OthersEnded(p) /\ ~ Ended(p)
    BY <1>1, ActiveAlone DEF Hashing, Ended
  <1>3. /\ UNCHANGED <<file, cache, pc, meta, next>>
        /\ \A j \in Ids \ {k} : worker'[p][j] = worker[p][j]
        /\ worker'[p][k].at = "threw"
    BY <1>1 DEF HashThrows, Become, WholeInv, Shapes, LocalType, In
  <1>4. CacheSound' /\ CacheNotNewer'
    BY <1>3, SameCache
  <1>5. NotNewer(p)'
    BY <1>1, <1>3 DEF KnownOK, NotNewer, Hashing, Ended
  <1>6. Threw(p)'
    BY <1>3 DEF Threw
  <1>7. ClaimedAreHashed(p)'
    BY <1>1, <1>3, <1>6 DEF KnownOK, ClaimedAreHashed, Hashing
  <1>8. LoadedSoFar(p)' /\ SavedSoFar(p)' /\ HashesTrue(p)'
    BY <1>1, <1>3 DEF LoadedSoFar, SavedSoFar, HashesTrue, Hashing
  <1> QED BY <1>1, <1>2, <1>3, <1>4, <1>5, <1>7, <1>8, OnePush DEF KnownOK

LEMMA DeathFull ==
    ASSUME FullInv, NEW p \in Pushers, Killed(p) \/ \E k \in Ids : Bus(p, k)
    PROVE  FullInv'
  <1>1. /\ pc' = [pc EXCEPT ![p] = "killed"] /\ UNCHANGED <<file, cache, meta>> /\ ~ Ended(p)
    BY DEF Killed, Bus, Goto, FullInv, WholeInv, Local, ClaimsOK, Running, Hashing, Ended
  <1>2. WholeInv' /\ Alone(p) /\ OthersEnded(p) /\ KnownOK(p)
    BY <1>1, DeathWork, ActiveAlone DEF FullInv, Killed, Bus, Goto, WholeInv, Shapes, Alone
  <1>3. pc'[p] = "killed"
    BY <1>1 DEF FullInv, WholeInv, Shapes
  <1>4. CacheSound' /\ CacheNotNewer'
    BY <1>1, SameCache
  <1>5. KnownOK(p)'
    BY <1>1, <1>2, <1>3
       DEF KnownOK, NotNewer, Hashing, Ended, ClaimedAreHashed, LoadedSoFar, SavedSoFar, HashesTrue
  <1> QED BY <1>1, <1>2, <1>4, <1>5, OnePush

(* When all are joined and none threw, every chunk was claimed and hashed. *)
LEMMA JoinFull ==
    ASSUME FullInv, NEW p \in Pushers, Join(p) \/ Unwind(p) PROVE FullInv'
  <1>1. /\ WholeInv' /\ Alone(p) /\ WholeInv /\ KnownOK(p) /\ LocalType(p) /\ SlotsOK(p)
        /\ OthersEnded(p) /\ ~ Ended(p)
    BY JoinWork, ActiveAlone
       DEF FullInv, Join, Unwind, WholeInv, Local, Shapes, Alone, Goto, Ended
  <1>2. UNCHANGED <<file, cache, meta, worker, next>>
    BY DEF Join, Unwind
  <1>3. CASE pc'[p] = "failed"
    BY <1>1, <1>2, <1>3, LeaveFull
  <1>4. CASE pc'[p] # "failed"
    <2>1. pc[p] = "hashing" /\ pc'[p] = "saving" /\ Started(p) /\ Joined(p) /\ ~ Threw(p)
      BY <1>1, <1>4 DEF Join, Unwind, Goto, WholeInv, Shapes
    <2> DEFINE n == chunk_count(meta[p].size)
    <2>2. n \in Nat /\ n > 0 /\ num_workers(meta[p].size) \in 0 .. Cores
          /\ num_workers(meta[p].size) > 0 /\ next[p] \in Nat
      BY <1>1, MetaSize, ChunkCount DEF LocalType, KnownOK, NotNewer
    <2>3. 1 \in 1 .. num_workers(meta[p].size) /\ 1 \in Ids
      BY <2>2 DEF Ids
    <2>4. worker[p][1].at = "ended"
      <3>1. worker[p][1] # Unborn /\ ~ Running(worker[p][1]) /\ worker[p][1].at # "threw"
        BY <2>1, <2>3 DEF Started, Joined, Threw
      <3>2. worker[p][1].at # "unborn"
        BY <1>1, <2>1, <2>3, <3>1 DEF KnownOK, ClaimedAreHashed
      <3>3. worker[p][1] \in Threads
        BY <1>1, <2>3 DEF LocalType
      <3> QED BY <3>1, <3>2, <3>3 DEF Threads, Running
    <2>5. next[p] > n
      BY <1>1, <2>1, <2>3, <2>4 DEF KnownOK, ClaimedAreHashed
    <2>6. \A j \in Ids : worker[p][j].at # "reading"
      BY <2>1 DEF Joined, Running
    <2>7. ASSUME NEW i \in 1 .. n, IsFile(meta[p])
          PROVE  meta[p].hashes[i] = TrueHash(file, i)
      <3> HIDE DEF n
      <3>1. i < next[p]
        BY <2>2, <2>5
      <3> QED BY <1>1, <2>1, <2>6, <2>7, <3>1 DEF KnownOK, ClaimedAreHashed, n
    <2>8. HashesTrue(p)'
      <3>1. Len(meta[p].hashes) = n
        BY <1>1, <2>1 DEF SlotsOK, Hashing
      <3> QED BY <1>2, <2>7, <3>1 DEF HashesTrue, TrueHashes, IsFile, TrueHash
    <2>9. NotNewer(p)'
      BY <1>1, <1>2, <2>1 DEF KnownOK, NotNewer, Hashing, Ended
    <2>10. ClaimedAreHashed(p)' /\ LoadedSoFar(p)' /\ SavedSoFar(p)'
      BY <2>1 DEF ClaimedAreHashed, LoadedSoFar, SavedSoFar
    <2>11. CacheSound' /\ CacheNotNewer'
      BY <1>2, SameCache
    <2> QED BY <1>1, <1>2, <2>8, <2>9, <2>10, <2>11, OnePush DEF KnownOK
  <1> QED BY <1>3, <1>4

(* The cache is emptied first, so it is accepted only when it is complete again, *)
(* and then with the hashes of the file that stat saw.                           *)
LEMMA SaveFull ==
    ASSUME FullInv, NEW p \in Pushers, SaveOpen(p) \/ SaveCell(p) \/ SaveFails(p)
    PROVE  FullInv'
  <1>1. /\ WholeInv' /\ Alone(p) /\ WholeInv /\ KnownOK(p) /\ LocalType(p) /\ SlotsOK(p)
        /\ OthersEnded(p) /\ ~ Ended(p)
    BY SaveWork, ActiveAlone
       DEF FullInv, SaveOpen, SaveCell, SaveFails, WholeInv, Local, Shapes, Alone, Goto, Ended
  <1>2. UNCHANGED <<file, meta, worker, next>> /\ pc[p] \in {"saving", "writing"}
    BY DEF SaveOpen, SaveCell, SaveFails
  <1>3. CASE pc'[p] = "failed" /\ cache' = cache
    BY <1>1, <1>2, <1>3, LeaveFull
  <1> DEFINE n == chunk_count(meta[p].size)
             k == pos[p]
  <1>4. /\ n \in Nat \ {0} /\ k \in Nat \ {0} /\ Len(meta[p].hashes) = n
        /\ chunk_count(file.size) \in Nat
    <2>1. meta[p].size \in Nat /\ meta[p].size > 0
      BY <1>1, MetaSize DEF LocalType, KnownOK, NotNewer
    <2>2. file.size \in MetaSizes
      BY <1>1 DEF WholeInv, FileOK, MetaSizes
    <2>3. file.size \in Nat
      BY <2>2, SizeType DEF MetaSizes
    <2>4. n \in Nat /\ n > 0 /\ chunk_count(file.size) \in Nat
      BY <2>1, <2>3, ChunkCount
    <2>5. k \in Nat \ {0} /\ Len(meta[p].hashes) = n
      BY <1>1, <1>2 DEF LocalType, SlotsOK
    <2> HIDE DEF n, k
    <2> QED BY <2>4, <2>5
  <1>5. NotNewer(p)' /\ ClaimedAreHashed(p)' /\ LoadedSoFar(p)' /\ HashesTrue(p)'
    <2>1. pc'[p] \in {"saving", "writing", "failed", "done"}
      BY <1>1, <1>2 DEF SaveOpen, SaveCell, SaveFails, Goto, WholeInv, Shapes
    <2>2. NotNewer(p)'
      BY <1>1, <1>2, <2>1 DEF KnownOK, NotNewer, Hashing, Ended
    <2>3. HashesTrue(p)'
      BY <1>1, <1>2 DEF KnownOK, HashesTrue, TrueHashes, IsFile, TrueHash
    <2> QED BY <2>1, <2>2, <2>3 DEF ClaimedAreHashed, LoadedSoFar
  <1>6. CASE SaveOpen(p) /\ cache' = <<>>
    <2>1. Len(cache') = 0 /\ (pc'[p] = "writing" => pos'[p] = 1)
      BY <1>1, <1>6 DEF SaveOpen, Goto, WholeInv, Shapes
    <2>2. CacheSound' /\ CacheNotNewer'
      BY <1>2, <1>4, <2>1 DEF CacheSound, CacheNotNewer, Accepted, Fields
    <2>3. SavedSoFar(p)'
      BY <2>1 DEF SavedSoFar
    <2> QED BY <1>1, <1>2, <1>5, <2>2, <2>3, OnePush DEF KnownOK
  <1>7. CASE SaveCell(p)
    <2> DEFINE v == Cell(meta[p], k)
               T(j) == Cell(meta[p], j)
    <2>1. /\ cache' = Put(k, v) /\ pos'[p] = k + 1
          /\ pc'[p] = IF k = LastCell(meta[p]) THEN "done" ELSE "writing"
          /\ pc[p] = "writing"
      BY <1>1, <1>7 DEF SaveCell, Goto, WholeInv, Shapes
    <2>2. Len(cache) = k - 1 /\ (\A j \in 1 .. Len(cache) : cache[j] = T(j))
          /\ k <= LastCell(meta[p])
      BY <1>1, <2>1 DEF KnownOK, SavedSoFar, SlotsOK
    <2>3. IF k <= Fields THEN v \in Nat ELSE v \in Hashes
      BY <1>1, <1>4, <2>2, CellType DEF LocalType, LastCell, Fields
    <2>4. Len(cache') = k /\ \A j \in 1 .. k : cache'[j] = T(j)
      <3>1. CacheIsSeq /\ TypeOK
        BY <1>1, WholeIsWork DEF WholeInv, CacheOK, WorkInv
      <3> HIDE DEF v, T, k
      <3>2. /\ Len(Put(k, v)) = IF k > Len(cache) THEN k ELSE Len(cache)
            /\ Put(k, v)[k] = v
            /\ \A i \in 1 .. Len(cache) : i # k => Put(k, v)[i] = cache[i]
        BY <1>4, <2>3, <3>1, PutCell
      <3>3. \A j \in 1 .. k : j = k \/ (j \in 1 .. Len(cache) /\ j # k)
        BY <1>4, <2>2
      <3>4. Len(Put(k, v)) = k
        BY <1>4, <2>2, <3>2
      <3>5. v = T(k)
        BY DEF v, T
      <3> HIDE DEF Put
      <3> QED BY <2>1, <2>2, <3>2, <3>3, <3>4, <3>5
    <2>5. SavedSoFar(p)'
      <3>1. \A j \in 1 .. k : Cell(meta'[p], j) = T(j)
        BY <1>2
      <3>2. pos'[p] - 1 = k
        BY <1>4, <2>1
      <3> HIDE DEF k, T
      <3> QED BY <2>4, <3>1, <3>2 DEF SavedSoFar
    <2>6. T(1) = meta[p].size /\ T(2) = meta[p].mtime /\ T(4) = n
          /\ \A i \in 1 .. n : T(Fields + i) = meta[p].hashes[i]
      BY <1>4 DEF Cell, Header, Fields
    <2> HIDE DEF T
    <2>7. CacheNotNewer'
      <3> SUFFICES ASSUME k >= 2 PROVE cache'[2] <= file.mtime
        BY <1>2, <2>4 DEF CacheNotNewer
      <3>1. cache'[2] = meta[p].mtime
        BY <1>4, <2>4, <2>6
      <3> QED BY <1>1, <3>1 DEF KnownOK, NotNewer
    <2>8. CacheSound'
      <3> DEFINE c == chunk_count(file.size)
      <3> SUFFICES ASSUME Accepted(file)', NEW i \in 1 .. c
                   PROVE  cache'[Fields + i] = TrueHash(file, i)
        BY <1>2 DEF CacheSound, TrueHash
      <3>1. k >= 4 + c /\ cache'[1] = file.size /\ cache'[2] = file.mtime
        BY <1>2, <2>4 DEF Accepted, Fields
      <3> HIDE DEF k
      <3>2. 1 \in 1 .. k /\ 2 \in 1 .. k /\ Fields + i \in 1 .. k
        BY <1>4, <3>1 DEF Fields
      <3>3. IsFile(meta[p])
        BY <2>4, <2>6, <3>1, <3>2 DEF IsFile
      <3>4. c = n
        BY <3>3 DEF IsFile
      <3>5. meta[p].hashes[i] = TrueHash(file, i)
        BY <1>1, <2>1, <3>3, <3>4 DEF KnownOK, HashesTrue, TrueHashes
      <3>6. cache'[Fields + i] = T(Fields + i)
        BY <2>4, <3>2
      <3> HIDE DEF n, c
      <3> QED BY <2>6, <3>4, <3>5, <3>6
    <2> QED BY <1>1, <1>2, <1>5, <2>5, <2>7, <2>8, OnePush DEF KnownOK
  <1>8. /\ SaveOpen(p) => cache' = <<>> \/ (cache' = cache /\ pc'[p] = "failed")
        /\ SaveFails(p) => cache' = cache /\ pc'[p] = "failed"
    BY <1>1 DEF SaveOpen, SaveFails, Goto, WholeInv, Shapes
  <1> QED BY <1>3, <1>6, <1>7, <1>8

(* After an edit nothing that is known of the file bears its mtime. *)
LEMMA EditFull == ASSUME FullInv, Edit PROVE FullInv'
  <1>1. /\ file'.mtime = file.mtime + 1 /\ file.mtime \in Nat
        /\ UNCHANGED <<cache, pc, meta, pos, next, worker, mapped, runs>>
    BY DEF Edit, FullInv, WholeInv, FileOK
  <1>2. WholeInv /\ WholeInv'
    BY EditWork DEF FullInv
  <1>3. file'.size \in Nat
    <2>1. file'.size \in MetaSizes
      BY <1>2 DEF WholeInv, FileOK, MetaSizes
    <2> QED BY <2>1, SizeType DEF MetaSizes
  <1>4. CacheNotNewer'
    <2> SUFFICES ASSUME Len(cache) >= 2 PROVE cache[2] <= file'.mtime
      BY <1>1 DEF CacheNotNewer
    <2>1. cache[2] \in Nat /\ cache[2] <= file.mtime
      BY <1>2 DEF FullInv, CacheNotNewer, WholeInv, CacheOK, CacheIsSeq, Fields
    <2> QED BY <1>1, <2>1
  <1>5. CacheSound'
    <2> SUFFICES ASSUME Accepted(file)' PROVE FALSE
      BY DEF CacheSound
    <2>1. chunk_count(file'.size) \in Nat /\ Len(cache) \in Nat
      <3>1. chunk_count(file'.size) \in Nat
        BY <1>3, ChunkCount
      <3>2. Len(cache) \in Nat
        BY <1>2 DEF WholeInv, CacheOK, CacheIsSeq
      <3> QED BY <3>1, <3>2
    <2>2. Len(cache) >= 2 /\ cache[2] = file.mtime + 1
      BY <1>1, <2>1 DEF Accepted, Fields
    <2>3. cache[2] <= file.mtime
      BY <2>2 DEF FullInv, CacheNotNewer
    <2> QED BY <1>1, <2>2, <2>3
  <1>6. ASSUME NEW p \in Pushers PROVE KnownOK(p)'
    <2>1. KnownOK(p) /\ meta[p].mtime \in Nat /\ meta[p].mtime <= file.mtime
      BY <1>2, MetaSize DEF FullInv, KnownOK, NotNewer, WholeInv, Local, LocalType
    <2>2. ~ IsFile(meta[p])'
      BY <1>1, <2>1 DEF IsFile
    <2>3. NotNewer(p)'
      <3>1. \A k \in Ids : worker[p][k].saw \in Nat
        BY <1>2 DEF WholeInv, Local, LocalType, Threads
      <3> QED BY <1>1, <2>1, <3>1 DEF KnownOK, NotNewer, Hashing, Ended
    <2>4. ClaimedAreHashed(p)'
      BY <1>1, <2>1, <2>2 DEF KnownOK, ClaimedAreHashed, Threw
    <2>5. LoadedSoFar(p)' /\ SavedSoFar(p)'
      BY <1>1, <2>1 DEF KnownOK, LoadedSoFar, SavedSoFar, Matches
    <2>6. HashesTrue(p)'
      BY <2>2 DEF HashesTrue
    <2> QED BY <2>3, <2>4, <2>5, <2>6 DEF KnownOK
  <1> QED BY <1>1, <1>2, <1>4, <1>5, <1>6 DEF FullInv, OneActive, Ended

LEMMA StillFull == ASSUME FullInv, UNCHANGED vars PROVE FullInv'
  <1>1. WholeInv'
    BY EditWork DEF FullInv
  <1>2. ASSUME NEW p \in Pushers PROVE KnownOK(p)'
    BY DEF FullInv, vars, KnownOK, NotNewer, ClaimedAreHashed, LoadedSoFar, SavedSoFar,
           HashesTrue, Hashing, Ended, Threw, Matches, IsFile, TrueHashes
  <1> QED BY <1>1, <1>2, SameCache DEF FullInv, vars, OneActive, Ended

LEMMA FullStep == ASSUME Exclusive PROVE FullInv /\ [Next]_vars => FullInv'
  <1> SUFFICES ASSUME FullInv, [Next]_vars PROVE FullInv'
    OBVIOUS
  <1>1. CASE Edit \/ UNCHANGED vars
    BY <1>1, EditFull, StillFull
  <1>2. ASSUME NEW p \in Pushers, GetSize(p) \/ Main(p) \/ Killed(p) PROVE FullInv'
    <2>1. CASE \E k \in Ids : Spawn(p, k) \/ SpawnFails(p, k)
      BY <2>1, SpawnFull, SpawnFailsFull
    <2>2. CASE ~ \E k \in Ids : Spawn(p, k) \/ SpawnFails(p, k)
      BY <1>2, <2>2, GetSizeFull, StatFull, LoadFull, MapFull, JoinFull, SaveFull, DeathFull
         DEF Main
    <2> QED BY <2>1, <2>2
  <1>3. ASSUME NEW p \in Pushers, NEW k \in Ids, Worker(p, k) PROVE FullInv'
    BY <1>3, ClaimFull, HashFull, HashThrowsFull, DeathFull DEF Worker
  <1> QED BY <1>1, <1>2, <1>3 DEF Next

(* The inductive invariant of the cache, for one push at a time. *)
THEOREM CacheIsSound == ASSUME Exclusive PROVE Spec => []CacheInv
  <1>1. FullInv /\ [Next]_vars => FullInv'
    BY FullStep
  <1> QED BY <1>1, FullInit, FullIsCache, PTL DEF Spec

(* While no two pushes overlap, a cache that would be accepted holds the hashes *)
(* of the file, whatever edits, deaths and failures came before.                 *)
THEOREM CacheHoldsHashes == ASSUME Exclusive PROVE Spec => []CacheSound
  <1>1. CacheInv => CacheSound
    BY DEF CacheInv
  <1> QED BY <1>1, CacheIsSound, PTL

(* And the hashes run_push announces are those of the file that stat saw. *)
THEOREM AnnouncedIsFile == ASSUME Exclusive PROVE Spec => []MetaIsFile
  <1>1. CacheInv => MetaIsFile
    BY DEF CacheInv, KnownOK, HashesTrue, MetaIsFile
  <1> QED BY <1>1, CacheIsSound, PTL
----------------------------------------------------------------------------
(* Every step of a push leaves less to do                                    *)

LEMMA LoadInit == Init => LoadInv
  BY DEF Init, LoadInv

(* A push keeps the size it began with. *)
LEMMA SizeKept ==
    ASSUME WholeInv, NEW p \in Pushers, Main(p) \/ Killed(p) \/ \E k \in Ids : Worker(p, k)
    PROVE  meta'[p].size = meta[p].size
  <1>1. Shapes /\ meta[p] \in Metas
    BY DEF WholeInv, Local, LocalType
  <1>2. CASE Stat(p)
    <2>1. meta'[p] = [meta[p] EXCEPT !.mtime = file.mtime]
      BY <1>1, <1>2 DEF Stat, Shapes
    <2> QED BY <1>1, <2>1 DEF Metas
  <1>3. ASSUME NEW h, meta' = [meta EXCEPT ![p].hashes = h] PROVE meta'[p].size = meta[p].size
    <2>1. meta'[p] = [meta[p] EXCEPT !.hashes = h]
      BY <1>1, <1>3 DEF Shapes
    <2> QED BY <1>1, <2>1 DEF Metas
  <1>4. CASE LoadCell(p) \/ LoadFails(p)
    <2>1. meta' = meta \/ meta' = [meta EXCEPT ![p].hashes = Append(@, cache[pos[p]])]
      BY <1>4 DEF LoadCell, LoadFails
    <2>2. [meta EXCEPT ![p].hashes = Append(@, cache[pos[p]])]
            = [meta EXCEPT ![p].hashes = Append(meta[p].hashes, cache[pos[p]])]
      OBVIOUS
    <2> QED BY <1>3, <2>1, <2>2
  <1>5. CASE Map(p)
    <2>1. meta' = meta \/ meta' = [meta EXCEPT ![p].hashes =
                                     [i \in 1 .. chunk_count(meta[p].size) |-> ZeroHash]]
      BY <1>5 DEF Map
    <2> QED BY <1>3, <2>1
  <1>6. ASSUME NEW k \in Ids, Hash(p, k) PROVE meta'[p].size = meta[p].size
    <2>1. PICK h : meta' = [meta EXCEPT ![p].hashes[worker[p][k].chunk] = h]
      BY <1>6 DEF Hash
    <2>2. meta'[p] = [meta[p] EXCEPT !.hashes = [meta[p].hashes EXCEPT ![worker[p][k].chunk] = h]]
      BY <1>1, <2>1 DEF Shapes
    <2> QED BY <1>1, <2>2 DEF Metas
  <1>7. CASE meta' = meta
    BY <1>7
  <1> QED
    BY <1>2, <1>4, <1>5, <1>6, <1>7 DEF Main, Worker, Spawn, SpawnFails, Join, Unwind, SaveOpen,
       SaveCell, SaveFails, Killed, Claim, HashThrows, Bus

LEMMA SizeStays ==
    ASSUME WholeInv, LoadInv, [Next]_vars, NEW p \in Pushers, pc'[p] \in {"sized", "loading"}
    PROVE  meta'[p].size > 0
  <1>1. Shapes /\ meta[p].size \in Nat
    BY MetaSize DEF WholeInv, Local, LocalType
  <1>2. CASE GetSize(p)
    <2>1. meta'[p].size = file.size /\ file.size # 0 /\ file.size \in Nat
      BY <1>1, <1>2, SizeType DEF GetSize, Goto, Shapes, WholeInv, FileOK
    <2> QED BY <2>1
  <1>3. CASE Main(p) \/ Killed(p) \/ \E k \in Ids : Worker(p, k)
    <2>1. pc[p] \in {"sized", "loading"}
      BY <1>1, <1>3 DEF Main, Worker, Stat, LoadCell, LoadFails, Map, Spawn, SpawnFails, Join,
         Unwind, SaveOpen, SaveCell, SaveFails, Killed, Claim, Hash, HashThrows, Bus, Goto, Shapes
    <2> QED BY <1>3, <2>1, SizeKept DEF LoadInv
  <1>4. ASSUME NEW q \in Pushers \ {p},
               GetSize(q) \/ Main(q) \/ Killed(q) \/ \E k \in Ids : Worker(q, k)
        PROVE  meta'[p].size > 0
    <2>1. pc[p] = pc'[p] /\ meta'[p] = meta[p]
      BY <1>1, <1>4 DEF Main, Worker, GetSize, Stat, LoadCell, LoadFails, Map, Spawn, SpawnFails,
         Join, Unwind, SaveOpen, SaveCell, SaveFails, Killed, Claim, Hash, HashThrows, Bus,
         Goto, Shapes
    <2> QED BY <2>1 DEF LoadInv
  <1>5. CASE Edit \/ UNCHANGED vars
    BY <1>5 DEF Edit, vars, LoadInv
  <1>6. ASSUME NEW q \in Pushers,
               GetSize(q) \/ Main(q) \/ Killed(q) \/ \E k \in Ids : Worker(q, k)
        PROVE  meta'[p].size > 0
    <2>1. CASE q = p
      BY <1>2, <1>3, <1>6, <2>1
    <2>2. CASE q # p
      BY <1>4, <1>6, <2>2
    <2> QED BY <2>1, <2>2
  <1> QED BY <1>5, <1>6 DEF Next

LEMMA LoadKept == WholeInv /\ LoadInv /\ [Next]_vars => LoadInv'
  <1> SUFFICES ASSUME WholeInv, LoadInv, [Next]_vars, NEW p \in Pushers, pc'[p] = "loading"
               PROVE  pos'[p] <= LastCell(meta'[p])
    BY SizeStays DEF LoadInv
  <1>1. Shapes /\ LocalType(p) /\ meta[p].size \in Nat
    BY MetaSize DEF WholeInv, Local, LocalType
  <1>2. chunk_count(meta[p].size) \in Nat
    BY <1>1, ChunkCount
  <1>3. CASE Stat(p)
    <2>1. pos'[p] = 1 /\ meta'[p].size = meta[p].size
      BY <1>1, <1>3, SizeKept DEF Stat, Shapes, Main
    <2> QED BY <1>2, <2>1 DEF LastCell, Fields
  <1>4. CASE LoadCell(p)
    <2>1. pos[p] <= LastCell(meta[p]) /\ pos[p] \in Nat /\ LastCell(meta[p]) \in Nat
      BY <1>1, <1>2, <1>4 DEF LoadInv, LoadCell, LocalType, LastCell, Fields
    <2>2. meta'[p].size = meta[p].size
      BY <1>4, SizeKept DEF Main
    <2>3. pos[p] # LastCell(meta[p]) /\ pos'[p] = pos[p] + 1
      <3>1. pos[p] > Fields \/ pos[p] <= Fields
        BY <2>1 DEF Fields
      <3>2. chunk_count(meta[p].size) > 0
        BY <1>1, <1>4, ChunkCount DEF LoadInv, LoadCell
      <3>3. pos[p] > Fields /\ pos[p] = LastCell(meta[p]) => pc'[p] # "loading"
        BY <1>1, <1>4, <2>1 DEF LoadCell, Shapes, Goto, Fields
      <3>4. pos'[p] = pos[p] + 1
        BY <1>1, <1>4 DEF LoadCell, Shapes, Goto
      <3>5. pos[p] <= Fields => pos[p] # LastCell(meta[p])
        BY <1>2, <2>1, <3>2 DEF LastCell, Fields
      <3> QED BY <3>1, <3>3, <3>4, <3>5
    <2>4. LastCell(meta'[p]) = LastCell(meta[p])
      BY <2>2 DEF LastCell
    <2> QED BY <2>1, <2>3, <2>4
  <1>5. CASE ~ Stat(p) /\ ~ LoadCell(p)
    <2>1. pc[p] = "loading" /\ pos'[p] = pos[p] /\ (meta'[p] = meta[p] \/ meta'[p].size = meta[p].size)
      <3>1. ASSUME NEW q \in Pushers, GetSize(q) \/ Main(q) \/ Killed(q) \/ \E k \in Ids : Worker(q, k)
            PROVE  pc[p] = "loading" /\ pos'[p] = pos[p] /\ meta'[p].size = meta[p].size
        <4>1. CASE q = p
          <5>1. ~ GetSize(p) /\ ~ Killed(p)
            BY <1>1 DEF GetSize, Killed, Goto, Shapes
          <5>2. meta'[p].size = meta[p].size
            BY <3>1, <4>1, <5>1, SizeKept
          <5> QED BY <1>1, <1>5, <3>1, <4>1, <5>1, <5>2 DEF Main, Worker, LoadFails, Map, Spawn, SpawnFails,
                 Join, Unwind, SaveOpen, SaveCell, SaveFails, Claim, Hash, HashThrows, Bus, Shapes, Goto
        <4>2. CASE q # p
          BY <1>1, <3>1, <4>2 DEF Main, Worker, GetSize, Stat, LoadCell, LoadFails, Map, Spawn,
             SpawnFails, Join, Unwind, SaveOpen, SaveCell, SaveFails, Killed, Claim, Hash,
             HashThrows, Bus, Shapes, Goto
        <4> QED BY <4>1, <4>2
      <3>2. CASE Edit \/ UNCHANGED vars
        BY <3>2 DEF Edit, vars
      <3> QED BY <3>1, <3>2 DEF Next
    <2> QED BY <2>1 DEF LoadInv, LastCell
  <1> QED BY <1>3, <1>4, <1>5

(* What a thread at a place may still do. *)
Cost(at) == IF at \in {"unborn", "reading"} THEN 2 ELSE IF at = "free" THEN 1 ELSE 0

LEMMA IdSets ==
    ASSUME NEW S \in SUBSET Ids
    PROVE  IsFiniteSet(S) /\ Cardinality(S) \in 0 .. Cores
  <1>1. IsFiniteSet(Ids) /\ Cardinality(Ids) = Cores
    BY FS_Interval DEF Ids
  <1>2. IsFiniteSet(S) /\ Cardinality(S) <= Cores
    BY <1>1, FS_Subset
  <1> QED BY <1>2, FS_CardinalityType

LEMMA ThreadCount == ASSUME NEW p PROVE ThreadSteps(p) \in 0 .. 2 * Cores
  <1>1. Busy(p) \in SUBSET Ids /\ Free(p) \in SUBSET Ids /\ Busy(p) \cap Free(p) = {}
    BY DEF Busy, Free
  <1>2. /\ IsFiniteSet(Busy(p)) /\ Cardinality(Busy(p)) \in 0 .. Cores
        /\ IsFiniteSet(Free(p)) /\ Cardinality(Free(p)) \in 0 .. Cores
        /\ Cardinality(Busy(p) \union Free(p)) \in 0 .. Cores
    BY <1>1, IdSets
  <1>3. Cardinality(Busy(p) \union Free(p)) = Cardinality(Busy(p)) + Cardinality(Free(p))
    <2>1. Cardinality(Busy(p) \union Free(p))
            = Cardinality(Busy(p)) + Cardinality(Free(p)) - Cardinality(Busy(p) \cap Free(p))
      BY <1>2, FS_Union
    <2>2. Cardinality(Busy(p) \cap Free(p)) = 0
      BY <1>1, FS_EmptySet
    <2> QED BY <1>2, <2>1, <2>2
  <1> QED BY <1>2, <1>3 DEF ThreadSteps

LEMMA ThreadMoves ==
    ASSUME WholeInv, NEW p \in Pushers, NEW k \in Ids, NEW w, Become(p, k, w)
    PROVE  ThreadSteps(p)' = ThreadSteps(p) - Cost(worker[p][k].at) + Cost(w.at)
  <1> DEFINE at == worker[p][k].at
  <1>1. worker'[p] = [worker[p] EXCEPT ![k] = w] /\ worker[p] \in [Ids -> Threads]
    BY DEF WholeInv, Shapes, Local, LocalType, Become
  <1>2. worker'[p][k] = w /\ \A j \in Ids \ {k} : worker'[p][j] = worker[p][j]
    BY <1>1
  <1>3. /\ Busy(p)' = IF w.at \in {"unborn", "reading"} THEN Busy(p) \union {k} ELSE Busy(p) \ {k}
        /\ Free(p)' = IF w.at = "free" THEN Free(p) \union {k} ELSE Free(p) \ {k}
    BY <1>2 DEF Busy, Free
  <1>4. (k \in Busy(p) <=> at \in {"unborn", "reading"}) /\ (k \in Free(p) <=> at = "free")
    BY DEF Busy, Free
  <1>5. Busy(p) \in SUBSET Ids /\ Free(p) \in SUBSET Ids
    BY DEF Busy, Free
  <1>6. /\ IsFiniteSet(Busy(p)) /\ Cardinality(Busy(p)) \in Nat
        /\ IsFiniteSet(Free(p)) /\ Cardinality(Free(p)) \in Nat
    BY <1>5, IdSets
  <1> DEFINE b == Cardinality(Busy(p))
             f == Cardinality(Free(p))
  <1>7. Cardinality(Busy(p)') = b - (IF at \in {"unborn", "reading"} THEN 1 ELSE 0)
                                  + (IF w.at \in {"unborn", "reading"} THEN 1 ELSE 0)
    <2>1. /\ Cardinality(Busy(p) \union {k}) = IF k \in Busy(p) THEN b ELSE b + 1
          /\ Cardinality(Busy(p) \ {k}) = IF k \in Busy(p) THEN b - 1 ELSE b
      BY <1>6, FS_AddElement, FS_RemoveElement
    <2> HIDE DEF b, at
    <2>2. b \in Nat
      BY <1>6 DEF b
    <2> QED BY <1>3, <1>4, <2>1, <2>2
  <1>8. Cardinality(Free(p)') = f - (IF at = "free" THEN 1 ELSE 0) + (IF w.at = "free" THEN 1 ELSE 0)
    <2>1. /\ Cardinality(Free(p) \union {k}) = IF k \in Free(p) THEN f ELSE f + 1
          /\ Cardinality(Free(p) \ {k}) = IF k \in Free(p) THEN f - 1 ELSE f
      BY <1>6, FS_AddElement, FS_RemoveElement
    <2> HIDE DEF f, at
    <2>2. f \in Nat
      BY <1>6 DEF f
    <2> QED BY <1>3, <1>4, <2>1, <2>2
  <1>9. /\ ThreadSteps(p) = 2 * b + f
        /\ ThreadSteps(p)' = 2 * Cardinality(Busy(p)') + Cardinality(Free(p)')
    BY DEF ThreadSteps
  <1> HIDE DEF b, f, at
  <1>10. b \in Nat /\ f \in Nat
    BY <1>6 DEF b, f
  <1> QED BY <1>7, <1>8, <1>9, <1>10 DEF Cost, at

(* The table of StagesLeft. *)
LEMMA Stages ==
    ASSUME NEW n, NEW l, NEW c, NEW t
    PROVE  /\ StagesLeft("sized", n, l, c, t) = 5 + 2 * l + 2 * n + 2 * Cores
           /\ StagesLeft("loading", n, l, c, t) = 4 + l + 2 * n + 2 * Cores + c
           /\ StagesLeft("missed", n, l, c, t) = 4 + l + 2 * n + 2 * Cores
           /\ StagesLeft("hashing", n, l, c, t) = 3 + l + t
           /\ StagesLeft("unwinding", n, l, c, t) = 1 + t
           /\ StagesLeft("saving", n, l, c, t) = 1 + l
           /\ StagesLeft("writing", n, l, c, t) = c
           /\ StagesLeft("idle", n, l, c, t) = 0 /\ StagesLeft("done", n, l, c, t) = 0
           /\ StagesLeft("failed", n, l, c, t) = 0 /\ StagesLeft("killed", n, l, c, t) = 0
  BY DEF StagesLeft

(* What is counted, of one process. *)
ToHash(p) == 2 * Unclaimed(p) + ThreadSteps(p)

Amounts ==
    \A p \in Pushers :
        /\ chunk_count(meta[p].size) \in Nat
        /\ LastCell(meta[p]) \in Nat /\ LastCell(meta[p]) >= 1
        /\ Cells(p) \in 0 .. LastCell(meta[p])
        /\ pc[p] \in {"loading", "writing"} =>
               Cells(p) = LastCell(meta[p]) + 1 - pos[p] /\ Cells(p) >= 1
        /\ Unclaimed(p) \in 0 .. chunk_count(meta[p].size)
        /\ ThreadSteps(p) \in 0 .. 2 * Cores
        /\ ToHash(p) \in Nat

LEMMA AmountsHold == WholeInv /\ LoadInv => Amounts
  <1> SUFFICES ASSUME WholeInv, LoadInv, NEW p \in Pushers
               PROVE  /\ chunk_count(meta[p].size) \in Nat
                      /\ LastCell(meta[p]) \in Nat /\ LastCell(meta[p]) >= 1
                      /\ Cells(p) \in 0 .. LastCell(meta[p])
                      /\ pc[p] \in {"loading", "writing"} =>
                             Cells(p) = LastCell(meta[p]) + 1 - pos[p] /\ Cells(p) >= 1
                      /\ Unclaimed(p) \in 0 .. chunk_count(meta[p].size)
                      /\ ThreadSteps(p) \in 0 .. 2 * Cores
                      /\ ToHash(p) \in Nat
    BY DEF Amounts
  <1>1. LocalType(p) /\ SlotsOK(p) /\ meta[p].size \in Nat
    BY MetaSize DEF WholeInv, Local, LocalType
  <1>2. chunk_count(meta[p].size) \in Nat
    BY <1>1, ChunkCount
  <1>3. LastCell(meta[p]) \in Nat /\ LastCell(meta[p]) >= 1
    BY <1>2 DEF LastCell, Fields
  <1>4. Cells(p) \in 0 .. LastCell(meta[p])
    BY <1>1, <1>3 DEF Cells, UpTo, LocalType
  <1>5. pc[p] \in {"loading", "writing"} => pos[p] <= LastCell(meta[p])
    BY <1>1 DEF LoadInv, SlotsOK
  <1>6. Unclaimed(p) \in 0 .. chunk_count(meta[p].size)
    BY <1>1, <1>2 DEF Unclaimed, UpTo, LocalType
  <1>7. ThreadSteps(p) \in 0 .. 2 * Cores
    BY ThreadCount
  <1>8. ToHash(p) \in Nat
    BY <1>2, <1>6, <1>7 DEF ToHash
  <1>9. pc[p] \in {"loading", "writing"} =>
            Cells(p) = LastCell(meta[p]) + 1 - pos[p] /\ Cells(p) >= 1
    BY <1>1, <1>3, <1>5 DEF Cells, UpTo, LocalType
  <1> QED BY <1>2, <1>3, <1>4, <1>6, <1>7, <1>8, <1>9

Counted == \A p \in Pushers : StepsLeft(p) \in Nat /\ (~ Ended(p) => StepsLeft(p) > 0)
LEMMA StepsCounted == WholeInv /\ Amounts => Counted
  <1> SUFFICES ASSUME WholeInv, Amounts, NEW p \in Pushers
               PROVE  StepsLeft(p) \in Nat /\ (~ Ended(p) => StepsLeft(p) > 0)
    BY DEF Counted
  <1> DEFINE n == chunk_count(meta[p].size)
             l == LastCell(meta[p])
             c == Cells(p)
             t == ToHash(p)
  <1>1. pc[p] \in Places
    BY DEF WholeInv, Local, LocalType
  <1>2. /\ n \in Nat /\ l \in Nat /\ l >= 1 /\ c \in Nat /\ t \in Nat
        /\ pc[p] = "writing" => c >= 1
    BY DEF Amounts
  <1>3. StepsLeft(p) = StagesLeft(pc[p], n, l, c, t)
    BY DEF StepsLeft, ToHash
  <1> HIDE DEF n, l, c, t
  <1> QED BY <1>1, <1>2, <1>3, Stages DEF Places, Ended

(* A step of the main thread. *)
LEMMA MainAdvances ==
    ASSUME WholeInv, Amounts, Amounts', NEW p \in Pushers, Main(p)
    PROVE  StepsLeft(p)' < StepsLeft(p)
  <1> DEFINE n == chunk_count(meta[p].size)
             l == LastCell(meta[p])
             c == Cells(p)
             t == ToHash(p)
  <1>0. Shapes /\ LocalType(p)
    BY DEF WholeInv, Local
  <1>1. meta'[p].size = meta[p].size
    BY SizeKept
  <1>2. /\ StepsLeft(p) = StagesLeft(pc[p], n, l, c, t)
        /\ StepsLeft(p)' = StagesLeft(pc'[p], n, l, Cells(p)', ToHash(p)')
    BY <1>1 DEF StepsLeft, ToHash, LastCell
  <1>3. /\ n \in Nat /\ l \in Nat /\ l >= 1 /\ c \in 0 .. l /\ t \in Nat
        /\ Cells(p)' \in 0 .. l /\ ToHash(p)' \in Nat
    BY <1>1 DEF Amounts, LastCell
  <1>4. CASE Stat(p)
    <2>1. pc[p] = "sized" /\ pc'[p] \in {"loading", "missed", "failed"}
      BY <1>0, <1>4 DEF Stat, Goto, Shapes
    <2> HIDE DEF n, l, c, t
    <2> QED BY <1>2, <1>3, <2>1, Stages
  <1>5. CASE LoadCell(p) \/ LoadFails(p)
    <2>1. pc[p] = "loading" /\ pc'[p] \in {"loading", "missed", "done"}
      BY <1>0, <1>5 DEF LoadCell, LoadFails, Goto, Shapes
    <2>2. c = l + 1 - pos[p] /\ c >= 1
      BY <2>1 DEF Amounts
    <2>3. pc'[p] = "loading" => pos'[p] = pos[p] + 1 /\ Cells(p)' = l + 1 - pos'[p]
      <3>1. ASSUME pc'[p] = "loading" PROVE pos'[p] = pos[p] + 1
        BY <1>0, <1>5, <3>1 DEF LoadCell, LoadFails, Goto, Shapes
      <3> QED BY <1>1, <3>1 DEF Amounts, LastCell
    <2>4. pos[p] \in Nat
      BY <1>0 DEF LocalType
    <2> HIDE DEF n, l, c, t
    <2> QED BY <1>2, <1>3, <2>1, <2>2, <2>3, <2>4, Stages
  <1>6. CASE Map(p)
    <2>1. pc[p] = "missed" /\ pc'[p] \in {"hashing", "failed"}
      BY <1>0, <1>6 DEF Map, Goto, Shapes
    <2>2. ToHash(p)' <= 2 * n + 2 * Cores
      <3>1. Unclaimed(p)' \in 0 .. n /\ ThreadSteps(p)' \in 0 .. 2 * Cores
        BY <1>1 DEF Amounts
      <3> QED BY <1>3, <3>1 DEF ToHash
    <2> HIDE DEF n, l, c, t
    <2> QED BY <1>2, <1>3, <2>1, <2>2, Stages
  <1>7. ASSUME NEW k \in Ids, Spawn(p, k) PROVE StepsLeft(p)' < StepsLeft(p)
    <2>1. /\ pc[p] = "hashing" /\ pc' = pc /\ next' = next /\ worker[p][k] = Unborn
          /\ Become(p, k, In("free", 0, 0))
      BY <1>7 DEF Spawn, Toward
    <2>2. ThreadSteps(p)' = ThreadSteps(p) - 2 + 1
      BY <2>1, ThreadMoves DEF Cost, Unborn, In
    <2>3. Unclaimed(p)' = Unclaimed(p)
      BY <1>1, <2>1 DEF Unclaimed
    <2>4. ToHash(p)' = t - 1
      BY <2>2, <2>3 DEF Amounts, ToHash
    <2> HIDE DEF n, l, c, t
    <2> QED BY <1>2, <1>3, <2>1, <2>4, Stages
  <1>8. ASSUME NEW k \in Ids, SpawnFails(p, k) PROVE StepsLeft(p)' < StepsLeft(p)
    <2>1. /\ pc[p] = "hashing" /\ pc'[p] = "unwinding"
          /\ UNCHANGED <<meta, next, worker>>
      BY <1>0, <1>8 DEF SpawnFails, Toward, Goto, Shapes
    <2>2. ToHash(p)' = t
      BY <2>1 DEF ToHash, Unclaimed, ThreadSteps, Busy, Free
    <2> HIDE DEF n, l, c, t
    <2> QED BY <1>2, <1>3, <2>1, <2>2, Stages
  <1>9. CASE Join(p) \/ Unwind(p)
    <2>1. \/ pc[p] = "hashing" /\ pc'[p] \in {"failed", "saving"}
          \/ pc[p] = "unwinding" /\ pc'[p] = "failed"
      BY <1>0, <1>9 DEF Join, Unwind, Goto, Shapes
    <2> HIDE DEF n, l, c, t
    <2> QED BY <1>2, <1>3, <2>1, Stages
  <1>10. CASE SaveOpen(p)
    <2>1. pc[p] = "saving" /\ pc'[p] \in {"writing", "failed"}
      BY <1>0, <1>10 DEF SaveOpen, Goto, Shapes
    <2> HIDE DEF n, l, c, t
    <2> QED BY <1>2, <1>3, <2>1, Stages
  <1>11. CASE SaveCell(p) \/ SaveFails(p)
    <2>1. pc[p] = "writing" /\ pc'[p] \in {"writing", "done", "failed"}
      BY <1>0, <1>11 DEF SaveCell, SaveFails, Goto, Shapes
    <2>2. c = l + 1 - pos[p] /\ c >= 1
      BY <2>1 DEF Amounts
    <2>3. pc'[p] = "writing" => pos'[p] = pos[p] + 1 /\ Cells(p)' = l + 1 - pos'[p]
      <3>1. ASSUME pc'[p] = "writing" PROVE pos'[p] = pos[p] + 1
        BY <1>0, <1>11, <3>1 DEF SaveCell, SaveFails, Goto, Shapes
      <3> QED BY <1>1, <3>1 DEF Amounts, LastCell
    <2>4. pos[p] \in Nat
      BY <1>0 DEF LocalType
    <2> HIDE DEF n, l, c, t
    <2> QED BY <1>2, <1>3, <2>1, <2>2, <2>3, <2>4, Stages
  <1> QED BY <1>4, <1>5, <1>6, <1>7, <1>8, <1>9, <1>10, <1>11 DEF Main

(* The death of the process, by signal or by a page that is gone. *)
LEMMA DeathAdvances ==
    ASSUME Counted, NEW p \in Pushers, ~ Ended(p), pc'[p] = "killed"
    PROVE  StepsLeft(p)' < StepsLeft(p)
  <1>1. StepsLeft(p)' = 0
    BY Stages DEF StepsLeft
  <1> QED BY <1>1 DEF Counted

(* A step of a thread. *)
LEMMA WorkerAdvances ==
    ASSUME WholeInv, Counted, Amounts, Amounts', NEW p \in Pushers, NEW k \in Ids, Worker(p, k)
    PROVE  StepsLeft(p)' < StepsLeft(p)
  <1>0. Shapes /\ LocalType(p) /\ ClaimsOK(p)
    BY DEF WholeInv, Local
  <1>1. Hashing(p) /\ worker[p][k].at \in {"free", "reading"}
    BY <1>0 DEF Worker, Claim, Hash, HashThrows, Bus, ClaimsOK, Running
  <1>2. CASE Bus(p, k)
    BY <1>0, <1>1, <1>2, DeathAdvances DEF Bus, Goto, Shapes, Ended, Hashing
  <1>3. ASSUME pc' = pc, meta'[p].size = meta[p].size, ToHash(p)' < ToHash(p)
        PROVE  StepsLeft(p)' < StepsLeft(p)
    <2> DEFINE n == chunk_count(meta[p].size)
               l == LastCell(meta[p])
    <2>1. /\ StepsLeft(p) = StagesLeft(pc[p], n, l, Cells(p), ToHash(p))
          /\ StepsLeft(p)' = StagesLeft(pc[p], n, l, Cells(p)', ToHash(p)')
      BY <1>3 DEF StepsLeft, ToHash, LastCell
    <2>2. l \in Nat /\ ToHash(p) \in Nat /\ ToHash(p)' \in Nat
      BY <1>3 DEF Amounts, LastCell
    <2>3. pc[p] \in {"hashing", "unwinding"}
      BY <1>1 DEF Hashing
    <2> HIDE DEF n, l
    <2> QED BY <1>3, <2>1, <2>2, <2>3, Stages
  <1>4. CASE Claim(p, k)
    <2> DEFINE n == chunk_count(meta[p].size)
    <2>1. /\ worker[p][k].at = "free" /\ next'[p] = next[p] + 1 /\ pc' = pc /\ meta' = meta
          /\ IF next[p] > n THEN Become(p, k, In("ended", 0, 0))
                            ELSE Become(p, k, In("reading", next[p], file.mtime))
      BY <1>0, <1>4 DEF Claim, Shapes
    <2>2. n \in Nat /\ next[p] \in Nat /\ ThreadSteps(p) \in Nat
      BY <1>0 DEF Amounts, LocalType
    <2>3. CASE next[p] > n
      <3>1. ThreadSteps(p)' = ThreadSteps(p) - 1 + 0
        BY <2>1, <2>3, ThreadMoves DEF Cost, In
      <3>2. Unclaimed(p)' = 0 /\ Unclaimed(p) = 0
        BY <2>1, <2>2, <2>3 DEF Unclaimed, UpTo
      <3> QED BY <1>3, <2>1, <2>2, <3>1, <3>2 DEF ToHash
    <2>4. CASE ~ (next[p] > n)
      <3>1. ThreadSteps(p)' = ThreadSteps(p) - 1 + 2
        BY <2>1, <2>4, ThreadMoves DEF Cost, In
      <3>2. Unclaimed(p)' = Unclaimed(p) - 1 /\ Unclaimed(p) \in Nat
        BY <2>1, <2>2, <2>4 DEF Unclaimed, UpTo
      <3> QED BY <1>3, <2>1, <2>2, <3>1, <3>2 DEF ToHash
    <2> QED BY <2>3, <2>4
  <1>5. CASE Hash(p, k) \/ HashThrows(p, k)
    <2>1. /\ worker[p][k].at = "reading" /\ next' = next /\ pc' = pc
          /\ meta'[p].size = meta[p].size
          /\ Become(p, k, In("free", 0, 0)) \/ Become(p, k, In("threw", 0, 0))
      BY <1>5, SizeKept DEF Hash, HashThrows, Worker
    <2>2. ThreadSteps(p)' \in {ThreadSteps(p) - 2 + 1, ThreadSteps(p) - 2 + 0}
      BY <2>1, ThreadMoves DEF Cost, In
    <2>3. Unclaimed(p)' = Unclaimed(p) /\ Unclaimed(p) \in Nat /\ ThreadSteps(p) \in Nat
      BY <2>1 DEF Amounts, Unclaimed
    <2> QED BY <1>3, <2>1, <2>2, <2>3 DEF ToHash
  <1> QED BY <1>2, <1>4, <1>5 DEF Worker

(* What another process does, or an edit, is no step of this one. *)
LEMMA OthersAdvance ==
    ASSUME NEW p \in Pushers, pc'[p] = pc[p], meta'[p] = meta[p], pos'[p] = pos[p],
           next'[p] = next[p], worker'[p] = worker[p]
    PROVE  StepsLeft(p)' = StepsLeft(p)
  BY DEF StepsLeft, Cells, Unclaimed, ThreadSteps, Busy, Free, LastCell

LEMMA PushStep ==
    ASSUME WholeInv, Counted, Amounts, Amounts', Counted', [Next]_vars
    PROVE  PushAdvances
  <1> SUFFICES ASSUME NEW p \in Pushers
               PROVE  /\ Main(p) \/ (\E k \in Ids : Worker(p, k)) => StepsLeft(p)' < StepsLeft(p)
                      /\ StepsLeft(p)' <= StepsLeft(p) \/ GetSize(p)
    BY DEF PushAdvances
  <1>1. StepsLeft(p) \in Nat /\ StepsLeft(p)' \in Nat
    BY DEF Counted
  <1>2. Main(p) \/ (\E k \in Ids : Worker(p, k)) => StepsLeft(p)' < StepsLeft(p)
    BY MainAdvances, WorkerAdvances
  <1>3. Main(p) \/ (\E k \in Ids : Worker(p, k)) => StepsLeft(p)' <= StepsLeft(p)
    BY <1>1, <1>2
  <1>4. ASSUME Killed(p) PROVE StepsLeft(p)' <= StepsLeft(p)
    <2>1. ~ Ended(p) /\ pc'[p] = "killed"
      BY <1>4 DEF Killed, Goto, WholeInv, Shapes
    <2> QED BY <1>1, <2>1, DeathAdvances
  <1>5. ASSUME NEW q \in Pushers \ {p},
               GetSize(q) \/ Main(q) \/ Killed(q) \/ \E k \in Ids : Worker(q, k)
        PROVE  StepsLeft(p)' = StepsLeft(p)
    <2>1. Shapes
      BY DEF WholeInv
    <2>2. /\ pc'[p] = pc[p] /\ meta'[p] = meta[p] /\ pos'[p] = pos[p]
          /\ next'[p] = next[p] /\ worker'[p] = worker[p]
      BY <1>5, <2>1 DEF Main, Worker, GetSize, Stat, LoadCell, LoadFails, Map, Spawn, SpawnFails,
         Join, Unwind, SaveOpen, SaveCell, SaveFails, Killed, Claim, Hash, HashThrows, Bus,
         Become, Goto, Shapes
    <2> QED BY <2>2, OthersAdvance
  <1>6. Edit \/ UNCHANGED vars => StepsLeft(p)' = StepsLeft(p)
    BY OthersAdvance DEF Edit, vars
  <1>7. ASSUME NEW q \in Pushers,
               GetSize(q) \/ Main(q) \/ Killed(q) \/ \E k \in Ids : Worker(q, k)
        PROVE  StepsLeft(p)' <= StepsLeft(p) \/ GetSize(p)
    <2>1. CASE q = p
      BY <1>3, <1>4, <1>7, <2>1
    <2>2. CASE q # p
      BY <1>1, <1>5, <1>7, <2>2
    <2> QED BY <2>1, <2>2
  <1>8. StepsLeft(p)' <= StepsLeft(p) \/ GetSize(p)
    BY <1>1, <1>6, <1>7 DEF Next
  <1> QED BY <1>2, <1>8

(* The variant of every push, for any number of pushes, threads, edits and  *)
(* deaths: StepsLeft is a natural number that each step of precompute_meta  *)
(* and of its threads makes smaller, and nothing but a new push larger.     *)
THEOREM PushesDwindle == Spec => [](\A p \in Pushers : StepsLeft(p) \in Nat) /\ PushDwindles
  <1>1. Counted => \A p \in Pushers : StepsLeft(p) \in Nat
    BY DEF Counted
  <1>2. WholeInv /\ Counted /\ Amounts /\ Amounts' /\ Counted' /\ [Next]_vars
          => [PushAdvances]_vars
    BY PushStep
  <1> QED BY <1>1, <1>2, WorkIsSound, LoadInit, LoadKept, AmountsHold, StepsCounted, PTL
          DEF Spec, PushDwindles
=============================================================================
