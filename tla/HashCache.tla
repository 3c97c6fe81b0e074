------------------------------ MODULE HashCache -----------------------------
(***************************************************************************)
(* precompute_meta: what embr push does before it listens.  It takes the   *)
(* size and the mtime of the file, looks for its chunk hashes in the       *)
(* .embr.hash file beside it, and on a miss maps the file, hashes its      *)
(* chunks on several threads and writes the hashes to that file.           *)
(*                                                                         *)
(* Several runs of embr push may work on one file, and users edit it at    *)
(* any moment.  Every edit gives the file a later mtime, which therefore   *)
(* names the content; an edit that keeps the mtime is outside this model.  *)
(***************************************************************************)
EXTENDS Integers, Sequences, FiniteSets

CONSTANTS
    Pushers,        \* processes that run embr push on the file, again and again
    Cores,          \* hardware_concurrency
    CHUNK_SIZE,
    Sizes,          \* the sizes the file may have
    Exclusive,      \* nobody starts a push while another one is in this code
    MaxEdits, MaxRuns

chunk_count(size) == (size + CHUNK_SIZE - 1) \div CHUNK_SIZE

ASSUME HashAssumption ==
    /\ Cores \in Nat \ {0} /\ CHUNK_SIZE \in Nat \ {0}
    /\ Sizes \subseteq Nat
    /\ Exclusive \in BOOLEAN
    /\ MaxEdits \in Nat /\ MaxRuns \in Nat

VARIABLES
    file,       \* its size and mtime
    cache,      \* the cells of .embr.hash; no cells: empty or missing
    pc,         \* where each process is
    meta,       \* its FileMeta: size, mtime and chunk_hashes
    pos,        \* the cell of .embr.hash it reads or writes next
    next,       \* next_chunk, shared by its workers
    worker,     \* its worker threads
    mapped,     \* is the file mapped?
    runs        \* pushes it has begun

vars == <<file, cache, pc, meta, pos, next, worker, mapped, runs>>

Ids == 1 .. Cores
num_workers(size) == IF chunk_count(size) < Cores THEN chunk_count(size) ELSE Cores

(* A hash stands for the bytes that went into it: chunk i as it was at some   *)
(* mtime, and how much of it the file had.  Bytes of two versions are of      *)
(* none, and a slot nobody filled is all zeros.                               *)
Mixed == 0
sha256(of, i, len) == [of |-> of, i |-> i, len |-> len]
ZeroHash == sha256(0, 0, 0)

chunk_len(size, i) ==
    LET rest == size - (i - 1) * CHUNK_SIZE
    IN  IF rest < 0 THEN 0 ELSE IF rest < CHUNK_SIZE THEN rest ELSE CHUNK_SIZE

TrueHash(f, i) == sha256(f.mtime, i, chunk_len(f.size, i))

(* .embr.hash: file_size, mtime_ns, chunk_size, chunk_count, then the hashes; *)
(* one cell for each write_exact.                                             *)
Fields == 4
Header(m) == <<m.size, m.mtime, CHUNK_SIZE, chunk_count(m.size)>>
Cell(m, k) == IF k <= Fields THEN Header(m)[k] ELSE m.hashes[k - Fields]
LastCell(m) == Fields + chunk_count(m.size)

(* write(2) at a position; what was never written reads as zeros. *)
Hole(k) == IF k <= Fields THEN 0 ELSE ZeroHash
Put(k, v) ==
    [i \in 1 .. (IF k > Len(cache) THEN k ELSE Len(cache)) |->
        IF i = k THEN v ELSE IF i <= Len(cache) THEN cache[i] ELSE Hole(i)]

Unborn == [at |-> "unborn", chunk |-> 0, saw |-> 0]
Ended(p) == pc[p] \in {"idle", "done", "failed", "killed"}
Goto(p, where) == pc' = [pc EXCEPT ![p] = where]

Init ==
    /\ file \in {[size |-> s, mtime |-> 1] : s \in Sizes}
    /\ cache = <<>>
    /\ pc = [p \in Pushers |-> "idle"]
    /\ meta = [p \in Pushers |-> [size |-> 0, mtime |-> 0, hashes |-> <<>>]]
    /\ pos = [p \in Pushers |-> 1]
    /\ next = [p \in Pushers |-> 1]
    /\ worker = [p \in Pushers |-> [k \in Ids |-> Unborn]]
    /\ mapped = [p \in Pushers |-> FALSE]
    /\ runs = [p \in Pushers |-> 0]

----------------------------------------------------------------------------
(* precompute_meta up to the cache                                          *)

(* exists() and file_size(): no file, or an empty one, throws.  stat() is a   *)
(* call of its own, and the file may change in between.                       *)
GetSize(p) ==
    /\ Ended(p) /\ runs[p] < MaxRuns
    /\ Exclusive => \A q \in Pushers : Ended(q)
    /\ runs' = [runs EXCEPT ![p] = @ + 1]
    /\ meta' = [meta EXCEPT ![p] = [size |-> file.size, mtime |-> 0, hashes |-> <<>>]]
    /\ worker' = [worker EXCEPT ![p] = [k \in Ids |-> Unborn]]
    /\ mapped' = [mapped EXCEPT ![p] = FALSE]
    /\ Goto(p, IF file.size = 0 THEN "failed" ELSE "sized")
    /\ UNCHANGED <<file, cache, pos, next>>

(* stat, which fails when the file is gone, then hash_cache_load opens the    *)
(* cache, or finds none it can open.                                          *)
Stat(p) ==
    /\ pc[p] = "sized"
    /\ meta' = [meta EXCEPT ![p].mtime = file.mtime]
    /\ pos' = [pos EXCEPT ![p] = 1]
    /\ \E q \in {"loading", "missed", "failed"} : Goto(p, q)
    /\ UNCHANGED <<file, cache, next, worker, mapped, runs>>

Bug_ForgetMtime(p, k) == k \in {2, 3} \/ cache[k] = Cell(meta[p], k)

(* The stored chunk_size is read and not compared. *)
Matches(p, k) == k = 3 \/ cache[k] = Cell(meta[p], k)

(* One read_exact of the load.  A short file throws, and any error, as a header *)
(* that differs, makes it a miss.                                               *)
LoadCell(p) ==
    LET k == pos[p]
    IN  /\ pc[p] = "loading"
        /\ \/ /\ k <= Len(cache) /\ k <= Fields /\ Matches(p, k)
              /\ UNCHANGED <<pc, meta>>
              /\ pos' = [pos EXCEPT ![p] = k + 1]
           \/ /\ k <= Len(cache) /\ k > Fields
              /\ meta' = [meta EXCEPT ![p].hashes = Append(@, cache[k])]
              /\ pos' = [pos EXCEPT ![p] = k + 1]
              /\ IF k = LastCell(meta[p]) THEN Goto(p, "done") ELSE UNCHANGED pc
           \/ /\ k <= Fields => (k <= Len(cache) => ~ Matches(p, k))
              /\ k > Fields => k > Len(cache)
              /\ Goto(p, "missed") /\ UNCHANGED <<meta, pos>>
        /\ UNCHANGED <<file, cache, next, worker, mapped, runs>>

LoadFails(p) ==
    /\ pc[p] = "loading"
    /\ Goto(p, "missed")
    /\ UNCHANGED <<file, cache, meta, pos, next, worker, mapped, runs>>

----------------------------------------------------------------------------
(* hash_compute_parallel                                                    *)

(* open and mmap. *)
Map(p) ==
    /\ pc[p] = "missed"
    /\ \/ /\ meta' = [meta EXCEPT ![p].hashes = [i \in 1 .. chunk_count(meta[p].size) |-> ZeroHash]]
          /\ mapped' = [mapped EXCEPT ![p] = TRUE]
          /\ next' = [next EXCEPT ![p] = 1]
          /\ Goto(p, "hashing")
       \/ /\ Goto(p, "failed") /\ UNCHANGED <<meta, mapped, next>>
    /\ UNCHANGED <<file, cache, pos, worker, runs>>

Become(p, k, w) == worker' = [worker EXCEPT ![p][k] = w]
In(at, i, saw) == [at |-> at, chunk |-> i, saw |-> saw]
Running(w) == w.at \in {"free", "reading"}

(* Threads are started one after the other, and the first ones already hash. *)
Toward(p, k) ==
    /\ pc[p] = "hashing" /\ k <= num_workers(meta[p].size)
    /\ worker[p][k] = Unborn
    /\ \A j \in 1 .. k - 1 : worker[p][j] # Unborn

Spawn(p, k) ==
    /\ Toward(p, k)
    /\ Become(p, k, In("free", 0, 0))
    /\ UNCHANGED <<file, cache, pc, meta, pos, next, mapped, runs>>

(* emplace_back throws: the vector of jthreads is destroyed on the way out. *)
SpawnFails(p, k) ==
    /\ Toward(p, k)
    /\ Goto(p, "unwinding")
    /\ UNCHANGED <<file, cache, meta, pos, next, worker, mapped, runs>>

Bug_ClaimTwice(p, k) ==
    /\ worker[p][k].at = "free"
    /\ IF next[p] > chunk_count(meta[p].size)
         THEN Become(p, k, In("ended", 0, 0))
         ELSE Become(p, k, In("reading", next[p], file.mtime))
    /\ UNCHANGED <<file, cache, pc, meta, pos, next, mapped, runs>>

(* fetch_add: the worker takes a chunk, or ends when none is left. *)
Claim(p, k) ==
    /\ worker[p][k].at = "free"
    /\ next' = [next EXCEPT ![p] = @ + 1]
    /\ IF next[p] > chunk_count(meta[p].size)
         THEN Become(p, k, In("ended", 0, 0))
         ELSE Become(p, k, In("reading", next[p], file.mtime))
    /\ UNCHANGED <<file, cache, pc, meta, pos, mapped, runs>>

(* The chunk as the mapping shows it while the file changes under it. *)
Seen(p, w) ==
    LET size == IF file.size < meta[p].size THEN file.size ELSE meta[p].size
    IN  {sha256(v, w.chunk, chunk_len(size, w.chunk)) :
            v \in IF w.saw = file.mtime THEN {file.mtime} ELSE {w.saw, file.mtime, Mixed}}

Hash(p, k) ==
    LET w == worker[p][k]
    IN  /\ w.at = "reading"
        /\ \E h \in Seen(p, w) : meta' = [meta EXCEPT ![p].hashes[w.chunk] = h]
        /\ Become(p, k, In("free", 0, 0))
        /\ UNCHANGED <<file, cache, pc, pos, next, mapped, runs>>

(* sha256_buf throws: the worker leaves its exception and ends. *)
HashThrows(p, k) ==
    /\ worker[p][k].at = "reading"
    /\ Become(p, k, In("threw", 0, 0))
    /\ UNCHANGED <<file, cache, pc, meta, pos, next, mapped, runs>>

(* The file shrank and the worker reads a page it no longer has: SIGBUS. *)
Bus(p, k) ==
    LET w == worker[p][k]
    IN  /\ w.at = "reading"
        /\ chunk_len(file.size, w.chunk) < chunk_len(meta[p].size, w.chunk)
        /\ Goto(p, "killed")
        /\ worker' = [worker EXCEPT ![p] = [j \in Ids |-> Unborn]]
        /\ mapped' = [mapped EXCEPT ![p] = FALSE]
        /\ UNCHANGED <<file, cache, meta, pos, next, runs>>

Threw(p) == \E k \in Ids : worker[p][k].at = "threw"
Started(p) == \A k \in 1 .. num_workers(meta[p].size) : worker[p][k] # Unborn
Joined(p) == \A k \in Ids : ~ Running(worker[p][k])

Bug_NoJoin(p) ==
    /\ pc[p] = "hashing" /\ Started(p)
    /\ mapped' = [mapped EXCEPT ![p] = FALSE]
    /\ Goto(p, IF Threw(p) THEN "failed" ELSE "saving")
    /\ UNCHANGED <<file, cache, meta, pos, next, worker, runs>>

Bug_WaitForAllChunks(p) ==
    /\ pc[p] = "hashing" /\ Started(p) /\ Joined(p) /\ ~ Threw(p)
    /\ mapped' = [mapped EXCEPT ![p] = FALSE]
    /\ Goto(p, "saving")
    /\ UNCHANGED <<file, cache, meta, pos, next, worker, runs>>

(* The jthreads are joined, the file unmapped, the first exception rethrown. *)
Join(p) ==
    /\ pc[p] = "hashing" /\ Started(p) /\ Joined(p)
    /\ mapped' = [mapped EXCEPT ![p] = FALSE]
    /\ Goto(p, IF Threw(p) THEN "failed" ELSE "saving")
    /\ UNCHANGED <<file, cache, meta, pos, next, worker, runs>>

(* The same join on the way out of a failed start; nothing unmaps the file. *)
Unwind(p) ==
    /\ pc[p] = "unwinding" /\ Joined(p)
    /\ Goto(p, "failed")
    /\ UNCHANGED <<file, cache, meta, pos, next, worker, mapped, runs>>

----------------------------------------------------------------------------
(* hash_cache_save                                                          *)

Bug_NoTruncate(p) ==
    /\ pc[p] = "saving"
    /\ pos' = [pos EXCEPT ![p] = 1] /\ Goto(p, "writing")
    /\ UNCHANGED <<file, cache, meta, next, worker, mapped, runs>>

SaveOpen(p) ==
    /\ pc[p] = "saving"
    /\ \/ /\ cache' = <<>>
          /\ pos' = [pos EXCEPT ![p] = 1]
          /\ Goto(p, "writing")
       \/ /\ Goto(p, "failed") /\ UNCHANGED <<cache, pos>>
    /\ UNCHANGED <<file, meta, next, worker, mapped, runs>>

(* One write_exact of the save.  A write that stops inside a cell leaves a file *)
(* that ends there, as one that stops before it does.                           *)
SaveCell(p) ==
    LET k == pos[p]
    IN  /\ pc[p] = "writing"
        /\ cache' = Put(k, Cell(meta[p], k))
        /\ pos' = [pos EXCEPT ![p] = k + 1]
        /\ IF k = LastCell(meta[p]) THEN Goto(p, "done") ELSE UNCHANGED pc
        /\ UNCHANGED <<file, meta, next, worker, mapped, runs>>

SaveFails(p) ==
    /\ pc[p] = "writing"
    /\ Goto(p, "failed")
    /\ UNCHANGED <<file, cache, meta, pos, next, worker, mapped, runs>>

----------------------------------------------------------------------------
(* The world around it                                                      *)

(* The process dies; what it wrote stays. *)
Killed(p) ==
    /\ ~ Ended(p)
    /\ Goto(p, "killed")
    /\ worker' = [worker EXCEPT ![p] = [j \in Ids |-> Unborn]]
    /\ mapped' = [mapped EXCEPT ![p] = FALSE]
    /\ UNCHANGED <<file, cache, meta, pos, next, runs>>

Edit ==
    /\ file.mtime <= MaxEdits
    /\ \E s \in Sizes : file' = [size |-> s, mtime |-> file.mtime + 1]
    /\ UNCHANGED <<cache, pc, meta, pos, next, worker, mapped, runs>>

Main(p) ==
    \/ Stat(p) \/ LoadCell(p) \/ LoadFails(p) \/ Map(p)
    \/ \E k \in Ids : Spawn(p, k) \/ SpawnFails(p, k)
    \/ Join(p) \/ Unwind(p)
    \/ SaveOpen(p) \/ SaveCell(p) \/ SaveFails(p)

Worker(p, k) == Claim(p, k) \/ Hash(p, k) \/ HashThrows(p, k) \/ Bus(p, k)

Next ==
    \/ \E p \in Pushers : GetSize(p) \/ Main(p) \/ Killed(p)
    \/ \E p \in Pushers, k \in Ids : Worker(p, k)
    \/ Edit

Spec == Init /\ [][Next]_vars

(* A process that has begun runs on, and so does each of its threads. *)
FairSpec ==
    /\ Spec
    /\ \A p \in Pushers : WF_vars(Main(p))
    /\ \A p \in Pushers, k \in Ids : WF_vars(Worker(p, k))

----------------------------------------------------------------------------
(* Properties                                                               *)

Hashes == [of : Int, i : Int, len : Int]

(* Every variable keeps its type. *)
TypeOK ==
    /\ file \in [size : Sizes, mtime : Nat \ {0}]
    /\ \A k \in DOMAIN cache : IF k <= Fields THEN cache[k] \in Nat ELSE cache[k] \in Hashes
    /\ pc \in [Pushers -> {"idle", "sized", "loading", "missed", "hashing", "unwinding",
                           "saving", "writing", "done", "failed", "killed"}]
    /\ meta \in [Pushers -> [size : Sizes \union {0}, mtime : Nat, hashes : Seq(Hashes)]]
    /\ pos \in [Pushers -> Nat \ {0}] /\ next \in [Pushers -> Nat \ {0}]
    /\ worker \in [Pushers -> [Ids -> [at : {"unborn", "free", "reading", "ended", "threw"},
                                       chunk : Nat, saw : Nat]]]
    /\ \A p \in Pushers : \A k \in Ids :
         worker[p][k].at = "reading" => worker[p][k].chunk \in DOMAIN meta[p].hashes
    /\ mapped \in [Pushers -> BOOLEAN] /\ runs \in [Pushers -> Nat]

IsFile(m) == m.size = file.size /\ m.mtime = file.mtime

TrueHashes(m) ==
    /\ Len(m.hashes) = chunk_count(m.size)
    /\ \A i \in 1 .. chunk_count(m.size) : m.hashes[i] = TrueHash(file, i)

(* What run_push will announce are the hashes of the file as it is, in chunk   *)
(* order, unless it was edited since the size and the mtime were taken: cached *)
(* or computed, whatever edits, deaths, failed threads and failed saves there  *)
(* were (precompute_meta).                                                     *)
MetaIsFile == \A p \in Pushers : pc[p] = "done" /\ IsFile(meta[p]) => TrueHashes(meta[p])

Accepted(f) ==
    /\ Len(cache) >= Fields + chunk_count(f.size)
    /\ cache[1] = f.size /\ cache[2] = f.mtime /\ cache[4] = chunk_count(f.size)

(* A .embr.hash that a push would accept for the file as it is holds its       *)
(* hashes, although it is rewritten in place, and with hashes of a file that   *)
(* may have been edited meanwhile (hash_cache_save, hash_cache_load).          *)
CacheSound ==
    Accepted(file) =>
        \A i \in 1 .. chunk_count(file.size) : cache[Fields + i] = TrueHash(file, i)

(* No thread hashes what is no longer mapped, also when starting a thread      *)
(* failed: jthreads are joined before munmap and before the exception leaves.  *)
MappingHeld ==
    \A p \in Pushers : \A k \in Ids :
        Running(worker[p][k]) => mapped[p] /\ pc[p] \in {"hashing", "unwinding"}

(* Each chunk is hashed by one thread, once: the slots of chunk_hashes that    *)
(* threads write without a lock are distinct.                                  *)
OneThreadPerChunk ==
    \A p \in Pushers : \A k \in Ids :
        worker[p][k].at = "reading" =>
            /\ meta[p].hashes[worker[p][k].chunk] = ZeroHash
            /\ \A j \in Ids \ {k} : worker[p][j].at = "reading"
                                    => worker[p][j].chunk # worker[p][k].chunk

(* precompute_meta returns or throws: a thread that died of an exception, or   *)
(* was never started, holds nobody up.                                         *)
PushEnds == \A p \in Pushers : ~ Ended(p) ~> Ended(p)

----------------------------------------------------------------------------
(* The inductive invariant of the workers                                   *)

Hashing(p) == pc[p] \in {"hashing", "unwinding"}

(* A thread reads a chunk that was claimed, by it alone, and has no hash yet. *)
ClaimsOK(p) ==
    /\ \A k \in Ids : worker[p][k].at = "reading" =>
         /\ worker[p][k].chunk \in 1 .. Len(meta[p].hashes)
         /\ worker[p][k].chunk < next[p]
         /\ meta[p].hashes[worker[p][k].chunk] = ZeroHash
         /\ \A j \in Ids \ {k} : worker[p][j].at = "reading"
                                 => worker[p][j].chunk # worker[p][k].chunk
    /\ \A k \in Ids : Running(worker[p][k]) => Hashing(p)

(* There is a slot for each chunk, empty until the chunk is claimed, the file   *)
(* is mapped as long as threads run, and the cache is written to its last cell. *)
SlotsOK(p) ==
    /\ Hashing(p) \/ pc[p] \in {"saving", "writing"}
         => Len(meta[p].hashes) = chunk_count(meta[p].size)
    /\ pc[p] = "writing" => pos[p] <= LastCell(meta[p])
    /\ Hashing(p) => /\ mapped[p]
                     /\ \A i \in 1 .. chunk_count(meta[p].size) :
                           i >= next[p] => meta[p].hashes[i] = ZeroHash

WorkInv == TypeOK /\ \A p \in Pushers : ClaimsOK(p) /\ SlotsOK(p)

----------------------------------------------------------------------------
(* The inductive invariant of the cache, for one push at a time             *)

OneActive == \A p, q \in Pushers : ~ Ended(p) /\ ~ Ended(q) => p = q

(* Nobody knows a later mtime than the file's, so an edit disowns all of it. *)
CacheNotNewer == Len(cache) >= 2 => cache[2] <= file.mtime

NotNewer(p) ==
    /\ meta[p].mtime <= file.mtime
    /\ Hashing(p) => \A k \in Ids :
         worker[p][k].at = "reading" => worker[p][k].saw \in meta[p].mtime .. file.mtime
    /\ ~ Ended(p) => meta[p].size > 0

(* A chunk that was claimed is being hashed, was hashed, or its worker threw; *)
(* a worker ends only when all are claimed.                                   *)
ClaimedAreHashed(p) ==
    /\ pc[p] \in {"sized", "loading", "missed"} => worker[p] = [k \in Ids |-> Unborn]
    /\ pc[p] = "hashing" =>
         /\ \A i \in 1 .. chunk_count(meta[p].size) :
               i < next[p] =>
                 \/ Threw(p)
                 \/ \E k \in Ids : worker[p][k].at = "reading" /\ worker[p][k].chunk = i
                 \/ IsFile(meta[p]) => meta[p].hashes[i] = TrueHash(file, i)
         /\ \A k \in Ids :
               /\ worker[p][k].at = "ended" => next[p] > chunk_count(meta[p].size)
               /\ worker[p][k].at = "unborn" => worker[p][k] = Unborn

(* What was read of the cache, and what was written to it. *)
LoadedSoFar(p) ==
    /\ pc[p] = "sized" => meta[p].hashes = <<>>
    /\ pc[p] = "loading" =>
         /\ pos[p] <= LastCell(meta[p]) /\ pos[p] <= Len(cache) + 1
         /\ \A k \in 1 .. Fields : k < pos[p] => Matches(p, k)
         /\ Len(meta[p].hashes) = (IF pos[p] <= Fields THEN 0 ELSE pos[p] - 1 - Fields)
         /\ \A i \in 1 .. Len(meta[p].hashes) : meta[p].hashes[i] = cache[Fields + i]

SavedSoFar(p) ==
    pc[p] = "writing" =>
        /\ Len(cache) = pos[p] - 1
        /\ \A k \in 1 .. Len(cache) : cache[k] = Cell(meta[p], k)

HashesTrue(p) ==
    pc[p] \in {"saving", "writing", "done"} /\ IsFile(meta[p]) => TrueHashes(meta[p])

KnownOK(p) ==
    NotNewer(p) /\ ClaimedAreHashed(p) /\ LoadedSoFar(p) /\ SavedSoFar(p) /\ HashesTrue(p)

CacheInv ==
    /\ WorkInv /\ OneActive
    /\ CacheSound /\ CacheNotNewer
    /\ \A p \in Pushers : KnownOK(p)
----------------------------------------------------------------------------
(* The steps left in a push                                                 *)

(* A thread has a chunk to finish or to be started, or is to look for one. *)
Busy(p) == {k \in Ids : worker[p][k].at \in {"unborn", "reading"}}
Free(p) == {k \in Ids : worker[p][k].at = "free"}
ThreadSteps(p) == 2 * Cardinality(Busy(p)) + Cardinality(Free(p))

UpTo(n, k) == IF k <= n THEN n + 1 - k ELSE 0
Unclaimed(p) == UpTo(chunk_count(meta[p].size), next[p])
Cells(p) == UpTo(LastCell(meta[p]), pos[p])

(* A process at a stage, with n chunks and l cells in the file, c cells left *)
(* to read or write, and t steps for its threads.                            *)
StagesLeft(stage, n, l, c, t) ==
    CASE stage = "sized" -> 5 + 2 * l + 2 * n + 2 * Cores
      [] stage = "loading" -> 4 + l + 2 * n + 2 * Cores + c
      [] stage = "missed" -> 4 + l + 2 * n + 2 * Cores
      [] stage = "hashing" -> 3 + l + t
      [] stage = "unwinding" -> 1 + t
      [] stage = "saving" -> 1 + l
      [] stage = "writing" -> c
      [] OTHER -> 0

StepsLeft(p) ==
    StagesLeft(pc[p], chunk_count(meta[p].size), LastCell(meta[p]), Cells(p),
               2 * Unclaimed(p) + ThreadSteps(p))

(* Every step of precompute_meta or of one of its threads leaves fewer to   *)
(* do, and nothing but a new push adds any, neither an edit of the file nor *)
(* another push of it: a push takes no more steps than it begins with.      *)
PushAdvances ==
    \A p \in Pushers :
        /\ Main(p) \/ (\E k \in Ids : Worker(p, k)) => StepsLeft(p)' < StepsLeft(p)
        /\ StepsLeft(p)' <= StepsLeft(p) \/ GetSize(p)
PushDwindles == [][PushAdvances]_vars

(* hash_cache_load, whose file has a chunk, reads no cell beyond the last. *)
LoadInv ==
    \A p \in Pushers :
        /\ pc[p] \in {"sized", "loading"} => meta[p].size > 0
        /\ pc[p] = "loading" => pos[p] <= LastCell(meta[p])
=============================================================================
