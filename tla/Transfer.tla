------------------------------ MODULE Transfer ------------------------------
(***************************************************************************)
(* One output path served by a sequence of embr sessions: run_push answers *)
(* run_pull over a reliable FIFO Transport (TCP, or the QUIC stream), and  *)
(* run_pull keeps its resume record (.embr.partial) beside the output.     *)
(* Both processes may die at any step, the connection may be reset, the    *)
(* source may be edited after it was hashed and the user may delete files. *)
(*                                                                         *)
(* Data abstraction.  A file is its size and its bytes; SHA-256 is taken   *)
(* as injective, so the hash of a chunk is the chunk's content and the     *)
(* FILE_META message (size, count, hashes) is the file itself.  A message  *)
(* is one item of its stream and chunk data travels byte by byte.  The two *)
(* streams hold at most ReqCap and DataCap items: the socket buffers.      *)
(***************************************************************************)
EXTENDS Integers, Sequences, FiniteSets

CONSTANTS
    ChunkSize,      \* CHUNK_SIZE, bytes per chunk
    MaxSize,        \* no file is longer (a bound on the data functions)
    Byte, Zero,     \* byte values; Zero is what a hole of the output reads as
    Files,          \* the contents a sender may offer for this output path
    Edits,          \* bytes that may have replaced the source's since hashing
    ReqCap, DataCap,    \* items the two directions of the connection can hold
    MaxSessions, MaxFaults, \* bounds on sessions and on injected faults
    OutputRemovable \* may the user delete the output file?

Offsets == 0 .. MaxSize - 1

ASSUME ChunkAssumption ==
    /\ ChunkSize \in Nat \ {0}
    /\ MaxSize \in Nat
ASSUME FilesAssumption ==
    /\ Zero \in Byte
    /\ Edits \subseteq Byte
    /\ \A f \in Files : /\ f.size \in 1 .. MaxSize
                        /\ f.data \in [Offsets -> Byte]
                        /\ f = [size |-> f.size, data |-> f.data]
ASSUME BoundAssumption ==
    /\ ReqCap \in Nat \ {0}
    /\ DataCap \in Nat \ {0}
    /\ MaxSessions \in Nat
    /\ MaxFaults \in Nat
    /\ OutputRemovable \in BOOLEAN

VARIABLES
    pull,       \* where run_pull is
    meta,       \* its file_meta
    resumed,    \* cm_opt has a value
    cm,         \* ChunkManager: the chunks marked done
    toReq,      \* of needed_chunks(): still to request
    toRecv,     \* of needed_chunks(): still to receive
    cur, pos,   \* chunk being received, bytes of it received
    push,       \* where run_push is
    file,       \* the file it serves, as it was when its hashes were taken
    pcur, ppos, \* chunk being sent, bytes of it sent
    reqQ,       \* the stream pull -> push
    dataQ,      \* the stream push -> pull
    broken,     \* the connection was reset
    out,        \* the output file
    record,     \* the .embr.partial file
    sessions, faults,
    faulted,    \* history: a fault hit the current session
    trusted     \* history: the progress this session started from is genuine

pullVars == <<pull, meta, resumed, cm, toReq, toRecv, cur, pos>>
pushVars == <<push, file, pcur, ppos>>
netVars == <<reqQ, dataQ, broken>>
diskVars == <<out, record>>
auxVars == <<sessions, faults, faulted, trusted>>
vars == <<pullVars, pushVars, netVars, diskVars, auxVars>>

----------------------------------------------------------------------------
(* Chunks of a file of size s.                                              *)

chunk_count(s) == (s + ChunkSize - 1) \div ChunkSize
offset(i) == i * ChunkSize
chunk_len(s, i) == IF ChunkSize <= s - offset(i) THEN ChunkSize ELSE s - offset(i)
Chunks(s) == 0 .. chunk_count(s) - 1
ChunkBytes(s, i) == offset(i) .. offset(i) + chunk_len(s, i) - 1

chunk_hash(f, i) == [k \in 0 .. chunk_len(f.size, i) - 1 |-> f.data[offset(i) + k]]
bitmap_bytes(n) == (n + 8 - 1) \div 8

(* Chunk i of the output reads as chunk i of f. *)
ChunkMatches(o, f, i) ==
    /\ o.exists
    /\ \A b \in ChunkBytes(f.size, i) : b < o.size /\ o.data[b] = f.data[b]

(* The first element of a set of chunk indices in ascending order. *)
IsNext(i, S) == i \in S /\ \A j \in S : i <= j

----------------------------------------------------------------------------
(* Messages.                                                                *)

HANDSHAKE == [type |-> "HANDSHAKE"]
COMPLETE == [type |-> "COMPLETE"]
CHUNK_REQ(i) == [type |-> "CHUNK_REQ", index |-> i]
FILE_META(f) == [type |-> "FILE_META", file |-> f]
CHUNK_HDR(i) == [type |-> "CHUNK_HDR", index |-> i]
DATA(b) == [type |-> "DATA", byte |-> b]

ReqMsgs == [type : {"HANDSHAKE", "COMPLETE"}]
               \union [type : {"CHUNK_REQ"}, index : Nat]
DataMsgs == [type : {"FILE_META"}, file : Files]
                \union [type : {"CHUNK_HDR"}, index : Nat]
                \union [type : {"DATA"}, byte : Byte]

----------------------------------------------------------------------------
(* The output file and the resume record.                                   *)

NoRecord == [kind |-> "none"]
TornRecord == [kind |-> "torn"]     \* truncated by save(), not yet rewritten

(* for and stale are history: the file the progress was saved for, and      *)
(* whether the output has lost its content since.  load() cannot see them.  *)
Record(f, bits, st) ==
    [kind |-> "saved", hash |-> chunk_hash(f, 0), bits |-> bits,
     bytes |-> bitmap_bytes(chunk_count(f.size)), for |-> f, stale |-> st]

Outdated(r) == IF r.kind = "saved" THEN Record(r.for, r.bits, TRUE) ELSE r

Blank == [b \in Offsets |-> Zero]
NoOutput == [exists |-> FALSE, size |-> 0, data |-> Blank]
Truncated == [exists |-> TRUE, size |-> 0, data |-> Blank]

Bug_NeedSpareBitmapByte(r, o, f) ==
    /\ r.kind = "saved" /\ r.hash = chunk_hash(f, 0)
    /\ o.exists /\ o.size = chunk_count(f.size) * ChunkSize
    /\ bitmap_bytes(chunk_count(f.size)) < r.bytes

(* PartialFile::load accepts record r beside output o for file f. *)
Loadable(r, o, f) ==
    /\ r.kind = "saved"
    /\ r.hash = chunk_hash(f, 0)
    /\ o.exists
    /\ o.size = chunk_count(f.size) * ChunkSize
    /\ bitmap_bytes(chunk_count(f.size)) <= r.bytes

(* The bits load() marks done: only those of file f's chunks. *)
Bug_AllStoredBits(r, f) == r.bits
LoadedBits(r, f) == r.bits \intersect Chunks(f.size)

Bug_RequestEverything(f, done) == Chunks(f.size)
needed_chunks(f, done) == Chunks(f.size) \ done

(* The ChunkManager after chunk i was hashed: mark_done or mark_todo. *)
Bug_MarkUnchecked(o, f, done, i) == done \union {i}
Verified(o, f, done, i) ==
    IF ChunkMatches(o, f, i) THEN done \union {i} ELSE done \ {i}

Resized(o, n) == [exists |-> o.exists, size |-> n, data |-> o.data]
Allocated(o, f) == Resized(o, f.size)

----------------------------------------------------------------------------
PullLive == pull \notin {"complete", "incomplete", "failed"}
PushLive == push \notin {"done", "failed"}
PullOver == ~ PullLive
PushOver == ~ PushLive

CanSendReq == ~ broken /\ Len(reqQ) < ReqCap
CanSendData == ~ broken /\ Len(dataQ) < DataCap

Init ==
    /\ pull = "handshake" /\ resumed = FALSE /\ cm = {} /\ toReq = {}
    /\ toRecv = {} /\ cur = 0 /\ pos = 0
    /\ file \in Files /\ meta = file
    /\ push = "recv_handshake" /\ pcur = 0 /\ ppos = 0
    /\ reqQ = <<>> /\ dataQ = <<>> /\ broken = FALSE
    /\ out = NoOutput /\ record = NoRecord
    /\ sessions = 1 /\ faults = 0 /\ faulted = FALSE /\ trusted = TRUE

----------------------------------------------------------------------------
(* run_pull                                                                 *)

PullHandshake ==
    /\ pull = "handshake" /\ CanSendReq
    /\ reqQ' = Append(reqQ, HANDSHAKE)
    /\ pull' = "meta"
    /\ UNCHANGED <<meta, resumed, cm, toReq, toRecv, cur, pos>>
    /\ UNCHANGED <<pushVars, dataQ, broken, diskVars, auxVars>>

PullMeta ==
    /\ pull = "meta" /\ dataQ # <<>>
    /\ dataQ' = Tail(dataQ)
    /\ IF Head(dataQ).type = "FILE_META"
       THEN pull' = "load" /\ meta' = Head(dataQ).file
       ELSE pull' = "failed" /\ meta' = meta
    /\ UNCHANGED <<resumed, cm, toReq, toRecv, cur, pos>>
    /\ UNCHANGED <<pushVars, reqQ, broken, diskVars, auxVars>>

PullLoad ==
    /\ pull = "load"
    /\ resumed' = Loadable(record, out, meta)
    /\ cm' = IF resumed' THEN LoadedBits(record, meta) ELSE {}
    /\ trusted' = (resumed' => record.for = meta /\ ~ record.stale)
    /\ pull' = "open"
    /\ UNCHANGED <<meta, toReq, toRecv, cur, pos>>
    /\ UNCHANGED <<pushVars, netVars, diskVars, sessions, faults, faulted>>

Reopened == resumed /\ out.exists

Bug_TruncateOnResume == Truncated
OpenedOutput == IF Reopened THEN out ELSE Truncated

Bug_KeepProgress == cm
ProgressKept == IF Reopened THEN cm ELSE {}

(* A resume keeps the output; a resume whose output vanished meanwhile      *)
(* starts over but is not pre-allocated; a fresh start truncates.  None of  *)
(* them touches the record on disk.                                         *)
PullOpen ==
    /\ pull = "open"
    /\ out' = OpenedOutput
    /\ cm' = ProgressKept
    /\ record' = IF Reopened THEN record ELSE Outdated(record)
    /\ trusted' = (Reopened => trusted)
    /\ pull' = IF resumed THEN "request" ELSE "allocate"
    /\ toReq' = needed_chunks(meta, cm')
    /\ toRecv' = needed_chunks(meta, cm')
    /\ UNCHANGED <<meta, resumed, cur, pos>>
    /\ UNCHANGED <<pushVars, netVars, sessions, faults, faulted>>

PullAllocate ==
    /\ pull = "allocate"
    /\ out' = Allocated(out, meta)
    /\ pull' = "request"
    /\ UNCHANGED <<meta, resumed, cm, toReq, toRecv, cur, pos>>
    /\ UNCHANGED <<pushVars, netVars, record, auxVars>>

PullRequest ==
    /\ pull = "request" /\ toReq # {} /\ CanSendReq
    /\ \E i \in toReq : /\ IsNext(i, toReq)
                        /\ reqQ' = Append(reqQ, CHUNK_REQ(i))
                        /\ toReq' = toReq \ {i}
    /\ UNCHANGED <<pull, meta, resumed, cm, toRecv, cur, pos>>
    /\ UNCHANGED <<pushVars, dataQ, broken, diskVars, auxVars>>

PullComplete ==
    /\ pull = "request" /\ toReq = {} /\ CanSendReq
    /\ reqQ' = Append(reqQ, COMPLETE)
    /\ pull' = "recv"
    /\ UNCHANGED <<meta, resumed, cm, toReq, toRecv, cur, pos>>
    /\ UNCHANGED <<pushVars, dataQ, broken, diskVars, auxVars>>

(* Anything but the header of the chunk expected next is an error. *)
PullHeader ==
    /\ pull = "recv" /\ dataQ # <<>>
    /\ \E i \in toRecv :
         /\ IsNext(i, toRecv)
         /\ cur' = i /\ pos' = 0
         /\ toRecv' = toRecv \ {i}
         /\ pull' = IF Head(dataQ) = CHUNK_HDR(i) THEN "data" ELSE "failed"
    /\ dataQ' = Tail(dataQ)
    /\ UNCHANGED <<meta, resumed, cm, toReq>>
    /\ UNCHANGED <<pushVars, reqQ, broken, diskVars, auxVars>>

(* recv_file stores whatever the stream delivers: a message read as chunk   *)
(* data would be arbitrary bytes.                                           *)
Delivered(m) == IF m.type = "DATA" THEN {m.byte} ELSE Byte

Written(o, b, v) == [exists |-> o.exists,
                     size |-> IF o.size <= b THEN b + 1 ELSE o.size,
                     data |-> [o.data EXCEPT ![b] = v]]

PullData ==
    /\ pull = "data" /\ dataQ # <<>>
    /\ \E v \in Delivered(Head(dataQ)) : out' = Written(out, offset(cur) + pos, v)
    /\ dataQ' = Tail(dataQ)
    /\ pos' = pos + 1
    /\ pull' = IF pos' = chunk_len(meta.size, cur) THEN "verify" ELSE "data"
    /\ UNCHANGED <<meta, resumed, cm, toReq, toRecv, cur>>
    /\ UNCHANGED <<pushVars, reqQ, broken, record, auxVars>>

Bug_StopAtMismatch ==
    /\ pull = "verify"
    /\ cm' = Verified(out, meta, cm, cur)
    /\ pull' = IF cur \in cm' THEN "save" ELSE "incomplete"
    /\ UNCHANGED <<meta, resumed, toReq, toRecv, cur, pos>>
    /\ UNCHANGED <<pushVars, netVars, diskVars, auxVars>>

PullVerify ==
    /\ pull = "verify"
    /\ cm' = Verified(out, meta, cm, cur)
    /\ pull' = "save"
    /\ UNCHANGED <<meta, resumed, toReq, toRecv, cur, pos>>
    /\ UNCHANGED <<pushVars, netVars, diskVars, auxVars>>

(* PartialFile::save: O_TRUNC, then the hash and the bitmap. *)
PullSaveOpen ==
    /\ pull = "save"
    /\ record' = TornRecord
    /\ pull' = "write"
    /\ UNCHANGED <<meta, resumed, cm, toReq, toRecv, cur, pos>>
    /\ UNCHANGED <<pushVars, netVars, out, auxVars>>

PullSaveWrite ==
    /\ pull = "write"
    /\ record' = Record(meta, cm, ~ trusted)
    /\ pull' = "recv"
    /\ UNCHANGED <<meta, resumed, cm, toReq, toRecv, cur, pos>>
    /\ UNCHANGED <<pushVars, netVars, out, auxVars>>

Bug_RequestAgain ==
    /\ pull = "recv" /\ toRecv = {}
    /\ toReq' = needed_chunks(meta, cm) /\ toRecv' = needed_chunks(meta, cm)
    /\ IF cm = Chunks(meta.size)
       THEN pull' = "complete" /\ record' = NoRecord
       ELSE pull' = "request" /\ record' = record
    /\ UNCHANGED <<meta, resumed, cm, cur, pos>>
    /\ UNCHANGED <<pushVars, netVars, out, auxVars>>

PullFinish ==
    /\ pull = "recv" /\ toRecv = {}
    /\ IF cm = Chunks(meta.size)
       THEN pull' = "complete" /\ record' = NoRecord
       ELSE pull' = "incomplete" /\ record' = record
    /\ UNCHANGED <<meta, resumed, cm, toReq, toRecv, cur, pos>>
    /\ UNCHANGED <<pushVars, netVars, out, auxVars>>

(* recv returns 0 or an error; send fails on a closed or reset connection. *)
Bug_RetryOnEof == broken
PushGone == broken \/ PushOver

PullIoFails ==
    /\ \/ /\ pull \in {"meta", "data"} \/ (pull = "recv" /\ toRecv # {})
          /\ dataQ = <<>>
       \/ pull \in {"handshake", "request"}
    /\ PushGone
    /\ pull' = "failed"
    /\ UNCHANGED <<meta, resumed, cm, toReq, toRecv, cur, pos>>
    /\ UNCHANGED <<pushVars, netVars, diskVars, auxVars>>

PullStep ==
    \/ PullHandshake \/ PullMeta \/ PullLoad \/ PullOpen \/ PullAllocate
    \/ PullRequest \/ PullComplete \/ PullHeader \/ PullData \/ PullVerify
    \/ PullSaveOpen \/ PullSaveWrite \/ PullFinish \/ PullIoFails

----------------------------------------------------------------------------
(* run_push                                                                 *)

PushHandshake ==
    /\ push = "recv_handshake" /\ reqQ # <<>>
    /\ reqQ' = Tail(reqQ)
    /\ push' = IF Head(reqQ) = HANDSHAKE THEN "send_meta" ELSE "failed"
    /\ UNCHANGED <<file, pcur, ppos, pullVars, dataQ, broken, diskVars, auxVars>>

PushMeta ==
    /\ push = "send_meta" /\ CanSendData
    /\ dataQ' = Append(dataQ, FILE_META(file))
    /\ push' = "recv"
    /\ UNCHANGED <<file, pcur, ppos, pullVars, reqQ, broken, diskVars, auxVars>>

Bug_RejectLastChunk(i) == i < chunk_count(file.size) - 1
InRange(i) == i < chunk_count(file.size)

PushRecv ==
    /\ push = "recv" /\ reqQ # <<>>
    /\ reqQ' = Tail(reqQ)
    /\ LET m == Head(reqQ) IN
       IF m.type = "CHUNK_REQ" /\ InRange(m.index)
       THEN push' = "send_hdr" /\ pcur' = m.index /\ ppos' = 0
       ELSE /\ push' = IF m = COMPLETE THEN "done" ELSE "failed"
            /\ UNCHANGED <<pcur, ppos>>
    /\ UNCHANGED <<file, pullVars, dataQ, broken, diskVars, auxVars>>

PushHeader ==
    /\ push = "send_hdr" /\ CanSendData
    /\ dataQ' = Append(dataQ, CHUNK_HDR(pcur))
    /\ push' = "send_file"
    /\ UNCHANGED <<file, pcur, ppos, pullVars, reqQ, broken, diskVars, auxVars>>

SendOffset == offset(pcur) + ppos

(* sendfile() reads the source as it is now, not as it was when hashed. *)
PushData ==
    /\ push = "send_file" /\ CanSendData
    /\ \E b \in {file.data[SendOffset]} \union Edits :
         /\ dataQ' = Append(dataQ, DATA(b))
         /\ faulted' = (faulted \/ b # file.data[SendOffset])
    /\ ppos' = ppos + 1
    /\ push' = IF ppos' = chunk_len(file.size, pcur) THEN "recv" ELSE "send_file"
    /\ UNCHANGED <<file, pcur, pullVars, reqQ, broken, diskVars>>
    /\ UNCHANGED <<sessions, faults, trusted>>

PushIoFails ==
    /\ \/ push \in {"recv_handshake", "recv"} /\ reqQ = <<>>
       \/ push \in {"send_meta", "send_hdr", "send_file"}
    /\ broken \/ PullOver
    /\ push' = "failed"
    /\ UNCHANGED <<file, pcur, ppos, pullVars, netVars, diskVars, auxVars>>

PushStep ==
    \/ PushHandshake \/ PushMeta \/ PushRecv \/ PushHeader \/ PushData
    \/ PushIoFails

----------------------------------------------------------------------------
(* The environment: faults, and the user.                                   *)

Fault == faults < MaxFaults /\ faults' = faults + 1 /\ faulted' = TRUE

(* Killed, or an exception out of any step: a full disk, a failed mmap. *)
PullDies ==
    /\ PullLive /\ Fault
    /\ pull' = "failed"
    /\ UNCHANGED <<meta, resumed, cm, toReq, toRecv, cur, pos>>
    /\ UNCHANGED <<pushVars, netVars, diskVars, sessions, trusted>>

PushDies ==
    /\ PushLive /\ Fault
    /\ push' = "failed"
    /\ UNCHANGED <<file, pcur, ppos, pullVars, netVars, diskVars, sessions, trusted>>

(* A reset discards what either side had not read. *)
ConnReset ==
    /\ ~ broken /\ (PullLive \/ PushLive) /\ Fault
    /\ broken' = TRUE /\ reqQ' = <<>> /\ dataQ' = <<>>
    /\ UNCHANGED <<pullVars, pushVars, diskVars, sessions, trusted>>

(* The output disappears between load()'s stat and run_pull's open. *)
OutputVanishes ==
    /\ OutputRemovable /\ pull = "open" /\ out.exists /\ Fault
    /\ out' = NoOutput
    /\ record' = Outdated(record)
    /\ UNCHANGED <<pullVars, pushVars, netVars, sessions, trusted>>

(* The user runs push and pull again, for any file of Files, perhaps after  *)
(* deleting the record or the output.                                       *)
StartSession ==
    /\ PullOver /\ PushOver /\ sessions < MaxSessions
    /\ sessions' = sessions + 1
    /\ pull' = "handshake" /\ resumed' = FALSE /\ cm' = {} /\ toReq' = {}
    /\ toRecv' = {} /\ cur' = 0 /\ pos' = 0 /\ meta' = meta
    /\ file' \in Files
    /\ push' = "recv_handshake" /\ pcur' = 0 /\ ppos' = 0
    /\ reqQ' = <<>> /\ dataQ' = <<>> /\ broken' = FALSE
    /\ faulted' = FALSE /\ trusted' = TRUE /\ faults' = faults
    /\ \/ UNCHANGED diskVars
       \/ record' = NoRecord /\ out' = out
       \/ OutputRemovable /\ out' = NoOutput /\ record' = Outdated(record)

Finished ==
    /\ PullOver /\ PushOver /\ sessions = MaxSessions
    /\ UNCHANGED vars

Env == PullDies \/ PushDies \/ ConnReset \/ OutputVanishes \/ StartSession

Next == PullStep \/ PushStep \/ Env \/ Finished

Spec == Init /\ [][Next]_vars

(* Each process keeps running and the network keeps delivering; faults, the *)
(* user and the next session are never forced.                              *)
FairSpec == Spec /\ WF_vars(PullStep) /\ WF_vars(PushStep)

----------------------------------------------------------------------------
(* Properties                                                               *)

Outputs == [exists : BOOLEAN, size : 0 .. MaxSize, data : [Offsets -> Byte]]

PullTypeOK ==
    /\ pull \in {"handshake", "meta", "load", "open", "allocate", "request",
                 "recv", "data", "verify", "save", "write",
                 "complete", "incomplete", "failed"}
    /\ meta \in Files
    /\ resumed \in BOOLEAN
    /\ pull \in {"handshake", "meta"} => cm = {} /\ toReq = {} /\ toRecv = {}
    /\ cm \subseteq Chunks(meta.size)
    /\ toReq \subseteq Chunks(meta.size)
    /\ toRecv \subseteq Chunks(meta.size)
    /\ cur \in Nat /\ pos \in Nat
    /\ pull \in {"data", "verify", "save", "write"} => cur \in Chunks(meta.size)
    /\ pull = "data" => pos < chunk_len(meta.size, cur)

PushTypeOK ==
    /\ push \in {"recv_handshake", "send_meta", "recv", "send_hdr", "send_file",
                 "done", "failed"}
    /\ file \in Files
    /\ pcur \in Nat /\ ppos \in Nat
    /\ push \in {"send_hdr", "send_file"} =>
           pcur \in Chunks(file.size) /\ ppos < chunk_len(file.size, pcur)

NetTypeOK ==
    /\ reqQ \in Seq(ReqMsgs) /\ Len(reqQ) <= ReqCap
    /\ dataQ \in Seq(DataMsgs) /\ Len(dataQ) <= DataCap
    /\ broken \in BOOLEAN

RecordOK(r) ==
    \/ r \in {NoRecord, TornRecord}
    \/ /\ r.for \in Files
       /\ r.bits \subseteq Chunks(r.for.size)
       /\ r.stale \in BOOLEAN
       /\ r = Record(r.for, r.bits, r.stale)

(* Every variable has its type; in particular the bitmap and the request    *)
(* lists never name a chunk outside file_meta (ChunkManager would throw),   *)
(* and no write makes the output longer than a file can be.                 *)
TypeOK ==
    /\ PullTypeOK /\ PushTypeOK /\ NetTypeOK
    /\ out \in Outputs /\ RecordOK(record)
    /\ sessions \in Nat /\ faults \in Nat
    /\ faulted \in BOOLEAN /\ trusted \in BOOLEAN

OutputIs(f) ==
    /\ out.exists
    /\ out.size = f.size
    /\ \A b \in 0 .. f.size - 1 : out.data[b] = f.data[b]

(* When run_pull reports "transfer complete", the output is the announced   *)
(* file, byte for byte and with its size, provided the progress it started  *)
(* from was none or was saved for this file and the output kept since.      *)
CompleteIsCorrect == pull = "complete" /\ trusted => OutputIs(meta)

(* What the user relies on: "transfer complete" means the output is the     *)
(* announced file, whatever happened in earlier sessions.                   *)
CompleteMeansIdentical == pull = "complete" => OutputIs(meta)

(* At every instant, so also wherever a crash strikes: a chunk whose bit is *)
(* set in .embr.partial is intact in the output, as long as the output was  *)
(* not truncated or deleted since the record was saved.                     *)
RecordSound ==
    record.kind = "saved" /\ ~ record.stale =>
        \A i \in record.bits : ChunkMatches(out, record.for, i)

(* Neither side throws, and run_pull does not end "incomplete", in a        *)
(* session no fault and no edit of the source has hit.                      *)
NoSpuriousFailure ==
    pull \in {"failed", "incomplete"} \/ push = "failed" => faulted

(* A side that ends normally has read all that was sent to it: closing a    *)
(* TCP socket with unread data would reset the connection.                  *)
CleanClose ==
    /\ push = "done" => reqQ = <<>>
    /\ pull \in {"complete", "incomplete"} => dataQ = <<>>

Transferring == {"request", "recv", "data", "verify", "save", "write"}

KeepsDoneChunks ==
    pull \in Transferring =>
        \A i \in cm : \A b \in ChunkBytes(meta.size, i) :
            out'.data[b] = out.data[b]

(* Within a session no byte of a chunk already marked done is written.      *)
DoneChunksStable == [][KeepsDoneChunks]_vars

(* Progress saved for this very file, with the output kept since, is taken  *)
(* up again by load(), except for a file with a partial last chunk.         *)
ProgressAccepted ==
    pull = "open" /\ record.kind = "saved" /\ record.for = meta /\ ~ record.stale
        /\ meta.size = chunk_count(meta.size) * ChunkSize
    => resumed

(* The output has its full length before any chunk is requested.            *)
PreAllocated == pull \in Transferring => out.size >= meta.size

(* What each process could do now: not one step of them, but whether there  *)
(* is one.                                                                  *)
PullMay ==
    \/ pull \in {"load", "open", "allocate", "verify", "save", "write"}
    \/ pull \in {"handshake", "request"} /\ (CanSendReq \/ PushGone)
    \/ pull \in {"meta", "data"} /\ (dataQ # <<>> \/ PushGone)
    \/ pull = "recv" /\ (toRecv = {} \/ dataQ # <<>> \/ PushGone)

PushMay ==
    \/ push \in {"recv_handshake", "recv"} /\ (reqQ # <<>> \/ broken \/ PullOver)
    \/ push \in {"send_meta", "send_hdr", "send_file"}
           /\ (CanSendData \/ broken \/ PullOver)

(* While a session runs, one of the two processes can go on: they never     *)
(* wait for each other, each to be sent something or to get rid of          *)
(* something, as long as the requests of one file fit the buffers.          *)
NeverBlocked == PullLive \/ PushLive => PullMay \/ PushMay
RequestsFit == \A f \in Files : chunk_count(f.size) <= ReqCap

(* Every session ends on both sides. *)
SessionEnds == (PullLive \/ PushLive) ~> (PullOver /\ PushOver)

----------------------------------------------------------------------------
(* The download run_pull promises                                           *)

Genuine == record.kind = "saved" /\ ~ record.stale

Fetching == Transferring \union {"allocate"}
Phase ==
    CASE pull \in Fetching /\ trusted -> "fetching"
      [] pull = "complete" /\ trusted -> "complete"
      [] pull \in Fetching \union {"complete"} /\ ~ trusted -> "void"
      [] OTHER -> "idle"

Have == IF Phase \in {"fetching", "complete"} THEN cm ELSE {}
IntactIn(o) == [f \in Files |-> {i \in Chunks(f.size) : ChunkMatches(o, f, i)}]
Progress == IF Genuine THEN {[for |-> record.for, chunks |-> record.bits]} ELSE {}

Promise == INSTANCE Download WITH
    Offers <- Files, Wanted <- [f \in Files |-> Chunks(f.size)],
    phase <- Phase, offer <- meta, have <- Have, good <- IntactIn(out),
    saved <- Progress

(* The sessions at one output path are one download that is interrupted and *)
(* resumed: through every crash, reset, edit and deletion, what counts as   *)
(* done, in memory or on disk, is intact in the output, and progress is     *)
(* taken up exactly, dropped, or ignored.                                   *)
IsDownload == Promise!Spec

----------------------------------------------------------------------------
(* The inductive invariant behind CompleteIsCorrect and RecordSound         *)

(* run_pull holds the output and works from cm. *)
Working == pull \in Transferring \/ (pull = "open" /\ Reopened)

DoneSound ==
    trusted /\ (Working \/ pull = "complete") =>
        /\ \A i \in cm : ChunkMatches(out, meta, i)
        /\ out.size <= meta.size

RecordFits ==
    /\ Genuine => out.size <= record.for.size
    /\ Genuine /\ Working =>
           /\ record.bits \intersect Chunks(meta.size) \subseteq cm
           /\ trusted => record.for = meta

OutputFits ==
    /\ pull \in Transferring \union {"allocate"} => out.exists
    /\ Working /\ ~ trusted => out.size >= meta.size
    /\ pull = "allocate" => cm = {} /\ trusted /\ ~ Genuine

RemainingFits ==
    /\ pull \in Transferring \union {"allocate"} => toRecv \intersect cm = {}
    /\ pull \in {"data", "verify"} => cur \notin cm
    /\ pull \in {"data", "verify", "save", "write"} => cur \notin toRecv
    /\ pull = "complete" => cm = Chunks(meta.size)

(* A resumed session takes up the progress saved for its file, or there is  *)
(* none that is still good.                                                 *)
OpenInv ==
    pull = "open" /\ Reopened =>
        IF trusted THEN Genuine /\ record.for = meta /\ cm = record.bits
        ELSE ~ (Genuine /\ record.for = meta)

(* Done chunks are intact, the record on disk never claims more than the    *)
(* bitmap in memory, and only chunks outside both are still to be written.  *)
ResumeInv ==
    TypeOK /\ RecordSound /\ DoneSound /\ RecordFits /\ OutputFits /\ RemainingFits

----------------------------------------------------------------------------
(* The invariant behind CompleteMeansIdentical: one file, kept output       *)

ResumeSafe == ~ OutputRemovable /\ \A f, g \in Files : f = g

Aligned(f) == f.size = chunk_count(f.size) * ChunkSize

(* With one file and an output nobody deletes, saved progress is genuine    *)
(* whenever load() accepts it, and accepted unless the last chunk is short. *)
KeptInv ==
    /\ trusted
    /\ out.size <= meta.size
    /\ record.kind = "saved" /\ Aligned(meta) =>
           ~ record.stale /\ out.exists /\ out.size = meta.size
    /\ pull = "open" =>
           IF resumed THEN out.exists /\ out.size = meta.size
           ELSE record.kind = "saved" => ~ Aligned(meta)
    /\ pull \in Transferring => out.size = meta.size

----------------------------------------------------------------------------
(* Behind NeverBlocked: requests unsent, unread or being answered           *)

(* A chunk is to be requested, or its request is under way, or it is being  *)
(* answered: no two of them at once.                                        *)
Burst ==
    pull \in {"allocate", "request"} /\ push # "failed" /\ ~ broken =>
        Len(reqQ) + Cardinality(toReq)
            + (IF push \in {"send_hdr", "send_file"} THEN 1 ELSE 0)
        <= chunk_count(meta.size)

----------------------------------------------------------------------------
(* The steps left in a session                                              *)

(* The most run_pull does for a chunk it is sent, run_push for a request.   *)
PullSteps == ChunkSize + 4
PushSteps == ChunkSize + 2

(* run_pull at a stage, p bytes into a chunk, with n chunks to request and  *)
(* d steps to do for those to receive.  No file has more than MaxSize       *)
(* chunks.                                                                  *)
PullLeft(stage, p, n, d) ==
    CASE stage = "handshake" -> 7 + MaxSize + MaxSize * PullSteps
      [] stage = "meta" -> 6 + MaxSize + MaxSize * PullSteps
      [] stage = "load" -> 5 + MaxSize + MaxSize * PullSteps
      [] stage = "open" -> 4 + MaxSize + MaxSize * PullSteps
      [] stage = "allocate" -> 3 + n + d
      [] stage = "request" -> 2 + n + d
      [] stage = "recv" -> 1 + d
      [] stage = "data" -> 4 + (ChunkSize - p) + d
      [] stage = "verify" -> 4 + d
      [] stage = "save" -> 3 + d
      [] stage = "write" -> 2 + d
      [] OTHER -> 0

(* The messages run_pull is still going to send. *)
ToSend(stage, n) ==
    CASE stage = "handshake" -> MaxSize + 2
      [] stage \in {"meta", "load", "open"} -> MaxSize + 1
      [] stage \in {"allocate", "request"} -> n + 1
      [] OTHER -> 0

(* run_push at a stage, p bytes into a chunk, with d steps to do for the    *)
(* messages to read.                                                        *)
PushLeft(stage, p, d) ==
    CASE stage \in {"recv_handshake", "recv"} -> 1 + d
      [] stage = "send_meta" -> 2 + d
      [] stage = "send_hdr" -> 2 + ChunkSize + d
      [] stage = "send_file" -> 1 + (ChunkSize - p) + d
      [] OTHER -> 0

PullWork == PullLeft(pull, pos, Cardinality(toReq), Cardinality(toRecv) * PullSteps)
Unread == Len(reqQ) + ToSend(pull, Cardinality(toReq))
PushWork == PushLeft(push, ppos, Unread * PushSteps)
Work == PullWork + PushWork

(* Every step of run_pull or run_push leaves fewer to do, and nothing but a *)
(* new session adds any: a session takes no more steps than its Work.       *)
Dwindles ==
    /\ PullStep \/ PushStep => Work' < Work
    /\ Work' <= Work \/ StartSession
WorkDwindles == [][Dwindles]_vars
=============================================================================
