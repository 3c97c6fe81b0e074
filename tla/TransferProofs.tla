--------------------------- MODULE TransferProofs ---------------------------
(* Theorems about Transfer, for every chunk size, every set of files, every *)
(* buffer capacity and any number of sessions and faults.                   *)
EXTENDS Transfer, TLAPS

USE ChunkAssumption

----------------------------------------------------------------------------
(* Arithmetic of chunks                                                     *)

LEMMA DivBounds ==
    ASSUME NEW s \in Nat
    PROVE  /\ s \div ChunkSize \in Nat
           /\ ChunkSize * (s \div ChunkSize) <= s
           /\ s < ChunkSize * (s \div ChunkSize) + ChunkSize
  BY SMT

LEMMA OffsetMonotone ==
    ASSUME NEW i \in Nat, NEW j \in Nat, i < j
    PROVE  offset(i) + ChunkSize <= offset(j)
  <1>1. PICK d \in Nat : j = i + 1 + d
    BY SMT
  <1>2. (i + 1 + d) * ChunkSize = i * ChunkSize + ChunkSize + d * ChunkSize
    BY SMT
  <1>3. d * ChunkSize >= 0
    BY SMT
  <1> QED BY <1>1, <1>2, <1>3 DEF offset

(* A chunk of a non-empty file is not empty, is no longer than ChunkSize    *)
(* and ends inside the file (the min in run_push and run_pull).             *)
LEMMA ChunkRange ==
    ASSUME NEW s \in Nat \ {0}, NEW i \in Chunks(s)
    PROVE  /\ i \in Nat
           /\ offset(i) \in Nat
           /\ chunk_len(s, i) \in 1 .. ChunkSize
           /\ offset(i) + chunk_len(s, i) <= s
  <1> DEFINE n == chunk_count(s)
  <1>1. n \in Nat /\ ChunkSize * n <= s + ChunkSize - 1
    BY DivBounds, s + ChunkSize - 1 \in Nat DEF chunk_count
  <1>2. i \in Nat /\ i < n
    BY <1>1 DEF Chunks
  <1>3. offset(i) \in Nat /\ offset(n) = ChunkSize * n
    BY <1>1, <1>2 DEF offset
  <1>4. offset(i) + ChunkSize <= offset(n)
    BY <1>1, <1>2, OffsetMonotone
  <1>5. offset(i) < s
    BY <1>1, <1>3, <1>4
  <1> QED BY <1>2, <1>3, <1>5 DEF chunk_len

(* The chunks cover the file, and chunk_count whole chunks hold all of it. *)
LEMMA ChunksCover ==
    ASSUME NEW s \in Nat \ {0}
    PROVE  /\ s <= chunk_count(s) * ChunkSize
           /\ \A b \in 0 .. s - 1 : \E i \in Chunks(s) : b \in ChunkBytes(s, i)
  <1>1. /\ chunk_count(s) \in Nat
        /\ s + ChunkSize - 1 < ChunkSize * chunk_count(s) + ChunkSize
    BY DivBounds, s + ChunkSize - 1 \in Nat DEF chunk_count
  <1>2. s <= chunk_count(s) * ChunkSize
    BY <1>1
  <1>3. ASSUME NEW b \in 0 .. s - 1
        PROVE  \E i \in Chunks(s) : b \in ChunkBytes(s, i)
    <2> DEFINE q == b \div ChunkSize
    <2>1. q \in Nat /\ ChunkSize * q <= b /\ b < ChunkSize * q + ChunkSize
      BY DivBounds
    <2>2. q < chunk_count(s)
      <3> SUFFICES ASSUME chunk_count(s) <= q PROVE FALSE
        BY <1>1, <2>1
      <3>1. offset(chunk_count(s)) <= offset(q)
        BY <1>1, <2>1, OffsetMonotone DEF offset
      <3> QED BY <1>1, <2>1, <3>1 DEF offset
    <2>3. b \in ChunkBytes(s, q)
      BY <2>1 DEF ChunkBytes, offset, chunk_len
    <2> QED BY <1>1, <2>1, <2>2, <2>3 DEF Chunks
  <1> QED BY <1>2, <1>3

(* Chunks with different indices share no byte, even of different files. *)
LEMMA ChunksDisjoint ==
    ASSUME NEW s \in Nat, NEW t \in Nat, NEW i \in Nat, NEW j \in Nat, i # j,
           NEW b \in ChunkBytes(s, i)
    PROVE  b \notin ChunkBytes(t, j)
  <1>1. offset(i) \in Nat /\ offset(j) \in Nat
    BY DEF offset
  <1>2. offset(i) <= b /\ b < offset(i) + ChunkSize /\ b \in Int
    BY <1>1 DEF ChunkBytes, chunk_len
  <1>3. b \in ChunkBytes(t, j) => offset(j) <= b /\ b < offset(j) + ChunkSize
    BY <1>1 DEF ChunkBytes, chunk_len
  <1>4. offset(i) + ChunkSize <= offset(j) \/ offset(j) + ChunkSize <= offset(i)
    BY OffsetMonotone
  <1> QED BY <1>1, <1>2, <1>3, <1>4

----------------------------------------------------------------------------
(* Queues, files and records                                                *)

LEMMA QueueTail ==
    ASSUME NEW S, NEW q \in Seq(S), q # <<>>
    PROVE  /\ Head(q) \in S
           /\ Tail(q) \in Seq(S)
           /\ Len(Tail(q)) < Len(q)
           /\ Len(q) \in Nat /\ Len(Tail(q)) \in Nat
  OBVIOUS

LEMMA QueueAppend ==
    ASSUME NEW S, NEW q \in Seq(S), NEW e \in S, NEW n \in Nat, Len(q) < n
    PROVE  /\ Append(q, e) \in Seq(S)
           /\ Len(Append(q, e)) <= n
  OBVIOUS

LEMMA FileType ==
    ASSUME NEW f \in Files
    PROVE  /\ f.size \in Nat \ {0} /\ f.size <= MaxSize
           /\ f.data \in [Offsets -> Byte]
  BY FilesAssumption

LEMMA SavedRecord ==
    ASSUME NEW f \in Files, NEW bits \in SUBSET Chunks(f.size), NEW st \in BOOLEAN
    PROVE  LET r == Record(f, bits, st) IN
           /\ RecordOK(r)
           /\ r.kind = "saved" /\ r.for = f /\ r.bits = bits /\ r.stale = st
  <1> DEFINE r == Record(f, bits, st)
  <1>1. r.kind = "saved" /\ r.for = f /\ r.bits = bits /\ r.stale = st
    BY DEF Record
  <1> QED BY <1>1 DEF RecordOK

LEMMA RecordKinds ==
    ASSUME NEW r, RecordOK(r)
    PROVE  /\ r.kind \in {"none", "torn", "saved"}
           /\ r.kind = "saved" => /\ r.for \in Files
                                  /\ r.bits \subseteq Chunks(r.for.size)
                                  /\ r.stale \in BOOLEAN
  <1>1. CASE r \in {NoRecord, TornRecord}
    BY <1>1 DEF NoRecord, TornRecord
  <1>2. CASE r \notin {NoRecord, TornRecord}
    <2>1. /\ r.for \in Files /\ r.bits \subseteq Chunks(r.for.size)
          /\ r.stale \in BOOLEAN /\ r = Record(r.for, r.bits, r.stale)
      BY <1>2 DEF RecordOK
    <2>2. r.kind = "saved"
      BY <2>1, SavedRecord
    <2> QED BY <2>1, <2>2
  <1> QED BY <1>1, <1>2

LEMMA OutdatedOK ==
    ASSUME NEW r, RecordOK(r)
    PROVE  /\ RecordOK(Outdated(r))
           /\ Outdated(r).kind = r.kind
           /\ r.kind = "saved" => Outdated(r).stale = TRUE
  <1>1. CASE r.kind = "saved"
    BY <1>1, RecordKinds, SavedRecord DEF Outdated
  <1>2. CASE r.kind # "saved"
    BY <1>2 DEF Outdated
  <1> QED BY <1>1, <1>2

(* A byte of chunk i lies in the file and in the data functions. *)
LEMMA ByteInFile ==
    ASSUME NEW f \in Files, NEW i \in Chunks(f.size),
           NEW k \in Nat, k < chunk_len(f.size, i)
    PROVE  /\ offset(i) + k \in Offsets
           /\ offset(i) + k < f.size
           /\ offset(i) + k \in ChunkBytes(f.size, i)
           /\ f.data[offset(i) + k] \in Byte
  <1>1. /\ f.size \in Nat \ {0} /\ f.size <= MaxSize
        /\ f.data \in [Offsets -> Byte]
    BY FileType
  <1>2. /\ offset(i) \in Nat /\ chunk_len(f.size, i) \in 1 .. ChunkSize
        /\ offset(i) + chunk_len(f.size, i) <= f.size
    BY <1>1, ChunkRange
  <1> QED BY <1>1, <1>2 DEF Offsets, ChunkBytes

LEMMA OutputTypes == NoOutput \in Outputs /\ Truncated \in Outputs
  BY FilesAssumption DEF NoOutput, Truncated, Blank, Outputs

----------------------------------------------------------------------------
(* Types                                                                    *)

LEMMA TypeInit == Init => TypeOK
  <1> SUFFICES ASSUME Init PROVE TypeOK
    OBVIOUS
  <1>1. PullTypeOK /\ PushTypeOK
    BY DEF Init, PullTypeOK, PushTypeOK
  <1>2. NetTypeOK
    <2>1. <<>> \in Seq(ReqMsgs) /\ <<>> \in Seq(DataMsgs) /\ Len(<<>>) = 0
      OBVIOUS
    <2>2. reqQ = <<>> /\ dataQ = <<>> /\ broken = FALSE
      BY DEF Init
    <2>3. 0 <= ReqCap /\ 0 <= DataCap
      BY BoundAssumption
    <2> QED BY <2>1, <2>2, <2>3 DEF NetTypeOK
  <1>3. out \in Outputs /\ RecordOK(record)
    BY OutputTypes DEF Init, RecordOK
  <1> QED BY <1>1, <1>2, <1>3 DEF Init, TypeOK

LEMMA PullStepType == TypeOK /\ PullStep => TypeOK'
  <1> SUFFICES ASSUME TypeOK, PullStep PROVE TypeOK'
    OBVIOUS
  <1> USE DEF TypeOK, PullTypeOK, PushTypeOK, NetTypeOK, pullVars, pushVars,
              netVars, diskVars, auxVars
  <1>1. CASE PullHandshake
    <2>1. reqQ' \in Seq(ReqMsgs) /\ Len(reqQ') <= ReqCap
      BY <1>1, QueueAppend, BoundAssumption
         DEF PullHandshake, CanSendReq, HANDSHAKE, ReqMsgs
    <2> QED BY <1>1, <2>1 DEF PullHandshake
  <1>2. CASE PullMeta
    <2>1. /\ dataQ' \in Seq(DataMsgs) /\ Len(dataQ') <= DataCap
          /\ Head(dataQ) \in DataMsgs
      BY <1>2, QueueTail, BoundAssumption DEF PullMeta
    <2>2. Head(dataQ).type = "FILE_META" => Head(dataQ).file \in Files
      BY <2>1 DEF DataMsgs
    <2> QED BY <1>2, <2>1, <2>2 DEF PullMeta
  <1>3. CASE PullLoad
    <2>1. resumed' \in BOOLEAN
      BY <1>3 DEF PullLoad, Loadable
    <2>2. trusted' \in BOOLEAN
      BY <1>3 DEF PullLoad
    <2>3. cm' \subseteq Chunks(meta.size)
      BY <1>3 DEF PullLoad, LoadedBits
    <2> QED BY <1>3, <2>1, <2>2, <2>3 DEF PullLoad
  <1>4. CASE PullOpen
    <2>1. out' \in Outputs
      BY <1>4, OutputTypes DEF PullOpen, OpenedOutput
    <2>2. RecordOK(record)'
      BY <1>4, OutdatedOK DEF PullOpen
    <2>3. cm' \subseteq Chunks(meta.size)
      BY <1>4 DEF PullOpen, ProgressKept
    <2> QED BY <1>4, <2>1, <2>2, <2>3 DEF PullOpen, needed_chunks
  <1>5. CASE PullAllocate
    <2>1. out' \in Outputs
      BY <1>5, FileType DEF PullAllocate, Allocated, Resized, Outputs
    <2> QED BY <1>5, <2>1 DEF PullAllocate
  <1>6. CASE PullRequest
    <2>1. PICK i \in toReq : /\ reqQ' = Append(reqQ, CHUNK_REQ(i))
                             /\ toReq' = toReq \ {i}
      BY <1>6 DEF PullRequest
    <2>2. CHUNK_REQ(i) \in ReqMsgs
      BY FileType, ChunkRange DEF CHUNK_REQ, ReqMsgs
    <2>3. reqQ' \in Seq(ReqMsgs) /\ Len(reqQ') <= ReqCap
      BY <1>6, <2>1, <2>2, QueueAppend, BoundAssumption DEF PullRequest, CanSendReq
    <2> QED BY <1>6, <2>1, <2>3 DEF PullRequest
  <1>7. CASE PullComplete
    <2>1. reqQ' \in Seq(ReqMsgs) /\ Len(reqQ') <= ReqCap
      BY <1>7, QueueAppend, BoundAssumption
         DEF PullComplete, CanSendReq, COMPLETE, ReqMsgs
    <2> QED BY <1>7, <2>1 DEF PullComplete
  <1>8. CASE PullHeader
    <2>1. dataQ' \in Seq(DataMsgs) /\ Len(dataQ') <= DataCap
      BY <1>8, QueueTail, BoundAssumption DEF PullHeader
    <2>2. PICK i \in toRecv : /\ cur' = i /\ pos' = 0
                              /\ toRecv' = toRecv \ {i}
                              /\ pull' \in {"data", "failed"}
      BY <1>8 DEF PullHeader
    <2>3. i \in Nat /\ 0 < chunk_len(meta.size, i)
      BY <2>2, FileType, ChunkRange
    <2> QED BY <1>8, <2>1, <2>2, <2>3 DEF PullHeader
  <1>9. CASE PullData
    <2>1. /\ dataQ' \in Seq(DataMsgs) /\ Len(dataQ') <= DataCap
          /\ Head(dataQ) \in DataMsgs
      BY <1>9, QueueTail, BoundAssumption DEF PullData
    <2>2. /\ offset(cur) + pos \in Offsets
      BY <1>9, ByteInFile DEF PullData
    <2>3. PICK v \in Byte : out' = Written(out, offset(cur) + pos, v)
      BY <1>9, <2>1 DEF PullData, Delivered, DataMsgs
    <2>4. out' \in Outputs
      BY <2>2, <2>3 DEF Written, Outputs, Offsets
    <2>5. chunk_len(meta.size, cur) \in Nat
      BY <1>9, FileType, ChunkRange DEF PullData
    <2>6. pull' = "data" => pos' < chunk_len(meta.size, cur)
      BY <1>9, <2>5 DEF PullData
    <2> QED BY <1>9, <2>1, <2>4, <2>6 DEF PullData
  <1>10. CASE PullVerify
    BY <1>10 DEF PullVerify, Verified
  <1>11. CASE PullSaveOpen
    BY <1>11 DEF PullSaveOpen, RecordOK
  <1>12. CASE PullSaveWrite
    <2>1. RecordOK(record)'
      BY <1>12, SavedRecord DEF PullSaveWrite
    <2> QED BY <1>12, <2>1 DEF PullSaveWrite
  <1>13. CASE PullFinish
    BY <1>13 DEF PullFinish, RecordOK
  <1>14. CASE PullIoFails
    BY <1>14 DEF PullIoFails
  <1> QED BY <1>1, <1>2, <1>3, <1>4, <1>5, <1>6, <1>7, <1>8, <1>9, <1>10, <1>11,
             <1>12, <1>13, <1>14 DEF PullStep

LEMMA PushStepType == TypeOK /\ PushStep => TypeOK'
  <1> SUFFICES ASSUME TypeOK, PushStep PROVE TypeOK'
    OBVIOUS
  <1> USE DEF TypeOK, PullTypeOK, PushTypeOK, NetTypeOK, pullVars, pushVars,
              netVars, diskVars, auxVars
  <1>1. CASE PushHandshake
    <2>1. reqQ' \in Seq(ReqMsgs) /\ Len(reqQ') <= ReqCap
      BY <1>1, QueueTail, BoundAssumption DEF PushHandshake
    <2> QED BY <1>1, <2>1 DEF PushHandshake
  <1>2. CASE PushMeta
    <2>1. dataQ' \in Seq(DataMsgs) /\ Len(dataQ') <= DataCap
      BY <1>2, QueueAppend, BoundAssumption
         DEF PushMeta, CanSendData, FILE_META, DataMsgs
    <2> QED BY <1>2, <2>1 DEF PushMeta
  <1>3. CASE PushRecv
    <2>1. /\ reqQ' \in Seq(ReqMsgs) /\ Len(reqQ') <= ReqCap
          /\ Head(reqQ) \in ReqMsgs
      BY <1>3, QueueTail, BoundAssumption DEF PushRecv
    <2>2. CASE Head(reqQ).type = "CHUNK_REQ" /\ InRange(Head(reqQ).index)
      <3>1. Head(reqQ).index \in Nat
        BY <2>1, <2>2 DEF ReqMsgs
      <3>2. Head(reqQ).index \in Chunks(file.size)
        BY <2>2, <3>1, DivBounds, FileType DEF InRange, Chunks, chunk_count
      <3>3. 0 < chunk_len(file.size, Head(reqQ).index)
        BY <3>2, FileType, ChunkRange
      <3> QED BY <1>3, <2>1, <2>2, <3>1, <3>2, <3>3 DEF PushRecv
    <2>3. CASE ~ (Head(reqQ).type = "CHUNK_REQ" /\ InRange(Head(reqQ).index))
      BY <1>3, <2>1, <2>3 DEF PushRecv
    <2> QED BY <2>2, <2>3
  <1>4. CASE PushHeader
    <2>1. dataQ' \in Seq(DataMsgs) /\ Len(dataQ') <= DataCap
      BY <1>4, QueueAppend, BoundAssumption
         DEF PushHeader, CanSendData, CHUNK_HDR, DataMsgs
    <2> QED BY <1>4, <2>1 DEF PushHeader
  <1>5. CASE PushData
    <2>1. PICK b \in {file.data[SendOffset]} \union Edits :
             /\ dataQ' = Append(dataQ, DATA(b))
             /\ faulted' = (faulted \/ b # file.data[SendOffset])
      BY <1>5 DEF PushData
    <2>2. b \in Byte
      BY <1>5, <2>1, ByteInFile, FilesAssumption DEF PushData, SendOffset
    <2>3. dataQ' \in Seq(DataMsgs) /\ Len(dataQ') <= DataCap
      BY <1>5, <2>1, <2>2, QueueAppend, BoundAssumption
         DEF PushData, CanSendData, DATA, DataMsgs
    <2>4. chunk_len(file.size, pcur) \in Nat
      BY <1>5, FileType, ChunkRange DEF PushData
    <2>5. push' = "send_file" => ppos' < chunk_len(file.size, pcur)
      BY <1>5, <2>4 DEF PushData
    <2>6. faulted' \in BOOLEAN
      BY <2>1
    <2> QED BY <1>5, <2>3, <2>5, <2>6 DEF PushData
  <1>6. CASE PushIoFails
    BY <1>6 DEF PushIoFails
  <1> QED BY <1>1, <1>2, <1>3, <1>4, <1>5, <1>6 DEF PushStep

LEMMA EnvType == TypeOK /\ Env => TypeOK'
  <1> SUFFICES ASSUME TypeOK, Env PROVE TypeOK'
    OBVIOUS
  <1> USE DEF TypeOK, PullTypeOK, PushTypeOK, NetTypeOK, pullVars, pushVars,
              netVars, diskVars, auxVars
  <1>0. <<>> \in Seq(ReqMsgs) /\ <<>> \in Seq(DataMsgs) /\ Len(<<>>) = 0
    OBVIOUS
  <1>a. 0 <= ReqCap /\ 0 <= DataCap
    BY BoundAssumption
  <1>1. CASE PullDies
    BY <1>1 DEF PullDies, Fault
  <1>2. CASE PushDies
    BY <1>2 DEF PushDies, Fault
  <1>3. CASE ConnReset
    BY <1>3, <1>0, <1>a DEF ConnReset, Fault
  <1>4. CASE OutputVanishes
    <2>1. out' \in Outputs /\ RecordOK(record)'
      BY <1>4, OutputTypes, OutdatedOK DEF OutputVanishes
    <2> QED BY <1>4, <2>1 DEF OutputVanishes, Fault
  <1>5. CASE StartSession
    <2>1. out' \in Outputs
      BY <1>5, OutputTypes DEF StartSession
    <2>2. RecordOK(record)'
      BY <1>5, OutdatedOK DEF StartSession, RecordOK
    <2>3. PullTypeOK' /\ PushTypeOK'
      BY <1>5 DEF StartSession
    <2>4. reqQ' = <<>> /\ dataQ' = <<>> /\ broken' = FALSE
      BY <1>5 DEF StartSession
    <2>5. NetTypeOK'
      BY <1>0, <1>a, <2>4
    <2>6. sessions' = sessions + 1 /\ faults' = faults
      BY <1>5 DEF StartSession
    <2>7. faulted' = FALSE /\ trusted' = TRUE
      BY <1>5 DEF StartSession
    <2>8. sessions' \in Nat /\ faults' \in Nat
      BY <2>6
    <2>9. faulted' \in BOOLEAN /\ trusted' \in BOOLEAN
      BY <2>7
    <2> HIDE DEF PullTypeOK, PushTypeOK, NetTypeOK
    <2> QED BY <2>1, <2>2, <2>3, <2>5, <2>8, <2>9 DEF TypeOK
  <1> QED BY <1>1, <1>2, <1>3, <1>4, <1>5 DEF Env

LEMMA TypeStep == TypeOK /\ [Next]_vars => TypeOK'
  <1> SUFFICES ASSUME TypeOK, [Next]_vars PROVE TypeOK'
    OBVIOUS
  <1>1. CASE Finished \/ UNCHANGED vars
    BY <1>1 DEF Finished, vars, pullVars, pushVars, netVars, diskVars, auxVars,
                TypeOK, PullTypeOK, PushTypeOK, NetTypeOK
  <1> QED BY <1>1, PullStepType, PushStepType, EnvType DEF Next

(* In every session history of the code the bitmap and request lists stay   *)
(* within file_meta, every transfer position within its chunk, and the      *)
(* output within the size of a file.                                        *)
THEOREM Typing == Spec => []TypeOK
  BY TypeInit, TypeStep, PTL DEF Spec

----------------------------------------------------------------------------
(* Soundness of progress: done chunks are intact                            *)

(* A byte written into one chunk leaves every other chunk as it was. *)
LEMMA WriteKeepsOthers ==
    ASSUME NEW o \in Outputs, NEW f \in Files, NEW g \in Files, NEW v \in Byte,
           NEW i \in Chunks(f.size), NEW j \in Chunks(g.size), i # j,
           NEW b \in ChunkBytes(g.size, j), b \in Offsets,
           ChunkMatches(o, f, i)
    PROVE  ChunkMatches(Written(o, b, v), f, i)
  <1>1. f.size \in Nat \ {0} /\ g.size \in Nat \ {0} /\ f.size <= MaxSize
    BY FileType
  <1>2. i \in Nat /\ j \in Nat
    BY <1>1, ChunkRange
  <1>3. ASSUME NEW c \in ChunkBytes(f.size, i)
        PROVE  /\ c < Written(o, b, v).size
               /\ Written(o, b, v).data[c] = f.data[c]
    <2>1. c # b
      BY <1>1, <1>2, ChunksDisjoint
    <2>2. c < o.size /\ o.data[c] = f.data[c]
      BY DEF ChunkMatches
    <2>3. c \in Int /\ c \in Offsets
      <3>1. /\ offset(i) \in Nat /\ chunk_len(f.size, i) \in Nat
            /\ offset(i) + chunk_len(f.size, i) <= f.size
        BY <1>1, ChunkRange
      <3> QED BY <1>1, <3>1 DEF ChunkBytes, Offsets
    <2>4. o.size \in Nat /\ b \in Int
      BY DEF Outputs, Offsets
    <2>5. Written(o, b, v).data[c] = o.data[c]
      BY <2>1, <2>3 DEF Written, Outputs
    <2>6. c < Written(o, b, v).size
      BY <2>2, <2>3, <2>4 DEF Written
    <2> QED BY <2>2, <2>5, <2>6
  <1>4. Written(o, b, v).exists
    BY DEF Written, ChunkMatches
  <1> QED BY <1>3, <1>4 DEF ChunkMatches

LEMMA ResumeInit == Init => ResumeInv
  <1> SUFFICES ASSUME Init PROVE ResumeInv
    OBVIOUS
  <1>1. record.kind = "none" /\ pull = "handshake"
    BY DEF Init, NoRecord
  <1> QED BY <1>1, TypeInit
          DEF ResumeInv, RecordSound, DoneSound, RecordFits, OutputFits,
              RemainingFits, Working, Genuine, Transferring

LEMMA ResumePull == ResumeInv /\ TypeOK' /\ PullStep => ResumeInv'
  <1> SUFFICES ASSUME ResumeInv, TypeOK', PullStep PROVE ResumeInv'
    OBVIOUS
  <1>t. TypeOK /\ meta \in Files
    BY DEF ResumeInv, TypeOK, PullTypeOK
  <1>m. meta.size \in Nat \ {0}
    BY <1>t, FileType
  <1> USE DEF ResumeInv, RecordSound, DoneSound, RecordFits, OutputFits,
              RemainingFits, Working, Genuine, Transferring, Reopened,
              pullVars, pushVars, netVars, diskVars, auxVars
  <1>1. CASE PullHandshake
    BY <1>1 DEF PullHandshake
  <1>2. CASE PullMeta
    BY <1>2 DEF PullMeta
  <1>3. CASE PullLoad
    <2>1. CASE resumed'
      <3>1. Loadable(record, out, meta) /\ cm' = LoadedBits(record, meta)
        BY <1>3, <2>1 DEF PullLoad
      <3>2. meta.size <= out.size
        BY <1>m, <3>1, ChunksCover DEF Loadable
      <3>3. record.kind = "saved" /\ cm' = record.bits \intersect Chunks(meta.size)
        BY <3>1 DEF Loadable, LoadedBits
      <3>4. trusted' => record.for = meta /\ ~ record.stale
        BY <1>3, <2>1 DEF PullLoad
      <3> QED BY <1>3, <3>2, <3>3, <3>4 DEF PullLoad
    <2>2. CASE ~ resumed'
      BY <1>3, <2>2 DEF PullLoad
    <2> QED BY <2>1, <2>2
  <1>4. CASE PullOpen
    <2>1. CASE Reopened
      BY <1>4, <2>1 DEF PullOpen, OpenedOutput, ProgressKept, needed_chunks
    <2>2. CASE ~ Reopened
      <3>1. /\ out' = Truncated /\ cm' = {} /\ trusted' = TRUE
            /\ record' = Outdated(record)
        BY <1>4, <2>2 DEF PullOpen, OpenedOutput, ProgressKept
      <3>2. ~ Genuine'
        BY <1>t, <3>1, OutdatedOK DEF TypeOK
      <3>3. out'.exists /\ out'.size = 0
        BY <3>1 DEF Truncated
      <3>4. pull' \in {"request", "allocate"} /\ meta' = meta
        BY <1>4 DEF PullOpen
      <3> QED BY <1>m, <3>1, <3>2, <3>3, <3>4
    <2> QED BY <2>1, <2>2
  <1>5. CASE PullAllocate
    <2>1. out'.size = meta.size /\ out'.exists = out.exists
      BY <1>5 DEF PullAllocate, Allocated, Resized
    <2> QED BY <1>5, <1>m, <2>1 DEF PullAllocate
  <1>6. CASE PullRequest
    BY <1>6 DEF PullRequest
  <1>7. CASE PullComplete
    BY <1>7 DEF PullComplete
  <1>8. CASE PullHeader
    <2>1. PICK i \in toRecv : /\ cur' = i /\ toRecv' = toRecv \ {i}
                              /\ pull' \in {"data", "failed"}
      BY <1>8 DEF PullHeader
    <2> QED BY <1>8, <2>1 DEF PullHeader
  <1>10. CASE PullVerify
    <2>1. /\ cm' = Verified(out, meta, cm, cur) /\ pull = "verify" /\ pull' = "save"
          /\ UNCHANGED <<out, record, meta, trusted, cur, toRecv, resumed>>
      BY <1>10 DEF PullVerify
    <2>2. cm' \in {cm, cm \union {cur}}
      BY <2>1 DEF Verified
    <2>3. cur \in cm' => ChunkMatches(out, meta, cur)
      BY <2>1 DEF Verified
    <2> QED BY <2>1, <2>2, <2>3
  <1>11. CASE PullSaveOpen
    BY <1>11 DEF PullSaveOpen, TornRecord
  <1>12. CASE PullSaveWrite
    <2>1. /\ record'.kind = "saved" /\ record'.for = meta /\ record'.bits = cm
          /\ record'.stale = ~ trusted
      <3>1. record' = Record(meta, cm, ~ trusted)
        BY <1>12 DEF PullSaveWrite
      <3> QED BY <3>1 DEF Record
    <2> QED BY <1>12, <2>1 DEF PullSaveWrite
  <1>13. CASE PullFinish
    BY <1>13 DEF PullFinish, NoRecord
  <1>14. CASE PullIoFails
    BY <1>14 DEF PullIoFails
  <1>9. CASE PullData
    <2>1. /\ pull = "data" /\ pull' \in {"data", "verify"}
          /\ UNCHANGED <<record, meta, trusted, cm, cur, toRecv>>
      BY <1>9 DEF PullData
    <2> DEFINE b == offset(cur) + pos
    <2>2. /\ b \in Offsets /\ b < meta.size /\ b \in ChunkBytes(meta.size, cur)
          /\ cur \in Chunks(meta.size) /\ b \in Nat
      BY <1>t, <2>1, ByteInFile DEF TypeOK, PullTypeOK, Offsets
    <2>3. PICK v \in Byte : out' = Written(out, b, v)
      <3>1. Head(dataQ) \in DataMsgs
        BY <1>9, <1>t, QueueTail DEF PullData, TypeOK, NetTypeOK
      <3> QED BY <1>9, <3>1 DEF PullData, Delivered, DataMsgs
    <2>4. out \in Outputs /\ out.size \in Nat
      BY <1>t DEF TypeOK, Outputs
    <2>5. /\ out'.exists = out.exists
          /\ out'.size = IF out.size <= b THEN b + 1 ELSE out.size
      BY <2>3 DEF Written
    <2>6. out.size >= meta.size => out'.size = out.size
      BY <1>m, <2>2, <2>4, <2>5
    <2>7. out.size <= meta.size => out'.size <= meta.size
      BY <1>m, <2>2, <2>4, <2>5
    <2>8. ASSUME NEW f \in Files, NEW i \in Chunks(f.size), i # cur,
                 ChunkMatches(out, f, i)
          PROVE  ChunkMatches(out', f, i)
      BY <1>t, <2>2, <2>3, <2>4, <2>8, WriteKeepsOthers
    <2>9. RecordSound' /\ DoneSound'
      <3>1. ASSUME Genuine, NEW i \in record.bits
            PROVE  ChunkMatches(out', record.for, i)
        <4>1. /\ record.for \in Files /\ i \in Chunks(record.for.size)
          BY <1>t, <3>1, RecordKinds DEF TypeOK
        <4>2. i # cur
          BY <2>1, <2>2, <3>1
        <4> QED BY <2>8, <3>1, <4>1, <4>2
      <3>2. ASSUME trusted, NEW i \in cm
            PROVE  ChunkMatches(out', meta, i)
        <4>1. i \in Chunks(meta.size) /\ i # cur
          BY <1>t, <2>1 DEF TypeOK, PullTypeOK
        <4> QED BY <1>t, <2>1, <2>8, <3>2, <4>1
      <3> QED BY <2>1, <2>7, <3>1, <3>2
    <2>10. RecordFits' /\ OutputFits' /\ RemainingFits'
      BY <2>1, <2>5, <2>6, <2>7
    <2> QED BY <2>9, <2>10
  <1> QED BY <1>1, <1>2, <1>3, <1>4, <1>5, <1>6, <1>7, <1>8, <1>9, <1>10, <1>11,
             <1>12, <1>13, <1>14 DEF PullStep

LEMMA ResumeEnv == ResumeInv /\ TypeOK' /\ Env => ResumeInv'
  <1> SUFFICES ASSUME ResumeInv, TypeOK', Env PROVE ResumeInv'
    OBVIOUS
  <1>t. RecordOK(record)
    BY DEF ResumeInv, TypeOK
  <1>o. ~ (Outdated(record).kind = "saved" /\ ~ Outdated(record).stale)
    BY <1>t, OutdatedOK
  <1> USE DEF ResumeInv, RecordSound, DoneSound, RecordFits, OutputFits,
              RemainingFits, Working, Genuine, Transferring, Reopened,
              pullVars, pushVars, netVars, diskVars, auxVars
  <1>1. CASE PullDies
    BY <1>1 DEF PullDies
  <1>2. CASE PushDies
    BY <1>2 DEF PushDies
  <1>3. CASE ConnReset
    BY <1>3 DEF ConnReset
  <1>4. CASE OutputVanishes
    <2>1. out'.exists = FALSE
      BY <1>4 DEF OutputVanishes, NoOutput
    <2> QED BY <1>4, <1>o, <2>1 DEF OutputVanishes
  <1>5. CASE StartSession
    <2>1. pull' = "handshake"
      BY <1>5 DEF StartSession
    <2>2. \/ UNCHANGED <<out, record>>
          \/ record' = NoRecord
          \/ record' = Outdated(record)
      BY <1>5 DEF StartSession
    <2>3. CASE UNCHANGED <<out, record>>
      BY <2>1, <2>3
    <2>4. CASE record' = NoRecord
      BY <2>1, <2>4 DEF NoRecord
    <2>5. CASE record' = Outdated(record)
      BY <1>o, <2>1, <2>5
    <2> QED BY <2>2, <2>3, <2>4, <2>5
  <1> QED BY <1>1, <1>2, <1>3, <1>4, <1>5 DEF Env

LEMMA ResumeStep == ResumeInv /\ [Next]_vars => ResumeInv'
  <1> SUFFICES ASSUME ResumeInv, [Next]_vars PROVE ResumeInv'
    OBVIOUS
  <1>1. TypeOK'
    BY TypeStep DEF ResumeInv
  <1>2. CASE UNCHANGED <<pullVars, diskVars, trusted>>
    BY <1>1, <1>2
       DEF pullVars, diskVars, ResumeInv, RecordSound, DoneSound, RecordFits,
           OutputFits, RemainingFits, Working, Genuine, Transferring, Reopened
  <1>3. CASE PushStep
    <2>1. UNCHANGED <<pullVars, diskVars, trusted>>
      BY <1>3 DEF PushStep, PushHandshake, PushMeta, PushRecv, PushHeader,
                  PushData, PushIoFails, auxVars
    <2> QED BY <1>2, <2>1
  <1>4. CASE Finished \/ UNCHANGED vars
    BY <1>2, <1>4 DEF Finished, vars, auxVars
  <1> QED BY <1>1, <1>3, <1>4, ResumePull, ResumeEnv DEF Next

(* Wherever a crash strikes, in whatever order sessions for different files *)
(* followed one another: a chunk marked done, in memory or in a record      *)
(* whose output was kept, is intact in the output.                          *)
THEOREM ProgressIsSound == Spec => []ResumeInv
  BY ResumeInit, ResumeStep, PTL DEF Spec

(* The record run_pull leaves on disk never claims a chunk the output does  *)
(* not hold, unless the output was truncated or deleted since.              *)
THEOREM RecordIsSound == Spec => []RecordSound
  <1>1. ResumeInv => RecordSound
    BY DEF ResumeInv
  <1> QED BY <1>1, ProgressIsSound, PTL

LEMMA DoneChunksAreTheFile ==
    ASSUME ResumeInv, pull = "complete", trusted
    PROVE  OutputIs(meta)
  <1>1. meta \in Files /\ meta.size \in Nat \ {0} /\ out.size \in Nat
    BY FileType DEF ResumeInv, TypeOK, PullTypeOK, Outputs
  <1>2. cm = Chunks(meta.size) /\ out.size <= meta.size
    BY DEF ResumeInv, RemainingFits, DoneSound
  <1>3. \A i \in Chunks(meta.size) : ChunkMatches(out, meta, i)
    BY <1>2 DEF ResumeInv, DoneSound
  <1>4. ASSUME NEW b \in 0 .. meta.size - 1
        PROVE  out.exists /\ b < out.size /\ out.data[b] = meta.data[b]
    <2>1. PICK i \in Chunks(meta.size) : b \in ChunkBytes(meta.size, i)
      BY <1>1, ChunksCover
    <2> QED BY <1>3, <2>1 DEF ChunkMatches
  <1>5. out.exists /\ meta.size - 1 < out.size
    BY <1>1, <1>4
  <1> QED BY <1>1, <1>2, <1>4, <1>5 DEF OutputIs

(* "transfer complete" is true of the output, for any chunk size and files, *)
(* any faults and any edits of the source, whenever the session began fresh *)
(* or from progress of the same file over an output kept since.             *)
THEOREM CompleteTransfers == Spec => []CompleteIsCorrect
  <1>1. ResumeInv => CompleteIsCorrect
    BY DoneChunksAreTheFile DEF CompleteIsCorrect
  <1> QED BY <1>1, ProgressIsSound, PTL

----------------------------------------------------------------------------
(* Done chunks are never written again                                      *)

LEMMA StepKeepsDone == ResumeInv /\ [Next]_vars => KeepsDoneChunks
  <1> SUFFICES ASSUME ResumeInv, [Next]_vars, pull \in Transferring,
                      NEW i \in cm, NEW c \in ChunkBytes(meta.size, i)
               PROVE  out'.data[c] = out.data[c]
    BY DEF KeepsDoneChunks
  <1>1. CASE UNCHANGED out
    BY <1>1
  <1>2. CASE PullData
    <2>1. /\ TypeOK /\ meta \in Files /\ meta.size \in Nat
          /\ i \in Chunks(meta.size) /\ out \in Outputs
      BY FileType DEF ResumeInv, TypeOK, PullTypeOK
    <2>2. pull = "data" /\ cur \in Chunks(meta.size) /\ cur # i
      BY <1>2, <2>1 DEF PullData, ResumeInv, RemainingFits, TypeOK, PullTypeOK
    <2>3. offset(cur) + pos \in ChunkBytes(meta.size, cur)
      BY <2>1, <2>2, ByteInFile DEF TypeOK, PullTypeOK
    <2>4. i \in Nat /\ cur \in Nat
      BY <2>1, <2>2, FileType, ChunkRange
    <2>5. c # offset(cur) + pos
      BY <2>1, <2>2, <2>3, <2>4, ChunksDisjoint
    <2>6. PICK v : out' = Written(out, offset(cur) + pos, v)
      BY <1>2 DEF PullData
    <2>7. c \in Offsets
      <3>1. /\ offset(i) \in Nat /\ chunk_len(meta.size, i) \in Nat
            /\ offset(i) + chunk_len(meta.size, i) <= meta.size
            /\ meta.size <= MaxSize
        BY <2>1, FileType, ChunkRange
      <3> QED BY <2>1, <3>1 DEF ChunkBytes, Offsets
    <2> QED BY <2>1, <2>5, <2>6, <2>7 DEF Written, Outputs
  <1>3. CASE PullStep /\ ~ PullData
    BY <1>1, <1>3
       DEF PullStep, Transferring, PullHandshake, PullMeta, PullLoad, PullOpen,
           PullAllocate, PullRequest, PullComplete, PullHeader, PullVerify,
           PullSaveOpen, PullSaveWrite, PullFinish, PullIoFails, diskVars
  <1>4. CASE PushStep
    BY <1>1, <1>4 DEF PushStep, PushHandshake, PushMeta, PushRecv, PushHeader,
                      PushData, PushIoFails, diskVars
  <1>5. CASE Env
    BY <1>1, <1>5 DEF Env, Transferring, PullDies, PushDies, ConnReset,
                      OutputVanishes, StartSession, PullOver, PullLive, diskVars
  <1>6. CASE Finished \/ UNCHANGED vars
    BY <1>1, <1>6 DEF Finished, vars, diskVars
  <1> QED BY <1>2, <1>3, <1>4, <1>5, <1>6 DEF Next

(* No step of a session writes a byte of a chunk that mark_done() or load() *)
(* has recorded: a resume cannot damage what it resumes from.               *)
THEOREM DoneChunksKept == Spec => DoneChunksStable
  BY StepKeepsDone, ProgressIsSound, PTL DEF Spec, DoneChunksStable

----------------------------------------------------------------------------
(* One file, and an output nobody deletes                                   *)

LEMMA KeptInit == ResumeSafe /\ Init => KeptInv
  BY FileType DEF Init, KeptInv, NoRecord, NoOutput, Transferring

LEMMA KeptStep ==
    ASSUME ResumeSafe, ResumeInv, KeptInv, [Next]_vars, TypeOK'
    PROVE  KeptInv'
  <1>t. /\ TypeOK /\ meta \in Files /\ meta' \in Files /\ meta' = meta
        /\ meta.size \in Nat \ {0} /\ out.size \in Nat /\ RecordOK(record)
    BY FileType DEF ResumeInv, TypeOK, PullTypeOK, Outputs, ResumeSafe
  <1>c. meta.size <= chunk_count(meta.size) * ChunkSize
    BY <1>t, ChunksCover
  <1>d. chunk_count(meta.size) * ChunkSize \in Nat
    BY <1>t, DivBounds, meta.size + ChunkSize - 1 \in Nat DEF chunk_count
  <1> USE DEF KeptInv, Transferring
  <1>1. CASE UNCHANGED <<trusted, out, record>> /\ (pull' = pull /\ resumed' = resumed)
    BY <1>1, <1>t
  <1>2. CASE /\ UNCHANGED <<trusted, out, record>>
             /\ pull' \notin {"open"} \union Transferring
    BY <1>2, <1>t
  <1>3. CASE /\ UNCHANGED <<trusted, out, record>>
             /\ pull \in Transferring /\ pull' # "open"
    BY <1>3, <1>t
  <1>4. CASE PullLoad
    <2>1. /\ pull' = "open" /\ UNCHANGED <<out, record>>
          /\ resumed' = Loadable(record, out, meta)
          /\ trusted' = (resumed' => record.for = meta /\ ~ record.stale)
      BY <1>4 DEF PullLoad, diskVars
    <2>2. CASE Loadable(record, out, meta)
      <3>1. /\ record.kind = "saved" /\ out.exists
            /\ out.size = chunk_count(meta.size) * ChunkSize
        BY <2>2 DEF Loadable
      <3>2. Aligned(meta) /\ out.size = meta.size
        BY <1>c, <1>d, <1>t, <3>1 DEF Aligned
      <3>3. record.for = meta
        BY <1>t, <3>1, RecordKinds DEF ResumeSafe
      <3>4. trusted' /\ resumed'
        BY <2>1, <2>2, <3>1, <3>2, <3>3
      <3> QED BY <1>t, <2>1, <3>1, <3>2, <3>4
    <2>3. CASE ~ Loadable(record, out, meta)
      <3>1. ~ resumed' /\ trusted'
        BY <2>1, <2>3
      <3>2. record.kind = "saved" => ~ Aligned(meta)
        <4> SUFFICES ASSUME record.kind = "saved", Aligned(meta) PROVE FALSE
          OBVIOUS
        <4>1. record.for = meta /\ record = Record(meta, record.bits, record.stale)
          BY <1>t, RecordKinds DEF ResumeSafe, RecordOK, NoRecord, TornRecord
        <4>2. /\ record.hash = chunk_hash(meta, 0)
              /\ record.bytes = bitmap_bytes(chunk_count(meta.size))
          BY <4>1 DEF Record
        <4>3. bitmap_bytes(chunk_count(meta.size)) \in Int
          BY <1>t, DivBounds, meta.size + ChunkSize - 1 \in Nat
             DEF bitmap_bytes, chunk_count
        <4> QED BY <2>3, <4>2, <4>3 DEF Loadable, Aligned
      <3> QED BY <1>t, <2>1, <3>1, <3>2
    <2> QED BY <2>2, <2>3
  <1>5. CASE PullOpen
    <2>1. CASE Reopened
      BY <1>5, <1>t, <2>1 DEF PullOpen, OpenedOutput, Reopened
    <2>2. CASE ~ Reopened
      <3>1. /\ ~ resumed /\ pull = "open" /\ pull' = "allocate"
            /\ record' = Outdated(record) /\ trusted' = TRUE /\ out' = Truncated
        BY <1>5, <2>2 DEF PullOpen, OpenedOutput, Reopened
      <3>2. record'.kind = record.kind /\ out'.size = 0
        BY <1>t, <3>1, OutdatedOK DEF Truncated
      <3> QED BY <1>t, <3>1, <3>2
    <2> QED BY <2>1, <2>2
  <1>6. CASE PullAllocate
    <2>1. out'.size = meta.size /\ out'.exists
      BY <1>6 DEF PullAllocate, Allocated, Resized, ResumeInv, OutputFits
    <2>2. record' = record /\ trusted' = trusted /\ pull' = "request"
      BY <1>6 DEF PullAllocate, auxVars
    <2>3. record.kind = "saved" => record.stale
      BY <1>6 DEF PullAllocate, ResumeInv, OutputFits, Genuine
    <2> QED BY <1>t, <2>1, <2>2, <2>3
  <1>7. CASE PullData
    <2>1. /\ pull = "data" /\ pull' \in {"data", "verify"}
          /\ UNCHANGED <<record, trusted>>
      BY <1>7 DEF PullData, auxVars
    <2>2. offset(cur) + pos < meta.size /\ offset(cur) + pos \in Nat
      BY <1>t, <2>1, ByteInFile DEF TypeOK, PullTypeOK, Offsets
    <2>3. out'.size = out.size /\ out'.exists = out.exists
      BY <1>7, <1>t, <2>1, <2>2 DEF PullData, Written
    <2> QED BY <1>t, <2>1, <2>3
  <1>8. CASE PullSaveOpen
    BY <1>8, <1>t DEF PullSaveOpen, TornRecord, auxVars
  <1>9. CASE PullSaveWrite
    <2>1. record'.stale = FALSE
      BY <1>9 DEF PullSaveWrite, Record
    <2>2. out.exists
      BY <1>9 DEF PullSaveWrite, ResumeInv, OutputFits
    <2> QED BY <1>9, <1>t, <2>1, <2>2 DEF PullSaveWrite, auxVars
  <1>10. CASE PullFinish
    BY <1>10, <1>t DEF PullFinish, NoRecord, auxVars
  <1>11. CASE StartSession
    <2>1. /\ out' = out /\ (record' = record \/ record' = NoRecord)
          /\ pull' = "handshake" /\ trusted' = TRUE
      BY <1>11 DEF StartSession, ResumeSafe, diskVars
    <2> QED BY <1>t, <2>1 DEF NoRecord
  <1>12. CASE PushStep \/ PushDies \/ ConnReset \/ Finished \/ UNCHANGED vars
    BY <1>1, <1>12
       DEF PushStep, PushHandshake, PushMeta, PushRecv, PushHeader, PushData,
           PushIoFails, PushDies, ConnReset, Finished, vars, pullVars, diskVars,
           auxVars
  <1>13. CASE PullHandshake \/ PullMeta \/ PullIoFails \/ PullDies
    BY <1>2, <1>13 DEF PullHandshake, PullMeta, PullIoFails, PullDies, diskVars, auxVars
  <1>14. CASE PullRequest \/ PullComplete \/ PullHeader \/ PullVerify
    BY <1>3, <1>14 DEF PullRequest, PullComplete, PullHeader, PullVerify,
                       diskVars, auxVars
  <1>15. ~ OutputVanishes
    BY DEF OutputVanishes, ResumeSafe
  <1> QED BY <1>4, <1>5, <1>6, <1>7, <1>8, <1>9, <1>10, <1>11, <1>12, <1>13,
             <1>14, <1>15 DEF Next, PullStep, Env

LEMMA KeptAlways == ASSUME ResumeSafe PROVE Spec => []KeptInv
  <1>1. ResumeInv /\ KeptInv /\ [Next]_vars => KeptInv'
    BY KeptStep, TypeStep DEF ResumeInv
  <1>2. Init => KeptInv
    BY KeptInit
  <1> QED BY <1>1, <1>2, ProgressIsSound, PTL DEF Spec

(* When the output path is used for one file and nobody deletes it, then    *)
(* "transfer complete" always means the output is the file, after any       *)
(* number of interrupted sessions.                                          *)
THEOREM ResumeIsCorrect == ASSUME ResumeSafe PROVE Spec => []CompleteMeansIdentical
  <1>1. ResumeInv /\ KeptInv => CompleteMeansIdentical
    BY DoneChunksAreTheFile DEF KeptInv, CompleteMeansIdentical
  <1> QED BY <1>1, ProgressIsSound, KeptAlways, PTL

(* In the same setting the output is pre-allocated before the first request *)
(* and saved progress of a file with whole chunks is always taken up again. *)
THEOREM ProgressIsKept ==
    ASSUME ResumeSafe PROVE Spec => [](PreAllocated /\ ProgressAccepted)
  <1>1. ResumeInv /\ KeptInv => PreAllocated /\ ProgressAccepted
    <2> SUFFICES ASSUME ResumeInv, KeptInv PROVE PreAllocated /\ ProgressAccepted
      OBVIOUS
    <2>1. meta.size \in Nat
      BY FileType DEF ResumeInv, TypeOK, PullTypeOK
    <2> QED BY <2>1 DEF KeptInv, PreAllocated, ProgressAccepted, Aligned
  <1> QED BY <1>1, ProgressIsSound, KeptAlways, PTL

----------------------------------------------------------------------------
(* run_pull is a download that can be resumed                               *)

PhaseIs(phase, stage, genuine) ==
    /\ phase = "fetching" <=> stage \in Fetching /\ genuine
    /\ phase = "complete" <=> stage = "complete" /\ genuine
    /\ phase = "void" <=> stage \in Fetching \union {"complete"} /\ ~ genuine
    /\ phase = "idle" <=> stage \notin Fetching \union {"complete"}

LEMMA Phases == ASSUME trusted \in BOOLEAN PROVE PhaseIs(Phase, pull, trusted)
  <1>1. "complete" \notin Fetching
    BY DEF Fetching, Transferring
  <1> QED BY <1>1 DEF Phase, PhaseIs

(* An empty output holds no chunk. *)
LEMMA NothingIntact ==
    ASSUME NEW o, ~ o.exists \/ o.size = 0
    PROVE  IntactIn(o) = [f \in Files |-> {}]
  <1>1. ASSUME NEW f \in Files, NEW i \in Chunks(f.size) PROVE ~ ChunkMatches(o, f, i)
    <2>1. offset(i) \in Nat /\ chunk_len(f.size, i) \in 1 .. ChunkSize
      BY FileType, ChunkRange
    <2>2. offset(i) \in ChunkBytes(f.size, i)
      BY <2>1 DEF ChunkBytes
    <2>3. ~ (offset(i) < 0)
      BY <2>1
    <2> QED BY <2>2, <2>3 DEF ChunkMatches
  <1> QED BY <1>1 DEF IntactIn

LEMMA OutdatedIsNone == ASSUME TypeOK, record' = Outdated(record) PROVE Progress' = {}
  <1>1. ~ Genuine'
    BY RecordKinds DEF TypeOK, Outdated, Record, Genuine
  <1> QED BY <1>1 DEF Progress

(* The state of run_pull, its output and its record keeps the promise. *)
LEMMA KeepsPromise == ResumeInv => Promise!Kept
  <1> SUFFICES ASSUME ResumeInv PROVE Promise!Kept
    OBVIOUS
  <1>1. meta \in Files /\ cm \subseteq Chunks(meta.size) /\ trusted \in BOOLEAN
    BY DEF ResumeInv, TypeOK, PullTypeOK
  <1>2. Have \subseteq IntactIn(out)[meta]
    <2>1. ASSUME NEW i \in Have PROVE i \in Chunks(meta.size) /\ ChunkMatches(out, meta, i)
      <3>1. i \in cm /\ Phase \in {"fetching", "complete"}
        BY <2>1 DEF Have
      <3>2. trusted /\ pull \in Fetching \union {"complete"}
        BY <1>1, <3>1, Phases DEF PhaseIs
      <3>3. pull # "allocate"
        BY <3>1 DEF ResumeInv, OutputFits
      <3>4. Working \/ pull = "complete"
        BY <3>2, <3>3 DEF Fetching, Working
      <3> QED BY <1>1, <3>1, <3>2, <3>4 DEF ResumeInv, DoneSound
    <2> QED BY <1>1, <2>1 DEF IntactIn
  <1>3. ASSUME NEW r \in Progress PROVE r.chunks \subseteq IntactIn(out)[r.for]
    <2>1. Genuine /\ r.for = record.for /\ r.chunks = record.bits
      BY <1>3 DEF Progress
    <2>2. /\ record.for \in Files /\ record.bits \subseteq Chunks(record.for.size)
      BY <2>1, RecordKinds DEF ResumeInv, TypeOK, Genuine
    <2>3. \A i \in record.bits : ChunkMatches(out, record.for, i)
      BY <2>1 DEF ResumeInv, RecordSound, Genuine
    <2> QED BY <2>1, <2>2, <2>3 DEF IntactIn
  <1> QED BY <1>2, <1>3 DEF Promise!Kept

(* What a resumed session starts from is what load() read. *)
LEMMA OpenStep == ResumeInv /\ OpenInv /\ [Next]_vars => OpenInv'
  <1> SUFFICES ASSUME ResumeInv, OpenInv, [Next]_vars, pull' = "open", Reopened'
               PROVE  IF trusted' THEN Genuine' /\ record'.for = meta' /\ cm' = record'.bits
                      ELSE ~ (Genuine' /\ record'.for = meta')
    BY DEF OpenInv
  <1>1. CASE PullLoad
    <2>1. /\ resumed' = Loadable(record, out, meta) /\ resumed'
          /\ cm' = LoadedBits(record, meta) /\ trusted' = (record.for = meta /\ ~ record.stale)
          /\ meta' = meta /\ record' = record
      BY <1>1 DEF PullLoad, diskVars, Reopened
    <2>2. record.kind = "saved"
      BY <2>1 DEF Loadable
    <2>3. record.bits \subseteq Chunks(record.for.size) /\ record.stale \in BOOLEAN
      BY <2>2, RecordKinds DEF ResumeInv, TypeOK
    <2>4. record.for = meta => cm' = record.bits
      BY <2>1, <2>3 DEF LoadedBits
    <2> QED BY <2>1, <2>2, <2>3, <2>4 DEF Genuine
  <1>2. CASE OutputVanishes
    BY <1>2 DEF OutputVanishes, NoOutput, Reopened
  <1>3. CASE ~ PullLoad /\ ~ OutputVanishes
    <2>1. UNCHANGED <<pull, meta, resumed, cm, out, record, trusted>>
      BY <1>3 DEF Next, PullStep, PushStep, Env, PullHandshake, PullMeta, PullOpen,
            PullAllocate, PullRequest, PullComplete, PullHeader, PullData, PullVerify,
            PullSaveOpen, PullSaveWrite, PullFinish, PullIoFails, PushHandshake, PushMeta,
            PushRecv, PushHeader, PushData, PushIoFails, PullDies, PushDies, ConnReset,
            StartSession, Finished, vars, pullVars, pushVars, diskVars, auxVars
    <2> QED BY <2>1 DEF OpenInv, Reopened, Genuine
  <1> QED BY <1>1, <1>2, <1>3

(* Steps of the download, from what they do to run_pull's state. *)
LEMMA SameDownload ==
    ASSUME UNCHANGED <<pull, meta, cm, out, record, trusted>>
    PROVE  UNCHANGED Promise!vars
  BY DEF Promise!vars, Phase, Have, Progress, Genuine

LEMMA StaysAtWork ==
    ASSUME TypeOK, pull \in Fetching, pull' \in Fetching, trusted' = trusted, meta' = meta
    PROVE  /\ Phase' = Phase /\ Phase \in {"fetching", "void"}
           /\ Phase = "fetching" <=> trusted
           /\ trusted => Have = cm /\ Have' = cm'
           /\ ~ trusted => Have = {} /\ Have' = {}
  <1>1. PhaseIs(Phase, pull, trusted) /\ PhaseIs(Phase', pull', trusted')
    <2>1. trusted \in BOOLEAN /\ trusted' \in BOOLEAN
      BY DEF TypeOK
    <2>2. PhaseIs(Phase, pull, trusted)
      BY <2>1, Phases
    <2>3. PhaseIs(Phase', pull', trusted')
      <3>1. "complete" \notin Fetching
        BY DEF Fetching, Transferring
      <3> QED BY <2>1, <3>1 DEF Phase, PhaseIs
    <2> QED BY <2>2, <2>3
  <1> QED BY <1>1 DEF PhaseIs, Have

(* The session ends, or ended before. *)
LEMMA LeavesIdle ==
    ASSUME pull' \notin Fetching \union {"complete"}, trusted' \in BOOLEAN
    PROVE  Phase' = "idle" /\ Have' = {}
  <1>1. "complete" \notin Fetching
    BY DEF Fetching, Transferring
  <1>2. Phase' = "idle"
    BY <1>1 DEF Phase
  <1> QED BY <1>2 DEF Have

LEMMA IsIdle ==
    ASSUME pull \notin Fetching \union {"complete"}, trusted \in BOOLEAN
    PROVE  Phase = "idle" /\ Have = {}
  BY DEF Phase, Have

LEMMA IntactType ==
    \A o : IntactIn(o) \in [Files -> SUBSET Nat]
  <1>1. \A f \in Files : Chunks(f.size) \subseteq Nat
    BY FileType, ChunkRange
  <1> QED BY <1>1 DEF IntactIn

(* run_pull resumes, starts over, or is led astray. *)
LEMMA OpenIsPromised ==
    ASSUME ResumeInv, OpenInv, TypeOK', PullOpen
    PROVE  Promise!Next
  <1>1. TypeOK /\ trusted \in BOOLEAN /\ trusted' \in BOOLEAN /\ meta' = meta /\ pull = "open"
    BY DEF ResumeInv, TypeOK, PullOpen
  <1>2. pull' \in {"request", "allocate"} /\ pull' \in Fetching
    BY DEF PullOpen, Fetching, Transferring
  <1>3. Phase = "idle" /\ Have = {}
    BY <1>1, IsIdle DEF Fetching, Transferring
  <1>4. /\ trusted' => Phase' = "fetching" /\ Have' = cm'
        /\ ~ trusted' => Phase' = "void" /\ Have' = {}
    BY <1>1, <1>2 DEF Phase, Have
  <1>5. CASE Reopened
    <2>1. out' = out /\ record' = record /\ cm' = cm /\ trusted' = trusted
      BY <1>1, <1>5 DEF PullOpen, OpenedOutput, ProgressKept
    <2>2. Progress' = Progress
      BY <2>1 DEF Progress, Genuine
    <2>3. CASE trusted
      <3>1. Genuine /\ record.for = meta /\ cm = record.bits
        BY <1>1, <1>5, <2>3 DEF OpenInv
      <3>2. \E r \in Progress : r.for = meta /\ Have' = r.chunks
        BY <1>4, <2>1, <2>3, <3>1 DEF Progress
      <3>3. Promise!Resume
        BY <1>1, <1>3, <1>4, <2>1, <2>2, <2>3, <3>2 DEF Promise!Resume
      <3> QED BY <3>3 DEF Promise!Next
    <2>4. CASE ~ trusted
      <3>1. ~ (Genuine /\ record.for = meta)
        BY <1>1, <1>5, <2>4 DEF OpenInv
      <3>2. \A r \in Progress : r.for # meta
        BY <3>1 DEF Progress
      <3>3. Promise!GoAstray
        BY <1>1, <1>3, <1>4, <2>1, <2>2, <2>4, <3>2 DEF Promise!GoAstray
      <3> QED BY <3>3 DEF Promise!Next
    <2> QED BY <2>3, <2>4
  <1>6. CASE ~ Reopened
    <2>1. out' = Truncated /\ record' = Outdated(record) /\ cm' = {} /\ trusted' = TRUE
      BY <1>1, <1>6 DEF PullOpen, OpenedOutput, ProgressKept
    <2>2. Progress' = {}
      BY <1>1, <2>1, OutdatedIsNone
    <2>3. IntactIn(out') = [f \in Files |-> {}]
      BY <2>1, NothingIntact DEF Truncated
    <2>4. Promise!StartOver
      BY <1>1, <1>3, <1>4, <2>1, <2>2, <2>3 DEF Promise!StartOver, Promise!Nothing
    <2> QED BY <2>4 DEF Promise!Next
  <1> QED BY <1>5, <1>6

(* The output is written: allocated, or a byte of the chunk under way. *)
LEMMA WriteIsPromised ==
    ASSUME ResumeInv, Promise!Kept', PullAllocate \/ PullData
    PROVE  Promise!Next
  <1>1. /\ TypeOK /\ trusted' = trusted /\ meta' = meta /\ cm' = cm /\ record' = record
        /\ pull \in Fetching /\ pull' \in Fetching
    BY DEF ResumeInv, PullAllocate, PullData, auxVars, Fetching, Transferring
  <1>2. Phase' = Phase /\ Phase \in {"fetching", "void"} /\ Have' = Have
    BY <1>1, StaysAtWork DEF TypeOK
  <1>3. Progress' = Progress
    BY <1>1 DEF Progress, Genuine
  <1>4. IntactIn(out') \in [Files -> SUBSET Nat]
    BY IntactType
  <1>5. /\ Have' \subseteq IntactIn(out')[meta']
        /\ \A r \in Progress' : r.chunks \subseteq IntactIn(out')[r.for]
    BY DEF Promise!Kept
  <1>6. /\ Have \subseteq IntactIn(out')[meta]
        /\ \A r \in Progress : r.chunks \subseteq IntactIn(out')[r.for]
    BY <1>1, <1>2, <1>3, <1>5
  <1>7. Promise!Write
    BY <1>1, <1>2, <1>3, <1>4, <1>6 DEF Promise!Write, Promise!Working
  <1> QED BY <1>7 DEF Promise!Next

LEMMA VerifyIsPromised ==
    ASSUME ResumeInv, PullVerify PROVE [Promise!Next]_(Promise!vars)
  <1>1. /\ TypeOK /\ trusted' = trusted /\ meta' = meta /\ out' = out /\ record' = record
        /\ pull \in Fetching /\ pull' \in Fetching /\ pull = "verify"
        /\ cm' = Verified(out, meta, cm, cur)
    BY DEF ResumeInv, PullVerify, auxVars, diskVars, Fetching, Transferring
  <1>2. /\ Phase' = Phase
        /\ trusted => Phase = "fetching"
        /\ trusted => Have = cm /\ Have' = cm'
        /\ ~ trusted => Have = {} /\ Have' = {}
    BY <1>1, StaysAtWork DEF TypeOK
  <1>3. Progress' = Progress /\ IntactIn(out') = IntactIn(out)
    BY <1>1 DEF Progress, Genuine
  <1>4. meta \in Files /\ cur \in Chunks(meta.size) /\ cur \notin cm
    BY <1>1 DEF TypeOK, PullTypeOK, ResumeInv, RemainingFits
  <1>5. ASSUME trusted /\ ChunkMatches(out, meta, cur) PROVE Promise!Next
    <2>1. Have' = Have \union {cur} /\ cur \in IntactIn(out)[meta]
      BY <1>1, <1>2, <1>4, <1>5 DEF Verified, IntactIn
    <2>2. Promise!Verify
      BY <1>1, <1>2, <1>3, <1>5, <2>1 DEF Promise!Verify
    <2> QED BY <2>2 DEF Promise!Next
  <1>6. ASSUME ~ (trusted /\ ChunkMatches(out, meta, cur)) PROVE UNCHANGED Promise!vars
    <2>1. Have' = Have
      BY <1>1, <1>2, <1>4, <1>6 DEF Verified
    <2> QED BY <1>1, <1>2, <1>3, <2>1 DEF Promise!vars
  <1> QED BY <1>5, <1>6

LEMMA SaveIsPromised ==
    ASSUME ResumeInv, PullSaveOpen \/ PullSaveWrite PROVE Promise!Next
  <1>1. /\ TypeOK /\ trusted' = trusted /\ meta' = meta /\ out' = out /\ cm' = cm
        /\ pull \in Fetching /\ pull' \in Fetching /\ trusted \in BOOLEAN
        /\ meta \in Files /\ cm \in SUBSET Chunks(meta.size)
    BY DEF ResumeInv, PullSaveOpen, PullSaveWrite, auxVars, Fetching, Transferring, TypeOK,
       PullTypeOK
  <1>2. /\ Phase' = Phase /\ Phase \in {"fetching", "void"} /\ Have' = Have
        /\ trusted => Phase = "fetching" /\ Have = cm
    BY <1>1, StaysAtWork
  <1>3. CASE PullSaveOpen
    <2>1. Progress' = {}
      BY <1>3 DEF PullSaveOpen, Progress, Genuine, TornRecord
    <2>2. Promise!Forget
      BY <1>1, <1>2, <2>1 DEF Promise!Forget, Promise!Working
    <2> QED BY <2>2 DEF Promise!Next
  <1>4. CASE PullSaveWrite
    <2>1. record' = Record(meta, cm, ~ trusted)
      BY <1>4 DEF PullSaveWrite
    <2>2. /\ record'.kind = "saved" /\ record'.for = meta /\ record'.bits = cm
          /\ record'.stale = ~ trusted
      BY <1>1, <2>1, SavedRecord
    <2>3. CASE trusted
      <3>1. Progress' = {[for |-> meta, chunks |-> Have]}
        BY <1>2, <2>2, <2>3 DEF Progress, Genuine
      <3>2. Promise!Save
        BY <1>1, <1>2, <2>3, <3>1 DEF Promise!Save
      <3> QED BY <3>2 DEF Promise!Next
    <2>4. CASE ~ trusted
      <3>1. Progress' = {}
        BY <2>2, <2>4 DEF Progress, Genuine
      <3>2. Promise!Forget
        BY <1>1, <1>2, <3>1 DEF Promise!Forget, Promise!Working
      <3> QED BY <3>2 DEF Promise!Next
    <2> QED BY <2>3, <2>4
  <1> QED BY <1>3, <1>4

(* Whatever ends a session, starts the next or clears the disk between. *)
LEMMA LeaveIsPromised ==
    ASSUME TypeOK, TypeOK', pull' \notin Fetching \union {"complete"}, meta' = meta,
           \/ UNCHANGED <<out, record>>
           \/ record' = NoRecord /\ out' = out
           \/ record' = Outdated(record) /\ out' = NoOutput
    PROVE  Promise!Next
  <1>1. Phase' = "idle" /\ Have' = {}
    BY LeavesIdle DEF TypeOK
  <1>2. \/ UNCHANGED <<IntactIn(out), Progress>>
        \/ Progress' = {} /\ IntactIn(out') \in {IntactIn(out), [f \in Files |-> {}]}
    <2>1. CASE UNCHANGED <<out, record>>
      BY <2>1 DEF Progress, Genuine
    <2>2. CASE record' = NoRecord /\ out' = out
      BY <2>2 DEF Progress, Genuine, NoRecord
    <2>3. CASE record' = Outdated(record) /\ out' = NoOutput
      <3>1. Progress' = {}
        BY <2>3, OutdatedIsNone
      <3>2. IntactIn(out') = [f \in Files |-> {}]
        BY <2>3, NothingIntact DEF NoOutput
      <3> QED BY <3>1, <3>2
    <2> QED BY <2>1, <2>2, <2>3
  <1>3. Promise!Leave
    BY <1>1, <1>2 DEF Promise!Leave, Promise!Nothing
  <1> QED BY <1>3 DEF Promise!Next

LEMMA FinishIsPromised ==
    ASSUME ResumeInv, TypeOK', PullFinish PROVE Promise!Next
  <1>1. /\ TypeOK /\ trusted' = trusted /\ meta' = meta /\ out' = out /\ cm' = cm
        /\ pull = "recv" /\ pull \in Fetching /\ trusted \in BOOLEAN /\ meta \in Files
    BY DEF ResumeInv, PullFinish, auxVars, Fetching, Transferring, TypeOK, PullTypeOK
  <1>2. CASE cm # Chunks(meta.size)
    <2>1. pull' = "incomplete" /\ record' = record
      BY <1>2 DEF PullFinish
    <2> QED BY <1>1, <2>1, LeaveIsPromised DEF Fetching, Transferring
  <1>3. CASE cm = Chunks(meta.size)
    <2>1. pull' = "complete" /\ record' = NoRecord
      BY <1>3 DEF PullFinish
    <2>2. Progress' = {}
      BY <2>1 DEF Progress, Genuine, NoRecord
    <2>3. "complete" \notin Fetching
      BY DEF Fetching, Transferring
    <2>4. CASE trusted
      <3>1. Phase = "fetching" /\ Have = cm /\ Phase' = "complete" /\ Have' = cm
        BY <1>1, <2>1, <2>3, <2>4 DEF Phase, Have
      <3>2. Have = [f \in Files |-> Chunks(f.size)][meta]
        BY <1>1, <1>3, <3>1
      <3>3. Promise!Complete
        BY <1>1, <2>2, <3>1, <3>2 DEF Promise!Complete
      <3> QED BY <3>3 DEF Promise!Next
    <2>5. CASE ~ trusted
      <3>1. Phase = "void" /\ Have = {} /\ Phase' = "void" /\ Have' = {}
        BY <1>1, <2>1, <2>3, <2>5 DEF Phase, Have
      <3>2. Promise!Forget
        BY <1>1, <2>2, <3>1 DEF Promise!Forget, Promise!Working
      <3> QED BY <3>2 DEF Promise!Next
    <2> QED BY <2>4, <2>5
  <1> QED BY <1>2, <1>3

LEMMA DownloadStep ==
    ASSUME ResumeInv, OpenInv, TypeOK', Promise!Kept', [Next]_vars
    PROVE  [Promise!Next]_(Promise!vars)
  <1>1. TypeOK /\ trusted \in BOOLEAN /\ trusted' \in BOOLEAN
    BY DEF ResumeInv, TypeOK
  <1>2. CASE PullOpen
    BY <1>2, OpenIsPromised
  <1>3. CASE PullAllocate \/ PullData
    BY <1>3, WriteIsPromised
  <1>4. CASE PullVerify
    BY <1>4, VerifyIsPromised
  <1>5. CASE PullSaveOpen \/ PullSaveWrite
    BY <1>5, SaveIsPromised
  <1>6. CASE PullFinish
    BY <1>6, FinishIsPromised
  <1>7. CASE PullMeta
    <2>1. /\ pull = "meta" /\ pull' \in {"load", "failed"} /\ out' = out /\ record' = record
          /\ meta' \in Files
      BY <1>7 DEF PullMeta, diskVars, TypeOK, PullTypeOK
    <2>2. Phase = "idle" /\ Have = {} /\ Phase' = "idle" /\ Have' = {}
      BY <1>1, <2>1, IsIdle, LeavesIdle DEF Fetching, Transferring
    <2>3. Progress' = Progress
      BY <2>1 DEF Progress, Genuine
    <2>4. Promise!Announce
      BY <2>1, <2>2, <2>3 DEF Promise!Announce
    <2> QED BY <2>4 DEF Promise!Next
  <1>8. CASE PullHandshake \/ PullLoad
    <2>1. /\ pull \in {"handshake", "load"} /\ pull' \in {"meta", "open"}
          /\ out' = out /\ record' = record /\ meta' = meta
      BY <1>8 DEF PullHandshake, PullLoad, diskVars
    <2>2. Phase = "idle" /\ Have = {} /\ Phase' = "idle" /\ Have' = {}
      BY <1>1, <2>1, IsIdle, LeavesIdle DEF Fetching, Transferring
    <2>3. Progress' = Progress
      BY <2>1 DEF Progress, Genuine
    <2> QED BY <2>1, <2>2, <2>3 DEF Promise!vars
  <1>9. CASE PullRequest \/ PullComplete \/ (PullHeader /\ pull' # "failed")
    <2>1. /\ pull \in Fetching /\ pull' \in Fetching
          /\ UNCHANGED <<meta, cm, out, record, trusted>>
      BY <1>9 DEF PullRequest, PullComplete, PullHeader, diskVars, auxVars, Fetching, Transferring
    <2>2. Phase' = Phase /\ Have' = Have
      BY <1>1, <2>1, StaysAtWork
    <2> QED BY <2>1, <2>2 DEF Promise!vars, Progress, Genuine
  <1>10. CASE PullIoFails \/ PullDies \/ (PullHeader /\ pull' = "failed")
    <2>1. pull' = "failed" /\ meta' = meta /\ out' = out /\ record' = record
      BY <1>10 DEF PullIoFails, PullDies, PullHeader, diskVars
    <2> QED BY <1>1, <2>1, LeaveIsPromised DEF Fetching, Transferring
  <1>11. CASE StartSession
    <2>1. /\ pull' = "handshake" /\ meta' = meta
          /\ \/ UNCHANGED <<out, record>>
             \/ record' = NoRecord /\ out' = out
             \/ record' = Outdated(record) /\ out' = NoOutput
      BY <1>11 DEF StartSession, diskVars
    <2> QED BY <1>1, <2>1, LeaveIsPromised DEF Fetching, Transferring
  <1>12. CASE OutputVanishes
    <2>1. pull' = "open" /\ meta' = meta /\ record' = Outdated(record) /\ out' = NoOutput
      BY <1>12 DEF OutputVanishes, pullVars
    <2> QED BY <1>1, <2>1, LeaveIsPromised DEF Fetching, Transferring
  <1>13. CASE PushStep \/ PushDies \/ ConnReset \/ Finished \/ UNCHANGED vars
    <2>1. UNCHANGED <<pull, meta, cm, out, record, trusted>>
      BY <1>13 DEF PushStep, PushHandshake, PushMeta, PushRecv, PushHeader, PushData, PushIoFails,
            PushDies, ConnReset, Finished, vars, pullVars, diskVars, auxVars
    <2> QED BY <2>1, SameDownload
  <1> QED BY <1>2, <1>3, <1>4, <1>5, <1>6, <1>7, <1>8, <1>9, <1>10, <1>11, <1>12, <1>13
          DEF Next, PullStep, Env

(* The sessions at one output path implement Download, whatever crashes,    *)
(* resets, edits and deletions hit them: what run_pull counts as done or    *)
(* has saved as done is intact in the output, and it takes up exactly what  *)
(* was saved for the announced file, starts over, or follows a record that  *)
(* it cannot tell from a good one and that the promise leaves out.          *)
THEOREM ImplementsDownload == Spec => IsDownload
  <1>1. Init => OpenInv /\ Promise!Init
    <2> SUFFICES ASSUME Init PROVE OpenInv /\ Promise!Init
      OBVIOUS
    <2>1. /\ pull = "handshake" /\ meta \in Files /\ out = NoOutput /\ record = NoRecord
          /\ trusted = TRUE
      BY DEF Init
    <2>2. Phase = "idle" /\ Have = {}
      BY <2>1, IsIdle DEF Fetching, Transferring
    <2>3. Progress = {} /\ IntactIn(out) = [f \in Files |-> {}]
      BY <2>1, NothingIntact DEF Progress, Genuine, NoRecord, NoOutput
    <2> QED BY <2>1, <2>2, <2>3 DEF OpenInv, Promise!Init, Promise!Nothing
  <1>2. ResumeInv => TypeOK
    BY DEF ResumeInv
  <1>3. ResumeInv /\ OpenInv /\ TypeOK' /\ Promise!Kept' /\ [Next]_vars
          => [Promise!Next]_(Promise!vars)
    BY DownloadStep
  <1> QED BY <1>1, <1>2, <1>3, OpenStep, KeepsPromise, ProgressIsSound, PTL
          DEF Spec, IsDownload, Promise!Spec

(* What the promise is worth, whoever keeps it: what counts as done or is   *)
(* saved as done is in the output, and a complete download has every chunk. *)
THEOREM DownloadsAreWhole == Promise!Spec => [](Promise!Kept /\ Promise!Whole)
  <1> DEFINE Unstarted == Phase \in {"idle", "void"} => Have = {}
             Inv == Promise!Kept /\ Promise!Whole /\ Unstarted /\ meta \in Files
  <1>1. Promise!Init => Inv
    BY DEF Promise!Init, Promise!Kept, Promise!Whole, Promise!Nothing
  <1>2. Inv /\ [Promise!Next]_(Promise!vars) => Inv'
    <2> SUFFICES ASSUME Inv, [Promise!Next]_(Promise!vars) PROVE Inv'
      OBVIOUS
    <2> USE DEF Promise!Kept, Promise!Whole
    <2>1. CASE Promise!Announce
      BY <2>1 DEF Promise!Announce
    <2>2. CASE Promise!Resume
      BY <2>2 DEF Promise!Resume
    <2>3. CASE Promise!StartOver
      BY <2>3 DEF Promise!StartOver
    <2>4. CASE Promise!GoAstray
      BY <2>4 DEF Promise!GoAstray
    <2>5. CASE Promise!Write
      BY <2>5 DEF Promise!Write, Promise!Working
    <2>6. CASE Promise!Verify
      BY <2>6 DEF Promise!Verify
    <2>7. CASE Promise!Forget
      BY <2>7 DEF Promise!Forget, Promise!Working
    <2>8. CASE Promise!Save
      BY <2>8 DEF Promise!Save
    <2>9. CASE Promise!Complete
      BY <2>9 DEF Promise!Complete
    <2>10. CASE Promise!Leave
      BY <2>10 DEF Promise!Leave
    <2>11. CASE UNCHANGED Promise!vars
      BY <2>11 DEF Promise!vars
    <2> QED BY <2>1, <2>2, <2>3, <2>4, <2>5, <2>6, <2>7, <2>8, <2>9, <2>10, <2>11
            DEF Promise!Next
  <1> QED BY <1>1, <1>2, PTL DEF Promise!Spec
=============================================================================
