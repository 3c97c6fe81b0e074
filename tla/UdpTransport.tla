---------------------------- MODULE UdpTransport ----------------------------
(***************************************************************************)
(* UdpTransport: one send_file and the peer's recv_file of a whole file.   *)
(* A chunk is read into one of two buffers while the chunk before it is    *)
(* sent as datagrams from the other; the receiver keeps a RECV posted per  *)
(* fragment buffer, writes each fragment straight from that buffer to its  *)
(* place in the file and acknowledges the chunk over TCP.  Each side has   *)
(* its io_uring: a submission queue the thread fills and submits, and      *)
(* operations the kernel completes in any order.  Nobody looks at what     *)
(* io_uring_submit returns: it may fail or take a part of the queue, and   *)
(* the rest waits for the next submission.                                 *)
(*                                                                         *)
(* io_uring and the network are external.  A datagram may be lost, sent    *)
(* twice or overtaken.  A byte is named by its place in the source file.   *)
(***************************************************************************)
EXTENDS Integers, SequencesExt, FiniteSets

CONSTANTS
    FileSizes,         \* the file's length is one of these
    CHUNK_SIZE,
    UDP_PAYLOAD_SIZE,
    QUEUE_DEPTH,       \* send slots, and entries of a submission queue
    UDP_FRAG_BUFS,
    MaxDups, MaxLosses, MaxFaults

ASSUME UdpAssumption ==
    /\ FileSizes \subseteq Nat
    /\ CHUNK_SIZE \in Nat \ {0} /\ UDP_PAYLOAD_SIZE \in Nat \ {0}
    /\ QUEUE_DEPTH \in Nat \ {0} /\ UDP_FRAG_BUFS \in Nat \ {0}
    /\ MaxDups \in Nat /\ MaxLosses \in Nat /\ MaxFaults \in Nat

VARIABLES
    len,               \* the length both sides agreed on
    spc, chunk_idx, frag_idx,
    pending_frags,
    slots, ssq,        \* the fragment each send slot describes; slots queued, not submitted
    queued_read,       \* the chunk of a READ queued, not submitted, or None
    chunk_buf,         \* what the two chunk buffers hold
    reading,           \* the chunk a submitted READ is for, or None
    sending,           \* the fragments of submitted sends
    scq,               \* the sender's completions, oldest first
    stash,             \* read_completed_ and read_result_
    net,               \* datagrams in flight
    ready, acks,       \* the TCP connection: the ready byte and the ACKs in flight
    rpc, rchunk,       \* where the receiver is, and its chunk_idx
    received,          \* RecvState.received
    pending_writes, pending_recvs,
    rsq, rops, rcq,    \* queued and submitted operations, completions
    frag_buf,          \* the datagram in each fragment buffer
    disk,              \* the receiver's file
    stale,             \* a fragment of another chunk was taken for one of this chunk
    short,             \* the receiver's last submission left something queued
    dups, losses,
    faults, submitFaults     \* operations and submissions that failed

sqVars == <<frag_idx, pending_frags, slots, ssq>>
readVars == <<queued_read, reading>>
senderVars == <<spc, chunk_idx, sqVars, chunk_buf, readVars, sending, scq, stash>>
ringVars == <<rsq, rops, short, rcq, frag_buf>>
chunkVars == <<rchunk, received, pending_writes, pending_recvs, stale>>
receiverVars == <<rpc, chunkVars, ringVars, disk>>
tcpVars == <<ready, acks>>
netVars == <<net, dups, losses>>
faultVars == <<faults, submitFaults>>
vars == <<len, senderVars, receiverVars, tcpVars, netVars, faultVars>>

None == -1
NoByte == -1
Bufs == 0 .. UDP_FRAG_BUFS - 1
Ended == {"done", "failed"}

CeilDiv(n, d) == (n + d - 1) \div d
Smaller(a, b) == IF a < b THEN a ELSE b

chunk_count == CeilDiv(len, CHUNK_SIZE)
chunk_len(c) == Smaller(len - c * CHUNK_SIZE, CHUNK_SIZE)
frag_count(c) == CeilDiv(chunk_len(c), UDP_PAYLOAD_SIZE)

\* Every fragment is full but the last of its chunk.
frag_len(c, i) ==
    IF i + 1 < frag_count(c) THEN UDP_PAYLOAD_SIZE
    ELSE chunk_len(c) - i * UDP_PAYLOAD_SIZE

Bug_OneBuffer(c) == 0

\* The buffer chunk c is read into and sent from.
BufferOf(c) == c % 2

Nothing == [i \in 0 .. CHUNK_SIZE - 1 |-> NoByte]

\* What a READ of chunk c leaves in its buffer.
ChunkBytes(c) ==
    [i \in 0 .. CHUNK_SIZE - 1 |-> IF i < chunk_len(c) THEN c * CHUNK_SIZE + i ELSE NoByte]

NoDatagram == [chunk |-> 0, frag |-> 0, data |-> <<>>]

\* A datagram: write_frag_hdr's header and the slice of the buffer iov[1] points at.
Datagram(c, i) ==
    [chunk |-> c, frag |-> i,
     data |-> [k \in 1 .. frag_len(c, i) |->
                 chunk_buf[BufferOf(c)][i * UDP_PAYLOAD_SIZE + k - 1]]]

Init ==
    /\ len \in FileSizes
    /\ spc = "ready" /\ chunk_idx = 0 /\ frag_idx = 0 /\ pending_frags = 0
    /\ slots = [k \in 0 .. QUEUE_DEPTH - 1 |-> None] /\ ssq = <<>>
    /\ chunk_buf = [b \in {0, 1} |-> Nothing]
    /\ queued_read = None /\ reading = None /\ sending = <<>> /\ scq = <<>> /\ stash = "none"
    /\ net = {} /\ ready = FALSE /\ acks = <<>>
    /\ rpc = "post" /\ rchunk = 0 /\ received = {}
    /\ pending_writes = 0 /\ pending_recvs = 0
    /\ rsq = {} /\ rops = {} /\ short = FALSE /\ rcq = <<>>
    /\ frag_buf = [b \in Bufs |-> NoDatagram]
    /\ disk = [i \in 0 .. len - 1 |-> NoByte]
    /\ stale = FALSE /\ dups = 0 /\ losses = 0 /\ faults = 0 /\ submitFaults = 0

\* io_uring_submit takes the whole queue, or does not: MaxFaults bounds what fails.
Taken(all) ==
    IF all THEN UNCHANGED submitFaults
    ELSE faults + submitFaults < MaxFaults /\ submitFaults' = submitFaults + 1

-----------------------------------------------------------------------------
(* send_file                                                               *)

\* submit_read of chunk c into an empty queue.
SubmitRead(c) ==
    \/ reading' = c /\ UNCHANGED queued_read /\ Taken(TRUE)
    \/ queued_read' = c /\ UNCHANGED reading /\ Taken(FALSE)

\* The ready byte: every RECV is posted; chunk 0 is read before the loop starts.
RecvReady ==
    /\ spc = "ready" /\ ready
    /\ ready' = FALSE /\ SubmitRead(0) /\ spc' = "wait_read"
    /\ UNCHANGED <<chunk_idx, sqVars, chunk_buf, sending, scq, stash, acks>>

\* recv_exact on the TCP connection of a receiver that threw.
TcpClosed ==
    /\ spc = "ack" /\ acks = <<>> /\ rpc = "failed"
    /\ spc' = "failed"
    /\ UNCHANGED <<chunk_idx, sqVars, chunk_buf, readVars, sending, scq, stash, tcpVars, submitFaults>>

\* wait_read: from the stash, or the next completion, which must be a READ's.
WaitRead ==
    /\ spc = "wait_read"
    /\ \/ stash # "none" /\ stash' = "none" /\ UNCHANGED scq
          /\ spc' = IF stash = "err" THEN "failed" ELSE "chunk"
       \/ stash = "none" /\ scq # <<>> /\ scq' = Tail(scq) /\ UNCHANGED stash
          /\ spc' = IF Head(scq) = <<"read", "ok">> THEN "chunk" ELSE "failed"
    /\ UNCHANGED <<chunk_idx, sqVars, chunk_buf, readVars, sending, tcpVars, submitFaults>>

\* The top of the loop: READ the next chunk, then send_chunk this one.
StartChunk ==
    /\ spc = "chunk"
    /\ IF chunk_idx < chunk_count
       THEN /\ spc' = "frag"
            /\ IF chunk_idx + 1 < chunk_count THEN SubmitRead(chunk_idx + 1)
                                              ELSE UNCHANGED <<readVars, submitFaults>>
       ELSE spc' = "done" /\ UNCHANGED <<readVars, submitFaults>>
    /\ frag_idx' = 0 /\ pending_frags' = 0
    /\ UNCHANGED <<chunk_idx, slots, ssq, chunk_buf, sending, scq, stash, tcpVars>>

\* No more entries: only a READ that stayed in the queue with sends behind it.
SqFull == Len(ssq) + (IF queued_read = None THEN 0 ELSE 1) = QUEUE_DEPTH

\* sendmsg of the next fragment, queued in a free slot, or io_uring_get_sqe fails.
QueueFrag ==
    /\ spc = "frag" /\ frag_idx < frag_count(chunk_idx) /\ pending_frags < QUEUE_DEPTH
    /\ IF SqFull
       THEN spc' = "failed" /\ UNCHANGED sqVars
       ELSE /\ slots' = [slots EXCEPT ![pending_frags % QUEUE_DEPTH] = frag_idx]
            /\ ssq' = Append(ssq, pending_frags % QUEUE_DEPTH)
            /\ pending_frags' = pending_frags + 1 /\ frag_idx' = frag_idx + 1
            /\ UNCHANGED spc
    /\ UNCHANGED <<chunk_idx, chunk_buf, readVars, sending, scq, stash, tcpVars, submitFaults>>

\* The kernel takes a READ that waits and n sends, in the order of the queue, or
\* nothing.  It copies the message headers, and so the slots, as it takes them.
TakeFrags ==
    \/ queued_read # None /\ Taken(FALSE) /\ UNCHANGED <<readVars, sending, ssq>>
    \/ \E n \in 0 .. Len(ssq) :
          /\ Taken(n = Len(ssq))
          /\ reading' = IF queued_read = None THEN reading ELSE queued_read
          /\ queued_read' = None
          /\ sending' = sending \o [k \in 1 .. n |-> slots[ssq[k]]]
          /\ ssq' = SubSeq(ssq, n + 1, Len(ssq))

\* Submit, when the slots are used up or every fragment is queued.
SubmitFrags ==
    /\ spc = "frag"
    /\ \/ frag_idx < frag_count(chunk_idx) /\ pending_frags >= QUEUE_DEPTH /\ spc' = "full"
       \/ frag_idx = frag_count(chunk_idx) /\ spc' = "drain"
    /\ TakeFrags
    /\ UNCHANGED <<chunk_idx, frag_idx, pending_frags, slots, chunk_buf, scq, stash, tcpVars>>

\* The READ's completion is dropped like a SEND's of no interest.
Bug_NoStash ==
    /\ spc \in {"full", "drain"} /\ scq # <<>>
    /\ scq' = Tail(scq) /\ UNCHANGED stash
    /\ IF Head(scq)[1] = "read"
       THEN UNCHANGED <<pending_frags, spc>>
       ELSE /\ pending_frags' = pending_frags - 1
            /\ spc' = CASE spc = "full" -> "frag"
                        [] spc = "drain" /\ pending_frags > 1 -> "drain"
                        [] OTHER -> "ack"
    /\ UNCHANGED <<chunk_idx, frag_idx, slots, ssq, chunk_buf, readVars, sending, tcpVars, submitFaults>>

\* One completion of send_chunk's wait loops: a READ's is stashed for wait_read.
ReapSend ==
    /\ spc \in {"full", "drain"} /\ scq # <<>>
    /\ scq' = Tail(scq)
    /\ IF Head(scq)[1] = "read"
       THEN stash' = Head(scq)[2] /\ UNCHANGED <<pending_frags, spc>>
       ELSE /\ UNCHANGED stash
            /\ IF Head(scq)[2] = "err"
               THEN spc' = "failed" /\ UNCHANGED pending_frags
               ELSE /\ pending_frags' = pending_frags - 1
                    /\ spc' = CASE spc = "full" -> "frag"
                                [] spc = "drain" /\ pending_frags > 1 -> "drain"
                                [] OTHER -> "ack"
    /\ UNCHANGED <<chunk_idx, frag_idx, slots, ssq, chunk_buf, readVars, sending, tcpVars, submitFaults>>

\* The chunk's ACK, which must name it; then the next chunk's READ is awaited.
RecvAck ==
    /\ spc = "ack" /\ acks # <<>>
    /\ acks' = Tail(acks)
    /\ IF Head(acks) = chunk_idx
       THEN /\ chunk_idx' = chunk_idx + 1
            /\ spc' = IF chunk_idx + 1 < chunk_count THEN "wait_read" ELSE "done"
       ELSE spc' = "failed" /\ UNCHANGED chunk_idx
    /\ UNCHANGED <<sqVars, chunk_buf, readVars, sending, scq, stash, ready, submitFaults>>

SenderStep ==
    /\ \/ RecvReady \/ TcpClosed \/ WaitRead \/ StartChunk
       \/ QueueFrag \/ SubmitFrags \/ ReapSend \/ RecvAck
    /\ UNCHANGED <<len, receiverVars, netVars, faults>>

-----------------------------------------------------------------------------
(* recv_file                                                               *)

RecvSqe(b) == [op |-> "recv", buf |-> b, off |-> 0]
WriteSqe(b, offset) == [op |-> "write", buf |-> b, off |-> offset]

frag_remaining == frag_count(rchunk) - Cardinality(received)
flush_threshold == UDP_FRAG_BUFS \div 2

\* Submit a queue.  Its order is left out: any part of it may be what stays.
Submit(queue) ==
    \E left \in SUBSET queue :
        /\ Taken(left = {}) /\ short' = (left # {})
        /\ rops' = rops \union (queue \ left) /\ rsq' = left

\* Post a RECV in every buffer, then tell the sender to start.
PostRecvs ==
    /\ rpc = "post"
    /\ Submit({RecvSqe(b) : b \in Bufs}) /\ pending_recvs' = UDP_FRAG_BUFS
    /\ ready' = TRUE
    /\ rpc' = IF chunk_count = 0 THEN "done" ELSE "chunk"
    /\ UNCHANGED <<rchunk, received, pending_writes, stale, rcq, frag_buf, disk, acks>>

\* Queue one operation and submit the queue if a submission is due.
Queue(sqe, due) ==
    IF due THEN Submit(rsq \union {sqe})
           ELSE rsq' = rsq \union {sqe} /\ UNCHANGED <<rops, short, submitFaults>>

\* The buffer is reclaimed: submit_recv, and submit at the threshold.
Reclaim(b, recvs) ==
    /\ pending_recvs' = recvs + 1
    /\ Queue(RecvSqe(b), recvs + 1 >= flush_threshold)

Bug_FlushAtThreshold(writes, remaining) == writes >= flush_threshold

\* A new fragment's WRITE is submitted at the threshold or when it is the last.
FlushDue(writes, remaining) == writes >= flush_threshold \/ remaining = 0

\* process_fragment looks at frag_index only.
IsDuplicate(d) == d.frag \in received

RecvFails(cqe) ==
    cqe[3] = "err" \/ (cqe[1] = "recv" /\ frag_buf[cqe[2]].frag >= frag_count(rchunk))

\* The loop is left as soon as every fragment has been received.
Bug_AckBeforeWrites == rpc = "chunk" /\ frag_remaining > 0

\* The loop waits while a fragment is missing or a write is pending.
InLoop == rpc = "chunk" /\ (frag_remaining > 0 \/ pending_writes > 0)

Throws ==
    /\ InLoop /\ rcq # <<>> /\ RecvFails(Head(rcq))
    /\ rpc' = "failed" /\ rcq' = Tail(rcq)
    /\ UNCHANGED <<chunkVars, rsq, rops, short, frag_buf, disk, tcpVars, submitFaults>>

\* A RECV completes with a fragment that is already there.
RecvDuplicate ==
    /\ InLoop /\ rcq # <<>> /\ ~RecvFails(Head(rcq)) /\ Head(rcq)[1] = "recv"
    /\ IsDuplicate(frag_buf[Head(rcq)[2]])
    /\ rcq' = Tail(rcq)
    /\ Reclaim(Head(rcq)[2], pending_recvs - 1)
    /\ stale' = (stale \/ frag_buf[Head(rcq)[2]].chunk # rchunk)
    /\ UNCHANGED <<rpc, rchunk, received, pending_writes, frag_buf, disk, tcpVars>>

\* A RECV completes with a new fragment: its WRITE is queued.
RecvFragment ==
    /\ InLoop /\ rcq # <<>> /\ ~RecvFails(Head(rcq)) /\ Head(rcq)[1] = "recv"
    /\ LET d == frag_buf[Head(rcq)[2]]
       IN /\ ~IsDuplicate(d)
          /\ received' = received \union {d.frag}
          /\ stale' = (stale \/ d.chunk # rchunk)
          /\ Queue(WriteSqe(Head(rcq)[2], rchunk * CHUNK_SIZE + d.frag * UDP_PAYLOAD_SIZE),
                   FlushDue(pending_writes + 1, frag_remaining - 1))
    /\ rcq' = Tail(rcq)
    /\ pending_recvs' = pending_recvs - 1 /\ pending_writes' = pending_writes + 1
    /\ UNCHANGED <<rpc, rchunk, frag_buf, disk, tcpVars>>

\* A WRITE completes: its buffer takes the next datagram.
WriteDone ==
    /\ InLoop /\ rcq # <<>> /\ ~RecvFails(Head(rcq)) /\ Head(rcq)[1] = "write"
    /\ rcq' = Tail(rcq)
    /\ pending_writes' = pending_writes - 1
    /\ Reclaim(Head(rcq)[2], pending_recvs)
    /\ UNCHANGED <<rpc, rchunk, received, stale, frag_buf, disk, tcpVars>>

\* Every fragment received and every write complete: acknowledge the chunk.
SendAck ==
    /\ rpc = "chunk" /\ ~InLoop
    /\ acks' = Append(acks, rchunk)
    /\ rchunk' = rchunk + 1 /\ received' = {}
    /\ pending_writes' = 0
    /\ rpc' = IF rchunk + 1 < chunk_count THEN "chunk" ELSE "done"
    /\ UNCHANGED <<pending_recvs, stale, ringVars, disk, ready, submitFaults>>

ReceiverStep ==
    /\ PostRecvs \/ Throws \/ RecvDuplicate \/ RecvFragment \/ WriteDone \/ SendAck
    /\ UNCHANGED <<len, senderVars, netVars, faults>>

-----------------------------------------------------------------------------
(* io_uring and the network                                                *)

\* An operation completes: as asked, or with an error.
Completes(result) ==
    \/ result = "ok" /\ UNCHANGED faults
    \/ result = "err" /\ faults + submitFaults < MaxFaults /\ faults' = faults + 1

KernelRead ==
    /\ reading # None
    /\ \E result \in {"ok", "err"} :
          /\ Completes(result)
          /\ scq' = Append(scq, <<"read", result>>)
          /\ chunk_buf' = IF result = "ok"
                          THEN [chunk_buf EXCEPT ![BufferOf(reading)] = ChunkBytes(reading)]
                          ELSE chunk_buf
    /\ reading' = None
    /\ UNCHANGED <<len, spc, chunk_idx, sqVars, queued_read, sending, stash,
                   receiverVars, tcpVars, netVars, submitFaults>>

\* Two copies of a datagram differ in "copy".
KernelSend ==
    \E k \in DOMAIN sending, result \in {"ok", "err"} :
        /\ Completes(result)
        /\ sending' = RemoveAt(sending, k)
        /\ scq' = Append(scq, <<"send", result>>)
        /\ net' = IF result = "ok"
                  THEN net \union {[of |-> Datagram(chunk_idx, sending[k]), copy |-> 0]}
                  ELSE net
        /\ UNCHANGED <<len, spc, chunk_idx, sqVars, chunk_buf, readVars, stash,
                       receiverVars, tcpVars, dups, losses, submitFaults>>

Duplicate ==
    /\ dups < MaxDups /\ dups' = dups + 1
    /\ \E d \in net : d.copy = 0 /\ net' = net \union {[d EXCEPT !.copy = 1]}
    /\ UNCHANGED <<len, senderVars, receiverVars, tcpVars, losses, faultVars>>

Lose ==
    /\ losses < MaxLosses /\ losses' = losses + 1
    /\ \E d \in net : net' = net \ {d}
    /\ UNCHANGED <<len, senderVars, receiverVars, tcpVars, dups, faultVars>>

KernelRecv ==
    \E sqe \in rops :
        /\ sqe.op = "recv"
        /\ \/ \E d \in net :
                 /\ net' = net \ {d}
                 /\ frag_buf' = [frag_buf EXCEPT ![sqe.buf] = d.of]
                 /\ rcq' = Append(rcq, <<"recv", sqe.buf, "ok">>)
                 /\ UNCHANGED faults
           \/ /\ Completes("err")
              /\ rcq' = Append(rcq, <<"recv", sqe.buf, "err">>)
              /\ UNCHANGED <<net, frag_buf>>
        /\ rops' = rops \ {sqe}
        /\ UNCHANGED <<len, senderVars, tcpVars, dups, losses, submitFaults,
                       rpc, chunkVars, rsq, short, disk>>

\* A WRITE puts what its buffer holds now, frag_len bytes of it, at its offset.
\* (A stale fragment may be longer than the file: what it would append is left out.)
KernelWrite ==
    \E sqe \in rops, result \in {"ok", "err"} :
        /\ sqe.op = "write" /\ Completes(result)
        /\ LET data == frag_buf[sqe.buf].data
           IN disk' = IF result = "err" THEN disk
                      ELSE [i \in DOMAIN disk |->
                              IF sqe.off <= i /\ i < sqe.off + Len(data)
                              THEN data[i - sqe.off + 1] ELSE disk[i]]
        /\ rcq' = Append(rcq, <<"write", sqe.buf, result>>)
        /\ rops' = rops \ {sqe}
        /\ UNCHANGED <<len, senderVars, tcpVars, netVars, submitFaults,
                       rpc, chunkVars, rsq, short, frag_buf>>

Kernel == KernelRead \/ KernelSend \/ KernelRecv \/ KernelWrite

Next == SenderStep \/ ReceiverStep \/ Kernel \/ Duplicate \/ Lose

Spec == Init /\ [][Next]_vars

\* Both threads run, and the kernel completes what it can complete.
FairSpec ==
    /\ Spec
    /\ WF_vars(SenderStep) /\ WF_vars(ReceiverStep)
    /\ WF_vars(KernelRead) /\ WF_vars(KernelSend) /\ WF_vars(KernelRecv) /\ WF_vars(KernelWrite)

-----------------------------------------------------------------------------
(* Properties                                                              *)

Chunks == 0 .. chunk_count - 1
Places(c) == c * CHUNK_SIZE .. c * CHUNK_SIZE + chunk_len(c) - 1

\* The variables of both loops stay in their types: send_chunk never has more
\* sends pending than slots, recv_file never counts more RECVs than buffers.
TypeOK ==
    /\ len \in FileSizes
    /\ spc \in {"ready", "wait_read", "chunk", "frag", "full", "drain", "ack"} \union Ended
    /\ chunk_idx \in 0 .. chunk_count
    /\ pending_frags \in 0 .. QUEUE_DEPTH
    /\ {queued_read, reading} \subseteq Chunks \union {None, 0} /\ stash \in {"none", "ok", "err"}
    /\ rpc \in {"post", "chunk"} \union Ended /\ rchunk \in 0 .. chunk_count
    /\ rpc = "chunk" => received \subseteq 0 .. frag_count(rchunk) - 1
    /\ pending_writes \in 0 .. UDP_FRAG_BUFS /\ pending_recvs \in 0 .. UDP_FRAG_BUFS
    /\ stale \in BOOLEAN /\ short \in BOOLEAN
    /\ dups \in 0 .. MaxDups /\ losses \in 0 .. MaxLosses
    /\ faults \in Nat /\ submitFaults \in Nat /\ faults + submitFaults <= MaxFaults

\* A chunk recv_file has acknowledged is in the file, every byte in its place,
\* however its datagrams were reordered or repeated, as long as no fragment of
\* another chunk came into it.
AckedOnDisk ==
    ~stale => \A c \in 0 .. rchunk - 1 : \A i \in Places(c) : disk[i] = i

\* The same without the condition: the loop drives "until all fragments
\* written to disk" before it sends the ACK.
AckedMeansWritten ==
    \A c \in 0 .. rchunk - 1 : \A i \in Places(c) : disk[i] = i

Owners(b) ==
    Cardinality({sqe \in rsq \union rops : sqe.buf = b})
        + Cardinality({k \in DOMAIN rcq : rcq[k][2] = b})

Pending(op) ==
    Cardinality({sqe \in rsq \union rops : sqe.op = op})
        + Cardinality({k \in DOMAIN rcq : rcq[k][1] = op})

\* While the receiver runs, each fragment buffer is in exactly one operation,
\* so no RECV overwrites a fragment a WRITE still reads, and the counters that
\* decide the submissions count those operations; the sender never reads a
\* chunk into the buffer it is sending from.
BuffersOwned ==
    /\ rpc = "chunk" => /\ \A b \in Bufs : Owners(b) = 1
                        /\ pending_recvs = Pending("recv")
                        /\ pending_writes = Pending("write")
    /\ \A c \in {queued_read, reading} \ {None} :
          sending # <<>> \/ ssq # <<>> => BufferOf(c) # BufferOf(chunk_idx)

\* recv_file never waits for a completion that cannot come, as long as its last
\* io_uring_submit took all that was queued: with nothing to reap, a missing
\* fragment finds a RECV posted or a WRITE in the kernel, and once no fragment
\* is missing every pending WRITE is in the kernel.  So what is queued below
\* the threshold, or was left by an earlier submission, is never all there is.
NeverStalled ==
    ~short /\ InLoop /\ rcq = <<>> =>
        IF frag_remaining > 0 THEN rops # {}
        ELSE \A sqe \in rsq : sqe.op = "recv"

\* The last fragment's submission "guards un-submitted WRITE SQEs causing
\* deadlock": recv_file, waiting for nothing but WRITEs, has one in the kernel.
WritesGuarded ==
    InLoop /\ rcq = <<>> /\ frag_remaining <= 0 => \E sqe \in rops : sqe.op = "write"

\* Without loss, send_file and recv_file both return if nothing fails; if an
\* operation fails or a fragment goes astray, send_file still ends, and so does
\* recv_file unless it was send_file that threw.  Nothing is said of a transfer
\* in which io_uring_submit failed or took a part only: it may wait for ever.
TransferEnds ==
    <>( \/ losses > 0 \/ submitFaults > 0
        \/ spc = "done" /\ rpc = "done"
        \/ (faults > 0 \/ stale) /\ spc \in Ended /\ (spc = "failed" \/ rpc \in Ended) )
=============================================================================
