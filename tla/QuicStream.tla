----------------------------- MODULE QuicStream -----------------------------
(***************************************************************************)
(* One direction of QuicTransport's stream: the sending half (send,        *)
(* send_file, write_stream, send_fin, the retained blocks, the lingering   *)
(* close) of one endpoint and the receiving half (recv, recv_file, the     *)
(* stream callback) of the other, each driven by its own pump_once.  The   *)
(* two directions of a connection share nothing but the close.             *)
(*                                                                         *)
(* ngtcp2 and the network are external: a byte is sent, perhaps lost, sent *)
(* again from the caller's memory until it is acknowledged, and handed to  *)
(* on_recv_stream_data in stream order.  A byte is named by its place in   *)
(* the stream; the FIN takes the place after the last one.                 *)
(***************************************************************************)
EXTENDS Integers, Sequences

CONSTANTS
    Writes,     \* the lengths of the sender's send and send_file calls
    Reads,      \* the receiver's calls: recv_exact or recv_file, of a length
    MaxOffset,  \* no less than the sum of Writes
    Window,     \* the flow-control window
    MaxFaults   \* bound on deaths, outages and errors

ASSUME QuicAssumption ==
    /\ Writes \in Seq(Nat \ {0})
    /\ Reads \in Seq([call : {"recv", "recv_file"}, len : Nat \ {0}])
    /\ MaxOffset \in Nat /\ Window \in Nat \ {0} /\ MaxFaults \in Nat

VARIABLES
    sphase,         \* where the sender is: in no call of this half, in one, or closed
    calls, left,    \* the calls it made, and what write_stream has yet to hand over
    stream_offset,  \* stream_offset_
    unacked,        \* the end_offsets of unacked_, whose blocks are in memory
    freed,          \* the end_offset of the last block released
    fin_sent,
    sclosed, how,   \* its closed_, and how its connection ended
    credit,         \* the offset the receiver allows
    acked,          \* what ngtcp2 knows to be acknowledged
    closing,        \* the endpoints whose CONNECTION_CLOSE is in flight
    got,            \* what ngtcp2 has received
    rphase,         \* where the receiver is
    pos, need,      \* the call it makes, and what recv_exact still needs
    recv_buf, dest, \* recv_buf_, and the bytes in recv_file's mapping
    recv_dest,      \* recv_dest_ is not null
    fin_received, rclosed,
    eagain,         \* its errno is EAGAIN
    out, failed,    \* what its calls have returned, and how one failed
    faults

writeVars == <<calls, left, stream_offset, fin_sent>>
blockVars == <<unacked, freed, acked>>
senderVars == <<sphase, writeVars, blockVars, sclosed, how, credit>>
inVars == <<got, fin_received, rclosed>>
bufVars == <<recv_buf, dest, recv_dest>>
callVars == <<pos, need, out, failed>>
receiverVars == <<rphase, inVars, bufVars, callVars, eagain>>
vars == <<senderVars, receiverVars, closing, faults>>

Init ==
    /\ sphase = "idle" /\ calls = 0 /\ left = 0 /\ stream_offset = 0
    /\ unacked = {} /\ freed = 0 /\ fin_sent = FALSE /\ sclosed = FALSE /\ how = "open"
    /\ credit = Window /\ acked = {}
    /\ closing = {}
    /\ got = {} /\ rphase = "idle" /\ pos = 1 /\ need = 0
    /\ recv_buf = << >> /\ dest = << >> /\ recv_dest = FALSE
    /\ fin_received = FALSE /\ rclosed = FALSE /\ eagain = FALSE
    /\ out = << >> /\ failed = "no" /\ faults = 0

Fault == faults < MaxFaults /\ faults' = faults + 1

(* The gap-free prefix of a set of bytes. *)
Contiguous(S) == CHOOSE k \in 0 .. stream_offset + 1 : 1 .. k \subseteq S /\ k + 1 \notin S
Least(m, n) == IF m <= n THEN m ELSE n
Bytes(from, to) == [i \in 1 .. to - from |-> from + i]

(* The bytes on_recv_stream_data was given, the FIN not counted. *)
Ingested == Least(Contiguous(got), stream_offset)

----------------------------------------------------------------------------
(* The sender's calls                                                       *)

(* "block must outlive send() until acked" *)
Retain(len) == unacked' = unacked \union {stream_offset + len}

(* send and send_file: the block is retained before write_stream starts. *)
StartWrite ==
    /\ sphase = "idle" /\ calls < Len(Writes) /\ ~ fin_sent /\ ~ sclosed
    /\ calls' = calls + 1 /\ left' = Writes[calls + 1]
    /\ Retain(left')
    /\ sphase' = "writing"
    /\ UNCHANGED <<stream_offset, freed, fin_sent, sclosed, how, credit, acked, receiverVars, closing, faults>>

(* writev_stream takes some bytes, as window and congestion allow. *)
Accepts(n) ==
    /\ sphase = "writing" /\ ~ sclosed
    /\ n <= left /\ stream_offset + n <= credit
    /\ stream_offset' = stream_offset + n /\ left' = left - n

WriteSome ==
    /\ \E n \in 1 .. left : Accepts(n)
    /\ sphase' = IF left' = 0 THEN "idle" ELSE "writing"
    /\ UNCHANGED <<calls, blockVars, fin_sent, sclosed, how, credit, receiverVars, closing, faults>>

(* The linger, unless every block is acknowledged or the peer closed first. *)
Bug_CloseAtOnce == "closed"
AfterClose == IF sclosed \/ unacked = {} THEN "closed" ELSE "closing"

Ending == IF sclosed THEN "peer" ELSE "drained"

(* CONNECTION_CLOSE is sent once and may be lost. *)
SendClose(from) == closing' \in {closing, closing \union {from}}

CloseUnlessClosed(from, closed) ==
    IF closed THEN closing' = closing ELSE SendClose(from)

(* The transport is destroyed with no call in progress. *)
BeginClose ==
    /\ sphase = "idle"
    /\ sphase' = AfterClose
    /\ IF sphase' = "closed"
       THEN how' = Ending /\ CloseUnlessClosed("sender", sclosed)
       ELSE how' = how /\ closing' = closing
    /\ UNCHANGED <<writeVars, blockVars, sclosed, credit, receiverVars, faults>>

(* send_packet fails: the bytes are ngtcp2's already, the caller throws. *)
WriteFails ==
    /\ \E n \in 1 .. left : Accepts(n)
    /\ sphase' = "closing"
    /\ Fault
    /\ UNCHANGED <<calls, blockVars, fin_sent, sclosed, how, credit, receiverVars, closing>>

(* writev_stream fails: close_connection with the error. *)
WriteError ==
    /\ sphase \in {"writing", "fin"} /\ ~ sclosed
    /\ sphase' = "closed" /\ sclosed' = TRUE /\ how' = "error"
    /\ SendClose("sender")
    /\ Fault
    /\ UNCHANGED <<writeVars, blockVars, credit, receiverVars>>

(* The pump in a call finds the connection closed: the call fails. *)
WriteAborts ==
    /\ sphase \in {"writing", "fin"} /\ sclosed
    /\ sphase' = "closed" /\ how' = "peer"
    /\ UNCHANGED <<writeVars, blockVars, sclosed, credit, receiverVars, closing, faults>>

StartFin ==
    /\ sphase = "idle" /\ calls = Len(Writes) /\ ~ fin_sent /\ ~ sclosed
    /\ sphase' = "fin"
    /\ UNCHANGED <<writeVars, blockVars, sclosed, how, credit, receiverVars, closing, faults>>

(* Also when send_packet fails: ngtcp2 has the FIN and sends it again. *)
SendFin ==
    /\ sphase = "fin" /\ ~ sclosed
    /\ fin_sent' = TRUE /\ sphase' = "idle"
    /\ UNCHANGED <<calls, left, stream_offset, blockVars, sclosed, how, credit, receiverVars, closing, faults>>

----------------------------------------------------------------------------
(* The sender's pump: in a write, in the linger, or waiting in recv          *)

SPumps == sphase # "closed" /\ ~ sclosed

(* What may arrive: late, out of order and again.  What is lost has not       *)
(* arrived yet, and ngtcp2's timers send it again while the sender pumps.     *)
Sent == 1 .. stream_offset \union (IF fin_sent THEN {stream_offset + 1} ELSE {})

(* An acknowledgement of bytes received arrives, in any order; one that was  *)
(* lost is one that has not arrived yet.                                     *)
(* on_acked_stream_data_offset: every block up to the gap-free offset goes.  *)
(* end_offsets increase, so popping from the front is keeping the later ones. *)
Bug_HighestAcked(A) == IF A = {} THEN 0 ELSE CHOOSE k \in A : \A a \in A : a <= k
AckedEnd(A) == Contiguous(A)

AckArrives ==
    /\ SPumps
    /\ \E A \in SUBSET (got \ acked) : A # {} /\ acked' = acked \union A
    /\ LET end == AckedEnd(acked')
           released == {e \in unacked : e <= end}
       IN  /\ unacked' = unacked \ released
           /\ freed' = IF released = {} THEN freed
                       ELSE CHOOSE e \in released : \A f \in released : f <= e
    /\ UNCHANGED <<sphase, writeVars, sclosed, how, credit, receiverVars, closing, faults>>

(* MAX_STREAM_DATA, which the receiver's callback extended at ingest. *)
CreditArrives ==
    /\ SPumps /\ credit < Ingested + Window
    /\ credit' = Ingested + Window
    /\ UNCHANGED <<sphase, writeVars, blockVars, sclosed, how, receiverVars, closing, faults>>

SCloseArrives ==
    /\ SPumps /\ "receiver" \in closing
    /\ closing' = closing \ {"receiver"} /\ sclosed' = TRUE
    /\ UNCHANGED <<sphase, writeVars, blockVars, how, credit, receiverVars, faults>>

(* Thirty seconds without a packet: the peer is gone, or the network was. *)
SGone == sphase = "closed" \/ sclosed
RGone == rphase = "closed" \/ rclosed
Silence(gone) == IF gone THEN faults' = faults ELSE Fault

SIdle ==
    /\ SPumps /\ Silence(RGone)
    /\ sclosed' = TRUE
    /\ UNCHANGED <<sphase, writeVars, blockVars, how, credit, receiverVars, closing>>

Bug_LingerForever ==
    /\ sphase = "closing" /\ (unacked = {} \/ sclosed) /\ sphase' = "closed"
    /\ how' = Ending
    /\ CloseUnlessClosed("sender", sclosed)
    /\ UNCHANGED <<writeVars, blockVars, sclosed, credit, receiverVars, faults>>

(* The linger ends: acknowledged, closed by the peer, or one second is over. *)
LingerEnds ==
    /\ sphase = "closing" /\ sphase' = "closed"
    /\ how' = IF unacked # {} /\ ~ sclosed THEN "expired" ELSE Ending
    /\ CloseUnlessClosed("sender", sclosed)
    /\ UNCHANGED <<writeVars, blockVars, sclosed, credit, receiverVars, faults>>

SenderDies ==
    /\ sphase # "closed" /\ sphase' = "closed" /\ how' = "killed"
    /\ Fault
    /\ UNCHANGED <<writeVars, blockVars, sclosed, credit, receiverVars, closing>>

----------------------------------------------------------------------------
(* The receiver's pump: in recv, in recv_file, in a write or in the linger   *)

RPumps ==
    /\ ~ rclosed
    /\ \/ rphase \in {"idle", "closing"}
       \/ rphase = "recv" /\ recv_buf = << >> /\ ~ fin_received
       \/ rphase = "recv_file" /\ Len(dest) < need /\ ~ fin_received

Bug_DropRest(data) ==
    LET room == IF recv_dest /\ recv_buf = << >> THEN need - Len(dest) ELSE 0
        taken == Least(Len(data), room)
    IN  /\ dest' = dest \o SubSeq(data, 1, taken)
        /\ recv_buf' = IF taken > 0 THEN recv_buf ELSE recv_buf \o data

(* Into recv_file's mapping while it has room, the rest into recv_buf_. *)
on_recv_stream_data(data) ==
    LET room == IF recv_dest /\ recv_buf = << >> THEN need - Len(dest) ELSE 0
        taken == Least(Len(data), room)
    IN  /\ dest' = dest \o SubSeq(data, 1, taken)
        /\ recv_buf' = recv_buf \o SubSeq(data, taken + 1, Len(data))

(* drain_packets sends the acknowledgement; a full socket blocks it, which   *)
(* is tolerated and leaves EAGAIN in errno.                                  *)
DrainPackets == eagain' \in {eagain, TRUE}

(* A packet arrives and ngtcp2 hands over what is in order now. *)
RecvPacket(bytes) ==
    /\ RPumps /\ bytes \subseteq Sent
    /\ got' = got \union bytes
    /\ on_recv_stream_data(Bytes(Ingested, Least(Contiguous(got'), stream_offset)))
    /\ fin_received' = (fin_sent /\ Contiguous(got') = stream_offset + 1)
    /\ DrainPackets
    /\ UNCHANGED <<rphase, callVars, recv_dest, rclosed, senderVars, closing, faults>>

RCloseArrives ==
    /\ RPumps /\ "sender" \in closing
    /\ closing' = closing \ {"sender"} /\ rclosed' = TRUE
    /\ UNCHANGED <<got, rphase, callVars, bufVars, fin_received, eagain, senderVars, faults>>

RIdle ==
    /\ RPumps /\ Silence(SGone)
    /\ rclosed' = TRUE
    /\ UNCHANGED <<got, rphase, callVars, bufVars, fin_received, eagain, senderVars, closing>>

(* ICMP soft errors from a sender that has gone are tolerated. *)
Refused ==
    /\ RPumps /\ sphase = "closed" /\ eagain
    /\ eagain' = FALSE
    /\ UNCHANGED <<inVars, rphase, callVars, bufVars, senderVars, closing, faults>>

----------------------------------------------------------------------------
(* The receiver's calls                                                     *)

Calling(call) == rphase = "idle" /\ pos <= Len(Reads) /\ Reads[pos].call = call

StartRecv ==
    /\ Calling("recv")
    /\ rphase' = "recv" /\ need' = Reads[pos].len
    /\ UNCHANGED <<inVars, pos, bufVars, eagain, out, failed, senderVars, closing, faults>>

(* "drain before classifying: buffered data outlives the conn" *)
Bug_ClassifyFirst == recv_buf # << >> /\ ~ rclosed
HasData == recv_buf # << >>

(* recv returns some bytes; recv_exact calls again until it has them all. *)
RecvTakes ==
    /\ rphase = "recv" /\ HasData
    /\ LET n == Least(need, Len(recv_buf)) IN
       /\ out' = out \o SubSeq(recv_buf, 1, n)
       /\ recv_buf' = SubSeq(recv_buf, n + 1, Len(recv_buf))
       /\ need' = need - n
    /\ IF need' = 0 THEN rphase' = "idle" /\ pos' = pos + 1
                    ELSE rphase' = rphase /\ pos' = pos
    /\ UNCHANGED <<inVars, dest, recv_dest, eagain, failed, senderVars, closing, faults>>

(* recv returns 0: recv_exact throws. *)
RecvEof ==
    /\ rphase = "recv" /\ ~ HasData /\ fin_received
    /\ rphase' = "failed" /\ failed' = "eof"
    /\ UNCHANGED <<inVars, pos, need, bufVars, eagain, out, senderVars, closing, faults>>

(* recv returns -1 and leaves errno alone: recv_exact throws, but with an    *)
(* errno of EAGAIN it calls recv again, which changes nothing.               *)
RecvError ==
    /\ rphase = "recv" /\ ~ HasData /\ ~ fin_received /\ ~ eagain
    /\ IF rclosed THEN faults' = faults ELSE Fault
    /\ rphase' = "failed" /\ failed' = "error"
    /\ UNCHANGED <<inVars, pos, need, bufVars, eagain, out, senderVars, closing>>

(* recv_file takes what is buffered first. *)
FromBuffer(len) == Least(len, Len(recv_buf))

StartRecvFile ==
    /\ Calling("recv_file")
    /\ rphase' = "recv_file" /\ need' = Reads[pos].len /\ recv_dest' = TRUE
    /\ LET n == FromBuffer(need') IN
       /\ dest' = SubSeq(recv_buf, 1, n)
       /\ recv_buf' = SubSeq(recv_buf, n + 1, Len(recv_buf))
    /\ UNCHANGED <<inVars, pos, eagain, out, failed, senderVars, closing, faults>>

(* The mapping's release clears recv_dest_, on return and on a throw. *)
Bug_Forget == recv_dest' = recv_dest /\ dest' = << >>
Unmap == recv_dest' = FALSE /\ dest' = << >>

FileDone ==
    /\ rphase = "recv_file" /\ Len(dest) = need
    /\ out' = out \o dest
    /\ Unmap
    /\ rphase' = "idle" /\ pos' = pos + 1
    /\ UNCHANGED <<inVars, need, recv_buf, eagain, failed, senderVars, closing, faults>>

FileFails ==
    /\ rphase = "recv_file" /\ Len(dest) < need
    /\ IF fin_received \/ rclosed THEN faults' = faults ELSE Fault
    /\ Unmap
    /\ rphase' = "failed" /\ failed' = "error"
    /\ UNCHANGED <<inVars, pos, need, recv_buf, eagain, out, senderVars, closing>>

(* The transport is destroyed after the last call, or after a failed one;    *)
(* its linger is for blocks of its own, and keeps it pumping.                *)
RBeginClose ==
    /\ rphase = "failed" \/ (rphase = "idle" /\ pos > Len(Reads))
    /\ rphase' = "closing"
    /\ UNCHANGED <<inVars, callVars, bufVars, eagain, senderVars, closing, faults>>

RLingerEnds ==
    /\ rphase = "closing" /\ rphase' = "closed"
    /\ CloseUnlessClosed("receiver", rclosed)
    /\ UNCHANGED <<inVars, callVars, bufVars, eagain, senderVars, faults>>

ReceiverDies ==
    /\ rphase # "closed" /\ rphase' = "closed"
    /\ recv_dest' = FALSE /\ dest' = << >>
    /\ Fault
    /\ UNCHANGED <<inVars, callVars, recv_buf, eagain, senderVars, closing>>

----------------------------------------------------------------------------
(* A stream's places: its bytes and the FIN. *)
Places == 1 .. MaxOffset + 1
Intervals(S) == {lo .. hi : lo \in S, hi \in S} \ {{}}

SenderCalls == StartWrite \/ WriteSome \/ StartFin \/ SendFin \/ BeginClose \/ WriteAborts
SenderFails == WriteFails \/ WriteError \/ SenderDies
SenderPump == AckArrives \/ CreditArrives \/ SCloseArrives \/ SIdle \/ LingerEnds
ReceiverCalls ==
    \/ StartRecv \/ RecvTakes \/ RecvEof \/ RecvError
    \/ StartRecvFile \/ FileDone \/ FileFails \/ RBeginClose
ReceiverPump == RCloseArrives \/ RIdle \/ Refused \/ RLingerEnds

Next ==
    \/ SenderCalls \/ SenderFails \/ SenderPump
    \/ \E bytes \in Intervals(Sent) : RecvPacket(bytes)
    \/ ReceiverCalls \/ ReceiverPump \/ ReceiverDies

Spec == Init /\ [][Next]_vars

(* A byte sent again and again arrives, as long as both sides pump; timers fire; the applications go on with their calls.         *)
FairSpec ==
    /\ Spec
    /\ WF_vars(StartWrite \/ StartFin \/ BeginClose) /\ WF_vars(WriteSome) /\ WF_vars(SendFin)
    /\ WF_vars(WriteAborts) /\ WF_vars(LingerEnds)
    /\ WF_vars(CreditArrives) /\ WF_vars(SCloseArrives) /\ WF_vars(RGone /\ SIdle)
    /\ \A b \in Places : WF_vars(SPumps /\ RecvPacket({b}))
    /\ WF_vars(StartRecv \/ StartRecvFile \/ RBeginClose)
    /\ WF_vars(RecvTakes \/ RecvEof \/ (rclosed /\ RecvError))
    /\ WF_vars(FileDone \/ ((fin_received \/ rclosed) /\ FileFails))
    /\ WF_vars(RCloseArrives) /\ WF_vars(SGone /\ RIdle) /\ WF_vars(RLingerEnds)

----------------------------------------------------------------------------
(* Properties                                                               *)

(* Every variable has its type; what is in flight was sent. *)
TypeOK ==
    /\ sphase \in {"idle", "writing", "fin", "closing", "closed"}
    /\ calls \in 0 .. Len(Writes) /\ left \in Nat /\ stream_offset \in Nat
    /\ unacked \subseteq Nat /\ freed \in Nat /\ fin_sent \in BOOLEAN /\ sclosed \in BOOLEAN
    /\ how \in {"open", "drained", "peer", "expired", "error", "killed"}
    /\ credit \in Nat
    /\ acked \subseteq got /\ got \subseteq Sent
    /\ closing \subseteq {"sender", "receiver"}
    /\ rphase \in {"idle", "recv", "recv_file", "failed", "closing", "closed"}
    /\ pos \in 1 .. Len(Reads) + 1 /\ need \in Nat
    /\ recv_buf \in Seq(Nat) /\ dest \in Seq(Nat) /\ out \in Seq(Nat)
    /\ recv_dest \in BOOLEAN /\ fin_received \in BOOLEAN /\ rclosed \in BOOLEAN
    /\ eagain \in BOOLEAN
    /\ failed \in {"no", "eof", "error"} /\ faults \in Nat

(* "block must outlive send() until acked": whatever ngtcp2 may still have   *)
(* to send again is in a retained block, and so is what write_stream still   *)
(* has to hand over, through any order of acknowledgements.                  *)
MemoryKept ==
    /\ \A b \in 1 .. stream_offset : b > freed \/ b \in acked
    /\ sphase = "writing" => stream_offset + left \in unacked

(* "it must not outlive the mapping": the callback's pointer is set exactly  *)
(* while recv_file runs, on its throwing paths too, and never overrun.       *)
DestMapped ==
    /\ recv_dest <=> rphase = "recv_file"
    /\ Len(dest) <= (IF recv_dest THEN need ELSE 0)

(* "graceful close must not orphan retained blocks": a sender whose linger   *)
(* drained leaves nothing behind that the receiver's callback has not got.   *)
GracefulClose == how = "drained" => Ingested = stream_offset

(* The call that failed wanted more bytes than were sent; one of recv_exact  *)
(* had returned all there were, one of recv_file drops what it had mapped.   *)
AskedTooMuch ==
    /\ Len(out) + need > stream_offset
    /\ Reads[pos].call = "recv" => Len(out) = stream_offset

(* End to end: if the sender's linger drained and nothing else went wrong, a *)
(* call of the receiver fails only for want of bytes that were never sent,   *)
(* although CONNECTION_CLOSE may overtake the calls: "buffered data outlives *)
(* the conn".                                                                *)
NothingLost == how = "drained" /\ faults = 0 /\ failed # "no" => AskedTooMuch

Stream == INSTANCE ByteStream WITH
    written <- stream_offset, read <- out, ended <- fin_sent, eof <- failed = "eof"

(* The transport implements the byte stream run_push and run_pull rely on. *)
IsByteStream == Stream!Spec

(* Every call of this half returns: write_stream and send_fin, recv_exact    *)
(* and recv_file, and the lingering close; except recv_exact with errno left *)
(* at EAGAIN.                                                                *)
CallsEnd ==
    /\ sphase \in {"writing", "fin"} ~> sphase \notin {"writing", "fin"}
    /\ sphase = "closing" ~> sphase = "closed"
    /\ rphase = "recv_file" ~> rphase # "recv_file"
    /\ rphase = "recv" ~> rphase # "recv" \/ eagain

(* recv_exact returns or throws once the connection is closed. *)
RecvEnds == rphase = "recv" /\ rclosed ~> rphase # "recv"
=============================================================================
