------------------------------ MODULE ConnSetup -----------------------------
(***************************************************************************)
(* From a port to a connection and back: run_push_cli listens and accepts  *)
(* one receiver, run_pull_cli connects, over TCP or over QUIC, and each    *)
(* gives back what it took, on the normal way out and on the way out of    *)
(* any call that throws.                                                   *)
(*                                                                         *)
(* tcp_accept leaves the listening socket with its SocketFd.  quic_accept  *)
(* serves on it: it closes it when it fails and hands it to QuicTransport  *)
(* when it does not, and the SocketFd of run_push_cli still has it.        *)
(*                                                                         *)
(* ngtcp2 and wolfSSL are external; of a handshake only the flights are    *)
(* left: Initial, Flight and Finished, then the first bytes of the stream. *)
(* Datagrams are lost, duplicated and reordered, and timers send again.    *)
(***************************************************************************)
EXTENDS Integers, Sequences

CONSTANTS
    Push,               \* the run of embr push
    Pulls,              \* the runs of embr pull
    Stranger,           \* whoever else finds the port
    MaxLoss             \* datagrams the network loses

ASSUME SetupAssumption ==
    /\ Push \notin Pulls /\ Stranger \notin Pulls /\ Push # Stranger
    /\ MaxLoss \in Nat

Procs == {Push} \union Pulls
Senders == Pulls \union {Stranger}
Nobody == Push              \* Push is nobody's sender

(* What a process takes and must give back: its socket, the one accept made,  *)
(* the wolfSSL context and session, the ngtcp2 connection, the send ring.     *)
Resources == {"sock", "data", "ctx", "ssl", "conn", "zc"}

VARIABLES
    mode,               \* --transport
    pc,                 \* where each process is
    made, frees,        \* what it took, and how often it gave each back
    todo,               \* what it gives back on its way out, in order
    backlog,            \* TCP connections the kernel made for Push
    peer,               \* whom Push serves
    shook, stream,      \* handshake completed, stream id known
    wire, losses        \* datagrams on their way, and those lost

resVars == <<made, frees, todo>>
vars == <<mode, pc, resVars, backlog, peer, shook, stream, wire, losses>>

Msg(from, to, kind) == [from |-> from, to |-> to, kind |-> kind]
Kinds == {"Initial", "Flight", "Finished", "Stream", "Close", "junk"}

Init ==
    /\ mode \in {"tcp", "quic"}
    /\ pc = [p \in Procs |-> "off"]
    /\ made = [p \in Procs |-> {}]
    /\ frees = [p \in Procs |-> [r \in Resources |-> 0]]
    /\ todo = [p \in Procs |-> <<>>]
    /\ backlog = {} /\ peer = Nobody
    /\ shook = [p \in Procs |-> FALSE] /\ stream = [p \in Procs |-> FALSE]
    /\ wire = {} /\ losses = 0

Goto(p, where) == pc' = [pc EXCEPT ![p] = where]
Make(p, r) == made' = [made EXCEPT ![p] = @ \union {r}]
Left(p) == pc[p] = "ended"
Quic == mode = "quic"
netVars == <<backlog, peer, shook, stream, wire, losses>>

----------------------------------------------------------------------------
(* Giving back                                                              *)

(* The SocketFd listen_fd of run_push_cli goes last. *)
Holder(p) == IF p = Push /\ "sock" \in made[p] THEN <<"sock">> ELSE <<>>

(* From bind to the end, but for the closed socket of a failed listen. *)
PortOpen == pc[Push] \notin {"off", "binding", "leaving", "ended"}

(* Datagrams somebody will read: not those for a process that reads no more,   *)
(* nor for a port that is closed or connected to another.                      *)
Readable(ms) ==
    {m \in ms : IF m.to = Push THEN PortOpen /\ peer \in {Nobody, m.from}
                               ELSE pc[m.to] \notin {"leaving", "ended"}}

(* An exception: what its thrower cleans up, then what the CLI holds.  A        *)
(* transport that goes says goodbye.                                           *)
Throw(p, cleanup, farewell) ==
    /\ todo' = [todo EXCEPT ![p] = cleanup \o Holder(p)]
    /\ Goto(p, IF todo'[p] = <<>> THEN "ended" ELSE "leaving")
    /\ wire' = {m \in wire \union Readable(farewell) : m.to # p}
    /\ UNCHANGED <<mode, made, frees>>

Bug_SocketFirst(p) ==
    CASE "conn" \notin made[p] -> <<"sock", "ssl", "ctx">>
      [] "zc" \in made[p] -> <<"sock", "conn", "ssl", "ctx", "zc">>
      [] OTHER -> <<"sock", "conn", "ssl", "ctx">>

(* ~QuicTransport, the connection and the ring only if they were made. *)
Destructor(p) ==
    CASE "conn" \notin made[p] -> <<"ssl", "ctx", "sock">>
      [] "zc" \in made[p] -> <<"conn", "ssl", "ctx", "zc", "sock">>
      [] OTHER -> <<"conn", "ssl", "ctx", "sock">>

(* It says goodbye first, unless the connection is closed or never was. *)
Goodbye(p) ==
    LET to == IF p = Push THEN peer ELSE Push
    IN  IF "conn" \in made[p] THEN {Msg(p, to, "Close")} ELSE {}

(* The last one ends the process. *)
Free(p) ==
    /\ pc[p] = "leaving"
    /\ frees' = [frees EXCEPT ![p][Head(todo[p])] = @ + 1]
    /\ todo' = [todo EXCEPT ![p] = Tail(@)]
    /\ IF Len(todo[p]) = 1 THEN Goto(p, "ended") ELSE UNCHANGED pc
    /\ UNCHANGED <<mode, made, netVars>>

----------------------------------------------------------------------------
(* Sockets                                                                  *)

(* socket(), which may fail before there is anything to give back. *)
Socket(p) ==
    /\ pc[p] = "off"
    /\ \/ Make(p, "sock") /\ Goto(p, IF p = Push THEN "binding" ELSE "connecting")
          /\ UNCHANGED todo
       \/ Goto(p, "ended") /\ UNCHANGED <<made, todo>>
    /\ UNCHANGED <<mode, frees, netVars>>

(* tcp_listen, quic_listen: bind, and listen, close the socket if they fail; *)
(* only what they return goes into a SocketFd.                               *)
Listen ==
    /\ pc[Push] = "binding"
    /\ \/ Goto(Push, "bound") /\ UNCHANGED todo
       \/ todo' = [todo EXCEPT ![Push] = <<"sock">>] /\ Goto(Push, "leaving")
    /\ UNCHANGED <<mode, made, frees, netVars>>

(* tracker_register throws or returns. *)
Register ==
    /\ pc[Push] = "bound"
    /\ \/ Goto(Push, "accepting") /\ UNCHANGED <<mode, resVars, wire>>
       \/ Throw(Push, <<>>, {})
    /\ UNCHANGED <<backlog, peer, shook, stream, losses>>

(* tcp_connect: the kernel completes it once the port is open. *)
TcpConnect(p) ==
    /\ pc[p] = "connecting" /\ ~ Quic
    /\ \/ /\ PortOpen /\ backlog' = backlog \union {p}
          /\ Goto(p, "running") /\ UNCHANGED <<mode, resVars, wire>>
       \/ Throw(p, <<"sock">>, {}) /\ UNCHANGED backlog
    /\ UNCHANGED <<peer, shook, stream, losses>>

StrayConnect ==
    /\ ~ Quic /\ PortOpen
    /\ backlog' = backlog \union {Stranger}
    /\ UNCHANGED <<mode, pc, resVars, peer, shook, stream, wire, losses>>

TcpAccept ==
    /\ pc[Push] = "accepting" /\ ~ Quic
    /\ \/ \E c \in backlog :
            /\ backlog' = backlog \ {c} /\ peer' = c
            /\ Make(Push, "data") /\ Goto(Push, "running")
            /\ UNCHANGED <<mode, frees, todo, wire>>
       \/ Throw(Push, <<>>, {}) /\ UNCHANGED <<backlog, peer>>
    /\ UNCHANGED <<shook, stream, losses>>

----------------------------------------------------------------------------
(* quic_accept, quic_connect                                                *)

(* The client's socket: inet_pton, connect, O_NONBLOCK. *)
QuicConnect(p) ==
    /\ pc[p] = "connecting" /\ Quic
    /\ \/ Goto(p, "ctx") /\ UNCHANGED <<mode, resVars, wire>>
       \/ Throw(p, <<"sock">>, {})
    /\ UNCHANGED <<backlog, peer, shook, stream, losses>>

(* The first datagram to come, whoever sent it, decides: only an Initial is    *)
(* accepted, and the socket is connected to its sender.  What others have sent  *)
(* by then goes: the kernel keeps what is queued already, for ngtcp2 to discard *)
(* as of no connection it knows.                                               *)
Bug_AcceptAny ==
    /\ pc[Push] = "accepting" /\ Quic
    /\ \E m \in wire :
         /\ m.to = Push
         /\ peer' = m.from /\ Goto(Push, "ctx") /\ UNCHANGED <<mode, resVars>>
         /\ wire' = {n \in wire \ {m} : n.to = Push => n.from = m.from}
    /\ UNCHANGED <<backlog, shook, stream, losses>>

QuicAccept ==
    /\ pc[Push] = "accepting" /\ Quic
    /\ \E m \in wire :
         /\ m.to = Push
         /\ \/ /\ m.kind = "Initial"
               /\ peer' = m.from /\ Goto(Push, "ctx") /\ UNCHANGED <<mode, resVars>>
               /\ wire' = {n \in wire \ {m} : n.to = Push => n.from = m.from}
            \/ Throw(Push, <<"sock">>, {}) /\ UNCHANGED peer
    /\ UNCHANGED <<backlog, shook, stream, losses>>

(* Both then build the same things in the same order: the context; its         *)
(* configuration and the session; ALPN and the transport; the connection.  What *)
(* a step that fails frees is written out at each of them, until QuicTransport  *)
(* has them.                                                                   *)
Stages == {"ctx", "ssl", "transport", "conn"}
After(s) == CASE s = "ctx" -> "ssl" [] s = "ssl" -> "transport"
              [] s = "transport" -> "conn" [] s = "conn" -> "hello"
MadeBy(s) == IF s = "transport" THEN {} ELSE {s}

Bug_FreeTwice(p, s) ==
    CASE s = "ctx" -> <<"sock">>
      [] s = "ssl" -> <<"ctx", "sock">>
      [] s = "transport" -> <<"ssl", "ctx", "sock">>
      [] s = "conn" -> <<"ssl", "ctx">> \o Destructor(p)

CleanUp(p, s) ==
    CASE s = "ctx" -> <<"sock">>
      [] s = "ssl" -> <<"ctx", "sock">>
      [] s = "transport" -> <<"ssl", "ctx", "sock">>
      [] s = "conn" -> Destructor(p)

Build(p) ==
    /\ pc[p] \in Stages
    /\ \/ /\ made' = [made EXCEPT ![p] = @ \union MadeBy(pc[p])]
          /\ Goto(p, After(pc[p])) /\ UNCHANGED <<mode, frees, todo, wire>>
       \/ Throw(p, CleanUp(p, pc[p]), {})
    /\ UNCHANGED <<backlog, peer, shook, stream, losses>>

----------------------------------------------------------------------------
(* run_handshake                                                            *)

(* What a process has to say, again at every timeout until it is answered. *)
Flight(p) ==
    IF p = Push
      THEN IF shook[p] THEN {} ELSE {Msg(Push, peer, "Flight")}
      ELSE IF ~ shook[p] THEN {Msg(p, Push, "Initial")}
      ELSE {Msg(p, Push, "Finished")} \union (IF stream[p] THEN {Msg(p, Push, "Stream")} ELSE {})

(* The first packets make the send ring, or do without.  A ring that the        *)
(* transport drops in mid-connection, to go on without, is not counted as made. *)
(* The server first feeds the Initial, which may be rejected.                  *)
Hello(p) ==
    /\ pc[p] = "hello"
    /\ \/ /\ \E zc \in {{}, {"zc"}} : made' = [made EXCEPT ![p] = @ \union zc]
          /\ wire' = wire \union Readable(Flight(p))
          /\ Goto(p, "handshake") /\ UNCHANGED <<mode, frees, todo>>
       \/ /\ p = Push /\ Throw(p, Destructor(p), Goodbye(p))
    /\ UNCHANGED <<backlog, peer, shook, stream, losses>>

Pumping(p) == Quic /\ pc[p] \in {"handshake", "running"}

Bug_NoResend(p) ==
    /\ Pumping(p) /\ p # Push
    /\ wire' = wire \union Readable(Flight(p))
    /\ UNCHANGED <<mode, pc, resVars, backlog, peer, shook, stream, losses>>

(* A retransmission timer is due in pump_once. *)
Resend(p) ==
    /\ Pumping(p)
    /\ wire' = wire \union Readable(Flight(p))
    /\ UNCHANGED <<mode, pc, resVars, backlog, peer, shook, stream, losses>>

(* pump_once reads a datagram; timers make copies.  The first Finished or      *)
(* Flight completes the handshake; the stream is known once it is opened and    *)
(* the handshake done.                                                         *)
Receive(p) ==
    /\ Pumping(p)
    /\ \E m \in wire :
         /\ m.to = p /\ m.kind # "Close"
         /\ wire' = wire \ {m}
         /\ shook' = [shook EXCEPT ![p] = @ \/ m.kind \in {"Finished", "Flight"}]
         /\ stream' = [stream EXCEPT ![p] = @ \/ (m.kind = "Stream" /\ shook[p])]
    /\ IF shook'[p] /\ pc[p] = "handshake"
         THEN Goto(p, IF p = Push THEN "running" ELSE "opening")
         ELSE UNCHANGED pc
    /\ UNCHANGED <<mode, resVars, backlog, peer, losses>>

(* quic_connect opens the stream the server has given credit for. *)
OpenStream(p) ==
    /\ pc[p] = "opening"
    /\ \/ /\ stream' = [stream EXCEPT ![p] = TRUE]
          /\ Goto(p, "running") /\ UNCHANGED <<mode, resVars, wire>>
       \/ Throw(p, Destructor(p), Goodbye(p)) /\ UNCHANGED stream
    /\ UNCHANGED <<backlog, peer, shook, losses>>

(* The peer's CONNECTION_CLOSE, or thirty seconds without a word: closed_, and *)
(* nothing more is sent.                                                       *)
Closed(p) ==
    /\ Pumping(p) /\ \E m \in wire : m.to = p /\ m.kind = "Close"
    /\ Throw(p, Destructor(p), {})
    /\ UNCHANGED <<backlog, peer, shook, stream, losses>>

IdleTimeout(p) ==
    /\ Pumping(p) /\ Throw(p, Destructor(p), {})
    /\ UNCHANGED <<backlog, peer, shook, stream, losses>>

(* Any other error of the handshake: the transport says goodbye. *)
HandshakeFails(p) ==
    /\ Quic /\ pc[p] = "handshake"
    /\ Throw(p, Destructor(p), Goodbye(p))
    /\ UNCHANGED <<backlog, peer, shook, stream, losses>>

(* run_push and run_pull talk to each other once both are in them.  A stranger  *)
(* in the receiver's place may say nothing, and recv_msg has no timeout.       *)
Served(p) ==
    IF p = Push THEN IF Quic THEN stream[Push] ELSE peer \in Pulls
                ELSE Left(Push) \/ (peer = p /\ pc[Push] = "running" /\ (Quic => stream[Push]))

(* They return or throw; the transport goes first, then the SocketFd of         *)
(* run_push_cli.                                                               *)

Finish(p) ==
    /\ pc[p] = "running" /\ Served(p)
    /\ IF Quic THEN Throw(p, Destructor(p), Goodbye(p))
               ELSE Throw(p, IF p = Push THEN <<"data">> ELSE <<"sock">>, {})
    /\ UNCHANGED <<backlog, peer, shook, stream, losses>>

----------------------------------------------------------------------------
(* The network                                                              *)

(* The stranger run_push listens to sends something else than a handshake, or   *)
(* hangs up: recv_msg or run_push throws.                                      *)
StrayTalks ==
    /\ ~ Quic /\ pc[Push] = "running" /\ peer = Stranger
    /\ Throw(Push, <<"data">>, {})
    /\ UNCHANGED <<backlog, peer, shook, stream, losses>>

Lose ==
    /\ losses < MaxLoss
    /\ \E m \in wire : wire' = wire \ {m}
    /\ losses' = losses + 1
    /\ UNCHANGED <<mode, pc, resVars, backlog, peer, shook, stream>>

StrayDatagram ==
    /\ Quic /\ pc[Push] = "accepting"
    /\ wire' = wire \union {Msg(Stranger, Push, "junk")}
    /\ UNCHANGED <<mode, pc, resVars, backlog, peer, shook, stream, losses>>

Step(p) ==
    \/ Socket(p) \/ TcpConnect(p) \/ QuicConnect(p) \/ Build(p) \/ Hello(p)
    \/ OpenStream(p) \/ Closed(p) \/ Finish(p) \/ Free(p)
    \/ p = Push /\ (Listen \/ Register \/ TcpAccept \/ QuicAccept)

Next ==
    \/ \E p \in Procs : Step(p) \/ Receive(p) \/ Resend(p) \/ IdleTimeout(p)
                        \/ HandshakeFails(p)
    \/ StrayConnect \/ StrayTalks \/ StrayDatagram \/ Lose

Spec == Init /\ [][Next]_vars

(* Nobody answers any more: the receiver's port or the sender's peer is gone,  *)
(* or serves another.                                                          *)
Silent(p) ==
    IF p = Push THEN peer \in Pulls => Left(peer)
    ELSE pc[Push] \in {"off", "ended"} \/ peer \notin {p, Nobody}

(* A process that runs goes on, and gives up thirty seconds after the last word *)
(* of somebody that is gone; users need not start one.  Timers fire, and the    *)
(* network delivers what it does not lose.  Nothing is expected of a stranger.  *)
(* That run_push and run_pull end once they talk is assumed here and is what    *)
(* SessionEnds of Transfer says if the requests fit the buffers, and CallsEnd   *)
(* of QuicStream unless recv_exact spins on a stale errno.                      *)
FairSpec ==
    /\ Spec
    /\ \A p \in Procs :
         /\ WF_vars(pc[p] # "off" /\ (Step(p) \/ (Silent(p) /\ IdleTimeout(p))))
         /\ WF_vars(Resend(p))
         /\ WF_vars(Receive(p) /\ <<shook, stream>>' # <<shook, stream>>)

----------------------------------------------------------------------------
(* Properties                                                               *)

Built == {"sock", "ctx", "ssl", "conn"}

(* Every variable keeps its type, and who shakes hands has all it needs. *)
TypeOK ==
    /\ mode \in {"tcp", "quic"}
    /\ pc \in [Procs -> Stages \union {"off", "binding", "bound", "accepting", "connecting",
                 "hello", "handshake", "opening", "running", "leaving", "ended"}]
    /\ made \in [Procs -> SUBSET Resources]
    /\ frees \in [Procs -> [Resources -> Nat]]
    /\ todo \in [Procs -> Seq(Resources)]
    /\ backlog \subseteq Senders /\ peer \in Senders \union {Nobody}
    /\ shook \in [Procs -> BOOLEAN] /\ stream \in [Procs -> BOOLEAN]
    /\ wire \subseteq [from : Senders \union {Push}, to : Senders \union {Push}, kind : Kinds]
    /\ losses \in Nat
    /\ \A p \in Procs :
         Quic /\ pc[p] \in {"hello", "handshake", "opening", "running"} => Built \subseteq made[p]

(* Over QUIC the SocketFd of run_push_cli and the transport have one socket.   *)
TwoOwners(p, r) == Quic /\ p = Push /\ r = "sock"

(* A process that ended gave back all it took, wherever it failed, and what    *)
(* has one owner it gave back once: each of the dozen steps of quic_accept and *)
(* quic_connect cleans up for itself until the transport has everything, and   *)
(* neither it nor ~QuicTransport repeats what the other freed.                 *)
GivenBackOnce ==
    \A p \in Procs : \A r \in Resources :
        /\ Left(p) /\ r \in made[p] => frees[p][r] > 0
        /\ frees[p][r] > 0 => r \in made[p]
        /\ ~ TwoOwners(p, r) => frees[p][r] <= 1

(* No descriptor is closed twice: SocketFd is the one owner of its descriptor  *)
(* (socket_fd.hpp).                                                            *)
ClosedOnce == \A p \in Procs : frees[p]["sock"] <= 1

Needs == {<<"conn", "ssl">>, <<"ssl", "ctx">>, <<"conn", "sock">>, <<"zc", "sock">>}

(* What uses another thing goes before it: the connection before the session,  *)
(* the session before its context, and the ring with packets in flight before  *)
(* the socket (~QuicTransport).  While a process runs all it made is there,    *)
(* a ring dropped in mid-connection apart, which is not among what it made.    *)
UsersFirst ==
    \A p \in Procs :
        /\ \A n \in Needs :
             {n[1], n[2]} \subseteq made[p] /\ frees[p][n[2]] > 0 => frees[p][n[1]] > 0
        /\ pc[p] # "leaving" /\ ~ Left(p) => \A r \in made[p] : frees[p][r] = 0

(* Over QUIC a receiver whose handshake completes is the one the sender        *)
(* serves, and the sender serves nobody whose handshake did not: of several    *)
(* that send an Initial one is connected, and nothing but an Initial gets as   *)
(* far as a context (ngtcp2_accept and connect in quic_accept).                *)
ServesOne ==
    Quic => /\ \A p \in Pulls : shook[p] => peer = p
            /\ shook[Push] => peer \in Pulls /\ shook[peer]
            /\ stream[Push] => stream[peer]
            /\ "ctx" \in made[Push] => peer \in Pulls

(* run_push has accepted a stranger that is silent, and the receivers that      *)
(* connected meanwhile wait in the backlog.                                    *)
WaitsForStranger(p) == pc[Push] = "running" /\ peer = Stranger /\ pc[p] = "running"

(* Nobody is stuck on the way to a connection or in one: lost flights are sent *)
(* again, and who waits for somebody that is gone gives up.  Only accept may   *)
(* wait for ever, and over TCP whoever waits for a silent stranger, directly   *)
(* or in the backlog behind it.                                                *)
SetupEnds ==
    <>[](\A p \in Procs : pc[p] \in {"off", "accepting", "ended"} \/ WaitsForStranger(p))
=============================================================================
