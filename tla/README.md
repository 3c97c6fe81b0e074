# A verification project for embr

embr sends a file from one machine to another: `embr push` serves one file to one
receiver, `embr pull` fetches it in chunks, verifies each chunk by hash and can resume
an interrupted transfer; `embr tracker` maps a token to the address of the sender that
offers it. The bytes travel over TCP or over one bidirectional QUIC stream (a UDP data
plane also exists, an experiment that is not wired to the command line).

This directory holds TLA+ models of the parts of embr whose correctness depends on
order, failure or concurrency, the TLC runs that check them on small instances, and
TLAPS proofs of the most important results for every value of the constants. Paths
below are relative to the repository.

## Inventory

| Component | State | Operations | What is hard |
|---|---|---|---|
| `run_pull`, `run_push` (`core/pull.cpp`, `core/push.cpp`) | program position, `file_meta`, the list of needed chunks | handshake, FILE_META, the burst of CHUNK_REQs, COMPLETE, header and data per chunk, verification | two processes that may die anywhere, many sessions for one output, unframed data after a header |
| `PartialFile`, `ChunkManager` (`core/partial_file.cpp`, `core/chunk_manager.cpp`) | `.embr.partial` and the output file on disk; the bitmap | load, save (truncate, then write), remove, `needed_chunks` | a crash inside save, a record that outlives its output, a record of another file |
| `protocol` (`core/protocol.cpp`) | none | encode and decode messages | limits and field widths |
| `hash` (`core/hash.cpp`) | the `.embr.hash` file, worker threads, a mapping | per-chunk SHA-256 on several threads, cached | a worker that throws or does not start, edits at any moment, a death or a second push inside the save |
| `Transport`, `TcpTransport` | a socket | send, recv, send_file, recv_file | bounded buffers, EOF, reset |
| connection set-up (`tcp_server`, `tcp_client`, `quic_server`, `quic_client`, `QuicTransport`'s constructor and destructor) | sockets, the wolfSSL context and session, the ngtcp2 connection, the send ring | listen, accept, connect, the handshake, destruction | a dozen steps that can fail and free different things, several clients at one port, lost flights |
| `QuicTransport` (`transport/quic_transport.cpp`) | `unacked_`, `stream_offset_`, `recv_buf_`, `recv_dest_`, `closed_`, FIN flags | the same four, `send_fin`, the pump, the lingering close | callbacks that run inside any pump, memory retained until acknowledged, a close that overtakes data |
| `ZcEgress` (`transport/quic_egress.cpp`) | packet slots, the io_uring, a latched error | reserve, commit, flush, reap, drain | the kernel reads slots asynchronously and completes each send once or twice |
| `UdpTransport`, `IoUringCtx` (`transport/udp_transport.cpp`, `util/io_uring_ctx.cpp`) | two chunk buffers and `read_completed_`; the fragment buffers, `RecvState`, `pending_writes`, `pending_recvs` | send_file, recv_file | completions in any order, operations queued and not submitted, submissions that fail unnoticed, loss, late duplicates |
| `TokenStore`, handlers, sweeper (`tracker/*`) | a map from token to address and time | upsert, resolve, remove, sweep | handler threads interleave, expiry, restart |
| tracker client, `push_cli`, `pull_cli` | program position | register, resolve, unregister; bind, accept, connect | timeouts with the request still under way, addresses used again |
| `tracker_cli`, `trust_cli`, `config_tracker`, `main`, `bench` | - | argument parsing, files of settings, measurement | - |

How they interact: a command line (`push_cli`, `pull_cli`) talks HTTP to the tracker,
opens a `Transport` and hands it to `run_push` or `run_pull`, which use nothing but the
four operations of `Transport`. `QuicTransport` sends each datagram through `ZcEgress`
(or `sendmsg`). ngtcp2 calls back into `QuicTransport` from inside its pump. The kernel
shares `ZcEgress`'s packet slots. The only state that survives a process is the output
file, its `.embr.partial` and the tracker's store (in the tracker's memory).

## Modules

| Module | Models | Checked by | Proofs |
|---|---|---|---|
| `Transfer` | `run_pull`, `run_push`, `PartialFile`, `ChunkManager`, over a reliable FIFO with bounded buffers | `MCTransfer` | `TransferProofs`, `SessionProofs` |
| `Download` | what `run_pull` promises of an output path: a download that can be interrupted and resumed | (as a property of `Transfer`) | `TransferProofs` |
| `ByteStream` | what `Transport` promises those two: an ordered byte stream that may be cut | (as a property of `QuicStream`) | `QuicProofs` |
| `QuicStream` | one direction of `QuicTransport`'s stream and its close | `MCQuicStream` | `QuicProofs` |
| `ZcEgress` | the `SEND_ZC` packet pool with the kernel | `MCZcEgress` | `ZcEgressProofs` |
| `UdpTransport` | `send_file` and `recv_file` over UDP, with the TCP acknowledgements | `MCUdpTransport` | `UdpProofs` |
| `Tracker` | `TokenStore`, handlers, sweeper, tracker client, the order of steps of `push_cli` and `pull_cli` | `MCTracker` | `TrackerProofs` |
| `Registry` | what the tracker promises its clients: a directory whose entries vanish on time | (as a property of `Tracker`) | `TrackerProofs` |
| `HashCache` | `precompute_meta`: the hash cache, the hash workers, edits of the file | `MCHashCache` | `HashProofs` |
| `ConnSetup` | the way to a connection and back, over TCP or QUIC, of one sender and several receivers | `MCConnSetup` | `SetupProofs` |

Definitions named `Bug_...` are plausible mistakes. Each stands right before, or
near, the definition it would replace; nothing uses them otherwise. They document what
each property is able to detect.

### Transfer

State: the two program positions (`pull`, `push`) with their locals, the two streams
(`reqQ`, `dataQ`), the output file (`out`) and the record (`record`). One action per
stretch of code between two effects another party can see: `PullHandshake`, `PullMeta`,
`PullLoad` (`PartialFile::load`), `PullOpen`, `PullAllocate` (ftruncate),
`PullRequest`, `PullComplete`, `PullHeader`, `PullData`, `PullVerify`, `PullSaveOpen`
and `PullSaveWrite` (the two halves of `save`), `PullFinish`; `PushHandshake`,
`PushMeta`, `PushRecv`, `PushHeader`, `PushData`. Around them: death of either side at
any step, connection reset, an edit of the source after it was hashed, deletion of the
output or of the record by the user, and a new session that may offer a different file
for the same output path.

Abstraction: a file is its size and bytes, SHA-256 is injective, a message is one item
of its stream, chunk data travels byte by byte. `trusted`, `faulted` and a record's
`stale` are history variables: the progress is genuine, the session was hit by a fault,
the output was truncated or deleted after the record was saved.

`Transfer` implements `Download` (property `IsDownload`), whose state is the chunks done,
the chunks of each file the output holds, and the progress saved. A step of `run_pull` is
one of starting over, resuming from exactly what was saved for the file announced, writing
to chunks that are neither done nor saved as done, verifying one that is intact, saving or
forgetting progress, completing with every chunk, or leaving. What the code cannot tell
from progress, a record whose output was truncated or replaced after it was saved, leads a
download astray: the one step `Download` promises nothing after (`GoAstray`), and it is not
possible where there is genuine progress for the file.

`NeverBlocked` says that while a session runs one of the two processes has a step to take
(`PullMay`, `PushMay`). It is what a deadlock would violate, and needs the requests of one
file to fit the connection's buffers (`RequestsFit`): `MCTransferBlocked.cfg` has room for
one request and one byte and two chunks to ask for, and is violated. `Work` bounds the
steps a session has left; `WorkDwindles` says that each step of either side makes it less
and that only a new session makes it more. Together they say of every session what
`SessionEnds` says under fairness.

### QuicStream and ByteStream

State of the sending half: `stream_offset`, the end offsets of the retained blocks
(`unacked`), what ngtcp2 knows to be acknowledged, the flow-control credit, `closed_`.
Of the receiving half: `recv_buf`, `recv_file`'s destination and whether `recv_dest_`
is set, the FIN, `closed_`, and whether errno is EAGAIN. The network and ngtcp2 are
external: any byte handed over may arrive at any later time, in any order and again;
loss is not having arrived yet; acknowledgements reach the sender for any subset of
what was received. The two directions of a connection share only the close, so one
direction between two endpoints covers both. Each action of a half is one call, one
return path of a call, or one kind of event its pump handles.

`QuicStream` implements `ByteStream` (property `IsByteStream`): what the receiver's
calls return is a prefix of what was written, and end of stream is reported only after
all of it was read. This is the assumption `Transfer` makes about its channel.

### ZcEgress

State: `free_`, `reserved_`, the owned slots, the submission queue, per slot what the
kernel still has to do, the completion queue, the latched error, the slab. Actions are
the steps of `reserve`, `commit`, `flush`, `reap`, `drain` and the destructor, in the
contexts in which they call each other, and the kernel's two completions, which come in
any order between slots.

### UdpTransport

One `send_file` and the peer's `recv_file`. State of the sender: its position, the two
chunk buffers, the slots and the queue of sends, a READ that is queued, the submitted READ
and sends, the completion queue, the READ completion stashed by a send loop. Of the receiver: the
bitmap of the current chunk, the two counters that decide when to submit, the queued and
submitted operations, the completion queue, the fragment buffers, the file. The kernel
completes submitted operations in any order and writes what the buffer holds when it
does; a datagram arrives at any later time, may be repeated or lost. `stale` is a history
variable: a fragment of another chunk was processed.

The code ignores what `io_uring_submit` returns, here at seven places. Any submission may
fail or take only a part of its queue (`Taken`, `SubmitRead`, `TakeFrags`, `Submit`); what
it leaves is submitted with the next one, if there is one. `short` records that the
receiver's last submission left something. The loops can then wait for ever, so
`NeverStalled` is said of a receiver whose last submission took everything, `TransferEnds`
of transfers in which no submission failed, and `WritesGuarded` is what the code's comment
says without either condition: it is violated (`MCUdpTransportSubmit.cfg`). `AckedOnDisk` and
`BuffersOwned` hold whatever the submissions do. The sender's queue keeps its order, since
its slots are written again; of the receiver's, any part may be what stays.

The source file does not change and a READ or WRITE completes in full or fails, since the
code looks only at the sign of a result; a datagram that is not embr's (shorter than a header) is left out.

### Tracker

State: the store, the clock, per sender where `run_push_cli` is and what became of its
two requests, per receiver where `run_pull_cli` is. `upsert` is two steps, since it reads
the clock before it takes the lock. A client may give up on a request that is still
waiting at the tracker. `client_ip` is modelled by what it does: without a comma in
`X-Forwarded-For` it returns the empty string.

`Tracker` implements `Registry` (property `IsRegistry`). The entries of the directory are the
records that have not expired, so the sweeper and the eviction inside `resolve` are not
steps of it: nobody can tell when they run. An upsert that comes late after its reading of
the clock publishes an entry with an old time, or one that is gone at once.

### HashCache

State: the file (its size and mtime), the cells of `.embr.hash` (four header fields, then
one hash per chunk), and per process where it is in `precompute_meta`, its `FileMeta`,
its position in the cache, the shared `next_chunk`, its worker threads and whether the
file is mapped. One action per system call another party can notice: `GetSize` and `Stat`
(two calls, and the file may change between them), `LoadCell` (one `read_exact`), `Map`,
`Spawn`, `Claim` (`fetch_add`), `Hash`, `Join` or `Unwind`, `SaveOpen` (truncation),
`SaveCell` (one `write_exact`); each can fail, the process may be killed anywhere, and
reading a page the file no longer has kills it (`Bus`).

Abstraction: SHA-256 is injective, so a hash is the version, the chunk and the length that
went into it; a chunk read while the file changed may be of the old version, the new one
or neither. Every edit gives the file a later mtime: the code cannot see one that does
not. A size of zero stands for the empty or missing file both calls refuse.

### ConnSetup

State: per process (one `embr push`, several `embr pull`) its position, what it made, how
often it gave each thing back and what it still will, in order; the accept queue of TCP;
whom the sender serves; handshake flags; the datagrams in flight. An error is an exception
whose thrower cleans up what its code names (`CleanUp`, `Destructor`) before the
`SocketFd` of `run_push_cli` closes what it holds. `Build` is the one list of steps
`quic_accept` and `quic_connect` share. Of a handshake only its flights are left; ngtcp2
and wolfSSL are external. Datagrams are lost, repeated and reordered; a stranger connects
over TCP, or sends junk over UDP, before, between and after. Over TCP `run_push` may have
accepted the stranger. It may talk, and `run_push` throws (`StrayTalks`), but need not:
`recv_exact` has no timeout, so `SetupEnds` exempts who waits for it, the sender and the
receivers in the backlog behind it (`WaitsForStranger`). Two simplifications: datagrams of
others that are queued when `quic_accept` connects its socket are dropped here, where the
kernel keeps them for ngtcp2 to discard; and a ring that the transport drops in
mid-connection, to go on with `sendmsg`, is not among what a process made.

## Runs

| Run | Instance | Shows |
|---|---|---|
| `transfer` | four files (one of the same size, one with a short last chunk, one of one chunk) at one output path, 3 sessions, 2 faults, edits, deletions | `CompleteIsCorrect`, `RecordSound`, `NoSpuriousFailure`, `CleanClose`, `DoneChunksStable`, refinement of `Download`, and that every step leaves less to do (`WorkDwindles`) |
| `transfer_resume` | one file of three chunks, 4 sessions, 3 faults, output never deleted | `CompleteMeansIdentical`, `ProgressAccepted`, that the two sides never wait for each other (`NeverBlocked`) and that every session ends (`SessionEnds`) |
| `transfer_stale` | output deleted between sessions | violated: completion with a wrong output |
| `egress` | two slots, two failed submits | slot ownership, no reuse under the kernel, no lost slot, safe slab, something to wait for as long as no submit failed, the drain ends |
| `tracker` | three senders (shared token, shared address, one behind a proxy), one receiver, one expiry, one restart | `UnregisterIsFinal`, `WaitingIsFound`, refinement of `Registry` |
| `quic` | three bytes in two writes, read as header, file block, header and once past the end; window of two; a half-close; one fault | memory kept, destination mapped, graceful close, end-to-end reads, refinement of `ByteStream`, every call returns |
| `quic_errno` | the same without faults | violated: `recv_exact` spins on a stale EAGAIN |
| `udp` | an empty file and one of five bytes: a chunk of two fragments, then one of a single fragment; one send slot, four fragment buffers; one repeated datagram, one lost, one operation or submission that fails | `AckedOnDisk` and `BuffersOwned`; `NeverStalled` after a submission that took everything; `TransferEnds` if none failed |
| `udp_late` | one repeated datagram | violated: an acknowledged chunk holds another chunk's bytes |
| `hash` | a file of no, one full, or one full and one short chunk; two cores; two edits; two pushes in turn; every call and thread failing, deaths anywhere | `MetaIsFile`, `CacheSound`, `MappingHeld`, `OneThreadPerChunk`, `PushEnds` |
| `hash_torn` | two pushes of one unedited file at the same time | violated: a push announces a hash nobody computed |
| `setup` | one sender, two receivers, a stranger; TCP or QUIC; every step failing; one datagram lost | `GivenBackOnce`, `UsersFirst`, `ServesOne`, `SetupEnds` |

`Transfer`'s `TypeOK` is an invariant of its run; the other modules' are theorems
(`EgressTyping`, `TrackerTyping`, `StreamTyping`, `UdpTyping`, `HashTyping`, `SetupTyping`).

Why the bounds are enough for the cases that matter. Two chunks give a done and a
missing chunk, three give a middle one; chunks of two bytes can be cut in the middle;
two bytes of `DataCap` make the sender block inside a chunk. Three sessions are needed
for a record to be saved, invalidated and loaded. Two slots are needed for one to be
free while the other is in flight. A TTL of 0 with a clock of two values has fresh and
expired records. In `quic` the second write is longer than one packet may be, the window
is smaller than the stream, and the second read can begin in buffered bytes and end
inside a packet. In `udp` chunks are no multiple of the payload, as in the code (1 MiB and
64,990 bytes); four buffers make the submission threshold two, so that a single fragment
stays below it; one send slot (the code has 256, for 17 fragments) makes `send_chunk` wait
in the middle of a chunk. In `hash` the second push finds what the first one left, the two
edits can fall into one push or between the two, and two cores give two workers for two
chunks and one for one. In `setup` the second receiver is the one not served, and one loss
takes any single flight or close away.

`CHECK_DEADLOCK FALSE` appears where the system may stop: when every process has ended
(`tracker`, `quic`, `udp`, `hash`, `setup`), in `ZcEgress` when the kernel owes nothing and the
thread waits, and in `udp` when a lost datagram or
a failed submission leaves both sides waiting, as the code does.

### What the failing runs show

The disagreements found while modelling are recorded in `PROJECT.json` ("findings") with
the lines they contradict. In short:

- `transfer_stale`: a fresh start leaves the old `.embr.partial` in place until its first
  save, so dying before it makes the next pull trust a record for an output of zeros.
- `quic_errno`: `QuicTransport::recv` reports failure without setting errno, which
  `recv_exact` reads.
- `udp_late`: `process_fragment` takes a late duplicate of an earlier chunk's fragment for
  one of the current chunk.
- `hash_torn`: two pushes of one file at a time write one `.embr.hash` without a lock or a
  rename; while they do, its header matches and a hash may be zeros.

Five more configurations can be run by hand. They fail too, each on one property:

| Configuration | Violated | What it shows |
|---|---|---|
| `MCTransferBlocked.cfg` | `SessionEnds` | sending every request before reading anything (`pull.cpp:76`) blocks both sides over TCP when the socket buffers are smaller than the burst |
| `MCZcEgressWait.cfg` | `AlwaysWaitsForSomething` | a failed `io_uring_submit` inside `reserve` can end in a wait with nothing in flight (`quic_egress.cpp:126`) |
| `MCUdpTransportSubmit.cfg` | `WritesGuarded` | the submission after the last fragment "guards un-submitted WRITE SQEs causing deadlock" (`udp_transport.cpp:441`), but its result is ignored: if it fails, `recv_file` waits for a WRITE that is still in its queue |
| `MCTrackerReuse.cfg` | `TokenMeansFile` | nothing ties a session to the token it was resolved from (`pull.cpp:25`): two senders that use one address in turn |
| `MCConnSetupOwner.cfg` | `ClosedOnce` | over QUIC the listening socket is closed by `quic_accept` or `~QuicTransport` and again by the `SocketFd` of `run_push_cli` (`push_cli.cpp:113`, `:126`), by then perhaps another descriptor's number |

Three smaller ones are in the models without a run of their own. A resume that finds the
output gone between `load` and `open` starts fresh without the pre-allocation
(`OpenedOutput` and `PullOpen` in `Transfer`; `ProgressIsKept` proves it where the output is
not removed). `reserve` hands out a free slot after the ring has latched an error, and
`commit` then fails the connection (`CommitFails` in `ZcEgress`) where the header promises
`nullptr` and a fall back to `sendmsg`. A thread that cannot be started leaves
`hash_compute_parallel` without unmapping the file (`Unwind` in `HashCache`).

## Fairness

- `Transfer`: weak fairness of each side's next step. A process that is not dead runs,
  and a blocking call on a socket returns when data, room or EOF is there. Nothing is
  assumed about faults or the user.
- `ZcEgress`: the thread inside a call runs on; the destructor's deadline expires.
  Nothing is assumed of the kernel.
- `Tracker`: none. Nothing the clients rely on waits for the sweeper.
- `QuicStream`: while both sides pump, a byte sent again and again arrives, and window
  updates do too (ngtcp2's loss recovery); timers (idle, linger) fire; the applications
  continue with their calls. No fairness is assumed for acknowledgements: no call waits
  for one without a deadline.
- `UdpTransport`: both threads run on, and each kind of operation the kernel can complete
  is completed in the end. Nothing is assumed of loss or repetition, nor that a submission
  that failed is made up for.
- `HashCache`: a process that has begun runs on, and so does each of its threads. Nobody
  need start one.
- `ConnSetup`: a process that was started goes on, except that over TCP nothing is expected
  of a stranger: `run_push` need not return from one (`Served`); the resend timer fires; the network
  delivers what it does not lose; the 30 s idle timeout fires when the other side is gone
  or serves somebody else (`Silent`). Nobody need start a process, and `accept` may wait for
  ever. That `run_push` and `run_pull` return once they talk to each other is an assumption
  of this module. For the sessions it is `SessionEnds`, for requests that fit the buffers;
  for the calls below it is `CallsEnd`, which exempts a `recv_exact` that spins on a stale
  errno (`quic_errno`). `SetupEnds` says nothing of those two cases.

## What is proved

All theorems hold for every value of the constants that satisfies the named
assumptions (`ChunkAssumption`, `FilesAssumption`, `BoundAssumption`,
`SlotsAssumption`, `TrackerAssumption`, `QuicAssumption`, `HashAssumption`,
`SetupAssumption`, `UdpAssumption`); bounds such as `MaxSessions` are arbitrary naturals there.

- `TransferProofs`. `RecordSound` and `CompleteIsCorrect` are not inductive: a save
  copies the bitmap in memory to disk, so the bitmap must be sound too; the bitmap stays
  sound only because no chunk still to be received is marked done; and a resumed bitmap
  is sound only if the record was. `ResumeInv` says exactly this (`DoneSound`,
  `RecordFits`, `OutputFits`, `RemainingFits` with `TypeOK` and `RecordSound`). It is
  preserved action by action (`ProgressIsSound`); `RecordIsSound`, `CompleteTransfers` and
  the action property `DoneChunksKept` follow. Under `ResumeSafe` (one file, output
  not deleted) `KeptInv` shows that progress is always genuine, and `ResumeIsCorrect`
  drops the condition from `CompleteIsCorrect`; `ProgressIsKept` adds pre-allocation and
  the acceptance of saved progress. `ImplementsDownload` maps each action to a step of
  `Download` or to none, from `ResumeInv` and one fact more: where `open` finds an output
  to resume, the record was loaded from it (`OpenInv`). `DownloadsAreWhole` says what that is worth:
  done and saved chunks are in the output, and a completed download has them all.
- `SessionProofs`. Why neither side misreads the other. `SessionInv` describes each stream
  as a path: `Requests(f)` and `Answers(f, edited)` list, as triples of place, message and
  next place, what may be sent where, and the contents of a stream lead from the place of
  its reader to the place of its writer (`Between`). A read takes the first step of the path
  (`PathTail`), a send adds one (`PathAppend`), and where nothing may be sent the stream is
  empty (`PathStuck`), which is how a side knows that the other waits. Without a fault the
  bytes written of the current chunk are the file's and every chunk is done, under way or
  still to come (`Healthy`). From it, with `ResumeInv`: `NoFailureWithoutFault` and
  `EndsCleanly`. `NeverDeadlocked` adds the length of the request stream: a chunk is to be
  requested, or its request is under way, or it is being answered, and no two of these at once
  (`Burst`), so under `RequestsFit` `run_pull` always has room for a request, and does not stop reading
  while `run_push` sends. `SessionsDwindle` is the variant: `Work` counts, for each side, the steps to its
  end at the most it could need per chunk; a request sent moves a chunk from one side's count
  to the other's (`PullWorkStep`, `PushWorkStep`), and sets of chunks are finite (`ChunkSets`).
  That a natural number that only falls must stop falling, and so `SessionEnds`, is temporal and stays with TLC.
- `ZcEgressProofs`. `EgressInv` adds to slot ownership what a queued completion says of
  its slot (`CqeSound`) and which variables the contexts of a running call leave alone
  (`CallSound`). From it: `SlotsAreOwned`, `KernelKeepsItsSlots`, `SlabIsSafe`,
  `NoSlotStranded`, `ReserveWaitsForSomething`.
- `TrackerProofs`. `TrackerInv`: a record is its sender's registration as stamped, not
  undone (`RecordsOwned`); what a sender has asked follows from where it is
  (`RequestsInOrder`); a stored registration stays until it expires (`StoredIsKept`, the
  inductive form of `WaitingIsFound`). From it: `PublishedIsBound`, `UnregisterHolds`,
  `WaitingSenderIsFound` and the action property `ResolveAnswersFresh`. `ImplementsRegistry`
  needs two facts more (`DirectoryInv`): no stamp is of the future, and a receiver is answered
  once. `DirectoriesAreCurrent` says what a directory is worth: its entries are fresh, their
  own party's, published and not withdrawn, and every answer names a published party.
- `QuicProofs`. `StreamInv` has one part per half. The sender's: the retained blocks are the
  end offsets of the writes not yet released, and only acknowledged bytes were released. The
  receiver's: what the calls returned, what is in the mapping and what is buffered are, one
  after the other, the bytes 1, 2, 3, ... up to what ngtcp2 has delivered; and what a call
  needs is bounded by where it is. From it: `MemoryIsKept`, `MappingIsUsed`,
  `CloseIsGraceful`, and `ImplementsByteStream`: every step of `QuicStream` is a step of
  `ByteStream` or leaves its variables unchanged.
  `NothingIsLost` needs what a waiting call knows and whom a CONNECTION_CLOSE comes from (`LossInv`):
  `recv_file` waits only with an empty buffer (`RoomOK`), and without a fault nobody closes before
  an endpoint is done (`ClosesOK`). A call that fails then either followed a linger that gave
  up or asked for more than was sent, and no byte follows.
- `HashProofs`. Two invariants. `WholeInv` is about the workers of any number of concurrent
  pushes: claimed chunks are below `next_chunk` and distinct, threads are alive only while
  the process is in the part of the code that joins them. From it: `MappingIsHeld` and
  `ChunksHashedOnce`. `CacheInv` assumes one push at a time (`Exclusive`, which `hash_torn`
  shows to be needed): what is in the cache under a key, what was read of it and what was
  hashed belong to the version the key names, or that version is gone. From it:
  `CacheHoldsHashes` and `AnnouncedIsFile`. `PushesDwindle` is the variant of a push,
  `StepsLeft`: the stage it is in, the cells of the cache still to read or write, and for the
  threads two steps for each chunk unclaimed or under way and one for each last look at
  `next_chunk`. `LoadInv` is what bounds the load, which has no end of its own but the last
  hash: a file that gets that far has a chunk. Whatever the edits and the other pushes do, a step of a push
  or of its threads makes `StepsLeft` smaller and nothing but a new push makes it larger.
  The step from there to `PushEnds` needs fairness, and stays with TLC.
- `SetupProofs`. `GiveInv` says, place by place in the code, what is made and what is left to
  free, as the list the code has written out there; `AllGivenBack` and `UsersGoFirst` follow.
  `NetInv` says what each datagram in flight and each handshake flag tells about both ends;
  `ServesOneReceiver` follows.
- `UdpProofs`. `UdpInv` has three parts. The sender's: `pending_frags` counts the sends
  queued, in the kernel and completed; one READ is out at a time, for the chunk after the
  one that is sent; the buffer that is sent from holds that chunk. The network's: a datagram
  carries the bytes of the file its header names. The receiver's: every fragment buffer is in
  exactly one operation and the counters count them; after a submission that took everything,
  an operation stays in the queue only below `flush_threshold`, a WRITE only while a fragment
  is missing; and, while no fragment of another chunk was taken, each received fragment is on
  disk, on its way there, or its WRITE failed. From it: `BuffersHaveOneOwner`,
  `NeverWaitsInVain` (where the last submission took everything, two queues below half the
  buffers are never all of them), `AcknowledgedIsOnDisk` (with no fragment missing and no
  WRITE pending, every place of the chunk is in a fragment on disk) and `UdpTyping`.

Only model-checked: liveness (`SessionEnds`, `DrainEnds`, `CallsEnd`, `TransferEnds`,
`PushEnds`, `SetupEnds`), which is out of the prover's reach. `PullMay` and `PushMay` are
written out, since `ENABLED` is too: on both transfer instances TLC finds them equal to
`ENABLED PullStep` and `ENABLED PushStep`.

## Not modelled

- What ngtcp2 and wolfSSL do inside: TLS, certificates, congestion control, the parameters
  and callbacks handed to them.
- Loss of the page cache in a power failure (nothing is fsynced), and a TCP peer that
  vanishes without EOF or reset.
- The byte layout of messages and the 64 MiB limit of a payload, JSON and command lines;
  benchmarks and configuration: conversions without state.
- Setting up the UDP sockets and the buffer pools (`udp_data_client.cpp`,
  `udp_data_server.cpp`, `io_uring_ctx.cpp`): straight-line code that throws on failure. Its
  one exchange, a probe of one byte that is neither acknowledged nor repeated and for which
  the server waits without a timeout, is lost or it is not.
- Short results of READ and WRITE in `UdpTransport`, which the code takes for full ones.
- An edit of the pushed file that keeps its size and mtime, which `hash.cpp` cannot see.
- `Transfer` over `QuicStream` byte by byte: `ByteStream` is the interface between the two,
  and `ConnSetup`, `QuicStream` and `ZcEgress` are each about one layer of `QuicTransport`.

## Plan

Done, in this order: `Transfer`, `ZcEgress` (memory shared with the kernel), `Tracker`
(concurrent handlers), `QuicStream` with `ByteStream`, `UdpTransport`, `HashCache`,
`ConnSetup`; proofs of all but liveness and what is listed above.

What would add most from here: a variant like `Work` and `StepsLeft` for the set-up, and a
bound on what an acknowledged chunk may hold after a late fragment.
