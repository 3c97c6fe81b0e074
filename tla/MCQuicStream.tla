---------------------------- MODULE MCQuicStream ----------------------------
(* Small instances of QuicStream: a message and a chunk, as run_push sends   *)
(* them, read as a header, a file block that ends inside what was ingested,  *)
(* another header, and one too many.                                         *)
EXTENDS QuicStream

MessageAndChunk == <<1, 2>>

Recv == [call |-> "recv", len |-> 1]
RecvFile == [call |-> "recv_file", len |-> 1]
HeaderFileHeader == << Recv, RecvFile, Recv, Recv >>
=============================================================================
