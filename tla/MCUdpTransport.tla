--------------------------- MODULE MCUdpTransport ---------------------------
(* Small instances of UdpTransport for TLC.                                *)
EXTENDS UdpTransport

\* Nothing to send, and a chunk of two fragments before one of a single one.
EmptyAndShort == {0, 5}
=============================================================================
