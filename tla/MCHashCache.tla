---------------------------- MODULE MCHashCache -----------------------------
(* Small instances of HashCache.  A size of 3 with chunks of 2 has a short   *)
(* last chunk, 2 has one chunk, 0 is refused.                                *)
EXTENDS HashCache

OnePusher == {1}
TwoPushers == 1 .. 2
ShortTail == {0, 2, 3}
TwoChunks == {3}
=============================================================================
