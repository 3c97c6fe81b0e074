----------------------------- MODULE MCTransfer -----------------------------
(* Small instances of Transfer: chunks of two bytes, files of two chunks.   *)
EXTENDS Transfer

Content(s) == [size |-> Len(s),
               data |-> [b \in Offsets |-> IF b < Len(s) THEN s[b + 1] ELSE Zero]]

Plain == Content(<<1, 2, 2, 1>>)
Other == Content(<<2, 1, 1, 2>>)    \* same size, different first chunk
Tail3 == Content(<<1, 2, 2>>)       \* shares Plain's first chunk; partial last chunk
Short == Content(<<1, 2>>)          \* shares Plain's first chunk; one chunk

Long == Content(<<1, 2, 2, 1, 1, 1>>)   \* three chunks

OneFile == {Plain}
LongFile == {Long}
SomeFiles == {Plain, Other, Tail3, Short}
Bytes == 0 .. 2
NoEdits == {}
EditTo1 == {1}
=============================================================================
