---------------------------- MODULE SessionProofs ----------------------------
(***************************************************************************)
(* run_push and run_pull stay in step: what is in the two streams leads,   *)
(* message by message, from where the reader is to where the writer is.    *)
(* So nothing fails without a fault, and no message is left unread, for    *)
(* every chunk size, set of files, buffer capacity, and any number of      *)
(* sessions and faults.                                                    *)
(***************************************************************************)
EXTENDS TransferProofs, FiniteSetTheorems

----------------------------------------------------------------------------
(* Streams as paths                                                         *)

(* The stream q leads from place a to place b of the protocol G, a set of   *)
(* triples <<place, message, next place>>.                                  *)
Path(G, q, a, b) ==
    \E l : /\ l[1] = a /\ l[Len(q) + 1] = b
          /\ \A k \in 1 .. Len(q) : <<l[k], q[k], l[k + 1]>> \in G

LEMMA EmptyPath == ASSUME NEW G, NEW a, NEW b PROVE Path(G, << >>, a, b) <=> a = b
  <1>1. ASSUME a = b PROVE Path(G, << >>, a, b)
    <2> DEFINE l == [k \in 1 .. 1 |-> a]
    <2>1. l[1] = a /\ l[Len(<< >>) + 1] = b
      BY <1>1
    <2>2. \A k \in 1 .. Len(<< >>) : <<l[k], << >>[k], l[k + 1]>> \in G
      OBVIOUS
    <2> HIDE DEF l
    <2> QED BY <2>1, <2>2 DEF Path
  <1>2. ASSUME Path(G, << >>, a, b) PROVE a = b
    BY <1>2 DEF Path
  <1> QED BY <1>1, <1>2

LEMMA PathTail ==
    ASSUME NEW T, NEW q \in Seq(T), q # << >>, NEW G, NEW a, NEW b, Path(G, q, a, b)
    PROVE  \E c : <<a, Head(q), c>> \in G /\ Path(G, Tail(q), c, b)
  <1>1. PICK l : /\ l[1] = a /\ l[Len(q) + 1] = b
                 /\ \A k \in 1 .. Len(q) : <<l[k], q[k], l[k + 1]>> \in G
    BY DEF Path
  <1>2. /\ Len(q) \in Nat \ {0} /\ Len(Tail(q)) = Len(q) - 1 /\ Head(q) = q[1]
        /\ \A k \in 1 .. Len(q) - 1 : Tail(q)[k] = q[k + 1]
    OBVIOUS
  <1> DEFINE n == Len(q)
             m == [k \in 1 .. n |-> l[k + 1]]
  <1>3. <<a, Head(q), l[2]>> \in G
    <2>1. 1 \in 1 .. Len(q) /\ 1 + 1 = 2
      BY <1>2
    <2> QED BY <1>1, <1>2, <2>1
  <1>4. m[1] = l[2] /\ m[Len(Tail(q)) + 1] = b
    BY <1>1, <1>2
  <1>5. ASSUME NEW k \in 1 .. Len(Tail(q)) PROVE <<m[k], Tail(q)[k], m[k + 1]>> \in G
    <2>1. k \in 1 .. n - 1 /\ k + 1 \in 1 .. n /\ k \in 1 .. n
      BY <1>2
    <2>2. m[k] = l[k + 1] /\ m[k + 1] = l[(k + 1) + 1] /\ Tail(q)[k] = q[k + 1]
      BY <1>2, <2>1
    <2> QED BY <1>1, <2>1, <2>2
  <1> HIDE DEF m
  <1>6. Path(G, Tail(q), l[2], b)
    BY <1>4, <1>5 DEF Path
  <1> QED BY <1>3, <1>6

LEMMA PathAppend ==
    ASSUME NEW T, NEW q \in Seq(T), NEW G, NEW a, NEW b, NEW c, NEW e \in T,
           Path(G, q, a, b), <<b, e, c>> \in G
    PROVE  Path(G, Append(q, e), a, c)
  <1>1. PICK l : /\ l[1] = a /\ l[Len(q) + 1] = b
                 /\ \A k \in 1 .. Len(q) : <<l[k], q[k], l[k + 1]>> \in G
    BY DEF Path
  <1> DEFINE n == Len(q)
             d == Append(q, e)
             m == [k \in 1 .. n + 2 |-> IF k = n + 2 THEN c ELSE l[k]]
  <1>2. /\ n \in Nat /\ Len(d) = n + 1 /\ d[n + 1] = e
        /\ \A k \in 1 .. n : d[k] = q[k]
    OBVIOUS
  <1>3. \A k \in 1 .. n + 1 : m[k] = l[k]
    BY <1>2
  <1>4. m[n + 2] = c /\ m[1] = a
    BY <1>1, <1>2
  <1>5. n + 1 \in 1 .. n + 1 /\ (n + 1) + 1 = n + 2
    BY <1>2
  <1> HIDE DEF m, d
  <1>6. ASSUME NEW k \in 1 .. n + 1 PROVE <<m[k], d[k], m[k + 1]>> \in G
    <2>1. CASE k = n + 1
      BY <1>1, <1>2, <1>3, <1>4, <1>5, <2>1
    <2>2. CASE k # n + 1
      <3>1. k \in 1 .. n /\ k + 1 \in 1 .. n + 1
        BY <1>2, <2>2
      <3> QED BY <1>1, <1>2, <1>3, <3>1
    <2> QED BY <2>1, <2>2
  <1> QED BY <1>2, <1>4, <1>5, <1>6 DEF Path, d

LEMMA PathMono ==
    ASSUME NEW G, NEW H, G \subseteq H, NEW q, NEW a, NEW b, Path(G, q, a, b)
    PROVE  Path(H, q, a, b)
  BY DEF Path

(* Where nothing can be sent, nothing is in the stream. *)
LEMMA PathStuck ==
    ASSUME NEW T, NEW q \in Seq(T), NEW G, NEW a, NEW b, Path(G, q, a, b),
           \A e, c : <<a, e, c>> \notin G
    PROVE  q = << >> /\ a = b
  <1>1. q = << >>
    BY PathTail
  <1> QED BY <1>1, EmptyPath

----------------------------------------------------------------------------
(* Where the two sides are                                                  *)

(* In the requests: before the handshake, after it, with the chunks of S    *)
(* still to request, after COMPLETE.  In the data: before file_meta, after  *)
(* it, with the chunks of S to come, and at byte p of chunk i before them.  *)
Begun == [at |-> "begun"]
Open == [at |-> "open"]
End == [at |-> "end"]
Left(S) == [at |-> "left", chunks |-> S]
Inside(i, p, S) == [at |-> "inside", chunk |-> i, pos |-> p, chunks |-> S]

(* The chunk the sorted list of needed chunks goes on with. *)
Listed(f) == {S \in SUBSET Chunks(f.size) : \E i \in S : IsNext(i, S)}
First(S) == CHOOSE i \in S : IsNext(i, S)

(* run_pull requests the chunks in ascending order, then says COMPLETE. *)
Requests(f) ==
    {<<Begun, HANDSHAKE, Open>>, <<Left({}), COMPLETE, End>>}
      \union {<<Left(S), CHUNK_REQ(First(S)), Left(S \ {First(S)})>> : S \in Listed(f)}

(* The place after byte p of chunk i. *)
After(f, i, p, S) == IF p + 1 = chunk_len(f.size, i) THEN Left(S) ELSE Inside(i, p + 1, S)

Positions == 0 .. ChunkSize - 1

(* The bytes run_push may send: those of the file, unless it was edited. *)
Bytes(f, edited) ==
    {d \in [chunk : Chunks(f.size), pos : Positions,
             left : SUBSET Chunks(f.size), byte : Byte] :
        edited \/ d.byte = f.data[offset(d.chunk) + d.pos]}
Sent(f, d) == <<Inside(d.chunk, d.pos, d.left), DATA(d.byte),
                After(f, d.chunk, d.pos, d.left)>>

(* run_push answers a request with the chunk's header and its bytes. *)
Headers(f) ==
    {<<Left(S), CHUNK_HDR(First(S)), Inside(First(S), 0, S \ {First(S)})>> : S \in Listed(f)}
Answers(f, edited) ==
    {<<Begun, FILE_META(f), Open>>} \union Headers(f)
      \union {Sent(f, d) : d \in Bytes(f, edited)}

(* run_pull writes its requests from w on and reads the data from y on. *)
PullAt(w, y) ==
    /\ pull = "handshake" => w = Begun /\ y = Begun
    /\ pull = "meta" => w = Open /\ y = Begun
    /\ pull \in {"load", "open"} => w = Open /\ y = Open
    /\ pull \in {"allocate", "request"} => w = Left(toReq) /\ y = Left(toRecv)
    /\ pull \in {"recv", "verify", "save", "write"} => w = End /\ y = Left(toRecv)
    /\ pull = "data" => w = End /\ y = Inside(cur, pos, toRecv)
    /\ pull \in {"complete", "incomplete"} => w = End /\ y = Left({})

(* run_push reads the requests from r on and writes the data from x on. *)
PushAt(r, x) ==
    /\ push = "recv_handshake" => r = Begun /\ x = Begun
    /\ push = "send_meta" => r = Open /\ x = Begun
    /\ push = "recv" =>
         \/ r = Open /\ x = Open
         \/ \E S \in SUBSET Chunks(file.size) : r = Left(S) /\ x = Left(S)
    /\ push = "send_hdr" => \E S \in SUBSET Chunks(file.size) :
         IsNext(pcur, S) /\ ppos = 0 /\ r = Left(S \ {pcur}) /\ x = Left(S)
    /\ push = "send_file" => \E S \in SUBSET Chunks(file.size) :
         r = Left(S) /\ x = Inside(pcur, ppos, S)
    /\ push = "done" => r = End /\ x = Left({})

(* Each stream leads from its reader's place to its writer's. *)
Between(r, w, x, y) ==
    /\ PullAt(w, y) /\ PushAt(r, x)
    /\ push # "failed" => Path(Requests(file), reqQ, r, w)
    /\ pull # "failed" => Path(Answers(file, faulted), dataQ, y, x)

InStep ==
    /\ broken => faulted /\ reqQ = <<>> /\ dataQ = <<>>
    /\ ~ broken => \E r, w, x, y : Between(r, w, x, y)

(* Without a fault the chunk being received is intact so far, and every     *)
(* chunk is done or still to come.                                          *)
Underway == IF pull \in {"data", "verify"} THEN {cur} ELSE {}
Healthy ==
    /\ pull \notin {"failed", "incomplete"} /\ push # "failed"
    /\ pull = "data" => \A k \in 0 .. pos - 1 :
         offset(cur) + k < out.size /\ out.data[offset(cur) + k] = file.data[offset(cur) + k]
    /\ pull = "verify" => ChunkMatches(out, file, cur)
    /\ pull \in Transferring \union {"allocate"} =>
         Chunks(file.size) \subseteq cm \union toRecv \union Underway

SessionInv ==
    /\ pull \notin {"handshake", "meta", "failed"} => meta = file
    /\ InStep
    /\ ~ faulted => Healthy

----------------------------------------------------------------------------
(* From where to where a message leads                                      *)

LEMMA Places ==
    /\ Begun # Open /\ Begun # End /\ Open # End
    /\ \A S : Left(S) # Begun /\ Left(S) # Open /\ Left(S) # End
    /\ \A S, T : Left(S) = Left(T) => S = T
    /\ \A i, p, S : /\ Inside(i, p, S) # Begun /\ Inside(i, p, S) # Open
                    /\ Inside(i, p, S) # End
                    /\ \A T : Inside(i, p, S) # Left(T)
    /\ \A i, p, S, j, o, T :
          Inside(i, p, S) = Inside(j, o, T) => i = j /\ p = o /\ S = T
  <1>1. Begun.at = "begun" /\ Open.at = "open" /\ End.at = "end"
    BY DEF Begun, Open, End
  <1>2. \A S : Left(S).at = "left" /\ Left(S).chunks = S
    BY DEF Left
  <1>3. \A i, p, S : /\ Inside(i, p, S).at = "inside" /\ Inside(i, p, S).chunk = i
                     /\ Inside(i, p, S).pos = p /\ Inside(i, p, S).chunks = S
    BY DEF Inside
  <1>4. /\ Begun # Open /\ Begun # End /\ Open # End
        /\ \A S : Left(S) # Begun /\ Left(S) # Open /\ Left(S) # End
    BY <1>1, <1>2
  <1>5. \A S, T : Left(S) = Left(T) => S = T
    BY <1>2
  <1>6. \A i, p, S : /\ Inside(i, p, S) # Begun /\ Inside(i, p, S) # Open
                     /\ Inside(i, p, S) # End
                     /\ \A T : Inside(i, p, S) # Left(T)
    BY <1>1, <1>2, <1>3
  <1>7. \A i, p, S, j, o, T :
          Inside(i, p, S) = Inside(j, o, T) => i = j /\ p = o /\ S = T
    BY <1>3
  <1> QED BY <1>4, <1>5, <1>6, <1>7

(* The next of a set of indices is unique. *)
LEMMA FirstIsNext ==
    ASSUME NEW f \in Files, NEW S \in SUBSET Chunks(f.size), NEW i, IsNext(i, S)
    PROVE  i = First(S) /\ S \in Listed(f) /\ i \in Nat /\ i \in S
  <1>1. Chunks(f.size) \subseteq Nat
    BY FileType, ChunkRange
  <1>2. S \subseteq Nat /\ i \in S /\ \A j \in S : i <= j
    BY <1>1 DEF IsNext
  <1>3. \A j : IsNext(j, S) => j = i
    BY <1>2 DEF IsNext
  <1>4. First(S) = i
    <2>1. \E j \in S : IsNext(j, S)
      BY <1>2
    <2>2. First(S) \in S /\ IsNext(First(S), S)
      BY <2>1 DEF First
    <2> QED BY <1>3, <2>2
  <1>5. S \in Listed(f)
    BY <1>2 DEF Listed
  <1> QED BY <1>2, <1>4, <1>5

LEMMA RequestCases ==
    ASSUME NEW f, NEW r, NEW e, NEW c, <<r, e, c>> \in Requests(f)
    PROVE  \/ r = Begun /\ e = HANDSHAKE /\ c = Open
           \/ r = Left({}) /\ e = COMPLETE /\ c = End
           \/ \E S \in Listed(f) :
                r = Left(S) /\ e = CHUNK_REQ(First(S)) /\ c = Left(S \ {First(S)})
  BY DEF Requests

(* Message e leads run_pull from place y to place c. *)
Answered(f, edited, y, e, c) ==
    \/ y = Begun /\ e = FILE_META(f) /\ c = Open
    \/ \E S \in Listed(f) : /\ y = Left(S) /\ e = CHUNK_HDR(First(S))
                            /\ c = Inside(First(S), 0, S \ {First(S)})
    \/ \E i, p, S, b : /\ y = Inside(i, p, S) /\ e = DATA(b) /\ c = After(f, i, p, S)
                       /\ edited \/ b = f.data[offset(i) + p]

LEMMA AnswerCases ==
    ASSUME NEW f, NEW edited, NEW y, NEW e, NEW c, <<y, e, c>> \in Answers(f, edited)
    PROVE  Answered(f, edited, y, e, c)
  <1> DEFINE t == <<y, e, c>>
  <1>1. CASE t = <<Begun, FILE_META(f), Open>>
    BY <1>1 DEF Answered
  <1>2. CASE t \in Headers(f)
    BY <1>2 DEF Headers, Answered
  <1>3. CASE \E d \in Bytes(f, edited) : t = Sent(f, d)
    <2>1. PICK d \in Bytes(f, edited) : t = Sent(f, d)
      BY <1>3
    <2>2. /\ y = Inside(d.chunk, d.pos, d.left) /\ e = DATA(d.byte)
          /\ c = After(f, d.chunk, d.pos, d.left)
      BY <2>1 DEF Sent
    <2>3. edited \/ d.byte = f.data[offset(d.chunk) + d.pos]
      BY DEF Bytes
    <2> QED BY <2>2, <2>3 DEF Answered
  <1> QED BY <1>1, <1>2, <1>3 DEF Answers

(* run_push follows the requests, whatever comes. *)
LEMMA RequestFrom ==
    ASSUME NEW f, NEW e, NEW c
    PROVE  /\ <<Begun, e, c>> \in Requests(f) => e = HANDSHAKE /\ c = Open
           /\ <<Open, e, c>> \notin Requests(f)
           /\ <<End, e, c>> \notin Requests(f)
           /\ \A S : <<Left(S), e, c>> \in Requests(f) =>
                \/ S = {} /\ e = COMPLETE /\ c = End
                \/ S \in Listed(f) /\ e = CHUNK_REQ(First(S)) /\ c = Left(S \ {First(S)})
  <1> DEFINE Case(r) ==
               \/ r = Begun /\ e = HANDSHAKE /\ c = Open
               \/ r = Left({}) /\ e = COMPLETE /\ c = End
               \/ \E S \in Listed(f) :
                    r = Left(S) /\ e = CHUNK_REQ(First(S)) /\ c = Left(S \ {First(S)})
  <1>0. \A r : <<r, e, c>> \in Requests(f) => Case(r)
    BY RequestCases
  <1>1. Case(Begun) => e = HANDSHAKE /\ c = Open
    BY Places
  <1>2. ~ Case(Open)
    BY Places
  <1>3. ~ Case(End)
    BY Places
  <1>4. ASSUME NEW S, Case(Left(S))
        PROVE  \/ S = {} /\ e = COMPLETE /\ c = End
               \/ S \in Listed(f) /\ e = CHUNK_REQ(First(S)) /\ c = Left(S \ {First(S)})
    BY <1>4, Places
  <1> HIDE DEF Case
  <1> QED BY <1>0, <1>1, <1>2, <1>3, <1>4

(* run_pull follows the answers, whatever comes. *)
LEMMA AnswerFrom ==
    ASSUME NEW f, NEW edited, NEW e, NEW c
    PROVE  /\ <<Begun, e, c>> \in Answers(f, edited) => e = FILE_META(f) /\ c = Open
           /\ <<Open, e, c>> \notin Answers(f, edited)
  <1>1. Answered(f, edited, Begun, e, c) => e = FILE_META(f) /\ c = Open
    BY Places DEF Answered
  <1>2. ~ Answered(f, edited, Open, e, c)
    BY Places DEF Answered
  <1> QED BY <1>1, <1>2, AnswerCases

LEMMA HeaderFrom ==
    ASSUME NEW f, NEW edited, NEW e, NEW c, NEW S,
           <<Left(S), e, c>> \in Answers(f, edited)
    PROVE  /\ S \in Listed(f) /\ e = CHUNK_HDR(First(S))
           /\ c = Inside(First(S), 0, S \ {First(S)})
  <1>1. Answered(f, edited, Left(S), e, c)
    BY AnswerCases
  <1>2. Left(S) # Begun /\ \A i, p, T : Left(S) # Inside(i, p, T)
    BY Places
  <1>3. PICK T \in Listed(f) : /\ Left(S) = Left(T) /\ e = CHUNK_HDR(First(T))
                               /\ c = Inside(First(T), 0, T \ {First(T)})
    BY <1>1, <1>2 DEF Answered
  <1>4. S = T
    BY <1>3, Places
  <1> QED BY <1>3, <1>4

LEMMA DataFrom ==
    ASSUME NEW f, NEW edited, NEW e, NEW c, NEW i, NEW p, NEW S,
           <<Inside(i, p, S), e, c>> \in Answers(f, edited)
    PROVE  /\ c = After(f, i, p, S)
           /\ \E b : e = DATA(b) /\ (edited \/ b = f.data[offset(i) + p])
  <1>1. Answered(f, edited, Inside(i, p, S), e, c)
    BY AnswerCases
  <1>2. Inside(i, p, S) # Begun /\ \A T : Inside(i, p, S) # Left(T)
    BY Places
  <1>3. PICK j, o, T, b : /\ Inside(i, p, S) = Inside(j, o, T)
                          /\ e = DATA(b) /\ c = After(f, j, o, T)
                          /\ edited \/ b = f.data[offset(j) + o]
    BY <1>1, <1>2 DEF Answered
  <1>4. i = j /\ p = o /\ S = T
    BY <1>3, Places
  <1> QED BY <1>3, <1>4

(* Nothing is requested after COMPLETE, nor answered when nothing is left. *)
LEMMA NothingFollows ==
    /\ \A f, e, c : <<End, e, c>> \notin Requests(f)
    /\ \A f, edited, e, c : <<Left({}), e, c>> \notin Answers(f, edited)
  <1>1. \A f : {} \notin Listed(f)
    BY DEF Listed
  <1>2. \A f, e, c : <<End, e, c>> \notin Requests(f)
    BY RequestFrom
  <1>3. \A f, edited, e, c : <<Left({}), e, c>> \notin Answers(f, edited)
    BY <1>1, HeaderFrom
  <1> QED BY <1>2, <1>3

LEMMA AnswersMore == ASSUME NEW f PROVE Answers(f, FALSE) \subseteq Answers(f, TRUE)
  <1>1. Bytes(f, FALSE) \subseteq Bytes(f, TRUE)
    BY DEF Bytes
  <1> QED BY <1>1 DEF Answers

LEMMA AnswersGrow ==
    ASSUME NEW f, NEW a \in BOOLEAN, NEW b \in BOOLEAN, a => b, NEW q, NEW y, NEW x,
           Path(Answers(f, a), q, y, x)
    PROVE  Path(Answers(f, b), q, y, x)
  BY AnswersMore, PathMono

(* What may be sent *)
LEMMA MaySend ==
    ASSUME NEW f \in Files
    PROVE  /\ <<Begun, HANDSHAKE, Open>> \in Requests(f)
           /\ <<Left({}), COMPLETE, End>> \in Requests(f)
           /\ \A edited : <<Begun, FILE_META(f), Open>> \in Answers(f, edited)
           /\ \A S \in SUBSET Chunks(f.size), i \in Chunks(f.size) : IsNext(i, S) =>
                /\ <<Left(S), CHUNK_REQ(i), Left(S \ {i})>> \in Requests(f)
                /\ \A edited :
                     <<Left(S), CHUNK_HDR(i), Inside(i, 0, S \ {i})>> \in Answers(f, edited)
  <1>1. /\ <<Begun, HANDSHAKE, Open>> \in Requests(f)
        /\ <<Left({}), COMPLETE, End>> \in Requests(f)
    BY DEF Requests
  <1>2. \A edited : <<Begun, FILE_META(f), Open>> \in Answers(f, edited)
    BY DEF Answers
  <1>3. ASSUME NEW S \in SUBSET Chunks(f.size), NEW i, IsNext(i, S)
        PROVE  /\ <<Left(S), CHUNK_REQ(i), Left(S \ {i})>> \in Requests(f)
               /\ \A edited :
                    <<Left(S), CHUNK_HDR(i), Inside(i, 0, S \ {i})>> \in Answers(f, edited)
    <2>1. S \in Listed(f) /\ i = First(S)
      BY <1>3, FirstIsNext
    <2>2. <<Left(S), CHUNK_REQ(i), Left(S \ {i})>> \in Requests(f)
      BY <2>1 DEF Requests
    <2>3. <<Left(S), CHUNK_HDR(i), Inside(i, 0, S \ {i})>> \in Headers(f)
      BY <2>1 DEF Headers
    <2> QED BY <2>2, <2>3 DEF Answers
  <1> QED BY <1>1, <1>2, <1>3

LEMMA MaySendData ==
    ASSUME NEW f \in Files, NEW i \in Chunks(f.size), NEW p \in Nat,
           p < chunk_len(f.size, i), NEW S \in SUBSET Chunks(f.size), NEW b \in Byte,
           NEW edited \in BOOLEAN, edited \/ b = f.data[offset(i) + p]
    PROVE  <<Inside(i, p, S), DATA(b), After(f, i, p, S)>> \in Answers(f, edited)
  <1> DEFINE d == [chunk |-> i, pos |-> p, left |-> S, byte |-> b]
  <1>1. p \in Positions
    <2>1. chunk_len(f.size, i) \in 1 .. ChunkSize
      BY FileType, ChunkRange
    <2> QED BY <2>1, ChunkAssumption DEF Positions
  <1>2. d \in Bytes(f, edited)
    BY <1>1 DEF Bytes
  <1>3. Sent(f, d) = <<Inside(i, p, S), DATA(b), After(f, i, p, S)>>
    BY DEF Sent
  <1> HIDE DEF d
  <1> QED BY <1>2, <1>3 DEF Answers

----------------------------------------------------------------------------
(* What a side reads                                                        *)

LEMMA Typed ==
    ASSUME TypeOK
    PROVE  /\ file \in Files /\ meta \in Files
           /\ reqQ \in Seq(ReqMsgs) /\ dataQ \in Seq(DataMsgs)
           /\ faulted \in BOOLEAN /\ broken \in BOOLEAN
           /\ cm \subseteq Chunks(meta.size)
           /\ toReq \subseteq Chunks(meta.size)
           /\ toRecv \subseteq Chunks(meta.size)
           /\ cur \in Nat /\ pos \in Nat /\ ppos \in Nat /\ pcur \in Nat
           /\ pull \in {"data", "verify", "save", "write"} => cur \in Chunks(meta.size)
           /\ pull = "data" => pos < chunk_len(meta.size, cur)
           /\ push \in {"send_hdr", "send_file"} =>
                pcur \in Chunks(file.size) /\ ppos < chunk_len(file.size, pcur)
           /\ out \in Outputs
  BY DEF TypeOK, PullTypeOK, PushTypeOK, NetTypeOK

LEMMA PullReads ==
    ASSUME TypeOK, NEW r, NEW w, NEW x, NEW y, Between(r, w, x, y),
           dataQ # << >>, pull # "failed"
    PROVE  \E c : /\ <<y, Head(dataQ), c>> \in Answers(file, faulted)
                  /\ Path(Answers(file, faulted), Tail(dataQ), c, x)
  <1>1. Path(Answers(file, faulted), dataQ, y, x)
    BY DEF Between
  <1>2. dataQ \in Seq(DataMsgs)
    BY Typed
  <1> QED BY <1>1, <1>2, PathTail

LEMMA PushReads ==
    ASSUME TypeOK, NEW r, NEW w, NEW x, NEW y, Between(r, w, x, y),
           reqQ # << >>, push # "failed"
    PROVE  \E c : /\ <<r, Head(reqQ), c>> \in Requests(file)
                  /\ Path(Requests(file), Tail(reqQ), c, w)
  <1>1. Path(Requests(file), reqQ, r, w)
    BY DEF Between
  <1>2. reqQ \in Seq(ReqMsgs)
    BY Typed
  <1> QED BY <1>1, <1>2, PathTail

(* The first message is the meta data of the file served. *)
LEMMA ReadsMeta ==
    ASSUME TypeOK, NEW r, NEW w, NEW x, NEW y, Between(r, w, x, y),
           dataQ # << >>, pull = "meta"
    PROVE  /\ Head(dataQ) = FILE_META(file)
           /\ Path(Answers(file, faulted), Tail(dataQ), Open, x)
  <1>1. y = Begun
    BY DEF Between, PullAt
  <1>2. PICK c : /\ <<Begun, Head(dataQ), c>> \in Answers(file, faulted)
                 /\ Path(Answers(file, faulted), Tail(dataQ), c, x)
    BY <1>1, PullReads
  <1> QED BY <1>2, AnswerFrom

(* Then comes the header of the next chunk of the list, *)
LEMMA ReadsHeader ==
    ASSUME TypeOK, NEW r, NEW w, NEW x, NEW y, Between(r, w, x, y),
           dataQ # << >>, pull = "recv", meta = file, NEW i, IsNext(i, toRecv)
    PROVE  /\ Head(dataQ) = CHUNK_HDR(i)
           /\ Path(Answers(file, faulted), Tail(dataQ), Inside(i, 0, toRecv \ {i}), x)
  <1>1. y = Left(toRecv)
    BY DEF Between, PullAt
  <1>2. PICK c : /\ <<Left(toRecv), Head(dataQ), c>> \in Answers(file, faulted)
                 /\ Path(Answers(file, faulted), Tail(dataQ), c, x)
    BY <1>1, PullReads
  <1>3. First(toRecv) = i
    BY Typed, FirstIsNext
  <1>4. /\ Head(dataQ) = CHUNK_HDR(First(toRecv))
        /\ c = Inside(First(toRecv), 0, toRecv \ {First(toRecv)})
    BY <1>2, HeaderFrom
  <1> QED BY <1>2, <1>3, <1>4

(* and then its bytes. *)
LEMMA ReadsData ==
    ASSUME TypeOK, NEW r, NEW w, NEW x, NEW y, Between(r, w, x, y),
           dataQ # << >>, pull = "data"
    PROVE  /\ \E b : /\ Head(dataQ) = DATA(b)
                     /\ faulted \/ b = file.data[offset(cur) + pos]
           /\ Path(Answers(file, faulted), Tail(dataQ), After(file, cur, pos, toRecv), x)
  <1>1. y = Inside(cur, pos, toRecv)
    BY DEF Between, PullAt
  <1>2. PICK c : /\ <<Inside(cur, pos, toRecv), Head(dataQ), c>> \in Answers(file, faulted)
                 /\ Path(Answers(file, faulted), Tail(dataQ), c, x)
    BY <1>1, PullReads
  <1>3. /\ c = After(file, cur, pos, toRecv)
        /\ \E b : /\ Head(dataQ) = DATA(b)
                  /\ faulted \/ b = file.data[offset(cur) + pos]
    BY <1>2, DataFrom
  <1> QED BY <1>2, <1>3

LEMMA ReadsHandshake ==
    ASSUME TypeOK, NEW r, NEW w, NEW x, NEW y, Between(r, w, x, y),
           reqQ # << >>, push = "recv_handshake"
    PROVE  Head(reqQ) = HANDSHAKE /\ Path(Requests(file), Tail(reqQ), Open, w)
  <1>1. r = Begun
    BY DEF Between, PushAt
  <1>2. PICK c : /\ <<Begun, Head(reqQ), c>> \in Requests(file)
                 /\ Path(Requests(file), Tail(reqQ), c, w)
    BY <1>1, PushReads
  <1> QED BY <1>2, RequestFrom

(* run_push finds the next chunk of the list, or COMPLETE at its end. *)
LEMMA ReadsRequest ==
    ASSUME TypeOK, NEW r, NEW w, NEW x, NEW y, Between(r, w, x, y),
           reqQ # << >>, push = "recv"
    PROVE  \/ /\ Head(reqQ) = COMPLETE /\ x = Left({})
              /\ Path(Requests(file), Tail(reqQ), End, w)
           \/ \E S \in SUBSET Chunks(file.size), i \in Chunks(file.size) :
                /\ x = Left(S) /\ IsNext(i, S) /\ Head(reqQ) = CHUNK_REQ(i)
                /\ Path(Requests(file), Tail(reqQ), Left(S \ {i}), w)
  <1>1. PICK c : /\ <<r, Head(reqQ), c>> \in Requests(file)
                 /\ Path(Requests(file), Tail(reqQ), c, w)
    BY PushReads
  <1>2. r # Open
    BY <1>1, RequestFrom
  <1>3. PICK S \in SUBSET Chunks(file.size) : r = Left(S) /\ x = Left(S)
    BY <1>2 DEF Between, PushAt
  <1>4. \/ S = {} /\ Head(reqQ) = COMPLETE /\ c = End
        \/ S \in Listed(file) /\ Head(reqQ) = CHUNK_REQ(First(S)) /\ c = Left(S \ {First(S)})
    BY <1>1, <1>3, RequestFrom
  <1>5. CASE S = {} /\ Head(reqQ) = COMPLETE /\ c = End
    BY <1>1, <1>3, <1>5
  <1>6. CASE S \in Listed(file) /\ Head(reqQ) = CHUNK_REQ(First(S)) /\ c = Left(S \ {First(S)})
    <2>1. PICK i \in S : IsNext(i, S)
      BY <1>6 DEF Listed
    <2>2. i = First(S)
      BY <2>1, Typed, FirstIsNext
    <2> QED BY <1>1, <1>3, <1>6, <2>1, <2>2
  <1> QED BY <1>4, <1>5, <1>6

(* With its own stream of requests ended, run_push has read them all. *)
LEMMA PushDrained ==
    ASSUME TypeOK, NEW r, NEW w, NEW x, NEW y, Between(r, w, x, y), push = "done"
    PROVE  reqQ = << >> /\ w = End /\ x = Left({})
  <1>1. r = End /\ x = Left({}) /\ Path(Requests(file), reqQ, r, w)
    BY DEF Between, PushAt
  <1>2. reqQ \in Seq(ReqMsgs)
    BY Typed
  <1> QED BY <1>1, <1>2, PathStuck, NothingFollows

LEMMA PullDrained ==
    ASSUME TypeOK, NEW r, NEW w, NEW x, NEW y, Between(r, w, x, y),
           pull # "failed", y = Left({})
    PROVE  dataQ = << >> /\ x = Left({})
  <1>1. Path(Answers(file, faulted), dataQ, Left({}), x)
    BY DEF Between
  <1>2. dataQ \in Seq(DataMsgs)
    BY Typed
  <1> QED BY <1>1, <1>2, PathStuck, NothingFollows

(* When run_pull opens the output, no message is under way. *)
LEMMA Quiet ==
    ASSUME TypeOK, NEW r, NEW w, NEW x, NEW y, Between(r, w, x, y), pull = "open"
    PROVE  /\ dataQ = << >>
           /\ push # "failed" => push = "recv" /\ reqQ = << >>
  <1>1. w = Open /\ y = Open /\ Path(Answers(file, faulted), dataQ, Open, x)
    BY DEF Between, PullAt
  <1>2. dataQ \in Seq(DataMsgs) /\ reqQ \in Seq(ReqMsgs)
    BY Typed
  <1>3. \A e, c : <<Open, e, c>> \notin Answers(file, faulted)
    BY AnswerFrom
  <1>4. dataQ = << >> /\ x = Open
    BY <1>1, <1>2, <1>3, PathStuck
  <1>5. ASSUME push # "failed" PROVE push = "recv" /\ reqQ = << >>
    <2>1. push \in {"recv_handshake", "send_meta", "recv", "send_hdr", "send_file", "done"}
      BY <1>5 DEF TypeOK, PushTypeOK
    <2>2. push = "recv" /\ r = Open
      BY <1>4, <2>1, Places DEF Between, PushAt
    <2>3. Path(Requests(file), reqQ, Open, Open)
      BY <1>1, <1>5, <2>2 DEF Between
    <2>4. \A e, c : <<Open, e, c>> \notin Requests(file)
      BY RequestFrom
    <2> QED BY <1>2, <2>2, <2>3, <2>4, PathStuck
  <1> QED BY <1>4, <1>5

----------------------------------------------------------------------------
(* The streams stay in step                                                 *)

LEMMA SessionInit == Init => SessionInv
  <1> SUFFICES ASSUME Init PROVE SessionInv
    OBVIOUS
  <1>1. /\ pull = "handshake" /\ push = "recv_handshake" /\ broken = FALSE
        /\ reqQ = << >> /\ dataQ = << >>
    BY DEF Init
  <1>2. PullAt(Begun, Begun) /\ PushAt(Begun, Begun)
    BY <1>1 DEF PullAt, PushAt
  <1>3. Between(Begun, Begun, Begun, Begun)
    BY <1>1, <1>2, EmptyPath DEF Between
  <1>4. InStep
    BY <1>1, <1>3 DEF InStep
  <1>5. Healthy
    BY <1>1 DEF Healthy, Transferring
  <1> QED BY <1>1, <1>4, <1>5 DEF SessionInv

(* A broken connection stays empty and broken. *)
LEMMA BrokenInStep ==
    ASSUME InStep, broken, broken' = broken, reqQ' = reqQ, dataQ' = dataQ,
           faulted => faulted'
    PROVE  InStep'
  BY DEF InStep

(* run_pull handles a message or opens the output. *)
LEMMA PullReadsInStep ==
    ASSUME TypeOK, SessionInv, NEW r, NEW w, NEW x, NEW y, Between(r, w, x, y),
           ~ broken, PullMeta \/ PullHeader \/ PullData \/ PullOpen
    PROVE  InStep'
  <1>1. /\ broken' = broken /\ faulted' = faulted /\ file' = file
        /\ push' = push /\ ppos' = ppos /\ pcur' = pcur /\ reqQ' = reqQ
    BY DEF PullMeta, PullHeader, PullData, PullOpen, pushVars, netVars, diskVars, auxVars
  <1>2. PushAt(r, x)' /\ PushAt(r, x)
    BY <1>1 DEF Between, PushAt
  <1>3. SUFFICES \E r1, w1, x1, y1 : Between(r1, w1, x1, y1)'
    BY <1>1 DEF InStep
  <1>4. push # "failed" => Path(Requests(file), reqQ, r, w)
    BY DEF Between
  <1>5. CASE PullMeta
    <2>1. /\ Head(dataQ) = FILE_META(file)
          /\ Path(Answers(file, faulted), Tail(dataQ), Open, x)
      BY <1>5, ReadsMeta DEF PullMeta
    <2>2. pull' = "load" /\ dataQ' = Tail(dataQ) /\ w = Open
      BY <1>5, <2>1 DEF PullMeta, FILE_META, Between, PullAt
    <2>3. PullAt(w, Open)'
      BY <2>2 DEF PullAt
    <2>4. Between(r, w, x, Open)'
      BY <1>1, <1>2, <1>4, <2>1, <2>2, <2>3 DEF Between
    <2> QED BY <2>4
  <1>6. CASE PullHeader
    <2>1. PICK i \in toRecv : /\ IsNext(i, toRecv) /\ cur' = i /\ pos' = 0
                              /\ toRecv' = toRecv \ {i}
                              /\ pull' = IF Head(dataQ) = CHUNK_HDR(i) THEN "data" ELSE "failed"
      BY <1>6 DEF PullHeader
    <2>2. pull = "recv" /\ dataQ # << >> /\ dataQ' = Tail(dataQ) /\ meta = file
      BY <1>6 DEF PullHeader, SessionInv
    <2>3. /\ Head(dataQ) = CHUNK_HDR(i)
          /\ Path(Answers(file, faulted), Tail(dataQ), Inside(i, 0, toRecv \ {i}), x)
      BY <2>1, <2>2, ReadsHeader
    <2>4. pull' = "data" /\ w = End
      BY <2>1, <2>2, <2>3 DEF Between, PullAt
    <2>z. PICK z : z = Inside(i, 0, toRecv \ {i})
      OBVIOUS
    <2>5. PullAt(w, z)'
      BY <2>1, <2>4, <2>z DEF PullAt
    <2>6. Between(r, w, x, z)'
      BY <1>1, <1>2, <1>4, <2>2, <2>3, <2>4, <2>5, <2>z DEF Between
    <2> QED BY <2>6
  <1>7. CASE PullData
    <2>z. PICK z : z = After(file, cur, pos, toRecv)
      OBVIOUS
    <2>1. /\ pull = "data" /\ dataQ # << >> /\ dataQ' = Tail(dataQ) /\ meta = file
          /\ toRecv' = toRecv /\ cur' = cur /\ pos' = pos + 1
          /\ pull' = IF pos + 1 = chunk_len(meta.size, cur) THEN "verify" ELSE "data"
      BY <1>7 DEF PullData, SessionInv
    <2>2. Path(Answers(file, faulted), Tail(dataQ), z, x)
      BY <2>1, <2>z, ReadsData
    <2>3. w = End
      BY <2>1 DEF Between, PullAt
    <2>4. z = IF pull' = "verify" THEN Left(toRecv') ELSE Inside(cur', pos', toRecv')
      BY <2>1, <2>z DEF After
    <2>5. PullAt(w, z)'
      BY <2>1, <2>3, <2>4 DEF PullAt
    <2>6. Between(r, w, x, z)'
      BY <1>1, <1>2, <1>4, <2>1, <2>2, <2>5 DEF Between
    <2> QED BY <2>6
  <1>8. CASE PullOpen
    <2>1. /\ pull = "open" /\ pull' \in {"request", "allocate"} /\ dataQ' = dataQ
          /\ toReq' = needed_chunks(meta, cm') /\ toRecv' = toReq' /\ meta = file
      BY <1>8 DEF PullOpen, netVars, SessionInv
    <2>2. dataQ = << >> /\ (push # "failed" => push = "recv" /\ reqQ = << >>)
      BY <2>1, Quiet
    <2>3. PICK S \in SUBSET Chunks(file.size) : S = toReq'
      BY <2>1 DEF needed_chunks
    <2>z. PICK z : z = Left(S)
      OBVIOUS
    <2>4. PullAt(z, z)'
      BY <2>1, <2>3, <2>z DEF PullAt
    <2>5. PushAt(z, z)'
      <3>1. push' # "failed" => push' = "recv"
        BY <1>1, <2>2
      <3>2. push' \in {"recv", "failed"}
        BY <3>1
      <3>3. \E T \in SUBSET Chunks(file'.size) : z = Left(T)
        BY <1>1, <2>z
      <3> QED BY <3>2, <3>3 DEF PushAt
    <2>6. Between(z, z, z, z)'
      BY <1>1, <2>1, <2>2, <2>4, <2>5, EmptyPath DEF Between
    <2> QED BY <2>6
  <1> QED BY <1>5, <1>6, <1>7, <1>8

(* run_pull sends a message. *)
LEMMA PullSendsInStep ==
    ASSUME TypeOK, SessionInv, NEW r, NEW w, NEW x, NEW y, Between(r, w, x, y),
           ~ broken, PullHandshake \/ PullRequest \/ PullComplete
    PROVE  InStep'
  <1>1. /\ broken' = broken /\ faulted' = faulted /\ file' = file
        /\ push' = push /\ ppos' = ppos /\ pcur' = pcur /\ dataQ' = dataQ
        /\ toRecv' = toRecv /\ pull # "failed" /\ pull' # "failed"
    BY DEF PullHandshake, PullRequest, PullComplete, pushVars, diskVars, auxVars
  <1>2. /\ PushAt(r, x)' /\ Path(Answers(file, faulted), dataQ, y, x)
        /\ push # "failed" => Path(Requests(file), reqQ, r, w)
    BY <1>1 DEF Between, PushAt
  <1>3. file \in Files /\ reqQ \in Seq(ReqMsgs)
    BY Typed
  <1>4. ASSUME NEW e \in ReqMsgs, NEW z, <<w, e, z>> \in Requests(file),
               reqQ' = Append(reqQ, e), PullAt(z, y)'
        PROVE  InStep'
    <2>1. push # "failed" => Path(Requests(file), Append(reqQ, e), r, z)
      BY <1>2, <1>3, <1>4, PathAppend
    <2>2. Between(r, z, x, y)'
      BY <1>1, <1>2, <1>4, <2>1 DEF Between
    <2> QED BY <1>1, <2>2 DEF InStep
  <1>5. CASE PullHandshake
    <2>1. /\ pull' = "meta" /\ w = Begun /\ y = Begun /\ reqQ' = Append(reqQ, HANDSHAKE)
      BY <1>5 DEF PullHandshake, Between, PullAt
    <2>2. HANDSHAKE \in ReqMsgs
      BY DEF HANDSHAKE, ReqMsgs
    <2>3. PullAt(Open, y)'
      BY <2>1 DEF PullAt
    <2> QED BY <1>3, <1>4, <2>1, <2>2, <2>3, MaySend
  <1>6. CASE PullRequest
    <2>1. PICK i \in toReq : /\ IsNext(i, toReq) /\ reqQ' = Append(reqQ, CHUNK_REQ(i))
                             /\ toReq' = toReq \ {i}
      BY <1>6 DEF PullRequest
    <2>2. pull = "request" /\ pull' = "request" /\ meta = file
      BY <1>6 DEF PullRequest, SessionInv
    <2>3. w = Left(toReq) /\ y = Left(toRecv)
      BY <2>2 DEF Between, PullAt
    <2>4. toReq \in SUBSET Chunks(file.size)
      BY <2>2, Typed
    <2>5. i \in Nat
      BY <1>3, <2>1, <2>4, FirstIsNext
    <2>6. CHUNK_REQ(i) \in ReqMsgs
      BY <2>5 DEF CHUNK_REQ, ReqMsgs
    <2>z. PICK z : z = Left(toReq \ {i})
      OBVIOUS
    <2>7. PullAt(z, y)'
      BY <1>1, <2>1, <2>2, <2>3, <2>z DEF PullAt
    <2>8. <<w, CHUNK_REQ(i), z>> \in Requests(file)
      BY <1>3, <2>1, <2>3, <2>4, <2>z, MaySend
    <2> QED BY <1>4, <2>1, <2>6, <2>7, <2>8
  <1>7. CASE PullComplete
    <2>1. /\ pull' = "recv" /\ w = Left({}) /\ y = Left(toRecv) /\ reqQ' = Append(reqQ, COMPLETE)
      BY <1>7 DEF PullComplete, Between, PullAt
    <2>2. COMPLETE \in ReqMsgs
      BY DEF COMPLETE, ReqMsgs
    <2>3. PullAt(End, y)'
      BY <1>1, <2>1 DEF PullAt
    <2> QED BY <1>3, <1>4, <2>1, <2>2, <2>3, MaySend
  <1> QED BY <1>5, <1>6, <1>7

(* run_pull works on the output and the record, or ends. *)
LEMMA PullWorksInStep ==
    ASSUME TypeOK, SessionInv, NEW r, NEW w, NEW x, NEW y, Between(r, w, x, y),
           ~ broken,
           \/ PullLoad \/ PullAllocate \/ PullVerify \/ PullSaveOpen \/ PullSaveWrite
           \/ PullFinish \/ PullIoFails
    PROVE  InStep'
  <1>1. /\ broken' = broken /\ faulted' = faulted /\ file' = file
        /\ push' = push /\ ppos' = ppos /\ pcur' = pcur /\ reqQ' = reqQ /\ dataQ' = dataQ
        /\ toReq' = toReq /\ toRecv' = toRecv /\ pull # "failed"
    BY DEF PullLoad, PullAllocate, PullVerify, PullSaveOpen, PullSaveWrite, PullFinish,
           PullIoFails, pushVars, netVars, diskVars, auxVars
  <1>2. PullAt(w, y)'
    <2>1. CASE PullLoad
      BY <2>1 DEF PullLoad, Between, PullAt
    <2>2. CASE PullAllocate
      BY <1>1, <2>2 DEF PullAllocate, Between, PullAt
    <2>3. CASE PullVerify
      BY <1>1, <2>3 DEF PullVerify, Between, PullAt
    <2>4. CASE PullSaveOpen
      BY <1>1, <2>4 DEF PullSaveOpen, Between, PullAt
    <2>5. CASE PullSaveWrite
      BY <1>1, <2>5 DEF PullSaveWrite, Between, PullAt
    <2>6. CASE PullFinish
      <3>1. pull = "recv" /\ toRecv = {} /\ pull' \in {"complete", "incomplete"}
        BY <2>6 DEF PullFinish
      <3> QED BY <3>1 DEF Between, PullAt
    <2>7. CASE PullIoFails
      BY <2>7 DEF PullIoFails, PullAt
    <2> QED BY <2>1, <2>2, <2>3, <2>4, <2>5, <2>6, <2>7
  <1>3. PushAt(r, x)'
    BY <1>1 DEF Between, PushAt
  <1>4. Between(r, w, x, y)'
    BY <1>1, <1>2, <1>3 DEF Between
  <1> QED BY <1>1, <1>4 DEF InStep

(* No request of the list is out of run_push's range. *)
LEMMA NextInRange ==
    ASSUME file \in Files, NEW S \in SUBSET Chunks(file.size), NEW i, IsNext(i, S)
    PROVE  InRange(i)
  <1>1. chunk_count(file.size) \in Nat
    BY FileType, ChunkAssumption, DivBounds, file.size + ChunkSize - 1 \in Nat DEF chunk_count
  <1>2. i \in Chunks(file.size)
    BY DEF IsNext
  <1> QED BY <1>1, <1>2 DEF Chunks, InRange

(* run_push handles a message, or fails. *)
LEMMA PushReadsInStep ==
    ASSUME TypeOK, SessionInv, NEW r, NEW w, NEW x, NEW y, Between(r, w, x, y),
           ~ broken, PushHandshake \/ PushRecv \/ PushIoFails
    PROVE  InStep'
  <1>1. /\ broken' = broken /\ faulted' = faulted /\ file' = file /\ dataQ' = dataQ
        /\ UNCHANGED pullVars
    BY DEF PushHandshake, PushRecv, PushIoFails, netVars, auxVars
  <1>2. /\ PullAt(w, y)'
        /\ pull' # "failed" => Path(Answers(file, faulted), dataQ, y, x)
    BY <1>1 DEF Between, PullAt, pullVars
  <1>3. SUFFICES \E r1, w1, x1, y1 : Between(r1, w1, x1, y1)'
    BY <1>1 DEF InStep
  <1>4. CASE PushHandshake
    <2>1. Head(reqQ) = HANDSHAKE /\ Path(Requests(file), Tail(reqQ), Open, w)
      BY <1>4, ReadsHandshake DEF PushHandshake
    <2>2. push' = "send_meta" /\ reqQ' = Tail(reqQ) /\ x = Begun
      BY <1>4, <2>1 DEF PushHandshake, Between, PushAt
    <2>3. PushAt(Open, x)'
      BY <2>2 DEF PushAt
    <2>4. Between(Open, w, x, y)'
      BY <1>1, <1>2, <2>1, <2>2, <2>3 DEF Between
    <2> QED BY <2>4
  <1>5. CASE PushRecv
    <2>1. push = "recv" /\ reqQ # << >> /\ reqQ' = Tail(reqQ)
      BY <1>5 DEF PushRecv
    <2>2. CASE /\ Head(reqQ) = COMPLETE /\ x = Left({})
               /\ Path(Requests(file), Tail(reqQ), End, w)
      <3>1. push' = "done"
        BY <1>5, <2>2 DEF PushRecv, COMPLETE
      <3>2. PushAt(End, x)'
        BY <2>2, <3>1 DEF PushAt
      <3>3. Between(End, w, x, y)'
        BY <1>1, <1>2, <2>1, <2>2, <3>1, <3>2 DEF Between
      <3> QED BY <3>3
    <2>3. CASE \E S \in SUBSET Chunks(file.size), i \in Chunks(file.size) :
                 /\ x = Left(S) /\ IsNext(i, S) /\ Head(reqQ) = CHUNK_REQ(i)
                 /\ Path(Requests(file), Tail(reqQ), Left(S \ {i}), w)
      <3>1. PICK S \in SUBSET Chunks(file.size), i \in Chunks(file.size) :
                 /\ x = Left(S) /\ IsNext(i, S) /\ Head(reqQ) = CHUNK_REQ(i)
                 /\ Path(Requests(file), Tail(reqQ), Left(S \ {i}), w)
        BY <2>3
      <3>2. InRange(i)
        BY <3>1, Typed, NextInRange
      <3>3. push' = "send_hdr" /\ pcur' = i /\ ppos' = 0
        BY <1>5, <3>1, <3>2 DEF PushRecv, CHUNK_REQ
      <3>4. PICK z : z = Left(S \ {i})
        OBVIOUS
      <3>5. PushAt(z, x)'
        BY <1>1, <3>1, <3>3, <3>4 DEF PushAt
      <3>6. Between(z, w, x, y)'
        BY <1>1, <1>2, <2>1, <3>1, <3>3, <3>4, <3>5 DEF Between
      <3> QED BY <3>6
    <2>4. \/ /\ Head(reqQ) = COMPLETE /\ x = Left({})
             /\ Path(Requests(file), Tail(reqQ), End, w)
          \/ \E S \in SUBSET Chunks(file.size), i \in Chunks(file.size) :
                /\ x = Left(S) /\ IsNext(i, S) /\ Head(reqQ) = CHUNK_REQ(i)
                /\ Path(Requests(file), Tail(reqQ), Left(S \ {i}), w)
      BY <2>1, ReadsRequest
    <2> QED BY <2>2, <2>3, <2>4
  <1>6. CASE PushIoFails
    <2>1. push' = "failed"
      BY <1>6 DEF PushIoFails
    <2>2. PushAt(r, x)'
      BY <2>1 DEF PushAt
    <2>3. Between(r, w, x, y)'
      BY <1>1, <1>2, <2>1, <2>2 DEF Between
    <2> QED BY <2>3
  <1> QED BY <1>4, <1>5, <1>6

(* run_push sends a message. *)
LEMMA PushSendsInStep ==
    ASSUME TypeOK, TypeOK', SessionInv, NEW r, NEW w, NEW x, NEW y, Between(r, w, x, y),
           ~ broken, PushMeta \/ PushHeader \/ PushData
    PROVE  InStep'
  <1>1. /\ broken' = broken /\ file' = file /\ pcur' = pcur /\ reqQ' = reqQ
        /\ UNCHANGED pullVars /\ push # "failed" /\ push' # "failed"
    BY DEF PushMeta, PushHeader, PushData, auxVars
  <1>2. /\ PullAt(w, y)' /\ Path(Requests(file), reqQ, r, w)
        /\ pull # "failed" => Path(Answers(file, faulted), dataQ, y, x)
    BY <1>1 DEF Between, PullAt, pullVars
  <1>3. /\ file \in Files /\ dataQ \in Seq(DataMsgs)
        /\ faulted \in BOOLEAN /\ faulted' \in BOOLEAN
    BY Typed DEF TypeOK
  <1>4. ASSUME NEW e \in DataMsgs, NEW z, <<x, e, z>> \in Answers(file, faulted'),
               faulted => faulted', dataQ' = Append(dataQ, e), PushAt(r, z)'
        PROVE  InStep'
    <2>1. pull # "failed" => Path(Answers(file, faulted'), dataQ, y, x)
      BY <1>2, <1>3, <1>4, AnswersGrow
    <2>2. pull # "failed" => Path(Answers(file, faulted'), Append(dataQ, e), y, z)
      BY <1>3, <1>4, <2>1, PathAppend
    <2>3. Between(r, w, z, y)'
      BY <1>1, <1>2, <1>4, <2>2 DEF Between, pullVars
    <2> QED BY <1>1, <2>3 DEF InStep
  <1>5. CASE PushMeta
    <2>1. /\ push' = "recv" /\ r = Open /\ x = Begun /\ faulted' = faulted
          /\ dataQ' = Append(dataQ, FILE_META(file))
      BY <1>5 DEF PushMeta, Between, PushAt, auxVars
    <2>2. FILE_META(file) \in DataMsgs
      BY <1>3 DEF FILE_META, DataMsgs
    <2>3. PushAt(r, Open)'
      BY <2>1 DEF PushAt
    <2> QED BY <1>3, <1>4, <2>1, <2>2, <2>3, MaySend
  <1>6. CASE PushHeader
    <2>1. /\ push = "send_hdr" /\ push' = "send_file" /\ ppos' = ppos /\ faulted' = faulted
          /\ dataQ' = Append(dataQ, CHUNK_HDR(pcur))
      BY <1>6 DEF PushHeader, auxVars
    <2>2. PICK S \in SUBSET Chunks(file.size) :
              IsNext(pcur, S) /\ ppos = 0 /\ r = Left(S \ {pcur}) /\ x = Left(S)
      BY <2>1 DEF Between, PushAt
    <2>3. CHUNK_HDR(pcur) \in DataMsgs
      BY Typed DEF CHUNK_HDR, DataMsgs
    <2>z. PICK z : z = Inside(pcur, 0, S \ {pcur})
      OBVIOUS
    <2>4. PushAt(r, z)'
      <3>1. PICK T \in SUBSET Chunks(file.size) : T = S \ {pcur}
        OBVIOUS
      <3>2. r = Left(T) /\ z = Inside(pcur', ppos', T)
        BY <1>1, <2>1, <2>2, <2>z, <3>1
      <3> QED BY <1>1, <2>1, <3>2 DEF PushAt
    <2>5. <<x, CHUNK_HDR(pcur), z>> \in Answers(file, faulted')
      <3>1. pcur \in Chunks(file.size)
        BY <2>2 DEF IsNext
      <3> QED BY <1>3, <2>2, <2>z, <3>1, MaySend
    <2> QED BY <1>4, <2>1, <2>3, <2>4, <2>5
  <1>7. CASE PushData
    <2>1. PICK b \in {file.data[SendOffset]} \union Edits :
             /\ dataQ' = Append(dataQ, DATA(b))
             /\ faulted' = (faulted \/ b # file.data[SendOffset])
      BY <1>7 DEF PushData
    <2>2. /\ push = "send_file" /\ ppos' = ppos + 1
          /\ push' = IF ppos + 1 = chunk_len(file.size, pcur) THEN "recv" ELSE "send_file"
      BY <1>7 DEF PushData
    <2>3. PICK S \in SUBSET Chunks(file.size) : r = Left(S) /\ x = Inside(pcur, ppos, S)
      BY <2>2 DEF Between, PushAt
    <2>4. pcur \in Chunks(file.size) /\ ppos \in Nat /\ ppos < chunk_len(file.size, pcur)
      BY <2>2, Typed
    <2>5. b \in Byte
      BY <1>3, <2>1, <2>4, ByteInFile, FilesAssumption DEF SendOffset
    <2>6. DATA(b) \in DataMsgs
      BY <2>5 DEF DATA, DataMsgs
    <2>z. PICK z : z = After(file, pcur, ppos, S)
      OBVIOUS
    <2>7. z = IF push' = "recv" THEN Left(S) ELSE Inside(pcur', ppos', S)
      BY <1>1, <2>2, <2>z DEF After
    <2>8. PushAt(r, z)'
      BY <1>1, <2>2, <2>3, <2>7 DEF PushAt
    <2>9. faulted' \/ b = file.data[offset(pcur) + ppos]
      BY <2>1 DEF SendOffset
    <2>10. <<x, DATA(b), z>> \in Answers(file, faulted')
      BY <1>3, <2>3, <2>4, <2>5, <2>9, <2>z, MaySendData
    <2> QED BY <1>4, <2>1, <2>6, <2>8, <2>10
  <1> QED BY <1>5, <1>6, <1>7

(* A fault, or a new session. *)
LEMMA EnvInStep ==
    ASSUME TypeOK, TypeOK', SessionInv, Env
    PROVE  InStep'
  <1>f. faulted \in BOOLEAN
    BY Typed
  <1>1. CASE StartSession
    <2>1. /\ pull' = "handshake" /\ push' = "recv_handshake" /\ broken' = FALSE
          /\ reqQ' = << >> /\ dataQ' = << >>
      BY <1>1 DEF StartSession
    <2>2. PullAt(Begun, Begun)' /\ PushAt(Begun, Begun)'
      BY <2>1 DEF PullAt, PushAt
    <2>3. Between(Begun, Begun, Begun, Begun)'
      BY <2>1, <2>2, EmptyPath DEF Between
    <2> QED BY <2>1, <2>3 DEF InStep
  <1>2. CASE ConnReset
    BY <1>2 DEF ConnReset, Fault, InStep
  <1>3. CASE PullDies \/ PushDies \/ OutputVanishes
    <2>1. UNCHANGED netVars /\ file' = file /\ pcur' = pcur /\ ppos' = ppos /\ faulted' = TRUE
      BY <1>3 DEF PullDies, PushDies, OutputVanishes, Fault, pushVars
    <2>2. CASE broken
      BY <2>1, <2>2, BrokenInStep DEF netVars, SessionInv
    <2>3. CASE ~ broken
      <3>1. PICK r, w, x, y : Between(r, w, x, y)
        BY <2>3 DEF SessionInv, InStep
      <3>2. PullAt(w, y)' /\ (pull' = pull \/ pull' = "failed")
        BY <1>3, <3>1 DEF PullDies, PushDies, OutputVanishes, pullVars, Between, PullAt
      <3>3. PushAt(r, x)' /\ (push' = push \/ push' = "failed")
        BY <1>3, <2>1, <3>1 DEF PullDies, PushDies, OutputVanishes, pushVars, Between, PushAt
      <3>4. push' # "failed" => Path(Requests(file), reqQ, r, w)
        BY <3>1, <3>3 DEF Between
      <3>5. pull' # "failed" => Path(Answers(file, TRUE), dataQ, y, x)
        BY <1>f, <3>1, <3>2, AnswersGrow DEF Between
      <3>6. Between(r, w, x, y)'
        BY <2>1, <3>2, <3>3, <3>4, <3>5 DEF Between, netVars
      <3> QED BY <2>1, <2>3, <3>6 DEF InStep, netVars
    <2> QED BY <2>2, <2>3
  <1> QED BY <1>1, <1>2, <1>3 DEF Env

LEMMA StepsInStep == ResumeInv /\ TypeOK' /\ SessionInv /\ [Next]_vars => InStep'
  <1> SUFFICES ASSUME ResumeInv, TypeOK', SessionInv, [Next]_vars PROVE InStep'
    OBVIOUS
  <1>t. TypeOK /\ InStep
    BY DEF ResumeInv, SessionInv
  <1>1. CASE Env
    BY <1>1, <1>t, EnvInStep
  <1>2. CASE Finished \/ UNCHANGED vars
    <2>1. UNCHANGED vars
      BY <1>2 DEF Finished
    <2>2. /\ broken' = broken /\ faulted' = faulted /\ reqQ' = reqQ /\ dataQ' = dataQ
          /\ \A r, w, x, y : Between(r, w, x, y) => Between(r, w, x, y)'
      BY <2>1 DEF vars, pullVars, pushVars, netVars, auxVars, Between, PullAt, PushAt
    <2> QED BY <1>t, <2>2 DEF InStep
  <1>3. CASE (PullStep \/ PushStep) /\ broken
    <2>1. reqQ = << >> /\ dataQ = << >> /\ faulted
      BY <1>3, <1>t DEF InStep
    <2>2. broken' = broken /\ reqQ' = reqQ /\ dataQ' = dataQ /\ faulted'
      BY <1>3, <2>1
         DEF PullStep, PushStep, PullHandshake, PullMeta, PullLoad, PullOpen, PullAllocate,
             PullRequest, PullComplete, PullHeader, PullData, PullVerify, PullSaveOpen,
             PullSaveWrite, PullFinish, PullIoFails, PushHandshake, PushMeta, PushRecv,
             PushHeader, PushData, PushIoFails, CanSendReq, CanSendData, netVars, auxVars
    <2> QED BY <1>3, <1>t, <2>2, BrokenInStep
  <1>4. CASE (PullStep \/ PushStep) /\ ~ broken
    <2>1. PICK r, w, x, y : Between(r, w, x, y)
      BY <1>4, <1>t DEF InStep
    <2>2. CASE PullStep
      BY <1>4, <1>t, <2>1, <2>2, PullReadsInStep, PullSendsInStep, PullWorksInStep DEF PullStep
    <2>3. CASE PushStep
      BY <1>4, <1>t, <2>1, <2>3, PushReadsInStep, PushSendsInStep DEF PushStep
    <2> QED BY <1>4, <2>2, <2>3
  <1> QED BY <1>1, <1>2, <1>3, <1>4 DEF Next

----------------------------------------------------------------------------
(* Nothing fails without a fault                                            *)

(* Without a fault, a side that finds the other gone has no more to do. *)
LEMMA PullNeverAlone ==
    ASSUME TypeOK, SessionInv, ~ faulted PROVE ~ PullIoFails
  <1> SUFFICES ASSUME PullIoFails PROVE FALSE
    OBVIOUS
  <1>1. ~ broken /\ InStep /\ Healthy
    BY DEF SessionInv, InStep
  <1>2. PICK r, w, x, y : Between(r, w, x, y)
    BY <1>1 DEF InStep
  <1>3. push = "done"
    BY <1>1 DEF PullIoFails, PushGone, PushOver, PushLive, Healthy
  <1>4. w = End /\ x = Left({})
    BY <1>2, <1>3, PushDrained
  <1>5. /\ pull \in {"handshake", "meta", "request", "recv", "data"}
        /\ pull \in {"recv", "data"} => dataQ = << >>
        /\ pull = "recv" => toRecv # {}
    BY DEF PullIoFails
  <1>6. /\ pull = "handshake" => w = Begun
        /\ pull = "meta" => w = Open
        /\ pull = "request" => w = Left(toReq)
        /\ pull = "recv" => y = Left(toRecv)
        /\ pull = "data" => y = Inside(cur, pos, toRecv)
    BY <1>2 DEF Between, PullAt
  <1>7. pull \in {"recv", "data"}
    BY <1>4, <1>5, <1>6, Places
  <1>8. y = Left({})
    BY <1>2, <1>4, <1>5, <1>7, EmptyPath DEF Between
  <1>9. pull # "data"
    BY <1>6, <1>8, Places
  <1> QED BY <1>5, <1>6, <1>7, <1>8, <1>9, Places

LEMMA PushNeverAlone ==
    ASSUME TypeOK, SessionInv, ~ faulted PROVE ~ PushIoFails
  <1> SUFFICES ASSUME PushIoFails PROVE FALSE
    OBVIOUS
  <1>1. ~ broken /\ InStep /\ Healthy
    BY DEF SessionInv, InStep
  <1>2. PICK r, w, x, y : Between(r, w, x, y)
    BY <1>1 DEF InStep
  <1>3. pull = "complete"
    BY <1>1 DEF PushIoFails, PullOver, PullLive, Healthy
  <1>4. w = End /\ y = Left({})
    BY <1>2, <1>3 DEF Between, PullAt
  <1>5. x = Left({})
    BY <1>2, <1>3, <1>4, PullDrained
  <1>6. /\ push \in {"recv_handshake", "recv", "send_meta", "send_hdr", "send_file"}
        /\ push = "recv" => reqQ = << >>
    BY DEF PushIoFails
  <1>7. /\ push \in {"recv_handshake", "send_meta"} => x = Begun
        /\ push = "recv" => r = x
        /\ push = "send_hdr" => \E S : IsNext(pcur, S) /\ x = Left(S)
        /\ push = "send_file" => \E S : x = Inside(pcur, ppos, S)
    BY <1>2 DEF Between, PushAt
  <1>8. push = "recv"
    <2>1. ~ IsNext(pcur, {})
      BY DEF IsNext
    <2> QED BY <1>5, <1>6, <1>7, <2>1, Places
  <1>9. r = w
    BY <1>2, <1>6, <1>8, EmptyPath DEF Between
  <1> QED BY <1>4, <1>5, <1>7, <1>8, <1>9, Places

(* The bytes written so far, and the one written now, are the file's. *)
LEMMA BytesIntact ==
    ASSUME NEW o \in Outputs, NEW f \in Files, NEW i \in Chunks(f.size), NEW p \in Nat,
           p < chunk_len(f.size, i),
           \A k \in 0 .. p - 1 :
             offset(i) + k < o.size /\ o.data[offset(i) + k] = f.data[offset(i) + k]
    PROVE  LET n == Written(o, offset(i) + p, f.data[offset(i) + p])
           IN  \A k \in 0 .. p :
                 offset(i) + k < n.size /\ n.data[offset(i) + k] = f.data[offset(i) + k]
  <1> DEFINE b == offset(i) + p
             n == Written(o, b, f.data[b])
  <1>1. /\ b \in Offsets /\ offset(i) \in Nat
    BY ByteInFile, FileType, ChunkRange
  <1>2. /\ o.size \in Nat /\ o.data \in [Offsets -> Byte]
    BY DEF Outputs
  <1>3. /\ n.size = IF o.size <= b THEN b + 1 ELSE o.size
        /\ n.data = [o.data EXCEPT ![b] = f.data[b]]
    BY DEF Written
  <1> HIDE DEF n
  <1>4. b \in Nat /\ b < n.size /\ o.size <= n.size /\ n.size \in Nat
    BY <1>1, <1>2, <1>3
  <1>5. n.data[b] = f.data[b]
    BY <1>1, <1>2, <1>3
  <1>6. ASSUME NEW k \in 0 .. p - 1
        PROVE  offset(i) + k < n.size /\ n.data[offset(i) + k] = f.data[offset(i) + k]
    <2>1. offset(i) + k < o.size /\ o.data[offset(i) + k] = f.data[offset(i) + k]
      OBVIOUS
    <2>2. offset(i) + k \in Nat /\ offset(i) + k < b
      BY <1>1
    <2>3. offset(i) + k \in Offsets
      BY <1>1, <2>2, ChunkAssumption DEF Offsets
    <2>4. offset(i) + k < n.size
      BY <1>2, <1>4, <2>1, <2>2
    <2> QED BY <1>2, <1>3, <2>1, <2>2, <2>3, <2>4
  <1>7. \A k \in 0 .. p : k = p \/ k \in 0 .. p - 1
    OBVIOUS
  <1> QED BY <1>4, <1>5, <1>6, <1>7 DEF n

LEMMA WholeChunk ==
    ASSUME NEW o \in Outputs, o.exists, NEW f \in Files, NEW i \in Chunks(f.size), NEW p \in Nat,
           p + 1 = chunk_len(f.size, i),
           \A k \in 0 .. p :
             offset(i) + k < o.size /\ o.data[offset(i) + k] = f.data[offset(i) + k]
    PROVE  ChunkMatches(o, f, i)
  <1>1. offset(i) \in Nat
    BY FileType, ChunkRange
  <1>2. ASSUME NEW b \in ChunkBytes(f.size, i) PROVE b < o.size /\ o.data[b] = f.data[b]
    <2>1. PICK k \in 0 .. p : b = offset(i) + k
      <3>1. b \in offset(i) .. offset(i) + (p + 1) - 1
        BY <1>2 DEF ChunkBytes
      <3>2. b - offset(i) \in 0 .. p /\ b = offset(i) + (b - offset(i))
        BY <1>1, <3>1
      <3> QED BY <3>2
    <2> QED BY <2>1
  <1> QED BY <1>2 DEF ChunkMatches

LEMMA HealthyStep ==
    ASSUME ResumeInv, SessionInv, TypeOK', [Next]_vars, ~ faulted'
    PROVE  Healthy'
  <1>t. /\ TypeOK /\ InStep /\ file \in Files /\ meta \in Files
        /\ pull \notin {"handshake", "meta", "failed"} => meta = file
    BY Typed DEF ResumeInv, SessionInv
  <1>1. CASE StartSession
    BY <1>1 DEF StartSession, Healthy, Transferring
  <1>2. CASE ~ StartSession
    <2>1. ~ faulted
      BY <1>2 DEF Next, PullStep, PushStep, Env, PullHandshake, PullMeta, PullLoad, PullOpen,
            PullAllocate, PullRequest, PullComplete, PullHeader, PullData, PullVerify,
            PullSaveOpen, PullSaveWrite, PullFinish, PullIoFails, PushHandshake, PushMeta,
            PushRecv, PushHeader, PushData, PushIoFails, PullDies, PushDies, ConnReset,
            OutputVanishes, Fault, Finished, vars, auxVars
    <2>2. Healthy /\ ~ broken
      BY <1>t, <2>1 DEF SessionInv, InStep
    <2>3. PICK r, w, x, y : Between(r, w, x, y)
      BY <1>t, <2>2 DEF InStep
    <2> USE DEF Healthy, Underway, Transferring
    <2>4. CASE Finished \/ UNCHANGED vars
      BY <2>2, <2>4 DEF Finished, vars, pullVars, pushVars, diskVars
    <2>5. CASE PushStep
      <3>1. UNCHANGED pullVars /\ UNCHANGED diskVars /\ file' = file
        BY <2>5 DEF PushStep, PushHandshake, PushMeta, PushRecv, PushHeader, PushData, PushIoFails
      <3>2. push' # "failed"
        <4>1. CASE PushHandshake
          BY <1>t, <2>3, <4>1, ReadsHandshake DEF PushHandshake
        <4>2. CASE PushRecv
          <5>1. push = "recv" /\ reqQ # << >>
            BY <4>2 DEF PushRecv
          <5>2. \/ Head(reqQ) = COMPLETE
                \/ \E S \in SUBSET Chunks(file.size), i \in Chunks(file.size) :
                   IsNext(i, S) /\ Head(reqQ) = CHUNK_REQ(i)
            BY <1>t, <2>3, <5>1, ReadsRequest
          <5>3. CASE Head(reqQ) = COMPLETE
            BY <4>2, <5>3 DEF PushRecv, COMPLETE
          <5>4. CASE \E S \in SUBSET Chunks(file.size), i \in Chunks(file.size) :
                   IsNext(i, S) /\ Head(reqQ) = CHUNK_REQ(i)
            <6>1. PICK S \in SUBSET Chunks(file.size), i \in Chunks(file.size) :
                   IsNext(i, S) /\ Head(reqQ) = CHUNK_REQ(i)
              BY <5>4
            <6>2. InRange(i)
              BY <1>t, <6>1, NextInRange
            <6> QED BY <4>2, <6>1, <6>2 DEF PushRecv, CHUNK_REQ
          <5> QED BY <5>2, <5>3, <5>4
        <4>3. CASE PushMeta \/ PushHeader \/ PushData
          BY <4>3 DEF PushMeta, PushHeader, PushData
        <4>4. ~ PushIoFails
          BY <1>t, <2>1, PushNeverAlone
        <4> QED BY <2>5, <4>1, <4>2, <4>3, <4>4 DEF PushStep
      <3> QED BY <2>2, <3>1, <3>2 DEF pullVars, diskVars
    <2>6. CASE PullStep
      <3>1. push' = push /\ file' = file
        BY <2>6 DEF PullStep, PullHandshake, PullMeta, PullLoad, PullOpen, PullAllocate,
             PullRequest, PullComplete, PullHeader, PullData, PullVerify, PullSaveOpen,
             PullSaveWrite, PullFinish, PullIoFails, pushVars
      <3>2. CASE PullHandshake \/ PullLoad
        BY <2>2, <3>1, <3>2 DEF PullHandshake, PullLoad
      <3>3. CASE PullMeta
        <4>1. Head(dataQ) = FILE_META(file)
          BY <1>t, <2>3, <3>3, ReadsMeta DEF PullMeta
        <4>2. pull' = "load"
          BY <3>3, <4>1 DEF PullMeta, FILE_META
        <4> QED BY <2>2, <3>1, <4>2
      <3>4. CASE PullOpen
        BY <1>t, <2>2, <3>1, <3>4 DEF PullOpen, needed_chunks
      <3>5. CASE PullAllocate \/ PullRequest \/ PullComplete
        BY <2>2, <3>1, <3>5 DEF PullAllocate, PullRequest, PullComplete
      <3>6. CASE PullHeader
        <4>1. PICK i \in toRecv : /\ IsNext(i, toRecv) /\ cur' = i /\ pos' = 0
                                  /\ toRecv' = toRecv \ {i}
                                  /\ pull' = IF Head(dataQ) = CHUNK_HDR(i) THEN "data" ELSE "failed"
          BY <3>6 DEF PullHeader
        <4>2. pull = "recv" /\ dataQ # << >> /\ cm' = cm
          BY <3>6 DEF PullHeader
        <4>3. Head(dataQ) = CHUNK_HDR(i)
          BY <1>t, <2>3, <4>1, <4>2, ReadsHeader
        <4>4. pull' = "data" /\ pos' = 0
          BY <4>1, <4>3
        <4>5. Chunks(file.size) \subseteq cm' \union toRecv' \union {cur'}
          BY <2>2, <4>1, <4>2
        <4> QED BY <2>2, <3>1, <4>4, <4>5
      <3>7. CASE PullData
        <4>1. /\ pull = "data" /\ dataQ # << >> /\ cm' = cm /\ toRecv' = toRecv /\ cur' = cur
              /\ pos' = pos + 1
              /\ pull' = IF pos + 1 = chunk_len(file.size, cur) THEN "verify" ELSE "data"
          BY <1>t, <3>7 DEF PullData
        <4>2. Head(dataQ) = DATA(file.data[offset(cur) + pos])
          BY <1>t, <2>1, <2>3, <4>1, ReadsData
        <4>3. out' = Written(out, offset(cur) + pos, file.data[offset(cur) + pos])
          BY <3>7, <4>2 DEF PullData, Delivered, DATA
        <4>4. /\ out \in Outputs /\ out' \in Outputs /\ out.exists /\ pos \in Nat
              /\ cur \in Chunks(file.size) /\ pos < chunk_len(file.size, cur)
          BY <1>t, <4>1, Typed DEF ResumeInv, OutputFits, TypeOK
        <4>5. \A k \in 0 .. pos :
                 /\ offset(cur) + k < out'.size
                 /\ out'.data[offset(cur) + k] = file.data[offset(cur) + k]
          BY <1>t, <2>2, <4>1, <4>3, <4>4, BytesIntact
        <4>6. out'.exists
          BY <4>3, <4>4 DEF Written
        <4>7. CASE pos + 1 = chunk_len(file.size, cur)
          <5>1. ChunkMatches(out', file, cur)
            BY <1>t, <4>4, <4>5, <4>6, <4>7, WholeChunk
          <5>2. pull' = "verify"
            BY <4>1, <4>7
          <5> QED BY <2>2, <3>1, <4>1, <5>1, <5>2
        <4>8. CASE pos + 1 # chunk_len(file.size, cur)
          <5>1. pull' = "data" /\ pos' - 1 = pos
            BY <4>1, <4>4, <4>8
          <5> QED BY <2>2, <3>1, <4>1, <4>5, <5>1
        <4> QED BY <4>7, <4>8
      <3>8. CASE PullVerify
        <4>1. pull = "verify" /\ pull' = "save" /\ toRecv' = toRecv /\ cm' = cm \union {cur}
          BY <1>t, <2>2, <3>8 DEF PullVerify, Verified
        <4> QED BY <2>2, <3>1, <4>1
      <3>9. CASE PullSaveOpen \/ PullSaveWrite
        BY <2>2, <3>1, <3>9 DEF PullSaveOpen, PullSaveWrite
      <3>10. CASE PullFinish
        <4>1. Chunks(file.size) \subseteq cm /\ meta = file
          BY <1>t, <2>2, <3>10 DEF PullFinish
        <4>2. cm = Chunks(meta.size)
          BY <1>t, <4>1, Typed
        <4>3. pull' = "complete"
          BY <3>10, <4>2 DEF PullFinish
        <4> QED BY <2>2, <3>1, <4>3
      <3>11. ~ PullIoFails
        BY <1>t, <2>1, PullNeverAlone
      <3> QED BY <2>6, <3>2, <3>3, <3>4, <3>5, <3>6, <3>7, <3>8, <3>9, <3>10, <3>11 DEF PullStep
    <2>7. ~ (PullDies \/ PushDies \/ ConnReset \/ OutputVanishes)
      BY DEF PullDies, PushDies, ConnReset, OutputVanishes, Fault
    <2> QED BY <1>2, <2>4, <2>5, <2>6, <2>7 DEF Next, Env
  <1> QED BY <1>1, <1>2

LEMMA SessionStep == ResumeInv /\ SessionInv /\ [Next]_vars => SessionInv'
  <1> SUFFICES ASSUME ResumeInv, SessionInv, [Next]_vars PROVE SessionInv'
    OBVIOUS
  <1>1. TypeOK' /\ TypeOK /\ InStep
    BY TypeStep DEF ResumeInv, SessionInv
  <1>2. InStep'
    BY <1>1, StepsInStep
  <1>3. ~ faulted' => Healthy'
    BY <1>1, HealthyStep
  <1>4. pull' \notin {"handshake", "meta", "failed"} => meta' = file'
    <2>1. CASE PullMeta
      <3>1. file' = file /\ dataQ # << >> /\ pull = "meta"
        BY <2>1 DEF PullMeta, pushVars
      <3>2. ~ broken
        BY <1>1, <3>1 DEF InStep
      <3>3. Head(dataQ) = FILE_META(file)
        BY <1>1, <3>1, <3>2, ReadsMeta DEF InStep
      <3> QED BY <2>1, <3>1, <3>3 DEF PullMeta, FILE_META
    <2>2. CASE StartSession
      BY <2>2 DEF StartSession
    <2>3. CASE ~ PullMeta /\ ~ StartSession
      <3>1. meta' = meta /\ file' = file
        BY <2>3 DEF Next, PullStep, PushStep, Env, PullHandshake, PullLoad, PullOpen,
            PullAllocate, PullRequest, PullComplete, PullHeader, PullData, PullVerify,
            PullSaveOpen, PullSaveWrite, PullFinish, PullIoFails, PushHandshake, PushMeta,
            PushRecv, PushHeader, PushData, PushIoFails, PullDies, PushDies, ConnReset,
            OutputVanishes, Finished, vars, pullVars, pushVars
      <3>2. pull' \in {"handshake", "meta", "failed"} \/ pull \notin {"handshake", "meta", "failed"}
        BY <2>3 DEF Next, PullStep, PushStep, Env, PullHandshake, PullLoad, PullOpen,
            PullAllocate, PullRequest, PullComplete, PullHeader, PullData, PullVerify,
            PullSaveOpen, PullSaveWrite, PullFinish, PullIoFails, PushHandshake, PushMeta,
            PushRecv, PushHeader, PushData, PushIoFails, PullDies, PushDies, ConnReset,
            OutputVanishes, Finished, vars, pullVars, pushVars
      <3> QED BY <3>1, <3>2 DEF SessionInv
    <2> QED BY <2>1, <2>2, <2>3
  <1> QED BY <1>2, <1>3, <1>4 DEF SessionInv

(* The two sides stay in step: whatever faults hit the sessions, the bytes  *)
(* in each direction are what the reader still expects before it stands     *)
(* where the writer is.                                                     *)
THEOREM SessionsStayInStep == Spec => []SessionInv
  BY SessionInit, SessionStep, ProgressIsSound, PTL DEF Spec

(* run_push and run_pull never fail, and a transfer is never "incomplete",  *)
(* in a session no fault and no edit of the source has hit: they never      *)
(* misread each other's messages and never outlive one another.             *)
THEOREM NoFailureWithoutFault == Spec => []NoSpuriousFailure
  <1>1. SessionInv => NoSpuriousFailure
    BY DEF SessionInv, Healthy, NoSpuriousFailure
  <1> QED BY <1>1, SessionsStayInStep, PTL

(* Whoever ends normally has read everything that was sent to it. *)
THEOREM EndsCleanly == Spec => []CleanClose
  <1>1. ASSUME TypeOK, SessionInv PROVE CleanClose
    <2>1. CASE broken
      BY <1>1, <2>1 DEF SessionInv, InStep, CleanClose
    <2>2. CASE ~ broken
      <3>1. PICK r, w, x, y : Between(r, w, x, y)
        BY <1>1, <2>2 DEF SessionInv, InStep
      <3>2. push = "done" => reqQ = << >>
        BY <1>1, <3>1, PushDrained
      <3>3. ASSUME pull \in {"complete", "incomplete"} PROVE dataQ = << >>
        <4>1. y = Left({})
          BY <3>1, <3>3 DEF Between, PullAt
        <4> QED BY <1>1, <3>1, <3>3, <4>1, PullDrained
      <3> QED BY <3>2, <3>3 DEF CleanClose
    <2> QED BY <2>1, <2>2
  <1>2. ResumeInv => TypeOK
    BY DEF ResumeInv
  <1> QED BY <1>1, <1>2, ProgressIsSound, SessionsStayInStep, PTL

----------------------------------------------------------------------------
(* Neither side waits for ever                                              *)

LEMMA ChunkSets ==
    ASSUME NEW f \in Files, NEW S \in SUBSET Chunks(f.size)
    PROVE  /\ IsFiniteSet(S) /\ Cardinality(S) \in Nat
           /\ Cardinality(S) <= chunk_count(f.size)
           /\ chunk_count(f.size) \in Nat
           /\ \A i \in S : /\ Cardinality(S \ {i}) = Cardinality(S) - 1
                           /\ Cardinality(S) >= 1
  <1>1. chunk_count(f.size) \in Nat
    BY FileType, DivBounds, ChunkAssumption DEF chunk_count
  <1>2. /\ IsFiniteSet(Chunks(f.size))
        /\ Cardinality(Chunks(f.size)) = chunk_count(f.size)
    <2>1. \A n \in Nat : IsFiniteSet(0 .. n - 1) /\ Cardinality(0 .. n - 1) = n
      BY FS_Interval
    <2> QED BY <1>1, <2>1 DEF Chunks
  <1>3. IsFiniteSet(S) /\ Cardinality(S) <= chunk_count(f.size)
    BY <1>2, FS_Subset
  <1>4. Cardinality(S) \in Nat
    BY <1>3, FS_CardinalityType
  <1>5. ASSUME NEW i \in S
        PROVE  Cardinality(S \ {i}) = Cardinality(S) - 1 /\ Cardinality(S) >= 1
    <2>1. /\ Cardinality(S \ {i}) = Cardinality(S) - 1
          /\ Cardinality(S \ {i}) \in Nat
      BY <1>3, FS_RemoveElement, FS_CardinalityType
    <2> QED BY <1>4, <2>1
  <1> QED BY <1>1, <1>3, <1>4, <1>5

(* A request is unsent, unread or being answered, and no chunk has two.     *)
LEMMA BurstStep == ResumeInv /\ SessionInv /\ Burst /\ [Next]_vars => Burst'
  <1> SUFFICES ASSUME ResumeInv, SessionInv, Burst, [Next]_vars,
                      pull' \in {"allocate", "request"}, push' # "failed", ~ broken'
               PROVE  Len(reqQ') + Cardinality(toReq')
                        + (IF push' \in {"send_hdr", "send_file"} THEN 1 ELSE 0)
                      <= chunk_count(meta'.size)
    BY DEF Burst
  <1>1. TypeOK /\ TypeOK' /\ InStep
    BY TypeStep DEF ResumeInv, SessionInv
  <1>2. /\ meta \in Files /\ meta' \in Files
        /\ toReq \in SUBSET Chunks(meta.size) /\ toReq' \in SUBSET Chunks(meta'.size)
        /\ reqQ \in Seq(ReqMsgs) /\ Len(reqQ) \in Nat
    BY <1>1, Typed DEF TypeOK, PullTypeOK
  <1>3. CASE PullOpen
    <2>1. ~ broken /\ push # "failed" /\ push' = push /\ reqQ' = reqQ /\ pull = "open"
      BY <1>3 DEF PullOpen, pushVars, netVars
    <2>2. PICK r, w, x, y : Between(r, w, x, y)
      BY <1>1, <2>1 DEF InStep
    <2>3. push = "recv" /\ reqQ = << >>
      BY <1>1, <2>1, <2>2, Quiet
    <2>4. Cardinality(toReq') <= chunk_count(meta'.size) /\ Cardinality(toReq') \in Nat
      BY <1>2, ChunkSets
    <2> QED BY <2>1, <2>3, <2>4
  <1>4. CASE PullRequest
    <2>1. PICK i \in toReq : reqQ' = Append(reqQ, CHUNK_REQ(i)) /\ toReq' = toReq \ {i}
      BY <1>4 DEF PullRequest
    <2>2. /\ pull = "request" /\ push' = push /\ meta' = meta /\ ~ broken /\ push # "failed"
      BY <1>4 DEF PullRequest, pushVars
    <2>3. Len(reqQ') = Len(reqQ) + 1
      BY <1>2, <2>1
    <2>4. Cardinality(toReq') = Cardinality(toReq) - 1 /\ Cardinality(toReq) \in Nat
      BY <1>2, <2>1, ChunkSets
    <2>5. chunk_count(meta.size) \in Nat
      BY <1>2, ChunkSets
    <2> QED BY <1>2, <2>2, <2>3, <2>4, <2>5 DEF Burst
  <1>5. CASE PushStep
    <2>1. /\ pull' = pull /\ meta' = meta /\ toReq' = toReq /\ broken' = broken
          /\ push # "failed"
      BY <1>5 DEF PushStep, PushHandshake, PushMeta, PushRecv, PushHeader, PushData,
            PushIoFails, pullVars, netVars
    <2>2. Cardinality(toReq) \in Nat /\ chunk_count(meta.size) \in Nat
      BY <1>2, ChunkSets
    <2>3. CASE PushHandshake \/ PushRecv
      <3>1. /\ reqQ' = Tail(reqQ) /\ reqQ # << >>
            /\ push \in {"recv_handshake", "recv"}
        BY <2>3 DEF PushHandshake, PushRecv
      <3>2. Len(reqQ') = Len(reqQ) - 1
        BY <1>2, <3>1
      <3> QED BY <1>2, <2>1, <2>2, <3>1, <3>2 DEF Burst
    <2>4. CASE PushMeta \/ PushHeader \/ PushData
      <3>1. /\ reqQ' = reqQ
            /\ push' \in {"send_hdr", "send_file"} => push \in {"send_hdr", "send_file"}
        BY <2>4 DEF PushMeta, PushHeader, PushData
      <3> QED BY <1>2, <2>1, <2>2, <3>1 DEF Burst
    <2>5. ~ PushIoFails
      BY DEF PushIoFails
    <2> QED BY <1>5, <2>3, <2>4, <2>5 DEF PushStep
  <1>6. CASE PullAllocate \/ Finished \/ UNCHANGED vars
    <2>1. /\ pull \in {"allocate", "request"} /\ UNCHANGED <<meta, toReq, reqQ, push, broken>>
      BY <1>6 DEF PullAllocate, Finished, vars, pullVars, pushVars, netVars
    <2> QED BY <2>1 DEF Burst
  <1>7. CASE OutputVanishes
    BY <1>7 DEF OutputVanishes, pullVars
  <1>8. ~ (PullDies \/ PushDies \/ ConnReset \/ StartSession)
    BY DEF PullDies, PushDies, ConnReset, StartSession
  <1>9. ~ (PullHandshake \/ PullMeta \/ PullLoad \/ PullComplete \/ PullHeader \/ PullData
           \/ PullVerify \/ PullSaveOpen \/ PullSaveWrite \/ PullFinish \/ PullIoFails)
    BY DEF PullHandshake, PullMeta, PullLoad, PullComplete, PullHeader, PullData, PullVerify,
           PullSaveOpen, PullSaveWrite, PullFinish, PullIoFails
  <1> QED BY <1>3, <1>4, <1>5, <1>6, <1>7, <1>8, <1>9 DEF Next, PullStep, Env

(* A side at work that cannot go on waits for the other. *)
LEMMA PullWaits ==
    ASSUME TypeOK, PullLive, ~ PullMay
    PROVE  /\ ~ PushGone
           /\ \/ pull \in {"handshake", "request"} /\ Len(reqQ) >= ReqCap
              \/ pull = "meta" /\ dataQ = << >>
              \/ pull = "data" /\ dataQ = << >>
              \/ pull = "recv" /\ toRecv # {} /\ dataQ = << >>
  <1>1. pull \in {"handshake", "meta", "load", "open", "allocate", "request",
                 "recv", "data", "verify", "save", "write"}
    BY DEF TypeOK, PullTypeOK, PullLive
  <1>2. ~ PushGone
    BY <1>1 DEF PullMay
  <1>3. ~ broken
    BY <1>2 DEF PushGone
  <1>4. Len(reqQ) \in Nat /\ ReqCap \in Nat
    BY Typed, BoundAssumption
  <1> QED BY <1>1, <1>2, <1>3, <1>4 DEF PullMay, CanSendReq

LEMMA PushWaits ==
    ASSUME TypeOK, PushLive, ~ PushMay
    PROVE  /\ ~ broken /\ PullLive
           /\ \/ push \in {"recv_handshake", "recv"} /\ reqQ = << >>
              \/ push \in {"send_meta", "send_hdr", "send_file"} /\ dataQ # << >>
  <1>1. push \in {"recv_handshake", "send_meta", "recv", "send_hdr", "send_file"}
    BY DEF TypeOK, PushTypeOK, PushLive
  <1>2. ~ broken /\ PullLive
    BY <1>1 DEF PushMay, PullOver
  <1>3. dataQ = << >> => Len(dataQ) = 0
    OBVIOUS
  <1>4. DataCap \in Nat \ {0}
    BY BoundAssumption
  <1>5. dataQ = << >> => Len(dataQ) < DataCap
    BY <1>3, <1>4
  <1> QED BY <1>1, <1>2, <1>5 DEF PushMay, CanSendData

(* Both waiting to be sent something: each has sent all the other may still *)
(* read.                                                                    *)
LEMMA BothRead ==
    ASSUME TypeOK, NEW r, NEW w, NEW x, NEW y, Between(r, w, x, y),
           reqQ = << >>, dataQ = << >>,
           push \in {"recv_handshake", "recv"},
           pull \in {"meta", "data"} \/ (pull = "recv" /\ toRecv # {})
    PROVE  FALSE
  <1>1. r = w /\ y = x
    BY EmptyPath DEF Between
  <1>2. /\ pull = "meta" => w = Open /\ y = Begun
        /\ pull = "recv" => w = End /\ y = Left(toRecv)
        /\ pull = "data" => w = End /\ y = Inside(cur, pos, toRecv)
    BY DEF Between, PullAt
  <1>3. /\ push = "recv_handshake" => r = Begun /\ x = Begun
        /\ push = "recv" => \/ r = Open /\ x = Open
                            \/ \E S : r = Left(S) /\ x = Left(S)
    BY DEF Between, PushAt
  <1> QED BY <1>1, <1>2, <1>3, Places

(* run_pull waiting to send finds run_push before or among the requests. *)
LEMMA PullSending ==
    ASSUME TypeOK, NEW r, NEW w, NEW x, NEW y, Between(r, w, x, y), ~ PushGone,
           pull \in {"handshake", "request"}, Len(reqQ) >= ReqCap
    PROVE  reqQ # << >> /\ pull = "request" /\ push # "send_meta"
  <1>1. reqQ # << >>
    <2>1. reqQ = << >> => Len(reqQ) = 0
      OBVIOUS
    <2>2. ReqCap \in Nat \ {0}
      BY BoundAssumption
    <2> QED BY <2>1, <2>2
  <1>2. /\ push \notin {"done", "failed"}
        /\ Path(Requests(file), reqQ, r, w) /\ Path(Answers(file, faulted), dataQ, y, x)
    BY DEF PushGone, PushOver, PushLive, Between
  <1>3. reqQ \in Seq(ReqMsgs) /\ dataQ \in Seq(DataMsgs)
    BY Typed
  <1>4. ASSUME push = "send_meta" PROVE FALSE
    <2>1. r = Open
      BY <1>4 DEF Between, PushAt
    <2>2. \A e, c : <<Open, e, c>> \notin Requests(file)
      BY RequestFrom
    <2> QED BY <1>1, <1>2, <1>3, <2>1, <2>2, PathStuck
  <1>5. ASSUME pull = "handshake" PROVE FALSE
    <2>1. w = Begun /\ y = Begun
      BY <1>5 DEF Between, PullAt
    <2>2. x \in {Begun, Open}
      <3>1. CASE dataQ = << >>
        BY <1>2, <2>1, <3>1, EmptyPath
      <3>2. CASE dataQ # << >>
        <4>1. PICK c : /\ <<Begun, Head(dataQ), c>> \in Answers(file, faulted)
                       /\ Path(Answers(file, faulted), Tail(dataQ), c, x)
          BY <1>2, <1>3, <2>1, <3>2, PathTail
        <4>2. c = Open
          BY <4>1, AnswerFrom
        <4>3. \A e, d : <<Open, e, d>> \notin Answers(file, faulted)
          BY AnswerFrom
        <4>4. Tail(dataQ) \in Seq(DataMsgs)
          BY <1>3, <3>2, QueueTail
        <4>5. Path(Answers(file, faulted), Tail(dataQ), Open, x)
          BY <4>1, <4>2
        <4>6. Open = x
          BY <4>3, <4>4, <4>5, PathStuck
        <4> QED BY <4>6
      <3> QED BY <3>1, <3>2
    <2>3. r \in {Begun, Open}
      <3>1. push \in {"recv_handshake", "recv", "send_hdr", "send_file"}
        BY <1>2, <1>4 DEF TypeOK, PushTypeOK
      <3>2. PushAt(r, x)
        BY DEF Between
      <3>3. \A S, i, p : x # Left(S) /\ x # Inside(i, p, S)
        BY <2>2, Places
      <3> QED BY <3>1, <3>2, <3>3 DEF PushAt
    <2>4. PICK c : /\ <<r, Head(reqQ), c>> \in Requests(file)
                   /\ Path(Requests(file), Tail(reqQ), c, Begun)
      BY <1>1, <1>2, <1>3, <2>1, PathTail
    <2>5. c = Open
      BY <2>3, <2>4, RequestFrom
    <2>6. \A e, d : <<Open, e, d>> \notin Requests(file)
      BY RequestFrom
    <2>7. Tail(reqQ) \in Seq(ReqMsgs)
      BY <1>1, <1>3, QueueTail
    <2>8. Path(Requests(file), Tail(reqQ), Open, Begun)
      BY <2>4, <2>5
    <2>9. Open = Begun
      BY <2>6, <2>7, <2>8, PathStuck
    <2> QED BY <2>9, Places
  <1> QED BY <1>1, <1>4, <1>5

(* Whatever one side waits for, the other has sent, or is about to.         *)
LEMMA OneMayGo ==
    ASSUME RequestsFit, TypeOK, SessionInv, Burst PROVE NeverBlocked
  <1> SUFFICES ASSUME PullLive \/ PushLive, ~ PullMay, ~ PushMay PROVE FALSE
    BY DEF NeverBlocked
  <1>1. ASSUME PullLive PROVE PushLive
    BY <1>1, PullWaits DEF PushGone, PushOver
  <1>2. PullLive /\ PushLive /\ ~ broken /\ ~ PushGone
    BY <1>1, PullWaits, PushWaits
  <1>3. PICK r, w, x, y : Between(r, w, x, y)
    BY <1>2 DEF SessionInv, InStep
  <1>4. CASE pull \in {"handshake", "request"}
    <2>1. Len(reqQ) >= ReqCap
      BY <1>2, <1>4, PullWaits
    <2>2. reqQ # << >> /\ pull = "request" /\ push # "send_meta"
      BY <1>2, <1>3, <1>4, <2>1, PullSending
    <2>3. push \in {"send_hdr", "send_file"}
      BY <1>2, <2>2, PushWaits
    <2>4. Len(reqQ) + Cardinality(toReq) + 1 <= chunk_count(meta.size)
      BY <1>2, <2>2, <2>3 DEF Burst
    <2>5. /\ meta \in Files /\ toReq \in SUBSET Chunks(meta.size) /\ reqQ \in Seq(ReqMsgs)
      BY Typed
    <2>6. /\ Len(reqQ) \in Nat /\ Cardinality(toReq) \in Nat /\ ReqCap \in Nat
          /\ chunk_count(meta.size) \in Nat /\ chunk_count(meta.size) <= ReqCap
      BY <2>5, ChunkSets, BoundAssumption DEF RequestsFit
    <2> QED BY <2>1, <2>4, <2>6
  <1>5. CASE pull \notin {"handshake", "request"}
    <2>1. /\ dataQ = << >>
          /\ pull \in {"meta", "data"} \/ (pull = "recv" /\ toRecv # {})
      BY <1>2, <1>5, PullWaits
    <2>2. push \in {"recv_handshake", "recv"} /\ reqQ = << >>
      BY <1>2, <2>1, PushWaits
    <2> QED BY <1>3, <2>1, <2>2, BothRead
  <1> QED BY <1>4, <1>5

(* While a session runs, run_push or run_pull can go on: they never wait    *)
(* for each other, for any files, chunk size, resume record, faults and     *)
(* data buffer, if the buffers hold as many requests as a file has chunks.  *)
THEOREM NeverDeadlocked == ASSUME RequestsFit PROVE Spec => []NeverBlocked
  <1>1. Init => Burst
    BY DEF Init, Burst
  <1>2. ResumeInv => TypeOK
    BY DEF ResumeInv
  <1>3. TypeOK /\ SessionInv /\ Burst => NeverBlocked
    BY OneMayGo
  <1> QED BY <1>1, <1>2, <1>3, BurstStep, ProgressIsSound, SessionsStayInStep, PTL DEF Spec

----------------------------------------------------------------------------
(* Every step leaves less to do                                             *)

LEMMA Products ==
    ASSUME NEW k \in Nat, NEW a \in Nat, NEW b \in Nat
    PROVE  /\ a * k \in Nat
           /\ a <= b => a * k <= b * k
           /\ a < b => a * k + k <= b * k
  <1>1. a * k \in Nat
    OBVIOUS
  <1>2. ASSUME a <= b PROVE a * k <= b * k
    <2>1. PICK d \in Nat : b = a + d
      <3>1. b - a \in Nat /\ b = a + (b - a)
        BY <1>2
      <3> QED BY <3>1
    <2>2. (a + d) * k = a * k + d * k /\ d * k \in Nat
      OBVIOUS
    <2> QED BY <1>1, <2>1, <2>2
  <1>3. ASSUME a < b PROVE a * k + k <= b * k
    <2>1. PICK d \in Nat : b = a + 1 + d
      <3>1. b - a - 1 \in Nat /\ b = a + 1 + (b - a - 1)
        BY <1>3
      <3> QED BY <3>1
    <2>2. (a + 1 + d) * k = a * k + k + d * k /\ d * k \in Nat
      OBVIOUS
    <2> QED BY <1>1, <2>1, <2>2
  <1> QED BY <1>1, <1>2, <1>3

(* A file has no more chunks than bytes. *)
LEMMA FewChunks == ASSUME NEW f \in Files PROVE chunk_count(f.size) <= MaxSize
  <1> DEFINE s == f.size
             n == chunk_count(s)
  <1>1. s \in Nat \ {0} /\ s <= MaxSize /\ MaxSize \in Nat
    BY FileType, ChunkAssumption
  <1>2. n \in Nat
    BY ChunkSets
  <1>3. CASE n = 0
    BY <1>1, <1>3
  <1>4. CASE n # 0
    <2> DEFINE i == n - 1
    <2>1. i \in Chunks(s) /\ i \in Nat
      BY <1>2, <1>4 DEF Chunks
    <2>2. offset(i) + chunk_len(s, i) <= s /\ chunk_len(s, i) \in 1 .. ChunkSize
      BY <1>1, <2>1, ChunkRange
    <2>3. i * 1 <= i * ChunkSize
      BY <2>1, ChunkAssumption, Products
    <2>4. i * ChunkSize \in Nat /\ i * 1 = i
      BY <2>1, ChunkAssumption
    <2> HIDE DEF i
    <2>5. i + 1 <= s
      BY <1>1, <2>1, <2>2, <2>3, <2>4, ChunkAssumption DEF offset
    <2> QED BY <1>1, <1>2, <2>1, <2>5 DEF i
  <1> QED BY <1>3, <1>4

(* What is left of the two sides, in numbers. *)
LEMMA Counts ==
    ASSUME TypeOK
    PROVE  /\ Cardinality(toReq) \in Nat /\ Cardinality(toReq) <= MaxSize
           /\ Cardinality(toRecv) \in Nat /\ Cardinality(toRecv) <= MaxSize
           /\ MaxSize \in Nat /\ ChunkSize \in Nat \ {0}
           /\ Len(reqQ) \in Nat
           /\ pos \in Nat /\ ppos \in Nat
           /\ pull = "data" => pos < ChunkSize
           /\ push \in {"send_hdr", "send_file"} => ppos < ChunkSize
           /\ PullSteps \in Nat /\ PushSteps \in Nat
  <1>1. /\ file \in Files /\ meta \in Files /\ reqQ \in Seq(ReqMsgs)
        /\ toReq \in SUBSET Chunks(meta.size) /\ toRecv \in SUBSET Chunks(meta.size)
        /\ pos \in Nat /\ ppos \in Nat
    BY Typed
  <1>2. /\ MaxSize \in Nat /\ ChunkSize \in Nat \ {0} /\ PullSteps \in Nat /\ PushSteps \in Nat
    BY ChunkAssumption DEF PullSteps, PushSteps
  <1>3. /\ Cardinality(toReq) \in Nat /\ Cardinality(toReq) <= MaxSize
        /\ Cardinality(toRecv) \in Nat /\ Cardinality(toRecv) <= MaxSize
    <2>1. chunk_count(meta.size) \in Nat /\ chunk_count(meta.size) <= MaxSize
      BY <1>1, ChunkSets, FewChunks
    <2>2. /\ Cardinality(toReq) \in Nat /\ Cardinality(toReq) <= chunk_count(meta.size)
          /\ Cardinality(toRecv) \in Nat /\ Cardinality(toRecv) <= chunk_count(meta.size)
      BY <1>1, ChunkSets
    <2> QED BY <1>2, <2>1, <2>2
  <1>4. ASSUME pull = "data" PROVE pos < ChunkSize
    <2>1. chunk_len(meta.size, cur) \in 1 .. ChunkSize /\ pos < chunk_len(meta.size, cur)
      BY <1>1, <1>4, Typed, FileType, ChunkRange
    <2> QED BY <1>1, <1>2, <2>1
  <1>5. ASSUME push \in {"send_hdr", "send_file"} PROVE ppos < ChunkSize
    <2>1. chunk_len(file.size, pcur) \in 1 .. ChunkSize /\ ppos < chunk_len(file.size, pcur)
      BY <1>1, <1>5, Typed, FileType, ChunkRange
    <2> QED BY <1>1, <1>2, <2>1
  <1> QED BY <1>1, <1>2, <1>3, <1>4, <1>5

(* The definitions of the work left, as tables. *)
PullIs(work, stage, p, n, d) ==
    /\ stage = "handshake" => work = 7 + MaxSize + MaxSize * PullSteps
    /\ stage = "meta" => work = 6 + MaxSize + MaxSize * PullSteps
    /\ stage = "load" => work = 5 + MaxSize + MaxSize * PullSteps
    /\ stage = "open" => work = 4 + MaxSize + MaxSize * PullSteps
    /\ stage = "allocate" => work = 3 + n + d
    /\ stage = "request" => work = 2 + n + d
    /\ stage = "recv" => work = 1 + d
    /\ stage = "data" => work = 4 + (ChunkSize - p) + d
    /\ stage = "verify" => work = 4 + d
    /\ stage = "save" => work = 3 + d
    /\ stage = "write" => work = 2 + d
    /\ stage \in {"complete", "incomplete", "failed"} => work = 0

SendIs(count, stage, n) ==
    /\ stage = "handshake" => count = MaxSize + 2
    /\ stage \in {"meta", "load", "open"} => count = MaxSize + 1
    /\ stage \in {"allocate", "request"} => count = n + 1
    /\ stage \in {"recv", "data", "verify", "save", "write", "complete", "incomplete",
                  "failed"} => count = 0

PushIs(work, stage, p, d) ==
    /\ stage \in {"recv_handshake", "recv"} => work = 1 + d
    /\ stage = "send_meta" => work = 2 + d
    /\ stage = "send_hdr" => work = 2 + ChunkSize + d
    /\ stage = "send_file" => work = 1 + (ChunkSize - p) + d
    /\ stage \in {"done", "failed"} => work = 0

LEMMA Tables ==
    ASSUME NEW stage, NEW p, NEW n, NEW d
    PROVE  /\ PullIs(PullLeft(stage, p, n, d), stage, p, n, d)
           /\ SendIs(ToSend(stage, n), stage, n)
           /\ PushIs(PushLeft(stage, p, d), stage, p, d)
  <1>1. PullIs(PullLeft(stage, p, n, d), stage, p, n, d)
    BY DEF PullIs, PullLeft
  <1>2. SendIs(ToSend(stage, n), stage, n)
    BY DEF SendIs, ToSend
  <1>3. PushIs(PushLeft(stage, p, d), stage, p, d)
    BY DEF PushIs, PushLeft
  <1> QED BY <1>1, <1>2, <1>3

LEMMA FewInSet ==
    ASSUME NEW f \in Files, NEW S \in SUBSET Chunks(f.size)
    PROVE  Cardinality(S) \in Nat /\ Cardinality(S) <= MaxSize
  <1>1. /\ chunk_count(f.size) \in Nat /\ chunk_count(f.size) <= MaxSize
        /\ Cardinality(S) \in Nat /\ Cardinality(S) <= chunk_count(f.size)
    BY ChunkSets, FewChunks
  <1> QED BY <1>1, ChunkAssumption

(* run_pull's step leaves it less to do, and run_push no more to read.      *)
LEMMA PullWorkStep ==
    ASSUME TypeOK, TypeOK', PullStep
    PROVE  PullWork' < PullWork /\ Unread' <= Unread
  <1> DEFINE R == MaxSize * PullSteps
             m == Cardinality(toRecv)
             n == Cardinality(toReq)
  <1>1. /\ n \in Nat /\ n <= MaxSize /\ m \in Nat /\ m <= MaxSize /\ MaxSize \in Nat
        /\ ChunkSize \in Nat \ {0} /\ Len(reqQ) \in Nat /\ pos \in Nat
        /\ pull = "data" => pos < ChunkSize
        /\ PullSteps \in Nat /\ PullSteps = ChunkSize + 4
    BY Counts DEF PullSteps
  <1>2. /\ meta \in Files /\ toReq \in SUBSET Chunks(meta.size)
        /\ toRecv \in SUBSET Chunks(meta.size) /\ reqQ \in Seq(ReqMsgs)
    BY Typed
  <1>3. m' \in Nat /\ n' \in Nat /\ m' <= MaxSize /\ n' <= MaxSize
    <2>1. /\ meta' \in Files /\ toReq' \in SUBSET Chunks(meta'.size)
          /\ toRecv' \in SUBSET Chunks(meta'.size)
      BY DEF TypeOK, PullTypeOK
    <2> QED BY <2>1, FewInSet
  <1> DEFINE d == m * PullSteps
             q == ToSend(pull, n)
  <1>4. /\ R \in Nat /\ d \in Nat /\ d' \in Nat /\ d <= R /\ d' <= R
        /\ m' < m => d' + PullSteps <= d
        /\ m' = m => d' = d
    BY <1>1, <1>3, Products
  <1>5. PullIs(PullWork, pull, pos, n, d) /\ PullIs(PullWork', pull', pos', n', d')
    BY Tables DEF PullWork
  <1>q. SendIs(q, pull, n) /\ SendIs(q', pull', n')
    BY Tables
  <1>u. Unread = Len(reqQ) + q /\ Unread' = Len(reqQ') + q'
    BY DEF Unread
  <1> USE DEF PullIs, SendIs
  <1> HIDE DEF d, q
  <1>6. CASE PullHandshake
    <2>1. /\ pull = "handshake" /\ pull' = "meta" /\ Len(reqQ') = Len(reqQ) + 1
      BY <1>2, <1>6 DEF PullHandshake
    <2> QED BY <1>1, <1>4, <1>5, <2>1, <1>q, <1>u
  <1>7. CASE PullMeta
    <2>1. pull = "meta" /\ pull' \in {"load", "failed"} /\ reqQ' = reqQ
      BY <1>7 DEF PullMeta
    <2> QED BY <1>1, <1>4, <1>5, <2>1, <1>q, <1>u
  <1>8. CASE PullLoad
    <2>1. pull = "load" /\ pull' = "open" /\ reqQ' = reqQ
      BY <1>8 DEF PullLoad, netVars
    <2> QED BY <1>1, <1>4, <1>5, <2>1, <1>q, <1>u
  <1>9. CASE PullOpen
    <2>1. pull = "open" /\ pull' \in {"request", "allocate"} /\ reqQ' = reqQ
      BY <1>9 DEF PullOpen, netVars
    <2>2. PullWork = 4 + MaxSize + R /\ (PullWork' = 3 + n' + d' \/ PullWork' = 2 + n' + d')
      BY <1>5, <2>1
    <2>3. q = MaxSize + 1 /\ q' = n' + 1 /\ Len(reqQ') = Len(reqQ)
      BY <1>q, <2>1
    <2> HIDE DEF R, n, m
    <2>4. PullWork' < PullWork
      BY <1>1, <1>3, <1>4, <2>2
    <2>5. Unread' <= Unread
      BY <1>1, <1>3, <1>u, <2>3
    <2> QED BY <2>4, <2>5
  <1>10. CASE PullAllocate
    <2>1. pull = "allocate" /\ pull' = "request" /\ reqQ' = reqQ /\ n' = n /\ m' = m
      BY <1>10 DEF PullAllocate, netVars
    <2> QED BY <1>1, <1>4, <1>5, <2>1, <1>q, <1>u
  <1>11. CASE PullRequest
    <2>1. PICK i \in toReq : reqQ' = Append(reqQ, CHUNK_REQ(i)) /\ toReq' = toReq \ {i}
      BY <1>11 DEF PullRequest
    <2>2. pull = "request" /\ pull' = "request" /\ m' = m
      BY <1>11 DEF PullRequest
    <2>3. Len(reqQ') = Len(reqQ) + 1
      BY <1>2, <2>1
    <2>4. n' = n - 1
      BY <1>2, <2>1, ChunkSets
    <2> QED BY <1>1, <1>4, <1>5, <2>2, <2>3, <2>4, <1>q, <1>u
  <1>12. CASE PullComplete
    <2>1. /\ pull = "request" /\ pull' = "recv" /\ Len(reqQ') = Len(reqQ) + 1
          /\ n' = n /\ m' = m
      BY <1>2, <1>12 DEF PullComplete
    <2> QED BY <1>1, <1>4, <1>5, <2>1, <1>q, <1>u
  <1>13. CASE PullHeader
    <2>1. PICK i \in toRecv : toRecv' = toRecv \ {i}
      BY <1>13 DEF PullHeader
    <2>2. /\ pull = "recv" /\ pull' \in {"data", "failed"} /\ reqQ' = reqQ /\ pos' = 0
      BY <1>13 DEF PullHeader
    <2>3. m' < m
      BY <1>1, <1>2, <2>1, ChunkSets
    <2>4. PullWork = 1 + d /\ (PullWork' = 4 + ChunkSize + d' \/ PullWork' = 0)
      BY <1>1, <1>4, <1>5, <2>2
    <2>5. q = 0 /\ q' = 0 /\ Len(reqQ') = Len(reqQ)
      BY <1>q, <2>2
    <2>6. PullWork' < PullWork
      <3>1. d \in Nat /\ d' \in Nat /\ d' + (ChunkSize + 4) <= d /\ ChunkSize \in Nat
        BY <1>1, <1>4, <2>3
      <3>2. PICK a \in Nat, b \in Nat : a = d /\ b = d'
        BY <3>1
      <3>3. b + (ChunkSize + 4) <= a
        BY <3>1, <3>2
      <3>4. PullWork = 1 + a /\ (PullWork' = 4 + ChunkSize + b \/ PullWork' = 0)
        BY <2>4, <3>2
      <3> QED BY <3>1, <3>3, <3>4
    <2>7. Unread' <= Unread
      BY <1>1, <1>u, <2>5
    <2> QED BY <2>6, <2>7
  <1>14. CASE PullData
    <2>1. /\ pull = "data" /\ pull' \in {"verify", "data"} /\ reqQ' = reqQ /\ pos' = pos + 1
          /\ m' = m
      BY <1>14 DEF PullData
    <2> QED BY <1>1, <1>4, <1>5, <2>1, <1>q, <1>u
  <1>15. CASE PullVerify \/ PullSaveOpen \/ PullSaveWrite
    <2>1. /\ \/ pull = "verify" /\ pull' = "save"
             \/ pull = "save" /\ pull' = "write"
             \/ pull = "write" /\ pull' = "recv"
          /\ reqQ' = reqQ /\ m' = m
      BY <1>15 DEF PullVerify, PullSaveOpen, PullSaveWrite, netVars
    <2> QED BY <1>1, <1>4, <1>5, <2>1, <1>q, <1>u
  <1>16. CASE PullFinish
    <2>1. pull = "recv" /\ pull' \in {"complete", "incomplete"} /\ reqQ' = reqQ
      BY <1>16 DEF PullFinish, netVars
    <2> QED BY <1>1, <1>4, <1>5, <2>1, <1>q, <1>u
  <1>17. CASE PullIoFails
    <2>1. /\ pull \in {"handshake", "meta", "request", "recv", "data"} /\ pull' = "failed"
          /\ reqQ' = reqQ
      BY <1>17 DEF PullIoFails, netVars
    <2> QED BY <1>1, <1>4, <1>5, <2>1, <1>q, <1>u
  <1> QED BY <1>6, <1>7, <1>8, <1>9, <1>10, <1>11, <1>12, <1>13, <1>14, <1>15, <1>16, <1>17
          DEF PullStep

(* run_push's step leaves it less to do, and run_pull as much.              *)
LEMMA PushWorkStep ==
    ASSUME TypeOK, TypeOK', PushStep
    PROVE  PushWork' < PushWork /\ PullWork' = PullWork
  <1> DEFINE q == ToSend(pull, Cardinality(toReq))
  <1>1. /\ ChunkSize \in Nat \ {0} /\ Len(reqQ) \in Nat /\ ppos \in Nat
        /\ push \in {"send_hdr", "send_file"} => ppos < ChunkSize
        /\ PushSteps \in Nat /\ PushSteps = ChunkSize + 2
        /\ reqQ \in Seq(ReqMsgs)
    BY Counts, Typed DEF PushSteps
  <1>2. q \in Nat
    <2>1. Cardinality(toReq) \in Nat /\ MaxSize \in Nat
      BY Counts
    <2> QED BY <2>1 DEF ToSend
  <1>3. UNCHANGED <<pull, pos, toReq, toRecv>>
    BY DEF PushStep, PushHandshake, PushMeta, PushRecv, PushHeader, PushData, PushIoFails, pullVars
  <1>4. q' = q /\ PullWork' = PullWork
    BY <1>3 DEF PullWork
  <1>5. /\ Unread = Len(reqQ) + q /\ Unread' = Len(reqQ') + q
        /\ PushIs(PushWork, push, ppos, Unread * PushSteps)
        /\ PushIs(PushWork', push', ppos', Unread' * PushSteps)
    BY <1>4, Tables DEF Unread, PushWork
  <1> HIDE DEF q
  <1> USE DEF PushIs
  <1>6. Unread \in Nat /\ Unread * PushSteps \in Nat
    BY <1>1, <1>2, <1>5
  <1>7. CASE PushHandshake \/ PushRecv
    <2>1. /\ reqQ # << >> /\ reqQ' = Tail(reqQ) /\ push \in {"recv_handshake", "recv"}
          /\ push' \in {"send_meta", "send_hdr", "done", "failed"}
      BY <1>7 DEF PushHandshake, PushRecv
    <2>2. Len(reqQ') \in Nat /\ Len(reqQ') < Len(reqQ)
      BY <1>1, <2>1, QueueTail
    <2>3. Unread' \in Nat /\ Unread' < Unread
      BY <1>1, <1>2, <1>5, <2>2
    <2>4. Unread' * PushSteps \in Nat /\ Unread' * PushSteps + PushSteps <= Unread * PushSteps
      BY <1>1, <1>6, <2>3, Products
    <2> QED BY <1>1, <1>4, <1>5, <1>6, <2>1, <2>4
  <1>8. CASE PushMeta \/ PushHeader \/ PushData \/ PushIoFails
    <2>1. Unread' = Unread
      BY <1>5, <1>8 DEF PushMeta, PushHeader, PushData, PushIoFails, netVars
    <2>2. CASE PushMeta
      <3>1. push = "send_meta" /\ push' = "recv"
        BY <2>2 DEF PushMeta
      <3> QED BY <1>4, <1>5, <1>6, <2>1, <3>1
    <2>3. CASE PushHeader
      <3>1. push = "send_hdr" /\ push' = "send_file" /\ ppos' = ppos
        BY <2>3 DEF PushHeader
      <3> QED BY <1>1, <1>4, <1>5, <1>6, <2>1, <3>1
    <2>4. CASE PushData
      <3>1. push = "send_file" /\ push' \in {"recv", "send_file"} /\ ppos' = ppos + 1
        BY <2>4 DEF PushData
      <3> QED BY <1>1, <1>4, <1>5, <1>6, <2>1, <3>1
    <2>5. CASE PushIoFails
      <3>1. /\ push \in {"recv_handshake", "recv", "send_meta", "send_hdr", "send_file"}
            /\ push' = "failed"
        BY <2>5 DEF PushIoFails
      <3>2. PushWork' = 0
        BY <1>5, <3>1
      <3> DEFINE e == Unread * PushSteps
      <3>3. \/ PushWork = 1 + e \/ PushWork = 2 + e \/ PushWork = 2 + ChunkSize + e
            \/ push = "send_file" /\ PushWork = 1 + (ChunkSize - ppos) + e
        BY <1>5, <3>1
      <3>4. e \in Nat
        BY <1>6
      <3> HIDE DEF e
      <3> QED BY <1>1, <1>4, <3>2, <3>3, <3>4
    <2> QED BY <1>8, <2>2, <2>3, <2>4, <2>5
  <1> QED BY <1>7, <1>8 DEF PushStep

LEMMA Sums ==
    ASSUME NEW a \in Nat, NEW b \in Nat, NEW c \in Nat, NEW d \in Nat, c <= a, d <= b
    PROVE  /\ c + d <= a + b
           /\ c < a \/ d < b => c + d < a + b
  OBVIOUS

LEMMA UnreadIsCount == ASSUME TypeOK PROVE Unread \in Nat
  <1> DEFINE q == ToSend(pull, Cardinality(toReq))
  <1>1. Cardinality(toReq) \in Nat /\ MaxSize \in Nat /\ Len(reqQ) \in Nat
    BY Counts
  <1>2. q \in Nat
    <2>1. SendIs(q, pull, Cardinality(toReq))
      BY Tables
    <2>2. pull \in {"handshake", "meta", "load", "open", "allocate", "request", "recv",
                    "data", "verify", "save", "write", "complete", "incomplete", "failed"}
      BY DEF TypeOK, PullTypeOK
    <2> HIDE DEF q
    <2> QED BY <1>1, <2>1, <2>2 DEF SendIs
  <1> QED BY <1>1, <1>2 DEF Unread

LEMMA PullWorkIsCount == ASSUME TypeOK PROVE PullWork \in Nat
  <1> DEFINE R == MaxSize * PullSteps
             d == Cardinality(toRecv) * PullSteps
             n == Cardinality(toReq)
  <1>1. /\ n \in Nat /\ pos \in Nat /\ ChunkSize \in Nat /\ MaxSize \in Nat
        /\ pull = "data" => pos < ChunkSize
    BY Counts
  <1>2. R \in Nat /\ d \in Nat
    BY Counts
  <1>3. PullIs(PullWork, pull, pos, n, d)
    BY Tables DEF PullWork
  <1>4. pull \in {"handshake", "meta", "load", "open", "allocate", "request", "recv",
                  "data", "verify", "save", "write", "complete", "incomplete", "failed"}
    BY DEF TypeOK, PullTypeOK
  <1> HIDE DEF n, d
  <1> QED BY <1>1, <1>2, <1>3, <1>4 DEF PullIs

LEMMA PushWorkIsCount ==
    ASSUME NEW stage \in {"recv_handshake", "send_meta", "recv", "send_hdr", "send_file",
                          "done", "failed"},
           NEW p \in Nat, stage = "send_file" => p < ChunkSize,
           NEW u \in Nat, NEW v \in Nat, u <= v
    PROVE  /\ PushLeft(stage, p, u * PushSteps) \in Nat
           /\ PushLeft(stage, p, v * PushSteps) \in Nat
           /\ PushLeft(stage, p, u * PushSteps) <= PushLeft(stage, p, v * PushSteps)
  <1> DEFINE a == u * PushSteps
             b == v * PushSteps
  <1>1. ChunkSize \in Nat /\ PushSteps \in Nat
    BY ChunkAssumption DEF PushSteps
  <1>2. a \in Nat /\ b \in Nat /\ a <= b
    BY <1>1, Products
  <1>3. PushIs(PushLeft(stage, p, a), stage, p, a) /\ PushIs(PushLeft(stage, p, b), stage, p, b)
    BY Tables
  <1> HIDE DEF a, b
  <1>4. /\ PushLeft(stage, p, a) \in Nat /\ PushLeft(stage, p, b) \in Nat
        /\ PushLeft(stage, p, a) <= PushLeft(stage, p, b)
    BY <1>1, <1>2, <1>3 DEF PushIs
  <1> QED BY <1>4 DEF a, b

LEMMA PushStages ==
    ASSUME TypeOK
    PROVE  /\ push \in {"recv_handshake", "send_meta", "recv", "send_hdr", "send_file",
                        "done", "failed"}
           /\ ppos \in Nat /\ (push = "send_file" => ppos < ChunkSize)
           /\ PushWork \in Nat
  <1>1. /\ push \in {"recv_handshake", "send_meta", "recv", "send_hdr", "send_file",
                     "done", "failed"}
        /\ ppos \in Nat /\ (push = "send_file" => ppos < ChunkSize)
    BY Counts DEF TypeOK, PushTypeOK
  <1>2. Unread \in Nat /\ Unread <= Unread
    BY UnreadIsCount
  <1>3. PushWork \in Nat
    BY <1>1, <1>2, PushWorkIsCount DEF PushWork
  <1> QED BY <1>1, <1>3

(* When run_push stands still and has no more to read, it has no more to do. *)
LEMMA OthersPushWork ==
    ASSUME TypeOK, push' = push, ppos' = ppos, Unread' \in Nat, Unread' <= Unread
    PROVE  PushWork' <= PushWork
  <1>1. Unread \in Nat
    BY UnreadIsCount
  <1>2. PushLeft(push, ppos, Unread' * PushSteps) <= PushLeft(push, ppos, Unread * PushSteps)
    BY <1>1, PushStages, PushWorkIsCount
  <1> QED BY <1>2 DEF PushWork

LEMMA WorkCounts ==
    TypeOK => PullWork \in Nat /\ PushWork \in Nat /\ Unread \in Nat
  BY PullWorkIsCount, PushStages, UnreadIsCount

LEMMA DwindleStep ==
    ASSUME TypeOK, TypeOK', PullWork' \in Nat, PushWork' \in Nat, Unread' \in Nat, [Next]_vars
    PROVE  Dwindles
  <1>1. PullWork \in Nat /\ PushWork \in Nat /\ Unread \in Nat
    BY WorkCounts
  <1>2. ASSUME PullStep PROVE Work' < Work
    <2>1. PullWork' < PullWork /\ Unread' <= Unread
      BY <1>2, PullWorkStep
    <2>2. push' = push /\ ppos' = ppos
      BY <1>2 DEF PullStep, PullHandshake, PullMeta, PullLoad, PullOpen, PullAllocate,
             PullRequest, PullComplete, PullHeader, PullData, PullVerify, PullSaveOpen,
             PullSaveWrite, PullFinish, PullIoFails, pushVars
    <2>3. PushWork' <= PushWork
      BY <2>1, <2>2, OthersPushWork
    <2>4. PullWork' <= PullWork
      BY <1>1, <2>1
    <2> QED BY <1>1, <2>1, <2>3, <2>4, Sums DEF Work
  <1>3. ASSUME PushStep PROVE Work' < Work
    <2>1. PushWork' < PushWork /\ PullWork' = PullWork
      BY <1>3, PushWorkStep
    <2>2. PushWork' <= PushWork /\ PullWork' <= PullWork
      BY <1>1, <2>1
    <2> QED BY <1>1, <2>1, <2>2, Sums DEF Work
  <1>4. ASSUME ~ PullStep, ~ PushStep, ~ StartSession PROVE Work' <= Work
    <2>1. UNCHANGED <<pos, ppos, toReq, toRecv>>
      BY <1>4 DEF Next, Env, PullDies, PushDies, ConnReset, OutputVanishes, Finished, vars,
            pullVars, pushVars
    <2>2. /\ pull' = pull \/ pull' = "failed"
          /\ push' = push \/ push' = "failed"
          /\ reqQ' = reqQ \/ reqQ' = << >>
      BY <1>4 DEF Next, Env, PullDies, PushDies, ConnReset, OutputVanishes, Finished, vars,
            pullVars, pushVars, netVars
    <2> DEFINE n == Cardinality(toReq)
               q == ToSend(pull, n)
    <2>3. SendIs(q, pull, n) /\ SendIs(q', pull', n')
      BY Tables
    <2>4. /\ n \in Nat /\ MaxSize \in Nat /\ Len(reqQ) \in Nat /\ Len(<< >>) = 0
          /\ pull \in {"handshake", "meta", "load", "open", "allocate", "request", "recv",
                    "data", "verify", "save", "write", "complete", "incomplete", "failed"}
      BY Counts DEF TypeOK, PullTypeOK
    <2>5. q \in Nat /\ (q' = q \/ q' = 0)
      <3>1. pull' = pull => q' = q
        BY <2>1
      <3>2. pull' = "failed" => q' = 0
        BY <2>3 DEF SendIs
      <3>3. q \in Nat
        <4> HIDE DEF q, n
        <4> QED BY <2>3, <2>4 DEF SendIs
      <3> QED BY <2>2, <3>1, <3>2, <3>3
    <2>6. Unread' <= Unread
      <3>1. Unread = Len(reqQ) + q /\ Unread' = Len(reqQ') + q'
        BY DEF Unread
      <3>2. Len(reqQ') = Len(reqQ) \/ Len(reqQ') = 0
        BY <2>2, <2>4
      <3> HIDE DEF q
      <3> QED BY <2>4, <2>5, <3>1, <3>2
    <2>7. PushWork' <= PushWork
      <3>1. CASE push' = push
        BY <2>1, <2>6, <3>1, OthersPushWork
      <3>2. CASE push' = "failed"
        <4>1. PushIs(PushWork', push', ppos', Unread' * PushSteps)
          BY Tables DEF PushWork
        <4>2. PushWork' = 0
          BY <3>2, <4>1 DEF PushIs
        <4> QED BY <1>1, <4>2
      <3> QED BY <2>2, <3>1, <3>2
    <2>8. PullWork' <= PullWork
      <3>1. CASE pull' = pull
        <4>1. PullWork' = PullWork
          BY <2>1, <3>1 DEF PullWork
        <4> QED BY <1>1, <4>1
      <3>2. CASE pull' = "failed"
        <4>1. PullIs(PullWork', pull', pos', n', (Cardinality(toRecv) * PullSteps)')
          BY Tables DEF PullWork
        <4>2. PullWork' = 0
          BY <3>2, <4>1 DEF PullIs
        <4> QED BY <1>1, <4>2
      <3> QED BY <2>2, <3>1, <3>2
    <2> QED BY <1>1, <2>7, <2>8, Sums DEF Work
  <1>5. Work \in Nat /\ Work' \in Nat
    <2>1. Work = PullWork + PushWork /\ Work' = PullWork' + PushWork'
      BY DEF Work
    <2>2. \A a, b \in Nat : a + b \in Nat
      OBVIOUS
    <2> QED BY <1>1, <2>1, <2>2
  <1>6. Work' < Work => Work' <= Work
    BY <1>5
  <1> QED BY <1>2, <1>3, <1>4, <1>6 DEF Dwindles

(* A session takes a bounded number of steps: each of run_pull's and         *)
(* run_push's leaves fewer of them, and faults, edits and deletions add none. *)
THEOREM SessionsDwindle == Spec => [](Work \in Nat) /\ WorkDwindles
  <1>1. TypeOK => Work \in Nat
    BY WorkCounts DEF Work
  <1>2. TypeOK /\ TypeOK' /\ (PullWork \in Nat /\ PushWork \in Nat /\ Unread \in Nat)' /\ [Next]_vars
          => [Dwindles]_vars
    BY DwindleStep
  <1> QED BY <1>1, <1>2, WorkCounts, Typing, PTL DEF Spec, WorkDwindles
=============================================================================
