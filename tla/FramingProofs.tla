--------------------------- MODULE FramingProofs ----------------------------
(***************************************************************************)
(* The reassembly of requests, for any header, buffer and packet sizes and *)
(* any stream. The inductive invariant ties the bytes received to the end  *)
(* of the last request taken: the server always stands where the header    *)
(* and the data it has so far say it stands. With it a step maps to a step *)
(* of RequestStream.                                                       *)
(***************************************************************************)
EXTENDS Framing, TLAPS

USE FramingAssumption

Entry == [at : Pos, body : Pos \cup {None}, kind : {"executed", "refused"}]

Conbuf == [from : Pos, header_size : 0..HEADER, data : {"null", "stat", "dyn"},
           data_dyn : Nat, no_buffer : BOOLEAN, data_size : Nat,
           body : Pos \cup {None}, top : Nat]

(* The end of the last request taken.                                      *)
Next0 == Stream!NextAt

(* A buffer for the packet at `from', in use: what the three kinds have in *)
(* it after data_size bytes.                                               *)
Prepared(b) ==
  \/ /\ b.data = "stat" /\ ~b.no_buffer /\ b.data_dyn = Null
     /\ Size[b.from] < PKTBUF_LEN /\ b.top = b.data_size
  \/ /\ b.data = "dyn" /\ ~b.no_buffer /\ b.data_dyn = Size[b.from]
     /\ Size[b.from] <= MAXPACKETSZ /\ b.top = b.data_size
  \/ /\ b.data = "stat" /\ b.no_buffer /\ b.data_dyn = Null
     /\ Size[b.from] >= PKTBUF_LEN /\ b.top <= PKTBUF_LEN

Body(b) ==
  b.body = IF b.no_buffer \/ b.data_size = 0 THEN None ELSE b.from + HEADER

(* The header is complete, the buffer prepared, some data received.        *)
Filling(b) ==
  /\ b.header_size = HEADER
  /\ Prepared(b) /\ Body(b) /\ b.data_size <= Size[b.from]

(* The header is being received.                                           *)
Starting(b) ==
  /\ b.data = "null" /\ b.data_dyn = Null /\ ~b.no_buffer
  /\ b.data_size = 0 /\ b.body = None /\ b.top = 0

Standing(b, at) ==
  /\ b \in Conbuf
  /\ at = Next0 + b.header_size + b.data_size
  /\ b.header_size > 0 => b.from = Next0
  /\ \/ Starting(b) /\ b.header_size < HEADER
     \/ Filling(b) /\ ~Done(b)

IInv ==
  /\ sent \in Pos /\ got \in 0..sent /\ gone \in BOOLEAN /\ open \in BOOLEAN
  /\ log \in Seq(Entry)
  /\ Next0 \in Pos
  /\ open => Standing(buf, got)
  /\ ~open => buf = Empty

-----------------------------------------------------------------------------
(* A chunk is what was asked for at most, and what is there at most.       *)
LEMMA ChunkRange ==
  ASSUME NEW w \in Int, NEW a \in Int, NEW d \in Chunk(w, a)
  PROVE  d \in Nat /\ d >= 1 /\ d <= w /\ d <= a
BY DEF Chunk, Smaller

LEMMA EmptyType == Empty \in Conbuf /\ Starting(Empty) /\ Empty.header_size = 0 /\ Empty.data_size = 0
<1>1. 0 \in Pos /\ 0 \in 0..HEADER  BY DEF Pos
<1> QED BY <1>1 DEF Empty, Conbuf, Starting, Null, None

(* The first recv: the header grows and nothing else moves.                *)
LEMMA HeaderValues ==
  ASSUME IInv, open, NEW h \in HeaderChunk, got < sent,
         NEW b, b = WithHeader(h)
  PROVE  /\ h \in Nat /\ got + h <= sent
         /\ b \in Conbuf /\ b.header_size = buf.header_size + h
         /\ b.from = Next0 /\ b.header_size > 0
         /\ b.data_size = buf.data_size
         /\ got = Next0 + buf.header_size + buf.data_size
         /\ Starting(b) \/ (h = 0 /\ Filling(b))
<1>1. Standing(buf, got) /\ got \in Nat /\ sent \in Nat /\ sent <= Total
  BY DEF IInv, Pos
<1>2. buf \in Conbuf /\ buf.header_size \in 0..HEADER  BY <1>1 DEF Standing, Conbuf
<1>3. CASE buf.header_size < HEADER
  <2>1. h \in Nat /\ h >= 1 /\ h <= HEADER - buf.header_size /\ h <= sent - got
    BY <1>1, <1>2, <1>3, ChunkRange DEF HeaderChunk, HeaderWanted
  <2>2. Starting(buf)  BY <1>1, <1>3 DEF Standing, Filling
  <2>3. /\ b.header_size = buf.header_size + h
        /\ b.data = buf.data /\ b.data_dyn = buf.data_dyn /\ b.no_buffer = buf.no_buffer
        /\ b.data_size = buf.data_size /\ b.body = buf.body /\ b.top = buf.top
    BY <1>2 DEF WithHeader, Conbuf
  <2>4. b.from = Next0
    <3>1. CASE buf.header_size = 0
      <4>1. b.from = got  BY <1>2, <3>1 DEF WithHeader, Conbuf
      <4>2. got = Next0
        BY <1>1, <2>2, <3>1 DEF Standing, Starting, IInv, Pos
      <4> QED BY <4>1, <4>2
    <3>2. CASE buf.header_size # 0
      <4>1. b.from = buf.from  BY <1>2, <3>2 DEF WithHeader, Conbuf
      <4> QED BY <1>1, <1>2, <3>2, <4>1 DEF Standing
    <3> QED BY <3>1, <3>2
  <2>5. b \in Conbuf
    <3>1. got \in Pos /\ buf.from \in Pos /\ buf.header_size + h \in 0..HEADER
      BY <1>1, <1>2, <2>1 DEF Pos, Conbuf
    <3>2. (IF buf.header_size = 0 THEN got ELSE buf.from) \in Pos  BY <3>1
    <3> QED BY <1>2, <3>1, <3>2 DEF WithHeader, Conbuf
  <2>6. Starting(b)  BY <2>2, <2>3 DEF Starting
  <2>7. got = Next0 + buf.header_size + buf.data_size  BY <1>1 DEF Standing
  <2> QED BY <1>1, <1>2, <2>1, <2>3, <2>4, <2>5, <2>6, <2>7
<1>4. CASE ~(buf.header_size < HEADER)
  <2>1. h = 0  BY <1>4 DEF HeaderChunk
  <2>2. Filling(buf) /\ buf.header_size = HEADER
    BY <1>1, <1>4 DEF Standing, Filling
  <2>3. /\ b.header_size = buf.header_size /\ b.from = buf.from
        /\ b.data = buf.data /\ b.data_dyn = buf.data_dyn /\ b.no_buffer = buf.no_buffer
        /\ b.data_size = buf.data_size /\ b.body = buf.body /\ b.top = buf.top
    BY <1>2, <2>1, <2>2 DEF WithHeader, Conbuf
  <2>4. b \in Conbuf
    <3>1. buf.header_size + h = HEADER /\ buf.header_size # 0  BY <2>1, <2>2
    <3>2. b = [buf EXCEPT !.header_size = HEADER, !.from = buf.from]
      BY <1>2, <3>1 DEF WithHeader, Conbuf
    <3>3. HEADER \in 0..HEADER /\ buf.from \in Pos  BY <1>2 DEF Conbuf
    <3> QED BY <1>2, <3>2, <3>3 DEF Conbuf
  <2>5. Filling(b)  BY <2>2, <2>3 DEF Filling, Prepared, Body
  <2>6. /\ got = Next0 + buf.header_size + buf.data_size
        /\ buf.header_size > 0 => buf.from = Next0
    BY <1>1 DEF Standing
  <2> QED BY <1>1, <1>2, <2>1, <2>2, <2>3, <2>4, <2>5, <2>6
<1> QED BY <1>3, <1>4

(* The buffer: prepared once for a packet, and kept until it is complete.  *)
LEMMA BufferValues ==
  ASSUME NEW b \in Conbuf, b.header_size = HEADER, Starting(b) \/ Filling(b),
         NEW c \in Buffers(b, Size[b.from])
  PROVE  /\ c \in Conbuf /\ Filling(c) /\ c.from = b.from /\ c.data_size = b.data_size
<1> DEFINE n == Size[b.from]
<1>1. n \in Nat  BY DEF Conbuf
<1>2. CASE Filling(b)
  <2>1. b.data # "null"  BY <1>2 DEF Filling, Prepared
  <2>2. c = b  BY <2>1 DEF Buffers
  <2> QED BY <1>2, <2>2
<1>3. CASE Starting(b)
  <2>1. /\ b.data = "null" /\ b.data_dyn = Null /\ b.no_buffer = FALSE
        /\ b.data_size = 0 /\ b.body = None /\ b.top = 0
    BY <1>3 DEF Starting, Conbuf
  <2>2. CASE n < PKTBUF_LEN
    <3>1. c = Static(b)  BY <2>1, <2>2 DEF Buffers
    <3>2. /\ c \in Conbuf /\ c.data = "stat" /\ c.from = b.from /\ c.header_size = HEADER
          /\ c.data_dyn = Null /\ c.no_buffer = FALSE /\ c.data_size = 0
          /\ c.body = None /\ c.top = 0
      BY <2>1, <3>1 DEF Static, Conbuf
    <3> QED BY <1>1, <2>1, <2>2, <3>2 DEF Filling, Prepared, Body
  <2>3. CASE ~(n < PKTBUF_LEN) /\ c = Discard(b)
    <3>1. /\ c \in Conbuf /\ c.data = "stat" /\ c.from = b.from /\ c.header_size = HEADER
          /\ c.data_dyn = Null /\ c.no_buffer = TRUE /\ c.data_size = 0
          /\ c.body = None /\ c.top = 0
      BY <2>1, <2>3 DEF Discard, Conbuf, Null
    <3> QED BY <1>1, <2>1, <2>3, <3>1 DEF Filling, Prepared, Body
  <2>4. CASE ~(n < PKTBUF_LEN) /\ c = Dynamic(b, n) /\ n <= MAXPACKETSZ
    <3>1. /\ c \in Conbuf /\ c.data = "dyn" /\ c.from = b.from /\ c.header_size = HEADER
          /\ c.data_dyn = n /\ c.no_buffer = FALSE /\ c.data_size = 0
          /\ c.body = None /\ c.top = 0
      BY <1>1, <2>1, <2>4 DEF Dynamic, Conbuf
    <3> QED BY <1>1, <2>1, <2>4, <3>1 DEF Filling, Prepared, Body
  <2>5. n < PKTBUF_LEN \/ c = Discard(b) \/ (c = Dynamic(b, n) /\ n <= MAXPACKETSZ)
    BY <1>1, <2>1 DEF Buffers
  <2> QED BY <2>2, <2>3, <2>4, <2>5
<1> QED BY <1>2, <1>3

(* The second recv: never more than the packet has left, never more than   *)
(* the static buffer holds when the packet is thrown away.                 *)
LEMMA DataValues ==
  ASSUME NEW b \in Conbuf, Filling(b), NEW here \in Nat,
         NEW d \in DataChunk(b, here), NEW at \in Pos,
         at = b.from + HEADER + b.data_size,
         NEW c, c = WithData(b, d, at)
  PROVE  /\ d \in Nat /\ d <= here /\ c \in Conbuf /\ Filling(c)
         /\ c.from = b.from /\ c.data_size = b.data_size + d
         /\ d = 0 => here = 0 \/ Done(c)
<1> DEFINE n == Size[b.from]
<1>1. n \in Nat /\ b.data_size \in Nat /\ b.top \in Nat /\ b.from \in Pos /\ b.no_buffer \in BOOLEAN
  BY DEF Conbuf
<1>2. Room(b) \in Int /\ Room(b) <= n - b.data_size
      /\ (b.no_buffer => Room(b) <= PKTBUF_LEN)
      /\ (Room(b) <= 0 => b.data_size >= n)
  BY <1>1 DEF Room, Smaller
<1>3. CASE d = 0
  <2>1. c = b  BY <1>3 DEF WithData
  <2>2. here = 0 \/ Done(c)
    <3>1. CASE Room(b) <= 0 \/ here = 0  BY <1>1, <1>2, <2>1, <3>1 DEF Done
    <3>2. CASE ~(Room(b) <= 0 \/ here = 0)
      <4>1. d \in Chunk(Room(b), here)  BY <3>2 DEF DataChunk
      <4> QED BY <1>2, <1>3, <4>1, ChunkRange
    <3> QED BY <3>1, <3>2
  <2> QED BY <1>1, <1>3, <2>1, <2>2
<1>4. CASE d # 0
  <2>1. d \in Nat /\ d >= 1 /\ d <= Room(b) /\ d <= here
    <3>1. ~(Room(b) <= 0 \/ here = 0)  BY <1>4 DEF DataChunk
    <3>2. d \in Chunk(Room(b), here)  BY <3>1 DEF DataChunk
    <3> QED BY <1>2, <3>2, ChunkRange
  <2>2. /\ c.from = b.from /\ c.header_size = b.header_size /\ c.data = b.data
        /\ c.data_dyn = b.data_dyn /\ c.no_buffer = b.no_buffer
        /\ c.data_size = b.data_size + d
        /\ c.body = (IF b.no_buffer \/ b.data_size > 0 THEN b.body ELSE at)
        /\ c.top = (IF b.no_buffer THEN d ELSE b.data_size + d)
    BY <1>4 DEF WithData, Conbuf
  <2>3. c \in Conbuf
    <3>1. /\ b.data_size + d \in Nat
          /\ (IF b.no_buffer \/ b.data_size > 0 THEN b.body ELSE at) \in Pos \cup {None}
          /\ (IF b.no_buffer THEN d ELSE b.data_size + d) \in Nat
      BY <1>1, <2>1 DEF Conbuf
    <3> QED BY <1>4, <3>1 DEF WithData, Conbuf
  <2>4. Prepared(c)
    BY <1>1, <1>2, <2>1, <2>2 DEF Filling, Prepared
  <2>5. Body(c)
    <3>1. CASE b.no_buffer = TRUE
      BY <2>2, <3>1 DEF Filling, Body
    <3>2. CASE b.no_buffer = FALSE
      <4>1. c.data_size # 0 /\ c.no_buffer = FALSE  BY <1>1, <2>1, <2>2, <3>2
      <4>2. CASE b.data_size > 0
        <5>1. b.body = b.from + HEADER  BY <1>1, <3>2, <4>2 DEF Filling, Body
        <5>2. c.body = b.body  BY <2>2, <4>2
        <5> QED BY <2>2, <4>1, <5>1, <5>2 DEF Body
      <4>3. CASE ~(b.data_size > 0)
        <5>1. c.body = at /\ b.data_size = 0  BY <1>1, <2>2, <3>2, <4>3
        <5>2. c.body = c.from + HEADER
          BY <1>1, <2>2, <5>1 DEF Pos
        <5> QED BY <4>1, <5>2 DEF Body
      <4> QED BY <4>2, <4>3
    <3> QED BY <1>1, <3>1, <3>2
  <2>6. c.data_size <= n  BY <1>1, <1>2, <2>1, <2>2
  <2>7. Filling(c)  BY <2>2, <2>4, <2>5, <2>6 DEF Filling
  <2> QED BY <1>4, <2>1, <2>2, <2>3, <2>7
<1> QED BY <1>3, <1>4

-----------------------------------------------------------------------------
(* What a call of readfd that reaches the data leaves: a packet at the end *)
(* of the last request, filled up to where the server stands.              *)
LEMMA DataStep ==
  ASSUME IInv, open, got < sent, NEW h \in HeaderChunk,
         buf.header_size + h >= HEADER,
         NEW b \in Buffers(WithHeader(h), Size[WithHeader(h).from]),
         NEW d \in DataChunk(b, sent - got - h),
         NEW c, c = WithData(b, d, got + h)
  PROVE  /\ c \in Conbuf /\ Filling(c) /\ c.from = Next0
         /\ got + h + d = Next0 + HEADER + c.data_size
         /\ got + h + d \in 0..sent
         /\ sent \in Pos
<1> DEFINE w == WithHeader(h)
<1>1. /\ h \in Nat /\ got + h <= sent
      /\ w \in Conbuf /\ w.header_size = buf.header_size + h
      /\ w.from = Next0 /\ w.data_size = buf.data_size
      /\ got = Next0 + buf.header_size + buf.data_size
      /\ Starting(w) \/ (h = 0 /\ Filling(w))
  BY HeaderValues
<1>2. b \in Buffers(w, Size[w.from])  OBVIOUS
<1> HIDE DEF w
<1>3. w.header_size = HEADER  BY <1>1 DEF Conbuf
<1>4. b \in Conbuf /\ Filling(b) /\ b.from = w.from /\ b.data_size = w.data_size
  BY <1>1, <1>2, <1>3, BufferValues
<1>5. /\ sent \in Nat /\ sent <= Total /\ got \in Nat /\ sent \in Pos
      /\ Next0 \in Nat
  BY DEF IInv, Pos
<1>6. b.data_size \in Nat /\ buf.header_size + h = HEADER
  BY <1>1, <1>3, <1>4 DEF Conbuf
<1>7. got + h \in Pos /\ got + h = b.from + HEADER + b.data_size
      /\ sent - got - h \in Nat
  <2>1. buf.header_size \in Int /\ buf.data_size \in Int
    <3>1. buf \in Conbuf  BY DEF IInv, Standing
    <3> QED BY <3>1 DEF Conbuf
  <2>2. got + h = Next0 + (buf.header_size + h) + buf.data_size
    BY <1>1, <1>5, <2>1
  <2>3. got + h \in Nat /\ sent - got - h \in Nat /\ got + h <= Total
    BY <1>1, <1>5
  <2>4. got + h = b.from + HEADER + b.data_size
    BY <1>1, <1>4, <1>6, <2>2
  <2> QED BY <2>3, <2>4 DEF Pos
<1>8. /\ d \in Nat /\ d <= sent - got - h /\ c \in Conbuf /\ Filling(c)
      /\ c.from = b.from /\ c.data_size = b.data_size + d
  BY <1>4, <1>7, DataValues
<1> QED BY <1>1, <1>4, <1>5, <1>6, <1>7, <1>8

(* The next request starts behind the one that was taken.                  *)
LEMMA NextAfter ==
  ASSUME IInv, NEW e \in Entry, log' = Append(log, e)
  PROVE  Next0' = Stream!After(e.at) /\ log' \in Seq(Entry) /\ log' # <<>>
<1>1. log \in Seq(Entry)  BY DEF IInv
<1>2. /\ Len(log') = Len(log) + 1 /\ log' # <<>>
      /\ log'[Len(log) + 1] = e /\ log' \in Seq(Entry)
  BY <1>1
<1> QED BY <1>2 DEF Next0, Stream!NextAt, Stream!After

LEMMA OutcomeType ==
  ASSUME NEW c \in Conbuf, Filling(c), Done(c)
  PROVE  /\ Outcome(c) \in Entry /\ Outcome(c).at = c.from
         /\ Outcome(c).kind = (IF c.no_buffer THEN "refused" ELSE "executed")
         /\ Outcome(c).body = c.body
         /\ c.data_size = Size[c.from]
<1>1. /\ c.from \in Pos /\ c.no_buffer \in BOOLEAN /\ c.data_size \in Nat
      /\ c.body \in Pos \cup {None} /\ Size[c.from] \in Nat
  BY DEF Conbuf
<1>3. c.data_size = Size[c.from]  BY <1>1 DEF Filling, Done
<1>4. CASE c.no_buffer = TRUE
  <2>1. c.body = None  BY <1>4 DEF Filling, Body
  <2> QED BY <1>1, <1>3, <1>4, <2>1 DEF Outcome, Entry
<1>5. CASE c.no_buffer = FALSE
  BY <1>1, <1>3, <1>5 DEF Outcome, Entry
<1> QED BY <1>1, <1>4, <1>5

LEMMA InitInv == Init => IInv
<1> SUFFICES ASSUME Init PROVE IInv  OBVIOUS
<1>1. Next0 = 0 /\ 0 \in Pos /\ log \in Seq(Entry)
  BY DEF Init, Next0, Stream!NextAt, Pos
<1>2. Standing(buf, got)
  BY <1>1, EmptyType DEF Init, Standing, Done
<1>3. sent \in Pos /\ got \in 0..sent
  BY <1>1 DEF Init, Pos
<1>4. gone \in BOOLEAN /\ open = TRUE
  BY DEF Init
<1> QED BY <1>1, <1>2, <1>3, <1>4 DEF IInv

(* Nothing changes for the server, or the connection ends.                 *)
LEMMA CloseInv ==
  ASSUME IInv, CloseFd, log' = log, sent' = sent, gone' = gone, got' \in 0..sent
  PROVE  IInv'
<1>1. Next0' = Next0  BY DEF Next0, Stream!NextAt, Stream!After
<1> QED BY <1>1 DEF CloseFd, IInv

LEMMA StepInv == IInv /\ [Next]_vars => IInv'
<1> SUFFICES ASSUME IInv, [Next]_vars PROVE IInv'  OBVIOUS
<1>1. /\ sent \in Pos /\ got \in 0..sent /\ gone \in BOOLEAN /\ open \in BOOLEAN
      /\ log \in Seq(Entry) /\ Next0 \in Pos
      /\ open => Standing(buf, got)
      /\ ~open => buf = Empty
  BY DEF IInv
<1>2. ASSUME log' = log PROVE Next0' = Next0
  BY <1>2 DEF Next0, Stream!NextAt, Stream!After
<1>3. CASE ClientSends
  <2>1. sent' \in Pos /\ got' \in 0..sent' /\ UNCHANGED <<gone, got, buf, open, log>>
    BY <1>1, <1>3 DEF ClientSends, Pos
  <2> QED BY <1>1, <1>2, <2>1 DEF IInv, Standing, Starting, Filling, Prepared, Body, Done
<1>4. CASE ClientHangsUp
  <2>1. gone' \in BOOLEAN /\ UNCHANGED <<got, buf, open, log>>
    BY <1>4 DEF ClientHangsUp
  <2>2. sent' \in Pos /\ got' \in 0..sent'
    BY <1>1, <1>4 DEF ClientHangsUp, Pos
  <2> QED BY <1>1, <1>2, <2>1, <2>2 DEF IInv, Standing, Starting, Filling, Prepared, Body, Done
<1>5. CASE ReadEnd
  BY <1>1, <1>5, CloseInv DEF ReadEnd
<1>6. CASE ReadHeader
  <2>1. open /\ got < sent /\ UNCHANGED <<sent, gone, open, log>>
    BY <1>6 DEF ReadHeader
  <2>2. PICK h \in HeaderChunk : /\ buf.header_size + h < HEADER
                                 /\ buf' = WithHeader(h) /\ got' = got + h
    BY <1>6 DEF ReadHeader
  <2>3. /\ h \in Nat /\ got + h <= sent
        /\ buf' \in Conbuf /\ buf'.header_size = buf.header_size + h
        /\ buf'.from = Next0
        /\ buf'.data_size = buf.data_size
        /\ got = Next0 + buf.header_size + buf.data_size
        /\ Starting(buf') \/ (h = 0 /\ Filling(buf'))
    BY <2>1, <2>2, HeaderValues
  <2>4. Starting(buf')  BY <2>2, <2>3 DEF Filling
  <2>5. buf.header_size \in Int /\ buf.data_size = 0
    BY <1>1, <2>1, <2>3, <2>4 DEF Standing, Conbuf, Starting
  <2>6. got' = Next0 + buf'.header_size + buf'.data_size
    <3>1. Next0 \in Int /\ got \in Int /\ h \in Int  BY <1>1, <2>3 DEF Pos
    <3>2. got = Next0 + buf.header_size /\ buf'.data_size = 0
      BY <2>3, <2>5, <3>1
    <3> QED BY <2>2, <2>3, <2>5, <3>1, <3>2
  <2>7. Next0' = Next0  BY <1>2, <2>1
  <2>8. Standing(buf, got)'
    BY <2>2, <2>3, <2>4, <2>6, <2>7 DEF Standing, Starting
  <2>9. got' \in 0..sent'  BY <1>1, <2>1, <2>2, <2>3 DEF Pos
  <2> QED BY <1>1, <2>1, <2>7, <2>8, <2>9 DEF IInv
<1>7. CASE ReadData
  <2>1. open /\ got < sent /\ UNCHANGED <<sent, gone>>  BY <1>7 DEF ReadData
  <2>2. PICK h \in HeaderChunk :
          /\ buf.header_size + h >= HEADER
          /\ \E b \in Buffers(WithHeader(h), Size[WithHeader(h).from]) :
               \E d \in DataChunk(b, sent - got - h) :
                 /\ got' = got + h + d
                 /\ \/ Wait(WithData(b, d, got + h), d)
                    \/ Dispatch(WithData(b, d, got + h))
    BY <1>7 DEF ReadData
  <2>9. PICK b \in Buffers(WithHeader(h), Size[WithHeader(h).from]) :
          \E d \in DataChunk(b, sent - got - h) :
            /\ got' = got + h + d
            /\ \/ Wait(WithData(b, d, got + h), d)
               \/ Dispatch(WithData(b, d, got + h))
    BY <2>2
  <2>3. PICK d \in DataChunk(b, sent - got - h) :
          /\ got' = got + h + d
          /\ \/ Wait(WithData(b, d, got + h), d)
             \/ Dispatch(WithData(b, d, got + h))
    BY <2>9
  <2> DEFINE c == WithData(b, d, got + h)
  <2>4. /\ c \in Conbuf /\ Filling(c) /\ c.from = Next0
        /\ got' = Next0 + HEADER + c.data_size
        /\ got' \in 0..sent
    BY <2>1, <2>2, <2>3, DataStep
  <2>5. Wait(c, d) \/ Dispatch(c)  BY <2>3
  <2> HIDE DEF c
  <2>6. CASE Wait(c, d)
    <3>1. ~Done(c) /\ log' = log  BY <2>6 DEF Wait
    <3>2. CASE CloseFd
      BY <2>1, <2>4, <3>1, <3>2, CloseInv
    <3>3. CASE buf' = c /\ UNCHANGED open
      <4>1. Next0' = Next0  BY <1>2, <3>1
      <4>2. Standing(buf, got)'
        BY <2>4, <3>1, <3>3, <4>1 DEF Standing, Filling, Prepared, Body, Done
      <4> QED BY <1>1, <2>1, <2>4, <3>1, <3>3, <4>1, <4>2 DEF IInv
    <3> QED BY <2>6, <3>2, <3>3 DEF Wait
  <2>7. CASE Dispatch(c)
    <3>1. Done(c) /\ log' = Append(log, Outcome(c))  BY <2>7 DEF Dispatch
    <3>2. /\ Outcome(c) \in Entry /\ Outcome(c).at = Next0
          /\ c.data_size = Size[Next0]
      BY <2>4, <3>1, OutcomeType
    <3>3. /\ Next0' = Next0 + HEADER + Size[Next0] /\ log' \in Seq(Entry)
      BY <3>1, <3>2, NextAfter DEF Stream!After
    <3>4. Next0' = got' /\ Next0' \in Pos
      BY <1>1, <2>4, <3>2, <3>3 DEF Pos
    <3>5. CASE CloseFd
      BY <1>1, <2>1, <2>4, <3>3, <3>4, <3>5 DEF IInv, CloseFd
    <3>6. CASE buf' = Reset(c) /\ UNCHANGED open
      <4>1. buf' = Empty  BY <3>6 DEF Reset
      <4>3. /\ buf' \in Conbuf /\ Starting(buf')
            /\ buf'.header_size = 0 /\ buf'.data_size = 0
        BY <4>1, EmptyType
      <4>4. got' = Next0' + buf'.header_size + buf'.data_size /\ 0 < HEADER
        <5>1. got' \in Int  BY <2>1, <2>4, <1>1 DEF Pos
        <5>2. buf'.header_size = 0 /\ buf'.data_size = 0  BY ONLY <4>3
        <5>3. \A n \in Int : n = n + 0 + 0  OBVIOUS
        <5>4. got' = got' + buf'.header_size + buf'.data_size  BY <5>1, <5>2, <5>3
        <5> QED BY <3>4, <5>4
      <4>2. Standing(buf, got)'
        BY <4>3, <4>4 DEF Standing, Starting
      <4> QED BY <1>1, <2>1, <2>4, <3>3, <3>4, <3>6, <4>2 DEF IInv
    <3> QED BY <2>7, <3>5, <3>6 DEF Dispatch
  <2> QED BY <2>5, <2>6, <2>7
<1>8. CASE UNCHANGED vars
  BY <1>1, <1>2, <1>8 DEF vars, IInv, Standing, Starting, Filling, Prepared, Body, Done
<1> QED BY <1>3, <1>4, <1>5, <1>6, <1>7, <1>8 DEF Next, ReadFd

-----------------------------------------------------------------------------
(* The inductive invariant holds in every reachable state.                 *)
THEOREM Invariant == Spec => []IInv
<1> QED BY InitInv, StepInv, PTL DEF Spec

(* Every variable has its type: positions stay inside the stream, the      *)
(* sizes of struct conbuf are counts.                                      *)
THEOREM TypeCorrect == Spec => []TypeOK
<1>1. IInv => TypeOK
  <2> SUFFICES ASSUME IInv PROVE TypeOK  OBVIOUS
  <2>1. buf \in Conbuf  BY EmptyType DEF IInv, Standing
  <2>2. got \in Pos  BY DEF IInv, Pos
  <2> QED BY <2>1, <2>2 DEF IInv, TypeOK, Conbuf, Entry
<1> QED BY <1>1, Invariant, PTL

(* No recv of readfd writes behind the end of the buffer it was given.     *)
THEOREM NeverOverrun == Spec => []NoOverrun
<1>1. IInv => NoOverrun
  <2> SUFFICES ASSUME IInv PROVE NoOverrun  OBVIOUS
  <2>1. CASE Starting(buf)
    BY <2>1 DEF Starting, NoOverrun
  <2>2. CASE Filling(buf) /\ buf \in Conbuf
    <3>1. /\ buf.data_size <= Size[buf.from] /\ Size[buf.from] \in Nat
          /\ buf.data_size \in Nat /\ Prepared(buf)
      BY <2>2 DEF Filling, Conbuf
    <3> QED BY <3>1 DEF Prepared, NoOverrun
  <2> QED BY <2>1, <2>2, EmptyType DEF IInv, Standing
<1> QED BY <1>1, Invariant, PTL

(* The dynamic buffer is freed with its packet and with the connection.    *)
THEOREM AlwaysFreed == Spec => []BufferFreed
<1>1. IInv => BufferFreed
  BY EmptyType DEF IInv, Standing, Starting, Filling, Prepared, BufferFreed, Empty
<1> QED BY <1>1, Invariant, PTL

-----------------------------------------------------------------------------
(* A request that is taken is one RequestStream takes.                     *)
LEMMA TakeStep ==
  ASSUME IInv, open, Next0' \in Pos, open' \in BOOLEAN,
         NEW c \in Conbuf, Filling(c), Done(c), c.from = Next0,
         log' = Append(log, Outcome(c)), Next0' = Stream!After(Next0)
  PROVE  Stream!Take
<1>1. /\ Outcome(c) \in Entry /\ Outcome(c).at = Next0
      /\ Outcome(c).kind = (IF c.no_buffer THEN "refused" ELSE "executed")
      /\ Outcome(c).body = c.body
      /\ c.data_size = Size[Next0]
  BY OutcomeType
<1>2. Size[Next0] \in Nat /\ Next0 \in Pos  BY DEF IInv
<1>3. c.no_buffer \in BOOLEAN  BY DEF Conbuf
<1>4. Outcome(c).body \in {-1, Next0 + HEADER}
  BY <1>1, <1>3 DEF Filling, Body, None
<1>5. Outcome(c).kind = "executed" =>
        /\ Size[Next0] <= MAXPACKETSZ \/ Size[Next0] < PKTBUF_LEN
        /\ Size[Next0] > 0 <=> Outcome(c).body = Next0 + HEADER
  <2> SUFFICES ASSUME c.no_buffer = FALSE
               PROVE  /\ Size[Next0] <= MAXPACKETSZ \/ Size[Next0] < PKTBUF_LEN
                      /\ Size[Next0] > 0 <=> c.body = Next0 + HEADER
    BY <1>1, <1>3
  <2>1. Size[Next0] <= MAXPACKETSZ \/ Size[Next0] < PKTBUF_LEN
    BY DEF Filling, Prepared
  <2>2. c.body = IF Size[Next0] = 0 THEN None ELSE Next0 + HEADER
    BY <1>1 DEF Filling, Body
  <2>3. Next0 + HEADER # None  BY <1>2 DEF Pos, None
  <2> QED BY <1>2, <2>1, <2>2, <2>3
<1>6. Outcome(c).kind = "refused" => Size[Next0] >= PKTBUF_LEN /\ Outcome(c).body = -1
  <2> SUFFICES ASSUME c.no_buffer = TRUE
               PROVE  Size[Next0] >= PKTBUF_LEN /\ c.body = -1
    BY <1>1, <1>3
  <2> QED BY DEF Filling, Prepared, Body, None
<1>7. Outcome(c) \in Stream!Taken
  BY <1>1, <1>4, <1>5, <1>6 DEF Stream!Taken, Entry, Next0
<1>8. Stream!After(Stream!NextAt) <= Total
  BY DEF Next0, Pos
<1> QED BY <1>7, <1>8 DEF Stream!Take

LEMMA StreamStep == IInv /\ [Next]_vars => [Stream!Next]_<<log, open>>
<1> SUFFICES ASSUME IInv, [Next]_vars, ~(log' = log /\ open' = open)
             PROVE  Stream!Next
  OBVIOUS
<1>1. ASSUME CloseFd, open, log' = log PROVE Stream!Next
  BY <1>1 DEF CloseFd, Stream!Next, Stream!Drop
<1>2. CASE ReadEnd
  BY <1>1, <1>2 DEF ReadEnd
<1>3. CASE ReadData
  <2>1. open /\ got < sent /\ UNCHANGED <<sent, gone>>  BY <1>3 DEF ReadData
  <2>2. PICK h \in HeaderChunk :
          /\ buf.header_size + h >= HEADER
          /\ \E b \in Buffers(WithHeader(h), Size[WithHeader(h).from]) :
               \E d \in DataChunk(b, sent - got - h) :
                 /\ got' = got + h + d
                 /\ \/ Wait(WithData(b, d, got + h), d)
                    \/ Dispatch(WithData(b, d, got + h))
    BY <1>3 DEF ReadData
  <2>3. PICK b \in Buffers(WithHeader(h), Size[WithHeader(h).from]) :
          \E d \in DataChunk(b, sent - got - h) :
            /\ got' = got + h + d
            /\ \/ Wait(WithData(b, d, got + h), d)
               \/ Dispatch(WithData(b, d, got + h))
    BY <2>2
  <2>4. PICK d \in DataChunk(b, sent - got - h) :
          /\ got' = got + h + d
          /\ \/ Wait(WithData(b, d, got + h), d)
             \/ Dispatch(WithData(b, d, got + h))
    BY <2>3
  <2> DEFINE c == WithData(b, d, got + h)
  <2>5. /\ c \in Conbuf /\ Filling(c) /\ c.from = Next0
    BY <2>1, <2>2, <2>4, DataStep
  <2>6. Wait(c, d) \/ Dispatch(c)  BY <2>4
  <2> HIDE DEF c
  <2>7. CASE Wait(c, d)
    BY <1>1, <2>1, <2>7 DEF Wait
  <2>8. CASE Dispatch(c)
    <3>1. Done(c) /\ log' = Append(log, Outcome(c))  BY <2>8 DEF Dispatch
    <3>2. Outcome(c) \in Entry /\ Outcome(c).at = Next0
      BY <2>5, <3>1, OutcomeType
    <3>3. Next0' = Stream!After(Next0)
      BY <3>1, <3>2, NextAfter
    <3>4. Next0' \in Pos  BY StepInv DEF IInv
    <3>5. open' \in BOOLEAN  BY <2>1, <2>8 DEF Dispatch, CloseFd
    <3>6. Stream!Take
      BY <2>1, <2>5, <3>1, <3>3, <3>4, <3>5, TakeStep
    <3> QED BY <3>6 DEF Stream!Next
  <2> QED BY <2>6, <2>7, <2>8
<1>4. ~(ClientSends \/ ClientHangsUp \/ ReadHeader \/ UNCHANGED vars)
  BY DEF ClientSends, ClientHangsUp, ReadHeader, vars
<1> QED BY <1>2, <1>3, <1>4 DEF Next, ReadFd

(* Every request of the client is taken in its order, executed with its    *)
(* own data or refused, until the connection ends: readfd implements       *)
(* RequestStream.                                                          *)
THEOREM Refinement == Spec => Implements
<1>1. Init => Stream!Init  BY DEF Init, Stream!Init
<1> QED BY <1>1, StreamStep, Invariant, PTL DEF Spec, Implements, Stream!Spec
=============================================================================
