------------------------------ MODULE Framing ------------------------------
(***************************************************************************)
(* How the server cuts the bytes of one connection into requests: readfd   *)
(* in net/request.c and the packet buffers of struct conbuf. A step is one *)
(* call of readfd, made when select() reports the connection; recv hands   *)
(* over any part of what has arrived, and the header of a request and its  *)
(* data may come in any pieces.                                            *)
(*                                                                         *)
(* Bytes are their positions in the stream the client writes. `Size' gives *)
(* the size field of a header that starts at a position, for every         *)
(* position: where the server looks is its own doing.                      *)
(***************************************************************************)
EXTENDS Integers, Sequences

CONSTANTS
  Total,        \* bytes the client writes in all
  HEADER,       \* sizeof(struct pgrequest)
  PKTBUF_LEN,   \* length of the static packet buffer
  MAXPACKETSZ,  \* largest packet a buffer is allocated for
  Size          \* position of a header -> its size field

Pos == 0..Total

ASSUME FramingAssumption ==
  /\ Total \in Nat /\ HEADER \in Nat \ {0}
  /\ PKTBUF_LEN \in Nat \ {0} /\ MAXPACKETSZ \in Nat
  /\ Size \in [Pos -> Nat]

VARIABLES
  sent,    \* bytes the client has written
  gone,    \* the client has closed its end
  got,     \* bytes the server has received
  buf,     \* the packet part of struct conbuf
  open,    \* the server has the connection
  log      \* what became of each request, in the order the server took them

vars == <<sent, gone, got, buf, open, log>>

Null == 0
None == -1

(* `from' stands for the header bytes in buf->req, by the position of the  *)
(* first; `body' for the position of the first byte in the data buffer;    *)
(* `data_dyn' is the length allocated, `top' the end of the last write     *)
(* into the buffer that `data' points to.                                  *)
Empty ==
  [from |-> 0, header_size |-> 0, data |-> "null", data_dyn |-> Null,
   no_buffer |-> FALSE, data_size |-> 0, body |-> None, top |-> 0]

Smaller(a, b) == IF a < b THEN a ELSE b

(* What recv may return when `wanted' bytes are asked for.                 *)
Chunk(wanted, available) == 1..Smaller(wanted, available)

-----------------------------------------------------------------------------
(* readfd, in its order: the header, the buffer, the data, the request.    *)

HeaderWanted(b) == HEADER - b.header_size

HeaderChunk ==
  IF buf.header_size < HEADER THEN Chunk(HeaderWanted(buf), sent - got) ELSE {0}

WithHeader(h) ==
  [buf EXCEPT !.header_size = @ + h,
              !.from = IF buf.header_size = 0 THEN got ELSE @]

(* Where the data of a packet of n bytes goes: once the header is there.   *)
Static(b) == [b EXCEPT !.data = "stat"]
Dynamic(b, n) == [b EXCEPT !.data = "dyn", !.data_dyn = n]
Discard(b) == [b EXCEPT !.data = "stat", !.data_dyn = Null, !.no_buffer = TRUE]

Buffers(b, n) ==
  IF b.data # "null" THEN {b}
  ELSE IF n < PKTBUF_LEN THEN {Static(b)}
  ELSE {Discard(b)} \cup IF n > MAXPACKETSZ THEN {} ELSE {Dynamic(b, n)}

NoCap(b) == Size[b.from] - b.data_size                       \* mutant of Room
Room(b) ==
  IF b.no_buffer THEN Smaller(Size[b.from] - b.data_size, PKTBUF_LEN)
  ELSE Size[b.from] - b.data_size

(* The second recv is left out when no data is wanted, and returns nothing *)
(* when none has arrived.                                                  *)
DataChunk(b, available) ==
  IF Room(b) <= 0 \/ available = 0 THEN {0} ELSE Chunk(Room(b), available)

WithData(b, d, at) ==
  IF d = 0 THEN b
  ELSE [b EXCEPT !.data_size = @ + d,
                 !.body = IF b.no_buffer \/ b.data_size > 0 THEN @ ELSE at,
                 !.top = IF b.no_buffer THEN d ELSE b.data_size + d]

Outcome(b) ==
  IF b.no_buffer
  THEN [at |-> b.from, body |-> None, kind |-> "refused"]
  ELSE [at |-> b.from, body |-> b.body, kind |-> "executed"]

(* The structure is reset for another packet.                              *)
KeepDiscarding(b) == [Empty EXCEPT !.no_buffer = b.no_buffer]   \* mutants of Reset
KeepBuffer(b) == [Empty EXCEPT !.data_dyn = b.data_dyn]
Reset(b) == Empty

-----------------------------------------------------------------------------
Init ==
  /\ sent = 0 /\ got = 0
  /\ gone = FALSE /\ open = TRUE
  /\ buf = Empty
  /\ log = <<>>

ClientSends ==
  /\ ~gone /\ sent < Total
  /\ sent' \in (sent + 1)..Total
  /\ UNCHANGED <<gone, got, buf, open, log>>

(* A connection that is reset loses what the server has not read yet.      *)
ClientHangsUp ==
  /\ ~gone
  /\ gone' = TRUE
  /\ sent' \in got..sent
  /\ UNCHANGED <<got, buf, open, log>>

(* closefd; request_client_destroy frees the dynamic buffer.               *)
CloseFd == open' = FALSE /\ buf' = Empty

(* The recv that comes first finds the end of the stream.                  *)
ReadEnd ==
  /\ open /\ gone /\ got = sent
  /\ CloseFd
  /\ UNCHANGED <<sent, gone, got, log>>

(* The header is not complete yet.                                         *)
ReadHeader ==
  /\ open /\ got < sent
  /\ \E h \in HeaderChunk :
       /\ buf.header_size + h < HEADER
       /\ buf' = WithHeader(h)
       /\ got' = got + h
  /\ UNCHANGED <<sent, gone, open, log>>

MoreThanSize(c) == c.data_size > Size[c.from]                \* mutant of Done
Done(c) == c.data_size >= Size[c.from]

(* The data is not complete: wait for more, unless recv found the end.     *)
Wait(c, d) ==
  /\ ~Done(c)
  /\ IF d = 0 /\ gone THEN CloseFd ELSE buf' = c /\ UNCHANGED open
  /\ UNCHANGED log

(* The request is complete: request_exec, or the refusal. When the         *)
(* response cannot be sent the connection is closed.                       *)
Dispatch(c) ==
  /\ Done(c)
  /\ log' = Append(log, Outcome(c))
  /\ \/ buf' = Reset(c) /\ UNCHANGED open
     \/ CloseFd

(* The header is complete: the buffer is prepared, data is received.       *)
ReadData ==
  /\ open /\ got < sent
  /\ \E h \in HeaderChunk :
       /\ buf.header_size + h >= HEADER
       /\ \E b \in Buffers(WithHeader(h), Size[WithHeader(h).from]) :
            \E d \in DataChunk(b, sent - got - h) :
              /\ got' = got + h + d
              /\ \/ Wait(WithData(b, d, got + h), d)
                 \/ Dispatch(WithData(b, d, got + h))
  /\ UNCHANGED <<sent, gone>>

ReadFd == ReadEnd \/ ReadHeader \/ ReadData

Next == ClientSends \/ ClientHangsUp \/ ReadFd

(* select() is level triggered: readfd is called until nothing is left.    *)
Spec == Init /\ [][Next]_vars /\ WF_vars(ReadFd)

-----------------------------------------------------------------------------
TypeOK ==
  /\ sent \in Pos /\ got \in Pos /\ gone \in BOOLEAN /\ open \in BOOLEAN
  /\ buf \in [from : Pos, header_size : 0..HEADER, data : {"null", "stat", "dyn"},
              data_dyn : Nat, no_buffer : BOOLEAN, data_size : Nat,
              body : Pos \cup {None}, top : Nat]
  /\ log \in Seq([at : Pos, body : Pos \cup {None}, kind : {"executed", "refused"}])

(* No recv writes behind the end of the buffer it was given, however the   *)
(* bytes of a packet arrive and whether it is kept or thrown away.         *)
NoOverrun == buf.top <= IF buf.data = "dyn" THEN buf.data_dyn ELSE PKTBUF_LEN

(* The dynamic buffer belongs to one packet: it is there only while the    *)
(* packet is being received, and not when the connection is closed.        *)
BufferFreed == buf.data_dyn # Null => open /\ buf.data = "dyn" /\ ~buf.no_buffer

(* The requests of the client, in order, each with its own data, whatever  *)
(* sizes surround it.                                                      *)
Stream == INSTANCE RequestStream WITH served <- log
Implements == Stream!Spec

(* A request that has arrived is taken, unless the connection ends.        *)
Complete == LET p == Stream!NextAt
            IN p + HEADER <= sent /\ p + HEADER + Size[p] <= sent
Taken == \A k \in 0..(Total \div HEADER) : (Len(log) = k /\ Complete) ~> (Len(log) > k \/ ~open)
=============================================================================
