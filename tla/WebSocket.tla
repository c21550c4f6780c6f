------------------------------ MODULE WebSocket ------------------------------
(***************************************************************************)
(* web_sockets.c: the opening handshake, and frames from law_ws_write_head *)
(* and law_ws_xor_apply at one end to law_ws_read_head and                 *)
(* law_ws_xor_apply at the other, through a buffer that law_htc_ensure_    *)
(* input fills with whatever part of the stream has arrived.               *)
(*                                                                         *)
(* A byte on its way is a number and the set of key bytes it is masked     *)
(* with: the exclusive or of two bytes is the symmetric difference of the  *)
(* sets.  Byte is the number of values of a byte (256, scaled down), and   *)
(* with it the lengths at which the form of a head changes.                *)
(***************************************************************************)
EXTENDS Integers, Sequences, FiniteSets, FiniteSetsExt

CONSTANTS
  Byte,       \* 256
  Op,         \* 16, the number of opcodes
  Heads,      \* heads a peer may write: [fin, opcode, payload_length]
  Requests,   \* header lists of requests: sequences of <<name, value>>
  MaxIn,      \* pgc_buf_max(in)
  MaxWire,    \* bytes under way at which the peer writes no more payload
  MaxFrames   \* bound on the frames of a connection

Half == Byte \div 2          \* 1 << 7
Small == Half - 3            \* 125
Medium == Half - 2           \* 126
Large == Half - 1            \* 127
UINT16_MAX == Byte * Byte - 1

ASSUME WebSocketAssumption ==
  /\ Byte \in Nat /\ Half * 2 = Byte /\ Small >= 0
  /\ Op \in Nat \ {0} /\ \E k \in 1..Half : k * Op = Half
  /\ Heads \subseteq [fin : 0..1, opcode : 0..(Op - 1), payload_length : Nat]
  /\ Requests \subseteq Seq(STRING \X STRING)
  /\ MaxIn \in Nat \ {0, 1} /\ {MaxWire, MaxFrames} \subseteq Nat

VARIABLES
  hdrs,      \* the headers of the request
  said,      \* heads the peer has written
  written,   \* how much of the payload of the last one it has written
  woffset,   \* xor->offset of the peer
  wire,      \* bytes on their way
  shut,      \* the peer has closed the connection
  in,        \* conn->in
  phase,     \* the call the reader is in
  head,      \* struct law_ws_head
  offset,    \* xor->offset of the reader
  got,       \* heads the reader got, each with the payload it took
  res        \* the error that ended the connection

peer == <<said, written, woffset, shut>>
reader == <<head, offset, got>>
vars == <<hdrs, peer, wire, in, phase, reader, res>>

NoHead == [fin |-> 0, opcode |-> 0, payload_length |-> 0, masking_key |-> <<>>]

Init ==
  /\ hdrs \in Requests
  /\ said = <<>> /\ written = 0 /\ woffset = 0 /\ wire = <<>> /\ shut = FALSE
  /\ in = <<>> /\ phase = "accept" /\ head = NoHead /\ offset = 0 /\ got = <<>>
  /\ res = "OK"

-----------------------------------------------------------------------------
(***************************************************************************)
(* Bytes.                                                                  *)
(***************************************************************************)
Num(n) == [num |-> n, mask |-> {}]

\* Byte j of the masking key of frame k, and byte n of its payload.
KeyByte(k, j) == [num |-> 0, mask |-> {<<k, j>>}]
Key(k) == [j \in 1..4 |-> KeyByte(k, j)]
Plain(n) == Num(n % Byte)

Xor(b, c) == [b EXCEPT !.mask = (b.mask \cup c.mask) \ (b.mask \cap c.mask)]

\* Mutant: every call starts with the first byte of the key again.
law_ws_xor_apply_Anew(key, off, bs) ==
  [i \in 1..Len(bs) |-> Xor(bs[i], key[((i - 1) % 4) + 1])]
law_ws_xor_apply(key, off, bs) ==
  [i \in 1..Len(bs) |-> Xor(bs[i], key[((off + i - 1) % 4) + 1])]

\* A length in two or eight bytes, the highest first, and back.
htons(n) == <<Num((n \div Byte) % Byte), Num(n % Byte)>>
htobe64(n) ==
  LET two == Byte * Byte
      four == two * two
  IN  (htons(n \div (four * two)) \o htons(n \div four)) \o (htons(n \div two) \o htons(n))
ntohs(bs) == bs[1].num * Byte + bs[2].num

-----------------------------------------------------------------------------
(***************************************************************************)
(* The handshake.                                                          *)
(***************************************************************************)
NULL == "NULL"

law_hth_get(name) ==
  LET found == {i \in 1..Len(hdrs) : hdrs[i][1] = name}
  IN  IF found = {} THEN NULL ELSE hdrs[Min(found)][2]

\* "Connection" may have any value.
Accepts ==
  /\ \A name \in {"Host", "Origin", "Connection"} : law_hth_get(name) # NULL
  /\ law_hth_get("Upgrade") = "websocket"
  /\ law_hth_get("Sec-WebSocket-Version") = "13"
  /\ law_hth_get("Sec-WebSocket-Key") \notin {NULL, "long"}

\* The reply may not fit into the output buffer.
law_ws_accept ==
  /\ phase = "accept"
  /\ \/ Accepts /\ phase' = "start" /\ UNCHANGED res
     \/ Accepts /\ phase' = "failed" /\ res' = "OUT"
     \/ ~Accepts /\ phase' = "failed" /\ res' = "WS"
  /\ UNCHANGED <<hdrs, peer, wire, in, reader>>

-----------------------------------------------------------------------------
(***************************************************************************)
(* The peer.                                                               *)
(***************************************************************************)
FirstTwo(h, length) == <<Num(h.fin * Half + h.opcode), Num(Half + length)>>

law_ws_write_head_small(h, key) == FirstTwo(h, h.payload_length) \o key

law_ws_write_head_medium(h, key) ==
  FirstTwo(h, Medium) \o htons(h.payload_length) \o key

law_ws_write_head_large(h, key) ==
  FirstTwo(h, Large) \o htobe64(h.payload_length) \o key

Written(h, key) ==
  IF h.payload_length <= Small THEN law_ws_write_head_small(h, key)
  ELSE IF h.payload_length <= UINT16_MAX THEN law_ws_write_head_medium(h, key)
  ELSE law_ws_write_head_large(h, key)

Rest == IF said = <<>> THEN 0 ELSE said[Len(said)].payload_length - written

\* law_ws_xor_gen and law_ws_write_head of the next frame.
law_ws_write_head(h) ==
  /\ phase # "accept" /\ ~shut /\ Rest = 0 /\ Len(said) < MaxFrames
  /\ said' = Append(said, h) /\ written' = 0 /\ woffset' = 0
  /\ wire' = wire \o Written(h, Key(Len(said) + 1))
  /\ UNCHANGED <<hdrs, shut, in, phase, reader, res>>

\* n bytes of the payload are masked and written.
Write(n) ==
  /\ ~shut /\ n \in 1..Rest /\ Len(wire) + n <= MaxWire
  /\ wire' = wire \o law_ws_xor_apply(Key(Len(said)), woffset,
                                     [i \in 1..n |-> Plain(written + i)])
  /\ written' = written + n /\ woffset' = woffset + n
  /\ UNCHANGED <<hdrs, said, shut, in, phase, reader, res>>

Shut ==
  /\ ~shut /\ shut' = TRUE
  /\ UNCHANGED <<hdrs, said, written, woffset, wire, in, phase, reader, res>>

-----------------------------------------------------------------------------
(***************************************************************************)
(* The reader.                                                             *)
(***************************************************************************)

\* The outcomes of law_htc_ensure_input: the error, and what is left of in
\* and wire.
Outcome(e, n) == [res |-> e, in |-> in \o SubSeq(wire, 1, n),
                  wire |-> SubSeq(wire, n + 1, Len(wire))]

Reads(n) ==
  {Outcome(IF Len(in) + k >= n THEN "OK" ELSE "WANTR", k) :
     k \in 1..Min({MaxIn - Len(in), Len(wire)})}
  \cup {Outcome("ERR", 0)}
  \cup (IF wire # <<>> THEN {} ELSE {Outcome(IF shut THEN "EOF" ELSE "WANTR", 0)})

\* Mutant: any rest of the buffer counts against nbytes twice.
law_htc_ensure_input_Twice(n) ==
  IF 2 * Len(in) + n > MaxIn THEN {Outcome("OOB", 0)}
  ELSE IF Len(in) >= n THEN {Outcome("OK", 0)} ELSE Reads(n)
law_htc_ensure_input(n) ==
  IF Len(in) + n > MaxIn THEN {Outcome("OOB", 0)}
  ELSE IF Len(in) >= n THEN {Outcome("OK", 0)} ELSE Reads(n)

\* A call that needs n bytes: Then(bs) is what it does with them.
\* law_srv_await2 repeats it while the connection wants to be read; its
\* timeout is one of the failed reads.
Needs(n, Then(_)) ==
  \E x \in law_htc_ensure_input(n) :
    /\ wire' = x.wire
    /\ \/ /\ x.res = "OK"
          /\ in' = SubSeq(x.in, n + 1, Len(x.in)) /\ Then(SubSeq(x.in, 1, n))
       \/ /\ x.res = "WANTR"
          /\ in' = x.in /\ UNCHANGED <<phase, reader, res>>
       \/ /\ x.res \notin {"OK", "WANTR"}
          /\ in' = x.in /\ phase' = "failed" /\ res' = x.res /\ UNCHANGED reader

\* The first two bytes; law_ws_read_head chooses what follows by the length.
Form(length) ==
  IF length <= Small THEN "small" ELSE IF length = Medium THEN "medium" ELSE "large"

StartWith(bs) ==
  LET length == bs[2].num % Half
  IN  IF bs[2].num < Half
      THEN phase' = "failed" /\ res' = "WS" /\ UNCHANGED reader
      ELSE /\ head' = [NoHead EXCEPT !.fin = bs[1].num \div Half,
                                     !.opcode = bs[1].num % Op,
                                     !.payload_length = length]
           /\ phase' = Form(length) /\ UNCHANGED <<offset, got, res>>

law_ws_read_head_start ==
  /\ phase = "start" /\ Needs(2, StartWith)
  /\ UNCHANGED <<hdrs, peer>>

\* The head is complete: law_ws_xor_init.
Complete(length, key) ==
  /\ head' = [head EXCEPT !.payload_length = length, !.masking_key = key]
  /\ offset' = 0
  /\ got' = Append(got, [head |-> [fin |-> head.fin, opcode |-> head.opcode,
                                   payload_length |-> length], data |-> <<>>])
  /\ UNCHANGED res

SmallWith(bs) == Complete(head.payload_length, bs) /\ phase' = "payload"

law_ws_read_head_small ==
  /\ phase = "small" /\ Needs(4, SmallWith)
  /\ UNCHANGED <<hdrs, peer>>

MediumWith(bs) == Complete(ntohs(bs), SubSeq(bs, 3, 6)) /\ phase' = "payload"

law_ws_read_head_medium ==
  /\ phase = "medium" /\ Needs(6, MediumWith)
  /\ UNCHANGED <<hdrs, peer>>

\* The 8 bytes of the length are read but not stored: payload_length stays at
\* 127 and the call returns OK.  The reader is out of step with the frames
\* from here on.
LargeWith(bs) == Complete(head.payload_length, SubSeq(bs, 9, 12)) /\ phase' = "astray"

law_ws_read_head_large ==
  /\ phase = "large" /\ Needs(12, LargeWith)
  /\ UNCHANGED <<hdrs, peer>>

\* The start of a head, then the rest of it in the form the start says; any
\* error ends the connection.
law_ws_read_head ==
  \/ law_ws_read_head_start
  \/ law_ws_read_head_small \/ law_ws_read_head_medium \/ law_ws_read_head_large

Remaining == head.payload_length - Len(got[Len(got)].data)

\* The application takes part of the payload and unmasks it.
PayloadWith(bs) ==
  /\ got' = [got EXCEPT ![Len(got)].data =
               @ \o law_ws_xor_apply(head.masking_key, offset, bs)]
  /\ offset' = offset + Len(bs)
  /\ UNCHANGED <<head, phase, res>>

ReadPayload(n) ==
  /\ phase = "payload" /\ n \in 1..Remaining
  /\ Needs(n, PayloadWith)
  /\ UNCHANGED <<hdrs, peer>>

NextFrame ==
  /\ phase = "payload" /\ Remaining = 0
  /\ phase' = "start" /\ head' = NoHead
  /\ UNCHANGED <<hdrs, peer, wire, in, offset, got, res>>

\* Out of step with the frames the calls go on, and take for a payload or for
\* a head what is neither: any number of bytes, and perhaps an error, of a
\* head that does not look masked.  What they make of it is not recorded.
AstrayWith(bs) ==
  /\ UNCHANGED reader
  /\ \/ UNCHANGED <<phase, res>>
     \/ phase' = "failed" /\ res' = "WS"

ReadAstray(n) ==
  /\ phase = "astray" /\ n \in 1..(MaxIn + 1)
  /\ Needs(n, AstrayWith)
  /\ UNCHANGED <<hdrs, peer>>

Ended == phase = "failed" /\ UNCHANGED vars

Lengths == {h.payload_length : h \in Heads}

Next ==
  \/ law_ws_accept
  \/ (\E h \in Heads : law_ws_write_head(h)) \/ (\E n \in 1..Max(Lengths) : Write(n)) \/ Shut
  \/ law_ws_read_head
  \/ (\E n \in 1..Max(Lengths) : ReadPayload(n)) \/ NextFrame
  \/ (\E n \in 1..(MaxIn + 1) : ReadAstray(n))
  \/ Ended

Spec == Init /\ [][Next]_vars

-----------------------------------------------------------------------------
\* The first header of that name has one of these values.
First(name, OK(_)) ==
  \E i \in 1..Len(hdrs) :
    hdrs[i][1] = name /\ OK(hdrs[i][2]) /\ \A j \in 1..(i - 1) : hdrs[j][1] # name

\* Is frame f, as read, frame h, as written?  Of a large head only the first
\* byte is: its length is lost.
Agrees(f, h) ==
  /\ f.head.fin = h.fin /\ f.head.opcode = h.opcode
  /\ h.payload_length <= UINT16_MAX => f.head.payload_length = h.payload_length
  /\ f.data = [i \in 1..Len(f.data) |-> Plain(i)]

\* However the stream is cut into pieces, the frames that are read are those
\* that were written, with their payload unmasked in order (law_ws_read_head,
\* law_ws_xor_apply), up to and without the length of the first head whose
\* length does not fit in 16 bits: law_ws_read_head_large drops that length,
\* so nothing is said of it, nor of what is read after it.  And no frame is
\* read unless the request was one to upgrade (law_ws_accept).
FramesAgree ==
  /\ Len(got) <= Len(said)
  /\ \A i \in 1..Len(got) : Agrees(got[i], said[i])
  /\ phase \notin {"accept", "failed"} =>
       /\ First("Upgrade", LAMBDA v : v = "websocket")
       /\ First("Sec-WebSocket-Version", LAMBDA v : v = "13")
       /\ First("Sec-WebSocket-Key", LAMBDA v : v # "long")

HeadSize(h) ==
  IF h.payload_length <= Small THEN 6
  ELSE IF h.payload_length <= UINT16_MAX THEN 8 ELSE 14

Done == Cardinality({i \in 1..Len(got) : Len(got[i].data) = got[i].head.payload_length})

\* A head has been read whose length does not fit in 16 bits.
OutOfStep == \E i \in 1..Len(got) : said[i].payload_length > UINT16_MAX

\* The frame that is read is refused as too large only when twice its size
\* exceeds the buffer, or when a part of the next one is already underway:
\* law_htc_ensure_input counts what is in the buffer on top of what it is
\* asked for.  A reader that is out of step may ask for anything.
RefusedWhenCrowded ==
  res = "OOB" =>
    \/ OutOfStep
    \/ Len(said) > Done + 1
    \/ 2 * (HeadSize(said[Done + 1]) + said[Done + 1].payload_length) > MaxIn
=============================================================================
