--------------------------- MODULE WebSocketProofs ---------------------------
(***************************************************************************)
(* Proofs about module WebSocket, for every range of bytes, every set of   *)
(* heads, any number of frames and every way the stream is cut.            *)
(***************************************************************************)
EXTENDS WebSocket, FiniteSetTheorems, SequenceTheorems, WellFoundedInduction,
        TLAPS

USE DEF peer, reader

-----------------------------------------------------------------------------
(* The inductive invariant *)

Cell == [num : Int, mask : SUBSET (Int \X Int)]

Types ==
  /\ hdrs \in Requests /\ said \in Seq(Heads) /\ written \in Nat
  /\ wire \in Seq(Cell) /\ in \in Seq(Cell)
  /\ phase \in {"accept", "start", "small", "medium", "large", "payload", "failed", "astray"}
  /\ head \in [fin : Int, opcode : Int, payload_length : Int, masking_key : Seq(Cell)]
  /\ offset \in Nat
  /\ got \in Seq([head : [fin : Int, opcode : Int, payload_length : Int], data : Seq(Cell)])

\* What the peer has said of the last frame, and masked of its payload.
Peer ==
  /\ woffset = written
  /\ IF said = <<>> THEN written = 0 ELSE written <= said[Len(said)].payload_length
  /\ phase = "accept" => said = <<>> /\ wire = <<>> /\ in = <<>> /\ got = <<>>

\* What the reader has yet to take, and the form of the head it is in.
Ahead == in \o wire

InHead == {"small", "medium", "large"}
Following == phase \in {"start", "payload"} \cup InHead

FormOf(h) ==
  IF h.payload_length <= Small THEN "small"
  ELSE IF h.payload_length <= UINT16_MAX THEN "medium" ELSE "large"

\* What the reader knows of the frame it is in.
Reader ==
  /\ phase \in InHead =>
       LET h == said[Len(got) + 1]
       IN  /\ Len(got) < Len(said)
           /\ phase = FormOf(h) /\ head.fin = h.fin /\ head.opcode = h.opcode
           /\ phase = "small" => head.payload_length = h.payload_length
           /\ phase = "large" => head.payload_length = Large
  /\ phase = "payload" =>
       LET f == Len(got)
       IN  /\ f \in 1 .. Len(said) /\ said[f].payload_length <= UINT16_MAX
           /\ head.payload_length = said[f].payload_length
           /\ \A j \in 1 .. 4 : head.masking_key[j] = KeyByte(f, j)
           /\ offset = Len(got[f].data) /\ offset <= head.payload_length
  /\ phase = "astray" => OutOfStep

\* The stream is the frames one after the other; byte j of frame k is:
FrameSize(h) == HeadSize(h) + h.payload_length
KeyAt(k, p) == KeyByte(k, ((p - 1) % 4) + 1)
FrameByte(h, k, j) ==
  IF j <= HeadSize(h) THEN Written(h, Key(k))[j]
  ELSE Xor(Plain(j - HeadSize(h)), KeyAt(k, j - HeadSize(h)))

\* Frame k begins behind `start[k]` bytes of the stream, of which `eaten`
\* have been taken.
Laid(start, eaten) ==
  /\ start \in [1 .. Len(said) + 1 -> Nat]
  /\ \A k \in 1 .. Len(said) : start[k + 1] = start[k] + FrameSize(said[k])
  /\ \A k, l \in 1 .. Len(said) + 1 : k <= l => start[k] <= start[l]
  /\ eaten + Len(Ahead) + Rest = start[Len(said) + 1]
  /\ \A k \in 1 .. Len(said), i \in 1 .. Len(Ahead) :
       start[k] < eaten + i /\ eaten + i <= start[k] + FrameSize(said[k])
         => Ahead[i] = FrameByte(said[k], k, (eaten + i) - start[k])

\* Where the reader is in the stream.
Reached(start, eaten) ==
  /\ phase = "start" => Len(got) <= Len(said) /\ eaten = start[Len(got) + 1]
  /\ phase \in InHead => eaten = start[Len(got) + 1] + 2
  /\ phase = "payload" => eaten = start[Len(got)] + (HeadSize(said[Len(got)]) + offset)

Stream == Following => \E start : \E eaten \in Nat : Laid(start, eaten) /\ Reached(start, eaten)

\* All frames but the one that is read have been read to the end.
Whole(i) == Len(got[i].data) = got[i].head.payload_length

Finished ==
  /\ \A i \in 1 .. Len(got) : i < Len(got) => Whole(i)
  /\ phase \in {"start"} \cup InHead => \A i \in 1 .. Len(got) : Whole(i)

\* A refusal ends the connection, and is of a frame that the peer has said,
\* unless the reader was out of step.
Refused == res = "OOB" => phase = "failed" /\ (OutOfStep \/ Done + 1 <= Len(said))

\* The two halves of FramesAgree.
FramesMatch ==
  /\ Len(got) <= Len(said)
  /\ \A i \in 1 .. Len(got) : Agrees(got[i], said[i])

IsUpgrade ==
  /\ First("Upgrade", LAMBDA v : v = "websocket")
  /\ First("Sec-WebSocket-Version", LAMBDA v : v = "13")
  /\ First("Sec-WebSocket-Key", LAMBDA v : v # "long")

Upgraded == phase \notin {"accept", "failed"} => IsUpgrade

Invariant ==
  /\ Types /\ Peer /\ Reader /\ Stream /\ Finished
  /\ FramesMatch /\ Upgraded /\ Refused /\ RefusedWhenCrowded

-----------------------------------------------------------------------------
(* Arithmetic *)

\* Division by n and its remainder.
LEMMA DivMod ==
  ASSUME NEW n \in Nat \ {0}, NEW a \in Nat, NEW r \in 0 .. (n - 1)
  PROVE  (a * n + r) % n = r /\ (a * n + r) \div n = a
  <1>1. a * n \in Nat /\ a * n + r \in Nat
    OBVIOUS
  <1>2. PICK q, m : q = (a * n + r) \div n /\ m = (a * n + r) % n
    OBVIOUS
  <1>3. q \in Int /\ m \in 0 .. (n - 1) /\ a * n + r = q * n + m
    BY <1>1, <1>2
  <1>4. PICK d \in Int : d = q - a
    BY <1>3
  <1>5. q * n = a * n + d * n
    BY <1>3, <1>4
  <1>6. d * n = r - m
    BY <1>1, <1>3, <1>5
  <1>7. ~ d >= 1
    BY <1>3, <1>6
  <1>8. ~ d <= -1
    BY <1>3, <1>6
  <1>9. q = a
    BY <1>3, <1>4, <1>7, <1>8
  <1> QED BY <1>2, <1>3, <1>9

\* What the assumption says of the lengths.
LEMMA Params ==
  /\ Byte \in Nat /\ Half \in Nat \ {0} /\ Half * 2 = Byte /\ Half >= 3
  /\ Small = Half - 3 /\ Medium = Half - 2 /\ Large = Half - 1
  /\ Op \in Nat \ {0} /\ Op <= Half
  /\ UINT16_MAX = Byte * Byte - 1
  /\ MaxIn \in Nat /\ MaxIn >= 2
  /\ Heads \subseteq [fin : 0 .. 1, opcode : 0 .. (Op - 1), payload_length : Nat]
  BY WebSocketAssumption DEF Half, Small, Medium, Large, UINT16_MAX

\* The two fields of the first byte of a head.
LEMMA FirstByte ==
  ASSUME NEW fin \in 0 .. 1, NEW opcode \in 0 .. (Op - 1)
  PROVE  /\ (fin * Half + opcode) \div Half = fin
         /\ (fin * Half + opcode) % Op = opcode
  <1>1. PICK k \in 1 .. Half : k * Op = Half
    BY WebSocketAssumption
  <1>2. opcode \in 0 .. (Half - 1)
    BY Params
  <1>3. (fin * Half + opcode) \div Half = fin
    BY <1>2, DivMod, Params
  <1>4. fin * Half + opcode = (fin * k) * Op + opcode /\ fin * k \in Nat
    <2>1. CASE fin = 0
      BY <2>1, <1>1, Params
    <2>2. CASE fin = 1
      BY <2>2, <1>1, Params
    <2> QED BY <2>1, <2>2
  <1>5. (fin * Half + opcode) % Op = opcode
    <2>1. PICK a \in Nat : a = fin * k
      BY <1>4
    <2>2. (a * Op + opcode) % Op = opcode
      BY DivMod, Params
    <2> QED BY <1>4, <2>1, <2>2
  <1> QED BY <1>3, <1>5

\* ntohs undoes htons.
LEMMA SixteenBits ==
  ASSUME NEW n \in Nat, n <= UINT16_MAX
  PROVE  ((n \div Byte) % Byte) * Byte + (n % Byte) = n
  <1>1. Byte \in Nat \ {0} /\ n < Byte * Byte
    BY Params
  <1>2. PICK q, r : q = n \div Byte /\ r = n % Byte
    OBVIOUS
  <1>3. q \in Nat /\ r \in Nat /\ n = q * Byte + r
    BY <1>1, <1>2
  <1>4. q < Byte
    BY <1>1, <1>3
  <1>5. q % Byte = q
    BY <1>1, <1>3, <1>4
  <1> QED BY <1>2, <1>3, <1>5

-----------------------------------------------------------------------------
(* Bytes and heads *)

\* Bytes, masked or not, are cells.
LEMMA BytesAreCells ==
  /\ \A n \in Int : Num(n) \in Cell
  /\ \A k, j \in Int : KeyByte(k, j) \in Cell
  /\ \A b, c \in Cell : Xor(b, c) \in Cell
  BY DEF Num, KeyByte, Xor, Cell

\* law_ws_xor_apply undoes itself: the exclusive or with the same byte twice.
LEMMA XorTwice ==
  ASSUME NEW n \in Int, NEW b \in Cell, b.num = 0
  PROVE  Xor(Xor(Num(n), b), b) = Num(n)
  BY DEF Xor, Num, Cell

\* The four bytes of a masking key.
LEMMA KeyForm ==
  ASSUME NEW k \in Int
  PROVE  /\ Key(k) \in Seq(Cell) /\ Len(Key(k)) = 4
         /\ \A j \in 1 .. 4 : Key(k)[j] = KeyByte(k, j)
  <1>1. Key(k) \in [1 .. 4 -> Cell]
    BY BytesAreCells DEF Key
  <1>2. 4 \in Nat
    OBVIOUS
  <1> QED BY <1>1, <1>2 DEF Key

\* The form of a head is that of its length.
LEMMA HeadSizes ==
  ASSUME NEW h \in Heads
  PROVE  /\ h.payload_length \in Nat
         /\ HeadSize(h) \in {6, 8, 14} /\ FrameSize(h) \in Nat
         /\ FormOf(h) \in InHead
         /\ FormOf(h) = "small" <=> HeadSize(h) = 6
         /\ FormOf(h) = "medium" <=> HeadSize(h) = 8
         /\ FormOf(h) = "large" <=> HeadSize(h) = 14
  BY Params DEF HeadSize, FrameSize, FormOf, InHead

\* The 7 bits of the length in the second byte.
Code7(h) ==
  IF h.payload_length <= Small THEN h.payload_length
  ELSE IF h.payload_length <= UINT16_MAX THEN Medium ELSE Large

\* w is s with t behind it.
IsJoin(w, s, t) ==
  /\ w \in Seq(Cell) /\ Len(w) = Len(s) + Len(t)
  /\ \A i \in 1 .. Len(s) : w[i] = s[i]
  /\ \A i \in 1 .. Len(t) : w[Len(s) + i] = t[i]

\* Concatenation, byte by byte.
LEMMA Joined ==
  ASSUME NEW s \in Seq(Cell), NEW t \in Seq(Cell)
  PROVE  IsJoin(s \o t, s, t)
  <1>1. /\ s \o t \in Seq(Cell) /\ Len(s \o t) = Len(s) + Len(t)
        /\ \A i \in 1 .. Len(s) + Len(t) :
             (s \o t)[i] = IF i <= Len(s) THEN s[i] ELSE t[i - Len(s)]
    BY ConcatProperties
  <1>2. Len(s) \in Nat /\ Len(t) \in Nat
    OBVIOUS
  <1>3. ASSUME NEW i \in 1 .. Len(t) PROVE (s \o t)[Len(s) + i] = t[i]
    <2>1. PICK j \in 1 .. Len(s) + Len(t) : j = Len(s) + i
      BY <1>2
    <2>2. ~ j <= Len(s) /\ j - Len(s) = i
      BY <1>2, <2>1
    <2> QED BY <1>1, <2>1, <2>2
  <1>4. \A i \in 1 .. Len(s) : (s \o t)[i] = s[i]
    BY <1>1, <1>2
  <1> QED BY <1>1, <1>3, <1>4 DEF IsJoin

\* Two bytes.
LEMMA Pair ==
  ASSUME NEW m \in Int, NEW n \in Int
  PROVE  /\ <<Num(m), Num(n)>> \in Seq(Cell) /\ Len(<<Num(m), Num(n)>>) = 2
         /\ <<Num(m), Num(n)>>[1] = Num(m) /\ <<Num(m), Num(n)>>[2] = Num(n)
  BY BytesAreCells

\* htons: the high byte, then the low byte.
LEMMA HtonsForm ==
  ASSUME NEW n \in Int
  PROVE  /\ htons(n) \in Seq(Cell) /\ Len(htons(n)) = 2
         /\ htons(n)[1].num = (n \div Byte) % Byte /\ htons(n)[2].num = n % Byte
  <1>1. Byte \in Nat \ {0}
    BY Params
  <1>2. PICK q \in Int, r \in Int : q = (n \div Byte) % Byte /\ r = n % Byte
    BY <1>1
  <1>3. htons(n) = <<Num(q), Num(r)>>
    BY <1>2 DEF htons
  <1>4. Num(q).num = q /\ Num(r).num = r
    BY DEF Num
  <1> QED BY <1>2, <1>3, <1>4, Pair

\* htobe64: eight bytes.
LEMMA Htobe64Form ==
  ASSUME NEW n \in Int
  PROVE  htobe64(n) \in Seq(Cell) /\ Len(htobe64(n)) = 8
  <1>1. PICK two, four : two = Byte * Byte /\ four = two * two
    OBVIOUS
  <1>2. two \in Nat \ {0} /\ four \in Nat \ {0} /\ four * two \in Nat \ {0}
    BY <1>1, Params
  <1>3. PICK a \in Int, b \in Int, c \in Int :
          a = n \div (four * two) /\ b = n \div four /\ c = n \div two
    BY <1>2
  <1>4. htobe64(n) = (htons(a) \o htons(b)) \o (htons(c) \o htons(n))
    BY <1>1, <1>3 DEF htobe64
  <1>5. \A m \in Int : htons(m) \in Seq(Cell) /\ Len(htons(m)) = 2
    BY HtonsForm
  <1>6. /\ htons(a) \in Seq(Cell) /\ Len(htons(a)) = 2
        /\ htons(b) \in Seq(Cell) /\ Len(htons(b)) = 2
        /\ htons(c) \in Seq(Cell) /\ Len(htons(c)) = 2
        /\ htons(n) \in Seq(Cell) /\ Len(htons(n)) = 2
    BY <1>5
  <1>7. PICK f, l : f = htons(a) \o htons(b) /\ l = htons(c) \o htons(n)
    OBVIOUS
  <1>8. IsJoin(f, htons(a), htons(b)) /\ IsJoin(l, htons(c), htons(n))
    BY <1>6, <1>7, Joined, Zenon
  <1>9. f \in Seq(Cell) /\ Len(f) = 4 /\ l \in Seq(Cell) /\ Len(l) = 4
    BY <1>6, <1>8 DEF IsJoin
  <1>10. IsJoin(f \o l, f, l)
    BY <1>9, Joined, Zenon
  <1>11. f \o l \in Seq(Cell) /\ Len(f \o l) = 8
    BY <1>9, <1>10 DEF IsJoin
  <1> QED BY <1>4, <1>7, <1>11

\* The first two bytes of a head.
LEMMA FirstTwoForm ==
  ASSUME NEW h \in Heads, NEW n \in Int
  PROVE  /\ FirstTwo(h, n) \in Seq(Cell) /\ Len(FirstTwo(h, n)) = 2
         /\ FirstTwo(h, n)[1] = Num(h.fin * Half + h.opcode)
         /\ FirstTwo(h, n)[2] = Num(Half + n)
  <1>1. PICK a, b : a = h.fin * Half + h.opcode /\ b = Half + n
    OBVIOUS
  <1>2. h.fin \in 0 .. 1 /\ h.opcode \in 0 .. (Op - 1) /\ Half \in Nat /\ Op \in Nat
    BY Params
  <1>3. a \in Int /\ b \in Int
    BY <1>1, <1>2
  <1>4. FirstTwo(h, n) = <<Num(a), Num(b)>>
    BY <1>1 DEF FirstTwo
  <1> QED BY <1>1, <1>3, <1>4, Pair

\* The length in the second byte is a number.
LEMMA Code7Int ==
  ASSUME NEW h \in Heads
  PROVE  Code7(h) \in Int
  BY Params DEF Code7

\* A head as it is written: the two bytes, the length that follows them, and
\* the masking key.
LEMMA SmallForm ==
  ASSUME NEW h \in Heads, NEW k \in Int, FormOf(h) = "small"
  PROVE  LET w == Written(h, Key(k))
         IN  /\ w \in Seq(Cell) /\ Len(w) = 6
             /\ w[1] = Num(h.fin * Half + h.opcode) /\ w[2] = Num(Half + Code7(h))
             /\ \A j \in 1 .. 4 : w[2 + j] = KeyByte(k, j)
  <1>1. PICK two, key, w :
          /\ two = FirstTwo(h, Code7(h)) /\ key = Key(k) /\ w = two \o key
    OBVIOUS
  <1>0. /\ key \in Seq(Cell) /\ Len(key) = 4
        /\ \A j \in 1 .. 4 : key[j] = KeyByte(k, j)
    BY <1>1, KeyForm
  <1>2. Written(h, Key(k)) = w
    <2>1. h.payload_length <= Small
      BY DEF FormOf
    <2> QED BY <1>1, <2>1 DEF Written, law_ws_write_head_small, Code7
  <1>3. /\ two \in Seq(Cell) /\ Len(two) = 2
        /\ two[1] = Num(h.fin * Half + h.opcode) /\ two[2] = Num(Half + Code7(h))
    BY <1>1, FirstTwoForm, Code7Int
  <1>4. IsJoin(w, two, key)
    BY <1>1, <1>3, <1>0, Joined, Zenon
  <1>5. /\ w \in Seq(Cell) /\ Len(w) = 6 /\ w[1] = two[1] /\ w[2] = two[2]
        /\ \A j \in 1 .. 4 : w[2 + j] = KeyByte(k, j)
    BY <1>3, <1>4, <1>0 DEF IsJoin
  <1> QED BY <1>2, <1>3, <1>5

\* The same of a head with a length in two bytes.
LEMMA MediumForm ==
  ASSUME NEW h \in Heads, NEW k \in Int, FormOf(h) = "medium"
  PROVE  LET w == Written(h, Key(k))
         IN  /\ w \in Seq(Cell) /\ Len(w) = 8
             /\ w[1] = Num(h.fin * Half + h.opcode) /\ w[2] = Num(Half + Code7(h))
             /\ w[3].num = (h.payload_length \div Byte) % Byte
             /\ w[4].num = h.payload_length % Byte
             /\ \A j \in 1 .. 4 : w[4 + j] = KeyByte(k, j)
  <1>1. PICK two, length, start, key, w :
          /\ two = FirstTwo(h, Code7(h)) /\ length = htons(h.payload_length)
          /\ start = two \o length /\ key = Key(k) /\ w = start \o key
    OBVIOUS
  <1>0. /\ key \in Seq(Cell) /\ Len(key) = 4
        /\ \A j \in 1 .. 4 : key[j] = KeyByte(k, j)
    BY <1>1, KeyForm
  <1>2. Written(h, Key(k)) = w
    <2>1. ~ h.payload_length <= Small /\ h.payload_length <= UINT16_MAX
      BY DEF FormOf
    <2> QED BY <1>1, <2>1 DEF Written, law_ws_write_head_medium, Code7
  <1>3. /\ two \in Seq(Cell) /\ Len(two) = 2
        /\ two[1] = Num(h.fin * Half + h.opcode) /\ two[2] = Num(Half + Code7(h))
    BY <1>1, FirstTwoForm, Code7Int
  <1>4. PICK q, r : q = (h.payload_length \div Byte) % Byte /\ r = h.payload_length % Byte
    OBVIOUS
  <1>5. h.payload_length \in Int
    BY HeadSizes
  <1>6. length \in Seq(Cell) /\ Len(length) = 2 /\ length[1].num = q /\ length[2].num = r
    BY <1>1, <1>4, <1>5, HtonsForm, Zenon
  <1>7. IsJoin(start, two, length)
    BY <1>1, <1>3, <1>6, Joined, Zenon
  <1>8. /\ start \in Seq(Cell) /\ Len(start) = 4
        /\ start[1] = two[1] /\ start[2] = two[2]
        /\ start[3] = length[1] /\ start[4] = length[2]
    <2>1. 1 \in 1 .. 2 /\ 2 \in 1 .. 2 /\ 2 + 1 = 3 /\ 2 + 2 = 4
      OBVIOUS
    <2>2. \A i \in 1 .. 2 : start[2 + i] = length[i]
      BY <1>3, <1>6, <1>7 DEF IsJoin
    <2>3. start[2 + 1] = length[1] /\ start[2 + 2] = length[2]
      BY <2>1, <2>2, Zenon
    <2>4. start[3] = length[1] /\ start[4] = length[2]
      BY <2>1, <2>3
    <2> QED BY <1>3, <1>6, <1>7, <2>4 DEF IsJoin
  <1>9. IsJoin(w, start, key)
    BY <1>1, <1>8, <1>0, Joined, Zenon
  <1>10. /\ w \in Seq(Cell) /\ Len(w) = 8
         /\ w[1] = start[1] /\ w[2] = start[2] /\ w[3] = start[3] /\ w[4] = start[4]
         /\ \A j \in 1 .. 4 : w[4 + j] = KeyByte(k, j)
    BY <1>8, <1>9, <1>0 DEF IsJoin
  <1>11. w[3].num = q /\ w[4].num = r
    BY <1>6, <1>8, <1>10
  <1> QED BY <1>2, <1>3, <1>4, <1>8, <1>10, <1>11, Zenon

\* The same of a head with a length in eight bytes.
LEMMA LargeForm ==
  ASSUME NEW h \in Heads, NEW k \in Int, FormOf(h) = "large"
  PROVE  LET w == Written(h, Key(k))
         IN  /\ w \in Seq(Cell) /\ Len(w) = 14
             /\ w[1] = Num(h.fin * Half + h.opcode) /\ w[2] = Num(Half + Code7(h))
  <1>1. PICK two, length, start, key, w :
          /\ two = FirstTwo(h, Code7(h)) /\ length = htobe64(h.payload_length)
          /\ start = two \o length /\ key = Key(k) /\ w = start \o key
    OBVIOUS
  <1>0. /\ key \in Seq(Cell) /\ Len(key) = 4
        /\ \A j \in 1 .. 4 : key[j] = KeyByte(k, j)
    BY <1>1, KeyForm
  <1>2. Written(h, Key(k)) = w
    <2>1. ~ h.payload_length <= Small /\ ~ h.payload_length <= UINT16_MAX
      BY DEF FormOf
    <2> QED BY <1>1, <2>1 DEF Written, law_ws_write_head_large, Code7
  <1>3. /\ two \in Seq(Cell) /\ Len(two) = 2
        /\ two[1] = Num(h.fin * Half + h.opcode) /\ two[2] = Num(Half + Code7(h))
    BY <1>1, FirstTwoForm, Code7Int
  <1>4. length \in Seq(Cell) /\ Len(length) = 8
    BY <1>1, Htobe64Form, HeadSizes
  <1>5. IsJoin(start, two, length)
    BY <1>1, <1>3, <1>4, Joined, Zenon
  <1>6. start \in Seq(Cell) /\ Len(start) = 10 /\ start[1] = two[1] /\ start[2] = two[2]
    BY <1>3, <1>4, <1>5 DEF IsJoin
  <1>7. IsJoin(w, start, key)
    BY <1>1, <1>6, <1>0, Joined, Zenon
  <1>8. w \in Seq(Cell) /\ Len(w) = 14 /\ w[1] = start[1] /\ w[2] = start[2]
    BY <1>6, <1>7, <1>0, SMTT(30) DEF IsJoin
  <1> QED BY <1>2, <1>3, <1>6, <1>8

\* Every head has its size and begins with the two bytes.
LEMMA HeadForm ==
  ASSUME NEW h \in Heads, NEW k \in Int
  PROVE  LET w == Written(h, Key(k))
         IN  /\ w \in Seq(Cell) /\ Len(w) = HeadSize(h)
             /\ w[1] = Num(h.fin * Half + h.opcode) /\ w[2] = Num(Half + Code7(h))
  <1>1. FormOf(h) \in {"small", "medium", "large"}
    BY DEF FormOf
  <1> QED BY <1>1, SmallForm, MediumForm, LargeForm, HeadSizes, ZenonT(60)

\* What law_ws_read_head makes of the first two bytes.
LEMMA FirstTwoRead ==
  ASSUME NEW h \in Heads
  PROVE  /\ ~ Half + Code7(h) < Half /\ (Half + Code7(h)) % Half = Code7(h)
         /\ (h.fin * Half + h.opcode) \div Half = h.fin
         /\ (h.fin * Half + h.opcode) % Op = h.opcode
         /\ Form(Code7(h)) = FormOf(h)
         /\ FormOf(h) = "small" => Code7(h) = h.payload_length
         /\ FormOf(h) = "large" => Code7(h) = Large
         /\ Code7(h) \in Int /\ h.fin \in Int /\ h.opcode \in Int
  <1>1. h.fin \in 0 .. 1 /\ h.opcode \in 0 .. (Op - 1) /\ h.payload_length \in Nat
    BY Params
  <1>2. Code7(h) \in 0 .. (Half - 1)
    BY <1>1, Params DEF Code7
  <1>3. (Half + Code7(h)) % Half = Code7(h)
    <2>1. (1 * Half + Code7(h)) % Half = Code7(h)
      BY <1>2, DivMod, Params
    <2> QED BY <2>1, <1>2, Params
  <1>4. Form(Code7(h)) = FormOf(h)
    BY <1>1, Params DEF Form, FormOf, Code7
  <1>5. /\ FormOf(h) = "small" => Code7(h) = h.payload_length
        /\ FormOf(h) = "large" => Code7(h) = Large
    BY <1>1, Params DEF FormOf, Code7
  <1>6. /\ (h.fin * Half + h.opcode) \div Half = h.fin
        /\ (h.fin * Half + h.opcode) % Op = h.opcode
    BY <1>1, FirstByte, Zenon
  <1>7. ~ Half + Code7(h) < Half /\ Code7(h) \in Int /\ h.fin \in Int /\ h.opcode \in Int
    BY <1>1, <1>2, Params
  <1> QED BY <1>3, <1>4, <1>5, <1>6, <1>7, Zenon

-----------------------------------------------------------------------------
(* What is ahead of the reader *)

\* The smaller of two numbers.
LEMMA MinOfTwo ==
  ASSUME NEW a \in Int, NEW b \in Int
  PROVE  Min({a, b}) \in Int /\ Min({a, b}) <= a /\ Min({a, b}) <= b
  <1>1. \E x \in {a, b} : \A y \in {a, b} : x <= y
    OBVIOUS
  <1>2. Min({a, b}) = CHOOSE x \in {a, b} : \A y \in {a, b} : x <= y
    BY DEF Min
  <1> QED BY <1>1, <1>2

\* What lies ahead and what has been said are sequences.
LEMMA Shape ==
  ASSUME Types
  PROVE  /\ in \in Seq(Cell) /\ wire \in Seq(Cell) /\ IsJoin(Ahead, in, wire)
         /\ Len(in) \in Nat /\ Len(wire) \in Nat /\ Ahead \in Seq(Cell)
         /\ Len(Ahead) = Len(in) + Len(wire)
         /\ said \in Seq(Heads) /\ Len(said) \in Nat /\ Len(got) \in Nat
         /\ \A k \in 1 .. Len(said) : said[k] \in Heads
  <1>1. IsJoin(Ahead, in, wire)
    BY Joined, Zenon DEF Types, Ahead
  <1> QED BY <1>1, SMTT(30) DEF Types, IsJoin

\* A sequence of cells cut in two.
LEMMA Cut ==
  ASSUME NEW s \in Seq(Cell), NEW n \in 0 .. Len(s)
  PROVE  /\ SubSeq(s, 1, n) \in Seq(Cell) /\ Len(SubSeq(s, 1, n)) = n
         /\ \A i \in 1 .. n : SubSeq(s, 1, n)[i] = s[i]
         /\ SubSeq(s, n + 1, Len(s)) \in Seq(Cell)
         /\ Len(SubSeq(s, n + 1, Len(s))) = Len(s) - n
         /\ \A i \in 1 .. Len(s) - n : SubSeq(s, n + 1, Len(s))[i] = s[n + i]
         /\ SubSeq(s, 1, n) \o SubSeq(s, n + 1, Len(s)) = s
  <1>1. Len(s) \in Nat /\ n \in Nat /\ n <= Len(s) /\ n + 1 \in Int
    OBVIOUS
  <1>2. \A i \in 1 .. Len(s) : s[i] \in Cell
    BY ElementOfSeq
  <1>3. /\ SubSeq(s, 1, n) \in Seq(Cell)
        /\ Len(SubSeq(s, 1, n)) = IF 1 <= n THEN n - 1 + 1 ELSE 0
        /\ \A i \in 1 .. n - 1 + 1 : SubSeq(s, 1, n)[i] = s[1 + i - 1]
    <2>1. \A i \in 1 .. n : s[i] \in Cell
      BY <1>1, <1>2
    <2> QED BY <1>1, <2>1, SubSeqProperties
  <1>4. /\ SubSeq(s, n + 1, Len(s)) \in Seq(Cell)
        /\ Len(SubSeq(s, n + 1, Len(s))) = IF n + 1 <= Len(s) THEN Len(s) - (n + 1) + 1 ELSE 0
        /\ \A i \in 1 .. Len(s) - (n + 1) + 1 :
             SubSeq(s, n + 1, Len(s))[i] = s[(n + 1) + i - 1]
    <2>1. \A i \in n + 1 .. Len(s) : s[i] \in Cell
      BY <1>1, <1>2
    <2> QED BY <1>1, <2>1, SubSeqProperties
  <1>5. \A i \in 1 .. n : i \in 1 .. n - 1 + 1 /\ 1 + i - 1 = i
    OBVIOUS
  <1>6. \A i \in 1 .. Len(s) - n : i \in 1 .. Len(s) - (n + 1) + 1 /\ (n + 1) + i - 1 = n + i
    BY <1>1
  <1>7. SubSeq(s, 1, n) \o SubSeq(s, n + 1, Len(s)) = s
    <2>1. 1 \in 1 .. Len(s) + 1 /\ n \in 1 - 1 .. Len(s) /\ Len(s) \in n .. Len(s)
      BY <1>1
    <2>2. SubSeq(s, 1, n) \o SubSeq(s, n + 1, Len(s)) = SubSeq(s, 1, Len(s))
      BY <2>1, ConcatAdjacentSubSeq
    <2> QED BY <2>2, SubSeqFull
  <1>8. Len(SubSeq(s, 1, n)) = n /\ Len(SubSeq(s, n + 1, Len(s))) = Len(s) - n
    BY <1>1, <1>3, <1>4
  <1>9. ASSUME NEW i \in 1 .. n PROVE SubSeq(s, 1, n)[i] = s[i]
    <2>1. SubSeq(s, 1, n)[i] = s[1 + i - 1]
      BY <1>3, <1>5, Zenon
    <2> QED BY <1>5, <2>1
  <1>10. ASSUME NEW i \in 1 .. Len(s) - n PROVE SubSeq(s, n + 1, Len(s))[i] = s[n + i]
    <2>1. SubSeq(s, n + 1, Len(s))[i] = s[(n + 1) + i - 1]
      BY <1>4, <1>6, Zenon
    <2> QED BY <1>6, <2>1, Zenon
  <1> QED BY <1>3, <1>4, <1>7, <1>8, <1>9, <1>10, Zenon

\* Bytes move from the wire to the buffer.
LEMMA Associative ==
  ASSUME NEW s \in Seq(Cell), NEW t \in Seq(Cell), NEW u \in Seq(Cell)
  PROVE  (s \o t) \o u = s \o (t \o u)
  BY ConcatAssociative, SMTT(30)

\* k bytes have arrived: nothing is lost between the wire and the buffer.
LEMMA Arrived ==
  ASSUME Types, NEW e, NEW k \in 0 .. Len(wire), NEW x, x = Outcome(e, k)
  PROVE  x.res = e /\ x.in \in Seq(Cell) /\ x.wire \in Seq(Cell) /\ x.in \o x.wire = Ahead
  <1>1. PICK s, t : s = SubSeq(wire, 1, k) /\ t = SubSeq(wire, k + 1, Len(wire))
    OBVIOUS
  <1>2. x.res = e /\ x.in = in \o s /\ x.wire = t
    BY <1>1 DEF Outcome
  <1>3. wire \in Seq(Cell) /\ in \in Seq(Cell) /\ Len(wire) \in Nat
    BY Shape
  <1>4. s \in Seq(Cell) /\ t \in Seq(Cell)
    BY <1>1, <1>3, Cut
  <1>5. s \o t = wire
    BY <1>1, <1>3, Cut
  <1>6. IsJoin(in \o s, in, s)
    BY <1>3, <1>4, Joined, Zenon
  <1>7. (in \o s) \o t = in \o (s \o t)
    BY <1>3, <1>4, Associative, Zenon
  <1> QED BY <1>2, <1>4, <1>5, <1>6, <1>7 DEF IsJoin, Ahead

\* Every outcome of law_htc_ensure_input keeps what lies ahead; it is OK only
\* with n bytes in the buffer, and OOB only beyond its size.
LEMMA EnsureInput ==
  ASSUME Types, NEW n \in Nat, NEW x \in law_htc_ensure_input(n)
  PROVE  /\ x.in \in Seq(Cell) /\ x.wire \in Seq(Cell) /\ x.in \o x.wire = Ahead
         /\ x.res \in {"OK", "WANTR", "ERR", "EOF", "OOB"}
         /\ x.res = "OK" => n <= Len(x.in)
         /\ x.res = "OOB" => Len(in) + n > MaxIn
  <1>1. Len(in) \in Nat /\ Len(wire) \in Nat /\ MaxIn \in Nat /\ 0 \in 0 .. Len(wire)
    BY Shape, Params
  <1>2. CASE Len(in) + n > MaxIn
    <2>1. PICK e : e = "OOB" /\ x = Outcome(e, 0)
      BY <1>2 DEF law_htc_ensure_input
    <2>2. x.in \in Seq(Cell) /\ x.wire \in Seq(Cell) /\ x.in \o x.wire = Ahead /\ x.res = e
      BY <1>1, <2>1, Arrived, Zenon
    <2> QED BY <1>2, <2>1, <2>2
  <1>3. CASE ~ Len(in) + n > MaxIn /\ Len(in) >= n
    <2>1. x = Outcome("OK", 0)
      BY <1>3 DEF law_htc_ensure_input
    <2>2. x.in \in Seq(Cell) /\ x.wire \in Seq(Cell) /\ x.in \o x.wire = Ahead /\ x.res = "OK"
      BY <1>1, <2>1, Arrived
    <2>3. x.in = in
      <3>1. SubSeq(wire, 1, 0) = <<>>
        BY SubSeqEmpty
      <3>2. in \o <<>> = in
        BY Shape, ConcatEmptySeq
      <3> QED BY <2>1, <3>1, <3>2 DEF Outcome
    <2> QED BY <1>3, <2>2, <2>3
  <1>4. CASE ~ Len(in) + n > MaxIn /\ ~ Len(in) >= n
    <2>1. x \in Reads(n)
      BY <1>4 DEF law_htc_ensure_input
    <2>2. CASE \E k \in 1 .. Min({MaxIn - Len(in), Len(wire)}) :
                 x = Outcome(IF Len(in) + k >= n THEN "OK" ELSE "WANTR", k)
      <3>1. PICK k \in 1 .. Min({MaxIn - Len(in), Len(wire)}) :
                 x = Outcome(IF Len(in) + k >= n THEN "OK" ELSE "WANTR", k)
        BY <2>2
      <3>2. MaxIn - Len(in) \in Int /\ Len(wire) \in Int
        BY <1>1
      <3>3. k \in 0 .. Len(wire)
        <4>1. PICK m : m = Min({MaxIn - Len(in), Len(wire)})
          OBVIOUS
        <4>2. m \in Int /\ m <= Len(wire)
          BY <3>2, <4>1, MinOfTwo
        <4> QED BY <1>1, <4>1, <4>2
      <3>4. PICK e : e = IF Len(in) + k >= n THEN "OK" ELSE "WANTR"
        OBVIOUS
      <3>5. /\ x.in \in Seq(Cell) /\ x.wire \in Seq(Cell) /\ x.in \o x.wire = Ahead
            /\ x.res = e
        BY <3>1, <3>3, <3>4, Arrived, Zenon
      <3>6. Len(x.in) = Len(in) + k
        <4>1. PICK s : s = SubSeq(wire, 1, k)
          OBVIOUS
        <4>2. s \in Seq(Cell) /\ Len(s) = k
          BY <4>1, <3>3, Shape, Cut
        <4>3. IsJoin(in \o s, in, s)
          BY <4>2, Shape, Joined, Zenon
        <4>4. x.in = in \o s
          BY <3>1, <4>1 DEF Outcome
        <4> QED BY <4>2, <4>3, <4>4 DEF IsJoin
      <3> QED BY <3>4, <3>5, <3>6
    <2>3. CASE x \in {Outcome("ERR", 0), Outcome(IF shut THEN "EOF" ELSE "WANTR", 0)}
      <3>1. PICK e : e \in {"ERR", "EOF", "WANTR"} /\ x = Outcome(e, 0)
        BY <2>3
      <3> QED BY <1>1, <3>1, Arrived
    <2> QED BY <2>1, <2>2, <2>3 DEF Reads
  <1> QED BY <1>2, <1>3, <1>4

\* n bytes are taken from what is ahead.
Taken(n) ==
  /\ n <= Len(Ahead) /\ Len(Ahead') = Len(Ahead) - n
  /\ \A i \in 1 .. (Len(Ahead) - n) : Ahead'[i] = Ahead[i + n]

\* The n bytes that a call takes are the next n of the stream.
LEMMA TakeBytes ==
  ASSUME Types, NEW n \in Nat, NEW x \in law_htc_ensure_input(n), x.res = "OK",
         wire' = x.wire, in' = SubSeq(x.in, n + 1, Len(x.in)),
         NEW bs, bs = SubSeq(x.in, 1, n)
  PROVE  /\ in' \in Seq(Cell) /\ wire' \in Seq(Cell) /\ Taken(n)
         /\ bs \in Seq(Cell) /\ Len(bs) = n /\ \A i \in 1 .. n : bs[i] = Ahead[i]
  <1>1. PICK s, t : s = x.in /\ t = x.wire
    OBVIOUS
  <1>2. s \in Seq(Cell) /\ t \in Seq(Cell) /\ s \o t = Ahead /\ n <= Len(s)
    BY <1>1, EnsureInput
  <1>3. IsJoin(Ahead, s, t)
    BY <1>2, Joined, Zenon
  <1>4. Len(s) \in Nat /\ Len(t) \in Nat
    BY <1>2
  <1>5. n \in 0 .. Len(s)
    BY <1>2, <1>4
  <1>6. bs \in Seq(Cell) /\ Len(bs) = n /\ \A i \in 1 .. n : bs[i] = s[i]
    BY <1>1, <1>2, <1>5, Cut
  <1>7. /\ in' \in Seq(Cell) /\ Len(in') = Len(s) - n
        /\ \A i \in 1 .. Len(s) - n : in'[i] = s[n + i]
    BY <1>1, <1>2, <1>5, Cut
  <1>8. IsJoin(Ahead', in', t)
    <2>1. wire' = t
      BY <1>1
    <2>2. Ahead' = in' \o t
      BY <2>1 DEF Ahead
    <2> QED BY <1>2, <1>7, <2>2, Joined, Zenon
  <1>9. Taken(n)
    <2>1. Len(Ahead) = Len(s) + Len(t) /\ Len(Ahead') = (Len(s) - n) + Len(t)
      BY <1>3, <1>7, <1>8 DEF IsJoin
    <2>2. ASSUME NEW i \in 1 .. (Len(Ahead) - n) PROVE Ahead'[i] = Ahead[i + n]
      <3>1. CASE i <= Len(s) - n
        <4>1. Ahead'[i] = in'[i]
          BY <1>4, <1>7, <1>8, <3>1, SMTT(30) DEF IsJoin
        <4>2. PICK j : j = n + i
          OBVIOUS
        <4>3. j \in 1 .. Len(s) /\ j = i + n /\ i \in 1 .. Len(s) - n
          BY <1>4, <2>1, <3>1, <4>2
        <4>4. Ahead[j] = s[j]
          BY <1>3, <4>3 DEF IsJoin
        <4>5. in'[i] = s[j]
          BY <1>7, <4>2, <4>3
        <4> QED BY <4>1, <4>3, <4>4, <4>5
      <3>2. CASE ~ i <= Len(s) - n
        <4>0. PICK j : j = i - (Len(s) - n)
          OBVIOUS
        <4>1. j \in 1 .. Len(t) /\ j = i - (Len(s) - n)
          BY <1>4, <2>1, <3>2, <4>0
        <4>2. i = (Len(s) - n) + j /\ i + n = Len(s) + j
          BY <1>4, <4>1
        <4>3. Ahead'[(Len(s) - n) + j] = t[j] /\ Ahead[Len(s) + j] = t[j]
          BY <1>3, <1>7, <1>8, <4>1 DEF IsJoin
        <4> QED BY <4>2, <4>3
      <3> QED BY <3>1, <3>2
    <2> QED BY <1>2, <1>4, <2>1, <2>2 DEF Taken
  <1>10. \A i \in 1 .. n : bs[i] = Ahead[i]
    <2>1. \A i \in 1 .. n : i \in 1 .. Len(s)
      BY <1>2, <1>4
    <2> QED BY <1>3, <1>6, <2>1, Zenon DEF IsJoin
  <1> QED BY <1>1, <1>2, <1>6, <1>7, <1>9, <1>10

-----------------------------------------------------------------------------
(* The stream *)

\* What the peer has yet to write of the last frame.
LEMMA RestNat ==
  ASSUME Types, Peer
  PROVE  Rest \in Nat /\ (said # <<>> => Rest = said[Len(said)].payload_length - written)
  <1>1. CASE said = <<>>
    BY <1>1 DEF Rest
  <1>2. CASE said # <<>>
    <2>1. Len(said) \in 1 .. Len(said)
      BY <1>2, EmptySeq DEF Types
    <2>2. said[Len(said)] \in Heads
      BY <2>1, Shape
    <2>3. said[Len(said)].payload_length \in Nat /\ written \in Nat
      BY <2>2, HeadSizes DEF Types
    <2> QED BY <1>2, <2>3 DEF Rest, Peer
  <1> QED BY <1>1, <1>2

\* Frames begin one behind the other.
LEMMA Starts ==
  ASSUME Types, NEW start, NEW eaten, Laid(start, eaten)
  PROVE  /\ \A k \in 1 .. Len(said) + 1 : start[k] \in Nat
         /\ \A k \in 1 .. Len(said) :
              /\ start[k] \in Nat /\ FrameSize(said[k]) \in Nat
              /\ start[k + 1] = start[k] + FrameSize(said[k])
  <1>1. start \in [1 .. Len(said) + 1 -> Nat]
    BY DEF Laid
  <1>2. \A k \in 1 .. Len(said) + 1 : start[k] \in Nat
    BY <1>1
  <1>3. Len(said) \in Nat
    BY Shape
  <1>4. ASSUME NEW k \in 1 .. Len(said)
        PROVE  start[k] \in Nat /\ FrameSize(said[k]) \in Nat
    <2>1. k \in 1 .. Len(said) + 1
      BY <1>3
    <2> QED BY <1>2, <2>1, Shape, HeadSizes
  <1>5. \A k \in 1 .. Len(said) : start[k + 1] = start[k] + FrameSize(said[k])
    BY DEF Laid
  <1> QED BY <1>2, <1>4, <1>5

\* Where a frame is in what lies ahead.
LEMMA Front ==
  ASSUME Types, NEW start, NEW eaten \in Nat, Laid(start, eaten),
         NEW k \in 1 .. Len(said), NEW off \in Nat, eaten = start[k] + off,
         NEW i \in 1 .. Len(Ahead), off + i <= FrameSize(said[k])
  PROVE  Ahead[i] = FrameByte(said[k], k, off + i)
  <1>1. start[k] \in Nat /\ FrameSize(said[k]) \in Nat
    BY Starts
  <1>2. PICK j : j = (eaten + i) - start[k]
    OBVIOUS
  <1>3. Len(Ahead) \in Nat
    BY Shape
  <1>4. j = off + i /\ start[k] < eaten + i /\ eaten + i <= start[k] + FrameSize(said[k])
    <2>1. PICK b, size, n : b = start[k] /\ size = FrameSize(said[k]) /\ n = Len(Ahead)
      OBVIOUS
    <2>2. b \in Nat /\ size \in Nat /\ n \in Nat /\ i \in 1 .. n /\ eaten = b + off
      BY <1>1, <1>3, <2>1
    <2>3. off + i <= size /\ j = (eaten + i) - b
      BY <1>2, <2>1
    <2>4. j = off + i /\ b < eaten + i /\ eaten + i <= b + size
      BY <2>2, <2>3, SMTT(30)
    <2> QED BY <2>1, <2>4
  <1>5. Ahead[i] = FrameByte(said[k], k, (eaten + i) - start[k])
    BY <1>4 DEF Laid
  <1> QED BY <1>2, <1>4, <1>5

\* The frame the reader is at the start of or in has been said if there is
\* anything ahead.
LEMMA Within ==
  ASSUME Types, Peer, NEW start, NEW eaten \in Nat, Laid(start, eaten),
         NEW k \in 1 .. Len(said) + 1, NEW off \in Nat, eaten = start[k] + off,
         Len(Ahead) > 0
  PROVE  k \in 1 .. Len(said)
  <1>1. k = Len(said) + 1 => start[k] = eaten + Len(Ahead) + Rest
    BY DEF Laid
  <1>2. start[k] \in Nat
    BY Starts
  <1>3. Len(Ahead) \in Nat /\ Rest \in Nat /\ Len(said) \in Nat
    BY Shape, RestNat
  <1>4. k # Len(said) + 1
    BY <1>1, <1>2, <1>3, SMTT(30)
  <1> QED BY <1>3, <1>4

\* What is ahead when the frame is the last one.
LEMMA LastFrame ==
  ASSUME Types, Peer, NEW start, NEW eaten \in Nat, Laid(start, eaten),
         NEW k, k = Len(said), k >= 1, NEW off \in Nat, eaten = start[k] + off
  PROVE  off + Len(Ahead) <= FrameSize(said[k])
  <1>1. k \in 1 .. Len(said) /\ Len(Ahead) \in Nat /\ Rest \in Nat
    BY Shape, RestNat
  <1>2. start[k] \in Nat /\ start[k + 1] = start[k] + FrameSize(said[k])
    BY <1>1, Starts
  <1>3. eaten + Len(Ahead) + Rest = start[k + 1]
    BY DEF Laid
  <1>4. FrameSize(said[k]) \in Nat
    BY <1>1, Shape, HeadSizes
  <1> QED BY <1>1, <1>2, <1>3, <1>4, SMTT(30)

\* Nothing is taken, or n bytes are.
LEMMA StreamSame ==
  ASSUME NEW start, NEW eaten, Laid(start, eaten),
         Ahead' = Ahead, said' = said, written' = written
  PROVE  Laid(start, eaten)'
  BY DEF Laid, Rest

LEMMA TakeStream ==
  ASSUME Types, Peer, NEW start, NEW eaten \in Nat, Laid(start, eaten),
         NEW n \in Nat, Taken(n), said' = said, written' = written
  PROVE  Laid(start, eaten + n)'
  <1>1. Len(Ahead) \in Nat /\ n <= Len(Ahead) /\ Len(Ahead') = Len(Ahead) - n /\ Rest \in Nat
    BY Shape, RestNat DEF Taken
  <1>2. Rest' = Rest
    BY DEF Rest
  <1>3. (eaten + n) + Len(Ahead') + Rest' = start[Len(said) + 1]
    <2>1. eaten + Len(Ahead) + Rest = start[Len(said) + 1]
      BY DEF Laid
    <2> QED BY <1>1, <1>2, <2>1
  <1>4. ASSUME NEW k \in 1 .. Len(said), NEW i \in 1 .. Len(Ahead'),
               start[k] < (eaten + n) + i,
               (eaten + n) + i <= start[k] + FrameSize(said[k])
        PROVE  Ahead'[i] = FrameByte(said[k], k, ((eaten + n) + i) - start[k])
    <2>1. start[k] \in Nat /\ FrameSize(said[k]) \in Nat
      BY Starts
    <2>2. PICK m : m = i + n
      OBVIOUS
    <2>3. m \in 1 .. Len(Ahead) /\ eaten + m = (eaten + n) + i
      BY <1>1, <2>2
    <2>4. Ahead[m] = FrameByte(said[k], k, (eaten + m) - start[k])
      BY <1>4, <2>3 DEF Laid
    <2>5. Ahead'[i] = Ahead[m]
      BY <1>1, <2>2 DEF Taken
    <2>6. (eaten + m) - start[k] = ((eaten + n) + i) - start[k]
      BY <2>3, Zenon
    <2> QED BY <2>4, <2>5, <2>6
  <1>5. /\ start \in [1 .. Len(said') + 1 -> Nat]
        /\ \A k \in 1 .. Len(said') : start[k + 1] = start[k] + FrameSize(said'[k])
        /\ \A k, l \in 1 .. Len(said') + 1 : k <= l => start[k] <= start[l]
    BY DEF Laid
  <1>6. \A k \in 1 .. Len(said'), i \in 1 .. Len(Ahead') :
          start[k] < (eaten + n) + i /\ (eaten + n) + i <= start[k] + FrameSize(said'[k])
            => Ahead'[i] = FrameByte(said'[k], k, ((eaten + n) + i) - start[k])
    BY <1>4
  <1>7. (eaten + n) + Len(Ahead') + Rest' = start[Len(said') + 1]
    BY <1>3
  <1> QED BY <1>5, <1>6, <1>7, Zenon DEF Laid

\* A new frame is laid behind the others, and its head is on the wire.
LEMMA LayHead ==
  ASSUME Types, Peer, NEW start, NEW eaten \in Nat, Laid(start, eaten), Rest = 0,
         NEW h \in Heads, said' = Append(said, h), written' = 0, in' = in,
         wire' = wire \o Written(h, Key(Len(said) + 1))
  PROVE  \E begin : /\ Laid(begin, eaten)'
                    /\ \A k \in 1 .. Len(said) + 1 : begin[k] = start[k]
  <1>1. PICK new : new = Len(said) + 1
    OBVIOUS
  <1>2. PICK w, size : w = Written(h, Key(new)) /\ size = FrameSize(h)
    OBVIOUS
  <1>3. Len(said) \in Nat /\ new \in Nat /\ said \in Seq(Heads) /\ Len(Ahead) \in Nat
    BY <1>1, Shape
  <1>4. w \in Seq(Cell) /\ Len(w) = HeadSize(h) /\ Len(w) \in Nat
    BY <1>2, <1>3, HeadForm
  <1>5. size \in Nat /\ size = HeadSize(h) + h.payload_length /\ h.payload_length \in Nat
    BY <1>2, HeadSizes DEF FrameSize
  <1>6. IsJoin(Ahead', Ahead, w)
    <2>1. wire' = wire \o w
      BY <1>1, <1>2
    <2>2. in \o (wire \o w) = (in \o wire) \o w
      BY <1>4, Shape, Associative, ZenonT(60)
    <2>3. Ahead' = Ahead \o w
      BY <2>1, <2>2, Zenon DEF Ahead
    <2> QED BY <1>4, <2>3, Shape, Joined, Zenon
  <1>7. /\ Len(said') = new /\ said'[new] = h /\ said' # <<>>
        /\ \A k \in 1 .. Len(said) : said'[k] = said[k]
    BY <1>1, <1>3
  <1>8. Len(Ahead') = Len(Ahead) + HeadSize(h)
    BY <1>4, <1>6 DEF IsJoin
  <1>9. Rest' = h.payload_length
    <2>1. Rest' = h.payload_length - 0
      BY <1>7 DEF Rest
    <2> QED BY <1>5, <2>1
  <1> DEFINE begin == [k \in 1 .. new + 1 |-> IF k <= new THEN start[k] ELSE start[new] + size]
  <1>10. /\ begin \in [1 .. new + 1 -> Nat]
         /\ \A k \in 1 .. new : begin[k] = start[k] /\ start[k] \in Nat
         /\ begin[new + 1] = start[new] + size /\ start[new] \in Nat
    <2>1. \A k \in 1 .. new : start[k] \in Nat
      BY <1>1, Starts
    <2>2. new \in 1 .. new
      BY <1>1, <1>3
    <2>3. PICK b \in Nat : b = start[new] + size
      BY <1>5, <2>1, <2>2
    <2>4. \A k \in 1 .. new + 1 : (IF k <= new THEN start[k] ELSE b) \in Nat
      BY <1>3, <2>1, <2>3
    <2>5. begin \in [1 .. new + 1 -> Nat]
      BY <2>3, <2>4
    <2>6. \A k \in 1 .. new : begin[k] = start[k]
      BY <1>3
    <2>7. begin[new + 1] = start[new] + size
      BY <1>3
    <2> QED BY <2>1, <2>2, <2>5, <2>6, <2>7
  <1> HIDE DEF begin
  <1>11. start[new] = eaten + Len(Ahead)
    <2>1. eaten + Len(Ahead) + Rest = start[new]
      BY <1>1 DEF Laid
    <2> QED BY <1>3, <2>1
  <1>12. eaten + Len(Ahead') + Rest' = begin[new + 1]
    <2>1. PICK b, c, d : b = start[new] /\ c = HeadSize(h) /\ d = h.payload_length
      OBVIOUS
    <2>2. b \in Nat /\ c \in Nat /\ d \in Nat /\ size = c + d
      BY <1>4, <1>5, <1>10, <2>1
    <2>3. begin[new + 1] = b + size /\ b = eaten + Len(Ahead) /\ Rest' = d
      BY <1>9, <1>10, <1>11, <2>1
    <2>4. Len(Ahead') = Len(Ahead) + c
      BY <1>8, <2>1
    <2> QED BY <1>3, <2>2, <2>3, <2>4
  <1>13. ASSUME NEW k \in 1 .. new PROVE begin[k + 1] = begin[k] + FrameSize(said'[k])
    <2>1. CASE k = new
      BY <1>2, <1>7, <1>10, <2>1
    <2>2. CASE k # new
      <3>1. k \in 1 .. Len(said) /\ k + 1 \in 1 .. new
        BY <1>1, <1>3, <2>2
      <3>2. start[k + 1] = start[k] + FrameSize(said[k])
        BY <3>1, Starts
      <3> QED BY <1>7, <1>10, <3>1, <3>2
    <2> QED BY <2>1, <2>2
  <1>14. ASSUME NEW k \in 1 .. new + 1, NEW l \in 1 .. new + 1, k <= l
         PROVE  begin[k] <= begin[l]
    <2>1. \A i, j \in 1 .. new : i <= j => start[i] <= start[j]
      BY <1>1 DEF Laid
    <2>2. CASE l # new + 1
      <3>1. k \in 1 .. new /\ l \in 1 .. new
        BY <1>3, <1>14, <2>2
      <3> QED BY <1>10, <1>14, <2>1, <3>1
    <2>3. CASE l = new + 1 /\ k # new + 1
      <3>1. k \in 1 .. new /\ new \in 1 .. new /\ k <= new
        BY <1>1, <1>3, <2>3
      <3>2. start[k] <= start[new]
        BY <2>1, <3>1
      <3> QED BY <1>5, <1>10, <2>3, <3>1, <3>2, SMTT(30)
    <2>4. CASE l = new + 1 /\ k = new + 1
      <3>1. begin[new + 1] \in Nat
        BY <1>5, <1>10, SMTT(30)
      <3> QED BY <2>4, <3>1
    <2> QED BY <2>2, <2>3, <2>4
  <1>15. ASSUME NEW k \in 1 .. new, NEW i \in 1 .. Len(Ahead'),
                begin[k] < eaten + i, eaten + i <= begin[k] + FrameSize(said'[k])
         PROVE  Ahead'[i] = FrameByte(said'[k], k, (eaten + i) - begin[k])
    <2>0. i \in Nat
      BY <1>3, <1>4, <1>8
    <2>1. CASE k = new
      <3>1. PICK j : j = i - Len(Ahead)
        OBVIOUS
      <3>2. j \in 1 .. Len(w) /\ i = Len(Ahead) + j /\ j <= HeadSize(h)
        BY <1>3, <1>4, <1>8, <1>10, <1>11, <1>15, <2>0, <2>1, <3>1, SMTT(30)
      <3>3. Ahead'[Len(Ahead) + j] = w[j]
        BY <1>6, <3>2 DEF IsJoin
      <3>4. (eaten + i) - begin[k] = j
        BY <1>3, <1>10, <1>11, <2>0, <2>1, <3>1
      <3>5. FrameByte(h, new, j) = w[j]
        BY <1>2, <3>2 DEF FrameByte
      <3> QED BY <1>7, <2>1, <3>2, <3>3, <3>4, <3>5
    <2>2. CASE k # new
      <3>1. k \in 1 .. Len(said) /\ k + 1 \in 1 .. new /\ new \in 1 .. new /\ k + 1 <= new
        BY <1>1, <1>3, <2>2
      <3>2. /\ start[k + 1] = start[k] + FrameSize(said[k]) /\ start[k] \in Nat
            /\ start[k + 1] <= start[new] /\ start[k + 1] \in Nat
        BY <1>1, <1>10, <3>1, Starts DEF Laid
      <3>3. said'[k] = said[k] /\ begin[k] = start[k]
        BY <1>7, <1>10, <3>1
      <3>4. i \in 1 .. Len(Ahead)
        BY <1>3, <1>11, <1>15, <2>0, <3>2, <3>3
      <3>5. Ahead'[i] = Ahead[i]
        BY <1>6, <3>4 DEF IsJoin
      <3>6. Ahead[i] = FrameByte(said[k], k, (eaten + i) - start[k])
        BY <1>15, <3>1, <3>3, <3>4 DEF Laid
      <3> QED BY <3>3, <3>5, <3>6
    <2> QED BY <2>1, <2>2
  <1>16. Laid(begin, eaten)'
    <2>1. /\ begin \in [1 .. Len(said') + 1 -> Nat]
          /\ \A k \in 1 .. Len(said') : begin[k + 1] = begin[k] + FrameSize(said'[k])
          /\ \A k, l \in 1 .. Len(said') + 1 : k <= l => begin[k] <= begin[l]
          /\ eaten + Len(Ahead') + Rest' = begin[Len(said') + 1]
      BY <1>7, <1>10, <1>12, <1>13, <1>14
    <2>2. \A k \in 1 .. Len(said'), i \in 1 .. Len(Ahead') :
            begin[k] < eaten + i /\ eaten + i <= begin[k] + FrameSize(said'[k])
              => Ahead'[i] = FrameByte(said'[k], k, (eaten + i) - begin[k])
      BY <1>7, <1>15
    <2>3. begin' = begin
      BY DEF begin
    <2> QED BY <2>1, <2>2, Zenon DEF Laid
  <1> QED BY <1>1, <1>10, <1>16

\* A byte of a payload is a number without a mask.
LEMMA PlainCell == \A n \in Int : Plain(n) \in Cell /\ \E m \in Int : Plain(n) = Num(m)
  <1> SUFFICES ASSUME NEW n \in Int
               PROVE  Plain(n) \in Cell /\ \E m \in Int : Plain(n) = Num(m)
    OBVIOUS
  <1>1. PICK m \in Int : m = n % Byte
    BY Params
  <1> QED BY <1>1, BytesAreCells DEF Plain

\* The byte of the key for a byte of the payload.
LEMMA KeyAtForm ==
  ASSUME NEW k \in Int, NEW p \in Int
  PROVE  \E j \in 1 .. 4 : j = ((p - 1) % 4) + 1 /\ KeyAt(k, p) = KeyByte(k, j)
  BY DEF KeyAt

\* A payload that law_ws_xor_apply has masked.
MaskedBytes(k, o, n) == law_ws_xor_apply(Key(k), o, [i \in 1 .. n |-> Plain(o + i)])

\* The peer's law_ws_xor_apply: a piece of the payload, masked.
LEMMA Masked ==
  ASSUME NEW k \in Int, NEW o \in Nat, NEW n \in Nat
  PROVE  /\ MaskedBytes(k, o, n) \in Seq(Cell) /\ Len(MaskedBytes(k, o, n)) = n
         /\ \A i \in 1 .. n : MaskedBytes(k, o, n)[i] = Xor(Plain(o + i), KeyAt(k, o + i))
  <1>0. PICK w : w = MaskedBytes(k, o, n)
    OBVIOUS
  <1>1. PICK bs : bs = [i \in 1 .. n |-> Plain(o + i)]
    OBVIOUS
  <1>2. Len(bs) = n /\ \A i \in 1 .. n : bs[i] = Plain(o + i)
    BY <1>1
  <1>3. w = [i \in 1 .. n |-> Xor(bs[i], Key(k)[((o + i - 1) % 4) + 1])]
    BY <1>0, <1>1, <1>2 DEF MaskedBytes, law_ws_xor_apply
  <1>4. ASSUME NEW i \in 1 .. n
        PROVE  /\ Xor(bs[i], Key(k)[((o + i - 1) % 4) + 1]) = Xor(Plain(o + i), KeyAt(k, o + i))
               /\ Xor(Plain(o + i), KeyAt(k, o + i)) \in Cell
    <2>1. PICK p \in Int : p = o + i
      OBVIOUS
    <2>2. PICK j \in 1 .. 4 : j = ((p - 1) % 4) + 1 /\ KeyAt(k, p) = KeyByte(k, j)
      BY <2>1, KeyAtForm
    <2>3. o + i - 1 = p - 1
      BY <2>1
    <2>4. Key(k)[j] = KeyByte(k, j)
      BY <2>2, KeyForm
    <2>5. Xor(bs[i], Key(k)[((o + i - 1) % 4) + 1]) = Xor(Plain(p), KeyAt(k, p))
      BY <1>2, <2>1, <2>2, <2>3, <2>4, Zenon
    <2>6. Plain(p) \in Cell /\ KeyAt(k, p) \in Cell
      BY <2>2, PlainCell, BytesAreCells
    <2>7. Xor(Plain(p), KeyAt(k, p)) \in Cell
      BY <2>6, BytesAreCells
    <2> QED BY <2>1, <2>5, <2>7, Zenon
  <1>5. w = [i \in 1 .. n |-> Xor(Plain(o + i), KeyAt(k, o + i))]
    BY <1>3, <1>4, Zenon
  <1>6. w \in [1 .. n -> Cell]
    BY <1>4, <1>5, Zenon
  <1>7. \A i \in 1 .. n : w[i] = Xor(Plain(o + i), KeyAt(k, o + i))
    BY <1>5, Zenon
  <1> QED BY <1>0, <1>6, <1>7

\* The bytes of a payload behind the first o, and the same, of frame k, masked
\* with `key`.
PayloadFrom(o, t) == \A i \in 1 .. Len(t) : t[i] = Plain(o + i)
MaskedWith(k, key, o, bs) ==
  /\ \A j \in 1 .. 4 : key[j] = KeyByte(k, j)
  /\ \A i \in 1 .. Len(bs) : bs[i] = Xor(Plain(o + i), KeyAt(k, o + i))

\* The reader's law_ws_xor_apply, with the same key at the same offset.
LEMMA Unmasked ==
  ASSUME NEW k \in Int, NEW o \in Nat, NEW bs \in Seq(Cell),
         NEW key, MaskedWith(k, key, o, bs)
  PROVE  /\ law_ws_xor_apply(key, o, bs) \in Seq(Cell)
         /\ Len(law_ws_xor_apply(key, o, bs)) = Len(bs)
         /\ PayloadFrom(o, law_ws_xor_apply(key, o, bs))
  <1>0. PICK w : w = law_ws_xor_apply(key, o, bs)
    OBVIOUS
  <1>1. Len(bs) \in Nat
    OBVIOUS
  <1>2. w = [i \in 1 .. Len(bs) |-> Xor(bs[i], key[((o + i - 1) % 4) + 1])]
    BY <1>0, Zenon DEF law_ws_xor_apply
  <1>3. ASSUME NEW i \in 1 .. Len(bs)
        PROVE  Xor(bs[i], key[((o + i - 1) % 4) + 1]) = Plain(o + i) /\ Plain(o + i) \in Cell
    <2>1. PICK p \in Int : p = o + i
      BY <1>1
    <2>2. PICK j \in 1 .. 4 : j = ((p - 1) % 4) + 1 /\ KeyAt(k, p) = KeyByte(k, j)
      BY <2>1, KeyAtForm
    <2>3. o + i - 1 = p - 1
      BY <1>1, <2>1
    <2>4. PICK b : b = KeyByte(k, j)
      OBVIOUS
    <2>5. Xor(bs[i], key[((o + i - 1) % 4) + 1]) = Xor(Xor(Plain(p), b), b)
      BY <2>1, <2>2, <2>3, <2>4, Zenon DEF MaskedWith
    <2>6. b \in Cell /\ b.num = 0
      BY <2>2, <2>4, BytesAreCells DEF KeyByte
    <2>7. Xor(Xor(Plain(p), b), b) = Plain(p) /\ Plain(p) \in Cell
      BY <2>6, PlainCell, XorTwice
    <2> QED BY <2>1, <2>5, <2>7, Zenon
  <1>4. w = [i \in 1 .. Len(bs) |-> Plain(o + i)]
    BY <1>2, <1>3, Zenon
  <1>5. w \in [1 .. Len(bs) -> Cell]
    BY <1>3, <1>4, Zenon
  <1>6. \A i \in 1 .. Len(bs) : w[i] = Plain(o + i)
    BY <1>4, Zenon
  <1>7. w \in Seq(Cell) /\ Len(w) = Len(bs)
    BY <1>1, <1>5
  <1>8. PayloadFrom(o, w)
    BY <1>6, <1>7, Zenon DEF PayloadFrom
  <1> QED BY <1>0, <1>7, <1>8, Zenon

\* More of the payload of the last frame is on the wire.
LEMMA LayPayload ==
  ASSUME Types, Peer, NEW start, NEW eaten \in Nat, Laid(start, eaten),
         NEW n \in 1 .. Rest, said' = said, written' = written + n, in' = in,
         wire' = wire \o law_ws_xor_apply(Key(Len(said)), woffset,
                                          [i \in 1 .. n |-> Plain(written + i)])
  PROVE  /\ Laid(start, eaten)' /\ wire' \in Seq(Cell) /\ said # <<>>
         /\ written' \in Nat /\ written' <= said[Len(said)].payload_length
  <1>1. PICK last, h : last = Len(said) /\ h = said[last]
    OBVIOUS
  <1>2. Rest \in Nat /\ said # <<>>
    BY RestNat DEF Rest
  <1>3. last \in 1 .. Len(said) /\ last \in Nat /\ Len(Ahead) \in Nat
    BY <1>1, <1>2, Shape, EmptySeq
  <1>4. h \in Heads /\ h.payload_length \in Nat /\ HeadSize(h) \in Nat
    <2>1. h \in Heads
      BY <1>1, <1>3, Shape
    <2>2. HeadSize(h) \in {6, 8, 14} /\ h.payload_length \in Nat
      BY <2>1, HeadSizes
    <2> QED BY <2>1, <2>2
  <1>5. /\ written \in Nat /\ Rest = h.payload_length - written /\ n \in Nat
        /\ written + n <= h.payload_length
    <2>1. written \in Nat /\ n \in Nat /\ n <= Rest
      BY <1>2 DEF Types
    <2>2. Rest = h.payload_length - written
      BY <1>1, <1>2, RestNat
    <2> QED BY <1>4, <2>1, <2>2
  <1>6. Rest' = Rest - n
    <2>1. Rest' = h.payload_length - (written + n)
      BY <1>1, <1>2 DEF Rest
    <2> QED BY <1>4, <1>5, <2>1, SMTT(30)
  <1>7. PICK w : w = MaskedBytes(last, written, n)
    OBVIOUS
  <1>8. /\ w \in Seq(Cell) /\ Len(w) = n
        /\ \A i \in 1 .. n : w[i] = Xor(Plain(written + i), KeyAt(last, written + i))
    <2>1. last \in Int
      BY <1>3
    <2> QED BY <1>5, <1>7, <2>1, Masked, Zenon
  <1>9. wire' = wire \o w
    BY <1>1, <1>7 DEF Peer, MaskedBytes
  <1>10. IsJoin(Ahead', Ahead, w) /\ wire' \in Seq(Cell)
    <2>1. in \o (wire \o w) = (in \o wire) \o w
      BY <1>8, Shape, Associative, ZenonT(60)
    <2>2. Ahead' = Ahead \o w
      BY <1>9, <2>1, Zenon DEF Ahead
    <2>3. IsJoin(wire \o w, wire, w)
      BY <1>8, Shape, Joined, Zenon
    <2>4. IsJoin(Ahead', Ahead, w)
      BY <1>8, <2>2, Shape, Joined, Zenon
    <2> QED BY <1>9, <2>3, <2>4 DEF IsJoin
  <1>11. Len(Ahead') = Len(Ahead) + n
    BY <1>8, <1>10 DEF IsJoin
  <1>12. PICK base, hs, pl : base = start[last] /\ hs = HeadSize(h) /\ pl = h.payload_length
    OBVIOUS
  <1>13. /\ base \in Nat /\ hs \in Nat /\ pl \in Nat /\ FrameSize(h) = hs + pl
         /\ start[last + 1] = base + (hs + pl)
    BY <1>1, <1>3, <1>4, <1>12, Starts DEF FrameSize
  <1>14. eaten + Len(Ahead) = base + (hs + written)
    <2>1. eaten + Len(Ahead) + Rest = start[last + 1]
      BY <1>1 DEF Laid
    <2>2. Rest = pl - written
      BY <1>5, <1>12
    <2>3. PICK a, r, o : a = Len(Ahead) /\ r = Rest /\ o = written
      OBVIOUS
    <2>4. a \in Nat /\ o \in Nat /\ eaten + a + r = base + (hs + pl) /\ r = pl - o
      BY <1>3, <1>5, <1>13, <2>1, <2>2, <2>3, Zenon
    <2>5. eaten + a = base + (hs + o)
      BY <1>13, <2>4
    <2> QED BY <2>3, <2>5
  <1>15. eaten + Len(Ahead') + Rest' = start[Len(said) + 1]
    <2>1. eaten + Len(Ahead) + Rest = start[Len(said) + 1]
      BY DEF Laid
    <2> QED BY <1>2, <1>3, <1>5, <1>6, <1>11, <2>1
  <1>16. ASSUME NEW k \in 1 .. Len(said), NEW i \in 1 .. Len(Ahead'),
                start[k] < eaten + i, eaten + i <= start[k] + FrameSize(said[k])
         PROVE  Ahead'[i] = FrameByte(said[k], k, (eaten + i) - start[k])
    <2>1. CASE i <= Len(Ahead)
      <3>1. i \in 1 .. Len(Ahead)
        BY <1>3, <1>5, <1>11, <2>1
      <3>2. Ahead'[i] = Ahead[i]
        BY <1>10, <3>1 DEF IsJoin
      <3> QED BY <1>16, <3>1, <3>2 DEF Laid
    <2>2. CASE ~ i <= Len(Ahead)
      <3>1. PICK m : m = i - Len(Ahead)
        OBVIOUS
      <3>2. m \in 1 .. n /\ i = Len(Ahead) + m /\ i \in Nat
        BY <1>3, <1>5, <1>11, <2>2, <3>1
      <3>3. k = last
        <4>1. ASSUME k # last PROVE FALSE
          <5>1. k + 1 \in 1 .. Len(said) + 1 /\ last \in 1 .. Len(said) + 1 /\ k + 1 <= last
            BY <1>1, <1>3, <4>1
          <5>2. start[k + 1] <= base /\ start[k + 1] = start[k] + FrameSize(said[k])
            BY <1>12, <5>1, Starts DEF Laid
          <5>3. start[k + 1] \in Nat
            BY <5>1, Starts
          <5>4. eaten + i <= base
            BY <1>13, <1>16, <3>2, <5>2, <5>3, SMTT(30)
          <5> QED BY <1>3, <1>5, <1>13, <1>14, <3>2, <5>4, SMTT(30)
        <4> QED BY <4>1
      <3>4. Ahead'[i] = Xor(Plain(written + m), KeyAt(last, written + m))
        <4>1. Ahead'[Len(Ahead) + m] = w[m]
          BY <1>8, <1>10, <3>2 DEF IsJoin
        <4> QED BY <1>8, <3>2, <4>1
      <3>5. PICK j : j = (eaten + i) - start[k]
        OBVIOUS
      <3>6. j = hs + (written + m)
        <4>1. j = (eaten + i) - base
          BY <1>12, <3>3, <3>5
        <4>2. PICK a, o : a = Len(Ahead) /\ o = written
          OBVIOUS
        <4>3. a \in Nat /\ o \in Nat /\ eaten + a = base + (hs + o) /\ i = a + m
          BY <1>3, <1>5, <1>14, <3>2, <4>2
        <4>4. m \in Nat
          BY <1>5, <3>2
        <4>5. j = hs + (o + m)
          BY <1>13, <4>1, <4>3, <4>4
        <4> QED BY <4>2, <4>5
      <3>7. PICK p : p = written + m
        OBVIOUS
      <3>8. ~ j <= hs /\ j - hs = p
        BY <1>5, <1>13, <3>2, <3>6, <3>7
      <3>9. FrameByte(h, last, j) = Xor(Plain(p), KeyAt(last, p))
        BY <1>12, <3>8 DEF FrameByte
      <3> QED BY <1>1, <3>3, <3>4, <3>5, <3>7, <3>9
    <2> QED BY <2>1, <2>2
  <1>17. Laid(start, eaten)'
    <2>1. /\ start \in [1 .. Len(said') + 1 -> Nat]
          /\ \A k \in 1 .. Len(said') : start[k + 1] = start[k] + FrameSize(said'[k])
          /\ \A k, l \in 1 .. Len(said') + 1 : k <= l => start[k] <= start[l]
      BY DEF Laid
    <2>2. eaten + Len(Ahead') + Rest' = start[Len(said') + 1]
      BY <1>15
    <2>3. \A k \in 1 .. Len(said'), i \in 1 .. Len(Ahead') :
            start[k] < eaten + i /\ eaten + i <= start[k] + FrameSize(said'[k])
              => Ahead'[i] = FrameByte(said'[k], k, (eaten + i) - start[k])
      BY <1>16
    <2> QED BY <2>1, <2>2, <2>3, Zenon DEF Laid
  <1> QED BY <1>1, <1>2, <1>5, <1>10, <1>17

-----------------------------------------------------------------------------
(* What all steps of the peer, and all of the reader, have in common *)

\* The frames read, and their payloads, are sequences.
LEMMA GotForm ==
  ASSUME Types
  PROVE  /\ Len(got) \in Nat
         /\ \A i \in 1 .. Len(got) :
              /\ got[i] \in [head : [fin : Int, opcode : Int, payload_length : Int],
                             data : Seq(Cell)]
              /\ Len(got[i].data) \in Nat /\ got[i].head.payload_length \in Int
  <1>1. \A i \in 1 .. Len(got) :
          got[i] \in [head : [fin : Int, opcode : Int, payload_length : Int], data : Seq(Cell)]
    BY ElementOfSeq DEF Types
  <1>2. ASSUME NEW i \in 1 .. Len(got)
        PROVE  Len(got[i].data) \in Nat /\ got[i].head.payload_length \in Int
    <2>1. got[i].data \in Seq(Cell) /\ got[i].head.payload_length \in Int
      BY <1>1
    <2> QED BY <2>1
  <1> QED BY <1>1, <1>2, Shape

\* Frames that have been read to the end.
LEMMA AllDone ==
  ASSUME Types, \A i \in 1 .. Len(got) : Whole(i)
  PROVE  Done = Len(got)
  <1>1. {i \in 1 .. Len(got) : Len(got[i].data) = got[i].head.payload_length} = 1 .. Len(got)
    BY DEF Whole
  <1>2. Len(got) \in Nat
    BY GotForm
  <1>3. Cardinality(1 .. Len(got)) = IF 1 > Len(got) THEN 0 ELSE Len(got) - 1 + 1
    BY <1>2, FS_Interval, SMTT(30)
  <1>4. Done = Cardinality(1 .. Len(got))
    BY <1>1, Zenon DEF Done
  <1> QED BY <1>2, <1>3, <1>4

\* The last frame has not been read to the end.
LEMMA AllButOneDone ==
  ASSUME Types, Len(got) >= 1, ~ Whole(Len(got)),
         \A i \in 1 .. Len(got) : i < Len(got) => Whole(i)
  PROVE  Done = Len(got) - 1
  <1>1. PICK n : n = Len(got) - 1
    OBVIOUS
  <1>2. Len(got) \in Nat /\ n \in Nat /\ n + 1 = Len(got)
    BY <1>1, GotForm
  <1>3. {i \in 1 .. Len(got) : Len(got[i].data) = got[i].head.payload_length} = 1 .. n
    <2>1. \A i \in 1 .. Len(got) : i \in 1 .. n => Whole(i)
      BY <1>2
    <2>2. \A i \in 1 .. Len(got) : i \notin 1 .. n => i = Len(got)
      BY <1>2
    <2>3. \A i \in 1 .. n : i \in 1 .. Len(got)
      BY <1>2
    <2> QED BY <2>1, <2>2, <2>3 DEF Whole
  <1>4. Cardinality(1 .. n) = IF 1 > n THEN 0 ELSE n - 1 + 1
    BY <1>2, FS_Interval
  <1>5. Done = Cardinality(1 .. n)
    BY <1>3, Zenon DEF Done
  <1> QED BY <1>1, <1>2, <1>4, <1>5

\* A step of the peer leaves the reader where it is.
LEMMA PeerStep ==
  ASSUME Invariant, UNCHANGED <<hdrs, in, phase, head, offset, got, res>>,
         said' \in Seq(Heads), written' \in Nat, wire' \in Seq(Cell),
         Len(said) <= Len(said'), \A k \in 1 .. Len(said) : said'[k] = said[k],
         Peer', Stream'
  PROVE  Invariant'
  <1> USE DEF Invariant
  <1>1. Len(said) \in Nat /\ Len(said') \in Nat /\ Len(got) \in Nat /\ Len(got) <= Len(said)
    BY Shape DEF FramesMatch
  <1>2. Types'
    BY DEF Types
  <1>9. OutOfStep' <=> OutOfStep
    <2>1. \A i \in 1 .. Len(got) : i \in 1 .. Len(said) /\ said'[i] = said[i]
      BY <1>1
    <2> QED BY <2>1 DEF OutOfStep
  <1>3. Reader'
    <2>1. ASSUME phase \in InHead PROVE said'[Len(got) + 1] = said[Len(got) + 1]
      <3>1. Len(got) + 1 \in 1 .. Len(said)
        BY <1>1, <2>1 DEF Reader
      <3> QED BY <3>1
    <2>2. /\ phase \in InHead => Len(got) < Len(said')
          /\ phase = "payload" => Len(got) \in 1 .. Len(said')
      BY <1>1 DEF Reader
    <2>3. phase = "payload" => said'[Len(got)] = said[Len(got)]
      BY DEF Reader
    <2>4. phase = "astray" => OutOfStep'
      BY <1>9 DEF Reader
    <2> QED BY <2>1, <2>2, <2>3, <2>4 DEF Reader
  <1>4. Finished'
    BY DEF Finished, Whole
  <1>5. FramesMatch'
    BY <1>1 DEF FramesMatch
  <1>6. Upgraded'
    BY SMTT(30) DEF Upgraded, IsUpgrade, First
  <1>7. Done' = Done
    BY DEF Done
  <1>8. Refused' /\ RefusedWhenCrowded'
    <2>1. CASE res # "OOB"
      BY <2>1 DEF Refused, RefusedWhenCrowded
    <2>3. CASE OutOfStep
      BY <1>9, <2>3 DEF Refused, RefusedWhenCrowded
    <2>2. CASE res = "OOB" /\ ~ OutOfStep
      <3>1. Done + 1 <= Len(said) /\ phase = "failed"
        BY <2>2 DEF Refused
      <3>2. Done \in Nat
        <4>1. IsFiniteSet(1 .. Len(got))
          BY <1>1, FS_Interval
        <4>2. IsFiniteSet({i \in 1 .. Len(got) : Len(got[i].data) = got[i].head.payload_length})
          BY <4>1, FS_Subset
        <4> QED BY <4>2, FS_CardinalityType DEF Done
      <3>3. Done + 1 \in 1 .. Len(said)
        BY <1>1, <3>1, <3>2
      <3>4. said'[Done + 1] = said[Done + 1]
        BY <3>3
      <3>5. \/ Len(said) > Done + 1
            \/ 2 * (HeadSize(said[Done + 1]) + said[Done + 1].payload_length) > MaxIn
        BY <2>2 DEF RefusedWhenCrowded
      <3>6. Done' + 1 <= Len(said')
        BY <1>1, <1>7, <3>1, <3>2
      <3>7. Len(said) > Done + 1 => Len(said') > Done' + 1
        BY <1>1, <1>7, <3>2
      <3>8. RefusedWhenCrowded'
        BY <1>7, <3>4, <3>5, <3>7 DEF RefusedWhenCrowded
      <3> QED BY <3>1, <3>6, <3>8 DEF Refused
    <2> QED BY <2>1, <2>2, <2>3
  <1> QED BY <1>2, <1>3, <1>4, <1>5, <1>6, <1>8

\* A step of the reader that does not fail leaves the peer as it is.
LEMMA ReaderStep ==
  ASSUME Invariant, UNCHANGED <<hdrs, peer, res>>, phase \notin {"accept", "failed", "astray"},
         in' \in Seq(Cell), wire' \in Seq(Cell),
         phase' \in {"start", "small", "medium", "large", "payload", "astray"},
         head' \in [fin : Int, opcode : Int, payload_length : Int, masking_key : Seq(Cell)],
         offset' \in Nat,
         got' \in Seq([head : [fin : Int, opcode : Int, payload_length : Int],
                       data : Seq(Cell)]),
         Reader', Stream', Finished', FramesMatch'
  PROVE  Invariant'
  <1> USE DEF Invariant
  <1>1. Types'
    BY DEF Types
  <1>2. Peer'
    BY DEF Peer
  <1>3. IsUpgrade' <=> IsUpgrade
    BY DEF IsUpgrade, First
  <1>4. Upgraded'
    BY <1>3 DEF Upgraded
  <1>5. res # "OOB"
    BY DEF Refused
  <1>6. Refused' /\ RefusedWhenCrowded'
    BY <1>5 DEF Refused, RefusedWhenCrowded
  <1> QED BY <1>1, <1>2, <1>4, <1>6

\* The connection has ended; nothing more is claimed of the stream.
LEMMA FailedStep ==
  ASSUME Invariant, UNCHANGED <<hdrs, peer, reader>>, phase' = "failed",
         in' \in Seq(Cell), wire' \in Seq(Cell),
         res' = "OOB" => \/ OutOfStep
                         \/ /\ Done + 1 <= Len(said)
                            /\ \/ Len(said) > Done + 1
                               \/ 2 * (HeadSize(said[Done + 1])
                                       + said[Done + 1].payload_length) > MaxIn
  PROVE  Invariant'
  <1> USE DEF Invariant
  <1>1. Types'
    BY DEF Types
  <1>2. Peer' /\ Reader' /\ Stream' /\ Upgraded'
    BY DEF Peer, Reader, Stream, Upgraded, InHead, Following
  <1>3. Finished' /\ FramesMatch'
    BY DEF Finished, Whole, FramesMatch, InHead
  <1>4. Done' = Done /\ (OutOfStep' <=> OutOfStep)
    BY DEF Done, OutOfStep
  <1>5. Refused' /\ RefusedWhenCrowded'
    BY <1>4 DEF Refused, RefusedWhenCrowded
  <1> QED BY <1>1, <1>2, <1>3, <1>5

\* A refusal of n bytes, `off` bytes behind the start of frame k.
LEMMA Crowded ==
  ASSUME Types, Peer, NEW start, NEW eaten \in Nat, Laid(start, eaten),
         NEW k \in 1 .. Len(said), k = Done + 1, NEW off \in Nat, eaten = start[k] + off,
         NEW n \in Nat, off + n <= FrameSize(said[k]), Len(in) + n > MaxIn
  PROVE  /\ Done + 1 <= Len(said)
         /\ \/ Len(said) > Done + 1
            \/ 2 * (HeadSize(said[Done + 1]) + said[Done + 1].payload_length) > MaxIn
  <1>1. PICK size : size = HeadSize(said[k]) + said[k].payload_length
    OBVIOUS
  <1>2. size \in Nat /\ off + n <= size
    BY <1>1, Starts DEF FrameSize
  <1>3. Len(said) \in Nat /\ Len(in) \in Nat /\ Len(wire) \in Nat /\ Len(Ahead) = Len(in) + Len(wire)
    BY Shape
  <1>4. CASE Len(said) = k
    <2>1. off + Len(Ahead) <= size
      BY <1>1, <1>3, <1>4, LastFrame DEF FrameSize
    <2>2. 2 * size > MaxIn
      BY <1>2, <1>3, <2>1, Params
    <2> QED BY <1>1, <1>3, <2>2
  <1>5. CASE Len(said) # k
    BY <1>3, <1>5
  <1> QED BY <1>4, <1>5

\* A call that needs n bytes is to be repeated, or fails.  The reader is `off`
\* bytes behind the start of frame k, which may not have been said yet.
LEMMA NotYet ==
  ASSUME Invariant, NEW n \in Nat, NEW x \in law_htc_ensure_input(n),
         wire' = x.wire, in' = x.in, UNCHANGED <<hdrs, peer, reader>>,
         \/ x.res = "WANTR" /\ UNCHANGED <<phase, res>>
         \/ x.res \notin {"OK", "WANTR"} /\ phase' = "failed" /\ res' = x.res,
         phase \in {"start", "small", "medium", "large", "payload"},
         NEW start, NEW eaten \in Nat, Laid(start, eaten), Reached(start, eaten),
         NEW k \in 1 .. Len(said) + 1, k = Done + 1, NEW off \in Nat, eaten = start[k] + off,
         k \in 1 .. Len(said) => off + n <= FrameSize(said[k]),
         k \notin 1 .. Len(said) => n <= 2
  PROVE  Invariant'
  <1>1. /\ x.in \in Seq(Cell) /\ x.wire \in Seq(Cell) /\ x.in \o x.wire = Ahead
        /\ x.res = "OOB" => Len(in) + n > MaxIn
    BY EnsureInput DEF Invariant
  <1>2. in' \in Seq(Cell) /\ wire' \in Seq(Cell) /\ Ahead' = Ahead
    BY <1>1 DEF Ahead
  <1>3. CASE x.res = "WANTR" /\ UNCHANGED <<phase, res>>
    <2>1. Types' /\ Peer'
      BY <1>2, <1>3 DEF Invariant, Types, Peer
    <2>2. Laid(start, eaten)'
      BY <1>2, StreamSame
    <2>3. Reached(start, eaten)'
      BY <1>3 DEF Reached, InHead
    <2>4. Stream'
      BY <2>2, <2>3 DEF Stream
    <2>5. Reader' /\ Finished' /\ FramesMatch'
      BY <1>3 DEF Invariant, Reader, OutOfStep, Finished, Whole, FramesMatch, InHead
    <2>6. Upgraded'
      BY <1>3 DEF Invariant, Upgraded, IsUpgrade, First
    <2>7. Done' = Done /\ (OutOfStep' <=> OutOfStep)
      BY DEF Done, OutOfStep
    <2>8. Refused' /\ RefusedWhenCrowded'
      BY <1>3, <2>7 DEF Invariant, Refused, RefusedWhenCrowded
    <2> QED BY <2>1, <2>4, <2>5, <2>6, <2>8 DEF Invariant
  <1>4. CASE x.res \notin {"OK", "WANTR"} /\ phase' = "failed" /\ res' = x.res
    <2>1. ASSUME res' = "OOB"
          PROVE  /\ Done + 1 <= Len(said)
                 /\ \/ Len(said) > Done + 1
                    \/ 2 * (HeadSize(said[Done + 1]) + said[Done + 1].payload_length) > MaxIn
      <3>1. Len(in) + n > MaxIn
        BY <1>1, <1>4, <2>1
      <3>2. k \in 1 .. Len(said)
        <4>1. ASSUME k \notin 1 .. Len(said) PROVE FALSE
          <5>1. Len(in) \in Nat /\ Len(wire) \in Nat /\ Len(Ahead) = Len(in) + Len(wire)
            BY Shape DEF Invariant
          <5>2. Len(Ahead) > 0
            BY <3>1, <4>1, <5>1, Params
          <5> QED BY <4>1, <5>2, Within DEF Invariant
        <4> QED BY <4>1
      <3> QED BY <3>1, <3>2, Crowded DEF Invariant
    <2> QED BY <1>2, <1>4, <2>1, FailedStep
  <1> QED BY <1>3, <1>4

\* n bytes have been taken, and the reader goes on.
LEMMA Took ==
  ASSUME Invariant, NEW n \in Nat, Taken(n), UNCHANGED peer,
         NEW start, NEW eaten \in Nat, Laid(start, eaten), Reached(start, eaten + n)'
  PROVE  Stream'
  <1>1. Laid(start, eaten + n)'
    BY TakeStream DEF Invariant
  <1>2. eaten + n \in Nat
    OBVIOUS
  <1> QED BY <1>1, <1>2 DEF Stream

-----------------------------------------------------------------------------
(* The handshake *)

\* A set of naturals has a least element.
LEMMA Least ==
  ASSUME NEW S \in SUBSET Nat, S # {}
  PROVE  Min(S) \in S /\ \A y \in S : Min(S) <= y
  <1> DEFINE R == OpToRel(<, Nat)
  <1>1. IsWellFoundedOn(R, Nat)
    BY NatLessThanWellFounded, Zenon
  <1>2. \A x, y \in Nat : <<y, x>> \in R <=> y < x
    BY DEF OpToRel
  <1> HIDE DEF R
  <1>3. PICK x \in S : \A y \in S : ~ <<y, x>> \in R
    BY <1>1, WFMin
  <1>4. ASSUME NEW y \in S PROVE x <= y
    <2>1. x \in Nat /\ y \in Nat
      OBVIOUS
    <2>2. ~ y < x
      BY <1>2, <1>3, <2>1
    <2> QED BY <2>1, <2>2
  <1>5. \E z \in S : \A y \in S : z <= y
    BY <1>4
  <1> QED BY <1>5, Zenon DEF Min

\* law_hth_get finds the first header of that name.
LEMMA FirstHeader ==
  ASSUME Types, NEW name, NEW v, v = law_hth_get(name), v # NULL
  PROVE  \E i \in 1 .. Len(hdrs) :
           /\ hdrs[i][1] = name /\ hdrs[i][2] = v
           /\ \A j \in 1 .. (i - 1) : hdrs[j][1] # name
  <1>1. PICK found : found = {i \in 1 .. Len(hdrs) : hdrs[i][1] = name}
    OBVIOUS
  <1>2. v = IF found = {} THEN NULL ELSE hdrs[Min(found)][2]
    BY <1>1 DEF law_hth_get
  <1>3. found # {} /\ v = hdrs[Min(found)][2]
    BY <1>2
  <1>4. Len(hdrs) \in Nat
    <2>1. hdrs \in Seq(STRING \X STRING)
      BY WebSocketAssumption DEF Types
    <2> QED BY <2>1
  <1>5. found \in SUBSET Nat
    BY <1>1
  <1>6. PICK i : i = Min(found)
    OBVIOUS
  <1>7. i \in found /\ \A y \in found : i <= y
    BY <1>3, <1>5, <1>6, Least
  <1>8. i \in 1 .. Len(hdrs) /\ hdrs[i][1] = name /\ hdrs[i][2] = v
    BY <1>1, <1>3, <1>6, <1>7
  <1>9. ASSUME NEW j \in 1 .. (i - 1), hdrs[j][1] = name PROVE FALSE
    <2>1. j \in 1 .. Len(hdrs) /\ ~ i <= j
      BY <1>4, <1>8
    <2> QED BY <1>1, <1>7, <1>9, <2>1
  <1> QED BY <1>8, <1>9

\* law_ws_accept accepts requests to upgrade only.
LEMMA AcceptsUpgrade ==
  ASSUME Types, Accepts
  PROVE  IsUpgrade
  <1>1. PICK v : v = law_hth_get("Upgrade") /\ v = "websocket"
    BY DEF Accepts
  <1>2. PICK w : w = law_hth_get("Sec-WebSocket-Version") /\ w = "13"
    BY DEF Accepts
  <1>3. PICK u : u = law_hth_get("Sec-WebSocket-Key") /\ u # NULL /\ u # "long"
    BY DEF Accepts
  <1>4. v # NULL /\ w # NULL
    BY <1>1, <1>2 DEF NULL
  <1>5. \E i \in 1 .. Len(hdrs) : /\ hdrs[i][1] = "Upgrade" /\ hdrs[i][2] = v
                                  /\ \A j \in 1 .. (i - 1) : hdrs[j][1] # "Upgrade"
    BY <1>1, <1>4, FirstHeader
  <1>6. \E i \in 1 .. Len(hdrs) :
          /\ hdrs[i][1] = "Sec-WebSocket-Version" /\ hdrs[i][2] = w
          /\ \A j \in 1 .. (i - 1) : hdrs[j][1] # "Sec-WebSocket-Version"
    BY <1>2, <1>4, FirstHeader
  <1>7. \E i \in 1 .. Len(hdrs) :
          /\ hdrs[i][1] = "Sec-WebSocket-Key" /\ hdrs[i][2] = u
          /\ \A j \in 1 .. (i - 1) : hdrs[j][1] # "Sec-WebSocket-Key"
    BY <1>3, FirstHeader
  <1>8. First("Upgrade", LAMBDA y : y = "websocket")
    BY <1>1, <1>5 DEF First
  <1>9. First("Sec-WebSocket-Version", LAMBDA y : y = "13")
    BY <1>2, <1>6 DEF First
  <1>10. First("Sec-WebSocket-Key", LAMBDA y : y # "long")
    BY <1>3, <1>7 DEF First
  <1> QED BY <1>8, <1>9, <1>10 DEF IsUpgrade

\* Nothing has been written or read.
LEMMA InvariantInit ==
  ASSUME Init
  PROVE  Invariant
  <1>1. /\ phase = "accept" /\ said = <<>> /\ got = <<>> /\ wire = <<>> /\ in = <<>>
        /\ res = "OK" /\ written = 0 /\ woffset = 0 /\ offset = 0 /\ Len(got) = 0 /\ Len(said) = 0
    BY DEF Init
  <1>2. Types
    <2>1. head \in [fin : Int, opcode : Int, payload_length : Int, masking_key : Seq(Cell)]
      BY EmptySeq DEF Init, NoHead
    <2>2. said \in Seq(Heads) /\ wire \in Seq(Cell) /\ in \in Seq(Cell)
      BY <1>1, EmptySeq
    <2>3. got \in Seq([head : [fin : Int, opcode : Int, payload_length : Int], data : Seq(Cell)])
      BY <1>1, EmptySeq
    <2>4. hdrs \in Requests
      BY DEF Init
    <2> QED BY <1>1, <2>1, <2>2, <2>3, <2>4 DEF Types
  <1>3. Peer /\ Reader /\ Stream /\ Finished
    BY <1>1 DEF Peer, Reader, Stream, Following, Finished, InHead
  <1>4. FramesMatch /\ Upgraded /\ Refused /\ RefusedWhenCrowded
    BY <1>1 DEF FramesMatch, Upgraded, Refused, RefusedWhenCrowded
  <1> QED BY <1>2, <1>3, <1>4 DEF Invariant

\* law_ws_accept.
LEMMA AcceptStep ==
  ASSUME Invariant, law_ws_accept
  PROVE  Invariant'
  <1> USE DEF Invariant
  <1>1. /\ said = <<>> /\ wire = <<>> /\ in = <<>> /\ got = <<>> /\ written = 0 /\ woffset = 0
        /\ UNCHANGED <<hdrs, peer, wire, in, reader>> /\ phase = "accept" /\ res # "OOB"
        /\ Len(got) = 0 /\ Len(said) = 0
    BY DEF law_ws_accept, Peer, Refused
  <1>2. /\ phase' \in {"start", "failed"} /\ res' # "OOB"
        /\ phase' = "start" => Accepts
    BY <1>1 DEF law_ws_accept
  <1>3. Types' /\ Peer' /\ Reader' /\ Finished' /\ FramesMatch' /\ Refused' /\ RefusedWhenCrowded'
    BY <1>1, <1>2 DEF Types, Peer, Reader, Finished, FramesMatch, Refused, RefusedWhenCrowded,
                      InHead
  <1>4. Upgraded'
    <2>1. phase' = "start" => IsUpgrade
      BY <1>2, AcceptsUpgrade
    <2>2. IsUpgrade' <=> IsUpgrade
      BY <1>1 DEF IsUpgrade, First
    <2> QED BY <1>2, <2>1, <2>2 DEF Upgraded
  <1>5. Stream'
    <2> DEFINE start == [k \in 1 .. 1 |-> 0]
    <2>1. start \in [1 .. 1 -> Nat] /\ start[1] = 0
      OBVIOUS
    <2>2. Ahead = <<>> /\ Ahead' = <<>> /\ Len(Ahead') = 0
      BY <1>1, ConcatEmptySeq, EmptySeq DEF Ahead
    <2>3. Rest' = 0 /\ said' = <<>> /\ Len(said') = 0 /\ Len(got') = 0
      BY <1>1 DEF Rest
    <2> HIDE DEF start
    <2>4. /\ start \in [1 .. Len(said') + 1 -> Nat]
          /\ \A k \in 1 .. Len(said') : start[k + 1] = start[k] + FrameSize(said'[k])
          /\ 0 + Len(Ahead') + Rest' = start[Len(said') + 1]
      BY <2>1, <2>2, <2>3
    <2>5. \A k, l \in 1 .. Len(said') + 1 : k <= l => start[k] <= start[l]
      BY <2>1, <2>3
    <2>6. \A k \in 1 .. Len(said'), i \in 1 .. Len(Ahead') :
            start[k] < 0 + i /\ 0 + i <= start[k] + FrameSize(said'[k])
              => Ahead'[i] = FrameByte(said'[k], k, (0 + i) - start[k])
      BY <2>3
    <2>7. Laid(start, 0)'
      <3>1. start' = start
        BY DEF start
      <3> QED BY <2>4, <2>5, <2>6, <3>1, Zenon DEF Laid
    <2>8. phase' = "start" => Reached(start, 0)'
      <3>1. start' = start
        BY DEF start
      <3> QED BY <2>1, <2>3, <3>1 DEF Reached, InHead
    <2>9. Following' => phase' = "start"
      BY <1>2 DEF Following, InHead
    <2> QED BY <2>7, <2>8, <2>9 DEF Stream
  <1> QED BY <1>3, <1>4, <1>5

-----------------------------------------------------------------------------
(* The peer *)

\* law_ws_write_head: a frame more.
LEMMA WriteHeadStep ==
  ASSUME Invariant, NEW h \in Heads, law_ws_write_head(h)
  PROVE  Invariant'
  <1> USE DEF Invariant
  <1>1. /\ phase # "accept" /\ Rest = 0 /\ said' = Append(said, h) /\ written' = 0
        /\ woffset' = 0 /\ wire' = wire \o Written(h, Key(Len(said) + 1))
        /\ UNCHANGED <<hdrs, in, phase, head, offset, got, res>>
    BY DEF law_ws_write_head
  <1>2. PICK n : n = Len(said) + 1
    OBVIOUS
  <1>3. Len(said) \in Nat /\ said \in Seq(Heads) /\ wire \in Seq(Cell)
    BY Shape
  <1>4. /\ said' \in Seq(Heads) /\ Len(said') = n /\ n \in Nat /\ said'[n] = h /\ said' # <<>>
        /\ Len(said) <= Len(said') /\ \A k \in 1 .. Len(said) : said'[k] = said[k]
    BY <1>1, <1>2, <1>3
  <1>5. wire' \in Seq(Cell)
    <2>1. PICK w : w = Written(h, Key(n))
      OBVIOUS
    <2>2. w \in Seq(Cell)
      BY <1>4, <2>1, HeadForm
    <2>3. IsJoin(wire \o w, wire, w)
      BY <1>3, <2>2, Joined, Zenon
    <2> QED BY <1>1, <1>2, <2>1, <2>3 DEF IsJoin
  <1>6. Peer'
    <2>1. h.payload_length \in Nat
      BY HeadSizes
    <2> QED BY <1>1, <1>4, <2>1 DEF Peer
  <1>7. Stream'
    <2> SUFFICES ASSUME Following' PROVE Stream'
      BY DEF Stream
    <2>1. PICK start : \E eaten \in Nat : Laid(start, eaten) /\ Reached(start, eaten)
      BY <1>1 DEF Stream, Following
    <2>2. PICK eaten \in Nat : Laid(start, eaten) /\ Reached(start, eaten)
      BY <2>1
    <2>3. PICK begin : /\ Laid(begin, eaten)'
                       /\ \A k \in 1 .. Len(said) + 1 : begin[k] = start[k]
      BY <1>1, <2>2, LayHead
    <2>4. Len(got) \in Nat /\ Len(got) <= Len(said)
      BY Shape DEF FramesMatch
    <2>5. Reached(begin, eaten)'
      <3>1. begin[Len(got) + 1] = start[Len(got) + 1]
        BY <1>3, <2>3, <2>4
      <3>2. phase = "payload" => begin[Len(got)] = start[Len(got)] /\ said'[Len(got)] = said[Len(got)]
        BY <1>3, <1>4, <2>3 DEF Reader
      <3>3. phase = "start" => Len(got) <= Len(said') /\ eaten = begin[Len(got) + 1]
        <4>1. Len(got) <= Len(said')
          BY <1>3, <1>4, <2>4
        <4> QED BY <2>2, <3>1, <4>1 DEF Reached
      <3>4. phase \in InHead => eaten = begin[Len(got) + 1] + 2
        BY <2>2, <3>1 DEF Reached
      <3>5. phase = "payload" => eaten = begin[Len(got)] + (HeadSize(said'[Len(got)]) + offset)
        BY <2>2, <3>2 DEF Reached
      <3>6. phase' = phase /\ got' = got /\ offset' = offset
        BY <1>1
      <3> QED BY <3>3, <3>4, <3>5, <3>6, Zenon DEF Reached, InHead
    <2> QED BY <2>3, <2>5 DEF Stream
  <1>8. written' \in Nat
    BY <1>1
  <1> QED BY <1>1, <1>4, <1>5, <1>6, <1>7, <1>8, PeerStep

\* A piece of the payload.
LEMMA WriteStep ==
  ASSUME Invariant, NEW n, Write(n)
  PROVE  Invariant'
  <1> USE DEF Invariant
  <1>1. /\ n \in 1 .. Rest /\ written' = written + n /\ woffset' = woffset + n
        /\ wire' = wire \o law_ws_xor_apply(Key(Len(said)), woffset,
                                           [i \in 1 .. n |-> Plain(written + i)])
        /\ UNCHANGED <<hdrs, said, in, phase, head, offset, got, res>>
    BY DEF Write
  <1>2. said # <<>>
    BY <1>1, RestNat DEF Rest
  <1>3. ASSUME NEW start, NEW eaten \in Nat, Laid(start, eaten)
        PROVE  /\ Laid(start, eaten)' /\ wire' \in Seq(Cell)
               /\ written' \in Nat /\ written' <= said[Len(said)].payload_length
    BY <1>1, <1>3, LayPayload
  <1>4. wire' \in Seq(Cell) /\ written' \in Nat /\ written' <= said[Len(said)].payload_length
    <2>1. /\ written \in Nat /\ Rest \in Nat /\ Rest = said[Len(said)].payload_length - written
          /\ n \in Nat
      BY <1>1, <1>2, RestNat DEF Types
    <2>2. said[Len(said)].payload_length \in Nat
      <3>1. Len(said) \in 1 .. Len(said)
        BY <1>2, EmptySeq, Shape
      <3> QED BY <3>1, Shape, HeadSizes
    <2>3. PICK k \in Nat : k = Len(said)
      BY Shape
    <2>4. MaskedBytes(k, written, n) \in Seq(Cell)
      BY <2>1, Masked
    <2>5. wire' = wire \o MaskedBytes(k, written, n)
      BY <1>1, <2>3 DEF Peer, MaskedBytes
    <2>6. IsJoin(wire \o MaskedBytes(k, written, n), wire, MaskedBytes(k, written, n))
      BY <2>4, Shape, Joined, Zenon
    <2>7. wire' \in Seq(Cell)
      BY <2>5, <2>6 DEF IsJoin
    <2>8. PICK pl : pl = said[Len(said)].payload_length
      OBVIOUS
    <2>9. written + n \in Nat /\ written + n <= pl
      BY <1>1, <2>1, <2>2, <2>8
    <2> QED BY <1>1, <2>7, <2>8, <2>9
  <1>5. Peer'
    BY <1>1, <1>2, <1>4 DEF Peer
  <1>6. Stream'
    <2> SUFFICES ASSUME Following' PROVE Stream'
      BY DEF Stream
    <2>1. PICK start : \E eaten \in Nat : Laid(start, eaten) /\ Reached(start, eaten)
      BY <1>1 DEF Stream, Following
    <2>2. PICK eaten \in Nat : Laid(start, eaten) /\ Reached(start, eaten)
      BY <2>1
    <2>3. Reached(start, eaten)'
      BY <1>1, <2>2 DEF Reached, InHead
    <2> QED BY <1>3, <2>2, <2>3 DEF Stream
  <1>7. said' \in Seq(Heads) /\ Len(said) <= Len(said')
    BY <1>1, Shape
  <1> QED BY <1>1, <1>4, <1>5, <1>6, <1>7, PeerStep

\* The peer closes the connection.
LEMMA ShutStep ==
  ASSUME Invariant, Shut
  PROVE  Invariant'
  <1> USE DEF Invariant
  <1>1. UNCHANGED <<hdrs, said, written, woffset, wire, in, phase, head, offset, got, res>>
    BY DEF Shut
  <1>2. Peer'
    BY <1>1 DEF Peer
  <1>3. Ahead' = Ahead
    BY <1>1 DEF Ahead
  <1>4. Stream'
    <2> SUFFICES ASSUME Following' PROVE Stream'
      BY DEF Stream
    <2>1. PICK start : \E eaten \in Nat : Laid(start, eaten) /\ Reached(start, eaten)
      BY <1>1 DEF Stream, Following
    <2>2. PICK eaten \in Nat : Laid(start, eaten) /\ Reached(start, eaten)
      BY <2>1
    <2>3. Laid(start, eaten)' /\ Reached(start, eaten)'
      BY <1>1, <1>3, <2>2, StreamSame DEF Reached, InHead
    <2> QED BY <2>3 DEF Stream
  <1>5. /\ said' \in Seq(Heads) /\ Len(said) <= Len(said') /\ written' \in Nat
        /\ wire' \in Seq(Cell)
    BY <1>1, Shape DEF Types
  <1> QED BY <1>1, <1>2, <1>4, <1>5, PeerStep

-----------------------------------------------------------------------------
(* The reader *)

\* A byte of a head, and a byte of a payload, that lies ahead.
LEMMA HeadAhead ==
  ASSUME Types, NEW start, NEW eaten \in Nat, Laid(start, eaten),
         NEW k \in 1 .. Len(said), NEW off \in Nat, eaten = start[k] + off,
         NEW i \in 1 .. Len(Ahead), off + i <= HeadSize(said[k])
  PROVE  Ahead[i] = Written(said[k], Key(k))[off + i]
  <1>1. PICK hs, pl, j : hs = HeadSize(said[k]) /\ pl = said[k].payload_length /\ j = off + i
    OBVIOUS
  <1>2. hs \in Nat /\ pl \in Nat
    <2>1. hs \in {6, 8, 14} /\ pl \in Nat
      BY <1>1, Shape, HeadSizes
    <2> QED BY <2>1
  <1>3. FrameSize(said[k]) = hs + pl
    BY <1>1 DEF FrameSize
  <1>4. i \in Nat
    BY Shape
  <1>5. off + i <= FrameSize(said[k]) /\ j <= hs
    BY <1>1, <1>2, <1>3, <1>4
  <1>6. Ahead[i] = FrameByte(said[k], k, j)
    BY <1>1, <1>5, Front
  <1> QED BY <1>1, <1>5, <1>6 DEF FrameByte

\* The bytes of a payload, behind those taken before.
LEMMA PayloadAhead ==
  ASSUME Types, NEW start, NEW eaten \in Nat, Laid(start, eaten),
         NEW k \in 1 .. Len(said), NEW o \in Nat, eaten = start[k] + (HeadSize(said[k]) + o),
         NEW i \in 1 .. Len(Ahead), o + i <= said[k].payload_length
  PROVE  Ahead[i] = Xor(Plain(o + i), KeyAt(k, o + i))
  <1>1. PICK hs, pl, off, j, p :
          /\ hs = HeadSize(said[k]) /\ pl = said[k].payload_length /\ off = hs + o
          /\ j = off + i /\ p = o + i
    OBVIOUS
  <1>2. hs \in Nat /\ pl \in Nat
    <2>1. hs \in {6, 8, 14} /\ pl \in Nat
      BY <1>1, Shape, HeadSizes
    <2> QED BY <2>1
  <1>3. FrameSize(said[k]) = hs + pl
    BY <1>1 DEF FrameSize
  <1>4. i \in Nat /\ i >= 1
    BY Shape
  <1>5. off \in Nat /\ off + i <= FrameSize(said[k]) /\ ~ j <= hs /\ j - hs = p
    <2>1. o + i <= pl /\ off = hs + o /\ j = off + i /\ p = o + i
      BY <1>1
    <2>2. off \in Nat /\ off + i <= hs + pl /\ ~ j <= hs /\ j - hs = p
      BY <1>2, <1>4, <2>1
    <2> QED BY <1>3, <2>2
  <1>6. Ahead[i] = FrameByte(said[k], k, j)
    BY <1>1, <1>5, Front, SMTT(30)
  <1>7. FrameByte(said[k], k, j) = Xor(Plain(j - hs), KeyAt(k, j - hs))
    BY <1>1, <1>5 DEF FrameByte
  <1> QED BY <1>1, <1>5, <1>6, <1>7

\* The start of a head.
LEMMA StartStep ==
  ASSUME Invariant, law_ws_read_head_start
  PROVE  Invariant'
  <1> USE DEF Invariant
  <1>1. phase = "start" /\ Needs(2, StartWith) /\ UNCHANGED <<hdrs, peer>>
    BY DEF law_ws_read_head_start
  <1>2. PICK k : k = Len(got) + 1
    OBVIOUS
  <1>3. Len(got) \in Nat /\ Len(said) \in Nat /\ Len(got) <= Len(said) /\ k \in 1 .. Len(said) + 1
    BY <1>2, Shape DEF FramesMatch
  <1>4. k = Done + 1
    BY <1>1, <1>2, AllDone DEF Finished
  <1>5. PICK start : \E eaten \in Nat : Laid(start, eaten) /\ Reached(start, eaten)
    BY <1>1 DEF Stream, Following
  <1>6. PICK eaten \in Nat : Laid(start, eaten) /\ Reached(start, eaten)
    BY <1>5
  <1>7. start[k] \in Nat /\ eaten = start[k] + 0
    <2>1. start[k] \in Nat
      BY <1>3, <1>6, Starts
    <2>2. eaten = start[k]
      BY <1>1, <1>2, <1>6 DEF Reached
    <2> QED BY <2>1, <2>2
  <1>8. PICK x \in law_htc_ensure_input(2) :
          /\ wire' = x.wire
          /\ \/ /\ x.res = "OK"
                /\ in' = SubSeq(x.in, 2 + 1, Len(x.in)) /\ StartWith(SubSeq(x.in, 1, 2))
             \/ /\ x.res = "WANTR"
                /\ in' = x.in /\ UNCHANGED <<phase, reader, res>>
             \/ /\ x.res \notin {"OK", "WANTR"}
                /\ in' = x.in /\ phase' = "failed" /\ res' = x.res /\ UNCHANGED reader
    BY <1>1 DEF Needs
  <1>9. CASE x.res # "OK"
    <2>1. /\ in' = x.in /\ UNCHANGED <<hdrs, peer, reader>>
          /\ \/ x.res = "WANTR" /\ UNCHANGED <<phase, res>>
             \/ x.res \notin {"OK", "WANTR"} /\ phase' = "failed" /\ res' = x.res
      BY <1>1, <1>8, <1>9
    <2>2. k \in 1 .. Len(said) => 0 + 2 <= FrameSize(said[k])
      <3>1. ASSUME k \in 1 .. Len(said) PROVE 0 + 2 <= FrameSize(said[k])
        <4>1. HeadSize(said[k]) \in {6, 8, 14} /\ said[k].payload_length \in Nat
          BY <3>1, Shape, HeadSizes
        <4> QED BY <4>1 DEF FrameSize
      <3> QED BY <3>1
    <2>3. 0 \in Nat /\ 2 \in Nat /\ 2 <= 2
      OBVIOUS
    <2> QED BY <1>1, <1>3, <1>4, <1>6, <1>7, <1>8, <2>1, <2>2, <2>3, NotYet
  <1>10. CASE x.res = "OK"
    <2>1. PICK bs : bs = SubSeq(x.in, 1, 2)
      OBVIOUS
    <2>2. wire' = x.wire /\ in' = SubSeq(x.in, 2 + 1, Len(x.in)) /\ StartWith(bs)
      BY <1>8, <1>10, <2>1
    <2>3. /\ in' \in Seq(Cell) /\ wire' \in Seq(Cell) /\ Taken(2)
          /\ bs \in Seq(Cell) /\ Len(bs) = 2 /\ \A i \in 1 .. 2 : bs[i] = Ahead[i]
      <3>1. 2 \in Nat
        OBVIOUS
      <3> QED BY <1>10, <2>1, <2>2, <3>1, TakeBytes, ZenonT(60)
    <2>4. Len(Ahead) \in Nat /\ 2 <= Len(Ahead)
      BY <2>3, Shape DEF Taken
    <2>5. k \in 1 .. Len(said)
      <3>1. Len(Ahead) > 0 /\ 0 \in Nat
        BY <2>4
      <3> QED BY <1>3, <1>6, <1>7, <3>1, Within
    <2>6. PICK h \in Heads : h = said[k]
      BY <2>5, Shape
    <2>7. bs[1] = Num(h.fin * Half + h.opcode) /\ bs[2] = Num(Half + Code7(h))
      <3>1. 1 \in 1 .. Len(Ahead) /\ 2 \in 1 .. Len(Ahead) /\ 0 \in Nat /\ k \in Int
        BY <1>2, <1>3, <2>4
      <3>2. 0 + 1 <= HeadSize(h) /\ 0 + 2 <= HeadSize(h)
        <4>1. HeadSize(h) \in {6, 8, 14}
          BY HeadSizes
        <4> QED BY <4>1
      <3>3. PICK w : w = Written(h, Key(k))
        OBVIOUS
      <3>4. Ahead[1] = w[0 + 1] /\ Ahead[2] = w[0 + 2]
        BY <1>6, <1>7, <2>5, <2>6, <3>1, <3>2, <3>3, HeadAhead
      <3>5. w[1] = Num(h.fin * Half + h.opcode) /\ w[2] = Num(Half + Code7(h))
        BY <3>1, <3>3, HeadForm
      <3> QED BY <2>3, <3>4, <3>5
    <2>8. bs[1].num = h.fin * Half + h.opcode /\ bs[2].num = Half + Code7(h)
      BY <2>7 DEF Num
    <2>9. /\ bs[1].num \div Half = h.fin /\ bs[1].num % Op = h.opcode
          /\ bs[2].num % Half = Code7(h) /\ ~ bs[2].num < Half
      BY <2>8, FirstTwoRead, Zenon
    <2>10. /\ Form(Code7(h)) = FormOf(h) /\ FormOf(h) \in InHead
           /\ FormOf(h) = "small" => Code7(h) = h.payload_length
           /\ FormOf(h) = "large" => Code7(h) = Large
           /\ Code7(h) \in Int /\ h.fin \in Int /\ h.opcode \in Int
      BY FirstTwoRead, HeadSizes
    <2>11. /\ head' = [NoHead EXCEPT !.fin = bs[1].num \div Half,
                                     !.opcode = bs[1].num % Op,
                                     !.payload_length = bs[2].num % Half]
           /\ phase' = Form(bs[2].num % Half) /\ UNCHANGED <<offset, got, res>>
      BY <2>2, <2>9, Zenon DEF StartWith
    <2>12. /\ head' = [NoHead EXCEPT !.fin = h.fin, !.opcode = h.opcode,
                                     !.payload_length = Code7(h)]
           /\ phase' = FormOf(h) /\ UNCHANGED <<offset, got, res>>
      BY <2>9, <2>10, <2>11, Zenon
    <2>13. /\ head'.fin = h.fin /\ head'.opcode = h.opcode /\ head'.payload_length = Code7(h)
           /\ head' \in [fin : Int, opcode : Int, payload_length : Int, masking_key : Seq(Cell)]
      <3>1. <<>> \in Seq(Cell)
        BY EmptySeq
      <3> QED BY <2>10, <2>12, <3>1 DEF NoHead
    <2>14. phase' \in {"small", "medium", "large"} /\ phase' \in InHead /\ phase' # "payload"
      BY <2>10, <2>12 DEF InHead
    <2>15. Len(got) < Len(said)
      BY <1>2, <1>3, <2>5
    <2>16. said' = said /\ got' = got /\ offset' = offset
      BY <1>1, <2>12
    <2>17. Reader'
      BY <1>2, <2>6, <2>10, <2>12, <2>13, <2>14, <2>15, <2>16 DEF Reader
    <2>18. Stream'
      <3>1. Reached(start, eaten + 2)'
        <4>1. eaten + 2 = start[Len(got) + 1] + 2
          BY <1>2, <1>7
        <4> QED BY <2>14, <2>16, <4>1 DEF Reached, InHead
      <3> QED BY <1>1, <1>6, <2>3, <3>1, Took
    <2>19. Finished' /\ FramesMatch'
      BY <1>1, <2>16 DEF Finished, Whole, FramesMatch
    <2>20. /\ offset' \in Nat
           /\ got' \in Seq([head : [fin : Int, opcode : Int, payload_length : Int],
                            data : Seq(Cell)])
      BY <2>16 DEF Types
    <2> QED BY <1>1, <2>3, <2>12, <2>13, <2>14, <2>17, <2>18, <2>19, <2>20, ReaderStep
  <1> QED BY <1>9, <1>10

\* The rest of a head: a head of `form` needs n bytes more.
LEMMA RestOfHead ==
  ASSUME Invariant, phase \in InHead, NEW n \in Nat,
         NEW x \in law_htc_ensure_input(n), x.res # "OK",
         wire' = x.wire, in' = x.in, UNCHANGED <<hdrs, peer, reader>>,
         \/ x.res = "WANTR" /\ UNCHANGED <<phase, res>>
         \/ x.res \notin {"OK", "WANTR"} /\ phase' = "failed" /\ res' = x.res,
         2 + n <= HeadSize(said[Len(got) + 1])
  PROVE  Invariant'
  <1> USE DEF Invariant
  <1>1. PICK k : k = Len(got) + 1
    OBVIOUS
  <1>2. Len(got) \in Nat /\ Len(said) \in Nat /\ k \in 1 .. Len(said) /\ k \in 1 .. Len(said) + 1
    BY <1>1, Shape DEF Reader
  <1>3. k = Done + 1
    BY <1>1, AllDone DEF Finished
  <1>4. PICK start : \E eaten \in Nat : Laid(start, eaten) /\ Reached(start, eaten)
    BY DEF Stream, Following
  <1>5. PICK eaten \in Nat : Laid(start, eaten) /\ Reached(start, eaten)
    BY <1>4
  <1>6. eaten = start[k] + 2 /\ 2 \in Nat
    BY <1>1, <1>5 DEF Reached
  <1>7. 2 + n <= FrameSize(said[k])
    <2>1. HeadSize(said[k]) \in {6, 8, 14} /\ said[k].payload_length \in Nat
      BY <1>2, Shape, HeadSizes
    <2> QED BY <1>1, <2>1, SMTT(30) DEF FrameSize
  <1>8. phase \in {"start", "small", "medium", "large", "payload"}
    BY DEF InHead
  <1> QED BY <1>2, <1>3, <1>5, <1>6, <1>7, <1>8, NotYet

\* A small length is a 16-bit length.
LEMMA SmallIsLess == Small \in Int /\ UINT16_MAX \in Int /\ Small <= UINT16_MAX
  <1>1. /\ Byte \in Nat /\ Half \in Nat /\ Half * 2 = Byte /\ Half >= 3 /\ Small = Half - 3
        /\ UINT16_MAX = Byte * Byte - 1
    BY Params
  <1>2. Byte >= 6 /\ Small <= Byte - 1
    BY <1>1
  <1>3. Byte * Byte >= Byte /\ Byte * Byte \in Nat
    BY <1>1, <1>2
  <1> QED BY <1>1, <1>2, <1>3

\* The head is complete: it is that of the frame, and what follows it is the
\* payload, unless its length has been lost.
LEMMA CompleteStep ==
  ASSUME Invariant, phase \in InHead, NEW n \in Nat, Taken(n),
         in' \in Seq(Cell), wire' \in Seq(Cell), UNCHANGED <<hdrs, peer>>,
         NEW length \in Int, NEW key \in Seq(Cell), Complete(length, key),
         NEW k, k = Len(got) + 1, NEW h, h = said[k],
         \/ /\ phase' = "payload" /\ length = h.payload_length
            /\ h.payload_length <= UINT16_MAX /\ 2 + n = HeadSize(h)
            /\ \A j \in 1 .. 4 : key[j] = KeyByte(k, j)
         \/ phase' = "astray" /\ length = Large /\ ~ h.payload_length <= UINT16_MAX
  PROVE  Invariant'
  <1> USE DEF Invariant
  <1>1. Len(got) \in Nat /\ Len(said) \in Nat /\ k \in 1 .. Len(said) /\ k \in Nat
    BY Shape, SMTT(30) DEF Reader
  <1>2. h \in Heads /\ head.fin = h.fin /\ head.opcode = h.opcode
    BY <1>1, Shape DEF Reader
  <1>3. /\ h \in [fin : 0 .. 1, opcode : 0 .. (Op - 1), payload_length : Nat]
        /\ h.fin \in Int /\ h.opcode \in Int /\ h.payload_length \in Nat
    BY <1>2, Params, SMTT(30)
  <1>4. PICK f : f = [head |-> [fin |-> h.fin, opcode |-> h.opcode, payload_length |-> length],
                      data |-> <<>>]
    OBVIOUS
  <1>5. /\ head' = [head EXCEPT !.payload_length = length, !.masking_key = key]
        /\ offset' = 0 /\ got' = Append(got, f) /\ res' = res
    BY <1>2, <1>4 DEF Complete
  <1>6. /\ f \in [head : [fin : Int, opcode : Int, payload_length : Int], data : Seq(Cell)]
        /\ f.data = <<>> /\ Len(f.data) = 0
    <2>1. <<>> \in Seq(Cell) /\ Len(<<>>) = 0
      BY EmptySeq
    <2> QED BY <1>3, <1>4, <2>1
  <1>7. /\ got' \in Seq([head : [fin : Int, opcode : Int, payload_length : Int], data : Seq(Cell)])
        /\ Len(got') = k /\ got'[k] = f /\ \A i \in 1 .. Len(got) : got'[i] = got[i]
    <2> DEFINE F == [head : [fin : Int, opcode : Int, payload_length : Int], data : Seq(Cell)]
    <2>1. got \in Seq(F) /\ f \in F
      BY <1>6 DEF Types
    <2> HIDE DEF F
    <2>2. /\ Append(got, f) \in Seq(F) /\ Len(Append(got, f)) = Len(got) + 1
          /\ Append(got, f)[Len(got) + 1] = f
          /\ \A i \in 1 .. Len(got) : Append(got, f)[i] = got[i]
      BY <1>1, <2>1
    <2>3. Append(got, f) \in Seq([head : [fin : Int, opcode : Int, payload_length : Int],
                                  data : Seq(Cell)])
      BY <2>2 DEF F
    <2> QED BY <1>5, <2>2, <2>3
  <1>8. /\ head' \in [fin : Int, opcode : Int, payload_length : Int, masking_key : Seq(Cell)]
        /\ head'.payload_length = length /\ head'.masking_key = key
    BY <1>5 DEF Types
  <1>9. Agrees(f, h)
    <2>1. f.data = [i \in 1 .. Len(f.data) |-> Plain(i)]
      BY <1>6
    <2>2. /\ f.head.fin = h.fin /\ f.head.opcode = h.opcode
          /\ h.payload_length <= UINT16_MAX => f.head.payload_length = h.payload_length
      BY <1>3, <1>4
    <2> QED BY <2>1, <2>2 DEF Agrees
  <1>10. FramesMatch'
    <2>1. Len(got') <= Len(said')
      BY <1>1, <1>7
    <2>2. ASSUME NEW i \in 1 .. Len(got') PROVE Agrees(got'[i], said'[i])
      <3>1. CASE i = k
        BY <1>7, <1>9, <3>1
      <3>2. CASE i # k
        <4>0. PICK m \in Nat : m = Len(got) /\ k = m + 1 /\ i \in 1 .. k
          BY <1>1, <1>7
        <4>1. i \in 1 .. Len(got)
          BY <3>2, <4>0
        <4> QED BY <1>7, <4>1 DEF FramesMatch
      <3> QED BY <3>1, <3>2
    <2> QED BY <2>1, <2>2 DEF FramesMatch
  <1>11. Finished'
    <2>1. ASSUME NEW i \in 1 .. Len(got'), i < Len(got')
          PROVE  Len(got'[i].data) = got'[i].head.payload_length
      <3>1. i \in 1 .. Len(got)
        BY <1>1, <1>7, <2>1
      <3> QED BY <1>7, <3>1 DEF Finished, Whole
    <2>2. phase' \notin {"start"} \cup InHead
      BY DEF InHead
    <2> QED BY <2>1, <2>2 DEF Finished, Whole
  <1>12. Reader'
    <2>1. phase' \notin InHead
      BY DEF InHead
    <2>2. ASSUME phase' = "payload"
          PROVE  /\ Len(got') \in 1 .. Len(said') /\ said'[Len(got')].payload_length <= UINT16_MAX
                 /\ head'.payload_length = said'[Len(got')].payload_length
                 /\ \A j \in 1 .. 4 : head'.masking_key[j] = KeyByte(Len(got'), j)
                 /\ offset' = Len(got'[Len(got')].data) /\ offset' <= head'.payload_length
      <3>1. length = h.payload_length /\ h.payload_length <= UINT16_MAX
            /\ \A j \in 1 .. 4 : key[j] = KeyByte(k, j)
        BY <2>2
      <3>2. offset' = 0 /\ 0 <= length
        BY <1>3, <1>5, <3>1
      <3> QED BY <1>1, <1>6, <1>7, <1>8, <3>1, <3>2
    <2>3. ASSUME phase' = "astray" PROVE OutOfStep'
      <3>1. k \in 1 .. Len(got') /\ said'[k] = h /\ h.payload_length > UINT16_MAX
        <4>1. h.payload_length \in Nat /\ UINT16_MAX \in Int /\ ~ h.payload_length <= UINT16_MAX
          BY <1>3, <2>3, SmallIsLess
        <4>2. h.payload_length > UINT16_MAX
          BY <4>1
        <4>3. k \in 1 .. Len(got') /\ said'[k] = h
          BY <1>1, <1>7
        <4> QED BY <4>2, <4>3
      <3> QED BY <3>1, Zenon DEF OutOfStep
    <2> QED BY <2>1, <2>2, <2>3 DEF Reader
  <1>13. Stream'
    <2>1. CASE phase' = "payload"
      <3>1. PICK start : \E eaten \in Nat : Laid(start, eaten) /\ Reached(start, eaten)
        BY DEF Stream, Following
      <3>2. PICK eaten \in Nat : Laid(start, eaten) /\ Reached(start, eaten)
        BY <3>1
      <3>3. PICK b : b = start[k]
        OBVIOUS
      <3>4. eaten = b + 2 /\ b \in Nat
        BY <1>1, <3>2, <3>3, Starts DEF Reached
      <3>5. eaten + n = b + (HeadSize(h) + 0)
        <4>1. PICK hs \in Nat : hs = HeadSize(h)
          <5>1. HeadSize(h) \in {6, 8, 14}
            BY <1>2, HeadSizes
          <5> QED BY <5>1
        <4>2. 2 + n = hs
          BY <2>1, <4>1
        <4> QED BY <3>4, <4>1, <4>2
      <3>6. Reached(start, eaten + n)'
        <4>1. /\ phase' # "start" /\ phase' \notin InHead /\ Len(got') = k /\ offset' = 0
              /\ said'[k] = h
          BY <1>5, <1>7, <2>1 DEF InHead
        <4> QED BY <3>3, <3>5, <4>1 DEF Reached
      <3> QED BY <3>2, <3>6, Took
    <2>2. CASE phase' = "astray"
      BY <2>2 DEF Stream, Following, InHead
    <2> QED BY <2>1, <2>2
  <1>14. phase \notin {"accept", "failed", "astray"}
    BY DEF InHead
  <1>15. phase' \in {"start", "small", "medium", "large", "payload", "astray"} /\ offset' \in Nat
    BY <1>5
  <1> QED BY <1>5, <1>7, <1>8, <1>10, <1>11, <1>12, <1>13, <1>14, <1>15, ReaderStep

\* Behind the first two bytes of a head.
LEMMA InHeadAhead ==
  ASSUME Invariant, phase \in InHead, NEW k \in 1 .. Len(said), k = Len(got) + 1,
         NEW i \in 1 .. Len(Ahead), 2 + i <= HeadSize(said[k])
  PROVE  Ahead[i] = Written(said[k], Key(k))[2 + i]
  <1>1. PICK start : \E eaten \in Nat : Laid(start, eaten) /\ Reached(start, eaten)
    BY DEF Invariant, Stream, Following
  <1>2. PICK eaten \in Nat : Laid(start, eaten) /\ Reached(start, eaten)
    BY <1>1
  <1>3. eaten = start[k] + 2 /\ 2 \in Nat
    BY <1>2 DEF Reached
  <1> QED BY <1>2, <1>3, HeadAhead DEF Invariant

\* law_ws_read_head_small.
LEMMA SmallStep ==
  ASSUME Invariant, law_ws_read_head_small
  PROVE  Invariant'
  <1> USE DEF Invariant
  <1>1. phase = "small" /\ phase \in InHead /\ Needs(4, SmallWith) /\ UNCHANGED <<hdrs, peer>>
    BY DEF law_ws_read_head_small, InHead
  <1>2. PICK k, h : k = Len(got) + 1 /\ h = said[k]
    OBVIOUS
  <1>3. Len(got) \in Nat /\ Len(said) \in Nat /\ k \in 1 .. Len(said) /\ k \in Nat
    BY <1>1, <1>2, Shape DEF Reader
  <1>4. h \in Heads /\ FormOf(h) = "small" /\ head.payload_length = h.payload_length
    BY <1>1, <1>2, <1>3, Shape DEF Reader
  <1>5. HeadSize(h) = 6 /\ h.payload_length \in Nat /\ h.payload_length <= UINT16_MAX
    <2>1. HeadSize(h) = 6 /\ h.payload_length \in Nat
      BY <1>4, HeadSizes
    <2>2. h.payload_length <= Small \/ h.payload_length <= UINT16_MAX
      BY <1>4 DEF FormOf
    <2>3. Small \in Int /\ UINT16_MAX \in Int /\ Small <= UINT16_MAX
      BY SmallIsLess
    <2> QED BY <2>1, <2>2, <2>3
  <1>6. PICK x \in law_htc_ensure_input(4) :
          /\ wire' = x.wire
          /\ \/ /\ x.res = "OK"
                /\ in' = SubSeq(x.in, 4 + 1, Len(x.in)) /\ SmallWith(SubSeq(x.in, 1, 4))
             \/ /\ x.res = "WANTR"
                /\ in' = x.in /\ UNCHANGED <<phase, reader, res>>
             \/ /\ x.res \notin {"OK", "WANTR"}
                /\ in' = x.in /\ phase' = "failed" /\ res' = x.res /\ UNCHANGED reader
    BY <1>1 DEF Needs
  <1>7. CASE x.res # "OK"
    <2>1. /\ in' = x.in /\ UNCHANGED <<hdrs, peer, reader>>
          /\ \/ x.res = "WANTR" /\ UNCHANGED <<phase, res>>
             \/ x.res \notin {"OK", "WANTR"} /\ phase' = "failed" /\ res' = x.res
      BY <1>1, <1>6, <1>7
    <2>2. 2 + 4 <= HeadSize(said[Len(got) + 1]) /\ 4 \in Nat
      BY <1>2, <1>5
    <2> QED BY <1>1, <1>6, <1>7, <2>1, <2>2, RestOfHead
  <1>8. CASE x.res = "OK"
    <2>1. PICK bs : bs = SubSeq(x.in, 1, 4)
      OBVIOUS
    <2>2. /\ wire' = x.wire /\ in' = SubSeq(x.in, 4 + 1, Len(x.in))
          /\ Complete(head.payload_length, bs) /\ phase' = "payload"
      BY <1>6, <1>8, <2>1 DEF SmallWith
    <2>3. /\ in' \in Seq(Cell) /\ wire' \in Seq(Cell) /\ Taken(4)
          /\ bs \in Seq(Cell) /\ Len(bs) = 4 /\ \A i \in 1 .. 4 : bs[i] = Ahead[i]
      <3>1. PICK n \in Nat : n = 4
        OBVIOUS
      <3>2. /\ x \in law_htc_ensure_input(n) /\ bs = SubSeq(x.in, 1, n)
            /\ wire' = x.wire /\ in' = SubSeq(x.in, n + 1, Len(x.in))
        BY <2>1, <2>2, <3>1, Zenon
      <3>3. /\ in' \in Seq(Cell) /\ wire' \in Seq(Cell) /\ Taken(n)
            /\ bs \in Seq(Cell) /\ Len(bs) = n /\ \A i \in 1 .. n : bs[i] = Ahead[i]
        BY <1>8, <3>2, TakeBytes
      <3> QED BY <3>1, <3>3, Zenon
    <2>4. Len(Ahead) \in Nat /\ 4 <= Len(Ahead)
      BY <2>3, Shape DEF Taken
    <2>5. ASSUME NEW j \in 1 .. 4 PROVE bs[j] = KeyByte(k, j)
      <3>1. j \in 1 .. Len(Ahead)
        BY <2>4
      <3>2. Ahead[j] = Written(said[k], Key(k))[2 + j]
        BY <1>1, <1>2, <1>3, <1>5, <3>1, InHeadAhead
      <3>3. Written(h, Key(k))[2 + j] = KeyByte(k, j)
        BY <1>3, <1>4, SmallForm, SMTT(30)
      <3> QED BY <1>2, <2>3, <3>2, <3>3
    <2>6. 2 + 4 = HeadSize(h) /\ 4 \in Nat /\ head.payload_length \in Int
      BY <1>4, <1>5
    <2>7. Complete(h.payload_length, bs) /\ h.payload_length \in Int
      BY <1>4, <2>2, <2>6
    <2>8. phase' = "payload"
      BY <2>2
    <2>9. PICK n, length, key : n = 4 /\ length = h.payload_length /\ key = bs
      OBVIOUS
    <2>10. /\ n \in Nat /\ Taken(n) /\ in' \in Seq(Cell) /\ wire' \in Seq(Cell)
           /\ length \in Int /\ key \in Seq(Cell) /\ Complete(length, key)
      BY <1>5, <2>3, <2>7, <2>9
    <2>11. /\ phase' = "payload" /\ length = h.payload_length
           /\ h.payload_length <= UINT16_MAX /\ 2 + n = HeadSize(h)
           /\ \A j \in 1 .. 4 : key[j] = KeyByte(k, j)
      BY <1>5, <2>5, <2>8, <2>9
    <2>12. Invariant /\ phase \in InHead /\ UNCHANGED <<hdrs, peer>>
      BY <1>1
    <2> HIDE DEF Invariant
    <2> QED BY <1>2, <2>10, <2>11, <2>12, CompleteStep, SMTT(30)
  <1> QED BY <1>7, <1>8

\* law_ws_read_head_medium: ntohs gives the length back.
LEMMA MediumStep ==
  ASSUME Invariant, law_ws_read_head_medium
  PROVE  Invariant'
  <1> USE DEF Invariant
  <1>1. phase = "medium" /\ phase \in InHead /\ Needs(6, MediumWith) /\ UNCHANGED <<hdrs, peer>>
    BY DEF law_ws_read_head_medium, InHead
  <1>2. PICK k, h : k = Len(got) + 1 /\ h = said[k]
    OBVIOUS
  <1>3. Len(got) \in Nat /\ Len(said) \in Nat /\ k \in 1 .. Len(said) /\ k \in Nat
    BY <1>1, <1>2, Shape DEF Reader
  <1>4. h \in Heads /\ FormOf(h) = "medium"
    BY <1>1, <1>2, <1>3, Shape DEF Reader
  <1>5. HeadSize(h) = 8 /\ h.payload_length \in Nat /\ h.payload_length <= UINT16_MAX
    <2>1. HeadSize(h) = 8 /\ h.payload_length \in Nat
      BY <1>4, HeadSizes
    <2> QED BY <1>4, <2>1 DEF FormOf
  <1>6. PICK x \in law_htc_ensure_input(6) :
          /\ wire' = x.wire
          /\ \/ /\ x.res = "OK"
                /\ in' = SubSeq(x.in, 6 + 1, Len(x.in)) /\ MediumWith(SubSeq(x.in, 1, 6))
             \/ /\ x.res = "WANTR"
                /\ in' = x.in /\ UNCHANGED <<phase, reader, res>>
             \/ /\ x.res \notin {"OK", "WANTR"}
                /\ in' = x.in /\ phase' = "failed" /\ res' = x.res /\ UNCHANGED reader
    BY <1>1 DEF Needs
  <1>7. CASE x.res # "OK"
    <2>1. /\ in' = x.in /\ UNCHANGED <<hdrs, peer, reader>>
          /\ \/ x.res = "WANTR" /\ UNCHANGED <<phase, res>>
             \/ x.res \notin {"OK", "WANTR"} /\ phase' = "failed" /\ res' = x.res
      BY <1>1, <1>6, <1>7
    <2>2. 2 + 6 <= HeadSize(said[Len(got) + 1]) /\ 6 \in Nat
      BY <1>2, <1>5
    <2> QED BY <1>1, <1>6, <1>7, <2>1, <2>2, RestOfHead
  <1>8. CASE x.res = "OK"
    <2>1. PICK bs, key : bs = SubSeq(x.in, 1, 6) /\ key = SubSeq(bs, 3, 6)
      OBVIOUS
    <2>2. /\ wire' = x.wire /\ in' = SubSeq(x.in, 6 + 1, Len(x.in))
          /\ Complete(ntohs(bs), key) /\ phase' = "payload"
      BY <1>6, <1>8, <2>1 DEF MediumWith
    <2>3. /\ in' \in Seq(Cell) /\ wire' \in Seq(Cell) /\ Taken(6)
          /\ bs \in Seq(Cell) /\ Len(bs) = 6 /\ \A i \in 1 .. 6 : bs[i] = Ahead[i]
      <3>1. PICK n \in Nat : n = 6
        OBVIOUS
      <3>2. /\ x \in law_htc_ensure_input(n) /\ bs = SubSeq(x.in, 1, n)
            /\ wire' = x.wire /\ in' = SubSeq(x.in, n + 1, Len(x.in))
        BY <2>1, <2>2, <3>1, Zenon
      <3>3. /\ in' \in Seq(Cell) /\ wire' \in Seq(Cell) /\ Taken(n)
            /\ bs \in Seq(Cell) /\ Len(bs) = n /\ \A i \in 1 .. n : bs[i] = Ahead[i]
        BY <1>8, <3>2, TakeBytes
      <3> QED BY <3>1, <3>3, Zenon
    <2>4. Len(Ahead) \in Nat /\ 6 <= Len(Ahead)
      BY <2>3, Shape DEF Taken
    <2>5. PICK w : w = Written(h, Key(k))
      OBVIOUS
    <2>6. ASSUME NEW j \in 1 .. 6 PROVE bs[j] = w[2 + j]
      <3>1. j \in 1 .. Len(Ahead) /\ 2 + j <= 8
        BY <2>4
      <3>2. Ahead[j] = Written(said[k], Key(k))[2 + j]
        BY <1>1, <1>2, <1>3, <1>5, <3>1, InHeadAhead
      <3> QED BY <1>2, <2>3, <2>5, <3>2
    <2>7. /\ w[3].num = (h.payload_length \div Byte) % Byte
          /\ w[4].num = h.payload_length % Byte
          /\ \A j \in 1 .. 4 : w[4 + j] = KeyByte(k, j)
      <3>1. k \in Int
        BY <1>3
      <3> QED BY <1>4, <2>5, <3>1, MediumForm, Zenon
    <2>8. ntohs(bs) = h.payload_length
      <3>1. bs[1] = w[2 + 1] /\ bs[2] = w[2 + 2]
        BY <2>6
      <3>2. bs[1] = w[3] /\ bs[2] = w[4]
        BY <3>1
      <3>3. ntohs(bs) = ((h.payload_length \div Byte) % Byte) * Byte + (h.payload_length % Byte)
        BY <2>7, <3>2, Zenon DEF ntohs
      <3> QED BY <1>5, <3>3, SixteenBits, Zenon
    <2>9. /\ key \in Seq(Cell) /\ \A j \in 1 .. 4 : key[j] = bs[2 + j]
      <3>0. \A i \in 1 .. Len(bs) : bs[i] \in Cell
        BY <2>3, ElementOfSeq
      <3>1. \A i \in 3 .. 6 : bs[i] \in Cell
        BY <2>3, <3>0
      <3>2. /\ SubSeq(bs, 3, 6) \in Seq(Cell)
            /\ \A i \in 1 .. 6 - 3 + 1 : SubSeq(bs, 3, 6)[i] = bs[3 + i - 1]
        BY <3>1, SubSeqProperties
      <3>3. ASSUME NEW j \in 1 .. 4 PROVE key[j] = bs[2 + j]
        <4>1. j \in 1 .. 6 - 3 + 1 /\ 3 + j - 1 = 2 + j
          OBVIOUS
        <4> QED BY <2>1, <3>2, <4>1
      <3> QED BY <2>1, <3>2, <3>3
    <2>10. ASSUME NEW j \in 1 .. 4 PROVE key[j] = KeyByte(k, j)
      <3>1. 2 + j \in 1 .. 6 /\ 2 + (2 + j) = 4 + j
        OBVIOUS
      <3>2. bs[2 + j] = w[2 + (2 + j)]
        BY <2>6, <3>1, Zenon
      <3> QED BY <2>7, <2>9, <3>1, <3>2
    <2>11. 2 + 6 = HeadSize(h) /\ 6 \in Nat /\ h.payload_length \in Int
      BY <1>5
    <2>12. Complete(h.payload_length, key)
      BY <2>2, <2>8
    <2> QED BY <1>1, <1>2, <1>5, <2>2, <2>3, <2>9, <2>10, <2>11, <2>12, CompleteStep
  <1> QED BY <1>7, <1>8

\* law_ws_read_head_large: the length is lost.
LEMMA LargeStep ==
  ASSUME Invariant, law_ws_read_head_large
  PROVE  Invariant'
  <1> USE DEF Invariant
  <1>1. phase = "large" /\ phase \in InHead /\ Needs(12, LargeWith) /\ UNCHANGED <<hdrs, peer>>
    BY DEF law_ws_read_head_large, InHead
  <1>2. PICK k, h : k = Len(got) + 1 /\ h = said[k]
    OBVIOUS
  <1>3. Len(got) \in Nat /\ Len(said) \in Nat /\ k \in 1 .. Len(said) /\ k \in Nat
    BY <1>1, <1>2, Shape DEF Reader
  <1>4. h \in Heads /\ FormOf(h) = "large" /\ head.payload_length = Large
    BY <1>1, <1>2, <1>3, Shape DEF Reader
  <1>5. HeadSize(h) = 14 /\ ~ h.payload_length <= UINT16_MAX
    BY <1>4, HeadSizes DEF FormOf
  <1>6. PICK x \in law_htc_ensure_input(12) :
          /\ wire' = x.wire
          /\ \/ /\ x.res = "OK"
                /\ in' = SubSeq(x.in, 12 + 1, Len(x.in)) /\ LargeWith(SubSeq(x.in, 1, 12))
             \/ /\ x.res = "WANTR"
                /\ in' = x.in /\ UNCHANGED <<phase, reader, res>>
             \/ /\ x.res \notin {"OK", "WANTR"}
                /\ in' = x.in /\ phase' = "failed" /\ res' = x.res /\ UNCHANGED reader
    BY <1>1 DEF Needs
  <1>7. CASE x.res # "OK"
    <2>1. /\ in' = x.in /\ UNCHANGED <<hdrs, peer, reader>>
          /\ \/ x.res = "WANTR" /\ UNCHANGED <<phase, res>>
             \/ x.res \notin {"OK", "WANTR"} /\ phase' = "failed" /\ res' = x.res
      BY <1>1, <1>6, <1>7
    <2>2. 2 + 12 <= HeadSize(said[Len(got) + 1]) /\ 12 \in Nat
      BY <1>2, <1>5
    <2> QED BY <1>1, <1>6, <1>7, <2>1, <2>2, RestOfHead
  <1>8. CASE x.res = "OK"
    <2>1. PICK bs, key : bs = SubSeq(x.in, 1, 12) /\ key = SubSeq(bs, 9, 12)
      OBVIOUS
    <2>2. /\ wire' = x.wire /\ in' = SubSeq(x.in, 12 + 1, Len(x.in))
          /\ Complete(head.payload_length, key) /\ phase' = "astray"
      BY <1>6, <1>8, <2>1 DEF LargeWith
    <2>3. /\ in' \in Seq(Cell) /\ wire' \in Seq(Cell) /\ Taken(12)
          /\ bs \in Seq(Cell) /\ Len(bs) = 12
      <3>1. PICK n \in Nat : n = 12
        OBVIOUS
      <3>2. /\ x \in law_htc_ensure_input(n) /\ bs = SubSeq(x.in, 1, n)
            /\ wire' = x.wire /\ in' = SubSeq(x.in, n + 1, Len(x.in))
        BY <2>1, <2>2, <3>1, Zenon
      <3>3. /\ in' \in Seq(Cell) /\ wire' \in Seq(Cell) /\ Taken(n)
            /\ bs \in Seq(Cell) /\ Len(bs) = n /\ \A i \in 1 .. n : bs[i] = Ahead[i]
        BY <1>8, <3>2, TakeBytes
      <3> QED BY <3>1, <3>3, Zenon
    <2>4. key \in Seq(Cell)
      <3>0. \A i \in 1 .. Len(bs) : bs[i] \in Cell
        BY <2>3, ElementOfSeq
      <3>1. \A i \in 9 .. 12 : bs[i] \in Cell
        BY <2>3, <3>0
      <3> QED BY <2>1, <3>1, SubSeqProperties
    <2>5. Large \in Int /\ 12 \in Nat /\ Complete(Large, key)
      BY <1>4, <2>2, Params
    <2> QED BY <1>1, <1>2, <1>5, <2>2, <2>3, <2>4, <2>5, CompleteStep
  <1> QED BY <1>7, <1>8

\* The frame whose payload is being read.
LEMMA InPayload ==
  ASSUME Invariant, phase = "payload", NEW f, f = Len(got)
  PROVE  /\ f \in 1 .. Len(said) /\ f \in 1 .. Len(got) /\ f \in Nat
         /\ said[f] \in Heads /\ said[f].payload_length \in Nat
         /\ head.payload_length = said[f].payload_length
         /\ got[f].head = said[f] /\ got[f].data \in Seq(Cell)
         /\ offset = Len(got[f].data) /\ offset \in Nat /\ offset <= said[f].payload_length
         /\ Remaining = said[f].payload_length - offset
         /\ got[f].data = [i \in 1 .. offset |-> Plain(i)]
  <1> USE DEF Invariant
  <1>1. f \in 1 .. Len(said) /\ Len(got) \in Nat /\ Len(said) \in Nat
    BY Shape DEF Reader
  <1>2. f \in 1 .. Len(got) /\ f \in Nat
    BY <1>1
  <1>3. said[f] \in Heads /\ said[f].payload_length \in Nat
    BY <1>1, Shape, HeadSizes
  <1>4. /\ said[f].payload_length <= UINT16_MAX /\ head.payload_length = said[f].payload_length
        /\ offset = Len(got[f].data) /\ offset <= said[f].payload_length
    BY DEF Reader
  <1>5. /\ got[f].head.fin = said[f].fin /\ got[f].head.opcode = said[f].opcode
        /\ got[f].head.payload_length = said[f].payload_length
        /\ got[f].data = [i \in 1 .. Len(got[f].data) |-> Plain(i)]
    BY <1>2, <1>4 DEF FramesMatch, Agrees
  <1>6. got[f].head = said[f]
    <2>1. got[f].head \in [fin : Int, opcode : Int, payload_length : Int]
      BY <1>2, GotForm
    <2>2. said[f] \in [fin : 0 .. 1, opcode : 0 .. (Op - 1), payload_length : Nat]
      BY <1>3, Params
    <2> QED BY <1>5, <2>1, <2>2
  <1>7. got[f].data \in Seq(Cell) /\ offset \in Nat
    BY <1>2, GotForm DEF Types
  <1>8. Remaining = said[f].payload_length - offset
    BY <1>4 DEF Remaining
  <1> QED BY <1>1, <1>2, <1>3, <1>4, <1>5, <1>6, <1>7, <1>8, Zenon

\* The first bytes of a payload.
Payload(s) == s = [i \in 1 .. Len(s) |-> Plain(i)]

\* Unmasked bytes behind those taken before.
LEMMA MoreData ==
  ASSUME NEW s \in Seq(Cell), Payload(s),
         NEW t \in Seq(Cell), PayloadFrom(Len(s), t)
  PROVE  s \o t \in Seq(Cell) /\ Len(s \o t) = Len(s) + Len(t) /\ Payload(s \o t)
  <1>0. PICK o \in Nat : o = Len(s)
    OBVIOUS
  <1>1. PICK u : u = s \o t
    OBVIOUS
  <1>2. IsJoin(u, s, t)
    BY <1>1, Joined, Zenon
  <1>3. Len(t) \in Nat
    OBVIOUS
  <1>4. u \in Seq(Cell) /\ Len(u) = o + Len(t)
    BY <1>0, <1>2 DEF IsJoin
  <1>5. ASSUME NEW i \in 1 .. (o + Len(t)) PROVE u[i] = Plain(i)
    <2>1. CASE i <= o
      <3>1. i \in 1 .. o
        BY <2>1
      <3>2. u[i] = s[i]
        BY <1>0, <1>2, <3>1 DEF IsJoin
      <3> QED BY <1>0, <3>1, <3>2 DEF Payload
    <2>2. CASE ~ i <= o
      <3>1. PICK j : j = i - o
        OBVIOUS
      <3>2. j \in 1 .. Len(t) /\ o + j = i
        BY <1>3, <2>2, <3>1
      <3>3. u[o + j] = t[j]
        BY <1>0, <1>2, <3>2 DEF IsJoin
      <3>4. t[j] = Plain(o + j)
        BY <1>0, <3>2 DEF PayloadFrom
      <3> QED BY <3>2, <3>3, <3>4
    <2> QED BY <2>1, <2>2
  <1>6. u = [i \in 1 .. Len(u) |-> u[i]]
    BY <1>4, LenProperties, Zenon
  <1>7. u = [i \in 1 .. (o + Len(t)) |-> Plain(i)]
    BY <1>4, <1>5, <1>6, Zenon
  <1>8. Payload(u)
    BY <1>4, <1>7, Zenon DEF Payload
  <1> QED BY <1>0, <1>1, <1>4, <1>8

\* n bytes of the payload are read and unmasked.
LEMMA PayloadStep ==
  ASSUME Invariant, NEW n, ReadPayload(n)
  PROVE  Invariant'
  <1> USE DEF Invariant
  <1>1. phase = "payload" /\ n \in 1 .. Remaining /\ Needs(n, PayloadWith) /\ UNCHANGED <<hdrs, peer>>
    BY DEF ReadPayload
  <1>2. PICK f, h, pl, hs :
          f = Len(got) /\ h = said[f] /\ pl = h.payload_length /\ hs = HeadSize(h)
    OBVIOUS
  <1>3. /\ f \in 1 .. Len(said) /\ f \in 1 .. Len(got) /\ f \in Nat
        /\ h \in Heads /\ pl \in Nat /\ head.payload_length = pl
        /\ got[f].head = h /\ got[f].data \in Seq(Cell)
        /\ offset = Len(got[f].data) /\ offset \in Nat /\ offset <= pl
        /\ Remaining = pl - offset /\ got[f].data = [i \in 1 .. offset |-> Plain(i)]
    BY <1>1, <1>2, InPayload
  <1>4. n \in Nat /\ n >= 1 /\ offset + n <= pl
    BY <1>1, <1>3
  <1>5. hs \in Nat /\ FrameSize(h) = hs + pl
    <2>1. hs \in {6, 8, 14}
      BY <1>2, <1>3, HeadSizes
    <2> QED BY <1>2, <2>1 DEF FrameSize
  <1>6. f = Done + 1
    <2>1. ~ Whole(f)
      BY <1>2, <1>3, <1>4 DEF Whole
    <2>2. Done = Len(got) - 1
      BY <1>2, <1>3, <2>1, AllButOneDone DEF Finished
    <2> QED BY <1>2, <1>3, <2>2
  <1>7. PICK start : \E eaten \in Nat : Laid(start, eaten) /\ Reached(start, eaten)
    BY <1>1 DEF Stream, Following
  <1>8. PICK eaten \in Nat : Laid(start, eaten) /\ Reached(start, eaten)
    BY <1>7
  <1>9. eaten = start[f] + (hs + offset) /\ start[f] \in Nat
    BY <1>1, <1>2, <1>3, <1>8, Starts DEF Reached
  <1>10. PICK x \in law_htc_ensure_input(n) :
          /\ wire' = x.wire
          /\ \/ /\ x.res = "OK"
                /\ in' = SubSeq(x.in, n + 1, Len(x.in)) /\ PayloadWith(SubSeq(x.in, 1, n))
             \/ /\ x.res = "WANTR"
                /\ in' = x.in /\ UNCHANGED <<phase, reader, res>>
             \/ /\ x.res \notin {"OK", "WANTR"}
                /\ in' = x.in /\ phase' = "failed" /\ res' = x.res /\ UNCHANGED reader
    BY <1>1 DEF Needs
  <1>11. CASE x.res # "OK"
    <2>1. /\ in' = x.in /\ wire' = x.wire /\ UNCHANGED <<hdrs, peer, reader>>
          /\ \/ x.res = "WANTR" /\ UNCHANGED <<phase, res>>
             \/ x.res \notin {"OK", "WANTR"} /\ phase' = "failed" /\ res' = x.res
      BY <1>1, <1>10, <1>11
    <2>2. PICK off \in Nat : off = hs + offset
      BY <1>3, <1>5
    <2>3. eaten = start[f] + off /\ off + n <= FrameSize(said[f])
      <3>1. off + n <= hs + pl
        BY <1>3, <1>4, <1>5, <2>2
      <3> QED BY <1>2, <1>5, <1>9, <2>2, <3>1
    <2>4. f \in 1 .. Len(said) + 1
      BY <1>3, Shape
    <2> QED BY <1>1, <1>3, <1>4, <1>6, <1>8, <2>1, <2>3, <2>4, NotYet
  <1>12. CASE x.res = "OK"
    <2>1. PICK bs, w : bs = SubSeq(x.in, 1, n) /\ w = law_ws_xor_apply(head.masking_key, offset, bs)
      OBVIOUS
    <2>2. wire' = x.wire /\ in' = SubSeq(x.in, n + 1, Len(x.in)) /\ PayloadWith(bs)
      BY <1>10, <1>12, <2>1
    <2>3. /\ in' \in Seq(Cell) /\ wire' \in Seq(Cell) /\ Taken(n)
          /\ bs \in Seq(Cell) /\ Len(bs) = n /\ \A i \in 1 .. n : bs[i] = Ahead[i]
      BY <1>4, <1>12, <2>1, <2>2, TakeBytes, ZenonT(60)
    <2>4. Len(Ahead) \in Nat /\ n <= Len(Ahead)
      BY <2>3, Shape DEF Taken
    <2>5. ASSUME NEW i \in 1 .. Len(bs) PROVE bs[i] = Xor(Plain(offset + i), KeyAt(f, offset + i))
      <3>1. i \in 1 .. Len(Ahead) /\ i \in 1 .. n
        BY <1>4, <2>3, <2>4
      <3>2. offset + i <= said[f].payload_length
        <4>1. offset + i <= pl
          BY <1>3, <1>4, <3>1
        <4> QED BY <1>2, <4>1
      <3>3. eaten = start[f] + (HeadSize(said[f]) + offset)
        BY <1>2, <1>9
      <3>4. PICK o \in Nat : o = offset
        BY <1>3
      <3>5. Ahead[i] = Xor(Plain(o + i), KeyAt(f, o + i))
        <4>1. eaten = start[f] + (HeadSize(said[f]) + o) /\ o + i <= said[f].payload_length
          BY <3>2, <3>3, <3>4
        <4>2. Types /\ Laid(start, eaten) /\ f \in 1 .. Len(said) /\ i \in 1 .. Len(Ahead)
          BY <1>3, <1>8, <3>1
        <4> HIDE DEF Invariant
        <4> QED BY <4>1, <4>2, PayloadAhead, ZenonT(60)
      <3> QED BY <2>3, <3>1, <3>4, <3>5
    <2>6. w \in Seq(Cell) /\ Len(w) = n /\ \A i \in 1 .. Len(w) : w[i] = Plain(offset + i)
      <3>1. PICK o, key : o = offset /\ key = head.masking_key
        OBVIOUS
      <3>0. o \in Nat
        BY <1>3, <3>1
      <3>2. \A j \in 1 .. 4 : key[j] = KeyByte(f, j)
        BY <1>1, <1>2, <3>1 DEF Reader
      <3>3. \A i \in 1 .. Len(bs) : bs[i] = Xor(Plain(o + i), KeyAt(f, o + i))
        BY <2>5, <3>1
      <3>4. w = law_ws_xor_apply(key, o, bs) /\ f \in Int /\ bs \in Seq(Cell)
        BY <1>3, <2>1, <2>3, <3>1
      <3>5. MaskedWith(f, key, o, bs)
        BY <3>2, <3>3 DEF MaskedWith
      <3>6. /\ law_ws_xor_apply(key, o, bs) \in Seq(Cell)
            /\ Len(law_ws_xor_apply(key, o, bs)) = Len(bs)
            /\ PayloadFrom(o, law_ws_xor_apply(key, o, bs))
        BY <3>0, <3>4, <3>5, Unmasked, Zenon
      <3>7. w \in Seq(Cell) /\ Len(w) = Len(bs) /\ PayloadFrom(o, w)
        BY <3>4, <3>6, Zenon
      <3> QED BY <2>3, <3>1, <3>7 DEF PayloadFrom
    <2>7. PICK d : d = got[f].data \o w
      OBVIOUS
    <2>8. d \in Seq(Cell) /\ Len(d) = offset + n /\ d = [i \in 1 .. Len(d) |-> Plain(i)]
      <3>1. PICK s, o : s = got[f].data /\ o = offset
        OBVIOUS
      <3>2. s \in Seq(Cell) /\ Len(s) = o /\ Payload(s)
        BY <1>3, <3>1 DEF Payload
      <3>3. PayloadFrom(Len(s), w)
        BY <2>6, <3>1, <3>2 DEF PayloadFrom
      <3>4. s \o w \in Seq(Cell) /\ Len(s \o w) = Len(s) + Len(w) /\ Payload(s \o w)
        BY <2>6, <3>2, <3>3, MoreData
      <3>5. d \in Seq(Cell) /\ Len(d) = offset + n /\ Payload(d)
        BY <2>6, <2>7, <3>1, <3>2, <3>4
      <3> QED BY <3>5 DEF Payload
    <2>9. /\ got' = [got EXCEPT ![f].data = d] /\ offset' = offset + n
          /\ head' = head /\ phase' = phase /\ res' = res
      BY <1>2, <2>1, <2>2, <2>3, <2>7 DEF PayloadWith
    <2>10. PICK g : g = [got[f] EXCEPT !.data = d]
      OBVIOUS
    <2>11. /\ g \in [head : [fin : Int, opcode : Int, payload_length : Int], data : Seq(Cell)]
           /\ g.head = h /\ g.data = d
      BY <1>3, <2>8, <2>10, GotForm
    <2>12. /\ got' \in Seq([head : [fin : Int, opcode : Int, payload_length : Int],
                            data : Seq(Cell)])
           /\ Len(got') = Len(got) /\ got'[f] = g
           /\ \A i \in 1 .. Len(got) : i # f => got'[i] = got[i]
      <3> DEFINE F == [head : [fin : Int, opcode : Int, payload_length : Int], data : Seq(Cell)]
      <3>1. got \in Seq(F) /\ g \in F /\ f \in 1 .. Len(got)
        BY <1>3, <2>11 DEF Types
      <3>2. got' = [got EXCEPT ![f] = g]
        BY <2>9, <2>10
      <3> HIDE DEF F
      <3>3. /\ got' \in Seq(F) /\ Len(got') = Len(got)
            /\ \A j \in 1 .. Len(got) : got'[j] = IF j = f THEN g ELSE got[j]
        BY <3>1, <3>2, ExceptSeq
      <3>4. got' \in Seq([head : [fin : Int, opcode : Int, payload_length : Int],
                          data : Seq(Cell)])
        BY <3>3 DEF F
      <3> QED BY <1>3, <3>3, <3>4
    <2>13. FramesMatch'
      <3>1. Agrees(g, h)
        <4>1. Agrees(got[f], h)
          BY <1>2, <1>3 DEF FramesMatch
        <4> QED BY <1>3, <2>8, <2>11, <4>1, Zenon DEF Agrees
      <3>2. ASSUME NEW i \in 1 .. Len(got') PROVE Agrees(got'[i], said'[i])
        <4>1. i \in 1 .. Len(got) /\ said' = said
          BY <1>1, <2>12
        <4>2. CASE i = f
          BY <1>2, <2>12, <3>1, <4>1, <4>2
        <4>3. CASE i # f
          BY <2>12, <4>1, <4>3 DEF FramesMatch
        <4> QED BY <4>2, <4>3
      <3>3. Len(got') <= Len(said')
        BY <1>1, <2>12 DEF FramesMatch
      <3> QED BY <3>2, <3>3 DEF FramesMatch
    <2>14. Finished'
      <3>1. ASSUME NEW i \in 1 .. Len(got'), i < Len(got')
            PROVE  Len(got'[i].data) = got'[i].head.payload_length
        <4>1. i \in 1 .. Len(got) /\ i < Len(got) /\ i # f
          BY <1>2, <1>3, <2>12, <3>1
        <4> QED BY <2>12, <4>1 DEF Finished, Whole
      <3>2. phase' \notin {"start"} \cup InHead
        BY <1>1, <2>9 DEF InHead
      <3> QED BY <3>1, <3>2 DEF Finished, Whole
    <2>15. offset' \in Nat /\ offset' <= pl /\ offset' = Len(d)
      BY <1>3, <1>4, <2>8, <2>9
    <2>16. Reader'
      <3>1. /\ phase' \notin InHead /\ said' = said /\ head' = head /\ Len(got') = f
            /\ got'[f].data = d
        BY <1>1, <1>2, <2>9, <2>11, <2>12 DEF InHead
      <3>2. /\ f \in 1 .. Len(said) /\ said[f].payload_length <= UINT16_MAX
            /\ head.payload_length = said[f].payload_length
            /\ \A j \in 1 .. 4 : head.masking_key[j] = KeyByte(f, j)
        BY <1>1, <1>2 DEF Reader
      <3>3. offset' = Len(got'[f].data) /\ offset' <= head'.payload_length
        BY <1>3, <2>15, <3>1
      <3>4. phase' # "astray"
        BY <1>1, <2>9
      <3> QED BY <3>1, <3>2, <3>3, <3>4, Zenon DEF Reader
    <2>17. Stream'
      <3>1. Reached(start, eaten + n)'
        <4>1. PICK b : b = start[f]
          OBVIOUS
        <4>2. eaten + n = b + (hs + (offset + n))
          <5>1. eaten = b + (hs + offset) /\ b \in Nat
            BY <1>9, <4>1
          <5> QED BY <1>3, <1>4, <1>5, <5>1, SMTT(30)
        <4>3. /\ phase' = "payload" /\ Len(got') = f /\ said' = said /\ offset' = offset + n
              /\ phase' \notin InHead /\ phase' # "start"
          BY <1>1, <1>2, <2>9, <2>12 DEF InHead
        <4>4. eaten + n = start[f] + (HeadSize(said[f]) + (offset + n))
          BY <1>2, <4>1, <4>2
        <4> QED BY <4>3, <4>4 DEF Reached
      <3> QED BY <1>1, <1>4, <1>8, <2>3, <3>1, Took
    <2>18. head' \in [fin : Int, opcode : Int, payload_length : Int, masking_key : Seq(Cell)]
      BY <2>9 DEF Types
    <2> QED BY <1>1, <2>3, <2>9, <2>12, <2>13, <2>14, <2>15, <2>16, <2>17, <2>18, ReaderStep
  <1> QED BY <1>11, <1>12

\* The payload has been read to the end, and the next head is to be read.
LEMMA NextFrameStep ==
  ASSUME Invariant, NextFrame
  PROVE  Invariant'
  <1> USE DEF Invariant
  <1>1. /\ phase = "payload" /\ Remaining = 0 /\ phase' = "start" /\ head' = NoHead
        /\ UNCHANGED <<hdrs, peer, wire, in, offset, got, res>>
    BY DEF NextFrame
  <1>2. PICK f, h : f = Len(got) /\ h = said[f]
    OBVIOUS
  <1>3. /\ f \in 1 .. Len(said) /\ f \in 1 .. Len(got) /\ f \in Nat
        /\ h \in Heads /\ h.payload_length \in Nat
        /\ got[f].head = h /\ offset = Len(got[f].data) /\ offset \in Nat
        /\ Remaining = h.payload_length - offset
    BY <1>1, <1>2, InPayload
  <1>4. offset = h.payload_length
    BY <1>1, <1>3
  <1>5. \A i \in 1 .. Len(got) : Whole(i)
    <2>1. Whole(f)
      BY <1>3, <1>4 DEF Whole
    <2>2. \A i \in 1 .. Len(got) : i # f => Whole(i)
      BY <1>2, <1>3 DEF Finished
    <2> QED BY <2>1, <2>2
  <1>6. Finished'
    BY <1>1, <1>5 DEF Finished, Whole
  <1>7. Reader'
    BY <1>1 DEF Reader, InHead
  <1>8. FramesMatch'
    BY <1>1 DEF FramesMatch
  <1>9. Stream'
    <2>1. PICK start : \E eaten \in Nat : Laid(start, eaten) /\ Reached(start, eaten)
      BY <1>1 DEF Stream, Following
    <2>2. PICK eaten \in Nat : Laid(start, eaten) /\ Reached(start, eaten)
      BY <2>1
    <2>3. Laid(start, eaten)'
      BY <1>1, <2>2, StreamSame DEF Ahead
    <2>4. eaten = start[f] + (HeadSize(h) + h.payload_length)
      BY <1>1, <1>2, <1>4, <2>2 DEF Reached
    <2>5. start[f + 1] = start[f] + FrameSize(said[f])
      BY <1>3, <2>2, Starts
    <2>6. eaten = start[f + 1]
      BY <1>2, <2>4, <2>5 DEF FrameSize
    <2>7. f <= Len(said)
      BY <1>3
    <2>8. Reached(start, eaten)'
      BY <1>1, <1>2, <2>6, <2>7 DEF Reached, InHead
    <2> QED BY <2>2, <2>3, <2>8 DEF Stream
  <1>10. /\ in' \in Seq(Cell) /\ wire' \in Seq(Cell) /\ offset' \in Nat
         /\ got' \in Seq([head : [fin : Int, opcode : Int, payload_length : Int],
                          data : Seq(Cell)])
         /\ head' \in [fin : Int, opcode : Int, payload_length : Int, masking_key : Seq(Cell)]
    BY <1>1, EmptySeq DEF Types, NoHead
  <1> QED BY <1>1, <1>6, <1>7, <1>8, <1>9, <1>10, ReaderStep

\* A call of a reader that is out of step.
LEMMA AstrayStep ==
  ASSUME Invariant, NEW n \in 1 .. (MaxIn + 1), ReadAstray(n)
  PROVE  Invariant'
  <1> USE DEF Invariant
  <1>1. /\ phase = "astray" /\ n \in Nat /\ OutOfStep /\ UNCHANGED <<hdrs, peer>>
        /\ Needs(n, AstrayWith)
    BY Params DEF ReadAstray, Reader
  <1>2. PICK x \in law_htc_ensure_input(n) :
          /\ wire' = x.wire
          /\ \/ /\ x.res = "OK"
                /\ in' = SubSeq(x.in, n + 1, Len(x.in)) /\ AstrayWith(SubSeq(x.in, 1, n))
             \/ /\ x.res = "WANTR"
                /\ in' = x.in /\ UNCHANGED <<phase, reader, res>>
             \/ /\ x.res \notin {"OK", "WANTR"}
                /\ in' = x.in /\ phase' = "failed" /\ res' = x.res /\ UNCHANGED reader
    BY <1>1 DEF Needs
  <1>3. UNCHANGED reader
    BY <1>2 DEF AstrayWith
  <1>4. in' \in Seq(Cell) /\ wire' \in Seq(Cell)
    <2>1. x.in \in Seq(Cell) /\ x.wire \in Seq(Cell)
      BY <1>1, EnsureInput
    <2>2. CASE x.res = "OK"
      BY <1>1, <1>2, <2>2, TakeBytes
    <2>3. CASE x.res # "OK"
      BY <1>2, <2>1, <2>3
    <2> QED BY <2>2, <2>3
  <1>5. \/ UNCHANGED <<phase, res>>
        \/ phase' = "failed"
    BY <1>2 DEF AstrayWith
  <1>6. CASE phase' = "failed"
    BY <1>1, <1>3, <1>4, <1>6, FailedStep
  <1>7. CASE UNCHANGED <<phase, res>>
    <2>1. Done' = Done /\ (OutOfStep' <=> OutOfStep)
      BY <1>1, <1>3 DEF Done, OutOfStep
    <2>2. Types' /\ Peer'
      BY <1>1, <1>3, <1>4, <1>7 DEF Types, Peer
    <2>3. Reader' /\ Stream' /\ Finished' /\ FramesMatch'
      BY <1>1, <1>3, <1>7, <2>1 DEF Reader, Stream, Following, InHead, Finished, Whole, FramesMatch
    <2>4. Upgraded'
      BY <1>1, <1>7 DEF Upgraded, IsUpgrade, First
    <2>5. Refused' /\ RefusedWhenCrowded'
      BY <1>1, <1>7, <2>1 DEF Refused, RefusedWhenCrowded
    <2> QED BY <2>2, <2>3, <2>4, <2>5
  <1> QED BY <1>5, <1>6, <1>7

\* A step that changes nothing.
LEMMA StutterStep ==
  ASSUME Invariant, UNCHANGED vars
  PROVE  Invariant'
  <1>1. /\ UNCHANGED <<hdrs, said, written, woffset, shut, wire, in, phase>>
        /\ UNCHANGED <<head, offset, got, res>>
    BY DEF vars
  <1>2. Done' = Done /\ (OutOfStep' <=> OutOfStep)
    BY <1>1 DEF Done, OutOfStep
  <1>3. Types' /\ Peer' /\ Reader' /\ Finished' /\ FramesMatch'
    BY <1>1 DEF Invariant, Types, Peer, Reader, OutOfStep, Finished, Whole, FramesMatch
  <1>4. Upgraded'
    BY <1>1 DEF Invariant, Upgraded, IsUpgrade, First
  <1>5. Refused' /\ RefusedWhenCrowded'
    BY <1>1, <1>2 DEF Invariant, Refused, RefusedWhenCrowded
  <1>6. Stream'
    <2> SUFFICES ASSUME Following' PROVE Stream'
      BY DEF Stream
    <2>1. PICK start : \E eaten \in Nat : Laid(start, eaten) /\ Reached(start, eaten)
      BY <1>1 DEF Invariant, Stream, Following
    <2>2. PICK eaten \in Nat : Laid(start, eaten) /\ Reached(start, eaten)
      BY <2>1
    <2>3. Ahead' = Ahead
      BY <1>1 DEF Ahead
    <2>4. Laid(start, eaten)' /\ Reached(start, eaten)'
      BY <1>1, <2>2, <2>3, StreamSame DEF Reached, InHead
    <2> QED BY <2>4 DEF Stream
  <1> QED BY <1>3, <1>4, <1>5, <1>6 DEF Invariant

-----------------------------------------------------------------------------
(* The theorems *)

\* Every step of the peer and of the reader preserves the invariant.
LEMMA InvariantNext ==
  ASSUME Invariant, [Next]_vars
  PROVE  Invariant'
  <1>1. CASE law_ws_accept
    BY <1>1, AcceptStep
  <1>2. CASE \E h \in Heads : law_ws_write_head(h)
    BY <1>2, WriteHeadStep
  <1>3. CASE \E n \in 1 .. Max(Lengths) : Write(n)
    BY <1>3, WriteStep
  <1>4. CASE Shut
    BY <1>4, ShutStep
  <1>5. CASE law_ws_read_head
    BY <1>5, StartStep, SmallStep, MediumStep, LargeStep DEF law_ws_read_head
  <1>6. CASE \E n \in 1 .. Max(Lengths) : ReadPayload(n)
    BY <1>6, PayloadStep
  <1>7. CASE NextFrame
    BY <1>7, NextFrameStep
  <1>8. CASE Ended \/ UNCHANGED vars
    BY <1>8, StutterStep DEF Ended
  <1>9. CASE \E n \in 1 .. (MaxIn + 1) : ReadAstray(n)
    BY <1>9, AstrayStep
  <1> QED BY <1>1, <1>2, <1>3, <1>4, <1>5, <1>6, <1>7, <1>8, <1>9 DEF Next

\* The reader is always where a frame begins, or where the head it has begun
\* says that it is (law_ws_read_head, law_htc_ensure_input), until it is out
\* of step behind a large head, or the connection has ended.
THEOREM InvariantAlways == Spec => []Invariant
  <1>1. Init => Invariant
    BY InvariantInit
  <1>2. Invariant /\ [Next]_vars => Invariant'
    BY InvariantNext
  <1> QED BY <1>1, <1>2, PTL DEF Spec

\* The frames that are read are those that were written, their payload
\* unmasked (law_ws_write_head, law_ws_read_head, law_ws_xor_apply), up to
\* and without the length of the first head whose length does not fit in 16
\* bits, and only after a request to upgrade (law_ws_accept).
THEOREM FramesAgreeCorrect == Spec => []FramesAgree
  <1>1. FramesMatch /\ Upgraded => FramesAgree
    BY DEF FramesMatch, Upgraded, IsUpgrade, FramesAgree
  <1>2. Invariant => FramesAgree
    BY <1>1 DEF Invariant
  <1> QED BY <1>2, InvariantAlways, PTL

\* A frame is refused as too large only if it has more than half the size of
\* the buffer or another one follows it (law_htc_ensure_input), as long as
\* the reader is in step with the frames.
THEOREM RefusedWhenCrowdedCorrect == Spec => []RefusedWhenCrowded
  <1>1. Invariant => RefusedWhenCrowded
    BY DEF Invariant
  <1> QED BY <1>1, InvariantAlways, PTL
=============================================================================
