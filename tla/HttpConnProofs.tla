---------------------------- MODULE HttpConnProofs ----------------------------
(***************************************************************************)
(* Proofs about module HttpConn, for every text a client may send, every   *)
(* size of the two buffers and of the socket, and every way the socket     *)
(* cuts the streams into pieces.                                           *)
(***************************************************************************)
EXTENDS HttpConn, WellFoundedInduction, TLAPS

USE DEF input, output

-----------------------------------------------------------------------------
(* The inductive invariant *)

\* What a call counts on when it is repeated: how much was asked for, and
\* that the element of the input begins at the offset of the buffer.
Asked ==
  /\ phase \in Scanning => need = 0
  /\ phase = "body" => need \in 1 .. MaxIn /\ base = tell
  /\ phase = "respond" => oend + need <= MaxReply

\* Behind what law_htc_read_scan has passed over no delimiter begins: it has
\* seen a byte that contradicts it.
Passed(d) ==
  \A p \in base .. (tell - 1) : \E i \in 1 .. Len(d) : p + i <= end /\ text[p + i] # d[i]

Scanned == phase \in Scanning => Passed(Delim[phase])

Invariant ==
  /\ TypeOK
  /\ Asked
  /\ InputIntact
  /\ OutputIntact
  /\ Scanned
  /\ NoMissedElement

-----------------------------------------------------------------------------
(* Numbers *)

\* A set of naturals has a least element.
LEMMA NatMin ==
  ASSUME NEW S \in SUBSET Nat, S # {}
  PROVE  \E x \in S : \A y \in S : x <= y
  <1> DEFINE R == OpToRel(<, Nat)
  <1>1. IsWellFoundedOn(R, Nat)
    BY NatLessThanWellFounded, Zenon
  <1>2. \A x, y \in Nat : <<y, x>> \in R <=> y < x
    BY DEF OpToRel
  <1> HIDE DEF R
  <1>3. PICK x \in S : \A y \in S : ~(<<y, x>> \in R)
    BY <1>1, WFMin
  <1>4. ASSUME NEW y \in S PROVE x <= y
    <2>1. x \in Nat /\ y \in Nat
      OBVIOUS
    <2>2. ~(y < x)
      BY <1>2, <1>3, <2>1
    <2> QED BY <2>1, <2>2
  <1> QED BY <1>4

LEMMA MinOf ==
  ASSUME NEW S \in SUBSET Nat, S # {}
  PROVE  Min(S) \in S /\ \A y \in S : Min(S) <= y
  <1>1. \E x \in S : \A y \in S : x <= y
    BY NatMin
  <1> QED BY <1>1, Zenon DEF Min

LEMMA MinOfTwo ==
  ASSUME NEW a \in Nat, NEW b \in Nat
  PROVE  Min({a, b}) \in Nat /\ Min({a, b}) <= a /\ Min({a, b}) <= b
  <1> DEFINE S == {a, b}
  <1>1. S \in SUBSET Nat /\ S # {} /\ a \in S /\ b \in S
    OBVIOUS
  <1>2. \A x \in S : x \in Nat
    BY <1>1
  <1> HIDE DEF S
  <1>3. Min(S) \in S /\ \A y \in S : Min(S) <= y
    BY <1>1, MinOf
  <1>4. Min(S) \in Nat /\ Min(S) <= a /\ Min(S) <= b
    BY <1>1, <1>2, <1>3
  <1> QED BY <1>4 DEF S

LEMMA MaxOf ==
  ASSUME NEW a \in Nat, NEW n \in Nat, NEW S \in SUBSET (a .. (a + n)), S # {}
  PROVE  Max(S) \in S
  <1> DEFINE D == {a + n - x : x \in S}
  <1>1. D \in SUBSET Nat /\ D # {}
    <2>1. \A x \in S : x \in Nat /\ a + n - x \in Nat
      OBVIOUS
    <2> QED BY <2>1
  <1>2. PICK d \in D : \A y \in D : d <= y
    BY <1>1, NatMin
  <1>3. PICK x \in S : d = a + n - x
    BY <1>2
  <1>4. \A y \in S : x >= y
    BY <1>2, <1>3
  <1> QED BY <1>3, <1>4, Zenon DEF Max

LEMMA CellRange ==
  ASSUME NEW max \in Nat \ {0}, NEW p \in Nat
  PROVE  p % max \in 0 .. (max - 1)
  OBVIOUS

\* Positions that share a cell of a ring of `max` cells are `max` apart.
LEMMA Apart ==
  ASSUME NEW max \in Nat \ {0}, NEW p \in Nat, NEW q \in Nat,
         p % max = q % max, p < q
  PROVE  q - p >= max
  OBVIOUS

-----------------------------------------------------------------------------
(* The ring buffer *)

\* n bytes are stored from position e on, in a ring that has room for them
\* and for what it keeps from position lo on: all of these are in their
\* cells then.
LEMMA StoredKeeps ==
  ASSUME NEW max \in Nat \ {0}, NEW lo \in Nat, NEW e \in Nat, NEW n \in Nat,
         lo <= e, e + n - lo <= max, NEW r,
         \A p \in lo .. (e - 1) : r[p % max] = p
  PROVE  \A p \in lo .. (e + n - 1) : Stored(r, max, e, n)[p % max] = p
  <1> SUFFICES ASSUME NEW p \in lo .. (e + n - 1)
               PROVE  Stored(r, max, e, n)[p % max] = p
    OBVIOUS
  <1> DEFINE new == {q \in e .. (e + n - 1) : q % max = p % max}
  <1>1. p \in Nat /\ p % max \in 0 .. (max - 1)
    <2>1. p \in Nat
      OBVIOUS
    <2> QED BY <2>1, CellRange, Zenon
  <1>2. Stored(r, max, e, n)[p % max] = IF new = {} THEN r[p % max] ELSE Max(new)
    BY <1>1 DEF Stored
  <1>3. \A q \in new : q = p
    <2> SUFFICES ASSUME NEW q \in new, q # p PROVE FALSE
      OBVIOUS
    <2>1. q \in Nat /\ q % max = p % max
      OBVIOUS
    <2>2. q - p < max /\ p - q < max
      BY <1>1
    <2>3. p < q => q - p >= max
      BY <1>1, <2>1, Apart, Zenon
    <2>4. q < p => p - q >= max
      BY <1>1, <2>1, Apart, Zenon
    <2> QED BY <1>1, <2>1, <2>2, <2>3, <2>4
  <1>4. CASE p < e
    <2>1. p \notin new
      BY <1>4
    <2>2. new = {}
      BY <1>3, <2>1
    <2> QED BY <1>2, <1>4, <2>2
  <1>5. CASE p >= e
    <2>1. p \in new
      BY <1>5
    <2>2. Max(new) \in new
      <3>1. new # {}
        BY <2>1
      <3>2. \A q \in new : q \in e .. (e + n)
        OBVIOUS
      <3> HIDE DEF new
      <3> QED BY <3>1, <3>2, MaxOf
    <2> QED BY <1>2, <1>3, <2>1, <2>2
  <1> QED BY <1>1, <1>4, <1>5

\* What the cells hold afterwards.
LEMMA StoredType ==
  ASSUME NEW max \in Nat \ {0}, NEW e \in Nat, NEW n \in Nat, NEW last \in Int,
         e + n <= last + 1,
         NEW r \in [0 .. (max - 1) -> -1 .. last]
  PROVE  Stored(r, max, e, n) \in [0 .. (max - 1) -> -1 .. last]
  <1> SUFFICES ASSUME NEW c \in 0 .. (max - 1)
               PROVE  (LET new == {p \in e .. (e + n - 1) : p % max = c}
                       IN  IF new = {} THEN r[c] ELSE Max(new)) \in -1 .. last
    BY DEF Stored
  <1> DEFINE new == {p \in e .. (e + n - 1) : p % max = c}
  <1>1. CASE new = {}
    BY <1>1
  <1>2. CASE new # {}
    <2>1. new \in SUBSET (e .. (e + n))
      OBVIOUS
    <2>2. Max(new) \in new
      <3> HIDE DEF new
      <3> QED BY <1>2, <2>1, MaxOf
    <2>3. Max(new) \in -1 .. last
      BY <2>2
    <2> QED BY <1>2, <2>3
  <1> QED BY <1>1, <1>2

-----------------------------------------------------------------------------
(* The scan *)

\* The scan in a ring r compares bytes of what the client sends.
Reads(r, lo, e, d) ==
  \A p \in lo .. e :
    Begins(r, p, e, d) <=> \A i \in 1 .. Len(d) : p + i <= e => text[p + i] = d[i]

\* In a ring r that holds the positions lo .. e - 1 it does.
LEMMA BeginsText ==
  ASSUME NEW lo \in Nat, NEW e \in Nat, NEW r, NEW d, Len(d) \in Nat,
         \A p \in lo .. (e - 1) : r[p % MaxIn] = p
  PROVE  Reads(r, lo, e, d)
  <1>1. ASSUME NEW p \in lo .. e, NEW i \in 1 .. Len(d), p + i <= e
        PROVE  Byte(r, p + i - 1) = text[p + i]
    <2>1. p + i - 1 \in lo .. (e - 1)
      BY <1>1
    <2>2. r[(p + i - 1) % MaxIn] = p + i - 1
      BY <2>1, Zenon
    <2>3. r[(p + i - 1) % MaxIn] + 1 = p + i
      <3> DEFINE c == r[(p + i - 1) % MaxIn]
      <3>1. c = p + i - 1
        BY <2>2
      <3> HIDE DEF c
      <3>2. c + 1 = p + i
        BY <3>1
      <3> QED BY <3>2 DEF c
    <2> QED BY <2>3 DEF Byte
  <1> QED BY <1>1 DEF Begins, Reads

\* Where the delimiter d, or no more than a part of it, may begin.
Refuted(p, e, d) == \E i \in 1 .. Len(d) : p + i <= e /\ text[p + i] # d[i]
Matched(p, d) == \A i \in 1 .. Len(d) : text[p + i] = d[i]

\* The delimiter is in the buffer: the scan stops behind the first one.
LEMMA ScanFound ==
  ASSUME NEW lo \in Nat, NEW e \in Nat, NEW from \in lo .. e, NEW r, NEW d, Len(d) \in Nat,
         Reads(r, lo, e, d),
         Hits(r, from, e, d) # {}
  PROVE  \E h \in from .. (e - Len(d)) :
           /\ pgc_buf_scan(r, from, e, d) = h + Len(d)
           /\ Matched(h, d)
           /\ \A p \in from .. (h - 1) : Refuted(p, e, d)
  <1> DEFINE H == Hits(r, from, e, d)
             h == Min(H)
  <1>1. H = {p \in from .. (e - Len(d)) : Begins(r, p, e, d)}
    BY DEF Hits
  <1>2. h \in H /\ \A y \in H : h <= y
    <2>1. H \in SUBSET Nat
      BY <1>1
    <2> HIDE DEF H
    <2> QED BY <2>1, MinOf DEF H
  <1>3. pgc_buf_scan(r, from, e, d) = h + Len(d)
    BY DEF pgc_buf_scan
  <1>4. \A p \in lo .. e :
           Begins(r, p, e, d) <=> \A i \in 1 .. Len(d) : p + i <= e => text[p + i] = d[i]
    BY DEF Reads
  <1>5. h \in from .. (e - Len(d)) /\ Begins(r, h, e, d)
    BY <1>1, <1>2
  <1>6. Matched(h, d)
    <2>1. h \in lo .. e /\ \A i \in 1 .. Len(d) : h + i <= e
      BY <1>5
    <2> HIDE DEF h
    <2> QED BY <1>4, <1>5, <2>1 DEF Matched
  <1>7. \A p \in from .. (h - 1) : Refuted(p, e, d)
    <2> SUFFICES ASSUME NEW p \in from .. (h - 1), ~Refuted(p, e, d) PROVE FALSE
      OBVIOUS
    <2> HIDE DEF h, H
    <2>1. p \in lo .. e /\ p \in from .. (e - Len(d)) /\ ~(h <= p)
      BY <1>5
    <2>2. Begins(r, p, e, d)
      BY <1>4, <2>1 DEF Refuted
    <2>3. p \in H
      BY <1>1, <2>1, <2>2
    <2> QED BY <1>2, <2>1, <2>3
  <1> HIDE DEF H, h
  <1>8. h \in from .. (e - Len(d))
    BY <1>5
  <1> QED BY <1>3, <1>6, <1>7, <1>8

\* It is not: the scan stops where its beginning may be.
LEMMA ScanMissed ==
  ASSUME NEW lo \in Nat, NEW e \in Nat, NEW from \in lo .. e, NEW r, NEW d, Len(d) \in Nat,
         Reads(r, lo, e, d),
         Hits(r, from, e, d) = {}
  PROVE  /\ pgc_buf_scan(r, from, e, d) \in from .. e
         /\ \A p \in from .. (pgc_buf_scan(r, from, e, d) - 1) : Refuted(p, e, d)
         /\ \A p \in from .. (e - Len(d)) : ~Matched(p, d)
  <1> DEFINE P == {p \in from .. e : Begins(r, p, e, d)}
             h == Min(P)
  <1>1. \A p \in lo .. e :
           Begins(r, p, e, d) <=> \A i \in 1 .. Len(d) : p + i <= e => text[p + i] = d[i]
    BY DEF Reads
  <1>2. e \in P
    BY <1>1
  <1>3. h \in P /\ \A y \in P : h <= y
    <2>1. P \in SUBSET Nat /\ P # {}
      BY <1>2
    <2> HIDE DEF P
    <2> QED BY <2>1, MinOf DEF P
  <1>4. pgc_buf_scan(r, from, e, d) = h
    BY DEF pgc_buf_scan
  <1>5. \A p \in from .. (h - 1) : Refuted(p, e, d)
    <2> SUFFICES ASSUME NEW p \in from .. (h - 1), ~Refuted(p, e, d) PROVE FALSE
      OBVIOUS
    <2> HIDE DEF h
    <2>1. p \in lo .. e /\ p \in from .. e /\ ~(h <= p)
      BY <1>3
    <2>2. Begins(r, p, e, d)
      BY <1>1, <2>1 DEF Refuted
    <2>3. p \in P
      BY <2>1, <2>2
    <2> QED BY <1>3, <2>1, <2>3
  <1>6. \A p \in from .. (e - Len(d)) : ~Matched(p, d)
    <2> SUFFICES ASSUME NEW p \in from .. (e - Len(d)), Matched(p, d) PROVE FALSE
      OBVIOUS
    <2>1. p \in lo .. e
      OBVIOUS
    <2>2. \A i \in 1 .. Len(d) : p + i <= e => text[p + i] = d[i]
      BY DEF Matched
    <2>3. Begins(r, p, e, d)
      BY <1>1, <2>1, <2>2
    <2>4. p \in Hits(r, from, e, d)
      BY <2>3 DEF Hits
    <2> QED BY <2>4
  <1> HIDE DEF h, P
  <1>7. h \in from .. e
    BY <1>3 DEF P
  <1> QED BY <1>4, <1>5, <1>6, <1>7

-----------------------------------------------------------------------------
(* Reads *)

Code == {"OK", "ERR", "OOB", "EOF", "WANTR", "WANTW"}

\* Numbers, out of the type invariant.
LEMMA Numbers ==
  ASSUME TypeOK
  PROVE  /\ MaxIn \in Nat \ {0} /\ MaxOut \in Nat \ {0} /\ Room \in Nat \ {0}
         /\ MaxReply \in Nat \ {0}
         /\ Len(text) \in Nat /\ sent \in Nat /\ sent <= Len(text)
         /\ end \in Int /\ base \in Nat /\ base <= end /\ end \in Nat
         /\ oend \in Nat /\ otell \in Nat /\ otell <= oend /\ need \in Nat
  <1>1. text \in Seq({"cr", "lf", "x"})
    BY ConnAssumption DEF TypeOK
  <1>2. Len(text) \in Nat
    BY <1>1
  <1>3. sent \in Nat /\ sent <= Len(text)
    BY <1>2 DEF TypeOK
  <1>4. MaxIn \in Nat \ {0} /\ MaxOut \in Nat \ {0} /\ Room \in Nat \ {0}
         /\ MaxReply \in Nat \ {0}
    BY ConnAssumption
  <1> QED BY <1>2, <1>3, <1>4 DEF TypeOK

\* The numbers in this module.
LEMMA ReadData ==
  ASSUME NEW lo \in Nat, lo <= end, end - lo <= MaxIn, MaxIn \in Nat,
         end \in Nat, sent \in Nat, end <= sent,
         NEW x \in law_htc_read_data(lo)
  PROVE  /\ x[1] \in Code /\ x[2] \in Nat
         /\ end + x[2] <= sent /\ end + x[2] - lo <= MaxIn
         /\ x[1] = "OOB" => end - lo = MaxIn
         /\ x[1] = "EOF" => end = sent
         /\ x[1] # "OK" => x[2] = 0
  <1>1. CASE Avail(lo) = 0
    <2>1. x = <<"OOB", 0>>
      BY <1>1 DEF law_htc_read_data
    <2> QED BY <1>1, <2>1 DEF Avail, Code
  <1>2. CASE Avail(lo) # 0
    <2> DEFINE most == Min({Avail(lo), sent - end})
    <2>1. Avail(lo) \in Nat /\ sent - end \in Nat
      BY DEF Avail
    <2>2. most \in Nat /\ most <= Avail(lo) /\ most <= sent - end
      BY <2>1, MinOfTwo
    <2> HIDE DEF most
    <2>3. \/ x = <<"ERR", 0>>
          \/ \E n \in 1 .. most : x = <<"OK", n>>
          \/ ~(sent > end) /\ x \in {<<"EOF", 0>>, <<"WANTR", 0>>, <<"WANTW", 0>>}
      <3>1. law_htc_read_data(lo) =
              {<<"ERR", 0>>}
              \cup {<<"OK", n>> : n \in 1 .. most}
              \cup (IF sent > end THEN {}
                    ELSE IF shut THEN {<<"EOF", 0>>} ELSE {<<"WANTR", 0>>, <<"WANTW", 0>>})
        BY <1>2, Zenon DEF law_htc_read_data, most
      <3> QED BY <3>1, Zenon
    <2>4. CASE \E n \in 1 .. most : x = <<"OK", n>>
      BY <2>1, <2>2, <2>4 DEF Avail, Code
    <2> QED BY <2>1, <2>3, <2>4 DEF Code
  <1> QED BY <1>1, <1>2

\* Delimiters.
LEMMA Delims ==
  ASSUME phase \in Scanning
  PROVE  /\ Len(Delim[phase]) \in Nat \ {0}
         /\ After[phase] # phase /\ After[phase] \in {"headers", "body"}
  BY DEF Scanning, Delim, After

\* The ways a call of law_htc_read_scan ends that looked for d in a buffer
\* that ends at e, and left its offset at t.
FoundIt(d, e, t) ==
  /\ phase' = After[phase] /\ base' = t /\ waiting' = "no" /\ res' = res
  /\ \E h \in tell .. (e - Len(d)) :
       /\ t = h + Len(d) /\ Matched(h, d)
       /\ \A p \in tell .. (h - 1) : Refuted(p, e, d)

MissedIt(d, e, t, r) ==
  /\ r # "ERR" /\ law_sync(NotFound(e, r)) /\ base' = base
  /\ r = "OOB" => e = base + MaxIn
  /\ r = "EOF" => e = sent
  /\ t \in tell .. e
  /\ \A p \in tell .. (t - 1) : Refuted(p, e, d)
  /\ \A p \in tell .. (e - Len(d)) : ~Matched(p, d)

BrokeOff(t) == law_sync("ERR") /\ base' = base /\ t = tell

LEMMA ReadScan ==
  ASSUME Invariant, law_htc_read_scan
  PROVE  \E e \in Nat, t \in Nat :
           /\ end' = e /\ tell' = t /\ end <= e /\ e <= sent /\ e <= base + MaxIn
           /\ ring' \in [0 .. (MaxIn - 1) -> -1 .. (Len(text) - 1)]
           /\ \A p \in base .. (e - 1) : ring'[p % MaxIn] = p
           /\ \/ FoundIt(Delim[phase], e, t)
              \/ \E r \in Code : MissedIt(Delim[phase], e, t, r)
              \/ BrokeOff(t)
  <1> USE DEF Invariant
  <1>0. phase \in Scanning
    BY DEF law_htc_read_scan
  <1> DEFINE d == Delim[phase]
  <1>1. PICK x \in law_htc_read_data(base) :
          LET e == end + x[2]
              r == Stored(ring, MaxIn, end, x[2])
              found == Scans(x[1]) /\ Hits(r, tell, e, d) # {}
          IN  /\ ring' = r /\ end' = e
              /\ IF found
                 THEN /\ tell' = pgc_buf_scan(r, tell, e, d)
                      /\ phase' = After[phase] /\ base' = tell'
                      /\ waiting' = "no" /\ res' = res
                 ELSE /\ tell' = IF Scans(x[1]) THEN Kept(r, e, d) ELSE tell
                      /\ law_sync(IF Scans(x[1]) THEN NotFound(e, x[1]) ELSE x[1])
                      /\ base' = base
    BY Zenon DEF law_htc_read_scan
  <1> DEFINE e == end + x[2]
             r == Stored(ring, MaxIn, end, x[2])
  <1>2. /\ MaxIn \in Nat \ {0} /\ Len(text) \in Nat /\ sent \in Nat /\ sent <= Len(text)
        /\ end \in Nat /\ base \in Nat /\ base <= end /\ end <= sent
        /\ tell \in base .. end /\ end <= base + MaxIn
    BY Numbers DEF InputIntact, TypeOK
  <1>3. /\ x[1] \in Code /\ x[2] \in Nat
        /\ e <= sent /\ e <= base + MaxIn
        /\ x[1] = "OOB" => end = base + MaxIn
        /\ x[1] = "EOF" => end = sent
        /\ x[1] # "OK" => x[2] = 0
    <2>1. end - base <= MaxIn
      BY <1>2
    <2>2. /\ x[1] \in Code /\ x[2] \in Nat
          /\ end + x[2] <= sent /\ end + x[2] - base <= MaxIn
          /\ x[1] = "OOB" => end - base = MaxIn
          /\ x[1] = "EOF" => end = sent
          /\ x[1] # "OK" => x[2] = 0
      BY <1>2, <2>1, ReadData
    <2> QED BY <1>2, <2>2
  <1>4. e \in Nat /\ end <= e /\ tell \in base .. e
    BY <1>2, <1>3
  <1>5. \A p \in base .. (e - 1) : r[p % MaxIn] = p
    <2>1. \A p \in base .. (end - 1) : ring[p % MaxIn] = p
      BY DEF InputIntact
    <2>2. end + x[2] - base <= MaxIn /\ x[2] \in Nat
      BY <1>2, <1>3
    <2>3. \A p \in base .. (end + x[2] - 1) :
            Stored(ring, MaxIn, end, x[2])[p % MaxIn] = p
      BY <1>2, <2>1, <2>2, StoredKeeps, Zenon
    <2>4. end + x[2] - 1 = (end + x[2]) - 1
      BY <1>2, <2>2
    <2> QED BY <2>3, <2>4, Zenon
  <1>6. r \in [0 .. (MaxIn - 1) -> -1 .. (Len(text) - 1)]
    <2>1. ring \in [0 .. (MaxIn - 1) -> -1 .. (Len(text) - 1)]
      BY DEF TypeOK
    <2>2. e <= (Len(text) - 1) + 1 /\ Len(text) - 1 \in Int
      BY <1>2, <1>3, <1>4
    <2> QED BY <1>2, <1>3, <2>1, <2>2, StoredType, Zenon
  <1>7. ring' = r /\ end' = e
    BY <1>1
  <1>8. Len(d) \in Nat
    BY <1>0, Delims
  <1>9. Reads(r, base, e, d)
    <2> HIDE DEF r, e, d
    <2> QED BY <1>2, <1>4, <1>5, <1>8, BeginsText, Zenon
  <1> HIDE DEF r, e, d
  <1>10. SUFFICES \E t \in Nat :
           /\ tell' = t
           /\ \/ FoundIt(d, e, t)
              \/ \E c \in Code : MissedIt(d, e, t, c)
              \/ BrokeOff(t)
    <2>1. end' = e /\ ring' = r /\ e \in Nat /\ end <= e /\ e <= sent /\ e <= base + MaxIn
      BY <1>3, <1>4, <1>7
    <2> QED BY <1>5, <1>6, <2>1, Zenon DEF d
  <1>11. CASE Scans(x[1]) /\ Hits(r, tell, e, d) # {}
    <2>1. /\ tell' = pgc_buf_scan(r, tell, e, d)
          /\ phase' = After[phase] /\ base' = tell' /\ waiting' = "no" /\ res' = res
      BY <1>1, <1>11, Zenon DEF r, e
    <2>2. PICK h \in tell .. (e - Len(d)) :
            /\ pgc_buf_scan(r, tell, e, d) = h + Len(d)
            /\ Matched(h, d)
            /\ \A p \in tell .. (h - 1) : Refuted(p, e, d)
      <3>1. base \in Nat /\ e \in Nat /\ tell \in base .. e /\ Len(d) \in Nat
        BY <1>2, <1>4, <1>8
      <3>2. Hits(r, tell, e, d) # {} /\ Reads(r, base, e, d)
        BY <1>9, <1>11
      <3>3. \E h \in tell .. (e - Len(d)) :
              /\ pgc_buf_scan(r, tell, e, d) = h + Len(d)
              /\ Matched(h, d)
              /\ \A p \in tell .. (h - 1) : Refuted(p, e, d)
        BY <3>1, <3>2, ScanFound
      <3> QED BY <3>3, Zenon
    <2>3. h + Len(d) \in Nat
      BY <1>2, <1>4, <1>8
    <2>4. tell' = h + Len(d)
      BY <2>1, <2>2, Zenon
    <2>5. FoundIt(d, e, h + Len(d))
      BY <2>1, <2>2, <2>4, Zenon DEF FoundIt
    <2> QED BY <2>3, <2>4, <2>5, Zenon
  <1>12. CASE Scans(x[1]) /\ Hits(r, tell, e, d) = {}
    <2> DEFINE t == pgc_buf_scan(r, tell, e, d)
    <2>1. tell' = t /\ law_sync(NotFound(e, x[1])) /\ base' = base
      BY <1>1, <1>12, Zenon DEF r, e, Kept
    <2>2. /\ t \in tell .. e
          /\ \A p \in tell .. (t - 1) : Refuted(p, e, d)
          /\ \A p \in tell .. (e - Len(d)) : ~Matched(p, d)
      BY <1>2, <1>4, <1>8, <1>9, <1>12, ScanMissed, Zenon
    <2> HIDE DEF t
    <2>3. x[1] # "ERR"
      BY <1>12 DEF Scans
    <2>4. (x[1] = "OOB" => e = base + MaxIn) /\ (x[1] = "EOF" => e = sent)
      BY <1>2, <1>3 DEF e
    <2>5. MissedIt(d, e, t, x[1])
      BY <2>1, <2>2, <2>3, <2>4, Zenon DEF MissedIt
    <2>6. t \in Nat
      BY <1>2, <1>4, <2>2
    <2> QED BY <1>3, <2>1, <2>5, <2>6, Zenon
  <1>13. CASE ~Scans(x[1])
    <2>1. tell' = tell /\ law_sync(x[1]) /\ base' = base
      BY <1>1, <1>13, Zenon DEF r, e
    <2>2. x[1] = "ERR"
      BY <1>13 DEF Scans
    <2>3. BrokeOff(tell)
      BY <2>1, <2>2, Zenon DEF BrokeOff
    <2>4. tell \in Nat
      BY <1>2
    <2> QED BY <2>1, <2>3, <2>4, Zenon
  <1> QED BY <1>11, <1>12, <1>13

-----------------------------------------------------------------------------
(* Steps *)

\* law_sync: the call waits, or the request fails.
LEMMA SyncEnds ==
  ASSUME NEW r \in Code, r # "OK", law_sync(r)
  PROVE  \/ /\ r \in {"WANTR", "WANTW"} /\ phase' = phase /\ res' = res
            /\ waiting' \in {"readable", "writable"}
         \/ /\ r \in {"OOB", "EOF", "ERR"} /\ phase' = "failed" /\ res' = r
            /\ waiting' = "no"
  BY DEF law_sync, Code

\* What a step that leaves the input and the call alone keeps.
LEMMA InputKept ==
  ASSUME Invariant, UNCHANGED <<text, base, input>>,
         phase' \in Scanning => phase' = phase /\ waiting' = waiting
  PROVE  InputIntact' /\ Scanned' /\ NoMissedElement'
  <1>1. InputIntact'
    BY Zenon DEF Invariant, InputIntact
  <1>2. Scanned'
    <2> SUFFICES ASSUME phase' \in Scanning PROVE Passed(Delim[phase])'
      BY DEF Scanned
    <2>1. phase' = phase /\ text' = text /\ base' = base /\ tell' = tell /\ end' = end
      OBVIOUS
    <2>2. Passed(Delim[phase])
      BY <2>1 DEF Invariant, Scanned
    <2> QED BY <2>1, <2>2, Zenon DEF Passed
  <1>3. NoMissedElement'
    BY Zenon DEF Invariant, NoMissedElement, Occurs
  <1> QED BY <1>1, <1>2, <1>3

LEMMA OutputKept ==
  ASSUME Invariant, UNCHANGED output
  PROVE  OutputIntact'
  BY Zenon DEF Invariant, OutputIntact

\* Where no occurrence can begin there is none.
LEMMA NoOccurrence ==
  ASSUME NEW d, Len(d) \in Nat, NEW lo \in Nat, NEW from \in Nat, NEW e \in Nat,
         \A p \in lo .. (from - 1) : Refuted(p, e, d),
         \A p \in from .. (e - Len(d)) : ~Matched(p, d)
  PROVE  Occurs(d, lo, e) = {}
  <1> SUFFICES ASSUME NEW o \in Occurs(d, lo, e) PROVE FALSE
    OBVIOUS
  <1> DEFINE p == o - Len(d)
  <1>1. p \in lo .. (e - Len(d))
    BY DEF Occurs
  <1>2. \A i \in 1 .. Len(d) : text[p + i] = d[i]
    BY DEF Occurs
  <1> HIDE DEF p
  <1>3. CASE p < from
    <2>1. Refuted(p, e, d)
      BY <1>1, <1>3
    <2> QED BY <1>2, <2>1 DEF Refuted
  <1>4. CASE p >= from
    <2>1. ~Matched(p, d)
      BY <1>1, <1>4
    <2> QED BY <1>2, <2>1 DEF Matched
  <1> QED BY <1>1, <1>3, <1>4

\* law_htc_read_scan.
LEMMA ReadScanStep ==
  ASSUME Invariant, law_htc_read_scan
  PROVE  Invariant'
  <1> USE DEF Invariant
  <1> DEFINE d == Delim[phase]
  <1>0. /\ phase \in Scanning
        /\ need' = IF phase' = "body" THEN 1 ELSE need
        /\ UNCHANGED <<text, sent, shut, output, room>>
    BY DEF law_htc_read_scan
  <1>1. /\ MaxIn \in Nat \ {0}
        /\ end \in Nat /\ base \in Nat /\ base <= end /\ end <= sent
        /\ tell \in base .. end /\ end <= base + MaxIn /\ sent \in Nat
        /\ Len(d) \in Nat \ {0} /\ After[phase] \in {"headers", "body"}
        /\ need = 0
    BY <1>0, Numbers, Delims DEF InputIntact, TypeOK, Asked
  <1>2. PICK e \in Nat, t \in Nat :
          /\ end' = e /\ tell' = t /\ end <= e /\ e <= sent /\ e <= base + MaxIn
          /\ ring' \in [0 .. (MaxIn - 1) -> -1 .. (Len(text) - 1)]
          /\ \A p \in base .. (e - 1) : ring'[p % MaxIn] = p
          /\ \/ FoundIt(d, e, t)
             \/ \E r \in Code : MissedIt(d, e, t, r)
             \/ BrokeOff(t)
    BY ReadScan, Zenon
  <1>3. Passed(d)
    BY <1>0 DEF Scanned
  <1> HIDE DEF d
  <1>4. OutputIntact'
    BY <1>0, OutputKept
  <1>5. ASSUME NEW b \in base .. e, base' = b, t \in b .. e
        PROVE  InputIntact'
    <2>1. t \in b .. e /\ e <= b + MaxIn
      BY <1>1, <1>2, <1>5
    <2>2. \A p \in b .. (e - 1) : p \in base .. (e - 1)
      BY <1>1, <1>5
    <2>3. \A p \in b .. (e - 1) : ring'[p % MaxIn] = p
      BY <1>2, <2>2, Zenon
    <2>4. end' = e /\ tell' = t /\ base' = b
      BY <1>2, <1>5
    <2> QED BY <2>1, <2>3, <2>4, Zenon DEF InputIntact
  <1>6. ASSUME NEW b \in base .. e, base' = b,
               phase' \in Scanning \cup {"body", "failed"}, phase' = "body" => b = t,
               waiting' \in {"no", "readable", "writable"},
               res' \in {"OK", "OOB", "EOF", "ERR", "TIME"}
        PROVE  TypeOK' /\ Asked'
    <2>1. base' \in 0 .. end' /\ end' \in 0 .. sent'
      <3>1. b \in 0 .. e /\ e \in 0 .. sent
        BY <1>1, <1>2, <1>6
      <3>2. base' = b /\ end' = e /\ sent' = sent
        BY <1>0, <1>2, <1>6
      <3> QED BY <3>1, <3>2, Zenon
    <2>2. need' \in Nat /\ (phase' = "body" => need' \in 1 .. MaxIn)
      BY <1>0, <1>1
    <2>3. phase' \in Scanning => need' = 0
      BY <1>0, <1>1 DEF Scanning
    <2>4. phase' # "respond"
      BY <1>6 DEF Scanning
    <2>5. phase' = "body" => base' = tell'
      BY <1>2, <1>6
    <2>6. /\ text' \in Texts /\ sent' \in 0 .. Len(text') /\ shut' \in BOOLEAN
          /\ ring' \in [0 .. (MaxIn - 1) -> -1 .. (Len(text') - 1)]
          /\ oring' \in [0 .. (MaxOut - 1) -> -1 .. (MaxReply - 1)]
          /\ oend' \in 0 .. MaxReply /\ otell' \in 0 .. oend' /\ room' \in 0 .. Room
      BY <1>0, <1>2, Zenon DEF TypeOK
    <2>7. phase' \in Scanning \cup {"body", "respond", "flush", "done", "failed"}
      BY <1>6
    <2>8. TypeOK'
      BY <1>6, <2>1, <2>2, <2>6, <2>7, Zenon DEF TypeOK
    <2> QED BY <2>2, <2>3, <2>4, <2>5, <2>8 DEF Asked
  <1>7. res \in {"OK", "OOB", "EOF", "ERR", "TIME"}
    BY DEF TypeOK
  <1>8. CASE FoundIt(d, e, t)
    <2>1. PICK h \in tell .. (e - Len(d)) : t = h + Len(d)
      BY <1>8 DEF FoundIt
    <2>2. t \in base .. e /\ t \in t .. e
      BY <1>1, <1>2, <2>1
    <2>3. base' = t /\ waiting' = "no" /\ res' = res /\ phase' = After[phase]
      BY <1>8 DEF FoundIt
    <2>4. InputIntact'
      BY <1>5, <2>2, <2>3
    <2>5. TypeOK' /\ Asked'
      BY <1>1, <1>6, <1>7, <2>2, <2>3 DEF Scanning
    <2>6. Scanned'
      <3>1. \A p \in t .. (t - 1) : FALSE
        OBVIOUS
      <3>2. base' = t /\ tell' = t
        BY <1>2, <2>3
      <3> QED BY <3>1, <3>2, Zenon DEF Scanned, Passed
    <2>7. NoMissedElement'
      BY <2>3 DEF NoMissedElement
    <2> QED BY <1>4, <2>4, <2>5, <2>6, <2>7
  <1>9. CASE \E r \in Code : MissedIt(d, e, t, r)
    <2>1. PICK r \in Code : MissedIt(d, e, t, r)
      BY <1>9
    <2>2. NotFound(e, r) \in Code \ {"OK", "ERR"}
      BY <2>1 DEF NotFound, Code, MissedIt
    <2>3. /\ base' = base /\ t \in tell .. e
          /\ \A p \in tell .. (t - 1) : Refuted(p, e, d)
          /\ \A p \in tell .. (e - Len(d)) : ~Matched(p, d)
      BY <2>1, Zenon DEF MissedIt
    <2>4. \/ phase' = phase /\ res' = res /\ waiting' \in {"readable", "writable"}
          \/ phase' = "failed" /\ res' \in {"OOB", "EOF", "ERR"} /\ waiting' = "no"
      <3>1. law_sync(NotFound(e, r))
        BY <2>1 DEF MissedIt
      <3> QED BY <2>2, <3>1, SyncEnds
    <2>5. base \in base .. e /\ t \in base .. e /\ tell \in Nat
      BY <1>1, <1>2, <2>3
    <2>6. InputIntact'
      BY <1>5, <2>3, <2>5
    <2>7. TypeOK' /\ Asked'
      BY <1>0, <1>6, <1>7, <2>3, <2>4, <2>5 DEF Scanning
    <2>8. \A p \in base .. (tell - 1) : Refuted(p, e, d)
      <3> SUFFICES ASSUME NEW p \in base .. (tell - 1) PROVE Refuted(p, e, d)
        OBVIOUS
      <3>1. PICK i \in 1 .. Len(d) : p + i <= end /\ text[p + i] # d[i]
        BY <1>3 DEF Passed
      <3>2. end \in Nat /\ e \in Nat /\ end <= e /\ p \in Int /\ i \in Int
        BY <1>1, <1>2, <2>5
      <3>3. p + i <= e
        BY <3>1, <3>2
      <3>4. \E j \in 1 .. Len(d) : p + j <= e /\ text[p + j] # d[j]
        BY <3>1, <3>3, Zenon
      <3> QED BY <3>4, Zenon DEF Refuted
    <2>9. \A p \in base .. (t - 1) : Refuted(p, e, d)
      BY <1>1, <2>3, <2>5, <2>8
    <2>10. phase' \in Scanning => Delim[phase'] = d
      BY <2>4, Zenon DEF Scanning, d
    <2>11. text' = text /\ base' = base /\ end' = e /\ tell' = t
      BY <1>0, <1>2, <2>3
    <2>12. Scanned'
      <3> SUFFICES ASSUME phase' \in Scanning PROVE Passed(Delim[phase])'
        BY DEF Scanned
      <3> QED BY <2>9, <2>10, <2>11, Zenon DEF Passed, Refuted
    <2>13. Occurs(d, base, e) = {}
      BY <1>1, <2>3, <2>5, <2>8, NoOccurrence
    <2>14. NoMissedElement'
      <3> SUFFICES ASSUME phase' \in Scanning PROVE (Occurs(Delim[phase], base, end) = {})'
        BY DEF NoMissedElement
      <3> QED BY <2>10, <2>11, <2>13, Zenon DEF Occurs
    <2> QED BY <1>4, <2>6, <2>7, <2>12, <2>14
  <1>10. CASE BrokeOff(t)
    <2>1. phase' = "failed" /\ res' = "ERR" /\ waiting' = "no" /\ base' = base /\ t = tell
      BY <1>10, SyncEnds DEF BrokeOff, Code
    <2>2. base \in base .. e /\ t \in base .. e
      BY <1>1, <1>2, <2>1
    <2>3. InputIntact'
      BY <1>5, <2>1, <2>2
    <2>4. TypeOK' /\ Asked'
      BY <1>6, <2>1, <2>2 DEF Scanning
    <2>5. Scanned' /\ NoMissedElement'
      BY <2>1 DEF Scanned, NoMissedElement, Scanning
    <2> QED BY <1>4, <2>3, <2>4, <2>5
  <1> QED BY <1>2, <1>8, <1>9, <1>10

\* law_htc_ensure_input: the buffer has been read into, and the offset may
\* have been moved behind what was asked for.
LEMMA EnsureInputStep ==
  ASSUME Invariant, law_htc_ensure_input
  PROVE  Invariant'
  <1> USE DEF Invariant
  <1>0. /\ phase = "body"
        /\ need' = IF phase' = "body" THEN need ELSE 0
        /\ UNCHANGED <<text, sent, shut, output, room>>
    BY DEF law_htc_ensure_input
  <1>1. /\ MaxIn \in Nat \ {0}
        /\ end \in Nat /\ base \in Nat /\ base <= end /\ end <= sent /\ sent \in Nat
        /\ tell = base /\ end <= base + MaxIn /\ tell \in Nat
        /\ need \in 1 .. MaxIn /\ Len(text) \in Nat /\ sent <= Len(text)
    BY <1>0, Numbers DEF InputIntact, TypeOK, Asked
  <1>2. OutputIntact'
    BY <1>0, OutputKept
  <1>3. res \in {"OK", "OOB", "EOF", "ERR", "TIME"}
    BY DEF TypeOK
  <1>4. ring \in [0 .. (MaxIn - 1) -> -1 .. (Len(text) - 1)]
    BY DEF TypeOK
  <1>5. \A p \in base .. (end - 1) : ring[p % MaxIn] = p
    BY DEF InputIntact
  \* What is left to show, whatever the outcome: e is the end of the buffer,
  \* and t its offset.
  <1>6. ASSUME NEW e \in Nat, NEW t \in Nat, end' = e, tell' = t, base' = t,
               e <= sent, e <= base + MaxIn, base <= t, t <= e,
               ring' \in [0 .. (MaxIn - 1) -> -1 .. (Len(text) - 1)],
               \A p \in base .. (e - 1) : ring'[p % MaxIn] = p,
               phase' \in {"body", "respond", "failed"},
               waiting' \in {"no", "readable", "writable"},
               res' \in {"OK", "OOB", "EOF", "ERR", "TIME"}
        PROVE  Invariant'
    <2>1. InputIntact'
      <3>1. t \in t .. e /\ e <= t + MaxIn
        BY <1>1, <1>6
      <3>2. \A p \in t .. (e - 1) : p \in base .. (e - 1)
        BY <1>1, <1>6
      <3>3. \A p \in t .. (e - 1) : ring'[p % MaxIn] = p
        BY <1>6, <3>2, Zenon
      <3>4. end' = e /\ tell' = t /\ base' = t
        BY <1>6
      <3> QED BY <3>1, <3>3, <3>4, Zenon DEF InputIntact
    <2>2. base' \in 0 .. end' /\ end' \in 0 .. sent'
      <3>1. t \in 0 .. e /\ e \in 0 .. sent
        BY <1>1, <1>6
      <3>2. base' = t /\ end' = e /\ sent' = sent
        BY <1>0, <1>6
      <3> QED BY <3>1, <3>2, Zenon
    <2>3. need' \in Nat
      BY <1>0, <1>1
    <2>4. /\ text' \in Texts /\ sent' \in 0 .. Len(text') /\ shut' \in BOOLEAN
          /\ ring' \in [0 .. (MaxIn - 1) -> -1 .. (Len(text') - 1)]
          /\ oring' \in [0 .. (MaxOut - 1) -> -1 .. (MaxReply - 1)]
          /\ oend' \in 0 .. MaxReply /\ otell' \in 0 .. oend' /\ room' \in 0 .. Room
      BY <1>0, <1>6, Zenon DEF TypeOK
    <2>5. phase' \in Scanning \cup {"body", "respond", "flush", "done", "failed"}
      BY <1>6
    <2>6. TypeOK'
      BY <1>6, <2>2, <2>3, <2>4, <2>5, Zenon DEF TypeOK
    <2>7. phase' \notin Scanning
      BY <1>6 DEF Scanning
    <2>8. Asked'
      <3>1. phase' = "body" => need' \in 1 .. MaxIn /\ base' = tell'
        BY <1>0, <1>1, <1>6
      <3>2. phase' = "respond" => oend' + need' <= MaxReply
        BY <1>0, ConnAssumption DEF TypeOK
      <3> QED BY <2>7, <3>1, <3>2 DEF Asked
    <2> QED BY <1>2, <2>1, <2>6, <2>7, <2>8 DEF Scanned, NoMissedElement
  <1>7. CASE end - tell + need > MaxIn
    <2>1. law_sync("OOB") /\ UNCHANGED <<input, base>>
      BY <1>1, <1>7 DEF law_htc_ensure_input
    <2>2. phase' = "failed" /\ waiting' = "no" /\ res' = "OOB"
      BY <2>1, SyncEnds DEF Code
    <2> QED BY <1>1, <1>4, <1>5, <1>6, <2>1, <2>2
  <1>8. CASE end - tell + need <= MaxIn /\ ~Missing(end)
    <2>1. /\ phase' = "respond" /\ tell' = tell + need /\ base' = tell'
          /\ waiting' = "no" /\ UNCHANGED <<ring, end, res>>
      BY <1>1, <1>8 DEF law_htc_ensure_input
    <2>2. tell + need \in Nat /\ base <= tell + need /\ tell + need <= end
      BY <1>1, <1>8 DEF Missing
    <2> QED BY <1>1, <1>3, <1>4, <1>5, <1>6, <2>1, <2>2
  <1>9. CASE end - tell + need <= MaxIn /\ Missing(end)
    <2>1. PICK x \in law_htc_read_data(tell) :
             /\ ring' = Stored(ring, MaxIn, end, x[2]) /\ end' = end + x[2]
             /\ IF x[1] = "OK" /\ ~Missing(end')
                THEN /\ phase' = "respond" /\ tell' = tell + need /\ base' = tell'
                     /\ waiting' = "no" /\ res' = res
                ELSE /\ law_sync(IF x[1] = "OK" THEN "WANTR" ELSE x[1])
                     /\ UNCHANGED <<tell, base>>
      BY <1>1, <1>9 DEF law_htc_ensure_input
    <2> DEFINE e == end + x[2]
    <2>2. /\ x[1] \in Code /\ x[2] \in Nat
          /\ e <= sent /\ end + x[2] - base <= MaxIn
      <3>1. tell <= end /\ end - tell <= MaxIn
        BY <1>1
      <3> QED BY <1>1, <3>1, ReadData
    <2>3. e \in Nat /\ e <= sent /\ end <= e /\ e <= base + MaxIn
      BY <1>1, <2>2
    <2>4. \A p \in base .. (e - 1) : Stored(ring, MaxIn, end, x[2])[p % MaxIn] = p
      <3>1. \A p \in base .. (end + x[2] - 1) :
              Stored(ring, MaxIn, end, x[2])[p % MaxIn] = p
        BY <1>1, <1>5, <2>2, StoredKeeps, Zenon
      <3>2. end + x[2] - 1 = (end + x[2]) - 1
        BY <1>1, <2>2
      <3> QED BY <3>1, <3>2, Zenon
    <2>5. Stored(ring, MaxIn, end, x[2]) \in [0 .. (MaxIn - 1) -> -1 .. (Len(text) - 1)]
      <3>1. e <= (Len(text) - 1) + 1 /\ Len(text) - 1 \in Int
        BY <1>1, <2>3
      <3> QED BY <1>1, <1>4, <2>2, <3>1, StoredType, Zenon
    <2>6. end' = e /\ ring' = Stored(ring, MaxIn, end, x[2])
      BY <2>1
    <2>7. \A p \in base .. (e - 1) : ring'[p % MaxIn] = p
      BY <2>4, <2>6, Zenon
    <2>8. ring' \in [0 .. (MaxIn - 1) -> -1 .. (Len(text) - 1)]
      BY <2>5, <2>6, Zenon
    <2> HIDE DEF e
    <2>9. CASE x[1] = "OK" /\ ~Missing(e)
      <3>1. /\ phase' = "respond" /\ tell' = tell + need /\ base' = tell'
            /\ waiting' = "no" /\ res' = res
        BY <2>1, <2>6, <2>9, Zenon
      <3>2. tell + need \in Nat /\ base <= tell + need /\ tell + need <= e
        BY <1>1, <2>3, <2>9 DEF Missing
      <3>3. phase' \in {"body", "respond", "failed"}
            /\ waiting' \in {"no", "readable", "writable"}
            /\ res' \in {"OK", "OOB", "EOF", "ERR", "TIME"}
        BY <1>3, <3>1
      <3>4. tell' = tell + need /\ base' = tell + need
        BY <3>1
      <3> QED BY <1>6, <2>3, <2>6, <2>7, <2>8, <3>2, <3>3, <3>4, Zenon
    <2>10. CASE ~(x[1] = "OK" /\ ~Missing(e))
      <3>1. law_sync(IF x[1] = "OK" THEN "WANTR" ELSE x[1]) /\ tell' = tell /\ base' = base
        BY <2>1, <2>6, <2>10, Zenon
      <3>2. \/ phase' = phase /\ res' = res /\ waiting' \in {"readable", "writable"}
            \/ phase' = "failed" /\ res' \in {"OOB", "EOF", "ERR"} /\ waiting' = "no"
        <4>1. PICK r : r = IF x[1] = "OK" THEN "WANTR" ELSE x[1]
          OBVIOUS
        <4>2. r \in Code /\ r # "OK" /\ law_sync(r)
          BY <2>2, <3>1, <4>1 DEF Code
        <4> QED BY <4>2, SyncEnds
      <3>3. phase' \in {"body", "respond", "failed"}
            /\ waiting' \in {"no", "readable", "writable"}
            /\ res' \in {"OK", "OOB", "EOF", "ERR", "TIME"}
        BY <1>0, <1>3, <3>2
      <3>4. tell' = base /\ base' = base /\ base \in Nat /\ base <= base /\ base <= e
        BY <1>1, <2>3, <3>1
      <3> QED BY <1>6, <2>3, <2>6, <2>7, <2>8, <3>3, <3>4, Zenon
    <2> QED BY <2>9, <2>10
  <1>10. end - tell + need > MaxIn \/ end - tell + need <= MaxIn
    BY <1>1
  <1> QED BY <1>7, <1>8, <1>9, <1>10

-----------------------------------------------------------------------------
(* Writes *)

LEMMA WriteData ==
  ASSUME TypeOK, NEW x \in law_htc_write_data
  PROVE  /\ x[1] \in {"OK", "ERR", "WANTR", "WANTW"} /\ x[2] \in Nat
         /\ otell + x[2] <= oend /\ x[2] <= room
  <1> DEFINE most == Min({Block, room})
  <1>1. Block \in Nat /\ room \in Nat /\ oend \in Nat /\ otell \in Nat /\ otell <= oend
    BY Numbers DEF Block, TypeOK
  <1>2. most \in Nat /\ most <= Block /\ most <= room
    BY <1>1, MinOfTwo
  <1> HIDE DEF most
  <1>3. \/ x \in {<<"ERR", 0>>, <<"WANTW", 0>>, <<"WANTR", 0>>}
        \/ \E n \in 1 .. most : x = <<"OK", n>>
    <2>1. law_htc_write_data =
            {<<"ERR", 0>>}
            \cup {<<"OK", n>> : n \in 1 .. most}
            \cup (IF room > 0 THEN {} ELSE {<<"WANTW", 0>>})
            \cup {<<"WANTR", 0>>}
      BY Zenon DEF law_htc_write_data, most
    <2> QED BY <2>1, Zenon
  <1>4. CASE x \in {<<"ERR", 0>>, <<"WANTW", 0>>, <<"WANTR", 0>>}
    BY <1>1, <1>4
  <1>5. CASE \E n \in 1 .. most : x = <<"OK", n>>
    <2>1. PICK n \in 1 .. most : x = <<"OK", n>>
      BY <1>5
    <2>2. x[1] = "OK" /\ x[2] = n
      BY <2>1
    <2>3. n \in Nat /\ otell + n <= oend /\ n <= room
      BY <1>1, <1>2 DEF Block
    <2> QED BY <2>2, <2>3
  <1> QED BY <1>3, <1>4, <1>5

\* The socket has taken the output up to position o, and n bytes have been
\* stored behind it.
LEMMA OutputMoved ==
  ASSUME Invariant, NEW o \in otell .. oend, NEW n \in Nat,
         oend + n <= o + MaxOut, oend + n <= MaxReply,
         otell' = o, oend' = oend + n, oring' = Stored(oring, MaxOut, oend, n)
  PROVE  /\ OutputIntact'
         /\ oend' \in 0 .. MaxReply /\ otell' \in 0 .. oend'
         /\ oring' \in [0 .. (MaxOut - 1) -> -1 .. (MaxReply - 1)]
  <1> DEFINE e == oend + n
  <1>1. /\ MaxOut \in Nat \ {0} /\ oend \in Nat /\ otell \in Nat /\ otell <= oend
        /\ MaxReply \in Nat /\ o \in Nat /\ o <= oend /\ e \in Nat
    BY Numbers DEF Invariant
  <1>2. \A p \in o .. (oend - 1) : oring[p % MaxOut] = p
    <2>1. \A p \in otell .. (oend - 1) : oring[p % MaxOut] = p
      BY DEF Invariant, OutputIntact
    <2>2. \A p \in o .. (oend - 1) : p \in otell .. (oend - 1)
      BY <1>1
    <2> QED BY <2>1, <2>2, Zenon
  <1>3. \A p \in o .. (oend + n - 1) : Stored(oring, MaxOut, oend, n)[p % MaxOut] = p
    <2>1. oend + n - o <= MaxOut
      BY <1>1
    <2> QED BY <1>1, <1>2, <2>1, StoredKeeps, Zenon
  <1>4. \A p \in o .. (e - 1) : Stored(oring, MaxOut, oend, n)[p % MaxOut] = p
    <2>1. oend + n - 1 = e - 1
      BY <1>1
    <2> QED BY <1>3, <2>1, Zenon
  <1>5. Stored(oring, MaxOut, oend, n) \in [0 .. (MaxOut - 1) -> -1 .. (MaxReply - 1)]
    <2>1. oring \in [0 .. (MaxOut - 1) -> -1 .. (MaxReply - 1)]
      BY DEF Invariant, TypeOK
    <2>2. oend + n <= (MaxReply - 1) + 1 /\ MaxReply - 1 \in Int
      BY <1>1
    <2> QED BY <1>1, <2>1, <2>2, StoredType, Zenon
  <1>6. e \in 0 .. MaxReply /\ o \in 0 .. e /\ e <= o + MaxOut
    BY <1>1
  <1>7. otell' = o /\ oend' = e /\ oring' = Stored(oring, MaxOut, oend, n)
    OBVIOUS
  <1> HIDE DEF e
  <1>8. OutputIntact'
    BY <1>4, <1>6, <1>7, Zenon DEF OutputIntact
  <1> QED BY <1>5, <1>6, <1>7, <1>8, Zenon

\* The bytes up to o are taken, and none is stored.
LEMMA OutputTaken ==
  ASSUME Invariant, NEW o \in otell .. oend, otell' = o, oend' = oend, oring' = oring
  PROVE  OutputIntact' /\ oend' \in 0 .. MaxReply /\ otell' \in 0 .. oend'
  <1>1. /\ oend \in Nat /\ otell \in Nat /\ otell <= oend /\ MaxOut \in Nat
        /\ oend \in 0 .. MaxReply /\ oend <= otell + MaxOut
    BY Numbers DEF Invariant, TypeOK, OutputIntact
  <1>2. oend <= o + MaxOut /\ o \in 0 .. oend
    BY <1>1
  <1>3. \A p \in o .. (oend - 1) : oring[p % MaxOut] = p
    <2>1. \A p \in otell .. (oend - 1) : oring[p % MaxOut] = p
      BY DEF Invariant, OutputIntact
    <2>2. \A p \in o .. (oend - 1) : p \in otell .. (oend - 1)
      BY <1>1
    <2> QED BY <2>1, <2>2, Zenon
  <1> QED BY <1>1, <1>2, <1>3, Zenon DEF OutputIntact

\* What a step of the output has to show.
LEMMA OutputStep ==
  ASSUME Invariant, phase \notin Scanning, phase # "body",
         UNCHANGED <<text, sent, shut, base, input>>,
         OutputIntact', oend' \in 0 .. MaxReply, otell' \in 0 .. oend',
         oring' \in [0 .. (MaxOut - 1) -> -1 .. (MaxReply - 1)],
         room' \in 0 .. Room, need' \in Nat,
         phase' \in {"respond", "flush", "done", "failed"},
         phase' = "respond" => oend' + need' <= MaxReply,
         waiting' \in {"no", "readable", "writable"},
         res' \in {"OK", "OOB", "EOF", "ERR", "TIME"}
  PROVE  Invariant'
  <1>1. phase' \notin Scanning /\ phase' # "body"
    BY DEF Scanning
  <1>2. TypeOK'
    <2>1. TypeOK
      BY DEF Invariant
    <2> QED BY <2>1, Zenon DEF TypeOK
  <1>3. Asked'
    BY <1>1 DEF Asked
  <1>4. InputIntact' /\ Scanned' /\ NoMissedElement'
    BY <1>1, InputKept
  <1> QED BY <1>2, <1>3, <1>4 DEF Invariant

LEMMA OutputTypes ==
  ASSUME Invariant
  PROVE  /\ res \in {"OK", "OOB", "EOF", "ERR", "TIME"}
         /\ waiting \in {"no", "readable", "writable"}
         /\ room \in 0 .. Room /\ room \in Nat /\ need \in Nat
         /\ oend \in Nat /\ otell \in Nat /\ otell <= oend /\ oend \in 0 .. MaxReply
         /\ oring \in [0 .. (MaxOut - 1) -> -1 .. (MaxReply - 1)]
         /\ MaxOut \in Nat \ {0} /\ MaxReply \in Nat /\ Room \in Nat
  BY Numbers DEF Invariant, TypeOK

\* law_htc_ensure_output, and what is put into the buffer after it.
LEMMA EnsureOutputStep ==
  ASSUME Invariant, law_htc_ensure_output
  PROVE  Invariant'
  <1>0. /\ phase = "respond" /\ UNCHANGED <<text, sent, shut, base, input>>
        /\ phase \notin Scanning
    BY DEF law_htc_ensure_output, Scanning
  <1>1. /\ res \in {"OK", "OOB", "EOF", "ERR", "TIME"}
        /\ waiting \in {"no", "readable", "writable"}
        /\ room \in 0 .. Room /\ room \in Nat /\ need \in Nat
        /\ oend \in Nat /\ otell \in Nat /\ otell <= oend /\ oend \in 0 .. MaxReply
        /\ oring \in [0 .. (MaxOut - 1) -> -1 .. (MaxReply - 1)]
        /\ MaxOut \in Nat \ {0} /\ MaxReply \in Nat /\ Room \in Nat
        /\ oend + need <= MaxReply
    BY <1>0, OutputTypes DEF Invariant, Asked
  <1>2. ASSUME NEW o \in otell .. oend, otell' = o, Fits(o), Put, room' \in 0 .. Room
        PROVE  Invariant'
    <2>1. /\ oring' = Stored(oring, MaxOut, oend, need) /\ oend' = oend + need
          /\ need' = 0 /\ waiting' = "no" /\ phase' = phase /\ res' = res
      BY <1>2 DEF Put
    <2>2. o \in Nat /\ oend + need <= o + MaxOut
      BY <1>1, <1>2 DEF Fits
    <2>3. /\ OutputIntact'
          /\ oend' \in 0 .. MaxReply /\ otell' \in 0 .. oend'
          /\ oring' \in [0 .. (MaxOut - 1) -> -1 .. (MaxReply - 1)]
      BY <1>1, <1>2, <2>1, <2>2, OutputMoved, Zenon
    <2>4. oend' + need' <= MaxReply
      BY <1>1, <2>1
    <2> QED BY <1>0, <1>1, <1>2, <2>1, <2>3, <2>4, OutputStep
  <1>3. ASSUME NEW o \in otell .. oend, otell' = o, UNCHANGED <<oring, oend, need>>,
               NEW r \in Code, r # "OK", law_sync(r), room' \in 0 .. Room
        PROVE  Invariant'
    <2>1. \/ phase' = phase /\ res' = res /\ waiting' \in {"readable", "writable"}
          \/ phase' = "failed" /\ res' \in {"OOB", "EOF", "ERR"} /\ waiting' = "no"
      BY <1>3, SyncEnds
    <2>2. OutputIntact' /\ oend' \in 0 .. MaxReply /\ otell' \in 0 .. oend'
      BY <1>3, OutputTaken
    <2>3. oend' + need' <= MaxReply
      BY <1>1, <1>3
    <2>4. /\ phase' \in {"respond", "flush", "done", "failed"}
          /\ waiting' \in {"no", "readable", "writable"}
          /\ res' \in {"OK", "OOB", "EOF", "ERR", "TIME"}
          /\ need' \in Nat
          /\ oring' \in [0 .. (MaxOut - 1) -> -1 .. (MaxReply - 1)]
      BY <1>0, <1>1, <1>3, <2>1
    <2> QED BY <1>0, <1>3, <2>2, <2>3, <2>4, OutputStep
  <1>4. otell \in otell .. oend
    BY <1>1
  <1>5. CASE need > MaxOut /\ law_sync("OOB") /\ UNCHANGED <<output, room, need>>
    <2>1. "OOB" \in Code
      BY DEF Code
    <2> QED BY <1>1, <1>3, <1>4, <1>5, <2>1
  <1>6. CASE Fits(otell) /\ Put /\ UNCHANGED <<otell, room>>
    BY <1>1, <1>2, <1>4, <1>6
  <1>7. CASE \E x \in law_htc_write_data :
               /\ otell' = otell + x[2] /\ room' = room - x[2]
               /\ IF x[1] = "OK" /\ Fits(otell')
                  THEN Put
                  ELSE /\ law_sync(IF x[1] = "OK" THEN "WANTW" ELSE x[1])
                       /\ UNCHANGED <<oring, oend, need>>
    <2>1. PICK x \in law_htc_write_data :
               /\ otell' = otell + x[2] /\ room' = room - x[2]
               /\ IF x[1] = "OK" /\ Fits(otell')
                  THEN Put
                  ELSE /\ law_sync(IF x[1] = "OK" THEN "WANTW" ELSE x[1])
                       /\ UNCHANGED <<oring, oend, need>>
      BY <1>7
    <2>2. /\ x[1] \in {"OK", "ERR", "WANTR", "WANTW"} /\ x[2] \in Nat
          /\ otell + x[2] <= oend /\ x[2] <= room
      BY WriteData DEF Invariant
    <2> DEFINE o == otell + x[2]
    <2>3. o \in otell .. oend /\ room - x[2] \in 0 .. Room
      <3>1. o \in otell .. oend
        BY <1>1, <2>2
      <3>2. room - x[2] \in 0 .. Room
        <4>1. PICK n \in Nat : n = x[2]
          BY <2>2
        <4>2. n <= room
          BY <2>2, <4>1
        <4>3. room - n \in 0 .. Room
          BY <1>1, <4>2
        <4> QED BY <4>1, <4>3
      <3> QED BY <3>1, <3>2
    <2>4. otell' = o /\ room' \in 0 .. Room
      BY <2>1, <2>3
    <2> HIDE DEF o
    <2>5. CASE x[1] = "OK" /\ Fits(o)
      <3>1. Put
        BY <2>1, <2>4, <2>5, Zenon
      <3> QED BY <1>2, <2>3, <2>4, <2>5, <3>1, Zenon
    <2>6. CASE ~(x[1] = "OK" /\ Fits(o))
      <3>1. PICK r : r = IF x[1] = "OK" THEN "WANTW" ELSE x[1]
        OBVIOUS
      <3>2. r \in Code /\ r # "OK"
        BY <2>2, <3>1 DEF Code
      <3>3. law_sync(r) /\ UNCHANGED <<oring, oend, need>>
        BY <2>1, <2>4, <2>6, <3>1, Zenon
      <3> QED BY <1>3, <2>3, <2>4, <3>2, <3>3, Zenon
    <2> QED BY <2>5, <2>6
  <1> QED BY <1>5, <1>6, <1>7, Zenon DEF law_htc_ensure_output

\* law_htc_flush.
LEMMA FlushStep ==
  ASSUME Invariant, law_htc_flush
  PROVE  Invariant'
  <1>0. /\ phase = "flush" /\ phase \notin Scanning
        /\ UNCHANGED <<text, sent, shut, base, need, input, oring, oend>>
    BY DEF law_htc_flush, Scanning
  <1>1. /\ res \in {"OK", "OOB", "EOF", "ERR", "TIME"}
        /\ waiting \in {"no", "readable", "writable"}
        /\ room \in 0 .. Room /\ room \in Nat /\ need \in Nat
        /\ oend \in Nat /\ otell \in Nat /\ otell <= oend /\ oend \in 0 .. MaxReply
        /\ oring \in [0 .. (MaxOut - 1) -> -1 .. (MaxReply - 1)]
        /\ Room \in Nat
    BY OutputTypes
  <1>2. ASSUME NEW o \in otell .. oend, otell' = o, room' \in 0 .. Room,
               phase' \in {"flush", "done", "failed"},
               waiting' \in {"no", "readable", "writable"},
               res' \in {"OK", "OOB", "EOF", "ERR", "TIME"}
        PROVE  Invariant'
    <2>1. OutputIntact' /\ oend' \in 0 .. MaxReply /\ otell' \in 0 .. oend'
      BY <1>0, <1>2, OutputTaken
    <2>2. need' \in Nat /\ oring' \in [0 .. (MaxOut - 1) -> -1 .. (MaxReply - 1)]
      BY <1>0, <1>1
    <2>3. phase' \in {"respond", "flush", "done", "failed"} /\ phase' # "respond"
      BY <1>2
    <2> QED BY <1>0, <1>2, <2>1, <2>2, <2>3, OutputStep
  <1>3. CASE phase' = "done" /\ waiting' = "no" /\ UNCHANGED <<res, otell, room>>
    <2>1. otell \in otell .. oend
      BY <1>1
    <2> QED BY <1>1, <1>2, <1>3, <2>1
  <1>4. CASE \E x \in law_htc_write_data :
               /\ otell' = otell + x[2] /\ room' = room - x[2]
               /\ IF x[1] = "OK" /\ Flushed(otell')
                  THEN phase' = "done" /\ waiting' = "no" /\ res' = res
                  ELSE law_sync(IF x[1] = "OK" THEN "WANTW" ELSE x[1])
    <2>1. PICK x \in law_htc_write_data :
               /\ otell' = otell + x[2] /\ room' = room - x[2]
               /\ IF x[1] = "OK" /\ Flushed(otell')
                  THEN phase' = "done" /\ waiting' = "no" /\ res' = res
                  ELSE law_sync(IF x[1] = "OK" THEN "WANTW" ELSE x[1])
      BY <1>4
    <2>2. /\ x[1] \in {"OK", "ERR", "WANTR", "WANTW"} /\ x[2] \in Nat
          /\ otell + x[2] <= oend /\ x[2] <= room
      BY WriteData DEF Invariant
    <2> DEFINE o == otell + x[2]
    <2>3. o \in otell .. oend /\ room - x[2] \in 0 .. Room
      <3>1. o \in otell .. oend
        BY <1>1, <2>2
      <3>2. room - x[2] \in 0 .. Room
        <4>1. PICK n \in Nat : n = x[2]
          BY <2>2
        <4>2. n <= room
          BY <2>2, <4>1
        <4>3. room - n \in 0 .. Room
          BY <1>1, <4>2
        <4> QED BY <4>1, <4>3
      <3> QED BY <3>1, <3>2
    <2>4. otell' = o /\ room' \in 0 .. Room
      BY <2>1, <2>3
    <2> HIDE DEF o
    <2>5. CASE phase' = "done" /\ waiting' = "no" /\ res' = res
      BY <1>1, <1>2, <2>3, <2>4, <2>5
    <2>6. CASE law_sync(IF x[1] = "OK" THEN "WANTW" ELSE x[1])
      <3>1. PICK r : r = IF x[1] = "OK" THEN "WANTW" ELSE x[1]
        OBVIOUS
      <3>2. r \in Code /\ r # "OK" /\ law_sync(r)
        BY <2>2, <2>6, <3>1 DEF Code
      <3>3. /\ phase' \in {"flush", "done", "failed"}
            /\ waiting' \in {"no", "readable", "writable"}
            /\ res' \in {"OK", "OOB", "EOF", "ERR", "TIME"}
        BY <1>0, <1>1, <3>2, SyncEnds
      <3> QED BY <1>2, <2>3, <2>4, <3>3, Zenon
    <2> QED BY <2>1, <2>5, <2>6, Zenon
  <1> QED BY <1>3, <1>4, Zenon DEF law_htc_flush

-----------------------------------------------------------------------------
(* Every step *)

LEMMA InitHolds == Init => Invariant
  <1> SUFFICES ASSUME Init PROVE Invariant
    OBVIOUS
  <1>1. text \in Seq({"cr", "lf", "x"}) /\ text \in Texts
    BY ConnAssumption DEF Init
  <1>2. Len(text) \in Nat
    BY <1>1
  <1>3. /\ MaxIn \in Nat \ {0} /\ MaxOut \in Nat \ {0} /\ Room \in Nat \ {0}
        /\ MaxReply \in Nat \ {0}
    BY ConnAssumption
  <1>4. ring \in [0 .. (MaxIn - 1) -> -1 .. (Len(text) - 1)]
    BY <1>2 DEF Init
  <1>5. oring \in [0 .. (MaxOut - 1) -> -1 .. (MaxReply - 1)]
    BY <1>3 DEF Init
  <1>6. TypeOK
    <2>1. sent \in 0 .. Len(text) /\ end \in 0 .. sent /\ base \in 0 .. end /\ need \in Nat
      BY <1>2 DEF Init
    <2>2. oend \in 0 .. MaxReply /\ otell \in 0 .. oend /\ room \in 0 .. Room
      BY <1>3 DEF Init
    <2> QED BY <1>1, <1>4, <1>5, <2>1, <2>2 DEF Init, TypeOK, Scanning
  <1>7. Asked
    BY DEF Init, Asked
  <1>8. base .. (tell - 1) = {} /\ base .. (end - 1) = {} /\ otell .. (oend - 1) = {}
    BY DEF Init
  <1>9. InputIntact
    <2>1. tell \in base .. end /\ end <= base + MaxIn
      BY <1>3 DEF Init
    <2> QED BY <1>8, <2>1, Zenon DEF InputIntact
  <1>10. OutputIntact
    <2>1. oend <= otell + MaxOut
      BY <1>3 DEF Init
    <2> QED BY <1>8, <2>1, Zenon DEF OutputIntact
  <1>11. Scanned
    BY <1>8, Zenon DEF Scanned, Passed
  <1>12. NoMissedElement
    BY DEF Init, NoMissedElement
  <1> QED BY <1>6, <1>7, <1>9, <1>10, <1>11, <1>12 DEF Invariant

\* What a step has to show that reads and writes no bytes.
LEMMA QuietStep ==
  ASSUME Invariant, UNCHANGED <<text, base, input, output>>,
         TypeOK', Asked',
         phase' \in Scanning => phase' = phase /\ waiting' = waiting
  PROVE  Invariant'
  BY InputKept, OutputKept DEF Invariant

LEMMA StepHolds == Invariant /\ [Next]_vars => Invariant'
  <1> SUFFICES ASSUME Invariant, [Next]_vars PROVE Invariant'
    OBVIOUS
  <1>0. TypeOK /\ Asked
    BY DEF Invariant
  <1>1. CASE law_htc_read_scan
    BY <1>1, ReadScanStep
  <1>2. CASE MoreBody
    <2>1. need' = need + 1 /\ need < MaxIn /\ phase = "body" /\ need \in Nat /\ MaxIn \in Nat
      BY <1>0, <1>2, Numbers DEF MoreBody
    <2>2. UNCHANGED <<text, sent, shut, phase, waiting, res, base, input, output, room>>
      BY <1>2 DEF MoreBody
    <2>3. need' \in Nat /\ need' \in 1 .. MaxIn
      BY <2>1
    <2>4. TypeOK'
      BY <1>0, <2>2, <2>3, Zenon DEF TypeOK
    <2>5. Asked'
      BY <1>0, <2>1, <2>2, <2>3 DEF Asked, Scanning
    <2> QED BY <2>2, <2>4, <2>5, QuietStep
  <1>3. CASE law_htc_ensure_input
    BY <1>3, EnsureInputStep
  <1>4. CASE \E n \in 1 .. MaxReply : Announce(n)
    <2>1. PICK n \in 1 .. MaxReply : Announce(n)
      BY <1>4
    <2>2. /\ phase = "respond" /\ oend + n <= MaxReply /\ need' = n
          /\ UNCHANGED <<text, sent, shut, phase, waiting, res, base, input, output, room>>
      BY <2>1 DEF Announce
    <2>3. need' \in Nat
      BY <2>2
    <2>4. TypeOK'
      BY <1>0, <2>2, <2>3, Zenon DEF TypeOK
    <2>5. Asked'
      BY <2>2 DEF Asked, Scanning
    <2> QED BY <2>2, <2>4, <2>5, QuietStep
  <1>5. CASE law_htc_ensure_output
    BY <1>5, EnsureOutputStep
  <1>6. CASE EndReply
    <2>1. phase' = "flush" /\ phase' \notin Scanning
          /\ UNCHANGED <<text, sent, shut, waiting, res, base, need, input, output, room>>
      BY <1>6 DEF EndReply, Scanning
    <2>2. phase' \in Scanning \cup {"body", "respond", "flush", "done", "failed"}
      BY <2>1
    <2>3. TypeOK'
      BY <1>0, <2>1, <2>2, Zenon DEF TypeOK
    <2>4. Asked'
      BY <2>1 DEF Asked
    <2> QED BY <2>1, <2>3, <2>4, QuietStep
  <1>7. CASE law_htc_flush
    BY <1>7, FlushStep
  <1>8. CASE law_sync_expired
    <2>1. phase' = "failed" /\ res' = "TIME" /\ waiting' = "no" /\ phase' \notin Scanning
          /\ UNCHANGED <<text, sent, shut, base, need, input, output, room>>
      BY <1>8 DEF law_sync_expired, Scanning
    <2>2. phase' \in Scanning \cup {"body", "respond", "flush", "done", "failed"}
          /\ res' \in {"OK", "OOB", "EOF", "ERR", "TIME"}
          /\ waiting' \in {"no", "readable", "writable"}
      BY <2>1
    <2>3. TypeOK'
      BY <1>0, <2>1, <2>2, Zenon DEF TypeOK
    <2>4. Asked'
      BY <2>1 DEF Asked
    <2> QED BY <2>1, <2>3, <2>4, QuietStep
  <1>9. CASE Send
    <2>1. /\ sent' = sent + 1 /\ sent < Len(text)
          /\ UNCHANGED <<text, shut, phase, waiting, res, base, need, input, output, room>>
      BY <1>9 DEF Send
    <2>2. sent' \in 0 .. Len(text') /\ end' \in 0 .. sent'
      <3>1. sent \in Nat /\ Len(text) \in Nat /\ end \in 0 .. sent
        BY <1>0, Numbers DEF TypeOK
      <3>2. sent + 1 \in 0 .. Len(text) /\ end \in 0 .. (sent + 1)
        BY <2>1, <3>1
      <3> QED BY <2>1, <3>2
    <2>3. TypeOK'
      BY <1>0, <2>1, <2>2, Zenon DEF TypeOK
    <2>4. Asked'
      BY <1>0, <2>1 DEF Asked
    <2> QED BY <2>1, <2>3, <2>4, QuietStep
  <1>10. CASE Shut
    <2>1. /\ shut' \in BOOLEAN
          /\ UNCHANGED <<text, sent, phase, waiting, res, base, need, input, output, room>>
      BY <1>10 DEF Shut
    <2>2. TypeOK'
      BY <1>0, <2>1, Zenon DEF TypeOK
    <2>3. Asked'
      BY <1>0, <2>1 DEF Asked
    <2> QED BY <2>1, <2>2, <2>3, QuietStep
  <1>11. CASE Receive
    <2>1. /\ room' = Room
          /\ UNCHANGED <<text, sent, shut, phase, waiting, res, base, need, input, output>>
      BY <1>11 DEF Receive
    <2>2. room' \in 0 .. Room
      BY <2>1, ConnAssumption
    <2>3. TypeOK'
      BY <1>0, <2>1, <2>2, Zenon DEF TypeOK
    <2>4. Asked'
      BY <1>0, <2>1 DEF Asked
    <2> QED BY <2>1, <2>3, <2>4, QuietStep
  <1>12. CASE UNCHANGED vars
    <2>1. UNCHANGED <<text, sent, shut, phase, waiting, res, base, need, input, output, room>>
      BY <1>12 DEF vars
    <2>2. TypeOK'
      BY <1>0, <2>1, Zenon DEF TypeOK
    <2>3. Asked'
      BY <1>0, <2>1 DEF Asked
    <2> QED BY <2>1, <2>2, <2>3, QuietStep
  <1>13. CASE Ended
    BY <1>12, <1>13 DEF Ended
  <1> QED BY <1>1, <1>2, <1>3, <1>4, <1>5, <1>6, <1>7, <1>8, <1>9, <1>10, <1>11, <1>12,
             <1>13 DEF Next

\* The invariant holds in every state of every connection.
THEOREM InvariantAlways == Spec => []Invariant
  BY InitHolds, StepHolds, PTL DEF Spec

-----------------------------------------------------------------------------
(* What the invariant and the steps say of the connection *)

\* The offsets of both buffers are ordered, and the cells hold positions of
\* the two streams (struct pgc_buf in conn->in and conn->out).
THEOREM TypeCorrect == Spec => []TypeOK
  <1>1. Invariant => TypeOK
    BY DEF Invariant
  <1> QED BY <1>1, InvariantAlways, PTL

\* law_htc_read_data never overwrites a byte of the request line, the headers
\* or the body that is still needed, whatever the size of the buffer.
THEOREM InputIntactCorrect == Spec => []InputIntact
  <1>1. Invariant => InputIntact
    BY DEF Invariant
  <1> QED BY <1>1, InvariantAlways, PTL

\* law_htc_ensure_output makes room only by handing bytes to the socket: no
\* byte of the reply is overwritten before the socket has taken it.
THEOREM OutputIntactCorrect == Spec => []OutputIntact
  <1>1. Invariant => OutputIntact
    BY DEF Invariant
  <1> QED BY <1>1, InvariantAlways, PTL

\* law_htc_read_scan never makes law_sync wait for input while the delimiter
\* is in the buffer already.
THEOREM NoMissedElementCorrect == Spec => []NoMissedElement
  <1>1. Invariant => NoMissedElement
    BY DEF Invariant
  <1> QED BY <1>1, InvariantAlways, PTL

\* The element ends with the first delimiter.
LEMMA FoundFirst ==
  ASSUME NEW d, Len(d) \in Nat, Invariant, Passed(d),
         NEW e \in Nat, NEW t \in Nat, end <= e, e <= sent, FoundIt(d, e, t), tell' = t
  PROVE  FoundStep(d)
  <1> DEFINE S == Occurs(d, base, Len(text))
  <1>1. /\ base \in Nat /\ end \in Nat /\ sent \in Nat /\ Len(text) \in Nat
        /\ sent <= Len(text) /\ tell \in base .. end
    BY Numbers DEF Invariant, InputIntact
  <1>2. PICK h \in tell .. (e - Len(d)) :
          /\ t = h + Len(d) /\ Matched(h, d)
          /\ \A p \in tell .. (h - 1) : Refuted(p, e, d)
    BY DEF FoundIt
  <1>3. t \in S
    <2>1. t \in (base + Len(d)) .. Len(text)
      BY <1>1, <1>2
    <2>2. t - Len(d) = h
      BY <1>1, <1>2
    <2>3. \A i \in 1 .. Len(d) : t - Len(d) + i = h + i
      BY <1>1, <1>2
    <2>4. \A i \in 1 .. Len(d) : text[t - Len(d) + i] = d[i]
      BY <1>2, <2>3 DEF Matched
    <2> QED BY <2>1, <2>4, Zenon DEF Occurs
  <1>4. ASSUME NEW o \in S PROVE t <= o
    <2> SUFFICES ASSUME ~(t <= o) PROVE FALSE
      OBVIOUS
    <2> DEFINE p == o - Len(d)
    <2>1. o \in (base + Len(d)) .. Len(text)
      BY DEF Occurs
    <2>2. \A i \in 1 .. Len(d) : text[p + i] = d[i]
      BY DEF Occurs
    <2>3. p \in base .. (h - 1)
      BY <1>1, <1>2, <2>1
    <2> HIDE DEF p, S
    <2>4. CASE p < tell
      <3>1. p \in base .. (tell - 1)
        BY <1>1, <2>3, <2>4
      <3>2. \E i \in 1 .. Len(d) : text[p + i] # d[i]
        BY <3>1 DEF Passed
      <3> QED BY <2>2, <3>2
    <2>5. CASE p >= tell
      <3>1. p \in tell .. (h - 1)
        BY <1>1, <1>2, <2>3, <2>5
      <3>2. Refuted(p, e, d)
        BY <1>2, <3>1
      <3> QED BY <2>2, <3>2 DEF Refuted
    <2> QED BY <1>1, <2>3, <2>4, <2>5
  <1>5. S \in SUBSET Nat
    BY <1>1 DEF Occurs
  <1> HIDE DEF S
  <1>6. Min(S) \in S /\ \A o \in S : Min(S) <= o
    BY <1>3, <1>5, MinOf
  <1>7. Min(S) \in Nat /\ Min(S) <= t /\ t <= Min(S)
    BY <1>3, <1>4, <1>5, <1>6
  <1>8. Min(S) = t
    BY <1>7
  <1> QED BY <1>3, <1>8, Zenon DEF FoundStep, S

\* A request is refused only after all of what is within reach has been seen.
LEMMA RefusedRightly ==
  ASSUME NEW d, Len(d) \in Nat, Invariant, Passed(d),
         NEW e \in Nat, NEW t \in Nat, NEW r \in Code,
         end <= e, e <= sent, e <= base + MaxIn, MissedIt(d, e, t, r), phase' = "failed",
         phase # "failed"
  PROVE  RefusedStep(d)
  <1>1. /\ base \in Nat /\ end \in Nat /\ sent \in Nat /\ Len(text) \in Nat
        /\ sent <= Len(text) /\ tell \in base .. end /\ MaxIn \in Nat /\ tell \in Nat
    BY Numbers DEF Invariant, InputIntact
  <1>2. Occurs(d, base, e) = {}
    <2>1. \A p \in tell .. (e - Len(d)) : ~Matched(p, d)
      BY Zenon DEF MissedIt
    <2>2. \A p \in base .. (tell - 1) : Refuted(p, e, d)
      <3> SUFFICES ASSUME NEW p \in base .. (tell - 1) PROVE Refuted(p, e, d)
        OBVIOUS
      <3>1. PICK i \in 1 .. Len(d) : p + i <= end /\ text[p + i] # d[i]
        BY DEF Passed
      <3>2. p \in Int /\ i \in Int
        BY <1>1
      <3>3. p + i <= e
        BY <1>1, <3>1, <3>2
      <3> QED BY <3>1, <3>3 DEF Refuted
    <2> QED BY <1>1, <2>1, <2>2, NoOccurrence
  <1>3. NotFound(e, r) \in Code \ {"OK", "ERR"} /\ law_sync(NotFound(e, r))
    BY DEF NotFound, Code, MissedIt
  <1>4. res' = NotFound(e, r)
    BY <1>3, SyncEnds
  <1>5. ASSUME res' = "OOB" PROVE Occurs(d, base, Min({base + MaxIn, Len(text)})) = {}
    <2>1. e = base + MaxIn
      <3>1. CASE e - base >= MaxIn
        BY <1>1, <3>1
      <3>2. CASE r = "OOB"
        BY <3>2 DEF MissedIt
      <3> QED BY <1>4, <1>5, <3>1, <3>2 DEF NotFound
    <2> DEFINE S == {base + MaxIn, Len(text)}
    <2>2. S \in SUBSET Nat /\ S # {} /\ e \in S /\ \A y \in S : e <= y
      BY <1>1, <2>1
    <2> HIDE DEF S
    <2>3. Min(S) \in S /\ \A y \in S : Min(S) <= y
      BY <2>2, MinOf
    <2>4. Min(S) \in Nat /\ Min(S) <= e /\ e <= Min(S)
      BY <2>2, <2>3
    <2>5. Min(S) = e
      BY <2>4
    <2> QED BY <1>2, <2>5, Zenon DEF S
  <1>6. ASSUME res' = "EOF" PROVE Occurs(d, base, sent) = {}
    <2>1. r = "EOF"
      BY <1>4, <1>6 DEF NotFound
    <2>2. e = sent
      BY <2>1 DEF MissedIt
    <2> QED BY <1>2, <2>2
  <1> QED BY <1>5, <1>6 DEF RefusedStep

\* The step of ScanExact.
LEMMA ScanStep ==
  ASSUME Invariant, [Next]_vars, phase \in Scanning
  PROVE  /\ phase' = After[phase] => FoundStep(Delim[phase])
         /\ phase' = "failed" => RefusedStep(Delim[phase])
  <1> DEFINE d == Delim[phase]
  <1>1. Len(d) \in Nat /\ After[phase] # phase /\ After[phase] # "failed" /\ phase # "failed"
    BY Delims DEF Scanning
  <1>2. Passed(d)
    BY DEF Invariant, Scanned
  <1>3. CASE law_htc_read_scan
    <2> HIDE DEF d
    <2>1. PICK e \in Nat, t \in Nat :
            /\ end' = e /\ tell' = t /\ end <= e /\ e <= sent /\ e <= base + MaxIn
            /\ \/ FoundIt(d, e, t)
               \/ \E r \in Code : MissedIt(d, e, t, r)
               \/ BrokeOff(t)
      BY <1>3, ReadScan, Zenon DEF d
    <2>2. CASE FoundIt(d, e, t)
      <3>1. FoundStep(d)
        BY <1>1, <1>2, <2>1, <2>2, FoundFirst, Zenon
      <3>2. phase' = After[phase]
        BY <2>2 DEF FoundIt
      <3> QED BY <1>1, <3>1, <3>2, Zenon DEF d
    <2>3. CASE \E r \in Code : MissedIt(d, e, t, r)
      <3>1. PICK r \in Code : MissedIt(d, e, t, r)
        BY <2>3
      <3>2. phase' = "failed" => RefusedStep(d)
        BY <1>1, <1>2, <2>1, <3>1, RefusedRightly, Zenon
      <3>3. NotFound(e, r) \in Code \ {"OK", "ERR"} /\ law_sync(NotFound(e, r))
        BY <3>1 DEF NotFound, Code, MissedIt
      <3>4. phase' = phase \/ phase' = "failed"
        BY <3>3, SyncEnds
      <3> QED BY <1>1, <3>2, <3>4, Zenon DEF d
    <2>4. CASE BrokeOff(t)
      <3>1. phase' = "failed" /\ res' = "ERR"
        BY <2>4, SyncEnds DEF BrokeOff, Code
      <3> QED BY <1>1, <3>1 DEF RefusedStep
    <2> QED BY <2>1, <2>2, <2>3, <2>4, Zenon
  <1>4. CASE law_sync_expired
    <2>1. phase' = "failed" /\ res' = "TIME"
      BY <1>4 DEF law_sync_expired
    <2> QED BY <1>1, <2>1 DEF RefusedStep
  <1>5. CASE Send \/ Shut \/ Receive \/ UNCHANGED vars
    <2>1. phase' = phase
      BY <1>5 DEF Send, Shut, Receive, vars
    <2> QED BY <1>1, <2>1
  <1>6. law_htc_read_scan \/ law_sync_expired \/ Send \/ Shut \/ Receive \/ UNCHANGED vars
    BY DEF Next, Scanning, MoreBody, law_htc_ensure_input, Announce, law_htc_ensure_output,
           EndReply, law_htc_flush, Ended
  <1> QED BY <1>3, <1>4, <1>5, <1>6

\* However the socket cuts the input into pieces, law_htc_read_scan ends an
\* element with the first delimiter, and refuses a request as too long, or as
\* ended by the client, only if there is none within reach.
THEOREM ScanExactCorrect == Spec => ScanExact
  <1>1. Invariant /\ [Next]_vars =>
          [(phase \in Scanning) =>
             /\ phase' = After[phase] => FoundStep(Delim[phase])
             /\ phase' = "failed" => RefusedStep(Delim[phase])]_vars
    BY ScanStep, Zenon
  <1> QED BY <1>1, InvariantAlways, PTL DEF Spec, ScanExact
=============================================================================
