------------------------------- MODULE HttpConn -------------------------------
(***************************************************************************)
(* One HTTP connection: the head of a request is read through the ring     *)
(* buffer `in` by law_htc_read_scan, a part of its body by                 *)
(* law_htc_ensure_input, and a reply leaves through the ring buffer `out`  *)
(* by law_htc_ensure_output and law_htc_flush (http_conn.c, buffer.c, the  *)
(* read functions of http_server.c).                                       *)
(*                                                                         *)
(* Offsets of a pgc_buf are absolute; byte p is kept in cell p % max.  A   *)
(* cell holds the position, in its stream, of the byte last stored there,  *)
(* so that a byte overwritten too early shows.  The socket delivers and    *)
(* takes any number of bytes at a time.                                    *)
(***************************************************************************)
EXTENDS Integers, Sequences, FiniteSetsExt

CONSTANTS
  Texts,      \* what a client may send: sequences of "cr", "lf" and "x"
  MaxIn,      \* pgc_buf_max(in)
  MaxOut,     \* pgc_buf_max(out)
  Room,       \* bytes the socket takes before the client reads them
  MaxReply    \* bound on the bytes of a reply

ASSUME ConnAssumption ==
  /\ Texts \subseteq Seq({"cr", "lf", "x"})
  /\ {MaxIn, MaxOut, Room, MaxReply} \subseteq Nat \ {0}

VARIABLES
  text,       \* what this client sends
  sent,       \* how much of it has reached the socket
  shut,       \* the client has closed its side
  phase,      \* the call the request is in
  waiting,    \* law_sync waits: "no", or until the socket is "readable", "writable"
  res,        \* the error that ended the request
  base,       \* where the element that is being read begins
  need,       \* nbytes of ensure_input, ensure_output
  ring, tell, end,          \* the in buffer
  oring, otell, oend,       \* the out buffer
  room        \* bytes the socket still takes

input == <<ring, tell, end>>
output == <<oring, otell, oend>>
vars == <<text, sent, shut, phase, waiting, res, base, need, input, output, room>>

Delim == [reqline |-> <<"cr", "lf">>, headers |-> <<"cr", "lf", "cr", "lf">>]
Scanning == {"reqline", "headers"}

Init ==
  /\ text \in Texts /\ sent = 0 /\ shut = FALSE
  /\ phase = "reqline" /\ waiting = "no" /\ res = "OK" /\ base = 0 /\ need = 0
  /\ ring = [c \in 0..(MaxIn - 1) |-> -1] /\ tell = 0 /\ end = 0
  /\ oring = [c \in 0..(MaxOut - 1) |-> -1] /\ otell = 0 /\ oend = 0
  /\ room = Room

--------------------------------------------------------------------------
(***************************************************************************)
(* pgc_buf, the ring buffer of libpgenc.                                   *)
(***************************************************************************)

\* n bytes stored from position e on.
Stored(r, max, e, n) ==
  [c \in 0..(max - 1) |->
     LET new == {p \in e..(e + n - 1) : p % max = c}
     IN  IF new = {} THEN r[c] ELSE Max(new)]

\* pgc_buf_scan(delim) from offset `from` in a buffer r that ends at e: the
\* offset behind the delimiter, or the first one where it may have begun.
Byte(r, p) == text[r[p % MaxIn] + 1]

Begins(r, p, e, d) ==
  \A i \in 1..Len(d) : p + i <= e => Byte(r, p + i - 1) = d[i]

Hits(r, from, e, d) == {p \in from..(e - Len(d)) : Begins(r, p, e, d)}

pgc_buf_scan(r, from, e, d) ==
  IF Hits(r, from, e, d) # {}
  THEN Min(Hits(r, from, e, d)) + Len(d)
  ELSE Min({p \in from..e : Begins(r, p, e, d)})

--------------------------------------------------------------------------
(***************************************************************************)
(* Input.                                                                  *)
(***************************************************************************)

\* law_htc_read_data for a buffer whose offset is lo: the results with the
\* number of bytes that were read.  A TLS read may also want to write.
Avail_More(lo) == MaxIn - (end - lo) + 1
Avail(lo) == MaxIn - (end - lo)

law_htc_read_data(lo) ==
  IF Avail(lo) = 0 THEN {<<"OOB", 0>>}
  ELSE {<<"ERR", 0>>}
       \cup {<<"OK", n>> : n \in 1..Min({Avail(lo), sent - end})}
       \cup (IF sent > end THEN {}
             ELSE IF shut THEN {<<"EOF", 0>>} ELSE {<<"WANTR", 0>>, <<"WANTW", 0>>})

\* What law_htc_read_scan returns when no delimiter was found.
NotFound(e, r) ==
  IF e - base >= MaxIn THEN "OOB" ELSE IF r = "OK" THEN "WANTR" ELSE r

\* Does law_htc_read_scan look at what it has?  It does after all results
\* but a hard error.
Scans_OnlyNew(r) == r = "OK"
Scans(r) == r # "ERR"

\* Where the next scan starts.
Kept_End(r, e, d) == e
Kept(r, e, d) == pgc_buf_scan(r, tell, e, d)

\* law_sync: a call that wants to read or write is repeated when it can.
law_sync(r) ==
  \/ r = "WANTR" /\ waiting' = "readable" /\ UNCHANGED <<phase, res>>
  \/ r = "WANTW" /\ waiting' = "writable" /\ UNCHANGED <<phase, res>>
  \/ r \notin {"WANTR", "WANTW"} /\ phase' = "failed" /\ res' = r /\ waiting' = "no"

Ready ==
  \/ waiting = "no"
  \/ waiting = "readable" /\ (sent > end \/ shut)
  \/ waiting = "writable" /\ room > 0

\* The element that follows.
After == [reqline |-> "headers", headers |-> "body"]

law_htc_read_scan ==
  /\ phase \in Scanning /\ Ready
  /\ \E x \in law_htc_read_data(base) :
       LET d == Delim[phase]
           e == end + x[2]
           r == Stored(ring, MaxIn, end, x[2])
           found == Scans(x[1]) /\ Hits(r, tell, e, d) # {}
       IN  /\ ring' = r /\ end' = e
           /\ IF found
              THEN /\ tell' = pgc_buf_scan(r, tell, e, d)
                   /\ phase' = After[phase] /\ base' = tell'
                   /\ waiting' = "no" /\ res' = res
              ELSE /\ tell' = IF Scans(x[1]) THEN Kept(r, e, d) ELSE tell
                   /\ law_sync(IF Scans(x[1]) THEN NotFound(e, x[1]) ELSE x[1])
                   /\ base' = base
  /\ need' = IF phase' = "body" THEN 1 ELSE need
  /\ UNCHANGED <<text, sent, shut, output, room>>

\* cfg.on_accept asks for more of the body before it reads it.
MoreBody ==
  /\ phase = "body" /\ waiting = "no" /\ need < MaxIn
  /\ need' = need + 1
  /\ UNCHANGED <<text, sent, shut, phase, waiting, res, base, input, output, room>>

Missing(e) == e - tell < need

\* law_htc_ensure_input; after LAW_ERR_OK the callback reads nbytes.
law_htc_ensure_input ==
  /\ phase = "body" /\ Ready
  /\ \/ /\ end - tell + need > MaxIn
        /\ law_sync("OOB") /\ UNCHANGED <<input, base>>
     \/ /\ end - tell + need <= MaxIn /\ ~Missing(end)
        /\ phase' = "respond" /\ tell' = tell + need /\ base' = tell'
        /\ waiting' = "no" /\ UNCHANGED <<ring, end, res>>
     \/ /\ end - tell + need <= MaxIn /\ Missing(end)
        /\ \E x \in law_htc_read_data(tell) :
             /\ ring' = Stored(ring, MaxIn, end, x[2]) /\ end' = end + x[2]
             /\ IF x[1] = "OK" /\ ~Missing(end')
                THEN /\ phase' = "respond" /\ tell' = tell + need /\ base' = tell'
                     /\ waiting' = "no" /\ res' = res
                ELSE /\ law_sync(IF x[1] = "OK" THEN "WANTR" ELSE x[1])
                     /\ UNCHANGED <<tell, base>>
  /\ need' = IF phase' = "body" THEN need ELSE 0
  /\ UNCHANGED <<text, sent, shut, output, room>>

--------------------------------------------------------------------------
(***************************************************************************)
(* Output.                                                                 *)
(***************************************************************************)

\* law_htc_write_data: the results with the number of bytes written.
Block_Max == MaxOut
Block == oend - otell

law_htc_write_data ==
  {<<"ERR", 0>>}
  \cup {<<"OK", n>> : n \in 1..Min({Block, room})}
  \cup (IF room > 0 THEN {} ELSE {<<"WANTW", 0>>})
  \cup {<<"WANTR", 0>>}

\* The callback announces how much it will put into the buffer next.
Announce(n) ==
  /\ phase = "respond" /\ need = 0 /\ oend + n <= MaxReply
  /\ need' = n
  /\ UNCHANGED <<text, sent, shut, phase, waiting, res, base, input, output, room>>

Fits_More(o) == MaxOut - (oend - o) + 1 >= need
Fits(o) == MaxOut - (oend - o) >= need

\* law_htc_ensure_output and, after LAW_ERR_OK, pgc_buf_put of nbytes.
Put ==
  /\ oring' = Stored(oring, MaxOut, oend, need) /\ oend' = oend + need
  /\ need' = 0 /\ waiting' = "no" /\ UNCHANGED <<phase, res>>

law_htc_ensure_output ==
  /\ phase = "respond" /\ need > 0 /\ Ready
  /\ \/ need > MaxOut /\ law_sync("OOB") /\ UNCHANGED <<output, room, need>>
     \/ need <= MaxOut /\ Fits(otell) /\ Put /\ UNCHANGED <<otell, room>>
     \/ /\ need <= MaxOut /\ ~Fits(otell)
        /\ \E x \in law_htc_write_data :
             /\ otell' = otell + x[2] /\ room' = room - x[2]
             /\ IF x[1] = "OK" /\ Fits(otell')
                THEN Put
                ELSE /\ law_sync(IF x[1] = "OK" THEN "WANTW" ELSE x[1])
                     /\ UNCHANGED <<oring, oend, need>>
  /\ UNCHANGED <<text, sent, shut, base, input>>

EndReply ==
  /\ phase = "respond" /\ need = 0
  /\ phase' = "flush"
  /\ UNCHANGED <<text, sent, shut, waiting, res, base, need, input, output, room>>

Flushed(o) == oend - o = 0

law_htc_flush ==
  /\ phase = "flush" /\ Ready
  /\ \/ /\ otell = oend
        /\ phase' = "done" /\ waiting' = "no" /\ UNCHANGED <<res, otell, room>>
     \/ /\ otell # oend
        /\ \E x \in law_htc_write_data :
             /\ otell' = otell + x[2] /\ room' = room - x[2]
             /\ IF x[1] = "OK" /\ Flushed(otell')
                THEN phase' = "done" /\ waiting' = "no" /\ res' = res
                ELSE law_sync(IF x[1] = "OK" THEN "WANTW" ELSE x[1])
  /\ UNCHANGED <<text, sent, shut, base, need, input, oring, oend>>
--------------------------------------------------------------------------
(***************************************************************************)
(* The client.                                                             *)
(***************************************************************************)
Send ==
  /\ ~shut /\ sent < Len(text)
  /\ sent' = sent + 1
  /\ UNCHANGED <<text, shut, phase, waiting, res, base, need, input, output, room>>

Shut ==
  /\ ~shut
  /\ shut' = TRUE
  /\ UNCHANGED <<text, sent, phase, waiting, res, base, need, input, output, room>>

Receive ==
  /\ room < Room
  /\ room' = Room
  /\ UNCHANGED <<text, sent, shut, phase, waiting, res, base, need, input, output>>

\* The deadline of law_sync passes.
law_sync_expired ==
  /\ waiting # "no"
  /\ phase' = "failed" /\ res' = "TIME" /\ waiting' = "no"
  /\ UNCHANGED <<text, sent, shut, base, need, input, output, room>>

\* The request is over.
Ended == phase \in {"done", "failed"} /\ UNCHANGED vars

Next ==
  \/ law_htc_read_scan \/ MoreBody \/ law_htc_ensure_input
  \/ (\E n \in 1..MaxReply : Announce(n)) \/ law_htc_ensure_output
  \/ EndReply \/ law_htc_flush \/ law_sync_expired
  \/ Send \/ Shut \/ Receive \/ Ended

Spec == Init /\ [][Next]_vars

--------------------------------------------------------------------------
\* Types, and the order of the offsets.
TypeOK ==
  /\ text \in Texts /\ sent \in 0..Len(text) /\ shut \in BOOLEAN
  /\ phase \in Scanning \cup {"body", "respond", "flush", "done", "failed"}
  /\ waiting \in {"no", "readable", "writable"}
  /\ res \in {"OK", "OOB", "EOF", "ERR", "TIME"}
  /\ end \in 0..sent /\ base \in 0..end /\ need \in Nat
  /\ ring \in [0..(MaxIn - 1) -> -1..(Len(text) - 1)]
  /\ oring \in [0..(MaxOut - 1) -> -1..(MaxReply - 1)]
  /\ oend \in 0..MaxReply /\ otell \in 0..oend /\ room \in 0..Room

\* Nothing that is still needed of the input is overwritten: all bytes from
\* the begin of the current element on are in the buffer, in their cells,
\* and the offset stays among them (law_htc_read_data after the seek to base
\* in law_htc_read_scan, law_htc_ensure_input).
InputIntact ==
  /\ tell \in base..end /\ end <= base + MaxIn
  /\ \A p \in base..(end - 1) : ring[p % MaxIn] = p

\* Nothing the application has put into the output is overwritten before the
\* socket took it (law_htc_ensure_output).
OutputIntact ==
  /\ oend <= otell + MaxOut
  /\ \A p \in otell..(oend - 1) : oring[p % MaxOut] = p

\* Where the first d in what the client sends, from position `from`, ends.
Occurs(d, from, to) ==
  {p \in (from + Len(d))..to : \A i \in 1..Len(d) : text[p - Len(d) + i] = d[i]}

\* The element that is read next is found, or the request is refused.
FoundStep(d) ==
  /\ Occurs(d, base, Len(text)) # {}
  /\ tell' = Min(Occurs(d, base, Len(text)))

RefusedStep(d) ==
  /\ res' = "OOB" => Occurs(d, base, Min({base + MaxIn, Len(text)})) = {}
  /\ res' = "EOF" => Occurs(d, base, sent) = {}

\* However the input is cut into pieces, an element ends with the first
\* delimiter, and a request is refused as too long, or as ended by the
\* client, only when no delimiter lies within reach (law_htc_read_scan).
ScanExact ==
  [][(phase \in Scanning) =>
       /\ phase' = After[phase] => FoundStep(Delim[phase])
       /\ phase' = "failed" => RefusedStep(Delim[phase])]_vars

\* law_sync never waits for input while the buffer already holds the whole
\* element, also when one read brought in two elements at once.
NoMissedElement ==
  phase \in Scanning /\ waiting # "no" => Occurs(Delim[phase], base, end) = {}
=============================================================================
