------------------------------ MODULE MCHttpConn ------------------------------
(* Small instances of HttpConn for TLC. *)
EXTENDS HttpConn

\* Every text of up to 4 bytes before a blank line or before other bytes, a
\* request line with headers and a body, and elements that are too long.
Bytes == {"cr", "lf", "x"}
Short == UNION {[1..n -> Bytes] : n \in 0..4}
MCTexts ==
  {s \o <<"cr", "lf", "cr", "lf">> : s \in Short} \cup {s \o <<"x", "x">> : s \in Short}
  \cup {<<"cr", "lf", "x", "cr", "lf", "cr", "lf", "x", "x">>,
        <<"cr", "lf", "x", "x", "x", "x", "cr", "lf", "cr", "lf">>,
        [i \in 1..8 |-> "x"]}
=============================================================================
