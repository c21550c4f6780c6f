----------------------------- MODULE MCHttpEntry -----------------------------
(* Small instances of HttpEntry for TLC. *)
EXTENDS HttpEntry, TLC

CONSTANTS r1, r2, r3

MCReq == {r1, r2, r3}
=============================================================================
