----------------------------- MODULE MCSendBuf -----------------------------
(* Small instances of SendBuf for TLC. *)
EXTENDS SendBuf, TLC

CONSTANTS p1, p2, p3, d1, d2

\* Two packets for one destination, one for another.
MCdst == (p1 :> d1) @@ (p2 :> d1) @@ (p3 :> d2)

MCdst2 == (p1 :> d1) @@ (p2 :> d2)
=============================================================================
