----------------------------- MODULE MCMaintBuf -----------------------------
(* Small instances of MaintBuf for TLC. *)
EXTENDS MaintBuf, TLC

CONSTANTS h1, h2, p1, p2, RtoA, RtoB, StrayId, IdMax

\* Timeouts of the two next hops.
MCRto == (h1 :> RtoA) @@ (h2 :> RtoB)

\* One of the packets arrives with an ACK REQ of its previous hop.
MCCarried == (p1 :> {StrayId}) @@ (p2 :> {})

\* A packet can be salvaged again and again; bound the ids for TLC.
IdBound == \A h \in Hops : neigh[h].id <= IdMax
=============================================================================
