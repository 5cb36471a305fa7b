---------------------------- MODULE MCLinkCache ----------------------------
(* A small instance of LinkCache for TLC. *)
EXTENDS LinkCache

CONSTANTS n1, n2, n3, n4, CntMax

\* Routes learned from replies and requests: direct, and over one hop.
MCSrtAdded == {<<n1, n2>>, <<n1, n2, n3>>, <<n3, n1>>}

\* With a full list the counters grow for ever; bound them for TLC.
CntBound == \A x \in Addrs : cnt[x] <= CntMax
=============================================================================
