-------------------------------- MODULE Tbl --------------------------------
(***************************************************************************)
(* The bounded linked list of tbl.h, which every table of DSR-UU (send     *)
(* buffer, maintenance buffer, route request table, neighbour table, link  *)
(* cache) is built from.                                                   *)
(*                                                                         *)
(* A list is the function t that gives, for every entry linked into it,    *)
(* the set of the entries ahead of it: DOMAIN t is the contents, t[e] = {} *)
(* says that e is at the head (TBL_FIRST), and the order of the links is   *)
(* the inclusion of the sets.  Unlike a sequence this form lets entries be *)
(* taken out of the middle by a set difference, so that what the list      *)
(* operations preserve can be proved without induction.  An operation that *)
(* returns "the first entry with ..." is the set holding it: empty where   *)
(* the C function returns NULL.                                            *)
(***************************************************************************)
EXTENDS Integers, FiniteSets

EmptyTbl == [e \in {} |-> {}]

Entries(t) == DOMAIN t

\* t->len, kept equal to the number of linked entries by every function.
TblLen(t) == Cardinality(DOMAIN t)

\* TBL_FULL(t): the guard of __tbl_add and __tbl_add_tail (-ENOSPC).
TblFull(t, maxLen) == TblLen(t) >= maxLen

\* Mutant: list_add, at the head.
AddHead(t, e) ==
  [x \in DOMAIN t \cup {e} |-> IF x = e THEN {} ELSE t[x] \cup {e}]

\* list_add_tail.
AddTail(t, e) == [x \in DOMAIN t \cup {e} |-> IF x = e THEN DOMAIN t ELSE t[x]]

\* The placement of __tbl_add: immediately before the first entry of S, the
\* entries that meet the criterion, or at the tail when there is none.  The
\* entries that stay ahead of e are those with no entry of S ahead of or at
\* themselves.
AddBefore(t, e, S) ==
  LET front == {x \in DOMAIN t : x \notin S /\ t[x] \cap S = {}}
  IN  [x \in DOMAIN t \cup {e} |->
         IF x = e THEN front
         ELSE IF x \in front THEN t[x] ELSE t[x] \cup {e}]

\* Mutant: the entries go, the links to them stay.
WithoutRelink(t, S) == [x \in DOMAIN t \ S |-> t[x]]

\* list_del of the entries of S: __tbl_detach, __tbl_find_detach,
\* __tbl_for_each_del, __tbl_flush.
Without(t, S) == [x \in DOMAIN t \ S |-> t[x] \ S]

\* __tbl_find with the criterion "in S": the first matching entry.
FirstOf(t, S) == {x \in DOMAIN t \cap S : t[x] \cap S = {}}

\* TBL_FIRST / __tbl_find with crit_none.
First(t) == {x \in DOMAIN t : t[x] = {}}

\* Detach and append, the "Put it last in the table" idiom.
MoveToTail(t, e) == AddTail(Without(t, {e}), e)

----------------------------------------------------------------------------
\* t is a well formed list of entries of E: the links form a strict total
\* order, that is, no entry is linked twice, lost, or part of a cycle.
IsTbl(t, E) ==
  /\ DOMAIN t \subseteq E
  /\ t \in [DOMAIN t -> SUBSET DOMAIN t]
  /\ \A x \in DOMAIN t : x \notin t[x]
  /\ \A x, y \in DOMAIN t : x \in t[y] => t[x] \subseteq t[y]
  /\ \A x, y \in DOMAIN t : x # y => x \in t[y] \/ y \in t[x]
=============================================================================
