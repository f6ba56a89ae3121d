---------------------------- MODULE SlotSearch ----------------------------
(***************************************************************************)
(* DBManager::FindNextAvailableContainerSlot as the code has it: a query,  *)
(* then a walk over its rows with a counter next to them.  ItemTable gives *)
(* the handlers the result in one expression.                              *)
(***************************************************************************)
EXTENDS ItemTable, Sequences, FiniteSetsExt

\* The slots in use, in ascending order: below the n-th are fewer than n rows, up
\* to it at least n.
Query(db, c, p) ==
    LET rows == {r \in Rows(db, c, p) : r.slot >= FirstSlot(p)}
    IN  [n \in 1..Cardinality(rows) |->
            CHOOSE s \in {r.slot : r \in rows} :
                /\ Cardinality({r \in rows : r.slot < s}) < n
                /\ Cardinality({r \in rows : r.slot <= s}) >= n]

\* Mutant: a slot in use is taken for free.
WalkPast(pT, first) ==
    LET stops == {i \in DOMAIN pT : first + i - 1 <= pT[i]}
    IN  first + (IF stops = {} THEN Len(pT) ELSE Min(stops) - 1)

\* Row i is compared with posSlot = first + i - 1; the walk stops at the first
\* row above it, or at the end.
Walk(pT, first) ==
    LET stops == {i \in DOMAIN pT : first + i - 1 < pT[i]}
    IN  first + (IF stops = {} THEN Len(pT) ELSE Min(stops) - 1)

SlotFound(db, c, p) ==
    LET pT == Query(db, c, p)
    IN  IF Len(pT) = 0 THEN 0 ELSE Walk(pT, FirstSlot(p))

-----------------------------------------------------------------------------
(* Properties.                                                             *)

\* The walk returns what FindNextAvailableContainerSlot of ItemTable says, and
\* that is the lowest free slot from the container's first one on, unless
\* nothing is in use there.
LowestFree ==
    \A c \in Toons, p \in {r.parent : r \in items} \cup {INV_TOONINV} :
        LET taken == {r.slot : r \in Rows(items, c, p)}
            free  == (FirstSlot(p)..(FirstSlot(p) + Cardinality(items))) \ taken
        IN  /\ FindNextAvailableContainerSlot(items, c, p) = SlotFound(items, c, p)
            /\ Len(Query(items, c, p)) > 0 => SlotFound(items, c, p) = Min(free)
=============================================================================
