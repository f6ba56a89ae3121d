--------------------------- MODULE ItemTable_proofs ---------------------------
(***************************************************************************)
(* What TLAPS proves of the operators of ItemTable: the slot search stops  *)
(* and finds a free slot, and what each SQL statement does to the types of *)
(* the rows, to the rows of the other characters, and to the rule that     *)
(* there is one item to a slot.                                            *)
(***************************************************************************)
EXTENDS ItemTable, FiniteSetTheorems, TLAPS

\* A table the database can hold.
Table(db) == db \subseteq Row /\ IsFiniteSet(db)

\* The rows of the other characters are as before.
OthersKeep(c, old, new) == \A o \in Toons \ {c} : Owned(new, o) = Owned(old, o)

\* SlotsUnique, of a table.
OneToASlot(db) ==
    \A r, s \in db :
        (/\ r.owner = s.owner
         /\ r.parent = s.parent
         /\ r.slot = s.slot
         /\ Named(r.parent, r.slot)) => r = s

\* NothingInHotswap, of a table.
NoneInTransit(db) == \A r \in db : r.parent # INV_HOTSWAPTEMP

Tidy(db) == OneToASlot(db) /\ NoneInTransit(db)

\* What every handler of character c is to do: keep the types, leave the rows
\* of the others alone, leave a tidy table tidy.
Sound(c, old, new) ==
    /\ Table(new)
    /\ OthersKeep(c, old, new)
    /\ Tidy(old) => Tidy(new)

-----------------------------------------------------------------------------
(* Sets.                                                                   *)

\* A set of natural numbers that is not empty has a least element.
LEMMA LeastNumber ==
    ASSUME NEW M, M \subseteq Nat, M # {}
    PROVE  \E m \in M : \A n \in M : m <= n
<1> DEFINE T == {1..n : n \in M}
<1>1. T \subseteq FiniteSubsetsOf(Nat)
  <2>1. \A n \in M : IsFiniteSet(1..n) BY FS_Interval
  <2> QED BY <2>1 DEF FiniteSubsetsOf
<1>2. \E x \in T : \A y \in T : ~ (<<y, x>> \in StrictSubsetOrdering(Nat))
  <2>1. T # {} OBVIOUS
  <2>2. IsWellFoundedOn(StrictSubsetOrdering(Nat), FiniteSubsetsOf(Nat))
    BY FS_StrictSubsetOrderingWellFounded
  <2> HIDE DEF T
  <2> QED BY <1>1, <2>1, <2>2, WFMin
<1>3. PICK m \in M : \A n \in M : ~ (<<1..n, 1..m>> \in StrictSubsetOrdering(Nat))
  BY <1>2
<1>4. ASSUME NEW n \in M, n < m PROVE FALSE
  <2>1. 1..n \subseteq 1..m /\ m \in 1..m /\ m \notin 1..n BY <1>4
  <2>2. 1..n \in SUBSET Nat /\ 1..m \in SUBSET Nat BY <1>4
  <2> QED BY <1>3, <2>1, <2>2 DEF StrictSubsetOrdering
<1> QED BY <1>4

\* Induction over the natural numbers, as a fact about sets of them.
LEMMA Induction ==
    ASSUME NEW S, 0 \in S, \A n \in Nat : n \in S => n + 1 \in S
    PROVE  Nat \subseteq S
<1> SUFFICES ASSUME Nat \ S # {} PROVE FALSE OBVIOUS
<1>1. PICK m \in Nat \ S : \A n \in Nat \ S : m <= n BY LeastNumber
<1>2. m # 0 /\ m - 1 \in Nat /\ ~ (m <= m - 1) BY <1>1
<1>3. m - 1 \in S BY <1>1, <1>2
<1> QED BY <1>1, <1>2, <1>3

\* What a function makes of the elements of a finite set is finite.
LEMMA FiniteImage ==
    ASSUME NEW S, IsFiniteSet(S), NEW f, NEW U, \A u \in U : \E x \in S : u = f[x]
    PROVE  IsFiniteSet(U)
<1> DEFINE T == {f[x] : x \in S}
           g == [x \in S |-> f[x]]
<1>1. g \in Surjection(S, T) BY DEF Surjection
<1>2. IsFiniteSet(T)
  <2> HIDE DEF g, T
  <2> QED BY <1>1, FS_Surjection
<1>3. U \in SUBSET T OBVIOUS
<1> HIDE DEF T
<1> QED BY <1>2, <1>3, FS_Subset

-----------------------------------------------------------------------------
(* The slot search.                                                        *)

\* The rows the search looks at, and those of them up to the counter n.
Used(db, o, p) == {r \in Rows(db, o, p) : r.slot >= FirstSlot(p)}

Low(db, o, p, n) == {r \in Used(db, o, p) : r.slot <= FirstSlot(p) + n}

\* The counter stops at n.
Stops(db, o, p, n) ==
    /\ Cardinality(Low(db, o, p, n)) <= n
    /\ \A m \in 0..(n - 1) : Cardinality(Low(db, o, p, m)) > m

\* These rows are finitely many.
LEMMA UsedFacts ==
    ASSUME NEW db, Table(db), NEW o, NEW p
    PROVE  /\ FirstSlot(p) \in Nat
           /\ \A r \in Used(db, o, p) : r.slot \in Nat /\ r.slot >= FirstSlot(p)
           /\ IsFiniteSet(Used(db, o, p)) /\ Cardinality(Used(db, o, p)) \in Nat
           /\ \A n : /\ Low(db, o, p, n) \subseteq Used(db, o, p)
                     /\ IsFiniteSet(Low(db, o, p, n))
                     /\ Cardinality(Low(db, o, p, n)) \in Nat
                     /\ Cardinality(Low(db, o, p, n)) <= Cardinality(Used(db, o, p))
<1>1. FirstSlot(p) \in Nat BY SlotAssumption DEF FirstSlot
<1>2. \A r \in Used(db, o, p) : r.slot \in Nat /\ r.slot >= FirstSlot(p)
  BY DEF Used, Rows, Table, Row
<1>3. Used(db, o, p) \in SUBSET db BY DEF Used, Rows
<1>4. IsFiniteSet(Used(db, o, p)) /\ Cardinality(Used(db, o, p)) \in Nat
  BY <1>3, FS_Subset, FS_CardinalityType DEF Table
<1>5. \A n : Low(db, o, p, n) \in SUBSET Used(db, o, p) BY DEF Low
<1>6. ASSUME NEW n PROVE /\ IsFiniteSet(Low(db, o, p, n))
                         /\ Cardinality(Low(db, o, p, n)) \in Nat
                         /\ Cardinality(Low(db, o, p, n)) <= Cardinality(Used(db, o, p))
  BY <1>4, <1>5, FS_Subset, FS_CardinalityType
<1> QED BY <1>1, <1>2, <1>4, <1>5, <1>6

\* The counter stops, at the number of rows at the latest.
LEMMA SearchStops ==
    ASSUME NEW db, Table(db), NEW o, NEW p
    PROVE  \E n \in 0..Cardinality(Used(db, o, p)) : Stops(db, o, p, n)
<1> DEFINE M == {n \in Nat : Cardinality(Low(db, o, p, n)) <= n}
<1>1. Cardinality(Used(db, o, p)) \in M BY UsedFacts
<1>2. M \subseteq Nat /\ M # {} BY <1>1
<1>3. PICK n \in M : \A m \in M : n <= m
  <2> HIDE DEF M
  <2> QED BY <1>2, LeastNumber
<1>4. n \in Nat /\ n <= Cardinality(Used(db, o, p)) BY <1>1, <1>3
<1>5. ASSUME NEW m \in 0..(n - 1) PROVE Cardinality(Low(db, o, p, m)) > m
  <2>1. m \in Nat /\ m \notin M BY <1>3, <1>4
  <2>2. Cardinality(Low(db, o, p, m)) \in Nat BY UsedFacts
  <2>3. ~ (Cardinality(Low(db, o, p, m)) <= m) BY <2>1
  <2> QED BY <2>1, <2>2, <2>3
<1>6. Stops(db, o, p, n) BY <1>3, <1>5 DEF Stops
<1>7. n \in 0..Cardinality(Used(db, o, p)) BY <1>4, UsedFacts
<1> QED BY <1>6, <1>7

\* Where the counter stops no item is.
LEMMA StopsAtFree ==
    ASSUME NEW db, Table(db), NEW o, NEW p, NEW n \in Nat, Stops(db, o, p, n),
           NEW r \in Used(db, o, p), r.slot = FirstSlot(p) + n
    PROVE  FALSE
<1>1. r \in Low(db, o, p, n) BY UsedFacts DEF Low
<1>2. CASE n = 0
  <2>1. Cardinality(Low(db, o, p, n)) = 0 BY <1>2, UsedFacts DEF Stops
  <2>2. Low(db, o, p, n) = {} BY <2>1, UsedFacts, FS_EmptySet
  <2> QED BY <2>2, <1>1
<1>3. CASE n # 0
  <2>1. n - 1 \in Nat /\ n - 1 \in 0..(n - 1) BY <1>3
  <2>2. Low(db, o, p, n - 1) \in SUBSET Low(db, o, p, n) BY UsedFacts DEF Low
  <2>3. r \notin Low(db, o, p, n - 1) BY UsedFacts DEF Low
  <2>4. Cardinality(Low(db, o, p, n - 1)) <= Cardinality(Low(db, o, p, n))
    BY <2>2, UsedFacts, FS_Subset
  <2>5. Cardinality(Low(db, o, p, n - 1)) > n - 1 /\ Cardinality(Low(db, o, p, n)) <= n
    BY <2>1 DEF Stops
  <2>6. Cardinality(Low(db, o, p, n - 1)) = Cardinality(Low(db, o, p, n))
    BY <2>4, <2>5, UsedFacts
  <2>7. Low(db, o, p, n - 1) = Low(db, o, p, n) BY <2>2, <2>6, UsedFacts, FS_Subset
  <2> QED BY <2>3, <2>7, <1>1
<1> QED BY <1>2, <1>3

\* FindNextAvailableContainerSlot finds a slot, and no item is there, but for an
\* empty inventory, where it finds slot 0.
THEOREM FreeSlotFound ==
    ASSUME NEW db, Table(db), NEW o, NEW p
    PROVE  /\ FindNextAvailableContainerSlot(db, o, p) \in Nat
           /\ \/ ~ Named(p, FindNextAvailableContainerSlot(db, o, p))
              \/ RowsAt(db, o, p, FindNextAvailableContainerSlot(db, o, p)) = {}
<1> DEFINE k == CHOOSE n \in 0..Cardinality(Used(db, o, p)) : Stops(db, o, p, n)
<1>1. FindNextAvailableContainerSlot(db, o, p)
        = IF Used(db, o, p) = {} THEN 0 ELSE FirstSlot(p) + k
  BY DEF FindNextAvailableContainerSlot, Used, Stops, Low, FirstSlot
<1>2. k \in 0..Cardinality(Used(db, o, p)) /\ Stops(db, o, p, k) BY SearchStops
<1>3. k \in Nat BY <1>2, UsedFacts
<1> HIDE DEF k
<1>4. CASE Used(db, o, p) = {}
  <2>1. p = INV_TOONINV \/ RowsAt(db, o, p, 0) = {}
    BY <1>4 DEF Used, Rows, RowsAt, FirstSlot
  <2> QED BY <1>1, <1>4, <2>1 DEF Named
<1>5. CASE Used(db, o, p) # {}
  <2>1. \A r \in RowsAt(db, o, p, FirstSlot(p) + k) :
            r \in Used(db, o, p) /\ r.slot = FirstSlot(p) + k
    <3>1. FirstSlot(p) \in Nat BY UsedFacts
    <3> QED BY <3>1, <1>3 DEF RowsAt, Rows, Used
  <2>2. RowsAt(db, o, p, FirstSlot(p) + k) = {} BY <2>1, <1>2, <1>3, StopsAtFree
  <2> QED BY <1>1, <1>3, <1>5, <2>2, UsedFacts
<1> QED BY <1>4, <1>5

\* The search goes no further than the number of rows it has walked past.
LEMMA SlotBound ==
    ASSUME NEW db, Table(db), NEW o, NEW p
    PROVE  FindNextAvailableContainerSlot(db, o, p)
             <= FirstSlot(p) + Cardinality(Used(db, o, p))
<1> DEFINE k == CHOOSE n \in 0..Cardinality(Used(db, o, p)) : Stops(db, o, p, n)
<1>1. FindNextAvailableContainerSlot(db, o, p)
        = IF Used(db, o, p) = {} THEN 0 ELSE FirstSlot(p) + k
  BY DEF FindNextAvailableContainerSlot, Used, Stops, Low, FirstSlot
<1>2. k \in 0..Cardinality(Used(db, o, p)) BY SearchStops
<1> HIDE DEF k
<1> QED BY <1>1, <1>2, UsedFacts

-----------------------------------------------------------------------------
(* The statements.                                                         *)

\* Two sound steps are one.
LEMMA SoundTwice ==
    ASSUME NEW c, NEW db1, NEW db2, NEW db3, Sound(c, db1, db2), Sound(c, db2, db3)
    PROVE  Sound(c, db1, db3)
BY DEF Sound, OthersKeep

\* A deletion of rows of one character.
LEMMA DeleteFacts ==
    ASSUME NEW db, Table(db), NEW c \in Toons, NEW R, R \subseteq Owned(db, c)
    PROVE  Sound(c, db, db \ R)
<1>1. db \ R \in SUBSET db OBVIOUS
<1>2. Table(db \ R) BY <1>1, FS_Subset DEF Table
<1>3. OthersKeep(c, db, db \ R) BY DEF OthersKeep, Owned
<1>4. Tidy(db) => Tidy(db \ R) BY DEF Tidy, OneToASlot, NoneInTransit
<1> QED BY <1>2, <1>3, <1>4 DEF Sound

\* An update replaces the rows R by U, what f makes of them: rows of the same
\* owner.
LEMMA UpdateFacts ==
    ASSUME NEW db, Table(db), NEW c \in Toons, NEW R, R \subseteq Owned(db, c),
           NEW f, NEW U, \A u \in U : \E r \in R : u = f[r],
           \A r \in R : f[r] \in Row /\ f[r].owner = c
    PROVE  Table((db \ R) \cup U) /\ OthersKeep(c, db, (db \ R) \cup U)
<1> DEFINE new == (db \ R) \cup U
<1>1. R \in SUBSET db /\ db \ R \in SUBSET db BY DEF Owned
<1>2. IsFiniteSet(R) /\ IsFiniteSet(db \ R) BY <1>1, FS_Subset DEF Table
<1>3. IsFiniteSet(U) BY <1>2, FiniteImage
<1>4. IsFiniteSet((db \ R) \cup U) BY <1>2, <1>3, FS_Union
<1>5. Table(new) BY <1>4, <1>1 DEF Table
<1>6. ASSUME NEW o \in Toons \ {c} PROVE Owned(new, o) = Owned(db, o)
  <2>1. \A r \in new : r.owner = o => r \in db OBVIOUS
  <2>2. \A r \in db : r.owner = o => r \in new BY DEF Owned
  <2> HIDE DEF new
  <2> QED BY <2>1, <2>2 DEF Owned
<1> QED BY <1>5, <1>6 DEF OthersKeep

\* An update that leaves the rows in their places leaves the table tidy.
LEMMA InPlaceFacts ==
    ASSUME NEW db, Tidy(db), NEW R, R \subseteq db,
           NEW f, NEW U, \A u \in U : \E r \in R : u = f[r],
           \A r \in R : /\ f[r].owner = r.owner
                        /\ f[r].parent = r.parent /\ f[r].slot = r.slot
    PROVE  Tidy((db \ R) \cup U)
<1> DEFINE new == (db \ R) \cup U
<1>6. NoneInTransit(new) BY DEF Tidy, NoneInTransit
<1> SUFFICES ASSUME NEW r \in new, NEW u \in new,
                    r.owner = u.owner, r.parent = u.parent, r.slot = u.slot,
                    Named(r.parent, r.slot)
             PROVE  r = u
  BY <1>6 DEF Tidy, OneToASlot
<1>1. \A x, y \in db : (/\ x.owner = y.owner /\ x.parent = y.parent
                        /\ x.slot = y.slot /\ Named(x.parent, x.slot)) => x = y
  BY DEF Tidy, OneToASlot
<1>2. CASE r \in db \ R /\ u \in db \ R BY <1>1, <1>2
<1>3. CASE r \in U /\ u \in U
  <2>1. PICK x \in R : r = f[x] BY <1>3
  <2>2. PICK y \in R : u = f[y] BY <1>3
  <2>3. x = y BY <2>1, <2>2, <1>1
  <2> QED BY <2>1, <2>2, <2>3
<1>4. CASE r \in db \ R /\ u \in U
  <2>1. PICK y \in R : u = f[y] BY <1>4
  <2>2. r = y BY <2>1, <1>1, <1>4
  <2> QED BY <2>2, <1>4
<1>5. CASE u \in db \ R /\ r \in U
  <2>1. PICK x \in R : r = f[x] BY <1>5
  <2>2. u = x BY <2>1, <1>1, <1>5
  <2> QED BY <2>2, <1>5
<1> QED BY <1>2, <1>3, <1>4, <1>5

\* A change of stacks moves nothing.
LEMMA StackFacts ==
    ASSUME NEW db, Table(db), NEW c \in Toons, NEW R, R \subseteq Owned(db, c),
           NEW n \in Stacks
    PROVE  /\ n \in Int => Sound(c, db, TakeFromStack(db, R, n))
           /\ Sound(c, db, AddToStack(db, R, n))
<1>1. R \subseteq db /\ \A r \in R : r \in Row /\ r.owner = c BY DEF Owned, Table
<1>2. ASSUME n \in Int
      PROVE  Sound(c, db, TakeFromStack(db, R, n))
  <2> DEFINE f == [r \in R |-> [r EXCEPT !.stack = Minus(r.stack, n)]]
  <2>1. \A r \in R : Minus(r.stack, n) \in Stacks
    BY <1>1, <1>2, StackAssumption DEF Row, Stacks, Minus
  <2>2. \A r \in R : /\ f[r] = [r EXCEPT !.stack = Minus(r.stack, n)]
                     /\ f[r] \in Row
                     /\ f[r].owner = r.owner
                     /\ f[r].parent = r.parent /\ f[r].slot = r.slot
    BY <1>1, <2>1 DEF Row
  <2> DEFINE U == {[r EXCEPT !.stack = Minus(r.stack, n)] : r \in R}
  <2>3. TakeFromStack(db, R, n) = (db \ R) \cup U BY DEF TakeFromStack
  <2>4. \A u \in U : \E r \in R : u = f[r] BY <2>2
  <2> HIDE DEF f, U
  <2>5. Table((db \ R) \cup U) /\ OthersKeep(c, db, (db \ R) \cup U)
    <3>1. \A r \in R : f[r] \in Row /\ f[r].owner = c BY <1>1, <2>2
    <3> QED BY <2>4, <3>1, UpdateFacts
  <2>6. Tidy(db) => Tidy((db \ R) \cup U) BY <1>1, <2>2, <2>4, InPlaceFacts
  <2> QED BY <2>3, <2>5, <2>6 DEF Sound
<1>3. Sound(c, db, AddToStack(db, R, n))
  <2> DEFINE f == [r \in R |-> [r EXCEPT !.stack = Plus(r.stack, n)]]
  <2>1. \A r \in R : Plus(r.stack, n) \in Stacks
    BY <1>1, StackAssumption DEF Row, Stacks, Plus
  <2>2. \A r \in R : /\ f[r] = [r EXCEPT !.stack = Plus(r.stack, n)]
                     /\ f[r] \in Row
                     /\ f[r].owner = r.owner
                     /\ f[r].parent = r.parent /\ f[r].slot = r.slot
    BY <1>1, <2>1 DEF Row
  <2> DEFINE U == {[r EXCEPT !.stack = Plus(r.stack, n)] : r \in R}
  <2>3. AddToStack(db, R, n) = (db \ R) \cup U BY DEF AddToStack
  <2>4. \A u \in U : \E r \in R : u = f[r] BY <2>2
  <2> HIDE DEF f, U
  <2>5. Table((db \ R) \cup U) /\ OthersKeep(c, db, (db \ R) \cup U)
    <3>1. \A r \in R : f[r] \in Row /\ f[r].owner = c BY <1>1, <2>2
    <3> QED BY <2>4, <3>1, UpdateFacts
  <2>6. Tidy(db) => Tidy((db \ R) \cup U) BY <1>1, <2>2, <2>4, InPlaceFacts
  <2> QED BY <2>3, <2>5, <2>6 DEF Sound
<1> QED BY <1>2, <1>3

\* Table to is table db after what character c had in slot t of container q
\* went to slot s of container p: each row is an old one that stayed or is there
\* now, and if nothing else was there, there is one item to a slot.
Relocated(c, db, q, t, p, s, to) ==
    /\ Table(to)
    /\ OthersKeep(c, db, to)
    /\ \A r \in to : \/ r \in db \ RowsAt(db, c, q, t)
                     \/ /\ r.owner = c /\ r.parent = p /\ r.slot = s
                        /\ RowsAt(db, c, q, t) # {}
    /\ (/\ OneToASlot(db) /\ Named(q, t)
        /\ ~ Named(p, s) \/ RowsAt(db, c, p, s) \subseteq RowsAt(db, c, q, t))
            => OneToASlot(to)

\* What Move does to the rows of one slot, for all that is to be shown of it.
LEMMA MoveFacts ==
    ASSUME NEW db, Table(db), NEW c \in Toons, NEW q, NEW t, NEW p \in Nat, NEW s \in Nat
    PROVE  Relocated(c, db, q, t, p, s, Move(db, RowsAt(db, c, q, t), p, s))
<1> DEFINE R  == RowsAt(db, c, q, t)
           f  == [r \in R |-> [r EXCEPT !.parent = p, !.slot = s]]
           to == (db \ R) \cup {f[r] : r \in R}
<1>1. \A r \in R : /\ r \in Row /\ r \in db
                   /\ r.owner = c /\ r.parent = q /\ r.slot = t
  BY DEF Table, RowsAt
<1>2. \A r \in R : /\ f[r] = [r EXCEPT !.parent = p, !.slot = s]
                   /\ f[r] \in Row
                   /\ f[r].owner = c /\ f[r].parent = p /\ f[r].slot = s
  BY <1>1 DEF Row
<1>3. Move(db, R, p, s) = to BY <1>2 DEF Move
<1>4. R \subseteq Owned(db, c) BY DEF RowsAt, Owned
<1> HIDE DEF f
<1>5. Table(to) /\ OthersKeep(c, db, to)
  <2> DEFINE U == {f[r] : r \in R}
  <2>1. \A u \in U : \E r \in R : u = f[r] OBVIOUS
  <2> HIDE DEF R, U
  <2>2. Table((db \ R) \cup U) /\ OthersKeep(c, db, (db \ R) \cup U)
    <3>1. \A r \in R : f[r] \in Row /\ f[r].owner = c BY <1>2
    <3> HIDE DEF to
    <3> QED BY <1>4, <2>1, <3>1, UpdateFacts
  <2> QED BY <2>2 DEF U
<1>6. \A r \in to : r \in db \ R \/ (r.owner = c /\ r.parent = p /\ r.slot = s /\ R # {})
  <2> HIDE DEF R
  <2> QED BY <1>2
<1>7. ASSUME OneToASlot(db), Named(q, t),
             ~ Named(p, s) \/ RowsAt(db, c, p, s) \subseteq R
      PROVE  OneToASlot(to)
  <2>1. \A r, u \in R : r = u BY <1>1, <1>7 DEF OneToASlot
  <2>2. \A r \in db \ R : r.owner = c /\ r.parent = p /\ r.slot = s => ~ Named(p, s)
    BY <1>7 DEF RowsAt
  <2> HIDE DEF R
  <2>3. \A r, u \in to : (/\ r.owner = u.owner /\ r.parent = u.parent
                          /\ r.slot = u.slot /\ Named(r.parent, r.slot)) => r = u
    <3> SUFFICES ASSUME NEW r \in to, NEW u \in to,
                        r.owner = u.owner, r.parent = u.parent, r.slot = u.slot,
                        Named(r.parent, r.slot)
                 PROVE  r = u
      OBVIOUS
    <3>1. CASE r \in db \ R /\ u \in db \ R BY <3>1, <1>7 DEF OneToASlot
    <3>2. CASE r \in {f[x] : x \in R} /\ u \in {f[x] : x \in R} BY <3>2, <2>1
    <3>3. CASE r \in db \ R /\ u \in {f[x] : x \in R}
      <4>1. u.owner = c /\ u.parent = p /\ u.slot = s BY <3>3, <1>2
      <4>2. ~ Named(r.parent, r.slot) BY ONLY <2>2, <3>3, <4>1, r.owner = u.owner, r.parent = u.parent, r.slot = u.slot
      <4> QED BY ONLY <4>2, r.parent = u.parent, r.slot = u.slot, Named(r.parent, r.slot)
    <3>4. CASE u \in db \ R /\ r \in {f[x] : x \in R}
      <4>1. r.owner = c /\ r.parent = p /\ r.slot = s BY <3>4, <1>2
      <4>2. ~ Named(u.parent, u.slot) BY ONLY <2>2, <3>4, <4>1, r.owner = u.owner, r.parent = u.parent, r.slot = u.slot
      <4> QED BY ONLY <4>2, r.parent = u.parent, r.slot = u.slot, Named(r.parent, r.slot)
    <3> QED BY <3>1, <3>2, <3>3, <3>4
  <2> QED BY <2>3 DEF OneToASlot
<1> QED BY <1>3, <1>5, <1>6, <1>7 DEF Relocated

\* New ids are free ones.
LEMMA NewIdsFree ==
    ASSUME NEW db, NEW S, RoomFor(db, S)
    PROVE  NewIds(db, S) \in [S -> FreeIds(db)]
BY DEF RoomFor, Numberings, NewIds

\* A new row goes to a free slot of container p.
LEMMA InsertFacts ==
    ASSUME NEW db, Table(db), NEW c \in Toons, NEW k \in Kinds, NEW n \in Stacks,
           NEW p \in Nat \ {INV_HOTSWAPTEMP}, NEW s \in Nat, NEW b \in Nat,
           RoomFor(db, {Item(k, n, p, s, b, c)}),
           ~ Named(p, s) \/ RowsAt(db, c, p, s) = {}
    PROVE  Sound(c, db, InsertItems(db, {Item(k, n, p, s, b, c)}))
<1> DEFINE x == Item(k, n, p, s, b, c)
           r == [id |-> NewIds(db, {x})[x], kind |-> k, stack |-> n, parent |-> p,
                 slot |-> s, children |-> b, owner |-> c]
<1>1. NewIds(db, {x})[x] \in Ids BY NewIdsFree DEF FreeIds
<1>2. r \in Row BY <1>1 DEF Row
<1>3. InsertItems(db, {x}) = db \cup {r} BY DEF InsertItems, Item
<1>4. r.owner = c /\ r.parent = p /\ r.slot = s OBVIOUS
<1> HIDE DEF r
<1>5. Table(db \cup {r}) BY <1>2, FS_AddElement DEF Table
<1>6. OthersKeep(c, db, db \cup {r}) BY <1>4 DEF OthersKeep, Owned
<1>7. OneToASlot(db) => OneToASlot(db \cup {r}) BY <1>4 DEF OneToASlot, RowsAt
<1>8. NoneInTransit(db) => NoneInTransit(db \cup {r}) BY <1>4 DEF NoneInTransit
<1> QED BY <1>3, <1>5, <1>6, <1>7, <1>8 DEF Sound, Tidy

\* What a split takes from the items in slot t of container p, for slot s.
SplitOff(db, c, p, t, n, s) ==
    {[r EXCEPT !.stack = n, !.slot = s] : r \in RowsAt(db, c, p, t)}

\* Copies of what is in one slot of a container go to a free slot of it.
LEMMA CopyFacts ==
    ASSUME NEW db, Table(db), NEW c \in Toons, NEW p, NEW t,
           NEW n \in Stacks, NEW s \in Nat,
           Named(p, t), ~ Named(p, s) \/ RowsAt(db, c, p, s) = {},
           RoomFor(db, SplitOff(db, c, p, t, n, s))
    PROVE  Sound(c, db, db \cup Copies(db, SplitOff(db, c, p, t, n, s)))
<1> DEFINE R   == RowsAt(db, c, p, t)
           f   == [r \in R |-> [r EXCEPT !.stack = n, !.slot = s]]
           new == {[r EXCEPT !.stack = n, !.slot = s] : r \in R}
           g   == [r \in new |-> [r EXCEPT !.id = NewIds(db, new)[r]]]
           all == db \cup {g[r] : r \in new}
<1>1. \A r \in R : r \in Row /\ r \in db /\ r.owner = c /\ r.parent = p /\ r.slot = t
  BY DEF Table, RowsAt
<1>2. \A r \in R : /\ f[r] = [r EXCEPT !.stack = n, !.slot = s]
                   /\ f[r] \in Row
                   /\ f[r].owner = c /\ f[r].parent = p /\ f[r].slot = s
  BY <1>1 DEF Row
<1>3. new = {f[r] : r \in R} BY <1>2
<1>4. \A r \in new : r \in Row /\ r.owner = c /\ r.parent = p /\ r.slot = s
  BY <1>2, <1>3
<1>5. \A r \in new : NewIds(db, new)[r] \in Ids
  <2>1. RoomFor(db, new) BY DEF SplitOff
  <2> HIDE DEF new
  <2>2. NewIds(db, new) \in [new -> FreeIds(db)] BY <2>1, NewIdsFree
  <2> QED BY <2>2 DEF FreeIds
<1>6. \A r \in new : /\ g[r] = [r EXCEPT !.id = NewIds(db, new)[r]]
                     /\ g[r] \in Row
                     /\ g[r].owner = c /\ g[r].parent = p /\ g[r].slot = s
  <2> SUFFICES ASSUME NEW r \in new
               PROVE  /\ g[r] = [r EXCEPT !.id = NewIds(db, new)[r]]
                      /\ g[r] \in Row
                      /\ g[r].owner = c /\ g[r].parent = p /\ g[r].slot = s
    OBVIOUS
  <2> DEFINE i == NewIds(db, new)[r]
  <2>1. i \in Ids BY <1>5
  <2>2. r \in Row /\ r.owner = c /\ r.parent = p /\ r.slot = s BY <1>4
  <2>3. g[r] = [r EXCEPT !.id = i] OBVIOUS
  <2> HIDE DEF g, i, new
  <2>4. g[r] \in Row /\ g[r].owner = c /\ g[r].parent = p /\ g[r].slot = s BY ONLY <2>1, <2>2, <2>3 DEF Row
  <2> QED BY ONLY <2>3, <2>4 DEF i
<1>7. Copies(db, new) = {g[r] : r \in new} BY <1>6 DEF Copies
<1>8. IsFiniteSet(R)
  <2>1. R \in SUBSET db BY DEF RowsAt
  <2> QED BY <2>1, FS_Subset DEF Table
<1> HIDE DEF f, g
<1> DEFINE add == {g[r] : r \in new}
<1>9. IsFiniteSet(add)
  <2>1. \A u \in new : \E r \in R : u = f[r] BY <1>3
  <2>2. \A u \in add : \E r \in new : u = g[r] OBVIOUS
  <2> HIDE DEF new, R, add
  <2>3. IsFiniteSet(new) BY <1>8, <2>1, FiniteImage
  <2> QED BY <2>2, <2>3, FiniteImage
<1> HIDE DEF new, R
<1>10. \A r \in add : r \in Row /\ r.owner = c /\ r.parent = p /\ r.slot = s BY <1>6
<1>11. Table(all) /\ OthersKeep(c, db, all)
  <2> HIDE DEF add
  <2>1. Table(db \cup add) BY <1>9, <1>10, FS_Union DEF Table
  <2>2. OthersKeep(c, db, db \cup add) BY <1>10 DEF OthersKeep, Owned
  <2> QED BY <2>1, <2>2 DEF add
<1>12. \A r \in all : r \in db \/ (r.parent = p /\ R # {})
  <2>1. R = {} => new = {} BY <1>3
  <2> QED BY <2>1, <1>6
<1>13. ASSUME OneToASlot(db) PROVE OneToASlot(all)
  <2>1. \A r, u \in R : r = u BY <1>1, <1>13 DEF OneToASlot
  <2>2. \A r, u \in new : r = u BY <2>1, <1>3
  <2>3. \A r \in db : r.owner = c /\ r.parent = p /\ r.slot = s => ~ Named(p, s)
    BY DEF RowsAt
  <2>4. \A r, u \in add : r = u BY <2>2
  <2> HIDE DEF add
  <2>5. ASSUME NEW r \in db \cup add, NEW u \in db \cup add,
               r.owner = u.owner, r.parent = u.parent, r.slot = u.slot,
               Named(r.parent, r.slot)
        PROVE  r = u
    <3>1. CASE r \in db /\ u \in db BY <1>13, <2>5, <3>1 DEF OneToASlot
    <3>2. CASE r \in add /\ u \in add BY <2>4, <3>2
    <3>3. CASE r \in db /\ u \in add BY <1>10, <2>3, <2>5, <3>3
    <3>4. CASE u \in db /\ r \in add BY <1>10, <2>3, <2>5, <3>4
    <3> QED BY <3>1, <3>2, <3>3, <3>4
  <2>6. OneToASlot(db \cup add) BY <2>5 DEF OneToASlot
  <2> QED BY <2>6 DEF add
<1>14. ASSUME NoneInTransit(db) PROVE NoneInTransit(all)
  <2>1. R # {} => p # INV_HOTSWAPTEMP BY <1>1, <1>14 DEF NoneInTransit
  <2> QED BY <2>1, <1>12, <1>14 DEF NoneInTransit
<1>15. Sound(c, db, all) BY <1>11, <1>13, <1>14 DEF Sound, Tidy
<1> QED BY <1>7, <1>15 DEF R, new, SplitOff

-----------------------------------------------------------------------------
(* The key.                                                                *)

\* A table with a key, as the database keeps it.
Keyed(db) == Table(db) /\ IdsDistinct(db)

\* An update that leaves the ids alone leaves them distinct.
LEMMA IdsKept ==
    ASSUME NEW db, IdsDistinct(db), NEW R, R \subseteq db,
           NEW f, NEW U, \A u \in U : \E r \in R : u = f[r],
           \A r \in R : f[r].id = r.id
    PROVE  IdsDistinct((db \ R) \cup U)
<1> SUFFICES ASSUME NEW r \in (db \ R) \cup U, NEW s \in (db \ R) \cup U, r.id = s.id
             PROVE  r = s
  BY DEF IdsDistinct
<1>1. \A x, y \in db : x.id = y.id => x = y BY DEF IdsDistinct
<1>2. CASE r \in db \ R /\ s \in db \ R BY <1>1, <1>2
<1>3. CASE r \in U /\ s \in U
  <2>1. PICK x \in R : r = f[x] BY <1>3
  <2>2. PICK y \in R : s = f[y] BY <1>3
  <2>3. x = y BY <2>1, <2>2, <1>1
  <2> QED BY <2>1, <2>2, <2>3
<1>4. CASE r \in db \ R /\ s \in U
  <2>1. PICK y \in R : s = f[y] BY <1>4
  <2> QED BY <2>1, <1>1, <1>4
<1>5. CASE s \in db \ R /\ r \in U
  <2>1. PICK x \in R : r = f[x] BY <1>5
  <2> QED BY <2>1, <1>1, <1>5
<1> QED BY <1>2, <1>3, <1>4, <1>5

\* A deletion leaves the ids distinct.
LEMMA DeletionKeyed ==
    ASSUME NEW db, Keyed(db), NEW R
    PROVE  Keyed(db \ R)
<1>1. db \ R \in SUBSET db OBVIOUS
<1>2. Table(db \ R) BY <1>1, FS_Subset DEF Keyed, Table
<1> QED BY <1>2 DEF Keyed, IdsDistinct

\* New rows have new ids.
LEMMA InsertionKeyed ==
    ASSUME NEW db, Keyed(db), NEW S, IsFiniteSet(S), RoomFor(db, S),
           \A x \in S : /\ x.kind \in Kinds /\ x.stack \in Stacks /\ x.parent \in Nat
                        /\ x.slot \in Nat /\ x.children \in Nat /\ x.owner \in Toons
    PROVE  Keyed(InsertItems(db, S))
<1> DEFINE g == NewIds(db, S)
           f == [x \in S |-> [id |-> g[x], kind |-> x.kind, stack |-> x.stack,
                              parent |-> x.parent, slot |-> x.slot,
                              children |-> x.children, owner |-> x.owner]]
           U == {f[x] : x \in S}
<1>1. g \in [S -> FreeIds(db)] /\ \A x, y \in S : g[x] = g[y] => x = y
  BY DEF RoomFor, Numberings, NewIds
<1>2. InsertItems(db, S) = db \cup U BY DEF InsertItems
<1> HIDE DEF g
<1>3. \A x \in S : f[x] \in Row /\ f[x].id = g[x] /\ g[x] \in FreeIds(db)
  <2>1. \A x \in S : g[x] \in FreeIds(db) BY <1>1
  <2>2. \A x \in S : g[x] \in Ids BY <2>1 DEF FreeIds
  <2> QED BY <2>1, <2>2 DEF Row
<1> HIDE DEF f
<1>4. IsFiniteSet(U)
  <2>1. \A u \in U : \E x \in S : u = f[x] OBVIOUS
  <2> HIDE DEF U
  <2> QED BY <2>1, FiniteImage
<1>5. Table(db \cup U) BY <1>3, <1>4, FS_Union DEF Keyed, Table
<1>6. IdsDistinct(db \cup U)
  <2> SUFFICES ASSUME NEW r \in db \cup U, NEW s \in db \cup U, r.id = s.id
               PROVE  r = s
    BY DEF IdsDistinct
  <2>1. \A x \in U : \A y \in db : x.id # y.id BY <1>3 DEF FreeIds
  <2>2. CASE r \in db /\ s \in db BY <2>2 DEF Keyed, IdsDistinct
  <2>3. CASE r \in U /\ s \in U BY <2>3, <1>1, <1>3
  <2>4. CASE r \in db /\ s \in U BY <2>1, <2>4
  <2>5. CASE r \in U /\ s \in db BY <2>1, <2>5
  <2> QED BY <2>2, <2>3, <2>4, <2>5
<1> QED BY <1>2, <1>5, <1>6 DEF Keyed

\* And so have copies.
LEMMA CopiesKeyed ==
    ASSUME NEW db, Keyed(db), NEW S, IsFiniteSet(S), S \subseteq Row, RoomFor(db, S)
    PROVE  Keyed(db \cup Copies(db, S))
<1> DEFINE g == NewIds(db, S)
           f == [x \in S |-> [x EXCEPT !.id = g[x]]]
           U == {f[x] : x \in S}
<1>1. g \in [S -> FreeIds(db)] /\ \A x, y \in S : g[x] = g[y] => x = y
  BY DEF RoomFor, Numberings, NewIds
<1>2. Copies(db, S) = U BY DEF Copies
<1> HIDE DEF g
<1>3. \A x \in S : f[x] \in Row /\ f[x].id = g[x] /\ g[x] \in FreeIds(db)
  <2>1. \A x \in S : g[x] \in FreeIds(db) BY <1>1
  <2>2. \A x \in S : g[x] \in Ids BY <2>1 DEF FreeIds
  <2> QED BY <2>1, <2>2 DEF Row
<1> HIDE DEF f
<1>4. IsFiniteSet(U)
  <2>1. \A u \in U : \E x \in S : u = f[x] OBVIOUS
  <2> HIDE DEF U
  <2> QED BY <2>1, FiniteImage
<1>5. Table(db \cup U) BY <1>3, <1>4, FS_Union DEF Keyed, Table
<1>6. IdsDistinct(db \cup U)
  <2> SUFFICES ASSUME NEW r \in db \cup U, NEW s \in db \cup U, r.id = s.id
               PROVE  r = s
    BY DEF IdsDistinct
  <2>1. \A x \in U : \A y \in db : x.id # y.id BY <1>3 DEF FreeIds
  <2>2. CASE r \in db /\ s \in db BY <2>2 DEF Keyed, IdsDistinct
  <2>3. CASE r \in U /\ s \in U BY <2>3, <1>1, <1>3
  <2>4. CASE r \in db /\ s \in U BY <2>1, <2>4
  <2>5. CASE r \in U /\ s \in db BY <2>1, <2>5
  <2> QED BY <2>2, <2>3, <2>4, <2>5
<1> QED BY <1>2, <1>5, <1>6 DEF Keyed
=============================================================================
