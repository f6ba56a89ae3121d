---------------------------- MODULE Trades_proofs ----------------------------
(***************************************************************************)
(* What TLAPS proves of Trades, for any characters, kinds, slot numbers,    *)
(* shops and tables of any size: that what an NPC keeps is gone and what it *)
(* rejects comes back, that trades with NPCs and players keep the ledger,   *)
(* leave the windows empty and one item to a slot, that trades with players *)
(* leave nothing in a backpack that is not there, and that trades with      *)
(* shops of one's own lose and double nothing.                              *)
(***************************************************************************)
EXTENDS Trades, ItemTable_proofs

\* An item is the same before and after a move.
Same(x, r) ==
    /\ r.id = x.id
    /\ r.kind = x.kind
    /\ r.children = x.children
    /\ r.owner = x.owner

\* Table new is table old after some of the items W of character c went to its
\* container p.
Shifted(c, W, p, old, new) ==
    /\ Table(new)
    /\ OthersKeep(c, old, new)
    /\ IdsDistinct(old) => IdsDistinct(new)
    /\ Tidy(old) => Tidy(new)
    /\ \A r \in new : r \in old \/ \E x \in W : Same(x, r) /\ r.parent = p
    /\ \A x \in old : x \in new \/ (x \in W /\ \E r \in new : Same(x, r) /\ r.parent = p)

\* The inventory has room for what is in the trade window.
RoomToTakeBack(db, c) ==
    Cardinality(Used(db, c, INV_TOONINV) \cup Rows(db, c, INV_TRADE))
        <= InvFull - FirstInvSlot

-----------------------------------------------------------------------------
(* Statements.                                                             *)

\* There are as many rows as ids.
LEMMA IdCount ==
    ASSUME NEW db, Keyed(db), NEW R, R \subseteq db
    PROVE  /\ IsFiniteSet(R) /\ IsFiniteSet(Id(R))
           /\ Cardinality(Id(R)) = Cardinality(R)
<1>1. IsFiniteSet(R)
  <2>1. R \in SUBSET db OBVIOUS
  <2> QED BY <2>1, FS_Subset DEF Keyed, Table
<1> DEFINE f == [r \in R |-> r.id]
<1>2. f \in [R -> Id(R)] BY DEF Id
<1>3. f \in Bijection(R, Id(R))
  <2>1. \A x, y \in R : f[x] = f[y] => x = y BY DEF Keyed, IdsDistinct
  <2>2. \A i \in Id(R) : \E x \in R : f[x] = i BY DEF Id
  <2> HIDE DEF f
  <2> QED BY <1>2, <2>1, <2>2 DEF Bijection, Injection, IsInjective, Surjection
<1>4. ExistsBijection(R, Id(R)) BY <1>3 DEF ExistsBijection
<1> QED BY <1>1, <1>4, FS_Bijection

-----------------------------------------------------------------------------
(* Moves.                                                                  *)

\* A table that stays as it is has been shifted by nothing.
LEMMA ShiftNone ==
    ASSUME NEW db, Table(db), NEW c, NEW W, NEW p
    PROVE  Shifted(c, W, p, db, db)
BY DEF Shifted, OthersKeep

\* Two shifts to the same place, the second of rows the first was to move: one
\* shift.
LEMMA ShiftTwice ==
    ASSUME NEW c, NEW W, NEW V, V \subseteq W, NEW p, NEW old, NEW mid, NEW new,
           Shifted(c, W, p, old, mid), Shifted(c, V, p, mid, new)
    PROVE  Shifted(c, W, p, old, new)
<1>1. ASSUME NEW r \in new PROVE r \in old \/ \E x \in W : Same(x, r) /\ r.parent = p
  BY DEF Shifted
<1>2. ASSUME NEW x \in old
      PROVE  x \in new \/ (x \in W /\ \E r \in new : Same(x, r) /\ r.parent = p)
  <2>1. CASE x \in mid BY <2>1 DEF Shifted
  <2>2. CASE x \notin mid
    <3>1. PICK y \in mid : Same(x, y) /\ y.parent = p /\ x \in W BY <2>2 DEF Shifted
    <3>2. y \in new \/ \E r \in new : Same(y, r) /\ r.parent = p BY DEF Shifted
    <3> QED BY <3>1, <3>2 DEF Same
  <2> QED BY <2>1, <2>2
<1> QED BY <1>1, <1>2 DEF Shifted, OthersKeep

\* What one statement moves: rows of one character, at most one in a tidy table,
\* to a free slot.
LEMMA ShiftOne ==
    ASSUME NEW db, Table(db), NEW c \in Toons, NEW R, R \subseteq Owned(db, c),
           NEW W, R \subseteq W, NEW p \in Nat \ {INV_HOTSWAPTEMP}, NEW s \in Nat,
           ~ Named(p, s) \/ RowsAt(db, c, p, s) = {},
           Tidy(db) => \A x, y \in R : x = y
    PROVE  Shifted(c, W, p, db, Move(db, R, p, s))
<1> DEFINE f  == [r \in R |-> [r EXCEPT !.parent = p, !.slot = s]]
           U  == {f[r] : r \in R}
           to == (db \ R) \cup U
<1>1. \A r \in R : r \in Row /\ r \in db /\ r.owner = c BY DEF Table, Owned
<1>2. \A r \in R : /\ f[r] \in Row /\ Same(r, f[r])
                   /\ f[r].owner = c /\ f[r].parent = p /\ f[r].slot = s
  BY <1>1 DEF Row, Same
<1>3. Move(db, R, p, s) = to BY DEF Move
<1> HIDE DEF f
<1>4. \A u \in U : \E r \in R : u = f[r] OBVIOUS
<1>5. Table(to) /\ OthersKeep(c, db, to)
  <2> HIDE DEF U
  <2>1. \A r \in R : f[r] \in Row /\ f[r].owner = c BY <1>2
  <2> QED BY <1>4, <2>1, UpdateFacts
<1>6. IdsDistinct(db) => IdsDistinct(to)
  <2> HIDE DEF U
  <2>1. \A r \in R : f[r].id = r.id BY <1>2 DEF Same
  <2>2. R \subseteq db BY <1>1
  <2> QED BY <1>4, <2>1, <2>2, IdsKept
<1>7. ASSUME Tidy(db) PROVE Tidy(to)
  <2>1. \A r \in db \ R : r.owner = c /\ r.parent = p /\ r.slot = s => ~ Named(p, s)
    BY DEF RowsAt
  <2>2. \A r, u \in U : r = u BY <1>7
  <2>3. \A u \in U : u.owner = c /\ u.parent = p /\ u.slot = s BY <1>2
  <2> HIDE DEF U
  <2>4. ASSUME NEW r \in to, NEW u \in to,
               r.owner = u.owner, r.parent = u.parent, r.slot = u.slot,
               Named(r.parent, r.slot)
        PROVE  r = u
    <3>1. CASE r \in db \ R /\ u \in db \ R BY <1>7, <2>4, <3>1 DEF Tidy, OneToASlot
    <3>2. CASE r \in U /\ u \in U BY <2>2, <3>2
    <3>3. CASE r \in db \ R /\ u \in U BY <2>1, <2>3, <2>4, <3>3
    <3>4. CASE u \in db \ R /\ r \in U BY <2>1, <2>3, <2>4, <3>4
    <3> QED BY <3>1, <3>2, <3>3, <3>4
  <2>5. OneToASlot(to) BY <2>4 DEF OneToASlot
  <2>6. NoneInTransit(to) BY <1>7, <2>3 DEF Tidy, NoneInTransit
  <2> QED BY <2>5, <2>6 DEF Tidy
<1>8. ASSUME NEW r \in to PROVE r \in db \/ \E x \in W : Same(x, r) /\ r.parent = p
  BY <1>2
<1>9. ASSUME NEW x \in db
      PROVE  x \in to \/ (x \in W /\ \E r \in to : Same(x, r) /\ r.parent = p)
  <2>1. CASE x \in R
    <3>1. f[x] \in to BY <2>1
    <3> QED BY <1>2, <2>1, <3>1
  <2> QED BY <2>1
<1> HIDE DEF to
<1> QED BY <1>3, <1>5, <1>6, <1>7, <1>8, <1>9 DEF Shifted

\* What is still among the items to be moved was there from the start.
LEMMA StillThere ==
    ASSUME NEW c, NEW W, NEW p, NEW old, NEW new, Shifted(c, W, p, old, new),
           NEW o, NEW w, w # p
    PROVE  Rows(new, o, w) \subseteq Rows(old, o, w)
BY DEF Shifted, Rows

\* While something waits in the trade window, there is room for it.
LEMMA RoomLeft ==
    ASSUME NEW c, NEW W, NEW old, NEW new, Shifted(c, W, INV_TOONINV, old, new),
           Keyed(old), W \subseteq Rows(old, c, INV_TRADE), RoomToTakeBack(old, c),
           NEW x \in Rows(new, c, INV_TRADE)
    PROVE  FindNextAvailableContainerSlot(new, c, INV_TOONINV) < InvFull
<1> DEFINE before == Used(old, c, INV_TOONINV) \cup Rows(old, c, INV_TRADE)
           now    == Used(new, c, INV_TOONINV)
<1>1. Keyed(new) BY DEF Keyed, Shifted
<1>2. before \subseteq old /\ now \subseteq new BY DEF Used, Rows
<1>3. x \in new /\ x \notin now /\ x.owner = c /\ x.parent = INV_TRADE
  BY DEF Rows, Used, INV_TOONINV, INV_TRADE
<1>4. x \in before BY StillThere DEF INV_TOONINV, INV_TRADE
<1>5. Id(now) \subseteq Id(before)
  <2> SUFFICES ASSUME NEW r \in now PROVE \E y \in before : y.id = r.id BY DEF Id
  <2>1. CASE r \in old BY <2>1 DEF Used, Rows
  <2>2. CASE r \notin old
    <3>1. PICK y \in W : Same(y, r) BY <1>2, <2>2 DEF Shifted
    <3> QED BY <3>1 DEF Same
  <2> QED BY <2>1, <2>2
<1>6. x.id \in Id(before) /\ x.id \notin Id(now)
  <2>1. \A r \in now : r.id # x.id BY <1>1, <1>2, <1>3 DEF Keyed, IdsDistinct
  <2> QED BY <1>4, <2>1 DEF Id
<1>7. /\ IsFiniteSet(Id(before)) /\ Cardinality(Id(before)) = Cardinality(before)
      /\ IsFiniteSet(Id(now)) /\ Cardinality(Id(now)) = Cardinality(now)
  <2> HIDE DEF before, now
  <2> QED BY <1>1, <1>2, IdCount
<1>8. Cardinality(Id(now)) + 1 <= Cardinality(Id(before))
  <2>1. Id(now) \cup {x.id} \in SUBSET Id(before) BY <1>5, <1>6
  <2>2. Cardinality(Id(now) \cup {x.id}) = Cardinality(Id(now)) + 1
    BY <1>6, <1>7, FS_AddElement
  <2> HIDE DEF before, now
  <2> QED BY <1>7, <2>1, <2>2, FS_Subset
<1>9. Cardinality(before) <= InvFull - FirstInvSlot BY DEF RoomToTakeBack
<1>10. FindNextAvailableContainerSlot(new, c, INV_TOONINV)
         <= FirstInvSlot + Cardinality(now)
  <2>1. FirstSlot(INV_TOONINV) = FirstInvSlot BY DEF FirstSlot
  <2> QED BY <1>1, <2>1, SlotBound DEF Keyed
<1>11. Cardinality(before) \in Nat /\ Cardinality(now) \in Nat
  <2> HIDE DEF before, now
  <2> QED BY <1>7, FS_CardinalityType
<1>12. FindNextAvailableContainerSlot(new, c, INV_TOONINV) \in Nat
  BY <1>1, FreeSlotFound DEF Keyed
<1> HIDE DEF before, now
<1> QED BY <1>7, <1>8, <1>9, <1>10, <1>11, <1>12, SlotAssumption

-----------------------------------------------------------------------------
(* Loops.                                                                  *)

\* The loop over the slots of a window takes the steps it names: the function
\* that CarryOver defines by recursion exists.
LEMMA CarryLoop ==
    ASSUME NEW db, NEW c, NEW owner, NEW w, NEW o, NEW p, NEW looks
    PROVE  \E after :
              /\ after[0] = db
              /\ \A n \in 0..LastTradeSlot :
                    after[n + 1] = CarrySlot(after[n], c, owner, w, n, o, p, looks)
              /\ CarryOver(db, c, owner, w, o, p, looks) = after[LastTradeSlot + 1]
<1> DEFINE Step(g, n) == IF n = 0 THEN db
                         ELSE CarrySlot(g[n - 1], c, owner, w, n - 1, o, p, looks)
           Loop(g, m) == g = [n \in 0..m |-> Step(g, n)]
           S == {m \in Nat : \E g : Loop(g, m)}
<1>1. 0 \in S
  <2>1. Loop([n \in 0..0 |-> db], 0) OBVIOUS
  <2> QED BY <2>1
<1>2. ASSUME NEW m \in Nat, m \in S PROVE m + 1 \in S
  <2>1. PICK g : Loop(g, m) BY <1>2
  <2> DEFINE x == CarrySlot(g[m], c, owner, w, m, o, p, looks)
             h == [n \in 0..(m + 1) |-> IF n <= m THEN g[n] ELSE x]
  <2>2. ASSUME NEW n \in 0..(m + 1) PROVE h[n] = Step(h, n)
    <3>1. CASE n = 0 BY <2>1, <3>1
    <3>2. CASE n # 0 /\ n <= m
      <4>1. n - 1 \in 0..m /\ n \in 0..m BY <3>2
      <4>2. g[n] = Step(g, n) BY <2>1, <4>1
      <4>3. h[n - 1] = g[n - 1] /\ h[n] = g[n] BY <3>2, <4>1
      <4> HIDE DEF h
      <4> QED BY <4>2, <4>3
    <3>3. CASE n = m + 1
      <4>1. h[n - 1] = g[m] /\ h[n] = x BY <3>3
      <4> HIDE DEF h
      <4> QED BY <3>3, <4>1
    <3> QED BY <3>1, <3>2, <3>3
  <2>3. Loop(h, m + 1)
    <3>1. h = [n \in 0..(m + 1) |-> h[n]] OBVIOUS
    <3> HIDE DEF h, Step
    <3> QED BY <3>1, <2>2
  <2> HIDE DEF Loop
  <2> QED BY <2>3
<1>3. Nat \subseteq S
  <2> HIDE DEF S
  <2> QED BY <1>1, <1>2, Induction
<1>4. \E g : Loop(g, LastTradeSlot + 1) BY <1>3, SlotAssumption
<1> DEFINE after == CHOOSE g : Loop(g, LastTradeSlot + 1)
<1>5. CarryOver(db, c, owner, w, o, p, looks) = after[LastTradeSlot + 1] BY DEF CarryOver
<1>6. Loop(after, LastTradeSlot + 1)
  <2> HIDE DEF Loop
  <2> QED BY <1>4
<1> HIDE DEF after
<1>7. \A n \in 0..(LastTradeSlot + 1) : after[n] = Step(after, n)
  <2> HIDE DEF Step
  <2> QED BY <1>6
<1>8. after[0] = db BY <1>7, SlotAssumption
<1>9. ASSUME NEW n \in 0..LastTradeSlot
      PROVE  after[n + 1] = CarrySlot(after[n], c, owner, w, n, o, p, looks)
  <2>1. n + 1 \in 0..(LastTradeSlot + 1) /\ n + 1 # 0 /\ (n + 1) - 1 = n BY SlotAssumption
  <2>2. after[n + 1] = Step(after, n + 1) BY <1>7, <2>1
  <2> QED BY <2>1, <2>2
<1> QED BY <1>5, <1>8, <1>9

\* One slot of a window of c, into another container of c: it is empty afterwards,
\* unless the inventory was full.
LEMMA SlotCarried ==
    ASSUME NEW db, Table(db), NEW c \in Toons, NEW w, w # INV_TOONINV, NEW s, NEW looks,
           NEW p \in Nat \ {INV_HOTSWAPTEMP}, p # w,
           NEW W, RowsAt(db, c, w, s) \subseteq W
    PROVE  LET to == CarrySlot(db, c, c, w, s, c, p, looks)
           IN  /\ Shifted(c, W, p, db, to)
               /\ (looks => FindNextAvailableContainerSlot(db, c, p) < InvFull)
                     => \A r \in Rows(to, c, w) : r.slot # s
<1> DEFINE R    == RowsAt(db, c, w, s)
           slot == FindNextAvailableContainerSlot(db, c, p)
           to   == CarrySlot(db, c, c, w, s, c, p, looks)
<1>1. slot \in Nat /\ (~ Named(p, slot) \/ RowsAt(db, c, p, slot) = {})
  BY FreeSlotFound
<1>2. CASE looks /\ slot >= InvFull
  <2>1. to = db BY <1>2 DEF CarrySlot
  <2>2. ~ (slot < InvFull) BY <1>1, <1>2, SlotAssumption
  <2> QED BY <1>2, <2>1, <2>2, ShiftNone
<1>3. CASE ~ (looks /\ slot >= InvFull)
  <2>1. \A r \in R : r \in Row /\ r.owner = c BY DEF RowsAt, Table
  <2>2. \A r \in R : [r EXCEPT !.parent = p, !.slot = slot, !.owner = c]
                       = [r EXCEPT !.parent = p, !.slot = slot]
    BY <2>1 DEF Row
  <2>3. to = Move(db, R, p, slot) BY <1>3, <2>2 DEF CarrySlot, Move
  <2>4. R \subseteq Owned(db, c) BY DEF RowsAt, Owned
  <2>5. Tidy(db) => \A x, y \in R : x = y
    BY DEF Tidy, OneToASlot, RowsAt, Named
  <2>6. \A r \in to : r \in db \ R \/ r.parent = p
    BY <2>1, <2>3 DEF Move, Row
  <2>7. \A r \in Rows(to, c, w) : r.slot # s
    BY <2>6 DEF Rows, RowsAt
  <2> HIDE DEF R, slot, to
  <2>8. R \subseteq W BY DEF R
  <2>9. Shifted(c, W, p, db, to)
    BY <1>1, <2>3, <2>4, <2>5, <2>8, ShiftOne
  <2> QED BY <2>7, <2>9 DEF to
<1> QED BY <1>2, <1>3

\* The loop over the slots of a window carries items of it to the other container,
\* and does nothing else.
LEMMA LoopShifts ==
    ASSUME NEW db, Table(db), NEW c \in Toons, NEW w, w # INV_TOONINV, NEW looks,
           NEW p \in Nat \ {INV_HOTSWAPTEMP}, p # w, NEW after, after[0] = db,
           \A n \in 0..LastTradeSlot :
              after[n + 1] = CarrySlot(after[n], c, c, w, n, c, p, looks)
    PROVE  \A n \in 0..(LastTradeSlot + 1) : Shifted(c, Rows(db, c, w), p, db, after[n])
<1> DEFINE W == Rows(db, c, w)
           Top == LastTradeSlot + 1
           S == {n \in Nat : n <= Top => Shifted(c, W, p, db, after[n])}
<1>1. 0 \in S BY ShiftNone
<1>2. ASSUME NEW n \in Nat, n \in S PROVE n + 1 \in S
  <2> SUFFICES ASSUME n + 1 <= Top PROVE Shifted(c, W, p, db, after[n + 1])
    OBVIOUS
  <2>1. n \in 0..LastTradeSlot BY SlotAssumption
  <2> DEFINE now == after[n]
             V   == Rows(now, c, w)
  <2>2. Shifted(c, W, p, db, now) BY <1>2, <2>1, SlotAssumption
  <2>3. V \subseteq W BY <2>2, StillThere
  <2>4. RowsAt(now, c, w, n) \subseteq V BY DEF RowsAt, Rows
  <2>5. Table(now) BY <2>2 DEF Shifted
  <2>6. after[n + 1] = CarrySlot(now, c, c, w, n, c, p, looks) BY <2>1
  <2> HIDE DEF W, V, now
  <2>7. Shifted(c, V, p, now, CarrySlot(now, c, c, w, n, c, p, looks))
    BY <2>4, <2>5, SlotCarried
  <2> QED BY <2>2, <2>3, <2>6, <2>7, ShiftTwice
<1>3. Nat \subseteq S
  <2> HIDE DEF S
  <2> QED BY <1>1, <1>2, Induction
<1> QED BY <1>3, SlotAssumption

\* The whole window.
LEMMA WindowShifted ==
    ASSUME NEW db, Table(db), NEW c \in Toons, NEW w, w # INV_TOONINV, NEW looks,
           NEW p \in Nat \ {INV_HOTSWAPTEMP}, p # w
    PROVE  Shifted(c, Rows(db, c, w), p, db, CarryOver(db, c, c, w, c, p, looks))
<1>1. PICK after :
         /\ after[0] = db
         /\ \A n \in 0..LastTradeSlot :
               after[n + 1] = CarrySlot(after[n], c, c, w, n, c, p, looks)
         /\ CarryOver(db, c, c, w, c, p, looks) = after[LastTradeSlot + 1]
  BY CarryLoop
<1>2. LastTradeSlot + 1 \in 0..(LastTradeSlot + 1) BY SlotAssumption
<1> QED BY <1>1, <1>2, LoopShifts

\* The whole window into the inventory: where there is room all of it goes there.
LEMMA WindowCarried ==
    ASSUME NEW db, Table(db), NEW c \in Toons,
           NEW w \in {INV_TRADE, INV_TRADEPARTNER}, NEW looks
    PROVE  LET to == CarryOver(db, c, c, w, c, INV_TOONINV, looks)
           IN  /\ Shifted(c, Rows(db, c, w), INV_TOONINV, db, to)
               /\ (/\ \A r \in Rows(db, c, w) : r.slot <= LastTradeSlot
                   /\ looks => w = INV_TRADE /\ Keyed(db) /\ RoomToTakeBack(db, c))
                      => Rows(to, c, w) = {}
<1> DEFINE W == Rows(db, c, w)
           Top == LastTradeSlot + 1
<1>1. PICK after :
         /\ after[0] = db
         /\ \A n \in 0..LastTradeSlot :
               after[n + 1] = CarrySlot(after[n], c, c, w, n, c, INV_TOONINV, looks)
         /\ CarryOver(db, c, c, w, c, INV_TOONINV, looks) = after[Top]
  BY CarryLoop
<1>2. w # INV_TOONINV /\ INV_TOONINV \in Nat \ {INV_HOTSWAPTEMP}
  BY DEF INV_TRADE, INV_TRADEPARTNER, INV_TOONINV, INV_HOTSWAPTEMP
<1>3. \A n \in 0..Top : Shifted(c, W, INV_TOONINV, db, after[n]) BY <1>1, <1>2, LoopShifts
<1>4. ASSUME \A r \in W : r.slot <= LastTradeSlot,
             looks => w = INV_TRADE /\ Keyed(db) /\ RoomToTakeBack(db, c)
      PROVE  Rows(after[Top], c, w) = {}
  <2> DEFINE T == {n \in Nat : n <= Top => \A r \in Rows(after[n], c, w) : r.slot >= n}
  <2>1. 0 \in T BY <1>1 DEF Rows, Table, Row
  <2>2. ASSUME NEW n \in Nat, n \in T PROVE n + 1 \in T
    <3> SUFFICES ASSUME n + 1 <= Top, NEW r \in Rows(after[n + 1], c, w)
                 PROVE  r.slot >= n + 1
      OBVIOUS
    <3>1. n \in 0..LastTradeSlot /\ n \in 0..Top BY SlotAssumption
    <3> DEFINE now == after[n]
               slot == FindNextAvailableContainerSlot(now, c, INV_TOONINV)
    <3>2. Shifted(c, W, INV_TOONINV, db, now) BY <1>3, <3>1
    <3>3. after[n + 1] = CarrySlot(now, c, c, w, n, c, INV_TOONINV, looks) BY <1>1, <3>1
    <3> HIDE DEF now
    <3>4. Shifted(c, Rows(now, c, w), INV_TOONINV, now, after[n + 1])
            /\ ((looks => slot < InvFull) => r.slot # n)
      <4>1. RowsAt(now, c, w, n) \subseteq Rows(now, c, w) BY DEF RowsAt, Rows
      <4>2. Table(now) BY <3>2 DEF Shifted
      <4> QED BY <1>2, <3>3, <4>1, <4>2, SlotCarried
    <3>5. r \in Rows(now, c, w) BY <1>2, <3>4, StillThere
    <3>6. r.slot >= n /\ r.slot \in Nat
      BY <2>2, <3>2, <3>5, SlotAssumption DEF now, Shifted, Table, Row, Rows
    <3>7. looks => slot < InvFull BY <1>4, <3>2, <3>5, RoomLeft
    <3> QED BY <3>4, <3>6, <3>7
  <2>3. Nat \subseteq T
    <3> HIDE DEF T
    <3> QED BY <2>1, <2>2, Induction
  <2>4. \A r \in Rows(after[Top], c, w) : r.slot >= Top BY <2>3, SlotAssumption
  <2>5. Rows(after[Top], c, w) \subseteq W BY <1>2, <1>3, StillThere, SlotAssumption
  <2>6. \A r \in W : r.slot \in Nat BY DEF Rows, Table, Row
  <2> HIDE DEF W
  <2> QED BY <1>4, <2>4, <2>5, <2>6, SlotAssumption
<1>5. Top \in 0..Top BY SlotAssumption
<1> QED BY <1>1, <1>3, <1>4, <1>5

\* One slot of a window, whoever owns it, into whosever container.
LEMMA SlotKeyed ==
    ASSUME NEW db, Keyed(db), NEW c, NEW owner, NEW w, NEW s, NEW o \in Toons,
           NEW p \in Nat, NEW looks
    PROVE  Keyed(CarrySlot(db, c, owner, w, s, o, p, looks))
<1> DEFINE R    == RowsAt(db, owner, w, s)
           slot == FindNextAvailableContainerSlot(db, c, p)
           f    == [r \in R |-> [r EXCEPT !.parent = p, !.slot = slot, !.owner = o]]
           U    == {f[r] : r \in R}
<1>1. slot \in Nat BY FreeSlotFound DEF Keyed
<1> HIDE DEF slot
<1>2. R \in SUBSET db /\ db \ R \in SUBSET db BY DEF RowsAt
<1>3. \A r \in R : r \in Row BY <1>2 DEF Keyed, Table
<1>4. \A r \in R : f[r] \in Row /\ f[r].id = r.id BY <1>1, <1>3 DEF Row
<1>5. \/ CarrySlot(db, c, owner, w, s, o, p, looks) = db
      \/ CarrySlot(db, c, owner, w, s, o, p, looks) = (db \ R) \cup U
  BY DEF CarrySlot, slot
<1>6. \A u \in U : \E r \in R : u = f[r] OBVIOUS
<1> HIDE DEF R, f, U
<1>7. IsFiniteSet(R) /\ IsFiniteSet(db \ R) BY <1>2, FS_Subset DEF Keyed, Table
<1>8. IsFiniteSet(U) BY <1>6, <1>7, FiniteImage
<1>9. IsFiniteSet((db \ R) \cup U) BY <1>7, <1>8, FS_Union
<1>10. Table((db \ R) \cup U) BY <1>4, <1>6, <1>9 DEF Keyed, Table
<1>11. IdsDistinct((db \ R) \cup U) BY <1>2, <1>4, <1>6, IdsKept DEF Keyed
<1> QED BY <1>5, <1>10, <1>11 DEF Keyed

\* The loops over the slots of a window keep the types and the key, whoever the
\* window is looked for under and whoever gets the items.
LEMMA WindowKeyed ==
    ASSUME NEW db, Keyed(db), NEW c, NEW owner, NEW w, NEW o \in Toons,
           NEW p \in Nat, NEW looks
    PROVE  Keyed(CarryOver(db, c, owner, w, o, p, looks))
<1>1. PICK after :
         /\ after[0] = db
         /\ \A n \in 0..LastTradeSlot :
               after[n + 1] = CarrySlot(after[n], c, owner, w, n, o, p, looks)
         /\ CarryOver(db, c, owner, w, o, p, looks) = after[LastTradeSlot + 1]
  BY CarryLoop
<1> DEFINE S == {n \in Nat : n <= LastTradeSlot + 1 => Keyed(after[n])}
<1>2. 0 \in S BY <1>1
<1>3. ASSUME NEW n \in Nat, n \in S PROVE n + 1 \in S
  <2> SUFFICES ASSUME n + 1 <= LastTradeSlot + 1 PROVE Keyed(after[n + 1]) OBVIOUS
  <2>1. n \in 0..LastTradeSlot BY SlotAssumption
  <2>2. Keyed(after[n]) BY <1>3, SlotAssumption
  <2>3. after[n + 1] = CarrySlot(after[n], c, owner, w, n, o, p, looks) BY <1>1, <2>1
  <2> QED BY <2>2, <2>3, SlotKeyed
<1>4. Nat \subseteq S
  <2> HIDE DEF S
  <2> QED BY <1>2, <1>3, Induction
<1> QED BY <1>1, <1>4, SlotAssumption

\* The loop over the kinds an NPC rejects takes its steps.
LEMMA TakeBackLoop ==
    ASSUME NEW db, NEW c, NEW kinds, Len(kinds) \in Nat
    PROVE  \E after :
              /\ after[0] = db
              /\ \A n \in 1..Len(kinds) : after[n] = TakeBack(after[n - 1], c, kinds[n])
              /\ TakeAllBack(db, c, kinds) = after[Len(kinds)]
<1> DEFINE Step(g, n) == IF n = 0 THEN db ELSE TakeBack(g[n - 1], c, kinds[n])
           Loop(g, m) == g = [n \in 0..m |-> Step(g, n)]
           S == {m \in Nat : \E g : Loop(g, m)}
<1>1. 0 \in S
  <2>1. Loop([n \in 0..0 |-> db], 0) OBVIOUS
  <2> QED BY <2>1
<1>2. ASSUME NEW m \in Nat, m \in S PROVE m + 1 \in S
  <2>1. PICK g : Loop(g, m) BY <1>2
  <2> DEFINE x == TakeBack(g[m], c, kinds[m + 1])
             h == [n \in 0..(m + 1) |-> IF n <= m THEN g[n] ELSE x]
  <2>2. ASSUME NEW n \in 0..(m + 1) PROVE h[n] = Step(h, n)
    <3>1. CASE n = 0 BY <2>1, <3>1
    <3>2. CASE n # 0 /\ n <= m
      <4>1. n - 1 \in 0..m /\ n \in 0..m BY <3>2
      <4>2. g[n] = Step(g, n) BY <2>1, <4>1
      <4>3. h[n - 1] = g[n - 1] /\ h[n] = g[n] BY <3>2, <4>1
      <4> HIDE DEF h
      <4> QED BY <4>2, <4>3
    <3>3. CASE n = m + 1
      <4>1. h[n - 1] = g[m] /\ h[n] = x BY <3>3
      <4> HIDE DEF h
      <4> QED BY <3>3, <4>1
    <3> QED BY <3>1, <3>2, <3>3
  <2>3. Loop(h, m + 1)
    <3>1. h = [n \in 0..(m + 1) |-> h[n]] OBVIOUS
    <3> HIDE DEF h, Step
    <3> QED BY <3>1, <2>2
  <2> HIDE DEF Loop
  <2> QED BY <2>3
<1>3. Nat \subseteq S
  <2> HIDE DEF S
  <2> QED BY <1>1, <1>2, Induction
<1>4. \E g : Loop(g, Len(kinds)) BY <1>3
<1> DEFINE after == CHOOSE g : Loop(g, Len(kinds))
<1>5. TakeAllBack(db, c, kinds) = after[Len(kinds)] BY DEF TakeAllBack
<1>6. Loop(after, Len(kinds))
  <2> HIDE DEF Loop
  <2> QED BY <1>4
<1> HIDE DEF after
<1>7. \A n \in 0..Len(kinds) : after[n] = Step(after, n)
  <2> HIDE DEF Step
  <2> QED BY <1>6
<1>8. after[0] = db BY <1>7
<1>9. ASSUME NEW n \in 1..Len(kinds) PROVE after[n] = TakeBack(after[n - 1], c, kinds[n])
  <2>1. n \in 0..Len(kinds) /\ n # 0 OBVIOUS
  <2>2. after[n] = Step(after, n) BY <1>7, <2>1
  <2> QED BY <2>1, <2>2
<1> QED BY <1>5, <1>8, <1>9

\* One kind: it is no longer in the window, unless the inventory was full.
LEMMA KindTakenBack ==
    ASSUME NEW db, Table(db), NEW c \in Toons, NEW k,
           NEW W, \A r \in Rows(db, c, INV_TRADE) : r.kind = k => r \in W,
           \A x, y \in Rows(db, c, INV_TRADE) : x.kind = k /\ y.kind = k => x = y
    PROVE  LET to == TakeBack(db, c, k)
           IN  /\ Shifted(c, W, INV_TOONINV, db, to)
               /\ FindNextAvailableContainerSlot(db, c, INV_TOONINV) < InvFull
                     => \A r \in Rows(to, c, INV_TRADE) : r.kind # k
<1> DEFINE R    == {r \in Rows(db, c, INV_TRADE) : r.kind = k}
           slot == FindNextAvailableContainerSlot(db, c, INV_TOONINV)
           to   == TakeBack(db, c, k)
<1>1. slot \in Nat /\ (~ Named(INV_TOONINV, slot) \/ RowsAt(db, c, INV_TOONINV, slot) = {})
  BY FreeSlotFound
<1>2. CASE slot >= InvFull
  <2>1. to = db BY <1>2 DEF TakeBack
  <2>2. ~ (slot < InvFull) BY <1>1, <1>2, SlotAssumption
  <2> QED BY <2>1, <2>2, ShiftNone
<1>3. CASE ~ (slot >= InvFull)
  <2>1. to = Move(db, R, INV_TOONINV, slot) BY <1>3 DEF TakeBack
  <2>2. R \subseteq Owned(db, c) /\ R \subseteq W BY DEF Rows, Owned
  <2>3. \A x, y \in R : x = y OBVIOUS
  <2>4. INV_TOONINV \in Nat \ {INV_HOTSWAPTEMP} BY DEF INV_TOONINV, INV_HOTSWAPTEMP
  <2>5. \A r \in R : r \in Row BY DEF Rows, Table
  <2>6. \A r \in to : r \in db \ R \/ r.parent = INV_TOONINV BY <2>1, <2>5 DEF Move, Row
  <2>7. \A r \in Rows(to, c, INV_TRADE) : r.kind # k
    BY <2>6 DEF Rows, INV_TRADE, INV_TOONINV
  <2> HIDE DEF R, slot, to
  <2>8. Shifted(c, W, INV_TOONINV, db, to) BY <1>1, <2>1, <2>2, <2>3, <2>4, ShiftOne
  <2> QED BY <2>7, <2>8 DEF to, slot
<1> QED BY <1>2, <1>3

\* Every kind listed is one of an item of W.
KindsOf(kinds, W) == \A n \in 1..Len(kinds) : \E r \in W : r.kind = kinds[n]

\* All kinds: what is rejected goes to the inventory and nothing else moves, and
\* where there is room all of it goes.
LEMMA RejectedTakenBack ==
    ASSUME NEW db, Table(db), NEW c \in Toons,
           NEW W, W \subseteq Rows(db, c, INV_TRADE), Singled(W, Rows(db, c, INV_TRADE)),
           NEW kinds, Len(kinds) \in Nat,
           KindsOf(kinds, W)
    PROVE  LET to == TakeAllBack(db, c, kinds)
           IN  /\ Shifted(c, W, INV_TOONINV, db, to)
               /\ Keyed(db) /\ RoomToTakeBack(db, c) =>
                     \A r \in Rows(to, c, INV_TRADE) : \A n \in 1..Len(kinds) :
                         r.kind # kinds[n]
<1> DEFINE Top == Len(kinds)
<1>1. PICK after : /\ after[0] = db
                   /\ \A n \in 1..Top : after[n] = TakeBack(after[n - 1], c, kinds[n])
                   /\ TakeAllBack(db, c, kinds) = after[Top]
  BY TakeBackLoop
<1>2. INV_TRADE # INV_TOONINV BY DEF INV_TRADE, INV_TOONINV
<1> DEFINE S == {n \in Nat : n <= Top => Shifted(c, W, INV_TOONINV, db, after[n])}
<1>3. 0 \in S BY <1>1, ShiftNone
<1>4. ASSUME NEW n \in Nat, n + 1 \in 1..Top, Shifted(c, W, INV_TOONINV, db, after[n])
      PROVE  /\ Shifted(c, W, INV_TOONINV, after[n], after[n + 1])
             /\ FindNextAvailableContainerSlot(after[n], c, INV_TOONINV) < InvFull
                   => \A r \in Rows(after[n + 1], c, INV_TRADE) : r.kind # kinds[n + 1]
  <2> DEFINE now == after[n]
  <2>1. Rows(now, c, INV_TRADE) \subseteq Rows(db, c, INV_TRADE)
    BY <1>2, <1>4, StillThere
  <2>2. \A r \in Rows(now, c, INV_TRADE) : r.kind = kinds[n + 1] => r \in W
    BY <1>4, <2>1 DEF Singled, KindsOf
  <2>3. \A x, y \in Rows(now, c, INV_TRADE) :
            x.kind = kinds[n + 1] /\ y.kind = kinds[n + 1] => x = y
    BY <1>4, <2>1 DEF Singled, KindsOf
  <2>4. Table(now) BY <1>4 DEF Shifted
  <2>5. after[n + 1] = TakeBack(now, c, kinds[n + 1])
    <3>1. (n + 1) - 1 = n OBVIOUS
    <3> QED BY <1>1, <1>4, <3>1
  <2> HIDE DEF now
  <2>6. /\ Shifted(c, W, INV_TOONINV, now, after[n + 1])
        /\ FindNextAvailableContainerSlot(now, c, INV_TOONINV) < InvFull
              => \A r \in Rows(after[n + 1], c, INV_TRADE) : r.kind # kinds[n + 1]
    BY <2>2, <2>3, <2>4, <2>5, KindTakenBack
  <2> QED BY <2>6 DEF now
<1>5. ASSUME NEW n \in Nat, n \in S PROVE n + 1 \in S
  <2> SUFFICES ASSUME n + 1 <= Top PROVE Shifted(c, W, INV_TOONINV, db, after[n + 1])
    OBVIOUS
  <2>1. n + 1 \in 1..Top OBVIOUS
  <2>2. Shifted(c, W, INV_TOONINV, db, after[n]) BY <1>5, <2>1
  <2>3. Shifted(c, W, INV_TOONINV, after[n], after[n + 1]) BY <1>4, <2>1, <2>2
  <2> QED BY <2>2, <2>3, ShiftTwice
<1>6. Nat \subseteq S
  <2> HIDE DEF S
  <2> QED BY <1>3, <1>5, Induction
<1>7. \A n \in 0..Top : Shifted(c, W, INV_TOONINV, db, after[n]) BY <1>6
<1>8. ASSUME Keyed(db), RoomToTakeBack(db, c)
      PROVE  \A r \in Rows(after[Top], c, INV_TRADE) : \A m \in 1..Top : r.kind # kinds[m]
  <2> DEFINE T == {n \in Nat : n <= Top => \A r \in Rows(after[n], c, INV_TRADE) :
                                                \A m \in 1..n : r.kind # kinds[m]}
  <2>1. 0 \in T OBVIOUS
  <2>2. ASSUME NEW n \in Nat, n \in T PROVE n + 1 \in T
    <3> SUFFICES ASSUME n + 1 <= Top, NEW r \in Rows(after[n + 1], c, INV_TRADE),
                        NEW m \in 1..(n + 1)
                 PROVE  r.kind # kinds[m]
      OBVIOUS
    <3>1. n + 1 \in 1..Top /\ n \in 0..Top OBVIOUS
    <3>2. Shifted(c, W, INV_TOONINV, db, after[n]) BY <1>7, <3>1
    <3>3. Shifted(c, W, INV_TOONINV, after[n], after[n + 1]) BY <1>4, <3>1, <3>2
    <3>4. r \in Rows(after[n], c, INV_TRADE) BY <1>2, <3>3, StillThere
    <3>5. FindNextAvailableContainerSlot(after[n], c, INV_TOONINV) < InvFull
      BY <1>8, <3>2, <3>4, RoomLeft
    <3>6. r.kind # kinds[n + 1] BY <1>4, <3>1, <3>2, <3>5
    <3>7. m \in 1..n \/ m = n + 1 OBVIOUS
    <3> QED BY <2>2, <3>4, <3>6, <3>7
  <2>3. Nat \subseteq T
    <3> HIDE DEF T
    <3> QED BY <2>1, <2>2, Induction
  <2> QED BY <2>3
<1>9. Top \in 0..Top OBVIOUS
<1> QED BY <1>1, <1>7, <1>8, <1>9

-----------------------------------------------------------------------------
(* The key of the table.                                                   *)

\* Ids stay distinct in any session; the owners of shops are characters.
Keys == Keyed(items) /\ named \subseteq Toons

\* One item goes to a free slot of container p.
LEMMA ItemMoved ==
    ASSUME Table(items), NEW c \in Toons, NEW from, NEW s, Named(from, s),
           NEW p \in {INV_TOONINV, INV_TRADE}, MoveToFreeSlot(c, from, s, p)
    PROVE  /\ Shifted(c, RowsAt(items, c, from, s), p, items, items')
           /\ items' = Move(items, RowsAt(items, c, from, s), p,
                            FindNextAvailableContainerSlot(items, c, p))
<1> DEFINE R    == RowsAt(items, c, from, s)
           slot == FindNextAvailableContainerSlot(items, c, p)
<1>1. items' = Move(items, R, p, slot) BY DEF MoveToFreeSlot, Commit
<1>2. slot \in Nat /\ (~ Named(p, slot) \/ RowsAt(items, c, p, slot) = {})
  BY FreeSlotFound
<1>3. p \in Nat \ {INV_HOTSWAPTEMP} BY DEF INV_TOONINV, INV_TRADE, INV_HOTSWAPTEMP
<1>4. R \subseteq Owned(items, c) BY DEF RowsAt, Owned
<1>5. Tidy(items) => \A x, y \in R : x = y BY DEF Tidy, OneToASlot, RowsAt
<1> HIDE DEF R, slot
<1>6. Shifted(c, R, p, items, Move(items, R, p, slot))
  BY <1>2, <1>3, <1>4, <1>5, ShiftOne
<1> QED BY <1>1, <1>6 DEF R, slot

\* The deal with an NPC: only what it rejects goes to the inventory, all of it
\* where there is room; what is then in the window is deleted.
LEMMA Accepted ==
    ASSUME Table(items), NEW c \in Toons, AcceptMessage(c)
    PROVE  \E R \in SUBSET Rows(items, c, INV_TRADE) : \E back :
              /\ Shifted(c, R, INV_TOONINV, items, back)
              /\ items' = back \ Rows(back, c, INV_TRADE)
              /\ deal' = [kept |-> Id(Rows(items, c, INV_TRADE) \ R), rejected |-> Id(R)]
              /\ Keyed(items) /\ RoomToTakeBack(items, c) =>
                    R \cap Rows(back, c, INV_TRADE) = {}
<1>1. PICK R \in SUBSET Rows(items, c, INV_TRADE) : \E rejected \in SetToSeqs(R) :
         /\ Singled(R, Rows(items, c, INV_TRADE))
         /\ NpcTradeAccept(c, [n \in DOMAIN rejected |-> rejected[n].kind])
         /\ deal' = [kept |-> Id(Rows(items, c, INV_TRADE) \ R), rejected |-> Id(R)]
  BY DEF AcceptMessage
<1>2. PICK rejected \in SetToSeqs(R) :
         NpcTradeAccept(c, [n \in DOMAIN rejected |-> rejected[n].kind])
  BY <1>1
<1> DEFINE m     == Cardinality(R)
           kinds == [n \in DOMAIN rejected |-> rejected[n].kind]
           back  == TakeAllBack(items, c, kinds)
<1>3. IsFiniteSet(R) /\ m \in Nat
  <2>1. R \in SUBSET items BY DEF Rows
  <2> QED BY <2>1, FS_Subset, FS_CardinalityType DEF Table
<1>4. rejected \in [1..m -> R] /\ \A i, j \in 1..m : i # j => rejected[i] # rejected[j]
  BY <1>2 DEF SetToSeqs
<1>5. \A r \in R : \E n \in 1..m : rejected[n] = r
  <2>1. rejected \in Injection(1..m, R) BY <1>4 DEF Injection, IsInjective
  <2>2. Cardinality(1..m) = m BY <1>3, FS_Interval
  <2> HIDE DEF m
  <2>3. rejected \in Surjection(1..m, R) BY <1>3, <2>1, <2>2, FS_Injection DEF m
  <2> QED BY <2>3 DEF Surjection
<1>6. kinds = [n \in 1..m |-> rejected[n].kind] BY <1>4
<1>7. Len(kinds) = m
  <2>1. \A r \in R : r.kind \in Kinds BY DEF Rows, Table, Row
  <2>2. kinds \in [1..m -> Kinds] BY <1>4, <1>6, <2>1
  <2> HIDE DEF kinds, m
  <2>3. kinds \in Seq(Kinds) BY <1>3, <2>2 DEF m
  <2>4. DOMAIN kinds = 1..m BY <2>2
  <2> QED BY <1>3, <2>3, <2>4 DEF m
<1>8. \A n \in 1..m : \E r \in R : r.kind = kinds[n] BY <1>4, <1>6
<1>9. \A r \in R : \E n \in 1..m : r.kind = kinds[n] BY <1>5, <1>6
<1>10. Singled(R, Rows(items, c, INV_TRADE)) BY <1>1
<1>11. items' = back \ Rows(back, c, INV_TRADE) BY <1>2 DEF NpcTradeAccept, Commit
<1>12. /\ Shifted(c, R, INV_TOONINV, items, back)
       /\ Keyed(items) /\ RoomToTakeBack(items, c) =>
             \A r \in Rows(back, c, INV_TRADE) : \A n \in 1..Len(kinds) : r.kind # kinds[n]
  <2>1. Len(kinds) \in Nat /\ KindsOf(kinds, R) BY <1>3, <1>7, <1>8 DEF KindsOf
  <2>2. R \subseteq Rows(items, c, INV_TRADE) OBVIOUS
  <2> HIDE DEF m, kinds
  <2> QED BY <1>10, <2>1, <2>2, RejectedTakenBack
<1>13. Keyed(items) /\ RoomToTakeBack(items, c) => R \cap Rows(back, c, INV_TRADE) = {}
  <2>1. \A r \in R : \E n \in 1..Len(kinds) : r.kind = kinds[n] BY <1>7, <1>9
  <2> HIDE DEF m, kinds, back
  <2> QED BY <1>12, <2>1
<1> HIDE DEF back
<1> QED BY <1>1, <1>11, <1>12, <1>13

\* What every message about an NPC or a player is to do: keep the types and the
\* key, leave the rows of the others alone, leave a tidy table tidy.
Orderly(c, old, new) == Sound(c, old, new) /\ IdsDistinct(new)

\* A shift of rows of one character is orderly,
LEMMA ShiftOrderly ==
    ASSUME NEW c, NEW W, NEW p, NEW old, Keyed(old), NEW new, Shifted(c, W, p, old, new)
    PROVE  Orderly(c, old, new)
BY DEF Shifted, Keyed, Orderly, Sound

\* so is a deletion,
LEMMA DeletionOrderly ==
    ASSUME NEW c \in Toons, NEW db, Keyed(db), NEW R, R \subseteq Owned(db, c)
    PROVE  Orderly(c, db, db \ R)
BY DeleteFacts, DeletionKeyed DEF Keyed, Orderly

\* and so is one orderly step after another.
LEMMA OrderlyTwice ==
    ASSUME NEW c, NEW old, NEW mid, NEW new, Orderly(c, old, mid), Orderly(c, mid, new)
    PROVE  Orderly(c, old, new)
BY SoundTwice DEF Orderly

\* After an orderly step the key still holds.
LEMMA OrderlyKeyed ==
    ASSUME NEW c, NEW old, NEW new, Orderly(c, old, new)
    PROVE  Keyed(new)
BY DEF Orderly, Sound, Keyed

\* What a handler finds in a container or a slot of a character is its own.
LEMMA OwnRows ==
    ASSUME NEW db, NEW c, NEW p
    PROVE  /\ Rows(db, c, p) \subseteq Owned(db, c)
           /\ \A s : RowsAt(db, c, p, s) \subseteq Owned(db, c)
BY DEF Rows, RowsAt, Owned

\* All that the messages about NPCs do is orderly: the items move, leave, or come
\* back, and only those of the character the message is about.
LEMMA NpcOrderly ==
    ASSUME Keyed(items), NEW c \in Toons, NpcMessage(c)
    PROVE  Orderly(c, items, items')
<1>1. Table(items) BY DEF Keyed
<1>2. CASE GiveMessage(c)
  <2>1. PICK type \in Types, t \in TempIds, s \in Slots :
           /\ Named(GetFromContainerId(c, type, t), s)
           /\ GiveToNpc(c, type = "trade", type, t, s)
    BY <1>2 DEF GiveMessage
  <2> DEFINE p == IF type = "trade" THEN INV_TOONINV ELSE INV_TRADE
             from == GetFromContainerId(c, type, t)
  <2>2. MoveToFreeSlot(c, from, s, p) BY <2>1 DEF GiveToNpc
  <2>3. p \in {INV_TOONINV, INV_TRADE} OBVIOUS
  <2> HIDE DEF p
  <2>4. Shifted(c, RowsAt(items, c, from, s), p, items, items')
    BY <1>1, <2>1, <2>2, <2>3, ItemMoved
  <2> QED BY <2>4, ShiftOrderly
<1>3. CASE CloseMessage(c)
  <2>1. items' = MoveBack(items, c) BY <1>3 DEF CloseMessage, EndNpcTrade, Commit
  <2>2. Shifted(c, Rows(items, c, INV_TRADE), INV_TOONINV, items, items')
    BY <1>1, <2>1, WindowCarried DEF MoveBack
  <2> QED BY <2>2, ShiftOrderly
<1>4. CASE AcceptMessage(c)
  <2>1. PICK R, back :
           /\ R \in SUBSET Rows(items, c, INV_TRADE)
           /\ Shifted(c, R, INV_TOONINV, items, back)
           /\ items' = back \ Rows(back, c, INV_TRADE)
    BY <1>1, <1>4, Accepted
  <2>2. Orderly(c, items, back) /\ Keyed(back) BY <2>1, ShiftOrderly, OrderlyKeyed
  <2>3. Orderly(c, back, items') BY <2>1, <2>2, OwnRows, DeletionOrderly
  <2> QED BY <2>2, <2>3, OrderlyTwice
<1> QED BY <1>2, <1>3, <1>4 DEF NpcMessage

\* What a partner or a shop terminal adds is one row, with a new id and in a free
\* slot.
LEMMA NewItem ==
    ASSUME Keyed(items), NEW c \in Toons, NEW k \in Kinds, NEW n \in Int,
           NEW p \in Nat \ {INV_HOTSWAPTEMP}, NEW b \in Nat, InsertNew(c, k, n, p, b)
    PROVE  /\ Orderly(c, items, items')
           /\ \E x \in Row :
                 /\ items' = items \cup {x}
                 /\ x.id \notin Id(items)
                 /\ x.parent = p /\ x.children = b /\ x.owner = c
                 /\ x.slot = FindNextAvailableContainerSlot(items, c, p)
<1> DEFINE s == FindNextAvailableContainerSlot(items, c, p)
           x == Item(k, n, p, s, b, c)
           r == [id |-> NewIds(items, {x})[x], kind |-> k, stack |-> n, parent |-> p,
                 slot |-> s, children |-> b, owner |-> c]
<1>1. items' = InsertItems(items, {x}) /\ RoomFor(items, {x}) BY DEF InsertNew, Commit
<1>2. /\ s \in Nat /\ n \in Stacks /\ Table(items)
      /\ ~ Named(p, s) \/ RowsAt(items, c, p, s) = {}
  BY FreeSlotFound DEF Keyed, Stacks
<1>3. x.kind = k /\ x.stack = n /\ x.parent = p /\ x.slot = s /\ x.children = b /\ x.owner = c
  BY DEF Item
<1> HIDE DEF s
<1>4. Sound(c, items, items') BY <1>1, <1>2, InsertFacts
<1> HIDE DEF x
<1>5. IdsDistinct(items')
  <2>1. IsFiniteSet({x}) BY FS_Singleton
  <2>2. \A y \in {x} : /\ y.kind \in Kinds /\ y.stack \in Stacks /\ y.parent \in Nat
                       /\ y.slot \in Nat /\ y.children \in Nat /\ y.owner \in Toons
    BY <1>2, <1>3
  <2> QED BY <1>1, <2>1, <2>2, InsertionKeyed DEF Keyed
<1>6. items' = items \cup {r} BY <1>1, <1>3 DEF InsertItems
<1>7. NewIds(items, {x})[x] \in FreeIds(items) BY <1>1, NewIdsFree
<1>8. r \in Row /\ r.id \notin Id(items) BY <1>2, <1>7 DEF Row, FreeIds, Id
<1>9. r.parent = p /\ r.children = b /\ r.owner = c /\ r.slot = s OBVIOUS
<1> HIDE DEF r
<1> QED BY <1>4, <1>5, <1>6, <1>8, <1>9 DEF Orderly, s

\* A trade ends without a deal: what was offered goes back and what the partner
\* offered goes.
LEMMA DeclineOrderly ==
    ASSUME Keyed(items), NEW c \in Toons, Decline(c)
    PROVE  Orderly(c, items, items')
<1> DEFINE back == MoveBack(items, c)
<1>1. items' = back \ Rows(back, c, INV_TRADEPARTNER) BY DEF Decline, Commit
<1>2. Shifted(c, Rows(items, c, INV_TRADE), INV_TOONINV, items, back)
  BY WindowCarried DEF MoveBack, Keyed
<1> HIDE DEF back
<1>3. Orderly(c, items, back) /\ Keyed(back) BY <1>2, ShiftOrderly, OrderlyKeyed
<1>4. Orderly(c, back, items') BY <1>1, <1>3, OwnRows, DeletionOrderly
<1> QED BY <1>3, <1>4, OrderlyTwice

\* A trade is committed: what was offered goes, and the partner's window goes to
\* the inventory.
LEMMA Committed ==
    ASSUME NEW c, CommitTrade(c), \A r \in items : r.children \in Nat
    PROVE  items' = CarryOver(items \ OfferedRows(c), c, c, INV_TRADEPARTNER,
                              c, INV_TOONINV, FALSE)
<1> DEFINE W       == Rows(items, c, INV_TRADE)
           filled  == {r.children : r \in {b \in W : b.children > 0}}
           emptied == items \ {r \in Owned(items, c) : r.parent \in filled}
           gone    == emptied \ Rows(emptied, c, INV_TRADE)
<1>1. items' = CarryOver(gone, c, c, INV_TRADEPARTNER, c, INV_TOONINV, FALSE)
  BY DEF CommitTrade, Commit
<1>2. InBags(items, W) = {r \in Owned(items, c) : r.parent \in filled}
  BY DEF InBags, Rows, Owned
<1>3. gone = items \ (W \cup InBags(items, W)) BY <1>2 DEF Rows
<1> HIDE DEF gone
<1> QED BY <1>1, <1>3 DEF OfferedRows

\* The end of an accepted trade with a player (InventoryView.cpp:1606).
LEMMA CommitOrderly ==
    ASSUME Keyed(items), NEW c \in Toons, CommitTrade(c)
    PROVE  Orderly(c, items, items')
<1> DEFINE gone == items \ OfferedRows(c)
<1>1. \A r \in items : r.children \in Nat BY DEF Keyed, Table, Row
<1>2. items' = CarryOver(gone, c, c, INV_TRADEPARTNER, c, INV_TOONINV, FALSE)
  BY <1>1, Committed
<1>3. Orderly(c, items, gone)
  <2>1. OfferedRows(c) \subseteq Owned(items, c) BY DEF OfferedRows, InBags, Rows, Owned
  <2> QED BY <2>1, DeletionOrderly
<1> HIDE DEF gone
<1>4. Keyed(gone) BY <1>3, OrderlyKeyed
<1>5. Shifted(c, Rows(gone, c, INV_TRADEPARTNER), INV_TOONINV, gone, items')
  BY <1>2, <1>4, WindowCarried DEF Keyed
<1> QED BY <1>3, <1>4, <1>5, ShiftOrderly, OrderlyTwice

\* One of the character's own items is offered or taken back.
LEMMA OfferOrderly ==
    ASSUME Keyed(items), NEW c \in Toons, Offers(c)
    PROVE  Orderly(c, items, items')
<1>1. Table(items) BY DEF Keyed
<1>2. \E from, s : \E p \in {INV_TOONINV, INV_TRADE} :
         Named(from, s) /\ MoveToFreeSlot(c, from, s, p)
  <2>1. CASE \E s \in Slots : RemoveItem(c, s)
    BY <2>1 DEF RemoveItem, Named, INV_TRADE, INV_TOONINV
  <2>2. CASE \E type \in Types \ {"trade"}, t \in TempIds, s \in Slots :
                Named(GetFromContainerId(c, type, t), s) /\ AddItem(c, type, t, s)
    BY <2>2 DEF AddItem
  <2> QED BY <2>1, <2>2 DEF Offers
<1>3. PICK from, s : \E p \in {INV_TOONINV, INV_TRADE} :
         Named(from, s) /\ MoveToFreeSlot(c, from, s, p)
  BY <1>2
<1>4. PICK p \in {INV_TOONINV, INV_TRADE} : Named(from, s) /\ MoveToFreeSlot(c, from, s, p)
  BY <1>3
<1>5. Shifted(c, RowsAt(items, c, from, s), p, items, items') BY <1>1, <1>4, ItemMoved
<1> QED BY <1>5, ShiftOrderly

\* The start of a trade, which clears the windows (InventoryView.cpp:1423).
LEMMA StartOrderly ==
    ASSUME Keyed(items), NEW c \in Toons, StartTrade(c)
    PROVE  Orderly(c, items, items')
BY OwnRows, DeletionOrderly DEF StartTrade, Commit, Windows

\* All that the messages about other players do is orderly.
LEMMA PlayerOrderly ==
    ASSUME Keyed(items), NEW c \in Toons, PlayerMessage(c)
    PROVE  Orderly(c, items, items')
<1>1. CASE Starts(c, "player") BY <1>1, StartOrderly DEF Starts
<1>2. CASE Ends(c) BY <1>2, DeclineOrderly, CommitOrderly DEF Ends
<1>3. CASE Offers(c) BY <1>3, OfferOrderly
<1>4. /\ INV_TRADEPARTNER \in Nat \ {INV_HOTSWAPTEMP}
      /\ INV_TOONINV \in Nat \ {INV_HOTSWAPTEMP}
  BY DEF INV_TRADEPARTNER, INV_TOONINV, INV_HOTSWAPTEMP
<1>5. CASE PartnerOffers(c)
  <2>1. CASE \E k \in Traded, n \in 1..MaxStack : PartnerAddsItem(c, k, n)
    BY <1>4, <2>1, NewItem, TemplateAssumption DEF PartnerAddsItem
  <2>2. CASE \E s \in Slots : PartnerRemovesItem(c, s)
    BY <2>2, OwnRows, DeletionOrderly DEF PartnerRemovesItem, Commit
  <2>3. CASE \E b \in NewBags : PartnerAddsBackpack(c, b)
    <3>1. PICK b \in NewBags : InsertNew(c, Template, 1, INV_TRADEPARTNER, b)
      BY <2>3 DEF PartnerAddsBackpack
    <3>2. b \in Nat /\ 1 \in Int BY BagAssumption DEF NewBags
    <3> QED BY <1>4, <3>1, <3>2, NewItem, TemplateAssumption
  <2>4. CASE \E b \in Bags : PartnerRemovesBackpack(c, b)
    <3>1. PICK R : R \subseteq Rows(items, c, INV_TRADEPARTNER) /\ items' = items \ R
      BY <2>4 DEF PartnerRemovesBackpack, Commit
    <3>2. R \subseteq Owned(items, c) BY <3>1, OwnRows
    <3> QED BY <3>1, <3>2, DeletionOrderly
  <2> QED BY <1>5, <2>1, <2>2, <2>3, <2>4 DEF PartnerOffers
<1>6. CASE Buys(c) BY <1>4, <1>6, NewItem, TemplateAssumption DEF Buys, ItemBought
<1> QED BY <1>1, <1>2, <1>3, <1>5, <1>6 DEF PlayerMessage

\* A shop that is found belongs to a character and has a container of its own.
LEMMA ShopOwners ==
    ASSUME Keys, NEW c \in Toons, NEW shop, NEW x \in ShopFor(c, shop)
    PROVE  x.owner \in Toons /\ x.container \in Nat
BY DEF ShopFor, Keys, INV_OTHER_PLAYERSHOP, INV_PLAYERSHOP

\* The goods of a shop are deleted and read again (InventoryView.cpp:2431).
LEMMA StockKeyed ==
    ASSUME Keys, NEW c \in Toons, NEW shop, NEW stock \in Stocks, ShopItems(c, shop, stock)
    PROVE  Keyed(items')
<1>1. PICK x \in ShopFor(c, shop) :
         LET old == Rows(items, x.owner, x.container)
             new == {Item(i.kind, 1, x.container, i.slot, 0, x.owner) : i \in stock}
         IN  RoomFor(items \ old, new) /\ items' = InsertItems(items \ old, new)
  BY DEF ShopItems, Commit
<1> DEFINE f   == [i \in stock |-> Item(i.kind, 1, x.container, i.slot, 0, x.owner)]
           old == Rows(items, x.owner, x.container)
           new == {f[i] : i \in stock}
<1>2. x.owner \in Toons /\ x.container \in Nat BY <1>1, ShopOwners
<1>3. RoomFor(items \ old, new) /\ items' = InsertItems(items \ old, new) BY <1>1
<1>4. IsFiniteSet(stock) /\ stock \subseteq [kind : Kinds, slot : Nat] BY ShopAssumption
<1>5. \A i \in stock : i.kind \in Kinds /\ i.slot \in Nat BY <1>4
<1>6. 1 \in Stacks BY DEF Stacks
<1>7. \A i \in stock : /\ f[i].kind \in Kinds /\ f[i].stack \in Stacks
                       /\ f[i].parent \in Nat /\ f[i].slot \in Nat
                       /\ f[i].children \in Nat /\ f[i].owner \in Toons
  BY <1>2, <1>5, <1>6 DEF Item
<1> HIDE DEF f, old
<1>8. IsFiniteSet(new)
  <2>1. \A u \in new : \E i \in stock : u = f[i] OBVIOUS
  <2> HIDE DEF new
  <2> QED BY <1>4, <2>1, FiniteImage
<1>9. \A y \in new : /\ y.kind \in Kinds /\ y.stack \in Stacks /\ y.parent \in Nat
                     /\ y.slot \in Nat /\ y.children \in Nat /\ y.owner \in Toons
  BY <1>7
<1>10. Keyed(items \ old) BY DeletionKeyed DEF Keys
<1> HIDE DEF new
<1> QED BY <1>3, <1>8, <1>9, <1>10, InsertionKeyed

\* A copy of what was put into the basket enters the window of the buyer.
LEMMA ShopItemKeyed ==
    ASSUME Keys, NEW c \in Toons, NEW shop, NEW s, AddShopItem(c, shop, s)
    PROVE  Keyed(items')
<1>1. PICK x \in ShopFor(c, shop) :
         LET copy == {[r EXCEPT !.parent = INV_TRADEPARTNER, !.owner = c] :
                         r \in RowsAt(items, x.owner, x.container, s)}
         IN  RoomFor(items, copy) /\ items' = items \cup Copies(items, copy)
  BY DEF AddShopItem, Commit
<1> DEFINE R    == RowsAt(items, x.owner, x.container, s)
           f    == [r \in R |-> [r EXCEPT !.parent = INV_TRADEPARTNER, !.owner = c]]
           copy == {f[r] : r \in R}
<1>2. RoomFor(items, copy) /\ items' = items \cup Copies(items, copy) BY <1>1
<1>3. R \in SUBSET items BY DEF RowsAt
<1>4. IsFiniteSet(R) /\ \A r \in R : r \in Row BY <1>3, FS_Subset DEF Keys, Keyed, Table
<1>5. \A r \in R : f[r] \in Row BY <1>4 DEF Row, INV_TRADEPARTNER
<1> HIDE DEF R, f
<1>6. \A u \in copy : \E r \in R : u = f[r] OBVIOUS
<1>7. copy \subseteq Row BY <1>5
<1> HIDE DEF copy
<1>8. IsFiniteSet(copy) BY <1>4, <1>6, FiniteImage
<1> QED BY <1>2, <1>7, <1>8, CopiesKeyed DEF Keys

\* The end of a purchase: the bought go to the inventory, the rest to the shop.
LEMMA SaleKeyed ==
    ASSUME Keys, NEW c \in Toons, NEW shop, CommitShopTrade(c, shop)
    PROVE  Keyed(items')
<1>1. PICK x, X :
         /\ x \in ShopFor(c, shop)
         /\ items' = CarryOver(CarryOver(items \ X, c, x.owner, INV_TRADEPARTNER,
                                         c, INV_TOONINV, FALSE),
                               c, c, INV_TRADE, x.owner, x.container, FALSE)
  BY DEF CommitShopTrade, Commit
<1>2. x.owner \in Toons /\ x.container \in Nat BY <1>1, ShopOwners
<1>3. Keyed(items \ X) BY DeletionKeyed DEF Keys
<1>4. INV_TOONINV \in Nat BY DEF INV_TOONINV
<1>5. Keyed(CarryOver(items \ X, c, x.owner, INV_TRADEPARTNER, c, INV_TOONINV, FALSE))
  BY <1>3, <1>4, WindowKeyed
<1> QED BY <1>1, <1>2, <1>5, WindowKeyed

\* All that is done about shops keeps types and key, though not the rows of the
\* others: a purchase in the shop of another character moves those.
LEMMA ShopKeyed ==
    ASSUME Keys, NEW c \in Toons, ShopMessage(c)
    PROVE  Keys'
<1>1. Keyed(items) /\ named \subseteq Toons BY DEF Keys
<1>2. CASE Enters(c)
  <2>1. Keyed(items') BY <1>1, <1>2, StartOrderly, OrderlyKeyed DEF Enters, Starts
  <2> QED BY <1>1, <1>2, <2>1 DEF Enters, Keys, shops
<1>3. CASE Chooses(c)
  <2>1. \A s : AddShopItem(c, visiting[c], s) => Keyed(items') /\ UNCHANGED shops
    BY ShopItemKeyed DEF AddShopItem
  <2>2. \A s : RemoveShopItem(c, s) => Keyed(items') /\ UNCHANGED shops
    BY <1>1, DeletionKeyed DEF RemoveShopItem, Commit
  <2> QED BY <1>1, <1>3, <2>1, <2>2 DEF Chooses, Keys, shops
<1>4. CASE AddsOwn(c) BY <1>1, <1>4, OfferOrderly, OrderlyKeyed DEF AddsOwn, Keys, shops
<1>5. CASE Leaves(c)
  <2>1. CASE CommitShopTrade(c, visiting[c])
    BY <1>1, <2>1, SaleKeyed DEF CommitShopTrade, Keys, shops
  <2>2. CASE Decline(c) /\ UNCHANGED shops BY <1>1, <2>2, DeclineOrderly, OrderlyKeyed DEF Keys, shops
  <2> QED BY <1>5, <2>1, <2>2 DEF Leaves
<1>6. CASE Learns(c)
  <2>1. CASE MobSync(c) BY <1>1, <2>1 DEF MobSync, SetToonName, Commit, Keys
  <2>2. ASSUME NEW shop \in Shops, ShopInfo(c, shop) PROVE Keys'
    BY <1>1, <2>2 DEF ShopInfo, Commit, Keys
  <2>3. ASSUME NEW shop \in Shops, NEW stock \in Stocks, ShopItems(c, shop, stock)
        PROVE  Keys'
    <3>1. UNCHANGED shops BY <2>3 DEF ShopItems
    <3> QED BY <1>1, <2>3, <3>1, StockKeyed DEF Keys, shops
  <2> QED BY <1>6, <2>1, <2>2, <2>3 DEF Learns
<1> QED BY <1>2, <1>3, <1>4, <1>5, <1>6 DEF ShopMessage

\* The step of the whole session.
LEMMA KeysNext == Keys /\ [TradesNext]_tradeVars => Keys'
<1> SUFFICES ASSUME Keys, [TradesNext]_tradeVars PROVE Keys' OBVIOUS
<1>1. CASE UNCHANGED tradeVars BY <1>1 DEF tradeVars, vars, session, shops, Keys
<1>2. ASSUME NEW c \in Toons, NpcStep(c) PROVE Keys'
  BY <1>2, NpcOrderly, OrderlyKeyed DEF NpcStep, Keys, shops
<1>3. ASSUME NEW c \in Toons, PlayerStep(c) PROVE Keys'
  BY <1>3, PlayerOrderly, OrderlyKeyed DEF PlayerStep, Keys, shops
<1>4. ASSUME NEW c \in Toons, ShopStep(c) PROVE Keys' BY <1>4, ShopKeyed DEF ShopStep
<1> QED BY <1>1, <1>2, <1>3, <1>4 DEF TradesNext

\* In every session every row has its own id.
LEMMA AlwaysKeys ==
    ASSUME \A db \in Loadouts : IdsDistinct(db)
    PROVE  TradesSpec => []Keys
<1>1. TradesInit => Keys
  BY StartAssumption DEF TradesInit, Start, SessionInit, ShopsInit, Keys, Keyed, Table
<1> QED BY <1>1, KeysNext, PTL DEF TradesSpec

-----------------------------------------------------------------------------
(* Deals with NPCs.                                                        *)

\* The inventory of every character has room for what waits in its trade
\* window: the game lets no item go back that finds none.
RoomInInventory == \A c \in Toons : RoomToTakeBack(items, c)

\* Whatever else a step does, it forgets the last deal or makes one.
LEMMA DealOrNone ==
    ASSUME [TradesNext]_tradeVars
    PROVE  \/ UNCHANGED <<items, deal>>
           \/ deal' = NoDeal
           \/ \E c \in Toons : AcceptMessage(c)
<1>1. \A c \in Toons : NpcMessage(c) => deal' = NoDeal \/ AcceptMessage(c)
  BY DEF NpcMessage, GiveMessage, CloseMessage
<1> QED BY <1>1 DEF TradesNext, NpcStep, PlayerStep, ShopStep, tradeVars, vars, session

\* An item the NPC keeps is gone after the deal, in any session in which an NPC
\* rejects no item that is identical to another one in the window (AcceptMessage).
THEOREM KeptLeavesTable ==
    ASSUME \A db \in Loadouts : IdsDistinct(db)
    PROVE  TradesSpec => []KeptIsGone
<1>1. TradesInit => KeptIsGone BY DEF TradesInit, NoDeal, KeptIsGone
<1>2. Keys /\ KeptIsGone /\ [TradesNext]_tradeVars => KeptIsGone'
  <2> SUFFICES ASSUME Keys, KeptIsGone, [TradesNext]_tradeVars PROVE KeptIsGone' OBVIOUS
  <2>1. CASE UNCHANGED <<items, deal>> BY <2>1 DEF KeptIsGone
  <2>2. CASE deal' = NoDeal BY <2>2 DEF KeptIsGone, NoDeal
  <2>3. ASSUME NEW c \in Toons, AcceptMessage(c) PROVE KeptIsGone'
    <3> DEFINE W == Rows(items, c, INV_TRADE)
    <3>1. PICK R, back :
             /\ R \in SUBSET W
             /\ Shifted(c, R, INV_TOONINV, items, back)
             /\ items' = back \ Rows(back, c, INV_TRADE)
             /\ deal' = [kept |-> Id(W \ R), rejected |-> Id(R)]
      BY <2>3, Accepted DEF Keys, Keyed
    <3>2. ASSUME NEW x \in W \ R, NEW r \in items', r.id = x.id PROVE FALSE
      <4>1. r \in back /\ r \notin Rows(back, c, INV_TRADE) BY <3>1
      <4>2. \A y \in items : y.id = r.id => y = x
        BY <3>2 DEF Keys, Keyed, IdsDistinct, Rows
      <4>3. CASE r \in items BY <3>2, <4>1, <4>2, <4>3 DEF Rows
      <4>4. CASE r \notin items
        <5>1. PICK y \in R : Same(y, r) BY <3>1, <4>1, <4>4 DEF Shifted
        <5>2. y = x BY <3>1, <4>2, <5>1 DEF Same, Rows
        <5> QED BY <3>2, <5>2
      <4> QED BY <4>3, <4>4
    <3> QED BY <3>1, <3>2 DEF KeptIsGone, Id
  <2> QED BY <2>1, <2>2, <2>3, DealOrNone
<1> QED BY <1>1, <1>2, AlwaysKeys, PTL DEF TradesSpec

\* An item the NPC rejects is still in the table after the deal, in any session
\* of the same kind, as long as there is room for it.
THEOREM RejectedReturns ==
    ASSUME \A db \in Loadouts : IdsDistinct(db)
    PROVE  TradesSpec /\ []RoomInInventory => []RejectedComesBack
<1>1. TradesInit => RejectedComesBack BY DEF TradesInit, NoDeal, RejectedComesBack
<1>2. Keys /\ RoomInInventory /\ RejectedComesBack /\ [TradesNext]_tradeVars
        => RejectedComesBack'
  <2> SUFFICES ASSUME Keys, RoomInInventory, RejectedComesBack, [TradesNext]_tradeVars
               PROVE  RejectedComesBack'
    OBVIOUS
  <2>1. CASE UNCHANGED <<items, deal>> BY <2>1 DEF RejectedComesBack
  <2>2. CASE deal' = NoDeal BY <2>2 DEF RejectedComesBack, NoDeal
  <2>3. ASSUME NEW c \in Toons, AcceptMessage(c) PROVE RejectedComesBack'
    <3> DEFINE W == Rows(items, c, INV_TRADE)
    <3>1. PICK R, back :
             /\ R \in SUBSET W
             /\ Shifted(c, R, INV_TOONINV, items, back)
             /\ items' = back \ Rows(back, c, INV_TRADE)
             /\ deal' = [kept |-> Id(W \ R), rejected |-> Id(R)]
             /\ R \cap Rows(back, c, INV_TRADE) = {}
      BY <2>3, Accepted DEF Keys, Keyed, RoomInInventory
    <3>2. ASSUME NEW x \in R PROVE \E r \in items' : r.id = x.id
      <4>1. x \in items /\ x \notin Rows(back, c, INV_TRADE) BY <3>1 DEF Rows
      <4>2. CASE x \in back BY <3>1, <4>1, <4>2
      <4>3. CASE x \notin back
        <5>1. PICK r \in back : Same(x, r) /\ r.parent = INV_TOONINV
          BY <3>1, <4>1, <4>3 DEF Shifted
        <5>2. r \notin Rows(back, c, INV_TRADE) BY <5>1 DEF Rows, INV_TRADE, INV_TOONINV
        <5> QED BY <3>1, <5>1, <5>2 DEF Same
      <4> QED BY <4>2, <4>3
    <3> QED BY <3>1, <3>2 DEF RejectedComesBack, Id
  <2> QED BY <2>1, <2>2, <2>3, DealOrNone
<1> QED BY <1>1, <1>2, AlwaysKeys, PTL DEF TradesSpec

-----------------------------------------------------------------------------
(* Sessions without player shops.                                          *)

\* A step of such a session is a message about an NPC or a player.
LEMMA MessageOrNone ==
    ASSUME AllBut("shop"), [TradesNext]_tradeVars
    PROVE  \/ UNCHANGED tradeVars
           \/ \E c \in Toons :
                 \/ NpcMessage(c)
                 \/ PlayerMessage(c) /\ deal' = NoDeal
BY DEF TradesNext, NpcStep, PlayerStep, ShopStep, AllBut

\* Whom a session meets is settled at its start.
LEMMA MeetsKept ==
    ASSUME [TradesNext]_tradeVars
    PROVE  meets' = meets
BY DEF TradesNext, NpcStep, PlayerStep, ShopStep, tradeVars

\* What trades with NPCs and players do to the places of the items.
TidySession == AllBut("shop") => Tidy(items)

\* There is one item to a slot as long as no player shop is met, in tables with
\* any number of items and with no bound on the room there is.
THEOREM TradesTidy ==
    ASSUME \A db \in Loadouts : IdsDistinct(db) /\ Tidy(db)
    PROVE  TradesSpec => [](AllBut("shop") => SlotsUnique)
<1>1. TradesInit => TidySession BY DEF TradesInit, Start, SessionInit, TidySession
<1>2. Keys /\ TidySession /\ [TradesNext]_tradeVars => TidySession'
  <2> SUFFICES ASSUME Keys, TidySession, [TradesNext]_tradeVars, AllBut("shop")
               PROVE  Tidy(items')
    BY MeetsKept DEF TidySession, AllBut
  <2>1. CASE UNCHANGED tradeVars
    BY <2>1 DEF tradeVars, vars, session, TidySession
  <2>2. ASSUME NEW c \in Toons, NpcMessage(c) \/ PlayerMessage(c) PROVE Tidy(items')
    <3>1. Orderly(c, items, items') BY <2>2, NpcOrderly, PlayerOrderly DEF Keys
    <3> QED BY <3>1 DEF Orderly, Sound, TidySession
  <2> QED BY <2>1, <2>2, MessageOrNone
<1>3. TidySession => (AllBut("shop") => SlotsUnique)
  BY DEF TidySession, Tidy, OneToASlot, SlotsUnique
<1>4. TradesSpec => []Keys BY AlwaysKeys
<1> QED BY <1>1, <1>2, <1>3, <1>4, PTL DEF TradesSpec

-----------------------------------------------------------------------------
(* What such sessions do to the table.                                     *)

TradeWindows == {INV_TRADE, INV_TRADEPARTNER}

\* The game lets no window hold more than it has slots for.
RoomInWindows ==
    \A c \in Toons : \A w \in TradeWindows :
        Cardinality(Rows(items, c, w)) <= LastTradeSlot + 1

Room == RoomInInventory /\ RoomInWindows

Moves(x, p, s) == items' = Move(items, {x}, p, s)

\* One of the character's items is offered.
Puts(c) ==
    \E x \in Owned(items, c), s \in 0..LastTradeSlot :
        x.parent \notin TradeWindows /\ Moves(x, INV_TRADE, s)

\* It is taken back.
Takes(c) == \E x \in Rows(items, c, INV_TRADE), s \in Nat : Moves(x, INV_TOONINV, s)

\* Something new comes, with no backpack's id but a new one.
Brings(c, p) ==
    \E x \in Row :
        /\ items' = items \cup {x}
        /\ x.id \notin Id(items)
        /\ x.owner = c
        /\ x.parent = p
        /\ p \in TradeWindows => x.slot <= LastTradeSlot
        /\ x.children \in NewBags \cup {0}

\* The partner takes something back.
TakesAway(c) == \E x \in Rows(items, c, INV_TRADEPARTNER) : items' = items \ {x}

\* Both windows are emptied, mine into the inventory.
GivesBack(c) ==
    \E back :
        /\ Shifted(c, Rows(items, c, INV_TRADE), INV_TOONINV, items, back)
        /\ Rows(back, c, INV_TRADE) = {}
        /\ items' = back \ Rows(back, c, INV_TRADEPARTNER)

\* Some of what was offered goes back and the rest is deleted.
Settles(c) ==
    \E R \in SUBSET Rows(items, c, INV_TRADE) : \E back :
        /\ Shifted(c, R, INV_TOONINV, items, back)
        /\ items' = back \ Rows(back, c, INV_TRADE)
        /\ deal' = NoDeal => Rows(items, c, INV_TRADE) = {}

\* What was offered is deleted, with what it contains, and the partner's window
\* goes to the inventory.
Swaps(c) ==
    LET gone == items \ OfferedRows(c)
    IN  /\ Shifted(c, Rows(gone, c, INV_TRADEPARTNER), INV_TOONINV, gone, items')
        /\ Rows(items', c, INV_TRADEPARTNER) = {}

\* A step in the life of a trade with an NPC, and of one with a player.
NpcDeed(c) ==
    \/ /\ trading[c] \in {"none", "npc"}
       /\ TradesWith(c, "npc")
       /\ items' = items \/ Puts(c) \/ Takes(c)
    \/ /\ trading[c] = "npc"
       /\ TradesWith(c, "none")
       /\ GivesBack(c) \/ Settles(c)

PlayerDeed(c) ==
    \/ /\ trading[c] = "none"
       /\ TradesWith(c, "player")
       /\ items' = items
    \/ /\ trading[c] = "player"
       /\ UNCHANGED trading
       /\ \/ items' = items
          \/ Puts(c) \/ Takes(c)
          \/ Brings(c, INV_TRADEPARTNER) \/ TakesAway(c)
    \/ /\ trading[c] = "player"
       /\ TradesWith(c, "none")
       /\ GivesBack(c) \/ Swaps(c)
    \/ /\ UNCHANGED trading
       /\ Brings(c, INV_TOONINV)

-----------------------------------------------------------------------------
(* What has to hold for this.                                              *)

\* Outside a trade my window is empty, and outside one with a player so is the
\* partner's; nothing is past the last slot; the partner's backpacks differ.
InWindows(c) ==
    /\ trading[c] \in {"none", "npc", "player"}
    /\ trading[c] = "none" => Rows(items, c, INV_TRADE) = {}
    /\ trading[c] # "player" => Rows(items, c, INV_TRADEPARTNER) = {}
    /\ \A w \in TradeWindows : \A r \in Rows(items, c, w) : r.slot <= LastTradeSlot
    /\ \A x, y \in Rows(items, c, INV_TRADEPARTNER) :
          x.children \in Bags /\ x.children = y.children => x = y

\* What contains something has a backpack's id, and so have the containers that
\* are opened.
Packed(db) == \A r \in db : r.children \in Bags \cup {0}

OpenedBags == containerIdCache \in [Toons -> [TempIds -> Bags \cup {0}]]

Bargains ==
    /\ Keyed(items) /\ Tidy(items)
    /\ Packed(items)
    /\ OpenedBags
    /\ trading \in [Toons -> Partners]
    /\ \A c \in Toons : InWindows(c)

\* The window an item comes to has a slot for it.
LEMMA WindowSlot ==
    ASSUME Table(items), Table(items'), Room', NEW c \in Toons, NEW w \in TradeWindows,
           Rows(items, c, w) \subseteq items',
           NEW y \in Rows(items', c, w), y \notin Rows(items, c, w)
    PROVE  FindNextAvailableContainerSlot(items, c, w) \in 0..LastTradeSlot
<1> DEFINE old == Rows(items, c, w)
           new == Rows(items', c, w)
<1>1. old \cup {y} \in SUBSET new BY DEF Rows
<1>2. old \in SUBSET items /\ new \in SUBSET items' BY DEF Rows
<1>3. IsFiniteSet(old) /\ IsFiniteSet(new) BY <1>2, FS_Subset DEF Table
<1>4. Cardinality(new) <= LastTradeSlot + 1 BY DEF Room, RoomInWindows
<1>5. FirstSlot(w) = 0 BY DEF FirstSlot, TradeWindows, INV_TRADE, INV_TRADEPARTNER, INV_TOONINV
<1>6. Used(items, c, w) = old BY <1>5 DEF Used, Rows, Table, Row
<1>7. FindNextAvailableContainerSlot(items, c, w) <= FirstSlot(w) + Cardinality(Used(items, c, w))
  BY SlotBound
<1>8. FindNextAvailableContainerSlot(items, c, w) \in Nat BY FreeSlotFound
<1> HIDE DEF old, new
<1>9. Cardinality(old \cup {y}) = Cardinality(old) + 1 BY <1>3, FS_AddElement DEF old
<1>10. Cardinality(old \cup {y}) <= Cardinality(new) BY <1>1, <1>3, FS_Subset
<1>11. Cardinality(old) \in Nat /\ Cardinality(new) \in Nat BY <1>3, FS_CardinalityType
<1> QED BY <1>4, <1>5, <1>6, <1>7, <1>8, <1>9, <1>10, <1>11, SlotAssumption

\* In a tidy table a message names one item or none.
LEMMA OneNamed ==
    ASSUME Tidy(items), NEW c, NEW from, NEW s, Named(from, s)
    PROVE  \/ RowsAt(items, c, from, s) = {}
           \/ \E x \in Rows(items, c, from) : RowsAt(items, c, from, s) = {x}
<1>1. \A x, y \in RowsAt(items, c, from, s) : x = y BY DEF Tidy, OneToASlot, RowsAt
<1>2. RowsAt(items, c, from, s) \subseteq Rows(items, c, from) BY DEF RowsAt, Rows
<1> QED BY <1>1, <1>2

\* An offer.
LEMMA OfferDeed ==
    ASSUME Bargains, Table(items'), Room', NEW c \in Toons, NEW from,
           from \notin TradeWindows, NEW s, Named(from, s),
           MoveToFreeSlot(c, from, s, INV_TRADE)
    PROVE  items' = items \/ Puts(c)
<1> DEFINE R    == RowsAt(items, c, from, s)
           slot == FindNextAvailableContainerSlot(items, c, INV_TRADE)
<1>1. items' = Move(items, R, INV_TRADE, slot) BY DEF MoveToFreeSlot, Commit
<1>2. CASE R = {} BY <1>1, <1>2 DEF Move
<1>3. CASE R # {}
  <2>1. PICK x \in Rows(items, c, from) : R = {x} BY <1>3, OneNamed DEF Bargains
  <2>2. x \in Row /\ x \in items /\ x.owner = c /\ x.parent = from
    BY <2>1 DEF Bargains, Keyed, Table, Rows
  <2>3. Moves(x, INV_TRADE, slot) BY <1>1, <2>1 DEF Moves
  <2>4. slot \in 0..LastTradeSlot
    <3> DEFINE y == [x EXCEPT !.parent = INV_TRADE, !.slot = slot]
    <3>1. items' = (items \ {x}) \cup {y} BY <2>3 DEF Moves, Move
    <3>2. y.owner = c /\ y.parent = INV_TRADE /\ y.slot = slot /\ y.id = x.id BY <2>2 DEF Row
    <3>3. y \in Rows(items', c, INV_TRADE) BY <3>1, <3>2 DEF Rows
    <3>4. x \notin Rows(items, c, INV_TRADE) BY <2>2 DEF Rows, TradeWindows
    <3>5. Rows(items, c, INV_TRADE) \subseteq items' BY <3>1, <3>4 DEF Rows
    <3>6. y \notin Rows(items, c, INV_TRADE)
      <4>1. \A r \in items : r.id = x.id => r = x BY <2>2 DEF Bargains, Keyed, IdsDistinct
      <4> HIDE DEF y
      <4> QED BY <3>2, <3>4, <4>1 DEF Rows
    <3>7. Table(items) /\ INV_TRADE \in TradeWindows BY DEF Bargains, Keyed, TradeWindows
    <3> HIDE DEF y
    <3> QED BY <3>3, <3>5, <3>6, <3>7, WindowSlot
  <2>5. x \in Owned(items, c) BY <2>2 DEF Owned
  <2> HIDE DEF slot
  <2> QED BY <2>2, <2>3, <2>4, <2>5 DEF Puts
<1> QED BY <1>2, <1>3

\* Something is taken back.
LEMMA WithdrawDeed ==
    ASSUME Bargains, NEW c \in Toons, NEW s, MoveToFreeSlot(c, INV_TRADE, s, INV_TOONINV)
    PROVE  items' = items \/ Takes(c)
<1> DEFINE R    == RowsAt(items, c, INV_TRADE, s)
           slot == FindNextAvailableContainerSlot(items, c, INV_TOONINV)
<1>1. items' = Move(items, R, INV_TOONINV, slot) BY DEF MoveToFreeSlot, Commit
<1>2. slot \in Nat BY FreeSlotFound DEF Bargains, Keyed
<1>3. CASE R = {} BY <1>1, <1>3 DEF Move
<1>4. CASE R # {}
  <2>1. Named(INV_TRADE, s) BY DEF Named, INV_TRADE, INV_TOONINV
  <2>2. PICK x \in Rows(items, c, INV_TRADE) : R = {x} BY <1>4, <2>1, OneNamed DEF Bargains
  <2> QED BY <1>1, <1>2, <2>2 DEF Takes, Moves
<1> QED BY <1>3, <1>4

\* No message but one about the window names a trade window.
LEMMA NoWindowNamed ==
    ASSUME OpenedBags, NEW c \in Toons, NEW type \in Types \ {"trade"}, NEW t \in TempIds
    PROVE  GetFromContainerId(c, type, t) \notin TradeWindows
<1>1. containerIdCache[c][t] \in Bags \cup {0} BY DEF OpenedBags
<1>2. INV_TRADE \notin Bags /\ INV_TRADEPARTNER \notin Bags
  BY BagAssumption DEF INV_TRADE, INV_TRADEPARTNER
<1> QED BY <1>1, <1>2 DEF GetFromContainerId, GetContainerId, TradeWindows, INV_TRADE,
             INV_TRADEPARTNER, INV_BANK, INV_OVERFLOW, INV_TOONINV

\* Everything in my window goes back to the inventory.
LEMMA AllGoesBack ==
    ASSUME Bargains, Room, NEW c \in Toons
    PROVE  LET back == MoveBack(items, c)
           IN  /\ Shifted(c, Rows(items, c, INV_TRADE), INV_TOONINV, items, back)
               /\ Rows(back, c, INV_TRADE) = {}
<1>1. \A r \in Rows(items, c, INV_TRADE) : r.slot <= LastTradeSlot
  BY DEF Bargains, InWindows, TradeWindows
<1>2. RoomToTakeBack(items, c) BY DEF Room, RoomInInventory
<1> QED BY <1>1, <1>2, WindowCarried DEF MoveBack, Bargains, Keyed

\* A message about an NPC.
LEMMA NpcDeeds ==
    ASSUME Bargains, Room, Room', NEW c \in Toons, NpcMessage(c)
    PROVE  NpcDeed(c) /\ (EndsTrade(c, "npc") /\ deal' = NoDeal
                            => GivesBack(c) \/ (Settles(c) /\ Rows(items, c, INV_TRADE) = {}))
<1>1. Table(items) /\ Table(items')
  BY NpcOrderly DEF Bargains, Keyed, Orderly, Sound
<1>2. trading \in [Toons -> Partners] BY DEF Bargains
<1>3. CASE GiveMessage(c)
  <2>1. PICK type \in Types, t \in TempIds, s \in Slots :
           /\ Named(GetFromContainerId(c, type, t), s)
           /\ GiveToNpc(c, type = "trade", type, t, s)
    BY <1>3 DEF GiveMessage
  <2>2. CASE type = "trade"
    <3>1. GetFromContainerId(c, type, t) = INV_TRADE BY <2>2 DEF GetFromContainerId
    <3>2. MoveToFreeSlot(c, INV_TRADE, s, INV_TOONINV) BY <2>1, <2>2, <3>1 DEF GiveToNpc
    <3>3. items' = items \/ Takes(c) BY <3>2, WithdrawDeed
    <3> QED BY <1>2, <1>3, <3>3 DEF GiveMessage, NpcDeed, TradesWith, EndsTrade
  <2>3. CASE type # "trade"
    <3> DEFINE from == GetFromContainerId(c, type, t)
    <3>1. MoveToFreeSlot(c, from, s, INV_TRADE) BY <2>1, <2>3 DEF GiveToNpc
    <3>2. from \notin TradeWindows BY <2>3, NoWindowNamed DEF Bargains
    <3>3. Named(from, s) BY <2>1
    <3> HIDE DEF from
    <3>4. items' = items \/ Puts(c) BY <1>1, <3>1, <3>2, <3>3, OfferDeed
    <3> QED BY <1>2, <1>3, <3>4 DEF GiveMessage, NpcDeed, TradesWith, EndsTrade
  <2> QED BY <2>2, <2>3
<1>4. CASE CloseMessage(c)
  <2> DEFINE back == MoveBack(items, c)
  <2>1. items' = back BY <1>4 DEF CloseMessage, EndNpcTrade, Commit
  <2>2. /\ Shifted(c, Rows(items, c, INV_TRADE), INV_TOONINV, items, back)
        /\ Rows(back, c, INV_TRADE) = {}
    BY AllGoesBack
  <2>3. Rows(items, c, INV_TRADEPARTNER) = {}
    BY <1>4 DEF CloseMessage, Bargains, InWindows
  <2>4. Rows(back, c, INV_TRADEPARTNER) = {}
    <3> HIDE DEF back
    <3> QED BY <2>2, <2>3, StillThere DEF INV_TRADEPARTNER, INV_TOONINV
  <2> HIDE DEF back
  <2>5. items' = back \ Rows(back, c, INV_TRADEPARTNER) BY <2>1, <2>4
  <2>6. GivesBack(c) BY <2>2, <2>5 DEF GivesBack
  <2> QED BY <1>4, <2>6 DEF CloseMessage, NpcDeed
<1>5. CASE AcceptMessage(c)
  <2>1. PICK R, back :
           /\ R \in SUBSET Rows(items, c, INV_TRADE)
           /\ Shifted(c, R, INV_TOONINV, items, back)
           /\ items' = back \ Rows(back, c, INV_TRADE)
           /\ deal' = [kept |-> Id(Rows(items, c, INV_TRADE) \ R), rejected |-> Id(R)]
    BY <1>1, <1>5, Accepted
  <2>2. deal' = NoDeal => Rows(items, c, INV_TRADE) = {}
    <3> SUFFICES ASSUME deal' = NoDeal PROVE Rows(items, c, INV_TRADE) = {} OBVIOUS
    <3>1. Id(Rows(items, c, INV_TRADE) \ R) = {} /\ Id(R) = {} BY <2>1 DEF NoDeal
    <3> QED BY <3>1 DEF Id
  <2>3. Settles(c) BY <2>1, <2>2 DEF Settles
  <2> QED BY <1>5, <2>2, <2>3 DEF AcceptMessage, NpcDeed
<1> QED BY <1>3, <1>4, <1>5 DEF NpcMessage

\* What a partner or a shop terminal adds.
LEMMA BringDeed ==
    ASSUME Bargains, Table(items'), Room', NEW c \in Toons, NEW k \in Kinds, NEW n \in Int,
           NEW p \in {INV_TRADEPARTNER, INV_TOONINV}, NEW b \in NewBags \cup {0},
           InsertNew(c, k, n, p, b)
    PROVE  Brings(c, p)
<1>1. p \in Nat \ {INV_HOTSWAPTEMP}
  BY DEF INV_TRADEPARTNER, INV_TOONINV, INV_HOTSWAPTEMP
<1>2. b \in Nat BY BagAssumption DEF NewBags
<1>3. PICK x \in Row :
         /\ items' = items \cup {x}
         /\ x.id \notin Id(items)
         /\ x.parent = p /\ x.children = b /\ x.owner = c
         /\ x.slot = FindNextAvailableContainerSlot(items, c, p)
  BY <1>1, <1>2, NewItem DEF Bargains
<1>4. ASSUME p \in TradeWindows PROVE x.slot <= LastTradeSlot
  <2>1. Rows(items, c, p) \subseteq items' BY <1>3 DEF Rows
  <2>2. x \in Rows(items', c, p) /\ x \notin Rows(items, c, p) BY <1>3 DEF Rows, Id
  <2>3. Table(items) BY DEF Bargains, Keyed
  <2>4. FindNextAvailableContainerSlot(items, c, p) \in 0..LastTradeSlot
    BY <1>4, <2>1, <2>2, <2>3, WindowSlot
  <2> QED BY <1>3, <2>4, SlotAssumption
<1> QED BY <1>3, <1>4 DEF Brings

\* The partner takes back at most one thing.
LEMMA TakeAwayDeed ==
    ASSUME Bargains, NEW c \in Toons, NEW R, R \subseteq Rows(items, c, INV_TRADEPARTNER),
           \A x, y \in R : x = y, items' = items \ R
    PROVE  items' = items \/ TakesAway(c)
<1>1. CASE R = {} BY <1>1
<1>2. CASE R # {}
  <2>1. PICK x \in R : R = {x} BY <1>2
  <2> QED BY <2>1 DEF TakesAway
<1> QED BY <1>1, <1>2

\* A message about a player or a shop terminal.
LEMMA PlayerDeeds ==
    ASSUME Bargains, Room, Room', NEW c \in Toons, PlayerMessage(c)
    PROVE  PlayerDeed(c)
<1>1. Table(items) /\ Table(items')
  BY PlayerOrderly DEF Bargains, Keyed, Orderly, Sound
<1>2. CASE Starts(c, "player")
  <2>1. Windows(items, c) = {} BY <1>2 DEF Starts, Bargains, InWindows, Windows
  <2>2. items' = items BY <1>2, <2>1 DEF Starts, StartTrade, Commit
  <2> QED BY <1>2, <2>2 DEF Starts, PlayerDeed
<1>3. CASE trading[c] = "player" /\ Ends(c)
  <2>1. CASE Decline(c)
    <3> DEFINE back == MoveBack(items, c)
    <3>1. items' = back \ Rows(back, c, INV_TRADEPARTNER) BY <2>1 DEF Decline, Commit
    <3>2. /\ Shifted(c, Rows(items, c, INV_TRADE), INV_TOONINV, items, back)
          /\ Rows(back, c, INV_TRADE) = {}
      BY AllGoesBack
    <3> HIDE DEF back
    <3>3. GivesBack(c) BY <3>1, <3>2 DEF GivesBack
    <3> QED BY <1>3, <3>3 DEF Ends, PlayerDeed
  <2>2. CASE CommitTrade(c)
    <3> DEFINE gone == items \ OfferedRows(c)
               W    == Rows(gone, c, INV_TRADEPARTNER)
    <3>1. items' = CarryOver(gone, c, c, INV_TRADEPARTNER, c, INV_TOONINV, FALSE)
      <4>1. \A r \in items : r.children \in Nat BY <1>1 DEF Table, Row
      <4> QED BY <2>2, <4>1, Committed
    <3>2. Table(gone)
      <4>1. gone \in SUBSET items OBVIOUS
      <4> QED BY <1>1, <4>1, FS_Subset DEF Table
    <3>3. \A r \in W : r.slot <= LastTradeSlot
      BY DEF Bargains, InWindows, TradeWindows, Rows
    <3> HIDE DEF gone
    <3>4. Shifted(c, W, INV_TOONINV, gone, items') /\ Rows(items', c, INV_TRADEPARTNER) = {}
      BY <3>1, <3>2, <3>3, WindowCarried
    <3>5. Swaps(c) BY <3>4 DEF Swaps, gone
    <3> QED BY <1>3, <3>5 DEF Ends, PlayerDeed
  <2> QED BY <1>3, <2>1, <2>2 DEF Ends
<1>4. CASE trading[c] = "player" /\ Offers(c)
  <2>1. CASE \E s \in Slots : RemoveItem(c, s)
    <3>1. items' = items \/ Takes(c) BY <2>1, WithdrawDeed DEF RemoveItem
    <3> QED BY <1>4, <3>1 DEF Offers, PlayerDeed
  <2>2. CASE \E type \in Types \ {"trade"}, t \in TempIds, s \in Slots :
                Named(GetFromContainerId(c, type, t), s) /\ AddItem(c, type, t, s)
    <3>1. PICK type \in Types \ {"trade"}, t \in TempIds, s \in Slots :
             Named(GetFromContainerId(c, type, t), s) /\ AddItem(c, type, t, s)
      BY <2>2
    <3> DEFINE from == GetFromContainerId(c, type, t)
    <3>2. MoveToFreeSlot(c, from, s, INV_TRADE) BY <3>1 DEF AddItem
    <3>3. from \notin TradeWindows BY NoWindowNamed DEF Bargains
    <3>4. Named(from, s) BY <3>1
    <3> HIDE DEF from
    <3>5. items' = items \/ Puts(c) BY <1>1, <3>2, <3>3, <3>4, OfferDeed
    <3> QED BY <1>4, <3>5 DEF Offers, PlayerDeed
  <2> QED BY <1>4, <2>1, <2>2 DEF Offers
<1>5. CASE trading[c] = "player" /\ PartnerOffers(c)
  <2>1. CASE \E k \in Traded, n \in 1..MaxStack : PartnerAddsItem(c, k, n)
    <3>1. Brings(c, INV_TRADEPARTNER)
      BY <1>1, <2>1, BringDeed, TemplateAssumption DEF PartnerAddsItem
    <3> QED BY <1>5, <3>1 DEF PartnerOffers, PlayerDeed
  <2>2. CASE \E s \in Slots : PartnerRemovesItem(c, s)
    <3>1. PICK s \in Slots : items' = items \ RowsAt(items, c, INV_TRADEPARTNER, s)
      BY <2>2 DEF PartnerRemovesItem, Commit
    <3>2. \A x, y \in RowsAt(items, c, INV_TRADEPARTNER, s) : x = y
      BY DEF Bargains, Tidy, OneToASlot, RowsAt, Named, INV_TRADEPARTNER, INV_TOONINV
    <3>3. RowsAt(items, c, INV_TRADEPARTNER, s) \subseteq Rows(items, c, INV_TRADEPARTNER)
      BY DEF RowsAt, Rows
    <3>4. items' = items \/ TakesAway(c) BY <3>1, <3>2, <3>3, TakeAwayDeed
    <3> QED BY <1>5, <3>4 DEF PartnerOffers, PlayerDeed
  <2>3. CASE \E b \in NewBags : PartnerAddsBackpack(c, b)
    <3>1. Brings(c, INV_TRADEPARTNER)
      BY <1>1, <2>3, BringDeed, TemplateAssumption DEF PartnerAddsBackpack
    <3> QED BY <1>5, <3>1 DEF PartnerOffers, PlayerDeed
  <2>4. CASE \E b \in Bags : PartnerRemovesBackpack(c, b)
    <3>1. PICK b \in Bags : PartnerRemovesBackpack(c, b) BY <2>4
    <3> DEFINE R == {r \in Rows(items, c, INV_TRADEPARTNER) : r.children = b}
    <3>2. items' = items \ R BY <3>1 DEF PartnerRemovesBackpack, Commit
    <3>3. \A x, y \in R : x = y BY DEF Bargains, InWindows
    <3>4. R \subseteq Rows(items, c, INV_TRADEPARTNER) OBVIOUS
    <3> HIDE DEF R
    <3>5. items' = items \/ TakesAway(c) BY <3>2, <3>3, <3>4, TakeAwayDeed
    <3> QED BY <1>5, <3>5 DEF PartnerOffers, PlayerDeed
  <2> QED BY <1>5, <2>1, <2>2, <2>3, <2>4 DEF PartnerOffers
<1>6. CASE Buys(c)
  <2>1. Brings(c, INV_TOONINV) BY <1>1, <1>6, BringDeed, TemplateAssumption DEF Buys, ItemBought
  <2> QED BY <1>6, <2>1 DEF Buys, PlayerDeed
<1> QED BY <1>2, <1>3, <1>4, <1>5, <1>6 DEF PlayerMessage

-----------------------------------------------------------------------------
(* The windows.                                                            *)

\* The ids of opened containers are learned from other messages.
LEMMA CachesKept ==
    ASSUME NEW c, NpcMessage(c) \/ PlayerMessage(c)
    PROVE  UNCHANGED caches
<1>1. NpcMessage(c) => UNCHANGED caches
  BY DEF NpcMessage, GiveMessage, CloseMessage, AcceptMessage, GiveToNpc, EndNpcTrade,
         NpcTradeAccept
<1>2. Starts(c, "player") => UNCHANGED caches BY DEF Starts, StartTrade
<1>3. Ends(c) => UNCHANGED caches BY DEF Ends, Decline, CommitTrade
<1>4. Offers(c) => UNCHANGED caches BY DEF Offers, AddItem, RemoveItem
<1>5. PartnerOffers(c) \/ Buys(c) => UNCHANGED caches
  BY DEF PartnerOffers, PartnerAddsItem, PartnerRemovesItem, PartnerAddsBackpack,
         PartnerRemovesBackpack, InsertNew, Buys, ItemBought
<1> QED BY <1>1, <1>2, <1>3, <1>4, <1>5 DEF PlayerMessage

\* What moves keeps what it contains.
LEMMA ShiftPacked ==
    ASSUME NEW c, NEW W, NEW p, NEW old, NEW new, Shifted(c, W, p, old, new),
           W \subseteq old, Packed(old)
    PROVE  Packed(new)
<1> SUFFICES ASSUME NEW r \in new PROVE r.children \in Bags \cup {0} BY DEF Packed
<1>1. r \in old \/ \E x \in W : Same(x, r) BY DEF Shifted
<1> QED BY <1>1 DEF Packed, Same

\* A deletion leaves the other backpacks what they were.
LEMMA DeletionPacked ==
    ASSUME NEW db, Packed(db), NEW R
    PROVE  Packed(db \ R)
BY DEF Packed

\* No deed makes a backpack of another kind.
LEMMA DeedPacked ==
    ASSUME Bargains, NEW c, NpcDeed(c) \/ PlayerDeed(c)
    PROVE  Packed(items')
<1>1. Packed(items) BY DEF Bargains
<1>2. \A x, p, s : x \in items /\ Moves(x, p, s) => Packed(items')
  <2> SUFFICES ASSUME NEW x \in items, NEW p, NEW s, Moves(x, p, s) PROVE Packed(items')
    OBVIOUS
  <2>1. x \in Row BY DEF Bargains, Keyed, Table
  <2>2. [x EXCEPT !.parent = p, !.slot = s].children = x.children BY <2>1 DEF Row
  <2> QED BY <1>1, <2>2 DEF Moves, Move, Packed
<1>3. Puts(c) \/ Takes(c) => Packed(items') BY <1>2 DEF Puts, Takes, Owned, Rows
<1>4. \A p : Brings(c, p) => Packed(items') BY <1>1 DEF Brings, Packed, NewBags
<1>5. TakesAway(c) => Packed(items') BY <1>1, DeletionPacked DEF TakesAway
<1>6. GivesBack(c) => Packed(items')
  <2> SUFFICES ASSUME GivesBack(c) PROVE Packed(items') OBVIOUS
  <2>1. PICK back : /\ Shifted(c, Rows(items, c, INV_TRADE), INV_TOONINV, items, back)
                    /\ items' = back \ Rows(back, c, INV_TRADEPARTNER)
    BY DEF GivesBack
  <2>2. Rows(items, c, INV_TRADE) \subseteq items BY DEF Rows
  <2> QED BY <1>1, <2>1, <2>2, ShiftPacked, DeletionPacked
<1>7. Settles(c) => Packed(items')
  <2> SUFFICES ASSUME Settles(c) PROVE Packed(items') OBVIOUS
  <2>1. PICK R, back :
           /\ R \in SUBSET Rows(items, c, INV_TRADE)
           /\ Shifted(c, R, INV_TOONINV, items, back)
           /\ items' = back \ Rows(back, c, INV_TRADE)
    BY DEF Settles
  <2>2. R \subseteq items BY <2>1 DEF Rows
  <2> QED BY <1>1, <2>1, <2>2, ShiftPacked, DeletionPacked
<1>8. Swaps(c) => Packed(items')
  <2> SUFFICES ASSUME Swaps(c) PROVE Packed(items') OBVIOUS
  <2> DEFINE gone == items \ OfferedRows(c)
  <2>1. Shifted(c, Rows(gone, c, INV_TRADEPARTNER), INV_TOONINV, gone, items') BY DEF Swaps
  <2>2. Packed(gone) BY <1>1, DeletionPacked
  <2> HIDE DEF gone
  <2>3. Rows(gone, c, INV_TRADEPARTNER) \subseteq gone BY DEF Rows
  <2> QED BY <2>1, <2>2, <2>3, ShiftPacked
<1> QED BY <1>1, <1>3, <1>4, <1>5, <1>6, <1>7, <1>8 DEF NpcDeed, PlayerDeed

\* What a deed does to the windows of its character.
LEMMA DeedWindows ==
    ASSUME Bargains, NEW c
    PROVE  LET mine == Rows(items, c, INV_TRADE)
               his  == Rows(items, c, INV_TRADEPARTNER)
           IN  /\ Puts(c) =>
                     /\ \A r \in Rows(items', c, INV_TRADE) : r \in mine \/ r.slot <= LastTradeSlot
                     /\ Rows(items', c, INV_TRADEPARTNER) = his
               /\ Takes(c) =>
                     /\ Rows(items', c, INV_TRADE) \subseteq mine
                     /\ Rows(items', c, INV_TRADEPARTNER) = his
               /\ TakesAway(c) =>
                     /\ Rows(items', c, INV_TRADE) = mine
                     /\ Rows(items', c, INV_TRADEPARTNER) \subseteq his
               /\ Brings(c, INV_TOONINV) =>
                     /\ Rows(items', c, INV_TRADE) = mine
                     /\ Rows(items', c, INV_TRADEPARTNER) = his
               /\ Brings(c, INV_TRADEPARTNER) =>
                     /\ Rows(items', c, INV_TRADE) = mine
                     /\ \E x : /\ x.slot <= LastTradeSlot
                               /\ x.children \in NewBags \cup {0}
                               /\ Rows(items', c, INV_TRADEPARTNER) = his \cup {x}
               /\ GivesBack(c) \/ Swaps(c) =>
                     /\ Rows(items', c, INV_TRADE) = {}
                     /\ Rows(items', c, INV_TRADEPARTNER) = {}
               /\ Settles(c) =>
                     /\ Rows(items', c, INV_TRADE) = {}
                     /\ Rows(items', c, INV_TRADEPARTNER) \subseteq his
<1> DEFINE mine == Rows(items, c, INV_TRADE)
           his  == Rows(items, c, INV_TRADEPARTNER)
<1> USE DEF INV_TRADE, INV_TRADEPARTNER, INV_TOONINV
<1>1. \A x \in items : \A p, s : x \in Row
         /\ [x EXCEPT !.parent = p, !.slot = s].parent = p
         /\ [x EXCEPT !.parent = p, !.slot = s].slot = s
  BY DEF Bargains, Keyed, Table, Row
<1>2. ASSUME Puts(c)
      PROVE  /\ \A r \in Rows(items', c, INV_TRADE) : r \in mine \/ r.slot <= LastTradeSlot
             /\ Rows(items', c, INV_TRADEPARTNER) = his
  <2>1. PICK x \in Owned(items, c), s \in 0..LastTradeSlot :
           x.parent \notin TradeWindows /\ Moves(x, INV_TRADE, s)
    BY <1>2 DEF Puts
  <2> DEFINE y == [x EXCEPT !.parent = INV_TRADE, !.slot = s]
  <2>2. x \in items BY DEF Owned
  <2>3. items' = (items \ {x}) \cup {y} BY <2>1 DEF Moves, Move
  <2>4. y.parent = INV_TRADE /\ y.slot = s BY <1>1, <2>2
  <2> HIDE DEF y
  <2> QED BY <2>1, <2>3, <2>4, SlotAssumption DEF Rows, TradeWindows
<1>3. ASSUME Takes(c)
      PROVE  Rows(items', c, INV_TRADE) \subseteq mine /\ Rows(items', c, INV_TRADEPARTNER) = his
  <2>1. PICK x \in Rows(items, c, INV_TRADE), s \in Nat : Moves(x, INV_TOONINV, s)
    BY <1>3 DEF Takes
  <2> DEFINE y == [x EXCEPT !.parent = INV_TOONINV, !.slot = s]
  <2>2. x \in items /\ x.parent = INV_TRADE BY DEF Rows
  <2>3. items' = (items \ {x}) \cup {y} BY <2>1 DEF Moves, Move
  <2>4. y.parent = INV_TOONINV BY <1>1, <2>2
  <2> HIDE DEF y
  <2> QED BY <2>2, <2>3, <2>4 DEF Rows
<1>4. ASSUME TakesAway(c)
      PROVE  Rows(items', c, INV_TRADE) = mine /\ Rows(items', c, INV_TRADEPARTNER) \subseteq his
  BY <1>4 DEF TakesAway, Rows
<1>5. ASSUME Brings(c, INV_TOONINV)
      PROVE  Rows(items', c, INV_TRADE) = mine /\ Rows(items', c, INV_TRADEPARTNER) = his
  BY <1>5 DEF Brings, Rows
<1>6. ASSUME Brings(c, INV_TRADEPARTNER)
      PROVE  /\ Rows(items', c, INV_TRADE) = mine
             /\ \E x : /\ x.slot <= LastTradeSlot
                       /\ x.children \in NewBags \cup {0}
                       /\ Rows(items', c, INV_TRADEPARTNER) = his \cup {x}
  <2>1. PICK x : /\ items' = items \cup {x} /\ x.owner = c /\ x.parent = INV_TRADEPARTNER
                 /\ x.slot <= LastTradeSlot /\ x.children \in NewBags \cup {0}
    BY <1>6 DEF Brings, TradeWindows
  <2>2. Rows(items', c, INV_TRADE) = mine /\ Rows(items', c, INV_TRADEPARTNER) = his \cup {x}
    BY <2>1 DEF Rows
  <2> QED BY <2>1, <2>2
<1>7. ASSUME GivesBack(c)
      PROVE  Rows(items', c, INV_TRADE) = {} /\ Rows(items', c, INV_TRADEPARTNER) = {}
  BY <1>7 DEF GivesBack, Rows
<1>8. ASSUME Swaps(c)
      PROVE  Rows(items', c, INV_TRADE) = {} /\ Rows(items', c, INV_TRADEPARTNER) = {}
  <2> DEFINE gone == items \ OfferedRows(c)
  <2>1. Shifted(c, Rows(gone, c, INV_TRADEPARTNER), INV_TOONINV, gone, items')
    BY <1>8 DEF Swaps
  <2>2. Rows(gone, c, INV_TRADE) = {} BY DEF Rows, OfferedRows
  <2> HIDE DEF gone
  <2>3. Rows(items', c, INV_TRADE) \subseteq Rows(gone, c, INV_TRADE) BY <2>1, StillThere
  <2> QED BY <1>8, <2>2, <2>3 DEF Swaps
<1>9. ASSUME Settles(c)
      PROVE  Rows(items', c, INV_TRADE) = {} /\ Rows(items', c, INV_TRADEPARTNER) \subseteq his
  <2>1. PICK R, back :
           /\ R \in SUBSET Rows(items, c, INV_TRADE)
           /\ Shifted(c, R, INV_TOONINV, items, back)
           /\ items' = back \ Rows(back, c, INV_TRADE)
    BY <1>9 DEF Settles
  <2>2. Rows(back, c, INV_TRADEPARTNER) \subseteq his BY <2>1, StillThere
  <2> QED BY <2>1, <2>2 DEF Rows
<1> QED BY <1>2, <1>3, <1>4, <1>5, <1>6, <1>7, <1>8, <1>9

\* The windows of the others are as before.
LEMMA OthersWindows ==
    ASSUME NEW c, NEW old, NEW new, OthersKeep(c, old, new), NEW o \in Toons \ {c}, NEW p
    PROVE  Rows(new, o, p) = Rows(old, o, p)
<1>1. Owned(new, o) = Owned(old, o) BY DEF OthersKeep
<1> QED BY <1>1 DEF Rows, Owned

\* The step of Bargains: each deed leaves the windows of the others alone, and
\* fills or empties those of its character the way the state of its trade says.
LEMMA BargainsNext ==
    ASSUME Bargains, Room, Room', NEW c \in Toons, NpcMessage(c) \/ PlayerMessage(c)
    PROVE  Bargains'
<1>1. NpcDeed(c) \/ PlayerDeed(c) BY NpcDeeds, PlayerDeeds
<1>2. Orderly(c, items, items') BY NpcOrderly, PlayerOrderly DEF Bargains
<1>3. Keyed(items') /\ Tidy(items') BY <1>2, OrderlyKeyed DEF Orderly, Sound, Bargains
<1>4. Packed(items') BY <1>1, DeedPacked
<1>5. OpenedBags' BY CachesKept DEF Bargains, OpenedBags, caches
<1>6. trading' \in [Toons -> Partners]
  BY <1>1 DEF Bargains, NpcDeed, PlayerDeed, TradesWith, Partners
<1>7. ASSUME NEW o \in Toons \ {c} PROVE InWindows(o)'
  <2>1. trading'[o] = trading[o] BY <1>1 DEF Bargains, NpcDeed, PlayerDeed, TradesWith
  <2>2. \A p : Rows(items', o, p) = Rows(items, o, p)
    BY <1>2, OthersWindows DEF Orderly, Sound
  <2>3. InWindows(o) BY DEF Bargains
  <2> QED BY <2>1, <2>2, <2>3 DEF InWindows
<1>8. InWindows(c)'
  <2> DEFINE mine == Rows(items, c, INV_TRADE)
             his  == Rows(items, c, INV_TRADEPARTNER)
             mine2 == Rows(items', c, INV_TRADE)
             his2  == Rows(items', c, INV_TRADEPARTNER)
  <2>1. /\ trading[c] = "none" => mine = {}
        /\ trading[c] # "player" => his = {}
        /\ trading[c] \in {"none", "npc", "player"}
        /\ \A r \in mine \cup his : r.slot <= LastTradeSlot
        /\ \A x, y \in his : x.children \in Bags /\ x.children = y.children => x = y
    BY DEF Bargains, InWindows, TradeWindows
  <2>2. trading \in [Toons -> Partners] BY DEF Bargains
  <2> HIDE DEF mine, his, mine2, his2
  <2>3. SUFFICES /\ trading'[c] = "none" => mine2 = {}
                 /\ trading'[c] # "player" => his2 = {}
                 /\ trading'[c] \in {"none", "npc", "player"}
                 /\ \A r \in mine2 \cup his2 : r.slot <= LastTradeSlot
                 /\ \A x, y \in his2 : x.children \in Bags /\ x.children = y.children => x = y
    BY DEF InWindows, TradeWindows, mine2, his2
  <2> DEFINE Slots2 == \A r \in mine2 \cup his2 : r.slot <= LastTradeSlot
             Bags2  == \A x, y \in his2 : x.children \in Bags /\ x.children = y.children => x = y
             Fits   == Slots2 /\ Bags2
  <2>4. items' = items => mine2 = mine /\ his2 = his BY DEF mine, his, mine2, his2
  <2>5. mine2 = mine /\ his2 = his => Fits BY <2>1
  <2>6. Puts(c) => Fits /\ his2 = his BY <2>1, DeedWindows DEF mine, his, mine2, his2
  <2>7. Takes(c) => Fits /\ mine2 \subseteq mine /\ his2 = his
    BY <2>1, DeedWindows DEF mine, his, mine2, his2
  <2>8. TakesAway(c) => Fits /\ mine2 = mine /\ his2 \subseteq his
    BY <2>1, DeedWindows DEF mine, his, mine2, his2
  <2>9. Brings(c, INV_TOONINV) => Fits /\ mine2 = mine /\ his2 = his
    BY <2>1, DeedWindows DEF mine, his, mine2, his2
  <2>10. Brings(c, INV_TRADEPARTNER) => Fits /\ mine2 = mine
    <3> SUFFICES ASSUME Brings(c, INV_TRADEPARTNER) PROVE Fits /\ mine2 = mine OBVIOUS
    <3>1. PICK x : /\ mine2 = mine
                   /\ x.slot <= LastTradeSlot
                   /\ x.children \in NewBags \cup {0}
                   /\ his2 = his \cup {x}
      BY DeedWindows DEF mine, his, mine2, his2
    <3>2. \A r \in his : r.children # x.children \/ x.children \notin Bags
      BY <3>1, BagAssumption DEF NewBags, his, Rows
    <3> QED BY <2>1, <3>1, <3>2
  <2>11. GivesBack(c) \/ Swaps(c) => Fits /\ mine2 = {} /\ his2 = {}
    BY DeedWindows DEF mine2, his2
  <2>12. Settles(c) => Fits /\ mine2 = {} /\ his2 \subseteq his
    BY <2>1, DeedWindows DEF mine, his, mine2, his2
  <2> HIDE DEF Fits
  <2>13. CASE NpcDeed(c)
    <3>1. CASE /\ trading[c] \in {"none", "npc"} /\ TradesWith(c, "npc")
               /\ items' = items \/ Puts(c) \/ Takes(c)
      BY <2>1, <2>2, <2>4, <2>5, <2>6, <2>7, <3>1 DEF TradesWith, Fits
    <3>2. CASE /\ trading[c] = "npc" /\ TradesWith(c, "none")
               /\ GivesBack(c) \/ Settles(c)
      BY <2>1, <2>2, <2>11, <2>12, <3>2 DEF TradesWith, Fits
    <3> QED BY <2>13, <3>1, <3>2 DEF NpcDeed
  <2>14. CASE PlayerDeed(c)
    <3>1. CASE trading[c] = "none" /\ TradesWith(c, "player") /\ items' = items
      BY <2>1, <2>2, <2>4, <2>5, <3>1 DEF TradesWith, Fits
    <3>2. CASE /\ trading[c] = "player" /\ UNCHANGED trading
               /\ \/ items' = items
                  \/ Puts(c) \/ Takes(c)
                  \/ Brings(c, INV_TRADEPARTNER) \/ TakesAway(c)
      BY <2>1, <2>2, <2>4, <2>5, <2>6, <2>7, <2>8, <2>10, <3>2 DEF Fits
    <3>3. CASE /\ trading[c] = "player" /\ TradesWith(c, "none")
               /\ GivesBack(c) \/ Swaps(c)
      BY <2>2, <2>11, <3>3 DEF TradesWith, Fits
    <3>4. CASE UNCHANGED trading /\ Brings(c, INV_TOONINV)
      BY <2>1, <2>2, <2>9, <3>4 DEF Fits
    <3> QED BY <2>14, <3>1, <3>2, <3>3, <3>4 DEF PlayerDeed
  <2> QED BY <1>1, <2>13, <2>14
<1> QED BY <1>3, <1>4, <1>5, <1>6, <1>7, <1>8 DEF Bargains

\* A table between two sessions: a tidy one, with nothing in a trade window, in
\* which what contains something has a backpack's id.
Clean(db) ==
    /\ IdsDistinct(db) /\ Tidy(db)
    /\ Packed(db)
    /\ \A c \in Toons : \A w \in TradeWindows : Rows(db, c, w) = {}

CleanStart ==
    /\ \A db \in Loadouts : Clean(db)
    /\ OpenBags \subseteq [Toons -> [TempIds -> Bags \cup {0}]]

BargainSession == AllBut("shop") => Bargains

\* A clean start is the start of a bargain.
LEMMA BargainsInit == CleanStart /\ TradesInit => BargainSession
<1> SUFFICES ASSUME CleanStart, TradesInit PROVE Bargains BY DEF BargainSession
<1>1. items \in Loadouts /\ containerIdCache \in OpenBags
  BY DEF TradesInit, Start, SessionInit
<1>2. Keyed(items) /\ Tidy(items) /\ Packed(items)
  BY <1>1, StartAssumption DEF CleanStart, Clean, Keyed, Table
<1>3. OpenedBags BY <1>1 DEF CleanStart, OpenedBags
<1>4. \A c \in Toons : trading[c] = "none" /\ \A w \in TradeWindows : Rows(items, c, w) = {}
  BY <1>1 DEF TradesInit, CleanStart, Clean
<1>5. trading \in [Toons -> Partners] BY DEF TradesInit, Partners
<1>6. \A c \in Toons : InWindows(c) BY <1>4 DEF InWindows, TradeWindows
<1> QED BY <1>2, <1>3, <1>5, <1>6 DEF Bargains

\* The step of the whole session, as long as nobody enters a shop.
LEMMA BargainsStep ==
    BargainSession /\ Room /\ Room' /\ [TradesNext]_tradeVars => BargainSession'
<1> SUFFICES ASSUME BargainSession, Room, Room', [TradesNext]_tradeVars, AllBut("shop")
             PROVE  Bargains'
  BY MeetsKept DEF BargainSession, AllBut
<1>1. Bargains BY DEF BargainSession
<1>2. CASE UNCHANGED tradeVars
  BY <1>1, <1>2 DEF tradeVars, vars, session, caches, Bargains, OpenedBags, InWindows
<1>3. ASSUME NEW c \in Toons, NpcMessage(c) \/ PlayerMessage(c) PROVE Bargains'
  BY <1>1, <1>3, BargainsNext
<1> QED BY <1>2, <1>3, MessageOrNone

\* With room for what is traded the windows are always as the trades want them.
LEMMA AlwaysBargains ==
    ASSUME CleanStart
    PROVE  TradesSpec /\ []Room => []BargainSession
<1>1. TradesInit => BargainSession BY BargainsInit
<1> QED BY <1>1, BargainsStep, PTL DEF TradesSpec

\* Between the trades with NPCs and players the windows are empty, as long as
\* the game offers no more than there is room for: the start of a trade deletes
\* nothing.
THEOREM TradesLeaveNothing ==
    ASSUME CleanStart
    PROVE  TradesSpec /\ []Room => [](AllBut("shop") => WindowsEmpty)
<1>1. BargainSession => (AllBut("shop") => WindowsEmpty)
  BY DEF BargainSession, Bargains, InWindows, WindowsEmpty, Windows
<1>2. TradesSpec /\ []Room => []BargainSession BY AlwaysBargains
<1> QED BY <1>1, <1>2, PTL

-----------------------------------------------------------------------------
(* Backpacks.                                                              *)

\* What is in a backpack is there with it; no backpack is in a backpack; and
\* nothing is in a backpack that a partner offers.
Housed(db) ==
    /\ \A r \in db : r.parent \in Bags => \E b \in Owned(db, r.owner) : b.children = r.parent
    /\ \A r \in db : r.children # 0 => r.parent \notin Bags
    /\ \A b, r \in db :
          b.parent = INV_TRADEPARTNER /\ b.children \in Bags => r.parent # b.children

\* No backpack has the id of a pane.
LEMMA PanesNoBags ==
    /\ INV_TOONINV \notin Bags /\ INV_TRADE \notin Bags /\ INV_TRADEPARTNER \notin Bags
    /\ \A b \in Bags : b > 0
BY BagAssumption DEF INV_TOONINV, INV_TRADE, INV_TRADEPARTNER

\* A backpack that moves to the inventory takes along what it contains.
LEMMA ShiftHoused ==
    ASSUME NEW c, NEW W, NEW old, NEW new, Shifted(c, W, INV_TOONINV, old, new), Housed(old)
    PROVE  Housed(new)
<1>1. \A r \in new : r \in old \/ (r.parent = INV_TOONINV /\ \E x \in W : Same(x, r))
  BY DEF Shifted
<1>2. \A x \in old : \E r \in new : r.children = x.children /\ r.owner = x.owner
  BY DEF Shifted, Same
<1>3. ASSUME NEW r \in new, r.parent \in Bags
      PROVE  \E b \in Owned(new, r.owner) : b.children = r.parent
  <2>1. r \in old BY <1>1, <1>3, PanesNoBags
  <2>2. PICK x \in old : x.owner = r.owner /\ x.children = r.parent
    BY <1>3, <2>1 DEF Housed, Owned
  <2> QED BY <1>2, <2>2 DEF Owned
<1>4. ASSUME NEW r \in new, r.children # 0 PROVE r.parent \notin Bags
  BY <1>1, <1>4, PanesNoBags DEF Housed
<1>5. ASSUME NEW b \in new, NEW r \in new, b.parent = INV_TRADEPARTNER, b.children \in Bags
      PROVE  r.parent # b.children
  <2>1. b \in old BY <1>1, <1>5 DEF INV_TRADEPARTNER, INV_TOONINV
  <2> QED BY <1>1, <1>5, <2>1, PanesNoBags DEF Housed
<1> QED BY <1>3, <1>4, <1>5 DEF Housed

\* Backpacks that are deleted with what they contain leave nothing behind.
LEMMA DeletionHoused ==
    ASSUME NEW db, Housed(db), NEW R,
           \A b \in R, r \in db \ R :
               b.children \in Bags /\ b.owner = r.owner => r.parent # b.children
    PROVE  Housed(db \ R)
<1>1. ASSUME NEW r \in db \ R, r.parent \in Bags
      PROVE  \E b \in Owned(db \ R, r.owner) : b.children = r.parent
  <2>1. PICK b \in db : b.owner = r.owner /\ b.children = r.parent
    BY <1>1 DEF Housed, Owned
  <2>2. b \notin R BY <1>1, <2>1
  <2> QED BY <2>1, <2>2 DEF Owned
<1> QED BY <1>1 DEF Housed

\* One item is offered or taken back.
LEMMA MoveHoused ==
    ASSUME Table(items), Housed(items), NEW x \in items,
           NEW p \in {INV_TRADE, INV_TOONINV}, NEW s, Moves(x, p, s)
    PROVE  Housed(items')
<1> DEFINE y == [x EXCEPT !.parent = p, !.slot = s]
<1>1. x \in Row BY DEF Table
<1>2. items' = (items \ {x}) \cup {y} BY DEF Moves, Move
<1>3. y.parent = p /\ y.children = x.children /\ y.owner = x.owner BY <1>1 DEF Row
<1>4. p \notin Bags /\ p # INV_TRADEPARTNER
  BY PanesNoBags DEF INV_TRADE, INV_TOONINV, INV_TRADEPARTNER
<1> HIDE DEF y
<1>5. ASSUME NEW r \in items', r.parent \in Bags
      PROVE  \E b \in Owned(items', r.owner) : b.children = r.parent
  <2>1. r \in items BY <1>2, <1>3, <1>4, <1>5
  <2>2. PICK b \in items : b.owner = r.owner /\ b.children = r.parent
    BY <1>5, <2>1 DEF Housed, Owned
  <2> QED BY <1>2, <1>3, <2>2 DEF Owned
<1>6. ASSUME NEW r \in items', r.children # 0 PROVE r.parent \notin Bags
  BY <1>2, <1>3, <1>4, <1>6 DEF Housed
<1>7. ASSUME NEW b \in items', NEW r \in items', b.parent = INV_TRADEPARTNER,
             b.children \in Bags
      PROVE  r.parent # b.children
  BY <1>2, <1>3, <1>4, <1>7 DEF Housed
<1> QED BY <1>5, <1>6, <1>7 DEF Housed

\* Something new comes.
LEMMA BringHoused ==
    ASSUME Housed(items), NEW c, NEW p \in {INV_TRADEPARTNER, INV_TOONINV}, Brings(c, p)
    PROVE  Housed(items')
<1>1. PICK x \in Row : /\ items' = items \cup {x}
                       /\ x.parent = p /\ x.children \in NewBags \cup {0}
  BY DEF Brings
<1>2. p \notin Bags BY PanesNoBags
<1>3. ASSUME NEW r \in items', r.parent \in Bags
      PROVE  \E b \in Owned(items', r.owner) : b.children = r.parent
  BY <1>1, <1>2, <1>3 DEF Housed, Owned
<1>4. ASSUME NEW r \in items', r.children # 0 PROVE r.parent \notin Bags
  BY <1>1, <1>2, <1>4 DEF Housed
<1>5. ASSUME NEW b \in items', NEW r \in items', b.parent = INV_TRADEPARTNER,
             b.children \in Bags, r.parent = b.children
      PROVE  FALSE
  <2>1. r \in items BY <1>1, <1>2, <1>5
  <2>2. PICK a \in items : a.children = r.parent BY <1>5, <2>1 DEF Housed, Owned
  <2>3. b # x
    <3>1. 0 \notin Bags BY BagAssumption
    <3> QED BY <1>1, <1>5, <2>2, <3>1 DEF NewBags
  <2> QED BY <1>1, <1>5, <2>1, <2>3 DEF Housed
<1> QED BY <1>3, <1>4, <1>5 DEF Housed

\* No step of a trade with a player leaves anything in a backpack that is gone.
LEMMA PlayerHoused ==
    ASSUME Bargains, Housed(items), NEW c, PlayerDeed(c)
    PROVE  Housed(items')
<1>1. Table(items) /\ Packed(items) BY DEF Bargains, Keyed
<1>2. CASE items' = items BY <1>2 DEF Housed
<1>3. CASE Puts(c)
  <2>1. PICK x, s : x \in items /\ Moves(x, INV_TRADE, s) BY <1>3 DEF Puts, Owned
  <2> QED BY <1>1, <2>1, MoveHoused
<1>4. CASE Takes(c)
  <2>1. PICK x, s : x \in items /\ Moves(x, INV_TOONINV, s) BY <1>4 DEF Takes, Rows
  <2> QED BY <1>1, <2>1, MoveHoused
<1>5. CASE Brings(c, INV_TRADEPARTNER) \/ Brings(c, INV_TOONINV) BY <1>5, BringHoused
<1>6. CASE TakesAway(c)
  <2>1. PICK x \in Rows(items, c, INV_TRADEPARTNER) : items' = items \ {x}
    BY <1>6 DEF TakesAway
  <2>2. \A b \in {x}, r \in items \ {x} :
           b.children \in Bags /\ b.owner = r.owner => r.parent # b.children
    BY DEF Housed, Rows
  <2> QED BY <2>1, <2>2, DeletionHoused
<1>7. CASE GivesBack(c)
  <2>1. PICK back : /\ Shifted(c, Rows(items, c, INV_TRADE), INV_TOONINV, items, back)
                    /\ items' = back \ Rows(back, c, INV_TRADEPARTNER)
    BY <1>7 DEF GivesBack
  <2>2. Housed(back) BY <2>1, ShiftHoused
  <2> DEFINE R == Rows(back, c, INV_TRADEPARTNER)
  <2>3. \A b \in R, r \in back \ R :
           b.children \in Bags /\ b.owner = r.owner => r.parent # b.children
    BY <2>2 DEF Housed, Rows
  <2> HIDE DEF R
  <2>4. Housed(back \ R) BY <2>2, <2>3, DeletionHoused
  <2> QED BY <2>1, <2>4 DEF R
<1>8. CASE Swaps(c)
  <2> DEFINE R    == OfferedRows(c)
             gone == items \ R
  <2>1. ASSUME NEW b \in R, NEW r \in items \ R, b.children \in Bags, b.owner = r.owner
        PROVE  r.parent # b.children
    <3>1. b.children > 0 BY <2>1, PanesNoBags
    <3>2. CASE b \in Rows(items, c, INV_TRADE)
      BY <2>1, <3>1, <3>2 DEF OfferedRows, InBags
    <3>3. CASE b \in InBags(items, Rows(items, c, INV_TRADE))
      <4>1. b \in items /\ b.parent \in Bags BY <1>1, <3>3 DEF InBags, Packed, Rows
      <4> QED BY <2>1, <3>1, <4>1 DEF Housed
    <3> QED BY <2>1, <3>2, <3>3 DEF OfferedRows
  <2> HIDE DEF R
  <2>2. Housed(gone) BY <2>1, DeletionHoused
  <2>3. \E W : Shifted(c, W, INV_TOONINV, gone, items') BY <1>8 DEF Swaps, R
  <2> HIDE DEF gone
  <2> QED BY <2>2, <2>3, ShiftHoused
<1> QED BY <1>2, <1>3, <1>4, <1>5, <1>6, <1>7, <1>8 DEF PlayerDeed

HousedSession == meets \subseteq {"player"} => Housed(items)

\* What is in a backpack goes where the backpack goes: after any number of trades
\* with players nothing is in a backpack that its owner does not have.
THEOREM TradesOrphanNothing ==
    ASSUME CleanStart,
           \A db \in Loadouts : Meetings[db] \subseteq {"player"} => Housed(db)
    PROVE  TradesSpec /\ []Room => []NoOrphans
<1>1. TradesInit => HousedSession BY DEF TradesInit, Start, SessionInit, HousedSession
<1>2. BargainSession /\ Room /\ Room' /\ HousedSession /\ [TradesNext]_tradeVars
        => HousedSession'
  <2> SUFFICES ASSUME BargainSession, Room, Room', HousedSession, [TradesNext]_tradeVars,
                      meets \subseteq {"player"}
               PROVE  Housed(items')
    BY MeetsKept DEF HousedSession
  <2>1. Bargains /\ Housed(items) BY DEF BargainSession, HousedSession, AllBut
  <2>2. CASE UNCHANGED tradeVars
    BY <2>1, <2>2 DEF tradeVars, vars, session
  <2>3. ASSUME NEW c \in Toons, PlayerStep(c) PROVE Housed(items')
    <3>1. PlayerDeed(c) BY <2>1, <2>3, PlayerDeeds DEF PlayerStep
    <3> QED BY <2>1, <3>1, PlayerHoused
  <2>4. \A c : ~ NpcStep(c) /\ ~ ShopStep(c) BY DEF NpcStep, ShopStep
  <2> QED BY <2>2, <2>3, <2>4 DEF TradesNext
<1>3. HousedSession => NoOrphans BY DEF HousedSession, Housed, NoOrphans
<1>4. TradesSpec /\ []Room => []BargainSession BY AlwaysBargains
<1> QED BY <1>1, <1>2, <1>3, <1>4, PTL DEF TradesSpec

-----------------------------------------------------------------------------
(* The ledger.                                                             *)

\* The books of character c, read off table db.
OfferedIn(db, c) ==
    LET R == Rows(db, c, INV_TRADE) IN R \cup InBags(db, R)

AllIds(db, c)  == Id(Owned(db, c))
OutIds(db, c)  == Id(OfferedIn(db, c))
InIds(db, c)   == Id(Rows(db, c, INV_TRADEPARTNER))
HeldIds(db, c) == AllIds(db, c) \ (OutIds(db, c) \cup InIds(db, c))

\* The ids of a difference, in a table with a key.
LEMMA IdMinus ==
    ASSUME NEW db, IdsDistinct(db), NEW A, A \subseteq db, NEW B, B \subseteq db
    PROVE  Id(A \ B) = Id(A) \ Id(B)
BY DEF Id, IdsDistinct

\* What is offered and what is to come are parts of what is had, and they have
\* nothing in common.
LEMMA BooksApart ==
    ASSUME NEW db, IdsDistinct(db), Packed(db), NEW c
    PROVE  /\ OutIds(db, c) \subseteq AllIds(db, c) /\ InIds(db, c) \subseteq AllIds(db, c)
           /\ OutIds(db, c) \cap InIds(db, c) = {}
<1>1. OfferedIn(db, c) \subseteq Owned(db, c) /\ Rows(db, c, INV_TRADEPARTNER) \subseteq Owned(db, c)
  BY DEF OfferedIn, InBags, Rows, Owned
<1>2. OfferedIn(db, c) \cap Rows(db, c, INV_TRADEPARTNER) = {}
  <2> SUFFICES ASSUME NEW r \in OfferedIn(db, c), r.parent = INV_TRADEPARTNER PROVE FALSE
    BY DEF Rows
  <2>1. CASE r \in Rows(db, c, INV_TRADE) BY <2>1 DEF Rows, INV_TRADE, INV_TRADEPARTNER
  <2>2. CASE r \in InBags(db, Rows(db, c, INV_TRADE))
    <3>1. PICK b \in Rows(db, c, INV_TRADE) : b.children > 0 /\ r.parent = b.children
      BY <2>2 DEF InBags
    <3>2. b.children \in Bags BY <3>1 DEF Packed, Rows
    <3> QED BY <3>1, <3>2, PanesNoBags
  <2> QED BY <2>1, <2>2 DEF OfferedIn
<1>3. Owned(db, c) \subseteq db BY DEF Owned
<1> QED BY <1>1, <1>2, <1>3 DEF OutIds, InIds, AllIds, Id, IdsDistinct

\* What the ledger's variables stand for.
BookHeld     == [c \in Toons |-> Id(HeldRows(c))]
BookOffered  == [c \in Toons |-> Id(OfferedRows(c))]
BookIncoming == [c \in Toons |-> Id(IncomingRows(c))]

\* The ids the books call held are those of the character that are in no window.
LEMMA HeldIs ==
    ASSUME NEW db, IdsDistinct(db), NEW c
    PROVE  Id(Owned(db, c) \ (OfferedIn(db, c) \cup Rows(db, c, INV_TRADEPARTNER))) = HeldIds(db, c)
<1>1. Owned(db, c) \subseteq db /\ OfferedIn(db, c) \cup Rows(db, c, INV_TRADEPARTNER) \subseteq db
  BY DEF OfferedIn, InBags, Rows, Owned
<1>2. Id(OfferedIn(db, c) \cup Rows(db, c, INV_TRADEPARTNER)) = OutIds(db, c) \cup InIds(db, c)
  BY DEF Id, OutIds, InIds
<1> QED BY <1>1, <1>2, IdMinus DEF HeldIds, AllIds

\* The books are those of the table, before and after a step that leaves the
\* others' rows alone.
LEMMA BooksOf ==
    ASSUME IdsDistinct(items), IdsDistinct(items'), NEW c \in Toons,
           OthersKeep(c, items, items')
    PROVE  /\ \A o \in Toons : /\ BookHeld[o] = HeldIds(items, o)
                               /\ BookOffered[o] = OutIds(items, o)
                               /\ BookIncoming[o] = InIds(items, o)
           /\ BookHeld' = [BookHeld EXCEPT ![c] = HeldIds(items', c)]
           /\ BookOffered' = [BookOffered EXCEPT ![c] = OutIds(items', c)]
           /\ BookIncoming' = [BookIncoming EXCEPT ![c] = InIds(items', c)]
<1>1. \A o \in Toons : /\ Id(HeldRows(o)) = HeldIds(items, o)
                       /\ Id(OfferedRows(o)) = OutIds(items, o)
                       /\ Id(IncomingRows(o)) = InIds(items, o)
  BY HeldIs DEF HeldRows, OfferedRows, IncomingRows, OutIds, InIds, OfferedIn
<1>2. \A o \in Toons : /\ Id(HeldRows(o))' = HeldIds(items', o)
                       /\ Id(OfferedRows(o))' = OutIds(items', o)
                       /\ Id(IncomingRows(o))' = InIds(items', o)
  BY HeldIs DEF HeldRows, OfferedRows, IncomingRows, OutIds, InIds, OfferedIn
<1>3. ASSUME NEW o \in Toons \ {c}
      PROVE  /\ HeldIds(items', o) = HeldIds(items, o)
             /\ OutIds(items', o) = OutIds(items, o)
             /\ InIds(items', o) = InIds(items, o)
  <2>1. Owned(items', o) = Owned(items, o) BY DEF OthersKeep
  <2>2. \A p : Rows(items', o, p) = Rows(items, o, p) BY OthersWindows
  <2> DEFINE R == Rows(items, o, INV_TRADE)
  <2>3. InBags(items', R) = InBags(items, R)
    <3>1. \A r \in items' : r.owner = o => r \in items BY <2>1 DEF Owned
    <3>2. \A r \in items : r.owner = o => r \in items' BY <2>1 DEF Owned
    <3>3. \A b \in R : b.owner = o BY DEF Rows
    <3> HIDE DEF R
    <3> QED BY <3>1, <3>2, <3>3 DEF InBags
  <2>4. OfferedIn(items', o) = OfferedIn(items, o) BY <2>2, <2>3 DEF OfferedIn
  <2> QED BY <2>1, <2>2, <2>4 DEF HeldIds, AllIds, OutIds, InIds
<1>4. BookHeld' = [o \in Toons |-> Id(HeldRows(o))'] BY DEF BookHeld
<1>5. BookOffered' = [o \in Toons |-> Id(OfferedRows(o))'] BY DEF BookOffered
<1>6. BookIncoming' = [o \in Toons |-> Id(IncomingRows(o))'] BY DEF BookIncoming
<1>7. BookHeld = [o \in Toons |-> HeldIds(items, o)] BY <1>1 DEF BookHeld
<1>8. BookOffered = [o \in Toons |-> OutIds(items, o)] BY <1>1 DEF BookOffered
<1>9. BookIncoming = [o \in Toons |-> InIds(items, o)] BY <1>1 DEF BookIncoming
<1> QED BY <1>2, <1>3, <1>4, <1>5, <1>6, <1>7, <1>8, <1>9

\* What has to be so for a step of c to be one of the ledger.
LEMMA BookSteps ==
    ASSUME IdsDistinct(items), IdsDistinct(items'), NEW c \in Toons,
           OthersKeep(c, items, items')
    PROVE  LET h == HeldIds(items, c)   h2 == HeldIds(items', c)
               o == OutIds(items, c)     o2 == OutIds(items', c)
               i == InIds(items, c)      i2 == InIds(items', c)
           IN  /\ \A X \in SUBSET h : h2 = h \ X /\ o2 = o \cup X /\ i2 = i
                     => Ledger!LedgerNext
               /\ \A X \in SUBSET o : h2 = h \cup X /\ o2 = o \ X /\ i2 = i
                     => Ledger!LedgerNext
               /\ \A X \in SUBSET o : h2 = h \cup X \cup i /\ o2 = {} /\ i2 = {}
                     => Ledger!LedgerNext
               /\ h2 = h \cup o /\ o2 = {} /\ i2 = {} => Ledger!CallOff(c)
               /\ \A x \in i : h2 = h /\ o2 = o /\ i2 = i \ {x} /\ x \in Ids
                     => Ledger!LedgerNext
               /\ \A x \in Ids \ Id(items) :
                     \/ h2 = h /\ o2 = o /\ i2 = i \cup {x}
                     \/ h2 = h \cup {x} /\ o2 = o /\ i2 = i
                     => Ledger!LedgerNext
<1> DEFINE h == HeldIds(items, c)   h2 == HeldIds(items', c)
           o == OutIds(items, c)     o2 == OutIds(items', c)
           i == InIds(items, c)      i2 == InIds(items', c)
<1>1. /\ BookHeld[c] = h /\ BookOffered[c] = o /\ BookIncoming[c] = i
      /\ BookHeld' = [BookHeld EXCEPT ![c] = h2]
      /\ BookOffered' = [BookOffered EXCEPT ![c] = o2]
      /\ BookIncoming' = [BookIncoming EXCEPT ![c] = i2]
  BY BooksOf
<1>2. /\ BookHeld \in [Toons -> {BookHeld[t] : t \in Toons}]
      /\ BookOffered \in [Toons -> {BookOffered[t] : t \in Toons}]
      /\ BookIncoming \in [Toons -> {BookIncoming[t] : t \in Toons}]
  BY DEF BookHeld, BookOffered, BookIncoming
<1>3. UNION {Ledger!Known(t) : t \in Toons} \subseteq Id(items)
  <2>1. \A t \in Toons : Ledger!Known(t) = BookHeld[t] \cup BookOffered[t] \cup BookIncoming[t]
    BY DEF Ledger!Known, BookHeld, BookOffered, BookIncoming
  <2>2. \A t \in Toons : /\ BookHeld[t] \subseteq Id(items)
                         /\ BookOffered[t] \subseteq Id(items)
                         /\ BookIncoming[t] \subseteq Id(items)
    BY DEF BookHeld, BookOffered, BookIncoming, Id, HeldRows, OfferedRows, IncomingRows,
           Owned, Rows, InBags
  <2> QED BY <2>1, <2>2
<1> HIDE DEF h, h2, o, o2, i, i2
<1>4. ASSUME NEW X \in SUBSET h, h2 = h \ X, o2 = o \cup X, i2 = i PROVE Ledger!LedgerNext
  <2>1. Ledger!Offer(c, X)
    <3>1. /\ X \subseteq BookHeld[c]
          /\ BookHeld' = [BookHeld EXCEPT ![c] = @ \ X]
          /\ BookOffered' = [BookOffered EXCEPT ![c] = @ \cup X]
          /\ BookIncoming' = BookIncoming
      BY <1>1, <1>2, <1>4
    <3> QED BY <3>1 DEF Ledger!Offer, BookHeld, BookOffered, BookIncoming
  <2>2. X \in SUBSET BookHeld[c] BY <1>1
  <2> QED BY <2>1, <2>2 DEF Ledger!LedgerNext, BookHeld
<1>5. ASSUME NEW X \in SUBSET o, h2 = h \cup X, o2 = o \ X, i2 = i PROVE Ledger!LedgerNext
  <2>1. Ledger!Withdraw(c, X)
    <3>1. /\ X \subseteq BookOffered[c]
          /\ BookHeld' = [BookHeld EXCEPT ![c] = @ \cup X]
          /\ BookOffered' = [BookOffered EXCEPT ![c] = @ \ X]
          /\ BookIncoming' = BookIncoming
      BY <1>1, <1>2, <1>5
    <3> QED BY <3>1 DEF Ledger!Withdraw, BookHeld, BookOffered, BookIncoming
  <2>2. X \in SUBSET BookOffered[c] BY <1>1
  <2> QED BY <2>1, <2>2 DEF Ledger!LedgerNext, BookOffered
<1>6. ASSUME NEW X \in SUBSET o, h2 = h \cup X \cup i, o2 = {}, i2 = {}
      PROVE  Ledger!LedgerNext
  <2>1. Ledger!Settle(c, X)
    <3>1. /\ X \subseteq BookOffered[c]
          /\ BookHeld' = [BookHeld EXCEPT ![c] = @ \cup X \cup BookIncoming[c]]
          /\ BookOffered' = [BookOffered EXCEPT ![c] = {}]
          /\ BookIncoming' = [BookIncoming EXCEPT ![c] = {}]
      BY <1>1, <1>2, <1>6
    <3> QED BY <3>1 DEF Ledger!Settle, BookHeld, BookOffered, BookIncoming
  <2>2. X \in SUBSET BookOffered[c] BY <1>1
  <2> QED BY <2>1, <2>2 DEF Ledger!LedgerNext, BookOffered
<1>7. ASSUME h2 = h \cup o, o2 = {}, i2 = {} PROVE Ledger!CallOff(c)
  <2>1. /\ BookHeld' = [BookHeld EXCEPT ![c] = @ \cup BookOffered[c]]
        /\ BookOffered' = [BookOffered EXCEPT ![c] = {}]
        /\ BookIncoming' = [BookIncoming EXCEPT ![c] = {}]
    BY <1>1, <1>2, <1>7
  <2> QED BY <2>1 DEF Ledger!CallOff, BookHeld, BookOffered, BookIncoming
<1>8. ASSUME NEW x \in i, h2 = h, o2 = o, i2 = i \ {x}, x \in Ids
      PROVE  Ledger!LedgerNext
  <2>1. /\ x \in BookIncoming[c]
        /\ BookIncoming' = [BookIncoming EXCEPT ![c] = @ \ {x}]
        /\ BookHeld' = BookHeld /\ BookOffered' = BookOffered
    BY <1>1, <1>2, <1>8
  <2>2. Ledger!Retract(c, x) BY <2>1 DEF Ledger!Retract, BookHeld, BookOffered, BookIncoming
  <2> QED BY <1>8, <2>2 DEF Ledger!LedgerNext
<1>9. ASSUME NEW x \in Ids \ Id(items), h2 = h, o2 = o, i2 = i \cup {x}
      PROVE  Ledger!LedgerNext
  <2>1. /\ BookIncoming' = [BookIncoming EXCEPT ![c] = @ \cup {x}]
        /\ BookHeld' = BookHeld /\ BookOffered' = BookOffered
    BY <1>1, <1>2, <1>9
  <2>2. x \in Ids \ UNION {Ledger!Known(t) : t \in Toons} BY <1>3
  <2>3. Ledger!Propose(c, x)
    BY <2>1, <2>2 DEF Ledger!Propose, BookHeld, BookOffered, BookIncoming
  <2> QED BY <2>3 DEF Ledger!LedgerNext
<1>10. ASSUME NEW x \in Ids \ Id(items), h2 = h \cup {x}, o2 = o, i2 = i
       PROVE  Ledger!LedgerNext
  <2>1. /\ BookHeld' = [BookHeld EXCEPT ![c] = @ \cup {x}]
        /\ BookIncoming' = BookIncoming /\ BookOffered' = BookOffered
    BY <1>1, <1>2, <1>10
  <2>2. x \in Ids \ UNION {Ledger!Known(t) : t \in Toons} BY <1>3
  <2>3. Ledger!Receive(c, x)
    BY <2>1, <2>2 DEF Ledger!Receive, BookHeld, BookOffered, BookIncoming
  <2> QED BY <2>3 DEF Ledger!LedgerNext
<1>11. \A X \in SUBSET h : h2 = h \ X /\ o2 = o \cup X /\ i2 = i => Ledger!LedgerNext
  BY <1>4
<1>12. \A X \in SUBSET o : h2 = h \cup X /\ o2 = o \ X /\ i2 = i => Ledger!LedgerNext
  BY <1>5
<1>13. \A X \in SUBSET o : h2 = h \cup X \cup i /\ o2 = {} /\ i2 = {} => Ledger!LedgerNext
  BY <1>6
<1>14. \A x \in i : h2 = h /\ o2 = o /\ i2 = i \ {x} /\ x \in Ids => Ledger!LedgerNext
  BY <1>8
<1>15. \A x \in Ids \ Id(items) :
          \/ h2 = h /\ o2 = o /\ i2 = i \cup {x}
          \/ h2 = h \cup {x} /\ o2 = o /\ i2 = i
          => Ledger!LedgerNext
  BY <1>9, <1>10
<1> QED BY <1>7, <1>11, <1>12, <1>13, <1>14, <1>15 DEF h, h2, o, o2, i, i2

\* A moved item: another place, the same item.
LEMMA MoveDone ==
    ASSUME Table(items), NEW x \in items, NEW p, NEW s, Moves(x, p, s)
    PROVE  \E y : items' = (items \ {x}) \cup {y} /\ Same(x, y) /\ y.parent = p
<1> DEFINE y == [x EXCEPT !.parent = p, !.slot = s]
<1>1. x \in Row BY DEF Table
<1>2. items' = (items \ {x}) \cup {y} BY DEF Moves, Move
<1>3. Same(x, y) /\ y.parent = p BY <1>1 DEF Row, Same
<1> QED BY <1>2, <1>3

\* A shift keeps the ids of the character.
LEMMA ShiftIds ==
    ASSUME NEW c \in Toons, NEW old, NEW new, NEW W, W \subseteq Owned(old, c), NEW p,
           Shifted(c, W, p, old, new)
    PROVE  AllIds(new, c) = AllIds(old, c)
BY DEF Shifted, AllIds, Id, Owned, Same

\* With nothing in the window nothing is offered.
LEMMA NothingOut ==
    ASSUME NEW db, NEW c, Rows(db, c, INV_TRADE) = {}
    PROVE  OutIds(db, c) = {}
BY DEF OutIds, OfferedIn, InBags, Id

\* Nothing in the window of the partner: nothing comes in.
LEMMA NothingIn ==
    ASSUME NEW db, NEW c, Rows(db, c, INV_TRADEPARTNER) = {}
    PROVE  InIds(db, c) = {}
BY DEF InIds, Id

\* Rows that leave or come with no part in what is offered.
LEMMA SameOut ==
    ASSUME Packed(items), Packed(items'), NEW c,
           Rows(items', c, INV_TRADE) = Rows(items, c, INV_TRADE),
           \A r \in items : r \in items' \/ r.parent \notin Bags,
           \A r \in items' : r \in items \/ r.parent \notin Bags
    PROVE  OutIds(items', c) = OutIds(items, c)
<1> DEFINE R == Rows(items, c, INV_TRADE)
<1>1. \A b \in R : b.children > 0 => b.children \in Bags BY DEF Rows, Packed
<1> HIDE DEF R
<1>2. InBags(items', R) = InBags(items, R) BY <1>1 DEF InBags
<1> QED BY <1>2 DEF OutIds, OfferedIn, R

\* An item put into the trade window, with what a backpack holds, is an offer of
\* the ledger.
LEMMA PutsLedger ==
    ASSUME Bargains, Bargains', NEW c \in Toons, OthersKeep(c, items, items'), Puts(c)
    PROVE  Ledger!LedgerNext
<1> DEFINE o == OutIds(items, c)   o2 == OutIds(items', c)
<1>1. /\ IdsDistinct(items) /\ IdsDistinct(items') /\ Table(items)
      /\ Packed(items) /\ Packed(items')
  BY DEF Bargains, Keyed
<1>2. PICK x \in Owned(items, c), s \in 0..LastTradeSlot :
         x.parent \notin TradeWindows /\ Moves(x, INV_TRADE, s)
  BY DEF Puts
<1>3. x \in items /\ x.owner = c BY DEF Owned
<1>4. PICK y : items' = (items \ {x}) \cup {y} /\ Same(x, y) /\ y.parent = INV_TRADE
  BY <1>1, <1>2, <1>3, MoveDone
<1>5. AllIds(items', c) = AllIds(items, c) BY <1>3, <1>4 DEF AllIds, Id, Owned, Same
<1>6. InIds(items', c) = InIds(items, c) BY DeedWindows DEF InIds
<1>7. o \subseteq o2
  <2> SUFFICES ASSUME NEW r \in OfferedIn(items, c)
               PROVE  \E u \in OfferedIn(items', c) : u.id = r.id
    BY DEF OutIds, Id
  <2>1. \A b \in Rows(items, c, INV_TRADE) : b \in Rows(items', c, INV_TRADE)
    BY <1>2, <1>4 DEF Rows, TradeWindows
  <2>2. y \in OfferedIn(items', c) BY <1>3, <1>4 DEF OfferedIn, Rows, Same
  <2>3. CASE r = x BY <1>4, <2>2, <2>3 DEF Same
  <2>4. CASE r # x
    <3>1. r \in items' BY <1>4, <2>4 DEF OfferedIn, InBags, Rows
    <3>2. r \in OfferedIn(items', c) BY <2>1, <3>1 DEF OfferedIn, InBags
    <3> QED BY <3>2
  <2> QED BY <2>3, <2>4
<1>8. /\ o2 \subseteq AllIds(items', c) /\ o2 \cap InIds(items', c) = {}
      /\ InIds(items, c) \subseteq AllIds(items, c)
  BY <1>1, BooksApart
<1> HIDE DEF o, o2
<1>9. /\ o2 \ o \in SUBSET HeldIds(items, c)
      /\ HeldIds(items', c) = HeldIds(items, c) \ (o2 \ o)
      /\ o2 = o \cup (o2 \ o)
  BY <1>5, <1>6, <1>7, <1>8 DEF HeldIds, o, o2
<1> QED BY <1>1, <1>6, <1>9, BookSteps DEF o, o2

\* One taken out of it is an offer withdrawn.
LEMMA TakesLedger ==
    ASSUME Bargains, Bargains', NEW c \in Toons, OthersKeep(c, items, items'), Takes(c)
    PROVE  Ledger!LedgerNext
<1> DEFINE o == OutIds(items, c)   o2 == OutIds(items', c)
<1>1. /\ IdsDistinct(items) /\ IdsDistinct(items') /\ Table(items)
      /\ Packed(items) /\ Packed(items')
  BY DEF Bargains, Keyed
<1>2. PICK x \in Rows(items, c, INV_TRADE), s \in Nat : Moves(x, INV_TOONINV, s)
  BY DEF Takes
<1>3. x \in items /\ x.owner = c BY DEF Rows
<1>4. PICK y : items' = (items \ {x}) \cup {y} /\ Same(x, y) /\ y.parent = INV_TOONINV
  BY <1>1, <1>2, <1>3, MoveDone
<1>5. AllIds(items', c) = AllIds(items, c) BY <1>3, <1>4 DEF AllIds, Id, Owned, Same
<1>6. InIds(items', c) = InIds(items, c) BY DeedWindows DEF InIds
<1>7. o2 \subseteq o
  <2> SUFFICES ASSUME NEW r \in OfferedIn(items', c) PROVE r \in OfferedIn(items, c)
    BY DEF OutIds, Id
  <2>1. \A b \in Rows(items', c, INV_TRADE) : b \in Rows(items, c, INV_TRADE)
    BY DeedWindows
  <2>2. CASE r \in Rows(items', c, INV_TRADE) BY <2>1, <2>2 DEF OfferedIn
  <2>3. CASE r \in InBags(items', Rows(items', c, INV_TRADE))
    <3>1. PICK b \in Rows(items', c, INV_TRADE) :
             b.children > 0 /\ r.parent = b.children /\ r.owner = b.owner
      BY <2>3 DEF InBags
    <3>2. b.children \in Bags BY <1>1, <3>1 DEF Packed, Rows
    <3>3. r \in items BY <1>4, <2>3, <3>1, <3>2, PanesNoBags DEF InBags
    <3> QED BY <2>1, <3>1, <3>3 DEF OfferedIn, InBags
  <2> QED BY <2>2, <2>3 DEF OfferedIn
<1>8. o \subseteq AllIds(items, c) /\ o \cap InIds(items, c) = {} BY <1>1, BooksApart
<1> HIDE DEF o, o2
<1>9. /\ o \ o2 \in SUBSET o
      /\ HeldIds(items', c) = HeldIds(items, c) \cup (o \ o2)
      /\ o2 = o \ (o \ o2)
  BY <1>5, <1>6, <1>7, <1>8 DEF HeldIds, o, o2
<1> QED BY <1>1, <1>6, <1>9, BookSteps DEF o, o2

\* What the partner offers, or the game gives, is an item that comes in.
LEMMA BringsLedger ==
    ASSUME Bargains, Bargains', NEW c \in Toons, OthersKeep(c, items, items'),
           NEW p \in {INV_TOONINV, INV_TRADEPARTNER}, Brings(c, p)
    PROVE  Ledger!LedgerNext
<1>1. /\ IdsDistinct(items) /\ IdsDistinct(items')
      /\ Packed(items) /\ Packed(items')
  BY DEF Bargains, Keyed
<1>2. PICK x \in Row : /\ items' = items \cup {x} /\ x.id \notin Id(items)
                       /\ x.owner = c /\ x.parent = p
  BY DEF Brings
<1>3. x.id \in Ids \ Id(items) BY <1>2 DEF Row
<1>4. AllIds(items', c) = AllIds(items, c) \cup {x.id} BY <1>2 DEF AllIds, Id, Owned
<1>5. OutIds(items', c) = OutIds(items, c)
  <2>1. Rows(items', c, INV_TRADE) = Rows(items, c, INV_TRADE) BY DeedWindows
  <2>2. \A r \in items' : r \in items \/ r.parent \notin Bags BY <1>2, PanesNoBags
  <2>3. \A r \in items : r \in items' BY <1>2
  <2> QED BY <1>1, <2>1, <2>2, <2>3, SameOut
<1>6. AllIds(items, c) \subseteq Id(items) BY DEF AllIds, Id, Owned
<1>7. OutIds(items, c) \subseteq AllIds(items, c) /\ InIds(items, c) \subseteq AllIds(items, c)
  BY <1>1, BooksApart
<1>8. CASE p = INV_TRADEPARTNER
  <2>1. InIds(items', c) = InIds(items, c) \cup {x.id} BY <1>2, <1>8 DEF InIds, Id, Rows
  <2>2. HeldIds(items', c) = HeldIds(items, c)
    BY <1>3, <1>4, <1>5, <1>6, <2>1 DEF HeldIds
  <2> QED BY <1>1, <1>3, <1>5, <2>1, <2>2, BookSteps
<1>9. CASE p = INV_TOONINV
  <2>1. InIds(items', c) = InIds(items, c)
    BY <1>9, DeedWindows DEF InIds
  <2>2. HeldIds(items', c) = HeldIds(items, c) \cup {x.id}
    BY <1>3, <1>4, <1>5, <1>6, <1>7, <2>1 DEF HeldIds
  <2> QED BY <1>1, <1>3, <1>5, <2>1, <2>2, BookSteps
<1> QED BY <1>8, <1>9

\* What the partner takes back goes out of the ledger.
LEMMA TakesAwayLedger ==
    ASSUME Bargains, Bargains', NEW c \in Toons, OthersKeep(c, items, items'), TakesAway(c)
    PROVE  Ledger!LedgerNext
<1>1. /\ IdsDistinct(items) /\ IdsDistinct(items') /\ Table(items)
      /\ Packed(items) /\ Packed(items')
  BY DEF Bargains, Keyed
<1>2. PICK x \in Rows(items, c, INV_TRADEPARTNER) : items' = items \ {x} BY DEF TakesAway
<1>3. x \in items /\ x.owner = c /\ x.parent = INV_TRADEPARTNER BY DEF Rows
<1>4. OutIds(items', c) = OutIds(items, c)
  <2>1. Rows(items', c, INV_TRADE) = Rows(items, c, INV_TRADE) BY DeedWindows
  <2>2. \A r \in items : r \in items' \/ r.parent \notin Bags BY <1>2, <1>3, PanesNoBags
  <2>3. \A r \in items' : r \in items BY <1>2
  <2> QED BY <1>1, <2>1, <2>2, <2>3, SameOut
<1>5. \A r \in items : r.id = x.id => r = x BY <1>1, <1>3 DEF IdsDistinct
<1>6. AllIds(items', c) = AllIds(items, c) \ {x.id} BY <1>2, <1>5 DEF AllIds, Id, Owned
<1>7. InIds(items', c) = InIds(items, c) \ {x.id} BY <1>2, <1>5 DEF InIds, Id, Rows
<1>8. x.id \in InIds(items, c) /\ x.id \in Ids BY <1>1, <1>3 DEF InIds, Id, Table, Row
<1>9. HeldIds(items', c) = HeldIds(items, c)
  BY <1>4, <1>6, <1>7, <1>8 DEF HeldIds
<1> QED BY <1>1, <1>4, <1>7, <1>8, <1>9, BookSteps

\* A trade called off returns all that was offered, and nothing else.
LEMMA GivesBackLedger ==
    ASSUME Bargains, Bargains', NEW c \in Toons, OthersKeep(c, items, items'), GivesBack(c)
    PROVE  Ledger!CallOff(c)
<1>1. IdsDistinct(items) /\ IdsDistinct(items') /\ Packed(items) BY DEF Bargains, Keyed
<1> DEFINE W == Rows(items, c, INV_TRADE)
           P == Rows(items, c, INV_TRADEPARTNER)
<1>2. PICK back : /\ Shifted(c, W, INV_TOONINV, items, back)
                  /\ items' = back \ Rows(back, c, INV_TRADEPARTNER)
  BY DEF GivesBack
<1>3. AllIds(back, c) = AllIds(items, c)
  <2>1. W \subseteq Owned(items, c) BY OwnRows
  <2> HIDE DEF W
  <2> QED BY <1>2, <2>1, ShiftIds
<1>4. Rows(back, c, INV_TRADEPARTNER) = P
  <2>1. Rows(back, c, INV_TRADEPARTNER) \subseteq P
    BY <1>2, StillThere DEF INV_TRADEPARTNER, INV_TOONINV
  <2>2. \A x \in P : x \in items /\ x \notin W /\ x.owner = c /\ x.parent = INV_TRADEPARTNER
    BY DEF Rows, INV_TRADE, INV_TRADEPARTNER
  <2>3. \A x \in P : x \in Rows(back, c, INV_TRADEPARTNER) BY <1>2, <2>2 DEF Shifted, Rows
  <2> QED BY <2>1, <2>3
<1>5. AllIds(items', c) = AllIds(items, c) \ InIds(items, c)
  <2>1. Owned(items', c) = Owned(back, c) \ P BY <1>2, <1>4 DEF Owned
  <2>2. IdsDistinct(back) BY <1>1, <1>2 DEF Shifted
  <2>3. Owned(back, c) \subseteq back /\ P \subseteq back BY <1>4 DEF Owned, Rows
  <2>4. Id(Owned(back, c) \ P) = Id(Owned(back, c)) \ Id(P) BY <2>2, <2>3, IdMinus
  <2> QED BY <1>3, <2>1, <2>4 DEF AllIds, InIds
<1>6. OutIds(items', c) = {} /\ InIds(items', c) = {}
  BY DeedWindows, NothingOut, NothingIn
<1>7. OutIds(items, c) \subseteq AllIds(items, c) /\ OutIds(items, c) \cap InIds(items, c) = {}
  BY <1>1, BooksApart
<1>8. HeldIds(items', c) = HeldIds(items, c) \cup OutIds(items, c)
  BY <1>5, <1>6, <1>7 DEF HeldIds
<1> QED BY <1>1, <1>6, <1>8, BookSteps

\* A deal with an NPC delivers what was given, and returns what was rejected; with
\* nothing given it is called off.
LEMMA SettlesLedger ==
    ASSUME Bargains, Bargains', NEW c \in Toons, OthersKeep(c, items, items'), Settles(c),
           trading[c] = "npc"
    PROVE  /\ Ledger!LedgerNext
           /\ Rows(items, c, INV_TRADE) = {} => Ledger!CallOff(c)
<1>1. IdsDistinct(items) /\ IdsDistinct(items') /\ Packed(items) BY DEF Bargains, Keyed
<1>2. PICK R, back :
         /\ R \in SUBSET Rows(items, c, INV_TRADE)
         /\ Shifted(c, R, INV_TOONINV, items, back)
         /\ items' = back \ Rows(back, c, INV_TRADE)
  BY DEF Settles
<1>3. Rows(items, c, INV_TRADEPARTNER) = {} BY DEF Bargains, InWindows
<1>4. InIds(items, c) = {} /\ InIds(items', c) = {} /\ OutIds(items', c) = {}
  <2>1. Rows(items', c, INV_TRADE) = {} /\ Rows(items', c, INV_TRADEPARTNER) = {}
    BY <1>3, DeedWindows
  <2> QED BY <1>3, <2>1, NothingIn, NothingOut
<1>5. AllIds(back, c) = AllIds(items, c)
  <2>1. R \subseteq Owned(items, c) BY <1>2, OwnRows
  <2> QED BY <1>2, <2>1, ShiftIds
<1>6. AllIds(items', c) \subseteq AllIds(items, c)
  <2>1. AllIds(items', c) \subseteq AllIds(back, c) BY <1>2 DEF AllIds, Id, Owned
  <2> QED BY <1>5, <2>1
<1>7. AllIds(items, c) \ OutIds(items, c) \subseteq AllIds(items', c)
  <2> SUFFICES ASSUME NEW r \in Owned(items, c), r.id \notin OutIds(items, c)
               PROVE  r \in Owned(items', c)
    BY DEF AllIds, Id
  <2>1. r \in items /\ r \notin Rows(items, c, INV_TRADE) BY DEF Owned, OutIds, OfferedIn, Id
  <2>2. r \in back BY <1>2, <2>1 DEF Shifted
  <2>3. r \notin Rows(back, c, INV_TRADE) BY <2>1 DEF Rows
  <2> QED BY <1>2, <2>2, <2>3 DEF Owned
<1>8. OutIds(items, c) \subseteq AllIds(items, c) BY <1>1, BooksApart
<1> DEFINE X == AllIds(items', c) \cap OutIds(items, c)
<1>9. /\ X \in SUBSET OutIds(items, c)
      /\ HeldIds(items', c) = HeldIds(items, c) \cup X \cup InIds(items, c)
  BY <1>4, <1>6, <1>7, <1>8 DEF HeldIds
<1>10. ASSUME Rows(items, c, INV_TRADE) = {}
       PROVE  HeldIds(items', c) = HeldIds(items, c) \cup OutIds(items, c)
  <2>1. OutIds(items, c) = {} BY <1>10, NothingOut
  <2> QED BY <1>4, <1>9, <2>1
<1> HIDE DEF X
<1> QED BY <1>1, <1>4, <1>9, <1>10, BookSteps

\* A trade accepted by both delivers what was offered and keeps what came in.
LEMMA SwapsLedger ==
    ASSUME Bargains, Bargains', NEW c \in Toons, OthersKeep(c, items, items'), Swaps(c)
    PROVE  Ledger!LedgerNext
<1>1. IdsDistinct(items) /\ IdsDistinct(items') /\ Packed(items) BY DEF Bargains, Keyed
<1> DEFINE gone == items \ OfferedRows(c)
           W    == Rows(gone, c, INV_TRADEPARTNER)
<1>2. Shifted(c, W, INV_TOONINV, gone, items') BY DEF Swaps
<1>3. AllIds(gone, c) = AllIds(items, c) \ OutIds(items, c)
  <2>1. Owned(gone, c) = Owned(items, c) \ OfferedIn(items, c)
    BY DEF Owned, OfferedRows, OfferedIn
  <2>2. Owned(items, c) \subseteq items /\ OfferedIn(items, c) \subseteq items
    BY DEF Owned, OfferedIn, InBags, Rows
  <2> HIDE DEF gone
  <2> QED BY <1>1, <2>1, <2>2, IdMinus DEF AllIds, OutIds
<1>4. AllIds(items', c) = AllIds(gone, c)
  <2> HIDE DEF gone
  <2>1. W \subseteq Owned(gone, c) BY OwnRows
  <2> HIDE DEF W
  <2> QED BY <1>2, <2>1, ShiftIds
<1> HIDE DEF gone, W
<1>5. OutIds(items', c) = {} /\ InIds(items', c) = {}
  BY DeedWindows, NothingOut, NothingIn
<1>6. InIds(items, c) \subseteq AllIds(items, c) /\ OutIds(items, c) \cap InIds(items, c) = {}
  BY <1>1, BooksApart
<1>7. HeldIds(items', c) = HeldIds(items, c) \cup {} \cup InIds(items, c)
  BY <1>3, <1>4, <1>5, <1>6 DEF HeldIds
<1>8. {} \in SUBSET OutIds(items, c) OBVIOUS
<1> QED BY <1>1, <1>5, <1>7, <1>8, BookSteps

\* Every message about an NPC or a player is a step of the ledger, and the end of
\* a trade with an NPC without a deal calls it off.
LEMMA DeedLedger ==
    ASSUME Bargains, Bargains', Room, Room', NEW c \in Toons,
           NpcMessage(c) \/ PlayerMessage(c)
    PROVE  /\ Ledger!LedgerNext \/ UNCHANGED Ledger!books
           /\ NpcMessage(c) /\ EndsTrade(c, "npc") /\ deal' = NoDeal => Ledger!CallOff(c)
<1>1. OthersKeep(c, items, items') BY NpcOrderly, PlayerOrderly DEF Bargains, Orderly, Sound
<1>2. items' = items => UNCHANGED Ledger!books
  BY DEF Ledger!books, HeldRows, OfferedRows, IncomingRows
<1>3. Ledger!CallOff(c) => Ledger!LedgerNext BY DEF Ledger!LedgerNext
<1>4. ASSUME NpcMessage(c)
      PROVE  /\ Ledger!LedgerNext \/ UNCHANGED Ledger!books
             /\ EndsTrade(c, "npc") /\ deal' = NoDeal => Ledger!CallOff(c)
  <2>1. NpcDeed(c) BY <1>4, NpcDeeds
  <2>2. Ledger!LedgerNext \/ UNCHANGED Ledger!books
    BY <1>1, <1>2, <1>3, <2>1, PutsLedger, TakesLedger, GivesBackLedger, SettlesLedger
       DEF NpcDeed
  <2>3. ASSUME EndsTrade(c, "npc"), deal' = NoDeal PROVE Ledger!CallOff(c)
    <3>1. GivesBack(c) \/ (Settles(c) /\ Rows(items, c, INV_TRADE) = {})
      BY <1>4, <2>3, NpcDeeds
    <3> QED BY <1>1, <2>3, <3>1, GivesBackLedger, SettlesLedger DEF EndsTrade
  <2> QED BY <2>2, <2>3
<1>5. ASSUME PlayerMessage(c) PROVE Ledger!LedgerNext \/ UNCHANGED Ledger!books
  <2>1. PlayerDeed(c) BY <1>5, PlayerDeeds
  <2> QED BY <1>1, <1>2, <1>3, <2>1, PutsLedger, TakesLedger, BringsLedger, TakesAwayLedger,
             GivesBackLedger, SwapsLedger DEF PlayerDeed
<1> QED BY <1>4, <1>5

\* Only the end of its trade with an NPC ends it.
LEMMA NpcTradeEnds ==
    ASSUME Bargains, NEW c \in Toons, NpcMessage(c) \/ PlayerMessage(c),
           Room, Room', NEW o \in Toons, EndsTrade(o, "npc")
    PROVE  o = c /\ NpcMessage(c)
<1>1. trading \in [Toons -> Partners] BY DEF Bargains
<1>2. CASE NpcMessage(c)
  <2>1. NpcDeed(c) BY <1>2, NpcDeeds
  <2>2. o # c => trading'[o] = trading[o] BY <1>1, <2>1 DEF NpcDeed, TradesWith
  <2> QED BY <1>2, <2>2 DEF EndsTrade
<1>3. CASE PlayerMessage(c)
  <2>1. PlayerDeed(c) BY <1>3, PlayerDeeds
  <2>2. trading'[o] = trading[o] \/ trading[o] # "npc"
    BY <1>1, <2>1 DEF PlayerDeed, TradesWith
  <2> QED BY <2>2 DEF EndsTrade
<1> QED BY <1>2, <1>3

\* The table implements the ledger of TradeLedger: whatever the moves between the
\* windows, an item leaves only by a settled trade or because the partner takes
\* his offer back, and all that was offered comes back when an NPC's window is
\* closed without a deal.
THEOREM TradesKeepLedger ==
    ASSUME CleanStart
    PROVE  TradesSpec /\ []Room => LedgerKept
<1> DEFINE Step == AllBut("shop") => Ledger!LedgerNext \/ UNCHANGED Ledger!books
           End  == AllBut("shop") =>
                      \A c \in Toons : EndsTrade(c, "npc") /\ deal' = NoDeal => Ledger!CallOff(c)
<1>1. TradesInit => Ledger!LedgerInit
  <2> SUFFICES ASSUME TradesInit PROVE Ledger!LedgerInit OBVIOUS
  <2>1. items \in Loadouts BY DEF TradesInit, Start, SessionInit
  <2>2. \A c \in Toons : \A w \in TradeWindows : Rows(items, c, w) = {}
    BY <2>1 DEF CleanStart, Clean
  <2>3. \A c \in Toons : Id(OfferedRows(c)) = {} /\ Id(IncomingRows(c)) = {}
    BY <2>2 DEF OfferedRows, IncomingRows, InBags, Id, TradeWindows
  <2>4. \A c \in Toons : Id(HeldRows(c)) \in SUBSET Ids
    BY <2>1, StartAssumption DEF HeldRows, Owned, Id, Row
  <2> QED BY <2>3, <2>4 DEF Ledger!LedgerInit
<1>2. BargainSession /\ BargainSession' /\ Room /\ Room' /\ [TradesNext]_tradeVars
        => [Step]_tradeVars /\ [End]_tradeVars
  <2> SUFFICES ASSUME BargainSession, BargainSession', Room, Room', [TradesNext]_tradeVars,
                      AllBut("shop"), ~ UNCHANGED tradeVars
               PROVE  Step /\ End
    OBVIOUS
  <2>1. Bargains /\ Bargains' BY MeetsKept DEF BargainSession, AllBut
  <2>2. PICK c \in Toons : NpcMessage(c) \/ PlayerMessage(c) BY MessageOrNone
  <2>3. Step BY <2>1, <2>2, DeedLedger
  <2>4. End BY <2>1, <2>2, DeedLedger, NpcTradeEnds
  <2> QED BY <2>3, <2>4
<1>3. TradesSpec /\ []Room => []BargainSession BY AlwaysBargains
<1>4. TradesSpec /\ []Room => Ledger!LedgerInit /\ [][Step]_tradeVars /\ [][End]_tradeVars
  BY <1>1, <1>2, <1>3, PTL DEF TradesSpec
<1> QED BY <1>4 DEF LedgerKept

-----------------------------------------------------------------------------
(* Player shops.                                                           *)

\* Nobody buys from the shop of another character of the table, whose copies the
\* code looks for in the wrong window (F2): it is a shop of one's own, or one whose
\* owner is unknown.
OwnShops ==
    \A c \in Toons : trading[c] = "shop" =>
        \A x \in ShopFor(c, visiting[c]) : x.owner = c

ShopContainers == {INV_PLAYERSHOP, INV_OTHER_PLAYERSHOP}

\* What is in the window of a buyer is in the shop as well, at the same slot.
Shown(c) ==
    trading[c] = "shop" =>
        \A x \in ShopFor(c, visiting[c]) : \A r \in IncomingRows(c) :
            \E q \in RowsAt(items, x.owner, x.container, r.slot) : q.kind = r.kind

Shopping ==
    /\ Tidy(items)
    /\ OpenedBags
    /\ trading \in [Toons -> Partners]
    /\ DOMAIN visiting = Toons
    /\ \A c \in Toons : Shown(c)

\* A shop has one of two containers, which no message names.
LEMMA ShopPlaces ==
    /\ \A c, shop : \A x \in ShopFor(c, shop) : x.container \in ShopContainers
    /\ \A p \in ShopContainers :
          /\ p \in Nat \ {INV_HOTSWAPTEMP} /\ \A s : Named(p, s)
          /\ p \notin {INV_TOONINV, INV_TRADE, INV_TRADEPARTNER}
    /\ OpenedBags => \A type : \A c \in Toons, t \in TempIds :
                        GetFromContainerId(c, type, t) \notin ShopContainers
<1>1. \A c, shop : \A x \in ShopFor(c, shop) : x.container \in ShopContainers
  BY DEF ShopFor, ShopContainers
<1>2. \A p \in ShopContainers :
          /\ p \in Nat \ {INV_HOTSWAPTEMP} /\ \A s : Named(p, s)
          /\ p \notin {INV_TOONINV, INV_TRADE, INV_TRADEPARTNER}
  BY DEF ShopContainers, INV_PLAYERSHOP, INV_OTHER_PLAYERSHOP, INV_HOTSWAPTEMP, INV_TOONINV,
         INV_TRADE, INV_TRADEPARTNER, Named
<1>3. ASSUME OpenedBags, NEW c \in Toons, NEW type, NEW t \in TempIds
      PROVE  GetFromContainerId(c, type, t) \notin ShopContainers
  <2>1. containerIdCache[c][t] \in Bags \cup {0} BY <1>3 DEF OpenedBags
  <2>2. containerIdCache[c][t] \notin ShopContainers
    BY <2>1, BagAssumption DEF ShopContainers, INV_PLAYERSHOP, INV_OTHER_PLAYERSHOP
  <2> QED BY <2>2 DEF GetFromContainerId, GetContainerId, ShopContainers, INV_PLAYERSHOP,
                      INV_OTHER_PLAYERSHOP, INV_BANK, INV_TRADE, INV_OVERFLOW, INV_TOONINV
<1> QED BY <1>1, <1>2, <1>3

\* What comes into the window is a copy of what is in the shop, with another id.
LEMMA CopyShown ==
    ASSUME Keys, NEW c \in Toons, NEW shop, NEW s \in Nat,
           \A x \in ShopFor(c, shop) : x.owner = c,
           RowsAt(items, c, INV_TRADEPARTNER, s) = {}, AddShopItem(c, shop, s)
    PROVE  /\ Orderly(c, items, items')
           /\ items \subseteq items'
           /\ \E x \in ShopFor(c, shop) : \A y \in items' \ items :
                 /\ y.owner = c /\ y.parent = INV_TRADEPARTNER /\ y.slot = s
                 /\ \E q \in RowsAt(items, c, x.container, s) : q.kind = y.kind
<1>1. PICK x \in ShopFor(c, shop) :
         LET copy == {[r EXCEPT !.parent = INV_TRADEPARTNER, !.owner = c] :
                         r \in RowsAt(items, x.owner, x.container, s)}
         IN  RoomFor(items, copy) /\ items' = items \cup Copies(items, copy)
  BY DEF AddShopItem, Commit
<1> DEFINE p    == x.container
           R    == RowsAt(items, c, p, s)
           f    == [r \in R |-> [r EXCEPT !.parent = INV_TRADEPARTNER, !.owner = c]]
           copy == {f[r] : r \in R}
           n    == NewIds(items, copy)
           g    == [u \in copy |-> [u EXCEPT !.id = n[u]]]
           add  == {g[u] : u \in copy}
<1>2. x.owner = c /\ p \in ShopContainers BY ShopPlaces
<1>3. RoomFor(items, copy) /\ items' = items \cup Copies(items, copy) BY <1>1, <1>2
<1>4. \A r \in R : r \in Row BY DEF RowsAt, Keys, Keyed, Table
<1>5. \A r \in R : /\ f[r] \in Row /\ f[r].kind = r.kind
                   /\ f[r].owner = c /\ f[r].parent = INV_TRADEPARTNER /\ f[r].slot = s
  BY <1>4 DEF Row, INV_TRADEPARTNER, RowsAt
<1> HIDE DEF f
<1>6. \A u \in copy : /\ u \in Row /\ u.owner = c /\ u.parent = INV_TRADEPARTNER
                      /\ u.slot = s /\ \E q \in R : q.kind = u.kind
  BY <1>5
<1>7. Copies(items, copy) = add BY DEF Copies
<1> HIDE DEF n
<1>8. \A u \in copy : /\ g[u].owner = c /\ g[u].parent = INV_TRADEPARTNER
                      /\ g[u].slot = s /\ \E q \in R : q.kind = g[u].kind
  BY <1>6 DEF Row
<1> HIDE DEF g
<1>9. \A y \in add : /\ y.owner = c /\ y.parent = INV_TRADEPARTNER /\ y.slot = s
                     /\ \E q \in R : q.kind = y.kind
  BY <1>8
<1>10. Tidy(items) => \A y, z \in add : y = z
  <2> SUFFICES ASSUME Tidy(items) PROVE \A y, z \in add : y = z OBVIOUS
  <2>1. Named(p, s) BY <1>2, ShopPlaces
  <2>2. \A q, r \in R : q = r BY <2>1 DEF Tidy, OneToASlot, RowsAt
  <2>3. \A u, v \in copy : u = v BY <2>2
  <2> QED BY <2>3
<1>11. Keyed(items') BY ShopItemKeyed
<1> HIDE DEF copy, add
<1>12. items' = items \cup add BY <1>3, <1>7
<1>13. OthersKeep(c, items, items') BY <1>9, <1>12 DEF OthersKeep, Owned
<1>14. ASSUME Tidy(items) PROVE Tidy(items')
  <2>1. \A y \in add, r \in items :
           ~ (r.owner = y.owner /\ r.parent = y.parent /\ r.slot = y.slot)
    BY <1>9 DEF RowsAt
  <2>2. \A y, z \in add : y = z BY <1>10, <1>14
  <2>3. OneToASlot(items') BY <1>12, <1>14, <2>1, <2>2 DEF Tidy, OneToASlot
  <2>4. INV_TRADEPARTNER # INV_HOTSWAPTEMP BY DEF INV_TRADEPARTNER, INV_HOTSWAPTEMP
  <2>5. NoneInTransit(items') BY <1>9, <1>12, <1>14, <2>4 DEF Tidy, NoneInTransit
  <2> QED BY <2>3, <2>5 DEF Tidy
<1>15. Orderly(c, items, items') BY <1>11, <1>13, <1>14 DEF Orderly, Sound, Keyed
<1> QED BY <1>9, <1>12, <1>15

\* The stock of a shop has one item to a slot.
LEMMA StockTidy ==
    ASSUME Keys, Tidy(items), NEW c \in Toons, NEW shop, NEW stock \in Stocks,
           ShopItems(c, shop, stock)
    PROVE  Tidy(items')
<1>1. PICK x \in ShopFor(c, shop) :
         LET old == Rows(items, x.owner, x.container)
             new == {Item(i.kind, 1, x.container, i.slot, 0, x.owner) : i \in stock}
         IN  RoomFor(items \ old, new) /\ items' = InsertItems(items \ old, new)
  BY DEF ShopItems, Commit
<1> DEFINE rest == items \ Rows(items, x.owner, x.container)
           new  == {Item(i.kind, 1, x.container, i.slot, 0, x.owner) : i \in stock}
           n    == NewIds(rest, new)
           g    == [u \in new |-> [id |-> n[u], kind |-> u.kind, stack |-> u.stack,
                                   parent |-> u.parent, slot |-> u.slot,
                                   children |-> u.children, owner |-> u.owner]]
           add  == {g[u] : u \in new}
<1>2. items' = rest \cup add BY <1>1 DEF InsertItems
<1>3. \A u \in new : u.parent = x.container /\ u.owner = x.owner BY DEF Item
<1>4. \A u, v \in new : u.slot = v.slot => u = v
  <2> SUFFICES ASSUME NEW i \in stock, NEW j \in stock,
                      Item(i.kind, 1, x.container, i.slot, 0, x.owner).slot
                        = Item(j.kind, 1, x.container, j.slot, 0, x.owner).slot
               PROVE  i = j
    OBVIOUS
  <2>1. i.slot = j.slot BY DEF Item
  <2> QED BY <2>1, ShopAssumption
<1> HIDE DEF n, new
<1>5. \A u \in new : g[u].parent = u.parent /\ g[u].owner = u.owner /\ g[u].slot = u.slot
  OBVIOUS
<1> HIDE DEF g
<1>6. \A y \in add : y.parent = x.container /\ y.owner = x.owner BY <1>3, <1>5
<1>7. \A y, z \in add : y.slot = z.slot => y = z BY <1>4, <1>5
<1>8. \A r \in rest : r \in items /\ ~ (r.parent = x.container /\ r.owner = x.owner)
  BY DEF Rows
<1> HIDE DEF add, rest
<1>9. OneToASlot(items') BY <1>2, <1>6, <1>7, <1>8 DEF Tidy, OneToASlot
<1>10. x.container # INV_HOTSWAPTEMP BY ShopPlaces
<1>11. NoneInTransit(items') BY <1>2, <1>6, <1>8, <1>10 DEF Tidy, NoneInTransit
<1> QED BY <1>9, <1>11 DEF Tidy

\* The end of a purchase: the originals go, the copies come in, and what the buyer
\* put into the window goes to the shop.
LEMMA SaleShifts ==
    ASSUME Keys, NEW c \in Toons, NEW shop, \A x \in ShopFor(c, shop) : x.owner = c,
           CommitShopTrade(c, shop)
    PROVE  \E x \in ShopFor(c, shop) : \E sold, mine :
              /\ sold = items \ {r \in Rows(items, c, x.container) :
                                    \E y \in IncomingRows(c) : y.slot = r.slot}
              /\ Shifted(c, Rows(sold, c, INV_TRADEPARTNER), INV_TOONINV, sold, mine)
              /\ Shifted(c, Rows(mine, c, INV_TRADE), x.container, mine, items')
              /\ Keyed(sold) /\ Keyed(mine)
              /\ Orderly(c, items, items')
<1>1. PICK x \in ShopFor(c, shop) :
        LET taken == {r.slot : r \in Rows(items, c, INV_TRADEPARTNER)}
            sold  == items \ {r \in Rows(items, x.owner, x.container) : r.slot \in taken}
            mine  == CarryOver(sold, c, x.owner, INV_TRADEPARTNER, c, INV_TOONINV, FALSE)
        IN  items' = CarryOver(mine, c, c, INV_TRADE, x.owner, x.container, FALSE)
  BY DEF CommitShopTrade, Commit
<1> DEFINE p    == x.container
           out  == {r \in Rows(items, c, p) : \E y \in IncomingRows(c) : y.slot = r.slot}
           sold == items \ out
           mine == CarryOver(sold, c, c, INV_TRADEPARTNER, c, INV_TOONINV, FALSE)
<1>2. x.owner = c OBVIOUS
<1>3. out = {r \in Rows(items, x.owner, p) :
                r.slot \in {y.slot : y \in Rows(items, c, INV_TRADEPARTNER)}}
  BY <1>2 DEF IncomingRows
<1>4. items' = CarryOver(mine, c, c, INV_TRADE, c, p, FALSE) BY <1>1, <1>2, <1>3
<1>5. /\ p \in Nat \ {INV_HOTSWAPTEMP} /\ p # INV_TRADE
      /\ INV_TOONINV \in Nat \ {INV_HOTSWAPTEMP}
      /\ INV_TOONINV # INV_TRADEPARTNER /\ INV_TOONINV # INV_TRADE
  BY ShopPlaces DEF INV_TOONINV, INV_TRADEPARTNER, INV_TRADE, INV_HOTSWAPTEMP
<1>6. out \subseteq Owned(items, c) BY DEF Rows, Owned
<1> HIDE DEF p, out
<1>7. Orderly(c, items, sold) /\ Keyed(sold) BY <1>6, DeletionOrderly, OrderlyKeyed DEF Keys
<1> HIDE DEF sold
<1>8. Shifted(c, Rows(sold, c, INV_TRADEPARTNER), INV_TOONINV, sold, mine)
  BY <1>5, <1>7, WindowShifted DEF Keyed
<1> HIDE DEF mine
<1>9. Orderly(c, sold, mine) /\ Keyed(mine) BY <1>7, <1>8, ShiftOrderly, OrderlyKeyed
<1>10. Shifted(c, Rows(mine, c, INV_TRADE), p, mine, items')
  BY <1>4, <1>5, <1>9, WindowShifted DEF Keyed
<1>11. Orderly(c, mine, items') BY <1>9, <1>10, ShiftOrderly
<1>12. Orderly(c, items, items') BY <1>7, <1>9, <1>11, OrderlyTwice
<1> QED BY <1>7, <1>8, <1>9, <1>10, <1>12 DEF p, out, sold

\* What is shown to a buyer stays so when others trade, and when the shop keeps what
\* it has while nothing comes to the window.
LEMMA StillShown ==
    ASSUME NEW c \in Toons, Shown(c), trading'[c] = trading[c], visiting'[c] = visiting[c],
           UNCHANGED shops, OwnShops,
           IncomingRows(c)' \subseteq IncomingRows(c),
           \A p \in ShopContainers : Rows(items, c, p) \subseteq items'
    PROVE  Shown(c)'
<1> SUFFICES ASSUME trading[c] = "shop", NEW x \in ShopFor(c, visiting[c]),
                    NEW r \in IncomingRows(c)'
             PROVE  \E q \in RowsAt(items', x.owner, x.container, r.slot) : q.kind = r.kind
  BY DEF Shown, ShopFor, shops
<1>1. PICK q \in RowsAt(items, x.owner, x.container, r.slot) : q.kind = r.kind BY DEF Shown
<1>2. x.owner = c /\ x.container \in ShopContainers BY ShopPlaces DEF OwnShops
<1>3. q \in Rows(items, c, x.container) BY <1>1, <1>2 DEF RowsAt, Rows
<1> QED BY <1>1, <1>2, <1>3 DEF RowsAt

\* Orderly steps of one character leave what is shown to another one.
LEMMA ShownToOthers ==
    ASSUME NEW c \in Toons, Orderly(c, items, items'), OwnShops, NEW o \in Toons \ {c}, Shown(o),
           trading'[o] = trading[o], visiting'[o] = visiting[o], UNCHANGED shops
    PROVE  Shown(o)'
<1>1. OthersKeep(c, items, items') BY DEF Orderly, Sound
<1>2. \A p : Rows(items', o, p) = Rows(items, o, p) BY <1>1, OthersWindows
<1>3. IncomingRows(o)' \subseteq IncomingRows(o) BY <1>2 DEF IncomingRows
<1>4. \A p : Rows(items, o, p) \subseteq items' BY <1>2 DEF Rows
<1> QED BY <1>3, <1>4, StillShown

\* The whole of it after an orderly step of c.
LEMMA ShoppingGoesOn ==
    ASSUME Shopping, OwnShops, NEW c \in Toons, Orderly(c, items, items'),
           UNCHANGED <<caches, shops>>,
           trading' = trading \/ \E partner \in Partners : TradesWith(c, partner),
           DOMAIN visiting' = Toons, \A o \in Toons \ {c} : visiting'[o] = visiting[o],
           Shown(c)'
    PROVE  Shopping'
<1>1. Tidy(items') BY DEF Shopping, Orderly, Sound
<1>2. OpenedBags' BY DEF Shopping, OpenedBags, caches
<1>3. trading' \in [Toons -> Partners] /\ \A o \in Toons \ {c} : trading'[o] = trading[o]
  BY DEF Shopping, TradesWith
<1>4. ASSUME NEW o \in Toons \ {c} PROVE Shown(o)' BY <1>3, <1>4, ShownToOthers DEF Shopping
<1> QED BY <1>1, <1>2, <1>3, <1>4 DEF Shopping

\* Who begins or ends a trade is not shopping.
LEMMA NotShopping ==
    ASSUME Shopping, NEW c \in Toons, NEW partner \in Partners \ {"shop"}, TradesWith(c, partner)
    PROVE  trading'[c] # "shop" /\ Shown(c)'
BY DEF Shopping, TradesWith, Shown

\* An offer to a shop, or its withdrawal.
LEMMA OfferShown ==
    ASSUME Keys, Shopping, OwnShops, NEW c \in Toons, Offers(c), UNCHANGED <<visiting, shops>>
    PROVE  Shown(c)' /\ UNCHANGED caches
<1>1. UNCHANGED trading BY DEF Offers
<1>2. PICK from, s : \E p \in {INV_TOONINV, INV_TRADE} :
         /\ from \notin ShopContainers /\ Named(from, s)
         /\ MoveToFreeSlot(c, from, s, p) /\ UNCHANGED caches
  <2>1. CASE \E s \in Slots : RemoveItem(c, s)
    <3>1. INV_TRADE \notin ShopContainers BY ShopPlaces
    <3> QED BY <2>1, <3>1 DEF RemoveItem, Named, INV_TRADE, INV_TOONINV
  <2>2. CASE \E type \in Types \ {"trade"}, t \in TempIds, s \in Slots :
                Named(GetFromContainerId(c, type, t), s) /\ AddItem(c, type, t, s)
    BY <2>2, ShopPlaces DEF AddItem, Shopping
  <2> QED BY <2>1, <2>2 DEF Offers
<1>3. PICK p \in {INV_TOONINV, INV_TRADE} : MoveToFreeSlot(c, from, s, p) BY <1>2
<1> DEFINE R == RowsAt(items, c, from, s)
<1>4. /\ Shifted(c, R, p, items, items')
      /\ items' = Move(items, R, p, FindNextAvailableContainerSlot(items, c, p))
  BY <1>2, <1>3, ItemMoved DEF Keys, Keyed
<1>5. IncomingRows(c)' \subseteq IncomingRows(c)
  <2>1. INV_TRADEPARTNER # p BY DEF INV_TRADEPARTNER, INV_TOONINV, INV_TRADE
  <2> QED BY <1>4, <2>1, StillThere DEF IncomingRows
<1>6. ASSUME NEW q \in ShopContainers PROVE Rows(items, c, q) \subseteq items'
  <2>1. Rows(items, c, q) \cap R = {} BY <1>2 DEF Rows, RowsAt
  <2> QED BY <1>4, <2>1 DEF Move, Rows
<1> QED BY <1>1, <1>2, <1>5, <1>6, StillShown DEF Shopping

\* The messages about NPCs and players.
LEMMA SocialShopping ==
    ASSUME Keys, Shopping, OwnShops, NEW c \in Toons, NpcMessage(c) \/ PlayerMessage(c),
           UNCHANGED <<visiting, shops>>
    PROVE  Shopping'
<1>1. Orderly(c, items, items') BY NpcOrderly, PlayerOrderly DEF Keys
<1>2. UNCHANGED <<caches, shops>> BY CachesKept
<1>3. DOMAIN visiting' = Toons BY DEF Shopping
<1>4. CASE \E partner \in Partners \ {"shop"} : TradesWith(c, partner)
  BY <1>1, <1>2, <1>3, <1>4, NotShopping, ShoppingGoesOn
<1>5. CASE trading' = trading /\ trading[c] = "player"
  <2>1. Shown(c)' BY <1>5 DEF Shown
  <2> QED BY <1>1, <1>2, <1>3, <1>5, <2>1, ShoppingGoesOn
<1>6. CASE Buys(c)
  <2>1. trading' = trading BY <1>6 DEF Buys
  <2>2. PICK x : items' = items \cup {x} /\ x.parent = INV_TOONINV
    <3>1. PICK k \in Traded, n \in 1..MaxStack : InsertNew(c, k, n, INV_TOONINV, 0)
      BY <1>6 DEF Buys, ItemBought
    <3>2. k \in Kinds /\ n \in Int /\ INV_TOONINV \in Nat \ {INV_HOTSWAPTEMP} /\ 0 \in Nat
      BY TemplateAssumption DEF INV_TOONINV, INV_HOTSWAPTEMP
    <3> QED BY <3>1, <3>2, NewItem DEF Keys
  <2>3. IncomingRows(c)' \subseteq IncomingRows(c)
    BY <2>2 DEF IncomingRows, Rows, INV_TOONINV, INV_TRADEPARTNER
  <2>4. \A p : Rows(items, c, p) \subseteq items' BY <2>2 DEF Rows
  <2>5. Shown(c)' BY <2>1, <2>3, <2>4, StillShown DEF Shopping
  <2> QED BY <1>1, <1>2, <1>3, <2>1, <2>5, ShoppingGoesOn
<1>7. NpcMessage(c) => \E partner \in Partners \ {"shop"} : TradesWith(c, partner)
  BY DEF NpcMessage, GiveMessage, CloseMessage, AcceptMessage, Partners
<1>8. PlayerMessage(c) => \/ \E partner \in Partners \ {"shop"} : TradesWith(c, partner)
                          \/ trading' = trading /\ trading[c] = "player"
                          \/ Buys(c)
  BY DEF PlayerMessage, Starts, Ends, Offers, PartnerOffers, Partners
<1> QED BY <1>4, <1>5, <1>6, <1>7, <1>8

\* The messages about shops.
LEMMA ShopShopping ==
    ASSUME Keys, Shopping, OwnShops, NEW c \in Toons, ShopMessage(c)
    PROVE  Shopping'
<1>1. Keyed(items) BY DEF Keys
<1>2. CASE Enters(c)
  <2>1. Orderly(c, items, items') BY <1>1, <1>2, StartOrderly DEF Enters, Starts
  <2>2. UNCHANGED <<caches, shops>> /\ TradesWith(c, "shop") /\ "shop" \in Partners
    BY <1>2 DEF Enters, Starts, StartTrade, Partners
  <2>3. DOMAIN visiting' = Toons /\ \A o \in Toons \ {c} : visiting'[o] = visiting[o]
    BY <1>2 DEF Enters, Shopping
  <2>4. IncomingRows(c)' = {}
    BY <1>2 DEF Enters, Starts, StartTrade, Commit, Windows, IncomingRows, Rows
  <2>5. Shown(c)' BY <2>4 DEF Shown
  <2> QED BY <2>1, <2>2, <2>3, <2>5, ShoppingGoesOn
<1>3. CASE Chooses(c)
  <2>1. /\ UNCHANGED <<trading, visiting, caches, shops>> /\ trading[c] = "shop"
        /\ DOMAIN visiting' = Toons
    BY <1>3 DEF Chooses, AddShopItem, RemoveShopItem, Shopping
  <2>2. ASSUME NEW s \in Slots, RemoveShopItem(c, s) PROVE Shopping'
    <3>1. items' = items \ RowsAt(items, c, INV_TRADEPARTNER, s)
      BY <2>2 DEF RemoveShopItem, Commit
    <3>2. Orderly(c, items, items') BY <1>1, <3>1, OwnRows, DeletionOrderly
    <3>3. IncomingRows(c)' \subseteq IncomingRows(c) BY <3>1 DEF IncomingRows, Rows
    <3>4. ASSUME NEW p \in ShopContainers PROVE Rows(items, c, p) \subseteq items'
      <4>1. p # INV_TRADEPARTNER BY ShopPlaces
      <4> QED BY <3>1, <4>1 DEF Rows, RowsAt
    <3>5. Shown(c)' BY <2>1, <3>3, <3>4, StillShown DEF Shopping
    <3> QED BY <2>1, <3>2, <3>5, ShoppingGoesOn
  <2>3. ASSUME NEW s \in Slots, RowsAt(items, c, INV_TRADEPARTNER, s) = {},
               AddShopItem(c, visiting[c], s)
        PROVE  Shopping'
    <3>1. s \in Nat /\ \A x \in ShopFor(c, visiting[c]) : x.owner = c
      BY <2>1, StartAssumption DEF OwnShops
    <3>2. /\ Orderly(c, items, items') /\ items \subseteq items'
          /\ \E x \in ShopFor(c, visiting[c]) : \A y \in items' \ items :
                /\ y.owner = c /\ y.parent = INV_TRADEPARTNER /\ y.slot = s
                /\ \E q \in RowsAt(items, c, x.container, s) : q.kind = y.kind
      BY <2>3, <3>1, CopyShown
    <3>3. \A x, z \in ShopFor(c, visiting[c]) : x = z
      BY <3>1 DEF ShopFor
    <3>4. ASSUME NEW x \in ShopFor(c, visiting[c]), NEW r \in IncomingRows(c)'
          PROVE  \E q \in RowsAt(items', x.owner, x.container, r.slot) : q.kind = r.kind
      <4>1. x.owner = c BY <3>1
      <4>2. CASE r \in items
        <5>1. r \in IncomingRows(c) BY <4>2 DEF IncomingRows, Rows
        <5>2. PICK q \in RowsAt(items, x.owner, x.container, r.slot) : q.kind = r.kind
          BY <2>1, <5>1 DEF Shopping, Shown
        <5> QED BY <3>2, <5>2 DEF RowsAt
      <4>3. CASE r \notin items
        <5>1. r \in items' \ items BY <4>3 DEF IncomingRows, Rows
        <5>2. r.slot = s /\ \E q \in RowsAt(items, c, x.container, s) : q.kind = r.kind
          BY <3>2, <3>3, <5>1
        <5> QED BY <3>2, <4>1, <5>2 DEF RowsAt
      <4> QED BY <4>2, <4>3
    <3>5. Shown(c)' BY <2>1, <3>4 DEF Shown, ShopFor, shops
    <3> QED BY <2>1, <3>2, <3>5, ShoppingGoesOn
  <2> QED BY <1>3, <2>2, <2>3 DEF Chooses
<1>4. CASE AddsOwn(c)
  <2>1. Offers(c) /\ UNCHANGED <<visiting, shops>> /\ trading' = trading
    BY <1>4 DEF AddsOwn, Offers
  <2>2. Orderly(c, items, items') BY <1>1, <2>1, OfferOrderly
  <2>3. Shown(c)' /\ UNCHANGED caches BY <2>1, OfferShown
  <2>4. DOMAIN visiting' = Toons BY <2>1 DEF Shopping
  <2> QED BY <2>1, <2>2, <2>3, <2>4, ShoppingGoesOn
<1>5. CASE Leaves(c)
  <2>1. /\ trading[c] = "shop" /\ TradesWith(c, "none") /\ "none" \in Partners \ {"shop"}
        /\ UNCHANGED <<caches, shops>>
        /\ DOMAIN visiting' = Toons /\ \A o \in Toons \ {c} : visiting'[o] = visiting[o]
    BY <1>5 DEF Leaves, Partners, CommitShopTrade, Decline, Shopping
  <2>2. Orderly(c, items, items')
    <3>1. CASE CommitShopTrade(c, visiting[c])
      <4>1. \A x \in ShopFor(c, visiting[c]) : x.owner = c BY <2>1 DEF OwnShops
      <4> QED BY <3>1, <4>1, SaleShifts
    <3>2. CASE Decline(c) BY <1>1, <3>2, DeclineOrderly
    <3> QED BY <1>5, <3>1, <3>2 DEF Leaves
  <2> QED BY <2>1, <2>2, NotShopping, ShoppingGoesOn
<1>6. CASE Learns(c)
  <2>1. \A o \in Toons : trading[o] = "none" /\ trading'[o] = "none" BY <1>6 DEF Learns
  <2>2. \A o \in Toons : Shown(o)' BY <2>1 DEF Shown
  <2>3. trading' = trading /\ visiting' = visiting /\ UNCHANGED caches
    BY <1>6 DEF Learns, MobSync, ShopInfo, ShopItems
  <2>4. Tidy(items')
    <3>1. ASSUME NEW shop, NEW stock \in Stocks, ShopItems(c, shop, stock) PROVE Tidy(items')
      BY <3>1, StockTidy DEF Shopping
    <3>2. CASE MobSync(c) BY <3>2 DEF MobSync, SetToonName, Commit, Shopping
    <3>3. ASSUME NEW shop, ShopInfo(c, shop) PROVE Tidy(items')
      BY <3>3 DEF ShopInfo, Commit, Shopping
    <3> QED BY <1>6, <3>1, <3>2, <3>3 DEF Learns
  <2> QED BY <2>2, <2>3, <2>4 DEF Shopping, OpenedBags, caches
<1> QED BY <1>2, <1>3, <1>4, <1>5, <1>6 DEF ShopMessage

\* A start of a session that may go shopping.
ShoppingStart ==
    /\ \A db \in Loadouts : IdsDistinct(db) /\ Tidy(db)
    /\ OpenBags \subseteq [Toons -> [TempIds -> Bags \cup {0}]]

LEMMA ShoppingInit == ShoppingStart /\ TradesInit => Shopping
<1> SUFFICES ASSUME ShoppingStart, TradesInit PROVE Shopping OBVIOUS
<1>1. items \in Loadouts /\ containerIdCache \in OpenBags
  BY DEF TradesInit, Start, SessionInit
<1>2. Tidy(items) /\ OpenedBags BY <1>1 DEF ShoppingStart, OpenedBags
<1>3. trading = [c \in Toons |-> "none"] /\ visiting = [c \in Toons |-> 0]
  BY DEF TradesInit, ShopsInit
<1>4. \A c \in Toons : Shown(c) BY <1>3 DEF Shown
<1> QED BY <1>2, <1>3, <1>4 DEF Shopping, Partners

\* The step of the whole session.
LEMMA ShoppingNext == Keys /\ Shopping /\ OwnShops /\ [TradesNext]_tradeVars => Shopping'
<1> SUFFICES ASSUME Keys, Shopping, OwnShops, [TradesNext]_tradeVars PROVE Shopping' OBVIOUS
<1>1. CASE UNCHANGED tradeVars
  BY <1>1 DEF tradeVars, vars, session, caches, shops, Shopping, OpenedBags, Shown, IncomingRows,
              ShopFor
<1>2. ASSUME NEW c \in Toons, NpcStep(c) PROVE Shopping' BY <1>2, SocialShopping DEF NpcStep
<1>3. ASSUME NEW c \in Toons, PlayerStep(c) PROVE Shopping' BY <1>3, SocialShopping DEF PlayerStep
<1>4. ASSUME NEW c \in Toons, ShopStep(c) PROVE Shopping' BY <1>4, ShopShopping DEF ShopStep
<1> QED BY <1>1, <1>2, <1>3, <1>4 DEF TradesNext

LEMMA AlwaysShopping ==
    ASSUME ShoppingStart
    PROVE  TradesSpec /\ []OwnShops => [](Keys /\ Shopping)
<1>1. TradesSpec => []Keys BY AlwaysKeys DEF ShoppingStart
<1>2. TradesInit => Shopping BY ShoppingInit
<1> QED BY <1>1, <1>2, ShoppingNext, PTL DEF TradesSpec

\* There is one item to a slot in every session, player shops included, as long as
\* the shops belong to the buyer or to nobody known (F2).
THEOREM ShopsTidy ==
    ASSUME ShoppingStart
    PROVE  TradesSpec /\ []OwnShops => []SlotsUnique
<1>1. Shopping => SlotsUnique BY DEF Shopping, Tidy, OneToASlot, SlotsUnique
<1> QED BY <1>1, AlwaysShopping, PTL

-----------------------------------------------------------------------------
(* How many of a kind there are.                                           *)

\* As many rows as there are slot numbers, among those of one container.
LEMMA SlotCount ==
    ASSUME NEW db, Keyed(db), Tidy(db), NEW c, NEW p, \A s : Named(p, s),
           NEW R, R \subseteq Rows(db, c, p)
    PROVE  LET S == {r.slot : r \in R}
           IN  Cardinality(S) = Cardinality(R)
<1> DEFINE S == {r.slot : r \in R}
           f == [r \in R |-> r.slot]
<1>1. IsFiniteSet(R) BY IdCount DEF Rows
<1>2. f \in Bijection(R, S)
  <2>1. f \in [R -> S] OBVIOUS
  <2>2. \A x, y \in R : f[x] = f[y] => x = y BY DEF Rows, Tidy, OneToASlot
  <2>3. \A s \in S : \E x \in R : f[x] = s OBVIOUS
  <2> HIDE DEF f, S
  <2> QED BY <2>1, <2>2, <2>3 DEF Bijection, Injection, IsInjective, Surjection
<1> HIDE DEF f, S
<1>3. ExistsBijection(R, S) BY <1>2 DEF ExistsBijection
<1>4. Cardinality(S) = Cardinality(R) BY <1>1, <1>3, FS_Bijection
<1> QED BY <1>4 DEF S

\* A move changes the number of no kind,
LEMMA ShiftCount ==
    ASSUME NEW c, NEW W, NEW p, NEW old, Keyed(old), W \subseteq old, NEW new,
           Shifted(c, W, p, old, new), NEW k
    PROVE  Count(new, k) = Count(old, k)
<1> DEFINE A == {r \in old : r.kind = k}
           B == {r \in new : r.kind = k}
<1>1. Keyed(new) BY ShiftOrderly, OrderlyKeyed
<1>2. Id(A) = Id(B) BY DEF Shifted, Same, Id
<1>3. Cardinality(Id(A)) = Cardinality(A) /\ Cardinality(Id(B)) = Cardinality(B)
  <2>1. A \subseteq old /\ B \subseteq new OBVIOUS
  <2> HIDE DEF A, B
  <2> QED BY <1>1, <2>1, IdCount
<1> QED BY <1>2, <1>3 DEF Count

\* and a deletion lessens it by what is deleted.
LEMMA CountMinus ==
    ASSUME NEW db, Keyed(db), NEW R, R \subseteq db, NEW k
    PROVE  Count(db \ R, k) = Count(db, k) - Count(R, k)
<1> DEFINE A == {r \in db : r.kind = k}
           B == {r \in R : r.kind = k}
<1>1. {r \in db \ R : r.kind = k} = A \ B /\ A \cap B = B OBVIOUS
<1>2. A \subseteq db OBVIOUS
<1> HIDE DEF A, B
<1>3. IsFiniteSet(A) BY <1>2, IdCount
<1>4. Cardinality(A \ B) = Cardinality(A) - Cardinality(B) BY <1>1, <1>3, FS_Difference
<1> QED BY <1>1, <1>4 DEF Count, A, B

\* There are as many originals as copies.
LEMMA OriginalsCounted ==
    ASSUME Keys, Shopping, NEW c \in Toons, trading[c] = "shop",
           NEW x \in ShopFor(c, visiting[c]), x.owner = c, NEW k
    PROVE  LET out == {r \in Rows(items, c, x.container) :
                          \E y \in IncomingRows(c) : y.slot = r.slot}
           IN  Count(out, k) = Count(IncomingRows(c), k)
<1> DEFINE p == x.container
           A == {r \in Rows(items, c, p) : r.kind = k /\ \E y \in IncomingRows(c) : y.slot = r.slot}
           B == {y \in IncomingRows(c) : y.kind = k}
           S == {r.slot : r \in A}
           T == {y.slot : y \in B}
<1>1. (\A s : Named(p, s)) /\ (\A s : Named(INV_TRADEPARTNER, s))
  BY ShopPlaces DEF Named, INV_TRADEPARTNER, INV_TOONINV
<1>2. \A y \in IncomingRows(c) : \E q \in Rows(items, c, p) : q.slot = y.slot /\ q.kind = y.kind
  BY DEF Shopping, Shown, RowsAt, Rows
<1>3. \A q, r \in Rows(items, c, p) : q.slot = r.slot => q = r
  BY <1>1 DEF Shopping, Tidy, OneToASlot, Rows
<1>4. S = T BY <1>2, <1>3
<1>5. A \subseteq Rows(items, c, p) /\ B \subseteq Rows(items, c, INV_TRADEPARTNER)
  BY DEF IncomingRows
<1>6. Keyed(items) /\ Tidy(items) BY DEF Keys, Shopping
<1>7. Cardinality(S) = Cardinality(A) /\ Cardinality(T) = Cardinality(B)
  <2> HIDE DEF p, A, B
  <2> QED BY <1>1, <1>5, <1>6, SlotCount
<1>8. {r \in {q \in Rows(items, c, p) : \E y \in IncomingRows(c) : y.slot = q.slot} : r.kind = k} = A
  OBVIOUS
<1> QED BY <1>4, <1>7, <1>8 DEF Count

\* A purchase: the originals go for the copies.
LEMMA SaleCounts ==
    ASSUME Keys, Shopping, OwnShops, NEW c \in Toons, trading[c] = "shop",
           CommitShopTrade(c, visiting[c]), NEW k
    PROVE  Count(items', k) = Count(items \ IncomingRows(c), k)
<1>1. \A x \in ShopFor(c, visiting[c]) : x.owner = c BY DEF OwnShops
<1>2. PICK x \in ShopFor(c, visiting[c]) : \E sold, mine :
         /\ sold = items \ {r \in Rows(items, c, x.container) :
                               \E y \in IncomingRows(c) : y.slot = r.slot}
         /\ Shifted(c, Rows(sold, c, INV_TRADEPARTNER), INV_TOONINV, sold, mine)
         /\ Shifted(c, Rows(mine, c, INV_TRADE), x.container, mine, items')
         /\ Keyed(sold) /\ Keyed(mine)
  BY <1>1, SaleShifts
<1>3. PICK sold, mine :
         /\ sold = items \ {r \in Rows(items, c, x.container) :
                               \E y \in IncomingRows(c) : y.slot = r.slot}
         /\ Shifted(c, Rows(sold, c, INV_TRADEPARTNER), INV_TOONINV, sold, mine)
         /\ Shifted(c, Rows(mine, c, INV_TRADE), x.container, mine, items')
         /\ Keyed(sold) /\ Keyed(mine)
  BY <1>2
<1> DEFINE out == {r \in Rows(items, c, x.container) :
                      \E y \in IncomingRows(c) : y.slot = r.slot}
<1>4. \A db, p : Rows(db, c, p) \subseteq db BY DEF Rows
<1>5. Count(items', k) = Count(mine, k) BY <1>3, <1>4, ShiftCount
<1>6. Count(mine, k) = Count(sold, k) BY <1>3, <1>4, ShiftCount
<1>7. Count(out, k) = Count(IncomingRows(c), k) BY <1>1, OriginalsCounted
<1>8. Keyed(items) /\ out \subseteq items /\ IncomingRows(c) \subseteq items
  BY DEF Keys, Rows, IncomingRows
<1>9. sold = items \ out BY <1>3
<1> HIDE DEF out
<1> QED BY <1>5, <1>6, <1>7, <1>8, <1>9, <1>3, CountMinus

\* No purchase: the copies go.
LEMMA DeclineCounts ==
    ASSUME Keys, NEW c \in Toons, Decline(c), NEW k
    PROVE  Count(items', k) = Count(items \ IncomingRows(c), k)
<1> DEFINE back == MoveBack(items, c)
           W    == Rows(items, c, INV_TRADE)
           R    == IncomingRows(c)
<1>1. items' = back \ Rows(back, c, INV_TRADEPARTNER) BY DEF Decline, Commit
<1>2. Shifted(c, W, INV_TOONINV, items, back) BY WindowCarried DEF MoveBack, Keys, Keyed
<1>3. Keyed(items) /\ W \subseteq items /\ R \subseteq items BY DEF Keys, Rows, IncomingRows
<1>4. Rows(back, c, INV_TRADEPARTNER) = R
  <2> HIDE DEF back
  <2>1. INV_TRADEPARTNER # INV_TOONINV BY DEF INV_TRADEPARTNER, INV_TOONINV
  <2>2. Rows(back, c, INV_TRADEPARTNER) \subseteq R
    BY <1>2, <2>1, StillThere DEF IncomingRows
  <2>3. R \cap W = {} BY DEF IncomingRows, Rows, INV_TRADE, INV_TRADEPARTNER
  <2>4. R \subseteq back BY <1>2, <1>3, <2>3 DEF Shifted
  <2> QED BY <2>2, <2>4 DEF IncomingRows, Rows
<1> HIDE DEF back, W
<1>5. R \subseteq back BY <1>4 DEF Rows
<1>6. Keyed(back) BY <1>2, <1>3, ShiftOrderly, OrderlyKeyed
<1>7. Count(back, k) = Count(items, k) BY <1>2, <1>3, ShiftCount
<1> HIDE DEF R
<1>8. Count(back \ R, k) = Count(items \ R, k) BY <1>3, <1>5, <1>6, <1>7, CountMinus
<1> QED BY <1>1, <1>4, <1>8 DEF R

\* The trade with a shop ends when its customer leaves.
LEMMA ShopTradeEnds ==
    ASSUME Shopping, [TradesNext]_tradeVars, NEW c \in Toons, EndsTrade(c, "shop")
    PROVE  Leaves(c)
<1>1. trading[c] = "shop" /\ trading'[c] = "none" BY DEF EndsTrade
<1>2. trading \in [Toons -> Partners] BY DEF Shopping
<1>3. PICK o \in Toons : NpcStep(o) \/ PlayerStep(o) \/ ShopStep(o)
  BY <1>1 DEF TradesNext, tradeVars, vars
<1>4. ASSUME NEW partner, TradesWith(o, partner) PROVE c = o
  BY <1>1, <1>2, <1>4 DEF TradesWith
<1>5. ASSUME NpcStep(o) PROVE FALSE
  <2>1. trading[o] \in {"none", "npc"} /\ \E partner : TradesWith(o, partner)
    BY <1>5 DEF NpcStep, NpcMessage, GiveMessage, CloseMessage, AcceptMessage
  <2> QED BY <1>1, <1>4, <2>1
<1>6. ASSUME PlayerStep(o) PROVE FALSE
  <2>1. trading' # trading BY <1>1
  <2>2. trading[o] \in {"none", "player"} /\ \E partner : TradesWith(o, partner)
    BY <1>6, <2>1 DEF PlayerStep, PlayerMessage, Starts, Ends, Offers, PartnerOffers, Buys
  <2> QED BY <1>1, <1>4, <2>2
<1>7. CASE ShopStep(o)
  <2>1. trading' # trading BY <1>1
  <2>2. Enters(o) \/ Leaves(o)
    BY <1>7, <2>1 DEF ShopStep, ShopMessage, Chooses, AddsOwn, Offers, Learns
  <2>3. CASE Enters(o)
    <3>1. trading[o] = "none" /\ TradesWith(o, "shop") BY <2>3 DEF Enters, Starts
    <3> QED BY <1>1, <1>4, <3>1
  <2>4. CASE Leaves(o)
    <3>1. TradesWith(o, "none") BY <2>4 DEF Leaves
    <3> QED BY <1>4, <2>4, <3>1
  <2> QED BY <2>2, <2>3, <2>4
<1> QED BY <1>3, <1>5, <1>6, <1>7

\* A trade with a player shop loses and doubles nothing, whether something is bought
\* or not (CommitShopTrade, InventoryView.cpp:1506), as long as the shops belong to
\* the buyer or to nobody known: F2 shows what happens when they do not.
THEOREM SalesConserve ==
    ASSUME ShoppingStart
    PROVE  TradesSpec /\ []OwnShops => SaleConserves
<1> DEFINE Sale == \A c \in Toons, k \in Kinds : EndsTrade(c, "shop") =>
                      Count(items', k) = Count(items \ IncomingRows(c), k)
<1>1. ASSUME Keys, Shopping, OwnShops, [TradesNext]_tradeVars PROVE [Sale]_tradeVars
  <2> SUFFICES ASSUME NEW c \in Toons, NEW k \in Kinds, EndsTrade(c, "shop")
               PROVE  Count(items', k) = Count(items \ IncomingRows(c), k)
    OBVIOUS
  <2>1. Leaves(c) BY <1>1, ShopTradeEnds
  <2> QED BY <1>1, <2>1, SaleCounts, DeclineCounts DEF Leaves
<1> QED BY <1>1, AlwaysShopping, PTL DEF TradesSpec, SaleConserves

\* With one character there is no other owner,
LEMMA ShopsOfOne ==
    ASSUME \A c, o \in Toons : c = o
    PROVE  TradesSpec => []OwnShops
<1> DEFINE Known == named \subseteq Toons
<1>1. TradesInit => Known BY DEF TradesInit, ShopsInit
<1>2. ASSUME Known, [TradesNext]_tradeVars PROVE Known'
  <2>1. named' = named \/ \E c \in Toons : named' = named \cup {c}
    <3>1. CASE UNCHANGED tradeVars BY <3>1 DEF tradeVars, shops
    <3>2. ASSUME NEW c \in Toons, NpcStep(c) \/ PlayerStep(c) PROVE named' = named
      BY <3>2 DEF NpcStep, PlayerStep, shops
    <3>3. ASSUME NEW c \in Toons, ShopStep(c) PROVE named' = named \/ named' = named \cup {c}
      <4>1. CASE Learns(c)
        BY <4>1 DEF Learns, MobSync, SetToonName, ShopInfo, ShopItems, shops
      <4>2. CASE Enters(c) \/ Chooses(c) \/ AddsOwn(c) \/ Leaves(c)
        BY <4>2 DEF Enters, Chooses, AddsOwn, Leaves, AddShopItem, RemoveShopItem,
                    CommitShopTrade, shops
      <4> QED BY <3>3, <4>1, <4>2 DEF ShopStep, ShopMessage
    <3> QED BY <1>2, <3>1, <3>2, <3>3 DEF TradesNext
  <2> QED BY <1>2, <2>1
<1>3. ASSUME Known PROVE OwnShops BY <1>3 DEF OwnShops, ShopFor
<1> QED BY <1>1, <1>2, <1>3, PTL DEF TradesSpec

\* so that both hold in any session.
THEOREM LoneShopper ==
    ASSUME ShoppingStart, \A c, o \in Toons : c = o
    PROVE  TradesSpec => []SlotsUnique /\ SaleConserves
BY ShopsOfOne, ShopsTidy, SalesConserve, PTL
=============================================================================
