--------------------------- MODULE ItemMoves_proofs ---------------------------
(***************************************************************************)
(* What TLAPS proves of ItemMoves, for any characters, kinds, slot numbers  *)
(* and tables of any size: the types, that what is shown survives a crash,  *)
(* that a message stays with its character, that a table with one item to a *)
(* slot keeps one item to a slot, and that rearranging stacks loses none.   *)
(***************************************************************************)
EXTENDS ItemMoves, SlotSearch, ItemTable_proofs

\* The types, with finite tables; inductive.
Typed ==
    /\ Table(items)
    /\ Table(disk)
    /\ txn \in BOOLEAN
    /\ depth \in Nat
    /\ CachesOK

\* What a message of character c may do to the session.
Handled(c) ==
    \/ \E db : Sound(c, items, db) /\ (Commit(db) \/ Execute(db))
    \/ Abandon
    \/ UNCHANGED session

-----------------------------------------------------------------------------
(* Container ids.                                                          *)

\* The container a message names has a number.
LEMMA ContainerIds ==
    ASSUME Typed, NEW c \in Toons, NEW type, NEW t \in TempIds
    PROVE  GetFromContainerId(c, type, t) \in Nat
BY DEF Typed, CachesOK, GetFromContainerId, GetContainerId,
       INV_BANK, INV_TRADE, INV_OVERFLOW, INV_TOONINV

\* A move goes to a container of the character or nowhere.
LEMMA ParentIds ==
    ASSUME NEW from, NEW to \in ToTypes, NEW b \in Bags
    PROVE  NewParent(from, to, b) \in Nat \ {INV_HOTSWAPTEMP}
<1>1. b \in Nat \ {7} BY BagAssumption
<1>2. CASE from = INV_OVERFLOW
  BY <1>2 DEF NewParent, INV_TOONINV, INV_HOTSWAPTEMP, INV_OVERFLOW
<1>3. CASE from # INV_OVERFLOW
  BY <1>1, <1>3 DEF NewParent, ToTypes, INV_TOONINV, INV_HOTSWAPTEMP, INV_OVERFLOW, INV_BANK
<1> QED BY <1>2, <1>3

-----------------------------------------------------------------------------
(* Statements several handlers send.                                       *)

\* A stack that is found has a count.
LEMMA StackAtType ==
    ASSUME NEW db, Table(db), NEW c, NEW p, NEW s, NEW n \in StackAt(db, c, p, s)
    PROVE  n \in Stacks
BY DEF StackAt, RowsAt, Table, Row, Stacks

\* Joining two stacks.
LEMMA JoinFacts ==
    ASSUME NEW db, Table(db), NEW c \in Toons, NEW p, NEW s, NEW q, NEW t, NEW n \in Stacks
    PROVE  Sound(c, db, JoinInto(db, c, p, s, q, t, n))
<1> DEFINE joined == AddToStack(db, RowsAt(db, c, p, s), n)
<1>1. RowsAt(db, c, p, s) \subseteq Owned(db, c) BY DEF RowsAt, Owned
<1>2. Sound(c, db, joined) BY <1>1, StackFacts
<1> HIDE DEF joined
<1>3. RowsAt(joined, c, q, t) \subseteq Owned(joined, c) BY DEF RowsAt, Owned
<1>4. Sound(c, joined, joined \ RowsAt(joined, c, q, t)) BY <1>2, <1>3, DeleteFacts DEF Sound
<1>5. Sound(c, db, joined \ RowsAt(joined, c, q, t)) BY <1>2, <1>4, SoundTwice
<1> QED BY <1>5 DEF JoinInto, joined

\* An item that appears in the overflow window.
LEMMA OverflowFacts ==
    ASSUME Typed, NEW c \in Toons, NEW k \in Kinds, NEW n \in Stacks, NEW s \in Slots,
           Vacant(c, INV_OVERFLOW, s),
           RoomFor(items, {Item(k, n, INV_OVERFLOW,
                      IF s >= AnySlot
                      THEN FindNextAvailableContainerSlot(items, c, INV_OVERFLOW)
                      ELSE s, 0, c)})
    PROVE  Sound(c, items, InsertItems(items,
                {Item(k, n, INV_OVERFLOW,
                      IF s >= AnySlot
                      THEN FindNextAvailableContainerSlot(items, c, INV_OVERFLOW)
                      ELSE s, 0, c)}))
<1> DEFINE slot == IF s >= AnySlot
                   THEN FindNextAvailableContainerSlot(items, c, INV_OVERFLOW)
                   ELSE s
<1>1. Table(items) BY DEF Typed
<1>2. slot \in Nat BY <1>1, FreeSlotFound, StartAssumption
<1>3. ~ Named(INV_OVERFLOW, slot) \/ RowsAt(items, c, INV_OVERFLOW, slot) = {}
  BY <1>1, FreeSlotFound DEF Vacant
<1>4. RoomFor(items, {Item(k, n, INV_OVERFLOW, slot, 0, c)}) OBVIOUS
<1> HIDE DEF slot
<1>5. INV_OVERFLOW \in Nat \ {INV_HOTSWAPTEMP} /\ 0 \in Nat
  BY DEF INV_OVERFLOW, INV_HOTSWAPTEMP
<1>6. Sound(c, items, InsertItems(items, {Item(k, n, INV_OVERFLOW, slot, 0, c)}))
  BY <1>1, <1>2, <1>3, <1>4, <1>5, InsertFacts
<1> QED BY <1>6 DEF slot

-----------------------------------------------------------------------------
(* MSG_ITEM_MOVE.                                                          *)

\* A hot swap ends with nothing in transit and one item to a slot, also when
\* the item is swapped with itself.
LEMMA HotswapFacts ==
    ASSUME NEW db, Table(db), NEW c \in Toons, NEW from \in Nat, NEW s \in Nat,
           NEW n \in Nat \ {0}, Named(from, s)
    PROVE  Sound(c, db, Hotswap(db, c, from, s, n))
<1> DEFINE R1  == RowsAt(db, c, INV_TOONINV, n)
           out == Move(db, R1, INV_HOTSWAPTEMP, s)
           R2  == RowsAt(out, c, from, s)
           put == Move(out, R2, INV_TOONINV, n)
           R3  == RowsAt(put, c, INV_HOTSWAPTEMP, s)
           fin == Move(put, R3, from, s)
<1>1. Hotswap(db, c, from, s, n) = fin BY DEF Hotswap
<1>2. INV_TOONINV \in Nat /\ INV_HOTSWAPTEMP \in Nat /\ INV_TOONINV # INV_HOTSWAPTEMP
  BY DEF INV_TOONINV, INV_HOTSWAPTEMP
<1>3. Relocated(c, db, INV_TOONINV, n, INV_HOTSWAPTEMP, s, out) BY <1>2, MoveFacts
<1>4. Relocated(c, out, from, s, INV_TOONINV, n, put)
  <2>1. Table(out) BY <1>3 DEF Relocated
  <2> HIDE DEF out
  <2> QED BY <1>2, <2>1, MoveFacts
<1>5. Relocated(c, put, INV_HOTSWAPTEMP, s, from, s, fin)
  <2>1. Table(put) BY <1>4 DEF Relocated
  <2> HIDE DEF put
  <2> QED BY <2>1, MoveFacts
<1> HIDE DEF out, put, fin
<1>6. Named(INV_TOONINV, n) /\ Named(INV_HOTSWAPTEMP, s) BY <1>2 DEF Named
<1>7. ASSUME Tidy(db) PROVE Tidy(fin)
  <2>1. \A r \in db : r.parent # INV_HOTSWAPTEMP BY <1>7 DEF Tidy, NoneInTransit
  <2>2. OneToASlot(out)
    <3>1. RowsAt(db, c, INV_HOTSWAPTEMP, s) = {} BY <2>1 DEF RowsAt
    <3> QED BY <3>1, <1>3, <1>6, <1>7 DEF Tidy, Relocated
  <2>3. RowsAt(out, c, INV_TOONINV, n) = {} BY <1>2, <1>3 DEF RowsAt, Relocated
  <2>4. OneToASlot(put) BY <2>2, <2>3, <1>4, <1>6 DEF Relocated
  <2>5. RowsAt(put, c, from, s) \subseteq R3
    <3>1. CASE from = INV_HOTSWAPTEMP BY <3>1
    <3>2. CASE from = INV_TOONINV /\ s = n
      <4>1. R2 = {} BY <3>2, <2>3
      <4>2. RowsAt(put, c, from, s) = {} BY <4>1, <3>2, <2>3, <1>4 DEF RowsAt, Relocated
      <4> QED BY <4>2
    <3>3. CASE from # INV_HOTSWAPTEMP /\ ~ (from = INV_TOONINV /\ s = n)
      <4>1. RowsAt(put, c, from, s) = {} BY <3>3, <1>4 DEF RowsAt, Relocated
      <4> QED BY <4>1
    <3> QED BY <3>1, <3>2, <3>3
  <2>6. OneToASlot(fin) BY <2>4, <2>5, <1>5, <1>6 DEF Relocated
  <2>7. \A r \in put : r.parent = INV_HOTSWAPTEMP => r \in R3
    <3> SUFFICES ASSUME NEW r \in put, r.parent = INV_HOTSWAPTEMP PROVE r \in R3
      OBVIOUS
    <3>1. r \in out BY <1>2, <1>4 DEF Relocated
    <3>2. r.owner = c /\ r.slot = s BY <3>1, <1>3, <2>1 DEF Relocated
    <3> QED BY <3>2 DEF RowsAt
  <2>8. from = INV_HOTSWAPTEMP => R3 = {} BY <1>2, <1>4 DEF RowsAt, Relocated
  <2>9. NoneInTransit(fin) BY <2>7, <2>8, <1>5 DEF NoneInTransit, Relocated
  <2> QED BY <2>6, <2>9 DEF Tidy
<1>8. OthersKeep(c, db, fin) BY <1>3, <1>4, <1>5 DEF OthersKeep, Relocated
<1> QED BY <1>1, <1>5, <1>7, <1>8 DEF Sound, Relocated

\* A move changes the rows at its source, or those of a swap, and commits.
LEMMA MoveHandled ==
    ASSUME Typed, NEW c \in Toons, MoveMessage(c)
    PROVE  Handled(c) /\ UNCHANGED caches
<1> PICK type \in Types, t \in TempIds, s \in Slots, to \in Targets, b \in Bags, n \in Slots :
        /\ Named(GetFromContainerId(c, type, t), s)
        /\ FreeFor(c, NewParent(GetFromContainerId(c, type, t), to, b), n)
        /\ ItemMove(c, type, t, s, to, b, n)
  BY DEF MoveMessage, Moves
<1> DEFINE from == GetFromContainerId(c, type, t)
           p    == NewParent(from, to, b)
<1>1. from \in Nat BY ContainerIds
<1>2. p \in Nat \ {INV_HOTSWAPTEMP}
  <2>1. to \in ToTypes BY MoveAssumption
  <2> QED BY <2>1, ParentIds
<1>3. s \in Nat /\ n \in Nat BY StartAssumption
<1>4. Table(items) BY DEF Typed
<1>5. Named(from, s) /\ FreeFor(c, p, n) OBVIOUS
<1>6. /\ \/ p = INV_TOONINV /\ EquipMove(c, from, s, n)
         \/ p = INV_TOONINV /\ MergeMove(c, from, s, n)
         \/ PlainMove(c, from, s, p, n)
      /\ UNCHANGED caches
  BY DEF ItemMove
<1> HIDE DEF from, p
<1>7. CASE p = INV_TOONINV /\ EquipMove(c, from, s, n)
  <2>1. n # 0 BY <1>5, <1>7, <1>3 DEF FreeFor, Named
  <2>2. Sound(c, items, Hotswap(items, c, from, s, n))
    BY <1>1, <1>3, <1>4, <1>5, <2>1, HotswapFacts
  <2>3. Commit(Hotswap(items, c, from, s, n)) BY <1>7 DEF EquipMove
  <2> QED BY <1>6, <2>2, <2>3 DEF Handled
<1>8. CASE MergeMove(c, from, s, n)
  <2> DEFINE first == FindFirstItemOfSameType(items, c, from, s, INV_TOONINV)
  <2>1. PICK m \in StackAt(items, c, from, s) :
            Commit(JoinInto(items, c, INV_TOONINV, first, from, s, m))
    BY <1>8 DEF MergeMove
  <2>2. m \in Stacks BY <1>4, StackAtType
  <2>3. Sound(c, items, JoinInto(items, c, INV_TOONINV, first, from, s, m))
    BY <1>4, <2>2, JoinFacts
  <2> QED BY <1>6, <2>1, <2>3 DEF Handled
<1>9. CASE PlainMove(c, from, s, p, n)
  <2> DEFINE slot == IF n >= AnySlot \/ n = 0
                     THEN FindNextAvailableContainerSlot(items, c, p)
                     ELSE n
  <2>1. slot \in Nat BY <1>3, <1>4, FreeSlotFound
  <2>2. ~ Named(p, slot) \/ RowsAt(items, c, p, slot) = {}
    <3>1. CASE n >= AnySlot \/ n = 0 BY <3>1, <1>4, FreeSlotFound
    <3>2. CASE ~ (n >= AnySlot \/ n = 0)
      BY <3>2, <1>3, <1>5, <1>9, SlotAssumption DEF PlainMove, NoMerge, FreeFor, Vacant
    <3> QED BY <3>1, <3>2
  <2>3. Commit(Move(items, RowsAt(items, c, from, s), p, slot)) BY <1>9 DEF PlainMove
  <2> HIDE DEF slot
  <2>4. Relocated(c, items, from, s, p, slot, Move(items, RowsAt(items, c, from, s), p, slot))
    BY <1>2, <1>4, <2>1, MoveFacts
  <2>5. Sound(c, items, Move(items, RowsAt(items, c, from, s), p, slot))
    BY <1>2, <1>5, <2>2, <2>4 DEF Relocated, Sound, Tidy, NoneInTransit
  <2> QED BY <1>6, <2>3, <2>5 DEF Handled
<1> QED BY <1>6, <1>7, <1>8, <1>9

-----------------------------------------------------------------------------
(* MSG_CHAR_OPERATION.                                                     *)

\* A split takes from one stack and makes another.
LEMMA SplitHandled ==
    ASSUME Typed, NEW c \in Toons, SplitMessage(c)
    PROVE  Handled(c) /\ UNCHANGED caches
<1> PICK type \in Types, t \in TempIds, s \in Slots, n \in 1..MaxStack :
        /\ Named(GetFromContainerId(c, type, t), s)
        /\ SplitStack(c, type, t, s, n)
  BY DEF SplitMessage, Splits
<1> DEFINE from  == GetFromContainerId(c, type, t)
           slot  == FindNextAvailableContainerSlot(items, c, from)
           new   == {[r EXCEPT !.stack = n, !.slot = slot] : r \in RowsAt(items, c, from, s)}
           split == items \cup Copies(items, new)
           less  == TakeFromStack(split, RowsAt(split, c, from, s), n)
<1>1. UNCHANGED caches /\ (Abandon \/ (RoomFor(items, new) /\ Commit(less)))
  BY DEF SplitStack
<1>2. n \in Int /\ n \in Stacks BY MoveAssumption DEF Stacks
<1>3. Table(items) BY DEF Typed
<1>4. slot \in Nat /\ (~ Named(from, slot) \/ RowsAt(items, c, from, slot) = {})
  BY <1>3, FreeSlotFound
<1>5. Named(from, s) OBVIOUS
<1>6. ASSUME RoomFor(items, new) PROVE Sound(c, items, less)
  <2>1. Sound(c, items, split)
    <3>1. new = SplitOff(items, c, from, s, n, slot) BY DEF SplitOff
    <3> HIDE DEF from, slot, new
    <3> QED BY <3>1, <1>2, <1>3, <1>4, <1>5, <1>6, CopyFacts
  <2>2. Table(split) BY <2>1 DEF Sound
  <2> HIDE DEF split
  <2>3. RowsAt(split, c, from, s) \subseteq Owned(split, c) BY DEF RowsAt, Owned
  <2>4. Sound(c, split, less) BY <1>2, <2>2, <2>3, StackFacts
  <2> QED BY <2>1, <2>4, SoundTwice
<1> HIDE DEF less, new
<1> QED BY <1>1, <1>6 DEF Handled

\* A deletion removes the rows it names.
LEMMA DeleteHandled ==
    ASSUME Typed, NEW c \in Toons, DeleteMessage(c)
    PROVE  Handled(c) /\ UNCHANGED caches
<1> PICK type \in Types, t \in TempIds, s \in Slots :
        \/ \E k \in Kinds : ClientDeleteItem(c, type, t, s, k)
        \/ ServerDeleteItem(c, type, t, s)
  BY DEF DeleteMessage
<1> DEFINE from == GetFromContainerId(c, type, t)
<1>1. Table(items) BY DEF Typed
<1>2. CASE \E k \in Kinds : ClientDeleteItem(c, type, t, s, k)
  <2>1. PICK k \in Kinds : ClientDeleteItem(c, type, t, s, k) BY <1>2
  <2> DEFINE R == {r \in RowsAt(items, c, from, s) : r.kind = k}
  <2>2. R \subseteq Owned(items, c) BY DEF RowsAt, Owned
  <2>3. UNCHANGED caches /\ (Abandon \/ Commit(items \ R)) BY <2>1 DEF ClientDeleteItem
  <2> HIDE DEF R
  <2>4. Sound(c, items, items \ R) BY <1>1, <2>2, DeleteFacts
  <2> QED BY <2>3, <2>4 DEF Handled
<1>3. CASE ServerDeleteItem(c, type, t, s)
  <2> DEFINE R == RowsAt(items, c, from, s)
  <2>1. R \subseteq Owned(items, c) BY DEF RowsAt, Owned
  <2>2. UNCHANGED caches /\ (Abandon \/ Commit(items \ R)) BY <1>3 DEF ServerDeleteItem
  <2> HIDE DEF R
  <2>3. Sound(c, items, items \ R) BY <1>1, <2>1, DeleteFacts
  <2> QED BY <2>2, <2>3 DEF Handled
<1> QED BY <1>2, <1>3

\* So does the deletion of what was named by a temporary id.
LEMMA DeleteTempHandled ==
    ASSUME Typed, NEW c \in Toons, DeleteTempMessage(c)
    PROVE  Handled(c) /\ UNCHANGED caches
<1> PICK t \in TempItemIds : DeleteTempItem(c, t) BY DEF DeleteTempMessage
<1> DEFINE R == RowsAt(items, c, INV_TOONINV, GetItemSlotId(c, t))
<1>1. UNCHANGED caches /\ Execute(items \ R) BY DEF DeleteTempItem
<1>2. R \subseteq Owned(items, c) BY DEF RowsAt, Owned
<1> HIDE DEF R
<1>3. Sound(c, items, items \ R) BY <1>2, DeleteFacts DEF Typed
<1> QED BY <1>1, <1>3 DEF Handled

\* A merge makes one stack of two.
LEMMA JoinHandled ==
    ASSUME Typed, NEW c \in Toons, JoinMessage(c)
    PROVE  Handled(c) /\ UNCHANGED caches
<1> PICK type \in Types, t \in TempIds, s \in Slots,
         type2 \in Types, t2 \in TempIds, s2 \in Slots :
            JoinStacks(c, type, t, s, type2, t2, s2)
  BY DEF JoinMessage, Joins
<1> DEFINE q == GetFromContainerId(c, type2, t2)
           p == GetFromContainerId(c, type, t)
<1>1. UNCHANGED caches BY DEF JoinStacks
<1>2. PICK n \in StackAt(items, c, q, s2) : Commit(JoinInto(items, c, p, s, q, s2, n))
  BY DEF JoinStacks
<1>3. n \in Stacks BY StackAtType DEF Typed
<1> HIDE DEF p, q
<1>4. Sound(c, items, JoinInto(items, c, p, s, q, s2, n)) BY <1>3, JoinFacts DEF Typed
<1> QED BY <1>1, <1>2, <1>4 DEF Handled

-----------------------------------------------------------------------------
(* MSG_PARTNER_TRADE and MSG_SPAWN_REWARD.                                 *)

\* What a tradeskill makes appears at a vacant slot.
LEMMA TradeskillHandled ==
    ASSUME Typed, NEW c \in Toons, TradeskillMessage(c)
    PROVE  Handled(c) /\ UNCHANGED caches
<1> PICK k \in Kinds, n \in 1..MaxStack, s \in Slots :
        Vacant(c, INV_OVERFLOW, s) /\ TradeskillResult(c, k, n, s)
  BY DEF TradeskillMessage
<1> DEFINE slot == IF s >= AnySlot
                   THEN FindNextAvailableContainerSlot(items, c, INV_OVERFLOW)
                   ELSE s
           new  == Item(k, n, INV_OVERFLOW, slot, 0, c)
<1>1. /\ UNCHANGED caches
      /\ RoomFor(items, {new})
      /\ Commit(InsertItems(items, {new}))
  BY DEF TradeskillResult
<1>2. n \in Stacks BY MoveAssumption DEF Stacks
<1>3. Sound(c, items, InsertItems(items, {new})) BY <1>1, <1>2, OverflowFacts
<1> HIDE DEF new
<1> QED BY <1>1, <1>3 DEF Handled

\* Use takes one from the stack of what can be used up, and deletes an empty stack.
LEMMA UseHandled ==
    ASSUME Typed, NEW c \in Toons, UseMessage(c)
    PROVE  Handled(c) /\ UNCHANGED caches
<1> PICK type \in Types, t \in TempIds, s \in Slots, k \in Kinds : UseItem(c, type, t, s, k)
  BY DEF UseMessage
<1> DEFINE from == GetFromContainerId(c, type, t)
           used(db) == {r \in RowsAt(db, c, from, s) : r.kind = k /\ k \in Depletable}
           less == TakeFromStack(items, used(items), 1)
           last == {r \in used(less) : r.stack = 0}
<1>1. UNCHANGED caches /\ Commit(less \ last) BY DEF UseItem
<1>2. Sound(c, items, less)
  <2> DEFINE R == used(items)
  <2>1. R \subseteq Owned(items, c) BY DEF RowsAt, Owned
  <2>2. 1 \in Stacks /\ 1 \in Int BY DEF Stacks
  <2> HIDE DEF R
  <2>3. Sound(c, items, TakeFromStack(items, R, 1)) BY <2>1, <2>2, StackFacts DEF Typed
  <2> QED BY <2>3 DEF R
<1>3. last \subseteq Owned(less, c) BY DEF RowsAt, Owned
<1> HIDE DEF less, last
<1>4. Sound(c, less, less \ last) BY <1>2, <1>3, DeleteFacts DEF Sound
<1>5. Sound(c, items, less \ last) BY <1>2, <1>4, SoundTwice
<1> QED BY <1>1, <1>5 DEF Handled

\* A reward gets a temporary id, and appears at a vacant slot.
LEMMA RewardHandled ==
    ASSUME Typed, NEW c \in Toons, RewardMessage(c)
    PROVE  Handled(c) /\ CachesOK'
<1> PICK t \in TempItemIds, s \in Slots :
        \/ NameTempItem(c, t, s)
        \/ \E k \in Kinds : Vacant(c, INV_OVERFLOW, s) /\ SpawnReward(c, t, k, s)
  BY DEF RewardMessage
<1>1. s \in Nat BY StartAssumption
<1>2. CASE NameTempItem(c, t, s)
  BY <1>1, <1>2 DEF NameTempItem, UpdateTempItemId, Handled, Typed, CachesOK
<1>3. CASE \E k \in Kinds : Vacant(c, INV_OVERFLOW, s) /\ SpawnReward(c, t, k, s)
  <2> PICK k \in Kinds : Vacant(c, INV_OVERFLOW, s) /\ SpawnReward(c, t, k, s) BY <1>3
  <2> DEFINE slot == IF s >= AnySlot
                     THEN FindNextAvailableContainerSlot(items, c, INV_OVERFLOW)
                     ELSE s
             new  == Item(k, 1, INV_OVERFLOW, slot, 0, c)
             db   == InsertItems(items, {new})
             then == IF s >= AnySlot
                     THEN FindNextAvailableContainerSlot(db, c, INV_TOONINV)
                     ELSE s
  <2>1. /\ RoomFor(items, {new})
        /\ Commit(db)
        /\ UpdateTempItemId(c, t, then)
        /\ UNCHANGED containerIdCache
    BY DEF SpawnReward
  <2>2. 1 \in Stacks BY DEF Stacks
  <2>3. Sound(c, items, db) BY <2>1, <2>2, OverflowFacts
  <2>4. then \in Nat
    <3>1. Table(db) BY <2>3 DEF Sound
    <3> HIDE DEF db
    <3> QED BY <1>1, <3>1, FreeSlotFound
  <2> HIDE DEF db, then
  <2>5. CachesOK' BY <2>1, <2>4 DEF UpdateTempItemId, Typed, CachesOK
  <2> QED BY <2>1, <2>3, <2>5 DEF Handled
<1> QED BY <1>2, <1>3

-----------------------------------------------------------------------------
(* The specification.                                                      *)

\* Every message is handled.
LEMMA MessageHandled ==
    ASSUME Typed, NEW c \in Toons, Message(c)
    PROVE  Handled(c) /\ CachesOK'
<1>1. UNCHANGED caches => CachesOK' BY DEF Typed, CachesOK, caches
<1> QED BY <1>1, MoveHandled, SplitHandled, DeleteHandled, DeleteTempHandled, JoinHandled,
           TradeskillHandled, UseHandled, RewardHandled DEF Message

\* A session starts with a table of the right type.
LEMMA TypedInit == Init => Typed
<1> SUFFICES ASSUME Init PROVE Typed OBVIOUS
<1>1. PICK db \in Loadouts : SessionInit(db) BY DEF Init, Start
<1>2. Table(db) BY StartAssumption DEF Table
<1>3. Table(items) /\ Table(disk) /\ txn \in BOOLEAN /\ depth \in Nat
  BY <1>1, <1>2 DEF SessionInit
<1>4. CachesOK
  <2>1. \A t \in TempItemIds : 0 \in Nat OBVIOUS
  <2>2. itemSlotCache \in [Toons -> [TempItemIds -> Nat]] BY <2>1 DEF Init, Start
  <2>3. containerIdCache \in [Toons -> [TempIds -> Nat]] BY StartAssumption DEF Init, Start
  <2> QED BY <2>2, <2>3 DEF CachesOK
<1> QED BY <1>3, <1>4 DEF Typed

\* Every step keeps the types.
LEMMA TypedNext == Typed /\ [Next]_vars => Typed'
<1> SUFFICES ASSUME Typed, [Next]_vars PROVE Typed' OBVIOUS
<1>1. CASE UNCHANGED vars BY <1>1 DEF Typed, CachesOK, vars, session, caches
<1>2. CASE Next
  <2>1. PICK c \in Toons : Message(c) BY <1>2 DEF Next
  <2>2. Handled(c) /\ CachesOK' BY <2>1, MessageHandled
  <2>3. CASE \E db : Sound(c, items, db) /\ (Commit(db) \/ Execute(db))
    <3>1. PICK db : Sound(c, items, db) /\ (Commit(db) \/ Execute(db)) BY <2>3
    <3>2. Table(db) BY <3>1 DEF Sound
    <3>3. items' = db /\ (disk' = db \/ disk' = disk) /\ txn' \in {FALSE, txn} /\ depth' = depth
      BY <3>1 DEF Commit, Execute
    <3> QED BY <2>2, <3>2, <3>3 DEF Typed
  <2>4. CASE Abandon BY <2>2, <2>4 DEF Abandon, Typed
  <2>5. CASE UNCHANGED session BY <2>2, <2>5 DEF session, Typed
  <2> QED BY <2>2, <2>3, <2>4, <2>5 DEF Handled
<1> QED BY <1>1, <1>2

\* The types hold always.
LEMMA AlwaysTyped == Spec => []Typed
BY TypedInit, TypedNext, PTL DEF Spec

\* Every variable has its type, whatever the messages.
THEOREM TypeCorrect == Spec => []TypeOK
<1>1. Typed => TypeOK BY DEF Typed, TypeOK, TableOK, Table
<1> QED BY <1>1, AlwaysTyped, PTL

\* A message makes what it shows durable, or deletes a quest item, or changes
\* neither the table nor the disk.
LEMMA CommitsOrDeletes ==
    ASSUME NEW c \in Toons, Message(c)
    PROVE  disk' = items' \/ DeleteTempMessage(c) \/ UNCHANGED <<items, disk>>
<1>1. MoveMessage(c) => disk' = items'
  BY DEF MoveMessage, Moves, ItemMove, EquipMove, MergeMove, PlainMove, Commit
<1>2. SplitMessage(c) => disk' = items' \/ UNCHANGED <<items, disk>>
  <2> SUFFICES ASSUME SplitMessage(c)
               PROVE  disk' = items' \/ UNCHANGED <<items, disk>>
    OBVIOUS
  <2>1. PICK type, t, s, n : SplitStack(c, type, t, s, n) BY DEF SplitMessage, Splits
  <2>2. Abandon \/ \E db : Commit(db) BY <2>1 DEF SplitStack
  <2> QED BY <2>2 DEF Commit, Abandon
<1>3. DeleteMessage(c) => disk' = items' \/ UNCHANGED <<items, disk>>
  BY DEF DeleteMessage, ClientDeleteItem, ServerDeleteItem, Commit, Abandon
<1>4. JoinMessage(c) => disk' = items' BY DEF JoinMessage, Joins, JoinStacks, Commit
<1>5. TradeskillMessage(c) => disk' = items'
  BY DEF TradeskillMessage, TradeskillResult, Commit
<1>6. UseMessage(c) => disk' = items' BY DEF UseMessage, UseItem, Commit
<1>7. RewardMessage(c) => disk' = items' \/ UNCHANGED <<items, disk>>
  BY DEF RewardMessage, SpawnReward, NameTempItem, session, Commit
<1> QED BY <1>1, <1>2, <1>3, <1>4, <1>5, <1>6, <1>7 DEF Message

\* What the window shows survives a crash, whatever transactions were left open: only
\* a deletion in the inventory may be undone.
THEOREM CrashKeepsShown == Spec => []ShownSurvives
<1>1. Init => ShownSurvives BY DEF Init, Start, SessionInit, ShownSurvives
<1>2. ShownSurvives /\ [Next]_vars => ShownSurvives'
  <2> SUFFICES ASSUME ShownSurvives, [Next]_vars PROVE ShownSurvives' OBVIOUS
  <2>1. CASE UNCHANGED <<items, disk>> BY <2>1 DEF ShownSurvives
  <2>2. CASE Next
    <3>1. PICK c \in Toons : Message(c) BY <2>2 DEF Next
    <3>2. CASE disk' = items' BY <3>2 DEF ShownSurvives
    <3>3. CASE DeleteTempMessage(c)
      <4>1. PICK t \in TempItemIds : DeleteTempItem(c, t) BY <3>3 DEF DeleteTempMessage
      <4> DEFINE R == RowsAt(items, c, INV_TOONINV, GetItemSlotId(c, t))
      <4>2. items' = items \ R /\ disk' = (IF txn THEN disk ELSE items \ R)
        BY <4>1 DEF DeleteTempItem, Execute
      <4>3. \A r \in R : r.parent = INV_TOONINV BY DEF RowsAt
      <4> HIDE DEF R
      <4> QED BY <4>2, <4>3 DEF ShownSurvives
    <3> QED BY <2>1, <3>1, <3>2, <3>3, CommitsOrDeletes
  <2> QED BY <2>1, <2>2 DEF vars, session
<1> QED BY <1>1, <1>2, PTL DEF Spec

\* A message changes the rows of one character at most.
THEOREM StaysWithToon == Spec => MovesStayWithToon
<1>1. Typed /\ [Next]_vars =>
        [\A c, o \in Toons : \/ c = o
                             \/ Owned(items', c) = Owned(items, c)
                             \/ Owned(items', o) = Owned(items, o)]_vars
  <2> SUFFICES ASSUME Typed, Next, NEW c \in Toons, NEW o \in Toons, c # o
               PROVE  \/ Owned(items', c) = Owned(items, c)
                      \/ Owned(items', o) = Owned(items, o)
    OBVIOUS
  <2>1. PICK d \in Toons : Message(d) BY DEF Next
  <2>2. Handled(d) BY <2>1, MessageHandled
  <2>3. CASE \E db : Sound(d, items, db) /\ (Commit(db) \/ Execute(db))
    <3>1. PICK db : Sound(d, items, db) /\ items' = db BY <2>3 DEF Commit, Execute
    <3>2. \A e \in Toons \ {d} : Owned(items', e) = Owned(items, e)
      BY <3>1 DEF Sound, OthersKeep
    <3> QED BY <3>2
  <2>4. CASE Abandon BY <2>4 DEF Abandon
  <2>5. CASE UNCHANGED session BY <2>5 DEF session
  <2> QED BY <2>2, <2>3, <2>4, <2>5 DEF Handled
<1> QED BY <1>1, AlwaysTyped, PTL DEF Spec, MovesStayWithToon

\* Started on tidy tables, the table is tidy ever after.
LEMMA AlwaysTidy ==
    ASSUME \A db \in Loadouts : Tidy(db)
    PROVE  Spec => []Tidy(items)
<1>1. Init => Tidy(items) BY DEF Init, Start, SessionInit
<1>2. Typed /\ Tidy(items) /\ [Next]_vars => Tidy(items)'
  <2> SUFFICES ASSUME Typed, Tidy(items), [Next]_vars PROVE Tidy(items') OBVIOUS
  <2>1. CASE items' = items BY <2>1
  <2>2. CASE Next
    <3>1. PICK c \in Toons : Message(c) BY <2>2 DEF Next
    <3>2. Handled(c) BY <3>1, MessageHandled
    <3>3. CASE \E db : Sound(c, items, db) /\ (Commit(db) \/ Execute(db))
      BY <3>3 DEF Commit, Execute, Sound
    <3>4. CASE Abandon BY <3>4 DEF Abandon
    <3>5. CASE UNCHANGED session BY <3>5 DEF session
    <3> QED BY <3>2, <3>3, <3>4, <3>5 DEF Handled
  <2> QED BY <2>1, <2>2 DEF vars, session
<1> QED BY <1>1, <1>2, AlwaysTyped, PTL DEF Spec

\* No two items of a character ever share a named slot, if none did at the start.
THEOREM OneItemToASlot ==
    ASSUME \A db \in Loadouts : Tidy(db)
    PROVE  Spec => []SlotsUnique
<1>1. Tidy(items) => SlotsUnique BY DEF Tidy, OneToASlot, SlotsUnique
<1> QED BY <1>1, AlwaysTidy, PTL

\* No item is ever left in the container hot swaps go through, if none was there
\* at the start.
THEOREM SwapsComplete ==
    ASSUME \A db \in Loadouts : Tidy(db)
    PROVE  Spec => []NothingInHotswap
<1>1. Tidy(items) => NothingInHotswap BY DEF Tidy, NoneInTransit, NothingInHotswap
<1> QED BY <1>1, AlwaysTidy, PTL
-----------------------------------------------------------------------------
(* The slot search, row by row.                                            *)

\* More rows are seen by a counter that has gone further.
LEMMA LowGrows ==
    ASSUME NEW db, Table(db), NEW o, NEW p, NEW m \in Int, NEW n \in Int, m <= n
    PROVE  /\ Low(db, o, p, m) \subseteq Low(db, o, p, n)
           /\ Cardinality(Low(db, o, p, m)) <= Cardinality(Low(db, o, p, n))
<1>1. Low(db, o, p, m) \in SUBSET Low(db, o, p, n) BY UsedFacts DEF Low
<1> QED BY <1>1, UsedFacts, FS_Subset

\* There is a last row.
LEMMA LastRow ==
    ASSUME NEW db, Table(db), NEW o, NEW p
    PROVE  \E m \in Nat : Low(db, o, p, m) = Used(db, o, p)
<1> DEFINE N == Cardinality(Used(db, o, p))
           C(m) == Cardinality(Low(db, o, p, m))
           D == {N - C(m) : m \in Nat}
<1>1. N \in Nat /\ \A m \in Nat : C(m) \in Nat /\ C(m) <= N BY UsedFacts
<1> HIDE DEF N, C
<1>2. D \subseteq Nat /\ D # {} BY <1>1
<1>3. PICK d \in D : \A e \in D : d <= e
  <2> HIDE DEF D
  <2> QED BY <1>2, LeastNumber
<1>4. PICK m \in Nat : d = N - C(m) BY <1>3
<1>5. \A k \in Nat : C(k) <= C(m)
  <2> SUFFICES ASSUME NEW k \in Nat PROVE C(k) <= C(m) OBVIOUS
  <2>1. N - C(m) <= N - C(k) BY <1>3, <1>4
  <2> QED BY <1>1, <2>1
<1>6. ASSUME NEW r \in Used(db, o, p), r \notin Low(db, o, p, m) PROVE FALSE
  <2> DEFINE k == r.slot - FirstSlot(p)
  <2>1. k \in Nat /\ k > m /\ r \in Low(db, o, p, k) BY <1>6, UsedFacts DEF Low
  <2> HIDE DEF k
  <2>2. Low(db, o, p, m) \in SUBSET Low(db, o, p, k) /\ C(m) <= C(k)
    BY <2>1, LowGrows DEF C
  <2>3. C(m) = C(k) BY <1>1, <1>5, <2>1, <2>2
  <2>4. Low(db, o, p, m) = Low(db, o, p, k) BY <2>2, <2>3, UsedFacts, FS_Subset DEF C
  <2> QED BY <1>6, <2>1, <2>4
<1>7. Low(db, o, p, m) = Used(db, o, p) BY <1>6 DEF Low
<1> QED BY <1>7

\* The n-th row of the query is at a slot up to which the counter sees n rows, and
\* below which it sees fewer.
LEMMA QueryRow ==
    ASSUME NEW db, Table(db), NEW o, NEW p, NEW n \in 1..Cardinality(Used(db, o, p))
    PROVE  \E m \in Nat : /\ Query(db, o, p)[n] = FirstSlot(p) + m
                          /\ Cardinality(Low(db, o, p, m - 1)) < n
                          /\ Cardinality(Low(db, o, p, m)) >= n
<1> DEFINE F == FirstSlot(p)
           U == Used(db, o, p)
           N == Cardinality(U)
           C(m) == Cardinality(Low(db, o, p, m))
           M == {m \in Nat : C(m) >= n}
           Nth(s) == /\ Cardinality({r \in U : r.slot < s}) < n
                     /\ Cardinality({r \in U : r.slot <= s}) >= n
           x == CHOOSE s \in {r.slot : r \in U} : Nth(s)
<1>1. F \in Nat /\ N \in Nat /\ \A r \in U : r.slot \in Nat /\ r.slot >= F BY UsedFacts
<1>2. \A m \in Int : C(m) \in Nat BY UsedFacts
<1>3. n \in Nat /\ n >= 1 /\ n <= N BY <1>1
<1>4. \A m \in Nat : /\ {r \in U : r.slot <= F + m} = Low(db, o, p, m)
                     /\ {r \in U : r.slot < F + m} = Low(db, o, p, m - 1)
  BY <1>1 DEF Low
<1>5. Query(db, o, p)[n] = x BY DEF Query, Used
<1>6. \A m \in Nat : Nth(F + m) <=> C(m - 1) < n /\ C(m) >= n BY <1>4
<1>7. M # {}
  <2>1. PICK m \in Nat : Low(db, o, p, m) = U BY LastRow
  <2> QED BY <1>3, <2>1
<1>8. PICK m \in M : \A k \in M : m <= k
  <2>1. M \subseteq Nat OBVIOUS
  <2> HIDE DEF M
  <2> QED BY <1>7, <2>1, LeastNumber
<1>9. m \in Nat /\ C(m) >= n BY <1>8
<1>10. C(m - 1) < n
  <2>1. CASE m = 0
    <3>1. Low(db, o, p, m - 1) = {} BY <1>1, <2>1 DEF Low
    <3> QED BY <1>3, <3>1, FS_EmptySet
  <2>2. CASE m # 0
    <3>1. m - 1 \in Nat /\ m - 1 \notin M BY <1>8, <1>9, <2>2
    <3>2. ~ (C(m - 1) >= n) BY <3>1
    <3> HIDE DEF C
    <3> QED BY <1>2, <1>3, <3>1, <3>2
  <2> QED BY <2>1, <2>2
<1>11. \E r \in U : r.slot = F + m
  <2> SUFFICES ASSUME \A r \in U : r.slot # F + m PROVE FALSE OBVIOUS
  <2>1. Low(db, o, p, m) = Low(db, o, p, m - 1) BY <1>1, <1>9 DEF Low
  <2>2. C(m) = C(m - 1) BY <2>1
  <2> HIDE DEF C
  <2> QED BY <1>2, <1>3, <1>9, <1>10, <2>2
<1>12. \E s \in {r.slot : r \in U} : Nth(s)
  <2>1. Nth(F + m) BY <1>6, <1>9, <1>10
  <2> HIDE DEF Nth
  <2> QED BY <1>11, <2>1
<1>13. x \in {r.slot : r \in U} /\ Nth(x)
  <2> HIDE DEF Nth
  <2> QED BY <1>12
<1> HIDE DEF x, Nth, U
<1>14. x - F \in Nat /\ x = F + (x - F) BY <1>1, <1>13
<1> QED BY <1>5, <1>6, <1>13, <1>14

\* Row i is above the counter next to it exactly if the counter may stop there.
LEMMA RowAbove ==
    ASSUME NEW db, Table(db), NEW o, NEW p, NEW i \in 1..Cardinality(Used(db, o, p))
    PROVE  /\ Query(db, o, p)[i] \in Nat
           /\ FirstSlot(p) + i - 1 < Query(db, o, p)[i]
                 <=> Cardinality(Low(db, o, p, i - 1)) <= i - 1
<1> DEFINE F == FirstSlot(p)
           C(k) == Cardinality(Low(db, o, p, k))
<1>1. PICK m \in Nat : Query(db, o, p)[i] = F + m /\ C(m - 1) < i /\ C(m) >= i BY QueryRow
<1>2. F \in Nat /\ i \in Nat /\ Cardinality(Used(db, o, p)) \in Nat BY UsedFacts
<1>3. \A k \in Int : C(k) \in Nat BY UsedFacts
<1>4. \A j, k \in Int : j <= k => C(j) <= C(k) BY LowGrows
<1> HIDE DEF F, C
<1>5. i - 1 < m => C(i - 1) <= i - 1
  <2> SUFFICES ASSUME i - 1 < m PROVE C(i - 1) <= i - 1 OBVIOUS
  <2>1. i - 1 <= m - 1 /\ i - 1 \in Int /\ m - 1 \in Int BY <1>2
  <2>2. C(i - 1) <= C(m - 1) BY <1>4, <2>1
  <2>3. C(i - 1) \in Nat /\ C(m - 1) \in Nat BY <1>3, <2>1
  <2> QED BY <1>1, <1>2, <2>2, <2>3
<1>6. C(i - 1) <= i - 1 => i - 1 < m
  <2> SUFFICES ASSUME C(i - 1) <= i - 1, ~ (i - 1 < m) PROVE FALSE OBVIOUS
  <2>1. m <= i - 1 /\ i - 1 \in Int BY <1>2
  <2>2. C(m) <= C(i - 1) BY <1>4, <2>1
  <2>3. C(i - 1) \in Nat /\ C(m) \in Nat BY <1>3, <2>1
  <2> QED BY <1>1, <1>2, <2>2, <2>3
<1>7. F + i - 1 < F + m <=> i - 1 < m BY <1>2
<1>8. F + m \in Nat BY <1>2
<1> QED BY <1>1, <1>5, <1>6, <1>7, <1>8 DEF F, C

\* The least of a set of numbers is one of them.
LEMMA MinTaken ==
    ASSUME NEW M, M \subseteq Nat, M # {}
    PROVE  Min(M) \in M /\ \A n \in M : Min(M) <= n
BY LeastNumber DEF Min

\* The counter stops once.
LEMMA StopsOnce ==
    ASSUME NEW db, Table(db), NEW o, NEW p, NEW n \in Nat, NEW k \in Nat,
           Stops(db, o, p, n), Stops(db, o, p, k)
    PROVE  n = k
<1> DEFINE C(m) == Cardinality(Low(db, o, p, m))
<1>1. C(n) \in Nat /\ C(k) \in Nat BY UsedFacts
<1>2. C(n) <= n /\ C(k) <= k BY DEF Stops
<1>3. n < k => C(n) > n BY DEF Stops
<1>4. k < n => C(k) > k BY DEF Stops
<1> HIDE DEF C
<1> QED BY <1>1, <1>2, <1>3, <1>4

\* The walk over the rows stops where the counter does.
LEMMA WalkStops ==
    ASSUME NEW db, Table(db), NEW o, NEW p
    PROVE  /\ Len(Query(db, o, p)) = Cardinality(Used(db, o, p))
           /\ SlotFound(db, o, p) = FindNextAvailableContainerSlot(db, o, p)
           /\ Used(db, o, p) # {} =>
                 \E n \in 0..Cardinality(Used(db, o, p)) :
                    Stops(db, o, p, n) /\ SlotFound(db, o, p) = FirstSlot(p) + n
<1> DEFINE F == FirstSlot(p)
           N == Cardinality(Used(db, o, p))
           C(m) == Cardinality(Low(db, o, p, m))
           pT == Query(db, o, p)
           stops == {i \in 1..N : F + i - 1 < pT[i]}
           k == CHOOSE n \in 0..N : Stops(db, o, p, n)
<1>1. F \in Nat /\ N \in Nat /\ \A m \in Int : C(m) \in Nat /\ C(m) <= N BY UsedFacts
<1>2. \A i \in 1..N : pT[i] \in Nat BY RowAbove
<1>3. \A i \in 1..N : i \in stops <=> C(i - 1) <= i - 1 BY RowAbove
<1>4. DOMAIN pT = 1..N /\ pT = [i \in 1..N |-> pT[i]]
  <2> DEFINE U == Used(db, o, p)
             Nth(n) == CHOOSE s \in {r.slot : r \in U} :
                          /\ Cardinality({r \in U : r.slot < s}) < n
                          /\ Cardinality({r \in U : r.slot <= s}) >= n
  <2>1. pT = [n \in 1..N |-> Nth(n)] BY DEF Query, Used
  <2> HIDE DEF pT, N, Nth
  <2> QED BY <2>1
<1>5. k \in 0..N /\ Stops(db, o, p, k) BY SearchStops
<1>6. FindNextAvailableContainerSlot(db, o, p) = IF Used(db, o, p) = {} THEN 0 ELSE F + k
  BY DEF FindNextAvailableContainerSlot, Used, Stops, Low
<1>7. N = 0 <=> Used(db, o, p) = {} BY UsedFacts, FS_EmptySet
<1> HIDE DEF pT
<1>8. Len(pT) = N /\ pT \in Seq(Nat)
  <2> HIDE DEF F, N
  <2> QED BY <1>1, <1>2, <1>4
<1>9. Walk(pT, F) = F + (IF stops = {} THEN N ELSE Min(stops) - 1) BY <1>4, <1>8 DEF Walk
<1>10. SlotFound(db, o, p) = IF N = 0 THEN 0 ELSE Walk(pT, F) BY <1>8 DEF SlotFound, pT
<1> HIDE DEF F, N, C, stops, k
<1>11. stops \subseteq 1..N BY DEF stops
<1>12. CASE stops = {}
  <2>1. \A m \in 0..(N - 1) : C(m) > m
    <3> SUFFICES ASSUME NEW m \in 0..(N - 1) PROVE C(m) > m OBVIOUS
    <3>1. m + 1 \in 1..N /\ (m + 1) - 1 = m /\ m \in Int BY <1>1
    <3>2. ~ (C(m) <= m) BY <1>3, <1>12, <3>1
    <3> QED BY <1>1, <3>1, <3>2
  <2>2. C(N) <= N BY <1>1
  <2>3. Stops(db, o, p, N) BY <2>1, <2>2 DEF Stops, C
  <2>4. k = N BY <1>1, <1>5, <2>3, StopsOnce
  <2>5. Walk(pT, F) = F + k BY <1>9, <1>12, <2>4
  <2> QED BY <1>5, <1>6, <1>7, <1>8, <1>10, <2>5 DEF F, N, pT
<1>13. CASE stops # {}
  <2>1. stops \subseteq Nat BY <1>1, <1>11
  <2>2. PICK j \in stops : j = Min(stops) /\ \A i \in stops : j <= i
    BY <1>13, <2>1, MinTaken
  <2> DEFINE n == j - 1
  <2>3. j \in 1..N /\ n \in 0..N BY <1>1, <1>11, <2>2
  <2>4. C(n) <= n BY <1>3, <2>2, <2>3
  <2>5. \A m \in 0..(n - 1) : C(m) > m
    <3> SUFFICES ASSUME NEW m \in 0..(n - 1) PROVE C(m) > m OBVIOUS
    <3>1. /\ m + 1 \in 1..N /\ (m + 1) - 1 = m /\ m \in Int
          /\ ~ (j <= m + 1)
      BY <1>1, <2>3
    <3>2. ~ (C(m) <= m) BY <1>3, <2>2, <3>1
    <3> QED BY <1>1, <3>1, <3>2
  <2> HIDE DEF n
  <2>6. Stops(db, o, p, n) BY <2>4, <2>5 DEF Stops, C
  <2>7. k \in Nat /\ n \in Nat BY <1>1, <1>5, <2>3
  <2>8. k = n BY <1>5, <2>6, <2>7, StopsOnce
  <2>9. Walk(pT, F) = F + k BY <1>9, <1>13, <2>2, <2>8 DEF n
  <2> QED BY <1>5, <1>6, <1>7, <1>8, <1>10, <2>9 DEF F, N, pT
<1> QED BY <1>12, <1>13

\* In a tidy table an item is in every slot the counter has passed: there are more
\* rows up to it than slots below it.
LEMMA PassedTaken ==
    ASSUME NEW db, Table(db), OneToASlot(db), NEW o, NEW p, NEW n \in Nat,
           Stops(db, o, p, n), NEW m \in 0..(n - 1)
    PROVE  \E r \in Used(db, o, p) : r.slot = FirstSlot(p) + m
<1> DEFINE F == FirstSlot(p)
           L == Low(db, o, p, m)
           T == F..(F + m)
           f == [r \in L |-> r.slot]
<1>1. F \in Nat /\ m \in Nat /\ F + m \in Int /\ (F + m) - F + 1 = m + 1 /\ ~ (F > F + m)
  BY UsedFacts
<1>2. IsFiniteSet(T) /\ Cardinality(T) = m + 1 BY <1>1, FS_Interval
<1>3. IsFiniteSet(L) /\ Cardinality(L) \in Nat BY UsedFacts
<1>4. Cardinality(L) > m BY DEF Stops
<1>5. f \in [L -> T]
  <2>1. \A r \in L : r.slot \in Nat /\ r.slot >= F /\ r.slot <= F + m BY UsedFacts DEF Low
  <2> HIDE DEF L, F
  <2> QED BY <1>1, <2>1
<1>6. ASSUME NEW r \in L, NEW s \in L, f[r] = f[s] PROVE r = s
  <2>1. r \in Used(db, o, p) /\ s \in Used(db, o, p) /\ r.slot = s.slot BY <1>6 DEF Low
  <2>2. Named(r.parent, r.slot)
    <3>1. r.parent = p /\ r.slot >= F BY <2>1 DEF Used, Rows
    <3>2. p = INV_TOONINV => F = FirstInvSlot BY DEF FirstSlot
    <3>3. r.slot \in Nat BY <2>1, UsedFacts
    <3> HIDE DEF F
    <3> QED BY <3>1, <3>2, <3>3, SlotAssumption DEF Named
  <2> QED BY <2>1, <2>2 DEF Used, Rows, OneToASlot
<1>7. f \in Injection(L, T)
  <2> HIDE DEF f, L, T
  <2> QED BY <1>5, <1>6 DEF Injection, IsInjective
<1> HIDE DEF f, L, T
<1>8. Cardinality(L) <= Cardinality(T) BY <1>2, <1>7, FS_Injection
<1>9. Cardinality(L) = Cardinality(T) BY <1>1, <1>2, <1>3, <1>4, <1>8
<1>10. f \in Surjection(L, T) BY <1>2, <1>7, <1>9, FS_Injection
<1>11. F + m \in T BY <1>1 DEF T
<1>12. PICK r \in L : f[r] = F + m
  <2> HIDE DEF F
  <2> QED BY <1>10, <1>11 DEF Surjection
<1> QED BY <1>12 DEF f, L, Low

\* The slot found is the lowest that is free, whatever is in the container.
LEMMA FoundIsLowest ==
    ASSUME NEW db, Table(db), OneToASlot(db), NEW o, NEW p, Used(db, o, p) # {}
    PROVE  SlotFound(db, o, p) =
              Min((FirstSlot(p)..(FirstSlot(p) + Cardinality(db)))
                     \ {r.slot : r \in Rows(db, o, p)})
<1> DEFINE F == FirstSlot(p)
           taken == {r.slot : r \in Rows(db, o, p)}
           free == (F..(F + Cardinality(db))) \ taken
<1>1. PICK n \in 0..Cardinality(Used(db, o, p)) :
         Stops(db, o, p, n) /\ SlotFound(db, o, p) = F + n
  BY WalkStops
<1>2. Cardinality(Used(db, o, p)) <= Cardinality(db) /\ Cardinality(db) \in Nat
  <2>1. Used(db, o, p) \in SUBSET db BY DEF Used, Rows
  <2> QED BY <2>1, FS_Subset, FS_CardinalityType DEF Table
<1>3. F \in Nat /\ n \in Nat /\ n <= Cardinality(db) BY <1>1, <1>2, UsedFacts
<1>4. F + n \notin taken
  <2> SUFFICES ASSUME NEW r \in Rows(db, o, p), r.slot = F + n PROVE FALSE OBVIOUS
  <2>1. r \in Used(db, o, p) BY <1>3 DEF Used
  <2> QED BY <1>1, <1>3, <2>1, StopsAtFree
<1>5. \A m \in 0..(n - 1) : F + m \in taken
  <2> SUFFICES ASSUME NEW m \in 0..(n - 1) PROVE F + m \in taken OBVIOUS
  <2>1. PICK r \in Used(db, o, p) : r.slot = F + m BY <1>1, <1>3, PassedTaken
  <2> QED BY <2>1 DEF Used
<1> HIDE DEF F, taken
<1>6. F + n \in free BY <1>2, <1>3, <1>4
<1>7. \A s \in free : F + n <= s
  <2> SUFFICES ASSUME NEW s \in free, s < F + n PROVE FALSE BY <1>2, <1>3
  <2>1. s - F \in 0..(n - 1) /\ s = F + (s - F) BY <1>2, <1>3
  <2> QED BY <1>5, <2>1
<1>8. Min(free) = F + n
  <2>1. \A s \in free : s \in Nat BY <1>2, <1>3
  <2> HIDE DEF free
  <2>2. \A x \in free : (\A y \in free : x <= y) => x = F + n BY <1>3, <1>6, <1>7, <2>1
  <2> QED BY <1>6, <1>7, <2>2 DEF Min
<1> QED BY <1>1, <1>8 DEF F, taken

\* The search in the code, row by row, finds what the handlers are said to be given,
\* and this is the lowest free slot, in every session that starts on a tidy table.
THEOREM LowestSlotFound ==
    ASSUME \A db \in Loadouts : Tidy(db)
    PROVE  Spec => []LowestFree
<1>1. ASSUME Typed, Tidy(items) PROVE LowestFree
  <2> SUFFICES ASSUME NEW c \in Toons, NEW p \in {r.parent : r \in items} \cup {INV_TOONINV}
               PROVE  /\ FindNextAvailableContainerSlot(items, c, p) = SlotFound(items, c, p)
                      /\ Len(Query(items, c, p)) > 0 =>
                            SlotFound(items, c, p) =
                               Min((FirstSlot(p)..(FirstSlot(p) + Cardinality(items)))
                                      \ {r.slot : r \in Rows(items, c, p)})
    BY DEF LowestFree
  <2>1. Table(items) /\ OneToASlot(items) BY <1>1 DEF Typed, Tidy
  <2>2. Len(Query(items, c, p)) > 0 => Used(items, c, p) # {}
    BY <2>1, WalkStops, FS_EmptySet
  <2> QED BY <2>1, <2>2, WalkStops, FoundIsLowest
<1>2. Typed /\ Tidy(items) => LowestFree BY <1>1
<1> QED BY <1>2, AlwaysTyped, AlwaysTidy, PTL

-----------------------------------------------------------------------------
(* Sums.                                                                   *)

\* The row a sum over R begins with.
First(R) == CHOOSE r \in R : TRUE

\* A finite set of rows with a count each.
Countable(R) == IsFiniteSet(R) /\ \A r \in R : r.stack \in Int

\* g is the sum of the rows in each subset of S of at most n of them.
SumUpTo(g, S, n) ==
    \A T \in SUBSET S : Cardinality(T) <= n =>
        g[T] = IF T = {} THEN 0 ELSE First(T).stack + g[T \ {First(T)}]

\* The subsets of a set that has a sum.
LEMMA Parts ==
    ASSUME NEW S, Countable(S), NEW T \in SUBSET S
    PROVE  /\ Countable(T) /\ Cardinality(T) \in Nat
           /\ Cardinality(T) <= Cardinality(S)
           /\ T = {} <=> Cardinality(T) = 0
           /\ T # {} => First(T) \in T
           /\ \A x \in T : /\ T \ {x} \in SUBSET S
                           /\ Cardinality(T \ {x}) = Cardinality(T) - 1
<1>1. IsFiniteSet(T) /\ Cardinality(T) <= Cardinality(S) BY FS_Subset DEF Countable
<1>2. Cardinality(T) \in Nat /\ (T = {} <=> Cardinality(T) = 0)
  BY <1>1, FS_CardinalityType, FS_EmptySet
<1>3. \A x \in T : Cardinality(T \ {x}) = Cardinality(T) - 1 BY <1>1, FS_RemoveElement
<1>4. T # {} => First(T) \in T BY DEF First
<1> QED BY <1>1, <1>2, <1>3, <1>4 DEF Countable

\* There are sums.
LEMMA SumExists ==
    ASSUME NEW S, Countable(S)
    PROVE  \E g \in [SUBSET S -> Int] : SumUpTo(g, S, Cardinality(S))
<1> DEFINE M == {n \in Nat : \E g \in [SUBSET S -> Int] : SumUpTo(g, S, n)}
<1>1. 0 \in M
  <2> DEFINE g == [T \in SUBSET S |-> 0]
  <2>1. \A T \in SUBSET S : Cardinality(T) <= 0 => T = {} BY Parts
  <2>2. SumUpTo(g, S, 0) BY <2>1 DEF SumUpTo
  <2>3. g \in [SUBSET S -> Int] OBVIOUS
  <2> QED BY <2>2, <2>3
<1>2. ASSUME NEW n \in Nat, n \in M PROVE n + 1 \in M
  <2>1. PICK g \in [SUBSET S -> Int] : SumUpTo(g, S, n) BY <1>2
  <2> DEFINE x(T) == First(T).stack + g[T \ {First(T)}]
             h == [T \in SUBSET S |-> IF T = {} THEN 0
                                      ELSE IF Cardinality(T) <= n THEN g[T] ELSE x(T)]
  <2>3. \A T \in SUBSET S : T # {} => x(T) \in Int BY <2>1, Parts DEF Countable
  <2>4. h \in [SUBSET S -> Int] BY <2>1, <2>3
  <2>5. ASSUME NEW T \in SUBSET S, T # {}, Cardinality(T) <= n + 1
        PROVE  h[T] = First(T).stack + h[T \ {First(T)}]
    <3> DEFINE U == T \ {First(T)}
    <3>1. U \in SUBSET S /\ Cardinality(T) \in Nat /\ Cardinality(U) = Cardinality(T) - 1
      BY <2>5, Parts
    <3>2. Cardinality(U) <= n BY <2>5, <3>1
    <3>3. g[{}] = 0
      <4>1. {} \in SUBSET S /\ Cardinality({}) <= n BY FS_EmptySet
      <4> QED BY <2>1, <4>1 DEF SumUpTo
    <3>4. h[U] = g[U] BY <3>1, <3>2, <3>3
    <3>5. h[T] = x(T)
      <4>1. Cardinality(T) <= n => g[T] = x(T) BY <2>1, <2>5 DEF SumUpTo
      <4> HIDE DEF x
      <4> QED BY <2>5, <4>1
    <3> QED BY <3>4, <3>5
  <2>6. h[{}] = 0 OBVIOUS
  <2> HIDE DEF h, x
  <2>7. SumUpTo(h, S, n + 1) BY <2>4, <2>5, <2>6 DEF SumUpTo
  <2> QED BY <2>4, <2>7
<1>3. Nat \subseteq M
  <2> HIDE DEF M
  <2> QED BY <1>1, <1>2, Induction
<1>4. Cardinality(S) \in M BY <1>3, Parts
<1> QED BY <1>4

\* And one only: what a set and a larger one make of the same rows.
LEMMA SumUnique ==
    ASSUME NEW S, Countable(S), NEW g, SumUpTo(g, S, Cardinality(S)),
           NEW R, Countable(R), NEW h, SumUpTo(h, R, Cardinality(R)),
           NEW T, T \subseteq S, T \subseteq R
    PROVE  g[T] = h[T]
<1> DEFINE M == {n \in Nat : \A U \in SUBSET (S \cap R) : Cardinality(U) = n => g[U] = h[U]}
<1>1. \A U \in SUBSET (S \cap R) :
          /\ g[U] = IF U = {} THEN 0 ELSE First(U).stack + g[U \ {First(U)}]
          /\ h[U] = IF U = {} THEN 0 ELSE First(U).stack + h[U \ {First(U)}]
  <2> TAKE U \in SUBSET (S \cap R)
  <2>1. U \in SUBSET S /\ Cardinality(U) <= Cardinality(S) BY Parts
  <2>2. U \in SUBSET R /\ Cardinality(U) <= Cardinality(R) BY Parts
  <2> QED BY <2>1, <2>2 DEF SumUpTo
<1>2. 0 \in M
  <2>1. \A U \in SUBSET (S \cap R) : Cardinality(U) = 0 => U = {} BY Parts
  <2> QED BY <1>1, <2>1
<1>3. ASSUME NEW n \in Nat, n \in M PROVE n + 1 \in M
  <2> SUFFICES ASSUME NEW U \in SUBSET (S \cap R), Cardinality(U) = n + 1
               PROVE  g[U] = h[U]
    OBVIOUS
  <2>1. U \in SUBSET S OBVIOUS
  <2>2. U # {} /\ Cardinality(U \ {First(U)}) = n BY <2>1, Parts
  <2>3. g[U \ {First(U)}] = h[U \ {First(U)}] BY <1>3, <2>2
  <2> QED BY <1>1, <2>2, <2>3
<1>4. Nat \subseteq M
  <2> HIDE DEF M
  <2> QED BY <1>2, <1>3, Induction
<1>5. T \in SUBSET S /\ Cardinality(T) \in Nat BY Parts
<1>6. T \in SUBSET (S \cap R) BY <1>5
<1> QED BY <1>4, <1>5, <1>6

\* A stock is such a sum.
LEMMA StockIsSum ==
    ASSUME NEW S, Countable(S), NEW g, SumUpTo(g, S, Cardinality(S))
    PROVE  Stock(S) = g[S]
<1> DEFINE Iter(f) == f = [T \in SUBSET S |->
                              IF T = {} THEN 0 ELSE First(T).stack + f[T \ {First(T)}]]
           iter == CHOOSE f : Iter(f)
<1>1. PICK h \in [SUBSET S -> Int] : SumUpTo(h, S, Cardinality(S)) BY SumExists
<1>2. Iter(h)
  <2>1. \A T \in SUBSET S : h[T] = IF T = {} THEN 0 ELSE First(T).stack + h[T \ {First(T)}]
    <3> TAKE T \in SUBSET S
    <3>1. Cardinality(T) <= Cardinality(S) BY Parts
    <3> QED BY <1>1, <3>1 DEF SumUpTo
  <2>2. h = [T \in SUBSET S |-> h[T]] BY <1>1
  <2> QED BY <2>1, <2>2
<1>3. Iter(iter)
  <2> HIDE DEF Iter
  <2> QED BY <1>2
<1>4. Stock(S) = iter[S] BY DEF Stock, MapThenSumSet, MapThenFoldSet, First
<1> HIDE DEF iter
<1>5. \A T \in SUBSET S :
          iter[T] = IF T = {} THEN 0 ELSE First(T).stack + iter[T \ {First(T)}]
  BY <1>3
<1>6. SumUpTo(iter, S, Cardinality(S)) BY <1>5 DEF SumUpTo
<1>7. iter[S] = g[S] BY <1>6, SumUnique
<1> QED BY <1>4, <1>7

\* The stock begins with the first row.
LEMMA StockStep ==
    ASSUME NEW S, Countable(S)
    PROVE  /\ Stock(S) \in Int
           /\ Stock(S) = IF S = {} THEN 0 ELSE First(S).stack + Stock(S \ {First(S)})
<1>1. PICK g \in [SUBSET S -> Int] : SumUpTo(g, S, Cardinality(S)) BY SumExists
<1>2. Stock(S) = g[S] BY <1>1, StockIsSum
<1>3. g[S] = IF S = {} THEN 0 ELSE First(S).stack + g[S \ {First(S)}]
  BY <1>1, Parts DEF SumUpTo
<1>4. ASSUME S # {} PROVE Stock(S \ {First(S)}) = g[S \ {First(S)}]
  <2> DEFINE T == S \ {First(S)}
  <2>1. T \in SUBSET S BY Parts
  <2> HIDE DEF T
  <2>2. Countable(T) /\ Cardinality(T) <= Cardinality(S) /\ Cardinality(T) \in Nat
        /\ Cardinality(S) \in Nat
    BY <2>1, Parts
  <2>3. \A U \in SUBSET T : U \in SUBSET S /\ Cardinality(U) \in Nat
    BY <2>1, Parts
  <2>4. SumUpTo(g, T, Cardinality(T)) BY <1>1, <2>2, <2>3 DEF SumUpTo
  <2>5. Stock(T) = g[T] BY <2>2, <2>4, StockIsSum
  <2> QED BY <2>5 DEF T
<1> QED BY <1>1, <1>2, <1>3, <1>4

\* And with any other of its rows as well.
LEMMA StockWithout ==
    ASSUME NEW S, Countable(S), NEW x \in S
    PROVE  /\ Countable(S \ {x})
           /\ Stock(S \ {x}) \in Int
           /\ Stock(S) = x.stack + Stock(S \ {x})
<1> DEFINE Each(T) == \A y \in T : Stock(T) = y.stack + Stock(T \ {y})
           M == {n \in Nat : \A T \in SUBSET S : Cardinality(T) = n => Each(T)}
<1>1. 0 \in M
  <2>1. \A T \in SUBSET S : Cardinality(T) = 0 => T = {} BY Parts
  <2> QED BY <2>1
<1>2. ASSUME NEW n \in Nat, n \in M PROVE n + 1 \in M
  <2> SUFFICES ASSUME NEW T \in SUBSET S, Cardinality(T) = n + 1, NEW y \in T
               PROVE  Stock(T) = y.stack + Stock(T \ {y})
    OBVIOUS
  <2> DEFINE z == First(T)
             Y == T \ {y}
             Z == T \ {z}
  <2>1. z \in T BY Parts
  <2>2. /\ Y \in SUBSET S /\ Z \in SUBSET S
        /\ Cardinality(Y) = n /\ Cardinality(Z) = n
    <3>1. Cardinality(Y) = Cardinality(T) - 1 /\ Cardinality(Z) = Cardinality(T) - 1
      BY <2>1, Parts
    <3> HIDE DEF Y, Z
    <3>2. Y \in SUBSET S /\ Z \in SUBSET S BY DEF Y, Z
    <3> QED BY <3>1, <3>2
  <2>3. Stock(T) = z.stack + Stock(Z) BY Parts, StockStep
  <2>4. CASE y = z BY <2>3, <2>4
  <2>5. CASE y # z
    <3>1. y \in Z /\ z \in Y /\ Z \ {y} = Y \ {z} BY <2>1, <2>5
    <3>2. Stock(Z) = y.stack + Stock(Z \ {y}) /\ Stock(Y) = z.stack + Stock(Y \ {z})
      BY <1>2, <2>2, <3>1
    <3>3. Z \ {y} \in SUBSET S /\ Y \in SUBSET S OBVIOUS
    <3>4. Stock(Z \ {y}) \in Int /\ Stock(Y) \in Int /\ Stock(Z) \in Int
      <4> HIDE DEF Y, Z
      <4>1. Countable(Z \ {y}) /\ Countable(Y) /\ Countable(Z) BY <2>2, <3>3, Parts
      <4> QED BY <4>1, StockStep
    <3>5. y.stack \in Int /\ z.stack \in Int BY <2>1 DEF Countable
    <3> HIDE DEF Y, Z, z
    <3>6. Stock(Z \ {y}) = Stock(Y \ {z}) BY <3>1
    <3>7. Stock(T) = y.stack + Stock(Y)
      <4> DEFINE w == Stock(Z \ {y})
      <4>1. /\ Stock(Z) = y.stack + w /\ Stock(Y) = z.stack + w /\ w \in Int
        BY <3>2, <3>4, <3>6
      <4> HIDE DEF w
      <4> QED BY <2>3, <3>5, <4>1
    <3> QED BY <3>7 DEF Y
  <2> QED BY <2>4, <2>5
<1>3. Nat \subseteq M
  <2> HIDE DEF M
  <2> QED BY <1>1, <1>2, Induction
<1>4. S \in SUBSET S /\ Cardinality(S) \in Nat BY Parts
<1>5. Each(S) BY <1>3, <1>4
<1>6. S \ {x} \in SUBSET S OBVIOUS
<1>7. Countable(S \ {x}) BY <1>6, Parts
<1> QED BY <1>5, <1>7, StockStep

\* Two sets of rows with the same ids, and the same count for each id.
Matching(S, T) ==
    /\ IdsDistinct(S) /\ IdsDistinct(T)
    /\ \A x \in S : \E y \in T : y.id = x.id /\ y.stack = x.stack
    /\ \A y \in T : \E x \in S : x.id = y.id /\ x.stack = y.stack

\* They have the same stock.
LEMMA StockMatches ==
    ASSUME NEW S, Countable(S), NEW T, Countable(T), Matching(S, T)
    PROVE  Stock(S) = Stock(T)
<1> DEFINE M == {n \in Nat : \A U \in SUBSET S, V \in SUBSET T :
                     Cardinality(U) = n /\ Matching(U, V) => Stock(U) = Stock(V)}
<1>1. 0 \in M
  <2> SUFFICES ASSUME NEW U \in SUBSET S, NEW V \in SUBSET T, Cardinality(U) = 0,
                      Matching(U, V)
               PROVE  Stock(U) = Stock(V)
    OBVIOUS
  <2>1. U = {} BY Parts
  <2>2. V = {} BY <2>1 DEF Matching
  <2> QED BY <2>1, <2>2
<1>2. ASSUME NEW n \in Nat, n \in M PROVE n + 1 \in M
  <2> SUFFICES ASSUME NEW U \in SUBSET S, NEW V \in SUBSET T, Cardinality(U) = n + 1,
                      Matching(U, V)
               PROVE  Stock(U) = Stock(V)
    OBVIOUS
  <2>1. PICK x \in U : Cardinality(U \ {x}) = n
    <3>1. U # {} /\ \A x \in U : Cardinality(U \ {x}) = Cardinality(U) - 1
      <4>1. Cardinality(U) # 0 OBVIOUS
      <4> QED BY <4>1, Parts
    <3> QED BY <3>1
  <2>2. PICK y \in V : y.id = x.id /\ y.stack = x.stack BY <2>1 DEF Matching
  <2>3. Matching(U \ {x}, V \ {y}) BY <2>1, <2>2 DEF Matching, IdsDistinct
  <2>4. U \ {x} \in SUBSET S /\ V \ {y} \in SUBSET T OBVIOUS
  <2>5. Stock(U \ {x}) = Stock(V \ {y}) BY <1>2, <2>1, <2>3, <2>4
  <2>6. Countable(U) /\ Countable(V) BY Parts
  <2>7. Stock(U) = x.stack + Stock(U \ {x}) BY <2>1, <2>6, StockWithout
  <2>8. Stock(V) = y.stack + Stock(V \ {y}) BY <2>2, <2>6, StockWithout
  <2> QED BY <2>2, <2>5, <2>7, <2>8
<1>3. Nat \subseteq M
  <2> HIDE DEF M
  <2> QED BY <1>1, <1>2, Induction
<1>4. S \in SUBSET S /\ T \in SUBSET T /\ Cardinality(S) \in Nat BY Parts
<1> QED BY <1>3, <1>4

-----------------------------------------------------------------------------
(* What statements do to the stock.                                        *)

\* What a character has of a kind can be summed, if none of it is NULL.
LEMMA HeldCountable ==
    ASSUME NEW db, Table(db), NEW c, NEW k, Counted(db, c, k), NEW R, R \subseteq Held(db, c, k)
    PROVE  Countable(R)
<1>1. R \in SUBSET db BY DEF Held, Owned
<1>2. IsFiniteSet(R) BY <1>1, FS_Subset DEF Table
<1>3. \A r \in R : r.stack \in Int BY <1>1 DEF Table, Row, Stacks, Counted
<1> QED BY <1>2, <1>3 DEF Countable

\* An item is the same, wherever it is.
SameItem(x, y) ==
    /\ y.id = x.id /\ y.kind = x.kind /\ y.stack = x.stack /\ y.owner = x.owner

\* The items of two tables are the same.
Relaid(old, new) ==
    /\ Keyed(new)
    /\ \A x \in old : \E y \in new : SameItem(x, y)
    /\ \A y \in new : \E x \in old : SameItem(x, y)

\* Character c has as many of kind k as before.
AsMany(c, k, old, new) ==
    Counted(old, c, k) => Counted(new, c, k) /\ Total(new, c, k) = Total(old, c, k)

\* It does when the rows are the same,
LEMMA SameRowsAsMany ==
    ASSUME NEW old, NEW new, NEW c, NEW k, Held(new, c, k) = Held(old, c, k)
    PROVE  AsMany(c, k, old, new)
BY DEF AsMany, Counted, Total

\* and when things are elsewhere.
LEMMA RelaidAsMany ==
    ASSUME NEW old, Keyed(old), NEW new, Relaid(old, new), NEW c, NEW k
    PROVE  AsMany(c, k, old, new)
<1> SUFFICES ASSUME Counted(old, c, k)
             PROVE  Counted(new, c, k) /\ Total(new, c, k) = Total(old, c, k)
  BY DEF AsMany
<1> DEFINE S == Held(old, c, k)
           T == Held(new, c, k)
<1>1. \A x \in S : \E y \in T : y.id = x.id /\ y.stack = x.stack
  BY DEF Relaid, SameItem, Held, Owned
<1>2. \A y \in T : \E x \in S : x.id = y.id /\ x.stack = y.stack
  BY DEF Relaid, SameItem, Held, Owned
<1>3. Counted(new, c, k) BY <1>2 DEF Counted
<1>4. Matching(S, T)
  <2>1. IdsDistinct(S) /\ IdsDistinct(T) BY DEF Keyed, Relaid, IdsDistinct, Held, Owned
  <2> HIDE DEF S, T
  <2> QED BY <1>1, <1>2, <2>1 DEF Matching
<1>5. Countable(S) /\ Countable(T) BY <1>3, HeldCountable DEF Keyed, Relaid
<1> HIDE DEF S, T
<1>6. Stock(S) = Stock(T) BY <1>4, <1>5, StockMatches
<1> QED BY <1>3, <1>6 DEF Total, S, T

LEMMA MoveRelays ==
    ASSUME NEW db, Keyed(db), NEW c \in Toons, NEW R, R \subseteq Owned(db, c),
           NEW p \in Nat, NEW s \in Nat
    PROVE  Relaid(db, Move(db, R, p, s))
<1> DEFINE f  == [r \in R |-> [r EXCEPT !.parent = p, !.slot = s]]
           U  == {f[r] : r \in R}
           to == (db \ R) \cup U
<1>1. \A r \in R : r \in Row /\ r \in db /\ r.owner = c BY DEF Keyed, Table, Owned
<1>2. \A r \in R : f[r] \in Row /\ SameItem(r, f[r]) BY <1>1 DEF Row, SameItem
<1>3. Move(db, R, p, s) = to BY DEF Move
<1> HIDE DEF f
<1>4. \A u \in U : \E r \in R : u = f[r] OBVIOUS
<1>5. R \subseteq db /\ \A r \in R : f[r].id = r.id /\ f[r] \in Row /\ f[r].owner = c
  BY <1>1, <1>2 DEF SameItem
<1>6. Keyed(to)
  <2> HIDE DEF U
  <2>1. IdsDistinct(to) BY <1>4, <1>5, IdsKept DEF Keyed
  <2>2. Table(to) BY <1>4, <1>5, UpdateFacts DEF Keyed
  <2> QED BY <2>1, <2>2 DEF Keyed
<1>7. \A x \in db : \E y \in to : SameItem(x, y)
  <2> TAKE x \in db
  <2>1. CASE x \in R BY <1>2, <2>1
  <2>2. CASE x \notin R BY <2>2 DEF SameItem
  <2> QED BY <2>1, <2>2
<1>8. \A y \in to : \E x \in db : SameItem(x, y)
  <2> TAKE y \in to
  <2>1. CASE y \in U BY <1>1, <1>2, <2>1
  <2>2. CASE y \notin U BY <2>2 DEF SameItem
  <2> QED BY <2>1, <2>2
<1> QED BY <1>3, <1>6, <1>7, <1>8 DEF Relaid

\* Two layouts are one.
LEMMA RelaidTwice ==
    ASSUME NEW db1, NEW db2, NEW db3, Relaid(db1, db2), Relaid(db2, db3)
    PROVE  Relaid(db1, db3)
BY DEF Relaid, SameItem

\* Two rows x and y, and one row z with the sum of their stacks.
Pieces(B, c, k, x, y, z) ==
    /\ Countable(Held(B, c, k))
    /\ x \notin B /\ y \notin B /\ z \notin B /\ x # y
    /\ x.owner = c /\ y.owner = c /\ z.owner = c
    /\ x.kind = k /\ y.kind = k /\ z.kind = k
    /\ x.stack \in Int /\ y.stack \in Int /\ z.stack = x.stack + y.stack

\* One row for two, with the sum of their stacks.
LEMMA PiecesFacts ==
    ASSUME NEW B, NEW c, NEW k, NEW x, NEW y, NEW z, Pieces(B, c, k, x, y, z)
    PROVE  /\ Total(B \cup {x, y}, c, k) = Total(B \cup {z}, c, k)
           /\ Counted(B \cup {x, y}, c, k)
           /\ Counted(B \cup {z}, c, k)
<1> DEFINE A == Held(B, c, k)
<1>1. Held(B \cup {x, y}, c, k) = A \cup {x, y} /\ Held(B \cup {z}, c, k) = A \cup {z}
  BY DEF Held, Owned, Pieces
<1>2. A \subseteq B BY DEF Held, Owned
<1>0. Countable(A) /\ x.stack \in Int /\ y.stack \in Int BY DEF Pieces
<1> HIDE DEF A
<1>3. Countable(A) BY <1>0
<1>4. Countable(A \cup {x, y}) /\ Countable(A \cup {z}) /\ Countable(A \cup {y})
  <2>1. IsFiniteSet(A) /\ IsFiniteSet(A \cup {z}) /\ IsFiniteSet(A \cup {y})
    BY <1>3, FS_AddElement DEF Countable
  <2>2. A \cup {x, y} = (A \cup {y}) \cup {x} OBVIOUS
  <2>3. IsFiniteSet(A \cup {x, y}) BY <2>1, <2>2, FS_AddElement
  <2>4. x.stack \in Int /\ y.stack \in Int /\ z.stack \in Int BY DEF Pieces
  <2> QED BY <1>3, <2>1, <2>3, <2>4 DEF Countable
<1>5. /\ (A \cup {x, y}) \ {x} = A \cup {y} /\ (A \cup {y}) \ {y} = A
      /\ (A \cup {z}) \ {z} = A
  BY <1>2 DEF Pieces
<1>6. Stock(A \cup {x, y}) = x.stack + Stock(A \cup {y})
  <2> DEFINE U == A \cup {x, y}
  <2>1. x \in U /\ Countable(U) /\ U \ {x} = A \cup {y} BY <1>4, <1>5
  <2> HIDE DEF U
  <2>2. Stock(U) = x.stack + Stock(U \ {x}) BY ONLY <2>1, StockWithout
  <2> QED BY <2>1, <2>2 DEF U
<1>7. Stock(A \cup {y}) = y.stack + Stock(A) /\ Stock(A) \in Int
  <2> DEFINE U == A \cup {y}
  <2>1. y \in U /\ Countable(U) /\ U \ {y} = A BY <1>4, <1>5
  <2> HIDE DEF U
  <2>2. Stock(U) = y.stack + Stock(U \ {y}) /\ Stock(U \ {y}) \in Int BY ONLY <2>1, StockWithout
  <2> QED BY <2>1, <2>2 DEF U
<1>8. Stock(A \cup {z}) = z.stack + Stock(A)
  <2> DEFINE U == A \cup {z}
  <2>1. z \in U /\ Countable(U) /\ U \ {z} = A BY <1>4, <1>5
  <2> HIDE DEF U
  <2>2. Stock(U) = z.stack + Stock(U \ {z}) BY ONLY <2>1, StockWithout
  <2> QED BY <2>1, <2>2 DEF U
<1>9. Stock(A \cup {x, y}) = Stock(A \cup {z}) BY <1>6, <1>7, <1>8 DEF Pieces
<1>10. \A r : r \in A \cup {x, y} \/ r \in A \cup {z} => r.stack # NoStack
  BY <1>4, StackAssumption DEF Countable
<1> QED BY <1>1, <1>9, <1>10 DEF Total, Counted

\* One stack joined to another: what the table is then.
LEMMA JoinKeyed ==
    ASSUME NEW db, Keyed(db), NEW c \in Toons, NEW p, NEW s, NEW q, NEW t,
           NEW n \in StackAt(db, c, q, t)
    PROVE  Keyed(JoinInto(db, c, p, s, q, t, n))
<1> DEFINE P == RowsAt(db, c, p, s)
           f == [x \in P |-> [x EXCEPT !.stack = Plus(x.stack, n)]]
           U == {f[x] : x \in P}
           joined == AddToStack(db, P, n)
<1>1. JoinInto(db, c, p, s, q, t, n) = joined \ RowsAt(joined, c, q, t) BY DEF JoinInto
<1>2. joined = (db \ P) \cup U BY DEF AddToStack
<1>3. \A x \in P : x \in Row /\ x \in db BY DEF RowsAt, Keyed, Table
<1>4. n \in Stacks BY StackAtType DEF Keyed
<1>5. \A x \in P : f[x].id = x.id BY <1>3 DEF Row
<1> HIDE DEF f
<1>6. Keyed(joined)
  <2>1. P \subseteq Owned(db, c) BY DEF RowsAt, Owned
  <2>2. Table(joined) BY <1>4, <2>1, StackFacts DEF Keyed, Sound
  <2>3. IdsDistinct((db \ P) \cup U)
    <3>1. \A u \in U : \E x \in P : u = f[x] OBVIOUS
    <3>2. P \subseteq db BY <1>3
    <3> HIDE DEF P, U
    <3> QED BY <1>5, <3>1, <3>2, IdsKept DEF Keyed
  <2> QED BY <1>2, <2>2, <2>3 DEF Keyed
<1> HIDE DEF joined
<1> QED BY <1>1, <1>6, DeletionKeyed

\* Nothing happens to a kind that is at neither place.
LEMMA JoinElsewhere ==
    ASSUME NEW db, Keyed(db), NEW c, NEW p, NEW s, NEW q, NEW t, NEW n, NEW k,
           \A r \in RowsAt(db, c, p, s) \cup RowsAt(db, c, q, t) : r.kind # k
    PROVE  AsMany(c, k, db, JoinInto(db, c, p, s, q, t, n))
<1> DEFINE P == RowsAt(db, c, p, s)
           U == {[x EXCEPT !.stack = Plus(x.stack, n)] : x \in P}
           joined == AddToStack(db, P, n)
           new == joined \ RowsAt(joined, c, q, t)
<1>1. JoinInto(db, c, p, s, q, t, n) = new BY DEF JoinInto
<1>2. joined = (db \ P) \cup U BY DEF AddToStack
<1>3. \A x \in P : x \in Row /\ x.kind # k BY DEF RowsAt, Keyed, Table
<1>4. \A u \in U : u.kind # k BY <1>3 DEF Row
<1> HIDE DEF U
<1>5. \A r : r \in Held(joined, c, k) <=> r \in Held(db, c, k)
  BY <1>2, <1>3, <1>4 DEF Held, Owned
<1> HIDE DEF joined
<1>6. \A r : r \in Held(new, c, k) <=> r \in Held(joined, c, k)
  BY <1>5 DEF Held, Owned, RowsAt
<1>7. Held(new, c, k) = Held(db, c, k) BY <1>5, <1>6
<1> QED BY <1>1, <1>7, SameRowsAsMany

\* Two stacks of one kind in two places: the sum is the same.
LEMMA JoinAsMany ==
    ASSUME NEW db, Keyed(db), Tidy(db), NEW c \in Toons, NEW p, NEW s, NEW q, NEW t,
           Named(p, s), Named(q, t), <<p, s>> # <<q, t>>, NEW n \in StackAt(db, c, q, t),
           RowsAt(db, c, p, s) # {}, RowsAt(db, c, q, t) # {},
           \A x \in RowsAt(db, c, p, s), y \in RowsAt(db, c, q, t) : x.kind = y.kind,
           NEW k
    PROVE  AsMany(c, k, db, JoinInto(db, c, p, s, q, t, n))
<1> DEFINE P == RowsAt(db, c, p, s)
           Q == RowsAt(db, c, q, t)
           f == [r \in P |-> [r EXCEPT !.stack = Plus(r.stack, n)]]
           joined == AddToStack(db, P, n)
           new == joined \ RowsAt(joined, c, q, t)
<1>1. JoinInto(db, c, p, s, q, t, n) = new BY DEF JoinInto
<1>2. PICK x \in P, y \in Q : P = {x} /\ Q = {y}
  BY DEF Tidy, OneToASlot, RowsAt
<1> DEFINE z == f[x]
           B == db \ {x, y}
<1>3. /\ x \in db /\ x.owner = c /\ x.parent = p /\ x.slot = s /\ x \in Row
      /\ y \in db /\ y.owner = c /\ y.parent = q /\ y.slot = t /\ y.kind = x.kind
  BY DEF RowsAt, Keyed, Table
<1>4. n = y.stack BY <1>2 DEF StackAt
<1>5. /\ z.owner = c /\ z.kind = x.kind /\ z.id = x.id
      /\ z.parent = p /\ z.slot = s /\ z.stack = Plus(x.stack, n)
  BY <1>3 DEF Row
<1>6. joined = (db \ {x}) \cup {z} BY <1>2 DEF AddToStack
<1> HIDE DEF f, z, P, joined
<1>7. x # y /\ y # z BY <1>3, <1>5
<1>8. z \notin B BY <1>3, <1>5 DEF Keyed, IdsDistinct
<1>9. RowsAt(joined, c, q, t) = {y}
  <2>1. z \notin RowsAt(joined, c, q, t) BY <1>5 DEF RowsAt
  <2>2. \A r \in db : r.owner = c /\ r.parent = q /\ r.slot = t => r = y BY <1>2 DEF RowsAt
  <2> QED BY <1>3, <1>6, <1>7, <2>1, <2>2 DEF RowsAt
<1>10. new = B \cup {z} /\ db = B \cup {x, y} BY <1>3, <1>6, <1>7, <1>9
<1>11. CASE k = x.kind
  <2> SUFFICES ASSUME Counted(db, c, k)
               PROVE  Counted(new, c, k) /\ Total(new, c, k) = Total(db, c, k)
    BY <1>1 DEF AsMany
  <2>1. Countable(Held(B, c, k)) /\ Countable(Held(db, c, k))
    <3>1. Held(B, c, k) \subseteq Held(db, c, k) BY DEF Held, Owned
    <3> QED BY <3>1, HeldCountable DEF Keyed
  <2>2. x.stack \in Int /\ y.stack \in Int BY <1>3, <1>11, <2>1 DEF Held, Owned, Countable
  <2>3. z.stack = x.stack + y.stack BY <1>4, <1>5, <2>2, StackAssumption DEF Plus
  <2>4. x \notin B /\ y \notin B OBVIOUS
  <2> HIDE DEF B, new
  <2>5. Counted(B \cup {z}, c, k) /\ Total(B \cup {x, y}, c, k) = Total(B \cup {z}, c, k)
    <3>1. Pieces(B, c, k, x, y, z)
      BY <1>3, <1>5, <1>7, <1>8, <1>11, <2>1, <2>2, <2>3, <2>4 DEF Pieces
    <3> QED BY <3>1, PiecesFacts
  <2> QED BY <1>10, <2>5
<1>12. CASE k # x.kind
  <2>1. \A r \in RowsAt(db, c, p, s) \cup RowsAt(db, c, q, t) : r.kind # k
    BY <1>2, <1>3, <1>12 DEF P
  <2> QED BY <2>1, JoinElsewhere
<1> QED BY <1>11, <1>12

\* A stack split in two, the new one in a free slot.
LEMMA SplitFacts ==
    ASSUME NEW db, Keyed(db), NEW c \in Toons, NEW p, NEW t,
           NEW n \in Int, NEW s \in Nat,
           Named(p, t), ~ Named(p, s) \/ RowsAt(db, c, p, s) = {},
           RoomFor(db, SplitOff(db, c, p, t, n, s)),
           NEW split, split = db \cup Copies(db, SplitOff(db, c, p, t, n, s)),
           NEW new, new = TakeFromStack(split, RowsAt(split, c, p, t), n)
    PROVE  /\ Keyed(new)
           /\ Tidy(db) => \A k : AsMany(c, k, db, new)
<1> DEFINE X == RowsAt(db, c, p, t)
           S == SplitOff(db, c, p, t, n, s)
           R == RowsAt(split, c, p, t)
           f == [r \in R |-> [r EXCEPT !.stack = Minus(r.stack, n)]]
           U == {f[r] : r \in R}
<1>1. \A x \in X : x \in Row /\ x \in db /\ x.owner = c /\ x.parent = p /\ x.slot = t
  BY DEF RowsAt, Keyed, Table
<1>2. n \in Stacks BY DEF Stacks
<1>3. \A x \in X : [x EXCEPT !.stack = n, !.slot = s] \in Row BY <1>1, <1>2 DEF Row
<1>4. S \subseteq Row BY <1>3 DEF SplitOff
<1>5. IsFiniteSet(S)
  <2> DEFINE e == [x \in X |-> [x EXCEPT !.stack = n, !.slot = s]]
  <2>1. \A u \in S : \E x \in X : u = e[x] BY DEF SplitOff
  <2>2. X \in SUBSET db BY DEF RowsAt
  <2>3. IsFiniteSet(X) BY <2>2, FS_Subset DEF Keyed, Table
  <2> HIDE DEF e, S, X
  <2> QED BY <2>1, <2>3, FiniteImage
<1>6. Keyed(split)
  <2> HIDE DEF S
  <2>1. Keyed(db \cup Copies(db, S)) BY <1>4, <1>5, CopiesKeyed DEF S
  <2> QED BY <2>1 DEF S
<1>7. \A r \in R : r \in Row /\ r \in split /\ r.owner = c /\ r.parent = p /\ r.slot = t
  BY <1>6 DEF RowsAt, Keyed, Table
<1>8. \A r \in R : /\ f[r].id = r.id /\ f[r].owner = c /\ f[r].kind = r.kind
                   /\ f[r].stack = Minus(r.stack, n)
  BY <1>7 DEF Row
<1>9. new = (split \ R) \cup U BY DEF TakeFromStack
<1> HIDE DEF f
<1>10. Keyed(new)
  <2>1. R \subseteq Owned(split, c) BY DEF RowsAt, Owned
  <2>2. Table(new) BY <1>2, <1>6, <2>1, StackFacts DEF Keyed, Sound
  <2>3. IdsDistinct((split \ R) \cup U)
    <3>1. \A u \in U : \E x \in R : u = f[x] OBVIOUS
    <3>2. R \subseteq split /\ \A x \in R : f[x].id = x.id BY <1>7, <1>8
    <3> HIDE DEF R, U
    <3> QED BY <1>6, <3>1, <3>2, IdsKept DEF Keyed
  <2> QED BY <1>9, <2>2, <2>3 DEF Keyed
<1>11. ASSUME Tidy(db), NEW k PROVE AsMany(c, k, db, new)
  <2>1. \A x, y \in X : x = y BY <1>11 DEF Tidy, OneToASlot, RowsAt
  <2>2. CASE X = {}
    <3>1. S = {} BY <2>2 DEF SplitOff
    <3>2. split = db BY <3>1 DEF Copies
    <3>3. R = {} BY <2>2, <3>2
    <3>4. new = db BY <1>9, <3>2, <3>3
    <3> QED BY <3>4, SameRowsAsMany
  <2>3. CASE X # {}
    <3>1. PICK x \in X : X = {x} BY <2>1, <2>3
    <3> DEFINE e == [x EXCEPT !.stack = n, !.slot = s]
               g == NewIds(db, S)[e]
               y == [e EXCEPT !.id = g]
               z == f[x]
               B == db \ {x}
    <3>2. S = {e} BY <3>1 DEF SplitOff
    <3>3. e \in Row /\ e.owner = c /\ e.kind = x.kind /\ e.stack = n /\ e.parent = p /\ e.slot = s
      BY <1>1, <1>3, <3>1 DEF Row
    <3>4. split = db \cup {y} BY <3>2 DEF Copies
    <3>5. g \in FreeIds(db)
      <4>1. RoomFor(db, S) OBVIOUS
      <4>2. e \in S BY <3>2
      <4> HIDE DEF S, e
      <4>3. NewIds(db, S) \in [S -> FreeIds(db)] BY <4>1, NewIdsFree
      <4> QED BY <4>2, <4>3
    <3> HIDE DEF e, g
    <3>6. y.id = g /\ y.owner = c /\ y.kind = x.kind /\ y.stack = n /\ y.parent = p /\ y.slot = s
      BY <3>3 DEF Row
    <3>7. s # t BY <1>1, <3>1
    <3> HIDE DEF y, S
    <3>8. R = {x}
      <4>1. y \notin R BY <3>6, <3>7 DEF RowsAt
      <4>2. \A r \in db : r \in X <=> r \in R BY <3>4 DEF RowsAt
      <4> HIDE DEF X
      <4>3. R \subseteq split BY <1>7
      <4> HIDE DEF R
      <4> QED BY <1>1, <3>1, <3>4, <4>1, <4>2, <4>3
    <3>9. y \notin db /\ y.id # x.id BY <1>1, <3>1, <3>5, <3>6 DEF FreeIds
    <3>10. z.id = x.id /\ z.owner = c /\ z.kind = x.kind /\ z.stack = Minus(x.stack, n)
      BY <1>8, <3>8
    <3>11. U = {z} BY <3>8
    <3> HIDE DEF z, U
    <3>12. y # z /\ z \notin B
      <4>1. \A r \in db : r.id = x.id => r = x BY <1>1, <3>1 DEF Keyed, IdsDistinct
      <4> QED BY <3>9, <3>10, <4>1
    <3>13. x \in db /\ x.owner = c BY <1>1, <3>1
    <3>14. new = B \cup {y, z} /\ db = B \cup {x} BY <1>9, <3>4, <3>8, <3>9, <3>11, <3>13
    <3>15. x \notin B /\ y \notin B BY <3>9
    <3>16. /\ y.owner = c /\ y.kind = x.kind /\ y.stack \in Int
           /\ z.owner = c /\ z.kind = x.kind
      BY <3>6, <3>10
    <3>17. CASE k = x.kind
      <4> SUFFICES ASSUME Counted(db, c, k)
                   PROVE  Counted(new, c, k) /\ Total(new, c, k) = Total(db, c, k)
        BY DEF AsMany
      <4>1. Countable(Held(B, c, k)) /\ Countable(Held(db, c, k))
        <5>1. Held(B, c, k) \subseteq Held(db, c, k) BY DEF Held, Owned
        <5> QED BY <5>1, HeldCountable DEF Keyed
      <4>2. x.stack \in Int BY <3>13, <3>17, <4>1 DEF Held, Owned, Countable
      <4>3. z.stack \in Int /\ x.stack = y.stack + z.stack
        BY <3>6, <3>10, <4>2, StackAssumption DEF Minus
      <4> HIDE DEF B, X, R
      <4>4. /\ Counted(B \cup {y, z}, c, k)
            /\ Total(B \cup {y, z}, c, k) = Total(B \cup {x}, c, k)
        <5>1. Pieces(B, c, k, y, z, x)
          BY <3>12, <3>13, <3>15, <3>16, <3>17, <4>1, <4>3 DEF Pieces
        <5> QED BY <5>1, PiecesFacts
      <4> QED BY <3>14, <4>4
    <3>18. CASE k # x.kind
      <4> HIDE DEF B, X, R
      <4>1. Held(new, c, k) = Held(db, c, k) BY <3>14, <3>16, <3>18 DEF Held, Owned
      <4> QED BY <4>1, SameRowsAsMany
    <3> QED BY <3>17, <3>18
  <2> QED BY <2>2, <2>3
<1> QED BY <1>10, <1>11

-----------------------------------------------------------------------------
(* What messages do to the stock.                                          *)

\* A hot swap is three moves.
LEMMA HotswapRelays ==
    ASSUME NEW db, Keyed(db), NEW c \in Toons, NEW from \in Nat, NEW s \in Nat, NEW n \in Nat
    PROVE  Relaid(db, Hotswap(db, c, from, s, n))
<1> DEFINE out == Move(db, RowsAt(db, c, INV_TOONINV, n), INV_HOTSWAPTEMP, s)
           put == Move(out, RowsAt(out, c, from, s), INV_TOONINV, n)
           fin == Move(put, RowsAt(put, c, INV_HOTSWAPTEMP, s), from, s)
<1>1. Hotswap(db, c, from, s, n) = fin BY DEF Hotswap
<1>2. INV_TOONINV \in Nat /\ INV_HOTSWAPTEMP \in Nat BY DEF INV_TOONINV, INV_HOTSWAPTEMP
<1>3. \A t, q, u : RowsAt(t, c, q, u) \subseteq Owned(t, c) BY DEF RowsAt, Owned
<1>4. Relaid(db, out) BY <1>2, <1>3, MoveRelays
<1>5. Relaid(out, put)
  <2>1. Keyed(out) BY <1>4 DEF Relaid
  <2> HIDE DEF out
  <2> QED BY <1>2, <1>3, <2>1, MoveRelays
<1>6. Relaid(put, fin)
  <2>1. Keyed(put) BY <1>5 DEF Relaid
  <2> HIDE DEF put
  <2> QED BY <1>2, <1>3, <2>1, MoveRelays
<1> HIDE DEF out, put, fin
<1>7. Relaid(db, put) BY <1>4, <1>5, RelaidTwice
<1> QED BY <1>1, <1>6, <1>7, RelaidTwice

\* What an item is merged with is of its kind.
LEMMA MergedAreSame ==
    ASSUME NEW db, Table(db), Tidy(db), NEW c, NEW from, NEW s, Named(from, s),
           NEW first, first = FindFirstItemOfSameType(db, c, from, s, INV_TOONINV), first > 0
    PROVE  \A x \in RowsAt(db, c, INV_TOONINV, first), y \in RowsAt(db, c, from, s) :
              x.kind = y.kind
<1> DEFINE alike == {r \in Rows(db, c, INV_TOONINV) :
                        \E u \in RowsAt(db, c, from, s) : u.kind = r.kind}
           slots == {r.slot : r \in alike}
           least == CHOOSE m \in slots : \A n \in slots : m <= n
<1>1. first = IF slots = {} THEN 0 ELSE least BY DEF FindFirstItemOfSameType
<1>2. slots \subseteq Nat BY DEF Rows, Table, Row
<1>3. slots # {} => least \in slots
  <2> HIDE DEF slots
  <2> QED BY <1>2, LeastNumber
<1> HIDE DEF least
<1>4. first \in slots
  <2> HIDE DEF slots
  <2> QED BY <1>1, <1>3
<1>5. PICK r \in alike : r.slot = first BY <1>4
<1>6. PICK u \in RowsAt(db, c, from, s) : u.kind = r.kind BY <1>5
<1>7. Named(INV_TOONINV, first) BY DEF Named
<1>8. \A x \in RowsAt(db, c, INV_TOONINV, first) : x = r
  BY <1>5, <1>7 DEF Tidy, OneToASlot, RowsAt, Rows
<1>9. \A y \in RowsAt(db, c, from, s) : y = u
  BY <1>6 DEF Tidy, OneToASlot, RowsAt
<1> QED BY <1>6, <1>8, <1>9

\* There is something to merge with where the search says.
LEMMA MergeHasTarget ==
    ASSUME NEW db, Table(db), NEW c, NEW from, NEW s,
           FindFirstItemOfSameType(db, c, from, s, INV_TOONINV) > 0
    PROVE  RowsAt(db, c, INV_TOONINV, FindFirstItemOfSameType(db, c, from, s, INV_TOONINV)) # {}
<1> DEFINE alike == {r \in Rows(db, c, INV_TOONINV) :
                        \E u \in RowsAt(db, c, from, s) : u.kind = r.kind}
           slots == {r.slot : r \in alike}
           least == CHOOSE m \in slots : \A n \in slots : m <= n
           first == FindFirstItemOfSameType(db, c, from, s, INV_TOONINV)
<1>1. first = IF slots = {} THEN 0 ELSE least BY DEF FindFirstItemOfSameType
<1>2. slots \subseteq Nat BY DEF Rows, Table, Row
<1>3. slots # {} => least \in slots
  <2> HIDE DEF slots
  <2> QED BY <1>2, LeastNumber
<1> HIDE DEF least, first
<1>4. first \in slots
  <2> HIDE DEF slots
  <2> QED BY <1>1, <1>3 DEF first
<1>5. PICK r \in alike : r.slot = first BY <1>4
<1>6. r \in RowsAt(db, c, INV_TOONINV, first) BY <1>5 DEF Rows, RowsAt
<1> QED BY <1>6 DEF first

\* What a move does: it lays the table out anew, or it merges two stacks.
MergeOf(c, from, s, new) ==
    LET first == FindFirstItemOfSameType(items, c, from, s, INV_TOONINV)
    IN  /\ first > 0
        /\ \E m \in StackAt(items, c, from, s) :
              new = JoinInto(items, c, INV_TOONINV, first, from, s, m)

LEMMA MoveOutcome ==
    ASSUME Typed, Keyed(items), NEW c \in Toons,
           NEW type \in Types, NEW t \in TempIds, NEW s \in Slots,
           NEW to \in Targets, NEW b \in Bags, NEW n \in Slots,
           Moves(c, type, t, s, to, b, n)
    PROVE  LET from == GetFromContainerId(c, type, t)
           IN  \/ Relaid(items, items')
               \/ MergeOf(c, from, s, items') /\ MergeMove(c, from, s, n)
                  /\ NewParent(from, to, b) = INV_TOONINV
<1> DEFINE from == GetFromContainerId(c, type, t)
           p    == NewParent(from, to, b)
<1>1. from \in Nat BY ContainerIds
<1>2. p \in Nat
  <2>1. to \in ToTypes BY MoveAssumption
  <2> QED BY <2>1, ParentIds
<1>3. s \in Nat /\ n \in Nat BY StartAssumption
<1>4. \/ EquipMove(c, from, s, n)
      \/ p = INV_TOONINV /\ MergeMove(c, from, s, n)
      \/ PlainMove(c, from, s, p, n)
  BY DEF Moves, ItemMove
<1> HIDE DEF from, p
<1>5. CASE EquipMove(c, from, s, n)
  <2>1. items' = Hotswap(items, c, from, s, n) BY <1>5 DEF EquipMove, Commit
  <2>2. Relaid(items, Hotswap(items, c, from, s, n)) BY <1>1, <1>3, HotswapRelays
  <2> QED BY <2>1, <2>2 DEF from
<1>6. CASE p = INV_TOONINV /\ MergeMove(c, from, s, n)
  <2>1. MergeOf(c, from, s, items') BY <1>6 DEF MergeMove, MergeOf, Commit
  <2> QED BY <1>6, <2>1 DEF from, p
<1>7. CASE PlainMove(c, from, s, p, n)
  <2> DEFINE slot == IF n >= AnySlot \/ n = 0
                     THEN FindNextAvailableContainerSlot(items, c, p)
                     ELSE n
             R == RowsAt(items, c, from, s)
  <2>1. slot \in Nat BY <1>3, FreeSlotFound DEF Keyed
  <2>2. items' = Move(items, R, p, slot) BY <1>7 DEF PlainMove, Commit
  <2>3. R \subseteq Owned(items, c) BY DEF RowsAt, Owned
  <2> HIDE DEF slot, R
  <2>4. Relaid(items, Move(items, R, p, slot)) BY <1>2, <2>1, <2>3, MoveRelays
  <2> QED BY <2>2, <2>4 DEF from
<1> QED BY <1>4, <1>5, <1>6, <1>7

\* A move keeps the key.
LEMMA MoveKeyed ==
    ASSUME Typed, Keyed(items), NEW c \in Toons, MoveMessage(c)
    PROVE  Keyed(items')
<1> PICK type \in Types, t \in TempIds, s \in Slots, to \in Targets, b \in Bags, n \in Slots :
        Moves(c, type, t, s, to, b, n)
  BY DEF MoveMessage
<1> DEFINE from == GetFromContainerId(c, type, t)
<1>1. Relaid(items, items') \/ MergeOf(c, from, s, items') BY MoveOutcome
<1> HIDE DEF from
<1>2. CASE MergeOf(c, from, s, items')
  <2> DEFINE first == FindFirstItemOfSameType(items, c, from, s, INV_TOONINV)
  <2>1. PICK m \in StackAt(items, c, from, s) :
            items' = JoinInto(items, c, INV_TOONINV, first, from, s, m)
    BY <1>2 DEF MergeOf
  <2> HIDE DEF first
  <2> QED BY <2>1, JoinKeyed
<1> QED BY <1>1, <1>2 DEF Relaid

\* A move keeps the number of a kind, unless it merges a stack of the kind with itself.
LEMMA MoveAsMany ==
    ASSUME Typed, Keyed(items), Tidy(items), NEW c \in Toons, NEW k, MovesKind(c, k)
    PROVE  AsMany(c, k, items, items')
<1> PICK type \in Types, t \in TempIds, s \in Slots, to \in Targets, b \in Bags, n \in Slots :
        /\ Moves(c, type, t, s, to, b, n)
        /\ HasAt(c, GetFromContainerId(c, type, t), s, k) =>
              ~ MergesWithItself(c, GetFromContainerId(c, type, t), s,
                                 NewParent(GetFromContainerId(c, type, t), to, b), n)
  BY DEF MovesKind
<1> DEFINE from == GetFromContainerId(c, type, t)
           first == FindFirstItemOfSameType(items, c, from, s, INV_TOONINV)
           P == RowsAt(items, c, INV_TOONINV, first)
           Q == RowsAt(items, c, from, s)
<1>1. \/ Relaid(items, items')
      \/ MergeOf(c, from, s, items') /\ MergeMove(c, from, s, n)
         /\ NewParent(from, to, b) = INV_TOONINV
  BY MoveOutcome
<1>2. Named(from, s) BY DEF Moves
<1>3. CASE Relaid(items, items') BY <1>3, RelaidAsMany
<1>4. CASE MergeOf(c, from, s, items') /\ MergeMove(c, from, s, n)
           /\ NewParent(from, to, b) = INV_TOONINV
  <2>1. n >= AnySlot /\ IsStackable(c, from, s) /\ first > 0 BY <1>4 DEF MergeMove
  <2>2. PICK m \in StackAt(items, c, from, s) :
            items' = JoinInto(items, c, INV_TOONINV, first, from, s, m)
    BY <1>4 DEF MergeOf
  <2>3. \A x \in P, y \in Q : x.kind = y.kind
    <3>1. Table(items) BY DEF Keyed
    <3> HIDE DEF from
    <3> QED BY <1>2, <2>1, <3>1, MergedAreSame
  <2>4. Q # {} BY <2>1 DEF IsStackable
  <2>5. CASE \E y \in Q : y.kind = k
    <3>1. HasAt(c, from, s, k) BY <2>5 DEF HasAt
    <3>2. <<INV_TOONINV, first>> # <<from, s>>
      BY <1>4, <2>1, <3>1 DEF MergesWithItself
    <3>3. P # {} BY <2>1, MergeHasTarget DEF Keyed
    <3>4. Named(INV_TOONINV, first) BY <2>1 DEF Named
    <3> HIDE DEF from, first
    <3> QED BY <1>2, <2>2, <2>3, <2>4, <3>2, <3>3, <3>4, JoinAsMany
  <2>6. CASE ~ \E y \in Q : y.kind = k
    <3>1. \A r \in P \cup Q : r.kind # k BY <2>3, <2>4, <2>6
    <3> HIDE DEF from, first
    <3> QED BY <2>2, <3>1, JoinElsewhere
  <2> QED BY <2>5, <2>6
<1> QED BY <1>1, <1>3, <1>4

\* What a split does.
LEMMA SplitOutcome ==
    ASSUME Typed, Keyed(items), NEW c \in Toons,
           NEW type \in Types, NEW t \in TempIds, NEW s \in Slots, NEW n \in 1..MaxStack,
           Splits(c, type, t, s, n)
    PROVE  /\ Keyed(items')
           /\ Tidy(items) => \A k : AsMany(c, k, items, items')
<1> DEFINE from  == GetFromContainerId(c, type, t)
           slot  == FindNextAvailableContainerSlot(items, c, from)
           new   == SplitOff(items, c, from, s, n, slot)
           split == items \cup Copies(items, new)
           less  == TakeFromStack(split, RowsAt(split, c, from, s), n)
<1>1. items' = items \/ (RoomFor(items, new) /\ items' = less)
  BY DEF Splits, SplitStack, Abandon, Commit, SplitOff
<1>2. n \in Int BY MoveAssumption
<1>3. slot \in Nat /\ (~ Named(from, slot) \/ RowsAt(items, c, from, slot) = {})
  BY FreeSlotFound DEF Keyed
<1>4. Named(from, s) BY DEF Splits
<1>5. CASE items' = items BY <1>5, SameRowsAsMany
<1>6. CASE RoomFor(items, new) /\ items' = less
  <2> HIDE DEF from, slot
  <2>1. RoomFor(items, SplitOff(items, c, from, s, n, slot)) BY <1>6
  <2>2. split = items \cup Copies(items, SplitOff(items, c, from, s, n, slot)) OBVIOUS
  <2>3. less = TakeFromStack(split, RowsAt(split, c, from, s), n) OBVIOUS
  <2> HIDE DEF new, split, less
  <2>4. Keyed(less) /\ (Tidy(items) => \A k : AsMany(c, k, items, less))
    BY <1>2, <1>3, <1>4, <2>1, <2>2, <2>3, SplitFacts
  <2> QED BY <1>6, <2>4
<1> QED BY <1>1, <1>5, <1>6

\* Two stacks the table has, joined.
LEMMA JoinOutcome ==
    ASSUME Keyed(items), Tidy(items), NEW c \in Toons, NEW k, JoinsKnown(c)
    PROVE  AsMany(c, k, items, items')
<1> PICK type \in Types, t \in TempIds, s \in Slots,
         type2 \in Types, t2 \in TempIds, s2 \in Slots :
            /\ Known(c, type, t, s)
            /\ Known(c, type2, t2, s2)
            /\ Joins(c, type, t, s, type2, t2, s2)
  BY DEF JoinsKnown
<1> DEFINE q == GetFromContainerId(c, type2, t2)
           p == GetFromContainerId(c, type, t)
<1>1. PICK n \in StackAt(items, c, q, s2) : items' = JoinInto(items, c, p, s, q, s2, n)
  BY DEF Joins, JoinStacks, Commit
<1>2. /\ Named(p, s) /\ Named(q, s2) /\ <<p, s>> # <<q, s2>>
      /\ \A x \in RowsAt(items, c, p, s), y \in RowsAt(items, c, q, s2) : x.kind = y.kind
  BY DEF Joins, Joinable
<1>3. RowsAt(items, c, p, s) # {} /\ RowsAt(items, c, q, s2) # {} BY DEF Known
<1> HIDE DEF p, q
<1> QED BY <1>1, <1>2, <1>3, JoinAsMany

-----------------------------------------------------------------------------
(* The key of the table.                                                   *)

\* Deletions of all kinds.
LEMMA DeleteKeyed ==
    ASSUME Keyed(items), NEW c \in Toons, DeleteMessage(c) \/ DeleteTempMessage(c)
    PROVE  Keyed(items')
<1>1. \E R : items' = items \ R
  <2>1. CASE DeleteTempMessage(c) BY <2>1 DEF DeleteTempMessage, DeleteTempItem, Execute
  <2>2. CASE DeleteMessage(c)
    <3>1. PICK type \in Types, t \in TempIds, s \in Slots :
             \/ \E k \in Kinds : ClientDeleteItem(c, type, t, s, k)
             \/ ServerDeleteItem(c, type, t, s)
      BY <2>2 DEF DeleteMessage
    <3>2. items = items \ {} OBVIOUS
    <3> QED BY <3>1, <3>2 DEF ClientDeleteItem, ServerDeleteItem, Abandon, Commit
  <2> QED BY <2>1, <2>2
<1> QED BY <1>1, DeletionKeyed

\* A join.
LEMMA JoinMessageKeyed ==
    ASSUME Keyed(items), NEW c \in Toons, JoinMessage(c)
    PROVE  Keyed(items')
<1> PICK type \in Types, t \in TempIds, s \in Slots,
         type2 \in Types, t2 \in TempIds, s2 \in Slots : Joins(c, type, t, s, type2, t2, s2)
  BY DEF JoinMessage
<1> DEFINE q == GetFromContainerId(c, type2, t2)
           p == GetFromContainerId(c, type, t)
<1>1. PICK n \in StackAt(items, c, q, s2) : items' = JoinInto(items, c, p, s, q, s2, n)
  BY DEF Joins, JoinStacks, Commit
<1> HIDE DEF p, q
<1> QED BY <1>1, JoinKeyed

\* What appears in the overflow window.
LEMMA AppearanceKeyed ==
    ASSUME Keyed(items), NEW c \in Toons, TradeskillMessage(c) \/ RewardMessage(c)
    PROVE  Keyed(items')
<1> DEFINE Place(s) == IF s >= AnySlot
                       THEN FindNextAvailableContainerSlot(items, c, INV_OVERFLOW)
                       ELSE s
           New(k, n, s) == Item(k, n, INV_OVERFLOW, Place(s), 0, c)
<1>1. \/ items' = items
      \/ \E k \in Kinds, n \in Stacks, s \in Slots :
            RoomFor(items, {New(k, n, s)}) /\ items' = InsertItems(items, {New(k, n, s)})
  <2>1. CASE TradeskillMessage(c)
    <3>1. PICK k \in Kinds, n \in 1..MaxStack, s \in Slots : TradeskillResult(c, k, n, s)
      BY <2>1 DEF TradeskillMessage
    <3>2. n \in Stacks BY MoveAssumption DEF Stacks
    <3> QED BY <3>1, <3>2 DEF TradeskillResult, Commit
  <2>2. CASE RewardMessage(c)
    <3>1. PICK t \in TempItemIds, s \in Slots :
            NameTempItem(c, t, s) \/ \E k \in Kinds : SpawnReward(c, t, k, s)
      BY <2>2 DEF RewardMessage
    <3>2. 1 \in Stacks BY DEF Stacks
    <3>3. CASE NameTempItem(c, t, s) BY <3>3 DEF NameTempItem, session
    <3>4. CASE \E k \in Kinds : SpawnReward(c, t, k, s)
      BY <3>2, <3>4 DEF SpawnReward, Commit
    <3> QED BY <3>1, <3>3, <3>4
  <2> QED BY <2>1, <2>2
<1>2. CASE items' = items BY <1>2
<1>3. ASSUME NEW k \in Kinds, NEW n \in Stacks, NEW s \in Slots,
             RoomFor(items, {New(k, n, s)}), items' = InsertItems(items, {New(k, n, s)})
      PROVE  Keyed(items')
  <2>1. Place(s) \in Nat BY StartAssumption, FreeSlotFound DEF Keyed
  <2>2. INV_OVERFLOW \in Nat /\ 0 \in Nat BY DEF INV_OVERFLOW
  <2> DEFINE S == {New(k, n, s)}
  <2>3. \A y \in S : /\ y.kind \in Kinds /\ y.stack \in Stacks /\ y.parent \in Nat
                     /\ y.slot \in Nat /\ y.children \in Nat /\ y.owner \in Toons
    <3> HIDE DEF Place
    <3> QED BY <2>1, <2>2 DEF Item
  <2>4. IsFiniteSet(S) BY FS_Singleton
  <2> HIDE DEF S, New
  <2>5. Keyed(InsertItems(items, S)) BY <1>3, <2>3, <2>4, InsertionKeyed DEF S
  <2> QED BY <1>3, <2>5 DEF S
<1> HIDE DEF New
<1> QED BY <1>1, <1>2, <1>3

\* An item used up.
LEMMA UseKeyed ==
    ASSUME Keyed(items), NEW c \in Toons, UseMessage(c)
    PROVE  Keyed(items')
<1> PICK type \in Types, t \in TempIds, s \in Slots, k \in Kinds : UseItem(c, type, t, s, k)
  BY DEF UseMessage
<1> DEFINE from == GetFromContainerId(c, type, t)
           used(db) == {r \in RowsAt(db, c, from, s) : r.kind = k /\ k \in Depletable}
           R == used(items)
           less == TakeFromStack(items, R, 1)
           f == [r \in R |-> [r EXCEPT !.stack = Minus(r.stack, 1)]]
           U == {f[r] : r \in R}
<1>1. items' = less \ {r \in used(less) : r.stack = 0} BY DEF UseItem, Commit
<1>2. \A r \in R : r \in Row /\ r \in items BY DEF RowsAt, Keyed, Table
<1>3. R \subseteq Owned(items, c) BY DEF RowsAt, Owned
<1>4. \A r \in R : f[r].id = r.id BY <1>2 DEF Row
<1>5. less = (items \ R) \cup U BY DEF TakeFromStack
<1> HIDE DEF f, used
<1>6. Keyed(less)
  <2>1. 1 \in Stacks BY DEF Stacks
  <2>2. Table(less) BY <1>3, <2>1, StackFacts DEF Keyed, Sound
  <2>3. IdsDistinct((items \ R) \cup U)
    <3>1. \A u \in U : \E x \in R : u = f[x] OBVIOUS
    <3>2. R \subseteq items /\ \A x \in R : f[x].id = x.id BY <1>2, <1>4
    <3> HIDE DEF R, U
    <3> QED BY <3>1, <3>2, IdsKept DEF Keyed
  <2> QED BY <1>5, <2>2, <2>3 DEF Keyed
<1> HIDE DEF less
<1> QED BY <1>1, <1>6, DeletionKeyed

\* Every message of a character.
LEMMA MessageKeyed ==
    ASSUME Typed, Keyed(items), NEW c \in Toons, Message(c)
    PROVE  Keyed(items')
<1>1. SplitMessage(c) => Keyed(items') BY SplitOutcome DEF SplitMessage
<1> QED BY <1>1, MoveKeyed, DeleteKeyed, JoinMessageKeyed, AppearanceKeyed, UseKeyed DEF Message

\* Ids that were distinct at the start stay so.
LEMMA AlwaysKeyed ==
    ASSUME \A db \in Loadouts : IdsDistinct(db)
    PROVE  Spec => []Keyed(items)
<1>1. Init => Keyed(items)
  BY StartAssumption DEF Init, Start, SessionInit, Keyed, Table
<1>2. Typed /\ Keyed(items) /\ [Next]_vars => Keyed(items)'
  <2> SUFFICES ASSUME Typed, Keyed(items), [Next]_vars PROVE Keyed(items') OBVIOUS
  <2>1. CASE items' = items BY <2>1
  <2>2. CASE Next
    <3>1. PICK c \in Toons : Message(c) BY <2>2 DEF Next
    <3> QED BY <3>1, MessageKeyed
  <2> QED BY <2>1, <2>2 DEF vars, session
<1> QED BY <1>1, <1>2, AlwaysTyped, PTL DEF Spec

\* Moving, swapping, merging, splitting and joining stacks changes where things are,
\* never how many of a kind a character has, in every session that starts on tidy
\* tables.  The merge of a stack with itself and joins of which the table lacks a stack
\* are no rearrangements (see MovesKind and JoinsKnown).
THEOREM NothingLostInMoves ==
    ASSUME \A db \in Loadouts : Tidy(db) /\ IdsDistinct(db)
    PROVE  Spec => StacksConserved
<1>1. Typed /\ Keyed(items) /\ Tidy(items) /\ [Next]_vars =>
        [\A c \in Toons, k \in Kinds :
            ~ Keeps(c, k) => ~ (MovesKind(c, k) \/ SplitsKnown(c) \/ JoinsKnown(c))]_vars
  <2> SUFFICES ASSUME Typed, Keyed(items), Tidy(items), NEW c \in Toons, NEW k \in Kinds,
                      MovesKind(c, k) \/ SplitsKnown(c) \/ JoinsKnown(c)
               PROVE  Keeps(c, k)
    OBVIOUS
  <2>1. SplitsKnown(c) => AsMany(c, k, items, items') BY SplitOutcome DEF SplitsKnown
  <2>2. AsMany(c, k, items, items') BY <2>1, MoveAsMany, JoinOutcome
  <2> QED BY <2>2 DEF AsMany, Keeps
<1>2. /\ Spec => []Tidy(items)
      /\ Spec => []Keyed(items)
  BY AlwaysTidy, AlwaysKeyed
<1> QED BY <1>1, <1>2, AlwaysTyped, PTL DEF Spec, StacksConserved
=============================================================================
