---------------------------- MODULE StoredItems ----------------------------
(***************************************************************************)
(* tItems and tToons as the views of the application see them: rows that   *)
(* message handlers add, move, number anew and take away between any two   *)
(* events of the windows (ItemMoves, Trades and Containers say when), and  *)
(* the queries behind the item list.                                       *)
(*                                                                         *)
(* Characters, items of the game database and containers are numbers, for  *)
(* the list sorts by them; an item's name sorts as its number does.  thing *)
(* is no column: it tells the items of the game apart, whatever itemidx    *)
(* their rows have.                                                        *)
(***************************************************************************)
EXTENDS Integers, FiniteSets

CONSTANTS
    Toons,      \* the characters
    Kinds,      \* the items of the game, as keylow = keyhigh
    Listed,     \* those of them that tblAO has
    Bags,       \* the container ids of backpacks
    Places,     \* where message handlers put an item: <<parent, slot>>
    Arrivals,   \* what they bring: <<owner, kind, container or 0>>
    Starts      \* what to start from: tItems, the last itemidx given out, and a
                \* bound on the number of messages, writes to files and clicks

Bank      == 1
Inventory == 2
Shop      == 3

ASSUME StoredAssumption ==
    /\ Listed \subseteq Kinds
    /\ Toons \subseteq Nat \ {0}
    /\ Bags \subseteq Nat \ 0..10
    /\ Places \subseteq ({Bank, Inventory, Shop} \cup Bags) \X Nat
    /\ Arrivals \subseteq Toons \X Kinds \X (Bags \cup {0})

Row == [id: Nat, thing: Nat, kind: Kinds, parent: Nat, slot: Nat,
        children: Bags \cup {0}, owner: Toons]

ASSUME StartAssumption ==
    \A s \in Starts :
       /\ s.items \subseteq Row /\ s.lastId \in Nat /\ s.left \in Nat \X Nat \X Nat
       /\ \A r \in s.items : r.id <= s.lastId
       /\ \A r, q \in s.items : r.id = q.id \/ (r.children > 0 /\ r.children = q.children) => r = q

VARIABLES
    items,   \* tItems
    lastId,  \* the largest itemidx ever given out
    toons,   \* the characters in tToons
    left     \* how much of the budget is left

tables == <<items, lastId, toons>>

Biggest(S) == IF S = {} THEN 0 ELSE CHOOSE x \in S : \A y \in S : y <= x

\* Mutant: a key without AUTOINCREMENT follows the largest one in the table.
NewIdOfTable(last, db) == Biggest({r.id : r \in db}) + 1

\* itemidx is AUTOINCREMENT: no number is given out twice.
NewId(last, db) == last + 1

StoredInit ==
    /\ \E s \in Starts : items = s.items /\ lastId = s.lastId /\ left = s.left
    /\ toons = Toons

Spend(i) == left[i] > 0 /\ left' = [left EXCEPT ![i] = @ - 1]

-----------------------------------------------------------------------------
(* What the handlers of game messages do to the tables.                    *)

\* An item comes; a backpack has one row only.
Arrive(c, k, p, b) ==
    /\ b = 0 \/ (p[1] \notin Bags /\ \A r \in items : r.children # b)
    /\ items' = items \cup {[id |-> NewId(lastId, items), thing |-> lastId + 1, kind |-> k,
                             parent |-> p[1], slot |-> p[2], children |-> b, owner |-> c]}
    /\ lastId' = lastId + 1
    /\ toons' = toons \cup {c}

\* An item is moved, also into a backpack of another character.
Shift(r, p) ==
    /\ r.children = 0 \/ p[1] \notin Bags
    /\ items' = (items \ {r}) \cup {[r EXCEPT !.parent = p[1], !.slot = p[2]]}
    /\ UNCHANGED <<lastId, toons>>

Leave(r) ==
    /\ items' = items \ {r}
    /\ UNCHANGED <<lastId, toons>>

\* Whole containers are deleted and inserted again.
Renumber(r) ==
    /\ items' = (items \ {r}) \cup {[r EXCEPT !.id = NewId(lastId, items \ {r})]}
    /\ lastId' = lastId + 1
    /\ UNCHANGED toons

Message ==
    /\ Spend(1)
    /\ \/ \E a \in Arrivals, p \in Places : Arrive(a[1], a[2], p, a[3])
       \/ \E r \in items :
             \/ \E p \in Places : Shift(r, p)
             \/ Leave(r)
             \/ Renumber(r)

-----------------------------------------------------------------------------
(* What the windows do to the tables.                                      *)

DeleteItems(ids) == {r \in items : r.id \notin ids}

\* The contents of a container and the container, whoever owns them.
DeleteContainer(box) == {r \in items : r.parent # box /\ r.children # box}

DeleteToon(c) == {r \in items : r.owner # c}

-----------------------------------------------------------------------------
(* The location column of the item list and of the CSV file.               *)

\* Mutant: the implants reach one slot further than in the tree.
PanelOfOneMore(parent, slot) ==
    CASE parent = Bank -> "Bank"
      [] parent = Shop -> "Shop"
      [] parent = Inventory /\ slot > 63 -> "Inventory"
      [] parent = Inventory /\ slot < 16 -> "Weapons"
      [] parent = Inventory /\ slot \in 16..31 -> "Cloth"
      [] parent = Inventory /\ slot \in 32..47 -> "Implants"
      [] parent = Inventory /\ slot \in 48..63 -> "Social"
      [] OTHER -> "NULL"

PanelOf(parent, slot) ==
    CASE parent = Bank -> "Bank"
      [] parent = Shop -> "Shop"
      [] parent = Inventory /\ slot > 63 -> "Inventory"
      [] parent = Inventory /\ slot < 16 -> "Weapons"
      [] parent = Inventory /\ slot \in 16..31 -> "Cloth"
      [] parent = Inventory /\ slot \in 32..46 -> "Implants"
      [] parent = Inventory /\ slot \in 47..63 -> "Social"
      [] OTHER -> "NULL"

\* What is in a backpack is where the backpack is.
Location(r, db) ==
    IF r.parent <= 10 THEN PanelOf(r.parent, r.slot)
    ELSE LET bags == {x \in db : x.children = r.parent}
         IN  IF bags = {} THEN "NULL"
             ELSE LET bag == CHOOSE x \in bags : TRUE IN PanelOf(bag.parent, bag.slot)

\* Only items of the game database and of known characters are listed.
Joined(db) == {r \in db : r.kind \in Listed /\ r.owner \in toons}
=============================================================================
