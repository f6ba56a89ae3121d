---------------------------- MODULE TradeLedger ----------------------------
(***************************************************************************)
(* What the bookkeeping of a trade promises, as sets of items: an item the *)
(* character has is held or offered, one the partner offers is incoming.   *)
(* Whatever the moves between the windows, an item leaves the books only   *)
(* by a settled trade or because the partner takes his offer back.         *)
(***************************************************************************)
CONSTANTS Toons, Ids

VARIABLES held, offered, incoming

books == <<held, offered, incoming>>

Known(c) == held[c] \cup offered[c] \cup incoming[c]

LedgerInit ==
    /\ held \in [Toons -> SUBSET Ids]
    /\ offered = [c \in Toons |-> {}]
    /\ incoming = [c \in Toons |-> {}]

\* X is an item, with what it contains.
Offer(c, X) ==
    /\ X \subseteq held[c]
    /\ held' = [held EXCEPT ![c] = @ \ X]
    /\ offered' = [offered EXCEPT ![c] = @ \cup X]
    /\ UNCHANGED incoming

Withdraw(c, X) ==
    /\ X \subseteq offered[c]
    /\ held' = [held EXCEPT ![c] = @ \cup X]
    /\ offered' = [offered EXCEPT ![c] = @ \ X]
    /\ UNCHANGED incoming

Propose(c, x) ==
    /\ x \in Ids \ UNION {Known(o) : o \in Toons}
    /\ incoming' = [incoming EXCEPT ![c] = @ \cup {x}]
    /\ UNCHANGED <<held, offered>>

Retract(c, x) ==
    /\ x \in incoming[c]
    /\ incoming' = [incoming EXCEPT ![c] = @ \ {x}]
    /\ UNCHANGED <<held, offered>>

\* The trade is off: every offer goes back to where it came from.
CallOff(c) ==
    /\ held' = [held EXCEPT ![c] = @ \cup offered[c]]
    /\ offered' = [offered EXCEPT ![c] = {}]
    /\ incoming' = [incoming EXCEPT ![c] = {}]

\* The trade is done: the offers are gone, except those the partner did not
\* want, and his own are held.
Settle(c, unwanted) ==
    /\ unwanted \subseteq offered[c]
    /\ held' = [held EXCEPT ![c] = @ \cup unwanted \cup incoming[c]]
    /\ offered' = [offered EXCEPT ![c] = {}]
    /\ incoming' = [incoming EXCEPT ![c] = {}]

\* Something comes from elsewhere.
Receive(c, x) ==
    /\ x \in Ids \ UNION {Known(o) : o \in Toons}
    /\ held' = [held EXCEPT ![c] = @ \cup {x}]
    /\ UNCHANGED <<offered, incoming>>

LedgerNext ==
    \E c \in Toons :
        \/ \E X \in SUBSET held[c] : Offer(c, X)
        \/ \E X \in SUBSET offered[c] : Withdraw(c, X) \/ Settle(c, X)
        \/ \E x \in Ids : Propose(c, x) \/ Retract(c, x) \/ Receive(c, x)
        \/ CallOff(c)

LedgerSpec == LedgerInit /\ [][LedgerNext]_books
=============================================================================
