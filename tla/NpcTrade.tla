----------------------------- MODULE NpcTrade -----------------------------
(***************************************************************************)
(* Trading with NPCs: MSG_GIVE_TO_NPC and MSG_END_NPC_TRADE from the       *)
(* client, MSG_ACCEPT_NPC_TRADE from the server.  Items wait in the same   *)
(* container as in a trade with a player.                                  *)
(***************************************************************************)
EXTENDS TradeWindow, Sequences, SequencesExt

VARIABLE
    deal        \* the game's side of the last message: what the NPC kept and
                \* what it sent back, empty sets after any other message

\* The direction says whether an item is put into the window or taken back.
GiveToNpc(c, back, type, t, s) ==
    /\ MoveToFreeSlot(c, GetFromContainerId(c, type, t), s,
                      IF back THEN INV_TOONINV ELSE INV_TRADE)
    /\ UNCHANGED caches

\* Mutant: what is in the window is taken for given.
EndNpcTradeGiven(c) ==
    /\ Commit(items \ Rows(items, c, INV_TRADE))
    /\ UNCHANGED caches

\* The window is closed without a deal.
EndNpcTrade(c) ==
    /\ Commit(MoveBack(items, c))
    /\ UNCHANGED caches

\* Mutants: the window is emptied first; it is not emptied at all.
AcceptEmptiesFirst(c, rejected) ==
    /\ Commit(items \ Rows(items, c, INV_TRADE))
    /\ UNCHANGED caches

AcceptReturnsAll(c, rejected) ==
    /\ Commit(MoveBack(items, c))
    /\ UNCHANGED caches

\* What the window has of one kind goes back, unless the inventory is full.
TakeBack(db, c, k) ==
    LET slot == FindNextAvailableContainerSlot(db, c, INV_TOONINV)
    IN  IF slot >= InvFull THEN db
        ELSE Move(db, {r \in Rows(db, c, INV_TRADE) : r.kind = k}, INV_TOONINV, slot)

\* One kind after the other.
TakeAllBack(db, c, kinds) ==
    LET after[n \in 0..Len(kinds)] ==
            IF n = 0 THEN db ELSE TakeBack(after[n - 1], c, kinds[n])
    IN  after[Len(kinds)]

\* The server lists the items the NPC did not want; they go back by their
\* kind, and the rest of the window is deleted.
NpcTradeAccept(c, rejected) ==
    LET back == TakeAllBack(items, c, rejected)
    IN  /\ Commit(back \ Rows(back, c, INV_TRADE))
        /\ UNCHANGED caches

-----------------------------------------------------------------------------
(* The messages that arrive.  Items are given from a container and taken   *)
(* back from the window; the NPC rejects some of what it was given.        *)

NoDeal == [kept |-> {}, rejected |-> {}]

GiveMessage(c) ==
    /\ trading[c] \in {"none", "npc"}
    /\ \E type \in Types, t \in TempIds, s \in Slots :
          /\ Named(GetFromContainerId(c, type, t), s)
          /\ GiveToNpc(c, type = "trade", type, t, s)
    /\ deal' = NoDeal
    /\ TradesWith(c, "npc")

CloseMessage(c) ==
    /\ trading[c] = "npc"
    /\ EndNpcTrade(c)
    /\ deal' = NoDeal
    /\ TradesWith(c, "none")

\* An item is taken back by its kind, and what is identical to it comes along into
\* the same slot, kept or rejected (InventoryView.cpp:1017).  This is known to be
\* wrong and left out: an NPC may be given identical items, but rejects none of
\* which the window has another.
Singled(R, W) == \A r \in R, s \in W : r.kind = s.kind => r = s

AcceptMessage(c) ==
    /\ trading[c] = "npc"
    /\ \E R \in SUBSET Rows(items, c, INV_TRADE) : \E rejected \in SetToSeqs(R) :
          /\ Singled(R, Rows(items, c, INV_TRADE))
          /\ NpcTradeAccept(c, [n \in DOMAIN rejected |-> rejected[n].kind])
          /\ deal' = [kept |-> Id(Rows(items, c, INV_TRADE) \ R), rejected |-> Id(R)]
    /\ TradesWith(c, "none")

NpcMessage(c) == GiveMessage(c) \/ CloseMessage(c) \/ AcceptMessage(c)
=============================================================================
