------------------------------ MODULE Messages ------------------------------
(***************************************************************************)
(* CMainFrame::OnAOMessage: what the hook has copied over is given to a    *)
(* parser of its header, and the handlers read it again, through structs   *)
(* (namespace Native) or cursors (namespace Parsers).  What the game sends *)
(* is modelled from what the code reads.                                   *)
(***************************************************************************)
EXTENDS Wire

CONSTANT Inputs        \* the messages delivered, [origin, type, kind, fields]

VARIABLES data,        \* the message in WM_COPYDATA, NoData between two
          decoded      \* what the header parser and the handler have read

msgvars == <<data, decoded>>

NoData == [origin |-> "none"]
-----------------------------------------------------------------------------
\* aopackets.h
ObjectId == << <<"low", 4>>, <<"high", 4>> >>
Header == << <<"headerid", 4>>, <<"unknown1", 2>>, <<"msgsize", 2>>, <<"serverid", 4>>,
             <<"charid", 4>>, <<"msgid", 4>>, <<"target.low", 4>>, <<"target.high", 4>> >>
InvItemId == << <<"zero", 2>>, <<"type", 2>>, <<"containerTempId", 2>>, <<"itemSlotId", 2>> >>
MoveData == << <<"pad", 1>> >> \o Nested("fromItem", InvItemId) \o Nested("toContainer", ObjectId)
            \o << <<"unknown3", 2>>, <<"targetSlot", 2>> >>
CharacterAction ==
  Header \o << <<"pad", 1>>, <<"operationId", 4>>, <<"unknown3", 4>> >>
  \o Nested("itemToDelete", InvItemId) \o Nested("itemId", ObjectId) \o << <<"zeroes2", 2>> >>
GiveToNPC ==
  Header \o << <<"pad", 1>>, <<"operationId", 2>> >> \o Nested("npcID", ObjectId)
  \o << <<"direction", 4>>, <<"unknown3", 4>>, <<"unknown4", 4>> >> \o Nested("invItemGiven", InvItemId)
EndNPCTrade ==
  Header \o << <<"pad", 1>>, <<"operationId", 2>> >> \o Nested("npcID", ObjectId)
  \o << <<"operation", 4>>, <<"unknown2", 4>> >>
NPCTradeAcceptBase ==
  Header \o << <<"pad", 1>>, <<"operationId", 2>>, <<"npcID.low", 4>>, <<"npcID.high", 4>>, <<"itemCount", 4>> >>
NPCTradeRejectedItem == << <<"itemid.low", 4>>, <<"itemid.high", 4>>, <<"ql", 4>>, <<"unknown1", 4>> >>
TradeTransaction ==
  Header \o << <<"pad", 1>>, <<"unknown2", 4>>, <<"operationId", 1>> >> \o Nested("fromId", ObjectId)
  \o Nested("itemToTrade", InvItemId)
PartnerTradeItem ==
  Header \o << <<"pad", 1>> >> \o Nested("itemid", ObjectId)
  \o << <<"ql", 4>>, <<"flags", 2>>, <<"stack", 2>>, <<"operationId", 4>> >>
  \o Nested("partnerInvItem", InvItemId) \o Nested("myInvItemNotUsed", InvItemId)
BoughtItemFromShop ==
  Header \o << <<"pad", 1>> >> \o Nested("itemid", ObjectId) \o << <<"ql", 4>>, <<"flags", 2>>, <<"stack", 2>> >>
KeyValue(key, value) == << <<key, 4>>, <<value, 4>> >>
Backpack ==
  Header \o << <<"pad", 1>>, <<"unknown2", 4>> >> \o Nested("ownerId", ObjectId)
  \o << <<"zone", 4>>, <<"unCons", 4>>, <<"zeroes1", 4>>, <<"operationId", 1>>, <<"invSlot", 1>>, <<"mass", 4>> >>
  \o KeyValue("zeroes2", "flags") \o KeyValue("key17", "itemKey1") \o KeyValue("key2bd", "ql")
  \o KeyValue("key2be", "itemKeyLow") \o KeyValue("key2bf", "itemKeyHigh") \o KeyValue("key19c", "one")
Container == Header \o << <<"object", 4>>, <<"numslots", 1>>, <<"three", 4>>, <<"mass", 4>> >>
ContItem == << <<"index", 4>>, <<"flags", 2>>, <<"stack", 2>>, <<"containerid.low", 4>>, <<"containerid.high", 4>>,
               <<"itemid.low", 4>>, <<"itemid.high", 4>>, <<"ql", 4>>, <<"nullval", 4>> >>
ContEnd == << <<"containerId.low", 4>>, <<"containerId.high", 4>>, <<"tempContainerId", 4>>, <<"nullval", 4>> >>
Bank == Header \o << <<"pad", 1>>, <<"mass", 4>> >>
ItemMoved == Header \o MoveData
-----------------------------------------------------------------------------
\* Mutant: a message of the client is read like one of the server.
AOMessageHeaderOfServer(m, fromServer) ==
  LET h == Overlay(m, 0, Header)
  IN [msgid |-> h["msgid"], charid |-> h["charid"], size |-> h["msgsize"], targetId |-> h["target.high"]]

\* Native::AOMessageHeader: the character is the target of what it sends.
AOMessageHeader(m, fromServer) ==
  LET h == Overlay(m, 0, Header)
  IN [msgid |-> h["msgid"], charid |-> IF fromServer THEN h["charid"] ELSE h["target.high"],
      size |-> h["msgsize"], targetId |-> h["target.high"]]

\* AOItem(i) of a container or bank.
NativeItems(m, first, n) ==
  [i \in 1 .. n |-> Overlay(m, first + Size(ContItem) * (i - 1), ContItem)]

\* Native::AOContainer and AOBank
NativeContainer(m) ==
  LET n == ItemCount(Overlay(m, 0, Container)["mass"][2])
      end == Overlay(m, Size(Container) + Size(ContItem) * n, ContEnd)
  IN [items |-> NativeItems(m, Size(Container), n),
      id |-> end["containerId.high"], temp |-> end["tempContainerId"]]
NativeBank(m) == NativeItems(m, Size(Bank), ItemCount(Overlay(m, 0, Bank)["mass"][2]))

\* AONPCTradeAccept::rejectedItem(i)
RejectedItems(m) ==
  [i \in 1 .. Overlay(m, 0, NPCTradeAcceptBase)["itemCount"][2] |->
     Overlay(m, Size(NPCTradeAcceptBase) + Size(NPCTradeRejectedItem) * (i - 1), NPCTradeRejectedItem)]

\* The classes that give the members of one struct.
AOCharacterAction(m) == Overlay(m, 0, CharacterAction)
AOGiveToNPC(m) == Overlay(m, 0, GiveToNPC)
AOEndNPCTrade(m) == Overlay(m, 0, EndNPCTrade)
AOPartnerTradeItem(m) == Overlay(m, 0, PartnerTradeItem)
AOTradeTransaction(m) == Overlay(m, 0, TradeTransaction)
AOBoughtItemFromShop(m) == Overlay(m, 0, BoughtItemFromShop)
AOBackpack(m) == Overlay(m, 0, Backpack)
AOItemMoved(m) == Overlay(m, 0, ItemMoved)
-----------------------------------------------------------------------------
\* Parsers::AOMessageBase.  A type it does not know is not read any further.
ServerTypes == {"1", "A", "B", "D", "E"}
AOMessageBase(m, type) ==
  LET rest == << <<"skip", 2>>, <<"pop", 2, "size">>, <<"skip", 4>>, <<"pop", 4, "characterid">>,
                 <<"pop", 4, "messageid">>, <<"skip", 4>>, <<"pop", 4, "entityid">> >>
  IN IF type \notin ServerTypes THEN [pos |-> 4, got |-> <<>>]
     ELSE Read(m, 0, << <<"skip", 2>>, <<"pop", 2, "type">> >>
                     \o (IF type = "D" THEN << <<"pop", 1, "0A">> >> ELSE <<>>) \o rest)

\* Parsers::AOClientMessageBase
ClientTypes == {"1", "A", "B"}
AOClientMessageBase(m, type) ==
  IF type \notin ClientTypes THEN [pos |-> 4, got |-> <<>>]
  ELSE Read(m, 0, << <<"pop", 4, "type">>, <<"skip", 4>>, <<"skip", 4>>, <<"skip", 4>>,
                     <<"pop", 4, "messageid">>, <<"skip", 4>>, <<"pop", 4, "characterid">> >>)

\* Parsers::AOContainerItem, with the two AOObjectId in it.
Pop(width, name) == <<"pop", width, name>>
AOContainerItem ==
  << Pop(4, "index"), Pop(2, "flags"), Pop(2, "stack"), Pop(4, "containerid.low"), Pop(4, "containerid.high"),
     Pop(4, "itemid.low"), Pop(4, "itemid.high"), Pop(4, "ql"), <<"skip", 4>> >>

\* The beginning of AOContainer and AOPlayerShopContent.
ContainerItems(m, type) ==
  LET head == Read(m, AOMessageBase(m, type).pos,
                   << <<"skip", 4>>, Pop(1, "slots"), <<"skip", 4>>, Pop(4, "mass") >>)
  IN ReadMany(m, head.pos, ItemCount(head.got["mass"][2]), AOContainerItem)
AOContainer(m, type) ==
  LET items == ContainerItems(m, type)
      end == Read(m, items.pos, << Pop(4, "containerid.low"), Pop(4, "containerid.high"), Pop(4, "counter"), <<"skip", 4>> >>)
  IN [pos |-> end.pos, items |-> items.got, id |-> end.got["containerid.high"], temp |-> end.got["counter"]]

PriceCount == 21
AOPlayerShopContent(m, type) ==
  LET items == ContainerItems(m, type)
      shop == Read(m, items.pos, << <<"skip", 4>>, Pop(4, "shopid"), <<"skip", 12>> >>)
      prices == ReadMany(m, shop.pos, PriceCount, << Pop(4, "price") >>)
  IN [pos |-> Skip(m, prices.pos, 1), items |-> items.got, shopid |-> shop.got["shopid"], prices |-> prices.got]

AOPlayerShopInfo(m, type) ==
  LET label == PopString(m, Skip(m, AOMessageBase(m, type).pos, 126))
      owner == Read(m, label.pos, << <<"skip", 19>>, Pop(4, "ownerid"), <<"skip", 1>> >>)
      ownerName == PopString(m, owner.pos)
      guild == PopString(m, Skip(m, ownerName.pos, 4))
  IN [pos |-> guild.pos, label |-> label.got, ownerid |-> owner.got["ownerid"],
      ownerName |-> ownerName.got, guildName |-> guild.got]
-----------------------------------------------------------------------------
\* A count with the loop behind it: the count as pop3F1Count has it, or as is.
Counted(m, pos, script) ==
  ReadMany(m, pos + 4, Count3F1(ReadAt(m, pos, 4)[2]), script)
CountedPlain(m, pos, script) == ReadMany(m, pos + 4, ReadAt(m, pos, 4)[2], script)

\* The loop over the perk timers, a key and a counted list three times.
TimerList(m, pos) == CountedPlain(m, pos + 4, << <<"skip", 20>> >>).pos
Timers(m, start) == TimerList(m, TimerList(m, TimerList(m, start)))

\* m_stats[key] = val over a list.
SetStats(stats, list) ==
  LET s[i \in 0 .. Len(list)] == IF i = 0 THEN stats ELSE With(s[i - 1], list[i]["key"][2], list[i]["val"])
  IN s[Len(list)]

\* Mutant: the first map that has a key counts.
StatsOfFirst(lists) == SetStats(SetStats(SetStats(SetStats(<<>>, lists[4]), lists[3]), lists[2]), lists[1])

\* The four maps: the later one counts.
StatsOf(lists) == SetStats(SetStats(SetStats(SetStats(<<>>, lists[1]), lists[2]), lists[3]), lists[4])
Stat(keyWidth, valWidth) == << Pop(keyWidth, "key"), Pop(valWidth, "val") >>

\* Parsers::AOFullCharacterMessage
AOFullCharacterMessage(m, type) ==
  LET inventory == Counted(m, Read(m, AOMessageBase(m, type).pos, << Pop(1, "pad"), Pop(4, "version") >>).pos,
                           AOContainerItem)
      nanos == Counted(m, inventory.pos, << Pop(4, "nano") >>)
      empty1 == Counted(m, nanos.pos, <<>>)
      stats1 == Counted(m, Timers(m, empty1.pos), Stat(4, 4))
      stats2 == Counted(m, stats1.pos, Stat(4, 4))
      stats3 == Counted(m, stats2.pos, Stat(1, 1))
      stats4 == Counted(m, stats3.pos, Stat(1, 2))
      absorb == CountedPlain(m, stats4.pos, Stat(4, 4))
      empty2 == Counted(m, Skip(m, absorb.pos, 4), <<>>)
      empty3 == Counted(m, empty2.pos, <<>>)
      perks == Count3F1(ReadAt(m, empty3.pos, 4)[2])
  IN [pos |-> Skip(m, empty3.pos + 4, perks * 16), items |-> inventory.got, nanos |-> nanos.got,
      stats |-> StatsOf(<<stats1.got, stats2.got, stats3.got, stats4.got>>)]
-----------------------------------------------------------------------------
\* What the handler of a kind makes of the message.
Body(m, type, kind) ==
  CASE kind = "container" -> [native |-> NativeContainer(m), parsed |-> AOContainer(m, type)]
    [] kind = "bank" -> [native |-> NativeBank(m)]
    [] kind = "shopItems" -> [parsed |-> AOPlayerShopContent(m, type)]
    [] kind = "shopInfo" -> [parsed |-> AOPlayerShopInfo(m, type)]
    [] kind = "fullSync" -> [parsed |-> AOFullCharacterMessage(m, type)]
    [] kind = "npcAccept" -> [native |-> Overlay(m, 0, NPCTradeAcceptBase), rejected |-> RejectedItems(m)]
    [] kind = "characterAction" -> [native |-> AOCharacterAction(m)]
    [] kind = "giveToNpc" -> [native |-> AOGiveToNPC(m)]
    [] kind = "endNpcTrade" -> [native |-> AOEndNPCTrade(m)]
    [] kind = "partnerTrade" -> [native |-> AOPartnerTradeItem(m)]
    [] kind = "transaction" -> [native |-> AOTradeTransaction(m)]
    [] kind = "bought" -> [native |-> AOBoughtItemFromShop(m)]
    [] kind = "backpack" -> [native |-> AOBackpack(m)]
    [] kind = "itemMove" -> [native |-> AOItemMoved(m)]

\* The hook copies one message at a time; nothing of the last one is kept.
Deliver(origin) ==
  /\ data = NoData
  /\ \E input \in Inputs :
       /\ input.origin = origin
       /\ data' = input
  /\ decoded' = NoData

\* The handlers see what has a message id.
Handled(m, head, fromServer) ==
  IF head = <<>> THEN [input |-> data, head |-> head]
  ELSE [input |-> data, head |-> head, header |-> AOMessageHeader(m, fromServer),
        body |-> Body(m, data.type, data.kind)]

\* dwData 1: from the server.
OnAOServerMessage ==
  /\ data.origin = "server"
  /\ \E m \in {Message(data.fields)} : \E head \in {AOMessageBase(m, data.type).got} :
       decoded' = Handled(m, head, TRUE)
  /\ data' = NoData

\* dwData 2: from the client.
OnAOClientMessage ==
  /\ data.origin = "client"
  /\ \E m \in {Message(data.fields)} : \E head \in {AOClientMessageBase(m, data.type).got} :
       decoded' = Handled(m, head, FALSE)
  /\ data' = NoData

MessagesInit == data = NoData /\ decoded = NoData
MessagesNext ==
  \/ \E origin \in {"server", "client"} : Deliver(origin)
  \/ OnAOServerMessage
  \/ OnAOClientMessage
MessagesSpec == MessagesInit /\ [][MessagesNext]_msgvars
=============================================================================
