---------------------------- MODULE GameMessages ----------------------------
(***************************************************************************)
(* The messages as the game sends them: their fields one after the other,  *)
(* from the dumps and remarks in aopackets.h and AOMessageIDs.h, and what  *)
(* must come out of the decoders.                                          *)
(***************************************************************************)
EXTENDS Messages

\* Field number k of a name; mass(n) is the game's way to write a count.
F(name, width) == <<name, width, 0>>
Fk(name, width, k) == <<name, width, k>>
Mass(n) == Fk("mass", 4, 1009 * (n + 1))
Pair(name) == << F(Member(name, "low"), 4), F(Member(name, "high"), 4) >>
Place(name) == << F(Member(name, "zero"), 2), F(Member(name, "type"), 2),
                  F(Member(name, "containerTempId"), 2), F(Member(name, "itemSlotId"), 2) >>
Times(n, Fields(_)) == FlattenSeq([k \in 1 .. n |-> Fields(k)])

SentHeader(origin, type) ==
  IF origin = "client"
  THEN << F("type", 4), F("zero", 4), F("receiver", 4), F("two", 4), F("msgid", 4), F("target.low", 4), F("target.high", 4) >>
  ELSE << F("seq", 2), F("type", 2) >> \o (IF type = "D" THEN << F("0A", 1) >> ELSE <<>>)
       \o << F("protocol", 2), F("msgsize", 2), F("serverid", 4), F("charid", 4), F("msgid", 4),
             F("target.low", 4), F("target.high", 4) >>

SentItem(k) ==
  << Fk("index", 4, k), Fk("flags", 2, k), Fk("stack", 2, k), Fk("containerid.low", 4, k), Fk("containerid.high", 4, k),
     Fk("itemid.low", 4, k), Fk("itemid.high", 4, k), Fk("ql", 4, k), Fk("nullval", 4, k) >>
SentContainer(n) == << F("object", 4), F("numslots", 1), F("three", 4), Mass(n) >> \o Times(n, SentItem)

SentStat(keyWidth, valWidth, section, k) ==
  << Fk("key", keyWidth, k), Fk("val", valWidth, 10 * section + k) >>
Timer(k) == << Fk("timer", 20, k) >>
Perk(k) == << Fk("perk", 16, k) >>
SentNano(k) == << Fk("nano", 4, k) >>
Absorb(k) == << Fk("a", 4, k), Fk("b", 4, k) >>
\* n has the numbers of items, nanos, timers in each of three lists, entries
\* of the four maps, absorb entries and perks.
SentSync(n) ==
  LET S1(k) == SentStat(4, 4, 1, k)  S2(k) == SentStat(4, 4, 2, k)
      S3(k) == SentStat(1, 1, 3, k)  S4(k) == SentStat(1, 2, 4, k)
      List(i) == << Fk("which", 4, i), Fk("count", 4, n.timers[i]) >> \o Times(n.timers[i], Timer)
  IN << F("pad", 1), F("version", 4), Mass(n.items) >> \o Times(n.items, SentItem)
     \o << Mass(n.nanos) >> \o Times(n.nanos, SentNano) \o << Mass(0) >>
     \o List(1) \o List(2) \o List(3)
     \o << Mass(n.stats[1]) >> \o Times(n.stats[1], S1) \o << Mass(n.stats[2]) >> \o Times(n.stats[2], S2)
     \o << Mass(n.stats[3]) >> \o Times(n.stats[3], S3) \o << Mass(n.stats[4]) >> \o Times(n.stats[4], S4)
     \o << Fk("count", 4, n.absorb) >> \o Times(n.absorb, Absorb) \o << F("unknown", 4), Mass(0), Mass(0) >>
     \o << Mass(n.perks) >> \o Times(n.perks, Perk)

SentPrice(k) == << Fk("price", 4, k) >>
SentText(name) == << Fk(Member(name, "len"), 1, 3), F(name, 4) >>
SentRejected(k) == << Fk("itemid.low", 4, k), Fk("itemid.high", 4, k), Fk("ql", 4, k), Fk("unknown1", 4, k) >>
\* A key and its value, as in the property list of a backpack.
Property(key, value) == << F(key, 4), F(value, 4) >>

SentBody(kind, n) ==
  CASE kind = "container" -> SentContainer(n.items) \o Pair("containerId") \o << F("tempContainerId", 4), F("nullval", 4) >>
    [] kind = "bank" -> << F("pad", 1), Mass(n.items) >> \o Times(n.items, SentItem)
    [] kind = "shopItems" -> SentContainer(n.items) \o << F("low", 4), F("shopid", 4), F("unknown", 12) >>
                             \o Times(PriceCount, SentPrice) \o << F("pad", 1) >>
    [] kind = "shopInfo" -> << F("unknown", 126) >> \o SentText("label") \o << F("unknown", 19), F("ownerid", 4), F("pad", 1) >>
                            \o SentText("ownerName") \o << F("unknown", 4) >> \o SentText("guildName")
    [] kind = "fullSync" -> SentSync(n)
    [] kind = "npcAccept" -> << F("pad", 1), F("operationId", 2) >> \o Pair("npcID") \o << Fk("itemCount", 4, n.items) >>
                             \o Times(n.items, SentRejected) \o << F("zero", 4) >>
    [] kind = "characterAction" -> << F("pad", 1), F("operationId", 4), F("unknown3", 4) >> \o Place("itemToDelete")
                                   \o Pair("itemId") \o << F("zeroes2", 2) >>
    [] kind = "transaction" -> << F("pad", 1), F("unknown2", 4), F("operationId", 1) >> \o Pair("fromId") \o Place("itemToTrade")
    [] kind = "partnerTrade" -> << F("pad", 1) >> \o Pair("itemid") \o << F("ql", 4), F("flags", 2), F("stack", 2), F("operationId", 4) >>
                                \o Place("partnerInvItem") \o Place("myInvItemNotUsed")
    [] kind = "bought" -> << F("pad", 1) >> \o Pair("itemid") \o << F("ql", 4), F("flags", 2), F("stack", 2) >>
    [] kind = "backpack" -> << F("pad", 1), F("unknown2", 4) >> \o Pair("ownerId")
                            \o << F("zone", 4), F("unCons", 4), F("zeroes1", 4), F("operationId", 1), F("invSlot", 1), F("mass", 4) >>
                            \o Property("zeroes2", "flags") \o Property("key17", "itemKey1") \o Property("key2bd", "ql")
                            \o Property("key2be", "itemKeyLow") \o Property("key2bf", "itemKeyHigh") \o Property("key19c", "one")
    [] kind = "itemMove" -> << F("pad", 1) >> \o Place("fromItem") \o Pair("toContainer") \o << F("unknown3", 2), F("targetSlot", 2) >>
    [] kind = "giveToNpc" -> << F("pad", 1), F("operationId", 2) >> \o Pair("npcID")
                             \o << F("direction", 4), F("unknown3", 4), F("unknown4", 4) >> \o Place("invItemGiven")
    [] kind = "endNpcTrade" -> << F("pad", 1), F("operationId", 2) >> \o Pair("npcID") \o << F("operation", 4), F("unknown2", 4) >>

Sent(origin, type, kind, n) ==
  [origin |-> origin, type |-> type, kind |-> kind, n |-> n, fields |-> SentHeader(origin, type) \o SentBody(kind, n)]

\* What is delivered are messages of the game, whatever follows their header.
ASSUME InputsAssumption ==
  \A input \in Inputs :
    /\ input.origin \in {"server", "client"}
    /\ input.fields \in Seq(Field)
    /\ IsPrefix(SentHeader(input.origin, input.type), input.fields)

\* What the models know, and what of it a client sends.
Kinds == {"container", "bank", "shopItems", "shopInfo", "fullSync", "npcAccept", "characterAction", "transaction",
          "partnerTrade", "bought", "backpack", "itemMove", "giveToNpc", "endNpcTrade"}
ClientKinds == {"characterAction", "giveToNpc", "endNpcTrade"}

\* What follows the header is as the game sends it, with lists of any length.
ASSUME ContentsAssumption ==
  \A input \in Inputs :
    /\ input = Sent(input.origin, input.type, input.kind, input.n)
    /\ input.kind \in Kinds
    /\ input.origin = "client" => input.kind \in ClientKinds
    /\ IF input.kind = "fullSync"
       THEN /\ {input.n.items, input.n.nanos, input.n.absorb, input.n.perks} \subseteq Nat
            /\ input.n.timers \in Seq(Nat) /\ Len(input.n.timers) = 3
            /\ input.n.stats \in Seq(Nat) /\ Len(input.n.stats) = 4
       ELSE input.n.items \in Nat
-----------------------------------------------------------------------------
Input == decoded.input
Known == "body" \in DOMAIN decoded

\* A handler reads the character of a message from one decoder in one line and
\* from the other in the next: both name the same one, and the same message
\* and target.  Type D has a byte more, which the structs do not know: what
\* they read of such a message is torn.
HandlersAgree ==
  Known /\ Input.type # "D" =>
    /\ decoded.head["messageid"] = decoded.header.msgid
    /\ decoded.head["characterid"] = decoded.header.charid
    /\ decoded.header.charid # Torn
    /\ Input.origin = "server" => /\ decoded.head["entityid"] = decoded.header.targetId
                                  /\ decoded.head["size"] = decoded.header.size

\* Item k of a message with n items, whichever way it was read.
ItemRead(item, k) ==
  \A x \in {"index", "flags", "stack", "itemid.low", "itemid.high", "ql"} : item[x] = <<x, k>>
ItemsRead(items, n) == Len(items) = n /\ \A k \in 1 .. n : ItemRead(items[k], k)

\* Every list of items, prices and rejected items that was sent is read in
\* full and in its order, and what follows the list is found behind it, by
\* offset as by cursor.
ContentsRead ==
  Known /\ Input.type # "D" =>
    CASE Input.kind = "container" ->
           /\ ItemsRead(decoded.body.native.items, Input.n.items) /\ ItemsRead(decoded.body.parsed.items, Input.n.items)
           /\ decoded.body.native.temp = <<"tempContainerId", 0>>
           /\ decoded.body.parsed.temp = decoded.body.native.temp
           /\ decoded.body.parsed.id = decoded.body.native.id
           /\ decoded.body.parsed.pos = Message(Input.fields).end
      [] Input.kind = "bank" -> ItemsRead(decoded.body.native, Input.n.items)
      [] Input.kind = "shopItems" ->
           /\ ItemsRead(decoded.body.parsed.items, Input.n.items)
           /\ decoded.body.parsed.shopid = <<"shopid", 0>>
           /\ \A k \in 1 .. PriceCount : decoded.body.parsed.prices[k]["price"] = <<"price", k>>
           /\ decoded.body.parsed.pos = Message(Input.fields).end
      [] Input.kind = "shopInfo" ->
           /\ decoded.body.parsed.ownerid = <<"ownerid", 0>>
           /\ decoded.body.parsed.guildName = <<"guildName", 0>>
           /\ decoded.body.parsed.pos = Message(Input.fields).end
      [] Input.kind = "npcAccept" ->
           /\ Len(decoded.body.rejected) = Input.n.items
           /\ \A k \in 1 .. Input.n.items : decoded.body.rejected[k]["itemid.high"] = <<"itemid.high", k>>
      [] Input.kind = "fullSync" -> TRUE
      [] OTHER -> \A x \in DOMAIN decoded.body.native \ {Header[i][1] : i \in DOMAIN Header} :
                    decoded.body.native[x] = <<x, 0>>

\* The assertion at the end of the full synchronisation holds whatever lists
\* are empty: it is read to its last byte, every item and nano is found, and a
\* stat has the value of the last map that has its key.
SyncReadWhole ==
  Known /\ Input.kind = "fullSync" =>
    LET n == Input.n
        got == decoded.body.parsed
        last(key) == LET with == {i \in 1 .. 4 : n.stats[i] >= key} IN CHOOSE i \in with : \A j \in with : j <= i
    IN /\ got.pos = Message(Input.fields).end
       /\ ItemsRead(got.items, n.items)
       /\ Len(got.nanos) = n.nanos /\ \A k \in 1 .. n.nanos : got.nanos[k]["nano"] = <<"nano", k>>
       /\ DOMAIN got.stats = UNION {1 .. n.stats[i] : i \in 1 .. 4}
       /\ \A key \in DOMAIN got.stats : got.stats[key] = <<"val", 10 * last(key) + key>>
=============================================================================
