----------------------------- MODULE MCDecoders -----------------------------
(***************************************************************************)
(* One message after the other, or one record: what the two decoders read  *)
(* of everything below.  A behavior has messages or a record, not both.    *)
(***************************************************************************)
EXTENDS GameMessages, ItemRecords

WithItems == {"container", "bank", "shopItems", "npcAccept"}
OfServer == {"shopInfo", "characterAction", "transaction", "partnerTrade", "bought", "backpack", "itemMove",
             "giveToNpc", "endNpcTrade"}
Items(n) == [items |-> n]
\* Every list empty or not, also two entries where the order counts.
Syncs == {[items |-> i, nanos |-> a, timers |-> <<t, 0, u>>, stats |-> <<s, b, t, u>>, absorb |-> a, perks |-> u] :
            i \in 0 .. 2, a \in 0 .. 1, t \in 0 .. 1, u \in 0 .. 1, s \in 0 .. 1, b \in 0 .. 2}
MCInputs ==
  {Sent("server", t, k, Items(n)) : t \in ServerTypes \union {"?"}, k \in WithItems, n \in 0 .. 2}
  \union {Sent("server", t, k, Items(0)) : t \in ServerTypes \union {"?"}, k \in OfServer}
  \union {Sent("client", t, k, Items(0)) : t \in ClientTypes \union {"?"}, k \in ClientKinds}
  \union {Sent("server", "A", "fullSync", n) : n \in Syncs}
-----------------------------------------------------------------------------
Req(k, mods) == [attribute |-> k, count |-> 100 + k, op |-> 2, mods |-> mods]
ReqLists == << <<>>, << Req(1, <<>>), Req(2, <<\h12, 3>>), Req(3, <<4>>) >> >>
Effect(key, reqs, args, texts, values) == [key |-> key, reqs |-> reqs, args |-> args, texts |-> texts, values |-> values]
Modify(k, reqs) == Effect(\h35, reqs, << W(k), W(7) >>, <<>>, <<k, 7>>)
Upload == Effect(\h1b, <<>>, << W(5) >>, <<>>, <<5>>)
Chat == Effect(\h34, <<>>, Text(6) \o [i \in 1 .. 5 |-> W(2)], << <<"text", 6>> >>, <<>>)
Dual == Effect(\h8c, <<>>, << W(0) >> \o Text(3) \o << W(2) >>, << <<"none", 0>>, <<"text", 3>> >>, <<>>)
Numbered == Effect(\hff, <<>>, Text(2) \o << W(4) >>, << <<"text", 2>> >>, <<4>>)
Unheard == Effect(\h99, <<>>, << W(4) >>, <<>>, <<>>)
Functions(hook, effs) == [kind |-> "functions", hook |-> hook, effs |-> effs]
Requirements(groups) == [kind |-> "requirements", groups |-> groups]
Animations(groups) == [kind |-> "animations", groups |-> groups]
Kind(kind) == [kind |-> kind]

Sections ==
  { Functions(1, << Modify(1, ReqLists[1]), Modify(2, ReqLists[2]) >>), Functions(2, << Upload, Chat, Dual, Numbered >>),
    Functions(3, << Modify(1, ReqLists[1]), Unheard, Upload >>), Functions(4, <<>>),
    Requirements(<< [hook |-> 6, reqs |-> ReqLists[2], missing |-> 0], [hook |-> 8, reqs |-> <<Req(4, <<>>)>>, missing |-> 0] >>),
    [kind |-> "maps", maps |-> << [fkey |-> \hc, pairs |-> << <<1, 50>>, <<2, 40>>, <<1, 60>> >>],
                                  [fkey |-> 3, pairs |-> << <<1, 9>> >>], [fkey |-> \hd, pairs |-> << <<3, 100>> >>] >>],
    [kind |-> "maps", maps |-> << [fkey |-> \hc, pairs |-> <<>>] >>],
    Animations(<< <<5>>, <<7, \h63>> >>), Animations(<< <<>> >>), Animations(<< <<5, \h63, 9>> >>), Animations(<< <<5, 2>>, <<5>> >>),
    Kind("pairs"), Kind("unknown"), Kind("shop"), Kind("other") }
\* A list cut short is the end of its record.
Cut == Requirements(<< [hook |-> 6, reqs |-> ReqLists[2], missing |-> 1] >>)

\* n functions alike, all words, put into memory without Message.
NextHead == Effect(\h4d, <<>>, <<>>, <<>>, <<>>)
LongRecord(n) ==
  LET start == SentRecord(<<>>, <<>>).mem
      one == SentEffect(NextHead)
      words == << W(2), W(5), Count(n) >> \o [i \in 1 .. n * Len(one) |-> one[1 + ((i - 1) % Len(one))]]
  IN [sent |-> [pairs |-> <<>>, sections |-> << Functions(5, [k \in 1 .. n |-> NextHead]) >>],
      mem |-> [end |-> start.end + 4 * Len(words),
               at |-> [q \in {start.end + 4 * i : i \in 0 .. Len(words) - 1} |-> words[1 + (q - start.end) \div 4]]
                      @@ start.at]]
Heads == { << <<\h36, 200>>, <<\h17, 9>>, <<\h15, 7>>, <<\h36, 201>>, <<\h64, 3>> >> }
MCRecords ==
  {SentRecord(pairs, s) : pairs \in Heads, s \in SeqOf(Sections, 2)}
  \union {SentRecord(<<>>, <<s, Cut>>) : s \in Sections}
  \union {LongRecord(n) : n \in 67 .. 69}
-----------------------------------------------------------------------------
Init == MessagesInit /\ RecordInit
Next ==
  \/ rec = NoRecord /\ MessagesNext /\ UNCHANGED recvars
  \/ decoded = NoData /\ data = NoData /\ RecordNext /\ UNCHANGED msgvars
Spec == Init /\ [][Next]_<<msgvars, recvars>>
=============================================================================
