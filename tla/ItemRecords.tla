---------------------------- MODULE ItemRecords ----------------------------
(***************************************************************************)
(* Records as the item database of the game holds them, section after      *)
(* section, and what must come out of AOItemParser.                        *)
(***************************************************************************)
EXTENDS ItemRecord

W(x) == <<"word", 4, x>>
\* The game's way to write a count; the parser shifts it.
Count(n) == W(1009 * (n + 1))
Text(len) == << W(len), <<"text", len, len>> >>
Each(list, Fields(_)) == FlattenSeq([i \in DOMAIN list |-> Fields(list[i])])

\* A requirement [attribute, count, op, mods] and its modifiers.
SentReq(r) == << W(r.attribute), W(r.count), W(r.op) >> \o Each(r.mods, LAMBDA op : << W(0), W(0), W(op) >>)
TriplesOf(reqs) == FoldLeft(LAMBDA n, r : n + 1 + Len(r.mods), 0, reqs)

\* A function [key, reqs, args, texts, values], a word of zero before it.
SentEffect(e) ==
  << W(0), W(\hcf00 + e.key), W(0), W(4), W(TriplesOf(e.reqs)) >> \o Each(e.reqs, SentReq)
  \o << W(11), W(12), W(13), W(9) >> \o e.args
SentGroup(g) == << W(g.hook), Count(TriplesOf(g.reqs) + g.missing) >> \o Each(g.reqs, SentReq)
SentMap(map) == << W(map.fkey), Count(Len(map.pairs)) >> \o Each(map.pairs, LAMBDA x : << W(x[1]), W(x[2]) >>)
SentAnimations(ids) == << W(7), Count(Len(ids)) >> \o Each(ids, LAMBDA x : << W(x) >>)
SentSection(s) ==
  CASE s.kind = "functions" -> << W(2), W(s.hook), Count(Len(s.effs)) >> \o Each(s.effs, SentEffect)
    [] s.kind = "requirements" -> << W(\h16), W(\h24), Count(Len(s.groups)) >> \o Each(s.groups, SentGroup)
    [] s.kind = "maps" -> << W(4), W(4), Count(Len(s.maps)) >> \o Each(s.maps, SentMap)
    [] s.kind = "pairs" -> << W(6), W(\h1b), Count(2), W(\hc), W(0), W(\hd), W(0) >>
    [] s.kind = "animations" -> << W(\he), W(1), Count(Len(s.groups)) >> \o Each(s.groups, SentAnimations)
    [] s.kind = "shop" -> << W(\h17), W(5), Count(1), W(\h16), W(\h24), Count(0) >>
    [] s.kind = "other" -> << W(6), W(5), W(0) >>
    [] s.kind = "unknown" -> << W(0), W(\h63) >>

SentRecord(pairs, sections) ==
  LET fields == << <<"aoid", 32, 1>> >> \o Each(pairs, LAMBDA x : << W(x[1]), W(x[2]) >>)
                \o << W(\h15), W(\h21), <<"lname", 2, 5>>, <<"linfo", 2, 3>>, <<"name", 5, 0>>, <<"info", 3, 0>> >>
                \o Each(sections, SentSection)
  IN [sent |-> [pairs |-> pairs, sections |-> sections], mem |-> Message(fields)]
-----------------------------------------------------------------------------
\* What the sections say.  A modifier 0x12 counts for the other modifiers from
\* there on, to the end of the list.
Meant(reqs, hook) ==
  LET sticky(i) == \E j \in 1 .. i : \h12 \in ToSet(reqs[j].mods)
      plain(i) == ToSet(reqs[i].mods) \ {\h12}
  IN [i \in DOMAIN reqs |->
        [type |-> hook, attribute |-> reqs[i].attribute, count |-> reqs[i].count, op |-> reqs[i].op,
         opmod |-> plain(i) \union (IF sticky(i) /\ plain(i) # {} THEN {\h12} ELSE {})]]
MeantEffects(s) ==
  IF s.kind # "functions" THEN <<>>
  ELSE [i \in DOMAIN s.effs |->
          LET e == s.effs[i]
          IN [hook |-> s.hook, type |-> e.key, reqs |-> Meant(e.reqs, -1), hits |-> 11, delay |-> 12,
              target |-> IF e.key = \h1b THEN 2 ELSE 13, texts |-> e.texts, values |-> e.values]]
MeantReqs(s) == IF s.kind # "requirements" THEN <<>> ELSE Each(s.groups, LAMBDA g : Meant(g.reqs, g.hook))
\* The map of a kind that comes last.
MeantMap(sections, fkey) ==
  LET maps == SelectSeq(Each(sections, LAMBDA s : IF s.kind = "maps" THEN s.maps ELSE <<>>), LAMBDA x : x.fkey = fkey)
      pairs == IF maps = <<>> THEN <<>> ELSE Last(maps).pairs
  IN [k \in {pairs[i][1] : i \in DOMAIN pairs} |->
        pairs[CHOOSE i \in DOMAIN pairs : pairs[i][1] = k /\ \A j \in DOMAIN pairs : pairs[j][1] = k => j <= i][2]]
MeantValues(pairs) ==
  LET kept == SelectSeq(pairs, LAMBDA x : x[1] # \h17)
  IN [k \in {kept[i][1] : i \in DOMAIN kept} |->
        kept[CHOOSE i \in DOMAIN kept : kept[i][1] = k /\ \A j \in DOMAIN kept : kept[j][1] = k => j <= i][2]]

\* Sections behind which the parser goes on where the next one begins: every
\* function is known, no triple is missing, a group of animations has one, and
\* what the last one has more is no key.
Clean(s) ==
  CASE s.kind = "functions" -> \A i \in DOMAIN s.effs : KnownEffect(s.effs[i].key)
    [] s.kind = "requirements" -> \A i \in DOMAIN s.groups : s.groups[i].missing = 0
    [] s.kind = "animations" -> \A i \in DOMAIN s.groups : /\ s.groups[i] # <<>>
                                                           /\ i < Len(s.groups) => Len(s.groups[i]) = 1
                                                           /\ ToSet(Tail(s.groups[i])) \subseteq {\h63}
    [] s.kind \in {"shop", "other"} -> FALSE
    [] OTHER -> TRUE

\* Everything of the sections up to the first one that is not clean is in the
\* item, in order, and of a record of clean sections nothing else is: also of
\* 68 functions and more, whose count the shift takes for one less, since the
\* last is found as a lingering one.  Where a section ends the parser, what
\* was read before it is all.
RecordRead ==
  status \in {"ended", "stopped"} =>
    LET sections == rec.sent.sections
        unclean == {i \in DOMAIN sections : ~Clean(sections[i])}
        first == IF unclean = {} THEN Len(sections) + 1 ELSE CHOOSE i \in unclean : \A j \in unclean : i <= j
        good == SubSeq(sections, 1, first - 1)
        exact == unclean = {} \/ sections[first].kind \in {"shop", "other"}
        effs == Each(good, MeantEffects)
        reqs == Each(good, MeantReqs)
    IN /\ item.values = MeantValues(rec.sent.pairs)
       /\ item.name = <<"name", 0>> /\ item.description = <<"info", 0>>
       /\ IsPrefix(effs, item.effs) /\ IsPrefix(reqs, item.reqs)
       /\ exact => /\ item.effs = effs /\ item.reqs = reqs
                   /\ item.att = MeantMap(good, \hc) /\ item.def = MeantMap(good, \hd)
       /\ unclean = {} => status = "ended"
=============================================================================
