----------------------------- MODULE ItemRecord -----------------------------
(***************************************************************************)
(* AOItemParser: how a record of the game's item database becomes an item. *)
(* p moves over words and texts; every iteration of the constructor's loop *)
(* and of its loop over functions is an action.  A program built without   *)
(* assertions goes on where they would stop it.                            *)
(***************************************************************************)
EXTENDS Wire, Integers

CONSTANT Records       \* the records read, [sent, mem]

VARIABLES rec,         \* the record in the buffer, NoRecord before it is read
          p,           \* where the parser is
          head,        \* the flag of the same name
          ftype,       \* the hook of the last function section
          left,        \* functions the section has left
          item,        \* what has been found
          status       \* "idle", "reading", "ended" or "stopped"

recvars == <<rec, p, head, ftype, left, item, status>>

NoRecord == [sent |-> "none"]
NoItem == [values |-> <<>>, name |-> <<"none", 0>>, description |-> <<"none", 0>>,
           effs |-> <<>>, reqs |-> <<>>, att |-> <<>>, def |-> <<>>]

\* Function keys by the number of values behind them (s_effectkeys).
EffectKeys ==
  << <<0, {\h1b, \h34, \h3e, \h41, \h4d, \h4e, \h5e, \h64, \h70, \h75, \h7b, \h7e, \h81, \h82, \h86, \h87, \h88,
           \h8a, \h8c, \h8e, \h92, \h98, \ha1, \ha2, \ha3, \hac, \hae, \hb5, \hba, \hd8, \hd9, \hda, \he5, \he9,
           \hef, \hf0, \hf2, \hfc, \hff}>>,
     <<1, {\h3b, \h4a, \h56, \h6c, \h73, \h8d, \h91, \hbd, \hc7, \hd6, \hec, \hed, \hf4, \hf7, \hf8, \hfa}>>,
     <<2, {\h2b, \h2d, \h2e, \h35, \h3f, \h44, \h4b, \h4c, \h5f, \h61, \h76, \h93, \h94, \haa, \hb7, \hb9, \hc0,
           \hc5, \hc9, \hce, \he8, \heb, \hf5, \hf6}>>,
     <<3, {\h14, \h21, \h22, \h24, \h29, \h2f, \h57, \h71, \hc3, \hea, \hee, \hf3}>>,
     <<4, {\h0a, \h18, \h28, \h49, \h53, \h54, \h96, \hbe, \hcc, \he6, \he7}>>,
     <<5, {\h0b, \h16, \h51, \h7d, \hc1}>>, <<6, {\h5a, \hf1}>>, <<7, {\h26, \h5b}>>, <<8, {\h48, \hdd}>>,
     <<9, {\h84, \he4}>>, <<10, {\h47}>>, <<11, {\hc8}>>, <<13, {\hd4}>>, <<16, {\haf}>> >>
KnownEffect(key) == \E i \in DOMAIN EffectKeys : key \in EffectKeys[i][2]
ValueCount(key) == LET i == CHOOSE j \in DOMAIN EffectKeys : key \in EffectKeys[j][2] IN EffectKeys[i][1]

\* What the switch of ParseFunctions reads before those values.
Arguments(key) ==
  CASE key = \h1b -> <<"word">>
    [] key \in {\h3e, \h8e, \hfc} -> <<"text">>
    [] key \in {\h41, \h70, \hda} -> <<"text", "skip">>
    [] key = \h7b -> <<"text", "skip", "skip">>
    [] key = \h34 -> <<"text", "skip", "skip", "skip", "skip", "skip">>
    [] key = \h8c -> <<"text", "text", "skip">>
    [] key = \he5 -> <<"word", "word", "word", "text">>
    [] key = \hff -> <<"text", "word">>
    [] OTHER -> <<>>
-----------------------------------------------------------------------------
\* NEXT, and the count that is a shift and not a division by 1009.
WordAt(m, pos) == ReadAt(m, pos, 4)[2]
Shifted(w) == w \div 1024
FunctionKey(w) == (w \div 256) % 16 = 15 /\ (w \div 16384) % 4 = 3

\* ParseString: nothing of a text that is said to be longer than the buffer.
ParseString(m, pos) ==
  LET len == WordAt(m, pos)
  IN IF len = 0 THEN [pos |-> pos + 4, text |-> <<"none", 0>>]
     ELSE IF len > m.end - pos THEN [pos |-> m.end, text |-> <<"none", 0>>]
     ELSE [pos |-> pos + 4 + len, text |-> ReadAt(m, pos + 4, len)]

\* One turn of ParseRequirements.  A triple without skill and count modifies
\* the requirement before it; modifier 0x12 stays for all that come after.
Triple(m, c) ==
  LET skill == WordAt(m, c.pos)  count == WordAt(m, c.pos + 4)  op == WordAt(m, c.pos + 8)
      next == [c EXCEPT !.pos = c.pos + 12]
  IN IF c.cut \/ c.pos + 12 > m.end THEN [c EXCEPT !.cut = TRUE, !.pos = m.end]
     ELSE IF skill = 0 /\ count = 0
          THEN IF op = \h12 THEN [next EXCEPT !.opmod = c.opmod \union {op}]
               ELSE [next EXCEPT !.req = [i \in DOMAIN c.req |->
                                            [c.req[i] EXCEPT !.opmod = @ \union c.opmod \union {op}]]]
          ELSE [next EXCEPT !.reqs = c.reqs \o c.req,
                            !.req = << [type |-> c.hook, attribute |-> skill, count |-> count, op |-> op, opmod |-> {}] >>]
Triples(m, pos, n, rhook) ==
  FoldLeft(LAMBDA c, i : Triple(m, c),
           [pos |-> pos, hook |-> rhook, reqs |-> <<>>, req |-> <<>>, opmod |-> {}, cut |-> FALSE],
           [i \in 1 .. n |-> i])

\* Mutant: the requirement read last is not kept.
ParseAllButLast(m, pos, n, rhook) ==
  LET c == Triples(m, pos, n, rhook) IN [pos |-> c.pos, reqs |-> c.reqs]

\* ParseRequirements: behind the end, the requirement read last is lost.
ParseRequirements(m, pos, n, rhook) ==
  LET c == Triples(m, pos, n, rhook)
  IN [pos |-> c.pos, reqs |-> IF c.cut THEN c.reqs ELSE c.reqs \o c.req]

\* ParseFunctions from behind the key on; of a known key.
ParseArguments(m, pos, key) ==
  FoldLeft(LAMBDA c, a :
             CASE a = "skip" -> [c EXCEPT !.pos = c.pos + 4]
               [] a = "word" -> [c EXCEPT !.pos = c.pos + 4, !.values = Append(c.values, WordAt(m, c.pos))]
               [] a = "text" -> LET s == ParseString(m, c.pos)
                                IN [c EXCEPT !.pos = s.pos, !.texts = Append(c.texts, s.text)],
           [pos |-> pos, values |-> <<>>, texts |-> <<>>], Arguments(key))
ParseFunctions(m, start, hook, key) ==
  LET reqs == ParseRequirements(m, start + 12, WordAt(m, start + 8), -1)
      q == reqs.pos
      args == ParseArguments(m, q + 16, key)
      n == ValueCount(key)
  IN [pos |-> args.pos + 4 * n,
      eff |-> [hook |-> hook, type |-> key, reqs |-> reqs.reqs, hits |-> WordAt(m, q), delay |-> WordAt(m, q + 4),
               target |-> IF key = \h1b THEN 2 ELSE WordAt(m, q + 8), texts |-> args.texts,
               values |-> args.values \o [i \in 1 .. n |-> WordAt(m, args.pos + 4 * (i - 1))]]]
-----------------------------------------------------------------------------
\* A turn of the loop: in the head or in the body, with a word at p.
Word(i) == WordAt(rec.mem, p + 4 * i)
Turn(inHead) == status = "reading" /\ left = 0 /\ p + 4 < rec.mem.end /\ head = inHead
Stays == UNCHANGED <<rec, head, ftype, left, status>>
Give(key, val) == item' = [item EXCEPT !.values = (key :> val) @@ item.values]

Open ==
  /\ rec = NoRecord
  /\ rec' \in Records
  /\ p' = 32 /\ head' = TRUE /\ ftype' = 0 /\ left' = 0 /\ item' = NoItem /\ status' = "reading"

NameKey == Word(0) = \h15 /\ Word(1) = \h21

\* Key 0x17 is only counted by the game; the others are kept.
HeadPair ==
  /\ Turn(TRUE) /\ ~NameKey
  /\ p' = p + 8
  /\ IF Word(0) = \h17 THEN UNCHANGED item ELSE Give(Word(0), Word(1))
  /\ Stays

\* Both lengths are short; name and description follow without a gap.
NameAndDescription ==
  /\ Turn(TRUE) /\ NameKey
  /\ LET lname == ReadAt(rec.mem, p + 8, 2)[2]
         linfo == ReadAt(rec.mem, p + 10, 2)[2]
     IN /\ item' = [item EXCEPT !.name = ReadAt(rec.mem, p + 12, lname),
                                !.description = ReadAt(rec.mem, p + 12 + lname, linfo)]
        /\ p' = p + 12 + lname + linfo
  /\ head' = FALSE
  /\ UNCHANGED <<rec, ftype, left, status>>

\* Key 2 announces functions of one hook.
FunctionSection ==
  /\ Turn(FALSE) /\ Word(0) = 2
  /\ ftype' = Word(1) /\ left' = Shifted(Word(2))
  /\ p' = p + 12
  /\ UNCHANGED <<rec, head, item, status>>

\* ParseFunctions with its table: of a key that is not in it nothing is kept,
\* and the parser gives up the rest of the record.
TakeFunction(nextLeft) ==
  LET key == Word(0) % 256
      f == ParseFunctions(rec.mem, p + 4, ftype, key)
  IN IF KnownEffect(key)
     THEN /\ item' = [item EXCEPT !.effs = Append(item.effs, f.eff)]
          /\ p' = f.pos /\ left' = nextLeft
          /\ UNCHANGED <<rec, head, ftype, status>>
     ELSE status' = "stopped" /\ UNCHANGED <<rec, p, head, ftype, left, item>>

NextFunction ==
  /\ status = "reading" /\ left > 0
  /\ \/ /\ Word(0) = 0
        /\ p' = p + 4
        /\ UNCHANGED <<rec, head, ftype, left, item, status>>
     \/ /\ Word(0) # 0 /\ ~FunctionKey(Word(0))
        /\ status' = "stopped"
        /\ UNCHANGED <<rec, p, head, ftype, left, item>>
     \/ /\ FunctionKey(Word(0))
        /\ TakeFunction(left - 1)

\* Where a key is expected there is a function still.
LingeringFunction == Turn(FALSE) /\ FunctionKey(Word(0)) /\ TakeFunction(0)

\* Sections that begin with one word of their own, or the parser gives up.
SectionWord(key) == CASE key = \h16 -> \h24 [] key = 4 -> 4 [] key = 6 -> \h1b
WrongSection ==
  /\ Turn(FALSE) /\ Word(0) \in {\h16, 4, 6} /\ Word(1) # SectionWord(Word(0))
  /\ status' = "stopped"
  /\ UNCHANGED <<rec, p, head, ftype, left, item>>
Section(key) == Turn(FALSE) /\ Word(0) = key /\ Word(1) = SectionWord(key)

RequirementSection ==
  /\ Section(\h16)
  /\ LET all == FoldLeft(LAMBDA c, i : LET r == ParseRequirements(rec.mem, c.pos + 8, Shifted(WordAt(rec.mem, c.pos + 4)),
                                                                  WordAt(rec.mem, c.pos))
                                       IN [pos |-> r.pos, reqs |-> c.reqs \o r.reqs],
                         [pos |-> p + 12, reqs |-> item.reqs], [i \in 1 .. Shifted(Word(2)) |-> i])
     IN p' = all.pos /\ item' = [item EXCEPT !.reqs = all.reqs]
  /\ Stays

\* A map of skills: the later value of a skill, the later map of a kind.
SkillMap(m, pos, n) ==
  FoldLeft(LAMBDA map, i : (WordAt(m, pos + 8 * (i - 1)) :> WordAt(m, pos + 8 * (i - 1) + 4)) @@ map,
           <<>>, [i \in 1 .. n |-> i])
MapSection ==
  /\ Section(4)
  /\ LET all == FoldLeft(LAMBDA c, i :
                           LET fkey == WordAt(rec.mem, c.pos)
                               n == Shifted(WordAt(rec.mem, c.pos + 4))
                               map == SkillMap(rec.mem, c.pos + 8, n)
                           IN [pos |-> c.pos + 8 + 8 * n,
                               att |-> IF fkey = \hc THEN map ELSE c.att, def |-> IF fkey = \hd THEN map ELSE c.def],
                         [pos |-> p + 12, att |-> item.att, def |-> item.def], [i \in 1 .. Shifted(Word(2)) |-> i])
     IN p' = all.pos /\ item' = [item EXCEPT !.att = all.att, !.def = all.def]
  /\ Stays

PairSection == Section(6) /\ p' = p + 12 + 8 * Shifted(Word(2)) /\ UNCHANGED item /\ Stays

\* NEXT is two statements, and the inner loop has only the first: of a group
\* three words are passed over, whatever it counts.
AnimationSection ==
  /\ Turn(FALSE) /\ Word(0) \in {\he, \h14}
  /\ p' = p + 12 + 12 * Shifted(Word(2))
  /\ UNCHANGED item /\ Stays

\* The stock of a shop: nothing is read from there on.
StopSection ==
  /\ Turn(FALSE) /\ Word(0) = \h17
  /\ status' = "stopped"
  /\ UNCHANGED <<rec, p, head, ftype, left, item>>

SkipKey ==
  /\ Turn(FALSE) /\ Word(0) \notin {2, \h16, 4, 6, \he, \h14, \h17} /\ ~FunctionKey(Word(0))
  /\ p' = p + 4
  /\ UNCHANGED item /\ Stays

EndOfRecord ==
  /\ status = "reading" /\ left = 0 /\ p + 4 >= rec.mem.end
  /\ status' = "ended"
  /\ UNCHANGED <<rec, p, head, ftype, left, item>>

RecordInit ==
  /\ rec = NoRecord /\ p = 0 /\ head = TRUE /\ ftype = 0 /\ left = 0 /\ item = NoItem /\ status = "idle"

RecordNext ==
  \/ Open \/ HeadPair \/ NameAndDescription \/ EndOfRecord
  \/ FunctionSection \/ NextFunction \/ LingeringFunction \/ WrongSection \/ RequirementSection
  \/ MapSection \/ PairSection \/ AnimationSection \/ StopSection \/ SkipKey
=============================================================================
