-------------------------------- MODULE Wire --------------------------------
(***************************************************************************)
(* A message of the game as bytes, and the two ways it is read: by a       *)
(* cursor that moves over it (class Parser) and by the fixed offsets of a  *)
(* packed struct (aopackets.h).  A field is <<name, width, number>>; bytes *)
(* are not written out: a read gives <<name, number>> of the field that    *)
(* begins there and is as wide, or Torn, parts of other fields.            *)
(***************************************************************************)
EXTENDS Naturals, Sequences, SequencesExt

Torn == <<"torn", 0>>

\* The name of a part of a member.
Member(name, part) == name \o "." \o part

Field == STRING \X (Nat \ {0}) \X Nat

\* Where the n-th field or member ends, one after the other from 0 on.
Ends(fields) ==
  LET end[n \in 0 .. Len(fields)] == IF n = 0 THEN 0 ELSE end[n - 1] + fields[n][2] IN end

\* The fields in memory: at maps a position to the field that begins there.
Message(fields) ==
  LET end == Ends(fields)
  IN [end |-> end[Len(fields)],
      at |-> [q \in {end[n - 1] : n \in DOMAIN fields} |-> fields[CHOOSE n \in DOMAIN fields : end[n - 1] = q]]]

ReadAt(m, pos, width) ==
  IF pos \in DOMAIN m.at /\ m.at[pos][2] = width THEN <<m.at[pos][1], m.at[pos][3]>> ELSE Torn
-----------------------------------------------------------------------------
\* Parser::skip: nothing is skipped unless all of it can be.  Behind the end
\* remaining() is a difference of unsigned numbers and does not stop it.
Skip(m, pos, n) == IF pos > m.end \/ n <= m.end - pos THEN pos + n ELSE pos

\* What was read, by name, with one more value.
With(got, name, value) == [x \in DOMAIN got \cup {name} |-> IF x = name THEN value ELSE got[x]]

\* The pops move on without a look at the end.  A script is a sequence of
\* <<"skip", n>> and <<"pop", width, name>>.
Step(m, c, s) ==
  IF s[1] = "skip" THEN [pos |-> Skip(m, c.pos, s[2]), got |-> c.got]
  ELSE [pos |-> c.pos + s[2], got |-> With(c.got, s[3], ReadAt(m, c.pos, s[2]))]
Read(m, start, script) ==
  LET c[n \in 0 .. Len(script)] ==
        IF n = 0 THEN [pos |-> start, got |-> <<>>] ELSE Step(m, c[n - 1], script[n])
  IN c[Len(script)]

\* A counted loop over a script: one more entry, and n of them.
NextOf(m, c, script) ==
  LET r == Read(m, c.pos, script) IN [pos |-> r.pos, got |-> Append(c.got, r.got)]
ReadMany(m, start, n, script) ==
  LET c[i \in 0 .. n] == IF i = 0 THEN [pos |-> start, got |-> <<>>] ELSE NextOf(m, c[i - 1], script)
  IN c[n]

\* Mutant: the 1009 that stand for no item are counted.
ItemCountOfMass(mass) == mass \div 1009

\* Parser::pop3F1Count and the count of a container's items; both are the
\* same for a mass of at least 1009.
Count3F1(mass) == (mass \div 1009) - 1
ItemCount(mass) == (mass - 1009) \div 1009

\* Parser::popString: a length, the text, and one byte more.
PopString(m, pos) ==
  LET len == ReadAt(m, pos, 1)[2]
  IN [pos |-> pos + 1 + len + 1, got |-> ReadAt(m, pos + 1, len + 1)]
-----------------------------------------------------------------------------
\* A packed struct is a sequence of <<name, width>>; Placed is the offset and
\* the width of every member, Size their sum.
Nested(name, struct) == [i \in DOMAIN struct |-> <<Member(name, struct[i][1]), struct[i][2]>>]
Size(struct) == Ends(struct)[Len(struct)]
Placed(struct) ==
  [x \in {struct[i][1] : i \in DOMAIN struct} |->
     LET i == CHOOSE j \in DOMAIN struct : struct[j][1] = x IN <<Ends(struct)[i - 1], struct[i][2]>>]

\* A struct laid over the message at an offset.
Overlay(m, offset, struct) ==
  [x \in DOMAIN Placed(struct) |-> ReadAt(m, offset + Placed(struct)[x][1], Placed(struct)[x][2])]
=============================================================================
