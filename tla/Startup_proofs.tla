--------------------------- MODULE Startup_proofs ---------------------------
(***************************************************************************)
(* What TLAPS proves of Startup, for every archive of the game that is put *)
(* together as it should be, and for any number of starts, records,        *)
(* commits and patches: the item database in use is a whole one, and it is *)
(* current unless the user wanted it otherwise; the database of the user   *)
(* has the whole schema when the program runs; and an upgrade of it, run   *)
(* to its end or cut short by the end of the program and begun anew any    *)
(* number of times, loses none of the data.                                *)
(***************************************************************************)
EXTENDS Startup, FiniteSetTheorems, WellFoundedInduction, TLAPS

-----------------------------------------------------------------------------
(* Numbers.                                                                *)

\* A set of natural numbers that is not empty has a least element.
LEMMA LeastNumber ==
    ASSUME NEW M, M \subseteq Nat, M # {}
    PROVE  \E m \in M : \A n \in M : m <= n
<1> DEFINE T == {1..n : n \in M}
<1>1. T \subseteq FiniteSubsetsOf(Nat)
  <2>1. \A n \in M : IsFiniteSet(1..n) BY FS_Interval
  <2> QED BY <2>1 DEF FiniteSubsetsOf
<1>2. \E x \in T : \A y \in T : ~ (<<y, x>> \in StrictSubsetOrdering(Nat))
  <2>1. T # {} OBVIOUS
  <2>2. IsWellFoundedOn(StrictSubsetOrdering(Nat), FiniteSubsetsOf(Nat))
    BY FS_StrictSubsetOrderingWellFounded
  <2> HIDE DEF T
  <2> QED BY <1>1, <2>1, <2>2, WFMin
<1>3. PICK m \in M : \A n \in M : ~ (<<1..n, 1..m>> \in StrictSubsetOrdering(Nat))
  BY <1>2
<1>4. ASSUME NEW n \in M, n < m PROVE FALSE
  <2>1. 1..n \subseteq 1..m /\ m \in 1..m /\ m \notin 1..n BY <1>4
  <2>2. 1..n \in SUBSET Nat /\ 1..m \in SUBSET Nat BY <1>4
  <2> QED BY <1>3, <2>1, <2>2 DEF StrictSubsetOrdering
<1> QED BY <1>4

\* Induction from 1 on, as a fact about sets of numbers.
LEMMA Induction ==
    ASSUME NEW S, 1 \in S, \A n \in Nat \ {0} : n \in S => n + 1 \in S
    PROVE  Nat \ {0} \subseteq S
<1> SUFFICES ASSUME (Nat \ {0}) \ S # {} PROVE FALSE OBVIOUS
<1>1. PICK m \in (Nat \ {0}) \ S : \A n \in (Nat \ {0}) \ S : m <= n BY LeastNumber
<1>2. m # 1 /\ m - 1 \in Nat \ {0} /\ ~ (m <= m - 1) BY <1>1
<1>3. m - 1 \in S BY <1>1, <1>2
<1> QED BY <1>1, <1>2, <1>3

\* The sequence of length L that begins with base and whose next element at place
\* n after v is F[<<n, v>>].
Sequel(g, V, base, F, L) ==
    /\ g \in [1..L -> V]
    /\ \A n \in 1..L : g[n] = IF n = 1 THEN base ELSE F[<<n, g[n - 1]>>]

\* There is one.
LEMMA Recursion ==
    ASSUME NEW V, NEW base \in V, NEW F \in [Nat \X V -> V], NEW L \in Nat
    PROVE  \E g : Sequel(g, V, base, F, L)
<1> DEFINE Step(g, n) == IF n = 1 THEN base ELSE F[<<n, g[n - 1]>>]
           Loop(g, m) == g \in [1..m -> V] /\ \A n \in 1..m : g[n] = Step(g, n)
           S == {m \in Nat : \E g : Loop(g, m)}
<1>0. 0 \in S
  <2>1. Loop([n \in 1..0 |-> base], 0) OBVIOUS
  <2> QED BY <2>1
<1>1. 1 \in S
  <2>1. Loop([n \in 1..1 |-> base], 1) OBVIOUS
  <2> QED BY <2>1
<1>2. ASSUME NEW m \in Nat \ {0}, m \in S PROVE m + 1 \in S
  <2>1. PICK g : Loop(g, m) BY <1>2
  <2> DEFINE x == F[<<m + 1, g[m]>>]
             h == [n \in 1..(m + 1) |-> IF n <= m THEN g[n] ELSE x]
  <2>2. x \in V
    <3>1. g[m] \in V BY <2>1
    <3>2. <<m + 1, g[m]>> \in Nat \X V BY <3>1
    <3> HIDE DEF Loop
    <3> QED BY <3>2
  <2>3. h \in [1..(m + 1) -> V] BY <2>1, <2>2
  <2>4. ASSUME NEW n \in 1..(m + 1) PROVE h[n] = Step(h, n)
    <3>1. CASE n = 1
      <4>1. n \in 1..m /\ h[n] = g[n] BY <3>1
      <4>2. g[n] = Step(g, n) BY <2>1, <4>1
      <4> HIDE DEF h
      <4> QED BY <3>1, <4>1, <4>2
    <3>2. CASE n # 1 /\ n <= m
      <4>1. n - 1 \in 1..m /\ n \in 1..m BY <3>2
      <4>2. g[n] = Step(g, n) BY <2>1, <4>1
      <4>3. h[n - 1] = g[n - 1] /\ h[n] = g[n] BY <3>2, <4>1
      <4> HIDE DEF h
      <4> QED BY <4>2, <4>3
    <3>3. CASE n = m + 1
      <4>1. h[n - 1] = g[m] /\ h[n] = x BY <3>3
      <4> HIDE DEF h
      <4> QED BY <3>3, <4>1
    <3> QED BY <3>1, <3>2, <3>3
  <2>5. Loop(h, m + 1)
    <3> HIDE DEF h, Step
    <3> QED BY <2>3, <2>4
  <2> HIDE DEF Loop
  <2> QED BY <2>5
<1>3. Nat \ {0} \subseteq S
  <2> HIDE DEF S
  <2> QED BY <1>1, <1>2, Induction
<1>4. PICK g : Loop(g, L) BY <1>0, <1>3
<1> QED BY <1>4 DEF Sequel

-----------------------------------------------------------------------------
(* The archive.                                                            *)

\* The files follow each other, and the data of each begin one unit after its first.
LEMMA FilesFollow ==
    ASSUME NEW a, a.files \in Seq(Nat)
    PROVE  /\ \A f \in DOMAIN a.files : FileStart(a, f) \in Int
           /\ 1 \in DOMAIN a.files => FileStart(a, 1) = 0
           /\ \A f \in DOMAIN a.files : f + 1 \in DOMAIN a.files =>
                 FileStart(a, f + 1) = FileStart(a, f) + a.files[f] - 1
<1> DEFINE L == Len(a.files)
           F == [x \in Nat \X Int |-> IF x[1] - 1 \in 1..L THEN x[2] + a.files[x[1] - 1] - 1 ELSE 0]
           Start(g) == g = [n \in 1..L |-> IF n = 1 THEN 0 ELSE g[n - 1] + a.files[n - 1] - 1]
           start == CHOOSE g : Start(g)
           S == {n \in Nat \ {0} : n \in 1..L => start[n] \in Int}
<1>1. L \in Nat /\ DOMAIN a.files = 1..L /\ \A f \in 1..L : a.files[f] \in Nat OBVIOUS
<1>2. F \in [Nat \X Int -> Int] BY <1>1
<1>3. \A n \in Nat : \A v \in Int : n - 1 \in 1..L => F[<<n, v>>] = v + a.files[n - 1] - 1
  OBVIOUS
<1> HIDE DEF L, F
<1>4. PICK g \in [1..L -> Int] :
         \A n \in 1..L : g[n] = IF n = 1 THEN 0 ELSE F[<<n, g[n - 1]>>]
  <2>1. L \in Nat /\ 0 \in Int BY <1>1
  <2>2. \E g : Sequel(g, Int, 0, F, L) BY <1>2, <2>1, Recursion
  <2> QED BY <2>2 DEF Sequel
<1>5. Start(g)
  <2>1. ASSUME NEW n \in 1..L, n # 1
        PROVE  F[<<n, g[n - 1]>>] = g[n - 1] + a.files[n - 1] - 1
    <3>1. n - 1 \in 1..L /\ n \in Nat BY <1>1, <2>1
    <3>2. g[n - 1] \in Int BY <3>1
    <3> QED BY <1>3, <3>1, <3>2
  <2>2. g = [n \in 1..L |-> g[n]] OBVIOUS
  <2>3. \A n \in 1..L : g[n] = IF n = 1 THEN 0 ELSE g[n - 1] + a.files[n - 1] - 1
    BY <1>4, <2>1
  <2> QED BY <2>2, <2>3
<1>6. Start(start)
  <2> HIDE DEF Start
  <2> QED BY <1>5
<1> HIDE DEF start
<1>7. \A f \in 1..L : FileStart(a, f) = start[f] BY DEF FileStart, start, L
<1>8. \A n \in 1..L : start[n] = IF n = 1 THEN 0 ELSE start[n - 1] + a.files[n - 1] - 1
  BY <1>6
<1>9. Nat \ {0} \subseteq S
  <2>1. 1 \in S BY <1>8
  <2>2. ASSUME NEW n \in Nat \ {0}, n \in S PROVE n + 1 \in S
    <3> SUFFICES ASSUME n + 1 \in 1..L PROVE start[n + 1] \in Int OBVIOUS
    <3>1. n \in 1..L /\ (n + 1) - 1 = n /\ n + 1 # 1 BY <1>1
    <3>2. start[n + 1] = start[n] + a.files[n] - 1 BY <1>8, <3>1
    <3>3. start[n] \in Int /\ a.files[n] \in Nat BY <1>1, <2>2, <3>1
    <3> QED BY <3>2, <3>3
  <2> HIDE DEF S
  <2> QED BY <2>1, <2>2, Induction
<1>10. ASSUME NEW f \in 1..L, f + 1 \in 1..L PROVE start[f + 1] = start[f] + a.files[f] - 1
  <2>1. f + 1 # 1 /\ (f + 1) - 1 = f BY <1>1
  <2> QED BY <1>8, <1>10, <2>1
<1>11. \A f \in 1..L : start[f] \in Int BY <1>1, <1>9
<1>12. 1 \in 1..L => start[1] = 0 BY <1>8
<1> HIDE DEF S
<1> QED BY <1>1, <1>7, <1>10, <1>11, <1>12

\* A later file starts at a later place, or at the same.
LEMMA FilesAscend ==
    ASSUME NEW a, a.files \in Seq(Nat), 0 \notin ToSet(a.files),
           NEW f \in DOMAIN a.files, NEW g \in DOMAIN a.files, f <= g
    PROVE  FileStart(a, f) <= FileStart(a, g)
<1> DEFINE S == {n \in Nat \ {0} : f + n - 1 \in DOMAIN a.files =>
                                      FileStart(a, f) <= FileStart(a, f + n - 1)}
<1>1. \A n \in DOMAIN a.files : a.files[n] \in Nat \ {0} /\ FileStart(a, n) \in Int
  BY FilesFollow DEF ToSet
<1>2. DOMAIN a.files = 1..Len(a.files) /\ Len(a.files) \in Nat /\ f \in Nat /\ g \in Nat OBVIOUS
<1>3. 1 \in S BY <1>1, <1>2
<1>4. ASSUME NEW n \in Nat \ {0}, n \in S PROVE n + 1 \in S
  <2> SUFFICES ASSUME f + (n + 1) - 1 \in DOMAIN a.files
               PROVE  FileStart(a, f) <= FileStart(a, f + (n + 1) - 1)
    OBVIOUS
  <2>1. /\ f + n - 1 \in DOMAIN a.files
        /\ f + (n + 1) - 1 = (f + n - 1) + 1
    BY <1>2
  <2>2. FileStart(a, (f + n - 1) + 1) = FileStart(a, f + n - 1) + a.files[f + n - 1] - 1
    BY <2>1, FilesFollow
  <2>3. FileStart(a, f) <= FileStart(a, f + n - 1) BY <1>4, <2>1
  <2> DEFINE x == FileStart(a, f)   y == FileStart(a, f + n - 1)
             z == FileStart(a, f + (n + 1) - 1)   s == a.files[f + n - 1]
  <2>4. x \in Int /\ y \in Int /\ s \in Nat \ {0} BY <1>1, <2>1
  <2>5. z = y + s - 1 BY <2>1, <2>2
  <2> HIDE DEF x, y, z, s
  <2> QED BY <2>3, <2>4, <2>5 DEF x, y, z
<1> HIDE DEF S
<1>5. Nat \ {0} \subseteq S BY <1>3, <1>4, Induction
<1>6. g - f + 1 \in S /\ f + (g - f + 1) - 1 = g BY <1>2, <1>5
<1> QED BY <1>6 DEF S

\* The blocks that are read, one after the other.
LEMMA VisitedFollow ==
    ASSUME NEW a, WellFormed(a)
    PROVE  LET L == Len(a.blocks)
               at == Visited(a)
           IN  /\ DOMAIN at = 1..(L + 1)
               /\ \A n \in 1..(L + 1) : at[n] \in 0..L
               /\ 1 < L + a.tail => at[1] = 1
               /\ \A n \in 1..L : at[n] # 0 /\ a.blocks[at[n]].next < L + a.tail =>
                                     at[n + 1] = a.blocks[at[n]].next
<1> DEFINE L == Len(a.blocks)
           cut(b) == IF b < L + a.tail THEN b ELSE 0
           F == [x \in Nat \X (0..L) |-> cut(IF x[2] = 0 THEN 0 ELSE a.blocks[x[2]].next)]
           Step(g, n) == LET b == IF n = 1 THEN 1 ELSE IF g[n - 1] = 0 THEN 0 ELSE a.blocks[g[n - 1]].next
                         IN IF b < L + a.tail THEN b ELSE 0
           Walk(g) == g = [n \in 1..(L + 1) |-> Step(g, n)]
           at == CHOOSE g : Walk(g)
           S == {n \in Nat \ {0} : n \in 1..(L + 1) => at[n] \in 0..L}
<1>1. L \in Nat \ {0} /\ \A b \in 1..L : a.blocks[b].next \in Nat
  <2>1. a.blocks \in Seq(Blocks) /\ a.blocks # <<>> BY DEF WellFormed
  <2>2. L \in Nat \ {0} /\ \A b \in 1..L : a.blocks[b] \in Blocks BY <2>1
  <2> QED BY <2>2 DEF Blocks
<1>2. a.tail \in {0, 1} BY DEF WellFormed
<1>3. \A b \in Nat : cut(b) \in 0..L BY <1>1, <1>2
<1>4. F \in [Nat \X (0..L) -> 0..L]
  <2>1. \A v \in 0..L : cut(IF v = 0 THEN 0 ELSE a.blocks[v].next) \in 0..L
    <3> HIDE DEF cut, L
    <3> QED BY <1>1, <1>3
  <2> HIDE DEF cut
  <2> QED BY <2>1
<1>5. \A n \in Nat : \A v \in 0..L : F[<<n, v>>] = cut(IF v = 0 THEN 0 ELSE a.blocks[v].next)
  OBVIOUS
<1> HIDE DEF F
<1>6. cut(1) \in 0..L BY <1>3
<1>7. PICK g : Sequel(g, 0..L, cut(1), F, L + 1)
  <2> HIDE DEF cut, L
  <2>1. L + 1 \in Nat BY <1>1
  <2> QED BY <1>4, <1>6, <2>1, Recursion
<1>8. Walk(g)
  <2>1. g = [n \in 1..(L + 1) |-> g[n]] BY <1>7 DEF Sequel
  <2>2. ASSUME NEW n \in 1..(L + 1) PROVE g[n] = Step(g, n)
    <3>1. CASE n = 1 BY <1>7, <3>1 DEF Sequel
    <3>2. CASE n # 1
      <4>1. n - 1 \in 1..(L + 1) /\ n \in Nat BY <1>1, <3>2
      <4>2. g[n - 1] \in 0..L BY <1>7, <4>1 DEF Sequel
      <4>3. g[n] = F[<<n, g[n - 1]>>] BY <1>7, <3>2 DEF Sequel
      <4>4. F[<<n, g[n - 1]>>] = cut(IF g[n - 1] = 0 THEN 0 ELSE a.blocks[g[n - 1]].next)
        <5> HIDE DEF cut
        <5> QED BY <1>5, <4>1, <4>2
      <4> QED BY <3>2, <4>3, <4>4
    <3> QED BY <3>1, <3>2
  <2> HIDE DEF Step
  <2> QED BY <2>1, <2>2
<1>9. Walk(at)
  <2> HIDE DEF Walk
  <2> QED BY <1>8
<1>10. Visited(a) = at BY DEF Visited
<1> HIDE DEF at
<1>11. DOMAIN at = 1..(L + 1) /\ \A n \in 1..(L + 1) : at[n] = Step(at, n)
  <2> HIDE DEF Step
  <2> QED BY <1>9
<1>12. Nat \ {0} \subseteq S
  <2>1. 1 \in S
    <3>1. at[1] = cut(1) BY <1>1, <1>11
    <3> QED BY <1>6, <3>1
  <2>2. ASSUME NEW n \in Nat \ {0}, n \in S PROVE n + 1 \in S
    <3> SUFFICES ASSUME n + 1 \in 1..(L + 1) PROVE at[n + 1] \in 0..L OBVIOUS
    <3>1. n \in 1..(L + 1) /\ (n + 1) - 1 = n /\ n + 1 # 1 BY <1>1
    <3>2. at[n] \in 0..L BY <2>2, <3>1
    <3>3. at[n + 1] = cut(IF at[n] = 0 THEN 0 ELSE a.blocks[at[n]].next) BY <1>11, <3>1
    <3>4. (IF at[n] = 0 THEN 0 ELSE a.blocks[at[n]].next) \in Nat BY <1>1, <3>2
    <3> HIDE DEF cut
    <3> QED BY <1>3, <3>3, <3>4
  <2> HIDE DEF S
  <2> QED BY <2>1, <2>2, Induction
<1>13. \A n \in 1..(L + 1) : at[n] \in 0..L BY <1>1, <1>12
<1>14. 1 < L + a.tail => at[1] = 1 BY <1>1, <1>11
<1>15. ASSUME NEW n \in 1..L, at[n] # 0, a.blocks[at[n]].next < L + a.tail
       PROVE  at[n + 1] = a.blocks[at[n]].next
  <2>1. n + 1 \in 1..(L + 1) /\ (n + 1) - 1 = n /\ n + 1 # 1 BY <1>1
  <2>2. at[n + 1] = Step(at, n + 1) BY <1>11, <2>1
  <2> QED BY <1>15, <2>1, <2>2
<1> HIDE DEF S, Step, L
<1> QED BY <1>10, <1>11, <1>13, <1>14, <1>15 DEF L

\* The blocks the list links.
LEMMA ListedFollow ==
    ASSUME NEW a, a.blocks \in Seq(Blocks),
           a.blocks # <<>>
    PROVE  \E reach :
              /\ reach[1] = {1}
              /\ \A n \in 1..Len(a.blocks) : reach[n] \subseteq 1..Len(a.blocks)
              /\ \A n \in 1..(Len(a.blocks) - 1) :
                    reach[n + 1] = reach[n] \cup
                       ({a.blocks[b].next : b \in reach[n]} \cap (1..Len(a.blocks)))
              /\ Listed(a) = reach[Len(a.blocks)]
<1> DEFINE L == Len(a.blocks)
           more(R) == R \cup ({a.blocks[b].next : b \in R} \cap (1..L))
           F == [x \in Nat \X SUBSET (1..L) |-> more(x[2])]
           Step(g, n) == IF n = 1 THEN {1}
                         ELSE g[n - 1] \union ({a.blocks[b].next : b \in g[n - 1]} \intersect DOMAIN a.blocks)
           Walk(g) == g = [n \in 1..L |-> Step(g, n)]
           reach == CHOOSE g : Walk(g)
           S == {n \in Nat \ {0} : n \in 1..L => reach[n] \subseteq 1..L}
<1>1. L \in Nat \ {0} /\ DOMAIN a.blocks = 1..L OBVIOUS
<1>2. \A R \in SUBSET (1..L) : more(R) \in SUBSET (1..L) OBVIOUS
<1>3. F \in [Nat \X SUBSET (1..L) -> SUBSET (1..L)]
  <2> HIDE DEF more, L
  <2> QED BY <1>2
<1>4. \A n \in Nat : \A R \in SUBSET (1..L) : F[<<n, R>>] = more(R)
  <2> HIDE DEF more, L
  <2> QED OBVIOUS
<1> HIDE DEF F
<1>5. {1} \in SUBSET (1..L) BY <1>1
<1>6. PICK g : Sequel(g, SUBSET (1..L), {1}, F, L)
  <2> HIDE DEF L
  <2> QED BY <1>1, <1>3, <1>5, Recursion
<1>7. Walk(g)
  <2>1. g = [n \in 1..L |-> g[n]] BY <1>6 DEF Sequel
  <2>2. ASSUME NEW n \in 1..L PROVE g[n] = Step(g, n)
    <3>1. CASE n = 1 BY <1>6, <3>1 DEF Sequel
    <3>2. CASE n # 1
      <4>1. n - 1 \in 1..L /\ n \in Nat BY <1>1, <3>2
      <4>2. g[n - 1] \in SUBSET (1..L) BY <1>6, <4>1 DEF Sequel
      <4>3. g[n] = F[<<n, g[n - 1]>>] BY <1>6, <3>2 DEF Sequel
      <4>4. F[<<n, g[n - 1]>>] = more(g[n - 1])
        <5> HIDE DEF more, L
        <5> QED BY <1>4, <4>1, <4>2
      <4> QED BY <1>1, <3>2, <4>3, <4>4
    <3> QED BY <3>1, <3>2
  <2> HIDE DEF Step
  <2> QED BY <2>1, <2>2
<1>8. Walk(reach)
  <2> HIDE DEF Walk
  <2> QED BY <1>7
<1>9. Listed(a) = reach[L] BY DEF Listed
<1> HIDE DEF reach
<1>10. \A n \in 1..L : reach[n] = Step(reach, n)
  <2> HIDE DEF Step
  <2> QED BY <1>8
<1>11. reach[1] = {1}
  <2>1. 1 \in 1..L BY <1>1
  <2> QED BY <1>10, <2>1
<1>12. ASSUME NEW n \in 1..(L - 1) PROVE reach[n + 1] = more(reach[n])
  <2>1. n + 1 \in 1..L /\ (n + 1) - 1 = n /\ n + 1 # 1 BY <1>1
  <2>2. reach[n + 1] = Step(reach, n + 1) BY <1>10, <2>1
  <2> QED BY <1>1, <2>1, <2>2
<1>13. Nat \ {0} \subseteq S
  <2>1. 1 \in S BY <1>5, <1>11
  <2>2. ASSUME NEW n \in Nat \ {0}, n \in S PROVE n + 1 \in S
    <3> SUFFICES ASSUME n + 1 \in 1..L PROVE reach[n + 1] \subseteq 1..L OBVIOUS
    <3>1. n \in 1..L /\ n \in 1..(L - 1) BY <1>1
    <3>2. reach[n] \subseteq 1..L BY <2>2, <3>1
    <3>3. reach[n + 1] = more(reach[n]) BY <1>12, <3>1
    <3> HIDE DEF more, L
    <3> QED BY <1>2, <3>2, <3>3
  <2> HIDE DEF S
  <2> QED BY <2>1, <2>2, Induction
<1>14. \A n \in 1..L : reach[n] \subseteq 1..L BY <1>1, <1>13
<1> HIDE DEF S
<1> QED BY <1>9, <1>11, <1>12, <1>14

\* Every block of the list is read.
LEMMA ListedVisited ==
    ASSUME NEW a, WellFormed(a), NEW b \in Listed(a)
    PROVE  b \in 1..Len(a.blocks) /\ \E n \in DOMAIN Visited(a) : Visited(a)[n] = b
<1> DEFINE L == Len(a.blocks)
           at == Visited(a)
<1>1. /\ DOMAIN at = 1..(L + 1)
      /\ 1 < L + a.tail => at[1] = 1
      /\ \A n \in 1..L : at[n] # 0 /\ a.blocks[at[n]].next < L + a.tail =>
                            at[n + 1] = a.blocks[at[n]].next
  BY VisitedFollow
<1>2. L \in Nat \ {0} BY DEF WellFormed
<1>3. PICK reach :
         /\ reach[1] = {1}
         /\ \A n \in 1..L : reach[n] \subseteq 1..L
         /\ \A n \in 1..(L - 1) :
               reach[n + 1] = reach[n] \cup ({a.blocks[x].next : x \in reach[n]} \cap (1..L))
         /\ Listed(a) = reach[L]
  <2> HIDE DEF L
  <2> QED BY ListedFollow DEF WellFormed, L
<1> HIDE DEF at, L
<1> DEFINE Linked(n) == \A x \in reach[n] : x < L + a.tail
           S == {n \in Nat \ {0} : n \in 1..L /\ Linked(n) =>
                                      \A x \in reach[n] : \E m \in 1..n : at[m] = x}
<1>4. 1 \in S
  <2> SUFFICES ASSUME Linked(1) PROVE at[1] = 1 BY <1>3
  <2> QED BY <1>1, <1>3
<1>5. ASSUME NEW n \in Nat \ {0}, n \in S PROVE n + 1 \in S
  <2> SUFFICES ASSUME n + 1 \in 1..L, Linked(n + 1), NEW x \in reach[n + 1]
               PROVE  \E m \in 1..(n + 1) : at[m] = x
    OBVIOUS
  <2>1. n \in 1..(L - 1) /\ n \in 1..L BY <1>2
  <2>2. reach[n + 1] = reach[n] \cup ({a.blocks[y].next : y \in reach[n]} \cap (1..L))
    BY <1>3, <2>1
  <2>3. \A y \in reach[n] : \E m \in 1..n : at[m] = y BY <1>5, <2>1, <2>2
  <2>4. CASE x \in reach[n] BY <2>1, <2>3, <2>4
  <2>5. CASE x \notin reach[n]
    <3>1. PICK y \in reach[n] : x = a.blocks[y].next BY <2>2, <2>5
    <3>2. PICK m \in 1..n : at[m] = y BY <2>3
    <3>3. x < L + a.tail OBVIOUS
    <3>4. y \in 1..L BY <1>3, <2>1
    <3>5. m \in 1..L /\ at[m] # 0 /\ m + 1 \in 1..(n + 1) BY <1>2, <2>1, <3>2, <3>4
    <3>6. at[m + 1] = x BY <1>1, <3>1, <3>2, <3>3, <3>5
    <3> QED BY <3>5, <3>6
  <2> QED BY <2>4, <2>5
<1>6. Nat \ {0} \subseteq S
  <2> HIDE DEF S
  <2> QED BY <1>4, <1>5, Induction
<1>7. L \in S /\ Linked(L) BY <1>2, <1>3, <1>6 DEF WellFormed, L
<1>8. PICK m \in 1..L : at[m] = b BY <1>2, <1>3, <1>7
<1>9. b \in 1..L BY <1>2, <1>3
<1> QED BY <1>1, <1>2, <1>8, <1>9 DEF at, L

\* The least of a set of numbers is one of them.
LEMMA MinTaken ==
    ASSUME NEW M, M \subseteq Nat, M # {}
    PROVE  Min(M) \in M /\ \A n \in M : Min(M) <= n
BY LeastNumber DEF Min

\* The entries of a block that is read are entries of the block; none is left out
\* as long as they fit.
LEMMA BlockRead ==
    ASSUME NEW a, WellFormed(a), NEW b \in 1..Len(a.blocks)
    PROVE  /\ ReadIndexBlock(a, b) \subseteq Entries
           /\ Len(a.blocks[b].entries) <= EntriesPerBlock =>
                 ToSet(a.blocks[b].entries) \subseteq ReadIndexBlock(a, b)
<1> DEFINE e == a.blocks[b].entries
           m == Min({Len(e), EntriesPerBlock})
<1>1. e \in Seq(Entries)
  <2>1. a.blocks \in Seq(Blocks) BY DEF WellFormed
  <2>2. a.blocks[b] \in Blocks BY <2>1
  <2> QED BY <2>2 DEF Blocks
<1>2. {Len(e), EntriesPerBlock} \subseteq Nat BY <1>1, EntriesAssumption
<1>3. m \in {Len(e), EntriesPerBlock} /\ m <= Len(e) /\ m <= EntriesPerBlock
  <2>1. {Len(e), EntriesPerBlock} # {} OBVIOUS
  <2> HIDE DEF e
  <2> QED BY <1>2, <2>1, MinTaken
<1>4. ReadIndexBlock(a, b) = {e[n] : n \in 1..m} BY DEF ReadIndexBlock
<1>5. m \in Nat BY <1>2, <1>3
<1> HIDE DEF e, m
<1>6. \A n \in 1..m : n \in 1..Len(e) /\ e[n] \in Entries BY <1>1, <1>2, <1>3, <1>5
<1>7. Len(e) <= EntriesPerBlock => m = Len(e) BY <1>2, <1>3
<1>8. ToSet(e) = {e[n] : n \in 1..Len(e)} BY <1>1 DEF ToSet
<1> QED BY <1>4, <1>6, <1>7, <1>8 DEF e

\* The offsets that are read are numbers, and those that are wanted are among them.
LEMMA WantedListed ==
    ASSUME NEW a, WellFormed(a)
    PROVE  /\ \A type : GetOffsets(a, type) \subseteq Nat
           /\ Wanted(a) \subseteq GetOffsets(a, "item") \cup GetOffsets(a, "nano")
<1> DEFINE at == Visited(a)
           L  == Len(a.blocks)
           read == {at[n] : n \in DOMAIN at} \ {0}
<1>1. DOMAIN at = 1..(L + 1) /\ \A n \in 1..(L + 1) : at[n] \in 0..L BY VisitedFollow
<1>2. L \in Nat BY DEF WellFormed
<1>3. read \subseteq 1..L
  <2> HIDE DEF at, L
  <2> QED BY <1>1, <1>2
<1>4. ReadIndexFile(a) = UNION {ReadIndexBlock(a, b) : b \in read} BY DEF ReadIndexFile
<1>5. Listed(a) \subseteq read
  <2> SUFFICES ASSUME NEW b \in Listed(a) PROVE b \in read OBVIOUS
  <2>1. b \in 1..L /\ \E n \in DOMAIN at : at[n] = b BY ListedVisited
  <2> HIDE DEF at, L
  <2> QED BY <1>2, <2>1
<1> HIDE DEF read, L
<1>6. ReadIndexFile(a) \subseteq Entries
  <2>1. \A b \in read : ReadIndexBlock(a, b) \subseteq Entries BY <1>3, BlockRead DEF L
  <2> QED BY <1>4, <2>1
<1>7. \A type : GetOffsets(a, type) \subseteq Nat BY <1>6 DEF GetOffsets, Entries
<1>8. ASSUME NEW o \in Wanted(a)
      PROVE  o \in GetOffsets(a, "item") \cup GetOffsets(a, "nano")
  <2>1. PICK b \in Listed(a) : \E x \in ToSet(a.blocks[b].entries) :
                                  x.type \in {"item", "nano"} /\ o = x.offset
    BY DEF Wanted
  <2>2. PICK x \in ToSet(a.blocks[b].entries) : x.type \in {"item", "nano"} /\ o = x.offset
    BY <2>1
  <2>3. b \in read /\ b \in 1..L BY <1>3, <1>5
  <2>4. Len(a.blocks[b].entries) <= EntriesPerBlock BY DEF WellFormed
  <2>5. x \in ReadIndexBlock(a, b) BY <2>2, <2>3, <2>4, BlockRead DEF L
  <2>6. x \in ReadIndexFile(a) BY <1>4, <2>3, <2>5
  <2> QED BY <2>2, <2>6 DEF GetOffsets
<1> QED BY <1>7, <1>8

\* A record is read from an open file of the archive.
LEMMA FileOpened ==
    ASSUME NEW a, WellFormed(a), NEW open \in 0..Len(a.files), NEW o \in Nat
    PROVE  EnsureFileOpen(a, open, o) \in 1..Len(a.files)
<1> DEFINE D == {f \in DOMAIN a.files : FileStart(a, f) <= o}
<1>1. a.files \in Seq(Nat) /\ a.files # <<>> BY DEF WellFormed
<1>2. Len(a.files) \in Nat \ {0} /\ DOMAIN a.files = 1..Len(a.files) BY <1>1
<1>3. 1 \in D
  <2>1. 1 \in DOMAIN a.files BY <1>2
  <2> QED BY <1>1, <2>1, FilesFollow
<1>4. D \subseteq Nat /\ D # {} /\ \A f \in D : f <= Len(a.files) BY <1>2, <1>3
<1>5. Max(D) \in D
  <2> DEFINE L == Len(a.files)
             M == {L - f : f \in D}
  <2>1. L \in Nat /\ D \subseteq Nat /\ D # {} /\ \A f \in D : f <= L BY <1>2, <1>4
  <2> HIDE DEF D, L
  <2>2. M \subseteq Nat /\ M # {}
    <3>1. \A f \in D : L - f \in Nat BY <2>1
    <3> QED BY <2>1, <3>1
  <2>3. PICK m \in M : \A n \in M : m <= n
    <3> HIDE DEF M
    <3> QED BY <2>2, LeastNumber
  <2>4. PICK f \in D : m = L - f BY <2>3
  <2>5. ASSUME NEW g \in D PROVE f >= g
    <3>1. L - g \in M OBVIOUS
    <3>2. L - f <= L - g BY <2>3, <2>4, <3>1
    <3>3. L \in Nat /\ f \in Nat /\ g \in Nat BY <2>1, <2>4
    <3> QED BY <3>2, <3>3
  <2>6. \E x \in D : \A y \in D : x >= y BY <2>4, <2>5
  <2> HIDE DEF M
  <2> QED BY <2>1, <2>6 DEF Max
<1>6. OpenFileFromOffset(a, o) \in 1..Len(a.files) BY <1>2, <1>5 DEF OpenFileFromOffset
<1> QED BY <1>2, <1>6 DEF EnsureFileOpen

\* A record that is wanted is read from the file that holds it, whichever file is
\* open: away from the border the ranges the code compares with are the file's own.
LEMMA ReadAtHome ==
    ASSUME NEW a, WellFormed(a), 0 \notin ToSet(a.files), NEW open \in 0..Len(a.files),
           NEW o \in Wanted(a)
    PROVE  EnsureFileOpen(a, open, o) = Home(a, o)
<1> DEFINE L == Len(a.files)
           FS(f) == FileStart(a, f)
<1>1. a.files \in Seq(Nat) /\ a.files # <<>> BY DEF WellFormed
<1>2. L \in Nat \ {0} /\ DOMAIN a.files = 1..L BY <1>1
<1>3. \A f \in 1..L : a.files[f] \in Nat \ {0} BY <1>1, <1>2 DEF ToSet
<1>4. /\ \A f \in 1..L : FS(f) \in Int
      /\ \A f \in 1..L : f + 1 \in 1..L => FS(f + 1) = FS(f) + a.files[f] - 1
  BY <1>1, <1>2, FilesFollow
<1>5. \A f, g \in 1..L : f <= g => FS(f) <= FS(g) BY <1>1, <1>2, FilesAscend
<1>6. o \in Nat BY WantedListed
<1>7. PICK f \in 1..L : FS(f) + 1 <= o /\ o < FS(f) + a.files[f]
  BY <1>2 DEF Wanted, WellFormed
<1>8. \A g \in 1..L : g # 1 => o # FS(g) /\ o # FS(g) + 1 BY <1>2 DEF Wanted, AtBorder
<1> HIDE DEF FS, L
<1>9. \A g \in 1..L : g > f => FS(g) > o
  <2> SUFFICES ASSUME NEW g \in 1..L, g > f PROVE FS(g) > o OBVIOUS
  <2>1. f + 1 \in 1..L /\ f + 1 <= g /\ g # 1 BY <1>2
  <2>2. FS(f + 1) = FS(f) + a.files[f] - 1 /\ FS(f + 1) <= FS(g) BY <1>4, <1>5, <2>1
  <2>3. /\ FS(f) \in Int /\ FS(g) \in Int /\ a.files[f] \in Nat
    BY <1>3, <1>4
  <2>4. o # FS(g) BY <1>8, <2>1
  <2> QED BY ONLY <1>6, <1>7, <2>2, <2>3, <2>4
<1>10. \A g \in 1..L : g < f => FS(g) + a.files[g] < o
  <2> SUFFICES ASSUME NEW g \in 1..L, g < f PROVE FS(g) + a.files[g] < o OBVIOUS
  <2>1. g + 1 \in 1..L /\ g + 1 <= f /\ f # 1 BY <1>2
  <2>2. FS(g + 1) = FS(g) + a.files[g] - 1 /\ FS(g + 1) <= FS(f) BY <1>4, <1>5, <2>1
  <2>3. FS(f) \in Int /\ FS(g) \in Int /\ a.files[g] \in Nat BY <1>3, <1>4
  <2>4. o # FS(f) + 1 BY <1>8, <2>1
  <2>5. FS(f) + 1 < o BY ONLY <1>6, <1>7, <2>3, <2>4
  <2> QED BY ONLY <1>6, <2>2, <2>3, <2>5
<1>11. Home(a, o) = f
  <2>1. \A g \in 1..L : FS(g) + 1 <= o /\ o < FS(g) + a.files[g] => g = f
    <3> SUFFICES ASSUME NEW g \in 1..L, FS(g) + 1 <= o, o < FS(g) + a.files[g], g # f
                 PROVE  FALSE
      OBVIOUS
    <3>1. g < f \/ g > f BY <1>2
    <3>2. FS(g) \in Int /\ a.files[g] \in Nat BY <1>3, <1>4
    <3> QED BY <1>6, <1>9, <1>10, <3>1, <3>2
  <2> QED BY <1>2, <1>7, <2>1 DEF Home, FS
<1>12. ASSUME open # 0, o >= FS(open), o <= FS(open) + a.files[open] PROVE open = f
  <2>1. open \in 1..L BY <1>2, <1>12 DEF L
  <2>2. open < f \/ open > f \/ open = f BY <1>2, <2>1
  <2>3. FS(open) \in Int /\ a.files[open] \in Nat BY <1>3, <1>4, <2>1
  <2> QED BY <1>6, <1>9, <1>10, <1>12, <2>1, <2>2, <2>3
<1>13. OpenFileFromOffset(a, o) = f
  <2> DEFINE D == {g \in 1..L : FS(g) <= o}
  <2>1. f \in D BY <1>4, <1>6, <1>7
  <2>2. \A g \in D : f >= g
    <3> SUFFICES ASSUME NEW g \in D, g > f PROVE FALSE BY <1>2
    <3> QED BY <1>4, <1>6, <1>9
  <2>3. D \subseteq Nat BY <1>2
  <2>4. OpenFileFromOffset(a, o) = Max(D) BY <1>2 DEF OpenFileFromOffset, FS
  <2> HIDE DEF D
  <2>5. \A x \in D : (\A y \in D : x >= y) => x = f BY <2>1, <2>2, <2>3
  <2>6. Max(D) = f BY <2>1, <2>2, <2>5 DEF Max
  <2> QED BY <2>4, <2>6
<1> QED BY <1>11, <1>12, <1>13 DEF EnsureFileOpen, FS

-----------------------------------------------------------------------------
(* The inductive invariant.                                                *)

\* The item database in the making, begun at time s: the tables made from others
\* are empty.
Draft(db, s) ==
    db = [version |-> CURRENT_AODB_VERSION, rows |-> db.rows, details |-> db.rows,
          derived |-> {}, identify |-> {}, since |-> s, stamp |-> s]

\* What should be in it, of the records at offsets O, is in it.
Has(O) == \A o \in O : o \in Wanted(archive) => archive.records[o].id \in work.db.rows

Making ==
    app.pc \in {"barrier", "items", "nanos", "post"} =>
       /\ 0 \notin ToSet(archive.files)
       /\ ~ work.done
       /\ Draft(work.db, work.since)
       /\ work.since \in Nat /\ work.since <= orig
       /\ ~ seen.patched => work.since = orig
       /\ work.open \in 0..Len(archive.files)
       /\ work.queue \subseteq Nat

\* How far it has been read: the records of the phase that are no longer queued,
\* and those of the phases before.
Reading ==
    /\ app.pc \in {"barrier", "items"} => Has(GetOffsets(archive, "item") \ work.queue)
    /\ app.pc = "nanos" => Has(GetOffsets(archive, "nano") \ work.queue)
    /\ app.pc \in {"nanos", "post"} => Has(GetOffsets(archive, "item"))
    /\ app.pc = "post" => Has(GetOffsets(archive, "nano")) /\ tmp = work.db

\* The temporary file is the new database once all is done, and until it has been
\* renamed.
Done == (app.pc \in {"end", "join"} /\ work.done) \/ app.pc \in {"remove", "rename"}
Made ==
    Done => /\ WholeFor(tmp, archive) /\ TimelyFor(tmp, orig)
            /\ ~ seen.patched => tmp.since = orig

\* Something is extracted only from an archive that is there.
ThereIsOne ==
    app.pc \in {"extract", "barrier", "items", "nanos", "post"} \/ Done => orig # 0

Shapes ==
    /\ app = [pc |-> app.pc, set |-> app.set, folder |-> app.folder, prefs |-> app.prefs,
              up |-> app.up, kept |-> app.kept]
    /\ work = [db |-> work.db, queue |-> work.queue, count |-> work.count, open |-> work.open,
               since |-> work.since, done |-> work.done]
    /\ seen = [user |-> seen.user, viewLost |-> seen.viewLost, patched |-> seen.patched,
               launches |-> seen.launches]
    /\ orig \in Nat

Inv ==
    /\ WellFormed(archive) /\ Shapes /\ Usable(items, archive, orig)
    /\ Making /\ Reading /\ Made /\ ThereIsOne /\ AskedOrCurrent

-----------------------------------------------------------------------------
(* Steps that leave the item database alone.                               *)

Disk == <<items, tmp, archive, orig>>
Busy == {"extract", "barrier", "items", "nanos", "post", "end", "join", "remove", "rename",
         "attach"}
App(a) == a = [pc |-> a.pc, set |-> a.set, folder |-> a.folder, prefs |-> a.prefs,
               up |-> a.up, kept |-> a.kept]
Seen(s) == s = [user |-> s.user, viewLost |-> s.viewLost, patched |-> s.patched,
                launches |-> s.launches]

\* The disk a start finds is one on which the item database may be used.
LEMMA InitInv == Init => Inv
<1> SUFFICES ASSUME Init PROVE Inv OBVIOUS
<1>1. PICK d \in Disks : /\ items = d.items /\ tmp = d.tmp /\ archive = d.archive /\ orig = d.orig
                         /\ seen = [user |-> d.user, viewLost |-> FALSE, patched |-> FALSE,
                                    launches |-> 0]
  BY DEF Init
<1>2. WellFormed(archive) /\ orig \in Nat /\ Usable(items, archive, orig)
  BY <1>1, DisksAssumption
<1>3. app = Off /\ work = NoWork BY DEF Init
<1>4. app.pc = "off" BY <1>3 DEF Off
<1>5. Shapes BY <1>1, <1>2, <1>3 DEF Shapes, Off, NoWork
<1> QED BY <1>2, <1>4, <1>5
        DEF Inv, Making, Reading, Made, Done, ThereIsOne, AskedOrCurrent, At

\* A step of the main thread to a place where nothing is made of the archive.
LEMMA Aside ==
    ASSUME Inv, UNCHANGED Disk, App(app'), Seen(seen'), app'.pc \notin Busy,
           UNCHANGED work \/ work' = NoWork
    PROVE  Inv'
<1> USE DEF Inv, Disk
<1>1. Shapes' BY DEF Shapes, App, Seen, NoWork
<1>2. Making' /\ Reading' /\ Made' /\ ThereIsOne' /\ AskedOrCurrent'
  BY DEF Making, Reading, Made, Done, ThereIsOne, AskedOrCurrent, At, Busy
<1> QED BY <1>1, <1>2

\* A step of the dialog.
LEMMA Elsewhere ==
    ASSUME Inv, UNCHANGED <<items, tmp, archive, orig, app, work, seen>>
    PROVE  Inv'
BY DEF Inv, Shapes, Making, Reading, Has, Draft, Made, Done, ThereIsOne, AskedOrCurrent, At

\* The folder of the game is found or asked for.
LEMMA FolderKept ==
    ASSUME App(app), NEW answer
    PROVE  App(AOFolder(answer))
BY DEF App, AOFolder

\* The steps of a start before the item database is looked at, and those after it.
LEMMA AsideSteps ==
    ASSUME Inv,
           \/ Launch \/ LogFolder \/ LogPrefsFolder \/ OpenDb \/ CreateDb \/ CheckVersion
           \/ UpgradeStep \/ Attach \/ Close \/ SaveSettings \/ Crash
    PROVE  Inv'
<1>1. App(app) /\ Seen(seen) BY DEF Inv, Shapes, App, Seen
<1>2. \A answer : App(AOFolder(answer)) BY <1>1, FolderKept
<1>3. App(Off) /\ Off.pc \notin Busy BY DEF App, Off, Busy
<1>4. CASE Launch
  <2>1. App(app') /\ app'.pc \notin Busy BY <1>4 DEF Launch, Off, App, Busy
  <2>2. Seen(seen') BY <1>1, <1>4 DEF Launch, Seen
  <2> QED BY <1>4, <2>1, <2>2, Aside DEF Launch, Files, Disk
<1>5. CASE LogFolder
  <2>1. App(app') /\ app'.pc \notin Busy BY <1>2, <1>5 DEF LogFolder, App, Busy
  <2> QED BY <1>1, <1>5, <2>1, Aside DEF LogFolder, Files, Disk
<1>6. CASE LogPrefsFolder
  <2>1. PICK answer \in Answers :
           LET a == AOFolder(answer)
           IN  app' = [a EXCEPT !.pc = "db", !.prefs = IF a.folder = "" THEN "wrong" ELSE "right"]
    BY <1>6 DEF LogPrefsFolder
  <2> DEFINE a == AOFolder(answer)
  <2>2. App(a) BY <1>2
  <2> HIDE DEF a
  <2>3. app' = [a EXCEPT !.pc = "db", !.prefs = IF a.folder = "" THEN "wrong" ELSE "right"]
    BY <2>1 DEF a
  <2>4. App(app') /\ app'.pc \notin Busy BY <2>2, <2>3 DEF App, Busy
  <2> QED BY <1>1, <1>6, <2>4, Aside DEF LogPrefsFolder, Files, Disk
<1>7. CASE OpenDb
  <2>1. PICK answer \in Answers :
           LET a == AOFolder(answer)
           IN  \/ app' = Off
               \/ app' = [a EXCEPT !.pc = IF user = NoFile THEN "create" ELSE "version"]
    BY <1>7 DEF OpenDb, Ends
  <2> DEFINE a == AOFolder(answer)
  <2>2. App(a) BY <1>2
  <2> HIDE DEF a
  <2>3. app' = Off \/ app' = [a EXCEPT !.pc = IF user = NoFile THEN "create" ELSE "version"]
    BY <2>1 DEF a
  <2>4. App(app') /\ app'.pc \notin Busy BY <1>3, <2>2, <2>3 DEF App, Busy
  <2> QED BY <1>1, <1>7, <2>4, Aside DEF OpenDb, Disk
<1>8. CASE CreateDb
  <2>1. App(app') /\ app'.pc \notin Busy BY <1>1, <1>8 DEF CreateDb, Goto, App, Busy
  <2> QED BY <1>1, <1>8, <2>1, Aside DEF CreateDb, Disk
<1>9. CASE CheckVersion
  <2>1. App(app') /\ app'.pc \notin Busy
    BY <1>1, <1>3, <1>9 DEF CheckVersion, Goto, Ends, App, Busy
  <2> QED BY <1>1, <1>9, <2>1, Aside DEF CheckVersion, Files, Disk
<1>10. CASE UpgradeStep
  <2>1. App(app') /\ app'.pc \notin Busy BY <1>1, <1>10 DEF UpgradeStep, App, Busy
  <2> QED BY <1>1, <1>10, <2>1, Aside DEF UpgradeStep, Disk
<1>11. CASE Attach
  <2>1. App(app') /\ app'.pc \notin Busy BY <1>1, <1>11 DEF Attach, Goto, App, Busy
  <2> QED BY <1>1, <1>11, <2>1, Aside DEF Attach, Files, Disk
<1>12. CASE Close
  <2>1. App(app') /\ app'.pc \notin Busy BY <1>1, <1>12 DEF Close, Goto, App, Busy
  <2> QED BY <1>1, <1>12, <2>1, Aside DEF Close, Disk
<1>13. CASE SaveSettings
  <2>1. App(app') /\ app'.pc \notin Busy BY <1>3, <1>13 DEF SaveSettings, Ends
  <2> QED BY <1>1, <1>13, <2>1, Aside DEF SaveSettings, Disk
<1>14. CASE Crash
  <2>1. App(app') /\ app'.pc \notin Busy BY <1>3, <1>14 DEF Crash
  <2>2. Seen(seen') BY <1>1, <1>14 DEF Crash, Seen
  <2> QED BY <1>14, <2>1, <2>2, Aside DEF Crash, Files, Disk
<1> QED BY <1>4, <1>5, <1>6, <1>7, <1>8, <1>9, <1>10, <1>11, <1>12, <1>13, <1>14

\* The game is patched: what was whole is whole, and what is under way is known to
\* have been overtaken.
LEMMA PatchInv ==
    ASSUME Inv, Patch
    PROVE  Inv'
<1> USE DEF Inv
<1>1. orig \in Nat \ {0} /\ orig' = orig + 1 /\ UNCHANGED <<items, tmp, archive, app, work>>
  BY StartupAssumption DEF Patch
<1>2. Seen(seen') BY DEF Patch, Shapes, Seen
<1>3. At("off") \/ seen'.patched BY DEF Patch, Shapes
<1>4. Shapes' BY <1>1, <1>2 DEF Shapes, Seen
<1>5. \A db : TimelyFor(db, orig) => TimelyFor(db, orig') BY <1>1 DEF TimelyFor
<1>6. Usable(items, archive, orig)' BY <1>1, <1>5 DEF Usable
<1>7. Making' BY <1>1, <1>3 DEF Making, At, Draft
<1>8. Reading' BY <1>1 DEF Reading, Has
<1>9. Made' BY <1>1, <1>3, <1>5 DEF Made, Done, At
<1>10. ThereIsOne' BY <1>1 DEF ThereIsOne, Done
<1>11. AskedOrCurrent' BY <1>1, <1>3 DEF AskedOrCurrent, At
<1> QED BY <1>1, <1>4, <1>6, <1>7, <1>8, <1>9, <1>10, <1>11

-----------------------------------------------------------------------------
(* The extraction.                                                         *)

\* An item database that is there is used when it is of this version and as new as
\* the archive, or when the user wants it.
LEMMA SyncInv ==
    ASSUME Inv, Sync
    PROVE  Inv'
<1>1. App(app) BY DEF Inv, Shapes, App
<1>2. UNCHANGED <<items, tmp, archive, orig, work, seen>> BY DEF Sync, Files
<1>3. CASE Ends
  <2>1. App(app') /\ app'.pc \notin Busy BY <1>3 DEF Ends, Off, App, Busy
  <2>2. Seen(seen') BY <1>2 DEF Inv, Shapes, Seen
  <2> QED BY <1>2, <2>1, <2>2, Aside DEF Disk
<1>4. CASE orig # 0 /\ Goto("extract")
  <2>1. App(app') /\ app'.pc = "extract" BY <1>1, <1>4 DEF Goto, App
  <2> QED
    BY <1>2, <1>4, <2>1
    DEF Inv, Shapes, App, Making, Reading, Made, Done, ThereIsOne, AskedOrCurrent, At
<1>5. CASE /\ App(app') /\ app'.pc = "attach"
           /\ orig = 0 \/ app'.kept \/ items.since = orig \/ items.since < items.stamp
  BY <1>2, <1>5
  DEF Inv, Shapes, App, Making, Reading, Made, Done, ThereIsOne, AskedOrCurrent, At
<1>6. ASSUME UpToDate, orig # 0
      PROVE  items.since = orig \/ items.since < items.stamp
  <2>1. TimelyFor(items, orig) /\ orig \in Nat BY <1>6 DEF Inv, Shapes, Usable, UpToDate
  <2>2. orig <= items.stamp BY <1>6 DEF UpToDate
  <2> QED BY <1>6, <2>1, <2>2 DEF TimelyFor
<1>7. Goto("attach") => App(app') /\ app'.pc = "attach" BY <1>1 DEF Goto, App
<1>8. app' = [app EXCEPT !.pc = "attach", !.kept = TRUE]
         => App(app') /\ app'.pc = "attach" /\ app'.kept
  BY <1>1 DEF App
<1> QED BY <1>3, <1>4, <1>5, <1>6, <1>7, <1>8 DEF Sync

\* The extraction begins with an empty database and every record still to be read,
\* or ends the start when a file is missing.
LEMMA BeginExtractionInv ==
    ASSUME Inv, BeginExtraction
    PROVE  Inv'
<1> USE DEF Inv
<1>1. App(app) /\ UNCHANGED <<items, archive, orig, seen>>
  BY DEF Shapes, App, BeginExtraction
<1>2. CASE 0 \in ToSet(archive.files)
  <2>1. app' = Off /\ UNCHANGED work BY <1>2 DEF BeginExtraction, Ends
  <2>2. app'.pc = "off" /\ App(app') BY <2>1 DEF Off, App
  <2> QED
    BY <1>1, <2>1, <2>2
    DEF Shapes, App, Making, Reading, Made, Done, ThereIsOne, AskedOrCurrent, At
<1>3. CASE 0 \notin ToSet(archive.files)
  <2>1. /\ work' = [NoWork EXCEPT !.db = OpenWriter(orig),
                                  !.queue = GetOffsets(archive, "item"), !.since = orig]
        /\ Goto("barrier")
    BY <1>3 DEF BeginExtraction
  <2>2. App(app') /\ app'.pc = "barrier" BY <1>1, <2>1 DEF Goto, App
  <2>3. orig # 0 /\ orig \in Nat BY DEF BeginExtraction, At, ThereIsOne, Shapes
  <2>4. work' = [db |-> OpenWriter(orig), queue |-> GetOffsets(archive, "item"), count |-> 0,
                 open |-> 0, since |-> orig, done |-> FALSE]
    BY <2>1 DEF NoWork
  <2>5. Shapes' BY <1>1, <2>2, <2>4 DEF Shapes, App
  <2>6. GetOffsets(archive, "item") \subseteq Nat BY WantedListed
  <2>7. Draft(OpenWriter(orig), orig) BY DEF Draft, OpenWriter
  <2>8. 0 \in 0..Len(archive.files) BY DEF WellFormed
  <2>9. Making' BY <1>1, <1>3, <2>3, <2>4, <2>6, <2>7, <2>8 DEF Making, Draft
  <2>10. Reading' BY <1>1, <2>2, <2>4 DEF Reading, Has
  <2>11. Made' /\ ThereIsOne' /\ AskedOrCurrent'
    BY <1>1, <2>2, <2>3 DEF Made, Done, ThereIsOne, AskedOrCurrent, At
  <2> QED BY <1>1, <2>5, <2>9, <2>10, <2>11
<1> QED BY <1>2, <1>3

\* The dialog is there.
LEMMA BarrierInv ==
    ASSUME Inv, Barrier
    PROVE  Inv'
<1> USE DEF Inv
<1>1. UNCHANGED <<items, tmp, archive, orig, work, seen>> /\ app.pc = "barrier"
  BY DEF Barrier, Files, At
<1>2. app'.pc = "items" /\ App(app') BY DEF Barrier, Goto, Shapes, App
<1>3. Shapes' BY <1>1, <1>2 DEF Shapes, App
<1> QED
  BY <1>1, <1>2, <1>3
  DEF Making, Reading, Has, Draft, Made, Done, ThereIsOne, AskedOrCurrent, At

\* A record is added to a database in the making when it is one to keep.
LEMMA WriteItemAdds ==
    ASSUME NEW db, NEW s, NEW rec, Draft(db, s)
    PROVE  /\ Draft(WriteItem(db, rec), s)
           /\ db.rows \subseteq WriteItem(db, rec).rows
           /\ Kept(rec) => rec.id \in WriteItem(db, rec).rows
<1>1. CASE ~ Kept(rec) BY <1>1 DEF WriteItem
<1>2. CASE Kept(rec)
  <2> DEFINE R == db.rows \union {rec.id}
             Z(r) == [version |-> CURRENT_AODB_VERSION, rows |-> r, details |-> r,
                      derived |-> {}, identify |-> {}, since |-> s, stamp |-> s]
  <2>1. WriteItem(db, rec) = [db EXCEPT !.rows = R, !.details = db.details \union {rec.id}]
    BY <1>2 DEF WriteItem
  <2>2. db = Z(db.rows) BY DEF Draft
  <2>3. db.details = db.rows BY <2>2
  <2>4. WriteItem(db, rec) = [db EXCEPT !.rows = R, !.details = R] BY <2>1, <2>3
  <2>5. rec.id \in R /\ db.rows \subseteq R OBVIOUS
  <2>6. ASSUME NEW r, NEW t PROVE [Z(r) EXCEPT !.rows = t, !.details = t] = Z(t)
    <3> DEFINE y == [version |-> CURRENT_AODB_VERSION, rows |-> t, details |-> r,
                     derived |-> {}, identify |-> {}, since |-> s, stamp |-> s]
    <3>1. [Z(r) EXCEPT !.rows = t] = y OBVIOUS
    <3>2. [y EXCEPT !.details = t] = Z(t) OBVIOUS
    <3> QED BY <3>1, <3>2
  <2>7. Z(R).rows = R OBVIOUS
  <2> HIDE DEF R, Z
  <2>8. [Z(db.rows) EXCEPT !.rows = R, !.details = R] = Z(R) BY ONLY <2>6
  <2>9. WriteItem(db, rec) = Z(R) BY ONLY <2>2, <2>4, <2>8
  <2> QED BY <2>5, <2>7, <2>9 DEF Draft, Z
<1> QED BY <1>1, <1>2

\* What is written stays, and a record that is wanted is written when it is read.
LEMMA RecordRead ==
    ASSUME Inv, app.pc \in {"items", "nanos"}, NEW o \in work.queue,
           NEW got, got = GetItem(archive, work.open, o), got.result # "throws",
           NEW db, db = IF got.result = "item" THEN WriteItem(work.db, archive.records[o])
                                               ELSE work.db
    PROVE  /\ Draft(db, work.since)
           /\ work.db.rows \subseteq db.rows
           /\ o \in Wanted(archive) => archive.records[o].id \in db.rows
<1>1. Draft(work.db, work.since) /\ 0 \notin ToSet(archive.files)
      /\ work.open \in 0..Len(archive.files) /\ WellFormed(archive)
  BY DEF Inv, Making
<1> DEFINE rec == archive.records[o]
<1>2. /\ Draft(WriteItem(work.db, rec), work.since)
      /\ work.db.rows \subseteq WriteItem(work.db, rec).rows
      /\ Kept(rec) => rec.id \in WriteItem(work.db, rec).rows
  BY <1>1, WriteItemAdds
<1>3. ASSUME o \in Wanted(archive) PROVE got.result = "item" /\ Kept(rec)
  <2>1. EnsureFileOpen(archive, work.open, o) = Home(archive, o) BY <1>1, <1>3, ReadAtHome
  <2>2. rec.state # "badheader" /\ Kept(rec) BY <1>3 DEF Wanted
  <2> QED BY <2>1, <2>2 DEF GetItem
<1> QED BY <1>1, <1>2, <1>3

\* A turn of a loop reads the record with the least offset that is left, from
\* whichever file.
LEMMA ExtractRecordInv ==
    ASSUME Inv, ExtractRecord
    PROVE  Inv'
<1> USE DEF Inv
<1> DEFINE o == Min(work.queue)
           got == GetItem(archive, work.open, o)
           db == IF got.result = "item" THEN WriteItem(work.db, archive.records[o]) ELSE work.db
<1>1. /\ app.pc \in {"items", "nanos"} /\ work.queue # {}
      /\ UNCHANGED <<items, archive, orig, seen>>
  BY DEF ExtractRecord, Extracting
<1>2. work' = [work EXCEPT !.db = db, !.queue = @ \ {o}, !.count = work.count + 1,
                           !.open = got.file]
  BY DEF ExtractRecord
<1>3. \/ Goto("end")
      \/ got.result # "throws" /\ UNCHANGED app
  BY DEF ExtractRecord
<1>4. work.queue \subseteq Nat /\ work.open \in 0..Len(archive.files) BY <1>1 DEF Making
<1>5. o \in work.queue BY <1>1, <1>4, MinTaken
<1>6. got.file \in 0..Len(archive.files)
  <2>1. EnsureFileOpen(archive, work.open, o) \in 1..Len(archive.files)
    BY <1>4, <1>5, FileOpened
  <2>2. got.file = EnsureFileOpen(archive, work.open, o) BY DEF GetItem
  <2> HIDE DEF got
  <2> QED BY <2>1, <2>2
<1>7. got.result # "throws" =>
         /\ Draft(db, work.since)
         /\ work.db.rows \subseteq db.rows
         /\ o \in Wanted(archive) => archive.records[o].id \in db.rows
  BY <1>1, <1>5, RecordRead
<1> HIDE DEF o, got, db
<1>8. /\ work'.db = db /\ work'.queue = work.queue \ {o} /\ work'.open = got.file
      /\ work'.since = work.since /\ work'.done = work.done
      /\ work' = [db |-> work'.db, queue |-> work'.queue, count |-> work'.count,
                  open |-> work'.open, since |-> work'.since, done |-> work'.done]
  BY <1>2 DEF Shapes
<1>9. App(app) BY DEF Shapes, App
<1>10. CASE Goto("end")
  <2>1. app'.pc = "end" /\ App(app') BY <1>9, <1>10 DEF Goto, App
  <2>2. ~ work'.done BY <1>1, <1>8 DEF Making
  <2>3. Shapes' BY <1>1, <1>8, <2>1 DEF Shapes, App
  <2> QED
    BY <1>1, <2>1, <2>2, <2>3 DEF Making, Reading, Made, Done, ThereIsOne, AskedOrCurrent, At
<1>11. CASE got.result # "throws" /\ UNCHANGED app
  <2>1. Shapes' BY <1>1, <1>8, <1>11 DEF Shapes
  <2>2. Making' BY <1>1, <1>4, <1>6, <1>7, <1>8, <1>11 DEF Making
  <2>3. ASSUME NEW O, Has(O \ work.queue) PROVE Has(O \ work.queue)'
    BY <1>1, <1>7, <1>8, <1>11, <2>3 DEF Has
  <2>4. ASSUME NEW O, Has(O) PROVE Has(O)'
    BY <1>1, <1>7, <1>8, <1>11, <2>4 DEF Has
  <2>5. Reading'
    <3>1. app'.pc = "items" => Has(GetOffsets(archive, "item") \ work.queue)'
      BY <1>1, <1>11, <2>3 DEF Reading
    <3>2. app'.pc = "nanos" => /\ Has(GetOffsets(archive, "nano") \ work.queue)'
                               /\ Has(GetOffsets(archive, "item"))'
      BY <1>1, <1>11, <2>3, <2>4 DEF Reading
    <3> QED BY <1>1, <1>11, <3>1, <3>2 DEF Reading
  <2>6. Made' /\ ThereIsOne' /\ AskedOrCurrent'
    BY <1>1, <1>11 DEF Made, Done, ThereIsOne, AskedOrCurrent, At
  <2> QED BY <1>1, <2>1, <2>2, <2>5, <2>6
<1> QED BY <1>3, <1>10, <1>11

\* At the end of a phase every record of it has been read, and what has been
\* written is committed.
LEMMA EndOfPhaseInv ==
    ASSUME Inv, EndOfPhase
    PROVE  Inv'
<1> USE DEF Inv
<1>1. /\ app.pc \in {"items", "nanos"} /\ work.queue = {} /\ tmp' = work.db
      /\ UNCHANGED <<items, archive, orig, seen>>
  BY DEF EndOfPhase, Extracting
<1>2. App(app) BY DEF Shapes, App
<1>3. \A O : Has(O) = Has(O \ {}) BY DEF Has
<1>4. CASE Goto("end") /\ UNCHANGED work
  <2>1. app'.pc = "end" /\ App(app') BY <1>2, <1>4 DEF Goto, App
  <2>2. ~ work.done BY <1>1 DEF Making
  <2>3. Shapes' BY <1>1, <1>4, <2>1 DEF Shapes, App
  <2> QED
    BY <1>1, <1>4, <2>1, <2>2, <2>3
    DEF Making, Reading, Made, Done, ThereIsOne, AskedOrCurrent, At
<1>5. CASE /\ app.pc = "items" /\ Goto("nanos")
           /\ work' = [work EXCEPT !.queue = GetOffsets(archive, "nano"), !.count = 0]
  <2>1. app'.pc = "nanos" /\ App(app') BY <1>2, <1>5 DEF Goto, App
  <2> DEFINE Q == GetOffsets(archive, "nano")
  <2>2. Q \subseteq Nat BY WantedListed
  <2>3. Has(GetOffsets(archive, "item")) BY <1>1, <1>3, <1>5 DEF Reading
  <2> HIDE DEF Q
  <2>4. work' = [work EXCEPT !.queue = Q, !.count = 0] BY <1>5 DEF Q
  <2>5. /\ work'.db = work.db /\ work'.queue = Q /\ work'.open = work.open
        /\ work'.since = work.since /\ work'.done = work.done
        /\ work' = [db |-> work'.db, queue |-> work'.queue, count |-> work'.count,
                    open |-> work'.open, since |-> work'.since, done |-> work'.done]
    BY <2>4 DEF Shapes
  <2>6. Shapes' BY <1>1, <2>1, <2>5 DEF Shapes, App
  <2>7. Making' BY <1>1, <2>2, <2>5 DEF Making, Draft
  <2>8. Has(GetOffsets(archive, "item"))' BY <1>1, <2>3, <2>5 DEF Has
  <2>9. Has(Q \ Q)' BY DEF Has
  <2>10. Reading' BY <1>1, <2>1, <2>5, <2>8, <2>9 DEF Reading, Q
  <2>11. Made' /\ ThereIsOne' /\ AskedOrCurrent'
    BY <1>1, <2>1 DEF Made, Done, ThereIsOne, AskedOrCurrent, At
  <2> QED BY <1>1, <2>6, <2>7, <2>10, <2>11
<1>6. CASE app.pc = "nanos" /\ Goto("post") /\ UNCHANGED work
  <2>1. app'.pc = "post" /\ App(app') BY <1>2, <1>6 DEF Goto, App
  <2>2. Shapes' BY <1>1, <1>6, <2>1 DEF Shapes, App
  <2>3. Has(GetOffsets(archive, "nano")) /\ Has(GetOffsets(archive, "item"))
    BY <1>1, <1>3, <1>6 DEF Reading
  <2>4. Making' BY <1>1, <1>6 DEF Making, Draft
  <2>5. Reading' BY <1>1, <1>6, <2>1, <2>3 DEF Reading, Has
  <2>6. Made' /\ ThereIsOne' /\ AskedOrCurrent'
    BY <1>1, <2>1 DEF Made, Done, ThereIsOne, AskedOrCurrent, At
  <2> QED BY <1>1, <2>2, <2>4, <2>5, <2>6
<1> QED BY <1>1, <1>4, <1>5, <1>6 DEF EndOfPhase, At

\* When the derived tables are made every record has been read: the temporary file
\* is a whole item database.
LEMMA PostProcessInv ==
    ASSUME Inv, PostProcess
    PROVE  Inv'
<1> USE DEF Inv
<1>1. app.pc = "post" /\ UNCHANGED <<items, archive, orig, seen>> BY DEF PostProcess, At
<1>2. app'.pc = "end" /\ App(app') BY DEF PostProcess, Goto, Shapes, App
<1>3. Draft(tmp, work.since) /\ work.since \in Nat /\ work.since <= orig
      /\ (~ seen.patched => work.since = orig)
  BY <1>1 DEF Making, Reading
<1>4. work' = [work EXCEPT !.done = TRUE] BY DEF PostProcess
<1>5. tmp' = [[tmp EXCEPT !.derived = tmp.rows \intersect archive.named,
                          !.identify = Identifiable] EXCEPT !.stamp = orig]
  BY DEF PostProcess, PostProcessData, Derived
<1>6. /\ tmp'.rows = tmp.rows /\ tmp'.details = tmp.rows
      /\ tmp'.derived = tmp.rows \intersect archive.named /\ tmp'.identify = Identifiable
      /\ tmp'.since = work.since /\ tmp'.stamp = orig
  BY <1>3, <1>5 DEF Draft
<1>7. Expected(archive) \subseteq tmp.rows
  <2>1. \A o \in GetOffsets(archive, "item") \cup GetOffsets(archive, "nano") :
           o \in Wanted(archive) => archive.records[o].id \in tmp.rows
    BY <1>1 DEF Reading, Has
  <2>2. Wanted(archive) \subseteq GetOffsets(archive, "item") \cup GetOffsets(archive, "nano")
    BY WantedListed
  <2> QED BY <2>1, <2>2 DEF Expected
<1>8. WholeFor(tmp, archive)' BY <1>1, <1>6, <1>7 DEF WholeFor
<1>9. TimelyFor(tmp, orig)' BY <1>1, <1>3, <1>6 DEF TimelyFor, Shapes
<1>10. orig # 0 BY <1>1 DEF ThereIsOne
<1>11. Shapes' BY <1>1, <1>2, <1>4 DEF Shapes, App
<1>12. Made' BY <1>1, <1>3, <1>6, <1>8, <1>9 DEF Made
<1> QED
  BY <1>1, <1>2, <1>10, <1>11, <1>12 DEF Making, Reading, ThereIsOne, AskedOrCurrent, At

\* The dialog is told to end, and waited for.
LEMMA EndDialogInv ==
    ASSUME Inv, EndDialog \/ JoinDialog
    PROVE  Inv'
<1> USE DEF Inv
<1>1. App(app) /\ UNCHANGED Disk /\ UNCHANGED seen
  BY DEF Shapes, App, EndDialog, JoinDialog, Files, Disk
<1>2. CASE EndDialog
  <2>1. app.pc = "end" /\ app'.pc = "join" /\ App(app') /\ UNCHANGED work
    BY <1>1, <1>2 DEF EndDialog, At, Goto, App
  <2>2. Shapes' BY <1>1, <2>1 DEF Shapes, App, Disk
  <2> QED
    BY <1>1, <2>1, <2>2
    DEF Making, Reading, Made, Done, ThereIsOne, AskedOrCurrent, At, Disk
<1>3. CASE JoinDialog
  <2>1. app.pc = "join" /\ work' = NoWork BY <1>3 DEF JoinDialog, At
  <2>2. CASE work.done
    <3>1. app'.pc = "remove" /\ App(app') BY <1>1, <1>3, <2>2 DEF JoinDialog, Goto, App
    <3>2. Shapes' BY <1>1, <2>1, <3>1 DEF Shapes, App, Disk, NoWork
    <3>3. Made' /\ ThereIsOne' BY <1>1, <2>1, <2>2, <3>1 DEF Made, Done, ThereIsOne, Disk
    <3> QED BY <1>1, <3>1, <3>2, <3>3 DEF Making, Reading, AskedOrCurrent, At, Disk
  <2>3. CASE ~ work.done
    <3>1. app' = Off BY <1>3, <2>3 DEF JoinDialog, Ends
    <3>2. App(app') /\ app'.pc \notin Busy BY <3>1 DEF Off, App, Busy
    <3>3. Seen(seen') BY <1>1 DEF Shapes, Seen
    <3> QED BY <1>1, <2>1, <3>2, <3>3, Aside
  <2> QED BY <2>2, <2>3
<1> QED BY <1>2, <1>3

\* The old item database is removed, and the temporary one takes its place.
LEMMA ReplaceInv ==
    ASSUME Inv, RemoveOld \/ RenameNew
    PROVE  Inv'
<1> USE DEF Inv
<1>1. App(app) /\ UNCHANGED <<archive, orig, work, seen>>
  BY DEF Shapes, App, RemoveOld, RenameNew
<1>2. WholeFor(tmp, archive) /\ TimelyFor(tmp, orig) /\ orig # 0
      /\ (~ seen.patched => tmp.since = orig)
  BY DEF RemoveOld, RenameNew, At, Made, Done, ThereIsOne
<1>3. CASE RemoveOld
  <2>1. app'.pc = "rename" /\ App(app') /\ items' = NoFile /\ UNCHANGED tmp
    BY <1>1, <1>3 DEF RemoveOld, Goto, App
  <2>2. Shapes' BY <1>1, <2>1 DEF Shapes, App
  <2>3. Usable(items, archive, orig)' BY <2>1 DEF Usable
  <2> QED
    BY <1>1, <1>2, <2>1, <2>2, <2>3
    DEF Making, Reading, Made, Done, ThereIsOne, AskedOrCurrent, At
<1>4. CASE RenameNew
  <2>1. app'.pc = "attach" /\ App(app') /\ items' = tmp
    BY <1>1, <1>4 DEF RenameNew, Goto, App
  <2>2. Shapes' BY <1>1, <2>1 DEF Shapes, App
  <2>3. Usable(items, archive, orig)'
    BY <1>1, <1>2, <2>1 DEF Usable, WholeFor, TimelyFor
  <2>4. AskedOrCurrent' BY <1>1, <1>2, <2>1 DEF AskedOrCurrent
  <2> QED
    BY <1>1, <1>2, <2>1, <2>2, <2>3, <2>4 DEF Making, Reading, Made, Done, ThereIsOne
<1> QED BY <1>3, <1>4

-----------------------------------------------------------------------------
(* The theorems.                                                           *)

\* No step of the program, of its dialog, of the user or of the game makes what the
\* item database may be used for false.
LEMMA StepInv == Inv /\ [Next]_vars => Inv'
<1> SUFFICES ASSUME Inv, [Next]_vars PROVE Inv' OBVIOUS
<1>1. CASE UNCHANGED vars BY <1>1, Elsewhere DEF vars
<1>2. CASE DialogStep \/ Touch \/ PressCancel
  BY <1>2, Elsewhere
  DEF DialogStep, DialogCreate, DialogLoop, DialogMessage, Touch, PressCancel, Files
<1>3. CASE MainStep
  BY <1>3, AsideSteps, SyncInv, BeginExtractionInv, BarrierInv, ExtractRecordInv,
     EndOfPhaseInv, PostProcessInv, EndDialogInv, ReplaceInv
  DEF MainStep
<1>4. CASE Launch \/ Close \/ Crash BY <1>4, AsideSteps
<1>5. CASE Patch BY <1>5, PatchInv
<1> QED BY <1>1, <1>2, <1>3, <1>4, <1>5 DEF Next

\* Whatever part of an extraction is interrupted, canceled or overtaken by a patch,
\* the item database in use holds every record of the archive it should hold, with
\* its details and the tables made from it.
THEOREM ItemsAlwaysWhole == Spec => []ItemsWhole
<1>1. Inv => ItemsWhole BY DEF Inv, Usable, ItemsWhole
<1> QED BY InitInv, StepInv, <1>1, PTL DEF Spec

\* The program starts with an item database older than the archive only when the
\* user said so, when the archive is gone or has been patched since the start, or
\* when it was patched while the database was made.
THEOREM AskedUnlessCurrent == Spec => []AskedOrCurrent
<1>1. Inv => AskedOrCurrent BY DEF Inv
<1> QED BY InitInv, StepInv, <1>1, PTL DEF Spec
-----------------------------------------------------------------------------
(* Scripts.                                                                *)

\* A statement is executed or leaves the database as it was.
LEMMA ExecIs ==
    ASSUME NEW db, NEW s
    PROVE  Exec(db, s) = IF Executes(db, s) THEN Effect(db, s) ELSE db
<1> DEFINE D == {IF Executes(d, s) THEN Effect(d, s) ELSE d : d \in {db}}
<1>1. D = {IF Executes(db, s) THEN Effect(db, s) ELSE db} OBVIOUS
<1>2. Exec(db, s) = CHOOSE after \in D : TRUE BY DEF Exec
<1> HIDE DEF D
<1> QED BY <1>1, <1>2

\* The databases g goes through from db on, one for each of L statements.
Run(g, db, script, L) ==
    /\ g[0] = db
    /\ \A n \in 1..L : g[n] = Exec(g[n - 1], script[n])

\* A script goes through a database for each of its statements.
LEMMA Runs ==
    ASSUME NEW db, NEW script, NEW L \in Nat, Len(script) = L
    PROVE  \E g : Run(g, db, script, L) /\ Transaction(db, script) = g[L]
<1> DEFINE Step(g, n) == IF n = 0 THEN db ELSE Exec(g[n - 1], script[n])
           Loop(g, m) == g = [n \in 0..m |-> Step(g, n)]
           S == {m \in Nat : \E g : Loop(g, m)}
           after == CHOOSE g : Loop(g, L)
<1>1. ASSUME NEW m \in Nat, NEW g, Loop(g, m) PROVE m + 1 \in S
  <2> DEFINE h == [n \in 0..(m + 1) |-> IF n <= m THEN g[n] ELSE Exec(g[m], script[n])]
  <2>1. \A n \in 0..m : g[n] = Step(g, n)
    <3> HIDE DEF Step
    <3> QED BY <1>1
  <2>2. ASSUME NEW n \in 0..(m + 1) PROVE h[n] = Step(h, n)
    <3>1. CASE n <= m
      <4>1. h[n] = g[n] /\ g[n] = Step(g, n) BY <2>1, <3>1
      <4>2. n # 0 => n - 1 \in 0..(m + 1) /\ n - 1 <= m BY <3>1
      <4>3. n # 0 => h[n - 1] = g[n - 1] BY <4>2
      <4> HIDE DEF h
      <4> QED BY <4>1, <4>3
    <3>2. CASE n = m + 1
      <4>1. h[n] = Exec(g[m], script[n]) /\ h[n - 1] = g[m] /\ n # 0 BY <3>2
      <4> HIDE DEF h
      <4> QED BY <4>1
    <3> QED BY <3>1, <3>2
  <2>3. h = [n \in 0..(m + 1) |-> h[n]] OBVIOUS
  <2>4. Loop(h, m + 1)
    <3> HIDE DEF h, Step
    <3> QED BY <2>2, <2>3
  <2> HIDE DEF Loop
  <2> QED BY <2>4
<1>2. 0 \in S
  <2>1. Loop([n \in 0..0 |-> db], 0) OBVIOUS
  <2> QED BY <2>1
<1>3. Nat \ {0} \subseteq S
  <2>1. 1 \in S
    <3>1. 0 + 1 \in S
      <4> HIDE DEF Loop
      <4> QED BY <1>1, <1>2
    <3> HIDE DEF S
    <3> QED BY <3>1
  <2>2. ASSUME NEW n \in Nat \ {0}, n \in S PROVE n + 1 \in S
    <3> HIDE DEF Loop
    <3> QED BY <1>1, <2>2
  <2> HIDE DEF S
  <2> QED BY <2>1, <2>2, Induction
<1>4. \E g : Loop(g, L)
  <2>1. L \in S
    <3> HIDE DEF S
    <3> QED BY <1>2, <1>3
  <2> HIDE DEF Loop
  <2> QED BY <2>1
<1>5. Loop(after, L)
  <2> HIDE DEF Loop
  <2> QED BY <1>4
<1>6. Transaction(db, script) = after[L] BY DEF Transaction
<1> HIDE DEF after
<1>7. \A n \in 0..L : after[n] = Step(after, n)
  <2> HIDE DEF Step
  <2> QED BY <1>5
<1>8. Run(after, db, script, L) BY <1>7 DEF Run
<1> QED BY <1>6, <1>8

\* It goes through no others.
LEMMA RunIs ==
    ASSUME NEW db, NEW script, NEW L \in Nat, Len(script) = L, NEW g, Run(g, db, script, L)
    PROVE  Transaction(db, script) = g[L]
<1>1. PICK h : Run(h, db, script, L) /\ Transaction(db, script) = h[L] BY Runs
<1> DEFINE S == {n \in Nat : n <= L => g[n] = h[n]}
<1>2. 0 \in S BY <1>1 DEF Run
<1>3. ASSUME NEW n \in Nat, n \in S PROVE n + 1 \in S
  <2> SUFFICES ASSUME n + 1 <= L PROVE g[n + 1] = h[n + 1] OBVIOUS
  <2>1. n + 1 \in 1..L /\ (n + 1) - 1 = n /\ g[n] = h[n] BY <1>3
  <2> QED BY <1>1, <2>1 DEF Run
<1>4. Nat \ {0} \subseteq S
  <2>1. 0 + 1 \in S BY <1>2, <1>3
  <2> HIDE DEF S
  <2> QED BY <1>3, <2>1, Induction
<1>5. L \in S
  <2> HIDE DEF S
  <2> QED BY <1>2, <1>4
<1> QED BY <1>1, <1>5

\* A script is a sequence, whatever kinds of statements it has.
Script(a) == a \in Seq({a[n] : n \in DOMAIN a})

\* Two scripts one after the other.
LEMMA Concat ==
    ASSUME NEW db, NEW a, NEW b, Script(a), Script(b)
    PROVE  /\ Script(a \o b)
           /\ Transaction(db, a \o b) = Transaction(Transaction(db, a), b)
<1> DEFINE S == {a[n] : n \in DOMAIN a} \cup {b[n] : n \in DOMAIN b}
           c == a \o b
           K == Len(a)
           L == Len(b)
<1>1. a \in Seq(S) /\ b \in Seq(S) BY DEF Script
<1>2. K \in Nat /\ L \in Nat BY <1>1
<1>3. c \in Seq(S) /\ Len(c) = K + L BY <1>1
<1>4. \A n \in 1..(K + L) : c[n] = IF n <= K THEN a[n] ELSE b[n - K] BY <1>1
<1>5. Script(c)
  <2> HIDE DEF c, S, K, L
  <2>1. c \in Seq({c[n] : n \in DOMAIN c}) BY <1>3
  <2> QED BY <2>1 DEF Script
<1>6. PICK g : Run(g, db, a, K) /\ Transaction(db, a) = g[K] BY <1>2, Runs
<1>7. PICK h : Run(h, g[K], b, L) /\ Transaction(g[K], b) = h[L] BY <1>2, Runs
<1> DEFINE f == [n \in 0..(K + L) |-> IF n <= K THEN g[n] ELSE h[n - K]]
<1> HIDE DEF c, K, L
<1>8. Run(f, db, c, K + L)
  <2>1. f[0] = db BY <1>2, <1>6 DEF Run
  <2>2. ASSUME NEW n \in 1..(K + L) PROVE f[n] = Exec(f[n - 1], c[n])
    <3>1. CASE n <= K
      <4>1. n \in 1..K /\ f[n] = g[n] /\ f[n - 1] = g[n - 1] /\ c[n] = a[n]
        BY <1>2, <1>4, <3>1
      <4> QED BY <1>6, <4>1 DEF Run
    <3>2. CASE n = K + 1
      <4>1. f[n] = h[1] /\ f[n - 1] = g[K] /\ c[n] = b[1] /\ 1 \in 1..L
        BY <1>2, <1>4, <3>2
      <4>2. h[0] = g[K] /\ h[1] = Exec(h[1 - 1], b[1]) BY <1>7, <4>1 DEF Run
      <4>3. h[1 - 1] = h[0] OBVIOUS
      <4> QED BY <4>1, <4>2, <4>3
    <3>3. CASE n > K + 1
      <4>1. n - K \in 1..L /\ (n - 1) - K = (n - K) - 1 /\ c[n] = b[n - K]
        BY <1>2, <1>4, <3>3
      <4>2. f[n] = h[n - K] /\ f[n - 1] = h[(n - 1) - K] BY <1>2, <3>3
      <4> HIDE DEF f
      <4>3. h[n - K] = Exec(h[(n - K) - 1], b[n - K]) BY <1>7, <4>1 DEF Run
      <4> QED BY <4>1, <4>2, <4>3
    <3> QED BY <1>2, <3>1, <3>2, <3>3
  <2> HIDE DEF f
  <2> QED BY <2>1, <2>2 DEF Run
<1>9. f[K + L] = h[L]
  <2>1. CASE L = 0 BY <1>2, <1>7, <2>1 DEF Run
  <2>2. CASE L # 0
    <3>1. ~ (K + L <= K) /\ (K + L) - K = L BY <1>2, <2>2
    <3> QED BY <1>2, <3>1
  <2> QED BY <2>1, <2>2
<1>10. Transaction(db, c) = f[K + L]
  <2> HIDE DEF f
  <2>1. K + L \in Nat BY <1>2
  <2> QED BY <1>3, <1>8, <2>1, RunIs
<1> QED BY <1>5, <1>6, <1>7, <1>9, <1>10 DEF c

\* Scripts of one statement, of two and of six.
LEMMA Single ==
    ASSUME NEW db, NEW s
    PROVE  Script(<<s>>) /\ Transaction(db, <<s>>) = Exec(db, s)
<1>1. PICK g : Run(g, db, <<s>>, 1) /\ Transaction(db, <<s>>) = g[1] BY Runs
<1>2. g[0] = db /\ g[1] = Exec(g[1 - 1], <<s>>[1]) BY <1>1 DEF Run
<1> QED BY <1>1, <1>2 DEF Script

\* A script of two statements runs them one after the other.
LEMMA Pair ==
    ASSUME NEW db, NEW s, NEW t
    PROVE  Script(<<s, t>>) /\ Transaction(db, <<s, t>>) = Exec(Exec(db, s), t)
<1>1. PICK g : Run(g, db, <<s, t>>, 2) /\ Transaction(db, <<s, t>>) = g[2] BY Runs
<1>2. g[0] = db /\ g[1] = Exec(g[1 - 1], <<s, t>>[1]) /\ g[2] = Exec(g[2 - 1], <<s, t>>[2])
  BY <1>1 DEF Run
<1> QED BY <1>1, <1>2 DEF Script

\* A script of six statements.
LEMMA Six ==
    ASSUME NEW db, NEW s, NEW t, NEW u, NEW v, NEW w, NEW x
    PROVE  /\ Script(<<s, t, u, v, w, x>>)
           /\ Transaction(db, <<s, t, u, v, w, x>>)
                = Exec(Exec(Exec(Exec(Exec(Exec(db, s), t), u), v), w), x)
<1> DEFINE a == <<s, t, u, v, w, x>>
<1>1. Len(a) = 6 /\ a[1] = s /\ a[2] = t /\ a[3] = u /\ a[4] = v /\ a[5] = w /\ a[6] = x
      /\ DOMAIN a = 1..6
  OBVIOUS
<1>2. a \in Seq({s, t, u, v, w, x}) OBVIOUS
<1> HIDE DEF a
<1>3. Script(a)
  <2>1. {s, t, u, v, w, x} \subseteq {a[n] : n \in DOMAIN a}
    BY <1>1
  <2> QED BY <1>2, <2>1 DEF Script
<1>4. PICK g : Run(g, db, a, 6) /\ Transaction(db, a) = g[6] BY <1>1, Runs
<1>5. g[0] = db /\ \A n \in 1..6 : g[n] = Exec(g[n - 1], a[n]) BY <1>4 DEF Run
<1>6. /\ g[1] = Exec(db, s) /\ g[2] = Exec(g[1], t) /\ g[3] = Exec(g[2], u)
      /\ g[4] = Exec(g[3], v) /\ g[5] = Exec(g[4], w) /\ g[6] = Exec(g[5], x)
  BY <1>1, <1>5
<1> QED BY <1>3, <1>4, <1>6 DEF a

-----------------------------------------------------------------------------
(* Statements.                                                             *)

\* A table is created unless it is there.
LEMMA ExecCreate ==
    ASSUME NEW db, NEW name, NEW cols, NEW key
    PROVE  Exec(db, CreateTable(name, cols, key)) =
             IF name \notin DOMAIN db.tables
             THEN Db(WithEntry(db.tables, name, Table(cols, key, {})), db.indexes, db.views, db.version)
             ELSE db
BY ExecIs DEF CreateTable, Executes, Effect

\* The indexes of a table.
OnTable(db, table) == {i \in DOMAIN db.indexes : db.indexes[i].on = table}

\* A table is dropped with its indexes if it is there.
LEMMA ExecDrop ==
    ASSUME NEW db, NEW name
    PROVE  Exec(db, DropTable(name)) =
             IF name \in DOMAIN db.tables
             THEN Db(Without(db.tables, {name}), Without(db.indexes, OnTable(db, name)),
                     db.views, db.version)
             ELSE db
BY ExecIs DEF DropTable, Executes, Effect, OnTable

\* An index is made unless there is one of this name or two rows have one value.
LEMMA ExecIndex ==
    ASSUME NEW db, NEW name, NEW on, NEW unique
    PROVE  Exec(db, CreateIndex(name, on, unique)) =
             IF /\ name \notin DOMAIN db.indexes /\ on \in DOMAIN db.tables
                /\ Unique(db.tables[on].rows, unique)
             THEN Db(db.tables, WithEntry(db.indexes, name, [on |-> on, unique |-> unique]),
                     db.views, db.version)
             ELSE db
BY ExecIs DEF CreateIndex, Executes, Effect

\* An index is dropped if it is there.
LEMMA ExecDropIndex ==
    ASSUME NEW db, NEW name
    PROVE  Exec(db, DropIndex(name)) =
             IF name \in DOMAIN db.indexes
             THEN Db(db.tables, Without(db.indexes, {name}), db.views, db.version)
             ELSE db
BY ExecIs DEF DropIndex, Executes, Effect

\* A view changes nothing else.
LEMMA ExecView ==
    ASSUME NEW db, NEW name
    PROVE  LET after == Exec(db, CreateView(name))
           IN  after = db \/ \E views : after = Db(db.tables, db.indexes, views, db.version)
BY ExecIs DEF CreateView, Executes, Effect

\* The view of the version is dropped, and made when there is none.
LEMMA ExecVersion ==
    ASSUME NEW db, NEW v
    PROVE  Exec(db, SetVersion(v)) =
             IF v = 0 \/ db.version = 0 THEN Db(db.tables, db.indexes, db.views, v) ELSE db
BY ExecIs DEF SetVersion, Executes, Effect

\* A row that is inserted changes the rows of its table only.
LEMMA ExecInsert ==
    ASSUME NEW db, NEW name, NEW row
    PROVE  LET after == Exec(db, InsertRow(name, row))
           IN  \/ after = db
               \/ /\ name \in DOMAIN db.tables
                  /\ \E rows : after = Db(WithEntry(db.tables, name,
                                             Table(db.tables[name].cols, db.tables[name].key, rows)),
                                          db.indexes, db.views, db.version)
<1> DEFINE s == InsertRow(name, row)
<1>1. s.op = "insert" /\ s.name = name BY DEF InsertRow
<1> HIDE DEF s
<1>2. Executes(db, s) => name \in DOMAIN db.tables BY <1>1 DEF Executes
<1>3. Effect(db, s) = Db(WithEntry(db.tables, name,
                            Table(db.tables[name].cols, db.tables[name].key,
                                  db.tables[name].rows \union Added(db, s))),
                         db.indexes, db.views, db.version)
  BY <1>1 DEF Effect
<1> QED BY <1>2, <1>3, ExecIs DEF s

\* Nothing is copied from or into a table that is not there.
LEMMA ExecNoCopy ==
    ASSUME NEW db, NEW to, NEW from, NEW cols, ~ {to, from} \subseteq DOMAIN db.tables
    PROVE  Exec(db, CopyRows(to, from, cols)) = db
BY ExecIs DEF CopyRows, Executes

\* Of the columns that have to be unique all are copied; "" stands for none.
Copied(unique, cols) == unique \ {""} \subseteq cols

\* The row of a table with the columns cols that gets the values of some columns
\* from the row r.
Fill(cols, copied, r) == [c \in cols |-> IF c \in copied THEN r[c] ELSE Default[c]]
FillAll(cols, copied, rows) == {Fill(cols, copied, r) : r \in rows}

\* What is copied still differs in a column that is copied.
LEMMA FillUnique ==
    ASSUME NEW cols, NEW copied, NEW rows, NEW key,
           key \in cols \cap copied, Unique(rows, key)
    PROVE  Unique(FillAll(cols, copied, rows), key)
<1> SUFFICES ASSUME key # "" PROVE \A x, y \in FillAll(cols, copied, rows) : x[key] = y[key] => x = y
  BY DEF Unique
<1>1. \A r, q \in rows : r[key] = q[key] => r = q BY DEF Unique
<1>2. \A r : Fill(cols, copied, r)[key] = r[key] BY DEF Fill
<1>3. TAKE x, y \in FillAll(cols, copied, rows)
<1>4. PICK r \in rows : x = Fill(cols, copied, r) BY DEF FillAll
<1>5. PICK q \in rows : y = Fill(cols, copied, q) BY DEF FillAll
<1> QED BY <1>1, <1>2, <1>4, <1>5

\* What has been copied once is not changed by being copied again.
LEMMA FillTwice ==
    ASSUME NEW cols, NEW copied, NEW rows
    PROVE  FillAll(cols, copied, FillAll(cols, copied, rows)) = FillAll(cols, copied, rows)
<1>1. \A r : Fill(cols, copied, Fill(cols, copied, r)) = Fill(cols, copied, r) BY DEF Fill
<1> QED BY <1>1 DEF FillAll

\* Rows are copied into an empty table that has the columns, when they differ in what
\* has to be unique there; else none is.
LEMMA ExecCopy ==
    ASSUME NEW db, NEW to \in DOMAIN db.tables, NEW from \in DOMAIN db.tables, NEW cols,
           cols \subseteq db.tables[to].cols, cols \subseteq db.tables[from].cols,
           db.tables[to].rows = {}, Copied(UniqueCols(db, to), cols)
    PROVE  LET after == Exec(db, CopyRows(to, from, cols))
               rows == db.tables[from].rows
           IN  /\ (\A c \in UniqueCols(db, to) : Unique(rows, c)) =>
                     after = Db(WithEntry(db.tables, to,
                                   Table(db.tables[to].cols, db.tables[to].key,
                                         FillAll(db.tables[to].cols, cols, rows))),
                                db.indexes, db.views, db.version)
               /\ ~ (\A c \in UniqueCols(db, to) : Unique(rows, c)) => after = db
<1> DEFINE s == CopyRows(to, from, cols)
           rows == db.tables[from].rows
           copies == FillAll(db.tables[to].cols, cols, rows)
<1>1. s.op = "copy" /\ s.name = to /\ s.from = from /\ s.cols = cols BY DEF CopyRows
<1> HIDE DEF s
<1>2. Added(db, s) = copies
  <2>1. \A r : Filled(db, to, r, cols) = Fill(db.tables[to].cols, cols, r) BY DEF Filled, Fill
  <2>2. Added(db, s) = {Filled(db, to, r, cols) : r \in rows} BY <1>1 DEF Added
  <2> QED BY <2>1, <2>2 DEF FillAll
<1>3. Effect(db, s) = Db(WithEntry(db.tables, to,
                            Table(db.tables[to].cols, db.tables[to].key, {} \union copies)),
                         db.indexes, db.views, db.version)
  BY <1>1, <1>2 DEF Effect
<1>4. {} \union copies = copies OBVIOUS
<1>5. Executes(db, s) <=> \A c \in UniqueCols(db, to) \ {""} :
                             /\ \A r, q \in rows : r[c] = q[c] => r = q
                             /\ Unique({} \union copies, c)
  BY <1>1, <1>2 DEF Executes
<1>6. ASSUME NEW c \in UniqueCols(db, to) \ {""}, \A r, q \in rows : r[c] = q[c] => r = q
      PROVE  Unique(copies, c)
  <2>1. Unique(rows, c) BY <1>6 DEF Unique
  <2>2. c \in db.tables[to].cols \cap cols BY <1>6 DEF Copied
  <2> HIDE DEF rows
  <2> QED BY <2>1, <2>2, FillUnique
<1>7. Executes(db, s) <=> \A c \in UniqueCols(db, to) : Unique(rows, c)
  BY <1>4, <1>5, <1>6 DEF Unique
<1> HIDE DEF rows, copies
<1> QED BY <1>3, <1>4, <1>7, ExecIs DEF s, rows, copies

-----------------------------------------------------------------------------
(* Rebuilding a table.                                                     *)

\* Every index is on a table.
Placed(db) == \A i \in DOMAIN db.indexes : db.indexes[i].on \in DOMAIN db.tables

\* The database out is db with the table rebuilt and filled with rows.
Rebuilt(out, db, table, cols, key, rows) ==
    /\ \E views : out = Db(out.tables, out.indexes, views, out.version)
    /\ out.tables = WithEntry(db.tables, table, Table(cols, key, rows))
    /\ out.indexes = Without(db.indexes, OnTable(db, table))
    /\ out.version = db.version

\* Entries that are added are found again, and so are the others.
LEMMA EntryIn ==
    ASSUME NEW f, NEW x, NEW v
    PROVE  \A y : y \in DOMAIN WithEntry(f, x, v) <=> y \in DOMAIN f \/ y = x
BY DEF WithEntry

\* The entry put in is there.
LEMMA EntryNew ==
    ASSUME NEW f, NEW x, NEW v
    PROVE  WithEntry(f, x, v)[x] = v
BY DEF WithEntry

\* The other entries stay as they are.
LEMMA EntryOld ==
    ASSUME NEW f, NEW x, NEW v, NEW y \in DOMAIN f, y # x
    PROVE  WithEntry(f, x, v)[y] = f[y]
BY DEF WithEntry

\* A table is created and dropped, another one is changed meanwhile.
LEMMA SecondGone ==
    ASSUME NEW T, NEW x, NEW y, x # y, y \notin DOMAIN T, NEW A, NEW B
    PROVE  Without(WithEntry(WithEntry(T, y, A), x, B), {y}) = WithEntry(T, x, B)
BY DEF Without, WithEntry

\* The second of two entries at one place is the one that counts.
LEMMA EntryTwice ==
    ASSUME NEW T, NEW x, NEW A, NEW B
    PROVE  WithEntry(WithEntry(T, x, A), x, B) = WithEntry(T, x, B)
BY DEF WithEntry

\* Removing an entry and putting one at its place is putting it there.
LEMMA FirstAgain ==
    ASSUME NEW T, NEW x, NEW y, x # y, x \in DOMAIN T, NEW A, NEW B
    PROVE  WithEntry(Without(WithEntry(T, y, A), {x}), x, B) = WithEntry(WithEntry(T, y, A), x, B)
BY DEF Without, WithEntry

\* Removing nothing changes nothing.
LEMMA WithoutNone ==
    ASSUME NEW I, NEW P, P = {}, NEW D, I = [i \in D |-> I[i]]
    PROVE  Without(I, P) = I
BY DEF Without

\* What has to be unique in a table without indexes is its key.
LEMMA KeyOnly ==
    ASSUME NEW db, NEW table, OnTable(db, table) = {}
    PROVE  UniqueCols(db, table) = {db.tables[table].key}
BY DEF UniqueCols, OnTable

\* The first four statements: what is copied of the table is in a second one, and the
\* table is empty.
Moved(db, table, second, cols, key, copied) ==
    Exec(Exec(Exec(Exec(db, CreateTable(second, cols, key)), CopyRows(second, table, copied)),
              DropTable(table)), CreateTable(table, cols, key))
Both(T, table, second, cols, key, rows) ==
    WithEntry(WithEntry(T, second, Table(cols, key, rows)), table, Table(cols, key, {}))

\* Of a table that is not there nothing is copied.
LEMMA MovedAbsent ==
    ASSUME NEW db, NEW table, NEW second, table # second,
           {table, second} \cap DOMAIN db.tables = {}, NEW cols, NEW key, NEW copied
    PROVE  Moved(db, table, second, cols, key, copied)
             = Db(Both(db.tables, table, second, cols, key, {}), db.indexes, db.views, db.version)
<1> DEFINE T == db.tables
           A == Table(cols, key, {})
           d1 == Db(WithEntry(T, second, A), db.indexes, db.views, db.version)
<1>1. Exec(db, CreateTable(second, cols, key)) = d1 BY ExecCreate
<1>2. d1.tables = WithEntry(T, second, A) /\ d1.indexes = db.indexes
      /\ d1.views = db.views /\ d1.version = db.version
  BY DEF Db
<1>3. table \notin DOMAIN d1.tables BY <1>2, EntryIn
<1>4. Exec(d1, CopyRows(second, table, copied)) = d1 BY <1>3, ExecNoCopy
<1>5. Exec(d1, DropTable(table)) = d1 BY <1>3, ExecDrop
<1>6. Exec(d1, CreateTable(table, cols, key))
        = Db(WithEntry(d1.tables, table, A), d1.indexes, d1.views, d1.version)
  BY <1>3, ExecCreate
<1> HIDE DEF d1
<1> QED BY <1>1, <1>2, <1>4, <1>5, <1>6 DEF Moved, Both

\* Of a table whose rows differ in the key every row is copied.
LEMMA MovedPresent ==
    ASSUME NEW db, Placed(db), NEW table \in DOMAIN db.tables, NEW second,
           second \notin DOMAIN db.tables,
           NEW cols, NEW key, NEW copied, copied \subseteq cols,
           copied \subseteq db.tables[table].cols,
           Copied({key}, copied), Unique(db.tables[table].rows, key)
    PROVE  Moved(db, table, second, cols, key, copied)
             = Db(Both(db.tables, table, second, cols, key,
                       FillAll(cols, copied, db.tables[table].rows)),
                  Without(db.indexes, OnTable(db, table)), db.views, db.version)
<1> DEFINE T == db.tables
           I == db.indexes
           J == Without(I, OnTable(db, table))
           V == db.views
           n == db.version
           R == FillAll(cols, copied, T[table].rows)
           A == Table(cols, key, {})
           B == Table(cols, key, R)
           d1 == Db(WithEntry(T, second, A), I, V, n)
           d2 == Db(WithEntry(T, second, B), I, V, n)
           d3 == Db(Without(WithEntry(T, second, B), {table}), J, V, n)
           d4 == Db(WithEntry(WithEntry(T, second, B), table, A), J, V, n)
<1>1. table # second OBVIOUS
<1>2. A.cols = cols /\ A.key = key /\ A.rows = {} BY DEF Table
<1>3. Table(cols, key, {}) = A /\ FillAll(cols, copied, T[table].rows) = R
      /\ Table(cols, key, R) = B /\ J = Without(I, OnTable(db, table))
  OBVIOUS
<1>4. d1.tables = WithEntry(T, second, A) /\ d2.tables = WithEntry(T, second, B)
      /\ d3.tables = Without(WithEntry(T, second, B), {table})
  <2> HIDE DEF A, B, J
  <2> QED BY DEF Db
<1>5. /\ \A d \in {d1, d2} : d.indexes = I /\ d.views = V /\ d.version = n
      /\ d3.indexes = J /\ d3.views = V /\ d3.version = n
  <2> HIDE DEF A, B, J
  <2> QED BY DEF Db
<1>6. d4 = Db(Both(T, table, second, cols, key, R), J, V, n)
  BY DEF Both
<1> HIDE DEF d1, d2, d3, d4, A, B, R, J
<1>10. Exec(db, CreateTable(second, cols, key)) = d1 BY <1>3, ExecCreate DEF d1
<1>11. Exec(d1, CopyRows(second, table, copied)) = d2
  <2>1. second \in DOMAIN d1.tables /\ table \in DOMAIN d1.tables
        /\ d1.tables[second] = A /\ d1.tables[table] = T[table]
    BY <1>1, <1>4, EntryIn, EntryNew, EntryOld
  <2>2. OnTable(d1, second) = {} BY <1>5 DEF OnTable, Placed
  <2>3. UniqueCols(d1, second) = {key} BY <1>2, <2>1, <2>2, KeyOnly
  <2>4. WithEntry(d1.tables, second, B) = WithEntry(T, second, B) BY <1>4, EntryTwice
  <2>5. Exec(d1, CopyRows(second, table, copied)) =
          Db(WithEntry(d1.tables, second, B), d1.indexes, d1.views, d1.version)
    <3> DEFINE rows == d1.tables[table].rows
    <3>1. /\ copied \subseteq d1.tables[second].cols /\ copied \subseteq d1.tables[table].cols
          /\ d1.tables[second].rows = {} /\ Copied(UniqueCols(d1, second), copied)
          /\ \A c \in UniqueCols(d1, second) : Unique(rows, c)
      BY <1>2, <2>1, <2>3
    <3>2. Table(d1.tables[second].cols, d1.tables[second].key,
                FillAll(d1.tables[second].cols, copied, rows)) = B
      BY <1>2, <1>3, <2>1
    <3> QED BY <2>1, <3>1, <3>2, ExecCopy
  <2> QED BY <1>5, <2>4, <2>5 DEF d2
<1>12. Exec(d2, DropTable(table)) = d3
  <2>1. table \in DOMAIN d2.tables BY <1>4, EntryIn
  <2>2. OnTable(d2, table) = OnTable(db, table) BY <1>5 DEF OnTable
  <2> QED BY <1>3, <1>4, <1>5, <2>1, <2>2, ExecDrop DEF d3
<1>13. Exec(d3, CreateTable(table, cols, key)) = d4
  <2>1. table \notin DOMAIN d3.tables BY <1>4 DEF Without
  <2>2. WithEntry(d3.tables, table, A) = WithEntry(WithEntry(T, second, B), table, A)
    BY <1>1, <1>4, FirstAgain
  <2> QED BY <1>3, <1>5, <2>1, <2>2, ExecCreate DEF d4
<1> QED BY <1>6, <1>10, <1>11, <1>12, <1>13 DEF Moved, R, J

\* Rows that differ in what has to be unique in the table.
Fits(db, table, rows) == \A c \in UniqueCols(db, table) : Unique(rows, c)

\* The last two: the rows are copied back when they differ in what has to be unique,
\* and the second table is gone.
LEMMA MovedBack ==
    ASSUME NEW db, NEW T, NEW table, NEW second, table # second, second \notin DOMAIN T,
           NEW cols, NEW key, NEW copied, copied \subseteq cols,
           NEW rows, FillAll(cols, copied, rows) = rows,
           db.tables = Both(T, table, second, cols, key, rows),
           OnTable(db, second) = {}, Copied(UniqueCols(db, table), copied)
    PROVE  Exec(Exec(db, CopyRows(table, second, copied)), DropTable(second))
             = Db(WithEntry(T, table, Table(cols, key, IF Fits(db, table, rows) THEN rows ELSE {})),
                  Without(db.indexes, {}), db.views, db.version)
<1> DEFINE A == Table(cols, key, {})
           B == Table(cols, key, rows)
           I == db.indexes
           full == Db(WithEntry(WithEntry(T, second, B), table, B), I, db.views, db.version)
           end(C) == Db(WithEntry(T, table, C), Without(I, {}), db.views, db.version)
<1>1. A.cols = cols /\ A.key = key /\ A.rows = {} /\ B.cols = cols /\ B.key = key /\ B.rows = rows
  BY DEF Table
<1>2. Table(cols, key, {}) = A /\ Table(cols, key, rows) = B OBVIOUS
<1>3. db.tables = WithEntry(WithEntry(T, second, B), table, A) BY DEF Both
<1>4. full.tables = WithEntry(WithEntry(T, second, B), table, B) /\ full.indexes = I
      /\ full.views = db.views /\ full.version = db.version
  BY DEF Db
<1> HIDE DEF A, B, full
<1>5. second \in DOMAIN db.tables /\ table \in DOMAIN db.tables
      /\ db.tables[second] = B /\ db.tables[table] = A
  BY <1>3, EntryIn, EntryNew, EntryOld
<1>6. /\ copied \subseteq db.tables[second].cols /\ copied \subseteq db.tables[table].cols
      /\ db.tables[table].rows = {} /\ db.tables[second].rows = rows
  BY <1>1, <1>5
<1>7. Table(db.tables[table].cols, db.tables[table].key,
            FillAll(db.tables[table].cols, copied, db.tables[second].rows)) = B
  BY <1>1, <1>2, <1>5
<1>8. WithEntry(db.tables, table, B) = WithEntry(WithEntry(T, second, B), table, B)
  BY <1>3, EntryTwice
<1>9. Fits(db, table, rows) => Exec(db, CopyRows(table, second, copied)) = full
  BY <1>5, <1>6, <1>7, <1>8, ExecCopy DEF full, Fits
<1>10. ~ Fits(db, table, rows) => Exec(db, CopyRows(table, second, copied)) = db
  BY <1>5, <1>6, ExecCopy DEF Fits
<1>11. Exec(full, DropTable(second)) = end(B)
  <2>1. second \in DOMAIN full.tables BY <1>4, EntryIn
  <2>2. Without(full.tables, {second}) = WithEntry(T, table, B) BY <1>4, SecondGone
  <2>3. OnTable(full, second) = {} BY <1>4 DEF OnTable
  <2> QED BY <1>4, <2>1, <2>2, <2>3, ExecDrop
<1>12. Exec(db, DropTable(second)) = end(A)
  <2>1. Without(db.tables, {second}) = WithEntry(T, table, A) BY <1>3, SecondGone
  <2> QED BY <1>5, <2>1, ExecDrop
<1> QED BY <1>2, <1>9, <1>10, <1>11, <1>12

\* A table that is not there is made, without rows.
LEMMA RebuildAbsent ==
    ASSUME NEW db, Placed(db), NEW table, NEW second, table # second,
           {table, second} \cap DOMAIN db.tables = {},
           NEW cols, NEW key, NEW copied, copied \subseteq cols, Copied({key}, copied)
    PROVE  Rebuilt(Transaction(db, Rebuild(table, second, cols, key, copied)),
                   db, table, cols, key, {})
<1> DEFINE d == Moved(db, table, second, cols, key, copied)
           out == Transaction(db, Rebuild(table, second, cols, key, copied))
           end == Db(WithEntry(db.tables, table, Table(cols, key, {})), Without(db.indexes, {}),
                     db.views, db.version)
<1>1. d = Db(Both(db.tables, table, second, cols, key, {}), db.indexes, db.views, db.version)
  BY MovedAbsent
<1> HIDE DEF d
<1>2. d.tables = Both(db.tables, table, second, cols, key, {}) /\ d.indexes = db.indexes
      /\ d.views = db.views /\ d.version = db.version
  BY <1>1 DEF Db
<1>3. OnTable(db, table) = {} /\ OnTable(d, table) = {} /\ OnTable(d, second) = {}
  BY <1>2 DEF OnTable, Placed
<1>4. UniqueCols(d, table) = {key}
  <2>1. d.tables[table].key = key BY <1>2, EntryNew DEF Both, Table
  <2> QED BY <1>3, <2>1, KeyOnly
<1>5. FillAll(cols, copied, {}) = {} /\ Unique({}, key) BY DEF FillAll, Unique
<1>6. Exec(Exec(d, CopyRows(table, second, copied)), DropTable(second)) = end
  <2>1. second \notin DOMAIN db.tables /\ Copied(UniqueCols(d, table), copied)
        /\ Fits(d, table, {})
    BY <1>4, <1>5 DEF Fits
  <2> QED BY <1>2, <1>3, <1>5, <2>1, MovedBack
<1>7. out = end BY <1>6, Six DEF Rebuild, Moved, d
<1>8. end.tables = WithEntry(db.tables, table, Table(cols, key, {}))
      /\ end.indexes = Without(db.indexes, {}) /\ end.version = db.version
      /\ end = Db(end.tables, end.indexes, db.views, end.version)
  BY DEF Db
<1> HIDE DEF end, out
<1> QED BY <1>3, <1>7, <1>8 DEF Rebuilt, out

\* The rows of a table are kept, with what is copied of them.
LEMMA RebuildPresent ==
    ASSUME NEW db, Placed(db), NEW table \in DOMAIN db.tables, NEW second,
           second \notin DOMAIN db.tables,
           NEW cols, NEW key, NEW copied, copied \subseteq cols,
           copied \subseteq db.tables[table].cols,
           Copied({key}, copied), Unique(db.tables[table].rows, key)
    PROVE  Rebuilt(Transaction(db, Rebuild(table, second, cols, key, copied)),
                   db, table, cols, key, FillAll(cols, copied, db.tables[table].rows))
<1> DEFINE R == FillAll(cols, copied, db.tables[table].rows)
           J == Without(db.indexes, OnTable(db, table))
           d == Moved(db, table, second, cols, key, copied)
           out == Transaction(db, Rebuild(table, second, cols, key, copied))
           end == Db(WithEntry(db.tables, table, Table(cols, key, R)), Without(J, {}),
                     db.views, db.version)
<1>1. d = Db(Both(db.tables, table, second, cols, key, R), J, db.views, db.version)
  BY MovedPresent
<1>2. /\ J = [i \in DOMAIN J |-> J[i]] /\ DOMAIN J \subseteq DOMAIN db.indexes
      /\ \A i \in DOMAIN J : J[i] = db.indexes[i] /\ J[i].on # table
  BY DEF Without, OnTable
<1>3. Unique(R, key) /\ FillAll(cols, copied, R) = R
  <2>1. CASE key \in copied BY <2>1, FillUnique, FillTwice
  <2>2. CASE key \notin copied
    <3>1. key = "" BY <2>2 DEF Copied
    <3> QED BY <3>1, FillTwice DEF Unique
  <2> QED BY <2>1, <2>2
<1>4. R = FillAll(cols, copied, db.tables[table].rows)
      /\ J = Without(db.indexes, OnTable(db, table))
  OBVIOUS
<1> HIDE DEF d, R, J
<1>5. d.tables = Both(db.tables, table, second, cols, key, R) /\ d.indexes = J
      /\ d.views = db.views /\ d.version = db.version
  BY <1>1 DEF Db
<1>6. OnTable(d, table) = {} /\ OnTable(d, second) = {} BY <1>2, <1>5 DEF OnTable, Placed
<1>7. UniqueCols(d, table) = {key}
  <2>1. d.tables[table].key = key BY <1>5, EntryNew DEF Both, Table
  <2> QED BY <1>6, <2>1, KeyOnly
<1>8. Exec(Exec(d, CopyRows(table, second, copied)), DropTable(second)) = end
  <2>1. table # second /\ Copied(UniqueCols(d, table), copied)
        /\ Fits(d, table, R)
    BY <1>3, <1>7 DEF Fits
  <2>2. Exec(Exec(d, CopyRows(table, second, copied)), DropTable(second))
          = Db(WithEntry(db.tables, table, Table(cols, key, R)), Without(d.indexes, {}),
               d.views, d.version)
    BY <1>3, <1>5, <1>6, <2>1, MovedBack
  <2> QED BY <1>5, <2>2
<1>9. out = end BY <1>8, Six DEF Rebuild, Moved, d
<1>10. Without(J, {}) = J BY <1>2, WithoutNone
<1>11. end.tables = WithEntry(db.tables, table, Table(cols, key, R))
       /\ end.indexes = Without(J, {}) /\ end.version = db.version
       /\ end = Db(end.tables, end.indexes, db.views, end.version)
  BY DEF Db
<1> HIDE DEF end, out
<1> QED BY <1>4, <1>9, <1>10, <1>11 DEF Rebuilt, out

-----------------------------------------------------------------------------
(* What a database has on its way through the scripts: after script k the  *)
(* tables and indexes are those of version k or of a later one, since an   *)
(* upgrade that was interrupted begins again with the version it began     *)
(* with.                                                                   *)

Tables == {"tItems", "tToons", "tToonStats", "tDimensions"}

\* Every table is one the scripts know, every index is where it belongs.
Sound(db) ==
    /\ db # NoFile
    /\ DOMAIN db.tables \subseteq Tables
    /\ \A i \in DOMAIN db.indexes : db.indexes[i] = IndexAs(i) /\ IndexAs(i).on \in DOMAIN db.tables
    /\ DOMAIN db.indexes \subseteq IndexesOf(8) \cup OldIndexes

\* The table of the characters is that of a version from k on.
Toons(db, k) ==
    /\ "tToons" \in DOMAIN db.tables =>
          \E j \in k..8 : db.tables["tToons"].cols = ToonCols(j) /\ db.tables["tToons"].key = ToonKey(j)
    /\ k >= 1 => /\ "tToons" \in DOMAIN db.tables /\ "iCharId" \in DOMAIN db.indexes
                 /\ Unique(db.tables["tToons"].rows, "charid")

\* The table of the items is that of a version from k on.
Kit(db, k) ==
    /\ "tItems" \in DOMAIN db.tables =>
          /\ \E j \in k..8 : db.tables["tItems"].cols = ItemColsOf(j)
          /\ db.tables["tItems"].key = "itemidx"
          /\ Unique(db.tables["tItems"].rows, "itemidx")
    /\ k >= 4 => "tItems" \in DOMAIN db.tables

\* The other tables and indexes.
Others(db, k) ==
    /\ "tToonStats" \in DOMAIN db.tables => db.tables["tToonStats"].cols = StatCols
    /\ k >= 5 => "tToonStats" \in DOMAIN db.tables
    /\ k >= 8 => "tDimensions" \notin DOMAIN db.tables
    /\ IndexesOf(k) \ {"iCharId"} \subseteq DOMAIN db.indexes
    /\ k >= 7 => OldIndexes \cap DOMAIN db.indexes = {}

Form(db, k) == Sound(db) /\ Toons(db, k) /\ Kit(db, k) /\ Others(db, k)

\* Put together from its parts a database is a file.
LEMMA DbIsFile ==
    ASSUME NEW T, NEW I, NEW V, NEW n
    PROVE  Db(T, I, V, n) # NoFile
<1>1. "absent" \in DOMAIN NoFile BY DEF NoFile
<1>2. "absent" \notin DOMAIN Db(T, I, V, n) BY DEF Db
<1> QED BY <1>1, <1>2

\* Where an index is.
LEMMA IndexOfToons == IndexAs("iCharId") = [on |-> "tToons", unique |-> "charid"]
BY DEF IndexAs

\* The index of the table of stats.
LEMMA IndexOfStats == IndexAs("charstatindex") = [on |-> "tToonStats", unique |-> ""]
BY DEF IndexAs

\* Every other index is one of tItems.
LEMMA IndexOfItems ==
    ASSUME NEW i, i \notin {"iCharId", "charstatindex"}
    PROVE  IndexAs(i) = [on |-> "tItems", unique |-> ""]
BY DEF IndexAs

\* The indexes of the last version.
LEMMA AllIndexes ==
    IndexesOf(8) = {"iCharId", "charstatindex", "idx_titems_keylow", "idx_titems_owner",
                    "idx_titems_parent"}
BY DEF IndexesOf

\* A database of a version has the form of that version, and so has an empty one.
LEMMA VersionForm ==
    ASSUME NEW db, NEW v \in 0..8, OfVersion(db, v), db # NoFile
    PROVE  Form(db, v)
<1>1. v \in v..8 OBVIOUS
<1>2. DOMAIN db.tables = TablesOf(v) BY DEF OfVersion
<1>3. TablesOf(v) \subseteq Tables /\ "tToons" \in TablesOf(v) /\ "tItems" \in TablesOf(v)
      /\ (v >= 5 => "tToonStats" \in TablesOf(v)) /\ (v < 5 => "tToonStats" \notin TablesOf(v))
      /\ (v >= 8 => "tDimensions" \notin TablesOf(v))
  BY DEF TablesOf, Tables
<1>4. IndexesOf(v) \subseteq IndexesOf(8) BY DEF IndexesOf
<1>5. (v >= 1 => "iCharId" \in IndexesOf(v)) /\ (v < 5 => "charstatindex" \notin IndexesOf(v))
  BY DEF IndexesOf
<1>6. Sound(db)
  <2>1. DOMAIN db.indexes \subseteq IndexesOf(8) \cup OldIndexes BY <1>4 DEF OfVersion
  <2>2. ASSUME NEW i \in DOMAIN db.indexes
        PROVE  db.indexes[i] = IndexAs(i) /\ IndexAs(i).on \in DOMAIN db.tables
    <3>1. db.indexes[i] = IndexAs(i) BY DEF OfVersion
    <3>2. CASE i = "iCharId"
      <4>1. IndexAs(i).on = "tToons" BY <3>2 DEF IndexAs
      <4> QED BY <1>2, <1>3, <3>1, <4>1
    <3>3. CASE i = "charstatindex"
      <4>1. i \in IndexesOf(v) BY <3>3 DEF OfVersion, OldIndexes
      <4>2. v >= 5 BY <1>5, <3>3, <4>1
      <4>3. IndexAs(i).on = "tToonStats" BY <3>3 DEF IndexAs
      <4> QED BY <1>2, <1>3, <3>1, <4>2, <4>3
    <3>4. CASE i \notin {"iCharId", "charstatindex"}
      <4>1. IndexAs(i).on = "tItems" BY <3>4 DEF IndexAs
      <4> QED BY <1>2, <1>3, <3>1, <4>1
    <3> QED BY <3>2, <3>3, <3>4
  <2> QED BY <1>2, <1>3, <2>1, <2>2 DEF Sound
<1>7. Toons(db, v) BY <1>1, <1>2, <1>3, <1>5 DEF OfVersion, Toons
<1>8. Kit(db, v) BY <1>1, <1>2, <1>3 DEF OfVersion, Kit
<1>9. Others(db, v)
  <2>1. v >= 7 => OldIndexes \cap DOMAIN db.indexes = {}
    <3>1. OldIndexes \cap IndexesOf(8) = {} BY AllIndexes DEF OldIndexes
    <3> QED BY <1>4, <3>1 DEF OfVersion
  <2> QED BY <1>2, <1>3, <2>1 DEF OfVersion, Others
<1> QED BY <1>6, <1>7, <1>8, <1>9 DEF Form

\* The empty database has the form from which Create starts.
LEMMA EmptyForm == Form(EmptyDb, 0)
<1>1. EmptyDb.tables = <<>> /\ EmptyDb.indexes = <<>> BY DEF EmptyDb, Db
<1>2. DOMAIN <<>> = {} OBVIOUS
<1>3. IndexesOf(0) = {} BY DEF IndexesOf
<1>4. EmptyDb # NoFile BY DbIsFile DEF EmptyDb
<1> QED BY <1>1, <1>2, <1>3, <1>4 DEF Form, Sound, Toons, Kit, Others

\* What a later version has an earlier one may have.
LEMMA Earlier ==
    ASSUME NEW db, NEW k \in 0..8, NEW m \in 0..8, m <= k, Form(db, k)
    PROVE  Form(db, m)
<1>1. k..8 \subseteq m..8 OBVIOUS
<1>2. IndexesOf(m) \subseteq IndexesOf(k) BY DEF IndexesOf
<1> QED BY <1>1, <1>2 DEF Form, Toons, Kit, Others

\* Of version 8 every table, column and index is there.
LEMMA FormComplete ==
    ASSUME NEW db, Form(db, 8), db.version = 8
    PROVE  Complete(db)
<1>1. DOMAIN db.tables = {"tItems", "tToons", "tToonStats"}
  BY DEF Form, Sound, Tables, Toons, Kit, Others
<1>2. 8..8 = {8} OBVIOUS
<1>3. db.tables["tToons"].cols = ShopCols /\ db.tables["tToons"].key = "charid"
  BY <1>1, <1>2 DEF Form, Toons, ToonCols, ToonKey
<1>4. db.tables["tItems"].cols = ItemCols /\ db.tables["tItems"].key = "itemidx"
  BY <1>1, <1>2 DEF Form, Kit, ItemColsOf
<1>5. DOMAIN db.indexes = IndexesOf(8)
  <2>1. 8 >= 7 /\ 8 >= 1 OBVIOUS
  <2>2. "iCharId" \in DOMAIN db.indexes BY <2>1 DEF Form, Toons
  <2>3. /\ IndexesOf(8) \ {"iCharId"} \subseteq DOMAIN db.indexes
        /\ OldIndexes \cap DOMAIN db.indexes = {}
    BY <2>1 DEF Form, Others
  <2>4. DOMAIN db.indexes \subseteq IndexesOf(8) \cup OldIndexes BY DEF Form, Sound
  <2>5. "iCharId" \in IndexesOf(8) BY AllIndexes
  <2> QED BY <2>2, <2>3, <2>4, <2>5
<1> QED
  BY <1>1, <1>3, <1>4, <1>5, AllIndexes DEF Complete, CURRENT_DB_VERSION, Form, Others

-----------------------------------------------------------------------------
(* The table of the characters.                                            *)

\* The table of the characters and its index are made anew.
Anew(out, db, cols, key, rows) ==
    /\ out # NoFile
    /\ out.tables = WithEntry(db.tables, "tToons", Table(cols, key, rows))
    /\ out.indexes = WithEntry(Without(db.indexes, OnTable(db, "tToons")), "iCharId",
                               IndexAs("iCharId"))
    /\ out.version = db.version

\* The index on the numbers of the characters can be made when they differ.
LEMMA CharIndexMade ==
    ASSUME NEW db, "tToons" \in DOMAIN db.tables, "iCharId" \notin DOMAIN db.indexes,
           Unique(db.tables["tToons"].rows, "charid")
    PROVE  /\ Script(CharIndex)
           /\ Transaction(db, CharIndex)
                = Db(db.tables, WithEntry(db.indexes, "iCharId", IndexAs("iCharId")),
                     db.views, db.version)
<1>1. Transaction(db, CharIndex) = Exec(db, CreateIndex("iCharId", "tToons", "charid"))
  BY Single DEF CharIndex
<1>2. Exec(db, CreateIndex("iCharId", "tToons", "charid"))
        = Db(db.tables, WithEntry(db.indexes, "iCharId", [on |-> "tToons", unique |-> "charid"]),
             db.views, db.version)
  BY ExecIndex
<1> QED BY <1>1, <1>2, Single, IndexOfToons DEF CharIndex

\* In a sound database every index is on a table, and only iCharId is on that of the
\* characters.
LEMMA SoundPlaced ==
    ASSUME NEW db, Sound(db)
    PROVE  /\ Placed(db)
           /\ OnTable(db, "tToons") = {"iCharId"} \cap DOMAIN db.indexes
           /\ "tToons2" \notin DOMAIN db.tables /\ "tItems2" \notin DOMAIN db.tables
<1>1. ASSUME NEW i \in DOMAIN db.indexes, i # "iCharId" PROVE db.indexes[i].on # "tToons"
  <2>1. db.indexes[i] = IndexAs(i) BY DEF Sound
  <2>2. IndexAs(i).on # "tToons" BY <1>1 DEF IndexAs
  <2> QED BY <2>1, <2>2
<1>2. ASSUME "iCharId" \in DOMAIN db.indexes PROVE db.indexes["iCharId"].on = "tToons"
  BY <1>2, IndexOfToons DEF Sound
<1>3. OnTable(db, "tToons") = {"iCharId"} \cap DOMAIN db.indexes BY <1>1, <1>2 DEF OnTable
<1>4. Placed(db) BY DEF Sound, Placed
<1> QED BY <1>3, <1>4 DEF Sound, Tables

\* A table of the characters whose numbers differ is made anew with what is copied.
LEMMA ToonsRebuilt ==
    ASSUME NEW db, Sound(db), "tToons" \in DOMAIN db.tables,
           Unique(db.tables["tToons"].rows, "charid"),
           NEW cols, NEW copied, copied \subseteq cols, "charid" \in copied,
           copied \subseteq db.tables["tToons"].cols
    PROVE  /\ Script(Rebuild("tToons", "tToons2", cols, "charid", copied))
           /\ Script(CharIndex)
           /\ Anew(Transaction(Transaction(db, Rebuild("tToons", "tToons2", cols, "charid", copied)),
                               CharIndex),
                   db, cols, "charid", FillAll(cols, copied, db.tables["tToons"].rows))
<1> DEFINE script == Rebuild("tToons", "tToons2", cols, "charid", copied)
           mid == Transaction(db, script)
           out == Transaction(mid, CharIndex)
           R == FillAll(cols, copied, db.tables["tToons"].rows)
<1>1. Script(script) BY Six DEF Rebuild
<1>2. Rebuilt(mid, db, "tToons", cols, "charid", R)
  <2>1. Copied({"charid"}, copied) BY DEF Copied
  <2>2. Placed(db) /\ "tToons2" \notin DOMAIN db.tables BY SoundPlaced
  <2> QED BY <2>1, <2>2, RebuildPresent
<1>3. Unique(R, "charid") BY FillUnique
<1> HIDE DEF mid, R
<1>4. /\ mid.tables = WithEntry(db.tables, "tToons", Table(cols, "charid", R))
      /\ mid.indexes = Without(db.indexes, OnTable(db, "tToons"))
      /\ mid.version = db.version
  BY <1>2 DEF Rebuilt
<1>5. "tToons" \in DOMAIN mid.tables /\ Unique(mid.tables["tToons"].rows, "charid")
  BY <1>3, <1>4, EntryIn, EntryNew DEF Table
<1>6. "iCharId" \notin DOMAIN mid.indexes BY <1>4, SoundPlaced DEF Without
<1>7. Script(CharIndex)
      /\ out = Db(mid.tables, WithEntry(mid.indexes, "iCharId", IndexAs("iCharId")),
                  mid.views, mid.version)
  BY <1>5, <1>6, CharIndexMade
<1> HIDE DEF out
<1>8. /\ out.tables = mid.tables
      /\ out.indexes = WithEntry(mid.indexes, "iCharId", IndexAs("iCharId"))
      /\ out.version = mid.version
  BY <1>7 DEF Db
<1>9. out # NoFile BY <1>7, DbIsFile
<1>10. Anew(out, db, cols, "charid", R) BY <1>4, <1>8, <1>9 DEF Anew
<1> QED BY <1>1, <1>7, <1>10 DEF out, mid, R

\* Made anew the table is that of version j, and the rest is as it was.
LEMMA AnewForm ==
    ASSUME NEW db, NEW out, NEW j \in 1..8, NEW m \in 0..8, NEW rows,
           Anew(out, db, ToonCols(j), ToonKey(j), rows), Unique(rows, "charid"),
           Sound(db), Kit(db, m), Others(db, m)
    PROVE  Sound(out) /\ Toons(out, j) /\ Kit(out, m) /\ Others(out, m)
<1> DEFINE A == Table(ToonCols(j), ToonKey(j), rows)
           J == Without(db.indexes, OnTable(db, "tToons"))
<1>1. A.cols = ToonCols(j) /\ A.key = ToonKey(j) /\ A.rows = rows BY DEF Table
<1>2. \A i : i \in DOMAIN J <=> i \in DOMAIN db.indexes /\ i # "iCharId"
  BY SoundPlaced DEF Without
<1>3. \A i \in DOMAIN J : J[i] = db.indexes[i] BY DEF Without
<1>4. out.tables = WithEntry(db.tables, "tToons", A)
      /\ out.indexes = WithEntry(J, "iCharId", IndexAs("iCharId")) /\ out # NoFile
  BY DEF Anew
<1> HIDE DEF A, J
<1>5. \A t : t \in DOMAIN out.tables <=> t \in DOMAIN db.tables \/ t = "tToons"
  BY <1>4, EntryIn
<1>6. out.tables["tToons"] = A BY <1>4, EntryNew
<1>7. \A t \in DOMAIN db.tables : t # "tToons" => out.tables[t] = db.tables[t]
  BY <1>4, EntryOld
<1>8. \A i : i \in DOMAIN out.indexes <=> i \in DOMAIN db.indexes \/ i = "iCharId"
  BY <1>2, <1>4, EntryIn
<1>9. out.indexes["iCharId"] = IndexAs("iCharId") BY <1>4, EntryNew
<1>10. \A i \in DOMAIN db.indexes : i # "iCharId" => out.indexes[i] = db.indexes[i]
  BY <1>2, <1>3, <1>4, EntryOld
<1>11. Sound(out)
  <2>1. DOMAIN out.tables \subseteq Tables BY <1>5 DEF Sound, Tables
  <2>2. DOMAIN out.indexes \subseteq IndexesOf(8) \cup OldIndexes BY <1>8, AllIndexes DEF Sound
  <2>3. ASSUME NEW i \in DOMAIN out.indexes
        PROVE  out.indexes[i] = IndexAs(i) /\ IndexAs(i).on \in DOMAIN out.tables
    <3>1. CASE i = "iCharId" BY <1>5, <1>9, <3>1 DEF IndexAs
    <3>2. CASE i # "iCharId" BY <1>5, <1>8, <1>10, <3>2 DEF Sound
    <3> QED BY <3>1, <3>2
  <2> QED BY <1>4, <2>1, <2>2, <2>3 DEF Sound
<1>12. Toons(out, j)
  <2>1. j \in j..8 OBVIOUS
  <2>2. out.tables["tToons"].cols = ToonCols(j) /\ out.tables["tToons"].key = ToonKey(j)
        /\ out.tables["tToons"].rows = rows
    BY <1>1, <1>6
  <2> QED BY <1>5, <1>8, <2>1, <2>2 DEF Toons
<1>13. Kit(out, m) BY <1>5, <1>7 DEF Kit
<1>14. Others(out, m)
  <2>1. IndexesOf(m) \ {"iCharId"} \subseteq DOMAIN out.indexes BY <1>8 DEF Others
  <2>2. m >= 7 => OldIndexes \cap DOMAIN out.indexes = {} BY <1>8 DEF Others, OldIndexes
  <2>3. "tToonStats" \in DOMAIN out.tables => out.tables["tToonStats"].cols = StatCols
    BY <1>5, <1>7 DEF Others
  <2>4. /\ m >= 5 => "tToonStats" \in DOMAIN out.tables
        /\ m >= 8 => "tDimensions" \notin DOMAIN out.tables
    BY <1>5 DEF Others
  <2> QED BY <2>1, <2>2, <2>3, <2>4 DEF Others
<1> QED BY <1>11, <1>12, <1>13, <1>14

-----------------------------------------------------------------------------
(* What is kept.                                                           *)

\* The table is there afterwards as it was.
Same(db, out, table) ==
    /\ table \in DOMAIN out.tables <=> table \in DOMAIN db.tables
    /\ table \in DOMAIN db.tables => out.tables[table] = db.tables[table]

\* A table that is the same holds what it held.
LEMMA SameToons ==
    ASSUME NEW db, NEW out, Same(db, out, "tToons")
    PROVE  Names(out) = Names(db) /\ Shops(out) = Shops(db) /\ (NoDouble(out) <=> NoDouble(db))
<1>1. Names(out) = Names(db) BY DEF Same, Names
<1>2. Shops(out) = Shops(db) BY DEF Same, Shops
<1>3. NoDouble(out) <=> NoDouble(db) BY DEF Same, NoDouble
<1> QED BY <1>1, <1>2, <1>3

\* The same table tItems holds the same items, with the same flags.
LEMMA SameItems ==
    ASSUME NEW db, NEW out, Same(db, out, "tItems")
    PROVE  Items(out) = Items(db) /\ Flags(out) = Flags(db)
<1>1. Items(out) = Items(db) BY DEF Same, Items
<1>2. Flags(out) = Flags(db) BY DEF Same, Flags
<1> QED BY <1>1, <1>2

\* Copied rows hold what is copied.
LEMMA FilledToons ==
    ASSUME NEW db, NEW out, "tToons" \in DOMAIN out.tables, NEW cols, NEW copied,
           copied \subseteq cols, out.tables["tToons"].cols = cols,
           "tToons" \in DOMAIN db.tables =>
              out.tables["tToons"].rows = FillAll(cols, copied, db.tables["tToons"].rows)
    PROVE  /\ NameCols \subseteq copied => Names(db) \subseteq Names(out)
           /\ ShopCols \subseteq copied => Shops(db) \subseteq Shops(out)
<1> SUFFICES ASSUME "tToons" \in DOMAIN db.tables
             PROVE  /\ NameCols \subseteq copied => Names(db) \subseteq Names(out)
                    /\ ShopCols \subseteq copied => Shops(db) \subseteq Shops(out)
  BY DEF Names, Shops
<1>1. \A r \in db.tables["tToons"].rows : Fill(cols, copied, r) \in out.tables["tToons"].rows
  BY DEF FillAll
<1>2. \A r : \A c \in copied : Fill(cols, copied, r)[c] = r[c] BY DEF Fill
<1>3. ASSUME NameCols \subseteq copied PROVE Names(db) \subseteq Names(out)
  <2>1. "charid" \in copied /\ "charname" \in copied BY <1>3 DEF NameCols
  <2>2. ASSUME NEW r \in db.tables["tToons"].rows
        PROVE  <<r.charid, r.charname>> \in Names(out)
    <3> DEFINE f == Fill(cols, copied, r)
    <3>1. f \in out.tables["tToons"].rows BY <1>1
    <3>2. f.charid = r.charid /\ f.charname = r.charname BY <2>1 DEF Fill
    <3> HIDE DEF f
    <3> QED BY <3>1, <3>2 DEF Names
  <2> QED BY <2>2 DEF Names
<1>4. ASSUME ShopCols \subseteq copied PROVE Shops(db) \subseteq Shops(out)
  <2>1. "charid" \in copied /\ "shopid" \in copied /\ "shopid" \in cols
    BY <1>4 DEF ShopCols, NameCols
  <2>2. ASSUME NEW r \in db.tables["tToons"].rows
        PROVE  <<r.charid, r.shopid>> \in Shops(out)
    <3> DEFINE f == Fill(cols, copied, r)
    <3>1. f \in out.tables["tToons"].rows BY <1>1
    <3>2. f.charid = r.charid /\ f.shopid = r.shopid BY <2>1 DEF Fill
    <3> HIDE DEF f
    <3> QED BY <2>1, <3>1, <3>2 DEF Shops
  <2> QED BY <2>2 DEF Shops
<1> QED BY <1>3, <1>4

\* Filling the columns of tItems loses no item and no flag.
LEMMA FilledItems ==
    ASSUME NEW db, NEW out, "tItems" \in DOMAIN out.tables, NEW cols,
           PlainItemCols \subseteq cols,
           "tItems" \in DOMAIN db.tables =>
              out.tables["tItems"].rows = FillAll(cols, PlainItemCols, db.tables["tItems"].rows)
    PROVE  Items(db) \subseteq Items(out)
<1> SUFFICES ASSUME "tItems" \in DOMAIN db.tables PROVE Items(db) \subseteq Items(out)
  BY DEF Items
<1>1. ASSUME NEW r \in db.tables["tItems"].rows PROVE <<r.itemidx, r.item>> \in Items(out)
  <2> DEFINE f == Fill(cols, PlainItemCols, r)
  <2>1. f \in out.tables["tItems"].rows BY DEF FillAll
  <2>2. f.itemidx = r.itemidx /\ f.item = r.item BY DEF Fill, PlainItemCols
  <2> HIDE DEF f
  <2> QED BY <2>1, <2>2 DEF Items
<1> QED BY <1>1 DEF Items

-----------------------------------------------------------------------------
(* Steps that change one thing.                                            *)

\* What the next script does not change already has the form it will have.
LEMMA ToonsNext ==
    ASSUME NEW db, NEW k \in {4, 5, 6}, Toons(db, k)
    PROVE  Toons(db, k + 1)
<1>1. \A j \in k..8 : \E i \in (k + 1)..8 : ToonCols(i) = ToonCols(j) /\ ToonKey(i) = ToonKey(j)
  <2> TAKE j \in k..8
  <2>1. CASE j = k
    <3>1. ToonCols(k + 1) = ToonCols(k) /\ ToonKey(k + 1) = ToonKey(k)
      <4>1. k + 1 \in 4..7 /\ k \in 4..7 OBVIOUS
      <4>2. ~ (k + 1 <= 2) /\ ~ (k <= 2) OBVIOUS
      <4>3. ToonCols(k + 1) = DimensionCols /\ ToonCols(k) = DimensionCols BY <4>1, <4>2 DEF ToonCols
      <4>4. ~ (k + 1 <= 1) /\ ~ (k <= 1) OBVIOUS
      <4>5. ToonKey(k + 1) = "charid" /\ ToonKey(k) = "charid" BY <4>4 DEF ToonKey
      <4> QED BY <4>3, <4>5
    <3>2. k + 1 \in (k + 1)..8 OBVIOUS
    <3> QED BY <2>1, <3>1, <3>2
  <2>2. CASE j # k
    <3>1. j \in (k + 1)..8 BY <2>2
    <3> QED BY <3>1
  <2> QED BY <2>1, <2>2
<1> QED BY <1>1 DEF Toons

\* What is asked of tItems before a script is asked after it, but for the third.
LEMMA KitNext ==
    ASSUME NEW db, NEW k \in 0..7, k # 3, Kit(db, k)
    PROVE  Kit(db, k + 1)
<1>1. \A j \in k..8 : \E i \in (k + 1)..8 : ItemColsOf(i) = ItemColsOf(j)
  <2> TAKE j \in k..8
  <2>1. CASE j = k
    <3>1. ItemColsOf(k + 1) = ItemColsOf(k) BY DEF ItemColsOf
    <3>2. k + 1 \in (k + 1)..8 OBVIOUS
    <3> QED BY <2>1, <3>1, <3>2
  <2>2. CASE j # k
    <3>1. j \in (k + 1)..8 BY <2>2
    <3> QED BY <3>1
  <2> QED BY <2>1, <2>2
<1> QED BY <1>1 DEF Kit

\* The other tables are not asked for before version 5.
LEMMA OthersNext ==
    ASSUME NEW db, NEW k \in 0..3, Others(db, k)
    PROVE  Others(db, k + 1)
<1>1. IndexesOf(k + 1) \ {"iCharId"} = {} BY DEF IndexesOf
<1> QED BY <1>1 DEF Others

\* The tables are those of db.
SameTables(db, out) == out # NoFile /\ out.tables = db.tables /\ out.version = db.version

\* An index of the scripts is there afterwards.
LEMMA IndexMade ==
    ASSUME NEW db, Sound(db), NEW i \in IndexesOf(8), NEW on \in DOMAIN db.tables, NEW unique,
           IndexAs(i) = [on |-> on, unique |-> unique], Unique(db.tables[on].rows, unique)
    PROVE  LET out == Exec(db, CreateIndex(i, on, unique))
           IN  /\ SameTables(db, out) /\ Sound(out)
               /\ \A n : n \in DOMAIN out.indexes <=> n \in DOMAIN db.indexes \/ n = i
<1> DEFINE out == Exec(db, CreateIndex(i, on, unique))
           I == WithEntry(db.indexes, i, IndexAs(i))
           new == Db(db.tables, I, db.views, db.version)
<1>1. CASE i \in DOMAIN db.indexes
  <2>1. out = db BY <1>1, ExecIndex
  <2> QED BY <1>1, <2>1 DEF SameTables, Sound
<1>2. CASE i \notin DOMAIN db.indexes
  <2>2. out = new BY <1>2, ExecIndex
  <2>3. new.tables = db.tables /\ new.indexes = I /\ new.version = db.version BY DEF Db
  <2>4. new # NoFile BY DbIsFile
  <2> HIDE DEF new, out
  <2>5. \A n : n \in DOMAIN I <=> n \in DOMAIN db.indexes \/ n = i BY EntryIn
  <2>6. I[i] = IndexAs(i) BY EntryNew
  <2>7. \A n \in DOMAIN db.indexes : n # i => I[n] = db.indexes[n] BY EntryOld
  <2> HIDE DEF I
  <2>8. IndexAs(i).on = on OBVIOUS
  <2>9. Sound(new)
    <3>1. ASSUME NEW n \in DOMAIN I PROVE I[n] = IndexAs(n) /\ IndexAs(n).on \in DOMAIN db.tables
      <4>1. CASE n = i BY <2>6, <2>8, <4>1
      <4>2. CASE n # i BY <2>5, <2>7, <4>2 DEF Sound
      <4> QED BY <4>1, <4>2
    <3>2. DOMAIN I \subseteq IndexesOf(8) \cup OldIndexes BY <2>5 DEF Sound
    <3> QED BY <2>3, <2>4, <3>1, <3>2 DEF Sound
  <2> QED BY <2>2, <2>3, <2>4, <2>5, <2>9 DEF SameTables, out
<1> QED BY <1>1, <1>2

\* An index that is dropped is not.
LEMMA IndexDropped ==
    ASSUME NEW db, Sound(db), NEW i
    PROVE  LET out == Exec(db, DropIndex(i))
           IN  /\ SameTables(db, out) /\ Sound(out)
               /\ \A n : n \in DOMAIN out.indexes <=> n \in DOMAIN db.indexes /\ n # i
<1> DEFINE out == Exec(db, DropIndex(i))
           I == Without(db.indexes, {i})
           new == Db(db.tables, I, db.views, db.version)
<1>1. CASE i \notin DOMAIN db.indexes
  <2>1. out = db BY <1>1, ExecDropIndex
  <2> QED BY <1>1, <2>1 DEF SameTables, Sound
<1>2. CASE i \in DOMAIN db.indexes
  <2>1. out = new BY <1>2, ExecDropIndex
  <2>2. new.tables = db.tables /\ new.indexes = I /\ new.version = db.version BY DEF Db
  <2>3. new # NoFile BY DbIsFile
  <2> HIDE DEF new, out
  <2>4. /\ \A n : n \in DOMAIN I <=> n \in DOMAIN db.indexes /\ n # i
        /\ \A n \in DOMAIN I : I[n] = db.indexes[n]
    BY DEF Without
  <2> HIDE DEF I
  <2>5. Sound(new) BY <2>2, <2>3, <2>4 DEF Sound
  <2> QED BY <2>1, <2>2, <2>3, <2>4, <2>5 DEF SameTables, out
<1> QED BY <1>1, <1>2

\* Only the table of the servers is changed.
Beside(db, out) ==
    /\ out # NoFile /\ out.indexes = db.indexes /\ out.version = db.version
    /\ DOMAIN db.tables \subseteq DOMAIN out.tables
    /\ DOMAIN out.tables \subseteq DOMAIN db.tables \cup {"tDimensions"}
    /\ \A t \in DOMAIN db.tables : t # "tDimensions" => out.tables[t] = db.tables[t]

\* Two changes of tDimensions alone are one.
LEMMA BesideAgain ==
    ASSUME NEW a, NEW b, NEW c, Beside(a, b), Beside(b, c)
    PROVE  Beside(a, c)
BY DEF Beside

\* Nothing else depends on it.
LEMMA BesideForm ==
    ASSUME NEW db, NEW out, Beside(db, out), Sound(db)
    PROVE  /\ Sound(out) /\ Same(db, out, "tToons") /\ Same(db, out, "tItems")
           /\ \A k \in 0..7 : /\ Toons(db, k) => Toons(out, k)
                              /\ Kit(db, k) => Kit(out, k)
                              /\ Others(db, k) => Others(out, k)
<1>1. Sound(out) BY DEF Beside, Sound, Tables
<1>2. Same(db, out, "tToons") /\ Same(db, out, "tItems") BY DEF Beside, Same
<1>3. ASSUME NEW k \in 0..7, Toons(db, k) PROVE Toons(out, k)
  BY <1>2, <1>3 DEF Toons, Same, Beside
<1>4. ASSUME NEW k \in 0..7, Kit(db, k) PROVE Kit(out, k) BY <1>2, <1>4 DEF Kit, Same
<1>5. ASSUME NEW k \in 0..7, Others(db, k) PROVE Others(out, k)
  <2>1. Same(db, out, "tToonStats") BY DEF Beside, Same
  <2> QED BY <1>5, <2>1 DEF Others, Same, Beside
<1> QED BY <1>1, <1>2, <1>3, <1>4, <1>5

\* The servers are entered in a table of their own.
LEMMA BesideCreate ==
    ASSUME NEW db, db # NoFile, NEW cols, NEW key
    PROVE  Beside(db, Exec(db, CreateTable("tDimensions", cols, key)))
<1> DEFINE out == Exec(db, CreateTable("tDimensions", cols, key))
           A == Table(cols, key, {})
           new == Db(WithEntry(db.tables, "tDimensions", A), db.indexes, db.views, db.version)
<1>1. out = new \/ out = db BY ExecCreate
<1>2. new.tables = WithEntry(db.tables, "tDimensions", A) /\ new.indexes = db.indexes
      /\ new.version = db.version
  BY DEF Db
<1>3. new # NoFile BY DbIsFile
<1> HIDE DEF new, out, A
<1>4. Beside(db, new) BY <1>2, <1>3, EntryIn, EntryOld DEF Beside
<1>5. Beside(db, db) BY DEF Beside
<1> QED BY <1>1, <1>4, <1>5 DEF out

\* A row of tDimensions changes that table alone.
LEMMA BesideInsert ==
    ASSUME NEW db, db # NoFile, NEW id
    PROVE  Beside(db, Exec(db, Dimension(id)))
<1> DEFINE out == Exec(db, Dimension(id))
           A(rows) == Table(db.tables["tDimensions"].cols, db.tables["tDimensions"].key, rows)
           new(rows) == Db(WithEntry(db.tables, "tDimensions", A(rows)), db.indexes, db.views, db.version)
<1>1. \/ out = db
      \/ "tDimensions" \in DOMAIN db.tables /\ \E rows : out = new(rows)
  BY ExecInsert DEF Dimension
<1>2. ASSUME NEW rows PROVE Beside(db, new(rows))
  <2> DEFINE B == A(rows)
  <2>1. new(rows).tables = WithEntry(db.tables, "tDimensions", B) /\ new(rows).indexes = db.indexes
        /\ new(rows).version = db.version
    BY DEF Db
  <2>2. new(rows) # NoFile BY DbIsFile
  <2> HIDE DEF new, A
  <2> QED BY <2>1, <2>2, EntryIn, EntryOld DEF Beside
<1>3. Beside(db, db) BY DEF Beside
<1> QED BY <1>1, <1>2, <1>3

-----------------------------------------------------------------------------
(* The scripts.                                                            *)

\* A script of four statements.
LEMMA Four ==
    ASSUME NEW db, NEW s, NEW t, NEW u, NEW v
    PROVE  /\ Script(<<s, t, u, v>>)
           /\ Transaction(db, <<s, t, u, v>>) = Exec(Exec(Exec(Exec(db, s), t), u), v)
<1> DEFINE a == <<s, t, u, v>>
<1>1. Len(a) = 4 /\ a[1] = s /\ a[2] = t /\ a[3] = u /\ a[4] = v /\ DOMAIN a = 1..4
  OBVIOUS
<1>2. a \in Seq({s, t, u, v}) OBVIOUS
<1> HIDE DEF a
<1>3. Script(a)
  <2>1. {s, t, u, v} \subseteq {a[n] : n \in DOMAIN a} BY <1>1
  <2> QED BY <1>2, <2>1 DEF Script
<1>4. PICK g : Run(g, db, a, 4) /\ Transaction(db, a) = g[4] BY <1>1, Runs
<1>5. g[0] = db /\ \A n \in 1..4 : g[n] = Exec(g[n - 1], a[n]) BY <1>4 DEF Run
<1>6. /\ g[1] = Exec(db, s) /\ g[2] = Exec(g[1], t) /\ g[3] = Exec(g[2], u)
      /\ g[4] = Exec(g[3], v)
  BY <1>1, <1>5
<1> QED BY <1>3, <1>4, <1>6 DEF a

\* What script k, committed as a whole, makes of a database and what it keeps of it.
Committed(db, out, k) ==
    /\ Form(out, k + 1) /\ out.version = db.version
    /\ Items(db) \subseteq Items(out)
    /\ NoDouble(db) => Names(db) \subseteq Names(out)
    /\ k >= 3 /\ NoDouble(db) => Shops(db) \subseteq Shops(out)
    /\ k >= 4 => Flags(db) \subseteq Flags(out)

\* The columns of the versions.
LEMMA NamesAlways == \A j \in 0..8 : NameCols \subseteq ToonCols(j) /\ "charid" \in NameCols
BY DEF ToonCols, DimensionCols, ShopCols, NameCols

\* From version 3 on tToons has the columns of the shops.
LEMMA ShopsFrom3 == \A j \in 3..8 : ShopCols \subseteq ToonCols(j)
<1> TAKE j \in 3..8
<1>1. ~ (j <= 2) OBVIOUS
<1> QED BY <1>1 DEF ToonCols, DimensionCols

\* The table of the characters made anew, the others are as they were.
LEMMA AnewKeeps ==
    ASSUME NEW db, NEW out, NEW cols, NEW key, NEW rows, Anew(out, db, cols, key, rows),
           NEW copied, copied \subseteq cols
    PROVE  /\ Same(db, out, "tItems") /\ out.version = db.version
           /\ ("tToons" \in DOMAIN db.tables =>
                  rows = FillAll(cols, copied, db.tables["tToons"].rows)) =>
                 /\ NameCols \subseteq copied => Names(db) \subseteq Names(out)
                 /\ ShopCols \subseteq copied => Shops(db) \subseteq Shops(out)
<1> DEFINE A == Table(cols, key, rows)
<1>1. A.cols = cols /\ A.rows = rows BY DEF Table
<1>2. out.tables = WithEntry(db.tables, "tToons", A) /\ out.version = db.version BY DEF Anew
<1> HIDE DEF A
<1>3. "tToons" \in DOMAIN out.tables /\ out.tables["tToons"] = A BY <1>2, EntryIn, EntryNew
<1>4. Same(db, out, "tItems")
  <2>1. "tItems" # "tToons" OBVIOUS
  <2> QED BY <1>2, <2>1, EntryIn, EntryOld DEF Same
<1>5. ASSUME "tToons" \in DOMAIN db.tables => rows = FillAll(cols, copied, db.tables["tToons"].rows)
      PROVE  /\ NameCols \subseteq copied => Names(db) \subseteq Names(out)
             /\ ShopCols \subseteq copied => Shops(db) \subseteq Shops(out)
  BY <1>1, <1>3, <1>5, FilledToons
<1> QED BY <1>2, <1>4, <1>5

\* The oldest table has no key, the index is made before the rows come back: they do
\* when they differ.
LEMMA ToonsIndexed ==
    ASSUME NEW db, Sound(db),
           "tToons" \in DOMAIN db.tables => NameCols \subseteq db.tables["tToons"].cols,
           NEW key, \A rows : Unique(rows, key), Copied({key}, NameCols),
           Copied({key, "charid"}, NameCols)
    PROVE  LET d == Moved(db, "tToons", "tToons2", NameCols, key, NameCols)
               e == Transaction(d, CharIndex)
               out == Exec(Exec(e, CopyRows("tToons", "tToons2", NameCols)), DropTable("tToons2"))
           IN  /\ Script(CharIndex)
               /\ \E rows : /\ Anew(out, db, NameCols, key, rows)
                            /\ Unique(rows, "charid")
                            /\ NoDouble(db) /\ "tToons" \in DOMAIN db.tables =>
                                  rows = FillAll(NameCols, NameCols, db.tables["tToons"].rows)
<1> DEFINE d == Moved(db, "tToons", "tToons2", NameCols, key, NameCols)
           e == Transaction(d, CharIndex)
           out == Exec(Exec(e, CopyRows("tToons", "tToons2", NameCols)), DropTable("tToons2"))
           R == IF "tToons" \in DOMAIN db.tables
                THEN FillAll(NameCols, NameCols, db.tables["tToons"].rows) ELSE {}
           J == Without(db.indexes, OnTable(db, "tToons"))
           V == db.views
           n == db.version
<1>1. Placed(db) /\ "tToons2" \notin DOMAIN db.tables
      /\ OnTable(db, "tToons") = {"iCharId"} \cap DOMAIN db.indexes
  BY SoundPlaced
<1>2. d = Db(Both(db.tables, "tToons", "tToons2", NameCols, key, R), d.indexes, V, n)
      /\ ((d.indexes = db.indexes /\ OnTable(db, "tToons") = {}) \/ d.indexes = J)
  <2>1. CASE "tToons" \in DOMAIN db.tables
    <3>1. d = Db(Both(db.tables, "tToons", "tToons2", NameCols, key, R), J, V, n)
      BY <1>1, <2>1, MovedPresent
    <3>2. d.indexes = J
      <4> HIDE DEF d, J
      <4> QED BY <3>1 DEF Db
    <3> HIDE DEF d, J, R
    <3> QED BY <3>1, <3>2
  <2>2. CASE "tToons" \notin DOMAIN db.tables
    <3>1. d = Db(Both(db.tables, "tToons", "tToons2", NameCols, key, R), db.indexes, V, n)
      BY <1>1, <2>2, MovedAbsent
    <3>2. d.indexes = db.indexes
      <4> HIDE DEF d
      <4> QED BY <3>1 DEF Db
    <3>3. OnTable(db, "tToons") = {} BY <1>1, <2>2 DEF OnTable, Placed
    <3> HIDE DEF d, J, R
    <3> QED BY <3>1, <3>2, <3>3
  <2> QED BY <2>1, <2>2
<1>3. \A rows : FillAll(NameCols, NameCols, FillAll(NameCols, NameCols, rows))
                  = FillAll(NameCols, NameCols, rows)
  BY FillTwice
<1>4. FillAll(NameCols, NameCols, R) = R
  <2>1. FillAll(NameCols, NameCols, {}) = {} BY DEF FillAll
  <2> QED BY <1>3, <2>1
<1>5. NoDouble(db) => Unique(R, "charid")
  <2>1. "charid" \in NameCols BY DEF NameCols
  <2>2. Unique({}, "charid") BY DEF Unique
  <2> QED BY <2>1, <2>2, FillUnique DEF NoDouble
<1>6. "tToons" \in DOMAIN db.tables => R = FillAll(NameCols, NameCols, db.tables["tToons"].rows)
  OBVIOUS
<1>7. /\ \A i : i \in DOMAIN J <=> i \in DOMAIN db.indexes /\ i # "iCharId"
      /\ \A i \in DOMAIN J : J[i] = db.indexes[i]
      /\ J = [i \in DOMAIN J |-> J[i]]
  BY <1>1 DEF Without
<1>8. d.indexes = J \/ (d.indexes = db.indexes /\ OnTable(db, "tToons") = {}) BY <1>2
<1>9. J = Without(db.indexes, OnTable(db, "tToons")) OBVIOUS
<1> HIDE DEF d, R, J
<1>10. d.tables = Both(db.tables, "tToons", "tToons2", NameCols, key, R) /\ d.views = V
       /\ d.version = n
  BY <1>2 DEF Db
<1>11. /\ "iCharId" \notin DOMAIN d.indexes
       /\ \A i \in DOMAIN d.indexes : i \in DOMAIN db.indexes /\ d.indexes[i] = db.indexes[i]
  BY <1>1, <1>7, <1>8
<1>12. "tToons" \in DOMAIN d.tables /\ d.tables["tToons"] = Table(NameCols, key, {})
  BY <1>10, EntryIn, EntryNew DEF Both
<1> DEFINE I == WithEntry(d.indexes, "iCharId", IndexAs("iCharId"))
<1>13. Script(CharIndex) /\ e = Db(d.tables, I, V, n)
  <2>1. d.tables["tToons"].rows = {} BY <1>12 DEF Table
  <2>3. Unique({}, "charid") BY DEF Unique
  <2> QED BY <1>10, <1>11, <1>12, <2>1, <2>3, CharIndexMade
<1> HIDE DEF e, I
<1>14. e.tables = d.tables /\ e.indexes = I /\ e.views = V /\ e.version = n BY <1>13 DEF Db
<1>15. /\ \A i : i \in DOMAIN I <=> i \in DOMAIN d.indexes \/ i = "iCharId"
       /\ I["iCharId"] = IndexAs("iCharId")
       /\ \A i \in DOMAIN d.indexes : i # "iCharId" => I[i] = d.indexes[i]
  BY EntryIn, EntryNew, EntryOld DEF I
<1>16. OnTable(e, "tToons2") = {}
  <2>1. I["iCharId"].on = "tToons" BY <1>15, IndexOfToons
  <2>2. \A i \in DOMAIN d.indexes : d.indexes[i].on # "tToons2" BY <1>1, <1>11 DEF Placed
  <2> QED BY <1>11, <1>14, <1>15, <2>1, <2>2 DEF OnTable
<1>17. UniqueCols(e, "tToons") = {key, "charid"}
  <2>1. \A i \in DOMAIN d.indexes : d.indexes[i].on # "tToons"
    <3>1. \A i \in DOMAIN db.indexes : i # "iCharId" => db.indexes[i].on # "tToons"
      BY <1>1 DEF OnTable
    <3> QED BY <1>11, <3>1
  <2>2. I["iCharId"].on = "tToons" /\ I["iCharId"].unique = "charid" BY <1>15, IndexOfToons
  <2>3. {e.indexes[i].unique : i \in {j \in DOMAIN e.indexes : e.indexes[j].on = "tToons"}} = {"charid"}
    BY <1>11, <1>14, <1>15, <2>1, <2>2
  <2>4. e.tables["tToons"].key = key BY <1>12, <1>14 DEF Table
  <2> QED BY <2>3, <2>4 DEF UniqueCols
<1> DEFINE rows == IF Fits(e, "tToons", R) THEN R ELSE {}
           end == Db(WithEntry(db.tables, "tToons", Table(NameCols, key, rows)), Without(e.indexes, {}),
                     e.views, e.version)
<1>18. out = end
  <2>1. e.tables = Both(db.tables, "tToons", "tToons2", NameCols, key, R) BY <1>10, <1>14
  <2>2. Copied(UniqueCols(e, "tToons"), NameCols) BY <1>17
  <2> QED BY <1>1, <1>4, <1>16, <2>1, <2>2, MovedBack
<1>19. Fits(e, "tToons", R) <=> Unique(R, "charid") BY <1>17 DEF Fits
<1>20. Unique(rows, "charid") /\ (NoDouble(db) => rows = R)
  BY <1>5, <1>19 DEF Unique
<1>21. e.indexes = WithEntry(J, "iCharId", IndexAs("iCharId"))
  <2>1. CASE d.indexes = J BY <1>14, <2>1 DEF I
  <2>2. CASE d.indexes = db.indexes /\ OnTable(db, "tToons") = {}
    <3>1. DOMAIN J = DOMAIN d.indexes BY <1>1, <1>7, <2>2
    <3>2. WithEntry(d.indexes, "iCharId", IndexAs("iCharId")) = WithEntry(J, "iCharId", IndexAs("iCharId"))
      BY <1>7, <2>2, <3>1 DEF WithEntry
    <3> QED BY <1>14, <3>2 DEF I
  <2> QED BY <1>8, <2>1, <2>2
<1>22. Without(e.indexes, {}) = WithEntry(J, "iCharId", IndexAs("iCharId"))
  <2>1. Without(WithEntry(J, "iCharId", IndexAs("iCharId")), {}) = WithEntry(J, "iCharId", IndexAs("iCharId"))
    BY DEF Without, WithEntry
  <2> QED BY <1>21, <2>1
<1> HIDE DEF rows
<1>23. /\ end.tables = WithEntry(db.tables, "tToons", Table(NameCols, key, rows))
       /\ end.indexes = Without(e.indexes, {}) /\ end.version = e.version
  BY DEF Db
<1>24. end # NoFile BY DbIsFile
<1> HIDE DEF end
<1>25. Anew(end, db, NameCols, key, rows) BY <1>9, <1>14, <1>22, <1>23, <1>24 DEF Anew
<1> HIDE DEF out
<1>26. Anew(out, db, NameCols, key, rows) BY <1>18, <1>25
<1> QED BY <1>6, <1>13, <1>20, <1>26 DEF out, e, d

\* The table of the characters is rebuilt with its index: as version j has it.
LEMMA ToonsOfVersion ==
    ASSUME NEW db, Sound(db), "tToons" \in DOMAIN db.tables,
           Unique(db.tables["tToons"].rows, "charid"),
           NEW j \in 2..8, NEW m \in 0..8, Kit(db, m), Others(db, m),
           NEW copied, copied \subseteq ToonCols(j), NameCols \subseteq copied,
           copied \subseteq db.tables["tToons"].cols
    PROVE  LET rebuild == Rebuild("tToons", "tToons2", ToonCols(j), "charid", copied)
               out == Transaction(Transaction(db, rebuild), CharIndex)
           IN  /\ Script(rebuild) /\ Script(CharIndex)
               /\ out = Transaction(db, rebuild \o CharIndex)
               /\ Sound(out) /\ Toons(out, j) /\ Kit(out, m) /\ Others(out, m)
               /\ out.version = db.version /\ Same(db, out, "tItems")
               /\ Names(db) \subseteq Names(out)
               /\ ShopCols \subseteq copied => Shops(db) \subseteq Shops(out)
<1> DEFINE rebuild == Rebuild("tToons", "tToons2", ToonCols(j), "charid", copied)
           out == Transaction(Transaction(db, rebuild), CharIndex)
           R == FillAll(ToonCols(j), copied, db.tables["tToons"].rows)
<1>1. "charid" \in copied BY DEF NameCols
<1>2. /\ Script(rebuild) /\ Script(CharIndex)
      /\ Anew(Transaction(Transaction(db, rebuild), CharIndex), db, ToonCols(j), "charid", R)
  BY <1>1, ToonsRebuilt
<1>3. Unique(R, "charid") BY <1>1, FillUnique
<1>4. R = FillAll(ToonCols(j), copied, db.tables["tToons"].rows) OBVIOUS
<1> HIDE DEF rebuild, R
<1>5. Script(rebuild \o CharIndex)
      /\ Transaction(db, rebuild \o CharIndex) = Transaction(Transaction(db, rebuild), CharIndex)
  BY <1>2, Concat
<1>6. Anew(out, db, ToonCols(j), "charid", R) BY <1>2, <1>5
<1> HIDE DEF out
<1>7. ToonKey(j) = "charid"
  <2>1. ~ (j <= 1) OBVIOUS
  <2> QED BY <2>1 DEF ToonKey
<1>8. Sound(out) /\ Toons(out, j) /\ Kit(out, m) /\ Others(out, m)
  <2>1. Anew(out, db, ToonCols(j), ToonKey(j), R) BY <1>6, <1>7
  <2>2. j \in 1..8 OBVIOUS
  <2> QED BY <1>3, <2>1, <2>2, AnewForm
<1>9. /\ Same(db, out, "tItems") /\ out.version = db.version
      /\ Names(db) \subseteq Names(out)
      /\ ShopCols \subseteq copied => Shops(db) \subseteq Shops(out)
  BY <1>4, <1>6, AnewKeeps
<1> QED BY <1>2, <1>5, <1>8, <1>9 DEF out, rebuild

\* A script of four statements, the index and two statements.
LEMMA AroundIndex ==
    ASSUME NEW db, NEW s, NEW t, NEW u, NEW v, NEW w, NEW x, Script(CharIndex)
    PROVE  LET d == Exec(Exec(Exec(Exec(db, s), t), u), v)
               e == Transaction(d, CharIndex)
           IN  Transaction(db, <<s, t, u, v>> \o CharIndex \o <<w, x>>) = Exec(Exec(e, w), x)
<1> DEFINE a == <<s, t, u, v>>
           b == <<w, x>>
           d == Exec(Exec(Exec(Exec(db, s), t), u), v)
           e == Transaction(d, CharIndex)
<1>1. Script(a) /\ Transaction(db, a) = d BY Four
<1>2. Script(b) /\ Transaction(e, b) = Exec(Exec(e, w), x) BY Pair
<1>3. e = Transaction(d, CharIndex) OBVIOUS
<1> HIDE DEF a, b, d, e
<1>4. Script(a \o CharIndex) /\ Transaction(db, a \o CharIndex) = Transaction(d, CharIndex)
  BY <1>1, Concat
<1>5. Transaction(db, (a \o CharIndex) \o b) = Transaction(Transaction(db, a \o CharIndex), b)
  BY <1>2, <1>4, Concat
<1> QED BY <1>2, <1>3, <1>4, <1>5 DEF a, b, d, e

\* Scripts 0 to 2: the table of the characters gets its index, its key and the shops.
LEMMA Script0 ==
    ASSUME NEW db, Form(db, 0)
    PROVE  Committed(db, Transaction(db, Upgrade0), 0)
<1> DEFINE d == Moved(db, "tToons", "tToons2", NameCols, "", NameCols)
           e == Transaction(d, CharIndex)
           out == Exec(Exec(e, CopyRows("tToons", "tToons2", NameCols)), DropTable("tToons2"))
<1>1. Sound(db) /\ Kit(db, 0) /\ Others(db, 0)
      /\ ("tToons" \in DOMAIN db.tables => NameCols \subseteq db.tables["tToons"].cols)
  BY NamesAlways DEF Form, Toons
<1>2. /\ \A rows : Unique(rows, "")
      /\ Copied({""}, NameCols) /\ Copied({"", "charid"}, NameCols)
  BY DEF Unique, Copied, NameCols
<1>3. PICK rows : /\ Script(CharIndex) /\ Anew(out, db, NameCols, "", rows)
                  /\ Unique(rows, "charid")
                  /\ NoDouble(db) /\ "tToons" \in DOMAIN db.tables =>
                        rows = FillAll(NameCols, NameCols, db.tables["tToons"].rows)
  BY <1>1, <1>2, ToonsIndexed
<1>4. Script(CharIndex) BY <1>3
<1> DEFINE s1 == CreateTable("tToons2", NameCols, "")
           s2 == CopyRows("tToons2", "tToons", NameCols)
           s3 == DropTable("tToons")
           s4 == CreateTable("tToons", NameCols, "")
           s5 == CopyRows("tToons", "tToons2", NameCols)
           s6 == DropTable("tToons2")
<1>5. d = Exec(Exec(Exec(Exec(db, s1), s2), s3), s4) BY DEF Moved
<1>6. Transaction(db, Upgrade0) = out
  <2>1. Upgrade0 = <<s1, s2, s3, s4>> \o CharIndex \o <<s5, s6>> BY DEF Upgrade0
  <2>2. out = Exec(Exec(e, s5), s6) OBVIOUS
  <2>3. e = Transaction(d, CharIndex) OBVIOUS
  <2> HIDE DEF d, e, out, s1, s2, s3, s4, s5, s6
  <2> QED BY <1>4, <1>5, <2>1, <2>2, <2>3, AroundIndex
<1> HIDE DEF d, e, out, s1, s2, s3, s4, s5, s6
<1>7. ToonCols(1) = NameCols /\ ToonKey(1) = "" BY DEF ToonCols, ToonKey
<1>8. Kit(db, 1) /\ Others(db, 1)
  <2>1. 0 \in 0..7 /\ 0 \in 0..3 /\ 0 # 3 /\ 0 + 1 = 1 OBVIOUS
  <2> QED BY <1>1, <2>1, KitNext, OthersNext
<1>9. Form(out, 1)
  <2>1. 1 \in 1..8 /\ 1 \in 0..8 OBVIOUS
  <2>2. Anew(out, db, ToonCols(1), ToonKey(1), rows) BY <1>3, <1>7
  <2> QED BY <1>1, <1>3, <1>8, <2>1, <2>2, AnewForm DEF Form
<1>10. /\ Same(db, out, "tItems") /\ out.version = db.version
       /\ NoDouble(db) => Names(db) \subseteq Names(out)
  BY <1>3, AnewKeeps
<1> QED BY <1>6, <1>9, <1>10, SameItems DEF Committed

\* The script to version 2 makes tToons anew, with its key.
LEMMA Script1 ==
    ASSUME NEW db, Form(db, 1)
    PROVE  Committed(db, Transaction(db, Upgrade1), 1)
<1> DEFINE out == Transaction(db, Upgrade1)
<1>1. ToonCols(2) = NameCols BY DEF ToonCols
<1>2. Upgrade1 = Rebuild("tToons", "tToons2", ToonCols(2), "charid", NameCols) \o CharIndex
  BY <1>1 DEF Upgrade1
<1>3. /\ Sound(db) /\ "tToons" \in DOMAIN db.tables
      /\ Unique(db.tables["tToons"].rows, "charid")
      /\ NameCols \subseteq db.tables["tToons"].cols
  BY NamesAlways DEF Form, Toons
<1>4. Kit(db, 2) /\ Others(db, 2)
  <2>1. 1 \in 0..7 /\ 1 \in 0..3 /\ 1 # 3 /\ 1 + 1 = 2 OBVIOUS
  <2> QED BY <2>1, KitNext, OthersNext DEF Form
<1>5. 2 \in 2..8 /\ 2 \in 0..8 /\ NameCols \subseteq NameCols OBVIOUS
<1>6. /\ Sound(out) /\ Toons(out, 2) /\ Kit(out, 2) /\ Others(out, 2)
      /\ out.version = db.version /\ Same(db, out, "tItems") /\ Names(db) \subseteq Names(out)
  BY <1>1, <1>2, <1>3, <1>4, <1>5, ToonsOfVersion
<1> HIDE DEF out
<1>7. Committed(db, out, 1) BY <1>6, SameItems DEF Committed, Form
<1> QED BY <1>7 DEF out

\* The script to version 3 adds the columns of the shops to tToons.
LEMMA Script2 ==
    ASSUME NEW db, Form(db, 2)
    PROVE  Committed(db, Transaction(db, Upgrade2), 2)
<1> DEFINE out == Transaction(db, Upgrade2)
<1>1. ToonCols(3) = ShopCols BY DEF ToonCols
<1>2. Upgrade2 = Rebuild("tToons", "tToons2", ToonCols(3), "charid", NameCols) \o CharIndex
  BY <1>1 DEF Upgrade2
<1>3. /\ Sound(db) /\ "tToons" \in DOMAIN db.tables
      /\ Unique(db.tables["tToons"].rows, "charid")
      /\ NameCols \subseteq db.tables["tToons"].cols
  BY NamesAlways DEF Form, Toons
<1>4. Kit(db, 3) /\ Others(db, 3)
  <2>1. 2 \in 0..7 /\ 2 \in 0..3 /\ 2 # 3 /\ 2 + 1 = 3 OBVIOUS
  <2> QED BY <2>1, KitNext, OthersNext DEF Form
<1>5. 3 \in 2..8 /\ 3 \in 0..8 /\ NameCols \subseteq NameCols /\ NameCols \subseteq ToonCols(3)
  BY <1>1 DEF ShopCols
<1>6. /\ Sound(out) /\ Toons(out, 3) /\ Kit(out, 3) /\ Others(out, 3)
      /\ out.version = db.version /\ Same(db, out, "tItems") /\ Names(db) \subseteq Names(out)
  BY <1>2, <1>3, <1>4, <1>5, ToonsOfVersion
<1> HIDE DEF out
<1>7. Committed(db, out, 2) BY <1>6, SameItems DEF Committed, Form
<1> QED BY <1>7 DEF out

\* The table of the items gets the flags; its indexes go with the old one.
LEMMA ItemsRebuilt ==
    ASSUME NEW db, Form(db, 3)
    PROVE  LET script == Rebuild("tItems", "tItems2", ItemCols, "itemidx", PlainItemCols)
               out == Transaction(db, script)
           IN  /\ Script(script)
               /\ Sound(out) /\ Toons(out, 3) /\ Kit(out, 4) /\ Others(out, 4)
               /\ out.version = db.version /\ Same(db, out, "tToons")
               /\ Items(db) \subseteq Items(out)
<1> DEFINE script == Rebuild("tItems", "tItems2", ItemCols, "itemidx", PlainItemCols)
           out == Transaction(db, script)
           R == IF "tItems" \in DOMAIN db.tables
                THEN FillAll(ItemCols, PlainItemCols, db.tables["tItems"].rows) ELSE {}
           J == Without(db.indexes, OnTable(db, "tItems"))
           A == Table(ItemCols, "itemidx", R)
<1>1. Script(script) BY Six DEF Rebuild
<1>2. /\ PlainItemCols \subseteq ItemCols /\ "itemidx" \in PlainItemCols
      /\ Copied({"itemidx"}, PlainItemCols)
  BY DEF ItemCols, PlainItemCols, Copied
<1>3. Sound(db) /\ Toons(db, 3) /\ Kit(db, 3) /\ Others(db, 3) BY DEF Form
<1>4. Placed(db) /\ "tItems2" \notin DOMAIN db.tables BY <1>3, SoundPlaced
<1>5. "tItems" \in DOMAIN db.tables =>
        PlainItemCols \subseteq db.tables["tItems"].cols /\ Unique(db.tables["tItems"].rows, "itemidx")
  BY <1>2, <1>3 DEF Kit, ItemColsOf
<1>6. Rebuilt(out, db, "tItems", ItemCols, "itemidx", R)
  <2>1. CASE "tItems" \in DOMAIN db.tables BY <1>2, <1>4, <1>5, <2>1, RebuildPresent
  <2>2. CASE "tItems" \notin DOMAIN db.tables
    <3>1. "tItems" # "tItems2" /\ {"tItems", "tItems2"} \cap DOMAIN db.tables = {} BY <1>4, <2>2
    <3> QED BY <1>2, <1>4, <2>2, <3>1, RebuildAbsent
  <2> QED BY <2>1, <2>2
<1>7. Unique(R, "itemidx")
  <2>1. CASE "tItems" \in DOMAIN db.tables BY <1>2, <1>5, <2>1, FillUnique
  <2>2. CASE "tItems" \notin DOMAIN db.tables
    <3>1. R = {} BY <2>2
    <3> QED BY <3>1 DEF Unique
  <2> QED BY <2>1, <2>2
<1>8. "tItems" \in DOMAIN db.tables => R = FillAll(ItemCols, PlainItemCols, db.tables["tItems"].rows)
  OBVIOUS
<1>9. A.cols = ItemCols /\ A.key = "itemidx" /\ A.rows = R
  <2> HIDE DEF R
  <2> QED BY DEF Table
<1>10. /\ \A i : i \in DOMAIN J <=> i \in DOMAIN db.indexes /\ db.indexes[i].on # "tItems"
       /\ \A i \in DOMAIN J : J[i] = db.indexes[i]
  BY DEF Without, OnTable
<1> HIDE DEF script, out, R
<1>11. out.tables = WithEntry(db.tables, "tItems", A) /\ out.indexes = J /\ out.version = db.version
  BY <1>6 DEF Rebuilt
<1>12. out # NoFile
  <2>1. PICK views : out = Db(out.tables, out.indexes, views, out.version) BY <1>6 DEF Rebuilt
  <2> QED BY <2>1, DbIsFile
<1> HIDE DEF A, J
<1>13. \A t : t \in DOMAIN out.tables <=> t \in DOMAIN db.tables \/ t = "tItems"
  BY <1>11, EntryIn
<1>14. out.tables["tItems"] = A BY <1>11, EntryNew
<1>15. \A t \in DOMAIN db.tables : t # "tItems" => out.tables[t] = db.tables[t]
  BY <1>11, EntryOld
<1>16. Same(db, out, "tToons")
  <2>1. "tItems" # "tToons" OBVIOUS
  <2> QED BY <1>13, <1>15, <2>1 DEF Same
<1>17. Sound(out)
  <2>1. DOMAIN out.tables \subseteq Tables BY <1>3, <1>13 DEF Sound, Tables
  <2>2. DOMAIN out.indexes \subseteq IndexesOf(8) \cup OldIndexes BY <1>3, <1>10, <1>11 DEF Sound
  <2>3. \A i \in DOMAIN out.indexes :
           out.indexes[i] = IndexAs(i) /\ IndexAs(i).on \in DOMAIN out.tables
    BY <1>3, <1>10, <1>11, <1>13 DEF Sound
  <2> QED BY <1>12, <2>1, <2>2, <2>3 DEF Sound
<1>18. Toons(out, 3)
  <2>1. "iCharId" \in DOMAIN out.indexes
    <3>1. "iCharId" \in DOMAIN db.indexes BY <1>3 DEF Toons
    <3>2. db.indexes["iCharId"].on = "tToons" BY <1>3, <3>1, IndexOfToons DEF Sound
    <3> QED BY <1>10, <1>11, <3>1, <3>2
  <2> QED BY <1>3, <1>16, <2>1 DEF Toons, Same
<1>19. Kit(out, 4)
  <2>1. ItemColsOf(4) = ItemCols /\ 4 \in 4..8 BY DEF ItemColsOf
  <2> QED BY <1>7, <1>9, <1>13, <1>14, <2>1 DEF Kit
<1>20. Others(out, 4)
  <2>1. IndexesOf(4) \ {"iCharId"} = {} BY DEF IndexesOf
  <2>2. "tToonStats" \in DOMAIN out.tables => out.tables["tToonStats"].cols = StatCols
    BY <1>3, <1>13, <1>15 DEF Others
  <2> QED BY <2>1, <2>2 DEF Others
<1>21. Items(db) \subseteq Items(out) BY <1>2, <1>8, <1>9, <1>13, <1>14, FilledItems
<1> QED BY <1>1, <1>11, <1>16, <1>17, <1>18, <1>19, <1>20, <1>21 DEF out, script

\* The servers are entered, nothing else is changed.
LEMMA ServersEntered ==
    ASSUME NEW db, db # NoFile, NEW cols, NEW key
    PROVE  LET script == << CreateTable("tDimensions", cols, key), Dimension(11), Dimension(12), Dimension(13) >>
           IN  Script(script) /\ Beside(db, Transaction(db, script))
<1> DEFINE s == CreateTable("tDimensions", cols, key)
           d1 == Exec(db, s)
           d2 == Exec(d1, Dimension(11))
           d3 == Exec(d2, Dimension(12))
           d4 == Exec(d3, Dimension(13))
<1>1. Beside(db, d1) BY BesideCreate
<1>2. /\ Script(<<s, Dimension(11), Dimension(12), Dimension(13)>>)
      /\ Transaction(db, <<s, Dimension(11), Dimension(12), Dimension(13)>>) = d4
  BY Four
<1> HIDE DEF d1
<1>3. Beside(d1, d2)
  <2>1. d1 # NoFile BY <1>1 DEF Beside
  <2> QED BY <2>1, BesideInsert
<1> HIDE DEF d2
<1>4. Beside(d2, d3)
  <2>1. d2 # NoFile BY <1>3 DEF Beside
  <2> QED BY <2>1, BesideInsert
<1> HIDE DEF d3
<1>5. Beside(d3, d4)
  <2>1. d3 # NoFile BY <1>4 DEF Beside
  <2> QED BY <2>1, BesideInsert
<1> HIDE DEF d4
<1>6. Beside(db, d4)
  <2>1. Beside(db, d2) BY <1>1, <1>3, BesideAgain
  <2>2. Beside(db, d3) BY <1>4, <2>1, BesideAgain
  <2> QED BY <1>5, <2>2, BesideAgain
<1> QED BY <1>2, <1>6

\* Script 3: flags, servers and the server of a character.
LEMMA Script3 ==
    ASSUME NEW db, Form(db, 3)
    PROVE  Committed(db, Transaction(db, Upgrade3), 3)
<1> DEFINE a == Rebuild("tItems", "tItems2", ItemCols, "itemidx", PlainItemCols)
           b == << CreateTable("tDimensions", {"dimensionid", "dimensionname"}, "dimensionid"),
                   Dimension(11), Dimension(12), Dimension(13) >>
           c == Rebuild("tToons", "tToons2", ToonCols(4), "charid", ShopCols)
           d == Transaction(db, a)
           e == Transaction(d, b)
           out == Transaction(Transaction(e, c), CharIndex)
<1>1. ToonCols(4) = DimensionCols BY DEF ToonCols
<1>2. Upgrade3 = ((a \o b) \o c) \o CharIndex BY <1>1 DEF Upgrade3
<1>3. /\ Script(a)
      /\ Sound(d) /\ Toons(d, 3) /\ Kit(d, 4) /\ Others(d, 4)
      /\ d.version = db.version /\ Same(db, d, "tToons") /\ Items(db) \subseteq Items(d)
  BY ItemsRebuilt
<1> HIDE DEF d, a
<1>4. Script(b) /\ Beside(d, e)
  <2>1. d # NoFile BY <1>3 DEF Sound
  <2> QED BY <2>1, ServersEntered
<1> HIDE DEF e, b
<1>5. /\ Sound(e) /\ Toons(e, 3) /\ Kit(e, 4) /\ Others(e, 4)
      /\ e.version = d.version /\ Same(d, e, "tToons") /\ Same(d, e, "tItems")
  <2>1. 3 \in 0..7 /\ 4 \in 0..7 OBVIOUS
  <2> QED BY <1>3, <1>4, <2>1, BesideForm DEF Beside
<1>6. /\ "tToons" \in DOMAIN e.tables /\ Unique(e.tables["tToons"].rows, "charid")
      /\ ShopCols \subseteq e.tables["tToons"].cols
  BY <1>5, ShopsFrom3 DEF Toons
<1>7. 4 \in 2..8 /\ 4 \in 0..8 /\ ShopCols \subseteq ToonCols(4) /\ NameCols \subseteq ShopCols
  BY <1>1 DEF ShopCols, DimensionCols
<1>8. /\ Script(c) /\ Script(CharIndex)
      /\ Sound(out) /\ Toons(out, 4) /\ Kit(out, 4) /\ Others(out, 4)
      /\ out.version = e.version /\ Same(e, out, "tItems")
      /\ Names(e) \subseteq Names(out) /\ Shops(e) \subseteq Shops(out)
  BY <1>5, <1>6, <1>7, ToonsOfVersion
<1> HIDE DEF c
<1>9. Transaction(db, Upgrade3) = out
  <2>1. Script(a \o b) /\ Transaction(db, a \o b) = e BY <1>3, <1>4, Concat DEF d, e
  <2>2. Script((a \o b) \o c) /\ Transaction(db, (a \o b) \o c) = Transaction(e, c)
    BY <1>8, <2>1, Concat
  <2>3. Transaction(db, ((a \o b) \o c) \o CharIndex) = Transaction(Transaction(e, c), CharIndex)
    BY <1>8, <2>2, Concat
  <2> QED BY <1>2, <2>3
<1> HIDE DEF out
<1>10. Form(out, 4) /\ out.version = db.version BY <1>3, <1>5, <1>8 DEF Form
<1>11. Items(db) \subseteq Items(out)
  <2>1. Items(e) = Items(d) /\ Items(out) = Items(e) BY <1>5, <1>8, SameItems
  <2> QED BY <1>3, <2>1
<1>12. Names(db) \subseteq Names(out) /\ Shops(db) \subseteq Shops(out)
  <2>1. Names(d) = Names(db) /\ Shops(d) = Shops(db) BY <1>3, SameToons
  <2>2. Names(e) = Names(d) /\ Shops(e) = Shops(d) BY <1>5, SameToons
  <2> QED BY <1>8, <2>1, <2>2
<1> QED BY <1>9, <1>10, <1>11, <1>12 DEF Committed

\* A table of the scripts is there afterwards, the others are as they were.
LEMMA TableMade ==
    ASSUME NEW db, Sound(db), NEW t \in Tables, NEW cols, NEW key
    PROVE  LET out == Exec(db, CreateTable(t, cols, key))
           IN  /\ Sound(out) /\ out.indexes = db.indexes /\ out.version = db.version
               /\ \A u : u \in DOMAIN out.tables <=> u \in DOMAIN db.tables \/ u = t
               /\ \A u \in DOMAIN db.tables : out.tables[u] = db.tables[u]
               /\ t \notin DOMAIN db.tables => out.tables[t] = Table(cols, key, {})
<1> DEFINE out == Exec(db, CreateTable(t, cols, key))
           A == Table(cols, key, {})
           new == Db(WithEntry(db.tables, t, A), db.indexes, db.views, db.version)
<1>1. CASE t \in DOMAIN db.tables
  <2>1. out = db BY <1>1, ExecCreate
  <2> QED BY <1>1, <2>1
<1>2. CASE t \notin DOMAIN db.tables
  <2>1. out = new BY <1>2, ExecCreate
  <2>2. new.tables = WithEntry(db.tables, t, A) /\ new.indexes = db.indexes
        /\ new.version = db.version
    BY DEF Db
  <2>3. new # NoFile BY DbIsFile
  <2>4. A = Table(cols, key, {}) OBVIOUS
  <2> HIDE DEF new, out, A
  <2>5. \A u : u \in DOMAIN new.tables <=> u \in DOMAIN db.tables \/ u = t BY <2>2, EntryIn
  <2>6. new.tables[t] = A BY <2>2, EntryNew
  <2>7. \A u \in DOMAIN db.tables : new.tables[u] = db.tables[u] BY <1>2, <2>2, EntryOld
  <2>8. Sound(new) BY <2>2, <2>3, <2>5 DEF Sound
  <2> QED BY <2>1, <2>2, <2>4, <2>5, <2>6, <2>7, <2>8 DEF out
<1> QED BY <1>1, <1>2

\* The statistics get a table with an index.
LEMMA StatsMade ==
    ASSUME NEW db, Sound(db),
           "tToonStats" \in DOMAIN db.tables => db.tables["tToonStats"].cols = StatCols
    PROVE  LET out == Transaction(db, CreateStats)
           IN  /\ Script(CreateStats) /\ Sound(out) /\ out.version = db.version
               /\ \A u : u \in DOMAIN out.tables <=> u \in DOMAIN db.tables \/ u = "tToonStats"
               /\ \A u \in DOMAIN db.tables : out.tables[u] = db.tables[u]
               /\ out.tables["tToonStats"].cols = StatCols
               /\ \A n : n \in DOMAIN out.indexes <=> n \in DOMAIN db.indexes \/ n = "charstatindex"
<1> DEFINE d == Exec(db, CreateTable("tToonStats", StatCols, ""))
           e == Exec(d, CreateIndex("charstatindex", "tToonStats", ""))
           out == Transaction(db, CreateStats)
<1>1. Script(CreateStats) /\ out = e
  <2> DEFINE a == CreateTable("tToonStats", StatCols, "")
             b == CreateIndex("charstatindex", "tToonStats", "")
  <2>1. CreateStats = <<a, b>> BY DEF CreateStats
  <2>2. e = Exec(Exec(db, a), b) OBVIOUS
  <2> HIDE DEF a, b, d, e
  <2> QED BY <2>1, <2>2, Pair
<1>2. "tToonStats" \in Tables BY DEF Tables
<1>3. /\ Sound(d) /\ d.indexes = db.indexes /\ d.version = db.version
      /\ \A u : u \in DOMAIN d.tables <=> u \in DOMAIN db.tables \/ u = "tToonStats"
      /\ \A u \in DOMAIN db.tables : d.tables[u] = db.tables[u]
      /\ "tToonStats" \notin DOMAIN db.tables => d.tables["tToonStats"] = Table(StatCols, "", {})
  <2> DEFINE t == "tToonStats"
             key == ""
             cols == StatCols
             made == Exec(db, CreateTable(t, cols, key))
  <2>1. Sound(db) /\ t \in Tables BY <1>2
  <2>2. d = made OBVIOUS
  <2> HIDE DEF t, key, cols
  <2>3. /\ Sound(made) /\ made.indexes = db.indexes /\ made.version = db.version
        /\ \A u : u \in DOMAIN made.tables <=> u \in DOMAIN db.tables \/ u = t
        /\ \A u \in DOMAIN db.tables : made.tables[u] = db.tables[u]
        /\ t \notin DOMAIN db.tables => made.tables[t] = Table(cols, key, {})
    BY ONLY <2>1, TableMade
  <2> HIDE DEF d, made
  <2> QED BY ONLY <2>2, <2>3 DEF t, key, cols
<1>4. Table(StatCols, "", {}).cols = StatCols BY DEF Table
<1>5. d.tables["tToonStats"].cols = StatCols BY <1>3, <1>4
<1> HIDE DEF d
<1>6. SameTables(d, e) /\ Sound(e)
      /\ \A n : n \in DOMAIN e.indexes <=> n \in DOMAIN d.indexes \/ n = "charstatindex"
  <2>1. "charstatindex" \in IndexesOf(8) BY AllIndexes
  <2>2. "tToonStats" \in DOMAIN d.tables BY <1>3
  <2>3. Unique(d.tables["tToonStats"].rows, "") BY DEF Unique
  <2> QED BY <1>3, <2>1, <2>2, <2>3, IndexOfStats, IndexMade
<1> HIDE DEF e, out
<1>7. out.tables = d.tables /\ out.version = d.version BY <1>1, <1>6 DEF SameTables
<1> QED BY <1>1, <1>3, <1>5, <1>6, <1>7 DEF out

\* Where the tables of the characters and of the items stay, all that is kept is kept.
LEMMA SameKept ==
    ASSUME NEW db, NEW out, Same(db, out, "tToons"), Same(db, out, "tItems"),
           out.version = db.version, NEW k \in 4..6, Form(out, k + 1)
    PROVE  Committed(db, out, k)
BY SameToons, SameItems DEF Committed

\* An index of the items does not ask for anything to be unique.
LEMMA PlainIndexMade ==
    ASSUME NEW db, Sound(db), "tItems" \in DOMAIN db.tables,
           NEW i \in {"idx_titems_keylow", "idx_titems_owner", "idx_titems_parent"}
    PROVE  LET out == Exec(db, CreateIndex(i, "tItems", ""))
           IN  /\ SameTables(db, out) /\ Sound(out)
               /\ \A n : n \in DOMAIN out.indexes <=> n \in DOMAIN db.indexes \/ n = i
<1>1. i \in IndexesOf(8) BY AllIndexes
<1>2. Unique(db.tables["tItems"].rows, "") BY DEF Unique
<1>3. IndexAs(i) = [on |-> "tItems", unique |-> ""] BY DEF IndexAs
<1> QED BY <1>1, <1>2, <1>3, IndexMade

\* Scripts 4 to 6: the statistics and the indexes of the items.
LEMMA Script4 ==
    ASSUME NEW db, Form(db, 4)
    PROVE  Committed(db, Transaction(db, Upgrade4), 4)
<1> DEFINE out == Transaction(db, CreateStats)
<1>1. Sound(db) /\ Toons(db, 4) /\ Kit(db, 4) /\ Others(db, 4) BY DEF Form
<1>2. /\ Sound(out) /\ out.version = db.version
      /\ \A u : u \in DOMAIN out.tables <=> u \in DOMAIN db.tables \/ u = "tToonStats"
      /\ \A u \in DOMAIN db.tables : out.tables[u] = db.tables[u]
      /\ out.tables["tToonStats"].cols = StatCols
      /\ \A n : n \in DOMAIN out.indexes <=> n \in DOMAIN db.indexes \/ n = "charstatindex"
  <2>1. "tToonStats" \in DOMAIN db.tables => db.tables["tToonStats"].cols = StatCols
    BY <1>1 DEF Others
  <2> QED BY <1>1, <2>1, StatsMade
<1> HIDE DEF out
<1>3. Same(db, out, "tToons") /\ Same(db, out, "tItems") BY <1>2 DEF Same
<1>4. Toons(out, 5)
  <2>1. 4 \in {4, 5, 6} /\ 4 + 1 = 5 OBVIOUS
  <2>2. Toons(db, 5) BY <1>1, <2>1, ToonsNext
  <2> QED BY <1>2, <1>3, <2>2 DEF Toons, Same
<1>5. Kit(out, 5)
  <2>1. 4 \in 0..7 /\ 4 # 3 /\ 4 + 1 = 5 OBVIOUS
  <2>2. Kit(db, 5) BY <1>1, <2>1, KitNext
  <2> QED BY <1>3, <2>2 DEF Kit, Same
<1>6. Others(out, 5)
  <2>1. IndexesOf(5) \ {"iCharId"} = {"charstatindex"} BY DEF IndexesOf
  <2> QED BY <1>2, <2>1 DEF Others
<1>7. Form(out, 4 + 1) BY <1>2, <1>4, <1>5, <1>6 DEF Form
<1>8. Committed(db, out, 4)
  <2>1. 4 \in 4..6 OBVIOUS
  <2> QED BY <1>2, <1>3, <1>7, <2>1, SameKept
<1> QED BY <1>8 DEF out, Upgrade4

\* The script to version 6 adds an index on tItems.
LEMMA Script5 ==
    ASSUME NEW db, Form(db, 5)
    PROVE  Committed(db, Transaction(db, Upgrade5), 5)
<1> DEFINE out == Exec(db, CreateIndex("idx_titems_keylow", "tItems", ""))
<1>1. Sound(db) /\ Toons(db, 5) /\ Kit(db, 5) /\ Others(db, 5) BY DEF Form
<1>2. SameTables(db, out) /\ Sound(out)
      /\ \A n : n \in DOMAIN out.indexes <=> n \in DOMAIN db.indexes \/ n = "idx_titems_keylow"
  <2>1. "tItems" \in DOMAIN db.tables BY <1>1 DEF Kit
  <2> QED BY <1>1, <2>1, PlainIndexMade
<1>3. Transaction(db, Upgrade5) = out BY Single DEF Upgrade5
<1> HIDE DEF out
<1>4. Same(db, out, "tToons") /\ Same(db, out, "tItems") BY <1>2 DEF Same, SameTables
<1>5. Toons(out, 6)
  <2>1. 5 \in {4, 5, 6} /\ 5 + 1 = 6 OBVIOUS
  <2>2. Toons(db, 6) BY <1>1, <2>1, ToonsNext
  <2> QED BY <1>2, <1>4, <2>2 DEF Toons, Same
<1>6. Kit(out, 6)
  <2>1. 5 \in 0..7 /\ 5 # 3 /\ 5 + 1 = 6 OBVIOUS
  <2>2. Kit(db, 6) BY <1>1, <2>1, KitNext
  <2> QED BY <1>4, <2>2 DEF Kit, Same
<1>7. Others(out, 6)
  <2>1. IndexesOf(5) \ {"iCharId"} = {"charstatindex"}
        /\ IndexesOf(6) \ {"iCharId"} = {"charstatindex", "idx_titems_keylow"}
    BY DEF IndexesOf
  <2> QED BY <1>1, <1>2, <2>1 DEF Others, SameTables
<1>8. Form(out, 5 + 1) BY <1>2, <1>5, <1>6, <1>7 DEF Form
<1>9. Committed(db, out, 5)
  <2>1. 5 \in 4..6 /\ out.version = db.version BY <1>2 DEF SameTables
  <2> QED BY <1>4, <1>8, <2>1, SameKept
<1> QED BY <1>3, <1>9

\* The script to version 7 replaces the two old indexes of tItems.
LEMMA Script6 ==
    ASSUME NEW db, Form(db, 6)
    PROVE  Committed(db, Transaction(db, Upgrade6), 6)
<1> DEFINE d == Exec(db, DropIndex("iOwner"))
           e == Exec(d, DropIndex("iParent"))
           f == Exec(e, CreateIndex("idx_titems_owner", "tItems", ""))
           out == Exec(f, CreateIndex("idx_titems_parent", "tItems", ""))
<1>1. Sound(db) /\ Toons(db, 6) /\ Kit(db, 6) /\ Others(db, 6) BY DEF Form
<1>2. Transaction(db, Upgrade6) = out
  <2> DEFINE s == DropIndex("iOwner")
             t == DropIndex("iParent")
             u == CreateIndex("idx_titems_owner", "tItems", "")
             v == CreateIndex("idx_titems_parent", "tItems", "")
  <2>1. Upgrade6 = <<s, t, u, v>> BY DEF Upgrade6
  <2>2. out = Exec(Exec(Exec(Exec(db, s), t), u), v) OBVIOUS
  <2> HIDE DEF s, t, u, v, d, e, f, out
  <2> QED BY <2>1, <2>2, Four
<1>3. "tItems" \in DOMAIN db.tables BY <1>1 DEF Kit
<1>4. SameTables(db, d) /\ Sound(d)
      /\ \A n : n \in DOMAIN d.indexes <=> n \in DOMAIN db.indexes /\ n # "iOwner"
  BY <1>1, IndexDropped
<1> HIDE DEF d
<1>5. SameTables(d, e) /\ Sound(e)
      /\ \A n : n \in DOMAIN e.indexes <=> n \in DOMAIN d.indexes /\ n # "iParent"
  BY <1>4, IndexDropped
<1> HIDE DEF e
<1>6. SameTables(e, f) /\ Sound(f)
      /\ \A n : n \in DOMAIN f.indexes <=> n \in DOMAIN e.indexes \/ n = "idx_titems_owner"
  <2>1. "tItems" \in DOMAIN e.tables BY <1>3, <1>4, <1>5 DEF SameTables
  <2> QED BY <1>5, <2>1, PlainIndexMade
<1> HIDE DEF f
<1>7. SameTables(f, out) /\ Sound(out)
      /\ \A n : n \in DOMAIN out.indexes <=> n \in DOMAIN f.indexes \/ n = "idx_titems_parent"
  <2>1. "tItems" \in DOMAIN f.tables BY <1>3, <1>4, <1>5, <1>6 DEF SameTables
  <2> QED BY <1>6, <2>1, PlainIndexMade
<1> HIDE DEF out
<1>8. SameTables(db, out) BY <1>4, <1>5, <1>6, <1>7 DEF SameTables
<1>9. \A n : n \in DOMAIN out.indexes <=>
               (n \in DOMAIN db.indexes /\ n \notin OldIndexes)
               \/ n \in {"idx_titems_owner", "idx_titems_parent"}
  BY <1>4, <1>5, <1>6, <1>7 DEF OldIndexes
<1>10. Same(db, out, "tToons") /\ Same(db, out, "tItems") BY <1>8 DEF Same, SameTables
<1>11. Toons(out, 7)
  <2>1. 6 \in {4, 5, 6} /\ 6 + 1 = 7 OBVIOUS
  <2>2. Toons(db, 7) BY <1>1, <2>1, ToonsNext
  <2>3. "iCharId" \notin OldIndexes BY DEF OldIndexes
  <2> QED BY <1>9, <1>10, <2>2, <2>3 DEF Toons, Same
<1>12. Kit(out, 7)
  <2>1. 6 \in 0..7 /\ 6 # 3 /\ 6 + 1 = 7 OBVIOUS
  <2>2. Kit(db, 7) BY <1>1, <2>1, KitNext
  <2> QED BY <1>10, <2>2 DEF Kit, Same
<1>13. Others(out, 7)
  <2>1. IndexesOf(6) \ {"iCharId"} = {"charstatindex", "idx_titems_keylow"}
        /\ IndexesOf(7) \ {"iCharId"} =
             {"charstatindex", "idx_titems_keylow", "idx_titems_owner", "idx_titems_parent"}
    BY DEF IndexesOf
  <2>2. IndexesOf(7) \ {"iCharId"} \subseteq DOMAIN out.indexes
    <3>1. "charstatindex" \in DOMAIN db.indexes /\ "idx_titems_keylow" \in DOMAIN db.indexes
      BY <1>1, <2>1 DEF Others
    <3>2. "charstatindex" \notin OldIndexes /\ "idx_titems_keylow" \notin OldIndexes BY DEF OldIndexes
    <3> QED BY <1>9, <2>1, <3>1, <3>2
  <2>3. OldIndexes \cap DOMAIN out.indexes = {}
    <3>1. "idx_titems_owner" \notin OldIndexes /\ "idx_titems_parent" \notin OldIndexes BY DEF OldIndexes
    <3> QED BY <1>9, <3>1
  <2>4. /\ "tToonStats" \in DOMAIN out.tables
        /\ out.tables["tToonStats"].cols = StatCols
    BY <1>1, <1>8 DEF Others, SameTables
  <2> QED BY <2>2, <2>3, <2>4 DEF Others
<1>14. Form(out, 6 + 1) BY <1>7, <1>11, <1>12, <1>13 DEF Form
<1>15. Committed(db, out, 6)
  <2>1. 6 \in 4..6 /\ out.version = db.version BY <1>8 DEF SameTables
  <2> QED BY <1>10, <1>14, <2>1, SameKept
<1> QED BY <1>2, <1>15

\* The servers go.
LEMMA ServersGone ==
    ASSUME NEW db, Form(db, 7)
    PROVE  LET out == Exec(db, DropTable("tDimensions"))
           IN  /\ Sound(out) /\ Toons(out, 7) /\ Kit(out, 8) /\ Others(out, 8)
               /\ out.version = db.version /\ Same(db, out, "tToons") /\ Same(db, out, "tItems")
<1> DEFINE out == Exec(db, DropTable("tDimensions"))
           T == Without(db.tables, {"tDimensions"})
           J == Without(db.indexes, OnTable(db, "tDimensions"))
           new == Db(T, J, db.views, db.version)
<1>1. Sound(db) /\ Toons(db, 7) /\ Kit(db, 7) /\ Others(db, 7) BY DEF Form
<1>2. OnTable(db, "tDimensions") = {}
  <2>1. \A i : IndexAs(i).on # "tDimensions" BY DEF IndexAs
  <2> QED BY <1>1, <2>1 DEF OnTable, Sound
<1>3. /\ \A i : i \in DOMAIN J <=> i \in DOMAIN db.indexes
      /\ \A i \in DOMAIN J : J[i] = db.indexes[i]
  BY <1>2 DEF Without
<1>4. /\ \A t : t \in DOMAIN T <=> t \in DOMAIN db.tables /\ t # "tDimensions"
      /\ \A t \in DOMAIN T : T[t] = db.tables[t]
  BY DEF Without
<1>5. out = new \/ (out = db /\ "tDimensions" \notin DOMAIN db.tables) BY ExecDrop
<1> HIDE DEF T, J
<1>6. new.tables = T /\ new.indexes = J /\ new.version = db.version BY DEF Db
<1>7. new # NoFile BY DbIsFile
<1> HIDE DEF new, out
<1>8. /\ out # NoFile /\ out.version = db.version
      /\ \A t : t \in DOMAIN out.tables <=> t \in DOMAIN db.tables /\ t # "tDimensions"
      /\ \A t \in DOMAIN out.tables : out.tables[t] = db.tables[t]
  BY <1>1, <1>4, <1>5, <1>6, <1>7 DEF Sound
<1>9. /\ \A i : i \in DOMAIN out.indexes <=> i \in DOMAIN db.indexes
      /\ \A i \in DOMAIN out.indexes : out.indexes[i] = db.indexes[i]
  BY <1>3, <1>5, <1>6
<1>10. Sound(out)
  <2>1. \A i : IndexAs(i).on # "tDimensions" BY DEF IndexAs
  <2> QED BY <1>1, <1>8, <1>9, <2>1 DEF Sound
<1>11. Same(db, out, "tToons") /\ Same(db, out, "tItems") BY <1>8 DEF Same
<1>12. Toons(out, 7) BY <1>1, <1>9, <1>11 DEF Toons, Same
<1>13. Kit(out, 8)
  <2>1. 7 \in 0..7 /\ 7 # 3 /\ 7 + 1 = 8 OBVIOUS
  <2>2. Kit(db, 8) BY <1>1, <2>1, KitNext
  <2> QED BY <1>11, <2>2 DEF Kit, Same
<1>14. Others(out, 8)
  <2>1. IndexesOf(8) = IndexesOf(7) BY DEF IndexesOf
  <2> QED BY <1>1, <1>8, <1>9, <2>1 DEF Others
<1> QED BY <1>8, <1>10, <1>11, <1>12, <1>13, <1>14 DEF out

\* Script 7: the servers and the server of a character go.
LEMMA Script7 ==
    ASSUME NEW db, Form(db, 7)
    PROVE  Committed(db, Transaction(db, Upgrade7), 7)
<1> DEFINE a == << DropTable("tDimensions") >>
           c == Rebuild("tToons", "tToons2", ToonCols(8), "charid", ShopCols)
           d == Exec(db, DropTable("tDimensions"))
           out == Transaction(Transaction(d, c), CharIndex)
<1>1. ToonCols(8) = ShopCols BY DEF ToonCols
<1>2. Upgrade7 = (a \o c) \o CharIndex BY <1>1 DEF Upgrade7
<1>3. Script(a) /\ Transaction(db, a) = d BY Single
<1>4. /\ Sound(d) /\ Toons(d, 7) /\ Kit(d, 8) /\ Others(d, 8)
      /\ d.version = db.version /\ Same(db, d, "tToons") /\ Same(db, d, "tItems")
  BY ServersGone
<1> HIDE DEF a, d
<1>5. /\ "tToons" \in DOMAIN d.tables /\ Unique(d.tables["tToons"].rows, "charid")
      /\ ShopCols \subseteq d.tables["tToons"].cols
  BY <1>4, ShopsFrom3 DEF Toons
<1>6. 8 \in 2..8 /\ 8 \in 0..8 /\ ShopCols \subseteq ToonCols(8) /\ NameCols \subseteq ShopCols
  BY <1>1 DEF ShopCols
<1>7. /\ Script(c) /\ Script(CharIndex)
      /\ Sound(out) /\ Toons(out, 8) /\ Kit(out, 8) /\ Others(out, 8)
      /\ out.version = d.version /\ Same(d, out, "tItems")
      /\ Names(d) \subseteq Names(out) /\ Shops(d) \subseteq Shops(out)
  BY <1>4, <1>5, <1>6, ToonsOfVersion
<1> HIDE DEF c
<1>8. Transaction(db, Upgrade7) = out
  <2>1. Script(a \o c) /\ Transaction(db, a \o c) = Transaction(d, c) BY <1>3, <1>7, Concat
  <2>2. Transaction(db, (a \o c) \o CharIndex) = Transaction(Transaction(d, c), CharIndex)
    BY <1>7, <2>1, Concat
  <2> QED BY <1>2, <2>2
<1> HIDE DEF out
<1>9. Form(out, 7 + 1) /\ out.version = db.version BY <1>4, <1>7 DEF Form
<1>10. Items(out) = Items(db) /\ Flags(out) = Flags(db) BY <1>4, <1>7, SameItems
<1>11. Names(db) \subseteq Names(out) /\ Shops(db) \subseteq Shops(out) BY <1>4, <1>7, SameToons
<1> QED BY <1>8, <1>9, <1>10, <1>11 DEF Committed

\* Each of the eight scripts, committed as a whole.
LEMMA ScriptDone ==
    ASSUME NEW k \in 0..7, NEW db, Form(db, k)
    PROVE  Committed(db, Transaction(db, Upgrade[k + 1]), k)
<1>1. /\ Upgrade[1] = Upgrade0 /\ Upgrade[2] = Upgrade1 /\ Upgrade[3] = Upgrade2
      /\ Upgrade[4] = Upgrade3 /\ Upgrade[5] = Upgrade4 /\ Upgrade[6] = Upgrade5
      /\ Upgrade[7] = Upgrade6 /\ Upgrade[8] = Upgrade7
  BY DEF Upgrade
<1>2. CASE k = 0
  <2>1. k + 1 = 1 BY <1>2
  <2> QED BY <1>1, <1>2, <2>1, Script0
<1>3. CASE k = 1
  <2>1. k + 1 = 2 BY <1>3
  <2> QED BY <1>1, <1>3, <2>1, Script1
<1>4. CASE k = 2
  <2>1. k + 1 = 3 BY <1>4
  <2> QED BY <1>1, <1>4, <2>1, Script2
<1>5. CASE k = 3
  <2>1. k + 1 = 4 BY <1>5
  <2> QED BY <1>1, <1>5, <2>1, Script3
<1>6. CASE k = 4
  <2>1. k + 1 = 5 BY <1>6
  <2> QED BY <1>1, <1>6, <2>1, Script4
<1>7. CASE k = 5
  <2>1. k + 1 = 6 BY <1>7
  <2> QED BY <1>1, <1>7, <2>1, Script5
<1>8. CASE k = 6
  <2>1. k + 1 = 7 BY <1>8
  <2> QED BY <1>1, <1>8, <2>1, Script6
<1>9. CASE k = 7
  <2>1. k + 1 = 8 BY <1>9
  <2> QED BY <1>1, <1>9, <2>1, Script7
<1> QED BY <1>2, <1>3, <1>4, <1>5, <1>6, <1>7, <1>8, <1>9

\* The version is written without a transaction: the view is dropped, then made.
LEMMA VersionSet ==
    ASSUME NEW db, Sound(db), NEW v, v = 0 \/ db.version = 0
    PROVE  LET out == Transaction(db, << SetVersion(v) >>)
           IN  /\ Script(<< SetVersion(v) >>)
               /\ out # NoFile /\ out.tables = db.tables /\ out.indexes = db.indexes
               /\ out.version = v
<1> DEFINE out == Transaction(db, << SetVersion(v) >>)
           new == Db(db.tables, db.indexes, db.views, v)
<1>1. Script(<< SetVersion(v) >>) /\ out = Exec(db, SetVersion(v)) BY Single
<1>2. Exec(db, SetVersion(v)) = new BY ExecVersion
<1>3. new.tables = db.tables /\ new.indexes = db.indexes /\ new.version = v BY DEF Db
<1>4. new # NoFile BY DbIsFile
<1> HIDE DEF new, out
<1> QED BY <1>1, <1>2, <1>3, <1>4 DEF out

\* What a database has does not depend on the version written in it.
LEMMA OtherVersion ==
    ASSUME NEW db, NEW out, out # NoFile, out.tables = db.tables, out.indexes = db.indexes,
           NEW k, Form(db, k)
    PROVE  /\ Form(out, k)
           /\ Same(db, out, "tToons") /\ Same(db, out, "tItems")
BY DEF Form, Sound, Toons, Kit, Others, Same

\* A script of eight statements.
LEMMA Eight ==
    ASSUME NEW db, NEW s, NEW t, NEW u, NEW v, NEW w, NEW x, NEW y, NEW z
    PROVE  /\ Script(<<s, t, u, v, w, x, y, z>>)
           /\ Transaction(db, <<s, t, u, v, w, x, y, z>>)
                = Exec(Exec(Exec(Exec(Exec(Exec(Exec(Exec(db, s), t), u), v), w), x), y), z)
<1> DEFINE a == <<s, t, u, v, w, x, y, z>>
<1>1. Len(a) = 8 /\ a[1] = s /\ a[2] = t /\ a[3] = u /\ a[4] = v /\ a[5] = w /\ a[6] = x
      /\ a[7] = y /\ a[8] = z /\ DOMAIN a = 1..8
  OBVIOUS
<1>2. a \in Seq({s, t, u, v, w, x, y, z}) OBVIOUS
<1> HIDE DEF a
<1>3. Script(a)
  <2>1. {s, t, u, v, w, x, y, z} \subseteq {a[n] : n \in DOMAIN a} BY <1>1
  <2> QED BY <1>2, <2>1 DEF Script
<1>4. PICK g : Run(g, db, a, 8) /\ Transaction(db, a) = g[8]
  <2>1. Len(a) = 8 /\ 8 \in Nat BY <1>1
  <2> QED BY ONLY <2>1, Runs
<1>5. g[0] = db /\ \A n \in 1..8 : g[n] = Exec(g[n - 1], a[n]) BY <1>4 DEF Run
<1>6. /\ g[1] = Exec(db, s) /\ g[2] = Exec(g[1], t) /\ g[3] = Exec(g[2], u)
      /\ g[4] = Exec(g[3], v) /\ g[5] = Exec(g[4], w) /\ g[6] = Exec(g[5], x)
      /\ g[7] = Exec(g[6], y) /\ g[8] = Exec(g[7], z)
  BY <1>1, <1>5
<1> QED BY <1>3, <1>4, <1>6 DEF a

\* A view is not part of the form.
LEMMA ViewMade ==
    ASSUME NEW db, Sound(db), NEW name
    PROVE  LET out == Exec(db, CreateView(name))
           IN  SameTables(db, out) /\ Sound(out) /\ out.indexes = db.indexes
<1> DEFINE out == Exec(db, CreateView(name))
           new(views) == Db(db.tables, db.indexes, views, db.version)
<1>1. out = db \/ \E views : out = new(views) BY ExecView
<1>2. ASSUME NEW views
      PROVE  /\ new(views).tables = db.tables /\ new(views).indexes = db.indexes
             /\ new(views).version = db.version /\ new(views) # NoFile
  BY DbIsFile DEF Db
<1> HIDE DEF new
<1>3. /\ out # NoFile /\ out.tables = db.tables /\ out.indexes = db.indexes
      /\ out.version = db.version
  BY <1>1, <1>2 DEF Sound
<1> HIDE DEF out
<1>4. SameTables(db, out) /\ Sound(out) /\ out.indexes = db.indexes
  BY <1>3 DEF SameTables, Sound
<1> QED BY <1>4 DEF out

\* The new database has everything and the current version.
LEMMA SchemeCreated ==
    Form(Transaction(EmptyDb, CreateScheme), 8) /\ Transaction(EmptyDb, CreateScheme).version = 8
<1> DEFINE s1 == CreateTable("tItems", ItemCols, "itemidx")
           s2 == CreateIndex("idx_titems_keylow", "tItems", "")
           s3 == CreateIndex("idx_titems_owner", "tItems", "")
           s4 == CreateIndex("idx_titems_parent", "tItems", "")
           s5 == CreateView("vBankItems")
           s6 == CreateView("vContainers")
           s7 == CreateView("vInvItems")
           s8 == CreateTable("tToons", ShopCols, "charid")
           a == <<s1, s2, s3, s4, s5, s6, s7, s8>>
           d1 == Exec(EmptyDb, s1)
           d2 == Exec(d1, s2)
           d3 == Exec(d2, s3)
           d4 == Exec(d3, s4)
           d5 == Exec(d4, s5)
           d6 == Exec(d5, s6)
           d7 == Exec(d6, s7)
           d8 == Exec(d7, s8)
           d9 == Transaction(d8, CharIndex)
           d10 == Transaction(d9, CreateStats)
           out == Transaction(d10, << SetVersion(8) >>)
<1>1. CreateScheme = ((a \o CharIndex) \o CreateStats) \o << SetVersion(8) >>
  BY DEF CreateScheme, CURRENT_DB_VERSION
<1>2. /\ d1 = Exec(EmptyDb, CreateTable("tItems", ItemCols, "itemidx"))
      /\ d2 = Exec(d1, CreateIndex("idx_titems_keylow", "tItems", ""))
      /\ d3 = Exec(d2, CreateIndex("idx_titems_owner", "tItems", ""))
      /\ d4 = Exec(d3, CreateIndex("idx_titems_parent", "tItems", ""))
      /\ d5 = Exec(d4, CreateView("vBankItems"))
      /\ d6 = Exec(d5, CreateView("vContainers"))
      /\ d7 = Exec(d6, CreateView("vInvItems"))
      /\ d8 = Exec(d7, CreateTable("tToons", ShopCols, "charid"))
  OBVIOUS
<1> HIDE DEF s1, s2, s3, s4, s5, s6, s7, s8
<1>3. Script(a) /\ Transaction(EmptyDb, a) = d8 BY Eight
<1> HIDE DEF a, d1, d2, d3, d4, d5, d6, d7, d8
<1>4. /\ Sound(EmptyDb) /\ EmptyDb.version = 0
      /\ DOMAIN EmptyDb.tables = {} /\ DOMAIN EmptyDb.indexes = {}
  <2>1. EmptyDb.tables = <<>> /\ EmptyDb.indexes = <<>> /\ EmptyDb.version = 0 BY DEF EmptyDb, Db
  <2>2. DOMAIN <<>> = {} OBVIOUS
  <2>3. Sound(EmptyDb) BY EmptyForm DEF Form
  <2> QED BY <2>1, <2>2, <2>3
<1>5. "tItems" \in Tables /\ "tToons" \in Tables BY DEF Tables
<1>6. /\ Sound(d1) /\ d1.indexes = EmptyDb.indexes /\ d1.version = EmptyDb.version
      /\ \A u : u \in DOMAIN d1.tables <=> u \in DOMAIN EmptyDb.tables \/ u = "tItems"
      /\ d1.tables["tItems"] = Table(ItemCols, "itemidx", {})
  <2>1. d1 = Exec(EmptyDb, CreateTable("tItems", ItemCols, "itemidx")) BY <1>2
  <2>2. "tItems" \notin DOMAIN EmptyDb.tables /\ Sound(EmptyDb) BY <1>4
  <2> QED BY <1>5, <2>1, <2>2, TableMade
<1>7. "tItems" \in DOMAIN d1.tables BY <1>6
<1>8. SameTables(d1, d2) /\ Sound(d2)
      /\ \A n : n \in DOMAIN d2.indexes <=> n \in DOMAIN d1.indexes \/ n = "idx_titems_keylow"
  BY <1>2, <1>6, <1>7, PlainIndexMade
<1>9. SameTables(d2, d3) /\ Sound(d3)
      /\ \A n : n \in DOMAIN d3.indexes <=> n \in DOMAIN d2.indexes \/ n = "idx_titems_owner"
  <2>1. "tItems" \in DOMAIN d2.tables BY <1>7, <1>8 DEF SameTables
  <2> QED BY <1>2, <1>8, <2>1, PlainIndexMade
<1>10. SameTables(d3, d4) /\ Sound(d4)
      /\ \A n : n \in DOMAIN d4.indexes <=> n \in DOMAIN d3.indexes \/ n = "idx_titems_parent"
  <2>1. "tItems" \in DOMAIN d3.tables BY <1>7, <1>8, <1>9 DEF SameTables
  <2> QED BY <1>2, <1>9, <2>1, PlainIndexMade
<1>11. SameTables(d4, d5) /\ Sound(d5) /\ d5.indexes = d4.indexes BY <1>2, <1>10, ViewMade
<1>12. SameTables(d5, d6) /\ Sound(d6) /\ d6.indexes = d5.indexes BY <1>2, <1>11, ViewMade
<1>13. SameTables(d6, d7) /\ Sound(d7) /\ d7.indexes = d6.indexes BY <1>2, <1>12, ViewMade
<1>14. SameTables(d1, d7)
  BY <1>8, <1>9, <1>10, <1>11, <1>12, <1>13 DEF SameTables
<1>15. \A n : n \in DOMAIN d7.indexes <=>
                 n \in {"idx_titems_keylow", "idx_titems_owner", "idx_titems_parent"}
  <2>1. \A n : n \notin DOMAIN d1.indexes BY <1>4, <1>6
  <2>2. DOMAIN d7.indexes = DOMAIN d4.indexes BY <1>11, <1>12, <1>13
  <2>3. \A n : n \in DOMAIN d3.indexes <=> n \in {"idx_titems_keylow", "idx_titems_owner"}
    BY <1>8, <1>9, <2>1
  <2> QED BY <1>10, <2>2, <2>3
<1>16. DOMAIN d7.tables = {"tItems"} BY <1>4, <1>6, <1>14 DEF SameTables
<1>17. /\ Sound(d8) /\ d8.indexes = d7.indexes /\ d8.version = d7.version
       /\ \A u : u \in DOMAIN d8.tables <=> u \in DOMAIN d7.tables \/ u = "tToons"
       /\ d8.tables["tItems"] = d7.tables["tItems"]
       /\ d8.tables["tToons"] = Table(ShopCols, "charid", {})
  <2>1. "tToons" \notin DOMAIN d7.tables /\ "tItems" \in DOMAIN d7.tables BY <1>16
  <2>2. d8 = Exec(d7, CreateTable("tToons", ShopCols, "charid")) BY <1>2
  <2>3. Sound(d7) BY <1>13
  <2> QED BY <1>5, <2>1, <2>2, <2>3, TableMade
<1>18. Script(CharIndex) /\ d9 = Exec(d8, CreateIndex("iCharId", "tToons", "charid"))
  BY Single DEF CharIndex
<1>19. SameTables(d8, d9) /\ Sound(d9)
       /\ \A n : n \in DOMAIN d9.indexes <=> n \in DOMAIN d8.indexes \/ n = "iCharId"
  <2>1. "iCharId" \in IndexesOf(8) BY AllIndexes
  <2>2. "tToons" \in DOMAIN d8.tables BY <1>17
  <2>3. Unique(d8.tables["tToons"].rows, "charid")
    <3>1. d8.tables["tToons"].rows = {} BY <1>17 DEF Table
    <3>2. Unique({}, "charid") BY DEF Unique
    <3> QED BY <3>1, <3>2
  <2> HIDE DEF d9
  <2> QED BY <1>17, <1>18, <2>1, <2>2, <2>3, IndexOfToons, IndexMade
<1>20. /\ Script(CreateStats) /\ Sound(d10) /\ d10.version = d9.version
       /\ \A u : u \in DOMAIN d10.tables <=> u \in DOMAIN d9.tables \/ u = "tToonStats"
       /\ \A u \in DOMAIN d9.tables : d10.tables[u] = d9.tables[u]
       /\ d10.tables["tToonStats"].cols = StatCols
       /\ \A n : n \in DOMAIN d10.indexes <=> n \in DOMAIN d9.indexes \/ n = "charstatindex"
  <2> HIDE DEF d9
  <2>1. "tToonStats" \notin DOMAIN d9.tables BY <1>16, <1>17, <1>19 DEF SameTables
  <2> QED BY <1>19, <2>1, StatsMade
<1>21. Script(<< SetVersion(8) >>) BY Single
<1>22. Transaction(EmptyDb, CreateScheme) = out
  <2>1. Script(a \o CharIndex) /\ Transaction(EmptyDb, a \o CharIndex) = d9
    BY <1>3, <1>18, Concat
  <2> HIDE DEF d9
  <2>2. Script((a \o CharIndex) \o CreateStats)
        /\ Transaction(EmptyDb, (a \o CharIndex) \o CreateStats) = d10
    BY <1>20, <2>1, Concat
  <2> HIDE DEF d10
  <2> QED BY <1>1, <1>21, <2>2, Concat
<1> HIDE DEF d9, d10
<1>23. out # NoFile /\ out.tables = d10.tables /\ out.indexes = d10.indexes /\ out.version = 8
  <2>1. d10.version = 0 BY <1>4, <1>6, <1>14, <1>17, <1>19, <1>20 DEF SameTables
  <2> QED BY <1>20, <2>1, VersionSet
<1> HIDE DEF out
<1>24. Form(d10, 8)
  <2>1. /\ DOMAIN d10.tables = {"tItems", "tToons", "tToonStats"}
        /\ d10.tables["tItems"] = Table(ItemCols, "itemidx", {})
        /\ d10.tables["tToons"] = Table(ShopCols, "charid", {})
    BY <1>6, <1>14, <1>16, <1>17, <1>19, <1>20 DEF SameTables
  <2>2. 8 \in 8..8 /\ ToonCols(8) = ShopCols /\ ToonKey(8) = "charid" /\ ItemColsOf(8) = ItemCols
    BY DEF ToonCols, ToonKey, ItemColsOf
  <2>3. Unique({}, "charid") /\ Unique({}, "itemidx") BY DEF Unique
  <2>4. /\ Table(ItemCols, "itemidx", {}).cols = ItemCols
        /\ Table(ItemCols, "itemidx", {}).key = "itemidx"
        /\ Table(ItemCols, "itemidx", {}).rows = {}
        /\ Table(ShopCols, "charid", {}).cols = ShopCols
        /\ Table(ShopCols, "charid", {}).key = "charid"
        /\ Table(ShopCols, "charid", {}).rows = {}
    BY DEF Table
  <2>5. DOMAIN d10.indexes = IndexesOf(8) BY <1>15, <1>17, <1>19, <1>20, AllIndexes
  <2>6. Toons(d10, 8)
    <3>1. "iCharId" \in DOMAIN d10.indexes BY <2>5, AllIndexes
    <3> QED BY <2>1, <2>2, <2>3, <2>4, <3>1 DEF Toons
  <2>7. Kit(d10, 8) BY <2>1, <2>2, <2>3, <2>4 DEF Kit
  <2>8. Others(d10, 8)
    <3>1. OldIndexes \cap IndexesOf(8) = {} BY AllIndexes DEF OldIndexes
    <3>2. IndexesOf(8) \ {"iCharId"} \subseteq DOMAIN d10.indexes BY <2>5
    <3> QED BY <1>20, <2>1, <2>5, <3>1, <3>2 DEF Others
  <2> QED BY <1>20, <2>6, <2>7, <2>8 DEF Form
<1> QED BY <1>22, <1>23, <1>24, OtherVersion

-----------------------------------------------------------------------------
(* The database of the user.                                               *)

\* Until then it has not been opened.
Before == {"off", "stuck", "folder", "prefs", "db"}

\* It has the form of the version it says, or comes from a later program.
UserKnown ==
    \/ user = NoFile
    \/ user.version \in Nat /\ user.version > 8
    \/ user.version \in 0..8 /\ Form(user, user.version)

\* How far it has been brought.
Upgraded ==
    /\ user = NoFile => app.pc \in Before
    /\ At("create") => user = EmptyDb /\ seen.user = NoFile
    /\ At("upgrade") =>
          \/ /\ app.up \in 1..9 /\ user.version \in 0..8 /\ user.version < app.up
             /\ Form(user, app.up - 1)
          \/ app.up = 10 /\ user.version = 0 /\ Form(user, 8)
    /\ app.pc \notin Before \cup {"create", "version", "upgrade"} => user.version = 8

\* What the user had at first: an old version has no shops, and no flags.
HadAtFirst ==
    seen.user # NoFile =>
       /\ seen.user.version \in Nat
       /\ seen.user.version < 3 => Shops(seen.user) = {}
       /\ seen.user.version < 4 => Flags(seen.user) = {}

\* The version that is written is lost between the last two statements only.
VersionKept ==
    seen.user # NoFile /\ ~ seen.viewLost =>
       /\ user.version >= seen.user.version \/ (At("upgrade") /\ app.up = 10)
       /\ At("upgrade") => seen.user.version < app.up /\ seen.user.version < 8

\* Characters that differ at first differ ever after.
StaysDistinct == seen.user # NoFile /\ NoDouble(seen.user) => NoDouble(user)

UserInv ==
    UserKnown /\ Upgraded /\ HadAtFirst /\ VersionKept /\ StaysDistinct /\ DataSurvives

\* A database that may be there at first.
LEMMA KnownForm ==
    ASSUME NEW db, KnownUser(db), db # NoFile
    PROVE  /\ db.version \in Nat
           /\ db.version > 8 \/ (db.version \in 0..8 /\ Form(db, db.version))
           /\ db.version < 3 => Shops(db) = {}
           /\ db.version < 4 => Flags(db) = {}
<1>1. CASE db = EmptyDb
  <2>1. EmptyDb.version = 0 /\ EmptyDb.tables = <<>> BY DEF EmptyDb, Db
  <2>2. DOMAIN <<>> = {} OBVIOUS
  <2>3. Shops(db) = {} /\ Flags(db) = {} BY <1>1, <2>1, <2>2 DEF Shops, Flags
  <2> QED BY <1>1, <2>1, <2>3, EmptyForm
<1>2. CASE \E v \in 0..8 : OfVersion(db, v)
  <2>1. PICK v \in 0..8 : OfVersion(db, v) BY <1>2
  <2>2. db.version = v /\ Form(db, v) BY <2>1, VersionForm DEF OfVersion
  <2>3. v < 3 => Shops(db) = {}
    <3> SUFFICES ASSUME v < 3 PROVE Shops(db) = {} OBVIOUS
    <3>1. v <= 2 OBVIOUS
    <3>2. db.tables["tToons"].cols = NameCols BY <2>1, <3>1 DEF OfVersion, ToonCols
    <3> QED BY <3>2 DEF Shops, NameCols
  <2>4. v < 4 => Flags(db) = {}
    <3> SUFFICES ASSUME v < 4 PROVE Flags(db) = {} OBVIOUS
    <3>1. v <= 3 OBVIOUS
    <3>2. db.tables["tItems"].cols = PlainItemCols BY <2>1, <3>1 DEF OfVersion, ItemColsOf
    <3> QED BY <3>2 DEF Flags, PlainItemCols
  <2> QED BY <2>2, <2>3, <2>4
<1>3. CASE db.version \in Nat /\ db.version > 8 BY <1>3
<1> QED BY <1>1, <1>2, <1>3 DEF KnownUser, CURRENT_DB_VERSION

\* The program starts from a database the disk may hold.
LEMMA UserInit == Init => UserInv
<1> SUFFICES ASSUME Init PROVE UserInv OBVIOUS
<1>1. KnownUser(user) /\ seen.user = user /\ app.pc = "off"
  <2>1. PICK d \in Disks : user = d.user /\ seen = [user |-> d.user, viewLost |-> FALSE,
                                                    patched |-> FALSE, launches |-> 0]
    BY DEF Init
  <2>2. app = Off BY DEF Init
  <2> QED BY <2>1, <2>2, DisksAssumption DEF Off
<1>2. user # NoFile =>
         /\ user.version \in Nat
         /\ user.version > 8 \/ (user.version \in 0..8 /\ Form(user, user.version))
         /\ user.version < 3 => Shops(user) = {}
         /\ user.version < 4 => Flags(user) = {}
  BY <1>1, KnownForm
<1>3. UserKnown BY <1>2 DEF UserKnown
<1>4. Upgraded BY <1>1 DEF Upgraded, Before, At
<1>5. HadAtFirst BY <1>1, <1>2 DEF HadAtFirst
<1>6. VersionKept BY <1>1, <1>2 DEF VersionKept, At
<1>7. StaysDistinct /\ DataSurvives BY <1>1 DEF StaysDistinct, DataSurvives
<1> QED BY <1>3, <1>4, <1>5, <1>6, <1>7 DEF UserInv

\* Nothing happens to the database, and the main thread stays where it is.
LEMMA UserStill ==
    ASSUME UserInv, user' = user, app' = app, seen'.user = seen.user,
           seen'.viewLost = seen.viewLost
    PROVE  UserInv'
BY DEF UserInv, UserKnown, Upgraded, HadAtFirst, VersionKept, StaysDistinct, DataSurvives, At

\* Nothing happens to the database, and the main thread goes on to where the version
\* is right or does not matter.
LEMMA UserSame ==
    ASSUME UserInv, user' = user, seen'.user = seen.user,
           seen.viewLost \/ (At("upgrade") /\ app.up = 10) => seen'.viewLost,
           app'.pc \notin {"create", "upgrade"},
           \/ app'.pc \in Before
           \/ user # NoFile /\ (app'.pc = "version" \/ user.version = 8)
    PROVE  UserInv'
<1> USE DEF UserInv
<1>1. UserKnown' BY DEF UserKnown
<1>2. Upgraded' BY DEF Upgraded, At, Before
<1>3. HadAtFirst' BY DEF HadAtFirst
<1>4. VersionKept' BY DEF VersionKept, At
<1>5. StaysDistinct' /\ DataSurvives' BY DEF StaysDistinct, DataSurvives
<1> QED BY <1>1, <1>2, <1>3, <1>4, <1>5

\* The new database is made in one transaction.
LEMMA CreateDbUser ==
    ASSUME UserInv, CreateDb, App(app)
    PROVE  UserInv'
<1>1. user = EmptyDb /\ seen.user = NoFile BY DEF UserInv, Upgraded, CreateDb
<1>2. user' = Transaction(EmptyDb, CreateScheme) /\ app'.pc = "version" /\ seen' = seen
  BY <1>1 DEF CreateDb, Goto, App
<1>3. Form(user', 8) /\ user'.version = 8 BY <1>2, SchemeCreated
<1>4. user' # NoFile BY <1>3 DEF Form, Sound
<1>5. UserKnown' BY <1>3 DEF UserKnown
<1>6. Upgraded' BY <1>2, <1>4 DEF Upgraded, At, Before
<1>7. (HadAtFirst /\ VersionKept /\ StaysDistinct /\ DataSurvives)'
  BY <1>1, <1>2 DEF HadAtFirst, VersionKept, StaysDistinct, DataSurvives
<1> QED BY <1>5, <1>6, <1>7 DEF UserInv

\* A file is made where there was none.
LEMMA OpenDbUser ==
    ASSUME UserInv, OpenDb, App(app), Seen(seen)
    PROVE  UserInv'
<1>1. PICK answer \in Answers :
         LET a == AOFolder(answer) IN
         IF a.folder = "" THEN Ends /\ UNCHANGED user
         ELSE /\ app' = [a EXCEPT !.pc = IF user = NoFile THEN "create" ELSE "version"]
              /\ user' = IF user = NoFile THEN EmptyDb ELSE user
  BY DEF OpenDb
<1>2. App(AOFolder(answer)) BY FolderKept
<1>3. ~ At("upgrade") /\ seen' = seen BY DEF OpenDb, At
<1> DEFINE a == AOFolder(answer)
<1>4. \/ app' = Off /\ user' = user
      \/ user = NoFile /\ user' = EmptyDb /\ app' = [a EXCEPT !.pc = "create"]
      \/ user # NoFile /\ user' = user /\ app' = [a EXCEPT !.pc = "version"]
  BY <1>1 DEF Ends
<1> HIDE DEF a
<1>5. App(a) BY <1>2 DEF a
<1>6. CASE app' = Off /\ user' = user
  <2>1. app'.pc = "off" BY <1>6 DEF Off
  <2> QED BY <1>3, <1>6, <2>1, UserSame DEF Before
<1>7. CASE user = NoFile /\ user' = EmptyDb /\ app' = [a EXCEPT !.pc = "create"]
  <2>1. app'.pc = "create" BY <1>5, <1>7 DEF App
  <2>2. seen.user = NoFile BY <1>7 DEF UserInv, DataSurvives
  <2>3. Form(user', 0) /\ user'.version = 0 BY <1>7, EmptyForm DEF EmptyDb, Db
  <2>4. user' # NoFile BY <2>3 DEF Form, Sound
  <2>5. UserKnown' BY <2>3 DEF UserKnown
  <2>6. Upgraded' BY <1>3, <1>7, <2>1, <2>2, <2>4 DEF Upgraded, At, Before
  <2>7. (HadAtFirst /\ VersionKept /\ StaysDistinct /\ DataSurvives)'
    BY <1>3, <2>2 DEF HadAtFirst, VersionKept, StaysDistinct, DataSurvives
  <2> QED BY <2>5, <2>6, <2>7 DEF UserInv
<1>8. CASE user # NoFile /\ user' = user /\ app' = [a EXCEPT !.pc = "version"]
  <2>1. app'.pc = "version" BY <1>5, <1>8 DEF App
  <2> QED BY <1>3, <1>8, <2>1, UserSame
<1> QED BY <1>4, <1>6, <1>7, <1>8

\* The version decides where the upgrade begins.
LEMMA CheckVersionUser ==
    ASSUME UserInv, CheckVersion, App(app), Seen(seen)
    PROVE  UserInv'
<1>1. At("version") /\ user' = user /\ seen' = seen BY DEF CheckVersion, Files
<1>2. ~ At("upgrade") /\ user # NoFile BY <1>1 DEF At, UserInv, Upgraded, Before
<1>3. \/ user.version = 8 /\ app' = [app EXCEPT !.pc = "sync"]
      \/ user.version < 8 /\ app' = [app EXCEPT !.pc = "upgrade", !.up = user.version + 1]
      \/ app' = Off
  BY DEF CheckVersion, getDBVersion, CURRENT_DB_VERSION, Goto, Ends
<1>4. CASE user.version = 8 /\ app' = [app EXCEPT !.pc = "sync"]
  <2>1. app'.pc = "sync" BY <1>4 DEF App
  <2> QED BY <1>1, <1>2, <1>4, <2>1, UserSame
<1>5. CASE user.version < 8 /\ app' = [app EXCEPT !.pc = "upgrade", !.up = user.version + 1]
  <2>1. app'.pc = "upgrade" /\ app'.up = user.version + 1 BY <1>5 DEF App
  <2>2. user.version \in 0..7 /\ Form(user, user.version) BY <1>2, <1>5 DEF UserInv, UserKnown
  <2>3. user.version + 1 \in 1..9 /\ (user.version + 1) - 1 = user.version BY <2>2
  <2>4. UserKnown' BY <1>1 DEF UserInv, UserKnown
  <2>5. Upgraded' BY <1>1, <1>2, <2>1, <2>2, <2>3 DEF Upgraded, At
  <2>6. VersionKept'
    <3>1. seen.user # NoFile /\ ~ seen.viewLost => user.version >= seen.user.version
      BY <1>2 DEF UserInv, VersionKept
    <3>2. seen.user # NoFile => seen.user.version \in Nat BY DEF UserInv, HadAtFirst
    <3> QED BY <1>1, <2>1, <2>2, <3>1, <3>2 DEF VersionKept, At
  <2>7. (HadAtFirst /\ StaysDistinct /\ DataSurvives)'
    BY <1>1 DEF UserInv, HadAtFirst, StaysDistinct, DataSurvives
  <2> QED BY <2>4, <2>5, <2>6, <2>7 DEF UserInv
<1>6. CASE app' = Off
  <2>1. app'.pc = "off" BY <1>6 DEF Off
  <2> QED BY <1>1, <1>2, <2>1, UserSame DEF Before
<1> QED BY <1>3, <1>4, <1>5, <1>6

\* Script k is committed as a whole; the two statements after the last one are not.
LEMMA UpgradeStepUser ==
    ASSUME UserInv, UpgradeStep, App(app)
    PROVE  UserInv'
<1>1. /\ At("upgrade") /\ user' = Transaction(user, Upgrade[app.up]) /\ seen' = seen
      /\ app' = [app EXCEPT !.up = @ + 1, !.pc = IF app.up = Len(Upgrade) THEN "sync" ELSE "upgrade"]
  BY DEF UpgradeStep
<1>2. /\ Len(Upgrade) = 10 /\ Upgrade[9] = << SetVersion(0) >> /\ Upgrade[10] = << SetVersion(8) >>
  BY DEF Upgrade, CURRENT_DB_VERSION
<1>3. app'.up = app.up + 1 /\ app'.pc = IF app.up = 10 THEN "sync" ELSE "upgrade"
  BY <1>1, <1>2 DEF App
<1>4. /\ seen.user # NoFile => seen.user.version \in Nat
      /\ seen.user # NoFile => user # NoFile
      /\ user # NoFile
  BY <1>1 DEF UserInv, HadAtFirst, DataSurvives, Upgraded, At, Before
<1>5. HadAtFirst' BY <1>1 DEF UserInv, HadAtFirst
<1>6. seen.user # NoFile =>
         /\ Items(seen.user) \subseteq Items(user)
         /\ NoDouble(seen.user) => NoDouble(user) /\ Names(seen.user) \subseteq Names(user)
         /\ NoDouble(seen.user) /\ ~ seen.viewLost => Shops(seen.user) \subseteq Shops(user)
         /\ ~ seen.viewLost => Flags(seen.user) \subseteq Flags(user)
  BY DEF UserInv, DataSurvives, StaysDistinct
<1>7. seen.user # NoFile /\ ~ seen.viewLost => seen.user.version < app.up /\ seen.user.version < 8
  BY <1>1 DEF UserInv, VersionKept
<1>8. CASE app.up \in 1..8 /\ user.version \in 0..8 /\ user.version < app.up
           /\ Form(user, app.up - 1)
  <2> DEFINE k == app.up - 1
  <2>1. k \in 0..7 /\ k + 1 = app.up BY <1>8
  <2>2. Form(user, k) BY <1>8
  <2> HIDE DEF k
  <2>3. user' = Transaction(user, Upgrade[k + 1]) BY <1>1, <2>1
  <2>4. Committed(user, user', k) BY <2>1, <2>2, <2>3, ScriptDone
  <2>5. Form(user', app.up) /\ user'.version = user.version BY <2>1, <2>4 DEF Committed
  <2>6. user' # NoFile BY <2>5 DEF Form, Sound
  <2>7. UserKnown'
    <3>1. app.up \in 0..8 /\ user.version \in 0..8 /\ user.version <= app.up BY <1>8
    <3>2. Form(user', user.version) BY <2>5, <3>1, Earlier
    <3> QED BY <2>5, <3>1, <3>2 DEF UserKnown
  <2>8. app'.pc = "upgrade" /\ app'.up = app.up + 1 BY <1>3, <1>8
  <2>9. Upgraded'
    <3>1. app'.up \in 1..9 /\ app'.up - 1 = app.up /\ user.version < app'.up BY <1>8, <2>8
    <3> QED BY <1>8, <2>5, <2>6, <2>8, <3>1 DEF Upgraded, At
  <2>10. VersionKept'
    <3>1. seen.user # NoFile /\ ~ seen.viewLost => user.version >= seen.user.version
      BY <1>8 DEF UserInv, VersionKept
    <3>2. seen.user # NoFile /\ ~ seen.viewLost => seen.user.version < app.up + 1
      BY <1>4, <1>7, <1>8
    <3> QED BY <1>1, <1>7, <2>5, <2>8, <3>1, <3>2 DEF VersionKept, At
  <2>11. NoDouble(user')
    <3>1. app.up >= 1 BY <1>8
    <3> QED BY <2>5, <3>1 DEF Form, Toons, NoDouble
  <2>12. DataSurvives'
    <3> SUFFICES ASSUME seen.user # NoFile
                 PROVE  /\ Items(seen.user) \subseteq Items(user')
                        /\ NoDouble(seen.user) => Names(seen.user) \subseteq Names(user')
                        /\ NoDouble(seen.user) /\ ~ seen.viewLost =>
                              Shops(seen.user) \subseteq Shops(user')
                        /\ ~ seen.viewLost => Flags(seen.user) \subseteq Flags(user')
      BY <1>1, <2>6 DEF DataSurvives
    <3>1. Items(seen.user) \subseteq Items(user') BY <1>6, <2>4 DEF Committed
    <3>2. NoDouble(seen.user) => Names(seen.user) \subseteq Names(user')
      BY <1>6, <2>4 DEF Committed
    <3>3. ASSUME NoDouble(seen.user), ~ seen.viewLost PROVE Shops(seen.user) \subseteq Shops(user')
      <4>1. CASE k >= 3 BY <1>6, <2>4, <3>3, <4>1 DEF Committed
      <4>2. CASE k < 3
        <5>1. seen.user.version < 3 BY <1>4, <1>7, <2>1, <3>3, <4>2
        <5> QED BY <5>1 DEF UserInv, HadAtFirst
      <4> QED BY <2>1, <4>1, <4>2
    <3>4. ASSUME ~ seen.viewLost PROVE Flags(seen.user) \subseteq Flags(user')
      <4>1. CASE k >= 4 BY <1>6, <2>4, <3>4, <4>1 DEF Committed
      <4>2. CASE k < 4
        <5>1. seen.user.version < 4 BY <1>4, <1>7, <2>1, <3>4, <4>2
        <5> QED BY <5>1 DEF UserInv, HadAtFirst
      <4> QED BY <2>1, <4>1, <4>2
    <3> QED BY <3>1, <3>2, <3>3, <3>4
  <2>13. StaysDistinct' BY <2>11 DEF StaysDistinct
  <2> QED BY <1>5, <2>7, <2>9, <2>10, <2>12, <2>13 DEF UserInv
<1>9. CASE app.up = 9 \/ app.up = 10
  <2> DEFINE v == IF app.up = 9 THEN 0 ELSE 8
  <2>1. Form(user, 8) /\ (app.up = 10 => user.version = 0)
    <3>1. app.up = 9 => app.up - 1 = 8 BY <1>9
    <3> QED BY <1>1, <1>9, <3>1 DEF UserInv, Upgraded
  <2>2. user' = Transaction(user, << SetVersion(v) >>)
    <3>1. Upgrade[app.up] = << SetVersion(v) >> BY <1>2, <1>9
    <3> QED BY <1>1, <3>1
  <2>3. v = 0 \/ user.version = 0 BY <1>9, <2>1
  <2>4. v \in {0, 8} /\ (app.up = 9 => v = 0) /\ (app.up = 10 => v = 8) BY <1>9
  <2> HIDE DEF v
  <2>5. /\ user' # NoFile /\ user'.tables = user.tables /\ user'.indexes = user.indexes
        /\ user'.version = v
    <3>1. Sound(user) BY <2>1 DEF Form
    <3> QED BY <2>2, <2>3, <3>1, VersionSet
  <2>6. Form(user', 8) /\ Same(user, user', "tToons") /\ Same(user, user', "tItems")
    BY <2>1, <2>5, OtherVersion
  <2>7. UserKnown'
    <3>1. v \in 0..8 /\ 8 \in 0..8 /\ v <= 8 BY <2>4
    <3>2. Form(user', v) BY <2>6, <3>1, Earlier
    <3> QED BY <2>5, <3>1, <3>2 DEF UserKnown
  <2>8. (app.up = 9 => app'.up = 10 /\ app'.pc = "upgrade") /\ (app.up = 10 => app'.pc = "sync")
    BY <1>3
  <2>9. Upgraded' BY <1>9, <2>4, <2>5, <2>6, <2>8 DEF Upgraded, At, Before
  <2>10. VersionKept'
    <3>1. ASSUME seen.user # NoFile, ~ seen.viewLost
          PROVE  seen.user.version \in Nat /\ seen.user.version < 8
      BY <1>4, <1>7, <3>1
    <3> QED BY <1>1, <1>9, <2>4, <2>5, <2>8, <3>1 DEF VersionKept, At
  <2>11. /\ Names(user') = Names(user) /\ Shops(user') = Shops(user)
         /\ NoDouble(user') <=> NoDouble(user)
    BY <2>6, SameToons
  <2>12. Items(user') = Items(user) /\ Flags(user') = Flags(user) BY <2>6, SameItems
  <2>13. StaysDistinct' BY <1>1, <1>6, <2>11 DEF StaysDistinct
  <2>14. DataSurvives' BY <1>1, <1>6, <2>5, <2>11, <2>12 DEF DataSurvives
  <2> QED BY <1>5, <2>7, <2>9, <2>10, <2>13, <2>14 DEF UserInv
<1>10. \/ app.up \in 1..8 /\ user.version \in 0..8 /\ user.version < app.up /\ Form(user, app.up - 1)
       \/ app.up = 9 \/ app.up = 10
  <2>1. \A n \in 1..9 : n \in 1..8 \/ n = 9 OBVIOUS
  <2> QED BY <1>1, <2>1 DEF UserInv, Upgraded
<1> QED BY <1>8, <1>9, <1>10

\* Before the database is opened and once its version is right nothing is done to it.
LEMMA UserAside ==
    ASSUME UserInv, user' = user, seen'.user = seen.user, seen'.viewLost = seen.viewLost,
           \/ app.pc \in Before /\ app'.pc \in Before
           \/ app.pc \notin Before \cup {"create", "version", "upgrade"}
              /\ app'.pc \notin {"create", "version", "upgrade"}
    PROVE  UserInv'
<1>1. ~ At("upgrade") BY DEF At, Before
<1>2. app.pc \notin Before \cup {"create", "version", "upgrade"} => user # NoFile /\ user.version = 8
  BY DEF UserInv, Upgraded
<1>3. app'.pc \notin {"create", "upgrade"} BY DEF Before
<1> QED BY <1>1, <1>2, <1>3, UserSame

\* All other steps.
LEMMA OtherStepsUser ==
    ASSUME UserInv, App(app), Seen(seen),
           \/ Launch \/ LogFolder \/ LogPrefsFolder \/ Sync \/ BeginExtraction \/ Barrier
           \/ ExtractRecord \/ EndOfPhase \/ PostProcess \/ EndDialog \/ JoinDialog \/ RemoveOld
           \/ RenameNew \/ Attach \/ Close \/ SaveSettings
    PROVE  UserInv'
<1> DEFINE Late == {"sync", "extract", "barrier", "items", "nanos", "post", "end", "join", "remove",
                    "rename", "attach", "running", "saving"}
<1>1. Late \cap (Before \cup {"create", "version", "upgrade"}) = {} /\ "off" \in Before
      /\ "sync" \in Late
  BY DEF Before
<1>2. \A answer : App(AOFolder(answer)) BY FolderKept
<1>3. Off.pc = "off" BY DEF Off
<1>4. ASSUME user' = user, seen'.user = seen.user, seen'.viewLost = seen.viewLost,
             app.pc \in Late, app'.pc \in Late \cup {"off"}
      PROVE  UserInv'
  <2>1. app'.pc \notin {"create", "version", "upgrade"} BY <1>1, <1>4 DEF Before
  <2>2. app.pc \notin Before \cup {"create", "version", "upgrade"} BY <1>1, <1>4
  <2> HIDE DEF Late
  <2> QED BY <1>4, <2>1, <2>2, UserAside
<1>5. CASE Launch
  <2>1. app.pc \in Before /\ app'.pc \in Before BY <1>5 DEF Launch, At, Off, Before
  <2>2. user' = user /\ seen'.user = seen.user /\ seen'.viewLost = seen.viewLost
    BY <1>5 DEF Launch, Files, Seen
  <2> QED BY <2>1, <2>2, UserAside
<1>6. CASE LogFolder
  <2>1. app.pc \in Before /\ app'.pc \in Before BY <1>2, <1>6 DEF LogFolder, At, App, Before
  <2>2. user' = user /\ seen' = seen BY <1>6 DEF LogFolder, Files
  <2> QED BY <2>1, <2>2, UserAside
<1>7. CASE LogPrefsFolder
  <2>1. PICK answer \in Answers :
           LET a == AOFolder(answer)
           IN  app' = [a EXCEPT !.pc = "db", !.prefs = IF a.folder = "" THEN "wrong" ELSE "right"]
    BY <1>7 DEF LogPrefsFolder
  <2> DEFINE a == AOFolder(answer)
  <2>2. App(a) BY <1>2
  <2> HIDE DEF a
  <2>3. app' = [a EXCEPT !.pc = "db", !.prefs = IF a.folder = "" THEN "wrong" ELSE "right"]
    BY <2>1 DEF a
  <2>4. app'.pc = "db" BY <2>2, <2>3 DEF App
  <2>5. app.pc \in Before /\ app'.pc \in Before BY <1>7, <2>4 DEF LogPrefsFolder, At, Before
  <2>6. user' = user /\ seen' = seen BY <1>7 DEF LogPrefsFolder, Files
  <2> QED BY <2>5, <2>6, UserAside
<1>8. CASE Sync
  <2>1. app.pc \in Late /\ app'.pc \in Late \cup {"off"}
    BY <1>3, <1>8 DEF Sync, At, App, Goto, Ends
  <2>2. user' = user /\ seen' = seen BY <1>8 DEF Sync, Files
  <2> HIDE DEF Late
  <2> QED BY <1>4, <2>1, <2>2
<1>9. CASE BeginExtraction
  <2>1. app.pc \in Late /\ app'.pc \in Late \cup {"off"}
    BY <1>3, <1>9 DEF BeginExtraction, At, App, Goto, Ends
  <2>2. user' = user /\ seen' = seen BY <1>9 DEF BeginExtraction
  <2> HIDE DEF Late
  <2> QED BY <1>4, <2>1, <2>2
<1>10. CASE Barrier
  <2>1. app.pc \in Late /\ app'.pc \in Late \cup {"off"} BY <1>10 DEF Barrier, At, App, Goto
  <2>2. user' = user /\ seen' = seen BY <1>10 DEF Barrier, Files
  <2> HIDE DEF Late
  <2> QED BY <1>4, <2>1, <2>2
<1>11. CASE ExtractRecord
  <2>1. Extracting /\ (app' = app \/ app' = [app EXCEPT !.pc = "end"]) /\ user' = user /\ seen' = seen
    BY <1>11 DEF ExtractRecord, Goto
  <2>2. app.pc \in Late /\ app'.pc \in Late \cup {"off"} BY <2>1 DEF Extracting, App
  <2> HIDE DEF Late
  <2> QED BY <1>4, <2>1, <2>2
<1>12. CASE EndOfPhase
  <2>1. Extracting /\ (\E p \in {"end", "nanos", "post"} : app' = [app EXCEPT !.pc = p])
        /\ user' = user /\ seen' = seen
    BY <1>12 DEF EndOfPhase, Goto
  <2>2. app.pc \in Late /\ app'.pc \in Late \cup {"off"} BY <2>1 DEF Extracting, App
  <2> HIDE DEF Late
  <2> QED BY <1>4, <2>1, <2>2
<1>13. CASE PostProcess
  <2>1. app.pc \in Late /\ app'.pc \in Late \cup {"off"} BY <1>13 DEF PostProcess, At, App, Goto
  <2>2. user' = user /\ seen' = seen BY <1>13 DEF PostProcess
  <2> HIDE DEF Late
  <2> QED BY <1>4, <2>1, <2>2
<1>14. CASE EndDialog
  <2>1. app.pc \in Late /\ app'.pc \in Late \cup {"off"} BY <1>14 DEF EndDialog, At, App, Goto
  <2>2. user' = user /\ seen' = seen BY <1>14 DEF EndDialog, Files
  <2> HIDE DEF Late
  <2> QED BY <1>4, <2>1, <2>2
<1>15. CASE JoinDialog
  <2>1. app.pc \in Late /\ app'.pc \in Late \cup {"off"}
    BY <1>3, <1>15 DEF JoinDialog, At, App, Goto, Ends
  <2>2. user' = user /\ seen' = seen BY <1>15 DEF JoinDialog, Files
  <2> HIDE DEF Late
  <2> QED BY <1>4, <2>1, <2>2
<1>16. CASE RemoveOld
  <2>1. app.pc \in Late /\ app'.pc \in Late \cup {"off"} BY <1>16 DEF RemoveOld, At, App, Goto
  <2>2. user' = user /\ seen' = seen BY <1>16 DEF RemoveOld
  <2> HIDE DEF Late
  <2> QED BY <1>4, <2>1, <2>2
<1>17. CASE RenameNew
  <2>1. app.pc \in Late /\ app'.pc \in Late \cup {"off"} BY <1>17 DEF RenameNew, At, App, Goto
  <2>2. user' = user /\ seen' = seen BY <1>17 DEF RenameNew
  <2> HIDE DEF Late
  <2> QED BY <1>4, <2>1, <2>2
<1>18. CASE Attach
  <2>1. app.pc \in Late /\ app'.pc \in Late \cup {"off"} BY <1>18 DEF Attach, At, App, Goto
  <2>2. user' = user /\ seen' = seen BY <1>18 DEF Attach, Files
  <2> HIDE DEF Late
  <2> QED BY <1>4, <2>1, <2>2
<1>19. CASE Close
  <2>1. app.pc \in Late /\ app'.pc \in Late \cup {"off"} BY <1>19 DEF Close, At, App, Goto
  <2>2. user' = user /\ seen' = seen BY <1>19 DEF Close
  <2> HIDE DEF Late
  <2> QED BY <1>4, <2>1, <2>2
<1>20. CASE SaveSettings
  <2>1. app.pc \in Late /\ app'.pc \in Late \cup {"off"} BY <1>3, <1>20 DEF SaveSettings, At, Ends
  <2>2. user' = user /\ seen' = seen BY <1>20 DEF SaveSettings
  <2> HIDE DEF Late
  <2> QED BY <1>4, <2>1, <2>2
<1> QED
  BY <1>5, <1>6, <1>7, <1>8, <1>9, <1>10, <1>11, <1>12, <1>13, <1>14, <1>15, <1>16, <1>17,
     <1>18, <1>19, <1>20

\* The process is ended.
LEMMA CrashUser ==
    ASSUME UserInv, Crash, Seen(seen)
    PROVE  UserInv'
<1>1. user' = user /\ app' = Off /\ seen'.user = seen.user BY DEF Crash, Files, Seen
<1>2. seen'.viewLost = (seen.viewLost \/ (At("upgrade") /\ app.up = 10))
  <2>1. Len(Upgrade) = 10 BY DEF Upgrade
  <2> QED BY <2>1 DEF Crash, Seen
<1>3. app'.pc = "off" BY <1>1 DEF Off
<1> QED BY <1>1, <1>2, <1>3, UserSame DEF Before

\* Every step keeps the invariant of the database of the user.
LEMMA UserStep == Inv /\ UserInv /\ [Next]_vars => UserInv'
<1> SUFFICES ASSUME Inv, UserInv, [Next]_vars PROVE UserInv' OBVIOUS
<1>1. App(app) /\ Seen(seen) BY DEF Inv, Shapes, App, Seen
<1>2. CASE UNCHANGED vars BY <1>2, UserStill DEF vars
<1>3. CASE DialogStep \/ Touch \/ PressCancel
  BY <1>3, UserStill
  DEF DialogStep, DialogCreate, DialogLoop, DialogMessage, Touch, PressCancel, Files
<1>4. CASE Patch
  <2>1. seen'.user = seen.user /\ seen'.viewLost = seen.viewLost BY <1>1, <1>4 DEF Patch, Seen
  <2> QED BY <1>4, <2>1, UserStill DEF Patch
<1>5. CASE Launch \/ Close BY <1>1, <1>5, OtherStepsUser
<1>6. CASE Crash BY <1>1, <1>6, CrashUser
<1>7. CASE MainStep
  BY <1>1, <1>7, OpenDbUser, CreateDbUser, CheckVersionUser, UpgradeStepUser, OtherStepsUser
  DEF MainStep
<1> QED BY <1>2, <1>3, <1>4, <1>5, <1>6, <1>7 DEF Next

\* The program runs with a database that has every table, column and index its queries
\* rely on, from whatever version and by whatever interruptions it got there.
THEOREM SchemaAlwaysComplete == Spec => []SchemaComplete
<1>1. UserInv => SchemaComplete
  <2> SUFFICES ASSUME UserInv, app.pc \in {"sync", "extract", "running"} PROVE Complete(user)
    BY DEF SchemaComplete
  <2>1. user # NoFile /\ user.version = 8 BY DEF UserInv, Upgraded, Before
  <2>2. Form(user, 8) BY <2>1 DEF UserInv, UserKnown
  <2> QED BY <2>1, <2>2, FormComplete
<1>2. Init => Inv /\ UserInv BY InitInv, UserInit
<1>3. Inv /\ UserInv /\ [Next]_vars => (Inv /\ UserInv)' BY StepInv, UserStep
<1> QED BY <1>1, <1>2, <1>3, PTL DEF Spec

\* No interruption of the creation or of the upgrade loses an item, nor the name of a
\* character unless two had one number; a shop or a flag is lost only when the program
\* was ended between the last two statements.
THEOREM DataAlwaysSurvives == Spec => []DataSurvives
<1>1. UserInv => DataSurvives BY DEF UserInv
<1>2. Init => Inv /\ UserInv BY InitInv, UserInit
<1>3. Inv /\ UserInv /\ [Next]_vars => (Inv /\ UserInv)' BY StepInv, UserStep
<1> QED BY <1>1, <1>2, <1>3, PTL DEF Spec
=============================================================================
