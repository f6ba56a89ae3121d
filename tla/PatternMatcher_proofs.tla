------------------------ MODULE PatternMatcher_proofs ------------------------
(***************************************************************************)
(* What TLAPS proves of PatternMatcher: for any number of pocket bosses,   *)
(* any settings and any number of queries, the calculator runs only while  *)
(* the view is shown, and its setting is not changed under it; and of what *)
(* it calculates, PbAvailability, for any numbers of pieces.               *)
(***************************************************************************)
EXTENDS PatternMatcher, PbAvailability, TLAPS

-----------------------------------------------------------------------------
(* The inductive invariant.                                                *)

\* A thread handle is kept exactly as long as there is a thread to wait for.
HandleKept == handle <=> worker # "none"

\* A handler that waits has something to go on with; only leaving or closing
\* the view does not leave it shown.
ThenKept ==
    /\ gui = "idle" <=> then = "none"
    /\ then \in {"begin", "recalculate", "filter"} => view = "shown"

\* The database is locked by the calculator only within a query.
LockKept == dblock = "worker" => worker = "calc" /\ left > 0

\* A calculation is for a boss of the list.
IndexKept == worker = "calc" => index < NumPb

NothingPending == view # "shown" /\ gui = "idle" => worker = "none" /\ posted = {}

Inv == TypeOK /\ HandleKept /\ ThenKept /\ LockKept /\ IndexKept /\ NothingPending
           /\ SettingHolds

\* The initial states satisfy the invariant.
LEMMA InitInv == Init => Inv
<1> SUFFICES ASSUME Init PROVE Inv OBVIOUS
<1>1. TypeOK
  <2>1. AllUnknown \in [Pbs -> Results] BY DEF AllUnknown, Results
  <2>2. 0 \in 0..NumPb /\ 0 \in 0..Queries BY PatternAssumption
  <2> QED BY <2>1, <2>2 DEF Init, TypeOK
<1> QED BY <1>1 DEF Init, Inv, HandleKept, ThenKept, LockKept, IndexKept, NothingPending,
                    SettingHolds

\* A handler of the GUI thread that begins keeps the invariant.
LEMMA HandleInv == Inv /\ Handle => Inv'
<1> SUFFICES ASSUME Inv, Handle PROVE Inv' OBVIOUS
<1> USE PatternAssumption DEF Inv, TypeOK, HandleKept, ThenKept, LockKept, IndexKept,
        NothingPending, SettingHolds, Enter, viewVars, threadVars, calcVars, listVars
<1>1. CASE Activate BY <1>1 DEF Activate
<1>2. CASE Deactivate BY <1>2 DEF Deactivate
<1>3. CASE Recalculate BY <1>3 DEF Recalculate
<1>4. CASE ChangeFilter BY <1>4 DEF ChangeFilter, AllUnknown, Results
<1>5. CASE Destroy BY <1>5 DEF Destroy
<1> QED BY <1>1, <1>2, <1>3, <1>4, <1>5 DEF Handle

\* A posted update and a leaked lock keep the invariant.
LEMMA MessageInv == ASSUME Inv, NEW p \in Pbs, Update(p) \/ LeakLock PROVE Inv'
<1> USE DEF Inv, TypeOK, HandleKept, ThenKept, LockKept, IndexKept, NothingPending,
        SettingHolds, viewVars, threadVars, calcVars, listVars
<1>1. CASE Update(p) BY <1>1 DEF Update, Pbs
<1>2. CASE LeakLock BY <1>2 DEF LeakLock
<1> QED BY <1>1, <1>2

\* The rest of a handler keeps the invariant: it goes on when there is no
\* thread, or one that has ended and so holds no lock.
LEMMA ContinueInv == Inv /\ Continue => Inv'
<1> SUFFICES ASSUME Inv, Continue PROVE Inv' OBVIOUS
<1> USE PatternAssumption DEF Inv, TypeOK, HandleKept, ThenKept, LockKept, IndexKept,
        NothingPending, SettingHolds, viewVars, threadVars, calcVars, listVars,
        Ended, Finish, Begin, NoThread
<1>1. CASE StopPlease BY <1>1 DEF StopPlease
<1>2. CASE EndThenBegin BY <1>2 DEF EndThenBegin
<1>3. CASE EndThenHide BY <1>3 DEF EndThenHide
<1>4. CASE EndThenRecalculate BY <1>4 DEF EndThenRecalculate, AllUnknown, Results
<1>5. CASE EndThenFilter BY <1>5 DEF EndThenFilter
<1>6. CASE EndThenDestroy BY <1>6 DEF EndThenDestroy
<1> QED BY <1>1, <1>2, <1>3, <1>4, <1>5, <1>6 DEF Continue

\* A step of the calculator keeps the invariant.
LEMMA CalculateInv == Inv /\ Calculate => Inv'
<1> SUFFICES ASSUME Inv, Calculate PROVE Inv' OBVIOUS
<1>0. 0 \in 0..NumPb BY PatternAssumption
<1> USE PatternAssumption DEF Inv, TypeOK, HandleKept, ThenKept, LockKept, IndexKept,
        NothingPending, SettingHolds, viewVars, threadVars, calcVars, listVars
<1>1. CASE ThreadStart BY <1>0, <1>1 DEF ThreadStart
<1>2. CASE CalcCall BY <1>2 DEF CalcCall
<1>3. CASE QueryLock BY <1>3 DEF QueryLock
<1>4. CASE QueryUnlock BY <1>4 DEF QueryUnlock
<1>5. CASE Store
  <2>1. index + 1 \in Pbs BY <1>5 DEF Store, Pbs
  <2>2. avail' \in [Pbs -> Results] BY <1>5, <2>1 DEF Store, Results
  <2> QED BY <1>5, <2>1, <2>2 DEF Store, Pbs
<1>6. CASE Skip BY <1>6 DEF Skip
<1>7. CASE AtEnd BY <1>7 DEF AtEnd
<1>8. CASE LoopTest BY <1>8 DEF LoopTest
<1>9. CASE ThreadEnd BY <1>0, <1>9 DEF ThreadEnd
<1> QED BY <1>1, <1>2, <1>3, <1>4, <1>5, <1>6, <1>7, <1>8, <1>9 DEF Calculate

\* The invariant holds in every reachable state: no step of either thread
\* breaks the agreement between them.
THEOREM AlwaysInv == Spec => []Inv
<1>1. Inv /\ [Next]_vars => Inv'
  <2> SUFFICES ASSUME Inv, [Next]_vars PROVE Inv' OBVIOUS
  <2>1. CASE Next
    BY <2>1, HandleInv, MessageInv, ContinueInv, CalculateInv, PatternAssumption
       DEF Next, Pbs
  <2>2. CASE UNCHANGED vars
    BY <2>2 DEF vars, viewVars, threadVars, calcVars, listVars, Inv, TypeOK, HandleKept,
                ThenKept, LockKept, IndexKept, NothingPending, SettingHolds
  <2> QED BY <2>1, <2>2
<1> QED BY InitInv, <1>1, PTL DEF Spec

-----------------------------------------------------------------------------
\* The variables keep their types: the index stays within the list, and the
\* list holds a result for a setting or none.
THEOREM TypeCorrect == Spec => []TypeOK
<1>1. Inv => TypeOK BY DEF Inv
<1> QED BY <1>1, AlwaysInv, PTL

\* The view is not shown: nothing searches, nothing is pending, and the
\* database is free of the calculator (PatternMatchView::OnActive, OnDestroy).
THEOREM Quiet == Spec => []QuietUnlessShown
<1>1. Inv => QuietUnlessShown BY DEF Inv, NothingPending, LockKept, QuietUnlessShown
<1> QED BY <1>1, AlwaysInv, PTL

\* The setting of a calculation under way is the calculator's: filter changes
\* wait for the thread (PatternMatchView::onFilterSettingsChanged).
THEOREM SettingStable == Spec => []SettingHolds
<1>1. Inv => SettingHolds BY DEF Inv
<1> QED BY <1>1, AlwaysInv, PTL
-----------------------------------------------------------------------------
(* What is calculated.                                                     *)

Counts == [Pieces -> Nat]

\* One part at least is used up by the complete patterns: what is left over
\* never makes up another whole.
LEMMA QuartersBelowFour ==
    ASSUME NEW n \in Counts
    PROVE  \E q \in 0..3 : CalcPbAvailability(n) = 4 * (n["ABCD"] + Complete(n)) + q
<1> DEFINE p == PartsOf(n)
           v == Complete(n)
<1>1. p.A \in Nat /\ p.B \in Nat /\ p.C \in Nat /\ p.D \in Nat
  BY DEF Counts, Pieces, PartsOf
<1>2. v \in Nat /\ (v = p.A \/ v = p.B \/ v = p.C \/ v = p.D)
  BY <1>1 DEF Complete, Smaller
<1> HIDE DEF p, v
<1> DEFINE q == Quarter(p.A - v) + Quarter(p.B - v) + Quarter(p.C - v) + Quarter(p.D - v)
<1>3. q \in 0..3 BY <1>1, <1>2 DEF Quarter
<1>4. CalcPbAvailability(n) = 4 * (n["ABCD"] + v) + q
  <2>1. n["ABCD"] \in Nat BY DEF Counts, Pieces
  <2> QED BY <1>1, <1>2, <2>1 DEF CalcPbAvailability, Quarter, p, v
<1> QED BY <1>3, <1>4 DEF v

\* The least of the parts bounds what can be built of single parts and
\* assemblies of two and three, and is reached by using up the largest first.
LEMMA CompleteIsMost ==
    ASSUME NEW n \in Counts, NEW k \in Nat
    PROVE  (\E abc \in 0..n["ABC"], ab \in 0..n["AB"], single \in 0..n["A"] :
               /\ abc + ab + single = k
               /\ single <= n["B"]
               /\ ab + single <= n["C"]
               /\ abc + ab + single <= n["D"])
           <=> k <= Complete(n)
<1> DEFINE A == n["A"]  B == n["B"]  C == n["C"]  D == n["D"]
           AB == n["AB"]  ABC == n["ABC"]
<1>1. A \in Nat /\ B \in Nat /\ C \in Nat /\ D \in Nat /\ AB \in Nat /\ ABC \in Nat
  BY DEF Counts, Pieces
<1>2. k <= Complete(n) <=> /\ k <= A + AB + ABC
                           /\ k <= B + AB + ABC
                           /\ k <= C + ABC
                           /\ k <= D
  BY <1>1 DEF Complete, PartsOf, Smaller
<1> HIDE DEF A, B, C, D, AB, ABC
<1>3. ASSUME NEW abc \in 0..ABC, NEW ab \in 0..AB, NEW single \in 0..A,
             abc + ab + single = k, single <= B, ab + single <= C,
             abc + ab + single <= D
      PROVE  /\ k <= A + AB + ABC
             /\ k <= B + AB + ABC
             /\ k <= C + ABC
             /\ k <= D
  BY <1>1, <1>3
<1>4. ASSUME k <= A + AB + ABC, k <= B + AB + ABC, k <= C + ABC, k <= D
      PROVE  \E abc \in 0..ABC, ab \in 0..AB, single \in 0..A :
               /\ abc + ab + single = k
               /\ single <= B
               /\ ab + single <= C
               /\ abc + ab + single <= D
  <2> DEFINE abc == Smaller(k, ABC)
             ab == Smaller(k - abc, AB)
             single == k - abc - ab
  <2>1. abc \in 0..ABC /\ ab \in 0..AB /\ single \in 0..A
    BY <1>1, <1>4 DEF Smaller
  <2>2. /\ abc + ab + single = k
        /\ single <= B
        /\ ab + single <= C
        /\ abc + ab + single <= D
    BY <1>1, <1>4 DEF Smaller
  <2> HIDE DEF abc, ab, single
  <2> QED BY <2>1, <2>2
<1> QED BY <1>2, <1>3, <1>4 DEF A, B, C, D, AB, ABC

\* The whole part of CalcPbAvailability's result is the largest number of
\* patterns that can be put together, each piece being used once: "completable"
\* bosses are those with one or more, whatever the mix of assemblies.
THEOREM CountsPatterns ==
    \A n \in Counts, m \in Nat : Buildable(n, m) <=> 4 * m <= CalcPbAvailability(n)
<1> SUFFICES ASSUME NEW n \in Counts, NEW m \in Nat
             PROVE  Buildable(n, m) <=> 4 * m <= CalcPbAvailability(n)
  OBVIOUS
<1> DEFINE v == Complete(n)
           w == n["ABCD"]
           Rest(k) == \E abc \in 0..n["ABC"], ab \in 0..n["AB"], single \in 0..n["A"] :
               /\ abc + ab + single = k
               /\ single <= n["B"]
               /\ ab + single <= n["C"]
               /\ abc + ab + single <= n["D"]
<1>1. w \in Nat /\ v \in Nat
  BY DEF Counts, Pieces, Complete, PartsOf, Smaller
<1>2. Buildable(n, m) <=> \E whole \in 0..w : whole <= m /\ Rest(m - whole)
  <2>1. n["A"] \in Nat /\ n["AB"] \in Nat /\ n["ABC"] \in Nat BY DEF Counts, Pieces
  <2>2. ASSUME NEW whole \in 0..w, NEW abc \in 0..n["ABC"], NEW ab \in 0..n["AB"],
               NEW single \in 0..n["A"]
        PROVE  whole + abc + ab + single = m <=> whole <= m /\ abc + ab + single = m - whole
    BY <1>1, <2>1
  <2> QED BY <2>2 DEF Buildable
<1>3. \A k \in Nat : Rest(k) <=> k <= v BY CompleteIsMost
<1> HIDE DEF Rest, v, w
<1>4. Buildable(n, m) <=> \E whole \in 0..w : whole <= m /\ m - whole <= v
  <2>1. ASSUME NEW whole \in 0..w, whole <= m PROVE Rest(m - whole) <=> m - whole <= v
    <3>1. m - whole \in Nat BY <1>1, <2>1
    <3> QED BY <3>1, <1>3
  <2> QED BY <1>2, <2>1
<1>5. Buildable(n, m) <=> m <= w + v
  <2>1. ASSUME m <= w + v PROVE \E whole \in 0..w : whole <= m /\ m - whole <= v
    <3> DEFINE whole == Smaller(m, w)
    <3>1. whole \in 0..w /\ whole <= m /\ m - whole <= v BY <1>1, <2>1 DEF Smaller
    <3> HIDE DEF whole
    <3> QED BY <3>1
  <2>2. ASSUME NEW whole \in 0..w, whole <= m, m - whole <= v PROVE m <= w + v
    BY <1>1, <2>2
  <2> QED BY <1>4, <2>1, <2>2
<1>6. m <= w + v <=> 4 * m <= CalcPbAvailability(n)
  <2>1. PICK q \in 0..3 : CalcPbAvailability(n) = 4 * (w + v) + q
    BY QuartersBelowFour DEF v, w
  <2> QED BY <1>1, <2>1
<1> QED BY <1>5, <1>6

-----------------------------------------------------------------------------
\* Putting pieces together in the game: two single parts to an AB, an AB and a
\* C to an ABC, an ABC and a D to a whole pattern.
AssembleAB(n)   == [n EXCEPT !["A"] = @ - 1, !["B"] = @ - 1, !["AB"] = @ + 1]
AssembleABC(n)  == [n EXCEPT !["AB"] = @ - 1, !["C"] = @ - 1, !["ABC"] = @ + 1]
AssembleABCD(n) == [n EXCEPT !["ABC"] = @ - 1, !["D"] = @ - 1, !["ABCD"] = @ + 1]

\* Assembling changes no availability (assemblies not being excluded): a result
\* calculated before it still holds afterwards.
THEOREM AssemblingKeeps ==
    \A n \in Counts :
        /\ n["A"] > 0 /\ n["B"] > 0
               => CalcPbAvailability(AssembleAB(n)) = CalcPbAvailability(n)
        /\ n["AB"] > 0 /\ n["C"] > 0
               => CalcPbAvailability(AssembleABC(n)) = CalcPbAvailability(n)
        /\ n["ABC"] > 0 /\ n["D"] > 0
               => CalcPbAvailability(AssembleABCD(n)) = CalcPbAvailability(n)
<1> SUFFICES ASSUME NEW n \in Counts
    PROVE /\ n["A"] > 0 /\ n["B"] > 0
                 => CalcPbAvailability(AssembleAB(n)) = CalcPbAvailability(n)
          /\ n["AB"] > 0 /\ n["C"] > 0
                 => CalcPbAvailability(AssembleABC(n)) = CalcPbAvailability(n)
          /\ n["ABC"] > 0 /\ n["D"] > 0
                 => CalcPbAvailability(AssembleABCD(n)) = CalcPbAvailability(n)
  OBVIOUS
<1>0. /\ n["A"] \in Nat /\ n["B"] \in Nat /\ n["C"] \in Nat /\ n["D"] \in Nat
      /\ n["AB"] \in Nat /\ n["ABC"] \in Nat /\ n["ABCD"] \in Nat
  BY DEF Counts, Pieces
<1>1. PartsOf(AssembleAB(n)) = PartsOf(n) /\ AssembleAB(n)["ABCD"] = n["ABCD"]
  BY <1>0 DEF AssembleAB, PartsOf, Counts, Pieces
<1>2. PartsOf(AssembleABC(n)) = PartsOf(n) /\ AssembleABC(n)["ABCD"] = n["ABCD"]
  BY <1>0 DEF AssembleABC, PartsOf, Counts, Pieces
<1>3. /\ PartsOf(AssembleABCD(n)).A = PartsOf(n).A - 1
      /\ PartsOf(AssembleABCD(n)).B = PartsOf(n).B - 1
      /\ PartsOf(AssembleABCD(n)).C = PartsOf(n).C - 1
      /\ PartsOf(AssembleABCD(n)).D = PartsOf(n).D - 1
      /\ AssembleABCD(n)["ABCD"] = n["ABCD"] + 1
  BY <1>0 DEF AssembleABCD, PartsOf, Counts, Pieces
<1>4. /\ PartsOf(n).A \in Int /\ PartsOf(n).B \in Int
      /\ PartsOf(n).C \in Int /\ PartsOf(n).D \in Int
  BY <1>0 DEF PartsOf
<1>5. Complete(AssembleABCD(n)) = Complete(n) - 1 /\ Complete(n) \in Int
  BY <1>3, <1>4 DEF Complete, Smaller
<1>6. CalcPbAvailability(AssembleABCD(n)) = CalcPbAvailability(n)
  <2> DEFINE a == PartsOf(n)  b == PartsOf(AssembleABCD(n))
             v == Complete(n)  u == Complete(AssembleABCD(n))
  <2>1. b.A - u = a.A - v /\ b.B - u = a.B - v /\ b.C - u = a.C - v /\ b.D - u = a.D - v
    BY <1>3, <1>4, <1>5
  <2>2. AssembleABCD(n)["ABCD"] + u = n["ABCD"] + v BY <1>0, <1>3, <1>5
  <2> QED BY <2>1, <2>2 DEF CalcPbAvailability
<1> QED BY <1>1, <1>2, <1>6 DEF CalcPbAvailability, Complete
=============================================================================
