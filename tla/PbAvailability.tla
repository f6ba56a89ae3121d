--------------------------- MODULE PbAvailability ---------------------------
(***************************************************************************)
(* How much of a pocket boss a character can summon, from the numbers of   *)
(* pattern pieces recorded for him (CalcPbAvailability): whole patterns,   *)
(* and a quarter for each of the four parts left over.  Availabilities are *)
(* in quarters, so that they are whole numbers.                            *)
(***************************************************************************)
EXTENDS Integers

\* Single parts, and the assemblies of the first two, three and all four.
Pieces == {"A", "B", "C", "D", "AB", "ABC", "ABCD"}

Smaller(a, b) == IF a < b THEN a ELSE b

\* An assembly counts for each part in it.
PartsOf(n) ==
    [A |-> n["A"] + n["AB"] + n["ABC"],
     B |-> n["B"] + n["AB"] + n["ABC"],
     C |-> n["C"] + n["ABC"],
     D |-> n["D"]]

Complete(n) ==
    LET p == PartsOf(n)
    IN  Smaller(p.A, Smaller(p.B, Smaller(p.C, p.D)))

Quarter(k) == IF k > 0 THEN 1 ELSE 0

CalcPbAvailability(n) ==
    LET p == PartsOf(n)
        v == Complete(n)
    IN  4 * (n["ABCD"] + v)
        + Quarter(p.A - v) + Quarter(p.B - v) + Quarter(p.C - v) + Quarter(p.D - v)

-----------------------------------------------------------------------------
\* By the game's rules: m patterns are put together from `abc' assemblies of
\* three with a D each, `ab' of two with a C and a D each, single parts, and
\* whole ones, each piece being used once.
Buildable(n, m) ==
    \E whole \in 0..n["ABCD"], abc \in 0..n["ABC"], ab \in 0..n["AB"], single \in 0..n["A"] :
        /\ whole + abc + ab + single = m
        /\ single <= n["B"]
        /\ ab + single <= n["C"]
        /\ abc + ab + single <= n["D"]
=============================================================================
