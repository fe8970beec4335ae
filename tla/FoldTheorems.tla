---------------------------- MODULE FoldTheorems -----------------------------
(***************************************************************************)
(* What the proofs need to know of the folds of the community modules:     *)
(* sums over functions and sets, and folds over sequences.  Both are       *)
(* recursive functions on the subsets of a finite set; a step of a fold    *)
(* takes away the element that a choice picks.  Induction is stated with a *)
(* set P in place of a predicate.                                          *)
(***************************************************************************)
EXTENDS SequencesExt, FiniteSetTheorems, TLAPS

-----------------------------------------------------------------------------
(* Induction and recursion.                                                *)

LEMMA SubsetInduction ==
  ASSUME NEW S, IsFiniteSet(S), NEW P,
         {} \in P,
         \A T \in SUBSET S : T # {} /\ (\A x \in T : T \ {x} \in P) => T \in P
  PROVE  SUBSET S \subseteq P
<1>. DEFINE Bad == (SUBSET S) \ P
            R == StrictSubsetOrdering(S)
<1>. SUFFICES ASSUME Bad # {} PROVE FALSE
  OBVIOUS
<1>1. IsWellFoundedOn(R, SUBSET S)
  BY FS_StrictSubsetOrderingWellFounded, FS_FiniteSubsetsOfFinite
<1>2. PICK T \in Bad : \A U \in Bad : <<U, T>> \notin R
  <2>1. Bad \subseteq SUBSET S
    OBVIOUS
  <2>. HIDE DEF Bad, R
  <2>. QED BY <1>1, <2>1, WFMin
<1>3. T \in SUBSET S /\ T \notin P /\ T # {}
  BY <1>2
<1>4. ASSUME NEW x \in T PROVE T \ {x} \in P
  <2>1. T \ {x} \in SUBSET S /\ T \ {x} \subseteq T /\ T \ {x} # T
    BY <1>3, <1>4
  <2>2. <<T \ {x}, T>> \in R
    BY <1>3, <2>1 DEF StrictSubsetOrdering
  <2>. QED BY <1>2, <2>1, <2>2
<1>. QED BY <1>3, <1>4

LEMMA NatSetInduction ==
  ASSUME NEW P, 0 \in P, \A n \in Nat : n \in P => n + 1 \in P
  PROVE  Nat \subseteq P
<1>. DEFINE Bad == Nat \ P
            R == OpToRel(<, Nat)
<1>. SUFFICES ASSUME Bad # {} PROVE FALSE
  OBVIOUS
<1>1. IsWellFoundedOn(R, Nat)
  BY NatLessThanWellFounded
<1>2. PICK n \in Bad : \A m \in Bad : <<m, n>> \notin R
  <2>1. Bad \subseteq Nat
    OBVIOUS
  <2>. HIDE DEF Bad, R
  <2>. QED BY <1>1, <2>1, WFMin
<1>3. n \in Nat /\ n \notin P /\ n # 0 /\ n - 1 \in Nat /\ (n - 1) + 1 = n
  <2>. HIDE DEF R
  <2>. QED BY <1>2
<1>4. <<n - 1, n>> \in R
  BY <1>3 DEF OpToRel
<1>5. n - 1 \in P
  BY <1>2, <1>3, <1>4
<1>. QED BY <1>3, <1>5

(* A choice of elements, and a recursion that takes them away.             *)
Picks(pick, S) == \A T \in SUBSET S : T # {} => pick[T] \in T

Recurses(g, S, base, pick, step) ==
  \A T \in SUBSET S :
    g[T] = IF T = {} THEN base ELSE step[pick[T]][g[T \ {pick[T]}]]

(* A recursion over the subsets of a finite set has a solution: it is      *)
(* built up by the number of elements.                                     *)
LEMMA SetRecursion ==
  ASSUME NEW S, IsFiniteSet(S), NEW Y, NEW base \in Y,
         NEW pick, Picks(pick, S), NEW step \in [S -> [Y -> Y]]
  PROVE  \E g \in [SUBSET S -> Y] : Recurses(g, S, base, pick, step)
<1>. USE DEF Picks
<1>. DEFINE Eq(g, T) == g[T] = IF T = {} THEN base ELSE step[pick[T]][g[T \ {pick[T]}]]
            Upto(g, n) == \A T \in SUBSET S : Cardinality(T) <= n => Eq(g, T)
            P == {n \in Nat : \E g \in [SUBSET S -> Y] : Upto(g, n)}
<1>0. \A T \in SUBSET S : Cardinality(T) \in Nat /\ (Cardinality(T) = 0 <=> T = {})
  BY FS_Subset, FS_CardinalityType, FS_EmptySet
<1>1. 0 \in P
  <2>1. \A T \in SUBSET S : Cardinality(T) <= 0 => T = {}
    BY <1>0
  <2>2. [T \in SUBSET S |-> base] \in [SUBSET S -> Y]
    OBVIOUS
  <2>3. Upto([T \in SUBSET S |-> base], 0)
    BY <2>1
  <2>. QED BY <2>2, <2>3
<1>2. ASSUME NEW n \in Nat, n \in P PROVE n + 1 \in P
  <2>1. PICK g \in [SUBSET S -> Y] : Upto(g, n)
    BY <1>2
  <2>. DEFINE h == [T \in SUBSET S |->
                      IF T = {} THEN base ELSE step[pick[T]][g[T \ {pick[T]}]]]
  <2>2. h \in [SUBSET S -> Y]
    <3>1. ASSUME NEW T \in SUBSET S, T # {} PROVE step[pick[T]][g[T \ {pick[T]}]] \in Y
      <4>1. pick[T] \in S /\ T \ {pick[T]} \in SUBSET S
        BY <3>1
      <4>2. g[T \ {pick[T]}] \in Y /\ step[pick[T]] \in [Y -> Y]
        BY <4>1
      <4>. QED BY <4>2
    <3>. QED BY <3>1
  <2>3. \A T \in SUBSET S : Cardinality(T) <= n => h[T] = g[T]
    BY <2>1
  <2>4. ASSUME NEW T \in SUBSET S, Cardinality(T) <= n + 1 PROVE Eq(h, T)
    <3>1. CASE T = {}
      BY <3>1
    <3>2. CASE T # {}
      <4>1. pick[T] \in T /\ T \ {pick[T]} \in SUBSET S
        BY <3>2
      <4>2. Cardinality(T \ {pick[T]}) = Cardinality(T) - 1
        BY <4>1, FS_RemoveElement, FS_Subset
      <4>3. Cardinality(T \ {pick[T]}) <= n
        BY <1>0, <2>4, <4>2
      <4>4. h[T \ {pick[T]}] = g[T \ {pick[T]}]
        BY <2>3, <4>1, <4>3
      <4>. QED BY <3>2, <4>4
    <3>. QED BY <3>1, <3>2
  <2>. HIDE DEF h
  <2>5. Upto(h, n + 1)
    BY <2>4
  <2>6. n + 1 \in Nat
    OBVIOUS
  <2>. HIDE DEF Upto
  <2>. QED BY <2>2, <2>5, <2>6
<1>3. Cardinality(S) \in P
  <2>. HIDE DEF P
  <2>. QED BY <1>1, <1>2, NatSetInduction, FS_CardinalityType
<1>4. PICK g \in [SUBSET S -> Y] : Upto(g, Cardinality(S))
  BY <1>3
<1>5. \A T \in SUBSET S : Cardinality(T) <= Cardinality(S)
  BY FS_Subset
<1>. QED BY <1>4, <1>5 DEF Recurses

-----------------------------------------------------------------------------
(* Sums of a function over a finite set.                                   *)

Summable(f, S) == IsFiniteSet(S) /\ \A x \in S : f[x] \in Int

(* The equation of the recursive function that SumFunctionOnSet applies.   *)
Sums(g, f, S) ==
  g = [s \in SUBSET S |->
         IF s = {} THEN 0
         ELSE f[CHOOSE x \in s : TRUE] + g[s \ {CHOOSE x \in s : TRUE}]]

LEMMA SumIsChosen ==
  ASSUME NEW f, NEW S
  PROVE  SumFunctionOnSet(f, S) = (CHOOSE g : Sums(g, f, S))[S]
BY Zenon DEF SumFunctionOnSet, FoldFunctionOnSet, MapThenFoldSet, Sums

LEMMA SumsExist ==
  ASSUME NEW f, NEW S, Summable(f, S)
  PROVE  \E g \in [SUBSET S -> Int] : Sums(g, f, S)
<1>. DEFINE pick == [s \in SUBSET S |-> CHOOSE x \in s : TRUE]
            step == [x \in S |-> [y \in Int |-> f[x] + y]]
<1>1. \A T \in SUBSET S : T # {} => pick[T] \in T /\ pick[T] = CHOOSE x \in T : TRUE
  OBVIOUS
<1>2. step \in [S -> [Int -> Int]]
  BY DEF Summable
<1>3. \A x \in S, y \in Int : step[x][y] = f[x] + y
  OBVIOUS
<1>. HIDE DEF pick, step
<1>4. IsFiniteSet(S) /\ 0 \in Int /\ Picks(pick, S)
  BY <1>1 DEF Summable, Picks
<1>5. PICK g \in [SUBSET S -> Int] : Recurses(g, S, 0, pick, step)
  BY <1>2, <1>4, SetRecursion
<1>6. ASSUME NEW T \in SUBSET S
      PROVE  g[T] = IF T = {} THEN 0
                    ELSE f[CHOOSE x \in T : TRUE] + g[T \ {CHOOSE x \in T : TRUE}]
  <2>1. CASE T = {}
    BY <1>5, <2>1 DEF Recurses
  <2>2. CASE T # {}
    <3>1. pick[T] \in S /\ T \ {pick[T]} \in SUBSET S
      BY <1>1, <2>2
    <3>2. g[T \ {pick[T]}] \in Int
      BY <3>1
    <3>3. g[T] = f[pick[T]] + g[T \ {pick[T]}]
      BY <1>3, <1>5, <2>2, <3>1, <3>2 DEF Recurses
    <3>. QED BY <1>1, <2>2, <3>3
  <2>. QED BY <2>1, <2>2
<1>. QED BY <1>6 DEF Sums

(* Solutions for two sets agree where they are both defined.               *)
LEMMA SumsAgree ==
  ASSUME NEW f, NEW S, IsFiniteSet(S), NEW T \in SUBSET S,
         NEW g, NEW h, Sums(g, f, S), Sums(h, f, T)
  PROVE  \A U \in SUBSET T : g[U] = h[U]
<1>. DEFINE P == {U \in SUBSET T : g[U] = h[U]}
<1>1. \A U \in SUBSET T :
        /\ g[U] = IF U = {} THEN 0
                  ELSE f[CHOOSE x \in U : TRUE] + g[U \ {CHOOSE x \in U : TRUE}]
        /\ h[U] = IF U = {} THEN 0
                  ELSE f[CHOOSE x \in U : TRUE] + h[U \ {CHOOSE x \in U : TRUE}]
  <2>1. \A U \in SUBSET T :
          g[U] = IF U = {} THEN 0
                 ELSE f[CHOOSE x \in U : TRUE] + g[U \ {CHOOSE x \in U : TRUE}]
    BY DEF Sums
  <2>2. \A U \in SUBSET T :
          h[U] = IF U = {} THEN 0
                 ELSE f[CHOOSE x \in U : TRUE] + h[U \ {CHOOSE x \in U : TRUE}]
    BY DEF Sums
  <2>. QED BY <2>1, <2>2
<1>2. {} \in P
  BY <1>1
<1>3. ASSUME NEW U \in SUBSET T, U # {}, \A x \in U : U \ {x} \in P PROVE U \in P
  <2>1. (CHOOSE x \in U : TRUE) \in U
    BY <1>3
  <2>. QED BY <1>1, <1>3, <2>1
<1>4. IsFiniteSet(T)
  BY FS_Subset
<1>5. SUBSET T \subseteq P
  <2>. HIDE DEF P
  <2>. QED BY <1>2, <1>3, <1>4, SubsetInduction
<1>. QED BY <1>5

(* Hence one solution gives the sums over all the subsets.                 *)
LEMMA SumsAreSums ==
  ASSUME NEW f, NEW S, Summable(f, S), NEW g, Sums(g, f, S)
  PROVE  \A T \in SUBSET S : SumFunctionOnSet(f, T) = g[T]
<1>. SUFFICES ASSUME NEW T \in SUBSET S PROVE SumFunctionOnSet(f, T) = g[T]
  OBVIOUS
<1>1. Summable(f, T) /\ IsFiniteSet(S)
  BY FS_Subset DEF Summable
<1>2. \E h : Sums(h, f, T)
  BY <1>1, SumsExist
<1>. DEFINE h == CHOOSE h : Sums(h, f, T)
<1>3. Sums(h, f, T)
  BY <1>2, Zenon
<1>4. SumFunctionOnSet(f, T) = h[T]
  BY SumIsChosen, Zenon
<1>. HIDE DEF h
<1>5. g[T] = h[T]
  BY <1>1, <1>3, SumsAgree
<1>. QED BY <1>4, <1>5

LEMMA SumEmpty == ASSUME NEW f PROVE SumFunctionOnSet(f, {}) = 0
<1>1. Summable(f, {})
  BY FS_EmptySet DEF Summable
<1>2. PICK g \in [SUBSET {} -> Int] : Sums(g, f, {})
  BY <1>1, SumsExist
<1>3. SumFunctionOnSet(f, {}) = g[{}]
  BY <1>1, <1>2, SumsAreSums
<1>4. g[{}] = 0
  BY <1>2 DEF Sums
<1>. QED BY <1>3, <1>4

LEMMA SumType ==
  ASSUME NEW f, NEW S, Summable(f, S)
  PROVE  SumFunctionOnSet(f, S) \in Int
<1>1. PICK g \in [SUBSET S -> Int] : Sums(g, f, S)
  BY SumsExist
<1>2. SumFunctionOnSet(f, S) = g[S]
  BY <1>1, SumsAreSums
<1>. QED BY <1>1, <1>2

(* Whichever element is taken away, not only the one that is chosen.       *)
LEMMA SumRemove ==
  ASSUME NEW f, NEW S, Summable(f, S), NEW x \in S
  PROVE  SumFunctionOnSet(f, S) = f[x] + SumFunctionOnSet(f, S \ {x})
<1>1. PICK g \in [SUBSET S -> Int] : Sums(g, f, S)
  BY SumsExist
<1>. DEFINE P == {T \in SUBSET S : \A y \in T : g[T] = f[y] + g[T \ {y}]}
<1>2. {} \in P
  OBVIOUS
<1>3. ASSUME NEW T \in SUBSET S, T # {}, \A y \in T : T \ {y} \in P PROVE T \in P
  <2>. SUFFICES ASSUME NEW y \in T PROVE g[T] = f[y] + g[T \ {y}]
    OBVIOUS
  <2>. DEFINE c == CHOOSE z \in T : TRUE
  <2>1. c \in T
    BY <1>3
  <2>2. g[T] = f[c] + g[T \ {c}]
    BY <1>1, <1>3 DEF Sums
  <2>. HIDE DEF c
  <2>3. CASE y = c
    BY <2>2, <2>3
  <2>4. CASE y # c
    <3>1. y \in T \ {c} /\ c \in T \ {y} /\ (T \ {c}) \ {y} = (T \ {y}) \ {c}
      BY <2>1, <2>4
    <3>2. g[T \ {c}] = f[y] + g[(T \ {c}) \ {y}]
      BY <1>3, <2>1, <3>1
    <3>3. g[T \ {y}] = f[c] + g[(T \ {c}) \ {y}]
      BY <1>3, <3>1
    <3>4. f[y] \in Int /\ f[c] \in Int /\ g[(T \ {c}) \ {y}] \in Int
      BY <1>1, <2>1 DEF Summable
    <3>. QED BY <2>2, <3>2, <3>3, <3>4
  <2>. QED BY <2>3, <2>4
<1>4. S \in P
  <2>1. IsFiniteSet(S)
    BY DEF Summable
  <2>. HIDE DEF P
  <2>2. SUBSET S \subseteq P
    BY <1>2, <1>3, <2>1, SubsetInduction
  <2>. QED BY <2>2
<1>5. SumFunctionOnSet(f, S) = g[S] /\ SumFunctionOnSet(f, S \ {x}) = g[S \ {x}]
  BY <1>1, SumsAreSums
<1>. QED BY <1>4, <1>5

LEMMA SumSubset ==
  ASSUME NEW f, NEW S, Summable(f, S), NEW T \in SUBSET S
  PROVE  Summable(f, T) /\ SumFunctionOnSet(f, T) \in Int
<1>1. Summable(f, T)
  BY FS_Subset DEF Summable
<1>. QED BY <1>1, SumType

(* A bound on every term, in the ratio c to d, is a bound on the sums.     *)
LEMMA SumBound ==
  ASSUME NEW f, NEW g, NEW S, Summable(f, S), Summable(g, S),
         NEW c \in Int, NEW d \in Int, \A x \in S : d * f[x] <= c * g[x]
  PROVE  d * SumFunctionOnSet(f, S) <= c * SumFunctionOnSet(g, S)
<1>. DEFINE P == {T \in SUBSET S : d * SumFunctionOnSet(f, T) <= c * SumFunctionOnSet(g, T)}
<1>1. {} \in P
  BY SumEmpty
<1>2. ASSUME NEW T \in SUBSET S, T # {}, \A x \in T : T \ {x} \in P PROVE T \in P
  <2>1. PICK x \in T : TRUE
    BY <1>2
  <2>. DEFINE F == SumFunctionOnSet(f, T \ {x})
              G == SumFunctionOnSet(g, T \ {x})
  <2>2. Summable(f, T) /\ Summable(g, T) /\ F \in Int /\ G \in Int
    BY SumSubset
  <2>3. SumFunctionOnSet(f, T) = f[x] + F /\ SumFunctionOnSet(g, T) = g[x] + G
    BY <2>2, SumRemove
  <2>4. f[x] \in Int /\ g[x] \in Int /\ d * f[x] <= c * g[x] /\ d * F <= c * G
    BY <1>2 DEF Summable
  <2>. HIDE DEF F, G
  <2>5. /\ d * (f[x] + F) = d * f[x] + d * F
        /\ c * (g[x] + G) = c * g[x] + c * G
        /\ d * f[x] \in Int /\ d * F \in Int /\ c * g[x] \in Int /\ c * G \in Int
    BY <2>2, <2>4
  <2>6. d * f[x] + d * F <= c * g[x] + c * G
    BY <2>4, <2>5
  <2>. QED BY <2>3, <2>5, <2>6
<1>3. SUBSET S \subseteq P
  <2>1. IsFiniteSet(S)
    BY DEF Summable
  <2>. HIDE DEF P
  <2>. QED BY <1>1, <1>2, <2>1, SubsetInduction
<1>. QED BY <1>3

LEMMA SumMonotone ==
  ASSUME NEW f, NEW g, NEW S, Summable(f, S), Summable(g, S),
         \A x \in S : f[x] <= g[x]
  PROVE  SumFunctionOnSet(f, S) <= SumFunctionOnSet(g, S)
<1>1. \A x \in S : 1 * f[x] <= 1 * g[x]
  BY DEF Summable
<1>2. 1 * SumFunctionOnSet(f, S) <= 1 * SumFunctionOnSet(g, S)
  BY <1>1, SumBound
<1>. QED BY <1>2, SumType

LEMMA SumAgree ==
  ASSUME NEW f, NEW g, NEW S, Summable(f, S), \A x \in S : f[x] = g[x]
  PROVE  SumFunctionOnSet(f, S) = SumFunctionOnSet(g, S)
<1>1. Summable(g, S) /\ \A x \in S : f[x] <= g[x] /\ g[x] <= f[x]
  BY DEF Summable
<1>2. /\ SumFunctionOnSet(f, S) <= SumFunctionOnSet(g, S)
      /\ SumFunctionOnSet(g, S) <= SumFunctionOnSet(f, S)
  BY <1>1, SumMonotone
<1>. QED BY <1>1, <1>2, SumType

LEMMA SumZero ==
  ASSUME NEW f, NEW S, IsFiniteSet(S), \A x \in S : f[x] = 0
  PROVE  SumFunctionOnSet(f, S) = 0
<1>1. Summable(f, S) /\ \A x \in S : 1 * f[x] <= 0 * f[x] /\ 0 * f[x] <= 1 * f[x]
  BY DEF Summable
<1>2. /\ 1 * SumFunctionOnSet(f, S) <= 0 * SumFunctionOnSet(f, S)
      /\ 0 * SumFunctionOnSet(f, S) <= 1 * SumFunctionOnSet(f, S)
  BY <1>1, SumBound
<1>. QED BY <1>1, <1>2, SumType

LEMMA SumNat ==
  ASSUME NEW f, NEW S, IsFiniteSet(S), \A x \in S : f[x] \in Nat
  PROVE  Summable(f, S) /\ SumFunctionOnSet(f, S) \in Nat
<1>1. Summable(f, S) /\ \A x \in S : 0 * f[x] <= 1 * f[x]
  BY DEF Summable
<1>2. 0 * SumFunctionOnSet(f, S) <= 1 * SumFunctionOnSet(f, S)
  BY <1>1, SumBound
<1>. QED BY <1>1, <1>2, SumType

LEMMA SumMember ==
  ASSUME NEW f, NEW S, IsFiniteSet(S), \A x \in S : f[x] \in Nat, NEW x \in S
  PROVE  f[x] <= SumFunctionOnSet(f, S)
<1>1. Summable(f, S)
  BY SumNat
<1>2. SumFunctionOnSet(f, S) = f[x] + SumFunctionOnSet(f, S \ {x})
  BY <1>1, SumRemove
<1>3. IsFiniteSet(S \ {x}) /\ \A y \in S \ {x} : f[y] \in Nat
  BY FS_Subset
<1>4. SumFunctionOnSet(f, S \ {x}) \in Nat
  BY <1>3, SumNat
<1>. QED BY <1>2, <1>4

(* A function that differs in one place.                                   *)
LEMMA SumUpdate ==
  ASSUME NEW f, NEW g, NEW S, Summable(f, S), Summable(g, S), NEW x \in S,
         \A y \in S \ {x} : g[y] = f[y]
  PROVE  SumFunctionOnSet(g, S) = SumFunctionOnSet(f, S) + g[x] - f[x]
<1>1. /\ SumFunctionOnSet(f, S) = f[x] + SumFunctionOnSet(f, S \ {x})
      /\ SumFunctionOnSet(g, S) = g[x] + SumFunctionOnSet(g, S \ {x})
  BY SumRemove
<1>2. Summable(f, S \ {x}) /\ SumFunctionOnSet(f, S \ {x}) \in Int
  BY SumSubset
<1>3. SumFunctionOnSet(f, S \ {x}) = SumFunctionOnSet(g, S \ {x})
  BY <1>2, SumAgree
<1>4. f[x] \in Int /\ g[x] \in Int
  BY DEF Summable
<1>. QED BY <1>1, <1>2, <1>3, <1>4

LEMMA SumAdd ==
  ASSUME NEW f, NEW g, NEW h, NEW S, Summable(f, S), Summable(g, S),
         \A x \in S : h[x] = f[x] + g[x]
  PROVE  SumFunctionOnSet(h, S) = SumFunctionOnSet(f, S) + SumFunctionOnSet(g, S)
<1>. DEFINE P == {T \in SUBSET S :
                    SumFunctionOnSet(h, T) = SumFunctionOnSet(f, T) + SumFunctionOnSet(g, T)}
<1>0. Summable(h, S)
  BY DEF Summable
<1>1. {} \in P
  BY SumEmpty
<1>2. ASSUME NEW T \in SUBSET S, T # {}, \A x \in T : T \ {x} \in P PROVE T \in P
  <2>1. PICK x \in T : TRUE
    BY <1>2
  <2>2. /\ Summable(f, T) /\ SumFunctionOnSet(f, T \ {x}) \in Int
        /\ Summable(g, T) /\ SumFunctionOnSet(g, T \ {x}) \in Int
        /\ Summable(h, T) /\ SumFunctionOnSet(h, T \ {x}) \in Int
    BY <1>0, SumSubset
  <2>3. /\ SumFunctionOnSet(f, T) = f[x] + SumFunctionOnSet(f, T \ {x})
        /\ SumFunctionOnSet(g, T) = g[x] + SumFunctionOnSet(g, T \ {x})
        /\ SumFunctionOnSet(h, T) = h[x] + SumFunctionOnSet(h, T \ {x})
    BY <2>2, SumRemove
  <2>4. f[x] \in Int /\ g[x] \in Int /\ h[x] = f[x] + g[x]
    BY DEF Summable
  <2>5. SumFunctionOnSet(h, T \ {x})
          = SumFunctionOnSet(f, T \ {x}) + SumFunctionOnSet(g, T \ {x})
    BY <1>2
  <2>. QED BY <2>2, <2>3, <2>4, <2>5
<1>3. SUBSET S \subseteq P
  <2>1. IsFiniteSet(S)
    BY DEF Summable
  <2>. HIDE DEF P
  <2>. QED BY <1>1, <1>2, <2>1, SubsetInduction
<1>. QED BY <1>3

(* A sum over a part is the sum of what is 0 outside of it.                *)
LEMMA SumOfPart ==
  ASSUME NEW f, NEW g, NEW S, Summable(f, S), NEW T \in SUBSET S,
         \A x \in S : g[x] = IF x \in T THEN f[x] ELSE 0
  PROVE  Summable(g, S) /\ SumFunctionOnSet(g, S) = SumFunctionOnSet(f, T)
<1>. DEFINE P == {U \in SUBSET S :
                    SumFunctionOnSet(g, U) = SumFunctionOnSet(f, U \cap T)}
<1>0. Summable(g, S)
  BY DEF Summable
<1>1. {} \in P
  <2>1. {} \cap T = {}
    OBVIOUS
  <2>. QED BY <2>1, SumEmpty
<1>2. ASSUME NEW U \in SUBSET S, U # {}, \A x \in U : U \ {x} \in P PROVE U \in P
  <2>1. PICK x \in U : TRUE
    BY <1>2
  <2>2. SumFunctionOnSet(g, U) = g[x] + SumFunctionOnSet(g, U \ {x})
    BY <1>0, SumSubset, SumRemove
  <2>3. SumFunctionOnSet(g, U \ {x}) = SumFunctionOnSet(f, (U \ {x}) \cap T)
    BY <1>2
  <2>4. SumFunctionOnSet(f, (U \ {x}) \cap T) \in Int
    BY SumSubset
  <2>5. CASE x \in T
    <3>1. x \in U \cap T /\ (U \ {x}) \cap T = (U \cap T) \ {x} /\ g[x] = f[x]
      BY <2>5
    <3>2. Summable(f, U \cap T)
      BY SumSubset
    <3>3. SumFunctionOnSet(f, U \cap T) = f[x] + SumFunctionOnSet(f, (U \cap T) \ {x})
      BY <3>1, <3>2, SumRemove
    <3>. QED BY <2>2, <2>3, <3>1, <3>3
  <2>6. CASE x \notin T
    <3>1. (U \ {x}) \cap T = U \cap T /\ g[x] = 0
      BY <2>6
    <3>2. SumFunctionOnSet(g, U) = SumFunctionOnSet(f, (U \ {x}) \cap T)
      BY <2>2, <2>3, <2>4, <3>1
    <3>. QED BY <3>1, <3>2
  <2>. QED BY <2>5, <2>6
<1>3. SUBSET S \subseteq P
  <2>1. IsFiniteSet(S)
    BY DEF Summable
  <2>. HIDE DEF P
  <2>. QED BY <1>1, <1>2, <2>1, SubsetInduction
<1>4. S \cap T = T
  OBVIOUS
<1>. QED BY <1>0, <1>3, <1>4

(* A sum over a set is the sum over a part and that over the rest.         *)
LEMMA SumSplit ==
  ASSUME NEW f, NEW S, Summable(f, S), NEW T \in SUBSET S
  PROVE  /\ SumFunctionOnSet(f, S) = SumFunctionOnSet(f, T) + SumFunctionOnSet(f, S \ T)
         /\ SumFunctionOnSet(f, T) \in Int /\ SumFunctionOnSet(f, S \ T) \in Int
<1>. DEFINE g == [x \in S |-> IF x \in T THEN f[x] ELSE 0]
            h == [x \in S |-> IF x \in S \ T THEN f[x] ELSE 0]
<1>1. /\ \A x \in S : g[x] = IF x \in T THEN f[x] ELSE 0
      /\ \A x \in S : h[x] = IF x \in S \ T THEN f[x] ELSE 0
      /\ S \ T \in SUBSET S
  OBVIOUS
<1>2. \A x \in S : f[x] = g[x] + h[x]
  BY DEF Summable
<1>. HIDE DEF g, h
<1>3. Summable(g, S) /\ SumFunctionOnSet(g, S) = SumFunctionOnSet(f, T)
  BY <1>1, SumOfPart
<1>4. Summable(h, S) /\ SumFunctionOnSet(h, S) = SumFunctionOnSet(f, S \ T)
  BY <1>1, SumOfPart
<1>5. SumFunctionOnSet(f, S) = SumFunctionOnSet(g, S) + SumFunctionOnSet(h, S)
  BY <1>2, <1>3, <1>4, SumAdd
<1>6. SumFunctionOnSet(f, T) \in Int /\ SumFunctionOnSet(f, S \ T) \in Int
  BY <1>1, SumSubset
<1>. QED BY <1>3, <1>4, <1>5, <1>6

LEMMA SumOfConstant ==
  ASSUME NEW f, NEW S, IsFiniteSet(S), NEW c \in Int, \A x \in S : f[x] = c
  PROVE  SumFunctionOnSet(f, S) = c * Cardinality(S)
<1>. DEFINE P == {T \in SUBSET S : SumFunctionOnSet(f, T) = c * Cardinality(T)}
<1>0. Summable(f, S)
  BY DEF Summable
<1>1. {} \in P
  BY SumEmpty, FS_EmptySet
<1>2. ASSUME NEW T \in SUBSET S, T # {}, \A x \in T : T \ {x} \in P PROVE T \in P
  <2>1. PICK x \in T : TRUE
    BY <1>2
  <2>2. SumFunctionOnSet(f, T) = c + SumFunctionOnSet(f, T \ {x})
    BY <1>0, SumSubset, SumRemove
  <2>3. IsFiniteSet(T) /\ Cardinality(T) \in Nat /\ Cardinality(T \ {x}) = Cardinality(T) - 1
    BY FS_Subset, FS_CardinalityType, FS_RemoveElement
  <2>4. SumFunctionOnSet(f, T \ {x}) = c * Cardinality(T \ {x})
    BY <1>2
  <2>. QED BY <2>2, <2>3, <2>4
<1>3. SUBSET S \subseteq P
  <2>. HIDE DEF P
  <2>. QED BY <1>1, <1>2, SubsetInduction
<1>. QED BY <1>3
-----------------------------------------------------------------------------
(* Least and greatest elements.                                            *)

(* A finite set has a least element of any total order.                    *)
LEMMA FiniteMinimum ==
  ASSUME NEW S, IsFiniteSet(S), S # {}, NEW R,
         \A x, y \in S : <<x, y>> \in R \/ <<y, x>> \in R,
         \A x, y, z \in S : <<x, y>> \in R /\ <<y, z>> \in R => <<x, z>> \in R
  PROVE  \E x \in S : \A y \in S : <<x, y>> \in R
<1>. DEFINE P == {T \in SUBSET S : T # {} => \E x \in T : \A y \in T : <<x, y>> \in R}
<1>1. {} \in P
  OBVIOUS
<1>2. ASSUME NEW T \in SUBSET S, T # {}, \A x \in T : T \ {x} \in P PROVE T \in P
  <2>1. PICK x \in T : TRUE
    BY <1>2
  <2>2. CASE T \ {x} = {}
    <3>1. \A y \in T : y = x
      BY <2>2
    <3>2. \A y \in T : <<x, y>> \in R
      BY <2>1, <3>1
    <3>. QED BY <1>2, <3>2
  <2>3. CASE T \ {x} # {}
    <3>1. PICK z \in T \ {x} : \A y \in T \ {x} : <<z, y>> \in R
      BY <1>2, <2>1, <2>3
    <3>2. CASE <<z, x>> \in R
      BY <3>1, <3>2
    <3>3. CASE <<x, z>> \in R
      <4>1. \A y \in T \ {x} : <<x, y>> \in R
        BY <3>1, <3>3
      <4>2. <<x, x>> \in R
        BY <2>1
      <4>. QED BY <4>1, <4>2
    <3>. QED BY <3>1, <3>2, <3>3
  <2>. QED BY <2>2, <2>3
<1>3. S \in P
  <2>. HIDE DEF P
  <2>1. SUBSET S \subseteq P
    BY <1>1, <1>2, SubsetInduction
  <2>. QED BY <2>1
<1>. QED BY <1>3

LEMMA GreatestNumber ==
  ASSUME NEW S, IsFiniteSet(S), S # {}, S \subseteq Int
  PROVE  Max(S) \in S /\ \A y \in S : y <= Max(S)
<1>. DEFINE R == {p \in S \X S : p[1] >= p[2]}
<1>1. \A x, y \in S : <<x, y>> \in R <=> x >= y
  OBVIOUS
<1>2. \E x \in S : \A y \in S : <<x, y>> \in R
  <2>. HIDE DEF R
  <2>1. \A x, y \in S : <<x, y>> \in R \/ <<y, x>> \in R
    <3>1. \A x, y \in S : x >= y \/ y >= x
      OBVIOUS
    <3>. QED BY <1>1, <3>1
  <2>2. \A x, y, z \in S : <<x, y>> \in R /\ <<y, z>> \in R => <<x, z>> \in R
    <3>1. \A x, y, z \in S : x >= y /\ y >= z => x >= z
      OBVIOUS
    <3>. QED BY <1>1, <3>1
  <2>. QED BY <2>1, <2>2, FiniteMinimum
<1>3. \E x \in S : \A y \in S : x >= y
  BY <1>1, <1>2
<1>4. Max(S) \in S /\ \A y \in S : Max(S) >= y
  BY <1>3 DEF Max
<1>. QED BY <1>4

-----------------------------------------------------------------------------
(* Folds over sequences.  The operator that is folded is given as a        *)
(* function F of two arguments, on a set Y that it does not leave.         *)

Foldable(Y, E, F, base) == F \in [Y -> [E -> Y]] /\ base \in Y

IsFold(g, Y, F, base, s) ==
  \A t \in SUBSET (DOMAIN s) :
    IF t = {} THEN g[t] = base
    ELSE g[t \ {Max(t)}] \in Y => g[t] = F[g[t \ {Max(t)}]][s[Max(t)]]

Folded(Y, F, base, s) == (CHOOSE g : IsFold(g, Y, F, base, s))[DOMAIN s]

(* One sequence goes on where another one ends.                            *)
Continues(s, r) ==
  DOMAIN r \subseteq DOMAIN s /\ \A i \in DOMAIN r : r[i] = s[i]

LEMMA LastIndex ==
  ASSUME NEW s, NEW E, s \in Seq(E), NEW t \in SUBSET (DOMAIN s), t # {}
  PROVE  /\ IsFiniteSet(DOMAIN s)
         /\ Max(t) \in t /\ s[Max(t)] \in E /\ t \ {Max(t)} \in SUBSET (DOMAIN s)
<1>1. DOMAIN s = 1..Len(s) /\ Len(s) \in Nat
  OBVIOUS
<1>2. IsFiniteSet(DOMAIN s)
  BY <1>1, FS_Interval
<1>3. IsFiniteSet(t) /\ t \subseteq Int
  BY <1>1, <1>2, FS_Subset
<1>4. Max(t) \in t
  BY <1>3, GreatestNumber
<1>. QED BY <1>2, <1>4

LEMMA FoldExists ==
  ASSUME NEW Y, NEW E, NEW F, NEW base, Foldable(Y, E, F, base), NEW s \in Seq(E)
  PROVE  \E g \in [SUBSET (DOMAIN s) -> Y] : IsFold(g, Y, F, base, s)
<1>. DEFINE D == DOMAIN s
            pick == [t \in SUBSET D |-> Max(t)]
            step == [i \in D |-> [y \in Y |-> F[y][s[i]]]]
<1>1. IsFiniteSet(D)
  <2>1. D = 1..Len(s) /\ Len(s) \in Nat
    OBVIOUS
  <2>. QED BY <2>1, FS_Interval
<1>2. \A t \in SUBSET D : t # {} => Max(t) \in t /\ s[Max(t)] \in E
  BY LastIndex
<1>3. Picks(pick, D)
  BY <1>2 DEF Picks
<1>4. step \in [D -> [Y -> Y]]
  <2>1. \A i \in D : s[i] \in E
    OBVIOUS
  <2>. QED BY <2>1 DEF Foldable
<1>5. \A t \in SUBSET D : pick[t] = Max(t)
  OBVIOUS
<1>6. \A i \in D, y \in Y : step[i][y] = F[y][s[i]]
  OBVIOUS
<1>. HIDE DEF D, pick, step
<1>7. PICK g \in [SUBSET D -> Y] : Recurses(g, D, base, pick, step)
  BY <1>1, <1>3, <1>4, SetRecursion DEF Foldable
<1>8. \A t \in SUBSET D : t # {} => g[t] = F[g[t \ {Max(t)}]][s[Max(t)]]
  <2>. SUFFICES ASSUME NEW t \in SUBSET D, t # {}
                PROVE  g[t] = F[g[t \ {Max(t)}]][s[Max(t)]]
    OBVIOUS
  <2>1. g[t] = step[Max(t)][g[t \ {Max(t)}]]
    BY <1>5, <1>7 DEF Recurses
  <2>2. Max(t) \in D /\ t \ {Max(t)} \in SUBSET D
    BY <1>2
  <2>. QED BY <1>6, <2>1, <2>2
<1>9. g[{}] = base
  BY <1>7 DEF Recurses
<1>10. IsFold(g, Y, F, base, s)
  BY <1>8, <1>9 DEF IsFold, D
<1>. QED BY <1>10 DEF D

(* Two folds over sequences of which one continues the other agree on what *)
(* the sequences share.                                                    *)
LEMMA FoldsAgree ==
  ASSUME NEW Y, NEW E, NEW F, NEW base, Foldable(Y, E, F, base),
         NEW s \in Seq(E), NEW r \in Seq(E), Continues(s, r),
         NEW g, IsFold(g, Y, F, base, s), NEW h, IsFold(h, Y, F, base, r)
  PROVE  \A t \in SUBSET (DOMAIN r) : g[t] = h[t] /\ h[t] \in Y
<1>. DEFINE D == DOMAIN r
            P == {t \in SUBSET D : g[t] = h[t] /\ h[t] \in Y}
<1>1. {} \in P
  <2>1. g[{}] = base /\ h[{}] = base
    BY DEF IsFold
  <2>. QED BY <2>1 DEF Foldable
<1>2. ASSUME NEW t \in SUBSET D, t # {}, \A i \in t : t \ {i} \in P PROVE t \in P
  <2>1. Max(t) \in t /\ r[Max(t)] \in E /\ s[Max(t)] = r[Max(t)]
    BY <1>2, LastIndex DEF Continues
  <2>2. g[t \ {Max(t)}] = h[t \ {Max(t)}] /\ h[t \ {Max(t)}] \in Y
    BY <1>2, <2>1
  <2>3. /\ g[t] = F[h[t \ {Max(t)}]][r[Max(t)]]
        /\ h[t] = F[h[t \ {Max(t)}]][r[Max(t)]]
    BY <1>2, <2>1, <2>2 DEF IsFold, Continues
  <2>4. F[h[t \ {Max(t)}]][r[Max(t)]] \in Y
    BY <2>1, <2>2 DEF Foldable
  <2>. QED BY <2>3, <2>4
<1>3. IsFiniteSet(D)
  <2>1. D = 1..Len(r) /\ Len(r) \in Nat
    OBVIOUS
  <2>. QED BY <2>1, FS_Interval
<1>4. SUBSET D \subseteq P
  <2>. HIDE DEF D, P
  <2>. QED BY <1>1, <1>2, <1>3, SubsetInduction
<1>. QED BY <1>4

LEMMA FoldIsFolded ==
  ASSUME NEW Y, NEW E, NEW F, NEW base, Foldable(Y, E, F, base), NEW s \in Seq(E),
         NEW g, IsFold(g, Y, F, base, s)
  PROVE  Folded(Y, F, base, s) = g[DOMAIN s] /\ g[DOMAIN s] \in Y
<1>. DEFINE h == CHOOSE h : IsFold(h, Y, F, base, s)
<1>1. IsFold(h, Y, F, base, s)
  BY Zenon
<1>2. Folded(Y, F, base, s) = h[DOMAIN s]
  BY DEF Folded
<1>. HIDE DEF h
<1>3. Continues(s, s)
  BY DEF Continues
<1>4. \A t \in SUBSET (DOMAIN s) : g[t] = h[t] /\ h[t] \in Y
  BY <1>1, <1>3, FoldsAgree
<1>. QED BY <1>2, <1>4

(* A fold does not leave the set that its operator does not leave, starts  *)
(* with its base, and goes on with every element that is appended.         *)
LEMMA FoldedType ==
  ASSUME NEW Y, NEW E, NEW F, NEW base, Foldable(Y, E, F, base), NEW s \in Seq(E)
  PROVE  Folded(Y, F, base, s) \in Y
<1>1. PICK g : IsFold(g, Y, F, base, s)
  BY FoldExists
<1>. QED BY <1>1, FoldIsFolded

LEMMA FoldedEmpty ==
  ASSUME NEW Y, NEW E, NEW F, NEW base, Foldable(Y, E, F, base)
  PROVE  Folded(Y, F, base, << >>) = base
<1>. DEFINE s == << >>
<1>1. s \in Seq(E) /\ DOMAIN s = {}
  OBVIOUS
<1>. HIDE DEF s
<1>2. PICK g \in [SUBSET (DOMAIN s) -> Y] : IsFold(g, Y, F, base, s)
  BY <1>1, FoldExists
<1>3. g[{}] = base
  BY <1>1, <1>2 DEF IsFold
<1>4. Folded(Y, F, base, s) = g[DOMAIN s]
  <2>1. s \in Seq(E)
    BY <1>1
  <2>. QED BY <1>2, <2>1, FoldIsFolded
<1>5. Folded(Y, F, base, s) = base
  BY <1>1, <1>3, <1>4
<1>. QED BY <1>5 DEF s

LEMMA FoldedAppend ==
  ASSUME NEW Y, NEW E, NEW F, NEW base, Foldable(Y, E, F, base),
         NEW s \in Seq(E), NEW e \in E
  PROVE  Folded(Y, F, base, Append(s, e)) = F[Folded(Y, F, base, s)][e]
<1>. DEFINE longer == Append(s, e)
            n == Len(s) + 1
            D == DOMAIN longer
<1>1. /\ longer \in Seq(E) /\ n \in Nat /\ D = 1..n /\ longer[n] = e
      /\ DOMAIN s = 1..Len(s) /\ Len(s) \in Nat
      /\ \A i \in DOMAIN s : s[i] = longer[i]
  OBVIOUS
<1>2. DOMAIN s = D \ {n} /\ n \in D /\ n >= 1
  BY <1>1
<1>3. Continues(longer, s)
  BY <1>1, <1>2 DEF Continues
<1>. HIDE DEF longer, n
<1>4. PICK g \in [SUBSET D -> Y] : IsFold(g, Y, F, base, longer)
  BY <1>1, FoldExists
<1>5. PICK h \in [SUBSET (DOMAIN s) -> Y] : IsFold(h, Y, F, base, s)
  BY FoldExists
<1>6. g[DOMAIN s] = h[DOMAIN s] /\ h[DOMAIN s] \in Y
  <2>1. longer \in Seq(E)
    BY <1>1
  <2>2. \A t \in SUBSET (DOMAIN s) : g[t] = h[t] /\ h[t] \in Y
    BY <1>3, <1>4, <1>5, <2>1, FoldsAgree
  <2>. QED BY <2>2
<1>7. Max(D) = n
  <2>1. IsFiniteSet(1..n)
    BY <1>1, FS_Interval
  <2>2. IsFiniteSet(D) /\ D # {} /\ D \subseteq Int
    BY <1>1, <1>2, <2>1
  <2>. HIDE DEF D
  <2>3. Max(D) \in D /\ n <= Max(D)
    BY <1>2, <2>2, GreatestNumber
  <2>. QED BY <1>1, <2>3 DEF D
<1>8. g[D] = F[h[DOMAIN s]][e]
  <2>1. D \in SUBSET D /\ D # {} /\ D \ {Max(D)} = DOMAIN s
    BY <1>2, <1>7
  <2>2. g[D \ {Max(D)}] \in Y
    BY <1>6, <2>1
  <2>3. g[D] = F[g[D \ {Max(D)}]][longer[Max(D)]]
    BY <1>4, <2>1, <2>2 DEF IsFold
  <2>. QED BY <1>1, <1>6, <1>7, <2>1, <2>3
<1>9. Folded(Y, F, base, longer) = g[D]
  BY <1>1, <1>4, FoldIsFolded
<1>10. Folded(Y, F, base, s) = h[DOMAIN s]
  BY <1>5, FoldIsFolded
<1>. QED BY <1>8, <1>9, <1>10 DEF longer

-----------------------------------------------------------------------------
(* Powers of two, by the number of subsets of an interval.                 *)
LEMMA PowerOfTwo == ASSUME NEW k \in Nat PROVE 2^k \in Nat \ {0}
<1>. DEFINE S == 1..k
<1>1. IsFiniteSet(S) /\ Cardinality(S) = k
  BY FS_Interval
<1>2. IsFiniteSet(SUBSET S) /\ Cardinality(SUBSET S) = 2^k
  BY <1>1, FS_SUBSET
<1>3. {} \in SUBSET S
  OBVIOUS
<1>4. SUBSET S # {}
  BY <1>3
<1>. HIDE DEF S
<1>5. Cardinality(SUBSET S) \in Nat /\ Cardinality(SUBSET S) # 0
  BY <1>2, <1>4, FS_CardinalityType, FS_EmptySet
<1>. QED BY <1>2, <1>5
=============================================================================
