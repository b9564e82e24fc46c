----------------------------- MODULE FiniteSums -----------------------------
(***************************************************************************)
(* Sums of the values of a function over a finite set, as Functions.tla    *)
(* defines them, and the facts that proofs about counters need.  The       *)
(* provers cannot use the library's induction theorems for finite sets;    *)
(* a property of all subsets is shown by looking at a smallest one that    *)
(* does not have it.                                                       *)
(***************************************************************************)
EXTENDS Functions, FiniteSetTheorems, TLAPS

-----------------------------------------------------------------------------
(* Finite sets *)

\* Of the subsets of S in Bad, one has no strict subset in Bad.
LEMMA SmallestSet ==
    ASSUME NEW S, IsFiniteSet(S), NEW Bad \in SUBSET SUBSET S, Bad # {}
    PROVE  \E s \in Bad : \A u \in SUBSET s : u # s => u \notin Bad
<1>1. Bad \subseteq FiniteSubsetsOf(S)
  BY FS_Subset DEF FiniteSubsetsOf
<1>2. PICK s \in Bad : \A u \in Bad : ~ (<<u, s>> \in StrictSubsetOrdering(S))
  BY <1>1, FS_StrictSubsetOrderingWellFounded, WFMin, Zenon
<1> QED
  BY <1>2 DEF StrictSubsetOrdering

-----------------------------------------------------------------------------
(* What the library's recursion computes *)

Chosen(s) == CHOOSE x \in s : TRUE

\* One unfolding of the recursive function on the subsets of S.
SumStep(f, S, g) ==
    [s \in SUBSET S |-> IF s = {} THEN 0 ELSE f[Chosen(s)] + g[s \ {Chosen(s)}]]

LEMMA SumIsChoice ==
    ASSUME NEW f, NEW S
    PROVE  SumFunctionOnSet(f, S) = (CHOOSE g : g = SumStep(f, S, g))[S]
  BY Zenon DEF SumFunctionOnSet, FoldFunctionOnSet, MapThenFoldSet, SumStep, Chosen

LEMMA ChosenIn == ASSUME NEW s, s # {} PROVE Chosen(s) \in s
  BY DEF Chosen

\* Two functions that the recursion allows agree on the sets both are defined for.
LEMMA SolutionsAgree ==
    ASSUME NEW f, NEW S, NEW T, IsFiniteSet(S),
           NEW g, g = SumStep(f, S, g), NEW h, h = SumStep(f, T, h),
           NEW u \in SUBSET (S \cap T)
    PROVE  g[u] = h[u]
<1> DEFINE Bad == {s \in SUBSET (S \cap T) : g[s] # h[s]}
<1>1. SUFFICES ASSUME Bad # {} PROVE FALSE
  OBVIOUS
<1>2. IsFiniteSet(S \cap T)
  BY FS_Subset
<1>3. PICK s \in Bad : \A v \in SUBSET s : v # s => v \notin Bad
  <2>1. Bad \in SUBSET SUBSET (S \cap T)
    OBVIOUS
  <2> HIDE DEF Bad
  <2> QED BY <1>1, <1>2, <2>1, SmallestSet
<1>4. s \in SUBSET S /\ s \in SUBSET T /\ g[s] # h[s]
  OBVIOUS
<1>5. /\ g[s] = IF s = {} THEN 0 ELSE f[Chosen(s)] + g[s \ {Chosen(s)}]
      /\ h[s] = IF s = {} THEN 0 ELSE f[Chosen(s)] + h[s \ {Chosen(s)}]
  BY <1>4 DEF SumStep
<1>6. s # {}
  BY <1>4, <1>5
<1>7. s \ {Chosen(s)} \notin Bad /\ s \ {Chosen(s)} \in SUBSET (S \cap T)
  BY <1>3, <1>4, <1>6, ChosenIn
<1> QED BY <1>4, <1>5, <1>6, <1>7

\* Where the recursion has a solution it computes the sum step by step.
LEMMA SumUnfolds ==
    ASSUME NEW f, NEW S, IsFiniteSet(S), \E g : g = SumStep(f, S, g),
           S = {} \/ \E g : g = SumStep(f, S \ {Chosen(S)}, g)
    PROVE  SumFunctionOnSet(f, S) =
               IF S = {} THEN 0 ELSE f[Chosen(S)] + SumFunctionOnSet(f, S \ {Chosen(S)})
<1> DEFINE rest == S \ {Chosen(S)}
<1>1. PICK g : g = SumStep(f, S, g) /\ SumFunctionOnSet(f, S) = g[S]
  BY SumIsChoice
<1>2. g[S] = IF S = {} THEN 0 ELSE f[Chosen(S)] + g[rest]
  BY <1>1 DEF SumStep
<1>3. ASSUME S # {} PROVE g[rest] = SumFunctionOnSet(f, rest)
  <2>1. PICK h : h = SumStep(f, rest, h) /\ SumFunctionOnSet(f, rest) = h[rest]
    BY <1>3, SumIsChoice
  <2>2. rest \in SUBSET (S \cap rest)
    OBVIOUS
  <2> HIDE DEF rest
  <2> QED BY <1>1, <2>1, <2>2, SolutionsAgree
<1> QED BY <1>1, <1>2, <1>3

\* It has a solution for every finite set.
LEMMA SumSolvable ==
    ASSUME NEW f, NEW S, IsFiniteSet(S)
    PROVE  \E g : g = SumStep(f, S, g)
<1> DEFINE Bad == {s \in SUBSET S : ~ \E g : g = SumStep(f, s, g)}
<1>1. SUFFICES ASSUME Bad # {} PROVE FALSE
  OBVIOUS
<1>2. PICK T \in Bad : \A v \in SUBSET T : v # T => v \notin Bad
  <2>1. Bad \in SUBSET SUBSET S
    OBVIOUS
  <2> HIDE DEF Bad
  <2> QED BY <1>1, <2>1, SmallestSet
<1>3. T \in SUBSET S /\ IsFiniteSet(T) /\ ~ \E g : g = SumStep(f, T, g)
  BY FS_Subset
<1>4. \A v \in SUBSET T : v # T => \E g : g = SumStep(f, v, g)
  BY <1>2, <1>3
<1> HIDE DEF Bad
<1> DEFINE G == [s \in SUBSET T |->
                   IF s = T /\ T # {} THEN f[Chosen(T)] + SumFunctionOnSet(f, T \ {Chosen(T)})
                   ELSE IF s = {} THEN 0 ELSE SumFunctionOnSet(f, s)]
<1>5. ASSUME NEW s \in SUBSET T
      PROVE  G[s] = IF s = {} THEN 0 ELSE f[Chosen(s)] + G[s \ {Chosen(s)}]
  <2>1. CASE s = {}
    BY <2>1
  <2>2. CASE s # {}
    <3> DEFINE rest == s \ {Chosen(s)}
    <3>1. Chosen(s) \in s
      BY <2>2, ChosenIn
    <3>2. rest \in SUBSET T /\ rest # T /\ rest # s
      BY <3>1
    <3>3. IsFiniteSet(s) /\ IsFiniteSet(rest)
      BY <1>3, FS_Subset, <3>2
    <3>4. G[rest] = SumFunctionOnSet(f, rest)
      <4>1. CASE rest = {}
        <5>1. IsFiniteSet({}) /\ \E g : g = SumStep(f, {}, g)
          BY <1>4, <3>2, <4>1, FS_EmptySet
        <5>2. SumFunctionOnSet(f, {}) = 0
          BY <5>1, SumUnfolds
        <5> QED BY <3>2, <4>1, <5>2
      <4>2. CASE rest # {}
        BY <3>2, <4>2
      <4> QED BY <4>1, <4>2
    <3>5. CASE s = T
      BY <2>2, <3>4, <3>5
    <3>6. CASE s # T
      <4>1. \E g : g = SumStep(f, s, g)
        BY <1>4, <3>6
      <4>2. \E g : g = SumStep(f, rest, g)
        BY <1>4, <3>2
      <4>3. SumFunctionOnSet(f, s) = f[Chosen(s)] + SumFunctionOnSet(f, rest)
        BY <2>2, <3>3, <4>1, <4>2, SumUnfolds
      <4> QED BY <2>2, <3>4, <3>6, <4>3
    <3> QED BY <3>5, <3>6
  <2> QED BY <2>1, <2>2
<1>6. G = SumStep(f, T, G)
  <2>1. G = [s \in SUBSET T |-> G[s]]
    OBVIOUS
  <2>2. [s \in SUBSET T |-> G[s]]
          = [s \in SUBSET T |-> IF s = {} THEN 0 ELSE f[Chosen(s)] + G[s \ {Chosen(s)}]]
    <3> HIDE DEF G
    <3> QED BY <1>5
  <2> HIDE DEF G
  <2> QED BY <2>1, <2>2 DEF SumStep
<1> QED BY <1>3, <1>6

-----------------------------------------------------------------------------
(* Sums *)

LEMMA SumEmpty == ASSUME NEW f PROVE SumFunctionOnSet(f, {}) = 0
<1>1. IsFiniteSet({}) /\ \E g : g = SumStep(f, {}, g)
  BY FS_EmptySet, SumSolvable
<1> QED BY <1>1, SumUnfolds

LEMMA SumChosen ==
    ASSUME NEW f, NEW S, IsFiniteSet(S), S # {}
    PROVE  SumFunctionOnSet(f, S) = f[Chosen(S)] + SumFunctionOnSet(f, S \ {Chosen(S)})
<1>1. IsFiniteSet(S \ {Chosen(S)})
  BY FS_Subset
<1>2. (\E g : g = SumStep(f, S, g)) /\ (\E g : g = SumStep(f, S \ {Chosen(S)}, g))
  BY <1>1, SumSolvable
<1> QED BY <1>2, SumUnfolds

\* A sum of integers is one, a sum of natural numbers is one.
LEMMA SumType ==
    ASSUME NEW f, NEW S, IsFiniteSet(S), NEW N \in {Nat, Int}, \A x \in S : f[x] \in N
    PROVE  SumFunctionOnSet(f, S) \in N
<1> DEFINE Bad == {s \in SUBSET S : SumFunctionOnSet(f, s) \notin N}
<1>1. SUFFICES ASSUME Bad # {} PROVE FALSE
  OBVIOUS
<1>2. PICK s \in Bad : \A v \in SUBSET s : v # s => v \notin Bad
  <2>1. Bad \in SUBSET SUBSET S
    OBVIOUS
  <2> HIDE DEF Bad
  <2> QED BY <1>1, <2>1, SmallestSet
<1>3. s \in SUBSET S /\ SumFunctionOnSet(f, s) \notin N /\ IsFiniteSet(s)
  BY FS_Subset
<1>4. s # {}
  BY <1>3, SumEmpty
<1> DEFINE rest == s \ {Chosen(s)}
<1>5. Chosen(s) \in s /\ rest \in SUBSET s /\ rest # s
  BY <1>4, ChosenIn
<1>6. SumFunctionOnSet(f, rest) \in N
  BY <1>2, <1>3, <1>5
<1>7. SumFunctionOnSet(f, s) = f[Chosen(s)] + SumFunctionOnSet(f, rest)
  BY <1>3, <1>4, SumChosen
<1> HIDE DEF rest, Bad
<1>8. f[Chosen(s)] \in N
  BY <1>3, <1>5
<1> QED BY <1>3, <1>6, <1>7, <1>8

\* Any element may be taken out.
LEMMA SumWithout ==
    ASSUME NEW f, NEW S, IsFiniteSet(S), \A y \in S : f[y] \in Int, NEW x \in S
    PROVE  SumFunctionOnSet(f, S) = f[x] + SumFunctionOnSet(f, S \ {x})
<1> DEFINE Bad == {s \in SUBSET S :
                     \E y \in s : SumFunctionOnSet(f, s) # f[y] + SumFunctionOnSet(f, s \ {y})}
<1>1. SUFFICES ASSUME Bad # {} PROVE FALSE
  OBVIOUS
<1>2. PICK s \in Bad : \A v \in SUBSET s : v # s => v \notin Bad
  <2>1. Bad \in SUBSET SUBSET S
    OBVIOUS
  <2> HIDE DEF Bad
  <2> QED BY <1>1, <2>1, SmallestSet
<1>3. s \in SUBSET S /\ IsFiniteSet(s)
  BY FS_Subset
<1>4. PICK y \in s : SumFunctionOnSet(f, s) # f[y] + SumFunctionOnSet(f, s \ {y})
  OBVIOUS
<1> DEFINE c == Chosen(s)
<1>5. c \in s /\ SumFunctionOnSet(f, s) = f[c] + SumFunctionOnSet(f, s \ {c})
  BY <1>3, <1>4, ChosenIn, SumChosen
<1> HIDE DEF c
<1>6. y # c
  BY <1>4, <1>5
<1>7. s \ {c} \notin Bad /\ s \ {y} \notin Bad /\ s \ {c} \in SUBSET S /\ s \ {y} \in SUBSET S
  BY <1>2, <1>3, <1>4, <1>5
<1>8. /\ SumFunctionOnSet(f, s \ {c}) = f[y] + SumFunctionOnSet(f, (s \ {c}) \ {y})
      /\ SumFunctionOnSet(f, s \ {y}) = f[c] + SumFunctionOnSet(f, (s \ {y}) \ {c})
  BY <1>4, <1>5, <1>6, <1>7
<1>9. (s \ {c}) \ {y} = (s \ {y}) \ {c}
  OBVIOUS
<1>10. f[c] \in Int /\ f[y] \in Int /\ SumFunctionOnSet(f, (s \ {y}) \ {c}) \in Int
  <2>1. IsFiniteSet((s \ {y}) \ {c}) /\ \A z \in (s \ {y}) \ {c} : f[z] \in Int
    BY <1>3, FS_Subset
  <2> QED BY <1>3, <1>5, <2>1, SumType
<1> HIDE DEF Bad
<1> DEFINE fs == SumFunctionOnSet(f, s)
           fc == SumFunctionOnSet(f, s \ {c})
           fy == SumFunctionOnSet(f, s \ {y})
           fcy == SumFunctionOnSet(f, (s \ {y}) \ {c})
<1>11. fs # f[y] + fy /\ fs = f[c] + fc /\ fc = f[y] + fcy /\ fy = f[c] + fcy /\ fcy \in Int
  BY <1>4, <1>5, <1>8, <1>9, <1>10
<1> HIDE DEF fs, fc, fy, fcy
<1> QED BY <1>10, <1>11

\* The sum depends on the values on the set alone.
LEMMA SumSame ==
    ASSUME NEW f, NEW g, NEW S, IsFiniteSet(S), \A x \in S : f[x] = g[x]
    PROVE  SumFunctionOnSet(f, S) = SumFunctionOnSet(g, S)
<1> DEFINE Bad == {s \in SUBSET S : SumFunctionOnSet(f, s) # SumFunctionOnSet(g, s)}
<1>1. SUFFICES ASSUME Bad # {} PROVE FALSE
  OBVIOUS
<1>2. PICK s \in Bad : \A v \in SUBSET s : v # s => v \notin Bad
  <2>1. Bad \in SUBSET SUBSET S
    OBVIOUS
  <2> HIDE DEF Bad
  <2> QED BY <1>1, <2>1, SmallestSet
<1>3. s \in SUBSET S /\ IsFiniteSet(s) /\ SumFunctionOnSet(f, s) # SumFunctionOnSet(g, s)
  BY FS_Subset
<1>4. s # {}
  BY <1>3, SumEmpty
<1> DEFINE rest == s \ {Chosen(s)}
<1>5. Chosen(s) \in s /\ rest \in SUBSET s /\ rest # s
  BY <1>4, ChosenIn
<1>6. SumFunctionOnSet(f, rest) = SumFunctionOnSet(g, rest)
  BY <1>2, <1>3, <1>5
<1>7. /\ SumFunctionOnSet(f, s) = f[Chosen(s)] + SumFunctionOnSet(f, rest)
      /\ SumFunctionOnSet(g, s) = g[Chosen(s)] + SumFunctionOnSet(g, rest)
  BY <1>3, <1>4, SumChosen
<1> HIDE DEF rest, Bad
<1> QED BY <1>3, <1>5, <1>6, <1>7

\* Larger values have a larger sum.
LEMMA SumMonotone ==
    ASSUME NEW f, NEW g, NEW S, IsFiniteSet(S),
           \A x \in S : f[x] \in Int /\ g[x] \in Int /\ f[x] <= g[x]
    PROVE  SumFunctionOnSet(f, S) <= SumFunctionOnSet(g, S)
<1> DEFINE Bad == {s \in SUBSET S : ~ (SumFunctionOnSet(f, s) <= SumFunctionOnSet(g, s))}
<1>1. SUFFICES ASSUME Bad # {} PROVE FALSE
  OBVIOUS
<1>2. PICK s \in Bad : \A v \in SUBSET s : v # s => v \notin Bad
  <2>1. Bad \in SUBSET SUBSET S
    OBVIOUS
  <2> HIDE DEF Bad
  <2> QED BY <1>1, <2>1, SmallestSet
<1>3. s \in SUBSET S /\ IsFiniteSet(s) /\ ~ (SumFunctionOnSet(f, s) <= SumFunctionOnSet(g, s))
  BY FS_Subset
<1>4. s # {}
  BY <1>3, SumEmpty
<1> DEFINE rest == s \ {Chosen(s)}
<1>5. Chosen(s) \in s /\ rest \in SUBSET s /\ rest # s /\ IsFiniteSet(rest)
  BY <1>3, <1>4, ChosenIn, FS_Subset
<1>6. SumFunctionOnSet(f, rest) <= SumFunctionOnSet(g, rest)
  BY <1>2, <1>3, <1>5
<1>7. /\ SumFunctionOnSet(f, s) = f[Chosen(s)] + SumFunctionOnSet(f, rest)
      /\ SumFunctionOnSet(g, s) = g[Chosen(s)] + SumFunctionOnSet(g, rest)
  BY <1>3, <1>4, SumChosen
<1>8. SumFunctionOnSet(f, rest) \in Int /\ SumFunctionOnSet(g, rest) \in Int
  BY <1>3, <1>5, SumType
<1> HIDE DEF rest, Bad
<1>9. /\ f[Chosen(s)] \in Int /\ g[Chosen(s)] \in Int /\ f[Chosen(s)] <= g[Chosen(s)]
  BY <1>3, <1>5
<1> QED BY <1>3, <1>6, <1>7, <1>8, <1>9

\* A sum of zeros.
LEMMA SumZero ==
    ASSUME NEW f, NEW S, IsFiniteSet(S), \A x \in S : f[x] = 0
    PROVE  SumFunctionOnSet(f, S) = 0
<1> DEFINE Bad == {s \in SUBSET S : SumFunctionOnSet(f, s) # 0}
<1>1. SUFFICES ASSUME Bad # {} PROVE FALSE
  OBVIOUS
<1>2. PICK s \in Bad : \A v \in SUBSET s : v # s => v \notin Bad
  <2>1. Bad \in SUBSET SUBSET S
    OBVIOUS
  <2> HIDE DEF Bad
  <2> QED BY <1>1, <2>1, SmallestSet
<1>3. s \in SUBSET S /\ IsFiniteSet(s) /\ SumFunctionOnSet(f, s) # 0
  BY FS_Subset
<1>4. s # {}
  BY <1>3, SumEmpty
<1> DEFINE rest == s \ {Chosen(s)}
<1>5. Chosen(s) \in s /\ rest \in SUBSET s /\ rest # s
  BY <1>4, ChosenIn
<1>6. SumFunctionOnSet(f, rest) = 0 /\ f[Chosen(s)] = 0
  BY <1>2, <1>3, <1>5
<1>7. SumFunctionOnSet(f, s) = f[Chosen(s)] + SumFunctionOnSet(f, rest)
  BY <1>3, <1>4, SumChosen
<1> HIDE DEF rest, Bad
<1> QED BY <1>3, <1>6, <1>7

\* One value changes: the sum changes by as much.
LEMMA SumChanged ==
    ASSUME NEW f, NEW g, NEW S, IsFiniteSet(S), NEW x \in S,
           \A y \in S : f[y] \in Int, g[x] \in Int, \A y \in S \ {x} : g[y] = f[y]
    PROVE  SumFunctionOnSet(g, S) = SumFunctionOnSet(f, S) + g[x] - f[x]
<1>1. IsFiniteSet(S \ {x}) /\ \A y \in S : g[y] \in Int
  BY FS_Subset
<1>2. SumFunctionOnSet(g, S \ {x}) = SumFunctionOnSet(f, S \ {x})
  BY <1>1, SumSame
<1>3. SumFunctionOnSet(f, S \ {x}) \in Int
  BY <1>1, SumType
<1>4. SumFunctionOnSet(f, S) = f[x] + SumFunctionOnSet(f, S \ {x})
  BY SumWithout
<1>5. SumFunctionOnSet(g, S) = g[x] + SumFunctionOnSet(g, S \ {x})
  BY <1>1, SumWithout
<1> QED BY <1>1, <1>2, <1>3, <1>4, <1>5
\* A function that is defined for one more element.
LEMMA SumOneMore ==
    ASSUME NEW P, IsFiniteSet(P), NEW r, r \notin P,
           NEW f, DOMAIN f = P, NEW g, DOMAIN g = P \cup {r},
           \A q \in P : f[q] \in Int /\ g[q] = f[q], g[r] \in Int
    PROVE  SumFunction(g) = SumFunction(f) + g[r] /\ SumFunction(f) \in Int
<1> DEFINE Q == P \cup {r}
<1>1. r \in Q /\ Q \ {r} = P /\ \A q \in Q : g[q] \in Int
  OBVIOUS
<1>2. IsFiniteSet(Q)
  BY FS_AddElement
<1>3. DOMAIN g = Q
  OBVIOUS
<1> HIDE DEF Q
<1>4. SumFunctionOnSet(g, Q) = g[r] + SumFunctionOnSet(g, P)
  BY <1>1, <1>2, SumWithout
<1>5. SumFunctionOnSet(g, P) = SumFunctionOnSet(f, P)
  BY SumSame
<1>6. SumFunctionOnSet(f, P) \in Int
  BY SumType
<1> QED BY <1>3, <1>4, <1>5, <1>6 DEF SumFunction

\* A sum is the same with its terms under other names.
LEMMA SumRenamed ==
    ASSUME NEW f, NEW g, NEW S, IsFiniteSet(S), NEW b, \A x, y \in S : b[x] = b[y] => x = y,
           \A x \in S : f[b[x]] \in Int /\ g[x] = f[b[x]]
    PROVE  SumFunctionOnSet(g, S) = SumFunctionOnSet(f, {b[x] : x \in S})
<1> DEFINE Image(s) == {b[x] : x \in s}
           Differs(s) == SumFunctionOnSet(g, s) # SumFunctionOnSet(f, Image(s))
           Bad == {s \in SUBSET S : Differs(s)}
<1> SUFFICES ASSUME Bad # {} PROVE FALSE
  OBVIOUS
<1>1. Image({}) = {} /\ \A s : \A y : y \in Image(s) <=> \E x \in s : y = b[x]
  OBVIOUS
<1>2. PICK s \in Bad : \A v \in SUBSET s : v # s => v \notin Bad
  <2>1. Bad \in SUBSET SUBSET S /\ Bad # {}
    OBVIOUS
  <2> HIDE DEF Bad
  <2> QED BY <2>1, SmallestSet
<1>3. s \subseteq S /\ IsFiniteSet(s)
  BY <1>2, FS_Subset
<1>4. IsFiniteSet(Image(s))
  <2> DEFINE c == [x \in s |-> b[x]]
  <2>1. c \in Surjection(s, Image(s))
    BY DEF Surjection
  <2> QED BY <1>3, <2>1, FS_Surjection
<1> HIDE DEF Image
<1>5. PICK x \in s : TRUE
  <2>1. s = {} => SumFunctionOnSet(f, Image(s)) = 0 /\ SumFunctionOnSet(g, s) = 0
    BY <1>1, SumEmpty
  <2> QED BY <1>2, <2>1
<1>6. SumFunctionOnSet(g, s \ {x}) = SumFunctionOnSet(f, Image(s \ {x}))
  BY <1>2, <1>3
<1>7. SumFunctionOnSet(g, s) = g[x] + SumFunctionOnSet(g, s \ {x})
  BY <1>3, SumWithout
<1>8. SumFunctionOnSet(f, Image(s)) = f[b[x]] + SumFunctionOnSet(f, Image(s) \ {b[x]})
  <2>1. b[x] \in Image(s) /\ \A y \in Image(s) : f[y] \in Int
    BY <1>1, <1>3
  <2> QED BY <1>4, <2>1, SumWithout
<1>9. Image(s \ {x}) = Image(s) \ {b[x]}
  BY <1>1, <1>3
<1>10. g[x] = f[b[x]] /\ Differs(s)
  BY <1>2, <1>3
<1> QED BY <1>6, <1>7, <1>8, <1>9, <1>10
=============================================================================
