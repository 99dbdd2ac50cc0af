----------------------------- MODULE FiniteSums -----------------------------
(***************************************************************************)
(* Sums over finite sets, as MapThenSumSet of the community modules forms  *)
(* them.  The order in which it takes the elements is a CHOOSE, so nothing *)
(* of it can be read off its definition: that the sum is the same in every *)
(* order is proved here, by induction over the subsets of a finite set.    *)
(***************************************************************************)
EXTENDS Integers, FiniteSetsExt, FiniteSetTheorems, WellFoundedInduction,
        TLAPS

(* Induction over the subsets of a finite set.                             *)
LEMMA SubsetInduction ==
    ASSUME NEW D, IsFiniteSet(D), NEW Good,
           \A s \in SUBSET D :
              (\A t \in SUBSET s : t # s => t \in Good) => s \in Good
    PROVE  SUBSET D \subseteq Good
<1> SUFFICES ASSUME (SUBSET D) \ Good # {} PROVE FALSE
  OBVIOUS
<1>1. IsWellFoundedOn(StrictSubsetOrdering(D), SUBSET D)
  <2>1. IsWellFoundedOn(StrictSubsetOrdering(D), FiniteSubsetsOf(D))
    BY FS_StrictSubsetOrderingWellFounded
  <2>2. FiniteSubsetsOf(D) = SUBSET D
    BY FS_FiniteSubsetsOfFinite
  <2> QED
    BY <2>1, <2>2
<1> DEFINE R == StrictSubsetOrdering(D)
           T == (SUBSET D) \ Good
<1>2. \E s \in T : \A t \in T : ~ (<<t, s>> \in R)
  <2>1. IsWellFoundedOn(R, SUBSET D) /\ T \subseteq SUBSET D /\ T # {}
    BY <1>1
  <2> HIDE DEF R, T
  <2> QED
    BY <2>1, WFMin
<1>3. PICK s \in T : \A t \in T : ~ (<<t, s>> \in R)
  BY <1>2
<1>4. ASSUME NEW t \in SUBSET s, t # s PROVE t \in Good
  <2>1. t \in SUBSET D /\ <<t, s>> \in R
    BY <1>3, <1>4 DEF StrictSubsetOrdering
  <2> HIDE DEF R
  <2> QED
    BY <1>3, <2>1
<1> QED
  BY <1>3, <1>4

(* A finite set of numbers has a largest element.                         *)
LEMMA LargestIn ==
    ASSUME NEW D \in SUBSET Nat, IsFiniteSet(D), D # {}
    PROVE  \E m \in D : \A x \in D : x <= m
<1> DEFINE Good == {s \in SUBSET D :
                       s # {} => \E m \in s : \A x \in s : x <= m}
<1>1. ASSUME NEW s \in SUBSET D, \A t \in SUBSET s : t # s => t \in Good
      PROVE  s \in Good
  <2> SUFFICES ASSUME s # {} PROVE \E m \in s : \A x \in s : x <= m
    OBVIOUS
  <2> PICK y \in s : TRUE
    OBVIOUS
  <2>1. CASE s \ {y} = {}
    BY <2>1
  <2>2. CASE s \ {y} # {}
    <3>1. s \ {y} \in Good
      BY <1>1
    <3>2. PICK m \in s \ {y} : \A x \in s \ {y} : x <= m
      BY <2>2, <3>1
    <3>3. y \in Nat /\ m \in Nat
      OBVIOUS
    <3>4. CASE y <= m
      BY <3>2, <3>4
    <3>5. CASE m < y
      <4>1. \A x \in s : x <= y
        BY <3>2, <3>3, <3>5
      <4> QED
        BY <4>1
    <3> QED
      BY <3>3, <3>4, <3>5
  <2> QED
    BY <2>1, <2>2
<1>2. SUBSET D \subseteq Good
  <2> HIDE DEF Good
  <2> QED
    BY <1>1, SubsetInduction
<1>3. D \in Good
  BY <1>2
<1> QED
  BY <1>3

-----------------------------------------------------------------------------
(* The order in which the community modules add the elements of a set.     *)
First(s) == CHOOSE x \in s : TRUE

SumsUp(g, f, D) ==
    \A s \in SUBSET D :
       g[s] = IF s = {} THEN 0 ELSE f[First(s)] + g[s \ {First(s)}]

LEMMA FirstIn ==
    ASSUME NEW s, s # {} PROVE First(s) \in s
BY DEF First

LEMMA SumsAgree ==
    ASSUME NEW D, IsFiniteSet(D), NEW f, NEW g, NEW h,
           SumsUp(g, f, D), SumsUp(h, f, D)
    PROVE  \A s \in SUBSET D : g[s] = h[s]
<1> DEFINE Good == {s \in SUBSET D : g[s] = h[s]}
<1>1. ASSUME NEW s \in SUBSET D, \A t \in SUBSET s : t # s => t \in Good
      PROVE  s \in Good
  <2>1. CASE s = {}
    BY <2>1 DEF SumsUp
  <2>2. CASE s # {}
    <3>1. First(s) \in s
      BY <2>2, FirstIn
    <3>2. s \ {First(s)} \in Good
      BY <1>1, <3>1
    <3>3. g[s] = f[First(s)] + g[s \ {First(s)}]
      BY <2>2 DEF SumsUp
    <3>4. h[s] = f[First(s)] + h[s \ {First(s)}]
      BY <2>2 DEF SumsUp
    <3> QED
      BY <3>2, <3>3, <3>4
  <2> QED
    BY <2>1, <2>2
<1>2. SUBSET D \subseteq Good
  <2> HIDE DEF Good
  <2> QED
    BY <1>1, SubsetInduction
<1> QED
  BY <1>2

LEMMA SumsAreNumbers ==
    ASSUME NEW D, IsFiniteSet(D), NEW f, NEW g, SumsUp(g, f, D),
           \A x \in D : f[x] \in Int
    PROVE  \A s \in SUBSET D : g[s] \in Int
<1> DEFINE Good == {s \in SUBSET D : g[s] \in Int}
<1>1. ASSUME NEW s \in SUBSET D, \A t \in SUBSET s : t # s => t \in Good
      PROVE  s \in Good
  <2>1. CASE s = {}
    <3>1. g[s] = 0
      BY <2>1 DEF SumsUp
    <3> QED
      BY <3>1
  <2>2. CASE s # {}
    <3>1. First(s) \in s
      BY <2>2, FirstIn
    <3>2. s \ {First(s)} \in Good /\ f[First(s)] \in Int
      BY <1>1, <3>1
    <3>3. g[s] = f[First(s)] + g[s \ {First(s)}]
      BY <2>2 DEF SumsUp
    <3> QED
      BY <3>2, <3>3
  <2> QED
    BY <2>1, <2>2
<1>2. SUBSET D \subseteq Good
  <2> HIDE DEF Good
  <2> QED
    BY <1>1, SubsetInduction
<1> QED
  BY <1>2

IsSums(g, f, D) ==
    g = [s \in SUBSET D |->
            IF s = {} THEN 0 ELSE f[First(s)] + g[s \ {First(s)}]]

LEMMA IsSumsUp ==
    ASSUME NEW D, NEW f, NEW g, IsSums(g, f, D)
    PROVE  SumsUp(g, f, D)
BY DEF SumsUp, IsSums

LEMMA SumsExist ==
    ASSUME NEW D, IsFiniteSet(D), NEW f
    PROVE  \E g : IsSums(g, f, D)
<1> DEFINE Good == {S \in SUBSET D : \E g : IsSums(g, f, S)}
           h(S) == CHOOSE g : IsSums(g, f, S)
<1>1. ASSUME NEW S \in SUBSET D, \A t \in SUBSET S : t # S => t \in Good
      PROVE  S \in Good
  <2>1. \A t \in SUBSET S : t # S => IsSums(h(t), f, t)
    BY <1>1
  <2>2. \A t \in SUBSET S : IsFiniteSet(t)
    BY FS_Subset
  <2>3. ASSUME NEW t \in SUBSET S, t # S PROVE SumsUp(h(t), f, t)
    <3>1. IsSums(h(t), f, t)
      BY <2>1, <2>3
    <3> HIDE DEF h
    <3> QED
      BY <3>1, IsSumsUp
  <2> DEFINE v(t) == h(t)[t]
             w(t) == IF t = {} THEN 0 ELSE f[First(t)] + v(t \ {First(t)})
             g == [t \in SUBSET S |-> w(t)]
  <2>4. ASSUME NEW t \in SUBSET S, t # S PROVE v(t) = w(t)
    <3>1. CASE t = {}
      BY <2>3, <2>4, <3>1 DEF SumsUp
    <3>2. CASE t # {}
      <4> DEFINE r == t \ {First(t)}
      <4>1. r \in SUBSET t /\ r # t /\ r \in SUBSET S /\ r # S
        BY <3>2, FirstIn
      <4>2. SumsUp(h(t), f, r) /\ SumsUp(h(r), f, r)
        BY <2>3, <2>4, <4>1 DEF SumsUp
      <4>3. h(t)[r] = h(r)[r]
        <5> HIDE DEF h, r
        <5> QED
          BY <2>2, <4>1, <4>2, SumsAgree
      <4>4. h(t)[t] = f[First(t)] + h(t)[r]
        BY <2>3, <2>4, <3>2 DEF SumsUp
      <4> HIDE DEF h
      <4> QED
        BY <3>2, <4>3, <4>4
    <3> QED
      BY <3>1, <3>2
  <2>5. ASSUME NEW t \in SUBSET S, t # {}
        PROVE  g[t \ {First(t)}] = v(t \ {First(t)})
    <3>1. t \ {First(t)} \in SUBSET S /\ t \ {First(t)} # S
      BY <2>5, FirstIn
    <3> HIDE DEF v
    <3> QED
      BY <2>4, <3>1
  <2>6. IsSums(g, f, S)
    <3> HIDE DEF v
    <3>1. \A t \in SUBSET S :
             g[t] = IF t = {} THEN 0 ELSE f[First(t)] + g[t \ {First(t)}]
      BY <2>5
    <3> HIDE DEF w
    <3>2. g = [t \in SUBSET S |-> g[t]]
      OBVIOUS
    <3> HIDE DEF g
    <3> QED
      BY <3>1, <3>2 DEF IsSums
  <2> HIDE DEF g
  <2> QED
    BY <2>6
<1>2. SUBSET D \subseteq Good
  <2> HIDE DEF Good
  <2> QED
    BY <1>1, SubsetInduction
<1>3. D \in Good
  BY <1>2
<1> QED
  BY <1>3

SumMap(f, S) == MapThenSumSet(LAMBDA x : f[x], S)

LEMMA FoldIs ==
    ASSUME NEW f, NEW D
    PROVE  SumMap(f, D)
             = (CHOOSE g : IsSums(g, f, D))[D]
BY Zenon DEF SumMap, MapThenSumSet, MapThenFoldSet, First, IsSums

(* The sums of the subsets of a finite set are found by one function.      *)
LEMMA SumsAre ==
    ASSUME NEW D, IsFiniteSet(D), NEW f
    PROVE  \E g : SumsUp(g, f, D) /\ (\A s \in SUBSET D : SumMap(f, s) = g[s])
<1> DEFINE h(S) == CHOOSE g : IsSums(g, f, S)
<1>1. \A s \in SUBSET D : IsFiniteSet(s)
  BY FS_Subset
<1>2. ASSUME NEW s \in SUBSET D
      PROVE  SumsUp(h(s), f, s) /\ SumMap(f, s) = h(s)[s]
  <2>1. \E g : IsSums(g, f, s)
    BY <1>1, SumsExist
  <2>2. IsSums(h(s), f, s)
    BY <2>1
  <2>3. SumMap(f, s) = h(s)[s]
    BY FoldIs
  <2> HIDE DEF h
  <2> QED
    BY <2>2, <2>3, IsSumsUp
<1>3. SumsUp(h(D), f, D)
  BY <1>2
<1>4. ASSUME NEW s \in SUBSET D PROVE SumMap(f, s) = h(D)[s]
  <2>1. SumsUp(h(D), f, s) /\ SumsUp(h(s), f, s)
    BY <1>2, <1>3 DEF SumsUp
  <2>2. h(D)[s] = h(s)[s]
    <3> HIDE DEF h
    <3> QED
      BY <1>1, <2>1, SumsAgree
  <2> QED
    BY <1>2, <2>2
<1> HIDE DEF h
<1> QED
  BY <1>3, <1>4

LEMMA SumIsChosen ==
    ASSUME NEW D, IsFiniteSet(D), NEW f, NEW h, SumsUp(h, f, D)
    PROVE  SumMap(f, D) = h[D]
<1>1. PICK g : SumsUp(g, f, D) /\ (\A s \in SUBSET D : SumMap(f, s) = g[s])
  BY SumsAre
<1> QED
  BY <1>1, SumsAgree

LEMMA SumOfNone ==
    ASSUME NEW f PROVE SumMap(f, {}) = 0
<1>1. PICK g : SumsUp(g, f, {}) /\ (\A s \in SUBSET {} : SumMap(f, s) = g[s])
  BY SumsAre, FS_EmptySet
<1> QED
  BY <1>1 DEF SumsUp

LEMMA SumIsInt ==
    ASSUME NEW D, IsFiniteSet(D), NEW f, \A x \in D : f[x] \in Int
    PROVE  SumMap(f, D) \in Int
<1>1. PICK g : SumsUp(g, f, D) /\ (\A s \in SUBSET D : SumMap(f, s) = g[s])
  BY SumsAre
<1> QED
  BY <1>1, SumsAreNumbers

(* A sum may be begun with any of its elements.                            *)
LEMMA SumStep ==
    ASSUME NEW D, IsFiniteSet(D), NEW f, \A x \in D : f[x] \in Int
    PROVE  \A x \in D : SumMap(f, D) = f[x] + SumMap(f, D \ {x})
<1>1. PICK g : SumsUp(g, f, D) /\ (\A s \in SUBSET D : SumMap(f, s) = g[s])
  BY SumsAre
<1>2. \A s \in SUBSET D : g[s] \in Int
  BY <1>1, SumsAreNumbers
<1> DEFINE Good == {s \in SUBSET D : \A x \in s : g[s] = f[x] + g[s \ {x}]}
<1>3. ASSUME NEW s \in SUBSET D, \A t \in SUBSET s : t # s => t \in Good
      PROVE  s \in Good
  <2> SUFFICES ASSUME NEW x \in s PROVE g[s] = f[x] + g[s \ {x}]
    OBVIOUS
  <2> DEFINE y == First(s)
  <2>1. y \in s /\ g[s] = f[y] + g[s \ {y}]
    BY <1>1, FirstIn DEF SumsUp
  <2>2. CASE x = y
    BY <2>1, <2>2
  <2>3. CASE x # y
    <3> DEFINE r == (s \ {x}) \ {y}
    <3>1. s \ {x} \in Good /\ s \ {y} \in Good
      BY <1>3, <2>1
    <3>2. g[s \ {x}] = f[y] + g[r]
      BY <2>1, <2>3, <3>1
    <3>3. (s \ {y}) \ {x} = r
      OBVIOUS
    <3>4. g[s \ {y}] = f[x] + g[(s \ {y}) \ {x}]
      BY <2>1, <2>3, <3>1
    <3>5. f[x] \in Int /\ f[y] \in Int /\ g[r] \in Int
      BY <1>2, <2>1
    <3> HIDE DEF r, y
    <3>6. g[s \ {y}] = f[x] + g[r]
      BY <3>3, <3>4
    <3> QED
      BY <2>1, <3>2, <3>5, <3>6
  <2> QED
    BY <2>2, <2>3
<1>4. SUBSET D \subseteq Good
  <2> HIDE DEF Good
  <2> QED
    BY <1>3, SubsetInduction
<1>5. D \in Good
  BY <1>4
<1>6. \A x \in D : D \ {x} \in SUBSET D
  OBVIOUS
<1> QED
  BY <1>1, <1>5, <1>6

LEMMA SumOfOne ==
    ASSUME NEW x, NEW f, f[x] \in Int PROVE SumMap(f, {x}) = f[x]
<1>1. IsFiniteSet({x}) /\ {x} \ {x} = {}
  BY FS_Singleton
<1>2. SumMap(f, {x}) = f[x] + SumMap(f, {x} \ {x})
  BY <1>1, SumStep
<1> QED
  BY <1>1, <1>2, SumOfNone

(* The sum of a sum of functions.                                          *)
LEMMA SumOfPlus ==
    ASSUME NEW D, IsFiniteSet(D), NEW f, NEW g, NEW h,
           \A x \in D : f[x] \in Int /\ g[x] \in Int /\ h[x] = f[x] + g[x]
    PROVE  SumMap(h, D) = SumMap(f, D) + SumMap(g, D)
<1> DEFINE Good == {s \in SUBSET D :
                       SumMap(h, s) = SumMap(f, s) + SumMap(g, s)}
<1>1. ASSUME NEW s \in SUBSET D, \A t \in SUBSET s : t # s => t \in Good
      PROVE  s \in Good
  <2>1. CASE s = {}
    <3>1. SumMap(f, {}) = 0 /\ SumMap(g, {}) = 0 /\ SumMap(h, {}) = 0
      BY SumOfNone
    <3> QED
      BY <2>1, <3>1
  <2>2. CASE s # {}
    <3> PICK x \in s : TRUE
      BY <2>2
    <3>1. IsFiniteSet(s) /\ IsFiniteSet(s \ {x})
      BY FS_Subset
    <3>2. \A z \in D : f[z] \in Int /\ g[z] \in Int /\ h[z] \in Int
      OBVIOUS
    <3>3. SumMap(f, s) = f[x] + SumMap(f, s \ {x})
      BY <3>1, <3>2, SumStep
    <3>4. SumMap(g, s) = g[x] + SumMap(g, s \ {x})
      BY <3>1, <3>2, SumStep
    <3>5. SumMap(h, s) = h[x] + SumMap(h, s \ {x})
      BY <3>1, <3>2, SumStep
    <3>6. SumMap(f, s \ {x}) \in Int
      BY <3>1, <3>2, SumIsInt
    <3>7. SumMap(g, s \ {x}) \in Int
      BY <3>1, <3>2, SumIsInt
    <3>8. SumMap(h, s \ {x}) = SumMap(f, s \ {x}) + SumMap(g, s \ {x})
      BY <1>1
    <3>9. h[x] = f[x] + g[x] /\ f[x] \in Int /\ g[x] \in Int
      OBVIOUS
    <3>10. SumMap(h, s) = SumMap(f, s) + SumMap(g, s)
      BY <3>3, <3>4, <3>5, <3>6, <3>7, <3>8, <3>9
    <3> QED
      BY <3>10
  <2> QED
    BY <2>1, <2>2
<1>2. SUBSET D \subseteq Good
  <2> HIDE DEF Good
  <2> QED
    BY <1>1, SubsetInduction
<1> QED
  BY <1>2

(* Only the elements at which f is not zero count.                         *)
LEMMA SumOfPart ==
    ASSUME NEW D, IsFiniteSet(D), NEW S \in SUBSET D, NEW f,
           \A x \in D : f[x] \in Int, \A x \in D \ S : f[x] = 0
    PROVE  SumMap(f, D) = SumMap(f, S)
<1> DEFINE Good == {s \in SUBSET D :
                       S \subseteq s => SumMap(f, s) = SumMap(f, S)}
<1>1. ASSUME NEW s \in SUBSET D, \A t \in SUBSET s : t # s => t \in Good
      PROVE  s \in Good
  <2> SUFFICES ASSUME S \subseteq s PROVE SumMap(f, s) = SumMap(f, S)
    OBVIOUS
  <2>1. CASE s = S
    BY <2>1
  <2>2. CASE s # S
    <3> PICK x \in s : x \notin S
      BY <2>2
    <3>1. IsFiniteSet(s) /\ IsFiniteSet(s \ {x})
      BY FS_Subset
    <3>2. \A z \in s : f[z] \in Int
      OBVIOUS
    <3>3. SumMap(f, s) = f[x] + SumMap(f, s \ {x})
      BY <3>1, <3>2, SumStep
    <3>4. SumMap(f, s \ {x}) \in Int
      BY <3>1, <3>2, SumIsInt
    <3>5. SumMap(f, s \ {x}) = SumMap(f, S)
      BY <1>1
    <3>6. f[x] = 0
      OBVIOUS
    <3> QED
      BY <3>3, <3>4, <3>5, <3>6
  <2> QED
    BY <2>1, <2>2
<1>2. SUBSET D \subseteq Good
  <2> HIDE DEF Good
  <2> QED
    BY <1>1, SubsetInduction
<1> QED
  BY <1>2

LEMMA SumOfUnion ==
    ASSUME NEW D, IsFiniteSet(D), NEW A \in SUBSET D, NEW B \in SUBSET D,
           A \cap B = {}, NEW f, \A x \in D : f[x] \in Int
    PROVE  SumMap(f, A \cup B) = SumMap(f, A) + SumMap(f, B)
<1> DEFINE Good == {s \in SUBSET D : s \subseteq B =>
                       SumMap(f, A \cup s) = SumMap(f, A) + SumMap(f, s)}
<1>0. \A s \in SUBSET D : IsFiniteSet(s) /\ SumMap(f, s) \in Int
  <2> SUFFICES ASSUME NEW s \in SUBSET D
               PROVE  IsFiniteSet(s) /\ SumMap(f, s) \in Int
    OBVIOUS
  <2>1. IsFiniteSet(s)
    BY FS_Subset
  <2>2. \A x \in s : f[x] \in Int
    OBVIOUS
  <2> QED
    BY <2>1, <2>2, SumIsInt
<1>1. ASSUME NEW s \in SUBSET D, \A t \in SUBSET s : t # s => t \in Good
      PROVE  s \in Good
  <2> SUFFICES ASSUME s \subseteq B
               PROVE  SumMap(f, A \cup s) = SumMap(f, A) + SumMap(f, s)
    OBVIOUS
  <2>1. CASE s = {}
    <3> DEFINE u == A \cup s
    <3>1. u = A /\ SumMap(f, s) = 0
      BY <2>1, SumOfNone
    <3>2. SumMap(f, A) \in Int
      BY <1>0
    <3> HIDE DEF u
    <3>3. SumMap(f, u) = SumMap(f, A) + SumMap(f, s)
      BY <3>1, <3>2
    <3> QED
      BY <3>3 DEF u
  <2>2. CASE s # {}
    <3> PICK x \in s : TRUE
      BY <2>2
    <3> DEFINE r == s \ {x}
               u == A \cup s
               v == A \cup r
    <3>1. u \in SUBSET D /\ v = u \ {x} /\ x \in u /\ r \in Good
          /\ r \subseteq B /\ r \in SUBSET D /\ v \in SUBSET D
      BY <1>1
    <3>2. SumMap(f, u) = f[x] + SumMap(f, v)
      <4>1. \A y \in u : f[y] \in Int
        BY <3>1
      <4> HIDE DEF u, v
      <4> QED
        BY <1>0, <3>1, <4>1, SumStep
    <3>3. SumMap(f, s) = f[x] + SumMap(f, r)
      <4>1. \A y \in s : f[y] \in Int
        OBVIOUS
      <4> QED
        BY <1>0, <4>1, SumStep
    <3>4. SumMap(f, v) = SumMap(f, A) + SumMap(f, r)
      BY <3>1
    <3>5. f[x] \in Int /\ SumMap(f, A) \in Int /\ SumMap(f, r) \in Int
      BY <1>0, <3>1
    <3> HIDE DEF u, v, r
    <3>6. SumMap(f, u) = SumMap(f, A) + SumMap(f, s)
      BY <3>2, <3>3, <3>4, <3>5
    <3> QED
      BY <3>6 DEF u
  <2> QED
    BY <2>1, <2>2
<1>2. SUBSET D \subseteq Good
  <2> HIDE DEF Good
  <2> QED
    BY <1>1, SubsetInduction
<1> QED
  BY <1>2

(* A sum may be taken part by part: P[i] are the elements that belong to   *)
(* i, and g[i] is the sum over them.                                       *)
LEMMA SumByParts ==
    ASSUME NEW D, IsFiniteSet(D), NEW f, \A x \in D : f[x] \in Int,
           NEW I, IsFiniteSet(I), NEW P, NEW g,
           \A i \in I : P[i] \in SUBSET D /\ g[i] = SumMap(f, P[i]),
           \A i, j \in I : i # j => P[i] \cap P[j] = {},
           \A x \in D : \E i \in I : x \in P[i]
    PROVE  SumMap(g, I) = SumMap(f, D)
<1> DEFINE All(J) == UNION {P[i] : i \in J}
           Good == {J \in SUBSET I : SumMap(g, J) = SumMap(f, All(J))}
<1>0. \A i \in I : g[i] \in Int
  <2> SUFFICES ASSUME NEW i \in I PROVE g[i] \in Int
    OBVIOUS
  <2>1. IsFiniteSet(P[i]) /\ \A x \in P[i] : f[x] \in Int
    BY FS_Subset
  <2> QED
    BY <2>1, SumIsInt
<1>1. ASSUME NEW J \in SUBSET I, \A t \in SUBSET J : t # J => t \in Good
      PROVE  J \in Good
  <2>1. CASE J = {}
    <3>1. All(J) = {}
      BY <2>1
    <3> HIDE DEF All
    <3>2. SumMap(g, J) = SumMap(f, All(J))
      BY <2>1, <3>1, SumOfNone
    <3> QED
      BY <3>2
  <2>2. CASE J # {}
    <3> PICK i \in J : TRUE
      BY <2>2
    <3> DEFINE K == J \ {i}
    <3>1. K \in Good
      BY <1>1
    <3>2. All(J) = P[i] \cup All(K)
      OBVIOUS
    <3>3. P[i] \cap All(K) = {}
      OBVIOUS
    <3>4. All(K) \in SUBSET D /\ P[i] \in SUBSET D
      OBVIOUS
    <3>5. SumMap(g, J) = g[i] + SumMap(g, K)
      <4>1. IsFiniteSet(J) /\ \A j \in J : g[j] \in Int
        BY <1>0, FS_Subset
      <4> QED
        BY <4>1, SumStep
    <3>6. SumMap(g, K) = SumMap(f, All(K))
      BY <3>1
    <3> HIDE DEF All
    <3>7. SumMap(f, P[i] \cup All(K)) = SumMap(f, P[i]) + SumMap(f, All(K))
      <4> DEFINE A == P[i]
                 B == All(K)
      <4>1. A \in SUBSET D /\ B \in SUBSET D /\ A \cap B = {}
        BY <3>3, <3>4
      <4> HIDE DEF A, B
      <4>2. SumMap(f, A \cup B) = SumMap(f, A) + SumMap(f, B)
        BY <4>1, SumOfUnion
      <4> QED
        BY <4>2 DEF A, B
    <3>8. SumMap(g, J) = SumMap(f, All(J))
      BY <3>2, <3>5, <3>6, <3>7
    <3> QED
      BY <3>8
  <2> QED
    BY <2>1, <2>2
<1>2. SUBSET I \subseteq Good
  <2> HIDE DEF Good
  <2> QED
    BY <1>1, SubsetInduction
<1>3. I \in Good /\ All(I) = D
  BY <1>2
<1> HIDE DEF All
<1> QED
  BY <1>3

LEMMA SumSame ==
    ASSUME NEW D, IsFiniteSet(D), NEW f, NEW g,
           \A x \in D : f[x] \in Int /\ g[x] = f[x]
    PROVE  SumMap(g, D) = SumMap(f, D)
<1> DEFINE z == [x \in D |-> 0]
<1>1. SumMap(z, D) = 0
  <2>1. {} \in SUBSET D /\ (\A x \in D : z[x] \in Int)
        /\ \A x \in D \ {} : z[x] = 0
    OBVIOUS
  <2> HIDE DEF z
  <2> QED
    BY <2>1, SumOfPart, SumOfNone
<1>2. \A x \in D : f[x] \in Int /\ z[x] \in Int /\ g[x] = f[x] + z[x]
  OBVIOUS
<1> HIDE DEF z
<1>3. SumMap(g, D) = SumMap(f, D) + SumMap(z, D)
  BY <1>2, SumOfPlus
<1>4. SumMap(f, D) \in Int
  BY SumIsInt
<1> QED
  BY <1>1, <1>3, <1>4

(* The number of elements is a sum of ones.                                *)
LEMMA CountIsSum ==
    ASSUME NEW D, IsFiniteSet(D), NEW f, \A x \in D : f[x] = 1
    PROVE  SumMap(f, D) = Cardinality(D)
<1> DEFINE Good == {s \in SUBSET D : SumMap(f, s) = Cardinality(s)}
<1>1. ASSUME NEW s \in SUBSET D, \A t \in SUBSET s : t # s => t \in Good
      PROVE  s \in Good
  <2>1. CASE s = {}
    <3>1. SumMap(f, {}) = 0 /\ Cardinality({}) = 0
      BY SumOfNone, FS_EmptySet
    <3> QED
      BY <2>1, <3>1
  <2>2. CASE s # {}
    <3> PICK x \in s : TRUE
      BY <2>2
    <3>1. IsFiniteSet(s) /\ IsFiniteSet(s \ {x})
      BY FS_Subset
    <3>2. SumMap(f, s) = f[x] + SumMap(f, s \ {x})
      <4>1. \A y \in s : f[y] \in Int
        OBVIOUS
      <4> QED
        BY <3>1, <4>1, SumStep
    <3>3. SumMap(f, s \ {x}) = Cardinality(s \ {x})
      BY <1>1
    <3>4. Cardinality(s \ {x}) = Cardinality(s) - 1
          /\ Cardinality(s) \in Nat
      BY <3>1, FS_RemoveElement, FS_CardinalityType
    <3>5. SumMap(f, s) = Cardinality(s)
      BY <3>2, <3>3, <3>4
    <3> QED
      BY <3>5
  <2> QED
    BY <2>1, <2>2
<1>2. SUBSET D \subseteq Good
  <2> HIDE DEF Good
  <2> QED
    BY <1>1, SubsetInduction
<1> QED
  BY <1>2

LEMMA CountIsNat ==
    ASSUME NEW D, IsFiniteSet(D), NEW S \in SUBSET D
    PROVE  IsFiniteSet(S) /\ Cardinality(S) \in Nat
BY FS_Subset, FS_CardinalityType

(* A set is counted part by part.                                          *)
LEMMA CountByParts ==
    ASSUME NEW D, IsFiniteSet(D), NEW I, IsFiniteSet(I), NEW P, NEW g,
           \A i \in I : P[i] \in SUBSET D /\ g[i] = Cardinality(P[i]),
           \A i, j \in I : i # j => P[i] \cap P[j] = {},
           \A x \in D : \E i \in I : x \in P[i]
    PROVE  SumMap(g, I) = Cardinality(D)
<1> DEFINE f == [x \in D |-> 1]
<1>1. \A x \in D : f[x] = 1 /\ f[x] \in Int
  OBVIOUS
<1> HIDE DEF f
<1>2. ASSUME NEW i \in I PROVE g[i] = SumMap(f, P[i])
  <2>1. IsFiniteSet(P[i]) /\ \A x \in P[i] : f[x] = 1
    BY <1>1, CountIsNat
  <2>2. SumMap(f, P[i]) = Cardinality(P[i])
    BY <2>1, CountIsSum
  <2> QED
    BY <2>2
<1>3. SumMap(f, D) = Cardinality(D)
  BY <1>1, CountIsSum
<1>4. \A i \in I : P[i] \in SUBSET D /\ g[i] = SumMap(f, P[i])
  BY <1>2
<1>5. SumMap(f, D) = SumMap(g, I)
  BY <1>1, <1>4, SumByParts
<1> QED
  BY <1>3, <1>5

(* Parts that overlap count more.                                          *)
LEMMA CountOfCover ==
    ASSUME NEW D, IsFiniteSet(D), NEW I, IsFiniteSet(I), NEW P, NEW g,
           \A i \in I : P[i] \in SUBSET D /\ g[i] = Cardinality(P[i]),
           \A x \in D : \E i \in I : x \in P[i]
    PROVE  Cardinality(D) <= SumMap(g, I)
<1> DEFINE U(s) == {x \in D : \E i \in s : x \in P[i]}
           Good == {s \in SUBSET I : Cardinality(U(s)) <= SumMap(g, s)}
<1>0. \A i \in I : g[i] \in Int /\ g[i] \in Nat
  BY CountIsNat
<1>1. ASSUME NEW s \in SUBSET I, \A t \in SUBSET s : t # s => t \in Good
      PROVE  s \in Good
  <2>0. IsFiniteSet(s)
    BY FS_Subset
  <2>1. CASE s = {}
    <3>1. U(s) = {} /\ Cardinality({}) = 0
      BY <2>1, FS_EmptySet
    <3>2. SumMap(g, {}) = 0
      BY SumOfNone
    <3> QED
      BY <2>1, <3>1, <3>2
  <2>2. ASSUME NEW y \in s PROVE s \in Good
    <3> DEFINE r == s \ {y}
    <3>1. r \in Good
      BY <1>1
    <3>2. Cardinality(U(r)) <= SumMap(g, r)
      BY <3>1
    <3>3. SumMap(g, s) = g[y] + SumMap(g, r)
      BY <1>0, <2>0, SumStep
    <3>4. U(s) = P[y] \cup U(r) /\ U(r) \in SUBSET D /\ P[y] \in SUBSET D
      OBVIOUS
    <3>5. SumMap(g, r) \in Int
      <4>1. IsFiniteSet(r) /\ \A x \in r : g[x] \in Int
        BY <1>0, <2>0, FS_Subset
      <4> QED
        BY <4>1, SumIsInt
    <3> HIDE DEF U, r
    <3>6. /\ IsFiniteSet(P[y]) /\ Cardinality(P[y]) \in Nat
          /\ IsFiniteSet(U(r)) /\ Cardinality(U(r)) \in Nat
          /\ Cardinality(P[y] \cap U(r)) \in Nat
      <4>1. P[y] \cap U(r) \in SUBSET D
        BY <3>4
      <4> QED
        BY <3>4, <4>1, CountIsNat
    <3>7. Cardinality(P[y] \cup U(r)) = Cardinality(P[y]) + Cardinality(U(r))
                                          - Cardinality(P[y] \cap U(r))
      BY <3>6, FS_Union
    <3>8. g[y] = Cardinality(P[y])
      OBVIOUS
    <3>9. Cardinality(U(s)) <= SumMap(g, s)
      BY <3>2, <3>3, <3>4, <3>5, <3>6, <3>7, <3>8
    <3> QED
      BY <3>9
  <2> QED
    BY <2>1, <2>2
<1>2. SUBSET I \subseteq Good
  <2> HIDE DEF Good
  <2> QED
    BY <1>1, SubsetInduction
<1>3. U(I) = D
  OBVIOUS
<1> HIDE DEF U
<1> QED
  BY <1>2, <1>3

(* The least and the greatest number of a finite set.                      *)
LEMMA GreatestIn ==
    ASSUME NEW D \in SUBSET Int, IsFiniteSet(D), D # {}
    PROVE  Max(D) \in D /\ \A x \in D : x <= Max(D)
<1> DEFINE Good == {s \in SUBSET D :
                       s # {} => \E m \in s : \A x \in s : x <= m}
<1>1. ASSUME NEW s \in SUBSET D, \A t \in SUBSET s : t # s => t \in Good
      PROVE  s \in Good
  <2> SUFFICES ASSUME s # {} PROVE \E m \in s : \A x \in s : x <= m
    OBVIOUS
  <2> PICK y \in s : TRUE
    OBVIOUS
  <2>1. CASE s \ {y} = {}
    BY <2>1
  <2>2. CASE s \ {y} # {}
    <3>1. s \ {y} \in Good
      BY <1>1
    <3>2. PICK m \in s \ {y} : \A x \in s \ {y} : x <= m
      BY <2>2, <3>1
    <3>3. y \in Int /\ m \in Int
      OBVIOUS
    <3>4. CASE y <= m
      BY <3>2, <3>4
    <3>5. CASE m < y
      <4>1. \A x \in s : x <= y
        BY <3>2, <3>3, <3>5
      <4> QED
        BY <4>1
    <3> QED
      BY <3>3, <3>4, <3>5
  <2> QED
    BY <2>1, <2>2
<1>2. SUBSET D \subseteq Good
  <2> HIDE DEF Good
  <2> QED
    BY <1>1, SubsetInduction
<1>3. D \in Good
  BY <1>2
<1>4. \E m \in D : \A x \in D : m >= x
  BY <1>3
<1>5. Max(D) \in D /\ \A x \in D : Max(D) >= x
  BY <1>4 DEF Max
<1> QED
  BY <1>5

LEMMA LeastIn ==
    ASSUME NEW D \in SUBSET Int, IsFiniteSet(D), D # {}
    PROVE  Min(D) \in D /\ \A x \in D : Min(D) <= x
<1> DEFINE f == [x \in D |-> 0 - x]
           E == {f[x] : x \in D}
<1>1. f \in [D -> Int] /\ \A x \in D : f[x] = 0 - x
  OBVIOUS
<1> HIDE DEF f
<1>2. f \in Surjection(D, E) /\ E \in SUBSET Int /\ E # {}
  BY <1>1 DEF Surjection
<1>3. IsFiniteSet(E)
  <2> HIDE DEF E
  <2> QED
    BY <1>2, FS_Surjection
<1>4. PICK m \in E : \A x \in E : x <= m
  <2> HIDE DEF E
  <2> QED
    BY <1>2, <1>3, GreatestIn
<1>5. PICK n \in D : m = f[n]
  BY <1>4
<1>6. ASSUME NEW x \in D PROVE n <= x
  <2>1. f[x] \in E /\ f[x] <= f[n]
    BY <1>4, <1>5
  <2>2. n \in Int /\ x \in Int
    OBVIOUS
  <2> QED
    BY <1>1, <2>1, <2>2
<1>7. \E y \in D : \A x \in D : y =< x
  BY <1>6
<1> QED
  BY <1>7 DEF Min

(* What counts for nothing less than zero adds up to no less.              *)
LEMMA SumIsNat ==
    ASSUME NEW D, IsFiniteSet(D), NEW f, \A x \in D : f[x] \in Nat
    PROVE  SumMap(f, D) \in Nat
<1> DEFINE Good == {s \in SUBSET D : SumMap(f, s) \in Nat}
<1>1. ASSUME NEW s \in SUBSET D, \A t \in SUBSET s : t # s => t \in Good
      PROVE  s \in Good
  <2>1. CASE s = {}
    BY <2>1, SumOfNone
  <2>2. CASE s # {}
    <3> PICK x \in s : TRUE
      BY <2>2
    <3>1. IsFiniteSet(s) /\ \A y \in s : f[y] \in Int
      BY FS_Subset
    <3>2. SumMap(f, s) = f[x] + SumMap(f, s \ {x})
      BY <3>1, SumStep
    <3>3. SumMap(f, s \ {x}) \in Nat /\ f[x] \in Nat
      BY <1>1
    <3> QED
      BY <3>2, <3>3
  <2> QED
    BY <2>1, <2>2
<1>2. SUBSET D \subseteq Good
  <2> HIDE DEF Good
  <2> QED
    BY <1>1, SubsetInduction
<1> QED
  BY <1>2

(* Some of the elements add up to no more than all of them.                *)
LEMMA SumOfSome ==
    ASSUME NEW D, IsFiniteSet(D), NEW S \in SUBSET D,
           NEW f, \A x \in D : f[x] \in Nat
    PROVE  SumMap(f, S) <= SumMap(f, D)
<1>1. /\ S \in SUBSET D /\ D \ S \in SUBSET D /\ S \cap (D \ S) = {}
      /\ S \cup (D \ S) = D /\ \A x \in D : f[x] \in Int
  OBVIOUS
<1>2. SumMap(f, S \cup (D \ S)) = SumMap(f, S) + SumMap(f, D \ S)
  BY <1>1, SumOfUnion
<1>3. IsFiniteSet(S) /\ IsFiniteSet(D \ S)
  BY FS_Subset
<1>4. SumMap(f, S) \in Nat /\ SumMap(f, D \ S) \in Nat
  BY <1>3, SumIsNat
<1>5. SumMap(f, D) = SumMap(f, S) + SumMap(f, D \ S)
  BY <1>1, <1>2, Zenon
<1> QED
  BY <1>4, <1>5

-----------------------------------------------------------------------------
(* Ranks.  A[k] are the elements before k in a strict order of all of S.   *)

Ranks(A, S) ==
    /\ \A k \in S : A[k] \in SUBSET S /\ k \notin A[k]
    /\ \A k \in S : \A j \in A[k] : A[j] \subseteq A[k]
    /\ \A j, k \in S : j = k \/ j \in A[k] \/ k \in A[j]

(* What comes before has fewer before it.                                  *)
LEMMA RankGrows ==
    ASSUME NEW S, IsFiniteSet(S), NEW A, Ranks(A, S),
           NEW k \in S, NEW j \in A[k]
    PROVE  /\ Cardinality(A[j]) < Cardinality(A[k])
           /\ Cardinality(A[j]) \in Nat /\ Cardinality(A[k]) \in Nat
<1>1. /\ j \in S /\ A[j] \in SUBSET S /\ A[k] \in SUBSET S
      /\ A[j] \in SUBSET A[k] /\ j \notin A[j]
  BY DEF Ranks
<1>2. IsFiniteSet(A[j]) /\ IsFiniteSet(A[k])
  BY <1>1, FS_Subset
<1>3. Cardinality(A[j]) \in Nat /\ Cardinality(A[k]) \in Nat
  BY <1>2, FS_CardinalityType
<1>4. /\ Cardinality(A[j]) <= Cardinality(A[k])
      /\ Cardinality(A[k]) = Cardinality(A[j]) => A[k] = A[j]
  BY <1>1, <1>2, FS_Subset
<1> QED
  BY <1>1, <1>3, <1>4

(* Every rank is one element's, so as many are among the first T.          *)
LEMMA FirstOnes ==
    ASSUME NEW S, IsFiniteSet(S), NEW A, Ranks(A, S), NEW T \in Nat
    PROVE  Cardinality({k \in S : Cardinality(A[k]) < T})
              = IF T <= Cardinality(S) THEN T ELSE Cardinality(S)
<1> DEFINE n == Cardinality(S)
           m == IF T <= n THEN T ELSE n
           f == [k \in S |-> Cardinality(A[k])]
           L == {k \in S : Cardinality(A[k]) < T}
<1>1. n \in Nat /\ m \in Nat /\ m <= n /\ m <= T
  BY FS_CardinalityType
<1>2. ASSUME NEW k \in S PROVE f[k] \in 0..(n - 1)
  <2>1. A[k] \in SUBSET S /\ A[k] # S
    BY DEF Ranks
  <2>2. IsFiniteSet(A[k]) /\ Cardinality(A[k]) <= n /\ Cardinality(A[k]) # n
    BY <2>1, FS_Subset
  <2>3. Cardinality(A[k]) \in Nat
    BY <2>2, FS_CardinalityType
  <2> QED
    BY <1>1, <2>2, <2>3
<1>3. ASSUME NEW j \in S, NEW k \in S, f[j] = f[k] PROVE j = k
  <2>1. j \in A[k] => Cardinality(A[j]) < Cardinality(A[k])
                      /\ Cardinality(A[j]) \in Nat
    BY RankGrows
  <2>2. k \in A[j] => Cardinality(A[k]) < Cardinality(A[j])
                      /\ Cardinality(A[k]) \in Nat
    BY RankGrows
  <2>3. Cardinality(A[j]) = Cardinality(A[k])
    BY <1>3
  <2> QED
    BY <2>1, <2>2, <2>3 DEF Ranks
<1> HIDE DEF n, m
<1>4. f \in Injection(S, 0..(n - 1))
  <2>1. f \in [S -> 0..(n - 1)]
    BY <1>2
  <2> QED
    BY <1>3, <2>1 DEF Injection, IsInjective
<1>5. /\ IsFiniteSet(0..(n - 1)) /\ Cardinality(0..(n - 1)) = n
      /\ IsFiniteSet(0..(m - 1)) /\ Cardinality(0..(m - 1)) = m
  <2>1. n - 1 \in Int /\ m - 1 \in Int /\ 0 \in Int
    BY <1>1
  <2>2. /\ IsFiniteSet(0..(n - 1))
        /\ Cardinality(0..(n - 1))
              = IF 0 > n - 1 THEN 0 ELSE (n - 1) - 0 + 1
    BY <2>1, FS_Interval
  <2>3. /\ IsFiniteSet(0..(m - 1))
        /\ Cardinality(0..(m - 1))
              = IF 0 > m - 1 THEN 0 ELSE (m - 1) - 0 + 1
    BY <2>1, FS_Interval
  <2> QED
    BY <1>1, <2>2, <2>3
<1>6. f \in Surjection(S, 0..(n - 1))
  <2>1. Cardinality(S) = Cardinality(0..(n - 1))
    BY <1>5 DEF n
  <2> HIDE DEF f
  <2> QED
    BY <1>4, <1>5, <2>1, FS_Injection
<1> DEFINE g == [k \in L |-> f[k]]
<1>7. ASSUME NEW k \in L PROVE g[k] \in 0..(m - 1)
  <2>1. f[k] \in 0..(n - 1) /\ f[k] < T
    BY <1>2
  <2> QED
    BY <1>1, <2>1 DEF m, n
<1>8. ASSUME NEW r \in 0..(m - 1) PROVE \E k \in L : g[k] = r
  <2>1. r \in 0..(n - 1) /\ r < T
    BY <1>1
  <2>2. PICK k \in S : f[k] = r
    BY <1>6, <2>1 DEF Surjection
  <2> QED
    BY <2>1, <2>2
<1>9. g \in Bijection(L, 0..(m - 1))
  <2>1. g \in [L -> 0..(m - 1)]
    BY <1>7
  <2>2. \A j, k \in L : g[j] = g[k] => j = k
    BY <1>3
  <2> QED
    BY <1>8, <2>1, <2>2 DEF Bijection, Injection, Surjection, IsInjective
<1>10. IsFiniteSet(L)
  BY FS_Subset
<1> HIDE DEF g, L
<1>11. ExistsBijection(L, 0..(m - 1))
  BY <1>9 DEF ExistsBijection
<1> QED
  BY <1>5, <1>10, <1>11, FS_Bijection DEF L, m, n
=============================================================================
