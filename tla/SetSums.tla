------------------------------ MODULE SetSums -------------------------------
(***************************************************************************)
(* Sums over finite sets: what the library's SumFunctionOnSet gives when   *)
(* summands change one at a time.  The library defines it by a recursive   *)
(* function that exists only if the set is finite, and states nothing      *)
(* about it; these lemmas are what the proofs about balances and stock     *)
(* need.                                                                   *)
(***************************************************************************)
EXTENDS Functions, FiniteSetTheorems, WellFoundedInduction, TLAPS

(* The element that a fold over a set takes first.                        *)
Chosen(s) == CHOOSE x \in s : TRUE

(* The recursive function behind the sum of f over S, and over every      *)
(* subset of S.                                                           *)
SumsOver(g, f, S) ==
  g = [s \in SUBSET S |->
         IF s = {} THEN 0 ELSE f[Chosen(s)] + g[s \ {Chosen(s)}]]

(* The sum as the library defines it: some such function, applied to S.   *)
LEMMA SumIsChosen ==
  ASSUME NEW f, NEW S
  PROVE  SumFunctionOnSet(f, S) = (CHOOSE g : SumsOver(g, f, S))[S]
BY DEF SumFunctionOnSet, FoldFunctionOnSet, MapThenFoldSet, SumsOver, Chosen

(* A set that has an element gives one of its own.                        *)
LEMMA ChosenIn == ASSUME NEW s, s # {} PROVE Chosen(s) \in s
BY DEF Chosen

(* Among subsets of a finite set there is always one that contains no     *)
(* other: where induction would go, a least counterexample.               *)
LEMMA LeastSubset ==
  ASSUME NEW S, IsFiniteSet(S), NEW T, T \subseteq SUBSET S, T # {}
  PROVE  \E A \in T : \A B \in T : ~(B \subseteq A /\ B # A)
<1>1. IsWellFoundedOn(StrictSubsetOrdering(S), SUBSET S)
  BY FS_StrictSubsetOrderingWellFounded, FS_FiniteSubsetsOfFinite
<1>2. \E A \in T : \A B \in T : <<B, A>> \notin StrictSubsetOrdering(S)
  BY <1>1, WFMin
<1>. QED  BY <1>2 DEF StrictSubsetOrdering

(* Two such functions agree on every finite set on which their summands   *)
(* do, whatever sets they were defined for.                               *)
LEMMA SumsAgree ==
  ASSUME NEW f, NEW g, NEW A, SumsOver(g, f, A),
         NEW e, NEW h, NEW B, SumsOver(h, e, B),
         NEW S, S \subseteq A, S \subseteq B, IsFiniteSet(S),
         \A x \in S : f[x] = e[x]
  PROVE  g[S] = h[S]
<1>. DEFINE Bad == {s \in SUBSET S : g[s] # h[s]}
<1>1. SUFFICES ASSUME Bad # {} PROVE FALSE
  OBVIOUS
<1>2. PICK s \in Bad : \A t \in Bad : ~(t \subseteq s /\ t # s)
  <2>1. Bad \subseteq SUBSET S
    OBVIOUS
  <2>. HIDE DEF Bad
  <2>. QED  BY <1>1, <2>1, LeastSubset
<1>3. /\ g[s] = IF s = {} THEN 0 ELSE f[Chosen(s)] + g[s \ {Chosen(s)}]
      /\ h[s] = IF s = {} THEN 0 ELSE e[Chosen(s)] + h[s \ {Chosen(s)}]
  <2>1. s \in SUBSET A /\ s \in SUBSET B
    BY <1>2
  <2>. QED  BY <2>1 DEF SumsOver
<1>4. CASE s = {}
  BY <1>2, <1>3, <1>4
<1>5. CASE s # {}
  <2>1. Chosen(s) \in s
    BY <1>5, ChosenIn
  <2>2. g[s \ {Chosen(s)}] = h[s \ {Chosen(s)}]
    BY <1>2, <2>1
  <2>. QED  BY <1>2, <1>3, <1>5, <2>1, <2>2
<1>. QED  BY <1>4, <1>5

(* There is such a function for every finite set.                         *)
LEMMA SumsExist ==
  ASSUME NEW f, NEW S, IsFiniteSet(S)
  PROVE  \E g : SumsOver(g, f, S)
<1>. DEFINE Bad == {s \in SUBSET S : ~ \E g : SumsOver(g, f, s)}
<1>1. SUFFICES ASSUME Bad # {} PROVE FALSE
  BY DEF Bad
<1>2. PICK s \in Bad : \A t \in Bad : ~(t \subseteq s /\ t # s)
  <2>1. Bad \subseteq SUBSET S
    OBVIOUS
  <2>. HIDE DEF Bad
  <2>. QED  BY <1>1, <2>1, LeastSubset
<1>. DEFINE G(t) == CHOOSE g : SumsOver(g, f, t)
            Tail(t) == t \ {Chosen(t)}
            g == [t \in SUBSET s |->
                    IF t = {} THEN 0 ELSE f[Chosen(t)] + G(Tail(t))[Tail(t)]]
<1>3. ASSUME NEW t \in SUBSET s, t # {}
      PROVE  Tail(t) \in SUBSET s /\ Tail(t) # s /\ SumsOver(G(Tail(t)), f, Tail(t))
  <2>1. Tail(t) \in SUBSET s /\ Tail(t) # s
    BY <1>3, ChosenIn
  <2>2. \E k : SumsOver(k, f, Tail(t))
    BY <1>2, <2>1
  <2>. QED  BY <2>1, <2>2
<1>4. ASSUME NEW t \in SUBSET s, t # {}
      PROVE  g[Tail(t)] = G(Tail(t))[Tail(t)]
  <2>. DEFINE u == Tail(t)
  <2>1. /\ u \in SUBSET s /\ u # s
        /\ SumsOver(G(u), f, u)
    BY <1>3, <1>4
  <2>2. G(u)[u] = IF u = {} THEN 0 ELSE f[Chosen(u)] + G(u)[Tail(u)]
    BY <2>1 DEF SumsOver
  <2>3. g[u] = IF u = {} THEN 0 ELSE f[Chosen(u)] + G(Tail(u))[Tail(u)]
    BY <2>1
  <2>4. CASE u # {}
    <3>1. SumsOver(G(Tail(u)), f, Tail(u))
      BY <1>3, <2>1, <2>4
    <3>2. IsFiniteSet(Tail(u))
      BY <1>2, <2>1, FS_Subset
    <3>3. G(u)[Tail(u)] = G(Tail(u))[Tail(u)]
      <4>. HIDE DEF G
      <4>1. Tail(u) \subseteq u /\ Tail(u) \subseteq Tail(u)
        OBVIOUS
      <4>2. \A x \in Tail(u) : f[x] = f[x]
        OBVIOUS
      <4>. HIDE DEF u, Tail
      <4>. QED  BY <2>1, <3>1, <3>2, <4>1, <4>2, SumsAgree
    <3>. QED  BY <2>2, <2>3, <2>4, <3>3
  <2>. QED  BY <2>2, <2>3, <2>4
<1>5. SumsOver(g, f, s)
  <2>1. ASSUME NEW t \in SUBSET s
        PROVE  g[t] = IF t = {} THEN 0 ELSE f[Chosen(t)] + g[Tail(t)]
    <3>1. g[t] = IF t = {} THEN 0 ELSE f[Chosen(t)] + G(Tail(t))[Tail(t)]
      OBVIOUS
    <3>2. t # {} => g[Tail(t)] = G(Tail(t))[Tail(t)]
      BY <1>4
    <3>. HIDE DEF g, G, Tail
    <3>. QED  BY <3>1, <3>2
  <2>2. g = [t \in SUBSET s |-> g[t]]
    OBVIOUS
  <2>. HIDE DEF g
  <2>. QED  BY <2>1, <2>2 DEF SumsOver
<1>. QED  BY <1>2, <1>5
-----------------------------------------------------------------------------
(* The sum of f over a finite set, element by element.                     *)
LEMMA SumOfNone == ASSUME NEW f PROVE SumFunctionOnSet(f, {}) = 0
<1>. DEFINE g == CHOOSE k : SumsOver(k, f, {})
<1>1. SumsOver(g, f, {})
  BY SumsExist, FS_EmptySet
<1>2. g[{}] = 0
  <2>. HIDE DEF g
  <2>. QED  BY <1>1 DEF SumsOver
<1>. QED  BY <1>2, SumIsChosen

(* One step of the sum.                                                   *)
LEMMA SumStep ==
  ASSUME NEW f, NEW S, IsFiniteSet(S), S # {}
  PROVE  SumFunctionOnSet(f, S)
           = f[Chosen(S)] + SumFunctionOnSet(f, S \ {Chosen(S)})
<1>. DEFINE T == S \ {Chosen(S)}
            g == CHOOSE k : SumsOver(k, f, S)
            h == CHOOSE k : SumsOver(k, f, T)
<1>1. IsFiniteSet(T) /\ T \subseteq S
  BY FS_Subset
<1>2. SumsOver(g, f, S) /\ SumsOver(h, f, T)
  <2>. HIDE DEF T
  <2>. QED  BY <1>1, SumsExist
<1>3. g[S] = f[Chosen(S)] + g[T]
  <2>. HIDE DEF g
  <2>. QED  BY <1>2 DEF SumsOver
<1>4. g[T] = h[T]
  <2>1. T \subseteq T /\ \A x \in T : f[x] = f[x]
    OBVIOUS
  <2>. HIDE DEF g, h, T
  <2>. QED  BY <1>1, <1>2, <2>1, SumsAgree
<1>5. SumFunctionOnSet(f, S) = g[S] /\ SumFunctionOnSet(f, T) = h[T]
  BY SumIsChosen
<1>. HIDE DEF g, h
<1>. QED  BY <1>3, <1>4, <1>5

(* Only the values of the summands on the set count.                       *)
LEMMA SumSame ==
  ASSUME NEW f, NEW e, NEW S, IsFiniteSet(S), \A x \in S : f[x] = e[x]
  PROVE  SumFunctionOnSet(f, S) = SumFunctionOnSet(e, S)
<1>. DEFINE g == CHOOSE k : SumsOver(k, f, S)
            h == CHOOSE k : SumsOver(k, e, S)
<1>1. SumsOver(g, f, S) /\ SumsOver(h, e, S)
  BY SumsExist
<1>2. g[S] = h[S]
  <2>. HIDE DEF g, h
  <2>. QED  BY <1>1, SumsAgree
<1>. QED  BY <1>2, SumIsChosen

(* The sum of integers is an integer.                                      *)
LEMMA SumIsInt ==
  ASSUME NEW f, NEW S, IsFiniteSet(S), \A x \in S : f[x] \in Int
  PROVE  SumFunctionOnSet(f, S) \in Int
<1>. DEFINE Bad == {s \in SUBSET S : SumFunctionOnSet(f, s) \notin Int}
<1>1. SUFFICES ASSUME Bad # {} PROVE FALSE
  OBVIOUS
<1>2. PICK s \in Bad : \A t \in Bad : ~(t \subseteq s /\ t # s)
  <2>1. Bad \subseteq SUBSET S
    OBVIOUS
  <2>. HIDE DEF Bad
  <2>. QED  BY <1>1, <2>1, LeastSubset
<1>3. CASE s = {}
  BY <1>2, <1>3, SumOfNone
<1>4. CASE s # {}
  <2>1. Chosen(s) \in s /\ IsFiniteSet(s)
    BY <1>2, <1>4, ChosenIn, FS_Subset
  <2>2. SumFunctionOnSet(f, s \ {Chosen(s)}) \in Int
    BY <1>2, <2>1
  <2>3. f[Chosen(s)] \in Int
    BY <1>2, <2>1
  <2>4. SumFunctionOnSet(f, s)
          = f[Chosen(s)] + SumFunctionOnSet(f, s \ {Chosen(s)})
    BY <1>4, <2>1, SumStep
  <2>. QED  BY <1>2, <2>2, <2>3, <2>4
<1>. QED  BY <1>3, <1>4

(* The sum of naturals is a natural number.                                *)
LEMMA SumIsNat ==
  ASSUME NEW f, NEW S, IsFiniteSet(S), \A x \in S : f[x] \in Nat
  PROVE  SumFunctionOnSet(f, S) \in Nat
<1>. DEFINE Bad == {s \in SUBSET S : SumFunctionOnSet(f, s) \notin Nat}
<1>1. SUFFICES ASSUME Bad # {} PROVE FALSE
  OBVIOUS
<1>2. PICK s \in Bad : \A t \in Bad : ~(t \subseteq s /\ t # s)
  <2>1. Bad \subseteq SUBSET S
    OBVIOUS
  <2>. HIDE DEF Bad
  <2>. QED  BY <1>1, <2>1, LeastSubset
<1>3. CASE s = {}
  BY <1>2, <1>3, SumOfNone
<1>4. CASE s # {}
  <2>1. Chosen(s) \in s /\ IsFiniteSet(s)
    BY <1>2, <1>4, ChosenIn, FS_Subset
  <2>2. SumFunctionOnSet(f, s \ {Chosen(s)}) \in Nat
    BY <1>2, <2>1
  <2>3. f[Chosen(s)] \in Nat
    BY <1>2, <2>1
  <2>4. SumFunctionOnSet(f, s)
          = f[Chosen(s)] + SumFunctionOnSet(f, s \ {Chosen(s)})
    BY <1>4, <2>1, SumStep
  <2>. QED  BY <1>2, <2>2, <2>3, <2>4
<1>. QED  BY <1>3, <1>4

(* Any element may be taken out of the sum, not only the chosen one.       *)
LEMMA SumRemove ==
  ASSUME NEW f, NEW S, IsFiniteSet(S), \A x \in S : f[x] \in Int, NEW x \in S
  PROVE  SumFunctionOnSet(f, S) = f[x] + SumFunctionOnSet(f, S \ {x})
<1>. DEFINE Any(s) == \A y \in s :
              SumFunctionOnSet(f, s) = f[y] + SumFunctionOnSet(f, s \ {y})
            Bad == {s \in SUBSET S : ~Any(s)}
<1>1. SUFFICES ASSUME Bad # {} PROVE FALSE
  OBVIOUS
<1>2. PICK s \in Bad : \A t \in Bad : ~(t \subseteq s /\ t # s)
  <2>1. Bad \subseteq SUBSET S
    OBVIOUS
  <2>. HIDE DEF Bad
  <2>. QED  BY <1>1, <2>1, LeastSubset
<1>3. PICK y \in s : SumFunctionOnSet(f, s)
                       # f[y] + SumFunctionOnSet(f, s \ {y})
  BY <1>2
<1>. DEFINE z == Chosen(s)
            rest == SumFunctionOnSet(f, (s \ {z}) \ {y})
<1>4. /\ s \subseteq S /\ z \in s /\ IsFiniteSet(s)
      /\ SumFunctionOnSet(f, s) = f[z] + SumFunctionOnSet(f, s \ {z})
  BY <1>2, <1>3, ChosenIn, FS_Subset, SumStep
<1>5. z # y
  BY <1>3, <1>4
<1>6. Any(s \ {z}) /\ Any(s \ {y})
  BY <1>2, <1>3, <1>4
<1>7. SumFunctionOnSet(f, s \ {z}) = f[y] + rest
  BY <1>3, <1>5, <1>6
<1>8. SumFunctionOnSet(f, s \ {y}) = f[z] + rest
  <2>1. (s \ {y}) \ {z} = (s \ {z}) \ {y}
    OBVIOUS
  <2>. QED  BY <1>4, <1>5, <1>6, <2>1
<1>9. f[y] \in Int /\ f[z] \in Int /\ rest \in Int
  <2>1. IsFiniteSet((s \ {z}) \ {y})
    BY <1>4, FS_Subset
  <2>2. \A v \in (s \ {z}) \ {y} : f[v] \in Int
    BY <1>4
  <2>. QED  BY <1>3, <1>4, <2>1, <2>2, SumIsInt
<1>. HIDE DEF z, rest
<1>. QED  BY <1>3, <1>4, <1>7, <1>8, <1>9

(* An element added to the set adds its summand.                           *)
LEMMA SumAdd ==
  ASSUME NEW f, NEW S, IsFiniteSet(S), \A x \in S : f[x] \in Int,
         NEW y, y \notin S, f[y] \in Int
  PROVE  SumFunctionOnSet(f, S \cup {y}) = f[y] + SumFunctionOnSet(f, S)
<1>1. IsFiniteSet(S \cup {y}) /\ \A x \in S \cup {y} : f[x] \in Int
  BY FS_AddElement
<1>2. (S \cup {y}) \ {y} = S
  OBVIOUS
<1>. QED  BY <1>1, <1>2, SumRemove

(* The sum of one summand.                                                 *)
LEMMA SumOfOne ==
  ASSUME NEW f, NEW x, f[x] \in Int
  PROVE  SumFunctionOnSet(f, {x}) = f[x]
<1>1. SumFunctionOnSet(f, {x}) = f[x] + SumFunctionOnSet(f, {x} \ {x})
  BY FS_Singleton, SumRemove
<1>2. {x} \ {x} = {}
  OBVIOUS
<1>. QED  BY <1>1, <1>2, SumOfNone

(* Sets with nothing in common add up.                                     *)
LEMMA SumUnion ==
  ASSUME NEW f, NEW S, IsFiniteSet(S), NEW T, IsFiniteSet(T), S \cap T = {},
         \A x \in S \cup T : f[x] \in Int
  PROVE  SumFunctionOnSet(f, S \cup T)
           = SumFunctionOnSet(f, S) + SumFunctionOnSet(f, T)
<1>. DEFINE Bad == {t \in SUBSET T : SumFunctionOnSet(f, S \cup t)
                       # SumFunctionOnSet(f, S) + SumFunctionOnSet(f, t)}
<1>1. SUFFICES ASSUME Bad # {} PROVE FALSE
  OBVIOUS
<1>2. PICK t \in Bad : \A s \in Bad : ~(s \subseteq t /\ s # t)
  <2>1. Bad \subseteq SUBSET T
    OBVIOUS
  <2>. HIDE DEF Bad
  <2>. QED  BY <1>1, <2>1, LeastSubset
<1>3. SumFunctionOnSet(f, S) \in Int
  BY SumIsInt
<1>4. CASE t = {}
  <2>1. S \cup t = S
    BY <1>4
  <2>. QED  BY <1>2, <1>3, <1>4, <2>1, SumOfNone
<1>5. CASE t # {}
  <2>. DEFINE y == Chosen(t)
              s == t \ {y}
  <2>1. /\ y \in t /\ s \subseteq t /\ s # t /\ t \subseteq T
        /\ IsFiniteSet(s) /\ IsFiniteSet(S \cup s)
    <3>1. y \in t
      BY <1>5, ChosenIn
    <3>2. s \subseteq T
      BY <1>2
    <3>3. IsFiniteSet(s)
      BY <3>2, FS_Subset
    <3>4. IsFiniteSet(S \cup s)
      BY <3>3, FS_Union
    <3>. QED  BY <1>2, <3>1, <3>3, <3>4
  <2>2. SumFunctionOnSet(f, S \cup s)
          = SumFunctionOnSet(f, S) + SumFunctionOnSet(f, s)
    BY <1>2, <2>1
  <2>3. /\ y \notin S \cup s /\ y \notin s /\ f[y] \in Int
        /\ t = s \cup {y} /\ S \cup t = (S \cup s) \cup {y}
        /\ \A x \in S \cup s : f[x] \in Int
    BY <2>1
  <2>. HIDE DEF y, s
  <2>4. SumFunctionOnSet(f, (S \cup s) \cup {y}) = f[y] + SumFunctionOnSet(f, S \cup s)
    BY <2>1, <2>3, SumAdd
  <2>5. SumFunctionOnSet(f, s \cup {y}) = f[y] + SumFunctionOnSet(f, s)
    BY <2>1, <2>3, SumAdd
  <2>6. SumFunctionOnSet(f, s) \in Int
    BY <2>1, <2>3, SumIsInt
  <2>. QED  BY <1>2, <1>3, <2>2, <2>3, <2>4, <2>5, <2>6
<1>. QED  BY <1>4, <1>5

(* The image of a finite set is finite.                                    *)
LEMMA ImageFinite ==
  ASSUME NEW m, NEW S, IsFiniteSet(S)
  PROVE  IsFiniteSet({m[x] : x \in S})
<1>. DEFINE T == {m[x] : x \in S}
            h == [x \in S |-> m[x]]
<1>1. h \in Surjection(S, T)
  BY DEF Surjection
<1>. HIDE DEF h, T
<1>2. IsFiniteSet(T)
  BY <1>1, FS_Surjection
<1>. QED  BY <1>2 DEF T

(* Summands may be renamed.                                                *)
LEMMA SumRenamed ==
  ASSUME NEW f, NEW g, NEW m, NEW S, IsFiniteSet(S),
         \A x \in S : g[x] \in Int /\ f[m[x]] = g[x],
         \A x, y \in S : m[x] = m[y] => x = y
  PROVE  SumFunctionOnSet(f, {m[x] : x \in S}) = SumFunctionOnSet(g, S)
<1>. DEFINE Named(s) == {m[x] : x \in s}
            Bad == {s \in SUBSET S : SumFunctionOnSet(f, Named(s))
                                       # SumFunctionOnSet(g, s)}
<1>1. SUFFICES ASSUME Bad # {} PROVE FALSE
  OBVIOUS
<1>2. PICK s \in Bad : \A t \in Bad : ~(t \subseteq s /\ t # s)
  <2>1. Bad \subseteq SUBSET S
    OBVIOUS
  <2>. HIDE DEF Bad
  <2>. QED  BY <1>1, <2>1, LeastSubset
<1>3. CASE s = {}
  <2>1. Named(s) = {}
    BY <1>3
  <2>. QED  BY <1>2, <1>3, <2>1, SumOfNone
<1>4. CASE s # {}
  <2>. DEFINE y == Chosen(s)
              t == s \ {y}
  <2>1. y \in s /\ t \subseteq s /\ t # s /\ s \subseteq S /\ IsFiniteSet(t)
    <3>1. y \in s
      BY <1>4, ChosenIn
    <3>2. t \subseteq S
      BY <1>2
    <3>3. IsFiniteSet(t)
      BY <3>2, FS_Subset
    <3>. QED  BY <1>2, <3>1, <3>3
  <2>2. SumFunctionOnSet(f, Named(t)) = SumFunctionOnSet(g, t)
    BY <1>2, <2>1
  <2>3. IsFiniteSet(Named(t))
    BY <2>1, ImageFinite
  <2>4. /\ Named(s) = Named(t) \cup {m[y]} /\ m[y] \notin Named(t)
        /\ \A z \in Named(t) : f[z] \in Int
        /\ f[m[y]] = g[y] /\ g[y] \in Int
        /\ s = t \cup {y} /\ y \notin t /\ \A x \in t : g[x] \in Int
    BY <2>1
  <2>. HIDE DEF y, t, Named
  <2>5. SumFunctionOnSet(f, Named(t) \cup {m[y]}) = f[m[y]] + SumFunctionOnSet(f, Named(t))
    BY <2>3, <2>4, SumAdd
  <2>6. SumFunctionOnSet(g, t \cup {y}) = g[y] + SumFunctionOnSet(g, t)
    BY <2>1, <2>4, SumAdd
  <2>. QED  BY <1>2, <2>2, <2>4, <2>5, <2>6
<1>. QED  BY <1>3, <1>4
=============================================================================
