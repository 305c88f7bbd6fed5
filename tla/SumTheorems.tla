----------------------------- MODULE SumTheorems -----------------------------
(***************************************************************************)
(* Sums over finite sets, as MapThenSumSet of the community modules        *)
(* computes them: they do not depend on the order in which the members are *)
(* taken, and grow with the set and with the amounts.                      *)
(***************************************************************************)
EXTENDS Integers, FiniteSets, FiniteSetTheorems, TLAPS

(* The one member of s that a sum takes first.                             *)
First(s) == CHOOSE x \in s : TRUE

(* The recursion of MapThenSumSet, for amounts given as a function.        *)
Sums(amt, T, g) ==
    g = [s \in SUBSET T |-> IF s = {} THEN 0 ELSE amt[First(s)] + g[s \ {First(s)}]]

(* The sum of the amounts of the members of T.                             *)
SumOf(amt, T) == (CHOOSE g : Sums(amt, T, g))[T]

(* It is one.                                                              *)
LEMMA FirstIn == ASSUME NEW s, s # {} PROVE First(s) \in s
BY DEF First

(* A family of subsets of a finite set has a least member.                 *)
LEMMA LeastSubset ==
  ASSUME NEW T, IsFiniteSet(T), NEW Q \in SUBSET (SUBSET T), Q # {}
  PROVE  \E s \in Q : \A t \in Q : t \subseteq s => t = s
<1>1. IsWellFoundedOn(StrictSubsetOrdering(T), SUBSET T)
  BY FS_StrictSubsetOrderingWellFounded, FS_FiniteSubsetsOfFinite
<1>2. PICK s \in Q : \A t \in Q : ~ (<<t, s>> \in StrictSubsetOrdering(T))
  BY <1>1, WFMin
<1>3. \A t \in Q : t \subseteq s => t = s
  BY <1>2 DEF StrictSubsetOrdering
<1> QED BY <1>2, <1>3

(* Over integers, the recursion computes integers.                         *)
LEMMA SumsType ==
  ASSUME NEW T, IsFiniteSet(T), NEW amt, \A x \in T : amt[x] \in Int, NEW g, Sums(amt, T, g)
  PROVE  g \in [SUBSET T -> Int]
<1> DEFINE Q == {s \in SUBSET T : g[s] \notin Int}
<1>1. g = [s \in SUBSET T |-> g[s]] /\ DOMAIN g = SUBSET T
  BY DEF Sums
<1>0a. Q # {} => \E v \in Q : \A t \in Q : t \subseteq v => t = v
  <2>1. Q \in SUBSET (SUBSET T)
    OBVIOUS
  <2> HIDE DEF Q
  <2> QED BY <2>1, LeastSubset
<1>2. ASSUME Q # {} PROVE FALSE
  <2>1. PICK s \in Q : \A t \in Q : t \subseteq s => t = s
    BY <1>0a, <1>2
  <2>2. g[s] = IF s = {} THEN 0 ELSE amt[First(s)] + g[s \ {First(s)}]
    BY DEF Sums
  <2>3. s # {} /\ First(s) \in s
    BY <2>1, <2>2, FirstIn
  <2>4. s \ {First(s)} \notin Q /\ s \ {First(s)} \in SUBSET T
    BY <2>1, <2>3
  <2>5. g[s \ {First(s)}] \in Int /\ amt[First(s)] \in Int
    BY <2>3, <2>4
  <2> QED BY <2>1, <2>2, <2>3, <2>5
<1>3. \A s \in SUBSET T : g[s] \in Int
  BY <1>2
<1> QED BY <1>1, <1>3

(* Amounts that agree on a set have the same sums over its subsets.        *)
LEMMA SumsUnique ==
  ASSUME NEW T, IsFiniteSet(T), NEW V, NEW U \in SUBSET T, U \subseteq V,
         NEW amt, NEW bmt, \A x \in U : amt[x] = bmt[x],
         NEW g, Sums(amt, T, g), NEW h, Sums(bmt, V, h)
  PROVE  g[U] = h[U]
<1> DEFINE Q == {s \in SUBSET U : g[s] # h[s]}
<1>0a. Q # {} => \E v \in Q : \A t \in Q : t \subseteq v => t = v
  <2>1. Q \in SUBSET (SUBSET T)
    OBVIOUS
  <2> HIDE DEF Q
  <2> QED BY <2>1, LeastSubset
<1>1. ASSUME Q # {} PROVE FALSE
  <2>1. PICK s \in Q : \A t \in Q : t \subseteq s => t = s
    BY <1>0a, <1>1
  <2>2. /\ g[s] = IF s = {} THEN 0 ELSE amt[First(s)] + g[s \ {First(s)}]
        /\ h[s] = IF s = {} THEN 0 ELSE bmt[First(s)] + h[s \ {First(s)}]
    BY DEF Sums
  <2>3. s # {} /\ First(s) \in s
    BY <2>1, <2>2, FirstIn
  <2>4. g[s \ {First(s)}] = h[s \ {First(s)}]
    BY <2>1, <2>3
  <2> QED BY <2>1, <2>2, <2>3, <2>4
<1> QED BY <1>1

(* The sum does not depend on which member is taken first.                 *)
LEMMA SumsAny ==
  ASSUME NEW T, IsFiniteSet(T), NEW amt, \A x \in T : amt[x] \in Int, NEW g, Sums(amt, T, g),
         NEW s \in SUBSET T, NEW x \in s
  PROVE  g[s] = amt[x] + g[s \ {x}]
<1> DEFINE Q == {t \in SUBSET T : \E y \in t : g[t] # amt[y] + g[t \ {y}]}
<1>0. g \in [SUBSET T -> Int]
  BY SumsType
<1>0a. Q # {} => \E v \in Q : \A t \in Q : t \subseteq v => t = v
  <2>1. Q \in SUBSET (SUBSET T)
    OBVIOUS
  <2> HIDE DEF Q
  <2> QED BY <2>1, LeastSubset
<1>1. ASSUME Q # {} PROVE FALSE
  <2>1. PICK t \in Q : \A u \in Q : u \subseteq t => u = t
    BY <1>0a, <1>1
  <2>2. PICK y \in t : g[t] # amt[y] + g[t \ {y}]
    BY <2>1
  <2> DEFINE z == First(t)
  <2>3. z \in t /\ g[t] = amt[z] + g[t \ {z}]
    BY <2>2, FirstIn DEF Sums
  <2> HIDE DEF z
  <2>4. y # z
    BY <2>2, <2>3
  <2>5. t \ {z} \in SUBSET T /\ t \ {z} \notin Q /\ y \in t \ {z}
    BY <2>1, <2>3, <2>4
  <2>6. g[t \ {z}] = amt[y] + g[(t \ {z}) \ {y}]
    BY <2>5
  <2>7. t \ {y} \in SUBSET T /\ t \ {y} \notin Q /\ z \in t \ {y}
    BY <2>1, <2>2, <2>3, <2>4
  <2>8. g[t \ {y}] = amt[z] + g[(t \ {y}) \ {z}]
    BY <2>7
  <2>9. (t \ {z}) \ {y} = (t \ {y}) \ {z} /\ (t \ {y}) \ {z} \in SUBSET T
    BY <2>7
  <2>10. g[(t \ {y}) \ {z}] \in Int /\ amt[y] \in Int /\ amt[z] \in Int
    BY <1>0, <2>2, <2>3, <2>9
  <2> DEFINE u == (t \ {z}) \ {y}
  <2>11. g[t] = amt[z] + (amt[y] + g[u]) /\ g[t \ {y}] = amt[z] + g[u]
    BY <2>3, <2>6, <2>8, <2>9
  <2>12. g[u] \in Int
    BY <2>9, <2>10
  <2> HIDE DEF u
  <2>13. g[t] = amt[y] + g[t \ {y}]
    BY <2>10, <2>11, <2>12
  <2> QED BY <2>2, <2>13
<1> QED BY <1>1

(* There is such a function.                                               *)
LEMMA SumsExist ==
  ASSUME NEW T, IsFiniteSet(T), NEW amt
  PROVE  \E g : Sums(amt, T, g)
<1> DEFINE Q == {t \in SUBSET T : ~ \E g : Sums(amt, t, g)}
<1>0a. Q # {} => \E v \in Q : \A t \in Q : t \subseteq v => t = v
  <2>1. Q \in SUBSET (SUBSET T)
    OBVIOUS
  <2> HIDE DEF Q
  <2> QED BY <2>1, LeastSubset
<1>1. ASSUME Q # {} PROVE FALSE
  <2>1. PICK t \in Q : \A u \in Q : u \subseteq t => u = t
    BY <1>0a, <1>1
  <2> DEFINE G(u) == CHOOSE g : Sums(amt, u, g)
             h == [s \in SUBSET t |-> IF s = {} THEN 0
                                      ELSE amt[First(s)] + G(s \ {First(s)})[s \ {First(s)}]]
  <2>2. ASSUME NEW u \in SUBSET t, u # t PROVE Sums(amt, u, G(u))
    <3>1. u \notin Q /\ u \in SUBSET T
      BY <2>1, <2>2
    <3> QED BY <3>1
  <2>3. ASSUME NEW s \in SUBSET t, s # t PROVE h[s] = G(s)[s]
    <3>1. Sums(amt, s, G(s)) /\ IsFiniteSet(s)
      BY <2>2, <2>3, FS_Subset
    <3>2. CASE s = {}
      BY <3>1, <3>2 DEF Sums
    <3>3. CASE s # {}
      <4> DEFINE v == s \ {First(s)}
      <4>1. First(s) \in s /\ v \in SUBSET s /\ v \in SUBSET t /\ v # t
        BY <2>3, <3>3, FirstIn
      <4>2. Sums(amt, v, G(v))
        BY <2>2, <4>1
      <4>3. G(s)[v] = G(v)[v]
        <5> HIDE DEF G, v
        <5> QED BY <3>1, <4>1, <4>2, SumsUnique
      <4>4. G(s)[s] = amt[First(s)] + G(s)[v]
        BY <3>1, <3>3 DEF Sums
      <4>5. h[s] = amt[First(s)] + G(v)[v]
        BY <3>3
      <4> QED BY <4>3, <4>4, <4>5
    <3> QED BY <3>2, <3>3
  <2>4. ASSUME NEW s \in SUBSET t
        PROVE  h[s] = IF s = {} THEN 0 ELSE amt[First(s)] + h[s \ {First(s)}]
    <3>1. CASE s = {}
      BY <3>1
    <3>2. CASE s # {}
      <4> DEFINE v == s \ {First(s)}
      <4>1. v \in SUBSET t /\ v # t
        BY <3>2, FirstIn
      <4>2. h[v] = G(v)[v]
        BY <2>3, <4>1
      <4>3. h[s] = amt[First(s)] + G(v)[v]
        BY <3>2
      <4> QED BY <3>2, <4>2, <4>3
    <3> QED BY <3>1, <3>2
  <2>5. Sums(amt, t, h)
    <3>1. h = [s \in SUBSET t |-> h[s]]
      OBVIOUS
    <3> HIDE DEF h
    <3> QED BY <2>4, <3>1 DEF Sums
  <2> QED BY <2>1, <2>5
<1> QED BY <1>1

(* An empty sum is 0.                                                      *)
LEMMA SumOfEmpty == ASSUME NEW amt PROVE SumOf(amt, {}) = 0
<1>1. PICK g : Sums(amt, {}, g)
  BY SumsExist, FS_EmptySet
<1>2. Sums(amt, {}, CHOOSE h : Sums(amt, {}, h))
  BY <1>1
<1> QED BY <1>2 DEF SumOf, Sums

(* Sums of integers are integers.                                          *)
LEMMA SumOfIsInt ==
  ASSUME NEW T, IsFiniteSet(T), NEW amt, \A x \in T : amt[x] \in Int
  PROVE  SumOf(amt, T) \in Int
<1> DEFINE g == CHOOSE gg : Sums(amt, T, gg)
<1>1. Sums(amt, T, g)
  BY SumsExist
<1>2. SumOf(amt, T) = g[T] /\ T \in SUBSET T
  BY DEF SumOf
<1> HIDE DEF g
<1>3. g \in [SUBSET T -> Int]
  BY <1>1, SumsType
<1> QED BY <1>2, <1>3

(* The sum depends on no amount but those of the members.                  *)
LEMMA SumOfAgrees ==
  ASSUME NEW T, IsFiniteSet(T), NEW amt, NEW bmt, \A x \in T : amt[x] = bmt[x]
  PROVE  SumOf(amt, T) = SumOf(bmt, T)
<1> DEFINE g == CHOOSE gg : Sums(amt, T, gg)
           h == CHOOSE gg : Sums(bmt, T, gg)
<1>1. Sums(amt, T, g) /\ Sums(bmt, T, h)
  BY SumsExist
<1>2. SumOf(amt, T) = g[T] /\ SumOf(bmt, T) = h[T] /\ T \in SUBSET T
  BY DEF SumOf
<1> HIDE DEF g, h
<1>3. g[T] = h[T]
  <2>1. \A V \in SUBSET T : (\A x \in V : amt[x] = bmt[x]) => g[V] = h[V]
    BY <1>1, SumsUnique
  <2> QED BY <1>2, <2>1
<1> QED BY <1>2, <1>3

(* A sum with one member more.                                             *)
LEMMA SumOfAdds ==
  ASSUME NEW T, IsFiniteSet(T), NEW e, e \notin T, NEW amt, \A x \in T \cup {e} : amt[x] \in Int
  PROVE  SumOf(amt, T \cup {e}) = SumOf(amt, T) + amt[e]
<1> DEFINE U == T \cup {e}
           g == CHOOSE gg : Sums(amt, U, gg)
           h == CHOOSE gg : Sums(amt, T, gg)
<1>1. IsFiniteSet(U)
  BY FS_AddElement
<1>2. Sums(amt, U, g) /\ Sums(amt, T, h)
  BY <1>1, SumsExist
<1>3. T \in SUBSET U /\ U \ {e} = T /\ U \in SUBSET U /\ e \in U /\ T \in SUBSET T
  OBVIOUS
<1>4. SumOf(amt, U) = g[U] /\ SumOf(amt, T) = h[T]
  BY DEF SumOf
<1>5. \A x \in U : amt[x] \in Int
  OBVIOUS
<1> HIDE DEF U, g, h
<1>6. g[U] = amt[e] + g[T]
  BY <1>1, <1>2, <1>3, <1>5, SumsAny
<1>7. g[T] = h[T]
  BY <1>1, <1>2, <1>3, SumsUnique
<1>8. h[T] \in Int /\ amt[e] \in Int
  BY <1>2, <1>3, <1>4, <1>5, SumOfIsInt
<1> QED BY <1>4, <1>6, <1>7, <1>8 DEF U

(* Where a sum has an integer for every member, the sum is one.  A larger  *)
(* set with no smaller and no negative amounts has no smaller sum.         *)
LEMMA SumOfGrows ==
  ASSUME NEW U, IsFiniteSet(U), NEW T \in SUBSET U, NEW amt, NEW bmt,
         \A x \in T : amt[x] \in Int /\ amt[x] <= bmt[x],
         \A x \in U : bmt[x] \in Nat
  PROVE  SumOf(amt, T) <= SumOf(bmt, U)
<1> DEFINE Q == {V \in SUBSET U : ~ SumOf(amt, V \cap T) <= SumOf(bmt, V)}
<1>1. Q # {} => \E v \in Q : \A t \in Q : t \subseteq v => t = v
  <2>1. Q \in SUBSET (SUBSET U)
    OBVIOUS
  <2> HIDE DEF Q
  <2> QED BY <2>1, LeastSubset
<1>2. ASSUME Q # {} PROVE FALSE
  <2>1. PICK v \in Q : \A t \in Q : t \subseteq v => t = v
    BY <1>1, <1>2
  <2>2. v # {}
    <3>1. ASSUME v = {} PROVE FALSE
      <4>1. SumOf(amt, {}) = 0 /\ SumOf(bmt, {}) = 0 BY SumOfEmpty
      <4>2. v \cap T = {} BY <3>1
      <4>3. ~ SumOf(amt, v \cap T) <= SumOf(bmt, v) BY <2>1
      <4> QED BY <3>1, <4>1, <4>2, <4>3
    <3> QED BY <3>1
  <2>3. PICK e : e \in v
    BY <2>2
  <2> DEFINE w == v \ {e}
             a == SumOf(amt, w \cap T)
             b == SumOf(bmt, w)
  <2>4. w \in SUBSET U /\ e \in U /\ e \notin w /\ v = w \cup {e}
    BY <2>1, <2>3
  <2>5. a <= b
    BY <2>1, <2>3, <2>4
  <2>6. IsFiniteSet(w) /\ IsFiniteSet(w \cap T)
    <3> HIDE DEF w
    <3>1. w \cap T \in SUBSET U BY <2>4
    <3> QED BY <2>4, <3>1, FS_Subset
  <2>7. a \in Int /\ b \in Int
    <3>1. \A x \in w \cap T : amt[x] \in Int OBVIOUS
    <3>2. \A x \in w : bmt[x] \in Int BY <2>4
    <3> HIDE DEF w
    <3> QED BY <2>6, <3>1, <3>2, SumOfIsInt
  <2>8. SumOf(bmt, v) = b + bmt[e] /\ bmt[e] \in Nat
    <3>1. \A x \in w \cup {e} : bmt[x] \in Int BY <2>4
    <3> HIDE DEF w
    <3> QED BY <2>4, <2>6, <3>1, SumOfAdds
  <2>9. CASE e \in T
    <3>1. v \cap T = (w \cap T) \cup {e} /\ e \notin w \cap T
      BY <2>4, <2>9
    <3>2. \A x \in (w \cap T) \cup {e} : amt[x] \in Int
      BY <2>9
    <3>3. SumOf(amt, v \cap T) = a + amt[e]
      <4> HIDE DEF w
      <4> QED BY <2>6, <3>1, <3>2, SumOfAdds
    <3>4. amt[e] \in Int /\ amt[e] <= bmt[e]
      BY <2>9
    <3>5. ~ SumOf(amt, v \cap T) <= SumOf(bmt, v)
      BY <2>1
    <3> HIDE DEF a, b, w
    <3> QED BY <2>5, <2>7, <2>8, <3>3, <3>4, <3>5
  <2>10. CASE e \notin T
    <3>1. v \cap T = w \cap T
      BY <2>10
    <3>2. ~ a <= SumOf(bmt, v)
      BY <2>1, <3>1
    <3> HIDE DEF a, b, w
    <3> QED BY <2>5, <2>7, <2>8, <3>2
  <2> QED BY <2>9, <2>10
<1>3. U \cap T = T /\ U \in SUBSET U
  OBVIOUS
<1> QED BY <1>2, <1>3
=============================================================================
