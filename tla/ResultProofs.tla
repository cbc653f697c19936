----------------------------- MODULE ResultProofs -----------------------------
(***************************************************************************)
(* Theorems about how a result comes about: EngineRun (what the engine     *)
(* returns, for any pages, any number of sections of any sizes and any     *)
(* depth), the scoring functions (for every score vector and every way the *)
(* ties of the rounding may fall) and AuditVerdict (what process and       *)
(* review_audit make of it, for any number of workers, reviewers, calls    *)
(* and reviews, and any outcomes of the crawl).                            *)
(***************************************************************************)
EXTENDS AuditVerdict, EngineRun, FiniteSetTheorems, SequenceTheorems,
        WellFoundedInduction, TLAPS

-------------------------------------------------------------------------------
(***************************************************************************)
(* Sums: SumFunction adds the values of a function in the order in which   *)
(* CHOOSE takes its arguments.  That it is a sum needs an induction over   *)
(* the finite sets; it is made here without operator parameters, from a    *)
(* smallest set that would violate the claim.                              *)
(***************************************************************************)

\* Among sets of elements of a finite set there is a smallest one.
LEMMA SmallestSet ==
    ASSUME NEW S, IsFiniteSet(S), NEW B, B \subseteq SUBSET S, B # {}
    PROVE  \E t \in B : \A u \in SUBSET t : u # t => u \notin B
<1>1. B \subseteq FiniteSubsetsOf(S)
  BY FS_Subset DEF FiniteSubsetsOf
<1>2. PICK t \in B : \A u \in B : <<u, t>> \notin StrictSubsetOrdering(S)
  BY <1>1, FS_StrictSubsetOrderingWellFounded, WFMin
<1>3. ASSUME NEW u \in SUBSET t, u # t, u \in B PROVE FALSE
  BY <1>2, <1>3 DEF StrictSubsetOrdering
<1>. QED BY <1>3

Taken(t) == CHOOSE x \in t : TRUE

LEMMA TakenIsIn == ASSUME NEW t, t # {} PROVE Taken(t) \in t
BY DEF Taken

\* g is the sum of w over every subset of S, as the fold defines it.
Sums(g, w, S) ==
    g = [t \in SUBSET S |-> IF t = {} THEN 0 ELSE w[Taken(t)] + g[t \ {Taken(t)}]]

LEMMA SumsAgree ==
    ASSUME NEW w, NEW S, IsFiniteSet(S), NEW T \in SUBSET S, NEW g, NEW h,
           Sums(g, w, S), Sums(h, w, T)
    PROVE  \A t \in SUBSET T : g[t] = h[t]
<1>. DEFINE B == {t \in SUBSET T : g[t] # h[t]}
<1>. SUFFICES ASSUME B # {} PROVE FALSE
  OBVIOUS
<1>1. IsFiniteSet(T)
  BY FS_Subset
<1>2. PICK t \in B : \A u \in SUBSET t : u # t => u \notin B
  <2>. HIDE DEF B
  <2>1. B \subseteq SUBSET T
    BY DEF B
  <2>. QED BY <1>1, <2>1, SmallestSet
<1>3. t \in SUBSET T /\ t \in SUBSET S /\ g[t] # h[t]
  BY <1>2
<1>4. g[t] = IF t = {} THEN 0 ELSE w[Taken(t)] + g[t \ {Taken(t)}]
  BY <1>3 DEF Sums
<1>5. h[t] = IF t = {} THEN 0 ELSE w[Taken(t)] + h[t \ {Taken(t)}]
  BY <1>3 DEF Sums
<1>6. CASE t # {}
  <2>1. t \ {Taken(t)} \in SUBSET t /\ t \ {Taken(t)} # t
    BY <1>6, TakenIsIn
  <2>2. g[t \ {Taken(t)}] = h[t \ {Taken(t)}]
    BY <1>2, <1>3, <2>1
  <2>. QED BY <1>3, <1>4, <1>5, <2>2
<1>. QED BY <1>3, <1>4, <1>5, <1>6

LEMMA SumsExist ==
    ASSUME NEW w, NEW S, IsFiniteSet(S)
    PROVE  \E g : Sums(g, w, S)
<1>. DEFINE B == {t \in SUBSET S : ~ \E g : Sums(g, w, t)}
<1>. SUFFICES ASSUME B # {} PROVE FALSE
  OBVIOUS
<1>2. PICK t \in B : \A u \in SUBSET t : u # t => u \notin B
  <2>. HIDE DEF B
  <2>1. B \subseteq SUBSET S
    BY DEF B
  <2>. QED BY <2>1, SmallestSet
<1>3. t \in SUBSET S /\ ~ \E g : Sums(g, w, t)
  BY <1>2
<1>4. \A u \in SUBSET t : u # t => \E g : Sums(g, w, u)
  BY <1>2, <1>3
<1>. DEFINE part(u) == CHOOSE g : Sums(g, w, u)
            val(u)  == IF u = {} THEN 0
                       ELSE w[Taken(u)] + part(u \ {Taken(u)})[u \ {Taken(u)}]
            g       == [u \in SUBSET t |-> val(u)]
<1>5. \A u \in SUBSET t : u # t => Sums(part(u), w, u)
  BY <1>4
<1>6. ASSUME NEW u \in SUBSET t, u # t PROVE val(u) = part(u)[u]
  <2>1. Sums(part(u), w, u)
    BY <1>5, <1>6
  <2>2. part(u)[u] = IF u = {} THEN 0 ELSE w[Taken(u)] + part(u)[u \ {Taken(u)}]
    <3>. HIDE DEF part
    <3>. QED BY <2>1 DEF Sums
  <2>3. ASSUME u # {}
        PROVE  part(u)[u \ {Taken(u)}] = part(u \ {Taken(u)})[u \ {Taken(u)}]
    <3>. DEFINE v == u \ {Taken(u)}
    <3>1. v \in SUBSET u /\ v \in SUBSET t /\ v # t
      BY <2>3, <1>6
    <3>2. Sums(part(v), w, v) /\ IsFiniteSet(u)
      BY <1>3, <1>5, <3>1, FS_Subset
    <3>. HIDE DEF part, v
    <3>3. part(u)[v] = part(v)[v]
      BY <2>1, <3>1, <3>2, SumsAgree
    <3>. QED BY <3>3 DEF v
  <2>. HIDE DEF part
  <2>. QED BY <2>2, <2>3
<1>7. ASSUME NEW u \in SUBSET t
      PROVE  g[u] = IF u = {} THEN 0 ELSE w[Taken(u)] + g[u \ {Taken(u)}]
  <2>1. CASE u = {}
    BY <2>1
  <2>2. CASE u # {}
    <3>. DEFINE v == u \ {Taken(u)}
    <3>1. v \in SUBSET t /\ v # t
      BY <2>2, TakenIsIn
    <3>2. val(v) = part(v)[v]
      BY <1>6, <3>1
    <3>3. g[v] = part(v)[v]
      BY <3>1, <3>2
    <3>4. g[u] = w[Taken(u)] + part(v)[v]
      BY <2>2
    <3>. HIDE DEF g, part, v, val
    <3>. QED BY <2>2, <3>3, <3>4 DEF v
  <2>. QED BY <2>1, <2>2
<1>8. Sums(g, w, t)
  <2>1. g = [u \in SUBSET t |-> g[u]]
    OBVIOUS
  <2>. HIDE DEF g
  <2>. QED BY <1>7, <2>1 DEF Sums
<1>. QED BY <1>3, <1>8

\* The sum of no values, and of some.
LEMMA SumIs ==
    ASSUME NEW w, NEW S, IsFiniteSet(S)
    PROVE  SumFunctionOnSet(w, S) =
             IF S = {} THEN 0 ELSE w[Taken(S)] + SumFunctionOnSet(w, S \ {Taken(S)})
<1>. DEFINE part(u) == CHOOSE g : Sums(g, w, u)
<1>1. ASSUME NEW u PROVE SumFunctionOnSet(w, u) = part(u)[u]
  BY DEF SumFunctionOnSet, FoldFunctionOnSet, MapThenFoldSet, Sums, Taken
<1>2. ASSUME NEW u \in SUBSET S PROVE Sums(part(u), w, u)
  <2>1. IsFiniteSet(u)
    BY FS_Subset
  <2>. QED BY <2>1, SumsExist
<1>3. Sums(part(S), w, S)
  BY <1>2
<1>. HIDE DEF part
<1>4. part(S)[S] = IF S = {} THEN 0 ELSE w[Taken(S)] + part(S)[S \ {Taken(S)}]
  BY <1>3 DEF Sums
<1>. DEFINE v == S \ {Taken(S)}
<1>5. part(S)[v] = part(v)[v]
  <2>1. v \in SUBSET S /\ Sums(part(v), w, v)
    BY <1>2
  <2>. HIDE DEF v
  <2>. QED BY <1>3, <2>1, SumsAgree
<1>6. SumFunctionOnSet(w, S) = part(S)[S] /\ SumFunctionOnSet(w, v) = part(v)[v]
  BY <1>1
<1>. QED BY <1>4, <1>5, <1>6

LEMMA SumType ==
    ASSUME NEW S, IsFiniteSet(S), NEW w \in [S -> Int], NEW T \in SUBSET S
    PROVE  SumFunctionOnSet(w, T) \in Int
<1>. DEFINE B == {t \in SUBSET S : SumFunctionOnSet(w, t) \notin Int}
<1>. SUFFICES ASSUME B # {} PROVE FALSE
  OBVIOUS
<1>2. PICK t \in B : \A u \in SUBSET t : u # t => u \notin B
  <2>. HIDE DEF B
  <2>1. B \subseteq SUBSET S
    BY DEF B
  <2>. QED BY <2>1, SmallestSet
<1>3. t \in SUBSET S /\ IsFiniteSet(t)
  BY <1>2, FS_Subset
<1>4. CASE t = {}
  <2>1. SumFunctionOnSet(w, t) = 0
    BY <1>3, <1>4, SumIs
  <2>. QED BY <1>2, <2>1
<1>5. CASE t # {}
  <2>1. Taken(t) \in t /\ w[Taken(t)] \in Int
    BY <1>3, <1>5, TakenIsIn
  <2>2. SumFunctionOnSet(w, t \ {Taken(t)}) \in Int
    BY <1>2, <1>3, <2>1
  <2>3. SumFunctionOnSet(w, t) = w[Taken(t)] + SumFunctionOnSet(w, t \ {Taken(t)})
    BY <1>3, <1>5, SumIs
  <2>4. SumFunctionOnSet(w, t) \in Int
    BY <2>1, <2>2, <2>3
  <2>. QED BY <1>2, <2>4
<1>. QED BY <1>4, <1>5

\* Any element may be the first to be added.
LEMMA SumTakesAny ==
    ASSUME NEW S, IsFiniteSet(S), NEW w \in [S -> Int], NEW T \in SUBSET S, NEW x \in T
    PROVE  SumFunctionOnSet(w, T) = w[x] + SumFunctionOnSet(w, T \ {x})
<1>. DEFINE sum(t) == SumFunctionOnSet(w, t)
            B == {t \in SUBSET S : \E y \in t : sum(t) # w[y] + sum(t \ {y})}
<1>. SUFFICES ASSUME B # {} PROVE FALSE
  OBVIOUS
<1>2. PICK t \in B : \A u \in SUBSET t : u # t => u \notin B
  <2>. HIDE DEF B
  <2>1. B \subseteq SUBSET S
    BY DEF B
  <2>. QED BY <2>1, SmallestSet
<1>3. t \in SUBSET S /\ IsFiniteSet(t)
  BY <1>2, FS_Subset
<1>4. PICK y \in t : sum(t) # w[y] + sum(t \ {y})
  BY <1>2
<1>. DEFINE z == Taken(t)
<1>5. z \in t /\ sum(t) = w[z] + sum(t \ {z})
  BY <1>3, <1>4, TakenIsIn, SumIs
<1>6. y # z
  BY <1>4, <1>5
<1>7. t \ {z} \notin B /\ t \ {y} \notin B
  BY <1>2, <1>3, <1>4, <1>5
<1>8. sum(t \ {z}) = w[y] + sum((t \ {z}) \ {y})
  BY <1>3, <1>4, <1>6, <1>7
<1>9. sum(t \ {y}) = w[z] + sum((t \ {y}) \ {z})
  BY <1>3, <1>5, <1>6, <1>7
<1>10. sum((t \ {z}) \ {y}) = sum((t \ {y}) \ {z})
  <2>1. (t \ {z}) \ {y} = (t \ {y}) \ {z}
    OBVIOUS
  <2>. QED BY <2>1
<1>11. w[y] \in Int /\ w[z] \in Int /\ sum((t \ {y}) \ {z}) \in Int
  BY <1>3, <1>4, <1>5, SumType
<1>. DEFINE rest == sum((t \ {y}) \ {z})
<1>12. /\ sum(t) = w[z] + (w[y] + rest)
       /\ w[y] + sum(t \ {y}) = w[y] + (w[z] + rest)
       /\ w[y] \in Int /\ w[z] \in Int /\ rest \in Int
  BY <1>5, <1>8, <1>9, <1>10, <1>11
<1>. HIDE DEF sum, z, rest
<1>13. sum(t) = w[y] + sum(t \ {y})
  BY <1>12
<1>. QED BY <1>4, <1>13

\* A larger value makes a larger sum, and of the same ones the sum is the same.
LEMMA SumMonotone ==
    ASSUME NEW S, IsFiniteSet(S), NEW v \in [S -> Int], NEW w \in [S -> Int],
           NEW T \in SUBSET S, \A x \in T : v[x] <= w[x]
    PROVE  SumFunctionOnSet(v, T) <= SumFunctionOnSet(w, T)
<1>. DEFINE B == {t \in SUBSET T : ~(SumFunctionOnSet(v, t) <= SumFunctionOnSet(w, t))}
<1>. SUFFICES ASSUME B # {} PROVE FALSE
  OBVIOUS
<1>1. IsFiniteSet(T)
  BY FS_Subset
<1>2. PICK t \in B : \A u \in SUBSET t : u # t => u \notin B
  <2>. HIDE DEF B
  <2>1. B \subseteq SUBSET T
    BY DEF B
  <2>. QED BY <1>1, <2>1, SmallestSet
<1>3. t \in SUBSET T /\ t \in SUBSET S /\ IsFiniteSet(t)
  BY <1>1, <1>2, FS_Subset
<1>4. CASE t = {}
  <2>1. SumFunctionOnSet(v, t) = 0 /\ SumFunctionOnSet(w, t) = 0
    BY <1>3, <1>4, SumIs
  <2>. QED BY <1>2, <2>1
<1>5. CASE t # {}
  <2>. DEFINE x == Taken(t)
              a == SumFunctionOnSet(v, t \ {x})
              b == SumFunctionOnSet(w, t \ {x})
  <2>1. x \in t
    BY <1>5, TakenIsIn
  <2>2. a <= b
    BY <1>2, <1>3, <2>1
  <2>3. /\ SumFunctionOnSet(v, t) = v[x] + a
        /\ SumFunctionOnSet(w, t) = w[x] + b
    BY <1>3, <2>1, SumTakesAny
  <2>4. a \in Int /\ b \in Int
    BY <1>3, SumType
  <2>5. v[x] <= w[x] /\ v[x] \in Int /\ w[x] \in Int
    BY <1>3, <2>1
  <2>. HIDE DEF a, b, x
  <2>6. SumFunctionOnSet(v, t) <= SumFunctionOnSet(w, t)
    BY <2>2, <2>3, <2>4, <2>5
  <2>. QED BY <1>2, <2>6
<1>. QED BY <1>4, <1>5

\* The sum lies between so many times the least value and the greatest.
LEMMA SumBounds ==
    ASSUME NEW S, IsFiniteSet(S), NEW w \in [S -> Int], NEW low \in Int, NEW high \in Int,
           \A x \in S : low <= w[x] /\ w[x] <= high
    PROVE  /\ Cardinality(S) * low <= SumFunctionOnSet(w, S)
           /\ SumFunctionOnSet(w, S) <= Cardinality(S) * high
<1>. DEFINE In(t) == /\ Cardinality(t) * low <= SumFunctionOnSet(w, t)
                     /\ SumFunctionOnSet(w, t) <= Cardinality(t) * high
            B == {t \in SUBSET S : ~In(t)}
<1>. SUFFICES ASSUME B # {} PROVE FALSE
  OBVIOUS
<1>2. PICK t \in B : \A u \in SUBSET t : u # t => u \notin B
  <2>. HIDE DEF B
  <2>1. B \subseteq SUBSET S
    BY DEF B
  <2>. QED BY <2>1, SmallestSet
<1>3. t \in SUBSET S /\ IsFiniteSet(t)
  BY <1>2, FS_Subset
<1>4. CASE t = {}
  <2>1. Cardinality(t) = 0 /\ SumFunctionOnSet(w, t) = 0
    BY <1>3, <1>4, SumIs, FS_EmptySet
  <2>. QED BY <1>2, <2>1
<1>5. CASE t # {}
  <2>. DEFINE x == Taken(t)
              u == t \ {x}
              k == Cardinality(u)
              a == SumFunctionOnSet(w, u)
  <2>1. x \in t
    BY <1>5, TakenIsIn
  <2>2. k * low <= a /\ a <= k * high
    BY <1>2, <1>3, <2>1
  <2>3. SumFunctionOnSet(w, t) = w[x] + a
    BY <1>3, <2>1, SumTakesAny
  <2>4. a \in Int /\ k \in Nat /\ Cardinality(t) = k + 1
    <3>1. Cardinality(t) \in Nat /\ k \in Nat
      BY <1>3, FS_CardinalityType, FS_RemoveElement
    <3>2. k = Cardinality(t) - 1
      BY <1>3, <2>1, FS_RemoveElement
    <3>. QED BY <1>3, <3>1, <3>2, SumType
  <2>5. low <= w[x] /\ w[x] <= high /\ w[x] \in Int
    BY <1>3, <2>1
  <2>. HIDE DEF a, x, u, k
  <2>6. (k + 1) * low = k * low + low /\ (k + 1) * high = k * high + high
    BY <2>4
  <2>7. In(t)
    BY <2>2, <2>3, <2>4, <2>5, <2>6
  <2>. QED BY <1>2, <2>7
<1>. QED BY <1>4, <1>5

\* One more of something counts one more in the sum.
LEMMA SumIncremented ==
    ASSUME NEW S, IsFiniteSet(S), NEW w \in [S -> Int], NEW x \in S
    PROVE  SumFunction([w EXCEPT ![x] = @ + 1]) = SumFunction(w) + 1
<1>. DEFINE v    == [w EXCEPT ![x] = @ + 1]
            rest == S \ {x}
<1>1. v \in [S -> Int] /\ v[x] = w[x] + 1 /\ \A y \in rest : v[y] = w[y]
  OBVIOUS
<1>2. SumFunctionOnSet(v, S) = v[x] + SumFunctionOnSet(v, rest)
  <2>. HIDE DEF v
  <2>. QED BY <1>1, SumTakesAny
<1>3. SumFunctionOnSet(w, S) = w[x] + SumFunctionOnSet(w, rest)
  BY SumTakesAny
<1>4. /\ SumFunctionOnSet(v, rest) \in Int /\ SumFunctionOnSet(w, rest) \in Int
      /\ SumFunctionOnSet(v, rest) <= SumFunctionOnSet(w, rest)
      /\ SumFunctionOnSet(w, rest) <= SumFunctionOnSet(v, rest)
  <2>. HIDE DEF v
  <2>1. \A y \in rest : v[y] <= w[y] /\ w[y] <= v[y]
    BY <1>1
  <2>2. rest \in SUBSET S
    OBVIOUS
  <2>. HIDE DEF rest
  <2>. QED BY <1>1, <2>1, <2>2, SumType, SumMonotone
<1>5. SumFunction(v) = SumFunctionOnSet(v, S) /\ SumFunction(w) = SumFunctionOnSet(w, S)
  <2>1. DOMAIN v = S /\ DOMAIN w = S
    OBVIOUS
  <2>. HIDE DEF v
  <2>. QED BY <2>1 DEF SumFunction
<1>6. w[x] \in Int
  OBVIOUS
<1>. DEFINE a == SumFunctionOnSet(v, rest)
            b == SumFunctionOnSet(w, rest)
<1>7. /\ a \in Int /\ b \in Int /\ a <= b /\ b <= a /\ w[x] \in Int
      /\ SumFunction(v) = (w[x] + 1) + a /\ SumFunction(w) = w[x] + b
  BY <1>1, <1>2, <1>3, <1>4, <1>5, <1>6
<1>. HIDE DEF a, b, v
<1>8. SumFunction(v) = SumFunction(w) + 1
  BY <1>7
<1>. QED BY <1>8 DEF v

\* Whole division, without the remainder.
LEMMA Quotient ==
    ASSUME NEW a \in Int, NEW b \in Nat \ {0}
    PROVE  /\ a \div b \in Int
           /\ b * (a \div b) <= a
           /\ a < b * (a \div b) + b
<1>1. a \div b \in Int /\ a % b \in Int /\ 0 <= a % b /\ a % b < b
  BY SMT
<1>2. a = b * (a \div b) + (a % b)
  BY SMT
<1>. DEFINE q == a \div b
            m == b * q
<1>3. q \in Int /\ m \in Int
  BY <1>1
<1>. QED BY <1>1, <1>2, <1>3

\* A positive factor can be taken away.
LEMMA TimesPositive ==
    ASSUME NEW x \in Int, NEW y \in Int, NEW k \in Nat \ {0}, k * x <= k * y
    PROVE  x <= y
<1>. SUFFICES ASSUME y < x PROVE FALSE
  OBVIOUS
<1>1. k * (x - y) >= 1
  BY SMT
<1>2. k * x = k * y + k * (x - y)
  BY SMT
<1>3. k * x \in Int /\ k * y \in Int /\ k * (x - y) \in Int
  BY SMT
<1>. QED BY <1>1, <1>2, <1>3

\* Of finitely many natural numbers there is a smallest one and a greatest one.
LEMMA LeastAndGreatest ==
    ASSUME NEW bound \in Nat, NEW V \in SUBSET (0..bound), V # {}
    PROVE  \E low, high \in V : \A v \in V : low <= v /\ v <= high
<1>1. ASSUME NEW W \in SUBSET (0..bound), W # {} PROVE \E m \in W : \A v \in W : m <= v
  <2>. DEFINE B == {0..v : v \in W}
  <2>1. B \subseteq SUBSET (0..bound) /\ B # {} /\ IsFiniteSet(0..bound)
    <3>1. IsFiniteSet(0..bound)
      BY FS_Interval
    <3>2. ASSUME NEW v \in W PROVE 0..v \subseteq 0..bound
      OBVIOUS
    <3>. QED BY <1>1, <3>1, <3>2
  <2>2. PICK t \in B : \A u \in SUBSET t : u # t => u \notin B
    <3>. HIDE DEF B
    <3>. QED BY <2>1, SmallestSet
  <2>3. PICK m \in W : t = 0..m
    BY <2>2
  <2>4. ASSUME NEW v \in W, v < m PROVE FALSE
    <3>1. 0..v \in SUBSET t /\ 0..v # t /\ 0..v \in B
      <4>1. m \in 0..m /\ m \notin 0..v
        BY <1>1, <2>4
      <4>. QED BY <1>1, <2>3, <2>4, <4>1
    <3>. QED BY <2>2, <3>1
  <2>. QED BY <1>1, <2>4
<1>2. PICK low \in V : \A v \in V : low <= v
  <2>. QED BY <1>1
<1>. DEFINE U == {bound - v : v \in V}
<1>3. U \in SUBSET (0..bound) /\ U # {}
  <2>1. ASSUME NEW v \in V PROVE bound - v \in 0..bound
    OBVIOUS
  <2>. QED BY <2>1
<1>4. PICK u \in U : \A v \in U : u <= v
  <2>. HIDE DEF U
  <2>. QED BY <1>1, <1>3
<1>5. PICK high \in V : u = bound - high
  BY <1>4
<1>6. ASSUME NEW v \in V PROVE v <= high
  <2>1. u <= bound - v
    BY <1>4
  <2>. QED BY <1>5, <2>1
<1>. QED BY <1>2, <1>6
-------------------------------------------------------------------------------
(***************************************************************************)
(* The engine: what the checks give a page                                 *)
(***************************************************************************)

LEMMA PageParts ==
    ASSUME NEW p \in Pages
    PROVE  /\ p.axe \in BOOLEAN /\ p.critical \in SUBSET Rules
           /\ p.serious \in Nat /\ p.moderate \in Nat /\ p.minor \in Nat
           /\ p.unrated \in Nat /\ p.gigw \in 0..17 /\ p.readability \in 0..100
           /\ p.https \in BOOLEAN /\ p.headers \in SUBSET Headers
           /\ p.tracking \in Nat /\ p.unannounced \in BOOLEAN
           /\ p.overflows \in SUBSET Widths /\ p.small \in 0..100
           /\ p.landmarks \in SUBSET Landmarks /\ p.labelled \in 0..100
<1>1. p \in Page
  BY EngineAssumption
<1>. QED BY <1>1 DEF Page

LEMMA SmallSets ==
    /\ IsFiniteSet(Headers)
    /\ IsFiniteSet(Landmarks)
    /\ IsFiniteSet(Widths) /\ Cardinality(Widths) <= 4
<1>1. ASSUME NEW a, NEW b, NEW c, NEW d
      PROVE  IsFiniteSet({a, b, c, d}) /\ Cardinality({a, b, c, d}) <= 4
  <2>1. /\ {a, b} = {a} \cup {b} /\ {a, b, c} = {a, b} \cup {c}
        /\ {a, b, c, d} = {a, b, c} \cup {d}
    OBVIOUS
  <2>2. IsFiniteSet({a}) /\ Cardinality({a}) = 1
    BY FS_Singleton
  <2>3. IsFiniteSet({a, b}) /\ Cardinality({a, b}) \in 0..2
    BY <2>1, <2>2, FS_AddElement
  <2>4. IsFiniteSet({a, b, c}) /\ Cardinality({a, b, c}) \in 0..3
    BY <2>1, <2>3, FS_AddElement
  <2>. QED BY <2>1, <2>4, FS_AddElement
<1>2. IsFiniteSet(Headers)
  <2>. DEFINE A == {"strict-transport-security", "content-security-policy",
                    "x-content-type-options", "x-frame-options"}
              B == {"referrer-policy", "permissions-policy"}
  <2>1. Headers = (A \cup {"referrer-policy"}) \cup {"permissions-policy"}
    BY DEF Headers
  <2>2. IsFiniteSet(A)
    BY <1>1
  <2>. HIDE DEF A
  <2>3. IsFiniteSet(A \cup {"referrer-policy"})
    BY <2>2, FS_AddElement
  <2>. QED BY <2>1, <2>3, FS_AddElement
<1>3. IsFiniteSet(Landmarks)
  BY <1>1 DEF Landmarks
<1>4. IsFiniteSet(Widths) /\ Cardinality(Widths) <= 4
  <2>1. \E a, b, c, d : Widths = {a, b, c, d}
    <3>. WITNESS 360, 414, 768, 1440
    <3>. QED BY DEF Widths
  <2>2. PICK a, b, c, d : Widths = {a, b, c, d}
    BY <2>1
  <2>3. IsFiniteSet({a, b, c, d}) /\ Cardinality({a, b, c, d}) <= 4
    BY <1>1
  <2>. QED BY <2>2, <2>3
<1>. QED BY <1>2, <1>3, <1>4

LEMMA PenaltyType == ASSUME NEW p \in Pages PROVE Penalty(p) \in Nat
<1>1. Cardinality(p.critical) \in Nat
  BY PageParts, EngineAssumption, FS_Subset, FS_CardinalityType
<1>. QED BY <1>1, PageParts DEF Penalty

\* The cap of the penalty: no page has less than 30 points for accessibility.
LEMMA AccessibilityType == ASSUME NEW p \in Pages PROVE Accessibility(p) \in 30..100
BY PenaltyType DEF Accessibility, Least

LEMMA ClampType == ASSUME NEW n \in Int PROVE Clamp(n) \in 0..100
BY DEF Clamp, Least

LEMMA TrustType == ASSUME NEW p \in Pages PROVE Trust(p) \in 0..100
<1>. DEFINE w == [h \in p.headers |-> HeaderPoints(h)]
<1>1. p.headers \in SUBSET Headers /\ IsFiniteSet(p.headers)
  BY PageParts, SmallSets, FS_Subset
<1>2. w \in [p.headers -> Int] /\ DOMAIN w = p.headers
  BY DEF HeaderPoints
<1>3. SumFunction(w) \in Int
  <2>. HIDE DEF w
  <2>. QED BY <1>1, <1>2, SumType DEF SumFunction
<1>. DEFINE sum == SumFunction(w)
            cookies == Least(20, 6 * p.tracking)
            n == (IF p.https THEN 30 ELSE 0) + sum - cookies
                   - (IF p.unannounced THEN 6 ELSE 0)
<1>4. Trust(p) = Clamp(n)
  BY DEF Trust
<1>5. cookies \in Int
  BY PageParts DEF Least
<1>6. n \in Int
  <2>. HIDE DEF sum, cookies
  <2>1. sum \in Int
    BY <1>3 DEF sum
  <2>. QED BY <1>5, <2>1
<1>. HIDE DEF n
<1>. QED BY <1>4, <1>6, ClampType

LEMMA ScoreOfType ==
    ASSUME NEW p \in Pages, NEW c \in Averaged PROVE ScoreOf(c, p) \in 0..1700
<1>1. Accessibility(p) \in 30..100 /\ Trust(p) \in 0..100
  BY AccessibilityType, TrustType
<1>2. p.gigw \in 0..17 /\ p.readability \in 0..100
  BY PageParts
<1>. QED BY <1>1, <1>2 DEF ScoreOf, Gigw, Averaged

\* The landmarks are worth 70 points at most, the labels the rest.
LEMMA UsabilityType ==
    ASSUME NEW landmarks \in SUBSET Landmarks, NEW labelled \in 0..100
    PROVE  Usability(landmarks, labelled) \in 0..100
<1>. DEFINE w == [l \in landmarks |-> LandmarkPoints(l)]
            sum(t) == SumFunctionOnSet(w, t)
<1>1. IsFiniteSet(landmarks) /\ w \in [landmarks -> Int] /\ DOMAIN w = landmarks
  BY SmallSets, FS_Subset DEF LandmarkPoints
<1>2. ASSUME NEW t \in SUBSET landmarks, NEW l \in Landmarks
      PROVE  /\ sum(t) \in Int /\ sum(t \ {l}) \in Int
             /\ sum(t \ {l}) <= sum(t)
             /\ sum(t) <= LandmarkPoints(l) + sum(t \ {l})
  <2>1. sum(t) \in Int /\ sum(t \ {l}) \in Int
    <3>. HIDE DEF w
    <3>1. t \ {l} \in SUBSET landmarks
      OBVIOUS
    <3>. QED BY <1>1, <3>1, SumType
  <2>2. LandmarkPoints(l) \in Nat
    BY DEF LandmarkPoints
  <2>3. CASE l \in t
    <3>1. w[l] = LandmarkPoints(l)
      BY <2>3
    <3>. HIDE DEF w
    <3>2. sum(t) = w[l] + sum(t \ {l})
      BY <1>1, <2>3, SumTakesAny
    <3>. HIDE DEF sum
    <3>. QED BY <2>1, <2>2, <3>1, <3>2
  <2>4. CASE l \notin t
    <3>1. t \ {l} = t
      BY <2>4
    <3>2. sum(t \ {l}) = sum(t)
      BY <3>1
    <3>. HIDE DEF sum
    <3>. QED BY <2>1, <2>2, <3>2
  <2>. QED BY <2>3, <2>4
<1>3. sum({}) = 0
  <2>. HIDE DEF w
  <2>. QED BY SumIs, FS_EmptySet
<1>. DEFINE t1 == landmarks \ {"nav"}
            t2 == t1 \ {"search"}
            t3 == t2 \ {"breadcrumb"}
            t4 == t3 \ {"h1"}
<1>4. t4 = {}
  BY DEF Landmarks
<1>5. sum(landmarks) \in 0..70
  <2>. HIDE DEF w, sum
  <2>1. /\ LandmarkPoints("nav") = 20 /\ LandmarkPoints("search") = 20
        /\ LandmarkPoints("breadcrumb") = 15 /\ LandmarkPoints("h1") = 15
        /\ {"nav", "search", "breadcrumb", "h1"} \subseteq Landmarks
    BY DEF LandmarkPoints, Landmarks
  <2>2. /\ t1 \in SUBSET landmarks /\ t2 \in SUBSET landmarks /\ t3 \in SUBSET landmarks
    OBVIOUS
  <2>. HIDE DEF t1, t2, t3, t4
  <2>3. /\ sum(landmarks) \in Int /\ sum(t1) \in Int
        /\ sum(t1) <= sum(landmarks) /\ sum(landmarks) <= 20 + sum(t1)
    BY <1>2, <2>1 DEF t1
  <2>4. sum(t2) \in Int /\ sum(t2) <= sum(t1) /\ sum(t1) <= 20 + sum(t2)
    BY <1>2, <2>1, <2>2 DEF t2
  <2>5. sum(t3) \in Int /\ sum(t3) <= sum(t2) /\ sum(t2) <= 15 + sum(t3)
    BY <1>2, <2>1, <2>2 DEF t3
  <2>6. sum(t4) \in Int /\ sum(t4) <= sum(t3) /\ sum(t3) <= 15 + sum(t4)
    BY <1>2, <2>1, <2>2 DEF t4
  <2>7. sum(t4) = 0
    BY <1>3, <1>4
  <2>. QED BY <2>3, <2>4, <2>5, <2>6, <2>7
<1>6. Usability(landmarks, labelled) = (10 * sum(landmarks) + 3 * labelled + 5) \div 10
  BY <1>1 DEF Usability, SumFunction
<1>. HIDE DEF sum
<1>. QED BY <1>5, <1>6

LEMMA ResponsivenessType ==
    ASSUME NEW fitting \in SUBSET Widths, NEW small \in 0..100
    PROVE  Responsiveness(fitting, small) \in 0..100
<1>1. Cardinality(fitting) \in 0..4
  <2>1. IsFiniteSet(fitting) /\ Cardinality(fitting) <= Cardinality(Widths)
    BY SmallSets, FS_Subset
  <2>2. Cardinality(fitting) \in Nat /\ Cardinality(Widths) \in Nat
    BY <2>1, SmallSets, FS_CardinalityType
  <2>. QED BY <2>1, <2>2, SmallSets
<1>. DEFINE k == Cardinality(fitting)
            n == 150 * k + 4 * (100 - small) + 5
<1>2. n \in 5..1005
  <2>. HIDE DEF k
  <2>1. k \in 0..4
    BY <1>1 DEF k
  <2>. QED BY <2>1
<1>3. Responsiveness(fitting, small) = n \div 10
  BY DEF Responsiveness
<1>. HIDE DEF n
<1>. QED BY <1>2, <1>3

-------------------------------------------------------------------------------
(***************************************************************************)
(* The engine: averages over the pages that answered                       *)
(***************************************************************************)

\* What a page may give.
LEMMA PageResultParts ==
    /\ Error \in PageResults /\ \A p \in Pages : Analysed(p) \in PageResults
    /\ \A r \in PageResults :
          r.analysed \in BOOLEAN /\ (r.analysed => r.page \in Pages)
<1>1. ASSUME NEW r \in PageResults
      PROVE  r.analysed \in BOOLEAN /\ (r.analysed => r.page \in Pages)
  <2>1. CASE r = Error
    BY <2>1 DEF Error
  <2>2. CASE r \in [analysed : {TRUE}, page : Pages]
    BY <2>2
  <2>. QED BY <2>1, <2>2 DEF PageResults
<1>. QED BY <1>1 DEF PageResults, Analysed

\* What the averages need to know of the results.
LEMMA OkPages ==
    ASSUME EngineTypeOK
    PROVE  /\ Ok \in SUBSET (1..Len(results)) /\ Ok \in SUBSET Nat
           /\ IsFiniteSet(Ok) /\ Cardinality(Ok) \in Nat
           /\ Cardinality(Ok) = 0 <=> Ok = {}
           /\ \A i \in Ok : results[i].page \in Pages
<1>1. /\ results \in Seq(PageResults)
      /\ Len(results) \in Nat
  BY DEF EngineTypeOK
<1>2. DOMAIN results = 1..Len(results)
  BY <1>1
<1>3. Ok \in SUBSET (1..Len(results)) /\ Ok \in SUBSET Nat
  BY <1>1, <1>2 DEF Ok
<1>4. IsFiniteSet(1..Len(results))
  BY <1>1, FS_Interval
<1>5. IsFiniteSet(Ok)
  BY <1>3, <1>4, FS_Subset
<1>6. ASSUME NEW i \in Ok PROVE results[i].page \in Pages
  <2>1. results[i] \in PageResults
    BY <1>1, <1>3, ElementOfSeq
  <2>2. results[i].analysed
    BY DEF Ok
  <2>. QED BY <2>1, <2>2, PageResultParts
<1>. QED BY <1>3, <1>5, <1>6, FS_CardinalityType, FS_EmptySet

LEMMA OkScores ==
    ASSUME EngineTypeOK, NEW c \in Averaged, NEW i \in Ok
    PROVE  ScoreOf(c, results[i].page) \in 0..1700
<1>1. PICK p \in Pages : p = results[i].page
  BY OkPages
<1>. QED BY <1>1, ScoreOfType

\* Math.round(avg(...)): with anything to average it stays, but for the rounding,
\* between the least and the greatest; otherwise it is 0.
LEMMA AverageBounds ==
    ASSUME EngineTypeOK, NEW c \in Averaged, NEW low \in Int, NEW high \in Int,
           \A i \in Ok : /\ low <= ScoreOf(c, results[i].page)
                         /\ ScoreOf(c, results[i].page) <= high
    PROVE  /\ Average(c) \in Int
           /\ Ok = {} => Average(c) = 0
           /\ Ok # {} => 2 * low - 17 <= 34 * Average(c) /\ 34 * Average(c) <= 2 * high + 17
<1>. DEFINE w   == [i \in Ok |-> ScoreOf(c, results[i].page)]
            sum == SumFunction(w)
            k   == Cardinality(Ok)
            a   == 2 * sum + 17 * k
            q   == a \div (34 * k)
<1>1. k \in Nat /\ (k = 0 <=> Ok = {}) /\ IsFiniteSet(Ok)
  BY OkPages
<1>2. w \in [Ok -> Int] /\ \A i \in Ok : low <= w[i] /\ w[i] <= high
  BY OkScores
<1>3. sum \in Int /\ k * low <= sum /\ sum <= k * high
  <2>1. DOMAIN w = Ok
    OBVIOUS
  <2>. HIDE DEF w
  <2>. QED BY <1>1, <1>2, <2>1, SumType, SumBounds DEF SumFunction
<1>4. Average(c) = IF 17 * k = 0 THEN 0 ELSE (2 * sum + 17 * k) \div (2 * (17 * k))
  BY DEF Average
<1>5. CASE k = 0
  <2>1. Average(c) = 0
    BY <1>4, <1>5
  <2>. QED BY <1>1, <1>5, <2>1
<1>6. CASE k # 0
  <2>1. k \in Nat \ {0} /\ 2 * (17 * k) = 34 * k /\ 17 * k # 0 /\ 34 * k \in Nat \ {0}
    BY <1>1, <1>6
  <2>2. Average(c) = q
    BY <1>4, <2>1
  <2>. HIDE DEF k, sum
  <2>3. a \in Int
    BY <1>3, <2>1
  <2>4. q \in Int /\ (34 * k) * q <= a /\ a < (34 * k) * q + 34 * k
    <3>. HIDE DEF a
    <3>. QED BY <2>1, <2>3, Quotient DEF q
  <2>. HIDE DEF q
  <2>5. /\ k * (34 * q) = (34 * k) * q
        /\ k * (2 * high + 17) = 2 * (k * high) + 17 * k
        /\ k * (2 * low - 17) = 2 * (k * low) - 17 * k
    BY <2>1, <2>4
  <2>6. /\ k * (34 * q) \in Int /\ k * (2 * high + 17) \in Int /\ k * (2 * low - 17) \in Int
        /\ k * high \in Int /\ k * low \in Int
    BY <2>1, <2>4
  <2>7. k * (34 * q) <= k * (2 * high + 17)
    <3>. DEFINE x == k * (34 * q)
                y == k * high
                z == k * (2 * high + 17)
    <3>1. /\ x \in Int /\ y \in Int /\ z \in Int /\ sum <= y /\ z = 2 * y + 17 * k
          /\ x <= 2 * sum + 17 * k /\ sum \in Int /\ k \in Nat
      BY <1>3, <2>1, <2>4, <2>5, <2>6
    <3>. HIDE DEF x, y, z
    <3>2. x <= z
      BY <3>1
    <3>. QED BY <3>2 DEF x, z
  <2>8. k * (2 * low - 17) <= k * (34 * q)
    <3>. DEFINE x == k * (34 * q)
                y == k * low
                z == k * (2 * low - 17)
    <3>1. /\ x \in Int /\ y \in Int /\ z \in Int /\ y <= sum /\ z = 2 * y - 17 * k
          /\ 2 * sum + 17 * k < x + 34 * k /\ sum \in Int /\ k \in Nat
      BY <1>3, <2>1, <2>4, <2>5, <2>6
    <3>. HIDE DEF x, y, z
    <3>2. z <= x
      BY <3>1
    <3>. QED BY <3>2 DEF x, z
  <2>9. 34 * q <= 2 * high + 17
    <3>1. 34 * q \in Int /\ 2 * high + 17 \in Int
      BY <2>4
    <3>. QED BY <2>1, <2>7, <3>1, TimesPositive
  <2>10. 2 * low - 17 <= 34 * q
    <3>1. 34 * q \in Int /\ 2 * low - 17 \in Int
      BY <2>4
    <3>. QED BY <2>1, <2>8, <3>1, TimesPositive
  <2>11. Ok # {}
    BY <1>1, <1>6
  <2>. QED BY <2>2, <2>4, <2>9, <2>10, <2>11
<1>. QED BY <1>5, <1>6

LEMMA AverageType ==
    ASSUME EngineTypeOK, NEW c \in Averaged
    PROVE  Average(c) \in 0..100
<1>1. \A i \in Ok : 0 <= ScoreOf(c, results[i].page) /\ ScoreOf(c, results[i].page) <= 1700
  <2>. TAKE i \in Ok
  <2>1. ScoreOf(c, results[i].page) \in 0..1700
    BY OkScores
  <2>. QED BY <2>1
<1>2. /\ Average(c) \in Int /\ (Ok = {} => Average(c) = 0)
      /\ Ok # {} => 2 * 0 - 17 <= 34 * Average(c) /\ 34 * Average(c) <= 2 * 1700 + 17
  BY <1>1, AverageBounds
<1>3. CASE Ok = {}
  BY <1>2, <1>3
<1>4. CASE Ok # {}
  BY <1>2, <1>4
<1>. QED BY <1>3, <1>4

\* A score of the result lies within what was measured, or a measured 0 was
\* filled in.
LEMMA FilledWithin ==
    ASSUME EngineTypeOK, NEW c \in Averaged, Ok # {}
    PROVE  LET measured == {ScoreOf(c, results[i].page) : i \in Ok}
           IN  \/ Within(Filled(Average(c)), measured)
               \/ Filled(Average(c)) = 60 /\ Within(0, measured)
<1>. DEFINE measured == {ScoreOf(c, results[i].page) : i \in Ok}
<1>1. measured # {}
  OBVIOUS
<1>2. PICK low, high \in measured : \A v \in measured : low <= v /\ v <= high
  <2>1. PICK most \in Nat : most = 1700
    OBVIOUS
  <2>2. measured \in SUBSET (0..most)
    BY <2>1, OkScores
  <2>. HIDE DEF measured
  <2>. QED BY <1>1, <2>2, LeastAndGreatest, Zenon
<1>3. \A i \in Ok : low <= ScoreOf(c, results[i].page) /\ ScoreOf(c, results[i].page) <= high
  BY <1>2
<1>4. low \in Int /\ high \in Int
  <2>1. measured \subseteq 0..1700
    BY OkScores
  <2>. HIDE DEF measured
  <2>. QED BY <2>1
<1>5. 2 * low - 17 <= 34 * Average(c) /\ 34 * Average(c) <= 2 * high + 17
  <2>. HIDE DEF measured
  <2>. QED BY <1>3, <1>4, AverageBounds
<1>. HIDE DEF measured
<1>6. Within(Average(c), measured)
  BY <1>5 DEF Within
<1>7. \/ Within(Filled(Average(c)), measured)
      \/ Filled(Average(c)) = 60 /\ Within(0, measured)
  BY <1>6 DEF Filled
<1>. QED BY <1>7 DEF measured

-------------------------------------------------------------------------------
(***************************************************************************)
(* The engine: the sample and the result                                   *)
(***************************************************************************)
EngineInv == EngineTypeOK /\ SampleInv /\ ResultInv

LEMMA SectionsAreFinite == IsFiniteSet(Sections) /\ Sections \subseteq Nat
BY EngineAssumption, FS_Interval DEF Sections

LEMMA DepthType == ASSUME EngineTypeOK PROVE Depth \in 1..MAX_CRAWL
BY EngineAssumption DEF Depth

\* Sums over the sections.
LEMMA SectionSums ==
    ASSUME NEW v \in [Sections -> Nat], NEW w \in [Sections -> Nat]
    PROVE  /\ SumFunction(w) \in Nat
           /\ (\A s \in Sections : w[s] = 0) => SumFunction(w) = 0
           /\ (\A s \in Sections : v[s] <= w[s]) => SumFunction(v) <= SumFunction(w)
<1>. DEFINE z == [s \in Sections |-> 0]
<1>1. /\ IsFiniteSet(Sections) /\ Sections \in SUBSET Sections
      /\ v \in [Sections -> Int] /\ w \in [Sections -> Int] /\ z \in [Sections -> Int]
      /\ DOMAIN v = Sections /\ DOMAIN w = Sections
      /\ \A s \in Sections : z[s] = 0 /\ 0 <= w[s]
  BY SectionsAreFinite
<1>. HIDE DEF z
<1>2. SumFunctionOnSet(z, Sections) = 0
  <2>1. Cardinality(Sections) \in Nat
    BY <1>1, FS_CardinalityType
  <2>2. \A s \in Sections : 0 <= z[s] /\ z[s] <= 0
    BY <1>1
  <2>3. /\ Cardinality(Sections) * 0 <= SumFunctionOnSet(z, Sections)
        /\ SumFunctionOnSet(z, Sections) <= Cardinality(Sections) * 0
    BY <1>1, <2>2, SumBounds
  <2>4. SumFunctionOnSet(z, Sections) \in Int
    BY <1>1, SumType
  <2>. QED BY <2>1, <2>3, <2>4
<1>3. SumFunctionOnSet(w, Sections) \in Int /\ SumFunctionOnSet(v, Sections) \in Int
  BY <1>1, SumType
<1>4. SumFunctionOnSet(z, Sections) <= SumFunctionOnSet(w, Sections)
  <2>1. \A s \in Sections : z[s] <= w[s]
    BY <1>1
  <2>. QED BY <1>1, <2>1, SumMonotone
<1>5. ASSUME \A s \in Sections : w[s] = 0
      PROVE  SumFunctionOnSet(w, Sections) <= SumFunctionOnSet(z, Sections)
  <2>1. \A s \in Sections : w[s] <= z[s]
    BY <1>1, <1>5
  <2>. QED BY <1>1, <2>1, SumMonotone
<1>6. ASSUME \A s \in Sections : v[s] <= w[s]
      PROVE  SumFunctionOnSet(v, Sections) <= SumFunctionOnSet(w, Sections)
  BY <1>1, <1>6, SumMonotone
<1>7. /\ SumFunction(v) = SumFunctionOnSet(v, Sections)
      /\ SumFunction(w) = SumFunctionOnSet(w, Sections)
  BY <1>1 DEF SumFunction
<1>. QED BY <1>2, <1>3, <1>4, <1>5, <1>6, <1>7

LEMMA PickedType == ASSUME EngineTypeOK PROVE Picked \in Nat
BY SectionSums DEF EngineTypeOK, Picked

LEMMA FillerTypes ==
    /\ \A n \in 0..100 : Filled(n) \in 0..100
    /\ Performance \subseteq 0..100
BY EngineAssumption DEF Filled, Performance

LEMMA ResultType ==
    ASSUME EngineTypeOK, Len(results) >= 1, NEW lab \in Performance
    PROVE  Result(lab) \in [home : BOOLEAN, analysed : Nat, critical : SUBSET Rules,
                            scores : [Score!Categories -> 0..100]]
<1>1. results[1].analysed \in BOOLEAN
  <2>1. results \in Seq(PageResults) /\ 1 \in 1..Len(results)
    BY DEF EngineTypeOK
  <2>2. results[1] \in PageResults
    BY <2>1, ElementOfSeq
  <2>. QED BY <2>2, PageResultParts
<1>2. Cardinality(Ok) \in Nat
  BY OkPages
<1>3. Critical \in SUBSET Rules
  <2>1. \A i \in Ok : results[i].page.critical \in SUBSET Rules
    <3>1. ASSUME NEW i \in Ok PROVE results[i].page.critical \in SUBSET Rules
      <4>1. PICK p \in Pages : p = results[i].page
        BY OkPages
      <4>. QED BY <4>1, PageParts
    <3>. QED BY <3>1
  <2>. QED BY <2>1 DEF Critical, Criticals
<1>4. ASSUME NEW c \in Score!Categories PROVE CategoryScore(c, lab) \in 0..100
  <2>1. fit \in [usability : 0..100, responsiveness : 0..100]
    BY DEF EngineTypeOK
  <2>2. DOMAIN fit = {"usability", "responsiveness"} /\ \A f \in DOMAIN fit : fit[f] \in 0..100
    BY <2>1
  <2>3. CASE c \in Averaged
    <3>1. CategoryScore(c, lab) = Filled(Average(c))
      BY <2>2, <2>3 DEF CategoryScore, Averaged
    <3>. QED BY <2>3, <3>1, AverageType, FillerTypes
  <2>4. CASE c \in DOMAIN fit
    BY <2>2, <2>4 DEF CategoryScore, Averaged
  <2>5. CASE c = "performance"
    BY <2>2, <2>5, FillerTypes DEF CategoryScore, Averaged
  <2>6. CASE c = "design"
    BY <2>2, <2>6 DEF CategoryScore, Averaged
  <2>. QED BY <2>2, <2>3, <2>4, <2>5, <2>6 DEF Score!Categories, Averaged
<1>5. [c \in Score!Categories |-> CategoryScore(c, lab)] \in [Score!Categories -> 0..100]
  BY <1>4
<1>. QED BY <1>1, <1>2, <1>3, <1>5 DEF Result

LEMMA BandType ==
    /\ \A s : Score!BandOf(s) \in Score!Bands
    /\ \A a, b, f : Score!Verdict(a, b, FALSE, f) \in {"partially_compliant", "non_compliant"}
BY DEF Score!BandOf, Score!Bands, Score!CapAtC, Score!BandFor, Score!Verdict

LEMMA EngineInitInv == ASSUME EngineInit PROVE EngineInv
<1>. USE EngineAssumption DEF EngineInit
<1>1. EngineTypeOK
  <2>1. results \in Seq(PageResults) /\ Len(results) = 0
    BY EmptySeq
  <2>2. out \in [home : BOOLEAN, analysed : Nat, critical : SUBSET Rules,
                 scores : [Score!Categories -> 0..100]]
    BY DEF Unmeasured
  <2>3. fit \in [usability : 0..100, responsiveness : 0..100]
    OBVIOUS
  <2>4. /\ found \in [Sections -> PoolSizes \cup {0}] /\ taken \in [Sections -> Nat]
        /\ turn \in Sections
    BY DEF Sections
  <2>5. /\ caller \in {"worker", "public"} /\ pc = "home"
        /\ band = "none" /\ compliance = "none"
    OBVIOUS
  <2>6. Len(results) <= MAX_CRAWL
    BY <2>1
  <2>. HIDE DEF EngineInit
  <2>. QED BY <2>1, <2>2, <2>3, <2>4, <2>5, <2>6 DEF EngineTypeOK
<1>2. SampleInv
  <2>1. Picked = 0
    <3>1. taken \in [Sections -> Nat] /\ \A s \in Sections : taken[s] = 0
      OBVIOUS
    <3>. HIDE DEF EngineInit
    <3>. QED BY <3>1, SectionSums DEF Picked
  <2>2. Depth \in 1..MAX_CRAWL
    BY <1>1, DepthType
  <2>. QED BY <2>1, <2>2 DEF SampleInv, InRound, Sections
<1>3. ResultInv
  BY DEF ResultInv
<1>. QED BY <1>1, <1>2, <1>3 DEF EngineInv

LEMMA EngineTypeStep ==
    ASSUME EngineInv, [EngineNext]_engineVars PROVE EngineTypeOK'
<1>. USE DEF EngineInv
<1>0. EngineTypeOK /\ SampleInv /\ ResultInv
  OBVIOUS
<1>n. Picked \in Nat /\ Depth \in 1..MAX_CRAWL /\ MAX_CRAWL \in Nat \ {0} /\ Len(results) \in Nat
  <2>1. results \in Seq(PageResults)
    BY DEF EngineTypeOK
  <2>. QED BY <2>1, EngineAssumption, PickedType, DepthType
<1>1. CASE Home
  <2>1. PICK r \in PageResults : results' = <<r>>
    BY <1>1, PageResultParts DEF Home
  <2>2. /\ results' \in Seq(PageResults)
        /\ Len(results') = 1
    BY <2>1
  <2>3. Len(results') <= MAX_CRAWL
    BY <1>n, <2>2
  <2>4. pc' = "resize" /\ UNCHANGED <<caller, fit, poolVars, out, readVars>>
    BY <1>1 DEF Home
  <2>. QED BY <1>0, <2>2, <2>3, <2>4 DEF EngineTypeOK, poolVars, readVars
<1>2. CASE Resize
  <2>1. PICK p \in IF results[1].analysed THEN {results[1].page} ELSE Pages,
             widths \in SUBSET Widths :
         \/ fit' = [usability |-> Usability(p.landmarks, p.labelled),
                    responsiveness |-> Responsiveness(widths \ p.overflows, p.small)]
         \/ /\ 1440 \notin widths
            /\ \E left \in SUBSET {"h1"} :
                 fit' = [usability |-> Usability(left, 100),
                         responsiveness |-> Responsiveness(widths \ p.overflows, 0)]
    BY <1>2 DEF Resize
  <2>2. p \in Pages
    <3>1. ASSUME results[1].analysed PROVE results[1].page \in Pages
      <4>1. 1 \in Ok
        <5>1. Len(results) = 1
          BY <1>0, <1>2 DEF ResultInv, Resize
        <5>. QED BY <1>0, <3>1, <5>1 DEF Ok, EngineTypeOK
      <4>. QED BY <4>1, OkPages
    <3>. QED BY <2>1, <3>1
  <2>3. /\ p.landmarks \in SUBSET Landmarks /\ p.labelled \in 0..100 /\ p.small \in 0..100
        /\ widths \ p.overflows \in SUBSET Widths
    BY <2>2, PageParts
  <2>4. /\ Usability(p.landmarks, p.labelled) \in 0..100
        /\ Responsiveness(widths \ p.overflows, p.small) \in 0..100
        /\ Responsiveness(widths \ p.overflows, 0) \in 0..100
    <3>1. 0 \in 0..100
      OBVIOUS
    <3>. QED BY <2>3, <3>1, UsabilityType, ResponsivenessType
  <2>5. ASSUME NEW left \in SUBSET {"h1"} PROVE Usability(left, 100) \in 0..100
    <3>1. left \in SUBSET Landmarks /\ 100 \in 0..100
      BY DEF Landmarks
    <3>. QED BY <3>1, UsabilityType
  <2>6. fit' \in [usability : 0..100, responsiveness : 0..100]
    <3>1. PICK u \in 0..100, v \in 0..100 : fit' = [usability |-> u, responsiveness |-> v]
      BY <2>1, <2>4, <2>5
    <3>. QED BY <3>1
  <2>. QED BY <1>0, <1>2, <2>6 DEF Resize, EngineTypeOK, poolVars, readVars
<1>3. CASE Discover
  BY <1>0, <1>3 DEF Discover, EngineTypeOK, readVars
<1>4. CASE Pick
  <2>1. taken' \in [Sections -> Nat]
    BY <1>0, <1>4 DEF Pick, EngineTypeOK
  <2>2. turn' \in Sections
    BY <1>0, <1>4, EngineAssumption DEF Pick, EngineTypeOK, Sections
  <2>. QED BY <1>0, <1>4, <2>1, <2>2 DEF Pick, EngineTypeOK, readVars
<1>5. CASE StartCrawl
  BY <1>0, <1>5 DEF StartCrawl, EngineTypeOK, poolVars, readVars
<1>6. CASE Visit
  <2>1. PICK r \in PageResults : results' = Append(results, r)
    BY <1>6, PageResultParts DEF Visit
  <2>2. results \in Seq(PageResults)
    BY <1>0 DEF EngineTypeOK
  <2>3. /\ results' \in Seq(PageResults)
        /\ Len(results') = Len(results) + 1
    BY <2>1, <2>2, AppendProperties
  <2>4. Len(results') <= MAX_CRAWL
    BY <1>0, <1>6, <1>n, <2>3 DEF Visit, SampleInv
  <2>. QED BY <1>0, <1>6, <2>3, <2>4 DEF Visit, EngineTypeOK, poolVars, readVars
<1>7. CASE Aggregate
  <2>1. Len(results) >= 1
    BY <1>7, <1>n DEF Aggregate
  <2>2. out' \in [home : BOOLEAN, analysed : Nat, critical : SUBSET Rules,
                  scores : [Score!Categories -> 0..100]]
    BY <1>0, <1>7, <2>1, ResultType DEF Aggregate
  <2>. QED BY <1>0, <1>7, <2>2 DEF Aggregate, EngineTypeOK, poolVars, readVars
<1>8. CASE EngineDies
  BY <1>0, <1>8 DEF EngineDies, EngineTypeOK, poolVars, readVars
<1>9. CASE Read
  <2>1. /\ band' \in Score!Bands \cup {"none"}
        /\ compliance' \in {"none", "not_assessed", "partially_compliant", "non_compliant"}
    <3>1. BandsGiven \subseteq Score!Bands
      BY BandType, Zenon DEF BandsGiven
    <3>2. VerdictsGiven \subseteq {"partially_compliant", "non_compliant"}
      <4>1. ASSUME NEW v \in VerdictsGiven
            PROVE  v \in {"partially_compliant", "non_compliant"}
        <5>1. PICK n \in {0, 1}, flagged \in BOOLEAN :
                  v = Score!Verdict(InTenths["accessibility"],
                                    Cardinality(out.critical) + n, FALSE, flagged)
          BY <4>1 DEF VerdictsGiven
        <5>. QED BY <5>1, BandType
      <4>. QED BY <4>1
    <3>3. Score!BandOf(InTenths) \in Score!Bands
      BY BandType, Zenon
    <3>. QED BY <1>9, <3>1, <3>2, <3>3 DEF Read
  <2>. QED BY <1>0, <1>9, <2>1 DEF Read, EngineTypeOK, poolVars
<1>10. CASE UNCHANGED engineVars
  BY <1>0, <1>10 DEF engineVars, EngineTypeOK, poolVars, readVars
<1>. QED BY <1>1, <1>2, <1>3, <1>4, <1>5, <1>6, <1>7, <1>8, <1>9, <1>10 DEF EngineNext

\* diversify: the sample grows in rounds.
LEMMA SampleStep ==
    ASSUME EngineInv, [EngineNext]_engineVars, EngineTypeOK' PROVE SampleInv'
<1>0. EngineTypeOK /\ SampleInv /\ ResultInv
  BY DEF EngineInv
<1>n. /\ Picked \in Nat /\ Depth \in 1..MAX_CRAWL /\ MAX_CRAWL \in Nat \ {0}
      /\ NumSections \in Nat \ {0} /\ turn \in 1..NumSections
      /\ found \in [Sections -> Nat] /\ taken \in [Sections -> Nat]
      /\ \A s \in Sections : s \in 1..NumSections /\ taken[s] \in Nat /\ found[s] \in Nat
  <2>1. found \in [Sections -> Nat] /\ taken \in [Sections -> Nat] /\ turn \in Sections
    <3>1. PoolSizes \cup {0} \subseteq Nat
      BY EngineAssumption
    <3>. QED BY <1>0, <3>1 DEF EngineTypeOK
  <2>. QED BY <1>0, <2>1, EngineAssumption, PickedType, DepthType DEF Sections
<1>1. ASSUME UNCHANGED <<caller, poolVars>>,
             pc' \in {"home", "resize", "discover"} => pc \in {"home", "resize", "discover"},
             pc' \in {"crawl", "done", "read"} => SampleComplete
      PROVE  SampleInv'
  BY <1>0, <1>1 DEF SampleInv, SampleComplete, Picked, Depth, InRound, poolVars
<1>2. CASE Home \/ Resize \/ EngineDies \/ StartCrawl
  BY <1>1, <1>2 DEF Home, Resize, EngineDies, StartCrawl
<1>3. CASE Visit \/ Aggregate \/ Read
  <2>1. SampleComplete
    BY <1>0, <1>3 DEF SampleInv, Visit, Aggregate, Read
  <2>2. UNCHANGED <<caller, poolVars>> /\ pc' \notin {"home", "resize", "discover"}
    BY <1>3 DEF Visit, Aggregate, Read
  <2>. QED BY <1>1, <2>1, <2>2
<1>4. CASE UNCHANGED engineVars
  <2>1. pc \in {"crawl", "done", "read"} => SampleComplete
    BY <1>0 DEF SampleInv
  <2>. QED BY <1>1, <1>4, <2>1 DEF engineVars
<1>5. CASE Discover
  <2>1. /\ turn = 1 /\ UNCHANGED <<caller, taken, turn>> /\ pc' = "pick"
        /\ found' \in [Sections -> Nat]
        /\ \A s \in Sections : taken[s] = 0
    BY <1>0, <1>5, EngineAssumption DEF Discover, SampleInv
  <2>2. Picked' <= Depth' - 1
    BY <1>0, <2>1 DEF SampleInv, Picked, Depth
  <2>. QED BY <1>n, <2>1, <2>2 DEF SampleInv, InRound
<1>6. CASE Pick
  <2>1. /\ pc = "pick" /\ pc' = "pick" /\ UNCHANGED <<caller, found>>
        /\ ~SampleComplete
        /\ taken' = [taken EXCEPT ![turn] = IF @ < found[turn] THEN @ + 1 ELSE @]
        /\ turn' = (turn % NumSections) + 1
    BY <1>6 DEF Pick
  <2>2. turn \in Sections
    BY <1>n DEF Sections
  <2>3. turn' = IF turn = NumSections THEN 1 ELSE turn + 1
    <3>1. CASE turn = NumSections
      BY <1>n, <2>1, <3>1
    <3>2. CASE turn # NumSections
      BY <1>n, <2>1, <3>2
    <3>. QED BY <3>1, <3>2
  <2>4. Picked < Depth - 1
    BY <1>n, <2>1 DEF SampleComplete
  <2>5. Picked' <= Depth' - 1
    <3>1. CASE taken[turn] < found[turn]
      <4>1. taken' = [taken EXCEPT ![turn] = @ + 1]
        BY <1>n, <2>1, <2>2, <3>1
      <4>2. taken \in [Sections -> Int]
        BY <1>n
      <4>3. Picked' = Picked + 1
        BY <2>2, <4>1, <4>2, SectionsAreFinite, SumIncremented DEF Picked
      <4>. QED BY <1>n, <2>1, <2>4, <4>3 DEF Depth
    <3>2. CASE ~(taken[turn] < found[turn])
      <4>1. taken' = taken
        BY <1>n, <2>1, <2>2, <3>2
      <4>. QED BY <1>n, <2>1, <2>4, <4>1 DEF Picked, Depth
    <3>. QED BY <3>1, <3>2
  <2>6. \A s \in Sections :
          taken'[s] = IF s = turn /\ taken[s] < found[s] THEN taken[s] + 1 ELSE taken[s]
    BY <1>n, <2>1, <2>2
  <2>7. \A s \in Sections : taken[s] <= found[s]
    BY <1>0 DEF SampleInv
  <2>8. \A s \in Sections : taken'[s] <= found'[s]
    BY <1>n, <2>1, <2>6, <2>7
  <2>9. ASSUME NEW s \in Sections, NEW t \in Sections, taken'[s] < found'[s]
        PROVE  taken'[t] + InRound(s)' <= taken'[s] + InRound(t)'
    <3>1. /\ taken[s] < found[s] => taken[t] + InRound(s) <= taken[s] + InRound(t)
          /\ taken[s] < found[s] => taken[turn] + InRound(s) <= taken[s] + InRound(turn)
          /\ taken[turn] < found[turn] => taken[t] + InRound(turn) <= taken[turn] + InRound(t)
      BY <1>0, <2>2 DEF SampleInv
    <3>. QED BY <1>n, <2>1, <2>3, <2>6, <2>7, <2>9, <3>1 DEF InRound
  <2>. QED BY <2>1, <2>5, <2>8, <2>9 DEF SampleInv
<1>. QED BY <1>2, <1>3, <1>4, <1>5, <1>6 DEF EngineNext

\* The result does not change once it is there.
LEMMA ResultStays ==
    ASSUME UNCHANGED <<results, fit>>, NEW lab PROVE Result(lab)' = Result(lab)
<1>1. Ok' = Ok
  BY DEF Ok
<1>2. \A c : Average(c)' = Average(c)
  BY <1>1 DEF Average
<1>3. \A c : CategoryScore(c, lab)' = CategoryScore(c, lab)
  <2>. TAKE c
  <2>1. Filled(Average(c))' = Filled(Average(c))
    BY <1>2 DEF Filled
  <2>. QED BY <2>1 DEF CategoryScore
<1>4. Critical' = Critical
  BY <1>1 DEF Critical
<1>. QED BY <1>1, <1>3, <1>4 DEF Result

LEMMA ResultStep ==
    ASSUME EngineInv, [EngineNext]_engineVars, EngineTypeOK' PROVE ResultInv'
<1>0. EngineTypeOK /\ SampleInv /\ ResultInv
  BY DEF EngineInv
<1>n. /\ Picked \in Nat /\ Len(results) \in Nat
      /\ pc \in {"home", "resize", "discover", "pick", "crawl", "done", "read", "died"}
      /\ results \in Seq(PageResults)
  BY <1>0, PickedType DEF EngineTypeOK
<1>1. CASE Home
  <2>1. Len(results') = 1
    BY <1>1 DEF Home
  <2>. QED BY <1>0, <1>1, <2>1 DEF Home, ResultInv, readVars
<1>2. CASE Resize \/ Discover \/ Pick
  BY <1>0, <1>2 DEF Resize, Discover, Pick, ResultInv, readVars
<1>3. CASE StartCrawl
  <2>1. UNCHANGED Picked
    BY <1>3 DEF StartCrawl, Picked, poolVars
  <2>2. Len(results') = 1
    BY <1>0, <1>3 DEF StartCrawl, ResultInv
  <2>3. Len(results') \in 1..(Picked' + 1)
    BY <1>n, <2>1, <2>2
  <2>. QED BY <1>0, <1>3, <2>3 DEF StartCrawl, ResultInv, readVars
<1>4. CASE EngineDies
  BY <1>0, <1>4 DEF EngineDies, ResultInv, readVars
<1>5. CASE Visit
  <2>1. UNCHANGED Picked /\ Len(results') = Len(results) + 1
    <3>1. PICK r : results' = Append(results, r)
      BY <1>5 DEF Visit
    <3>2. Len(results') = Len(results) + 1
      BY <1>n, <3>1
    <3>. QED BY <1>5, <3>2 DEF Visit, Picked, poolVars
  <2>. QED BY <1>0, <1>n, <1>5, <2>1 DEF Visit, ResultInv, readVars
<1>6. CASE Aggregate
  <2>1. PICK lab \in Performance : out' = Result(lab)
    BY <1>6 DEF Aggregate
  <2>2. out' = Result(lab)'
    BY <1>6, <2>1, ResultStays DEF Aggregate
  <2>3. UNCHANGED Picked
    BY <1>6 DEF Aggregate, Picked, poolVars
  <2>. QED BY <1>0, <1>n, <1>6, <2>2, <2>3 DEF Aggregate, ResultInv, readVars
<1>7. ASSUME UNCHANGED <<results, fit, out, poolVars>>, pc \in {"done", "read"}
      PROVE  /\ Picked' = Picked /\ Captured' = Captured /\ InTenths' = InTenths
             /\ BandsGiven' = BandsGiven /\ VerdictsGiven' = VerdictsGiven
             /\ \E lab \in Performance : out' = Result(lab)'
  <2>1. PICK lab \in Performance : out = Result(lab)
    BY <1>0, <1>7 DEF ResultInv
  <2>2. out' = Result(lab)'
    BY <1>7, <2>1, ResultStays
  <2>3. InTenths' = InTenths
    BY <1>7 DEF InTenths
  <2>4. BandsGiven' = BandsGiven /\ VerdictsGiven' = VerdictsGiven
    BY <1>7, <2>3 DEF BandsGiven, VerdictsGiven, Enriched
  <2>. QED BY <1>7, <2>2, <2>3, <2>4 DEF Picked, Captured, poolVars
<1>8. CASE Read
  <2>1. /\ Picked' = Picked /\ Captured' = Captured /\ InTenths' = InTenths
        /\ BandsGiven' = BandsGiven /\ VerdictsGiven' = VerdictsGiven
        /\ \E lab \in Performance : out' = Result(lab)'
    BY <1>7, <1>8 DEF Read
  <2>2. Len(results') \in 1..(Picked' + 1)
    BY <1>0, <1>8, <2>1 DEF Read, ResultInv
  <2>3. caller' = "worker" /\ band' # "none" =>
          /\ Captured'
          /\ band' \in BandsGiven' /\ compliance' \in VerdictsGiven'
    BY <1>8, <2>1 DEF Read
  <2>. QED BY <1>8, <2>1, <2>2, <2>3 DEF Read, ResultInv
<1>9. CASE UNCHANGED engineVars
  <2>1. /\ Picked' = Picked /\ Captured' = Captured /\ InTenths' = InTenths
    BY <1>9 DEF engineVars, poolVars, Picked, Captured, InTenths
  <2>3. BandsGiven' = BandsGiven /\ VerdictsGiven' = VerdictsGiven
    BY <1>9, <2>1 DEF engineVars, BandsGiven, VerdictsGiven, Enriched
  <2>2. pc' \in {"done", "read"} => \E lab \in Performance : out' = Result(lab)'
    BY <1>7, <1>9 DEF engineVars, poolVars
  <2>. QED BY <1>0, <1>9, <2>1, <2>2, <2>3 DEF engineVars, poolVars, readVars, ResultInv
<1>. QED BY <1>1, <1>2, <1>3, <1>4, <1>5, <1>6, <1>8, <1>9 DEF EngineNext

\* The invariant behind the theorems about the engine: the sample grows in
\* rounds, and the result is made of the pages that answered.
THEOREM EngineInvariant == EngineSpec => []EngineInv
<1>1. EngineInit => EngineInv
  BY EngineInitInv
<1>2. EngineInv /\ [EngineNext]_engineVars => EngineInv'
  BY EngineTypeStep, SampleStep, ResultStep DEF EngineInv
<1>. QED BY <1>1, <1>2, PTL DEF EngineSpec

\* main of runner.js: every score it gives lies between 0 and 100, whatever is on
\* the pages and however many of them there are.
THEOREM EngineTypeCorrect == EngineSpec => []EngineTypeOK
<1>1. EngineInv => EngineTypeOK
  BY DEF EngineInv
<1>. QED BY <1>1, EngineInvariant, PTL

\* diversify: the sample is as large as the depth and the site allow, and drawn
\* from the sections in turn, for every number of sections of any sizes.
THEOREM SampleIsDiverse == EngineSpec => []DiverseSample
<1>1. EngineInv => DiverseSample
  <2>. SUFFICES ASSUME EngineInv, pc \in {"crawl", "done", "read"}
                PROVE  /\ Picked = Least(Depth - 1, SumFunction(found))
                       /\ \A s, t \in Sections :
                             taken[s] < found[s] => taken[t] <= taken[s] + 1
    BY DEF DiverseSample
  <2>1. EngineTypeOK /\ SampleInv /\ SampleComplete
    BY DEF EngineInv, SampleInv
  <2>2. found \in [Sections -> Nat] /\ taken \in [Sections -> Nat]
    <3>1. PoolSizes \cup {0} \subseteq Nat
      BY EngineAssumption
    <3>. QED BY <2>1, <3>1 DEF EngineTypeOK
  <2>3. /\ \A s \in Sections : taken[s] <= found[s]
        /\ Picked <= Depth - 1
    BY <2>1 DEF SampleInv
  <2>4. /\ Picked \in Nat /\ SumFunction(found) \in Nat /\ Depth \in Nat
        /\ Picked <= SumFunction(found)
    <3>1. Depth \in Nat
      BY <2>1, DepthType, EngineAssumption
    <3>. QED BY <2>2, <2>3, <3>1, SectionSums DEF Picked
  <2>5. ASSUME \A s \in Sections : taken[s] >= found[s] PROVE SumFunction(found) <= Picked
    <3>1. \A s \in Sections : found[s] <= taken[s]
      BY <2>2, <2>5
    <3>. QED BY <2>2, <3>1, SectionSums DEF Picked
  <2>6. Picked = Least(Depth - 1, SumFunction(found))
    BY <2>1, <2>3, <2>4, <2>5 DEF SampleComplete, Least
  <2>7. ASSUME NEW s \in Sections, NEW t \in Sections, taken[s] < found[s]
        PROVE  taken[t] <= taken[s] + 1
    <3>1. taken[t] + InRound(s) <= taken[s] + InRound(t)
      BY <2>1, <2>7 DEF SampleInv
    <3>2. InRound(s) \in 0..1 /\ InRound(t) \in 0..1
      BY DEF InRound
    <3>. QED BY <2>2, <3>1, <3>2
  <2>. QED BY <2>6, <2>7
<1>. QED BY <1>1, EngineInvariant, PTL

\* On a site that fails in accessibility on every page the average fails, too.
LEMMA AllFail ==
    ASSUME EngineTypeOK, Ok # {}, \A i \in Ok : Accessibility(results[i].page) < 50
    PROVE  Filled(Average("accessibility")) < 50
<1>1. "accessibility" \in Averaged
  BY DEF Averaged
<1>2. ASSUME NEW i \in Ok
      PROVE  /\ 510 <= ScoreOf("accessibility", results[i].page)
             /\ ScoreOf("accessibility", results[i].page) <= 833
  <2>1. PICK p \in Pages : p = results[i].page
    BY OkPages
  <2>2. Accessibility(p) \in 30..49
    BY <1>2, <2>1, AccessibilityType
  <2>. QED BY <2>1, <2>2 DEF ScoreOf
<1>3. /\ Average("accessibility") \in Int
      /\ 2 * 510 - 17 <= 34 * Average("accessibility")
      /\ 34 * Average("accessibility") <= 2 * 833 + 17
  BY <1>1, <1>2, AverageBounds
<1>. QED BY <1>3 DEF Filled

\* What goes into an average is what was measured, and a 60 if axe raised.
LEMMA ScoresAveraged ==
    ASSUME NEW c \in Averaged
    PROVE  {ScoreOf(c, results[i].page) : i \in Ok} = Averages(c)
<1>1. Measured(c) \subseteq Ok
  BY DEF Measured
<1>2. ASSUME NEW i \in Ok, i \notin Measured(c)
      PROVE  ScoreOf(c, results[i].page) = 17 * 60
  BY <1>2 DEF Measured, ScoreOf, Accessibility
<1>. QED BY <1>1, <1>2 DEF Averages

\* process of worker.py: an audit with a score has its home page; its averages lie
\* within what the pages that answered gave, but for the 60 of a page on which axe
\* raised and for the 60 in place of a 0; a critical failure that axe reported, and
\* failure on all pages, cannot be averaged away.
THEOREM ScoresRestOnEvidence == EngineSpec => []RestsOnEvidence
<1>1. EngineInv => RestsOnEvidence
  <2>. SUFFICES ASSUME EngineInv, caller = "worker", pc = "read", band # "none"
                PROVE  /\ 1 \in Ok
                       /\ \A c \in Averaged :
                             \/ Within(out.scores[c], Averages(c))
                             \/ out.scores[c] = 60 /\ Within(0, Averages(c))
                       /\ \A i \in Measured("accessibility") :
                             results[i].page.critical # {} => compliance = "non_compliant"
                       /\ (\A i \in Ok : Accessibility(results[i].page) < 50) =>
                             compliance = "non_compliant" /\ band \notin {"A", "B"}
    BY DEF RestsOnEvidence
  <2>1. EngineTypeOK /\ ResultInv
    BY DEF EngineInv
  <2>2. PICK lab \in Performance : out = Result(lab)
    BY <2>1 DEF ResultInv
  <2>3. /\ out.home = results[1].analysed /\ out.critical = Critical
        /\ \A c \in Score!Categories : out.scores[c] = CategoryScore(c, lab)
    BY <2>2 DEF Result
  <2>4. /\ out.home
        /\ band \in BandsGiven /\ compliance \in VerdictsGiven
    BY <2>1 DEF ResultInv, Captured
  <2>5. 1 \in Ok
    <3>1. Len(results) \in 1..(Picked + 1) /\ Picked \in Nat
      BY <2>1, PickedType DEF ResultInv
    <3>2. results \in Seq(PageResults)
      BY <2>1 DEF EngineTypeOK
    <3>3. 1 \in DOMAIN results
      BY <3>1, <3>2
    <3>4. results[1].analysed
      BY <2>3, <2>4, Zenon
    <3>. QED BY <3>3, <3>4 DEF Ok
  <2>6. ASSUME NEW c \in Averaged PROVE out.scores[c] = Filled(Average(c))
    <3>1. DOMAIN fit = {"usability", "responsiveness"}
      BY <2>1 DEF EngineTypeOK
    <3>2. c \in Score!Categories
      BY DEF Averaged, Score!Categories
    <3>. QED BY <2>3, <3>1, <3>2 DEF CategoryScore, Averaged
  <2>7. ASSUME NEW c \in Averaged
        PROVE  \/ Within(out.scores[c], Averages(c))
               \/ out.scores[c] = 60 /\ Within(0, Averages(c))
    BY <2>1, <2>5, <2>6, FilledWithin, ScoresAveraged
  <2>8. ASSUME NEW i \in Measured("accessibility"), results[i].page.critical # {}
        PROVE  compliance = "non_compliant"
    <3>1. Critical # {}
      BY <2>8 DEF Critical, Criticals, Measured
    <3>2. Critical \in SUBSET Rules
      BY <2>1, <2>3 DEF EngineTypeOK
    <3>3. Cardinality(Critical) \in Nat /\ Cardinality(Critical) # 0
      <4>1. IsFiniteSet(Critical)
        BY <3>2, EngineAssumption, FS_Subset
      <4>. QED BY <3>1, <4>1, FS_CardinalityType, FS_EmptySet
    <3>4. Cardinality(out.critical) > 0
      BY <2>3, <3>3
    <3>5. \A n \in {0, 1} : Cardinality(out.critical) + n > 0
      BY <2>3, <3>3
    <3>. QED BY <2>4, <3>5 DEF VerdictsGiven, Score!Verdict, Score!Blocked
  <2>9. ASSUME \A i \in Ok : Accessibility(results[i].page) < 50
        PROVE  compliance = "non_compliant" /\ band \notin {"A", "B"}
    <3>1. "accessibility" \in Averaged /\ "accessibility" \in Score!Categories
      BY DEF Averaged, Score!Categories
    <3>2. out.scores["accessibility"] < 50
      BY <2>1, <2>5, <2>6, <2>9, <3>1, AllFail
    <3>3. out.scores["accessibility"] \in 0..100
      BY <2>1, <3>1 DEF EngineTypeOK
    <3>4. InTenths["accessibility"] < 500
      BY <3>1, <3>2, <3>3 DEF InTenths
    <3>5. compliance = "non_compliant"
      BY <2>4, <3>4 DEF VerdictsGiven, Score!Verdict, Score!Blocked
    <3>6. \A s \in Enriched : s["accessibility"] < 500
      <4>1. ASSUME NEW d, NEW p
            PROVE  [InTenths EXCEPT !["design"] = d, !["performance"] = p]["accessibility"]
                     = InTenths["accessibility"]
        BY <3>1 DEF InTenths
      <4>2. ASSUME NEW s \in Enriched PROVE s["accessibility"] = InTenths["accessibility"]
        <5>1. PICK d, p : s = [InTenths EXCEPT !["design"] = d, !["performance"] = p]
          BY <4>2 DEF Enriched
        <5>. QED BY <4>1, <5>1, Zenon
      <4>. QED BY <3>4, <4>2
    <3>7. band \notin {"A", "B"}
      BY <2>4, <3>6 DEF BandsGiven, Score!BandOf, Score!GuardrailActive, Score!CapAtC
    <3>. QED BY <3>5, <3>7
  <2>. QED BY <2>5, <2>7, <2>8, <2>9
<1>. QED BY <1>1, EngineInvariant, PTL

USE DEF NoScore, Tenths

-------------------------------------------------------------------------------
(***************************************************************************)
(* Scoring                                                                 *)
(***************************************************************************)

\* A vector, category by category.
LEMMA VectorParts ==
    ASSUME NEW s \in Vectors
    PROVE  \A c \in Categories : s[c] \in Int /\ 0 <= s[c] /\ s[c] <= 1000
BY DEF Vectors

\* The weights sum to 100: the sum of a vector lies between 0 and a full score.
LEMMA WeightedSumBounds ==
    ASSUME NEW s \in Vectors
    PROVE  WeightedSum(s) \in Int /\ 0 <= WeightedSum(s) /\ WeightedSum(s) <= 100000
<1> DEFINE In(x) == x \in Int /\ 0 <= x /\ x <= 1000
<1>1. \A x1, x2, x3, x4, x5, x6, x7, x8 :
        In(x1) /\ In(x2) /\ In(x3) /\ In(x4) /\ In(x5) /\ In(x6) /\ In(x7) /\ In(x8)
        => LET sum == 22 * x1 + 17 * x2 + 15 * x3 + 11 * x4 + 12 * x5 + 10 * x6
                      + 7 * x7 + 6 * x8
           IN  sum \in Int /\ 0 <= sum /\ sum <= 100000
  BY SMT
<1>2. /\ In(s["accessibility"]) /\ In(s["usability"]) /\ In(s["gigw"])
      /\ In(s["design"]) /\ In(s["performance"]) /\ In(s["responsiveness"])
      /\ In(s["content"]) /\ In(s["trust"])
  BY VectorParts DEF Categories
<1> HIDE DEF In
<1>3. QED  BY <1>1, <1>2 DEF WeightedSum

\* round(x, 1): from a sum to a score.
LEMMA RoundedSum ==
    ASSUME NEW n \in Int, 0 <= n, n <= 100000
    PROVE  /\ n \div 100 \in Int /\ n % 100 \in Int
           /\ n = 100 * (n \div 100) + (n % 100)
           /\ 0 <= n % 100 /\ n % 100 <= 99
<1>1. n = 100 * (n \div 100) + (n % 100)  BY SMT
<1>2. n \div 100 \in Int /\ n % 100 \in 0..99  BY SMT
<1>3. QED  BY <1>1, <1>2, SMT

\* The overall score of a vector, as a number between its sum's tenths.
LEMMA OverallOfSum ==
    ASSUME NEW s \in Vectors
    PROVE  /\ Overall(s) \in Int
           /\ 100 * Overall(s) <= WeightedSum(s) + 50
           /\ WeightedSum(s) <= 100 * Overall(s) + 50
<1> DEFINE n == WeightedSum(s)
<1>1. n \in Int /\ 0 <= n /\ n <= 100000  BY WeightedSumBounds
<1>2. \/ Overall(s) = n \div 100 + 1 /\ n % 100 >= 50
      \/ Overall(s) = n \div 100 /\ n % 100 <= 50
  <2>1. n % 100 \in Int  BY <1>1, RoundedSum
  <2>2. QED  BY <2>1 DEF Overall
<1> HIDE DEF n
<1>3. /\ n \div 100 \in Int /\ n % 100 \in Int
      /\ n = 100 * (n \div 100) + (n % 100)
      /\ 0 <= n % 100 /\ n % 100 <= 99
  BY <1>1, RoundedSum
<1>4. /\ Overall(s) \in Int
      /\ 100 * Overall(s) <= n + 50
      /\ n <= 100 * Overall(s) + 50
  BY <1>2, <1>3, SMT
<1>5. QED  BY <1>4 DEF n

\* compute_score: the overall score of any vector is a score.
THEOREM OverallIsAScore ==
    ASSUME NEW s \in Vectors
    PROVE  Overall(s) \in Tenths
BY OverallOfSum, WeightedSumBounds, SMT

\* A vector that is nowhere below another has the same sum only if it is the
\* same vector, and otherwise a sum that is larger by the smallest weight.
LEMMA WeightedSumGrows ==
    ASSUME NEW s \in Vectors, NEW t \in Vectors,
           \A c \in Categories : s[c] <= t[c]
    PROVE  s = t \/ WeightedSum(t) >= WeightedSum(s) + 6
<1> DEFINE a == s["accessibility"]   u == s["usability"]   g == s["gigw"]
           d == s["design"]          p == s["performance"]
           r == s["responsiveness"]  c == s["content"]     e == s["trust"]
           aa == t["accessibility"]   uu == t["usability"]  gg == t["gigw"]
           dd == t["design"]          pp == t["performance"]
           rr == t["responsiveness"]  cc == t["content"]    ee == t["trust"]
<1>1. \A k \in Categories : s[k] \in Int /\ t[k] \in Int /\ s[k] <= t[k]
  BY VectorParts
<1>2. /\ a \in Int /\ aa \in Int /\ a <= aa /\ u \in Int /\ uu \in Int /\ u <= uu
      /\ g \in Int /\ gg \in Int /\ g <= gg /\ d \in Int /\ dd \in Int /\ d <= dd
      /\ p \in Int /\ pp \in Int /\ p <= pp /\ r \in Int /\ rr \in Int /\ r <= rr
      /\ c \in Int /\ cc \in Int /\ c <= cc /\ e \in Int /\ ee \in Int /\ e <= ee
  BY <1>1 DEF Categories
<1>3. /\ WeightedSum(s) = 22 * a + 17 * u + 15 * g + 11 * d + 12 * p + 10 * r
                          + 7 * c + 6 * e
      /\ WeightedSum(t) = 22 * aa + 17 * uu + 15 * gg + 11 * dd + 12 * pp + 10 * rr
                          + 7 * cc + 6 * ee
  BY DEF WeightedSum
<1>4. CASE \A k \in Categories : s[k] = t[k]
  BY <1>4 DEF Vectors
<1>5. CASE ~ \A k \in Categories : s[k] = t[k]
  <2>1. \/ a # aa \/ u # uu \/ g # gg \/ d # dd
        \/ p # pp \/ r # rr \/ c # cc \/ e # ee
    BY <1>5 DEF Categories
  <2> HIDE DEF a, u, g, d, p, r, c, e, aa, uu, gg, dd, pp, rr, cc, ee
  <2>2. WeightedSum(t) >= WeightedSum(s) + 6
    BY <1>2, <1>3, <2>1, SMT
  <2>3. QED  BY <2>2
<1>6. QED  BY <1>4, <1>5

\* docs/SCORING_VALIDATION.md, "Monotonicity": raising categories never lowers
\* the overall score, however the ties are rounded.
THEOREM OverallMonotone ==
    ASSUME NEW s \in Vectors, NEW t \in Vectors,
           \A c \in Categories : s[c] <= t[c]
    PROVE  Overall(s) <= Overall(t)
<1>1. /\ Overall(s) \in Int /\ 100 * Overall(s) <= WeightedSum(s) + 50
      /\ Overall(t) \in Int /\ WeightedSum(t) <= 100 * Overall(t) + 50
      /\ WeightedSum(s) \in Int /\ WeightedSum(t) \in Int
  BY OverallOfSum, WeightedSumBounds
<1>2. CASE s = t
  BY <1>1, <1>2, SMT
<1>3. CASE WeightedSum(t) >= WeightedSum(s) + 6
  BY <1>1, <1>3, SMT
<1>4. QED  BY <1>2, <1>3, WeightedSumGrows

\* BANDS: a higher score has no worse band.
LEMMA BandForMonotone ==
    \A m, n \in Int : m <= n =>
        /\ BandFor(m) \in Bands /\ BandFor(n) \in Bands
        /\ Rank(BandFor(n)) <= Rank(BandFor(m))
BY DEF BandFor, Bands, Rank

\* The same with the guard-rail: raising categories can only lift it.
THEOREM BandMonotone ==
    ASSUME NEW s \in Vectors, NEW t \in Vectors,
           \A c \in Categories : s[c] <= t[c]
    PROVE  /\ BandOf(s) \in Bands /\ BandOf(t) \in Bands
           /\ Rank(BandOf(t)) <= Rank(BandOf(s))
<1> DEFINE p == BandFor(Overall(s))
           q == BandFor(Overall(t))
<1>1. p \in Bands /\ q \in Bands /\ Rank(q) <= Rank(p)
  <2>1. /\ Overall(s) \in Int /\ Overall(t) \in Int
        /\ Overall(s) <= Overall(t)
    BY OverallOfSum, OverallMonotone
  <2>2. QED  BY <2>1, BandForMonotone
<1>2. GuardrailActive(t) => GuardrailActive(s)
  <2>1. /\ s["accessibility"] \in Int /\ t["accessibility"] \in Int
        /\ s["accessibility"] <= t["accessibility"]
        /\ s["trust"] \in Int /\ t["trust"] \in Int /\ s["trust"] <= t["trust"]
    BY VectorParts DEF Categories
  <2>2. QED  BY <2>1 DEF GuardrailActive
<1>3. BandOf(s) = IF GuardrailActive(s) THEN CapAtC(p) ELSE p
  BY DEF BandOf
<1>4. BandOf(t) = IF GuardrailActive(t) THEN CapAtC(q) ELSE q
  BY DEF BandOf
<1> HIDE DEF p, q
<1>5. QED  BY <1>1, <1>2, <1>3, <1>4 DEF CapAtC, Bands, Rank

-------------------------------------------------------------------------------
(***************************************************************************)
(* The result of an audit                                                  *)
(***************************************************************************)

\* What makes the properties inductive.  The category scores are all there or
\* all missing, and once there they stay.  A call that scores has a captured
\* site.  As long as nothing overlapped, one call runs alone or reviews run
\* alone: the call holds the row as it is, the reviews have read the evidence as
\* it is, and only a review that is over or a call's last commit has left a
\* completed or a refused row.
EvidenceIsWhole ==
    /\ row.scores \in Vectors \cup {Missing}
    /\ \A w \in Workers :
        /\ loaded[w].scores \in Vectors \cup {Missing}
        /\ loaded[w].scores = Missing \/ row.scores \in Vectors

CallHoldsOutcome ==
    \A w \in Workers :
        stage[w] \in {"analyzed", "gate", "begun", "score"} => got[w] \in Outcomes

Running(w) == stage[w] \in {"engine", "analyzed", "gate", "begun", "score"}

OneAtATime ==
    /\ \A v, w \in Workers : stage[v] # "out" /\ stage[w] # "out" => v = w
    /\ \A w \in Workers, r \in Reviewers : stage[w] = "out" \/ rpc[r] = "idle"

CallHoldsRow ==
    \A w \in Workers :
        /\ stage[w] \in {"gate", "score"} => loaded[w] = row
        /\ Running(w) => row.status \notin {"completed", "insufficient_evidence"}

ReviewHoldsEvidence ==
    \A r \in Reviewers :
        /\ rpc[r] # "idle" => row.status = "completed"
        /\ rpc[r] # "idle" /\ seen[r].row.method = "expert_reviewed"
             => row.method = "expert_reviewed"
        /\ rpc[r] \in {"findings", "decide"} => seen[r].scores = row.scores
        /\ rpc[r] = "decide" => seen[r].criticals = criticals

Alone == ~overlapped => OneAtATime /\ CallHoldsRow /\ ReviewHoldsEvidence

VerdictInv ==
    /\ VerdictTypeOK /\ EvidenceIsWhole /\ CallHoldsOutcome /\ Alone
    /\ CompliantOnlyByReview /\ CertifiedOnEvidence /\ ReportReconciles
    /\ RefusedHasNoScore
    /\ row.status = "completed" /\ ~overlapped => row.scores \in Vectors

TypeInv == VerdictTypeOK /\ CallHoldsOutcome /\ EvidenceIsWhole

\* What the engine may return has the type of an outcome.
LEMMA OutcomeType ==
    ASSUME NEW o \in Outcomes
    PROVE  /\ o.scores \in Vectors /\ o.criticals \in Nat
           /\ o.gaming \in BOOLEAN
BY VerdictAssumption DEF Outcome

\* A verdict is one of the three, and that of a call never "compliant".
LEMMA VerdictType ==
    ASSUME NEW o, NEW flag \in BOOLEAN
    PROVE  VerdictOf(o, flag) \in Verdicts \ {"compliant"}
BY DEF VerdictOf, Verdict, Verdicts

\* assess decides yes or no.
LEMMA FlagType ==
    ASSUME NEW o \in Outcomes
    PROVE  FlagOf(o) \subseteq BOOLEAN
<1>1. o.gaming \in BOOLEAN  BY OutcomeType
<1>2. QED  BY <1>1 DEF FlagOf, Flagged

\* Category scores, written: all there afterwards; exactly the new ones when
\* the session held the row as it is.  Nothing else changes.
LEMMA ScoresWrittenIs ==
    ASSUME row \in Row, NEW l \in Row, NEW s \in Vectors,
           l.scores \in Vectors \cup {Missing},
           l.scores = Missing \/ row.scores \in Vectors
    PROVE  LET v == ScoresWritten(l, s) IN
           /\ v \in Row /\ v.scores \in Vectors
           /\ v.status = row.status /\ v.overall = row.overall
           /\ v.band = row.band /\ v.guardrail = row.guardrail
           /\ v.compliance = row.compliance /\ v.method = row.method
           /\ l.scores = row.scores => v.scores = s
<1> DEFINE new == [c \in Categories |-> WrittenScore(l.scores[c], s[c], row.scores[c])]
<1>1. new \in Vectors
  <2>1. ASSUME NEW c \in Categories
        PROVE  WrittenScore(l.scores[c], s[c], row.scores[c]) \in Tenths
    <3>1. s[c] \in Tenths  BY DEF Vectors
    <3>2. CASE l.scores = Missing
      BY <3>1, <3>2 DEF WrittenScore, Missing
    <3>3. CASE row.scores \in Vectors
      BY <3>1, <3>3 DEF WrittenScore, Vectors
    <3>4. QED  BY <3>2, <3>3
  <2> HIDE DEF Tenths
  <2>2. new \in [Categories -> Tenths]  BY <2>1, Zenon
  <2>3. QED  BY <2>2 DEF Vectors
<1>2. l.scores = row.scores => new = s
  BY DEF WrittenScore, Vectors
<1>3. Vectors \subseteq [Categories -> Scores]
  BY DEF Vectors, Scores
<1>4. ScoresWritten(l, s) = [row EXCEPT !.scores = new]
  BY DEF ScoresWritten
<1> HIDE DEF new
<1>5. QED  BY <1>1, <1>2, <1>3, <1>4 DEF Row

\* Integrity block and verdict, written.
LEMMA VerdictWrittenIs ==
    ASSUME row \in Row, NEW l \in Row, NEW r \in Row, NEW verdict \in Verdicts,
           NEW flag \in BOOLEAN, NEW block \in BOOLEAN
    PROVE  LET v == VerdictWritten(l, r, verdict, flag, block) IN
           /\ v \in Row
           /\ v.status = r.status /\ v.scores = r.scores
           /\ v.compliance \in {verdict, row.compliance}
           /\ l = row => v.compliance = verdict
<1> DEFINE f == IF block THEN flag ELSE Written(l.flagged, flag, row.flagged)
           c == Written(l.compliance, verdict, row.compliance)
           m == Written(l.method, "automated", row.method)
<1>1. f \in BOOLEAN /\ c \in Verdicts \cup {"none", "not_assessed"} /\ m \in Methods
  BY DEF Written, Row, Methods
<1>2. c \in {verdict, row.compliance} /\ (l = row => c = verdict)
  BY DEF Written
<1>3. VerdictWritten(l, r, verdict, flag, block)
        = [r EXCEPT !.flagged = f, !.compliance = c, !.method = m]
  BY DEF VerdictWritten
<1> HIDE DEF f, c, m
<1>4. QED  BY <1>1, <1>2, <1>3 DEF Row

\* Score, band and guard-rail, written.
LEMMA ResultWrittenIs ==
    ASSUME row \in Row, NEW l \in Row, NEW r \in Row, NEW s \in Vectors
    PROVE  LET v == ResultWritten(l, s, r) IN
           /\ v \in Row
           /\ v.status = r.status /\ v.scores = r.scores
           /\ v.compliance = r.compliance /\ v.method = r.method
           /\ l = row => /\ v.overall = Overall(s) /\ v.band = BandOf(s)
                         /\ v.guardrail = GuardrailActive(s)
<1> DEFINE n == WrittenScore(l.overall, Overall(s), row.overall)
           b == Written(l.band, BandOf(s), row.band)
           g == Written(l.guardrail, GuardrailActive(s), row.guardrail)
<1>1. Overall(s) \in Tenths /\ BandOf(s) \in Bands /\ GuardrailActive(s) \in BOOLEAN
  <2>1. \A c \in Categories : s[c] <= s[c]  BY VectorParts
  <2>2. BandOf(s) \in Bands  BY <2>1, BandMonotone
  <2>3. QED  BY <2>2, OverallIsAScore DEF GuardrailActive
<1>2. n \in Scores /\ b \in Bands \cup {"none"} /\ g \in BOOLEAN
  BY <1>1 DEF Written, WrittenScore, Row, Scores
<1>3. l = row => n = Overall(s) /\ b = BandOf(s) /\ g = GuardrailActive(s)
  BY DEF Written, WrittenScore
<1>4. ResultWritten(l, s, r)
        = [r EXCEPT !.overall = n, !.band = b, !.guardrail = g]
  BY DEF ResultWritten
<1> HIDE DEF n, b, g
<1>5. QED  BY <1>2, <1>3, <1>4 DEF Row

\* The status, written.
LEMMA StatusWrittenIs ==
    ASSUME row \in Row, NEW l \in Row, NEW r \in Row, NEW s \in Status
    PROVE  LET v == StatusWritten(l, s, r) IN
           /\ v \in Row
           /\ v.status \in {s, row.status}
           /\ l.status = row.status => v.status = s
           /\ v.scores = r.scores /\ v.overall = r.overall /\ v.band = r.band
           /\ v.guardrail = r.guardrail
           /\ v.compliance = r.compliance /\ v.method = r.method
<1> DEFINE t == Written(l.status, s, row.status)
<1>1. t \in Status /\ t \in {s, row.status} /\ (l.status = row.status => t = s)
  BY DEF Written, Row
<1>2. StatusWritten(l, s, r) = [r EXCEPT !.status = t]
  BY DEF StatusWritten
<1> HIDE DEF t
<1>3. QED  BY <1>1, <1>2 DEF Row

\* What a completing call leaves, put together from the lemmas above.
LEMMA CompletedRow ==
    ASSUME row \in Row, NEW l \in Row, NEW o \in Outcomes,
           l.scores \in Vectors \cup {Missing},
           l.scores = Missing \/ row.scores \in Vectors,
           NEW flag \in BOOLEAN, NEW block \in BOOLEAN
    PROVE  LET new == Completed(l, o, flag, block) IN
           /\ new \in Row /\ new.scores \in Vectors
           /\ new.status \in {"completed", row.status}
           /\ new.compliance \in (Verdicts \ {"compliant"}) \cup {row.compliance}
           /\ l = row => /\ new.status = "completed" /\ new.compliance # "compliant"
                         /\ Reconciled(new)
<1> DEFINE s   == o.scores
           r0  == ScoresWritten(l, s)
           v   == VerdictOf(o, flag)
           r1  == VerdictWritten(l, r0, v, flag, block)
           r2  == ResultWritten(l, s, r1)
           new == StatusWritten(l, "completed", r2)
<1>1. s \in Vectors  BY OutcomeType
<1>2. v \in Verdicts /\ v # "compliant"  BY VerdictType
<1> HIDE DEF s, v
<1>3. /\ r0 \in Row /\ r0.scores \in Vectors
      /\ l.scores = row.scores => r0.scores = s
  BY <1>1, ScoresWrittenIs
<1> HIDE DEF r0
<1>4. /\ r1 \in Row /\ r1.scores = r0.scores
      /\ r1.compliance \in {v, row.compliance} /\ (l = row => r1.compliance = v)
  BY <1>2, <1>3, VerdictWrittenIs
<1> HIDE DEF r1
<1>5. /\ r2 \in Row /\ r2.scores = r1.scores /\ r2.compliance = r1.compliance
      /\ l = row => /\ r2.overall = Overall(s) /\ r2.band = BandOf(s)
                    /\ r2.guardrail = GuardrailActive(s)
  BY <1>1, <1>4, ResultWrittenIs
<1> HIDE DEF r2
<1>6. /\ new \in Row /\ new.status \in {"completed", row.status}
      /\ l.status = row.status => new.status = "completed"
      /\ new.scores = r2.scores /\ new.overall = r2.overall /\ new.band = r2.band
      /\ new.guardrail = r2.guardrail /\ new.compliance = r2.compliance
  <2>1. "completed" \in Status  BY DEF Status
  <2>2. QED  BY <1>5, <2>1, StatusWrittenIs
<1>7. Completed(l, o, flag, block) = new
  BY DEF Completed, new, r2, r1, r0, v, s
<1> HIDE DEF new
<1>8. l = row => Reconciled(new)
  BY <1>3, <1>4, <1>5, <1>6 DEF Reconciled
<1>9. QED  BY <1>2, <1>3, <1>4, <1>5, <1>6, <1>7, <1>8

\* What a call that fails while scoring leaves.
LEMMA FailedRow ==
    ASSUME TypeInv, NEW w \in Workers, FailScoring(w)
    PROVE  /\ row' \in Row /\ row'.scores \in Vectors
           /\ row'.status \in {"failed", row.status}
           /\ loaded[w] = row => row'.status = "failed"
           /\ row'.compliance \in (Verdicts \ {"compliant"}) \cup {row.compliance}
           /\ criticals' \in Nat
<1> DEFINE l  == loaded[w]
           o  == got[w]
           r0 == ScoresWritten(l, o.scores)
           r  == StatusWritten(l, "failed", r0)
<1>1. row \in Row /\ l \in Row /\ o \in Outcomes /\ criticals \in Nat
  BY DEF TypeInv, VerdictTypeOK, CallHoldsOutcome, FailScoring
<1>2. o.scores \in Vectors /\ o.criticals \in Nat
  BY <1>1, OutcomeType
<1>3. /\ l.scores \in Vectors \cup {Missing}
      /\ l.scores = Missing \/ row.scores \in Vectors
  BY DEF TypeInv, EvidenceIsWhole
<1>4. \/ row' = r /\ \E n \in 0..o.criticals : criticals' = criticals + n
      \/ /\ \E flag \in FlagOf(o), block \in BOOLEAN :
              row' = VerdictWritten(l, r, VerdictOf(o, flag), flag, block)
         /\ criticals' = criticals + o.criticals
  BY DEF FailScoring
<1> SUFFICES /\ row' \in Row /\ row'.scores \in Vectors
             /\ row'.status \in {"failed", row.status}
             /\ l = row => row'.status = "failed"
             /\ row'.compliance \in (Verdicts \ {"compliant"}) \cup {row.compliance}
             /\ criticals' \in Nat
  OBVIOUS
<1>5. criticals' \in Nat
  <2> HIDE DEF l, r0, r
  <2>1. QED  BY <1>1, <1>2, <1>4
<1> HIDE DEF l, o
<1>6. r0 \in Row /\ r0.scores \in Vectors /\ r0.compliance = row.compliance
  BY <1>1, <1>2, <1>3, ScoresWrittenIs
<1> HIDE DEF r0
<1>7. /\ r \in Row /\ r.scores \in Vectors /\ r.compliance = row.compliance
      /\ r.status \in {"failed", row.status}
      /\ l.status = row.status => r.status = "failed"
  <2>1. "failed" \in Status  BY DEF Status
  <2>2. QED  BY <1>1, <1>6, <2>1, StatusWrittenIs
<1> HIDE DEF r
<1>8. CASE row' = r
  BY <1>5, <1>7, <1>8
<1>9. CASE \E flag \in FlagOf(o), block \in BOOLEAN :
             row' = VerdictWritten(l, r, VerdictOf(o, flag), flag, block)
  <2>1. PICK flag \in FlagOf(o), block \in BOOLEAN :
               row' = VerdictWritten(l, r, VerdictOf(o, flag), flag, block)
    BY <1>9
  <2>2. flag \in BOOLEAN  BY <1>1, FlagType
  <2> DEFINE v == VerdictOf(o, flag)
  <2>3. v \in Verdicts /\ v # "compliant"  BY <2>2, VerdictType
  <2> DEFINE x == VerdictWritten(l, r, v, flag, block)
  <2>4. row' = x  BY <2>1 DEF v
  <2> HIDE DEF v
  <2>5. /\ x \in Row /\ x.status = r.status /\ x.scores = r.scores
        /\ x.compliance \in {v, row.compliance}
    BY <1>1, <1>7, <2>2, <2>3, VerdictWrittenIs
  <2> HIDE DEF x
  <2>6. QED  BY <1>5, <1>7, <2>3, <2>4, <2>5
<1>10. QED  BY <1>4, <1>8, <1>9

-------------------------------------------------------------------------------
(***************************************************************************)
(* Types                                                                   *)
(***************************************************************************)

\* The row a request inserts, and what a session holds before it loads one.
LEMMA NewRowType ==
    /\ NewRow \in Row /\ NewRow.scores = Missing
    /\ Unread \in [row : Row, scores : [Categories -> Scores], criticals : Nat]
<1>1. Missing \in [Categories -> Scores]  BY DEF Missing, Scores
<1> HIDE DEF Missing
<1>2. NewRow \in Row /\ NewRow.scores = Missing
  BY <1>1 DEF NewRow, Row, Status, Methods, Scores
<1>3. Unread = [row |-> NewRow, scores |-> Missing, criticals |-> 0]
  BY DEF Unread
<1> HIDE DEF NewRow
<1>4. QED  BY <1>1, <1>2, <1>3

\* A step that keeps or completes the category scores, and loads at most the
\* row as it is, keeps the evidence whole.
LEMMA EvidenceStays ==
    ASSUME TypeInv,
           row'.scores = row.scores \/ row'.scores \in Vectors,
           \A w \in Workers : loaded'[w].scores \in {Missing, loaded[w].scores, row.scores}
    PROVE  EvidenceIsWhole'
BY DEF TypeInv, EvidenceIsWhole

\* The step of a call that forgets the row it had loaded.
LEMMA Forgotten ==
    ASSUME TypeInv, NEW w \in Workers, Forget(w)
    PROVE  /\ loaded' \in [Workers -> Row]
           /\ \A v \in Workers : loaded'[v].scores \in {Missing, loaded[v].scores, row.scores}
<1>1. loaded \in [Workers -> Row]  BY DEF TypeInv, VerdictTypeOK
<1>2. NewRow \in Row /\ NewRow.scores = Missing  BY NewRowType
<1>3. loaded' = [loaded EXCEPT ![w] = NewRow]  BY DEF Forget
<1> HIDE DEF NewRow
<1>4. QED  BY <1>1, <1>2, <1>3

\* The step of a call that goes on with the outcome it has.
LEMMA GoesOn ==
    ASSUME TypeInv, NEW w \in Workers, NEW from, NEW to \in Stages, Goes(w, from, to),
           UNCHANGED got,
           to \in {"analyzed", "gate", "begun", "score"} => got[w] \in Outcomes
    PROVE  stage' \in [Workers -> Stages] /\ CallHoldsOutcome'
<1>1. /\ stage \in [Workers -> Stages]
      /\ stage' = [stage EXCEPT ![w] = to]
      /\ CallHoldsOutcome
  BY DEF TypeInv, VerdictTypeOK, Goes
<1>2. \A v \in Workers : stage'[v] = IF v = w THEN to ELSE stage[v]
  BY <1>1
<1>3. QED  BY <1>1, <1>2 DEF CallHoldsOutcome

\* The last step of a call.
LEMMA LeavesClean ==
    ASSUME TypeInv, NEW w \in Workers, Leave(w)
    PROVE  /\ stage' \in [Workers -> Stages] /\ CallHoldsOutcome'
           /\ got' \in [Workers -> Outcomes \cup {Nothing}]
           /\ stage' = [stage EXCEPT ![w] = "out"]
           /\ Forget(w)
<1>1. /\ stage \in [Workers -> Stages]
      /\ got \in [Workers -> Outcomes \cup {Nothing}]
      /\ stage' = [stage EXCEPT ![w] = "out"]
      /\ got' = [got EXCEPT ![w] = Nothing]
      /\ CallHoldsOutcome /\ Forget(w)
  BY DEF TypeInv, VerdictTypeOK, Leave
<1> HIDE DEF Nothing
<1>2. \A v \in Workers : /\ stage'[v] = IF v = w THEN "out" ELSE stage[v]
                         /\ v # w => got'[v] = got[v]
  BY <1>1
<1>3. CallHoldsOutcome'  BY <1>1, <1>2 DEF CallHoldsOutcome
<1>4. "out" \in Stages  BY DEF Stages
<1>5. QED  BY <1>1, <1>3, <1>4

\* Whatever a call does to the row, it stays one, and the evidence with it.
LEMMA RowSteps ==
    ASSUME TypeInv, NEW w \in Workers, CallStep(w)
    PROVE  /\ row' \in Row /\ criticals' \in Nat
           /\ row'.scores = row.scores \/ row'.scores \in Vectors
           /\ row'.compliance = "compliant" => row.compliance = "compliant"
<1> DEFINE l == loaded[w]
<1>1. /\ row \in Row /\ criticals \in Nat /\ l \in Row
      /\ l.scores \in Vectors \cup {Missing}
      /\ l.scores = Missing \/ row.scores \in Vectors
  BY DEF TypeInv, VerdictTypeOK, EvidenceIsWhole
<1> DEFINE Kept(r) == /\ r \in Row /\ r.scores = row.scores
                      /\ r.compliance = row.compliance
<1>2. ASSUME NEW s \in Status PROVE Kept([row EXCEPT !.status = s])
  BY <1>1 DEF Row
<1>3. ASSUME NEW s \in Status, NEW k \in Row PROVE Kept(StatusWritten(k, s, row))
  BY <1>1, StatusWrittenIs
<1> SUFFICES ASSUME ~ (Kept(row') /\ criticals' = criticals)
             PROVE  /\ row' \in Row /\ criticals' \in Nat
                    /\ row'.scores = row.scores \/ row'.scores \in Vectors
                    /\ row'.compliance = "compliant" => row.compliance = "compliant"
  BY <1>1
<1>4. ASSUME Begin(w) PROVE FALSE
  BY <1>2, <1>4 DEF Begin, Status
<1>5. ASSUME Analyze(w) PROVE FALSE
  BY <1>2, <1>5 DEF Analyze, Status
<1>6. ASSUME Reload(w) \/ Publish(w) \/ Dies(w) PROVE FALSE
  BY <1>1, <1>6 DEF Reload, Publish, Dies
<1>7. ASSUME StartScoring(w) PROVE FALSE
  BY <1>1, <1>3, <1>7 DEF StartScoring, Status
<1>8. ASSUME Fail(w) PROVE FALSE
  BY <1>1, <1>3, <1>8 DEF Fail, Status
<1>9. CASE RefuseScore(w)
  <2> DEFINE r == StatusWritten(l, "insufficient_evidence", row)
             n == Written(l.overall, NoScore, row.overall)
             b == Written(l.band, "none", row.band)
             c == Written(l.compliance, "not_assessed", row.compliance)
             m == Written(l.method, "automated", row.method)
             x == [r EXCEPT !.overall = n, !.band = b, !.compliance = c, !.method = m]
  <2>1. row' = x /\ criticals' = criticals
    BY <1>9 DEF RefuseScore, Refused
  <2>2. r \in Row /\ r.scores = row.scores
    BY <1>1, <1>3 DEF Status
  <2>3. /\ n \in Scores /\ b \in Bands \cup {"none"} /\ m \in Methods
        /\ c \in Verdicts \cup {"none", "not_assessed"}
        /\ c = "compliant" => row.compliance = "compliant"
    BY <1>1 DEF Written, Row, Scores, Methods
  <2> HIDE DEF r, n, b, c, m
  <2>4. /\ x \in Row /\ x.scores = row.scores
        /\ x.compliance = "compliant" => row.compliance = "compliant"
    BY <2>2, <2>3 DEF Row
  <2> HIDE DEF x
  <2>5. QED  BY <1>1, <2>1, <2>4
<1>10. CASE Complete(w)
  <2> DEFINE o == got[w]
  <2>1. o \in Outcomes  BY <1>10 DEF TypeInv, CallHoldsOutcome, Complete, Goes
  <2>2. PICK flag \in FlagOf(o), block \in BOOLEAN : row' = Completed(l, o, flag, block)
    BY <1>10 DEF Complete
  <2>3. criticals' = criticals + o.criticals  BY <1>10 DEF Complete
  <2> HIDE DEF o, l
  <2>4. o.criticals \in Nat /\ flag \in BOOLEAN  BY <2>1, OutcomeType, FlagType
  <2> DEFINE x == Completed(l, o, flag, block)
  <2>5. /\ x \in Row /\ x.scores \in Vectors
        /\ x.compliance \in (Verdicts \ {"compliant"}) \cup {row.compliance}
    BY <1>1, <2>1, <2>4, CompletedRow
  <2>6. criticals' \in Nat  BY <1>1, <2>3, <2>4
  <2>7. row' = x  BY <2>2
  <2> HIDE DEF x
  <2>8. QED  BY <2>5, <2>6, <2>7
<1>11. CASE FailScoring(w)
  BY <1>11, FailedRow
<1>12. QED
  BY <1>4, <1>5, <1>6, <1>7, <1>8, <1>9, <1>10, <1>11 DEF CallStep

\* A call of process keeps the types.
LEMMA CallTypes ==
    ASSUME TypeInv, NEW w \in Workers, CallStep(w)
    PROVE  TypeInv'
<1>1. row' \in Row /\ criticals' \in Nat /\ (row'.scores = row.scores \/ row'.scores \in Vectors)
  BY RowSteps
<1>2. /\ loaded \in [Workers -> Row] /\ got \in [Workers -> Outcomes \cup {Nothing}]
      /\ stage \in [Workers -> Stages] /\ row \in Row
      /\ VerdictTypeOK /\ CallHoldsOutcome
  BY DEF TypeInv, VerdictTypeOK
<1> DEFINE Loads == \A v \in Workers : loaded'[v].scores \in {Missing, loaded[v].scores, row.scores}
<1> SUFFICES /\ stage' \in [Workers -> Stages] /\ CallHoldsOutcome'
             /\ loaded' \in [Workers -> Row] /\ Loads
             /\ got' \in [Workers -> Outcomes \cup {Nothing}]
             /\ calls' \in 0..MaxCalls /\ overlapped' \in BOOLEAN
             /\ UNCHANGED <<reviewVars, reviews, certified>>
  <2>1. ASSUME Loads PROVE EvidenceIsWhole'  BY <1>1, <2>1, EvidenceStays
  <2>2. QED  BY <1>1, <1>2, <2>1 DEF TypeInv, VerdictTypeOK, reviewVars
<1>3. calls \in 0..MaxCalls /\ overlapped \in BOOLEAN
  BY <1>2 DEF VerdictTypeOK
<1>4. UNCHANGED loaded => loaded' \in [Workers -> Row] /\ Loads
  BY <1>2
<1>5. Forget(w) => loaded' \in [Workers -> Row] /\ Loads
  BY Forgotten
<1>6. Leave(w) => /\ stage' \in [Workers -> Stages] /\ CallHoldsOutcome'
                  /\ got' \in [Workers -> Outcomes \cup {Nothing}]
                  /\ loaded' \in [Workers -> Row] /\ Loads
  BY <1>5, LeavesClean
<1>7. CASE Begin(w)
  <2>1. /\ Goes(w, "out", "engine") /\ calls < MaxCalls /\ calls' = calls + 1
        /\ overlapped' = (overlapped \/ Calling \/ Reviewing)
        /\ UNCHANGED <<loaded, got, reviewVars, reviews, certified>>
    BY <1>7 DEF Begin
  <2>2. calls' \in 0..MaxCalls  BY <1>3, <2>1, VerdictAssumption, SMT
  <2>3. overlapped' \in BOOLEAN  BY <1>3, <2>1 DEF Calling, Reviewing
  <2>4. stage' \in [Workers -> Stages] /\ CallHoldsOutcome'
    BY <2>1, GoesOn DEF Stages
  <2>5. QED  BY <1>2, <1>4, <2>1, <2>2, <2>3, <2>4
<1>8. CASE Analyze(w)
  <2>1. PICK o \in Outcomes : got' = [got EXCEPT ![w] = o]
    BY <1>8 DEF Analyze
  <2>2. /\ stage' = [stage EXCEPT ![w] = "analyzed"]
        /\ UNCHANGED <<loaded, reviewVars, calls, reviews, certified, overlapped>>
    BY <1>8 DEF Analyze, Goes
  <2>3. \A v \in Workers : /\ got'[v] = IF v = w THEN o ELSE got[v]
                           /\ v # w => stage'[v] = stage[v]
    BY <1>2, <2>1, <2>2
  <2>4. CallHoldsOutcome'  BY <1>2, <2>3 DEF CallHoldsOutcome
  <2>5. stage' \in [Workers -> Stages]  BY <1>2, <2>2 DEF Stages
  <2> HIDE DEF Nothing
  <2>6. got' \in [Workers -> Outcomes \cup {Nothing}]  BY <1>2, <2>1
  <2>7. QED  BY <1>3, <1>4, <2>2, <2>4, <2>5, <2>6
<1>9. CASE Reload(w)
  <2>1. /\ loaded' = [loaded EXCEPT ![w] = row]
        /\ UNCHANGED <<got, reviewVars, calls, reviews, certified, overlapped>>
    BY <1>9 DEF Reload
  <2>2. loaded' \in [Workers -> Row] /\ Loads  BY <1>2, <2>1
  <2>3. CASE Goes(w, "analyzed", "gate")
    <3>1. got[w] \in Outcomes  BY <1>2, <2>3 DEF CallHoldsOutcome, Goes
    <3>2. stage' \in [Workers -> Stages] /\ CallHoldsOutcome'
      BY <2>1, <2>3, <3>1, GoesOn DEF Stages
    <3>3. QED  BY <1>2, <1>3, <2>1, <2>2, <3>2
  <2>4. CASE Goes(w, "begun", "score")
    <3>1. got[w] \in Outcomes  BY <1>2, <2>4 DEF CallHoldsOutcome, Goes
    <3>2. stage' \in [Workers -> Stages] /\ CallHoldsOutcome'
      BY <2>1, <2>4, <3>1, GoesOn DEF Stages
    <3>3. QED  BY <1>2, <1>3, <2>1, <2>2, <3>2
  <2>5. QED  BY <1>9, <2>3, <2>4 DEF Reload
<1>10. CASE RefuseScore(w)
  <2>1. /\ Goes(w, "gate", "publish") /\ Forget(w)
        /\ UNCHANGED <<got, reviewVars, calls, reviews, certified, overlapped>>
    BY <1>10 DEF RefuseScore
  <2>2. stage' \in [Workers -> Stages] /\ CallHoldsOutcome'
    BY <2>1, GoesOn DEF Stages
  <2>3. QED  BY <1>2, <1>3, <1>5, <2>1, <2>2
<1>11. CASE StartScoring(w)
  <2>1. /\ Goes(w, "gate", "begun") /\ Forget(w)
        /\ UNCHANGED <<got, reviewVars, calls, reviews, certified, overlapped>>
    BY <1>11 DEF StartScoring
  <2>2. got[w] \in Outcomes  BY <1>2, <2>1 DEF CallHoldsOutcome, Goes
  <2>3. stage' \in [Workers -> Stages] /\ CallHoldsOutcome'
    BY <2>1, <2>2, GoesOn DEF Stages
  <2>4. QED  BY <1>2, <1>3, <1>5, <2>1, <2>3
<1>12. CASE Complete(w)
  <2>1. /\ Goes(w, "score", "publish") /\ Forget(w)
        /\ UNCHANGED <<got, reviewVars, calls, reviews, certified, overlapped>>
    BY <1>12 DEF Complete
  <2>2. stage' \in [Workers -> Stages] /\ CallHoldsOutcome'
    BY <2>1, GoesOn DEF Stages
  <2>3. QED  BY <1>2, <1>3, <1>5, <2>1, <2>2
<1>13. CASE Publish(w) \/ Fail(w) \/ FailScoring(w) \/ Dies(w)
  <2>1. /\ Leave(w)
        /\ UNCHANGED <<reviewVars, calls, reviews, certified, overlapped>>
    BY <1>13 DEF Publish, Fail, FailScoring, Dies
  <2>2. QED  BY <1>3, <1>6, <2>1
<1>14. QED
  BY <1>7, <1>8, <1>9, <1>10, <1>11, <1>12, <1>13 DEF CallStep

\* A request of a reviewer keeps the types.
LEMMA ReviewTypes ==
    ASSUME TypeInv, NEW r \in Reviewers, ReviewStep(r)
    PROVE  TypeInv'
<1> DEFINE S == [row : Row, scores : [Categories -> Scores], criticals : Nat]
<1>1. /\ row \in Row /\ criticals \in Nat /\ seen \in [Reviewers -> S]
      /\ rpc \in [Reviewers -> {"idle", "scores", "findings", "decide"}]
      /\ reviews \in 0..MaxReviews /\ certified \in BOOLEAN /\ overlapped \in BOOLEAN
      /\ VerdictTypeOK /\ CallHoldsOutcome /\ EvidenceIsWhole
  BY DEF TypeInv, VerdictTypeOK
<1>2. row.scores \in [Categories -> Scores] /\ seen[r] \in S
  BY <1>1 DEF Row
<1> DEFINE Rest == /\ rpc' \in [Reviewers -> {"idle", "scores", "findings", "decide"}]
                   /\ seen' \in [Reviewers -> S]
                   /\ reviews' \in 0..MaxReviews /\ overlapped' \in BOOLEAN
<1>3. ASSUME UNCHANGED <<criticals, workVars, calls>>, Rest, certified' \in BOOLEAN,
             row' \in Row, row'.scores = row.scores
      PROVE  TypeInv'
  <2> HIDE DEF Nothing
  <2>1. VerdictTypeOK'  BY <1>1, <1>3 DEF VerdictTypeOK, workVars
  <2>2. CallHoldsOutcome'  BY <1>1, <1>3 DEF CallHoldsOutcome, workVars
  <2>3. EvidenceIsWhole'  BY <1>1, <1>3 DEF EvidenceIsWhole, workVars
  <2>4. QED  BY <2>1, <2>2, <2>3 DEF TypeInv
<1>4. CASE ReviewOpen(r)
  <2>1. /\ reviews < MaxReviews /\ reviews' = reviews + 1
        /\ rpc' = [rpc EXCEPT ![r] = "scores"]
        /\ seen' = [seen EXCEPT ![r].row = row]
        /\ overlapped' = (overlapped \/ Calling)
        /\ UNCHANGED <<row, criticals, workVars, calls, certified>>
    BY <1>4 DEF ReviewOpen, Asks
  <2>2. reviews' \in 0..MaxReviews  BY <1>1, <2>1, VerdictAssumption, SMT
  <2>3. overlapped' \in BOOLEAN  BY <1>1, <2>1 DEF Calling
  <2>4. seen' \in [Reviewers -> S]  BY <1>1, <1>2, <2>1
  <2>5. rpc' \in [Reviewers -> {"idle", "scores", "findings", "decide"}]  BY <1>1, <2>1
  <2>6. Rest  BY <2>2, <2>3, <2>4, <2>5
  <2>7. QED  BY <1>1, <1>3, <2>1, <2>6
<1>5. CASE ReadScores(r)
  <2>1. /\ rpc' = [rpc EXCEPT ![r] = "findings"]
        /\ seen' = [seen EXCEPT ![r].scores = row.scores]
        /\ UNCHANGED <<row, criticals, workVars, calls, reviews, certified, overlapped>>
    BY <1>5 DEF ReadScores, Asks
  <2>2. seen' \in [Reviewers -> S]  BY <1>1, <1>2, <2>1
  <2>3. Rest  BY <1>1, <2>1, <2>2
  <2>4. QED  BY <1>1, <1>3, <2>1, <2>3
<1>6. CASE CountCriticals(r)
  <2>1. /\ rpc' = [rpc EXCEPT ![r] = "decide"]
        /\ seen' = [seen EXCEPT ![r].criticals = criticals]
        /\ UNCHANGED <<row, criticals, workVars, calls, reviews, certified, overlapped>>
    BY <1>6 DEF CountCriticals, Asks
  <2>2. seen' \in [Reviewers -> S]  BY <1>1, <1>2, <2>1
  <2>3. Rest  BY <1>1, <2>1, <2>2
  <2>4. QED  BY <1>1, <1>3, <2>1, <2>3
<1>7. ASSUME NEW approved \in BOOLEAN, Decide(r, approved) PROVE TypeInv'
  <2> DEFINE v == ReviewVerdict(r, approved)
             c == Written(seen[r].row.compliance, v, row.compliance)
             m == Written(seen[r].row.method, "expert_reviewed", row.method)
  <2>1. /\ rpc' = [rpc EXCEPT ![r] = "idle"]
        /\ row' = [row EXCEPT !.compliance = c, !.method = m]
        /\ certified' = (certified \/ v = "compliant")
        /\ seen' = [seen EXCEPT ![r] = Unread]
        /\ UNCHANGED <<criticals, workVars, calls, reviews, overlapped>>
    BY <1>7 DEF Decide, Asks
  <2>2. v \in Verdicts  BY DEF ReviewVerdict, Verdict, Verdicts
  <2>3. /\ c \in Verdicts \cup {"none", "not_assessed"} /\ m \in Methods
    BY <1>1, <2>2 DEF Written, Row, Methods
  <2> HIDE DEF v, c, m
  <2>4. row' \in Row /\ row'.scores = row.scores  BY <1>1, <2>1, <2>3 DEF Row
  <2>5. Unread \in S  BY NewRowType
  <2> HIDE DEF Unread, S
  <2>6. seen' \in [Reviewers -> S]  BY <1>1, <2>1, <2>5
  <2>7. rpc' \in [Reviewers -> {"idle", "scores", "findings", "decide"}]  BY <1>1, <2>1
  <2>8. Rest  BY <1>1, <2>1, <2>6, <2>7
  <2>9. certified' \in BOOLEAN  BY <1>1, <2>1
  <2>10. QED  BY <1>3, <2>1, <2>4, <2>8, <2>9
<1>8. QED  BY <1>4, <1>5, <1>6, <1>7 DEF ReviewStep

-------------------------------------------------------------------------------
(***************************************************************************)
(* Safety                                                                  *)
(***************************************************************************)

\* The properties that hold as long as nothing overlapped, and what each step
\* must keep of them.
Certified == row.status = "completed" /\ row.compliance = "compliant" =>
    /\ row.scores["accessibility"] >= 900
    /\ criticals = 0
    /\ row.method = "expert_reviewed"

Sound ==
    /\ OneAtATime /\ CallHoldsRow /\ ReviewHoldsEvidence
    /\ Certified
    /\ row.status = "completed" => Reconciled(row) /\ row.scores \in Vectors
    /\ row.status = "insufficient_evidence" =>
         /\ row.overall = NoScore /\ row.band = "none"
         /\ row.compliance = "not_assessed"

\* The invariant, in the parts the proof goes by.
LEMMA VerdictInvParts ==
    VerdictInv <=> TypeInv /\ CompliantOnlyByReview /\ (~overlapped => Sound)
BY DEF VerdictInv, TypeInv, Alone, Sound, Certified, CertifiedOnEvidence,
       ReportReconciles, RefusedHasNoScore

\* Nothing is running besides the call of w.
OnlyCall(w) ==
    /\ \A v \in Workers : v # w => stage[v] = "out"
    /\ \A r \in Reviewers : rpc[r] = "idle"

\* A call that runs, or begins, without an overlap is alone.
LEMMA CallIsAlone ==
    ASSUME NEW w \in Workers, CallStep(w), ~overlapped', ~overlapped => OneAtATime
    PROVE  ~overlapped /\ OnlyCall(w)
<1>1. CASE Begin(w)
  BY <1>1 DEF Begin, Calling, Reviewing, OnlyCall
<1>2. CASE ~Begin(w)
  <2>1. UNCHANGED overlapped
    BY <1>2 DEF CallStep, Analyze, Reload, RefuseScore, StartScoring, Complete,
                Publish, Fail, FailScoring, Dies
  <2>2. stage[w] # "out"
    BY <1>2 DEF CallStep, Analyze, Reload, RefuseScore, StartScoring, Complete,
                Publish, Fail, FailScoring, Dies, Goes
  <2>3. QED  BY <2>1, <2>2 DEF OneAtATime, OnlyCall
<1>3. QED  BY <1>1, <1>2

\* What is left to show of a step of a call that is alone.
LEMMA AloneStays ==
    ASSUME TypeInv, NEW w \in Workers, OnlyCall(w), NEW to \in Stages,
           stage' = [stage EXCEPT ![w] = to], UNCHANGED rpc,
           to \in {"gate", "score"} => loaded'[w] = row',
           to \in {"engine", "analyzed", "gate", "begun", "score"} =>
               row'.status \notin {"completed", "insufficient_evidence"}
    PROVE  OneAtATime' /\ CallHoldsRow' /\ ReviewHoldsEvidence'
<1>1. stage \in [Workers -> Stages]  BY DEF TypeInv, VerdictTypeOK
<1>2. \A v \in Workers : stage'[v] = IF v = w THEN to ELSE "out"
  BY <1>1 DEF OnlyCall
<1>3. \A r \in Reviewers : rpc'[r] = "idle"
  BY DEF OnlyCall
<1>4. OneAtATime'  BY <1>2, <1>3 DEF OneAtATime
<1>5. CallHoldsRow'  BY <1>2 DEF CallHoldsRow, Running
<1>6. ReviewHoldsEvidence'  BY <1>3 DEF ReviewHoldsEvidence
<1>7. QED  BY <1>4, <1>5, <1>6

\* The evidence gate on a row the session holds as it is.
LEMMA RefusedRow ==
    ASSUME row \in Row
    PROVE  LET v == Refused(row) IN
           /\ v.status = "insufficient_evidence"
           /\ v.overall = NoScore /\ v.band = "none" /\ v.compliance = "not_assessed"
<1> DEFINE r == StatusWritten(row, "insufficient_evidence", row)
           n == Written(row.overall, NoScore, row.overall)
           b == Written(row.band, "none", row.band)
           c == Written(row.compliance, "not_assessed", row.compliance)
           m == Written(row.method, "automated", row.method)
<1>1. r \in Row /\ r.status = "insufficient_evidence"
  BY StatusWrittenIs DEF Status
<1>2. n = NoScore /\ b = "none" /\ c = "not_assessed"
  BY DEF Written
<1>3. Refused(row) = [r EXCEPT !.overall = n, !.band = b, !.compliance = c, !.method = m]
  BY DEF Refused
<1> HIDE DEF r, n, b, c, m
<1>4. QED  BY <1>1, <1>2, <1>3 DEF Row

\* A call of process that is alone leaves the row sound.
LEMMA CallSound ==
    ASSUME TypeInv, NEW w \in Workers, CallStep(w), ~overlapped',
           ~overlapped => Sound
    PROVE  Sound'
<1>1. Sound /\ OnlyCall(w)
  BY CallIsAlone DEF Sound
<1>2. /\ row \in Row /\ loaded \in [Workers -> Row] /\ stage \in [Workers -> Stages]
      /\ loaded[w].scores \in Vectors \cup {Missing}
      /\ loaded[w].scores = Missing \/ row.scores \in Vectors
  BY DEF TypeInv, VerdictTypeOK, EvidenceIsWhole
<1>3. stage[w] \in {"gate", "score"} => loaded[w] = row
  BY <1>1 DEF Sound, CallHoldsRow
<1>4. stage[w] \in {"engine", "analyzed", "gate", "begun", "score"} =>
          row.status \notin {"completed", "insufficient_evidence"}
  BY <1>1 DEF Sound, CallHoldsRow, Running
<1>5. CASE Begin(w)
  <2>1. /\ stage' = [stage EXCEPT ![w] = "engine"] /\ UNCHANGED rpc
        /\ row' = [row EXCEPT !.status = "crawling"]
    BY <1>5 DEF Begin, Goes, reviewVars
  <2>2. row'.status = "crawling"  BY <1>2, <2>1 DEF Row
  <2>3. OneAtATime' /\ CallHoldsRow' /\ ReviewHoldsEvidence'
    BY <1>1, <2>1, <2>2, AloneStays DEF Stages
  <2>4. QED  BY <2>2, <2>3 DEF Sound, Certified
<1>6. CASE Analyze(w)
  <2>1. /\ stage' = [stage EXCEPT ![w] = "analyzed"] /\ UNCHANGED rpc
        /\ row' = [row EXCEPT !.status = "analyzing"]
    BY <1>6 DEF Analyze, Goes, reviewVars
  <2>2. row'.status = "analyzing"  BY <1>2, <2>1 DEF Row
  <2>3. OneAtATime' /\ CallHoldsRow' /\ ReviewHoldsEvidence'
    BY <1>1, <2>1, <2>2, AloneStays DEF Stages
  <2>4. QED  BY <2>2, <2>3 DEF Sound, Certified
<1>7. CASE Reload(w)
  <2>1. loaded' = [loaded EXCEPT ![w] = row] /\ UNCHANGED <<row, criticals, rpc>>
    BY <1>7 DEF Reload, reviewVars
  <2>2. loaded'[w] = row'  BY <1>2, <2>1
  <2>3. row'.status \notin {"completed", "insufficient_evidence"}
    BY <1>4, <1>7, <2>1 DEF Reload, Goes
  <2>4. PICK to \in {"gate", "score"} : stage' = [stage EXCEPT ![w] = to]
    BY <1>7 DEF Reload, Goes
  <2>5. OneAtATime' /\ CallHoldsRow' /\ ReviewHoldsEvidence'
    BY <1>1, <2>1, <2>2, <2>3, <2>4, AloneStays DEF Stages
  <2>6. QED  BY <2>3, <2>5 DEF Sound, Certified
<1>8. CASE RefuseScore(w)
  <2>1. /\ stage[w] = "gate" /\ stage' = [stage EXCEPT ![w] = "publish"]
        /\ UNCHANGED rpc /\ row' = Refused(loaded[w])
    BY <1>8 DEF RefuseScore, Goes, reviewVars
  <2>2. row' = Refused(row)  BY <1>3, <2>1
  <2>3. /\ row'.status = "insufficient_evidence"
        /\ row'.overall = NoScore /\ row'.band = "none" /\ row'.compliance = "not_assessed"
    BY <1>2, <2>2, RefusedRow
  <2>4. OneAtATime' /\ CallHoldsRow' /\ ReviewHoldsEvidence'
    BY <1>1, <2>1, AloneStays DEF Stages
  <2>5. QED  BY <2>3, <2>4 DEF Sound, Certified
<1>9. CASE StartScoring(w)
  <2>1. /\ stage[w] = "gate" /\ stage' = [stage EXCEPT ![w] = "begun"]
        /\ UNCHANGED rpc /\ row' = StatusWritten(loaded[w], "scoring", row)
    BY <1>9 DEF StartScoring, Goes, reviewVars
  <2>2. row'.status = "scoring"
    BY <1>2, <1>3, <2>1, StatusWrittenIs DEF Status
  <2>3. OneAtATime' /\ CallHoldsRow' /\ ReviewHoldsEvidence'
    BY <1>1, <2>1, <2>2, AloneStays DEF Stages
  <2>4. QED  BY <2>2, <2>3 DEF Sound, Certified
<1>10. CASE Complete(w)
  <2> DEFINE o == got[w]
  <2>1. /\ stage[w] = "score" /\ stage' = [stage EXCEPT ![w] = "publish"]
        /\ UNCHANGED rpc
    BY <1>10 DEF Complete, Goes, reviewVars
  <2>2. PICK flag \in FlagOf(o), block \in BOOLEAN : row' = Completed(loaded[w], o, flag, block)
    BY <1>10 DEF Complete
  <2>3. o \in Outcomes  BY <2>1 DEF TypeInv, CallHoldsOutcome
  <2> HIDE DEF o
  <2>4. flag \in BOOLEAN  BY <2>3, FlagType
  <2> DEFINE x == Completed(row, o, flag, block)
  <2>5. row' = x  BY <1>3, <2>1, <2>2
  <2>6. row.scores \in Vectors \cup {Missing} /\ (row.scores = Missing \/ row.scores \in Vectors)
    BY <1>2, <1>3, <2>1
  <2>7. /\ x.scores \in Vectors /\ x.status = "completed"
        /\ x.compliance # "compliant" /\ Reconciled(x)
    BY <1>2, <2>3, <2>4, <2>6, CompletedRow
  <2> HIDE DEF x
  <2>8. OneAtATime' /\ CallHoldsRow' /\ ReviewHoldsEvidence'
    BY <1>1, <2>1, AloneStays DEF Stages
  <2>9. QED  BY <2>5, <2>7, <2>8 DEF Sound, Certified, Reconciled
<1>11. CASE Publish(w) \/ Dies(w)
  <2>1. /\ stage' = [stage EXCEPT ![w] = "out"] /\ UNCHANGED <<rpc, row, criticals>>
    BY <1>11, LeavesClean DEF Publish, Dies, reviewVars
  <2>2. OneAtATime' /\ CallHoldsRow' /\ ReviewHoldsEvidence'
    BY <1>1, <2>1, AloneStays DEF Stages
  <2>3. QED  BY <1>1, <2>1, <2>2 DEF Sound, Certified, Reconciled
<1>12. CASE Fail(w) \/ FailScoring(w)
  <2>1. stage' = [stage EXCEPT ![w] = "out"] /\ UNCHANGED rpc
    BY <1>12, LeavesClean DEF Fail, FailScoring, reviewVars
  <2>2. row'.status = "failed"
    <3>1. CASE Fail(w)
      <4>1. row' = StatusWritten(row, "failed", row)
        BY <1>3, <3>1 DEF Fail
      <4>2. QED  BY <1>2, <4>1, StatusWrittenIs DEF Status
    <3>2. CASE FailScoring(w)
      <4>1. loaded[w] = row  BY <1>3, <3>2 DEF FailScoring
      <4>2. QED  BY <3>2, <4>1, FailedRow
    <3>3. QED  BY <1>12, <3>1, <3>2
  <2>3. OneAtATime' /\ CallHoldsRow' /\ ReviewHoldsEvidence'
    BY <1>1, <2>1, AloneStays DEF Stages
  <2>4. QED  BY <2>2, <2>3 DEF Sound, Certified
<1>13. QED
  BY <1>5, <1>6, <1>7, <1>8, <1>9, <1>10, <1>11, <1>12 DEF CallStep

\* Without a call, one step of a review keeps calls and reviews apart.
LEMMA ReviewIsAlone ==
    ASSUME NEW r \in Reviewers, ReviewStep(r), ~overlapped', ~overlapped => OneAtATime
    PROVE  /\ ~overlapped /\ \A w \in Workers : stage[w] = "out"
           /\ OneAtATime' /\ CallHoldsRow'
<1>1. ~overlapped /\ \A w \in Workers : stage[w] = "out"
  <2>1. CASE ReviewOpen(r)
    BY <2>1 DEF ReviewOpen, Calling
  <2>2. CASE ~ReviewOpen(r)
    <3>1. UNCHANGED overlapped /\ rpc[r] # "idle"
      BY <2>2 DEF ReviewStep, ReadScores, CountCriticals, Decide, Asks
    <3>2. QED  BY <3>1 DEF OneAtATime
  <2>3. QED  BY <2>1, <2>2
<1>2. UNCHANGED stage
  BY DEF ReviewStep, ReviewOpen, ReadScores, CountCriticals, Decide, workVars
<1>3. \A w \in Workers : stage'[w] = "out"  BY <1>1, <1>2
<1>4. OneAtATime'  BY <1>3 DEF OneAtATime
<1>5. CallHoldsRow'  BY <1>3 DEF CallHoldsRow, Running
<1>6. QED  BY <1>1, <1>4, <1>5

\* A verdict "compliant" of a review, on what it has read.
LEMMA ReviewedCompliant ==
    ASSUME TypeInv, NEW r \in Reviewers, NEW approved \in BOOLEAN,
           ReviewVerdict(r, approved) = "compliant"
    PROVE  seen[r].scores["accessibility"] >= 900 /\ seen[r].criticals = 0
<1> DEFINE a == seen[r].scores["accessibility"]
           n == seen[r].criticals
<1>1. n \in Nat /\ a \in Scores
  BY DEF TypeInv, VerdictTypeOK, Categories
<1>2. Verdict(a, n, TRUE, FALSE) = "compliant"
  BY DEF ReviewVerdict
<1> HIDE DEF a, n
<1>3. ~ (n > 0) /\ ~ (a < 900)
  BY <1>2 DEF Verdict, Blocked
<1>4. a \in Int  BY <1>1 DEF Scores
<1>5. a >= 900 /\ n = 0  BY <1>1, <1>3, <1>4
<1>6. QED  BY <1>5 DEF a, n

\* A review leaves the row sound.
LEMMA ReviewSound ==
    ASSUME TypeInv, NEW r \in Reviewers, ReviewStep(r), ~overlapped',
           ~overlapped => Sound
    PROVE  Sound'
<1>1. Sound /\ OneAtATime' /\ CallHoldsRow'
  BY ReviewIsAlone DEF Sound
<1>2. /\ row \in Row /\ rpc \in [Reviewers -> {"idle", "scores", "findings", "decide"}]
      /\ seen \in [Reviewers -> [row : Row, scores : [Categories -> Scores], criticals : Nat]]
  BY DEF TypeInv, VerdictTypeOK
<1>3. ReviewHoldsEvidence  BY <1>1 DEF Sound
<1>4. ASSUME UNCHANGED <<row, criticals>>, ReviewHoldsEvidence' PROVE Sound'
  BY <1>1, <1>4 DEF Sound, Certified, Reconciled
<1>5. CASE ReviewOpen(r)
  <2>1. /\ rpc' = [rpc EXCEPT ![r] = "scores"] /\ row.status = "completed"
        /\ seen' = [seen EXCEPT ![r].row = row]
        /\ UNCHANGED <<row, criticals>>
    BY <1>5 DEF ReviewOpen, Asks
  <2>2. \A q \in Reviewers :
          /\ rpc'[q] = IF q = r THEN "scores" ELSE rpc[q]
          /\ q # r => seen'[q] = seen[q]
    BY <1>2, <2>1
  <2>3. seen'[r].row = row  BY <1>2, <2>1
  <2>4. ReviewHoldsEvidence'  BY <1>3, <2>1, <2>2, <2>3 DEF ReviewHoldsEvidence
  <2>5. QED  BY <1>4, <2>1, <2>4
<1>6. CASE ReadScores(r)
  <2>1. /\ rpc[r] = "scores" /\ rpc' = [rpc EXCEPT ![r] = "findings"]
        /\ seen' = [seen EXCEPT ![r].scores = row.scores]
        /\ UNCHANGED <<row, criticals>>
    BY <1>6 DEF ReadScores, Asks
  <2>2. \A q \in Reviewers :
          /\ rpc'[q] = IF q = r THEN "findings" ELSE rpc[q]
          /\ q # r => seen'[q] = seen[q]
    BY <1>2, <2>1
  <2>3. seen'[r].row = seen[r].row /\ seen'[r].scores = row.scores  BY <1>2, <2>1
  <2>4. ReviewHoldsEvidence'  BY <1>3, <2>1, <2>2, <2>3 DEF ReviewHoldsEvidence
  <2>5. QED  BY <1>4, <2>1, <2>4
<1>7. CASE CountCriticals(r)
  <2>1. /\ rpc[r] = "findings" /\ rpc' = [rpc EXCEPT ![r] = "decide"]
        /\ seen' = [seen EXCEPT ![r].criticals = criticals]
        /\ UNCHANGED <<row, criticals>>
    BY <1>7 DEF CountCriticals, Asks
  <2>2. \A q \in Reviewers :
          /\ rpc'[q] = IF q = r THEN "decide" ELSE rpc[q]
          /\ q # r => seen'[q] = seen[q]
    BY <1>2, <2>1
  <2>3. /\ seen'[r].row = seen[r].row /\ seen'[r].scores = seen[r].scores
        /\ seen'[r].criticals = criticals
    BY <1>2, <2>1
  <2>4. ReviewHoldsEvidence'  BY <1>3, <2>1, <2>2, <2>3 DEF ReviewHoldsEvidence
  <2>5. QED  BY <1>4, <2>1, <2>4
<1>8. ASSUME NEW approved \in BOOLEAN, Decide(r, approved) PROVE Sound'
  <2> DEFINE v == ReviewVerdict(r, approved)
             c == Written(seen[r].row.compliance, v, row.compliance)
             m == Written(seen[r].row.method, "expert_reviewed", row.method)
  <2>1. /\ rpc[r] = "decide" /\ rpc' = [rpc EXCEPT ![r] = "idle"]
        /\ seen' = [seen EXCEPT ![r] = Unread]
        /\ row' = [row EXCEPT !.compliance = c, !.method = m]
        /\ UNCHANGED criticals
    BY <1>8 DEF Decide, Asks
  <2>2. m = "expert_reviewed"
    BY <1>3, <2>1 DEF ReviewHoldsEvidence, Written
  <2>3. c \in {v, row.compliance}  BY DEF Written
  <2>4. v = "compliant" => row.scores["accessibility"] >= 900 /\ criticals = 0
    BY <1>3, <2>1, ReviewedCompliant DEF ReviewHoldsEvidence
  <2>5. row.status = "completed"
    BY <1>3, <2>1 DEF ReviewHoldsEvidence
  <2> HIDE DEF v, c, m, Unread
  <2>6. /\ row'.status = "completed" /\ row'.scores = row.scores
        /\ row'.overall = row.overall /\ row'.band = row.band
        /\ row'.guardrail = row.guardrail
        /\ row'.compliance = c /\ row'.method = "expert_reviewed"
    BY <1>2, <2>1, <2>2, <2>5 DEF Row
  <2>7. Certified'  BY <1>1, <2>1, <2>3, <2>4, <2>5, <2>6 DEF Sound, Certified
  <2>8. \A q \in Reviewers :
          /\ rpc'[q] = IF q = r THEN "idle" ELSE rpc[q]
          /\ q # r => seen'[q] = seen[q]
    BY <1>2, <2>1
  <2>9. ReviewHoldsEvidence'  BY <1>3, <2>1, <2>6, <2>8 DEF ReviewHoldsEvidence
  <2>10. Reconciled(row') /\ row'.scores \in Vectors
    BY <1>1, <2>5, <2>6 DEF Sound, Reconciled
  <2>11. QED  BY <1>1, <2>6, <2>7, <2>9, <2>10 DEF Sound
<1>9. QED  BY <1>5, <1>6, <1>7, <1>8 DEF ReviewStep

\* Only a review makes an audit compliant, and it leaves its mark.
LEMMA CompliantStep ==
    ASSUME TypeInv, CompliantOnlyByReview, Next
    PROVE  CompliantOnlyByReview'
<1>1. CASE \E w \in Workers : CallStep(w)
  <2>1. PICK w \in Workers : CallStep(w)  BY <1>1
  <2>2. UNCHANGED certified
    BY <2>1 DEF CallStep, Begin, Analyze, Reload, RefuseScore, StartScoring, Complete,
                Publish, Fail, FailScoring, Dies
  <2>3. QED  BY <2>1, <2>2, RowSteps DEF CompliantOnlyByReview
<1>2. CASE \E r \in Reviewers : ReviewStep(r)
  <2>1. PICK r \in Reviewers : ReviewStep(r)  BY <1>2
  <2>2. CASE ReviewOpen(r) \/ ReadScores(r) \/ CountCriticals(r)
    BY <2>2 DEF ReviewOpen, ReadScores, CountCriticals, CompliantOnlyByReview
  <2>3. ASSUME NEW approved \in BOOLEAN, Decide(r, approved) PROVE CompliantOnlyByReview'
    <3> DEFINE v == ReviewVerdict(r, approved)
               c == Written(seen[r].row.compliance, v, row.compliance)
               m == Written(seen[r].row.method, "expert_reviewed", row.method)
    <3>1. /\ row' = [row EXCEPT !.compliance = c, !.method = m]
          /\ certified' = (certified \/ v = "compliant")
      BY <2>3 DEF Decide
    <3>2. c \in {v, row.compliance}  BY DEF Written
    <3> HIDE DEF v, c, m
    <3>3. row \in Row  BY DEF TypeInv, VerdictTypeOK
    <3>4. row'.compliance = c  BY <3>1, <3>3 DEF Row
    <3>5. QED  BY <3>1, <3>2, <3>4 DEF CompliantOnlyByReview
  <2>4. QED  BY <2>1, <2>2, <2>3 DEF ReviewStep
<1>3. QED  BY <1>1, <1>2 DEF Next

-------------------------------------------------------------------------------
(***************************************************************************)
(* Theorems                                                                *)
(***************************************************************************)

\* The inductive invariant: types, the evidence and who holds it, and the
\* safety properties.
THEOREM VerdictInvariant == VerdictSpec => []VerdictInv
<1>1. Init => VerdictInv
  <2> SUFFICES ASSUME Init PROVE TypeInv /\ CompliantOnlyByReview /\ Sound
    BY VerdictInvParts
  <2>1. /\ NewRow \in Row /\ NewRow.scores = Missing
        /\ Unread \in [row : Row, scores : [Categories -> Scores], criticals : Nat]
    BY NewRowType
  <2>2. NewRow.status = "queued" /\ NewRow.compliance = "none"
    BY DEF NewRow
  <2> HIDE DEF NewRow, Unread, Nothing
  <2>3. VerdictTypeOK
    <3>1. 0 \in 0..MaxCalls /\ 0 \in 0..MaxReviews  BY VerdictAssumption
    <3>2. "out" \in Stages  BY DEF Stages
    <3>3. /\ loaded \in [Workers -> Row] /\ stage \in [Workers -> Stages]
          /\ got \in [Workers -> Outcomes \cup {Nothing}]
          /\ rpc \in [Reviewers -> {"idle", "scores", "findings", "decide"}]
      BY <2>1, <3>2 DEF Init
    <3> DEFINE S == [row : Row, scores : [Categories -> Scores], criticals : Nat]
    <3>4. Unread \in S  BY <2>1
    <3> HIDE DEF S
    <3>5. seen \in [Reviewers -> S]  BY <3>4 DEF Init
    <3>6. QED  BY <2>1, <3>1, <3>3, <3>5 DEF Init, VerdictTypeOK, S
  <2>4. CallHoldsOutcome  BY DEF Init, CallHoldsOutcome
  <2>5. EvidenceIsWhole  BY <2>1 DEF Init, EvidenceIsWhole
  <2>6. CompliantOnlyByReview  BY <2>2 DEF Init, CompliantOnlyByReview
  <2>7. OneAtATime /\ CallHoldsRow /\ ReviewHoldsEvidence
    BY DEF Init, OneAtATime, CallHoldsRow, Running, ReviewHoldsEvidence
  <2>8. row.status = "queued"  BY <2>2 DEF Init
  <2>9. QED
    BY <2>3, <2>4, <2>5, <2>6, <2>7, <2>8 DEF TypeInv, Sound, Certified
<1>2. VerdictInv /\ [Next]_vars => VerdictInv'
  <2> SUFFICES ASSUME TypeInv, CompliantOnlyByReview, ~overlapped => Sound, [Next]_vars
               PROVE  TypeInv' /\ CompliantOnlyByReview' /\ (~overlapped' => Sound')
    <3>1. VerdictInv' <=> (TypeInv /\ CompliantOnlyByReview /\ (~overlapped => Sound))'
      BY VerdictInvParts, PTL
    <3>2. QED  BY <3>1, VerdictInvParts
  <2>1. CASE \E w \in Workers : CallStep(w)
    <3>1. PICK w \in Workers : CallStep(w)  BY <2>1
    <3>2. TypeInv'  BY <3>1, CallTypes
    <3>3. CompliantOnlyByReview'  BY <2>1, CompliantStep DEF Next
    <3>4. ~overlapped' => Sound'  BY <3>1, CallSound
    <3>5. QED  BY <3>2, <3>3, <3>4
  <2>2. CASE \E r \in Reviewers : ReviewStep(r)
    <3>1. PICK r \in Reviewers : ReviewStep(r)  BY <2>2
    <3>2. TypeInv'  BY <3>1, ReviewTypes
    <3>3. CompliantOnlyByReview'  BY <2>2, CompliantStep DEF Next
    <3>4. ~overlapped' => Sound'  BY <3>1, ReviewSound
    <3>5. QED  BY <3>2, <3>3, <3>4
  <2>3. CASE UNCHANGED vars
    <3>1. UNCHANGED <<row, criticals, stage, loaded, got, rpc, seen, calls, reviews,
                      certified, overlapped>>
      BY <2>3 DEF vars, workVars, reviewVars
    <3>2. VerdictTypeOK' = VerdictTypeOK
      BY <3>1 DEF VerdictTypeOK
    <3>3. CallHoldsOutcome' = CallHoldsOutcome /\ EvidenceIsWhole' = EvidenceIsWhole
      BY <3>1 DEF CallHoldsOutcome, EvidenceIsWhole
    <3>4. CompliantOnlyByReview'  BY <3>1 DEF CompliantOnlyByReview
    <3>5. /\ OneAtATime' = OneAtATime /\ CallHoldsRow' = CallHoldsRow
          /\ ReviewHoldsEvidence' = ReviewHoldsEvidence
      BY <3>1 DEF OneAtATime, CallHoldsRow, Running, ReviewHoldsEvidence
    <3>6. ~overlapped' => Sound'
      BY <3>1, <3>5 DEF Sound, Certified, Reconciled
    <3>7. QED  BY <3>2, <3>3, <3>4, <3>6 DEF TypeInv
  <2>4. QED  BY <2>1, <2>2, <2>3 DEF Next
<1>3. QED  BY <1>1, <1>2, PTL DEF VerdictSpec

\* The types of the row, of the calls of process and of the reviews.
THEOREM VerdictTypeCorrect == VerdictSpec => []VerdictTypeOK
<1>1. VerdictInv => VerdictTypeOK  BY DEF VerdictInv
<1>2. QED  BY <1>1, VerdictInvariant, PTL

\* docs/HLD.md: automated evidence alone never gives "compliant", whatever
\* overlaps.
THEOREM AutomatedNeverCompliant == VerdictSpec => []CompliantOnlyByReview
<1>1. VerdictInv => CompliantOnlyByReview  BY DEF VerdictInv
<1>2. QED  BY <1>1, VerdictInvariant, PTL

\* compliance_verdict and its two callers: a completed audit is compliant on the
\* persisted evidence only.
THEOREM CertificatesHaveEvidence == VerdictSpec => []CertifiedOnEvidence
<1>1. VerdictInv => CertifiedOnEvidence  BY DEF VerdictInv
<1>2. QED  BY <1>1, VerdictInvariant, PTL

\* review_audit and process together: a certificate has a review and evidence.
THEOREM CertificatesHold == VerdictSpec => []CertificateHolds
<1>1. CompliantOnlyByReview /\ CertifiedOnEvidence => CertificateHolds
      BY DEF CertificateHolds
<1>2. QED  BY <1>1, AutomatedNeverCompliant, CertificatesHaveEvidence, PTL

\* process: what a completed audit shows fits together, after any number of
\* calls that failed half way.
THEOREM ReportsReconcile == VerdictSpec => []ReportReconciles
<1>1. VerdictInv => ReportReconciles  BY DEF VerdictInv
<1>2. QED  BY <1>1, VerdictInvariant, PTL

\* round(x, 2): to the nearest, whichever way a tie goes.
LEMMA HundredthsNear ==
    ASSUME NEW n \in Int, 0 <= n, n <= 100000, NEW up
    PROVE  /\ Hundredths(n, up) \in Int
           /\ 10 * Hundredths(n, up) <= n + 5
           /\ n <= 10 * Hundredths(n, up) + 5
<1> DEFINE q == n \div 10   r == n % 10   h == Hundredths(n, up)
<1>1. q \in Int /\ r \in Int /\ n = 10 * q + r /\ 0 <= r /\ r <= 9  BY SMT
<1>2. (h = q + 1 /\ r >= 5) \/ (h = q /\ r <= 5)
  BY <1>1 DEF Hundredths
<1> HIDE DEF q, r, h
<1>3. h \in Int /\ 10 * h <= n + 5 /\ n <= 10 * h + 5  BY <1>1, <1>2, SMT
<1>4. QED  BY <1>3 DEF h

\* One row of explain: its two columns are near the exact points.
LEMMA RowNear ==
    ASSUME NEW s \in Vectors, NEW c \in Categories, NEW w \in Int,
           Weights[c] = w, 0 <= w, w <= 22
    PROVE  /\ Won(s)[c] \in Int /\ Near(10 * Won(s)[c], w * s[c], 5)
           /\ Losses(s)[c] \in Int
           /\ Near(10 * Losses(s)[c], w * (1000 - s[c]), 5)
           /\ Near(Won(s)[c] + Losses(s)[c], 100 * w, 1)
<1>1. s[c] \in Int /\ 0 <= s[c] /\ s[c] <= 1000  BY VectorParts
<1> DEFINE m == w * s[c]   n == w * (1000 - s[c])
<1>2. m \in Int /\ n \in Int /\ m + n = 1000 * w  BY <1>1, SMT
<1>3. 0 <= m /\ m <= 100000 /\ 0 <= n /\ n <= 100000
  <2>1. 0 <= m /\ 0 <= n
    BY <1>1, TimesPositive
  <2>2. QED  BY <1>2, <2>1, SMT
<1> DEFINE up == <<"contribution", c, s[c]>> \in TiesUp
           down == <<"lost", c, s[c]>> \in TiesUp
<1>4. Won(s)[c] = Hundredths(m, up)
  BY DEF Won, Contribution
<1>5. Losses(s)[c] = Hundredths(n, down)
  BY DEF Losses, Lost
<1> HIDE DEF m, n, up, down
<1>6. /\ Won(s)[c] \in Int /\ 10 * Won(s)[c] <= m + 5 /\ m <= 10 * Won(s)[c] + 5
  BY <1>2, <1>3, <1>4, HundredthsNear
<1>7. /\ Losses(s)[c] \in Int /\ 10 * Losses(s)[c] <= n + 5
      /\ n <= 10 * Losses(s)[c] + 5
  BY <1>2, <1>3, <1>5, HundredthsNear
<1>8. Near(10 * Won(s)[c], m, 5) /\ Near(10 * Losses(s)[c], n, 5)
      /\ Near(Won(s)[c] + Losses(s)[c], 100 * w, 1)
  BY <1>2, <1>6, <1>7, SMT DEF Near
<1>9. QED  BY <1>6, <1>7, <1>8 DEF m, n

\* The weights of explain are those of compute_score.
LEMMA WeightValues ==
    /\ Weights["accessibility"] = 22 /\ Weights["usability"] = 17
    /\ Weights["gigw"] = 15 /\ Weights["design"] = 11
    /\ Weights["performance"] = 12 /\ Weights["responsiveness"] = 10
    /\ Weights["content"] = 7 /\ Weights["trust"] = 6
BY DEF Weights

LEMMA WeightType ==
    ASSUME NEW c \in Categories
    PROVE  Weights[c] \in Int /\ 0 <= Weights[c] /\ Weights[c] <= 22
BY WeightValues DEF Categories

\* A column of eight rows, each near its exact points, sums to within 40.
LEMMA ColumnsAddUp ==
    ASSUME NEW s \in Vectors
    PROVE  /\ Total(Won(s)) \in Int /\ Total(Losses(s)) \in Int
           /\ Near(10 * Total(Won(s)), WeightedSum(s), 40)
           /\ Near(10 * Total(Losses(s)), 100000 - WeightedSum(s), 40)
<1> DEFINE In(x) == x \in Int /\ 0 <= x /\ x <= 1000
           Close(p, q, w, x) == /\ p \in Int /\ Near(10 * p, w * x, 5)
                                /\ q \in Int /\ Near(10 * q, w * (1000 - x), 5)
           p == Won(s)   q == Losses(s)
<1>1. \A c \in Categories : In(s[c])  BY VectorParts
<1>2. \A c \in Categories : Close(p[c], q[c], Weights[c], s[c])
  BY WeightType, RowNear
<1> HIDE DEF p, q
<1> DEFINE x1 == s["accessibility"]   p1 == p["accessibility"]   q1 == q["accessibility"]
           x2 == s["usability"]   p2 == p["usability"]   q2 == q["usability"]
           x3 == s["gigw"]   p3 == p["gigw"]   q3 == q["gigw"]
           x4 == s["design"]   p4 == p["design"]   q4 == q["design"]
           x5 == s["performance"]   p5 == p["performance"]   q5 == q["performance"]
           x6 == s["responsiveness"]   p6 == p["responsiveness"]   q6 == q["responsiveness"]
           x7 == s["content"]   p7 == p["content"]   q7 == q["content"]
           x8 == s["trust"]   p8 == p["trust"]   q8 == q["trust"]
<1>3. /\ Close(p1, q1, 22, x1) /\ In(x1)
      /\ Close(p2, q2, 17, x2) /\ In(x2)
      /\ Close(p3, q3, 15, x3) /\ In(x3)
      /\ Close(p4, q4, 11, x4) /\ In(x4)
      /\ Close(p5, q5, 12, x5) /\ In(x5)
      /\ Close(p6, q6, 10, x6) /\ In(x6)
      /\ Close(p7, q7, 7, x7) /\ In(x7)
      /\ Close(p8, q8, 6, x8) /\ In(x8)
  <2> HIDE DEF Close, In
  <2>1. QED  BY <1>1, <1>2, WeightValues DEF Categories
<1> DEFINE won  == p1 + p2 + p3 + p4 + p5 + p6 + p7 + p8
           lost == q1 + q2 + q3 + q4 + q5 + q6 + q7 + q8
           sum  == 22 * x1 + 17 * x2 + 15 * x3 + 11 * x4 + 12 * x5 + 10 * x6
                   + 7 * x7 + 6 * x8
<1>4. /\ won \in Int /\ lost \in Int
      /\ Near(10 * won, sum, 40) /\ Near(10 * lost, 100000 - sum, 40)
  <2> HIDE DEF x1, x2, x3, x4, x5, x6, x7, x8, p1, p2, p3, p4, p5, p6, p7, p8,
              q1, q2, q3, q4, q5, q6, q7, q8
  <2>1. QED  BY <1>3, SMT DEF Near
<1>5. Total(p) = won /\ Total(q) = lost /\ WeightedSum(s) = sum
  BY DEF Total, WeightedSum
<1> HIDE DEF won, lost, sum
<1>6. QED  BY <1>4, <1>5 DEF p, q

\* Mending a category lifts the sum by its weight times what it missed.
LEMMA MendedSum ==
    ASSUME NEW s \in Vectors, NEW c \in Categories
    PROVE  WeightedSum(Mended(s, c)) = WeightedSum(s) + Weights[c] * (1000 - s[c])
<1> DEFINE t == Mended(s, c)
           a == s["accessibility"]   u == s["usability"]   g == s["gigw"]
           d == s["design"]          p == s["performance"]
           r == s["responsiveness"]  k == s["content"]     e == s["trust"]
           aa == t["accessibility"]   uu == t["usability"]  gg == t["gigw"]
           dd == t["design"]          pp == t["performance"]
           rr == t["responsiveness"]  kk == t["content"]    ee == t["trust"]
<1>1. \A x \in Categories : t[x] = IF x = c THEN 1000 ELSE s[x]
  BY DEF Mended, Vectors
<1>2. \A x \in Categories : s[x] \in Int  BY VectorParts
<1> HIDE DEF t
<1>3. /\ a \in Int /\ u \in Int /\ g \in Int /\ d \in Int
      /\ p \in Int /\ r \in Int /\ k \in Int /\ e \in Int
  BY <1>2 DEF Categories
<1>4. /\ aa = (IF c = "accessibility" THEN 1000 ELSE a)
      /\ uu = (IF c = "usability" THEN 1000 ELSE u)
      /\ gg = (IF c = "gigw" THEN 1000 ELSE g)
      /\ dd = (IF c = "design" THEN 1000 ELSE d)
      /\ pp = (IF c = "performance" THEN 1000 ELSE p)
      /\ rr = (IF c = "responsiveness" THEN 1000 ELSE r)
      /\ kk = (IF c = "content" THEN 1000 ELSE k)
      /\ ee = (IF c = "trust" THEN 1000 ELSE e)
  BY <1>1 DEF Categories
<1>5. /\ WeightedSum(s) = 22 * a + 17 * u + 15 * g + 11 * d + 12 * p + 10 * r
                          + 7 * k + 6 * e
      /\ WeightedSum(t) = 22 * aa + 17 * uu + 15 * gg + 11 * dd + 12 * pp + 10 * rr
                          + 7 * kk + 6 * ee
  BY DEF WeightedSum
<1> DEFINE Lift(w, x) == WeightedSum(t) = WeightedSum(s) + w * (1000 - x)
<1>6. /\ c = "accessibility"  => Lift(22, a)
      /\ c = "usability"      => Lift(17, u)
      /\ c = "gigw"           => Lift(15, g)
      /\ c = "design"         => Lift(11, d)
      /\ c = "performance"    => Lift(12, p)
      /\ c = "responsiveness" => Lift(10, r)
      /\ c = "content"        => Lift(7, k)
      /\ c = "trust"          => Lift(6, e)
  <2> HIDE DEF a, u, g, d, p, r, k, e, aa, uu, gg, dd, pp, rr, kk, ee
  <2>1. QED  BY <1>3, <1>4, <1>5, SMT
<1> HIDE DEF Lift
<1>7. Lift(Weights[c], s[c])
  BY <1>6, WeightValues DEF Categories
<1>8. QED  BY <1>7 DEF Lift, t

\* Rounding keeps the order: of two losses the larger is larger exactly.
LEMMA HundredthsOrder ==
    ASSUME NEW m \in Int, NEW n \in Int, 0 <= m, 0 <= n, NEW up, NEW down,
           Hundredths(m, up) > Hundredths(n, down)
    PROVE  m >= n
<1> DEFINE mq == m \div 10   mr == m % 10   nq == n \div 10   nr == n % 10
           mh == Hundredths(m, up)   nh == Hundredths(n, down)
<1>1. /\ mq \in Int /\ mr \in Int /\ m = 10 * mq + mr /\ 0 <= mr /\ mr <= 9
      /\ nq \in Int /\ nr \in Int /\ n = 10 * nq + nr /\ 0 <= nr /\ nr <= 9
  BY SMT
<1>2. (mh = mq + 1 /\ mr >= 5) \/ (mh = mq /\ mr <= 5)
  BY <1>1 DEF Hundredths
<1>3. (nh = nq + 1 /\ nr >= 5) \/ (nh = nq /\ nr <= 5)
  BY <1>1 DEF Hundredths
<1>4. mh > nh  OBVIOUS
<1> HIDE DEF mq, mr, nq, nr, mh, nh
<1>5. QED  BY <1>1, <1>2, <1>3, <1>4, SMT

\* explain: for every vector of scores and every rounding of its ties, the rows
\* add up to the score they explain.
THEOREM BreakdownAddsUp ==
    ASSUME NEW r, r.scores \in Vectors, r.overall = Overall(r.scores)
    PROVE  PointsAddUp(r)
<1> DEFINE s == r.scores   n == WeightedSum(s)   o == Overall(s)
           p == Total(Won(s))   q == Total(Losses(s))
<1>1. o \in Int /\ n \in Int /\ Near(100 * o, n, 50)
  BY OverallOfSum, WeightedSumBounds, SMT DEF Near
<1>2. p \in Int /\ q \in Int /\ Near(10 * p, n, 40) /\ Near(10 * q, 100000 - n, 40)
  BY ColumnsAddUp
<1> HIDE DEF n, o, p, q
<1>3. Near(10 * p, 100 * o, 90) /\ Near(10 * q, 100 * (1000 - o), 90)
  BY <1>1, <1>2, SMT DEF Near
<1>4. \A c \in Categories :
        Near(Won(s)[c] + Losses(s)[c], MaxContribution(c), 1)
  <2> TAKE c \in Categories
  <2>1. QED  BY WeightType, RowNear DEF MaxContribution
<1>5. r.overall = o  BY DEF o
<1>6. QED  BY <1>3, <1>4, <1>5 DEF PointsAddUp, p, q

\* explain: the rows are ranked by loss, and mending a category of a larger
\* loss lifts the weighted sum at least as much.
THEOREM LossesRankRepairs ==
    ASSUME NEW r, r.scores \in Vectors
    PROVE  MendingPays(r)
<1> DEFINE s == r.scores
<1>1. SUFFICES ASSUME NEW c \in Categories, NEW d \in Categories,
                      Lost(s, c) > Lost(s, d)
               PROVE  WeightedSum(Mended(s, c)) >= WeightedSum(Mended(s, d))
  BY DEF MendingPays
<1> DEFINE m == Weights[c] * (1000 - s[c])   n == Weights[d] * (1000 - s[d])
           up == <<"lost", c, s[c]>> \in TiesUp
           down == <<"lost", d, s[d]>> \in TiesUp
<1>2. /\ s[c] \in Int /\ s[c] <= 1000 /\ Weights[c] \in Int /\ 0 <= Weights[c]
      /\ s[d] \in Int /\ s[d] <= 1000 /\ Weights[d] \in Int /\ 0 <= Weights[d]
  BY VectorParts, WeightType
<1>3. m \in Int /\ n \in Int /\ 0 <= m /\ 0 <= n
  BY <1>2, SMT
<1>4. Hundredths(m, up) > Hundredths(n, down)
  BY <1>1 DEF Lost
<1>5. /\ WeightedSum(Mended(s, c)) = WeightedSum(s) + m
      /\ WeightedSum(Mended(s, d)) = WeightedSum(s) + n
      /\ WeightedSum(s) \in Int
  BY MendedSum, WeightedSumBounds
<1> HIDE DEF m, n, up, down
<1>6. m >= n  BY <1>3, <1>4, HundredthsOrder
<1>7. QED  BY <1>3, <1>5, <1>6, SMT

\* _build_report: the breakdown beside the score of a completed audit explains
\* that score.
THEOREM ExplanationsHold == VerdictSpec => []ExplanationHolds
<1>1. VerdictInv => ExplanationHolds
  <2> SUFFICES ASSUME VerdictInv, ~overlapped, row.status = "completed"
               PROVE  PointsAddUp(row) /\ MendingPays(row)
    BY DEF ExplanationHolds
  <2>1. row.scores \in Vectors /\ row.overall = Overall(row.scores)
    BY DEF VerdictInv, ReportReconciles, Reconciled, EvidenceIsWhole
  <2>2. QED  BY <2>1, BreakdownAddsUp, LossesRankRepairs
<1>2. QED  BY <1>1, VerdictInvariant, PTL

\* The evidence gate leaves no score, band or verdict of an earlier result.
THEOREM RefusedIsUnscored == VerdictSpec => []RefusedHasNoScore
<1>1. VerdictInv => RefusedHasNoScore  BY DEF VerdictInv
<1>2. QED  BY <1>1, VerdictInvariant, PTL

\* process: the score, band and guard-rail of a completed audit are those of its
\* category scores; a refused audit has no score, no band and no verdict.
THEOREM ReportsHold == VerdictSpec => []ReportHolds
<1>1. ReportReconciles /\ RefusedHasNoScore => ReportHolds  BY DEF ReportHolds
<1>2. QED  BY <1>1, ReportsReconcile, RefusedIsUnscored, PTL

\* A site that got better, or in nothing worse, is never rated lower: the
\* monotonicity of the score and of the band, carried to the persisted rows.
THEOREM BetterIsNeverRatedLower == VerdictSpec => NeverWorseOnBetterEvidence
<1> DEFINE Better ==
             /\ ~overlapped'
             /\ row'.status = "completed"
             /\ row.scores # Missing /\ Reconciled(row)
             /\ \A c \in Categories : row'.scores[c] >= row.scores[c]
           Kept == row'.overall >= row.overall /\ Rank(row'.band) <= Rank(row.band)
<1>1. VerdictInv /\ VerdictInv' => (Better => Kept)
  <2> SUFFICES ASSUME VerdictInv, VerdictInv', Better PROVE Kept
    OBVIOUS
  <2>1. row.scores \in Vectors  BY DEF VerdictInv, EvidenceIsWhole
  <2>2. row'.scores \in Vectors /\ Reconciled(row')
    BY DEF VerdictInv, ReportReconciles
  <2> DEFINE s == row.scores
             t == row'.scores
  <2>3. /\ row.overall = Overall(s) /\ row.band = BandOf(s)
        /\ row'.overall = Overall(t) /\ row'.band = BandOf(t)
    BY <2>2 DEF Reconciled
  <2>4. \A c \in Categories : t[c] >= s[c]  OBVIOUS
  <2>5. s \in Vectors /\ t \in Vectors  BY <2>1, <2>2
  <2> HIDE DEF s, t
  <2>6. \A c \in Categories : s[c] <= t[c]
    BY <2>4, <2>5, VectorParts
  <2>7. Overall(s) <= Overall(t) /\ Overall(s) \in Int /\ Overall(t) \in Int
    BY <2>5, <2>6, OverallMonotone, OverallOfSum
  <2>8. Rank(BandOf(t)) <= Rank(BandOf(s))
    BY <2>5, <2>6, BandMonotone
  <2>9. QED  BY <2>3, <2>7, <2>8
<1>2. VerdictSpec => [][VerdictInv /\ VerdictInv']_vars
  BY VerdictInvariant, PTL DEF VerdictSpec
<1>3. [VerdictInv /\ VerdictInv']_vars => [Better => Kept]_vars
  BY <1>1
<1>4. QED  BY <1>2, <1>3, PTL DEF NeverWorseOnBetterEvidence

===============================================================================
