-------------------------------- MODULE Sums --------------------------------
(* Sums over finite sets, for the proofs: MapThenSumSet of the community     *)
(* modules takes its terms in an order of its own choosing; here is that it  *)
(* is defined, that the order makes no difference and what changing one term *)
(* changes.  The inductions are over sets, through WFMin: the library's      *)
(* induction rules take predicates, which the provers cannot instantiate.    *)
EXTENDS Integers, FiniteSetTheorems, WellFoundedInduction, TLAPS

(* The element a sum over a set takes first.                                *)
First(S) == CHOOSE x \in S : TRUE

(* t sums g over the subsets of C.                                          *)
Sums(t, g, C) ==
    t = [S \in SUBSET C |-> IF S = {} THEN 0 ELSE g[First(S)] + t[S \ {First(S)}]]

LEMMA FirstIn == ASSUME NEW S, S # {} PROVE First(S) \in S
  BY DEF First

(* A nonempty set of subsets of a finite set has a member that is minimal.  *)
LEMMA MinimalSubset ==
    ASSUME NEW C, IsFiniteSet(C), NEW B, B \subseteq SUBSET C, B # {}
    PROVE  \E S \in B : \A T \in B : ~ (T \subseteq S /\ T # S)
<1> DEFINE R == StrictSubsetOrdering(C)
<1>1. IsWellFoundedOn(R, SUBSET C)
  BY FS_StrictSubsetOrderingWellFounded, FS_FiniteSubsetsOfFinite
<1> HIDE DEF R
<1>2. PICK S \in B : \A T \in B : ~ (<<T, S>> \in R)
  BY <1>1, WFMin
<1>3. ASSUME NEW T \in B PROVE ~ (T \subseteq S /\ T # S)
  BY <1>2 DEF R, StrictSubsetOrdering
<1> QED
  BY <1>3

(* Sums exist: first for the subsets of at most n elements.                 *)
Upto(t, g, C, n) ==
    \A S \in SUBSET C : Cardinality(S) <= n =>
        t[S] = IF S = {} THEN 0 ELSE g[First(S)] + t[S \ {First(S)}]

LEMMA Smaller ==
    ASSUME NEW C, IsFiniteSet(C), NEW S \in SUBSET C
    PROVE  /\ IsFiniteSet(S) /\ Cardinality(S) \in Nat /\ Cardinality(S) <= Cardinality(C)
           /\ (Cardinality(S) = 0) <=> (S = {})
           /\ S # {} => /\ First(S) \in S /\ First(S) \in C /\ S \ {First(S)} \in SUBSET C
                        /\ Cardinality(S \ {First(S)}) = Cardinality(S) - 1
<1>1. IsFiniteSet(S) /\ Cardinality(S) <= Cardinality(C)
  BY FS_Subset
<1>2. Cardinality(S) \in Nat /\ (Cardinality(S) = 0 <=> S = {})
  BY <1>1, FS_CardinalityType, FS_EmptySet
<1>3. ASSUME S # {}
      PROVE  /\ First(S) \in S /\ First(S) \in C /\ S \ {First(S)} \in SUBSET C
             /\ Cardinality(S \ {First(S)}) = Cardinality(S) - 1
  BY <1>1, <1>3, FirstIn, FS_RemoveElement
<1> QED
  BY <1>1, <1>2, <1>3

LEMMA Extends ==
    ASSUME NEW C, IsFiniteSet(C), NEW g \in [C -> Int], NEW n \in Nat,
           NEW t \in [SUBSET C -> Int], Upto(t, g, C, n)
    PROVE  \E u \in [SUBSET C -> Int] : Upto(u, g, C, n + 1)
<1> DEFINE u == [S \in SUBSET C |-> IF Cardinality(S) = n + 1
                                    THEN g[First(S)] + t[S \ {First(S)}] ELSE t[S]]
<1>1. u \in [SUBSET C -> Int]
  <2>1. ASSUME NEW S \in SUBSET C, Cardinality(S) = n + 1
        PROVE  g[First(S)] + t[S \ {First(S)}] \in Int
    BY <2>1, Smaller
  <2> QED
    BY <2>1
<1>2. ASSUME NEW S \in SUBSET C, Cardinality(S) <= n + 1
      PROVE  u[S] = IF S = {} THEN 0 ELSE g[First(S)] + u[S \ {First(S)}]
  <2>0. /\ Cardinality(S) \in Nat /\ (Cardinality(S) = 0 <=> S = {})
        /\ S # {} => S \ {First(S)} \in SUBSET C /\ Cardinality(S \ {First(S)}) = Cardinality(S) - 1
    BY Smaller
  <2>1. S # {} => u[S \ {First(S)}] = t[S \ {First(S)}]
    BY <1>2, <2>0
  <2>2. CASE Cardinality(S) = n + 1
    BY <2>0, <2>1, <2>2
  <2>3. CASE Cardinality(S) <= n
    <3>1. u[S] = t[S]
      BY <2>3, <2>0
    <3> QED
      BY <3>1, <2>0, <2>1, <2>3 DEF Upto
  <2> QED
    BY <1>2, <2>0, <2>2, <2>3
<1> HIDE DEF u
<1>3. Upto(u, g, C, n + 1)
  BY <1>2 DEF Upto
<1> QED
  BY <1>1, <1>3

(* Induction, for a set of natural numbers rather than a predicate.         *)
LEMMA Induction ==
    ASSUME NEW B \in SUBSET Nat, 0 \in B, \A n \in B : n + 1 \in B
    PROVE  B = Nat
<1> SUFFICES ASSUME Nat \ B # {} PROVE FALSE
  OBVIOUS
<1> DEFINE R == OpToRel(<, Nat)
<1>1. IsWellFoundedOn(R, Nat)
  BY NatLessThanWellFounded
<1>2. \A m, n \in Nat : m < n => <<m, n>> \in R
  BY DEF OpToRel
<1> HIDE DEF R
<1>3. PICK n \in Nat \ B : \A m \in Nat \ B : ~ (<<m, n>> \in R)
  BY <1>1, WFMin, Nat \ B \subseteq Nat
<1>4. n # 0 /\ n - 1 \in Nat /\ n - 1 < n /\ (n - 1) + 1 = n
  OBVIOUS
<1>5. n - 1 \in Nat \ B
  BY <1>4
<1> QED
  BY <1>2, <1>3, <1>4, <1>5

LEMMA SumExists ==
    ASSUME NEW C, IsFiniteSet(C), NEW g \in [C -> Int]
    PROVE  \E t \in [SUBSET C -> Int] : Sums(t, g, C)
<1> DEFINE B == {n \in Nat : \E t \in [SUBSET C -> Int] : Upto(t, g, C, n)}
<1>1. 0 \in B
  <2> DEFINE t == [S \in SUBSET C |-> 0]
  <2>1. t \in [SUBSET C -> Int]
    OBVIOUS
  <2>2. ASSUME NEW S \in SUBSET C, Cardinality(S) <= 0 PROVE S = {}
    <3>1. Cardinality(S) \in Nat /\ (Cardinality(S) = 0 <=> S = {})
      BY Smaller
    <3> QED
      BY <2>2, <3>1
  <2>3. Upto(t, g, C, 0)
    BY <2>2 DEF Upto
  <2> QED
    BY <2>1, <2>3
<1>2. ASSUME NEW n \in B PROVE n + 1 \in B
  <2>1. PICK t \in [SUBSET C -> Int] : Upto(t, g, C, n)
    OBVIOUS
  <2>2. n \in Nat /\ n + 1 \in Nat
    OBVIOUS
  <2>3. \E u \in [SUBSET C -> Int] : Upto(u, g, C, n + 1)
    BY <2>1, <2>2, Extends
  <2> QED
    BY <2>2, <2>3
<1>3. B = Nat
  <2> HIDE DEF B
  <2> QED
    BY <1>1, <1>2, Induction DEF B
<1>4. Cardinality(C) \in Nat
  BY FS_CardinalityType
<1>5. PICK t \in [SUBSET C -> Int] : Upto(t, g, C, Cardinality(C))
  BY <1>3, <1>4
<1>6. \A S \in SUBSET C : Cardinality(S) <= Cardinality(C)
  BY Smaller
<1>7. Sums(t, g, C)
  BY <1>5, <1>6 DEF Upto, Sums
<1> QED
  BY <1>7

(* Only one function sums g.                                                *)
LEMMA SumUnique ==
    ASSUME NEW C, IsFiniteSet(C), NEW g, NEW h, \A x \in C : g[x] = h[x],
           NEW t, NEW u, Sums(t, g, C), Sums(u, h, C)
    PROVE  t = u
<1>1. ASSUME NEW S \in SUBSET C, t[S] # u[S] PROVE FALSE
  <2> DEFINE B == {T \in SUBSET C : t[T] # u[T]}
  <2>0. B \subseteq SUBSET C /\ B # {}
    BY <1>1
  <2> HIDE DEF B
  <2>1. PICK T \in B : \A U \in B : ~ (U \subseteq T /\ U # T)
    BY <2>0, MinimalSubset
  <2>2. ASSUME T # {}
        PROVE  /\ First(T) \in T /\ First(T) \in C
               /\ t[T \ {First(T)}] = u[T \ {First(T)}]
    <3>1. First(T) \in T /\ T \in SUBSET C
      BY <2>2, <2>0, FirstIn
    <3>2. T \ {First(T)} \in SUBSET C /\ T \ {First(T)} \notin B
      BY <2>1, <3>1
    <3> QED
      BY <3>1, <3>2 DEF B
  <2>3. /\ t[T] = IF T = {} THEN 0 ELSE g[First(T)] + t[T \ {First(T)}]
        /\ u[T] = IF T = {} THEN 0 ELSE h[First(T)] + u[T \ {First(T)}]
    BY <2>0 DEF Sums
  <2>4. t[T] = u[T]
    BY <2>2, <2>3
  <2> QED
    BY <2>4 DEF B
<1>2. t = [S \in SUBSET C |-> t[S]] /\ u = [S \in SUBSET C |-> u[S]]
  BY DEF Sums
<1> QED
  BY <1>1, <1>2

(* Which element is added last makes no difference.                         *)
Commutes(t, g, C) == \A S \in SUBSET C : \A c \in S : t[S] = g[c] + t[S \ {c}]

LEMMA SumTakes ==
    ASSUME NEW C, IsFiniteSet(C), NEW g \in [C -> Int],
           NEW t \in [SUBSET C -> Int], Sums(t, g, C)
    PROVE  Commutes(t, g, C)
<1> DEFINE Good(S) == \A x \in S : t[S] = g[x] + t[S \ {x}]
           B == {S \in SUBSET C : ~ Good(S)}
<1> SUFFICES ASSUME B # {} PROVE FALSE
  BY DEF Commutes
<1>0. B \subseteq SUBSET C
  OBVIOUS
<1> HIDE DEF B
<1>1. PICK S \in B : \A U \in B : ~ (U \subseteq S /\ U # S)
  BY <1>0, MinimalSubset
<1>2. PICK x \in S : t[S] # g[x] + t[S \ {x}]
  BY DEF B
<1> DEFINE p == First(S)
<1>3. p \in S /\ S # {} /\ t[S] = g[p] + t[S \ {p}]
  BY <1>0, <1>2, FirstIn DEF Sums
<1>4. x # p
  BY <1>2, <1>3
<1> HIDE DEF p
<1>5. /\ S \ {p} \in SUBSET C /\ S \ {x} \in SUBSET C /\ (S \ {p}) \ {x} = (S \ {x}) \ {p}
      /\ S \ {p} # S /\ S \ {x} # S /\ x \in S \ {p} /\ p \in S \ {x}
      /\ (S \ {p}) \ {x} \in SUBSET C
  BY <1>0, <1>3, <1>4
<1>6. Good(S \ {p}) /\ Good(S \ {x})
  BY <1>1, <1>5 DEF B
<1>7. t[S \ {p}] = g[x] + t[(S \ {p}) \ {x}] /\ t[S \ {x}] = g[p] + t[(S \ {x}) \ {p}]
  BY <1>5, <1>6
<1>8. g[x] \in Int /\ g[p] \in Int /\ t[(S \ {p}) \ {x}] \in Int
  BY <1>0, <1>3, <1>5
<1> DEFINE r == t[(S \ {p}) \ {x}]
<1>9. t[S] = g[p] + (g[x] + r) /\ t[S \ {x}] = g[p] + r
  BY <1>3, <1>5, <1>7
<1> HIDE DEF r
<1> QED
  BY <1>2, <1>8, <1>9 DEF r

(* The sum of g over C, and what changing one term does to it.              *)
SumOf(g, C) == (CHOOSE t : Sums(t, g, C))[C]

LEMMA SumIs ==
    ASSUME NEW C, IsFiniteSet(C), NEW g \in [C -> Int]
    PROVE  \E t \in [SUBSET C -> Int] :
              Sums(t, g, C) /\ SumOf(g, C) = t[C] /\ Commutes(t, g, C)
<1>1. PICK t \in [SUBSET C -> Int] : Sums(t, g, C)
  BY SumExists
<1> DEFINE u == CHOOSE u : Sums(u, g, C)
<1>2. Sums(u, g, C)
  BY <1>1
<1> HIDE DEF u
<1>3. t = u
  BY <1>1, <1>2, SumUnique
<1>4. Commutes(t, g, C)
  BY <1>1, SumTakes
<1> QED
  BY <1>1, <1>3, <1>4 DEF SumOf, u

LEMMA SumType ==
    ASSUME NEW C, IsFiniteSet(C), NEW g \in [C -> Int]
    PROVE  SumOf(g, C) \in Int
<1>1. PICK t \in [SUBSET C -> Int] :
         Sums(t, g, C) /\ SumOf(g, C) = t[C] /\ Commutes(t, g, C)
  BY SumIs
<1> QED
  BY <1>1, C \in SUBSET C

LEMMA SumChanges ==
    ASSUME NEW C, IsFiniteSet(C), NEW g \in [C -> Int], NEW h \in [C -> Int],
           NEW c \in C, \A x \in C : x # c => h[x] = g[x]
    PROVE  /\ SumOf(g, C) \in Int
           /\ SumOf(h, C) = SumOf(g, C) + (h[c] - g[c])
<1>1. PICK t \in [SUBSET C -> Int] :
         Sums(t, g, C) /\ SumOf(g, C) = t[C] /\ Commutes(t, g, C)
  BY SumIs
<1>2. PICK u \in [SUBSET C -> Int] :
         Sums(u, h, C) /\ SumOf(h, C) = u[C] /\ Commutes(u, h, C)
  BY SumIs
<1>3. C \in SUBSET C /\ C \ {c} \in SUBSET C
  OBVIOUS
<1>4. t[C] = g[c] + t[C \ {c}] /\ u[C] = h[c] + u[C \ {c}]
  BY <1>1, <1>2, <1>3 DEF Commutes
<1>5. t[C \ {c}] = u[C \ {c}]
  <2>1. IsFiniteSet(C \ {c})
    BY FS_RemoveElement
  <2> DEFINE D == C \ {c}
             tt == [S \in SUBSET D |-> t[S]]
             uu == [S \in SUBSET D |-> u[S]]
  <2>2. \A S \in SUBSET D : S # {} => First(S) \in D /\ S \ {First(S)} \in SUBSET D
    BY FirstIn
  <2>3. Sums(tt, g, D)
    BY <1>1, <2>2 DEF Sums
  <2>4. Sums(uu, h, D)
    BY <1>2, <2>2 DEF Sums
  <2>5. \A x \in D : g[x] = h[x]
    OBVIOUS
  <2>6. tt[D] = t[D] /\ uu[D] = u[D]
    OBVIOUS
  <2> HIDE DEF tt, uu, D
  <2>7. tt = uu
    BY <2>1, <2>3, <2>4, <2>5, SumUnique DEF D
  <2> QED
    BY <2>6, <2>7 DEF D
<1>6. g[c] \in Int /\ h[c] \in Int /\ t[C] \in Int /\ t[C \ {c}] \in Int
  BY <1>3
<1> QED
  BY <1>1, <1>2, <1>4, <1>5, <1>6

LEMMA SumSame ==
    ASSUME NEW C, IsFiniteSet(C), NEW g \in [C -> Int], NEW h \in [C -> Int],
           \A x \in C : h[x] = g[x]
    PROVE  SumOf(h, C) = SumOf(g, C)
<1>1. h = g
  OBVIOUS
<1> QED
  BY <1>1

LEMMA SumOfNothing ==
    ASSUME NEW C, IsFiniteSet(C), NEW g \in [C -> Int], \A x \in C : g[x] = 0
    PROVE  SumOf(g, C) = 0
<1>1. PICK t \in [SUBSET C -> Int] : Sums(t, g, C) /\ SumOf(g, C) = t[C]
  BY SumIs
<1> DEFINE z == [S \in SUBSET C |-> 0]
<1>2. Sums(z, g, C)
  <2>1. \A S \in SUBSET C : S # {} => First(S) \in C /\ S \ {First(S)} \in SUBSET C
    BY FirstIn
  <2>2. \A S \in SUBSET C : 0 = IF S = {} THEN 0 ELSE g[First(S)] + z[S \ {First(S)}]
    BY <2>1
  <2> QED
    BY <2>2 DEF Sums
<1>3. z[C] = 0
  OBVIOUS
<1> HIDE DEF z
<1>4. t = z
  BY <1>1, <1>2, SumUnique
<1> QED
  BY <1>1, <1>3, <1>4
=============================================================================
