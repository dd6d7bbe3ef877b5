---------------------------- MODULE PlayersProofs ----------------------------
(* Trades and fights among any number of players, with items that nest as  *)
(* deep as they will, and the market, for any number of players and offers.*)
EXTENDS Trade, Combat, FiniteSetTheorems, WellFoundedInduction, TLAPS

-----------------------------------------------------------------------------
(* Sums over finite sets, which Total folds.  What is proved of them is    *)
(* proved without induction: were it false of a set, it would be of some   *)
(* least part of the set, which has one element more than a part of which  *)
(* it is true.                                                             *)

(* The values of f on S, added up.                                         *)
Total(f, S) == MapThenSumSet(LAMBDA x : f[x], S)

(* The element that the fold takes next.                                   *)
Pick(S) == CHOOSE x \in S : TRUE

(* A set of numbers has a least one.                                       *)
LEMMA Least ==
  ASSUME NEW S \in SUBSET Nat, S # {}
  PROVE  \E x \in S : \A y \in S : x <= y
<1>1. IsWellFoundedOn(OpToRel(<,Nat), Nat)
  BY NatLessThanWellFounded
<1>2. PICK x \in S : \A y \in S : ~(<<y, x>> \in OpToRel(<,Nat))
  BY <1>1, WFMin
<1>3. \A y \in S : ~(y < x)
  BY <1>2 DEF OpToRel
<1> QED
  BY <1>3

(* Of some finite sets there is one that none of the others is part of.    *)
LEMMA LeastSet ==
  ASSUME NEW S, IsFiniteSet(S), NEW B \in SUBSET (SUBSET S), B # {}
  PROVE  \E s \in B : \A u \in SUBSET s : u # s => u \notin B
<1>1. ASSUME NEW s \in B PROVE IsFiniteSet(s) /\ Cardinality(s) \in Nat
  BY FS_Subset, FS_CardinalityType
<1> DEFINE N == {Cardinality(s) : s \in B}
<1>2. N \in SUBSET Nat /\ N # {}
  BY <1>1
<1>3. PICK n \in N : \A k \in N : n <= k
  BY <1>2, Least
<1>4. PICK s \in B : n = Cardinality(s)
  OBVIOUS
<1>5. ASSUME NEW u \in SUBSET s, u # s, u \in B PROVE FALSE
  <2>1. Cardinality(u) < Cardinality(s)
    BY <1>1, <1>5, FS_Subset
  <2>2. Cardinality(s) <= Cardinality(u) /\ Cardinality(u) \in Nat /\ Cardinality(s) \in Nat
    BY <1>1, <1>3, <1>4, <1>5
  <2> QED
    BY <2>1, <2>2
<1> QED
  BY <1>5

(* What it takes is in the set.                                            *)
LEMMA PickIn == ASSUME NEW S, S # {} PROVE Pick(S) \in S
BY DEF Pick

(* A function that adds up f over the subsets of S.                        *)
Adding(f, S, t) ==
  t = [s \in SUBSET S |-> IF s = {} THEN 0 ELSE f[Pick(s)] + t[s \ {Pick(s)}]]

(* Total is what some such function gives,                                 *)
LEMMA TotalDef ==
  ASSUME NEW f, NEW S
  PROVE  Total(f, S) = (CHOOSE t : Adding(f, S, t))[S]
BY DEF Total, MapThenSumSet, MapThenFoldSet, Adding, Pick

(* which goes down by one element at a time.                               *)
LEMMA AddingAt ==
  ASSUME NEW f, NEW S, NEW t, Adding(f, S, t), NEW s \in SUBSET S
  PROVE  t[s] = IF s = {} THEN 0 ELSE f[Pick(s)] + t[s \ {Pick(s)}]
BY DEF Adding

(* Two of them, over one set and over a larger, agree on the smaller: else *)
(* on some least part of it they would not.                                *)
LEMMA AddingUnique ==
  ASSUME NEW f, NEW S, NEW T, NEW t,
         NEW u, IsFiniteSet(S), S \subseteq T, Adding(f, S, t), Adding(f, T, u)
  PROVE  t[S] = u[S]
<1> DEFINE B == {s \in SUBSET S : t[s] # u[s]}
<1>1. B = {}
  <2> SUFFICES ASSUME B # {} PROVE FALSE
    OBVIOUS
  <2>0. B \in SUBSET (SUBSET S)
    OBVIOUS
  <2> HIDE DEF B
  <2>1. PICK s \in B : \A v \in SUBSET s : v # s => v \notin B
    BY <2>0, LeastSet
  <2> USE DEF B
  <2>5. s \in SUBSET S /\ s \in SUBSET T
    OBVIOUS
  <2>2. t[s] = IF s = {} THEN 0 ELSE f[Pick(s)] + t[s \ {Pick(s)}]
    BY <2>5, AddingAt
  <2>3. u[s] = IF s = {} THEN 0 ELSE f[Pick(s)] + u[s \ {Pick(s)}]
    BY <2>5, AddingAt
  <2>4. s # {} => t[s \ {Pick(s)}] = u[s \ {Pick(s)}]
    BY <2>1, PickIn
  <2> QED
    BY <2>1, <2>2, <2>3, <2>4
<1> QED
  BY <1>1

(* So one of them gives the totals of all the parts.                       *)
LEMMA AddingBelow ==
  ASSUME NEW f, NEW S, NEW t, Adding(f, S, t), NEW s \in SUBSET S, IsFiniteSet(S)
  PROVE  Total(f, s) = t[s]
<1> DEFINE u == [v \in SUBSET s |-> t[v]]
<1>1. Adding(f, s, u)
  <2>1. ASSUME NEW v \in SUBSET s
        PROVE  u[v] = IF v = {} THEN 0 ELSE f[Pick(v)] + u[v \ {Pick(v)}]
    BY AddingAt
  <2>2. u = [v \in SUBSET s |-> IF v = {} THEN 0 ELSE f[Pick(v)] + u[v \ {Pick(v)}]]
    BY <2>1
  <2> HIDE DEF u
  <2> QED
    BY <2>2 DEF Adding
<1> HIDE DEF u
<1>2. Adding(f, s, CHOOSE v : Adding(f, s, v))
  BY <1>1
<1>3. IsFiniteSet(s)
  BY FS_Subset
<1> QED
  BY <1>2, <1>3, TotalDef, AddingUnique

(* Then a total is one element and the total of the others.                *)
LEMMA TotalStep ==
  ASSUME NEW f, NEW S, NEW t, Adding(f, S, t), IsFiniteSet(S)
  PROVE  Total(f, S) = IF S = {} THEN 0 ELSE f[Pick(S)] + Total(f, S \ {Pick(S)})
<1>1. Total(f, S) = t[S] /\ Total(f, S \ {Pick(S)}) = t[S \ {Pick(S)}]
  BY AddingBelow
<1> QED
  BY <1>1, AddingAt

(* And there is one over every finite set: else there would be a least set *)
(* without.                                                                *)
LEMMA AddingExists ==
  ASSUME NEW f, NEW S, IsFiniteSet(S)
  PROVE  \E t : Adding(f, S, t)
<1> DEFINE B == {s \in SUBSET S : ~\E t : Adding(f, s, t)}
<1> SUFFICES ASSUME B # {} PROVE FALSE
  OBVIOUS
<1>0. B \in SUBSET (SUBSET S)
  OBVIOUS
<1> HIDE DEF B
<1>1. PICK s \in B : \A v \in SUBSET s : v # s => v \notin B
  BY <1>0, LeastSet
<1> USE DEF B
<1> DEFINE t == [v \in SUBSET s |-> IF v = {} THEN 0 ELSE f[Pick(v)] + Total(f, v \ {Pick(v)})]
<1>2. ASSUME NEW v \in SUBSET s, v # s
      PROVE  t[v] = Total(f, v)
  <2>1. PICK u : Adding(f, v, u)
    BY <1>1, <1>2
  <2>2. IsFiniteSet(v)
    BY FS_Subset
  <2> QED
    BY <2>1, <2>2, TotalStep
<1>3. ASSUME NEW v \in SUBSET s
      PROVE  t[v] = IF v = {} THEN 0 ELSE f[Pick(v)] + t[v \ {Pick(v)}]
  BY <1>2, PickIn
<1>4. t = [v \in SUBSET s |-> IF v = {} THEN 0 ELSE f[Pick(v)] + t[v \ {Pick(v)}]]
  BY <1>3
<1> HIDE DEF t
<1>5. Adding(f, s, t)
  BY <1>4 DEF Adding
<1> QED
  BY <1>5

(* A sum is what it should be: that of nothing, or of one and the others.  *)
LEMMA TotalEmpty == ASSUME NEW f PROVE Total(f, {}) = 0
<1>1. IsFiniteSet({})
  BY FS_EmptySet
<1> QED
  BY <1>1, AddingExists, TotalStep

(* The one, and the others.                                                *)
LEMMA TotalNext ==
  ASSUME NEW f, NEW S, IsFiniteSet(S), S # {}
  PROVE  Pick(S) \in S /\ Total(f, S) = f[Pick(S)] + Total(f, S \ {Pick(S)})
BY AddingExists, TotalStep, PickIn

Natural(f, S) == \A x \in S : f[x] \in Nat

(* Of natural numbers it is one.                                           *)
LEMMA TotalNat ==
  ASSUME NEW f, NEW S, IsFiniteSet(S), Natural(f, S)
  PROVE  Total(f, S) \in Nat
<1> DEFINE B == {s \in SUBSET S : Total(f, s) \notin Nat}
<1> SUFFICES ASSUME B # {} PROVE FALSE
  OBVIOUS
<1>1. B \in SUBSET (SUBSET S)
  OBVIOUS
<1> HIDE DEF B
<1>2. PICK s \in B : \A u \in SUBSET s : u # s => u \notin B
  BY <1>1, LeastSet
<1>3. s \in SUBSET S /\ Total(f, s) \notin Nat /\ IsFiniteSet(s)
  BY <1>2, FS_Subset DEF B
<1>4. s # {} /\ Pick(s) \in s /\ Total(f, s) = f[Pick(s)] + Total(f, s \ {Pick(s)})
  <2>1. Total(f, {}) \in Nat
    BY TotalEmpty
  <2> QED
    BY <1>3, <2>1, TotalNext
<1>5. Total(f, s \ {Pick(s)}) \in Nat
  BY <1>2, <1>3, <1>4 DEF B
<1> QED
  BY <1>3, <1>4, <1>5 DEF Natural

(* It depends on the values on the set alone,                              *)
LEMMA TotalSame ==
  ASSUME NEW f, NEW g, NEW S, IsFiniteSet(S), \A x \in S : f[x] = g[x]
  PROVE  Total(f, S) = Total(g, S)
<1> DEFINE B == {s \in SUBSET S : Total(f, s) # Total(g, s)}
<1> SUFFICES ASSUME B # {} PROVE FALSE
  OBVIOUS
<1>1. B \in SUBSET (SUBSET S)
  OBVIOUS
<1> HIDE DEF B
<1>2. PICK s \in B : \A u \in SUBSET s : u # s => u \notin B
  BY <1>1, LeastSet
<1>3. s \in SUBSET S /\ Total(f, s) # Total(g, s) /\ IsFiniteSet(s)
  BY <1>2, FS_Subset DEF B
<1>4. s # {} /\ Pick(s) \in s /\ Total(f, s) = f[Pick(s)] + Total(f, s \ {Pick(s)})
      /\ Total(g, s) = g[Pick(s)] + Total(g, s \ {Pick(s)})
  <2>1. Total(f, {}) = Total(g, {})
    BY TotalEmpty
  <2> QED
    BY <1>3, <2>1, TotalNext
<1>5. Total(f, s \ {Pick(s)}) = Total(g, s \ {Pick(s)})
  BY <1>2, <1>3, <1>4 DEF B
<1> QED
  BY <1>3, <1>4, <1>5

(* not on the element that is taken first;                                 *)
LEMMA TotalWithout ==
  ASSUME NEW f, NEW S, IsFiniteSet(S), Natural(f, S), NEW x \in S
  PROVE  Total(f, S) = f[x] + Total(f, S \ {x})
<1> DEFINE B == {s \in SUBSET S : \E y \in s : Total(f, s) # f[y] + Total(f, s \ {y})}
<1> SUFFICES ASSUME B # {} PROVE FALSE
  OBVIOUS
<1>1. B \in SUBSET (SUBSET S)
  OBVIOUS
<1> HIDE DEF B
<1>2. PICK s \in B : \A u \in SUBSET s : u # s => u \notin B
  BY <1>1, LeastSet
<1>3. PICK y \in s : Total(f, s) # f[y] + Total(f, s \ {y})
  BY <1>2 DEF B
<1>4. s \in SUBSET S /\ IsFiniteSet(s)
  BY <1>2, FS_Subset DEF B
<1>5. PICK c \in s : Total(f, s) = f[c] + Total(f, s \ {c})
  BY <1>3, <1>4, TotalNext
<1>6. c # y
  BY <1>3, <1>5
<1>7. ASSUME NEW u \in SUBSET s, u # s, NEW z \in u
      PROVE  Total(f, u) = f[z] + Total(f, u \ {z})
  BY <1>2, <1>4, <1>7 DEF B
<1> DEFINE r == s \ {c, y}
<1>8. Total(f, s \ {c}) = f[y] + Total(f, r)
  <2>1. s \ {c} \in SUBSET s /\ s \ {c} # s /\ y \in s \ {c} /\ r = (s \ {c}) \ {y}
    BY <1>6
  <2> QED
    BY <2>1, <1>7
<1>9. Total(f, s \ {y}) = f[c] + Total(f, r)
  <2>1. s \ {y} \in SUBSET s /\ s \ {y} # s /\ c \in s \ {y} /\ r = (s \ {y}) \ {c}
    BY <1>6
  <2> QED
    BY <2>1, <1>7
<1>10. Total(f, r) \in Nat /\ f[c] \in Nat /\ f[y] \in Nat
  <2>1. IsFiniteSet(r) /\ Natural(f, r)
    BY <1>4, FS_Subset DEF Natural
  <2> QED
    BY <1>4, <2>1, TotalNat DEF Natural
<1> QED
  BY <1>3, <1>5, <1>8, <1>9, <1>10

(* an element more adds its value,                                         *)
LEMMA TotalWith ==
  ASSUME NEW f, NEW S, IsFiniteSet(S), NEW x, x \notin S, Natural(f, S \union {x})
  PROVE  Total(f, S \union {x}) = f[x] + Total(f, S)
<1>1. IsFiniteSet(S \union {x}) /\ (S \union {x}) \ {x} = S
  BY FS_AddElement
<1> QED
  BY <1>1, TotalWithout

(* a change of one value changes it by as much,                            *)
LEMMA TotalChanged ==
  ASSUME NEW f, NEW g, NEW S, IsFiniteSet(S), Natural(f, S), Natural(g, S), NEW x \in S,
         \A y \in S \ {x} : f[y] = g[y]
  PROVE  Total(g, S) + f[x] = Total(f, S) + g[x]
<1>1. IsFiniteSet(S \ {x}) /\ Natural(f, S \ {x})
  BY FS_Subset DEF Natural
<1>2. Total(f, S \ {x}) = Total(g, S \ {x}) /\ Total(f, S \ {x}) \in Nat
  BY <1>1, TotalSame, TotalNat
<1>3. Total(f, S) = f[x] + Total(f, S \ {x}) /\ Total(g, S) = g[x] + Total(g, S \ {x})
  BY TotalWithout
<1> QED
  BY <1>2, <1>3 DEF Natural

(* the sum of two is the sum of their totals,                              *)
LEMMA TotalPlus ==
  ASSUME NEW f, NEW g, NEW h, NEW S, IsFiniteSet(S), Natural(f, S), Natural(g, S),
         \A x \in S : h[x] = f[x] + g[x]
  PROVE  Total(h, S) = Total(f, S) + Total(g, S)
<1> DEFINE B == {s \in SUBSET S : Total(h, s) # Total(f, s) + Total(g, s)}
<1> SUFFICES ASSUME B # {} PROVE FALSE
  OBVIOUS
<1>1. B \in SUBSET (SUBSET S)
  OBVIOUS
<1> HIDE DEF B
<1>2. PICK s \in B : \A u \in SUBSET s : u # s => u \notin B
  BY <1>1, LeastSet
<1>3. s \in SUBSET S /\ Total(h, s) # Total(f, s) + Total(g, s) /\ IsFiniteSet(s)
  BY <1>2, FS_Subset DEF B
<1>4. s # {}
  <2>1. Total(f, {}) = 0 /\ Total(g, {}) = 0 /\ Total(h, {}) = 0
    BY TotalEmpty
  <2> QED
    BY <1>3, <2>1
<1>5. PICK x \in s : TRUE
  BY <1>4
<1> DEFINE r == s \ {x}
<1>6. IsFiniteSet(r) /\ Natural(f, r) /\ Natural(g, r) /\ Natural(f, s) /\ Natural(g, s)
      /\ Natural(h, s)
  BY <1>3, FS_Subset DEF Natural
<1>7. Total(h, r) = Total(f, r) + Total(g, r)
  BY <1>2, <1>3, <1>5 DEF B
<1>8. Total(f, s) = f[x] + Total(f, r) /\ Total(g, s) = g[x] + Total(g, r)
      /\ Total(h, s) = h[x] + Total(h, r)
  BY <1>3, <1>6, TotalWithout
<1>9. Total(f, r) \in Nat /\ Total(g, r) \in Nat /\ f[x] \in Nat /\ g[x] \in Nat /\ h[x] = f[x] + g[x]
  BY <1>3, <1>6, TotalNat DEF Natural
<1> QED
  BY <1>3, <1>7, <1>8, <1>9

(* of a constant it is a multiple,                                         *)
LEMMA TotalConstant ==
  ASSUME NEW f, NEW S, IsFiniteSet(S), NEW n \in Nat, \A x \in S : f[x] = n
  PROVE  Total(f, S) = n * Cardinality(S)
<1> DEFINE B == {s \in SUBSET S : Total(f, s) # n * Cardinality(s)}
<1> SUFFICES ASSUME B # {} PROVE FALSE
  OBVIOUS
<1>1. B \in SUBSET (SUBSET S)
  OBVIOUS
<1> HIDE DEF B
<1>2. PICK s \in B : \A u \in SUBSET s : u # s => u \notin B
  BY <1>1, LeastSet
<1>3. s \in SUBSET S /\ Total(f, s) # n * Cardinality(s) /\ IsFiniteSet(s)
  BY <1>2, FS_Subset DEF B
<1>4. s # {}
  <2>1. Total(f, {}) = 0 /\ n * 0 = 0
    BY TotalEmpty
  <2> QED
    BY <1>3, <2>1, FS_EmptySet
<1>5. PICK x \in s : TRUE
  BY <1>4
<1> DEFINE r == s \ {x}
<1>6. IsFiniteSet(r) /\ Cardinality(r) = Cardinality(s) - 1 /\ Cardinality(s) \in Nat
  BY <1>3, FS_RemoveElement, FS_CardinalityType
<1>7. Total(f, r) = n * Cardinality(r)
  BY <1>2, <1>3, <1>5 DEF B
<1>8. Total(f, s) = n + Total(f, r)
  <2>1. Natural(f, s)
    BY <1>3 DEF Natural
  <2> QED
    BY <1>3, <2>1, TotalWithout
<1>9. n * (Cardinality(s) - 1) + n = n * Cardinality(s)
  BY <1>6
<1>10. n * Cardinality(r) \in Nat /\ n * Cardinality(s) \in Nat
  BY <1>6, FS_CardinalityType
<1> QED
  BY <1>3, <1>6, <1>7, <1>8, <1>9, <1>10

(* a part and the rest make up the whole,                                  *)
LEMMA TotalApart ==
  ASSUME NEW f, NEW S, IsFiniteSet(S), Natural(f, S), NEW R \in SUBSET S
  PROVE  Total(f, S) = Total(f, R) + Total(f, S \ R)
<1> DEFINE B == {s \in SUBSET S : Total(f, S) # Total(f, s) + Total(f, S \ s)}
<1> SUFFICES ASSUME B # {} PROVE FALSE
  OBVIOUS
<1>1. B \in SUBSET (SUBSET S)
  OBVIOUS
<1> HIDE DEF B
<1>2. PICK s \in B : \A u \in SUBSET s : u # s => u \notin B
  BY <1>1, LeastSet
<1>3. s \in SUBSET S /\ Total(f, S) # Total(f, s) + Total(f, S \ s) /\ IsFiniteSet(s)
  BY <1>2, FS_Subset DEF B
<1>4. s # {}
  <2>1. Total(f, {}) = 0 /\ S \ {} = S /\ Total(f, S) \in Nat
    BY TotalEmpty, TotalNat
  <2> QED
    BY <1>3, <2>1
<1>5. PICK x \in s : TRUE
  BY <1>4
<1> DEFINE r == s \ {x}
           q == S \ s
<1>6. IsFiniteSet(q) /\ IsFiniteSet(r) /\ Natural(f, s) /\ Natural(f, r) /\ Natural(f, q)
      /\ Natural(f, q \union {x}) /\ x \notin q
      /\ S \ r = q \union {x}
  BY <1>3, FS_Subset DEF Natural
<1>7. Total(f, S) = Total(f, r) + Total(f, S \ r)
  BY <1>2, <1>3, <1>5 DEF B
<1>8. Total(f, s) = f[x] + Total(f, r) /\ Total(f, q \union {x}) = f[x] + Total(f, q)
  BY <1>3, <1>6, TotalWithout, TotalWith
<1>9. Total(f, r) \in Nat /\ Total(f, q) \in Nat /\ f[x] \in Nat
  BY <1>3, <1>6, TotalNat DEF Natural
<1> HIDE DEF q, r
<1> QED
  BY <1>3, <1>6, <1>7, <1>8, <1>9 DEF q

(* and what has less everywhere has no larger total.                       *)
LEMMA TotalBelow ==
  ASSUME NEW f, NEW g, NEW S, IsFiniteSet(S), Natural(f, S), Natural(g, S), \A x \in S : f[x] <= g[x]
  PROVE  Total(f, S) <= Total(g, S)
<1> DEFINE h == [x \in S |-> g[x] - f[x]]
<1>1. Natural(h, S) /\ \A x \in S : g[x] = f[x] + h[x]
  BY DEF Natural
<1> HIDE DEF h
<1>2. Total(g, S) = Total(f, S) + Total(h, S)
  BY <1>1, TotalPlus
<1>3. Total(f, S) \in Nat /\ Total(h, S) \in Nat
  BY <1>1, TotalNat
<1> QED
  BY <1>2, <1>3

(* What each of the owners in P has of R makes up the whole.               *)
LEMMA TotalByOwner ==
  ASSUME NEW f, NEW R, NEW P, IsFiniteSet(R), IsFiniteSet(P), Natural(f, R), \A r \in R : r.owner \in P
  PROVE  Total([p \in P |-> Total(f, {r \in R : r.owner = p})], P) = Total(f, R)
<1> DEFINE G(s) == [p \in P |-> Total(f, {r \in s : r.owner = p})]
           B == {s \in SUBSET R : Total(G(s), P) # Total(f, s)}
<1> SUFFICES ASSUME B # {} PROVE FALSE
  OBVIOUS
<1>1. B \in SUBSET (SUBSET R)
  OBVIOUS
<1> HIDE DEF B
<1>2. PICK s \in B : \A u \in SUBSET s : u # s => u \notin B
  BY <1>1, LeastSet
<1>3. s \in SUBSET R /\ Total(G(s), P) # Total(f, s) /\ IsFiniteSet(s)
  BY <1>2, FS_Subset DEF B
<1>14. ASSUME NEW u \in SUBSET R
      PROVE  Natural(G(u), P) /\ \A p \in P : G(u)[p] = Total(f, {r \in u : r.owner = p})
  <2>1. ASSUME NEW p \in P PROVE Total(f, {r \in u : r.owner = p}) \in Nat
    <3>1. IsFiniteSet({r \in u : r.owner = p}) /\ Natural(f, {r \in u : r.owner = p})
      BY FS_Subset DEF Natural
    <3> QED
      BY <3>1, TotalNat
  <2> QED
    BY <2>1 DEF Natural
<1>4. s # {}
  <2> SUFFICES ASSUME s = {} PROVE FALSE
    OBVIOUS
  <2>1. \A p \in P : G(s)[p] = 0
    <3>1. {r \in {} : TRUE} = {}
      OBVIOUS
    <3>2. ASSUME NEW p \in P PROVE {r \in s : r.owner = p} = {}
      OBVIOUS
    <3> QED
      BY <1>3, <1>14, <3>2, TotalEmpty
  <2>2. Total(f, s) = 0
    BY TotalEmpty
  <2>3. Total(G(s), P) = 0 * Cardinality(P)
    <3> HIDE DEF G
    <3> QED
      BY <2>1, TotalConstant
  <2> QED
    BY <1>3, <2>2, <2>3, FS_CardinalityType
<1>5. PICK x \in s : TRUE
  BY <1>4
<1> DEFINE u == s \ {x}
           o == x.owner
<1>6. o \in P /\ u \in SUBSET R /\ IsFiniteSet(u) /\ Natural(f, s) /\ Natural(f, u) /\ f[x] \in Nat
  BY <1>3, FS_Subset DEF Natural
<1>7. Total(G(u), P) = Total(f, u)
  BY <1>2, <1>3, <1>5 DEF B
<1>8. Total(f, s) = f[x] + Total(f, u)
  BY <1>3, <1>6, TotalWithout
<1>9. \A p \in P \ {o} : G(u)[p] = G(s)[p]
  <2> SUFFICES ASSUME NEW p \in P \ {o} PROVE G(u)[p] = G(s)[p]
    OBVIOUS
  <2>1. {r \in u : r.owner = p} = {r \in s : r.owner = p}
    OBVIOUS
  <2> QED
    BY <1>3, <1>6, <1>14, <2>1
<1>10. G(s)[o] = f[x] + G(u)[o]
  <2> DEFINE mine == {r \in u : r.owner = o}
  <2>1. {r \in s : r.owner = o} = mine \union {x} /\ x \notin mine
    BY <1>5
  <2>2. IsFiniteSet(mine) /\ Natural(f, mine \union {x})
    BY <1>3, <1>6, FS_Subset DEF Natural
  <2>3. Total(f, mine \union {x}) = f[x] + Total(f, mine)
    BY <2>1, <2>2, TotalWith
  <2> QED
    BY <1>3, <1>6, <1>14, <2>1, <2>3
<1>11. Natural(G(u), P) /\ Natural(G(s), P)
  BY <1>3, <1>6, <1>14
<1> HIDE DEF G, u, o
<1>12. Total(G(s), P) + G(u)[o] = Total(G(u), P) + G(s)[o]
  BY <1>6, <1>9, <1>11, TotalChanged
<1>13. Total(G(s), P) \in Nat /\ Total(G(u), P) \in Nat /\ G(u)[o] \in Nat
  BY <1>6, <1>11, TotalNat DEF Natural
<1> QED
  BY <1>3, <1>6, <1>7, <1>8, <1>10, <1>12, <1>13

-----------------------------------------------------------------------------
(* The tree of items, f giving the parent of each.  Over(f, i) is what     *)
(* Above(i) is for f = parent: the containers around i.                    *)
Upward(f, i, S) == \A j \in S \union {i} : f[j] \in Containers => f[j] \in S
Over(f, i) == {c \in Containers : \A S \in SUBSET Containers : Upward(f, i, S) => c \in S}
Path(f, i) == Over(f, i) \union {i}

(* Every way up ends outside the items: nothing is in itself.              *)
Rooted(f) == \A i \in Items : \E j \in Path(f, i) : f[j] \notin Containers

(* The containers around an item are a set that misses none.               *)
LEMMA OverUpward ==
  ASSUME NEW f, NEW i
  PROVE  Over(f, i) \subseteq Containers /\ Upward(f, i, Over(f, i))
BY DEF Over, Upward

(* They are the smallest such set.                                         *)
LEMMA OverLeast ==
  ASSUME NEW f, NEW i, NEW S \in SUBSET Containers, Upward(f, i, S)
  PROVE  Over(f, i) \subseteq S
BY DEF Over

(* What is around a container around i is around i.                        *)
LEMMA OverTransitive ==
  ASSUME NEW f, NEW i, NEW c \in Over(f, i)
  PROVE  Over(f, c) \subseteq Over(f, i)
<1>1. Over(f, i) \in SUBSET Containers
  BY OverUpward
<1>2. Upward(f, c, Over(f, i))
  BY OverUpward DEF Upward
<1> QED
  BY <1>1, <1>2, OverLeast

(* One step up.                                                            *)
LEMMA OverStep ==
  ASSUME NEW f, NEW i
  PROVE  /\ f[i] \in Containers => Over(f, i) = {f[i]} \union Over(f, f[i])
         /\ f[i] \notin Containers => Over(f, i) = {}
<1>1. ASSUME f[i] \in Containers
      PROVE  Over(f, i) = {f[i]} \union Over(f, f[i])
  <2>1. f[i] \in Over(f, i)
    BY <1>1, OverUpward DEF Upward
  <2>2. Over(f, f[i]) \subseteq Over(f, i)
    BY <2>1, OverTransitive
  <2> DEFINE S == {f[i]} \union Over(f, f[i])
  <2>3. S \in SUBSET Containers
    BY <1>1, OverUpward
  <2>4. Upward(f, i, S)
    BY OverUpward DEF Upward
  <2>5. Over(f, i) \subseteq S
    BY <2>3, <2>4, OverLeast
  <2> QED
    BY <2>1, <2>2, <2>5
<1>2. ASSUME f[i] \notin Containers
      PROVE  Over(f, i) = {}
  <2>1. Upward(f, i, {})
    BY <1>2 DEF Upward
  <2> QED
    BY <2>1, OverLeast
<1> QED
  BY <1>1, <1>2

(* A way up goes through the parents of what is on it.                     *)
LEMMA OverParents ==
  ASSUME NEW f, NEW i, NEW c \in Over(f, i)
  PROVE  \E j \in Path(f, i) : f[j] = c
<1> DEFINE S == {d \in Over(f, i) : \E j \in Path(f, i) : f[j] = d}
<1>1. S \in SUBSET Containers
  BY OverUpward
<1>2. Upward(f, i, S)
  BY OverUpward DEF Upward, Path
<1> QED
  BY <1>1, <1>2, OverLeast

(* Of two places on one way up, one is around the other.                   *)
LEMMA OverLinear ==
  ASSUME NEW f, NEW i, NEW m \in Path(f, i), NEW c \in Path(f, i)
  PROVE  c = m \/ m \in Over(f, c) \/ c \in Over(f, m)
<1> DEFINE S == {d \in Over(f, i) : d = m \/ m \in Over(f, d) \/ d \in Over(f, m)}
<1>1. S \in SUBSET Containers
  BY OverUpward
<1>2. ASSUME NEW j \in S \union {i}, f[j] \in Containers
      PROVE  f[j] \in S
  <2>1. f[j] \in Over(f, i)
    BY <1>2, OverUpward DEF Upward
  <2>2. Over(f, j) = {f[j]} \union Over(f, f[j])
    BY <1>2, OverStep
  <2>3. j = m \/ m \in Over(f, j) \/ j \in Over(f, m)
    BY <1>2 DEF Path
  <2>4. j \in Over(f, m) => f[j] \in Over(f, m)
    BY <1>2, OverUpward DEF Upward
  <2> QED
    BY <2>1, <2>2, <2>3, <2>4
<1>3. Upward(f, i, S)
  BY <1>2 DEF Upward
<1>4. Over(f, i) \subseteq S
  BY <1>1, <1>3, OverLeast
<1> QED
  BY <1>4 DEF Path

(* Nothing is in itself.                                                   *)
LEMMA OverAcyclic ==
  ASSUME NEW f, Rooted(f), NEW i \in Items
  PROVE  i \notin Over(f, i)
<1> SUFFICES ASSUME i \in Over(f, i) PROVE FALSE
  OBVIOUS
<1> DEFINE S == {c \in Over(f, i) : c \in Over(f, c)}
<1>1. S \in SUBSET Containers
  BY OverUpward
<1>2. ASSUME NEW j \in S \union {i}, f[j] \in Containers
      PROVE  f[j] \in S
  <2>1. f[j] \in Over(f, i)
    BY <1>2, OverUpward DEF Upward
  <2>2. Over(f, j) = {f[j]} \union Over(f, f[j])
    BY <1>2, OverStep
  <2>3. j \in Over(f, j)
    BY <1>2
  <2>4. f[j] \in Over(f, f[j])
    <3>1. CASE j = f[j]
      BY <2>3, <3>1
    <3>2. CASE j \in Over(f, f[j])
      BY <1>2, <2>2, <3>2, OverTransitive
    <3> QED
      BY <2>2, <2>3, <3>1, <3>2
  <2> QED
    BY <2>1, <2>4
<1>3. Over(f, i) \subseteq S
  BY <1>1, <1>2, OverLeast DEF Upward
<1>4. PICK j \in Path(f, i) : f[j] \notin Containers
  BY DEF Rooted
<1>5. Over(f, j) = {}
  BY <1>4, OverStep
<1> QED
  BY <1>3, <1>4, <1>5 DEF Path

(* What is on the way up has its way up within it.                         *)
LEMMA PathSuffix ==
  ASSUME NEW f, NEW i, NEW c \in Path(f, i)
  PROVE  Path(f, c) \subseteq Path(f, i)
BY OverTransitive DEF Path

(* Only one of them has a parent that is no container.                     *)
LEMMA OneEnd ==
  ASSUME NEW f, NEW i, NEW j \in Path(f, i), NEW k \in Path(f, i),
         f[j] \notin Containers, f[k] \notin Containers
  PROVE  j = k
<1>1. Over(f, j) = {} /\ Over(f, k) = {}
  BY OverStep
<1> QED
  BY <1>1, OverLinear

-----------------------------------------------------------------------------
(* Moving.  What has no part in it has its way up unchanged.               *)
LEMMA AsideStays ==
  ASSUME NEW f, NEW g, NEW i, \A j \in Path(f, i) : g[j] = f[j]
  PROVE  Over(g, i) = Over(f, i)
<1>1. Upward(g, i, Over(f, i))
  BY OverUpward DEF Upward, Path
<1>2. Over(g, i) \subseteq Over(f, i)
  BY <1>1, OverUpward, OverLeast
<1>3. Upward(f, i, Over(g, i))
  BY <1>2, OverUpward DEF Upward, Path
<1>4. Over(f, i) \subseteq Over(g, i)
  BY <1>3, OverUpward, OverLeast
<1> QED
  BY <1>2, <1>4

(* g is f after m was moved into d, which is not in m.                     *)
Moves(f, g, m, d) ==
  /\ m \in Items /\ \A j \in Items : g[j] = IF j = m THEN d ELSE f[j]
  /\ d \in Containers => m \notin Path(f, d)

(* What leads up to m still does.                                          *)
LEMMA BelowStays ==
  ASSUME TradeAssumption, NEW f, NEW g, NEW m, NEW d, Moves(f, g, m, d),
         NEW i \in Items, m \in Path(f, i)
  PROVE  m \in Path(g, i)
<1> SUFFICES ASSUME m \notin Path(g, i) PROVE FALSE
  OBVIOUS
<1>1. \A j \in Path(g, i) : f[j] = g[j]
  BY OverUpward DEF Moves, Path, TradeAssumption
<1>2. Over(f, i) = Over(g, i)
  BY <1>1, AsideStays
<1> QED
  BY <1>2 DEF Path

(* The way up from m is now that from d.                                   *)
LEMMA AboveMoved ==
  ASSUME TradeAssumption, NEW f, NEW g, NEW m, NEW d, Moves(f, g, m, d)
  PROVE  Over(g, m) = IF d \in Containers THEN Path(f, d) ELSE {}
<1>1. g[m] = d
  BY DEF Moves
<1>2. CASE d \in Containers
  <2>1. \A j \in Path(f, d) : g[j] = f[j]
    BY <1>2, OverUpward DEF Moves, Path, TradeAssumption
  <2>2. Over(g, d) = Over(f, d)
    BY <2>1, AsideStays
  <2> QED
    BY <1>1, <1>2, <2>2, OverStep DEF Path
<1>3. CASE d \notin Containers
  BY <1>1, <1>3, OverStep
<1> QED
  BY <1>2, <1>3

(* A move leaves the tree rooted.                                          *)
LEMMA MoveKeepsRooted ==
  ASSUME TradeAssumption, NEW f, NEW g, NEW m, NEW d, Moves(f, g, m, d), Rooted(f)
  PROVE  Rooted(g)
<1> SUFFICES ASSUME NEW i \in Items PROVE \E j \in Path(g, i) : g[j] \notin Containers
  BY DEF Rooted
<1>1. CASE m \notin Path(f, i)
  <2>1. \A j \in Path(f, i) : g[j] = f[j]
    BY <1>1, OverUpward DEF Moves, Path, TradeAssumption
  <2>2. Path(g, i) = Path(f, i)
    BY <2>1, AsideStays DEF Path
  <2> QED
    BY <2>1, <2>2 DEF Rooted
<1>2. CASE m \in Path(f, i)
  <2>1. m \in Path(g, i)
    BY <1>2, BelowStays
  <2>2. Path(g, m) \subseteq Path(g, i)
    BY <2>1, PathSuffix
  <2>3. CASE d \notin Containers
    BY <2>1, <2>3 DEF Moves
  <2>4. CASE d \in Containers
    <3>1. PICK j \in Path(f, d) : f[j] \notin Containers
      BY <2>4 DEF Rooted, TradeAssumption
    <3>2. j \in Items /\ j # m
      BY <2>4, <3>1, OverUpward DEF Moves, Path, TradeAssumption
    <3>3. j \in Path(g, i)
      BY <2>2, <2>4, <3>1, AboveMoved DEF Path
    <3> QED
      BY <3>1, <3>2, <3>3 DEF Moves
  <2> QED
    BY <2>3, <2>4
<1> QED
  BY <1>1, <1>2

(* i lies where it lay, and has in it what it had.                         *)
Untouched(f, g, i) ==
  /\ Over(g, i) = Over(f, i)
  /\ \A j \in Path(f, i) : g[j] = f[j]
  /\ \A k \in Items : i \in Over(g, k) <=> i \in Over(f, k)

(* A move that neither takes away what is around i, nor i, nor what is in  *)
(* it, and does not end in i, leaves i and its contents alone.             *)
LEMMA MoveAside ==
  ASSUME TradeAssumption, NEW f, NEW g, NEW m, NEW d, Moves(f, g, m, d),
         NEW i \in Items, m \notin Path(f, i), i \notin Path(f, m),
         d \in Containers => i \notin Path(f, d)
  PROVE  Untouched(f, g, i)
<1>1. \A j \in Path(f, i) : g[j] = f[j]
  BY OverUpward DEF Moves, Path, TradeAssumption
<1>2. Over(g, i) = Over(f, i)
  BY <1>1, AsideStays
<1>3. ASSUME NEW k \in Items
      PROVE  i \in Over(g, k) <=> i \in Over(f, k)
  <2>1. CASE m \notin Path(f, k)
    <3>1. \A j \in Path(f, k) : g[j] = f[j]
      BY <2>1, OverUpward DEF Moves, Path, TradeAssumption
    <3> QED
      BY <3>1, AsideStays
  <2>2. CASE m \in Path(f, k)
    <3>1. i \notin Over(f, k)
      BY <2>2, OverLinear DEF Path
    <3>2. m \in Path(g, k)
      BY <2>2, BelowStays
    <3>3. i \notin Over(g, m)
      BY AboveMoved
    <3>4. m \notin Over(g, i) /\ i # m
      BY <1>2 DEF Path
    <3>5. i \notin Over(g, k)
      BY <3>2, <3>3, <3>4, OverLinear DEF Path
    <3> QED
      BY <3>1, <3>5
  <2> QED
    BY <2>1, <2>2
<1> QED
  BY <1>1, <1>2, <1>3 DEF Untouched

-----------------------------------------------------------------------------
(* The operators of Trade in these terms.                                  *)
Parents == Traders \union Places \union Containers \union {Nowhere}
Forest(f) == f \in [Items -> Parents] /\ Rooted(f)

AroundIn(f, i) == {i} \union {f[j] : j \in Path(f, i)}
HoldsIn(f, c, i) == c # i /\ c \in AroundIn(f, i)
RootIn(f, i) == CHOOSE x \in AroundIn(f, i) : x \notin Items
PositionIn(f, a, i) == IF RootIn(f, i) \in Traders THEN a[RootIn(f, i)] ELSE RootIn(f, i)

(* What Trade says of its variables, and of their next values.             *)
LEMMA Transcribed ==
  /\ \A i : Around(i) = AroundIn(parent, i) /\ Around(i)' = AroundIn(parent', i)
  /\ \A c, i : Holds(c, i) = HoldsIn(parent, c, i) /\ Holds(c, i)' = HoldsIn(parent', c, i)
  /\ \A i : Root(i) = RootIn(parent, i) /\ Root(i)' = RootIn(parent', i)
  /\ \A i : /\ Position(i) = PositionIn(parent, at, i)
            /\ Position(i)' = PositionIn(parent', at', i)
<1>1. \A i : Around(i) = AroundIn(parent, i) /\ Around(i)' = AroundIn(parent', i)
  BY DEF Around, AroundIn, Above, WayUp, Path, Over, Upward
<1>2. \A i : Root(i) = RootIn(parent, i) /\ Root(i)' = RootIn(parent', i)
  BY <1>1 DEF Root, RootIn
<1>3. \A c, i : Holds(c, i) = HoldsIn(parent, c, i) /\ Holds(c, i)' = HoldsIn(parent', c, i)
  BY <1>1 DEF Holds, HoldsIn
<1>4. \A i : /\ Position(i) = PositionIn(parent, at, i)
             /\ Position(i)' = PositionIn(parent', at', i)
  BY <1>2 DEF Position, PositionIn
<1> QED
  BY <1>1, <1>2, <1>3, <1>4

(* An item lies in the end with a player, in a place or nowhere.           *)
LEMMA RootFacts ==
  ASSUME TradeAssumption, NEW f, Forest(f), NEW i \in Items
  PROVE  /\ RootIn(f, i) \in Traders \union Places \union {Nowhere}
         /\ \A j \in Path(f, i) : f[j] \notin Containers => RootIn(f, i) = f[j]
         /\ \A c \in Over(f, i) : RootIn(f, c) = RootIn(f, i)
<1>1. ASSUME NEW k \in Items
      PROVE  \E j \in Path(f, k) : /\ f[j] \notin Containers /\ RootIn(f, k) = f[j]
                                   /\ j \in Items
  <2>1. PICK j \in Path(f, k) : f[j] \notin Containers
    BY DEF Forest, Rooted
  <2>2. j \in Items /\ f[j] \notin Items
    BY <2>1, OverUpward DEF Path, Forest, Parents, TradeAssumption
  <2>3. \A x \in AroundIn(f, k) : x \notin Items => x = f[j]
    BY <2>1, OneEnd DEF TradeAssumption, AroundIn
  <2>4. RootIn(f, k) = f[j]
    BY <2>1, <2>2, <2>3 DEF RootIn, AroundIn
  <2> QED
    BY <2>1, <2>2, <2>4
<1>2. RootIn(f, i) \in Traders \union Places \union {Nowhere}
  BY <1>1 DEF Forest, Parents
<1>3. ASSUME NEW j \in Path(f, i), f[j] \notin Containers
      PROVE  RootIn(f, i) = f[j]
  BY <1>1, <1>3, OneEnd
<1>4. ASSUME NEW c \in Over(f, i)
      PROVE  RootIn(f, c) = RootIn(f, i)
  <2>1. c \in Items
    BY OverUpward DEF TradeAssumption
  <2>2. PICK j \in Path(f, c) : f[j] \notin Containers /\ RootIn(f, c) = f[j]
    BY <1>1, <2>1
  <2>3. j \in Path(f, i)
    BY <2>2, PathSuffix DEF Path
  <2> QED
    BY <1>3, <2>2, <2>3
<1> QED
  BY <1>2, <1>3, <1>4

(* To hold an item is to be a container on its way up.                     *)
LEMMA HoldsIsOver ==
  ASSUME TradeAssumption, NEW f, Forest(f), NEW c \in Items, NEW i \in Items
  PROVE  HoldsIn(f, c, i) <=> c \in Over(f, i)
<1>1. i \notin Over(f, i)
  BY OverAcyclic DEF Forest
<1>2. ASSUME c \in Over(f, i) PROVE c \in AroundIn(f, i)
  BY <1>2, OverParents DEF AroundIn
<1>3. ASSUME c \in AroundIn(f, i), c # i PROVE c \in Over(f, i)
  <2>1. PICK j \in Path(f, i) : f[j] = c
    BY <1>3 DEF AroundIn
  <2>2. j \in Items
    BY <2>1, OverUpward DEF Path, TradeAssumption
  <2>3. c \in Containers
    BY <2>1, <2>2 DEF Forest, Parents, TradeAssumption
  <2> QED
    BY <2>1, <2>3, OverUpward DEF Upward, Path
<1> QED
  BY <1>1, <1>2, <1>3 DEF HoldsIn

(* A move from where an item is to where it may be leaves a forest.        *)
LEMMA MoveKeepsForest ==
  ASSUME TradeAssumption, NEW f, Forest(f), NEW m \in Items, NEW d \in Parents,
         d \in Containers => m \notin Path(f, d)
  PROVE  Forest([f EXCEPT ![m] = d]) /\ Moves(f, [f EXCEPT ![m] = d], m, d)
<1> DEFINE g == [f EXCEPT ![m] = d]
<1>1. g \in [Items -> Parents]
  BY DEF Forest
<1>2. Moves(f, g, m, d)
  BY DEF Moves, Forest
<1>3. Rooted(g)
  BY <1>2, MoveKeepsRooted DEF Forest
<1> QED
  BY <1>1, <1>2, <1>3 DEF Forest

(* What is untouched lies with whom it lay.                                *)
LEMMA UntouchedRoot ==
  ASSUME NEW f, NEW g, NEW i, Untouched(f, g, i)
  PROVE  AroundIn(g, i) = AroundIn(f, i) /\ RootIn(g, i) = RootIn(f, i)
<1>1. Path(g, i) = Path(f, i) /\ \A j \in Path(f, i) : g[j] = f[j]
  BY DEF Untouched, Path
<1>2. AroundIn(g, i) = AroundIn(f, i)
  BY <1>1 DEF AroundIn
<1> QED
  BY <1>2 DEF RootIn

-----------------------------------------------------------------------------
(* What is true of the trades t, registered in r, of players who are at a  *)
(* with items that lie as f says.                                          *)
Mutual(t) ==
  \A p \in Traders :
    /\ t[p].state = "none" <=> t[p].partner = NoTrader
    /\ \A q \in Traders : t[p].partner = q => t[q].partner = p /\ p # q

Idle(t) == \A p \in Traders : t[p].state \in {"none", "acknowledge"} => t[p].item = NoItem

Registered(t, r) == \A i \in Items, p \in Traders : r[i] = p <=> t[p].item = i

Apart(f, t) ==
  \A p, q \in Traders :
    p # q /\ t[p].item # NoItem /\ t[q].item # NoItem =>
      t[p].item # t[q].item /\ t[p].item \notin Over(f, t[q].item)

AtHand(f, t, a) ==
  \A p \in Traders :
    /\ t[p].item # NoItem =>
         /\ RootIn(f, t[p].item) \in {p} \union Places
         /\ InRange(PositionIn(f, a, t[p].item), a[p], 1)
    /\ t[p].partner # NoTrader => InRange(a[t[p].partner], a[p], 2)

(* The inductive invariant: what the runs check, that who has not made an  *)
(* offer has none, and that no item is in itself.                          *)
Agreed(t, r) ==
  /\ t \in [Traders -> Trades] /\ r \in [Items -> Traders \union {NoTrader}]
  /\ Mutual(t) /\ Idle(t) /\ Registered(t, r)

IInv ==
  /\ Agreed(trade, tradeItems)
  /\ Forest(parent)
  /\ at \in [Traders -> Places \union {Nowhere}]
  /\ Apart(parent, trade)
  /\ AtHand(parent, trade, at)

(* internalCloseTrade takes whole trades away and leaves the others.       *)
LEMMA Closing ==
  ASSUME TradeAssumption, Agreed(trade, tradeItems), NEW S \in SUBSET Traders, Close(S)
  PROVE  /\ Agreed(trade', tradeItems')
         /\ \A p \in Traders : trade'[p] \in {trade[p], NoTrade}
         /\ \A p \in S : trade'[p] = NoTrade
<1> DEFINE all == Involved(S)
<1> USE DEF Agreed
<1>1. all \subseteq Traders /\ S \subseteq all
  BY DEF Involved, Trades
<1>2. \A p \in Traders : trade'[p] = IF p \in all THEN NoTrade ELSE trade[p]
  BY DEF Close, Reset
<1>3. NoTrade \in Trades
  BY DEF NoTrade, Trades
<1>4. trade' \in [Traders -> Trades]
  BY <1>3 DEF Close, Reset
<1>5. \A i \in Items :
        tradeItems'[i] = IF i \in {trade[p].item : p \in all} THEN NoTrader ELSE tradeItems[i]
  BY DEF Close, Unregistered
<1>6. tradeItems' \in [Items -> Traders \union {NoTrader}]
  BY DEF Close, Unregistered
<1>7. \A p \in all : trade[p].partner # NoTrader => trade[p].partner \in all
  BY <1>1 DEF Involved, Mutual, Trades
<1> HIDE DEF all
<1>8. Mutual(trade')
  <2> SUFFICES ASSUME NEW p \in Traders
               PROVE  /\ trade'[p].state = "none" <=> trade'[p].partner = NoTrader
                      /\ \A q \in Traders : trade'[p].partner = q =>
                           trade'[q].partner = p /\ p # q
    BY DEF Mutual
  <2>1. CASE p \in all
    BY <1>2, <2>1 DEF NoTrade, TradeAssumption
  <2>2. CASE p \notin all
    <3>1. trade'[p] = trade[p]
      BY <1>2, <2>2
    <3>2. ASSUME NEW q \in Traders, trade[p].partner = q
          PROVE  trade'[q] = trade[q]
      BY <1>2, <1>7, <2>2, <3>2 DEF Mutual, TradeAssumption
    <3> QED
      BY <3>1, <3>2 DEF Mutual
  <2> QED
    BY <2>1, <2>2
<1>9. Idle(trade')
  BY <1>2 DEF Idle, NoTrade
<1>10. Registered(trade', tradeItems')
  <2> SUFFICES ASSUME NEW i \in Items, NEW p \in Traders
               PROVE  tradeItems'[i] = p <=> trade'[p].item = i
    BY DEF Registered
  <2>1. ASSUME tradeItems'[i] = p PROVE trade'[p].item = i
    BY <1>2, <1>5, <2>1 DEF Registered, TradeAssumption
  <2>2. ASSUME trade'[p].item = i PROVE tradeItems'[i] = p
    <3>1. p \notin all /\ trade[p].item = i
      BY <1>2, <2>2 DEF NoTrade, TradeAssumption
    <3>2. \A q \in all : trade[q].item # i
      BY <1>1, <3>1 DEF Registered
    <3> QED
      BY <1>5, <3>1, <3>2 DEF Registered
  <2> QED
    BY <2>1, <2>2
<1> QED
  BY <1>1, <1>2, <1>4, <1>6, <1>8, <1>9, <1>10

(* If trades end and what is still offered is untouched, the other offers  *)
(* stay apart and at hand.                                                 *)
LEMMA OffersKept ==
  ASSUME TradeAssumption, NEW f, NEW g, NEW t, NEW u, NEW a,
         t \in [Traders -> Trades], Apart(f, t), AtHand(f, t, a),
         \A p \in Traders : u[p] \in {t[p], NoTrade},
         \A p \in Traders : u[p].item # NoItem => Untouched(f, g, u[p].item)
  PROVE  Apart(g, u) /\ AtHand(g, u, a)
<1>1. \A p \in Traders : u[p].item # NoItem => u[p] = t[p] /\ u[p].item \in Items
  BY DEF NoTrade, Trades
<1>2. Apart(g, u)
  BY <1>1 DEF Apart, Untouched
<1>3. \A p \in Traders :
        u[p].item # NoItem =>
          /\ RootIn(g, u[p].item) \in {p} \union Places
          /\ InRange(PositionIn(g, a, u[p].item), a[p], 1)
  BY <1>1, UntouchedRoot DEF AtHand, PositionIn
<1>4. \A p \in Traders : u[p].partner # NoTrader => InRange(a[u[p].partner], a[p], 2)
  BY DEF AtHand, NoTrade
<1> QED
  BY <1>2, <1>3, <1>4 DEF AtHand

-----------------------------------------------------------------------------
(* A place is near itself, and near is as far as back.                     *)
LEMMA Near ==
  ASSUME TradeAssumption, NEW x \in Places \union {Nowhere}, NEW y \in Places \union {Nowhere}
  PROVE  /\ InRange(x, y, 1) => InRange(y, x, 2)
         /\ InRange(x, y, 2) => InRange(y, x, 2)
         /\ x # Nowhere => InRange(x, x, 1)
<1>1. \A z \in Places : z \in Nat /\ z # Nowhere
  BY DEF TradeAssumption
<1> QED
  BY <1>1 DEF InRange

(* What an offer is: an item of somebody who is there and has a partner,   *)
(* near him, with him or on the ground.                                    *)
LEMMA OfferFacts ==
  ASSUME TradeAssumption, IInv, NEW p \in Traders, trade[p].item # NoItem
  PROVE  /\ trade[p].item \in Items
         /\ RootIn(parent, trade[p].item) \in {p} \union Places
         /\ PositionIn(parent, at, trade[p].item) \in Places
         /\ at[p] \in Places
         /\ InRange(at[p], PositionIn(parent, at, trade[p].item), 2)
         /\ trade[p].partner \in Traders
<1> DEFINE i == trade[p].item
<1>1. i \in Items /\ trade[p] \in Trades
  BY DEF IInv, Agreed, Trades
<1>2. RootIn(parent, i) \in {p} \union Places /\ InRange(PositionIn(parent, at, i), at[p], 1)
  BY DEF IInv, AtHand
<1>3. PositionIn(parent, at, i) \in Places \union {Nowhere} /\ at[p] \in Places \union {Nowhere}
  BY <1>2 DEF IInv, PositionIn
<1>4. PositionIn(parent, at, i) \in Places /\ at[p] \in Places
  BY <1>2, <1>3 DEF InRange
<1>5. InRange(at[p], PositionIn(parent, at, i), 2)
  BY <1>2, <1>3, Near
<1>6. trade[p].state # "none"
  BY DEF IInv, Agreed, Idle
<1>7. trade[p].partner \in Traders
  BY <1>1, <1>6 DEF IInv, Agreed, Mutual, Trades
<1> QED
  BY <1>1, <1>2, <1>4, <1>5, <1>7

(* The callbacks reach whoever offers an item that lies with this one.     *)
LEMMA NotifiedOwner ==
  ASSUME TradeAssumption, IInv, NEW p \in Traders, trade[p].item # NoItem,
         NEW s \in Parents,
         s \in Traders => s = RootIn(parent, trade[p].item),
         s \in Containers => RootIn(parent, s) = RootIn(parent, trade[p].item)
  PROVE  p \in Notified(s)
<1>1. /\ RootIn(parent, trade[p].item) \in {p} \union Places
      /\ at[p] \in Places
      /\ InRange(at[p], PositionIn(parent, at, trade[p].item), 2)
  BY OfferFacts
<1>2. p \in Online
  BY <1>1 DEF Online, TradeAssumption
<1>3. CASE s \in Traders
  <2>1. s = p /\ s \notin Items
    BY <1>1, <1>3 DEF TradeAssumption
  <2> QED
    BY <1>3, <2>1 DEF Notified
<1>4. CASE s \in Containers
  <2>1. PositionIn(parent, at, s) = PositionIn(parent, at, trade[p].item)
    BY <1>4 DEF PositionIn
  <2>2. InRange(at[p], Position(s), 2)
    BY <1>1, <2>1, Transcribed
  <2>3. s \in Items /\ s \notin Traders
    BY <1>4 DEF TradeAssumption
  <2> QED
    BY <1>2, <2>2, <2>3 DEF Notified
<1>5. CASE s \in Places \union {Nowhere}
  <2>1. s \notin Traders /\ s \notin Items
    BY <1>5 DEF TradeAssumption
  <2> QED
    BY <1>2, <2>1 DEF Notified
<1> QED
  BY <1>3, <1>4, <1>5 DEF Parents

(* Whoever's trade survives a move has an offer that the move does not     *)
(* concern: his item is neither moved, nor in what is moved, nor does      *)
(* anything come out of it or into it.                                     *)
LEMMA ClosersSuffice ==
  ASSUME TradeAssumption, IInv, NEW m \in Items, NEW d \in Parents,
         d \in Containers => m \notin Path(parent, d),
         NEW p \in Traders, trade[p].item # NoItem, p \notin Closers(m, d)
  PROVE  /\ m \notin Path(parent, trade[p].item)
         /\ trade[p].item \notin Path(parent, m)
         /\ d \in Containers => trade[p].item \notin Path(parent, d)
<1> DEFINE i == trade[p].item
           s == parent[m]
<1>1. i \in Items /\ Forest(parent) /\ s \in Parents
  BY OfferFacts DEF IInv, Forest
<1>2. \A c, k \in Items : Holds(c, k) <=> c \in Over(parent, k)
  BY <1>1, Transcribed, HoldsIsOver
<1>3. ASSUME RootIn(parent, m) = RootIn(parent, i)
      PROVE  p \in Notified(s)
  <2>1. m \in Path(parent, m) /\ (s \in Containers => s \in Over(parent, m))
    BY OverUpward DEF Path, Upward
  <2>2. s \in Traders => s = RootIn(parent, i)
    BY <1>1, <1>3, <2>1, RootFacts DEF TradeAssumption
  <2>3. s \in Containers => RootIn(parent, s) = RootIn(parent, i)
    BY <1>1, <1>3, <2>1, RootFacts
  <2> QED
    BY <1>1, <2>2, <2>3, NotifiedOwner
<1>4. ASSUME i \in Path(parent, m)
      PROVE  FALSE
  <2>1. ClosesOnRemove(p, m)
    BY <1>1, <1>2, <1>4 DEF ClosesOnRemove, Path
  <2>2. RootIn(parent, m) = RootIn(parent, i)
    BY <1>1, <1>4, RootFacts DEF Path
  <2> QED
    BY <1>3, <2>1, <2>2 DEF Closers
<1>5. ASSUME m \in Over(parent, i)
      PROVE  FALSE
  <2>1. RootIn(parent, m) = RootIn(parent, i)
    BY <1>1, <1>5, RootFacts
  <2>2. CASE s \notin Items
    <3>1. ClosesOnRemove(p, m)
      BY <1>1, <1>2, <1>5, <2>2 DEF ClosesOnRemove
    <3> QED
      BY <1>3, <2>1, <3>1 DEF Closers
  <2>3. CASE s \in Items
    <3>1. s \in Containers
      BY <1>1, <2>3 DEF Parents, TradeAssumption
    <3>2. s \in Over(parent, m)
      BY <3>1, OverUpward DEF Upward, Path
    <3>3. s \in Over(parent, i)
      BY <1>5, <3>2, OverTransitive
    <3>4. parent[i] # s
      <4> SUFFICES ASSUME parent[i] = s PROVE FALSE
        OBVIOUS
      <4>1. m = s \/ m \in Over(parent, s)
        BY <1>5, <3>1, OverStep
      <4>2. s \in Over(parent, s)
        BY <3>2, <4>1, OverTransitive
      <4> QED
        BY <1>1, <2>3, <4>2, OverAcyclic DEF Forest
    <3>5. ClosesOnRemove(p, m)
      BY <1>1, <1>2, <2>3, <3>3, <3>4 DEF ClosesOnRemove
    <3> QED
      BY <1>3, <2>1, <3>5 DEF Closers
  <2> QED
    BY <2>2, <2>3
<1>6. ASSUME d \in Containers, i \in Path(parent, d)
      PROVE  FALSE
  <2>1. d \in Items
    BY <1>6 DEF TradeAssumption
  <2>2. RootIn(parent, d) = RootIn(parent, i)
    BY <1>1, <1>6, <2>1, RootFacts DEF Path
  <2>3. p \in Notified(d)
    BY <1>6, <2>2, NotifiedOwner DEF TradeAssumption
  <2>4. ClosesOnAdd(p, d)
    BY <1>1, <1>2, <1>6, <2>1 DEF ClosesOnAdd, Path
  <2> QED
    BY <2>3, <2>4 DEF Closers
<1> QED
  BY <1>4, <1>5, <1>6 DEF Path

-----------------------------------------------------------------------------
(* The operations one by one.  A move of an item closes the trades that it *)
(* concerns, and leaves the offers of the others as they are.              *)
LEMMA MoveItemKeeps ==
  ASSUME TradeAssumption, IInv, NEW m \in Items, NEW d \in Parents, MoveItem(m, d)
  PROVE  /\ IInv'
         /\ \A p \in Traders :
              trade'[p].item # NoItem => /\ trade'[p] = trade[p]
                                         /\ Untouched(parent, parent', trade'[p].item)
<1>1. d \in Containers => m \notin Path(parent, d)
  <2> SUFFICES ASSUME d \in Containers PROVE m \notin Path(parent, d)
    OBVIOUS
  <2>1. d \in Items /\ d \notin Places \union Online \union {Nowhere}
    BY DEF TradeAssumption, Online
  <2>2. d # m /\ ~Holds(m, d)
    BY <2>1 DEF MoveItem
  <2> QED
    BY <2>1, <2>2, Transcribed, HoldsIsOver DEF IInv, Path
<1>2. parent' = [parent EXCEPT ![m] = d] /\ at' = at /\ Close(Closers(m, d))
  BY DEF MoveItem
<1>3. Forest(parent') /\ Moves(parent, parent', m, d)
  BY <1>1, <1>2, MoveKeepsForest DEF IInv
<1>4. Closers(m, d) \subseteq Traders
  BY DEF Closers, Notified, Online
<1>5. /\ Agreed(trade', tradeItems')
      /\ \A p \in Traders : trade'[p] \in {trade[p], NoTrade}
      /\ \A p \in Closers(m, d) : trade'[p] = NoTrade
  BY <1>2, <1>4, Closing DEF IInv
<1>6. ASSUME NEW p \in Traders, trade'[p].item # NoItem
      PROVE  trade'[p] = trade[p] /\ Untouched(parent, parent', trade'[p].item)
  <2>1. trade'[p] = trade[p] /\ p \notin Closers(m, d)
    BY <1>5, <1>6 DEF NoTrade
  <2>2. trade[p].item \in Items
    BY <1>6, <2>1, OfferFacts
  <2>3. /\ m \notin Path(parent, trade[p].item)
        /\ trade[p].item \notin Path(parent, m)
        /\ d \in Containers => trade[p].item \notin Path(parent, d)
    BY <1>1, <1>6, <2>1, ClosersSuffice
  <2> QED
    BY <1>3, <2>1, <2>2, <2>3, MoveAside
<1>7. Apart(parent', trade') /\ AtHand(parent', trade', at)
  BY <1>5, <1>6, OffersKept DEF IInv, Agreed
<1> QED
  BY <1>2, <1>3, <1>5, <1>6, <1>7 DEF IInv

(* What is not on a way up does not change where it ends.                  *)
LEMMA AsideRoot ==
  ASSUME NEW f, NEW g, NEW i, \A j \in Path(f, i) : g[j] = f[j]
  PROVE  Path(g, i) = Path(f, i) /\ RootIn(g, i) = RootIn(f, i)
<1>1. Path(g, i) = Path(f, i)
  BY AsideStays DEF Path
<1> QED
  BY <1>1 DEF RootIn, AroundIn

(* Room with q is not in what another has or in what lies on the ground.   *)
LEMMA RoomIs ==
  ASSUME TradeAssumption, IInv, NEW q \in Traders, NEW offered \in Items,
         NEW d \in Room(q, offered)
  PROVE  /\ d \in Parents
         /\ d \in Containers => RootIn(parent, d) = q /\ offered \notin Path(parent, d)
         /\ d \notin Containers => d = q
<1>1. q \notin Containers
  BY DEF TradeAssumption
<1>2. CASE d = q
  BY <1>1, <1>2 DEF Parents
<1>3. CASE d # q
  <2>1. d \in Containers /\ d \in Items /\ Root(d) = q /\ offered # d /\ ~Holds(offered, d)
    BY <1>3 DEF Room, TradeAssumption
  <2> QED
    BY <2>1, Transcribed, HoldsIsOver DEF IInv, Path, Parents
<1> QED
  BY <1>2, <1>3

(* i, which lies with p or on the ground, goes to room with q that is not  *)
(* in j.                                                                   *)
LEMMA HandOver ==
  ASSUME TradeAssumption, NEW f, Forest(f), NEW p \in Traders, NEW q \in Traders, p # q,
         NEW i \in Items, RootIn(f, i) \in {p} \union Places,
         NEW d \in Parents, d \in Containers => RootIn(f, d) = q,
         d \notin Containers => d = q,
         NEW g \in [Items -> Parents], \A j \in Items : g[j] = IF j = i THEN d ELSE f[j]
  PROVE  /\ Forest(g) /\ Moves(f, g, i, d)
         /\ RootIn(g, i) = q
         /\ d \in Containers => /\ \A j \in Path(f, d) : g[j] = f[j]
                                /\ Path(g, d) = Path(f, d)
<1>1. ASSUME d \in Containers
      PROVE  i \notin Path(f, d)
  <2>1. RootIn(f, i) # q
    BY DEF TradeAssumption
  <2>2. d \in Items
    BY <1>1 DEF TradeAssumption
  <2> QED
    BY <1>1, <2>1, <2>2, RootFacts DEF Path
<1>2. Forest(g) /\ Moves(f, g, i, d)
  <2>1. Moves(f, g, i, d)
    BY <1>1 DEF Moves
  <2>2. Rooted(g)
    BY <2>1, MoveKeepsRooted DEF Forest
  <2> QED
    BY <2>1, <2>2 DEF Forest
<1>3. g[i] = d
  OBVIOUS
<1>4. CASE d \notin Containers
  <2>1. i \in Path(g, i) /\ d = q
    BY <1>4 DEF Path
  <2>2. \A j \in Path(g, i) : g[j] \notin Containers => RootIn(g, i) = g[j]
    BY <1>2, RootFacts
  <2> QED
    BY <1>2, <1>3, <1>4, <2>1, <2>2
<1>5. CASE d \in Containers
  <2>1. \A j \in Path(f, d) : g[j] = f[j]
    BY <1>1, <1>2, <1>5, OverUpward DEF Moves, Path, TradeAssumption
  <2>2. Path(g, d) = Path(f, d) /\ RootIn(g, d) = q
    BY <1>5, <2>1, AsideRoot
  <2>3. d \in Over(g, i)
    BY <1>3, <1>5, OverUpward DEF Upward
  <2>4. RootIn(g, i) = q
    BY <1>2, <2>2, <2>3, RootFacts, SMTT(60)
  <2> QED
    BY <1>2, <2>1, <2>2, <2>4
<1> QED
  BY <1>4, <1>5

(* The exchange: whoever does not take part keeps what he offers, and both *)
(* items come to the other side, or a stackable one stays where it is.     *)
LEMMA TransferKeeps ==
  ASSUME TradeAssumption, IInv, NEW p \in Traders, NEW q, q = trade[p].partner, q # NoTrader,
         Transfer(p, q), at' = at
  PROVE  /\ IInv'
         /\ \A r \in Traders :
              trade'[r].item # NoItem => /\ trade'[r] = trade[r]
                                         /\ Untouched(parent, parent', trade'[r].item)
         /\ parent' # parent =>
              /\ RootIn(parent', trade[p].item) = q
              /\ \/ RootIn(parent', trade[q].item) = p
                 \/ /\ trade[q].item \in Stackables
                    /\ parent'[trade[q].item] = parent[trade[q].item]
<1> DEFINE i == trade[p].item
           j == trade[q].item
           Watched == Closers(i, q) \union Closers(j, p)
<1>1. q \in Traders /\ p # q /\ trade[q].partner = p
  BY DEF IInv, Agreed, Mutual, Trades
<1>2. CASE Close({p}) /\ UNCHANGED parent
  <2>1. /\ Agreed(trade', tradeItems')
        /\ \A r \in Traders : trade'[r] \in {trade[r], NoTrade}
    BY <1>2, Closing DEF IInv
  <2>2. \A k : Untouched(parent, parent', k)
    BY <1>2 DEF Untouched
  <2>3. Apart(parent', trade') /\ AtHand(parent', trade', at)
    BY <2>1, <2>2, OffersKept DEF IInv, Agreed
  <2>4. \A r \in Traders : trade'[r].item # NoItem => trade'[r] = trade[r]
    BY <2>1 DEF NoTrade
  <2> QED
    BY <1>2, <2>1, <2>2, <2>3, <2>4 DEF IInv
<1>3. ASSUME i # NoItem, j # NoItem, Close({p} \union Watched),
             NEW d \in Room(q, j),
             \/ \E e \in Room(p, i) : parent' = [parent EXCEPT ![i] = d, ![j] = e]
             \/ j \in Stackables /\ parent' = [parent EXCEPT ![i] = d]
      PROVE  /\ IInv'
             /\ \A r \in Traders :
                  trade'[r].item # NoItem => /\ trade'[r] = trade[r]
                                             /\ Untouched(parent, parent', trade'[r].item)
             /\ /\ RootIn(parent', i) = q
                /\ RootIn(parent', j) = p \/ (j \in Stackables /\ parent'[j] = parent[j])
  <2>1. /\ i \in Items /\ RootIn(parent, i) \in {p} \union Places
        /\ j \in Items /\ RootIn(parent, j) \in {q} \union Places
    BY <1>1, <1>3, OfferFacts
  <2>2. i # j /\ i \notin Path(parent, j) /\ j \notin Path(parent, i)
    BY <1>1, <1>3 DEF IInv, Apart, Path
  <2>3. /\ d \in Parents
        /\ d \in Containers => RootIn(parent, d) = q /\ j \notin Path(parent, d)
        /\ d \notin Containers => d = q
    BY <1>1, <1>3, <2>1, RoomIs
  <2>4. Forest(parent)
    BY DEF IInv
  <2> PICK g \in [Items -> Parents] : \A k \in Items : g[k] = IF k = i THEN d ELSE parent[k]
    <3> DEFINE h == [k \in Items |-> IF k = i THEN d ELSE parent[k]]
    <3>1. h \in [Items -> Parents]
      BY <2>3, <2>4 DEF Forest
    <3> QED
      BY <3>1
  <2>5. /\ Forest(g) /\ Moves(parent, g, i, d)
        /\ RootIn(g, i) = q
        /\ d \in Containers => (\A k \in Path(parent, d) : g[k] = parent[k]) /\ Path(g, d) = Path(parent, d)
    BY <1>1, <2>1, <2>3, <2>4, HandOver
  <2>6. /\ Agreed(trade', tradeItems')
        /\ \A r \in Traders : trade'[r] \in {trade[r], NoTrade}
        /\ trade'[p] = NoTrade
    <3>1. {p} \union Watched \subseteq Traders
      BY <1>1 DEF Closers, Notified, Online
    <3> QED
      BY <1>3, <3>1, Closing DEF IInv
  <2>7. trade'[q] = NoTrade
    <3>1. trade'[q] = trade[q] => trade'[p].partner = q
      BY <1>1, <2>6 DEF Agreed, Mutual
    <3> QED
      BY <1>1, <2>6, <3>1 DEF NoTrade
  <2>8. ASSUME NEW r \in Traders, trade'[r].item # NoItem
        PROVE  trade'[r] = trade[r] /\ r # p /\ r # q /\ trade[r].item \in Items
    <3>1. trade'[r] = trade[r] /\ r # p /\ r # q
      BY <2>6, <2>7, <2>8 DEF NoTrade
    <3> QED
      BY <2>8, <3>1, OfferFacts
  <2>9. ASSUME NEW r \in Traders, trade'[r].item # NoItem
        PROVE  /\ Untouched(parent, g, trade[r].item)
               /\ trade[r].item \notin Path(parent, j) /\ j \notin Path(parent, trade[r].item)
    <3> DEFINE a == trade[r].item
    <3>1. r # p /\ r # q /\ a \in Items /\ a # NoItem
      BY <2>8, <2>9
    <3>2. /\ i \notin Path(parent, a) /\ a \notin Path(parent, i)
          /\ j \notin Path(parent, a) /\ a \notin Path(parent, j)
      BY <1>1, <1>3, <3>1 DEF IInv, Apart, Path
    <3>3. RootIn(parent, a) \in {r} \union Places
      BY <3>1, OfferFacts
    <3>4. d \in Containers => a \notin Path(parent, d)
      <4> SUFFICES ASSUME d \in Containers, a \in Path(parent, d) PROVE FALSE
        OBVIOUS
      <4>1. RootIn(parent, a) = q
        BY <2>3, <2>4, RootFacts DEF Path, TradeAssumption
      <4> QED
        BY <1>1, <3>1, <3>3, <4>1 DEF TradeAssumption
    <3> QED
      BY <2>5, <3>1, <3>2, <3>4, MoveAside
  <2>10. CASE j \in Stackables /\ parent' = [parent EXCEPT ![i] = d]
    <3>1. parent' = g
      BY <2>4, <2>10 DEF Forest
    <3>2. Apart(parent', trade') /\ AtHand(parent', trade', at)
      BY <2>6, <2>8, <2>9, <3>1, OffersKept DEF IInv, Agreed
    <3>3. IInv'
      BY <2>5, <2>6, <3>1, <3>2 DEF IInv
    <3>4. parent'[j] = parent[j]
      BY <2>1, <2>2, <3>1
    <3>5. ASSUME NEW r \in Traders, trade'[r].item # NoItem
          PROVE  trade'[r] = trade[r] /\ Untouched(parent, parent', trade'[r].item)
      BY <2>8, <2>9, <3>1, <3>5
    <3>6. RootIn(parent', i) = q
      BY <2>5, <3>1
    <3> HIDE DEF i, j
    <3> QED
      BY <2>10, <3>3, <3>4, <3>5, <3>6
  <2>11. ASSUME NEW e \in Room(p, i), parent' = [parent EXCEPT ![i] = d, ![j] = e]
         PROVE  /\ IInv'
                /\ \A r \in Traders :
                     trade'[r].item # NoItem => /\ trade'[r] = trade[r]
                                                /\ Untouched(parent, parent', trade'[r].item)
                /\ RootIn(parent', i) = q /\ RootIn(parent', j) = p
    <3>1. /\ e \in Parents
          /\ e \in Containers => RootIn(parent, e) = p /\ i \notin Path(parent, e)
          /\ e \notin Containers => e = p
      BY <2>1, <2>11, RoomIs
    <3>2. /\ parent' \in [Items -> Parents]
          /\ \A k \in Items : parent'[k] = IF k = j THEN e ELSE g[k]
      BY <2>1, <2>2, <2>3, <2>4, <2>11, <3>1 DEF Forest
    <3>3. \A k \in Items \ {i} : g[k] = parent[k]
      BY <2>5 DEF Moves
    <3>4. RootIn(g, j) \in {q} \union Places
      <4>1. \A k \in Path(parent, j) : g[k] = parent[k]
        BY <2>1, <2>2, <3>3, OverUpward DEF Path, TradeAssumption
      <4> QED
        BY <2>1, <4>1, AsideRoot
    <3>5. e \in Containers => RootIn(g, e) = p /\ Path(g, e) = Path(parent, e)
      <4> SUFFICES ASSUME e \in Containers PROVE RootIn(g, e) = p /\ Path(g, e) = Path(parent, e)
        OBVIOUS
      <4>1. \A k \in Path(parent, e) : g[k] = parent[k]
        BY <3>1, <3>3, OverUpward DEF Path, TradeAssumption
      <4> QED
        BY <3>1, <4>1, AsideRoot
    <3>6. Forest(parent') /\ Moves(g, parent', j, e) /\ RootIn(parent', j) = p
      BY <1>1, <2>1, <2>5, <3>1, <3>2, <3>4, <3>5, HandOver
    <3>7. \A k \in Items \ {j} : parent'[k] = g[k]
      BY <3>6 DEF Moves
    <3>8. RootIn(parent', i) = q
      <4>1. g[i] = d
        BY <2>1, <2>4 DEF Forest
      <4>2. parent'[i] = d
        BY <2>1, <2>2, <3>7, <4>1
      <4>3. CASE d \notin Containers
        <5>1. i \in Path(parent', i)
          BY DEF Path
        <5>2. RootIn(parent', i) = d
          BY <2>1, <3>6, <4>2, <4>3, <5>1, RootFacts
        <5> QED
          BY <2>3, <4>3, <5>2
      <4>4. CASE d \in Containers
        <5>1. \A k \in Path(parent, d) : parent'[k] = parent[k]
          BY <2>3, <2>5, <3>7, <4>4, OverUpward DEF Path, TradeAssumption
        <5>2. RootIn(parent', d) = q
          BY <2>3, <4>4, <5>1, AsideRoot
        <5>3. d \in Over(parent', i)
          BY <4>2, <4>4, OverUpward DEF Upward
        <5> QED
          BY <2>1, <3>6, <5>2, <5>3, RootFacts
      <4> QED
        BY <4>3, <4>4
    <3>9. ASSUME NEW r \in Traders, trade'[r].item # NoItem
          PROVE  Untouched(parent, parent', trade[r].item)
      <4> DEFINE a == trade[r].item
      <4>1. r # p /\ r # q /\ a \in Items /\ a # NoItem /\ RootIn(parent, a) \in {r} \union Places
        BY <2>8, <3>9, OfferFacts
      <4>2. /\ Untouched(parent, g, a)
            /\ a \notin Path(parent, j) /\ j \notin Path(parent, a)
        BY <2>9, <3>9
      <4>3. j \notin Path(g, a) /\ a \notin Path(g, j)
        BY <2>1, <4>2 DEF Untouched, Path
      <4>4. e \in Containers => a \notin Path(g, e)
        <5> SUFFICES ASSUME e \in Containers, a \in Path(parent, e) PROVE FALSE
          BY <3>5
        <5>1. RootIn(parent, a) = p
          BY <2>4, <3>1, RootFacts DEF Path, TradeAssumption
        <5> QED
          BY <4>1, <5>1 DEF TradeAssumption
      <4>5. Untouched(g, parent', a)
        BY <3>6, <4>1, <4>3, <4>4, MoveAside
      <4> QED
        BY <4>2, <4>5 DEF Untouched, Path
    <3>10. Apart(parent', trade') /\ AtHand(parent', trade', at)
      BY <2>6, <2>8, <3>9, OffersKept DEF IInv, Agreed
    <3>11. IInv'
      BY <2>6, <3>6, <3>10 DEF IInv
    <3> QED
      BY <2>8, <3>6, <3>8, <3>9, <3>11
  <2> QED
    BY <1>3, <2>10, <2>11
<1> QED
  BY <1>2, <1>3 DEF Transfer

(* A trade is closed and nothing else happens to the offers.               *)
LEMMA CloseKeeps ==
  ASSUME TradeAssumption, IInv, NEW S \in SUBSET Traders, Close(S)
  PROVE  /\ Agreed(trade', tradeItems')
         /\ Apart(parent, trade') /\ AtHand(parent, trade', at)
         /\ \A p \in S : trade'[p] = NoTrade
<1>1. /\ Agreed(trade', tradeItems')
      /\ \A r \in Traders : trade'[r] \in {trade[r], NoTrade}
      /\ \A p \in S : trade'[p] = NoTrade
  BY Closing DEF IInv
<1>2. \A k : Untouched(parent, parent, k)
  BY DEF Untouched
<1>3. Apart(parent, trade') /\ AtHand(parent, trade', at)
  BY <1>1, <1>2, OffersKept DEF IInv, Agreed
<1> QED
  BY <1>1, <1>3

(* Who has no partner has offered nothing.                                 *)
LEMMA NoPartner ==
  ASSUME TradeAssumption, IInv, NEW p \in Traders, trade[p].partner = NoTrader
  PROVE  trade[p] = NoTrade
<1>1. trade[p].state = "none" /\ trade[p] \in Trades
  BY DEF IInv, Agreed, Mutual
<1>2. trade[p].item = NoItem
  BY <1>1 DEF IInv, Agreed, Idle
<1> QED
  BY <1>1, <1>2 DEF NoTrade, Trades

(* Whoever has no trade may come, go and walk: the others' offers are      *)
(* theirs or lie on the ground.                                            *)
LEMMA IdleMoves ==
  ASSUME TradeAssumption, NEW t \in [Traders -> Trades], Mutual(t), AtHand(parent, t, at),
         NEW p \in Traders, t[p] = NoTrade,
         NEW a \in [Traders -> Places \union {Nowhere}],
         \A q \in Traders \ {p} : a[q] = at[q]
  PROVE  AtHand(parent, t, a)
<1> SUFFICES ASSUME NEW q \in Traders
             PROVE  /\ t[q].item # NoItem =>
                         /\ RootIn(parent, t[q].item) \in {q} \union Places
                         /\ InRange(PositionIn(parent, a, t[q].item), a[q], 1)
                    /\ t[q].partner # NoTrader => InRange(a[t[q].partner], a[q], 2)
  BY DEF AtHand
<1>1. CASE q = p
  BY <1>1 DEF NoTrade
<1>2. CASE q # p
  <2>1. a[q] = at[q] /\ p \notin Places
    BY <1>2 DEF TradeAssumption
  <2>2. t[q].item # NoItem =>
          /\ RootIn(parent, t[q].item) \in {q} \union Places
          /\ InRange(PositionIn(parent, at, t[q].item), at[q], 1)
    BY DEF AtHand
  <2>3. t[q].item # NoItem =>
          PositionIn(parent, a, t[q].item) = PositionIn(parent, at, t[q].item)
    BY <1>2, <2>1, <2>2 DEF PositionIn, TradeAssumption
  <2>4. t[q].partner # NoTrader =>
          /\ t[q].partner \in Traders \ {p}
          /\ InRange(at[t[q].partner], at[q], 2)
    BY <1>2 DEF AtHand, Mutual, NoTrade, Trades, TradeAssumption
  <2> QED
    BY <2>1, <2>2, <2>3, <2>4
<1> QED
  BY <1>1, <1>2

(* Each operation keeps the invariant: a login,                            *)
LEMMA LoginKeeps ==
  ASSUME TradeAssumption, IInv, NEW p \in Traders, NEW x \in Places, TraderLogin(p, x)
  PROVE  IInv'
<1>1. trade[p].partner = NoTrader
  BY DEF IInv, AtHand, InRange, TraderLogin
<1>2. at' \in [Traders -> Places \union {Nowhere}] /\ \A q \in Traders \ {p} : at'[q] = at[q]
  BY DEF TraderLogin, IInv
<1>3. AtHand(parent, trade, at')
  BY <1>1, <1>2, NoPartner, IdleMoves DEF IInv, Agreed
<1> QED
  BY <1>2, <1>3 DEF IInv, TraderLogin

(* Closing p's trade, and then p may be anywhere.                          *)
LEMMA ClosesAndMoves ==
  ASSUME TradeAssumption, IInv, NEW p \in Traders, NEW x \in Places \union {Nowhere}, Close({p}),
         at' = [at EXCEPT ![p] = x], parent' = parent
  PROVE  IInv'
<1>1. /\ Agreed(trade', tradeItems')
      /\ Apart(parent, trade') /\ AtHand(parent, trade', at)
      /\ trade'[p] = NoTrade
  BY CloseKeeps
<1>2. at' \in [Traders -> Places \union {Nowhere}] /\ \A q \in Traders \ {p} : at'[q] = at[q]
  BY DEF IInv
<1>3. AtHand(parent, trade', at')
  BY <1>1, <1>2, IdleMoves DEF Agreed
<1> QED
  BY <1>1, <1>2, <1>3 DEF IInv

(* a logout, which closes the trade before the player is gone,             *)
LEMMA LogoutKeeps ==
  ASSUME TradeAssumption, IInv, NEW p \in Traders, TraderLogout(p)
  PROVE  IInv'
<1>1. CASE trade[p].partner # NoTrader
  BY <1>1, ClosesAndMoves DEF TraderLogout
<1>2. CASE trade[p].partner = NoTrader
  <2>1. at' \in [Traders -> Places \union {Nowhere}] /\ \A q \in Traders \ {p} : at'[q] = at[q]
    BY DEF TraderLogout, IInv
  <2>2. AtHand(parent, trade, at')
    BY <1>2, <2>1, NoPartner, IdleMoves DEF IInv, Agreed
  <2> QED
    BY <1>2, <2>1, <2>2 DEF IInv, TraderLogout
<1> QED
  BY <1>1, <1>2

(* a player who moves, with the distances that Player::onCreatureMove      *)
(* tests,                                                                  *)
LEMMA MoveKeeps ==
  ASSUME TradeAssumption, IInv, NEW p \in Traders, NEW x \in Places, TraderMove(p, x)
  PROVE  IInv'
<1>1. CASE TooFar(p, x)
  BY <1>1, ClosesAndMoves DEF TraderMove
<1>2. CASE ~TooFar(p, x)
  <2>1. /\ at' = [at EXCEPT ![p] = x] /\ UNCHANGED <<trade, tradeItems, parent>>
        /\ at \in [Traders -> Places \union {Nowhere}]
    BY <1>2 DEF TraderMove, IInv
  <2>2. /\ at'[p] = x /\ \A q \in Traders \ {p} : at'[q] = at[q]
        /\ at' \in [Traders -> Places \union {Nowhere}]
    BY <2>1
  <2>3. ASSUME NEW q \in Traders, trade[q].item # NoItem
        PROVE  /\ RootIn(parent, trade[q].item) \in {q} \union Places
               /\ InRange(PositionIn(parent, at', trade[q].item), at'[q], 1)
    <3> DEFINE i == trade[q].item
    <3>1. RootIn(parent, i) \in {q} \union Places /\ InRange(PositionIn(parent, at, i), at[q], 1)
      BY <2>3 DEF IInv, AtHand
    <3>2. p \notin Places /\ (RootIn(parent, i) \in Places => RootIn(parent, i) \notin Traders)
      BY DEF TradeAssumption
    <3>3. CASE q # p
      BY <2>2, <3>1, <3>2, <3>3 DEF PositionIn
    <3>4. CASE q = p /\ RootIn(parent, i) = p
      <4>1. x # Nowhere
        BY DEF TradeAssumption
      <4>2. PositionIn(parent, at', i) = x /\ InRange(x, x, 1)
        BY <2>2, <3>4, <4>1, Near DEF PositionIn
      <4> QED
        BY <2>2, <3>1, <3>4, <4>2
    <3>5. CASE q = p /\ RootIn(parent, i) # p
      <4>1. InRange(Position(i), x, 1)
        BY <1>2, <2>3, <3>5, Transcribed DEF TooFar
      <4>2. PositionIn(parent, at', i) = RootIn(parent, i) /\ Position(i) = RootIn(parent, i)
        BY <3>1, <3>2, <3>5, Transcribed DEF PositionIn
      <4> QED
        BY <2>2, <3>1, <3>5, <4>1, <4>2
    <3> QED
      BY <3>1, <3>3, <3>4, <3>5
  <2>4. ASSUME NEW q \in Traders, trade[q].partner # NoTrader
        PROVE  InRange(at'[trade[q].partner], at'[q], 2)
    <3> DEFINE r == trade[q].partner
    <3>1. r \in Traders /\ trade[r].partner = q /\ r # q /\ InRange(at[r], at[q], 2)
      BY <2>4 DEF IInv, AtHand, Agreed, Mutual, Trades
    <3>2. CASE q = p
      <4>1. InRange(at[r], x, 2)
        BY <1>2, <2>4, <3>2 DEF TooFar
      <4> QED
        BY <2>2, <3>1, <3>2, <4>1
    <3>3. CASE r = p
      <4>1. InRange(at[q], x, 2)
        BY <1>2, <3>1, <3>3 DEF TooFar, TradeAssumption
      <4>2. InRange(x, at[q], 2)
        BY <2>1, <4>1, Near
      <4> QED
        BY <2>2, <3>1, <3>3, <4>2
    <3>4. CASE q # p /\ r # p
      BY <2>2, <3>1, <3>4
    <3> QED
      BY <3>2, <3>3, <3>4
  <2>5. AtHand(parent, trade, at')
    BY <2>3, <2>4 DEF AtHand
  <2> QED
    BY <2>1, <2>2, <2>5 DEF IInv
<1> QED
  BY <1>1, <1>2

(* and a request, which starts the trade once both have offered.           *)
LEMMA RequestKeeps ==
  ASSUME TradeAssumption, IInv, NEW p \in Traders, NEW q \in Traders, NEW i \in Items,
         RequestTrade(p, q, i)
  PROVE  IInv'
<1> DEFINE Ack == [NoTrade EXCEPT !.state = "acknowledge", !.partner = p]
           Mine == [state |-> "initiated", partner |-> q, item |-> i]
           Yours == IF trade[q].state = "none" THEN Ack ELSE trade[q]
<1>1. /\ p # q /\ p \in Online /\ InRange(at[p], at[q], 2)
      /\ Root(i) \in {p} \union Places /\ InRange(Position(i), at[p], 1)
      /\ Overlapping(i) = {} /\ StartTrade(p, q, i) /\ MayStart(p, q)
      /\ parent' = parent /\ at' = at
  BY DEF RequestTrade, StartTrade
<1>2. /\ trade \in [Traders -> Trades] /\ tradeItems \in [Items -> Traders \union {NoTrader}]
      /\ Mutual(trade) /\ Idle(trade) /\ Registered(trade, tradeItems)
  BY DEF IInv, Agreed
<1>3. /\ Ack.state = "acknowledge" /\ Ack.partner = p /\ Ack.item = NoItem /\ Ack \in Trades
      /\ Mine.state = "initiated" /\ Mine.partner = q /\ Mine.item = i /\ Mine \in Trades
  BY DEF NoTrade, Trades
<1>4. trade' = [trade EXCEPT ![p] = Mine, ![q] = Yours]
  BY <1>1, <1>2 DEF StartTrade
<1> HIDE DEF Ack, Mine
<1>5. /\ trade' \in [Traders -> Trades]
      /\ trade'[p] = Mine /\ trade'[q] = Yours
      /\ \A r \in Traders \ {p, q} : trade'[r] = trade[r]
  BY <1>1, <1>2, <1>3, <1>4
<1>6. tradeItems' = [tradeItems EXCEPT ![i] = p]
  BY <1>1 DEF StartTrade
<1>7. /\ trade[p].item = NoItem /\ (trade[q].state = "none" => trade[q].item = NoItem)
      /\ trade[p].partner \in {NoTrader, q}
      /\ trade[q].partner \in {NoTrader, p}
      /\ trade[q].state # "none" => trade[q].partner = p
  BY <1>1, <1>2 DEF MayStart, Idle, Mutual
<1>8. tradeItems[i] = NoTrader /\ \A r \in Traders : trade[r].item # i
  <2>1. tradeItems[i] = NoTrader
    BY <1>1 DEF Overlapping
  <2> QED
    BY <1>2, <2>1 DEF Registered, TradeAssumption
<1>9. \A r \in Traders \ {p, q} : trade[r].partner \notin {p, q}
  BY <1>2, <1>7 DEF Mutual, TradeAssumption
<1>10. Mutual(trade')
  <2> SUFFICES ASSUME NEW r \in Traders
               PROVE  /\ trade'[r].state = "none" <=> trade'[r].partner = NoTrader
                      /\ \A s \in Traders : trade'[r].partner = s =>
                           trade'[s].partner = r /\ r # s
    BY DEF Mutual
  <2>1. /\ trade'[p].partner = q /\ trade'[p].state = "initiated"
        /\ trade'[q].partner = p /\ trade'[q].state # "none"
    BY <1>3, <1>5, <1>7
  <2>2. CASE r \in {p, q}
    BY <1>1, <2>1, <2>2 DEF TradeAssumption
  <2>3. CASE r \notin {p, q}
    BY <1>2, <1>5, <1>9, <2>3 DEF Mutual
  <2> QED
    BY <2>2, <2>3
<1>11. Idle(trade')
  <2> SUFFICES ASSUME NEW r \in Traders, trade'[r].state \in {"none", "acknowledge"}
               PROVE  trade'[r].item = NoItem
    BY DEF Idle
  <2>1. r # p
    BY <1>3, <1>5
  <2>2. CASE r = q /\ trade[q].state = "none"
    BY <1>3, <1>5, <2>2
  <2>3. CASE r # q \/ trade[q].state # "none"
    BY <1>2, <1>5, <2>1, <2>3 DEF Idle
  <2> QED
    BY <2>2, <2>3
<1>12. \A r \in Traders : trade'[r].item = IF r = p THEN i ELSE trade[r].item
  BY <1>3, <1>5, <1>7
<1>13. Registered(trade', tradeItems')
  BY <1>2, <1>6, <1>7, <1>8, <1>12 DEF Registered, TradeAssumption
<1>14. Agreed(trade', tradeItems')
  BY <1>2, <1>5, <1>6, <1>10, <1>11, <1>13 DEF Agreed
<1>15. Apart(parent, trade')
  <2>1. ASSUME NEW r \in Traders, r # p, trade[r].item # NoItem
        PROVE  /\ trade[r].item # i
               /\ trade[r].item \notin Over(parent, i) /\ i \notin Over(parent, trade[r].item)
    <3> DEFINE b == trade[r].item
    <3>1. b \in Items /\ tradeItems[b] = r
      BY <1>2, <2>1, OfferFacts DEF Registered
    <3>2. tradeItems[b] # NoTrader
      BY <3>1 DEF TradeAssumption
    <3>3. i # b /\ ~Holds(i, b) /\ ~Holds(b, i)
      BY <1>1, <3>1, <3>2 DEF Overlapping
    <3> QED
      BY <3>1, <3>3, Transcribed, HoldsIsOver DEF IInv
  <2>2. Apart(parent, trade)
    BY DEF IInv
  <2> QED
    BY <1>12, <2>1, <2>2 DEF Apart
<1>16. AtHand(parent, trade', at)
  <2>1. /\ RootIn(parent, i) \in {p} \union Places
        /\ InRange(PositionIn(parent, at, i), at[p], 1)
    BY <1>1, Transcribed
  <2>2. InRange(at[q], at[p], 2)
    BY <1>1, Near DEF IInv
  <2>3. \A r \in Traders : trade'[r].partner = IF r = p THEN q ELSE
                             IF r = q THEN p ELSE trade[r].partner
    BY <1>1, <1>3, <1>5, <1>7
  <2> QED
    BY <1>1, <1>12, <2>1, <2>2, <2>3 DEF IInv, AtHand
<1> QED
  BY <1>1, <1>14, <1>15, <1>16 DEF IInv

(* The first of the two to accept.                                         *)
LEMMA AcceptKeeps ==
  ASSUME TradeAssumption, IInv, NEW p \in Traders, trade[p].state # "none",
         trade' = [trade EXCEPT ![p].state = "accept"], UNCHANGED <<tradeItems, parent, at>>
  PROVE  IInv'
<1>1. trade \in [Traders -> Trades]
  BY DEF IInv, Agreed
<1>2. \A r \in Traders : /\ trade'[r].partner = trade[r].partner /\ trade'[r].item = trade[r].item
                         /\ trade'[r].state = IF r = p THEN "accept" ELSE trade[r].state
                         /\ trade'[r] \in Trades
  BY <1>1 DEF Trades
<1>3. trade' \in [Traders -> Trades]
  BY <1>1, <1>2
<1>4. Mutual(trade') /\ Idle(trade') /\ Registered(trade', tradeItems)
  BY <1>2 DEF IInv, Agreed, Mutual, Idle, Registered
<1>5. Apart(parent, trade') /\ AtHand(parent, trade', at)
  BY <1>2 DEF IInv, Apart, AtHand
<1> QED
  BY <1>3, <1>4, <1>5 DEF IInv, Agreed

(* NoTrader trades and no item is in itself when the game starts.            *)
LEMMA InitOK ==
  ASSUME TradeAssumption, TradeInit
  PROVE  IInv
<1>1. \A p \in Traders : trade[p] = NoTrade
  BY DEF TradeInit
<1>2. Agreed(trade, tradeItems)
  BY <1>1 DEF TradeInit, Agreed, NoTrade, Trades, Mutual, Idle, Registered, TradeAssumption
<1>3. \A i \in Items : parent[i] \notin Containers /\ i \in Path(parent, i)
  BY DEF TradeInit, TradeAssumption, Path
<1>4. parent \in [Items -> Parents]
  BY DEF TradeInit, Parents
<1>5. Forest(parent)
  BY <1>3, <1>4 DEF Forest, Rooted
<1>6. Apart(parent, trade) /\ AtHand(parent, trade, at)
  BY <1>1 DEF Apart, AtHand, NoTrade
<1> QED
  BY <1>2, <1>5, <1>6 DEF IInv, TradeInit

(* What a step does to the offers that outlive it, and to both items of an *)
(* exchange.                                                               *)
OthersLeft ==
  \A p \in Traders :
    trade'[p].item # NoItem /\ trade[p].item = trade'[p].item =>
      Untouched(parent, parent', trade[p].item)

Exchanged ==
  \A p, q \in Traders, i, j \in Items :
    /\ parent' # parent /\ trade[p].partner = q /\ trade[p].item = i /\ trade[q].item = j
    /\ AcceptTrade(p)
    => /\ RootIn(parent', i) = q
       /\ RootIn(parent', j) = p \/ (j \in Stackables /\ parent'[j] = parent[j])

(* playerAcceptTrade, by whoever is first and by the second.               *)
LEMMA AcceptTradeKeeps ==
  ASSUME TradeAssumption, IInv, NEW p \in Traders, AcceptTrade(p)
  PROVE  /\ IInv' /\ OthersLeft
         /\ parent' # parent =>
              /\ RootIn(parent', trade[p].item) = trade[p].partner
              /\ \/ RootIn(parent', trade[trade[p].partner].item) = p
                 \/ /\ trade[trade[p].partner].item \in Stackables
                    /\ parent'[trade[trade[p].partner].item] = parent[trade[trade[p].partner].item]
<1> DEFINE q == trade[p].partner
<1>1. trade[p].state # "none" /\ q # NoTrader /\ at' = at
  BY DEF AcceptTrade
<1>2. CASE trade[q].state = "accept"
  <2>1. Transfer(p, q)
    BY <1>2 DEF AcceptTrade
  <2> QED
    BY <1>1, <2>1, TransferKeeps DEF OthersLeft
<1>3. CASE trade[q].state # "accept"
  <2>1. trade' = [trade EXCEPT ![p].state = "accept"] /\ UNCHANGED <<tradeItems, parent, at>>
    BY <1>1, <1>3 DEF AcceptTrade
  <2>2. IInv'
    BY <1>1, <2>1, AcceptKeeps
  <2> QED
    BY <2>1, <2>2 DEF OthersLeft, Untouched
<1> QED
  BY <1>2, <1>3

(* A step keeps the invariant, touches no offer but by closing its         *)
(* trade, and exchanges both or none.                                      *)
LEMMA StepOK ==
  ASSUME TradeAssumption, IInv, [TradeNext]_tradeVars
  PROVE  IInv' /\ OthersLeft /\ Exchanged
<1>1. ASSUME parent' = parent
      PROVE  OthersLeft /\ Exchanged
  BY <1>1 DEF OthersLeft, Exchanged, Untouched
<1>2. CASE UNCHANGED tradeVars
  <2>1. IInv' /\ parent' = parent
    BY <1>2 DEF tradeVars, IInv
  <2> QED
    BY <1>1, <2>1
<1>3. ASSUME NEW p \in Traders, NEW x \in Places, TraderLogin(p, x) \/ TraderMove(p, x)
      PROVE  IInv' /\ parent' = parent
  BY <1>3, LoginKeeps, MoveKeeps DEF TraderLogin, TraderMove
<1>4. ASSUME NEW p \in Traders, TraderLogout(p)
      PROVE  IInv' /\ parent' = parent
  BY <1>4, LogoutKeeps DEF TraderLogout
<1>5. ASSUME NEW p \in Traders, CloseTrade(p)
      PROVE  IInv' /\ parent' = parent
  <2>1. Close({p}) /\ parent' = parent /\ at' = at
    BY <1>5 DEF CloseTrade
  <2> QED
    BY <2>1, CloseKeeps DEF IInv
<1>6. ASSUME NEW p \in Traders, NEW q \in Traders, NEW i \in Items, RequestTrade(p, q, i)
      PROVE  IInv' /\ parent' = parent
  BY <1>6, RequestKeeps DEF RequestTrade
<1>7. ASSUME NEW p \in Traders, AcceptTrade(p)
      PROVE  IInv' /\ OthersLeft /\ Exchanged
  <2>1. IInv' /\ OthersLeft
    BY <1>7, AcceptTradeKeeps
  <2>2. Exchanged
    BY AcceptTradeKeeps DEF Exchanged
  <2> QED
    BY <2>1, <2>2
<1>8. ASSUME NEW m \in Items, NEW d \in Parents, MoveItem(m, d)
      PROVE  IInv' /\ OthersLeft /\ Exchanged
  <2>1. IInv' /\ OthersLeft
    BY <1>8, MoveItemKeeps DEF OthersLeft
  <2>2. Exchanged
    BY AcceptTradeKeeps DEF Exchanged
  <2> QED
    BY <2>1, <2>2
<1> QED
  BY <1>1, <1>2, <1>3, <1>4, <1>5, <1>6, <1>7, <1>8 DEF TradeNext, Parents

-----------------------------------------------------------------------------
(* The inductive invariant holds: trades agree with Game::tradeItems, the  *)
(* items are a forest, offers are apart and at hand.                       *)
THEOREM Invariance == ASSUME TradeAssumption PROVE TradeSpec => []IInv
<1>1. TradeInit => IInv
  BY InitOK
<1>2. IInv /\ [TradeNext]_tradeVars => IInv'
  BY StepOK
<1> QED
  BY <1>1, <1>2, PTL DEF TradeSpec

(* The types of the trades, of Game::tradeItems, parents and positions.    *)
THEOREM TypeCorrect == ASSUME TradeAssumption PROVE TradeSpec => []TradeTypeOK
<1>1. IInv => TradeTypeOK
  BY DEF IInv, Agreed, Forest, Parents, TradeTypeOK
<1> QED
  BY <1>1, Invariance, PTL

(* For any number of players and items, whoever trades has a partner who   *)
(* trades with him, and both are online: tradePartner never dangles        *)
(* (internalCloseTrade clears both sides, whoever leaves or moves).        *)
THEOREM PartnersAlwaysMutual == ASSUME TradeAssumption PROVE TradeSpec => []PartnersMutual
<1>1. ASSUME IInv PROVE PartnersMutual
  <2> SUFFICES ASSUME NEW p \in Traders
               PROVE  /\ trade[p].state = "none" <=> trade[p].partner = NoTrader
                      /\ \A q \in Traders : trade[p].partner = q =>
                           trade[q].partner = p /\ p # q /\ {p, q} \subseteq Online
    BY DEF PartnersMutual
  <2>1. Mutual(trade)
    BY <1>1 DEF IInv, Agreed
  <2>2. ASSUME NEW q \in Traders, trade[p].partner = q
        PROVE  {p, q} \subseteq Online
    <3>1. InRange(at[q], at[p], 2)
      BY <1>1, <2>2 DEF IInv, AtHand, TradeAssumption
    <3> QED
      BY <3>1 DEF InRange, Online
  <2> QED
    BY <2>1, <2>2 DEF Mutual
<1> QED
  BY <1>1, Invariance, PTL

(* Game::tradeItems has exactly the offered items, under their owners: no  *)
(* item stays behind that could not be traded again.                       *)
THEOREM OffersAlwaysRegistered == ASSUME TradeAssumption PROVE TradeSpec => []OffersRegistered
<1>1. IInv => OffersRegistered
  BY DEF IInv, Agreed, Registered, OffersRegistered
<1> QED
  BY <1>1, Invariance, PTL

(* No item is offered twice, or within another that is offered, however    *)
(* deep the containers nest and whatever is moved.                         *)
THEOREM OffersAlwaysApart == ASSUME TradeAssumption PROVE TradeSpec => []OffersApart
<1>1. ASSUME IInv PROVE OffersApart
  <2>1. \A p \in Traders : trade[p].item # NoItem => trade[p].item \in Items
    BY <1>1, OfferFacts
  <2>2. \A c, i \in Items : Holds(c, i) <=> c \in Over(parent, i)
    BY <1>1, Transcribed, HoldsIsOver DEF IInv
  <2> QED
    BY <1>1, <2>1, <2>2 DEF IInv, Apart, OffersApart
<1> QED
  BY <1>1, Invariance, PTL

(* Who trades stands next to what he offers and near his partner.          *)
THEOREM OffersAlwaysAtHand == ASSUME TradeAssumption PROVE TradeSpec => []OfferAtHand
<1>1. IInv => OfferAtHand
  BY Transcribed DEF IInv, AtHand, OfferAtHand
<1> QED
  BY <1>1, Invariance, PTL

(* While an offer stands, nothing moves it or what it lies in, and nothing *)
(* enters or leaves it: the callbacks of Player that test the moved item   *)
(* against the offered one (player.cpp: checkTradeState) miss no case.     *)
THEOREM OffersStayUntouched == ASSUME TradeAssumption PROVE TradeSpec => [][OfferUntouched]_tradeVars
<1>1. ASSUME IInv, IInv', [TradeNext]_tradeVars
      PROVE  OfferUntouched
  <2> SUFFICES ASSUME NEW p \in Traders, NEW i \in Items, trade[p].item = i, trade'[p].item = i
               PROVE  Around(i)' = Around(i) /\ Contents(i)' = Contents(i)
    BY DEF OfferUntouched
  <2>1. Untouched(parent, parent', i)
    BY <1>1, StepOK DEF OthersLeft, TradeAssumption
  <2>2. Around(i)' = Around(i)
    BY <2>1, UntouchedRoot, Transcribed
  <2>3. \A k \in Items : Holds(i, k)' <=> Holds(i, k)
    <3>1. Forest(parent) /\ Forest(parent')
      BY <1>1 DEF IInv
    <3>2. \A k \in Items : /\ HoldsIn(parent, i, k) <=> i \in Over(parent, k)
                           /\ HoldsIn(parent', i, k) <=> i \in Over(parent', k)
      BY <3>1, HoldsIsOver
    <3> QED
      BY <2>1, <3>2, Transcribed DEF Untouched
  <2>4. Contents(i)' = Contents(i)
    BY <2>3 DEF Contents
  <2> QED
    BY <2>2, <2>4
<1>2. IInv /\ IInv' /\ [TradeNext]_tradeVars => [OfferUntouched]_tradeVars
  BY <1>1
<1> QED
  BY <1>2, Invariance, PTL DEF TradeSpec

(* An exchange brings both items to the other side, or leaves a stackable  *)
(* one of the partner's behind (game.cpp:2677), and nothing else.          *)
THEOREM SwapsAreWhole == ASSUME TradeAssumption PROVE TradeSpec => [][SwapWhole]_tradeVars
<1>1. ASSUME IInv, [TradeNext]_tradeVars
      PROVE  SwapWhole
  BY <1>1, StepOK, Transcribed DEF Exchanged, SwapWhole
<1>2. IInv /\ [TradeNext]_tradeVars => [SwapWhole]_tradeVars
  BY <1>1
<1> QED
  BY <1>2, Invariance, PTL DEF TradeSpec

(* Trades are sound in all these respects together.                        *)
THEOREM TradeAlwaysSound == ASSUME TradeAssumption PROVE TradeSpec => TradeSound
BY TypeCorrect, PartnersAlwaysMutual, OffersAlwaysRegistered, OffersAlwaysApart,
   OffersAlwaysAtHand, OffersStayUntouched, SwapsAreWhole, PTL DEF TradeSound

-----------------------------------------------------------------------------
(* Fights: who begins, who is marked and blamed, what an arena spares.     *)

Skulls == {"none", "yellow", "white", "red", "black"}
Fighters == Attackers \union {Nobody, Gone}
Fights ==
  [online : SUBSET Players, zone : [Players -> Zones], health : [Players -> Nat], mana : [Players -> Nat],
   skull : [Players -> Skulls], frags : [Players -> Nat], attacked : [Players -> SUBSET Players],
   inFight : SUBSET Players, locked : SUBSET Players, points : [Players -> [Attackers -> Nat]],
   lastHit : [Players -> Fighters], skillLoss : SUBSET Players, poison : [Players -> Fighters],
   losses : SUBSET Players, began : [Players -> SUBSET Players], slayer : [Players -> Fighters]]
Fields ==
  {"online", "zone", "health", "mana", "skull", "frags", "attacked", "inFight", "locked",
   "points", "lastHit", "skillLoss", "poison", "losses", "began", "slayer"}

(* Of a fight, nothing changes but the fields F.                           *)
Only(s, t, F) == \A f \in Fields \ F : t[f] = s[f]

(* The least and the greatest of two numbers.                              *)
LEMMA MinOfTwo ==
  ASSUME NEW a \in Int, NEW b \in Int
  PROVE  Min({a, b}) = (IF a <= b THEN a ELSE b) /\ Max({a, b}) = (IF a <= b THEN b ELSE a)
<1>1. PICK m \in {a, b} : m = IF a <= b THEN a ELSE b
  OBVIOUS
<1>2. PICK n \in {a, b} : n = IF a <= b THEN b ELSE a
  OBVIOUS
<1>3. \A x \in {a, b} : (\A y \in {a, b} : x <= y) <=> x = m
  BY <1>1
<1>4. \A x \in {a, b} : (\A y \in {a, b} : x >= y) <=> x = n
  BY <1>2
<1> QED
  BY <1>1, <1>2, <1>3, <1>4 DEF Min, Max

(* A record with the right fields is a fight,                              *)
LEMMA IsFight ==
  ASSUME NEW t, t = [f \in Fields |-> t[f]],
         t.online \in SUBSET Players, t.zone \in [Players -> Zones], t.health \in [Players -> Nat], t.mana \in [Players -> Nat],
         t.skull \in [Players -> Skulls], t.frags \in [Players -> Nat], t.attacked \in [Players -> SUBSET Players],
         t.inFight \in SUBSET Players, t.locked \in SUBSET Players, t.points \in [Players -> [Attackers -> Nat]],
         t.lastHit \in [Players -> Fighters], t.skillLoss \in SUBSET Players, t.poison \in [Players -> Fighters],
         t.losses \in SUBSET Players, t.began \in [Players -> SUBSET Players], t.slayer \in [Players -> Fighters]
  PROVE  t \in Fights
BY DEF Fights, Fields

(* and a fight has them.                                                   *)
LEMMA FightTypes ==
  ASSUME NEW t \in Fights
  PROVE  /\ t.online \in SUBSET Players /\ t.zone \in [Players -> Zones] /\ t.health \in [Players -> Nat]
         /\ t.mana \in [Players -> Nat] /\ t.skull \in [Players -> Skulls] /\ t.frags \in [Players -> Nat]
         /\ t.attacked \in [Players -> SUBSET Players] /\ t.inFight \in SUBSET Players
         /\ t.locked \in SUBSET Players /\ t.points \in [Players -> [Attackers -> Nat]]
         /\ t.lastHit \in [Players -> Fighters] /\ t.skillLoss \in SUBSET Players
         /\ t.poison \in [Players -> Fighters] /\ t.losses \in SUBSET Players
         /\ t.began \in [Players -> SUBSET Players] /\ t.slayer \in [Players -> Fighters]
BY DEF Fights

(* Marks: what each operator changes.                                      *)
Struck(s, p, q) == s.skull[p] = "none" /\ SkullClient(s, p, q) = "yellow"
Begins(s, p, q) == ~Struck(s, p, q) /\ p \notin s.attacked[q]

(* Who begins is marked and locked, who was struck is marked.              *)
LEMMA MarkedChanges ==
  ASSUME NEW s \in Fights, NEW p \in Players, NEW q \in Players
  PROVE  /\ Marked(s, p, q) \in Fights /\ Only(s, Marked(s, p, q), {"attacked", "locked", "skull"})
         /\ Marked(s, p, q).attacked = IF Struck(s, p, q) \/ Begins(s, p, q)
                                       THEN [s.attacked EXCEPT ![p] = @ \union {q}] ELSE s.attacked
         /\ Marked(s, p, q).locked = IF Begins(s, p, q) THEN s.locked \union {p} ELSE s.locked
         /\ Marked(s, p, q).skull = IF Begins(s, p, q) /\ s.skull[p] = "none" /\ s.skull[q] = "none"
                                    THEN [s.skull EXCEPT ![p] = "white"] ELSE s.skull
<1> DEFINE k == s.locked \union {p}
<1> DEFINE A == [s.attacked EXCEPT ![p] = @ \union {q}]
<1> DEFINE K == [s.skull EXCEPT ![p] = IF @ = "none" /\ s.skull[q] = "none" THEN "white" ELSE @]
<1> DEFINE struck == [s EXCEPT !.attacked = A]
<1> DEFINE begins == [s EXCEPT !.locked = k, !.attacked = A, !.skull = K]
<1>1. k \in SUBSET Players /\ A \in [Players -> SUBSET Players] /\ K \in [Players -> Skulls]
  BY DEF Fights, Skulls
<1>2. K = IF s.skull[p] = "none" /\ s.skull[q] = "none" THEN [s.skull EXCEPT ![p] = "white"] ELSE s.skull
  BY DEF Fights
<1>3. Marked(s, p, q) = IF Struck(s, p, q) THEN struck ELSE IF Begins(s, p, q) THEN begins ELSE s
  <2> DEFINE a == [s EXCEPT !.locked = k]
  <2> DEFINE b == [a EXCEPT !.attacked[p] = @ \union {q}]
  <2> DEFINE c == [b EXCEPT !.skull[p] = IF @ = "none" /\ s.skull[q] = "none" THEN "white" ELSE @]
  <2>1. Marked(s, p, q) = IF Struck(s, p, q) THEN struck ELSE IF Begins(s, p, q) THEN c ELSE s
    BY DEF Marked, Struck, Begins
  <2> HIDE DEF k, struck
  <2>2. a.attacked = s.attacked /\ a.skull = s.skull
    BY DEF Fights
  <2> HIDE DEF a
  <2>3. b = [a EXCEPT !.attacked = A]
    BY <2>2
  <2> QED
    BY <2>1, <2>2, <2>3 DEF a
<1> HIDE DEF k, A, K
<1>4. struck \in Fights /\ Only(s, struck, {"attacked"}) /\ struck.attacked = A
  BY <1>1 DEF Fights, Only, Fields
<1>5. /\ begins \in Fights /\ Only(s, begins, {"attacked", "locked", "skull"})
      /\ begins.attacked = A /\ begins.locked = k /\ begins.skull = K
  BY <1>1 DEF Fights, Only, Fields
<1> HIDE DEF struck, begins
<1>6. /\ struck.locked = s.locked /\ struck.skull = s.skull
      /\ Only(s, struck, {"attacked", "locked", "skull"}) /\ Only(s, s, {"attacked", "locked", "skull"})
  BY <1>4 DEF Only, Fields
<1> QED
  BY <1>2, <1>3, <1>4, <1>5, <1>6 DEF k, A, Begins

(* A first blow of p at q out of an arena: p is in a fight and marked.     *)
Attack(s, p, q, t) ==
  /\ t \in Fights /\ Only(s, t, {"attacked", "locked", "skull", "inFight", "began"})
  /\ t.attacked = IF Struck(s, p, q) \/ Begins(s, p, q)
                  THEN [s.attacked EXCEPT ![p] = @ \union {q}] ELSE s.attacked
  /\ t.locked = IF Begins(s, p, q) THEN s.locked \union {p} ELSE s.locked
  /\ t.skull = IF Begins(s, p, q) /\ s.skull[p] = "none" /\ s.skull[q] = "none"
               THEN [s.skull EXCEPT ![p] = "white"] ELSE s.skull
  /\ t.inFight = s.inFight \union {p}
  /\ t.began = IF p \in s.began[q] THEN s.began ELSE [s.began EXCEPT ![p] = @ \union {q}]

(* Out of an arena a blow does what Attack says.                           *)
LEMMA OnAttackedChanges ==
  ASSUME NEW s \in Fights, NEW p \in Players, NEW q \in Players, s.zone[q] # "arena",
         NEW t, t = OnAttackedCreature(s, p, q)
  PROVE  Attack(s, p, q, t)
<1> DEFINE B == IF p \in s.began[q] THEN s.began ELSE [s.began EXCEPT ![p] = @ \union {q}]
<1> DEFINE b == [s EXCEPT !.began = B]
<1> DEFINE m == Marked(b, p, q)
<1> DEFINE f == m.inFight \union {p}
<1>1. (IF p \in s.began[q] THEN s ELSE [s EXCEPT !.began[p] = @ \union {q}]) = b
  BY DEF Fights
<1>2. B \in [Players -> SUBSET Players]
  BY DEF Fights
<1>3. t = LockedInFight(m, p)
  BY <1>1 DEF OnAttackedCreature
<1> HIDE DEF B
<1>4. b \in Fights /\ Only(s, b, {"began"}) /\ b.began = B
  BY <1>2 DEF Fights, Only, Fields
<1> HIDE DEF b
<1>5. /\ m \in Fights /\ Only(b, m, {"attacked", "locked", "skull"})
      /\ m.attacked = IF Struck(b, p, q) \/ Begins(b, p, q) THEN [b.attacked EXCEPT ![p] = @ \union {q}] ELSE b.attacked
      /\ m.locked = IF Begins(b, p, q) THEN b.locked \union {p} ELSE b.locked
      /\ m.skull = IF Begins(b, p, q) /\ b.skull[p] = "none" /\ b.skull[q] = "none"
                   THEN [b.skull EXCEPT ![p] = "white"] ELSE b.skull
  BY <1>4, MarkedChanges
<1>6. b.skull = s.skull /\ b.attacked = s.attacked /\ b.locked = s.locked /\ b.inFight = s.inFight
  BY <1>4 DEF Only, Fields
<1>7. (Struck(b, p, q) <=> Struck(s, p, q)) /\ (Begins(b, p, q) <=> Begins(s, p, q))
  BY <1>6 DEF Struck, Begins, SkullClient
<1>8. m.inFight = s.inFight /\ m.began = B
  BY <1>4, <1>5, <1>6 DEF Only, Fields
<1> HIDE DEF m
<1>9. f \in SUBSET Players
  BY <1>5 DEF Fights
<1>10. t = [m EXCEPT !.inFight = f]
  BY <1>3 DEF LockedInFight
<1> HIDE DEF f
<1>11. t \in Fights /\ Only(m, t, {"inFight"}) /\ t.inFight = f
  BY <1>5, <1>9, <1>10, ZenonT(60) DEF Fights, Only, Fields
<1>12. Only(s, t, {"attacked", "locked", "skull", "inFight", "began"})
  BY <1>4, <1>5, <1>11 DEF Only
<1>13. t.attacked = m.attacked /\ t.locked = m.locked /\ t.skull = m.skull /\ t.began = m.began
  BY <1>11 DEF Only, Fields
<1> QED
  BY <1>5, <1>6, <1>7, <1>8, <1>11, <1>12, <1>13 DEF f, B, Attack

(* A save revives whom it finds dead.                                      *)
LEMMA SavedChanges ==
  ASSUME NEW s \in Fights, NEW P \in SUBSET Players, NEW t, t = Saved(s, P)
  PROVE  /\ t \in Fights /\ Only(s, t, {"health"})
         /\ t.health = [p \in Players |-> IF p \in P /\ s.health[p] = 0 THEN 1 ELSE s.health[p]]
<1> DEFINE h == [p \in Players |-> IF p \in P /\ s.health[p] = 0 THEN 1 ELSE s.health[p]]
<1>1. h \in [Players -> Nat] /\ t = [s EXCEPT !.health = h]
  BY DEF Saved, Fights
<1> HIDE DEF h
<1>2. t \in Fights /\ Only(s, t, {"health"}) /\ t.health = h
  BY <1>1 DEF Fights, Only, Fields
<1> QED
  BY <1>2 DEF h

(* Who leaves is forgotten, and poisons nobody.                            *)
Left(s, p, t) ==
  /\ t \in Fights
  /\ Only(s, t, {"health", "online", "locked", "attacked", "began", "skull", "skillLoss",
                 "lastHit", "slayer", "points", "poison"})
  /\ t.online = s.online \ {p} /\ t.locked = s.locked \ {p}
  /\ t.attacked = [s.attacked EXCEPT ![p] = {}] /\ t.began = [s.began EXCEPT ![p] = {}]
  /\ t.skull = [s.skull EXCEPT ![p] = IF @ = "white" THEN "none" ELSE @]
  /\ t.health = [q \in Players |-> IF q = p /\ s.health[q] = 0 THEN 1 ELSE s.health[q]]
  /\ t.lastHit = [q \in Players |-> IF q = p \/ s.lastHit[q] = p THEN Nobody ELSE s.lastHit[q]]
  /\ t.slayer = [q \in Players |-> IF q = p \/ s.slayer[q] = p THEN Nobody ELSE s.slayer[q]]
  /\ t.poison = [q \in Players |-> IF s.poison[q] # Nobody /\ (q = p \/ s.poison[q] = p) THEN Gone ELSE s.poison[q]]

(* Game::removeCreature: marks, credit and poison of who leaves.           *)
LEMMA RemovedChanges ==
  ASSUME CombatAssumption, NEW s \in Fights, NEW p \in Players, NEW t, t = Removed(s, p)
  PROVE  Left(s, p, t)
<1>1. PICK u \in Fights : /\ u = Saved(s, {p}) /\ Only(s, u, {"health"})
                          /\ u.health = [q \in Players |-> IF q \in {p} /\ s.health[q] = 0 THEN 1 ELSE s.health[q]]
  BY SavedChanges
<1>2. \A f \in Fields \ {"health"} : u[f] = s[f]
  BY <1>1 DEF Only
<1>3. /\ u.online = s.online /\ u.locked = s.locked /\ u.attacked = s.attacked /\ u.began = s.began
      /\ u.skull = s.skull /\ u.skillLoss = s.skillLoss /\ u.lastHit = s.lastHit /\ u.slayer = s.slayer
      /\ u.points = s.points /\ u.poison = s.poison
  BY <1>2 DEF Fields
<1>4. t = [f \in Fields |-> t[f]]
  BY <1>1, ZenonT(60) DEF Removed, Fields, Fights
<1>5. Only(u, t, {"online", "locked", "attacked", "began", "skull", "skillLoss",
                  "lastHit", "slayer", "points", "poison"})
  BY <1>1 DEF Removed, Fights, Only, Fields
<1>6. t.online = u.online \ {p} /\ t.locked = u.locked \ {p} /\ t.skillLoss = u.skillLoss \union {p}
  BY <1>1 DEF Removed, Fights
<1>7. t.attacked = [u.attacked EXCEPT ![p] = {}] /\ t.began = [u.began EXCEPT ![p] = {}]
  BY <1>1 DEF Removed, Fights
<1>8. t.skull = [u.skull EXCEPT ![p] = IF @ = "white" THEN "none" ELSE @]
  BY <1>1 DEF Removed, Fights
<1>9. t.lastHit = [q \in Players |-> IF q = p \/ u.lastHit[q] = p THEN Nobody ELSE u.lastHit[q]]
  BY <1>1 DEF Removed, Fights
<1>10. t.slayer = [q \in Players |-> IF q = p \/ u.slayer[q] = p THEN Nobody ELSE u.slayer[q]]
  BY <1>1 DEF Removed, Fights
<1>11. t.poison = [q \in Players |-> IF u.poison[q] # Nobody /\ (q = p \/ u.poison[q] = p) THEN Gone ELSE u.poison[q]]
  BY <1>1 DEF Removed, Fights
<1>12. t.points = [q \in Players |-> IF q = p THEN NoPoints ELSE [u.points[q] EXCEPT ![p] = 0]]
  BY <1>1 DEF Removed, Fights
<1>13. NoPoints \in [Attackers -> Nat]
  BY DEF NoPoints
<1>14. t.points \in [Players -> [Attackers -> Nat]]
  <2>1. u.points \in [Players -> [Attackers -> Nat]]
    BY DEF Fights
  <2>2. \A q \in Players : [u.points[q] EXCEPT ![p] = 0] \in [Attackers -> Nat]
    BY <2>1
  <2> QED
    BY <1>12, <1>13, <2>2
<1>15. t.health = u.health /\ t.zone = u.zone /\ t.mana = u.mana /\ t.frags = u.frags /\ t.inFight = u.inFight
       /\ t.losses = u.losses
  BY <1>5 DEF Only, Fields
<1>16. t.skull \in [Players -> Skulls]
  <2>1. u.skull \in [Players -> Skulls] /\ "none" \in Skulls
    BY DEF Fights, Skulls
  <2> QED
    BY <1>8, <2>1
<1>17. t.lastHit \in [Players -> Fighters] /\ t.slayer \in [Players -> Fighters] /\ t.poison \in [Players -> Fighters]
  <2>1. /\ u.lastHit \in [Players -> Fighters] /\ u.slayer \in [Players -> Fighters]
        /\ u.poison \in [Players -> Fighters]
    BY DEF Fights
  <2>2. Nobody \in Fighters /\ Gone \in Fighters
    BY DEF Fighters
  <2>3. t.lastHit \in [Players -> Fighters]
    BY <1>9, <2>1, <2>2
  <2>4. t.slayer \in [Players -> Fighters]
    BY <1>10, <2>1, <2>2
  <2>5. t.poison \in [Players -> Fighters]
    BY <1>11, <2>1, <2>2
  <2> QED
    BY <2>3, <2>4, <2>5
<1>18. /\ t.attacked \in [Players -> SUBSET Players] /\ t.began \in [Players -> SUBSET Players]
       /\ t.online \in SUBSET Players /\ t.locked \in SUBSET Players /\ t.skillLoss \in SUBSET Players
  <2>1. /\ u.attacked \in [Players -> SUBSET Players] /\ u.began \in [Players -> SUBSET Players]
        /\ u.online \in SUBSET Players /\ u.locked \in SUBSET Players /\ u.skillLoss \in SUBSET Players
    BY DEF Fights
  <2> QED
    BY <1>6, <1>7, <2>1
<1>19. /\ t.health \in [Players -> Nat] /\ t.zone \in [Players -> Zones] /\ t.mana \in [Players -> Nat]
       /\ t.frags \in [Players -> Nat] /\ t.inFight \in SUBSET Players /\ t.losses \in SUBSET Players
  BY <1>1, <1>15 DEF Fights
<1>20. t \in Fights
  BY <1>4, <1>14, <1>16, <1>17, <1>18, <1>19, IsFight
<1>21. Only(s, t, {"health", "online", "locked", "attacked", "began", "skull", "skillLoss",
                        "lastHit", "slayer", "points", "poison"})
  BY <1>2, <1>5 DEF Only
<1> QED
  BY <1>1, <1>3, <1>6, <1>7, <1>8, <1>9, <1>10, <1>11, <1>15, <1>20, <1>21 DEF Left

(* Skulls get no lighter.                                                  *)
Graver(k, l) ==
  /\ l \in {k, "red", "black"}
  /\ k = "black" => l = "black"
  /\ k = "red" => l \in {"red", "black"}
Harder(s, t) == \A p \in Players : Graver(s.skull[p], t.skull[p])

(* An unjustified kill costs the killer alone.                             *)
LEMMA AddUnjustifiedChanges ==
  ASSUME CombatAssumption, NEW s \in Fights, NEW k \in Players, NEW t, t = AddUnjustifiedDead(s, k)
  PROVE  /\ t \in Fights /\ Only(s, t, {"frags", "skull"}) /\ Harder(s, t)
         /\ \A x \in Players : t.frags[x] # s.frags[x] => x = k /\ t.frags[x] > s.frags[x]
<1> DEFINE n == IF s.frags[k] < MaxFrags THEN s.frags[k] + 1 ELSE s.frags[k]
<1> DEFINE K == [s.skull EXCEPT ![k] = IF @ # "black" /\ n >= KillsToBlack THEN "black"
                             ELSE IF @ \notin {"black", "red"} /\ n >= KillsToRed THEN "red" ELSE @]
<1> DEFINE F == [s.frags EXCEPT ![k] = n]
<1>1. n \in Nat /\ (n # s.frags[k] => n > s.frags[k])
  <2>1. s.frags[k] \in Nat /\ MaxFrags \in Nat
    BY FightTypes DEF CombatAssumption
  <2> QED
    BY <2>1
<1> HIDE DEF n
<1>2. F \in [Players -> Nat] /\ \A x \in Players : F[x] # s.frags[x] => x = k /\ F[x] > s.frags[x]
  BY <1>1, FightTypes
<1>3. K \in [Players -> Skulls] /\ \A p \in Players : Graver(s.skull[p], K[p])
  BY FightTypes DEF Skulls, Graver
<1>4. t.frags = F /\ t.skull = K
  BY DEF AddUnjustifiedDead, n, Fights
<1>5. Only(s, t, {"frags", "skull"}) /\ t = [f \in Fields |-> t[f]]
  BY DEF AddUnjustifiedDead, Only, Fields, Fights
<1> HIDE DEF F, K
<1>6. t = [s EXCEPT !.frags = F, !.skull = K]
  BY <1>4, <1>5 DEF Only, Fields, Fights
<1>7. t \in Fights
  BY <1>2, <1>3, <1>6, ZenonT(60) DEF Fights
<1> QED
  BY <1>2, <1>3, <1>4, <1>5, <1>7 DEF Harder

(* A killing k of q may cost k frags and a skull, or spare q his skills.   *)
Kill(s, k, q, t) ==
  /\ t \in Fights /\ Only(s, t, {"frags", "skull", "locked", "skillLoss"}) /\ Harder(s, t)
  /\ \A x \in Players : t.frags[x] # s.frags[x] =>
       x = k /\ t.frags[x] > s.frags[x] /\ Unjustified(s, k, q) /\ s.skull[q] = "none"
  /\ t.locked \subseteq s.locked \union s.inFight
  /\ t.skillLoss = IF k \in Players /\ s.zone[q] = "arena" THEN s.skillLoss \ {q} ELSE s.skillLoss

(* Player::onKilledCreature, for the last who hit and for who did most.    *)
LEMMA OnKilledChanges ==
  ASSUME CombatAssumption, NEW s \in Fights, NEW k, NEW q \in Players, NEW last,
         NEW t, t = OnKilledCreature(s, k, q, last)
  PROVE  Kill(s, k, q, t)
<1> DEFINE C == {"frags", "skull", "locked", "skillLoss"}
<1>1. CASE t = s /\ ~(k \in Players /\ s.zone[q] = "arena")
  BY <1>1 DEF Kill, Only, Harder, Graver
<1>2. CASE k \in Players /\ s.zone[q] = "arena"
  <2> DEFINE l == s.skillLoss \ {q}
  <2>1. t = [s EXCEPT !.skillLoss = l] /\ l \in SUBSET Players
    BY <1>2, FightTypes DEF OnKilledCreature
  <2> HIDE DEF l
  <2>2. t \in Fights /\ Only(s, t, {"skillLoss"}) /\ t.skillLoss = l
    BY <2>1 DEF Fights, Only, Fields
  <2>3. t.frags = s.frags /\ t.skull = s.skull /\ t.locked = s.locked
    BY <2>2 DEF Only, Fields
  <2> QED
    BY <1>2, <2>2, <2>3 DEF Kill, l, Only, Harder, Graver
<1>3. CASE k \in Players /\ s.zone[q] # "arena" /\ Unjustified(s, k, q)
  <2> DEFINE u == IF s.skull[q] = "none" THEN AddUnjustifiedDead(s, k) ELSE s
  <2>1. t = IF last /\ k \in s.inFight THEN [u EXCEPT !.locked = u.locked \union {k}] ELSE u
    BY <1>3 DEF OnKilledCreature
  <2>2. /\ u \in Fights /\ Only(s, u, {"frags", "skull"}) /\ Harder(s, u)
        /\ \A x \in Players : u.frags[x] # s.frags[x] =>
             x = k /\ u.frags[x] > s.frags[x] /\ s.skull[q] = "none"
    <3>1. CASE s.skull[q] = "none"
      BY <1>3, <3>1, AddUnjustifiedChanges
    <3>2. CASE s.skull[q] # "none"
      BY <3>2 DEF Only, Harder, Graver
    <3> QED
      BY <3>1, <3>2
  <2> HIDE DEF u
  <2>3. u.locked = s.locked /\ u.skillLoss = s.skillLoss
    BY <2>2 DEF Only, Fields
  <2> DEFINE l == u.locked \union {k}
  <2>4. l \in SUBSET Players
    BY <1>3, <2>2, FightTypes
  <2> DEFINE v == [u EXCEPT !.locked = l]
  <2> HIDE DEF l
  <2>5. v \in Fights /\ Only(u, v, {"locked"}) /\ v.locked = l
    BY <2>2, <2>4 DEF Fights, Only, Fields
  <2> HIDE DEF v
  <2>6. v.frags = u.frags /\ v.skull = u.skull /\ v.skillLoss = u.skillLoss
    BY <2>5 DEF Only, Fields
  <2>7. t = IF last /\ k \in s.inFight THEN v ELSE u
    BY <2>1 DEF v, l
  <2>8. t \in Fights /\ t.frags = u.frags /\ t.skull = u.skull /\ t.skillLoss = u.skillLoss
    BY <2>2, <2>5, <2>6, <2>7
  <2>9. t.locked \subseteq s.locked \union s.inFight
    BY <2>3, <2>5, <2>7 DEF l
  <2>10. Only(s, t, C)
    BY <2>2, <2>5, <2>7 DEF Only
  <2>11. Harder(s, t)
    BY <2>2, <2>8 DEF Harder
  <2> QED
    BY <1>3, <2>2, <2>3, <2>8, <2>9, <2>10, <2>11 DEF Kill
<1> QED
  BY <1>1, <1>2, <1>3 DEF OnKilledCreature

(* What is taken back from those who dealt damage.                         *)
LEMMA ForgivenChanges ==
  ASSUME NEW s \in Fights, NEW q \in Players, NEW t, t = Forgiven(s, q)
  PROVE  /\ t \in Fights /\ Only(s, t, {"attacked", "began"})
         /\ t.attacked = [a \in Players |-> IF s.points[q][a] > 0 THEN s.attacked[a] \ {q} ELSE s.attacked[a]]
         /\ t.began = [a \in Players |-> s.began[a] \ {q}]
<1> DEFINE A == [a \in Players |-> IF s.points[q][a] > 0 THEN s.attacked[a] \ {q} ELSE s.attacked[a]]
<1> DEFINE B == [a \in Players |-> s.began[a] \ {q}]
<1>1. A \in [Players -> SUBSET Players] /\ B \in [Players -> SUBSET Players]
  BY FightTypes
<1>2. t.attacked = A /\ t.began = B
  BY DEF Forgiven, Fights
<1>3. Only(s, t, {"attacked", "began"}) /\ t = [f \in Fields |-> t[f]]
  BY DEF Forgiven, Only, Fields, Fights
<1> HIDE DEF A, B
<1>4. t = [s EXCEPT !.attacked = A, !.began = B]
  BY <1>2, <1>3 DEF Only, Fields, Fights
<1>5. t \in Fights
  BY <1>1, <1>4 DEF Fights
<1> QED
  BY <1>2, <1>3, <1>5 DEF A, B

(* The death of q may cost one who killed him; of q, everybody is free.   *)
Fallen(s, q, t) ==
  /\ t \in Fights /\ Only(s, t, {"frags", "skull", "locked", "skillLoss", "attacked", "began"}) /\ Harder(s, t)
  /\ \A x \in Players : t.frags[x] # s.frags[x] =>
       t.frags[x] > s.frags[x] /\ Unjustified(s, x, q) /\ s.skull[q] = "none"
  /\ t.locked \subseteq s.locked \union s.inFight
  /\ t.attacked = [a \in Players |-> IF s.points[q][a] > 0 THEN s.attacked[a] \ {q} ELSE s.attacked[a]]
  /\ t.began = [a \in Players |-> s.began[a] \ {q}]
  /\ s.lastHit[q] \in Players /\ s.zone[q] = "arena" => q \notin t.skillLoss

(* Both calls of a death blame at most one, the last who hit.              *)
LEMMA KilledChanges ==
  ASSUME CombatAssumption, NEW s \in Fights, NEW q \in Players, NEW most \in MostDamage(s, q),
         NEW t, t = Killed(s, q, most)
  PROVE  Fallen(s, q, t)
<1> DEFINE k == s.lastHit[q]
<1> HIDE DEF k
<1>1. PICK u : u = OnKilledCreature(s, k, q, TRUE)
  OBVIOUS
<1>2. PICK v : v = Forgiven(u, q)
  OBVIOUS
<1>3. PICK w : w = OnKilledCreature(v, most, q, FALSE)
  OBVIOUS
<1>4. t = IF most \in {Nobody, k} THEN v ELSE w
  BY <1>1, <1>2, <1>3 DEF Killed, k
<1>5. Kill(s, k, q, u)
  BY <1>1, OnKilledChanges
<1>6. /\ u \in Fights /\ Only(s, u, {"frags", "skull", "locked", "skillLoss"}) /\ Harder(s, u)
      /\ \A x \in Players : u.frags[x] # s.frags[x] =>
           x = k /\ u.frags[x] > s.frags[x] /\ Unjustified(s, k, q) /\ s.skull[q] = "none"
      /\ u.locked \subseteq s.locked \union s.inFight
      /\ u.skillLoss = IF k \in Players /\ s.zone[q] = "arena" THEN s.skillLoss \ {q} ELSE s.skillLoss
  BY <1>5 DEF Kill
<1>7. /\ v \in Fights /\ Only(u, v, {"attacked", "began"})
      /\ v.attacked = [a \in Players |-> IF u.points[q][a] > 0 THEN u.attacked[a] \ {q} ELSE u.attacked[a]]
      /\ v.began = [a \in Players |-> u.began[a] \ {q}]
  BY <1>2, <1>6, ForgivenChanges
<1>8. Kill(v, most, q, w)
  BY <1>3, <1>7, OnKilledChanges
<1>9. /\ w \in Fights /\ Only(v, w, {"frags", "skull", "locked", "skillLoss"}) /\ Harder(v, w)
      /\ \A x \in Players : w.frags[x] # v.frags[x] => x = most /\ Unjustified(v, most, q)
      /\ w.locked \subseteq v.locked \union v.inFight
      /\ w.skillLoss = IF most \in Players /\ v.zone[q] = "arena" THEN v.skillLoss \ {q} ELSE v.skillLoss
  BY <1>8 DEF Kill
<1>10. /\ u.points = s.points /\ u.attacked = s.attacked /\ u.began = s.began /\ u.inFight = s.inFight
  BY <1>6 DEF Only, Fields
<1>11. /\ v.points = s.points /\ v.inFight = s.inFight /\ v.locked = u.locked /\ v.skillLoss = u.skillLoss
       /\ v.frags = u.frags /\ v.skull = u.skull
  BY <1>7, <1>10 DEF Only, Fields
<1>12. w.attacked = v.attacked /\ w.began = v.began
  BY <1>9 DEF Only, Fields
<1>13. \A x \in Players : most # Nobody => w.frags[x] = v.frags[x]
  <2> SUFFICES ASSUME NEW x \in Players, most # Nobody, w.frags[x] # v.frags[x]
               PROVE  FALSE
    OBVIOUS
  <2>1. most = x /\ q \in v.attacked[x]
    BY <1>9 DEF Unjustified
  <2>2. s.points[q][x] > 0
    BY <2>1 DEF MostDamage
  <2>3. v.attacked[x] = u.attacked[x] \ {q}
    BY <1>7, <1>10, <2>2
  <2> QED
    BY <2>1, <2>3
<1>14. Harder(s, t)
  <2>1. \A p \in Players : Graver(s.skull[p], u.skull[p]) /\ (t.skull = u.skull \/ Graver(u.skull[p], t.skull[p]))
    BY <1>4, <1>6, <1>9, <1>11 DEF Harder
  <2> QED
    BY <2>1 DEF Graver, Harder
<1>15. Only(s, t, {"frags", "skull", "locked", "skillLoss", "attacked", "began"})
  BY <1>4, <1>6, <1>7, <1>9 DEF Only
<1>16. t.attacked = v.attacked /\ t.began = v.began
  BY <1>4, <1>12
<1>17. t.locked \subseteq s.locked \union s.inFight
  BY <1>4, <1>6, <1>9, <1>11
<1>18. t.skillLoss \subseteq u.skillLoss
  BY <1>4, <1>9, <1>11
<1>19. \A x \in Players : t.frags[x] = u.frags[x]
  BY <1>4, <1>11, <1>13
<1>20. \A x \in Players : t.frags[x] # s.frags[x] =>
         t.frags[x] > s.frags[x] /\ Unjustified(s, x, q) /\ s.skull[q] = "none"
  BY <1>6, <1>19
<1>21. k \in Players /\ s.zone[q] = "arena" => q \notin t.skillLoss
  BY <1>6, <1>18
<1>22. t \in Fights
  BY <1>4, <1>7, <1>9
<1> QED
  BY <1>7, <1>10, <1>14, <1>15, <1>16, <1>17, <1>20, <1>21, <1>22 DEF k, Fallen

(* The living forget who hit them.                                        *)
Idled(s, p, t) ==
  /\ t \in Fights /\ Only(s, t, {"points", "lastHit", "slayer"})
  /\ s.health[p] = 0 => t = s
  /\ s.health[p] # 0 => /\ t.lastHit = [s.lastHit EXCEPT ![p] = Nobody]
                        /\ t.slayer = [s.slayer EXCEPT ![p] = Nobody]

(* Player::onIdleStatus,                                                   *)
LEMMA IdleChanges ==
  ASSUME NEW s \in Fights, NEW p \in Players, NEW t, t = IdleStatus(s, p)
  PROVE  Idled(s, p, t)
<1>1. CASE s.health[p] = 0
  BY <1>1 DEF IdleStatus, Only, Idled
<1>2. CASE s.health[p] # 0
  <2> DEFINE P == [s.points EXCEPT ![p] = NoPoints]
  <2> DEFINE L == [s.lastHit EXCEPT ![p] = Nobody]
  <2> DEFINE S == [s.slayer EXCEPT ![p] = Nobody]
  <2>1. P \in [Players -> [Attackers -> Nat]]
    BY FightTypes DEF NoPoints
  <2>2. L \in [Players -> Fighters] /\ S \in [Players -> Fighters]
    BY FightTypes DEF Fighters
  <2>3. t = [s EXCEPT !.points[p] = NoPoints, !.lastHit[p] = Nobody, !.slayer[p] = Nobody]
    BY <1>2 DEF IdleStatus
  <2>4. t.points = P /\ t.lastHit = L /\ t.slayer = S
    BY <2>3 DEF Fights
  <2>5. Only(s, t, {"points", "lastHit", "slayer"}) /\ t = [f \in Fields |-> t[f]]
    BY <2>3 DEF Only, Fields, Fights
  <2> HIDE DEF P, L, S
  <2>6. t = [s EXCEPT !.points = P, !.lastHit = L, !.slayer = S]
    BY <2>4, <2>5 DEF Only, Fields, Fights
  <2>7. t \in Fights
    BY <2>1, <2>2, <2>6 DEF Fights
  <2> QED
    BY <1>2, <2>4, <2>5, <2>7 DEF L, S, Idled
<1> QED
  BY <1>1, <1>2

Ends == {"points", "lastHit", "slayer", "inFight", "locked", "attacked", "began", "skull"}

(* With the end of a fight its marks end.                                  *)
Ended(s, p, t) ==
  /\ t \in Fights /\ Only(s, t, Ends)
  /\ t.inFight = s.inFight \ {p} /\ t.locked = s.locked \ {p}
  /\ t.attacked = [s.attacked EXCEPT ![p] = {}] /\ t.began = [s.began EXCEPT ![p] = {}]
  /\ t.skull = [s.skull EXCEPT ![p] = IF @ = "white" THEN "none" ELSE @]
  /\ s.health[p] = 0 => t.lastHit = s.lastHit /\ t.slayer = s.slayer
  /\ s.health[p] # 0 => /\ t.lastHit = [s.lastHit EXCEPT ![p] = Nobody]
                        /\ t.slayer = [s.slayer EXCEPT ![p] = Nobody]

(* and the end of the condition of a fight.                                *)
LEMMA EndChanges ==
  ASSUME NEW s \in Fights, NEW p \in Players, p \in s.inFight, NEW t, t = EndCondition(s, p)
  PROVE  Ended(s, p, t)
<1> DEFINE u == IdleStatus(s, p)
<1>1. t = [u EXCEPT !.inFight = @ \ {p}, !.locked = @ \ {p}, !.attacked[p] = {}, !.began[p] = {},
                    !.skull[p] = IF @ = "white" THEN "none" ELSE @]
  BY DEF EndCondition
<1>2. /\ u \in Fights /\ Only(s, u, {"points", "lastHit", "slayer"}) /\ (s.health[p] = 0 => u = s)
      /\ s.health[p] # 0 => /\ u.lastHit = [s.lastHit EXCEPT ![p] = Nobody]
                            /\ u.slayer = [s.slayer EXCEPT ![p] = Nobody]
  <2>1. Idled(s, p, u)
    BY IdleChanges
  <2> QED
    BY <2>1 DEF Idled
<1> HIDE DEF u
<1>3. u.inFight = s.inFight /\ u.locked = s.locked /\ u.attacked = s.attacked /\ u.began = s.began /\ u.skull = s.skull
  BY <1>2 DEF Only, Fields
<1>4. /\ t.inFight = u.inFight \ {p} /\ t.locked = u.locked \ {p}
      /\ t.attacked = [u.attacked EXCEPT ![p] = {}] /\ t.began = [u.began EXCEPT ![p] = {}]
  BY <1>1, <1>2 DEF Fights
<1>5. t.skull = [u.skull EXCEPT ![p] = IF @ = "white" THEN "none" ELSE @]
  BY <1>1, <1>2 DEF Fights
<1>6. Only(u, t, {"inFight", "locked", "attacked", "began", "skull"}) /\ t = [f \in Fields |-> t[f]]
  BY <1>1, <1>2, ZenonT(60) DEF Only, Fields, Fights
<1> DEFINE F == u.inFight \ {p}
<1> DEFINE K == u.locked \ {p}
<1> DEFINE A == [u.attacked EXCEPT ![p] = {}]
<1> DEFINE B == [u.began EXCEPT ![p] = {}]
<1> DEFINE S == [u.skull EXCEPT ![p] = IF @ = "white" THEN "none" ELSE @]
<1>7. F \in SUBSET Players /\ K \in SUBSET Players /\ A \in [Players -> SUBSET Players] /\ B \in [Players -> SUBSET Players]
  BY <1>2, FightTypes
<1>8. S \in [Players -> Skulls]
  BY <1>2, FightTypes DEF Skulls
<1>9. t.inFight = F /\ t.locked = K /\ t.attacked = A /\ t.began = B /\ t.skull = S
  BY <1>4, <1>5
<1> HIDE DEF F, K, A, B, S
<1>11. t \in Fights
  <2>1. /\ t.online = u.online /\ t.zone = u.zone /\ t.health = u.health /\ t.mana = u.mana
        /\ t.frags = u.frags /\ t.points = u.points /\ t.lastHit = u.lastHit
        /\ t.skillLoss = u.skillLoss /\ t.poison = u.poison /\ t.losses = u.losses
        /\ t.slayer = u.slayer
    BY <1>6 DEF Only, Fields
  <2>2. /\ t.online \in SUBSET Players /\ t.zone \in [Players -> Zones]
        /\ t.health \in [Players -> Nat] /\ t.mana \in [Players -> Nat]
        /\ t.frags \in [Players -> Nat] /\ t.points \in [Players -> [Attackers -> Nat]]
        /\ t.lastHit \in [Players -> Fighters] /\ t.skillLoss \in SUBSET Players
        /\ t.poison \in [Players -> Fighters] /\ t.losses \in SUBSET Players
        /\ t.slayer \in [Players -> Fighters]
    BY <1>2, <2>1, FightTypes
  <2> QED
    BY <1>6, <1>7, <1>8, <1>9, <2>2, IsFight
<1>12. t.lastHit = u.lastHit /\ t.slayer = u.slayer
  BY <1>6 DEF Only, Fields
<1>13. Only(s, t, Ends)
  BY <1>2, <1>6 DEF Only, Ends
<1> QED
  BY <1>2, <1>3, <1>4, <1>5, <1>11, <1>12, <1>13 DEF Ended

(* The inductive invariant: marks belong to a fight; who is not there has  *)
(* none and poisons nobody; who began a fight is marked, or one of the two *)
(* has a skull; and who killed is the last who hit.                        *)
Marking(s) ==
  \A p \in Players :
    s.attacked[p] # {} \/ s.began[p] # {} \/ p \in s.locked \/ s.skull[p] = "white" => p \in s.inFight
Away(s) ==
  /\ \A p \in Players \ s.online : s.attacked[p] = {} /\ s.began[p] = {}
  /\ \A q \in Players : s.poison[q] \in Players => s.poison[q] \in s.online
Provoked(s) ==
  \A k, q \in Players : k \in s.began[q] /\ q \in s.attacked[k] /\ k \notin s.attacked[q] =>
                        s.skull[k] # "none" \/ s.skull[q] # "none"
Slain(s) ==
  \A q \in Players : s.health[q] = 0 =>
    (s.slayer[q] \in Players => s.lastHit[q] = s.slayer[q]) /\ (q \in Shielded => s.mana[q] = 0)
Good(s) == s \in Fights /\ Marking(s) /\ Away(s) /\ Provoked(s) /\ Slain(s)

Kept(s, t) ==
  \A p \in Players : /\ s.skull[p] = "black" => t.skull[p] = "black"
                     /\ s.skull[p] = "red" => t.skull[p] \in {"red", "black"}

Marks == {"attacked", "locked", "skull", "inFight", "began"}

(* A blow of a player keeps the invariant, with what began a fight,        *)
LEMMA AttackGood ==
  ASSUME NEW s, Good(s), NEW p \in s.online, p \in Players, NEW q \in Players, NEW t, t = OnAttackedCreature(s, p, q)
  PROVE  Good(t) /\ Only(s, t, Marks) /\ Kept(s, t)
<1>1. CASE s.zone[q] = "arena"
  <2>1. t = s
    BY <1>1 DEF OnAttackedCreature
  <2> QED
    BY <2>1 DEF Only, Kept
<1>2. CASE s.zone[q] # "arena"
  <2>0. s \in Fights
    BY DEF Good
  <2>1. /\ t \in Fights /\ Only(s, t, {"attacked", "locked", "skull", "inFight", "began"})
        /\ t.attacked = IF Struck(s, p, q) \/ Begins(s, p, q)
                         THEN [s.attacked EXCEPT ![p] = @ \union {q}] ELSE s.attacked
        /\ t.locked = IF Begins(s, p, q) THEN s.locked \union {p} ELSE s.locked
        /\ t.skull = IF Begins(s, p, q) /\ s.skull[p] = "none" /\ s.skull[q] = "none"
                      THEN [s.skull EXCEPT ![p] = "white"] ELSE s.skull
        /\ t.inFight = s.inFight \union {p}
        /\ t.began = IF p \in s.began[q] THEN s.began ELSE [s.began EXCEPT ![p] = @ \union {q}]
    <3>1. p \in Players
      OBVIOUS
    <3>2. Attack(s, p, q, t)
      BY <1>2, <2>0, OnAttackedChanges
    <3> QED
      BY <3>2 DEF Attack
  <2>2. /\ t.online = s.online /\ t.health = s.health /\ t.mana = s.mana /\ t.lastHit = s.lastHit
        /\ t.slayer = s.slayer /\ t.poison = s.poison
    BY <2>1 DEF Only, Fields
  <2>3. \A x \in Players : x # p => t.attacked[x] = s.attacked[x] /\ t.began[x] = s.began[x] /\ t.skull[x] = s.skull[x]
    BY <2>0, <2>1, FightTypes
  <2>4. /\ s.attacked[p] \subseteq t.attacked[p] /\ t.attacked[p] \subseteq s.attacked[p] \union {q}
        /\ t.began[p] \subseteq s.began[p] \union {q}
        /\ t.skull[p] = s.skull[p] \/ (s.skull[p] = "none" /\ t.skull[p] = "white")
    BY <2>0, <2>1, FightTypes
  <2>5. Marking(t)
    BY <2>1, <2>3 DEF Good, Marking
  <2>6. Away(t)
    BY <2>2, <2>3 DEF Good, Away
  <2>7. Slain(t)
    BY <2>2 DEF Good, Slain
  <2>9. Provoked(t)
    <3> SUFFICES ASSUME NEW k \in Players, NEW x \in Players,
                        k \in t.began[x], x \in t.attacked[k], k \notin t.attacked[x],
                        t.skull[k] = "none", t.skull[x] = "none"
                 PROVE  FALSE
      BY DEF Provoked
    <3>1. s.skull[k] = "none" /\ s.skull[x] = "none" /\ k \notin s.attacked[x]
      BY <2>3, <2>4
    <3>2. CASE k \in s.began[x] /\ x \in s.attacked[k]
      BY <3>1, <3>2 DEF Good, Provoked
    <3>3. CASE k \notin s.began[x]
      <4>1. x = p /\ k = q /\ p \notin s.began[q]
        BY <2>0, <2>1, <2>3, <2>4, <3>3
      <4>2. Struck(s, p, q) \/ Begins(s, p, q) => q \in t.attacked[p]
        BY <2>0, <2>1, FightTypes
      <4> QED
        BY <3>1, <4>1, <4>2 DEF Struck, Begins, SkullClient
    <3>4. CASE k \in s.began[x] /\ x \notin s.attacked[k]
      <4>1. k = p /\ x = q /\ (Struck(s, p, q) \/ Begins(s, p, q))
        BY <2>1, <2>3, <2>4, <3>4
      <4>2. Begins(s, p, q) => t.skull[p] = "white"
        BY <2>0, <2>1, <3>1, <4>1, FightTypes
      <4>3. p \notin s.attacked[q]
        BY <3>1, <4>1
      <4> QED
        BY <3>1, <4>1, <4>2, <4>3 DEF Struck, SkullClient
    <3> QED
      BY <3>2, <3>3, <3>4
  <2>10. Kept(s, t)
    BY <2>3, <2>4 DEF Kept
  <2> QED
    BY <2>1, <2>5, <2>6, <2>7, <2>9, <2>10 DEF Good, Marks
<1> QED
  BY <1>1, <1>2

(* also when a beast strikes, or a poison whose origin is gone.            *)
LEMMA BlockGood ==
  ASSUME NEW s, Good(s), NEW a, a \in Players => a \in s.online, NEW q \in Players, NEW t, t = BlockHit(s, a, q)
  PROVE  Good(t) /\ Only(s, t, Marks) /\ Kept(s, t)
<1> DEFINE w == IF a \in Players THEN OnAttackedCreature(s, a, q) ELSE s
<1>1. PICK u : u = w
  OBVIOUS
<1>2. Good(u) /\ Only(s, u, Marks) /\ Kept(s, u)
  <2>1. CASE a \in Players
    BY <1>1, <2>1, AttackGood
  <2>2. CASE a \notin Players
    BY <1>1, <2>2 DEF Only, Kept
  <2> QED
    BY <2>1, <2>2
<1>3. t = LockedInFight(u, q)
  BY <1>1 DEF BlockHit
<1> HIDE DEF w
<1> DEFINE f == u.inFight \union {q}
<1>4. u \in Fights
  BY <1>2 DEF Good
<1>5. f \in SUBSET Players /\ t = [u EXCEPT !.inFight = f]
  BY <1>3, <1>4, FightTypes DEF LockedInFight
<1> HIDE DEF f
<1>6. t \in Fights /\ Only(u, t, {"inFight"}) /\ t.inFight = f
  BY <1>4, <1>5 DEF Fights, Only, Fields
<1>7. /\ t.online = u.online /\ t.health = u.health /\ t.mana = u.mana /\ t.lastHit = u.lastHit
      /\ t.slayer = u.slayer /\ t.poison = u.poison /\ t.attacked = u.attacked /\ t.began = u.began
      /\ t.skull = u.skull /\ t.locked = u.locked
  BY <1>6 DEF Only, Fields
<1>8. u.inFight \subseteq t.inFight
  BY <1>6 DEF f
<1>9. Marking(t)
  BY <1>2, <1>7, <1>8 DEF Good, Marking
<1>10. Away(t) /\ Provoked(t) /\ Slain(t)
  BY <1>2, <1>7 DEF Good, Away, Provoked, Slain
<1>11. Only(s, t, Marks)
  BY <1>2, <1>6 DEF Only, Marks
<1> QED
  BY <1>2, <1>6, <1>7, <1>9, <1>10, <1>11 DEF Good, Kept

(* Who wounds somebody has hit him last.                                   *)
Wound(s, a, q, n, t) ==
  /\ t \in Fights /\ Only(s, t, {"points", "lastHit"})
  /\ \A x \in Players \ {q} : t.lastHit[x] = s.lastHit[x]
  /\ n = 0 => t.lastHit = s.lastHit
  /\ n # 0 /\ a \in Players => t.lastHit[q] = a

(* Creature::addDamagePoints: nothing is owed for nothing.                 *)
LEMMA DamageChanges ==
  ASSUME NEW s \in Fights, NEW a, NEW q \in Players, NEW n \in Nat, NEW t, t = AddDamagePoints(s, a, q, n)
  PROVE  Wound(s, a, q, n, t)
<1>1. CASE n = 0 \/ a \notin Attackers
  BY <1>1 DEF AddDamagePoints, Only, Attackers, Wound
<1>2. CASE n # 0 /\ a \in Attackers
  <2> DEFINE P == [s.points EXCEPT ![q][a] = @ + n]
  <2> DEFINE L == [s.lastHit EXCEPT ![q] = a]
  <2>1. P \in [Players -> [Attackers -> Nat]]
    <3>1. s.points \in [Players -> [Attackers -> Nat]]
      BY FightTypes
    <3>2. s.points[q] \in [Attackers -> Nat] /\ s.points[q][a] + n \in Nat
      BY <1>2, <3>1
    <3>3. [s.points[q] EXCEPT ![a] = @ + n] \in [Attackers -> Nat]
      BY <3>2
    <3> QED
      BY <3>1, <3>3
  <2>2. L \in [Players -> Fighters]
    BY <1>2, FightTypes DEF Fighters
  <2>3. t = [s EXCEPT !.points = P, !.lastHit = L]
    BY <1>2 DEF AddDamagePoints, Fights
  <2>4. L[q] = a /\ \A x \in Players \ {q} : L[x] = s.lastHit[x]
    BY FightTypes
  <2> HIDE DEF P, L
  <2>5. t \in Fights /\ Only(s, t, {"points", "lastHit"}) /\ t.lastHit = L
    BY <2>1, <2>2, <2>3 DEF Fights, Only, Fields
  <2> QED
    BY <1>2, <2>4, <2>5 DEF Wound
<1> QED
  BY <1>1, <1>2

Wounds == {"points", "lastHit", "mana", "health", "slayer"}

(* The shield goes first, and who takes the last of the health is known.   *)
LEMMA HealthGood ==
  ASSUME NEW s, Good(s), NEW a \in Fighters, NEW q \in Players, NEW d \in Nat, NEW t, t = ChangeHealth(s, a, q, d)
  PROVE  Good(t) /\ Only(s, t, Wounds)
<1>1. s \in Fights /\ s.health[q] \in Nat /\ s.mana[q] \in Nat
  BY FightTypes DEF Good
<1>2. PICK m \in Nat : /\ m = (IF q \in Shielded THEN Min({s.mana[q], d}) ELSE 0) /\ m <= d /\ m <= s.mana[q]
                       /\ q \notin Shielded => m = 0
                       /\ q \in Shielded => m = s.mana[q] \/ m = d
  <2>1. Min({s.mana[q], d}) = IF s.mana[q] <= d THEN s.mana[q] ELSE d
    BY <1>1, MinOfTwo
  <2> QED
    BY <1>1, <2>1
<1>3. PICK r \in Nat : r = Min({s.health[q], d - m}) /\ r <= s.health[q] /\ r <= d - m
  <2>1. d - m \in Nat
    BY <1>2
  <2>2. Min({s.health[q], d - m}) = IF s.health[q] <= d - m THEN s.health[q] ELSE d - m
    BY <1>1, <2>1, MinOfTwo
  <2> QED
    BY <1>1, <2>1, <2>2
<1>4. PICK n \in Nat : n = m + r
  OBVIOUS
<1>5. PICK u : u = AddDamagePoints(s, a, q, n)
  OBVIOUS
<1>6. /\ u \in Fights /\ Only(s, u, {"points", "lastHit"})
      /\ \A x \in Players \ {q} : u.lastHit[x] = s.lastHit[x]
      /\ n = 0 => u.lastHit = s.lastHit
      /\ n # 0 /\ a \in Players => u.lastHit[q] = a
  <2>1. Wound(s, a, q, n, u)
    BY <1>1, <1>5, DamageChanges
  <2> QED
    BY <2>1 DEF Wound
<1>7. /\ u.online = s.online /\ u.health = s.health /\ u.mana = s.mana /\ u.slayer = s.slayer
      /\ u.poison = s.poison /\ u.attacked = s.attacked /\ u.began = s.began /\ u.skull = s.skull
      /\ u.locked = s.locked /\ u.inFight = s.inFight
  BY <1>6 DEF Only, Fields
<1>8. t = [u EXCEPT !.mana[q] = @ - m, !.health[q] = @ - r,
                    !.slayer[q] = IF s.health[q] > 0 /\ s.health[q] = r THEN a ELSE @]
  BY <1>2, <1>3, <1>4, <1>5 DEF ChangeHealth
<1> DEFINE M == [u.mana EXCEPT ![q] = @ - m]
<1> DEFINE H == [u.health EXCEPT ![q] = @ - r]
<1> DEFINE S == [u.slayer EXCEPT ![q] = IF s.health[q] > 0 /\ s.health[q] = r THEN a ELSE @]
<1>9. M \in [Players -> Nat] /\ H \in [Players -> Nat]
  <2>1. s.mana[q] - m \in Nat /\ s.health[q] - r \in Nat
    BY <1>1, <1>2, <1>3
  <2> QED
    BY <1>1, <1>7, <2>1, FightTypes
<1>10. S \in [Players -> Fighters]
  BY <1>1, <1>7, FightTypes
<1>11. /\ M[q] = s.mana[q] - m /\ H[q] = s.health[q] - r
       /\ S[q] = IF s.health[q] > 0 /\ s.health[q] = r THEN a ELSE s.slayer[q]
       /\ \A x \in Players \ {q} : M[x] = s.mana[x] /\ H[x] = s.health[x] /\ S[x] = s.slayer[x]
  BY <1>1, <1>7, FightTypes
<1>12. t.mana = M /\ t.health = H /\ t.slayer = S
  BY <1>6, <1>8 DEF Fights
<1>13. Only(u, t, {"mana", "health", "slayer"}) /\ t = [f \in Fields |-> t[f]]
  BY <1>6, <1>8 DEF Only, Fields, Fights
<1> HIDE DEF M, H, S
<1>14. t = [u EXCEPT !.mana = M, !.health = H, !.slayer = S]
  BY <1>6, <1>12, <1>13 DEF Only, Fields, Fights
<1>15. t \in Fights
  BY <1>6, <1>9, <1>10, <1>14, ZenonT(60) DEF Fights
<1>16. /\ t.online = s.online /\ t.poison = s.poison /\ t.attacked = s.attacked /\ t.began = s.began
       /\ t.skull = s.skull /\ t.locked = s.locked /\ t.inFight = s.inFight /\ t.lastHit = u.lastHit
  BY <1>7, <1>13 DEF Only, Fields
<1>17. Marking(t) /\ Away(t) /\ Provoked(t)
  BY <1>16 DEF Good, Marking, Away, Provoked
<1>18. Slain(t)
  <2> SUFFICES ASSUME NEW x \in Players, t.health[x] = 0
               PROVE  (t.slayer[x] \in Players => t.lastHit[x] = t.slayer[x]) /\ (x \in Shielded => t.mana[x] = 0)
    BY DEF Slain
  <2>1. CASE x # q
    BY <1>6, <1>11, <1>12, <1>16, <2>1 DEF Good, Slain
  <2>2. CASE x = q /\ s.health[q] = 0
    <3>1. r = 0 /\ t.slayer[q] = s.slayer[q] /\ t.mana[q] = s.mana[q] - m
      BY <1>3, <1>11, <1>12, <2>2
    <3>2. q \in Shielded => s.mana[q] = 0
      BY <2>2 DEF Good, Slain
    <3>3. m = 0
      BY <1>2, <3>2
    <3>4. t.lastHit = s.lastHit
      BY <1>4, <1>6, <1>16, <3>1, <3>3
    <3>5. s.slayer[q] \in Players => s.lastHit[q] = s.slayer[q]
      BY <2>2 DEF Good, Slain
    <3>6. q \in Shielded => t.mana[q] = 0
      BY <3>1, <3>2, <3>3
    <3> QED
      BY <2>2, <3>1, <3>4, <3>5, <3>6
  <2>3. CASE x = q /\ s.health[q] > 0
    <3>1. s.health[q] = r /\ n # 0
      BY <1>1, <1>2, <1>3, <1>4, <1>11, <1>12, <2>3, SMTT(60)
    <3>2. t.slayer[q] = a
      BY <1>11, <1>12, <2>3, <3>1
    <3>3. t.lastHit = u.lastHit /\ (a \in Players => u.lastHit[q] = a)
      BY <1>6, <1>16, <3>1
    <3>4. q \in Shielded => m = s.mana[q]
      BY <1>2, <1>3, <2>3, <3>1
    <3>5. t.mana[q] = s.mana[q] - m
      BY <1>11, <1>12
    <3>6. q \in Shielded => t.mana[q] = 0
      BY <1>1, <3>4, <3>5
    <3> QED
      BY <2>3, <3>2, <3>3, <3>6
  <2> QED
    BY <1>1, <2>1, <2>2, <2>3
<1>19. Only(s, t, Wounds)
  BY <1>6, <1>13 DEF Only, Wounds
<1> QED
  BY <1>15, <1>17, <1>18, <1>19 DEF Good

(* Forgetting who hit keeps the invariant,                                 *)
LEMMA IdleGood ==
  ASSUME NEW s, Good(s), NEW p \in Players, NEW t, t = IdleStatus(s, p)
  PROVE  Good(t) /\ Only(s, t, {"points", "lastHit", "slayer"})
<1>1. s \in Fights
  BY DEF Good
<1>2. /\ t \in Fights /\ Only(s, t, {"points", "lastHit", "slayer"})
      /\ s.health[p] = 0 => t = s
      /\ s.health[p] # 0 => /\ t.lastHit = [s.lastHit EXCEPT ![p] = Nobody]
                            /\ t.slayer = [s.slayer EXCEPT ![p] = Nobody]
  <2>1. Idled(s, p, t)
    BY <1>1, IdleChanges
  <2> QED
    BY <2>1 DEF Idled
<1>3. /\ t.online = s.online /\ t.health = s.health /\ t.mana = s.mana /\ t.inFight = s.inFight
      /\ t.poison = s.poison /\ t.attacked = s.attacked /\ t.began = s.began /\ t.skull = s.skull /\ t.locked = s.locked
  BY <1>2 DEF Only, Fields
<1>4. \A x \in Players : x # p \/ s.health[x] = 0 => t.lastHit[x] = s.lastHit[x] /\ t.slayer[x] = s.slayer[x]
  BY <1>1, <1>2, FightTypes
<1>5. Marking(t) /\ Away(t) /\ Provoked(t) /\ Slain(t)
  BY <1>3, <1>4 DEF Good, Marking, Away, Provoked, Slain
<1> QED
  BY <1>2, <1>5 DEF Good

(* and so do the end of a fight,                                           *)
LEMMA EndGood ==
  ASSUME NEW s, Good(s), NEW p \in Players, NEW t, t = EndCondition(s, p)
  PROVE  Good(t) /\ Only(s, t, Ends) /\ Kept(s, t) /\ p \notin t.inFight
<1>1. CASE p \notin s.inFight
  BY <1>1 DEF EndCondition, Only, Kept
<1>2. CASE p \in s.inFight
  <2>0. s \in Fights
    BY DEF Good
  <2>1. /\ t \in Fights /\ Only(s, t, Ends)
        /\ t.inFight = s.inFight \ {p} /\ t.locked = s.locked \ {p}
        /\ t.attacked = [s.attacked EXCEPT ![p] = {}] /\ t.began = [s.began EXCEPT ![p] = {}]
        /\ t.skull = [s.skull EXCEPT ![p] = IF @ = "white" THEN "none" ELSE @]
        /\ s.health[p] = 0 => t.lastHit = s.lastHit /\ t.slayer = s.slayer
        /\ s.health[p] # 0 => /\ t.lastHit = [s.lastHit EXCEPT ![p] = Nobody]
                              /\ t.slayer = [s.slayer EXCEPT ![p] = Nobody]
    <3>1. Ended(s, p, t)
      BY <1>2, <2>0, EndChanges
    <3> QED
      BY <3>1 DEF Ended
  <2>2. t.online = s.online /\ t.health = s.health /\ t.mana = s.mana /\ t.poison = s.poison
    BY <2>1 DEF Only, Fields, Ends
  <2>3. /\ t.attacked[p] = {} /\ t.began[p] = {} /\ t.skull[p] # "white" /\ p \notin t.locked
        /\ s.skull[p] # "white" => t.skull[p] = s.skull[p]
    BY <2>0, <2>1, FightTypes
  <2>4. \A x \in Players : x # p => t.attacked[x] = s.attacked[x] /\ t.began[x] = s.began[x] /\ t.skull[x] = s.skull[x]
    BY <2>0, <2>1, FightTypes
  <2>5. \A x \in Players : x # p \/ s.health[x] = 0 => t.lastHit[x] = s.lastHit[x] /\ t.slayer[x] = s.slayer[x]
    BY <2>0, <2>1, FightTypes
  <2>6. Marking(t)
    BY <2>1, <2>3, <2>4 DEF Good, Marking
  <2>7. Away(t)
    BY <2>2, <2>3, <2>4 DEF Good, Away
  <2>8. Provoked(t)
    BY <2>3, <2>4 DEF Good, Provoked
  <2>9. Slain(t)
    BY <2>2, <2>5 DEF Good, Slain
  <2>10. Kept(s, t)
    BY <2>3, <2>4 DEF Kept
  <2> QED
    BY <2>1, <2>6, <2>7, <2>8, <2>9, <2>10 DEF Good
<1> QED
  BY <1>1, <1>2

(* a removal from the game,                                                *)
LEMMA RemovedGood ==
  ASSUME CombatAssumption, NEW s, Good(s), NEW p \in Players, NEW t, t = Removed(s, p)
  PROVE  /\ Good(t) /\ Kept(s, t) /\ t.online = s.online \ {p}
         /\ t.frags = s.frags /\ t.losses = s.losses /\ t.inFight = s.inFight
<1>1. s \in Fights
  BY DEF Good
<1>2. /\ t \in Fights
      /\ Only(s, t, {"health", "online", "locked", "attacked", "began", "skull", "skillLoss",
                     "lastHit", "slayer", "points", "poison"})
      /\ t.online = s.online \ {p} /\ t.locked = s.locked \ {p}
      /\ t.attacked = [s.attacked EXCEPT ![p] = {}] /\ t.began = [s.began EXCEPT ![p] = {}]
      /\ t.skull = [s.skull EXCEPT ![p] = IF @ = "white" THEN "none" ELSE @]
      /\ t.health = [q \in Players |-> IF q = p /\ s.health[q] = 0 THEN 1 ELSE s.health[q]]
      /\ t.lastHit = [q \in Players |-> IF q = p \/ s.lastHit[q] = p THEN Nobody ELSE s.lastHit[q]]
      /\ t.slayer = [q \in Players |-> IF q = p \/ s.slayer[q] = p THEN Nobody ELSE s.slayer[q]]
      /\ t.poison = [q \in Players |-> IF s.poison[q] # Nobody /\ (q = p \/ s.poison[q] = p) THEN Gone ELSE s.poison[q]]
  <2>1. Left(s, p, t)
    BY <1>1, RemovedChanges
  <2> QED
    BY <2>1 DEF Left
<1>3. t.mana = s.mana /\ t.inFight = s.inFight /\ t.frags = s.frags /\ t.losses = s.losses
  BY <1>2 DEF Only, Fields
<1>4. /\ t.attacked[p] = {} /\ t.began[p] = {} /\ t.skull[p] # "white" /\ p \notin t.locked
      /\ s.skull[p] # "white" => t.skull[p] = s.skull[p]
  BY <1>1, <1>2, FightTypes
<1>5. \A x \in Players : x # p => t.attacked[x] = s.attacked[x] /\ t.began[x] = s.began[x] /\ t.skull[x] = s.skull[x]
  BY <1>1, <1>2, FightTypes
<1>6. Marking(t)
  BY <1>2, <1>3, <1>4, <1>5 DEF Good, Marking
<1>7. Away(t)
  <2>1. Gone \notin Players /\ Nobody \notin Players
    BY DEF CombatAssumption, Attackers
  <2>2. \A x \in Players \ t.online : t.attacked[x] = {} /\ t.began[x] = {}
    BY <1>2, <1>4, <1>5 DEF Good, Away
  <2>3. \A x \in Players : t.poison[x] \in Players => t.poison[x] = s.poison[x] /\ s.poison[x] # p
    BY <1>2, <2>1
  <2>4. \A x \in Players : t.poison[x] \in Players => t.poison[x] \in t.online
    BY <1>2, <2>3 DEF Good, Away
  <2> QED
    BY <2>2, <2>4 DEF Away
<1>8. Provoked(t)
  BY <1>4, <1>5 DEF Good, Provoked
<1>9. Slain(t)
  <2> SUFFICES ASSUME NEW x \in Players, t.health[x] = 0
               PROVE  (t.slayer[x] \in Players => t.lastHit[x] = t.slayer[x]) /\ (x \in Shielded => t.mana[x] = 0)
    BY DEF Slain
  <2>1. x # p /\ s.health[x] = 0
    BY <1>2
  <2>2. (s.slayer[x] \in Players => s.lastHit[x] = s.slayer[x]) /\ (x \in Shielded => s.mana[x] = 0)
    BY <2>1 DEF Good, Slain
  <2>3. Nobody \notin Players
    BY DEF CombatAssumption, Attackers
  <2> QED
    BY <1>2, <1>3, <2>1, <2>2, <2>3
<1>10. Kept(s, t)
  BY <1>4, <1>5 DEF Kept
<1> QED
  BY <1>2, <1>3, <1>6, <1>7, <1>8, <1>9, <1>10 DEF Good

(* the blame for a death,                                                  *)
LEMMA KilledGood ==
  ASSUME CombatAssumption, NEW s, Good(s), NEW q \in Players, NEW most \in MostDamage(s, q),
         NEW t, t = Killed(s, q, most)
  PROVE  Good(t) /\ Kept(s, t) /\ Fallen(s, q, t)
<1>1. s \in Fights
  BY DEF Good
<1>2. Fallen(s, q, t)
  BY <1>1, KilledChanges
<1>3. /\ t \in Fights /\ Only(s, t, {"frags", "skull", "locked", "skillLoss", "attacked", "began"}) /\ Harder(s, t)
      /\ t.locked \subseteq s.locked \union s.inFight
      /\ t.attacked = [a \in Players |-> IF s.points[q][a] > 0 THEN s.attacked[a] \ {q} ELSE s.attacked[a]]
      /\ t.began = [a \in Players |-> s.began[a] \ {q}]
  BY <1>2 DEF Fallen
<1>4. /\ t.online = s.online /\ t.health = s.health /\ t.mana = s.mana /\ t.inFight = s.inFight
      /\ t.poison = s.poison /\ t.lastHit = s.lastHit /\ t.slayer = s.slayer
  BY <1>3 DEF Only, Fields
<1>5. \A p \in Players : /\ t.attacked[p] \subseteq s.attacked[p] /\ s.attacked[p] \subseteq t.attacked[p] \union {q}
                         /\ t.began[p] \subseteq s.began[p] /\ q \notin t.began[p]
  BY <1>3
<1>6. \A p \in Players : Graver(s.skull[p], t.skull[p])
  BY <1>3 DEF Harder
<1>7. Marking(t)
  <2> SUFFICES ASSUME NEW p \in Players,
                      t.attacked[p] # {} \/ t.began[p] # {} \/ p \in t.locked \/ t.skull[p] = "white"
               PROVE  p \in t.inFight
    BY DEF Marking
  <2>1. s.attacked[p] # {} \/ s.began[p] # {} \/ p \in s.locked \/ s.skull[p] = "white" \/ p \in s.inFight
    BY <1>3, <1>5, <1>6 DEF Graver
  <2> QED
    BY <1>4, <2>1 DEF Good, Marking
<1>8. Away(t)
  BY <1>4, <1>5 DEF Good, Away
<1>9. Provoked(t)
  <2> SUFFICES ASSUME NEW k \in Players, NEW x \in Players,
                      k \in t.began[x], x \in t.attacked[k], k \notin t.attacked[x],
                      t.skull[k] = "none", t.skull[x] = "none"
               PROVE  FALSE
    BY DEF Provoked
  <2>1. k \in s.began[x] /\ x \in s.attacked[k] /\ k # q
    BY <1>5
  <2>2. k \notin s.attacked[x]
    BY <1>5, <2>1
  <2>3. s.skull[k] = "none" /\ s.skull[x] = "none"
    BY <1>6 DEF Graver
  <2> QED
    BY <2>1, <2>2, <2>3 DEF Good, Provoked
<1>10. Slain(t)
  BY <1>4 DEF Good, Slain
<1>11. Kept(s, t)
  BY <1>6 DEF Kept, Graver
<1> QED
  BY <1>2, <1>3, <1>7, <1>8, <1>9, <1>10, <1>11 DEF Good

(* What a death costs: whom an arena spares only gets his health back.     *)
Costs(s, q) ==
  IF q \in s.skillLoss THEN Penalty(s, q) ELSE [s EXCEPT !.skillLoss = @ \union {q}, !.health[q] = MaxHealth]

(* what a death costs,                                                     *)
LEMMA PenaltyGood ==
  ASSUME CombatAssumption, NEW s, Good(s), NEW q \in Players,
         NEW t, t = Costs(s, q)
  PROVE  /\ Good(t) /\ Only(s, t, {"losses", "health", "mana", "skillLoss"})
         /\ t.losses \subseteq s.losses \union {q} /\ (q \notin s.skillLoss => t.losses = s.losses)
<1>1. s \in Fights /\ MaxHealth \in Nat \ {0} /\ MaxMana \in Nat
  BY DEF Good, CombatAssumption
<1> DEFINE black == s.skull[q] = "black"
<1> DEFINE L == IF q \in s.skillLoss THEN s.losses \union {q} ELSE s.losses
<1> DEFINE H == [s.health EXCEPT ![q] = IF q \in s.skillLoss /\ black THEN 1 ELSE MaxHealth]
<1> DEFINE M == IF q \in s.skillLoss THEN [s.mana EXCEPT ![q] = IF black THEN 0 ELSE MaxMana] ELSE s.mana
<1> DEFINE K == s.skillLoss \union {q}
<1>2. L \in SUBSET Players /\ K \in SUBSET Players
  BY <1>1, FightTypes
<1>3. H \in [Players -> Nat] /\ M \in [Players -> Nat]
  BY <1>1, FightTypes
<1>4. H[q] # 0 /\ \A x \in Players \ {q} : H[x] = s.health[x] /\ M[x] = s.mana[x]
  BY <1>1, FightTypes
<1>5. L \subseteq s.losses \union {q} /\ (q \notin s.skillLoss => L = s.losses)
  OBVIOUS
<1>6. t.losses = L /\ t.health = H /\ t.mana = M /\ t.skillLoss = K
  <2>1. CASE q \in s.skillLoss
    <3>1. t = [s EXCEPT !.losses = @ \union {q}, !.health[q] = IF black THEN 1 ELSE MaxHealth,
                        !.mana[q] = IF black THEN 0 ELSE MaxMana]
      BY <2>1 DEF Costs, Penalty
    <3>2. t.losses = L /\ t.skillLoss = s.skillLoss
      BY <1>1, <2>1, <3>1 DEF Fights
    <3>3. t.health = H
      BY <1>1, <2>1, <3>1 DEF Fights
    <3>4. t.mana = M
      BY <1>1, <2>1, <3>1 DEF Fights
    <3> QED
      BY <2>1, <3>2, <3>3, <3>4
  <2>2. CASE q \notin s.skillLoss
    BY <1>1, <2>2 DEF Costs, Fights
  <2> QED
    BY <2>1, <2>2
<1>7. Only(s, t, {"losses", "health", "mana", "skillLoss"}) /\ t = [f \in Fields |-> t[f]]
  <2>1. CASE q \in s.skillLoss
    BY <1>1, <2>1 DEF Costs, Penalty, Only, Fields, Fights
  <2>2. CASE q \notin s.skillLoss
    BY <1>1, <2>2 DEF Costs, Only, Fields, Fights
  <2> QED
    BY <2>1, <2>2
<1> HIDE DEF L, H, M, K, black
<1>8. t = [s EXCEPT !.losses = L, !.health = H, !.mana = M, !.skillLoss = K]
  BY <1>1, <1>6, <1>7 DEF Only, Fields, Fights
<1>9. t \in Fights
  BY <1>1, <1>2, <1>3, <1>8, ZenonT(60) DEF Fights
<1>10. /\ t.online = s.online /\ t.inFight = s.inFight /\ t.poison = s.poison /\ t.attacked = s.attacked
       /\ t.began = s.began /\ t.skull = s.skull /\ t.locked = s.locked /\ t.lastHit = s.lastHit /\ t.slayer = s.slayer
  BY <1>7 DEF Only, Fields
<1>11. Marking(t) /\ Away(t) /\ Provoked(t)
  BY <1>10 DEF Good, Marking, Away, Provoked
<1>12. Slain(t)
  BY <1>4, <1>6, <1>10 DEF Good, Slain
<1> QED
  BY <1>5, <1>6, <1>7, <1>9, <1>11, <1>12 DEF Good

(* a poison that comes or goes,                                            *)
LEMMA CuredGood ==
  ASSUME CombatAssumption, NEW s, Good(s), NEW q \in Players, NEW a \in {Nobody} \union (Poisoners \intersect s.online),
         NEW t, t = [s EXCEPT !.poison[q] = a]
  PROVE  Good(t) /\ Only(s, t, {"poison"})
<1>1. s \in Fights /\ a \in Fighters /\ (a \in Players => a \in s.online)
  BY DEF Good, CombatAssumption, Fighters, Attackers
<1> DEFINE P == [s.poison EXCEPT ![q] = a]
<1>2. P \in [Players -> Fighters] /\ \A x \in Players : P[x] = a \/ P[x] = s.poison[x]
  BY <1>1, FightTypes
<1>3. t = [s EXCEPT !.poison = P]
  OBVIOUS
<1> HIDE DEF P
<1>4. t \in Fights /\ Only(s, t, {"poison"}) /\ t.poison = P
  BY <1>1, <1>2, <1>3 DEF Fights, Only, Fields
<1>5. /\ t.online = s.online /\ t.inFight = s.inFight /\ t.health = s.health /\ t.mana = s.mana /\ t.attacked = s.attacked
      /\ t.began = s.began /\ t.skull = s.skull /\ t.locked = s.locked /\ t.lastHit = s.lastHit /\ t.slayer = s.slayer
  BY <1>4 DEF Only, Fields
<1>6. Marking(t) /\ Provoked(t) /\ Slain(t)
  BY <1>5 DEF Good, Marking, Provoked, Slain
<1>7. Away(t)
  BY <1>1, <1>2, <1>4, <1>5 DEF Good, Away
<1> QED
  BY <1>4, <1>6, <1>7 DEF Good

(* and a move to another zone.                                             *)
LEMMA MovedGood ==
  ASSUME NEW s, Good(s), NEW p \in Players, NEW z \in Zones, NEW t, t = [s EXCEPT !.zone[p] = z]
  PROVE  Good(t) /\ Only(s, t, {"zone"})
<1>1. s \in Fights
  BY DEF Good
<1> DEFINE Z == [s.zone EXCEPT ![p] = z]
<1>2. Z \in [Players -> Zones] /\ t = [s EXCEPT !.zone = Z]
  BY <1>1, FightTypes
<1> HIDE DEF Z
<1>3. t \in Fights /\ Only(s, t, {"zone"})
  BY <1>1, <1>2 DEF Fights, Only, Fields
<1>4. /\ t.online = s.online /\ t.inFight = s.inFight /\ t.health = s.health /\ t.mana = s.mana /\ t.attacked = s.attacked
      /\ t.began = s.began /\ t.skull = s.skull /\ t.locked = s.locked /\ t.lastHit = s.lastHit /\ t.slayer = s.slayer
      /\ t.poison = s.poison
  BY <1>3 DEF Only, Fields
<1> QED
  BY <1>3, <1>4 DEF Good, Marking, Away, Provoked, Slain

(* Who died is out of every fight; he loses something only if his skills   *)
(* were not spared.                                                        *)
LEMMA DeathGood ==
  ASSUME CombatAssumption, NEW s, Good(s), NEW q \in Players, NEW t, t = Death(s, q)
  PROVE  /\ Good(t) /\ Kept(s, t) /\ q \notin t.inFight /\ t.frags = s.frags /\ t.online = s.online
         /\ t.losses \subseteq s.losses \union {q} /\ (q \notin s.skillLoss => t.losses = s.losses)
<1>1. PICK a : a = Costs(s, q)
  OBVIOUS
<1>2. PICK b : b = [a EXCEPT !.poison[q] = Nobody]
  OBVIOUS
<1>3. PICK c : c = EndCondition(b, q)
  OBVIOUS
<1>4. PICK e : e = [c EXCEPT !.zone[q] = Home]
  OBVIOUS
<1>5. t = IdleStatus(e, q)
  BY <1>1, <1>2, <1>3, <1>4 DEF Death, Costs
<1>6. /\ Good(a) /\ Only(s, a, {"losses", "health", "mana", "skillLoss"})
      /\ a.losses \subseteq s.losses \union {q} /\ (q \notin s.skillLoss => a.losses = s.losses)
  BY <1>1, PenaltyGood
<1>7. Good(b) /\ Only(a, b, {"poison"})
  BY <1>2, <1>6, CuredGood
<1>8. Good(c) /\ Only(b, c, Ends) /\ Kept(b, c) /\ q \notin c.inFight
  BY <1>3, <1>7, EndGood
<1>9. Good(e) /\ Only(c, e, {"zone"})
  <2>1. Home \in Zones
    BY DEF Home, CombatAssumption
  <2> QED
    BY <1>4, <1>8, <2>1, MovedGood
<1>10. Good(t) /\ Only(e, t, {"points", "lastHit", "slayer"})
  BY <1>5, <1>9, IdleGood
<1>11. a.skull = s.skull /\ a.frags = s.frags /\ a.online = s.online
  BY <1>6 DEF Only, Fields
<1>12. b.skull = a.skull /\ b.frags = a.frags /\ b.losses = a.losses /\ b.online = a.online
  BY <1>7 DEF Only, Fields
<1>13. c.frags = b.frags /\ c.losses = b.losses /\ c.online = b.online
  BY <1>8 DEF Only, Fields, Ends
<1>14. e.skull = c.skull /\ e.frags = c.frags /\ e.losses = c.losses /\ e.inFight = c.inFight /\ e.online = c.online
  BY <1>9 DEF Only, Fields
<1>15. t.skull = e.skull /\ t.frags = e.frags /\ t.losses = e.losses /\ t.inFight = e.inFight /\ t.online = e.online
  BY <1>10 DEF Only, Fields
<1>16. Kept(s, t)
  BY <1>8, <1>11, <1>12, <1>14, <1>15 DEF Kept
<1> QED
  BY <1>6, <1>8, <1>10, <1>11, <1>12, <1>13, <1>14, <1>15, <1>16

(* What every step but a death, a login and the end of a skull does.       *)
Quiet(s, t) == Kept(s, t) /\ t.losses \subseteq s.losses /\ t.frags = s.frags
Sound == BlamedOnlyIfBegan /\ SkullServed /\ ArenaIsFree

(* A quiet step blames nobody, ends no skull and costs nothing;            *)
LEMMA QuietIsSound ==
  ASSUME Good(fight), Good(fight'), Quiet(fight, fight')
  PROVE  Sound
<1>1. fight'.frags = fight.frags /\ \A k \in Players : fight.frags[k] \in Nat
  <2>1. fight.frags \in [Players -> Nat]
    BY DEF Good, Fights
  <2> QED
    BY <2>1 DEF Quiet
<1>2. BlamedOnlyIfBegan
  BY <1>1 DEF BlamedOnlyIfBegan
<1>3. SkullServed
  <2>1. \A k \in Players : ~(fight'.frags[k] + 1 < fight.frags[k])
    BY <1>1
  <2> QED
    BY <2>1 DEF Quiet, Kept, SkullServed
<1>4. ArenaIsFree
  BY DEF Quiet, ArenaIsFree
<1> QED
  BY <1>2, <1>3, <1>4 DEF Sound

(* a step is quiet that leaves skulls, frags and losses alone.             *)
LEMMA OnlyIsQuiet ==
  ASSUME NEW s, Good(s), NEW t, Kept(s, t) \/ t.skull = s.skull, t.frags = s.frags, t.losses = s.losses
  PROVE  Quiet(s, t)
  BY DEF Quiet, Kept

(* A whole blow: marks first, then the wound.                              *)
LEMMA BlowGood ==
  ASSUME NEW s, Good(s), NEW a \in Fighters, a \in Players => a \in s.online, NEW q \in Players, NEW d \in Nat,
         NEW t, t = ChangeHealth(BlockHit(s, a, q), a, q, d)
  PROVE  Good(t) /\ Quiet(s, t) /\ t.online = s.online
<1>1. PICK u : u = BlockHit(s, a, q)
  OBVIOUS
<1>2. Good(u) /\ Only(s, u, Marks) /\ Kept(s, u)
  BY <1>1, BlockGood
<1>3. Good(t) /\ Only(u, t, Wounds)
  BY <1>1, <1>2, HealthGood
<1>4. u.frags = s.frags /\ u.losses = s.losses /\ u.online = s.online
  BY <1>2 DEF Only, Fields, Marks
<1>5. t.frags = u.frags /\ t.losses = u.losses /\ t.online = u.online /\ t.skull = u.skull
  BY <1>3 DEF Only, Fields, Wounds
<1>6. Kept(s, t)
  BY <1>2, <1>5 DEF Kept
<1> QED
  BY <1>3, <1>4, <1>5, <1>6, OnlyIsQuiet

(* The steps: a blow that may poison,                                      *)
LEMMA HitStep ==
  ASSUME CombatAssumption, Good(fight), NEW a \in Attackers, NEW q \in Players, Hit(a, q)
  PROVE  Good(fight') /\ Sound
<1>1. PICK d \in 0 .. MaxBlow, poisons \in BOOLEAN :
        LET t == ChangeHealth(BlockHit(fight, a, q), a, q, d)
        IN  /\ poisons => a \in Poisoners
            /\ fight' = IF poisons THEN [t EXCEPT !.poison[q] = a] ELSE t
  BY DEF Hit
<1>2. PICK t : /\ t = ChangeHealth(BlockHit(fight, a, q), a, q, d)
               /\ poisons => a \in Poisoners
               /\ fight' = IF poisons THEN [t EXCEPT !.poison[q] = a] ELSE t
  BY <1>1
<1>3. a \in Fighters /\ d \in Nat /\ (a \in Players => a \in fight.online)
  BY DEF Fighters, Hit, MayHit, Alive, Here, CombatAssumption
<1>4. Good(t) /\ Quiet(fight, t) /\ t.online = fight.online
  BY <1>2, <1>3, BlowGood
<1>5. CASE ~poisons
  BY <1>2, <1>4, <1>5, QuietIsSound
<1>6. CASE poisons
  <2>1. a \in {Nobody} \union (Poisoners \intersect t.online)
    BY <1>2, <1>3, <1>4, <1>6 DEF CombatAssumption
  <2>2. fight' = [t EXCEPT !.poison[q] = a]
    BY <1>2, <1>6
  <2>3. Good(fight') /\ Only(t, fight', {"poison"})
    BY <1>4, <2>1, <2>2, CuredGood
  <2>4. fight'.frags = t.frags /\ fight'.losses = t.losses /\ fight'.skull = t.skull
    BY <2>3 DEF Only, Fields
  <2>5. Quiet(fight, fight')
    BY <1>4, <2>4 DEF Quiet, Kept
  <2> QED
    BY <2>3, <2>5, QuietIsSound
<1> QED
  BY <1>5, <1>6

(* a round of a poison,                                                    *)
LEMMA BurnStep ==
  ASSUME CombatAssumption, Good(fight), NEW q \in Players, Burn(q)
  PROVE  Good(fight') /\ Sound
<1>1. PICK a : a = fight.poison[q]
  OBVIOUS
<1>2. fight' = ChangeHealth(BlockHit(fight, a, q), a, q, 1)
  BY <1>1 DEF Burn
<1>3. a \in Fighters /\ (a \in Players => a \in fight.online)
  <2>1. fight.poison \in [Players -> Fighters]
    BY DEF Good, Fights
  <2> QED
    BY <1>1, <2>1 DEF Good, Away
<1>4. Good(fight') /\ Quiet(fight, fight')
  BY <1>2, <1>3, BlowGood
<1> QED
  BY <1>4, QuietIsSound

(* its end,                                                                *)
LEMMA CureStep ==
  ASSUME CombatAssumption, Good(fight), NEW q \in Players, Cure(q)
  PROVE  Good(fight') /\ Sound
<1>1. fight' = [fight EXCEPT !.poison[q] = Nobody]
  BY DEF Cure
<1>2. Good(fight') /\ Only(fight, fight', {"poison"})
  BY <1>1, CuredGood
<1>3. fight'.frags = fight.frags /\ fight'.losses = fight.losses /\ fight'.skull = fight.skull
  BY <1>2 DEF Only, Fields
<1> QED
  BY <1>2, <1>3, OnlyIsQuiet, QuietIsSound

(* a walk to another zone,                                                 *)
LEMMA WalkStep ==
  ASSUME Good(fight), NEW p \in Players, NEW z \in Zones, Walk(p, z)
  PROVE  Good(fight') /\ Sound
<1>1. fight' = [fight EXCEPT !.zone[p] = z]
  BY DEF Walk
<1>2. Good(fight') /\ Only(fight, fight', {"zone"})
  BY <1>1, MovedGood
<1>3. fight'.frags = fight.frags /\ fight'.losses = fight.losses /\ fight'.skull = fight.skull
  BY <1>2 DEF Only, Fields
<1> QED
  BY <1>2, <1>3, OnlyIsQuiet, QuietIsSound

(* a logout or a kick,                                                     *)
LEMMA LogoutStep ==
  ASSUME CombatAssumption, Good(fight), NEW p \in Players, Logout(p)
  PROVE  Good(fight') /\ Sound
<1>1. fight' = Removed(fight, p)
  BY DEF Logout
<1>2. /\ Good(fight') /\ Kept(fight, fight')
      /\ fight'.frags = fight.frags /\ fight'.losses = fight.losses
  BY <1>1, RemovedGood
<1> QED
  BY <1>2, OnlyIsQuiet, QuietIsSound

(* the end of a fight,                                                     *)
LEMMA EndFightStep ==
  ASSUME Good(fight), NEW p \in Players, EndFight(p)
  PROVE  Good(fight') /\ Sound
<1>1. fight' = EndCondition(fight, p)
  BY DEF EndFight
<1>2. Good(fight') /\ Only(fight, fight', Ends) /\ Kept(fight, fight')
  BY <1>1, EndGood
<1>3. fight'.frags = fight.frags /\ fight'.losses = fight.losses
  BY <1>2 DEF Only, Fields, Ends
<1> QED
  BY <1>2, <1>3, OnlyIsQuiet, QuietIsSound

(* a new level, which heals,                                               *)
LEMMA ExperienceStep ==
  ASSUME CombatAssumption, Good(fight), NEW p \in Players, AddExperience(p)
  PROVE  Good(fight') /\ Sound
<1>1. PICK s : s = fight
  OBVIOUS
<1>2. s \in Fights /\ MaxHealth \in Nat \ {0} /\ MaxMana \in Nat /\ Good(s)
  BY <1>1 DEF Good, CombatAssumption
<1> DEFINE H == [s.health EXCEPT ![p] = MaxHealth]
<1> DEFINE M == [s.mana EXCEPT ![p] = MaxMana]
<1>3. H \in [Players -> Nat] /\ M \in [Players -> Nat] /\ H[p] # 0
  BY <1>2, FightTypes
<1>4. \A x \in Players \ {p} : H[x] = s.health[x] /\ M[x] = s.mana[x]
  BY <1>2, FightTypes
<1>5. PICK t : t = [s EXCEPT !.health = H, !.mana = M] /\ fight' = t
  BY <1>1, <1>2 DEF AddExperience, Fights
<1> HIDE DEF H, M
<1>6. t \in Fights /\ Only(s, t, {"health", "mana"}) /\ t.health = H /\ t.mana = M
  BY <1>2, <1>3, <1>5 DEF Fights, Only, Fields
<1>7. /\ t.online = s.online /\ t.inFight = s.inFight /\ t.poison = s.poison /\ t.attacked = s.attacked
      /\ t.began = s.began /\ t.skull = s.skull /\ t.locked = s.locked /\ t.lastHit = s.lastHit
      /\ t.slayer = s.slayer /\ t.frags = s.frags /\ t.losses = s.losses
  BY <1>6 DEF Only, Fields
<1>8. Marking(t) /\ Away(t) /\ Provoked(t)
  BY <1>2, <1>7 DEF Good, Marking, Away, Provoked
<1>9. Slain(t)
  BY <1>2, <1>3, <1>4, <1>6, <1>7 DEF Good, Slain
<1>10. Good(t) /\ Quiet(s, t)
  BY <1>2, <1>6, <1>7, <1>8, <1>9, OnlyIsQuiet DEF Good
<1> QED
  BY <1>1, <1>5, <1>10, QuietIsSound

(* a save of all players,                                                  *)
LEMMA SaveStep ==
  ASSUME Good(fight), SaveGameState
  PROVE  Good(fight') /\ Sound
<1>1. PICK s : s = fight
  OBVIOUS
<1>2. s \in Fights /\ s.online \in SUBSET Players /\ Good(s)
  BY <1>1 DEF Good, Fights
<1>3. PICK t : t = Saved(s, s.online) /\ fight' = t
  BY <1>1 DEF SaveGameState
<1>4. /\ t \in Fights /\ Only(s, t, {"health"})
      /\ t.health = [p \in Players |-> IF p \in s.online /\ s.health[p] = 0 THEN 1 ELSE s.health[p]]
  BY <1>2, <1>3, SavedChanges
<1>5. /\ t.online = s.online /\ t.inFight = s.inFight /\ t.poison = s.poison /\ t.attacked = s.attacked
      /\ t.began = s.began /\ t.skull = s.skull /\ t.locked = s.locked /\ t.lastHit = s.lastHit
      /\ t.slayer = s.slayer /\ t.frags = s.frags /\ t.losses = s.losses /\ t.mana = s.mana
  BY <1>4 DEF Only, Fields
<1>6. \A p \in Players : t.health[p] = 0 => s.health[p] = 0
  BY <1>4
<1>7. Marking(t) /\ Away(t) /\ Provoked(t) /\ Slain(t)
  BY <1>2, <1>5, <1>6 DEF Good, Marking, Away, Provoked, Slain
<1>8. Good(t) /\ Quiet(s, t)
  BY <1>2, <1>4, <1>5, <1>7, OnlyIsQuiet DEF Good
<1> QED
  BY <1>1, <1>3, <1>8, QuietIsSound

(* A login may take the skull of somebody whom no mark is left of.         *)
LEMMA LoginStep ==
  ASSUME CombatAssumption, Good(fight), NEW p \in Players, Login(p)
  PROVE  Good(fight') /\ Sound
<1>1. PICK s : s = fight
  OBVIOUS
<1>2. s \in Fights /\ Good(s) /\ p \notin s.online /\ s.frags[p] \in Nat
  BY <1>1, FightTypes DEF Good, Login, Here
<1>3. PICK n \in 0 .. s.frags[p] :
        fight' = [s EXCEPT !.online = @ \union {p}, !.losses = @ \ {p}, !.frags[p] = n,
                           !.skull[p] = IF n > 0 THEN @ ELSE "none"]
  BY <1>1 DEF Login
<1> DEFINE O == s.online \union {p}
<1> DEFINE L == s.losses \ {p}
<1> DEFINE F == [s.frags EXCEPT ![p] = n]
<1> DEFINE K == [s.skull EXCEPT ![p] = IF n > 0 THEN @ ELSE "none"]
<1>4. O \in SUBSET Players /\ L \in SUBSET Players /\ F \in [Players -> Nat]
  BY <1>2, FightTypes
<1>5. K \in [Players -> Skulls]
  BY <1>2, FightTypes DEF Skulls
<1>6. /\ F[p] = n /\ \A x \in Players \ {p} : F[x] = s.frags[x] /\ K[x] = s.skull[x]
      /\ K[p] = s.skull[p] \/ (K[p] = "none" /\ n = 0)
  BY <1>2, FightTypes
<1>7. PICK t : t = [s EXCEPT !.online = O, !.losses = L, !.frags = F, !.skull = K] /\ fight' = t
  BY <1>2, <1>3 DEF Fights
<1> HIDE DEF O, L, F, K
<1>8. /\ t \in Fights /\ Only(s, t, {"online", "losses", "frags", "skull"})
      /\ t.online = O /\ t.losses = L /\ t.frags = F /\ t.skull = K
  BY <1>2, <1>4, <1>5, <1>7 DEF Fights, Only, Fields
<1>9. /\ t.inFight = s.inFight /\ t.poison = s.poison /\ t.attacked = s.attacked /\ t.began = s.began
      /\ t.locked = s.locked /\ t.lastHit = s.lastHit /\ t.slayer = s.slayer /\ t.health = s.health /\ t.mana = s.mana
  BY <1>8 DEF Only, Fields
<1>10. Marking(t)
  BY <1>2, <1>6, <1>8, <1>9 DEF Good, Marking
<1>11. Away(t)
  BY <1>2, <1>8, <1>9 DEF Good, Away, O
<1>12. s.attacked[p] = {} /\ s.began[p] = {}
  BY <1>2 DEF Good, Away
<1>13. Provoked(t)
  BY <1>2, <1>6, <1>8, <1>9, <1>12 DEF Good, Provoked
<1>14. Slain(t)
  BY <1>2, <1>9 DEF Good, Slain
<1>15. Good(t)
  BY <1>8, <1>10, <1>11, <1>13, <1>14 DEF Good
<1>16. BlamedOnlyIfBegan
  <2>1. \A k \in Players : s.frags[k] \in Nat /\ F[k] <= s.frags[k]
    BY <1>2, <1>3, <1>6, FightTypes
  <2>2. \A k \in Players : ~(F[k] > s.frags[k])
    BY <1>4, <2>1
  <2> QED
    BY <1>1, <1>7, <1>8, <2>2 DEF BlamedOnlyIfBegan
<1>17. SkullServed
  <2>1. \A x \in s.online : t.frags[x] = s.frags[x] /\ s.frags[x] \in Nat
    BY <1>2, <1>6, <1>8, FightTypes
  <2>2. \A x \in Players : Here(s, x) => ~(t.frags[x] + 1 < s.frags[x])
    BY <2>1 DEF Here
  <2> QED
    BY <1>1, <1>2, <1>6, <1>7, <1>8, <2>2 DEF SkullServed, Served, Here
<1>18. ArenaIsFree
  BY <1>1, <1>7, <1>8 DEF ArenaIsFree, L
<1> QED
  BY <1>7, <1>15, <1>16, <1>17, <1>18 DEF Sound

(* and the time of frags, which ends skulls only out of fights.            *)
LEMMA SkullStep ==
  ASSUME CombatAssumption, Good(fight), NEW p \in Players, CheckSkullTicks(p)
  PROVE  Good(fight') /\ Sound
<1>1. PICK s : s = fight
  OBVIOUS
<1>2. s \in Fights /\ Good(s) /\ s.frags[p] \in Nat
  BY <1>1, FightTypes DEF Good
<1>3. PICK n : /\ n \in NewTicks(s.frags[p])
               /\ fight' = [s EXCEPT !.frags[p] = n,
                                     !.skull[p] = IF @ \in {"red", "black"} /\ n = 0 /\ p \notin s.inFight
                                                  THEN "none" ELSE @]
  BY <1>1 DEF CheckSkullTicks
<1>4. n \in Nat /\ n <= s.frags[p] /\ (n + 1 < s.frags[p] => s.frags[p] > Countable)
  <2>1. Countable \in Nat
    BY DEF CombatAssumption
  <2>2. CASE s.frags[p] <= Countable
    <3>1. PICK b \in Int : b = s.frags[p] - 1
      BY <1>2
    <3>2. Max({0, b}) = IF 0 <= b THEN b ELSE 0
      BY MinOfTwo
    <3> QED
      BY <1>2, <1>3, <2>2, <3>1, <3>2 DEF NewTicks
  <2>3. CASE ~(s.frags[p] <= Countable)
    BY <1>2, <1>3, <2>1, <2>3 DEF NewTicks
  <2> QED
    BY <2>2, <2>3
<1> DEFINE F == [s.frags EXCEPT ![p] = n]
<1> DEFINE K == [s.skull EXCEPT ![p] = IF @ \in {"red", "black"} /\ n = 0 /\ p \notin s.inFight THEN "none" ELSE @]
<1>5. F \in [Players -> Nat] /\ K \in [Players -> Skulls]
  BY <1>2, <1>4, FightTypes DEF Skulls
<1>6. /\ F[p] = n /\ \A x \in Players \ {p} : F[x] = s.frags[x] /\ K[x] = s.skull[x]
      /\ K[p] = s.skull[p] \/ (K[p] = "none" /\ n = 0 /\ p \notin s.inFight)
  BY <1>2, FightTypes
<1>7. PICK t : t = [s EXCEPT !.frags = F, !.skull = K] /\ fight' = t
  BY <1>2, <1>3 DEF Fights
<1> HIDE DEF F, K
<1>8. /\ t \in Fights /\ Only(s, t, {"frags", "skull"}) /\ t.frags = F /\ t.skull = K
  BY <1>2, <1>5, <1>7 DEF Fights, Only, Fields
<1>9. /\ t.inFight = s.inFight /\ t.poison = s.poison /\ t.attacked = s.attacked /\ t.began = s.began
      /\ t.locked = s.locked /\ t.lastHit = s.lastHit /\ t.slayer = s.slayer /\ t.health = s.health /\ t.mana = s.mana
      /\ t.online = s.online /\ t.losses = s.losses
  BY <1>8 DEF Only, Fields
<1>10. Marking(t)
  BY <1>2, <1>6, <1>8, <1>9 DEF Good, Marking
<1>11. p \notin s.inFight => s.attacked[p] = {} /\ s.began[p] = {}
  BY <1>2 DEF Good, Marking
<1>12. Provoked(t)
  BY <1>2, <1>6, <1>8, <1>9, <1>11 DEF Good, Provoked
<1>13. Away(t) /\ Slain(t)
  BY <1>2, <1>9 DEF Good, Away, Slain
<1>14. Good(t)
  BY <1>8, <1>10, <1>12, <1>13 DEF Good
<1>15. BlamedOnlyIfBegan
  <2>1. \A k \in Players : s.frags[k] \in Nat /\ F[k] <= s.frags[k]
    BY <1>2, <1>4, <1>6, FightTypes
  <2>2. \A k \in Players : ~(F[k] > s.frags[k])
    BY <1>5, <2>1
  <2> QED
    BY <1>1, <1>7, <1>8, <2>2 DEF BlamedOnlyIfBegan
<1>16. SkullServed
  <2>1. \A x \in Players : t.frags[x] + 1 < s.frags[x] => s.frags[x] > Countable
    <3>1. \A x \in Players : s.frags[x] \in Nat
      BY <1>2, FightTypes
    <3> QED
      BY <1>4, <1>6, <1>8, <3>1
  <2> QED
    BY <1>1, <1>6, <1>7, <1>8, <2>1 DEF SkullServed, Served
<1>17. ArenaIsFree
  BY <1>1, <1>7, <1>9 DEF ArenaIsFree
<1> QED
  BY <1>7, <1>14, <1>15, <1>16, <1>17 DEF Sound

(* A death: who is blamed had a mark of the dead and gave him none, and    *)
(* whom a player kills in an arena was last hit by that player.            *)
LEMMA DeathStep ==
  ASSUME CombatAssumption, Good(fight), NEW q \in Players, OnDeath(q)
  PROVE  Good(fight') /\ Sound
<1>1. PICK s : s = fight
  OBVIOUS
<1>2. Good(s) /\ s \in Fights /\ q \in s.online /\ s.health[q] = 0
  BY <1>1 DEF Good, OnDeath, Here
<1>3. PICK most \in MostDamage(s, q), stays \in BOOLEAN :
        LET t == Death(Killed(s, q, most), q)
        IN  fight' = IF stays THEN t ELSE Removed(t, q)
  BY <1>1 DEF OnDeath
<1>4. PICK u : u = Killed(s, q, most)
  OBVIOUS
<1>5. PICK t : t = Death(u, q) /\ fight' = IF stays THEN t ELSE Removed(t, q)
  BY <1>3, <1>4
<1>6. Good(u) /\ Kept(s, u) /\ Fallen(s, q, u)
  BY <1>2, <1>3, <1>4, KilledGood
<1>7. /\ Good(t) /\ Kept(u, t) /\ q \notin t.inFight /\ t.frags = u.frags
      /\ t.losses \subseteq u.losses \union {q} /\ (q \notin u.skillLoss => t.losses = u.losses)
  BY <1>5, <1>6, DeathGood
<1>8. PICK w : w = fight'
  OBVIOUS
<1>9. Good(w) /\ Kept(t, w) /\ w.frags = t.frags /\ w.losses = t.losses /\ w.inFight = t.inFight
  <2>1. CASE stays
    BY <1>5, <1>7, <1>8, <2>1 DEF Kept
  <2>2. CASE ~stays
    <3>1. w = Removed(t, q)
      BY <1>5, <1>8, <2>2
    <3> QED
      BY <1>7, <3>1, RemovedGood
  <2> QED
    BY <2>1, <2>2
<1>10. u.losses = s.losses
  BY <1>6 DEF Fallen, Only, Fields
<1>11. /\ \A x \in Players : u.frags[x] # s.frags[x] => Unjustified(s, x, q) /\ s.skull[q] = "none"
       /\ s.lastHit[q] \in Players /\ s.zone[q] = "arena" => q \notin u.skillLoss
  BY <1>6 DEF Fallen
<1>12. Dies(q)
  BY <1>1, <1>2, <1>7, <1>8, <1>9 DEF Dies, Here
<1>13. BlamedOnlyIfBegan
  <2> SUFFICES ASSUME NEW k \in Players, fight'.frags[k] > fight.frags[k]
               PROVE  k \in fight.began[q] => fight.skull[k] # "none"
    BY <1>12 DEF BlamedOnlyIfBegan
  <2>1. w.frags[k] > s.frags[k] /\ s.frags[k] \in Nat
    BY <1>1, <1>2, <1>8, FightTypes
  <2>2. u.frags[k] # s.frags[k]
    BY <1>7, <1>9, <2>1
  <2>3. q \in s.attacked[k] /\ k \notin s.attacked[q] /\ s.skull[q] = "none"
    BY <1>11, <2>2 DEF Unjustified
  <2>4. k \in s.began[q] => s.skull[k] # "none"
    BY <1>2, <2>3 DEF Good, Provoked
  <2> QED
    BY <1>1, <2>4
<1>14. SkullServed
  <2>1. Kept(s, w)
    BY <1>6, <1>7, <1>9 DEF Kept
  <2>2. \A x \in Players : ~(w.frags[x] + 1 < s.frags[x])
    <3>1. \A x \in Players : u.frags[x] # s.frags[x] => u.frags[x] > s.frags[x]
      BY <1>6 DEF Fallen
    <3>2. \A x \in Players : s.frags[x] \in Nat /\ u.frags[x] \in Nat
      BY <1>2, <1>6, FightTypes DEF Good
    <3> QED
      BY <1>7, <1>9, <3>1, <3>2
  <2> QED
    BY <1>1, <1>8, <2>1, <2>2 DEF Kept, SkullServed
<1>15. ArenaIsFree
  <2> SUFFICES ASSUME NEW x \in w.losses \ s.losses, s.zone[x] = "arena", s.slayer[x] \in Players
               PROVE  FALSE
    BY <1>1, <1>8 DEF ArenaIsFree
  <2>1. x = q /\ q \in u.skillLoss
    BY <1>7, <1>9, <1>10
  <2>2. s.lastHit[q] \in Players
    BY <1>2, <2>1 DEF Good, Slain
  <2> QED
    BY <1>11, <2>1, <2>2
<1> QED
  BY <1>8, <1>9, <1>13, <1>14, <1>15 DEF Sound

(* Before the first blow there is no mark.                                 *)
LEMMA FightsInit ==
  ASSUME CombatAssumption, Init
  PROVE  Good(fight)
<1>1. PICK z \in Zones :
    fight = [online |-> Players, zone |-> [p \in Players |-> z],
             health |-> [p \in Players |-> MaxHealth], mana |-> [p \in Players |-> MaxMana],
             skull |-> [p \in Players |-> "none"], frags |-> [p \in Players |-> 0],
             attacked |-> [p \in Players |-> {}], inFight |-> {}, locked |-> {},
             points |-> [p \in Players |-> NoPoints], lastHit |-> [p \in Players |-> Nobody],
             skillLoss |-> Players, poison |-> [p \in Players |-> Nobody],
             losses |-> {}, began |-> [p \in Players |-> {}], slayer |-> [p \in Players |-> Nobody]]
  BY DEF Init
<1>2. Nobody \notin Players /\ MaxHealth \in Nat \ {0} /\ MaxMana \in Nat /\ Nobody \in Fighters
  BY DEF CombatAssumption, Attackers, Fighters
<1>3. NoPoints \in [Attackers -> Nat] /\ "none" \in Skulls
  BY DEF NoPoints, Skulls
<1> HIDE DEF Fighters
<1>4. fight \in Fights
  BY <1>1, <1>2, <1>3 DEF Fights
<1>5. /\ fight.health = [p \in Players |-> MaxHealth] /\ fight.skull = [p \in Players |-> "none"]
      /\ fight.attacked = [p \in Players |-> {}] /\ fight.began = [p \in Players |-> {}]
      /\ fight.locked = {} /\ fight.online = Players /\ fight.poison = [p \in Players |-> Nobody]
  BY <1>1
<1>6. Marking(fight) /\ Away(fight) /\ Provoked(fight) /\ Slain(fight)
  BY <1>2, <1>5 DEF Marking, Away, Provoked, Slain
<1> QED
  BY <1>4, <1>6 DEF Good

(* Every step keeps the invariant and is sound.                            *)
LEMMA FightsNext ==
  ASSUME CombatAssumption, Good(fight), [Next]_fight
  PROVE  Good(fight') /\ [Sound]_fight
<1>1. CASE UNCHANGED fight
  BY <1>1
<1>2. CASE Next
  BY <1>2, HitStep, WalkStep, BurnStep, CureStep, DeathStep, LogoutStep, LoginStep, EndFightStep, SkullStep,
     ExperienceStep, SaveStep DEF Next
<1> QED
  BY <1>1, <1>2

(* The credit is the sum of what all have dealt.                           *)
LEMMA CreditIs ==
  ASSUME CombatAssumption, NEW s \in Fights, NEW q \in Players
  PROVE  /\ Credit(s, q) = Total(s.points[q], Attackers) /\ Credit(s, q) \in Nat
         /\ s.points[q] \in [Attackers -> Nat] /\ Natural(s.points[q], Attackers)
            /\ IsFiniteSet(Attackers)
<1>1. IsFiniteSet(Attackers)
  BY DEF CombatAssumption
<1>2. s.points[q] \in [Attackers -> Nat]
  BY FightTypes
<1>3. DOMAIN s.points[q] = Attackers /\ Natural(s.points[q], Attackers)
  BY <1>2 DEF Natural
<1>4. Credit(s, q) = Total(s.points[q], DOMAIN s.points[q])
  BY DEF Credit, SumFunction, SumFunctionOnSet, FoldFunctionOnSet, Total, MapThenSumSet
<1>5. Credit(s, q) = Total(s.points[q], Attackers)
  BY <1>3, <1>4
<1> QED
  BY <1>1, <1>2, <1>3, <1>5, TotalNat

(* Nobody is credited with more than before.                               *)
Fewer(s, t) == \A q \in Players, a \in Attackers : t.points[q][a] <= s.points[q][a]

(* Twice less is less.                                                     *)
LEMMA FewerTwice ==
  ASSUME NEW s \in Fights, NEW t \in Fights, NEW u \in Fights, Fewer(s, t), Fewer(t, u)
  PROVE  Fewer(s, u)
<1> SUFFICES ASSUME NEW q \in Players, NEW a \in Attackers PROVE u.points[q][a] <= s.points[q][a]
  BY DEF Fewer
<1>1. s.points[q] \in [Attackers -> Nat] /\ t.points[q] \in [Attackers -> Nat]
      /\ u.points[q] \in [Attackers -> Nat]
  BY FightTypes
<1>2. t.points[q][a] <= s.points[q][a] /\ u.points[q][a] <= t.points[q][a]
  BY DEF Fewer
<1> QED
  BY <1>1, <1>2

(* The same is no more.                                                    *)
LEMMA SameIsFewer ==
  ASSUME NEW s \in Fights, NEW t, t.points = s.points
  PROVE  Fewer(s, t)
<1> SUFFICES ASSUME NEW q \in Players, NEW a \in Attackers PROVE t.points[q][a] <= s.points[q][a]
  BY DEF Fewer
<1>1. s.points[q] \in [Attackers -> Nat]
  BY FightTypes
<1> QED
  BY <1>1

(* Then nobody's credit grows, and nothing has to be paid for it.          *)
LEMMA FewerIsCredited ==
  ASSUME CombatAssumption, fight \in Fights, fight' \in Fights, Fewer(fight, fight')
  PROVE  CreditedForLosses
<1> SUFFICES ASSUME NEW q \in fight.online \intersect fight'.online, Credit(fight', q) > Credit(fight, q)
             PROVE  FALSE
  BY DEF CreditedForLosses
<1>1. PICK s \in Fights, t \in Fights : s = fight /\ t = fight'
  OBVIOUS
<1>2. q \in Players
  BY DEF Fights
<1>3. \A a \in Attackers : t.points[q][a] <= s.points[q][a]
  BY <1>1, <1>2 DEF Fewer
<1>4. /\ Credit(s, q) = Total(s.points[q], Attackers) /\ Credit(s, q) \in Nat
         /\ Natural(s.points[q], Attackers)
      /\ Credit(t, q) = Total(t.points[q], Attackers) /\ Credit(t, q) \in Nat
         /\ Natural(t.points[q], Attackers)
      /\ IsFiniteSet(Attackers)
  BY <1>2, CreditIs
<1>5. Credit(t, q) <= Credit(s, q)
  BY <1>3, <1>4, TotalBelow
<1>6. Credit(t, q) > Credit(s, q)
  BY <1>1 DEF Credit
<1> QED
  BY <1>4, <1>5, <1>6

(* The living forget what was dealt to them,                               *)
LEMMA IdleFewer ==
  ASSUME NEW s \in Fights, NEW p \in Players
  PROVE  Fewer(s, IdleStatus(s, p)) /\ IdleStatus(s, p) \in Fights
<1>1. PICK t : t = IdleStatus(s, p)
  OBVIOUS
<1>2. t \in Fights
  BY <1>1, IdleChanges DEF Idled
<1>3. CASE s.health[p] = 0
  BY <1>1, <1>2, <1>3, SameIsFewer DEF IdleStatus
<1>4. CASE s.health[p] # 0
  <2>1. t.points = [s.points EXCEPT ![p] = NoPoints]
    BY <1>1, <1>4 DEF IdleStatus, Fights
  <2>2. \A q \in Players : s.points[q] \in [Attackers -> Nat] /\ t.points[q] \in {NoPoints, s.points[q]}
    BY <2>1, FightTypes
  <2>3. \A a \in Attackers : NoPoints[a] = 0
    BY DEF NoPoints
  <2> HIDE DEF NoPoints
  <2>4. Fewer(s, t)
    BY <2>2, <2>3 DEF Fewer
  <2> QED
    BY <1>1, <1>2, <2>4
<1> QED
  BY <1>1, <1>3, <1>4

(* also with the end of a fight,                                           *)
LEMMA EndFewer ==
  ASSUME NEW s \in Fights, NEW p \in Players
  PROVE  Fewer(s, EndCondition(s, p))
<1>1. CASE p \notin s.inFight
  BY <1>1, SameIsFewer DEF EndCondition
<1>2. CASE p \in s.inFight
  <2>1. PICK u : u = IdleStatus(s, p)
    OBVIOUS
  <2>2. PICK t : t = EndCondition(s, p)
    OBVIOUS
  <2>3. u \in Fights /\ Fewer(s, u)
    BY <2>1, IdleFewer
  <2>4. t.points = u.points
    BY <1>2, <2>1, <2>2, <2>3 DEF EndCondition, Fights
  <2> QED
    BY <2>2, <2>3, <2>4 DEF Fewer
<1> QED
  BY <1>1, <1>2

(* and who leaves forgets, and is forgotten.                               *)
LEMMA RemovedFewer ==
  ASSUME NEW s \in Fights, NEW p \in Players
  PROVE  Fewer(s, Removed(s, p))
<1>1. PICK u : u = Saved(s, {p})
  OBVIOUS
<1>2. PICK t : t = Removed(s, p)
  OBVIOUS
<1>3. u \in Fights /\ u.points = s.points
  <2>1. u \in Fights /\ Only(s, u, {"health"})
    BY <1>1, SavedChanges
  <2> QED
    BY <2>1 DEF Only, Fields
<1>4. t.points = [q \in Players |-> IF q = p THEN NoPoints ELSE [u.points[q] EXCEPT ![p] = 0]]
  BY <1>1, <1>2, <1>3 DEF Removed, Fights
<1> SUFFICES ASSUME NEW q \in Players, NEW a \in Attackers
             PROVE  t.points[q][a] <= s.points[q][a]
  BY <1>2 DEF Fewer
<1>5. s.points[q] \in [Attackers -> Nat] /\ s.points[q][a] \in Nat /\ NoPoints[a] = 0
  BY FightTypes DEF NoPoints
<1>6. t.points[q] = IF q = p THEN NoPoints ELSE [s.points[q] EXCEPT ![p] = 0]
  BY <1>3, <1>4
<1> HIDE DEF NoPoints
<1> QED
  BY <1>5, <1>6

(* Whoever dies: only the ends of his fights touch what was dealt.         *)
LEMMA DeathFewer ==
  ASSUME CombatAssumption, NEW s, Good(s), NEW q \in Players, NEW most \in MostDamage(s, q),
         NEW t, t = Death(Killed(s, q, most), q)
  PROVE  Fewer(s, t) /\ t \in Fights
<1>1. PICK u : u = Killed(s, q, most)
  OBVIOUS
<1>2. Good(u) /\ u.points = s.points
  <2>1. Good(u) /\ Fallen(s, q, u)
    BY <1>1, KilledGood
  <2> QED
    BY <2>1 DEF Fallen, Only, Fields
<1>3. PICK a : a = Costs(u, q)
  OBVIOUS
<1>4. PICK b : b = [a EXCEPT !.poison[q] = Nobody]
  OBVIOUS
<1>5. PICK c : c = EndCondition(b, q)
  OBVIOUS
<1>6. PICK e : e = [c EXCEPT !.zone[q] = Home]
  OBVIOUS
<1>7. t = IdleStatus(e, q)
  BY <1>1, <1>3, <1>4, <1>5, <1>6 DEF Death, Costs
<1>8. Good(a) /\ Only(u, a, {"losses", "health", "mana", "skillLoss"})
  BY <1>2, <1>3, PenaltyGood
<1>9. Good(b) /\ Only(a, b, {"poison"})
  BY <1>4, <1>8, CuredGood
<1>10. Good(c)
  BY <1>5, <1>9, EndGood
<1>11. Good(e) /\ Only(c, e, {"zone"})
  <2>1. Home \in Zones
    BY DEF Home, CombatAssumption
  <2> QED
    BY <1>6, <1>10, <2>1, MovedGood
<1>12. s \in Fights /\ b \in Fights /\ c \in Fights /\ e \in Fights
  BY <1>9, <1>10, <1>11 DEF Good
<1>13. b.points = s.points /\ e.points = c.points
  BY <1>2, <1>8, <1>9, <1>11 DEF Only, Fields
<1>14. Fewer(b, c) /\ Fewer(e, t) /\ t \in Fights
  BY <1>5, <1>7, <1>12, EndFewer, IdleFewer
<1>15. Fewer(s, c) /\ Fewer(c, t)
  BY <1>13, <1>14 DEF Fewer
<1> QED
  BY <1>12, <1>14, <1>15, FewerTwice

(* A wound: what the attacker is credited with is what it took, shield and *)
(* health together.                                                        *)
Owed(s, a, q, n, t) ==
  /\ n \in Int /\ Whole(s, q) - Whole(t, q) = n
  /\ \/ t.points = s.points
     \/ a \in Attackers /\ t.points = [s.points EXCEPT ![q][a] = @ + n]

(* Such is every change of health by a blow.                               *)
LEMMA WoundOwed ==
  ASSUME NEW s \in Fights, NEW a, NEW q \in Players, NEW d \in Nat, NEW t, t = ChangeHealth(s, a, q, d)
  PROVE  \E n : Owed(s, a, q, n, t)
<1>1. s.health[q] \in Nat /\ s.mana[q] \in Nat
  BY FightTypes
<1>2. PICK m \in Int : m = IF q \in Shielded THEN Min({s.mana[q], d}) ELSE 0
  <2>1. Min({s.mana[q], d}) = IF s.mana[q] <= d THEN s.mana[q] ELSE d
    BY <1>1, MinOfTwo
  <2> QED
    BY <1>1, <2>1
<1>3. PICK r \in Int : r = Min({s.health[q], d - m})
  <2>1. d - m \in Int
    BY <1>2
  <2>2. Min({s.health[q], d - m}) = IF s.health[q] <= d - m THEN s.health[q] ELSE d - m
    BY <1>1, <2>1, MinOfTwo
  <2> QED
    BY <1>1, <2>1, <2>2
<1>4. PICK n \in Int : n = m + r
  OBVIOUS
<1>5. PICK u : u = AddDamagePoints(s, a, q, n)
  OBVIOUS
<1>6. PICK l : l = IF s.health[q] > 0 /\ s.health[q] = r THEN a ELSE s.slayer[q]
  OBVIOUS
<1>7. t = [u EXCEPT !.mana[q] = @ - m, !.health[q] = @ - r,
                    !.slayer[q] = IF s.health[q] > 0 /\ s.health[q] = r THEN a ELSE @]
  BY <1>2, <1>3, <1>4, <1>5 DEF ChangeHealth
<1>8. /\ u.mana = s.mana /\ u.health = s.health
      /\ \/ u.points = s.points
         \/ a \in Attackers /\ u.points = [s.points EXCEPT ![q][a] = @ + n]
      /\ DOMAIN u = Fields
  BY <1>5 DEF AddDamagePoints, Fights, Fields
<1>9. t.points = u.points /\ t.mana = [s.mana EXCEPT ![q] = @ - m]
      /\ t.health = [s.health EXCEPT ![q] = @ - r]
  BY <1>7, <1>8 DEF Fields
<1>10. s.mana \in [Players -> Nat] /\ s.health \in [Players -> Nat]
  BY FightTypes
<1>11. t.mana[q] = s.mana[q] - m /\ t.health[q] = s.health[q] - r
  BY <1>9, <1>10
<1>12. Whole(s, q) - Whole(t, q) = n
  BY <1>1, <1>4, <1>11 DEF Whole
<1>13. Owed(s, a, q, n, t)
  BY <1>8, <1>9, <1>12 DEF Owed
<1> QED
  BY <1>13

(* So a whole blow credits somebody with what was lost,                    *)
LEMMA OwedIsCredited ==
  ASSUME CombatAssumption, fight \in Fights, fight' \in Fights, NEW q \in Players, NEW a, NEW n,
         Owed(fight, a, q, n, fight')
  PROVE  CreditedForLosses
<1>1. PICK s \in Fights, t \in Fights : s = fight /\ t = fight'
  OBVIOUS
<1>2. Owed(s, a, q, n, t)
  BY <1>1 DEF Owed, Whole
<1>3. CASE t.points = s.points
  BY <1>1, <1>3, SameIsFewer, FewerIsCredited
<1>4. CASE a \in Attackers /\ t.points = [s.points EXCEPT ![q][a] = @ + n]
  <2> SUFFICES ASSUME NEW x \in s.online \intersect t.online, Credit(t, x) > Credit(s, x)
               PROVE  Credit(t, x) - Credit(s, x) = Whole(s, x) - Whole(t, x)
    BY <1>1 DEF CreditedForLosses, Credit, Whole
  <2>1. x \in Players
    BY DEF Fights
  <2>2. /\ Credit(s, x) = Total(s.points[x], Attackers) /\ Credit(s, x) \in Nat
        /\ Credit(t, x) = Total(t.points[x], Attackers) /\ Credit(t, x) \in Nat
        /\ s.points[x] \in [Attackers -> Nat] /\ t.points[x] \in [Attackers -> Nat]
        /\ Natural(s.points[x], Attackers) /\ Natural(t.points[x], Attackers) /\ IsFiniteSet(Attackers)
    BY <2>1, CreditIs
  <2>3. s.points \in [Players -> [Attackers -> Nat]]
    BY FightTypes
  <2>4. x = q
    <3> SUFFICES ASSUME x # q PROVE FALSE
      OBVIOUS
    <3>1. t.points[x] = s.points[x]
      BY <1>4, <2>1, <2>3
    <3> QED
      BY <2>2, <3>1
  <2>5. t.points[x] = [s.points[x] EXCEPT ![a] = @ + n]
    BY <1>4, <2>1, <2>3, <2>4
  <2>6. t.points[x][a] = s.points[x][a] + n
        /\ \A y \in Attackers \ {a} : s.points[x][y] = t.points[x][y]
    BY <2>2, <2>5
  <2>7. Total(t.points[x], Attackers) + s.points[x][a] = Total(s.points[x], Attackers) + t.points[x][a]
    BY <1>4, <2>2, <2>6, TotalChanged
  <2>8. s.points[x][a] \in Nat /\ n \in Int
    BY <1>2, <1>4, <2>2 DEF Owed
  <2>9. Credit(t, x) - Credit(s, x) = n
    BY <2>2, <2>6, <2>7, <2>8
  <2>10. Whole(s, x) - Whole(t, x) = n
    BY <1>2, <2>4 DEF Owed
  <2> QED
    BY <2>9, <2>10
<1> QED
  BY <1>2, <1>3, <1>4 DEF Owed

(* whether it poisons or not.                                              *)
LEMMA BlowOwed ==
  ASSUME NEW s, Good(s), NEW a, a \in Players => a \in s.online, NEW q \in Players, NEW d \in Nat,
         NEW t, t = ChangeHealth(BlockHit(s, a, q), a, q, d), NEW P
  PROVE  /\ \E n : Owed(s, a, q, n, t)
         /\ \E n : Owed(s, a, q, n, [t EXCEPT !.poison = P])
<1>1. PICK u : u = BlockHit(s, a, q)
  OBVIOUS
<1>2. Good(u) /\ Only(s, u, Marks)
  BY <1>1, BlockGood
<1>3. u \in Fights /\ u.points = s.points /\ u.health = s.health /\ u.mana = s.mana
  BY <1>2 DEF Good, Only, Fields, Marks
<1>4. PICK n : Owed(u, a, q, n, t)
  BY <1>1, <1>3, WoundOwed
<1>5. PICK v : v = [t EXCEPT !.poison = P]
  OBVIOUS
<1>6. v.points = t.points /\ v.health = t.health /\ v.mana = t.mana
  BY <1>5 
<1>7. Owed(s, a, q, n, t) /\ Owed(s, a, q, n, v)
  BY <1>3, <1>4, <1>6 DEF Owed, Whole
<1> QED
  BY <1>5, <1>7

(* Every step credits somebody with what was lost, or nobody.              *)
LEMMA CreditsNext ==
  ASSUME CombatAssumption, Good(fight), [Next]_fight
  PROVE  [CreditedForLosses]_fight
<1> SUFFICES ASSUME Next PROVE CreditedForLosses
  OBVIOUS
<1>1. fight \in Fights /\ fight' \in Fights
  BY FightsNext DEF Good
<1>2. CASE fight'.points = fight.points
  BY <1>1, <1>2, SameIsFewer, FewerIsCredited
<1>3. ASSUME NEW p \in Players, Logout(p) \/ EndFight(p) PROVE CreditedForLosses
  BY <1>1, <1>3, RemovedFewer, EndFewer, FewerIsCredited DEF Logout, EndFight
<1>4. ASSUME NEW q \in Players, OnDeath(q) PROVE CreditedForLosses
  <2>1. PICK most \in MostDamage(fight, q), stays \in BOOLEAN :
          fight' = IF stays THEN Death(Killed(fight, q, most), q) ELSE Removed(Death(Killed(fight, q, most), q), q)
    BY <1>4 DEF OnDeath
  <2>2. PICK t : t = Death(Killed(fight, q, most), q)
    OBVIOUS
  <2>3. Fewer(fight, t) /\ t \in Fights
    BY <2>2, DeathFewer
  <2>4. Fewer(t, fight') \/ t = fight'
    BY <2>1, <2>2, <2>3, RemovedFewer
  <2>5. Fewer(fight, fight')
    BY <1>1, <2>3, <2>4, FewerTwice
  <2> QED
    BY <1>1, <2>5, FewerIsCredited
<1>5. ASSUME NEW q \in Players, Burn(q) PROVE CreditedForLosses
  <2>1. PICK a : a = fight.poison[q] /\ fight' = ChangeHealth(BlockHit(fight, a, q), a, q, 1)
    BY <1>5 DEF Burn
  <2>2. a \in Players => a \in fight.online
    BY <2>1 DEF Good, Away
  <2>3. PICK d \in Nat : d = 1
    OBVIOUS
  <2>4. PICK t : t = ChangeHealth(BlockHit(fight, a, q), a, q, d)
    OBVIOUS
  <2>5. \E n : Owed(fight, a, q, n, t)
    BY <2>2, <2>4, BlowOwed
  <2>6. fight' = t
    BY <2>1, <2>3, <2>4
  <2>7. \E n : Owed(fight, a, q, n, fight')
    BY <2>5, <2>6
  <2> QED
    BY <1>1, <2>7, OwedIsCredited
<1>6. ASSUME NEW a \in Attackers, NEW q \in Players, Hit(a, q) PROVE CreditedForLosses
  <2>1. PICK d \in 0 .. MaxBlow, poisons \in BOOLEAN :
          LET t == ChangeHealth(BlockHit(fight, a, q), a, q, d)
          IN  fight' = IF poisons THEN [t EXCEPT !.poison[q] = a] ELSE t
    BY <1>6 DEF Hit
  <2>2. PICK t : /\ t = ChangeHealth(BlockHit(fight, a, q), a, q, d)
                 /\ fight' = IF poisons THEN [t EXCEPT !.poison = [@ EXCEPT ![q] = a]] ELSE t
    BY <2>1
  <2>3. d \in Nat /\ (a \in Players => a \in fight.online)
    BY <1>6 DEF Hit, MayHit, Alive, Here, CombatAssumption
  <2>4. \E n : Owed(fight, a, q, n, fight')
    BY <2>2, <2>3, BlowOwed
  <2> QED
    BY <1>1, <2>4, OwedIsCredited
<1>7. ASSUME NEW p \in Players, Cure(p) \/ Login(p) \/ CheckSkullTicks(p) \/ AddExperience(p)
      PROVE  fight'.points = fight.points
  BY <1>1, <1>7 DEF Cure, Login, CheckSkullTicks, AddExperience, Fights
<1>8. ASSUME NEW p \in Players, NEW z \in Zones, Walk(p, z) PROVE fight'.points = fight.points
  BY <1>1, <1>8 DEF Walk, Fights
<1>9. SaveGameState => fight'.points = fight.points
  BY <1>1 DEF SaveGameState, Saved, Fights
<1> QED
  BY <1>2, <1>3, <1>4, <1>5, <1>6, <1>7, <1>8, <1>9 DEF Next

(* Marks, locks and white skulls belong to a fight; nobody without a skull *)
(* is blamed for killing who began it; red and black skulls are served, and*)
(* frags end one by one unless there are more than Countable; whom a player*)
(* kills in an arena loses nothing; and attackers are credited with what   *)
(* their victim has lost, in mana and in health.                           *)
THEOREM FightsAlwaysSound ==
  ASSUME CombatAssumption
  PROVE  Init /\ [][Next]_fight =>
           /\ []MarksInFight
           /\ [][CreditedForLosses /\ BlamedOnlyIfBegan /\ SkullServed /\ ArenaIsFree]_fight
<1>1. Init => Good(fight)
  BY FightsInit
<1>2. Good(fight) /\ [Next]_fight =>
        Good(fight)' /\ [CreditedForLosses /\ BlamedOnlyIfBegan /\ SkullServed /\ ArenaIsFree]_fight
  BY FightsNext, CreditsNext DEF Sound
<1>3. Good(fight) => MarksInFight
  <2>1. Good(fight) => \A p \in fight.online : p \in Players
    BY DEF Good, Fights
  <2> QED
    BY <2>1 DEF Good, Marking, MarksInFight
<1> QED
  BY <1>1, <1>2, <1>3, PTL

-----------------------------------------------------------------------------
(* The market.                                                             *)
CONSTANTS Amounts, Prices, Wealth, Goods, MaxOffers, Duration, LastId, MaxTime
VARIABLES bank, stock, inMarket, offers, history, query, results, clock, nextId, paid, stale

K == INSTANCE Market

(* What an offer holds, as functions of all that there may be.             *)
GoldAt == [o \in K!Offers |-> K!GoldOf(o)]
WaresAt == [o \in K!Offers |-> K!WaresOf(o)]

(* A set of offers, of which none is used up.                              *)
Sold(O) ==
  /\ O \in SUBSET K!Offers /\ IsFiniteSet(O)
  /\ \A o \in O : o.amount > 0

(* An id names one offer, and none yet that is to come.                    *)
Numbered(O, H, n) ==
  /\ n \in Nat \ {0}
  /\ \A o \in O : o.id < n
  /\ \A o, r \in O : o.id = r.id => o = r
  /\ \A h \in H : h[1] \in Nat /\ h[1] < n
  /\ \A h, k \in H : h[1] = k[1] => h = k
  /\ \A o \in O, h \in H : o.id # h[1]

(* What all have, and what the offers hold.                                *)
Worth(b, O) == Total(b, Players) + Total(GoldAt, O)
Ware(s, O) == Total(s, Players) + Total(WaresAt, O)

(* What every state of the market is like.  Its gold and wares are those   *)
(* of the beginning, unless it is stale.                                   *)
MarketInv ==
  /\ bank \in [Players -> Nat] /\ stock \in [Players -> Nat] /\ inMarket \in SUBSET Players
  /\ paid \in Nat /\ clock \in 0 .. MaxTime /\ stale \in BOOLEAN
  /\ Sold(offers)
  /\ \A rows \in results : Sold(rows)
  /\ Numbered(offers, history, nextId)
  /\ stale \/ /\ Worth(bank, offers) + paid = Wealth * Cardinality(Players)
              /\ Ware(stock, offers) = Goods * Cardinality(Players)

(* The market sums as is done above.                                       *)
LEMMA TotalSameMeaning == ASSUME NEW f, NEW S PROVE K!Total(f, S) = Total(f, S)
BY DEF K!Total, Total, K!MapThenSumSet, K!MapThenFoldSet, MapThenSumSet, MapThenFoldSet

(* What is assumed of its constants,                                       *)
LEMMA Bounds ==
  ASSUME K!MarketAssumption
  PROVE  /\ IsFiniteSet(Players) /\ Amounts \subseteq Nat \ {0} /\ Prices \subseteq Nat \ {0}
         /\ {Wealth, Goods, MaxOffers, Duration, LastId, MaxTime} \subseteq Nat
<1>1. K!MaxAmount \in Nat /\ K!MaxPrice \in Nat
  BY DEF K!MaxAmount, K!MaxPrice
<1>2. IsFiniteSet(Players)
  BY DEF K!MarketAssumption, K!IsFiniteSet, IsFiniteSet
<1> QED
  BY <1>1, <1>2 DEF K!MarketAssumption

(* and so what an offer holds, in gold and in wares.                       *)
LEMMA Prized ==
  ASSUME K!MarketAssumption, NEW o \in K!Offers
  PROVE  /\ o.amount \in Nat /\ o.price \in Nat /\ o.owner \in Players /\ o.id \in Nat
            /\ o.sale \in BOOLEAN
         /\ o.price * o.amount \in Nat
         /\ GoldAt[o] = IF o.sale THEN 0 ELSE o.price * o.amount
         /\ WaresAt[o] = IF o.sale THEN o.amount ELSE 0
         /\ GoldAt[o] \in Nat /\ WaresAt[o] \in Nat
<1>1. o.amount \in Nat /\ o.price \in Nat /\ o.owner \in Players /\ o.id \in Nat /\ o.sale \in BOOLEAN
  BY Bounds DEF K!Offers
<1>2. o.price * o.amount \in Nat
  BY <1>1
<1>3. GoldAt[o] = IF o.sale THEN 0 ELSE o.price * o.amount
  BY DEF GoldAt, K!GoldOf
<1>4. WaresAt[o] = IF o.sale THEN o.amount ELSE 0
  BY DEF WaresAt, K!WaresOf
<1> QED
  BY <1>1, <1>2, <1>3, <1>4

(* No offer holds less than nothing.                                       *)
LEMMA AllNatural ==
  ASSUME K!MarketAssumption, NEW O \in SUBSET K!Offers
  PROVE  Natural(GoldAt, O) /\ Natural(WaresAt, O)
BY Prized DEF Natural

(* Offers hold as much in the market's terms as in those used here.        *)
LEMMA Held ==
  ASSUME K!MarketAssumption, NEW O, Sold(O)
  PROVE  /\ K!Total(K!Gold(O), O) = Total(GoldAt, O) /\ K!Total(K!Wares(O), O) = Total(WaresAt, O)
         /\ Total(GoldAt, O) \in Nat /\ Total(WaresAt, O) \in Nat
<1>1. \A o \in O : K!Gold(O)[o] = GoldAt[o] /\ K!Wares(O)[o] = WaresAt[o]
  BY DEF K!Gold, K!Wares, GoldAt, WaresAt, Sold
<1>2. Total(K!Gold(O), O) = Total(GoldAt, O) /\ Total(K!Wares(O), O) = Total(WaresAt, O)
  BY <1>1, TotalSame DEF Sold
<1>3. Total(GoldAt, O) \in Nat /\ Total(WaresAt, O) \in Nat
  BY AllNatural, TotalNat DEF Sold
<1> QED
  BY <1>2, <1>3, TotalSameMeaning

(* One account changes.                                                    *)
Booking(f, p, n, g) ==
  /\ f \in [Players -> Nat] /\ p \in Players /\ n \in Int /\ f[p] + n >= 0
  /\ g = [f EXCEPT ![p] = @ + n]

(* The total changes by as much as the account does.                       *)
LEMMA Booked ==
  ASSUME K!MarketAssumption, NEW f, NEW p, NEW n, NEW g, Booking(f, p, n, g)
  PROVE  /\ g \in [Players -> Nat] /\ Total(g, Players) = Total(f, Players) + n
         /\ Total(f, Players) \in Nat
<1>1. /\ f \in [Players -> Nat] /\ g \in [Players -> Nat] /\ p \in Players /\ n \in Int
      /\ g[p] = f[p] + n /\ \A q \in Players \ {p} : f[q] = g[q]
  BY DEF Booking
<1>2. Natural(f, Players) /\ Natural(g, Players) /\ IsFiniteSet(Players)
  BY <1>1, Bounds DEF Natural
<1>3. Total(g, Players) + f[p] = Total(f, Players) + g[p]
  BY <1>1, <1>2, TotalChanged
<1>4. Total(f, Players) \in Nat /\ Total(g, Players) \in Nat
  BY <1>2, TotalNat
<1> QED
  BY <1>1, <1>3, <1>4

(* One offer comes or goes.                                                *)
LEMMA Offered ==
  ASSUME K!MarketAssumption, NEW O, Sold(O), NEW o \in K!Offers, o \notin O, o.amount > 0
  PROVE  /\ Sold(O \union {o})
         /\ Total(GoldAt, O \union {o}) = GoldAt[o] + Total(GoldAt, O)
         /\ Total(WaresAt, O \union {o}) = WaresAt[o] + Total(WaresAt, O)
<1>1. Sold(O \union {o})
  BY FS_AddElement DEF Sold
<1>2. Natural(GoldAt, O \union {o}) /\ Natural(WaresAt, O \union {o})
  BY AllNatural DEF Sold
<1> QED
  BY <1>1, <1>2, TotalWith DEF Sold

(* It takes with it what it held.                                          *)
LEMMA Withdrawn ==
  ASSUME K!MarketAssumption, NEW O, Sold(O), NEW o \in O
  PROVE  /\ Sold(O \ {o}) /\ o \in K!Offers
         /\ Total(GoldAt, O) = GoldAt[o] + Total(GoldAt, O \ {o})
         /\ Total(WaresAt, O) = WaresAt[o] + Total(WaresAt, O \ {o})
<1>1. Sold(O \ {o})
  BY FS_RemoveElement DEF Sold
<1>2. Natural(GoldAt, O) /\ Natural(WaresAt, O)
  BY AllNatural DEF Sold
<1> QED
  BY <1>1, <1>2, TotalWithout DEF Sold

(* What is said of ids, as offers come, become less and end.               *)
LEMMA NumberedNew ==
  ASSUME NEW O \in SUBSET K!Offers, NEW H, NEW n, Numbered(O, H, n), NEW o, o.id = n
  PROVE  Numbered(O \union {o}, H, n + 1) /\ o \notin O
<1>1. n \in Nat /\ \A r \in O : r.id < n /\ r.id \in Nat
  BY DEF Numbered, K!Offers
<1>2. \A h \in H : h[1] \in Nat /\ h[1] < n
  BY DEF Numbered
<1> QED
  BY <1>1, <1>2 DEF Numbered

(* Some end, all in one state.                                             *)
LEMMA NumberedEnd ==
  ASSUME NEW O \in SUBSET K!Offers, NEW H, NEW n, Numbered(O, H, n), NEW M \in SUBSET O, NEW state,
         NEW N, N = {<<o.id, state>> : o \in M}
  PROVE  Numbered(O \ M, H \union N, n)
<1>1. \A h \in N : \E o \in M : h = <<o.id, state>> /\ h[1] = o.id
  OBVIOUS
<1>2. \A o \in O : o.id \in Nat
  BY DEF K!Offers
<1>3. \A h, k \in H \union N : h[1] = k[1] => h = k
  BY <1>1 DEF Numbered
<1>4. \A o \in O \ M, h \in H \union N : o.id # h[1]
  BY <1>1 DEF Numbered
<1>5. \A h \in H \union N : h[1] \in Nat /\ h[1] < n
  BY <1>1, <1>2 DEF Numbered
<1> QED
  BY <1>3, <1>4, <1>5 DEF Numbered

(* One ends.                                                               *)
LEMMA NumberedOne ==
  ASSUME NEW O \in SUBSET K!Offers, NEW H, NEW n, Numbered(O, H, n), NEW o \in O, NEW state
  PROVE  Numbered(O \ {o}, H \union {<<o.id, state>>}, n)
<1> DEFINE e == <<o.id, state>>
           N == H \union {e}
<1>1. e[1] = o.id /\ \A r \in O : r.id \in Nat
  BY DEF K!Offers
<1> HIDE DEF e
<1>2. \A h \in N : h \in H \/ h = e
  OBVIOUS
<1> HIDE DEF N
<1>3. \A h, k \in N : h[1] = k[1] => h = k
  BY <1>1, <1>2 DEF Numbered
<1>4. \A r \in O \ {o}, h \in N : r.id # h[1]
  BY <1>1, <1>2 DEF Numbered
<1>5. \A h \in N : h[1] \in Nat /\ h[1] < n
  BY <1>1, <1>2 DEF Numbered
<1>6. Numbered(O \ {o}, N, n)
  BY <1>3, <1>4, <1>5 DEF Numbered
<1> QED
  BY <1>6 DEF N, e

(* So do the ids where one offer ends.                                     *)
LEMMA OfferEnds ==
  ASSUME MarketInv, NEW o \in offers,
         NEW state, offers' = offers \ {o}, history' = history \union {<<o.id, state>>}
  PROVE  Numbered(offers', history', nextId)
<1>1. offers \in SUBSET K!Offers /\ Numbered(offers, history, nextId)
  BY DEF MarketInv, Sold
<1>2. Numbered(offers \ {o}, history \union {<<o.id, state>>}, nextId)
  BY <1>1, NumberedOne
<1> QED
  BY <1>2

(* One becomes less.                                                       *)
LEMMA NumberedLess ==
  ASSUME NEW O, NEW H, NEW n, Numbered(O, H, n), NEW o \in O, NEW r, r.id = o.id
  PROVE  Numbered((O \ {o}) \union {r}, H, n) /\ r \notin O \ {o}
BY DEF Numbered

(* Nothing but the place of the gold and the wares changes.                *)
LEMMA OfferCreated ==
  ASSUME K!MarketAssumption, MarketInv, NEW p \in Players, NEW sale \in BOOLEAN, NEW amount \in Amounts,
         NEW price \in Prices, K!CreateOffer(p, sale, amount, price)
  PROVE  MarketInv'
<1> DEFINE o == [id |-> nextId, owner |-> p, sale |-> sale, amount |-> amount, price |-> price, created |-> clock]
           fee == K!Fee(price, amount)
           gold == price * amount
           due == IF sale THEN fee ELSE gold + fee
           wares == IF sale THEN amount ELSE 0
<1>1. fee \in Nat /\ gold \in Nat /\ amount \in Nat /\ amount > 0 /\ due \in Nat /\ wares \in Nat
  <2>1. price \in Nat /\ amount \in Nat /\ amount > 0 /\ price * amount \in Nat
    BY Bounds
  <2>2. fee \in Nat
    BY <2>1 DEF K!Fee
  <2> HIDE DEF fee
  <2> QED
    BY <2>1, <2>2
<1>2. o \in K!Offers /\ o.id = nextId /\ o.amount > 0 /\ GoldAt[o] = (IF sale THEN 0 ELSE gold)
      /\ WaresAt[o] = wares
  <2>1. nextId \in 1 .. LastId /\ clock \in 0 .. MaxTime
    BY Bounds DEF K!CreateOffer, MarketInv, Numbered
  <2>2. o \in K!Offers
    BY <1>1, <2>1 DEF K!Offers
  <2> QED
    BY <1>1, <2>2, Prized
<1> HIDE DEF o
<1>3. Numbered(offers \union {o}, history, nextId + 1) /\ o \notin offers
  BY <1>2, NumberedNew DEF MarketInv, Sold
<1>4. Sold(offers \union {o}) /\ Total(GoldAt, offers \union {o}) = GoldAt[o] + Total(GoldAt, offers)
      /\ Total(WaresAt, offers \union {o}) = WaresAt[o] + Total(WaresAt, offers)
  BY <1>2, <1>3, Offered DEF MarketInv
<1>5. due <= bank[p] /\ bank' = [bank EXCEPT ![p] = @ - due] /\ stock' = [stock EXCEPT ![p] = @ - wares]
      /\ (sale => stock[p] >= amount) /\ offers' = offers \union {o} /\ nextId' = nextId + 1
         /\ paid' = paid + fee
      /\ UNCHANGED <<inMarket, history, results, clock, stale>>
  BY DEF K!CreateOffer, K!HasItems, o
<1> HIDE DEF fee, gold
<1>6. bank' \in [Players -> Nat] /\ Total(bank', Players) = Total(bank, Players) - due
      /\ Total(bank, Players) \in Nat
  <2>1. due <= bank[p]
    BY <1>1, <1>5 DEF MarketInv
  <2> HIDE DEF due
  <2> DEFINE n == -due
  <2>2. n \in Int /\ bank \in [Players -> Nat] /\ bank[p] + n >= 0 /\ bank[p] - due = bank[p] + n
    BY <1>1, <2>1 DEF MarketInv
  <2>3. bank' = [bank EXCEPT ![p] = bank[p] + n]
    BY <1>5, <2>2
  <2> HIDE DEF n
  <2>4. bank' \in [Players -> Nat] /\ Total(bank', Players) = Total(bank, Players) + n
        /\ Total(bank, Players) \in Nat
    <3>1. Booking(bank, p, n, bank')
      BY <2>2, <2>3 DEF Booking
    <3> QED
      BY <3>1, Booked
  <2> QED
    BY <1>1, <2>4 DEF n
<1>7. stock' \in [Players -> Nat] /\ Total(stock', Players) = Total(stock, Players) - wares
      /\ Total(stock, Players) \in Nat
  <2>1. wares <= stock[p]
    BY <1>1, <1>5 DEF MarketInv
  <2> HIDE DEF wares
  <2> DEFINE n == -wares
  <2>2. n \in Int /\ stock \in [Players -> Nat] /\ stock[p] + n >= 0 /\ stock[p] - wares = stock[p] + n
    BY <1>1, <2>1 DEF MarketInv
  <2>3. stock' = [stock EXCEPT ![p] = stock[p] + n]
    BY <1>5, <2>2
  <2> HIDE DEF n
  <2>4. stock' \in [Players -> Nat] /\ Total(stock', Players) = Total(stock, Players) + n
        /\ Total(stock, Players) \in Nat
    <3>1. Booking(stock, p, n, stock')
      BY <2>2, <2>3 DEF Booking
    <3> QED
      BY <3>1, Booked
  <2> QED
    BY <1>1, <2>4 DEF n
<1>8. paid \in Nat /\ Total(GoldAt, offers) \in Nat /\ Total(WaresAt, offers) \in Nat
  BY Held DEF MarketInv
<1>9. Worth(bank', offers') + paid' = Worth(bank, offers) + paid
  <2>1. Worth(bank', offers') = (Total(bank, Players) - due) + ((IF sale THEN 0 ELSE gold) + Total(GoldAt, offers))
    BY <1>2, <1>4, <1>5, <1>6 DEF Worth
  <2> QED
    BY <1>1, <1>5, <1>6, <1>8, <2>1 DEF Worth
<1>10. Ware(stock', offers') = Ware(stock, offers)
  <2>1. Ware(stock', offers') = (Total(stock, Players) - wares) + (wares + Total(WaresAt, offers))
    BY <1>2, <1>4, <1>5, <1>7 DEF Ware
  <2> QED
    BY <1>1, <1>7, <1>8, <2>1 DEF Ware
<1>11. paid' \in Nat
  BY <1>1, <1>5, <1>8
<1> QED
  BY <1>3, <1>4, <1>5, <1>6, <1>7, <1>9, <1>10, <1>11 DEF MarketInv

(* One is cancelled: its owner gets back what it held.                     *)
LEMMA OfferCancelled ==
  ASSUME K!MarketAssumption, MarketInv, NEW p \in Players, NEW o \in offers, K!CancelOffer(p, o)
  PROVE  MarketInv'
<1>1. Sold(offers \ {o}) /\ o \in K!Offers
      /\ Total(GoldAt, offers) = GoldAt[o] + Total(GoldAt, offers \ {o})
      /\ Total(WaresAt, offers) = WaresAt[o] + Total(WaresAt, offers \ {o})
  BY Withdrawn DEF MarketInv
<1>2. GoldAt[o] \in Nat /\ WaresAt[o] \in Nat /\ GoldAt[o] = K!GoldOf(o) /\ WaresAt[o] = K!WaresOf(o)
  BY <1>1, Prized DEF GoldAt, WaresAt
<1>3. bank' = [bank EXCEPT ![p] = @ + GoldAt[o]] /\ stock' = [stock EXCEPT ![p] = @ + WaresAt[o]]
      /\ offers' = offers \ {o} /\ history' = history \union {<<o.id, "cancelled">>}
      /\ UNCHANGED <<inMarket, results, clock, nextId, paid, stale>>
  BY <1>2 DEF K!CancelOffer, K!MoveToHistory
<1>4. bank' \in [Players -> Nat] /\ Total(bank', Players) = Total(bank, Players) + GoldAt[o]
      /\ Total(bank, Players) \in Nat
      /\ stock' \in [Players -> Nat]
         /\ Total(stock', Players) = Total(stock, Players) + WaresAt[o] /\ Total(stock, Players) \in Nat
  <2> DEFINE gold == GoldAt[o]
             wares == WaresAt[o]
  <2>1. gold \in Int /\ wares \in Int /\ bank[p] + gold >= 0 /\ stock[p] + wares >= 0
        /\ bank \in [Players -> Nat] /\ stock \in [Players -> Nat]
    BY <1>2 DEF MarketInv
  <2>2. bank' = [bank EXCEPT ![p] = @ + gold] /\ stock' = [stock EXCEPT ![p] = @ + wares]
    BY <1>3
  <2> HIDE DEF gold, wares
  <2>3. bank' \in [Players -> Nat] /\ Total(bank', Players) = Total(bank, Players) + gold
        /\ Total(bank, Players) \in Nat
    <3>1. Booking(bank, p, gold, bank')
      BY <2>1, <2>2 DEF Booking
    <3> QED
      BY <3>1, Booked
  <2>4. stock' \in [Players -> Nat] /\ Total(stock', Players) = Total(stock, Players) + wares
        /\ Total(stock, Players) \in Nat
    <3>1. Booking(stock, p, wares, stock')
      BY <2>1, <2>2 DEF Booking
    <3> QED
      BY <3>1, Booked
  <2> QED
    BY <2>3, <2>4 DEF gold, wares
<1>5. Numbered(offers', history', nextId)
  BY <1>3, OfferEnds
<1>6. Total(GoldAt, offers \ {o}) \in Nat /\ Total(WaresAt, offers \ {o}) \in Nat /\ paid \in Nat
  BY <1>1, Held DEF MarketInv
<1>7. Worth(bank', offers') = Worth(bank, offers) /\ Ware(stock', offers') = Ware(stock, offers)
  BY <1>1, <1>2, <1>3, <1>4, <1>6 DEF Worth, Ware
<1> QED
  BY <1>1, <1>3, <1>4, <1>5, <1>7 DEF MarketInv

(* From one account to another, or to itself.                              *)
LEMMA Transferred ==
  ASSUME K!MarketAssumption, NEW f \in [Players -> Nat], NEW p \in Players, NEW q \in Players,
         NEW n \in Nat, n <= f[p]
  PROVE  K!Moved(f, p, q, n) \in [Players -> Nat]
         /\ Total(K!Moved(f, p, q, n), Players) = Total(f, Players)
<1> DEFINE m == -n
           g == [f EXCEPT ![p] = @ + m]
           h == K!Moved(f, p, q, n)
<1>1. m \in Int /\ f[p] + m >= 0
  OBVIOUS
<1>2. h = [[f EXCEPT ![p] = f[p] + m] EXCEPT ![q] = @ + n]
  BY DEF K!Moved
<1>3. h = [g EXCEPT ![q] = @ + n]
  BY <1>2
<1> HIDE DEF m, h
<1>4. g \in [Players -> Nat] /\ Total(g, Players) = Total(f, Players) + m /\ Total(f, Players) \in Nat
  <2>1. Booking(f, p, m, g)
    BY <1>1 DEF Booking
  <2> HIDE DEF g
  <2> QED
    BY <2>1, Booked
<1> HIDE DEF g
<1>5. h \in [Players -> Nat] /\ Total(h, Players) = Total(g, Players) + n
  <2>1. n \in Int /\ g[q] + n >= 0
    BY <1>4
  <2> QED
    <3>1. Booking(g, q, n, h)
      BY <1>3, <1>4, <2>1 DEF Booking
    <3> QED
      BY <3>1, Booked
<1> QED
  BY <1>4, <1>5 DEF m, h

(* What is left of an offer holds what it held but for what was accepted.  *)
LEMMA Settled ==
  ASSUME K!MarketAssumption, MarketInv, NEW o \in offers,
         NEW amount \in Amounts, amount <= o.amount, K!Settle(o, amount)
  PROVE  /\ Sold(offers') /\ Numbered(offers', history', nextId) /\ o \in K!Offers
         /\ Total(GoldAt, offers) = Total(GoldAt, offers') + (IF o.sale THEN 0 ELSE o.price * amount)
         /\ Total(WaresAt, offers) = Total(WaresAt, offers') + (IF o.sale THEN amount ELSE 0)
<1>1. Sold(offers \ {o}) /\ o \in K!Offers
      /\ Total(GoldAt, offers) = GoldAt[o] + Total(GoldAt, offers \ {o})
      /\ Total(WaresAt, offers) = WaresAt[o] + Total(WaresAt, offers \ {o})
  BY Withdrawn DEF MarketInv
<1>2. /\ o.amount \in Nat /\ o.price \in Nat /\ o.price * o.amount \in Nat
      /\ GoldAt[o] = IF o.sale THEN 0 ELSE o.price * o.amount
      /\ WaresAt[o] = IF o.sale THEN o.amount ELSE 0
      /\ amount \in Nat /\ amount > 0 /\ o.price * amount \in Nat
  <2>1. amount \in Nat /\ amount > 0
    BY Bounds
  <2>2. o.amount \in Nat /\ o.price \in Nat
    BY <1>1, Prized
  <2>3. o.price * amount \in Nat
    BY <2>1, <2>2
  <2> QED
    BY <1>1, <2>1, <2>3, Prized
<1>3. Total(GoldAt, offers \ {o}) \in Nat /\ Total(WaresAt, offers \ {o}) \in Nat
  BY <1>1, Held
<1>4. CASE amount = o.amount
  <2>1. offers' = offers \ {o} /\ history' = history \union {<<o.id, "accepted">>}
    BY <1>4 DEF K!Settle
  <2>3. Numbered(offers', history', nextId)
    BY <2>1, OfferEnds
  <2> QED
    BY <1>1, <1>2, <1>3, <1>4, <2>1, <2>3
<1>5. CASE amount # o.amount
  <2> DEFINE r == [o EXCEPT !.amount = @ - amount]
  <2>1. offers' = (offers \ {o}) \union {r} /\ history' = history
    BY <1>5 DEF K!Settle
  <2>2. r \in K!Offers /\ r.amount > 0 /\ r.id = o.id /\ r.amount = o.amount - amount
        /\ r.price = o.price /\ r.sale = o.sale
    BY <1>1, <1>2, <1>5 DEF K!Offers
  <2> HIDE DEF r
  <2>3. Numbered(offers', history', nextId) /\ r \notin offers \ {o}
    BY <2>1, <2>2, NumberedLess DEF MarketInv
  <2>4. Sold(offers') /\ Total(GoldAt, offers') = GoldAt[r] + Total(GoldAt, offers \ {o})
        /\ Total(WaresAt, offers') = WaresAt[r] + Total(WaresAt, offers \ {o})
    BY <1>1, <2>1, <2>2, <2>3, Offered
  <2>5. o.price * (o.amount - amount) = o.price * o.amount - o.price * amount
    BY <1>2
  <2>6. GoldAt[r] = (IF o.sale THEN 0 ELSE o.price * o.amount - o.price * amount)
        /\ WaresAt[r] = (IF o.sale THEN o.amount - amount ELSE 0)
    BY <2>2, <2>5, Prized
  <2> QED
    BY <1>1, <1>2, <1>3, <2>3, <2>4, <2>6
<1> QED
  BY <1>4, <1>5

(* One is accepted, whole or in part.                                      *)
LEMMA OfferAccepted ==
  ASSUME K!MarketAssumption, MarketInv, NEW p \in Players, NEW o \in offers,
         NEW amount \in Amounts, K!AcceptOffer(p, o, amount)
  PROVE  MarketInv'
<1> DEFINE gold == o.price * amount
<1>1. amount <= o.amount /\ K!Settle(o, amount)
      /\ UNCHANGED <<inMarket, results, clock, nextId, paid, stale>>
  BY DEF K!AcceptOffer
<1>2. /\ Sold(offers') /\ Numbered(offers', history', nextId) /\ o \in K!Offers
      /\ Total(GoldAt, offers) = Total(GoldAt, offers') + (IF o.sale THEN 0 ELSE gold)
      /\ Total(WaresAt, offers) = Total(WaresAt, offers') + (IF o.sale THEN amount ELSE 0)
  BY <1>1, Settled
<1>3. amount \in Nat /\ gold \in Nat /\ o.owner \in Players /\ o.sale \in BOOLEAN
  <2>1. amount \in Nat /\ o.price \in Nat
    BY <1>2, Bounds, Prized
  <2> QED
    BY <1>2, <2>1, Prized
<1>4. Total(GoldAt, offers') \in Nat /\ Total(WaresAt, offers') \in Nat
  BY <1>2, Held
<1>5. bank \in [Players -> Nat] /\ stock \in [Players -> Nat]
  BY DEF MarketInv
<1>6. /\ bank' \in [Players -> Nat] /\ stock' \in [Players -> Nat]
      /\ Total(bank', Players) = Total(bank, Players) + (IF o.sale THEN 0 ELSE gold)
      /\ Total(stock', Players) = Total(stock, Players) + (IF o.sale THEN amount ELSE 0)
      /\ Total(bank, Players) \in Nat /\ Total(stock, Players) \in Nat
  <2>0. Total(bank, Players) \in Nat /\ Total(stock, Players) \in Nat
    BY <1>5, Bounds, TotalNat DEF Natural
  <2>1. CASE K!AcceptBuy(p, o, amount)
    <3>1. ~o.sale /\ amount <= stock[p] /\ stock' = K!Moved(stock, p, o.owner, amount)
          /\ bank' = [bank EXCEPT ![p] = @ + gold]
      BY <1>3, <1>5, <2>1 DEF K!AcceptBuy, K!HasItems
    <3> HIDE DEF gold
    <3>2. stock' \in [Players -> Nat] /\ Total(stock', Players) = Total(stock, Players)
      BY <1>3, <1>5, <3>1, Transferred
    <3>3. gold \in Int /\ bank[p] + gold >= 0
      BY <1>3, <1>5
    <3>4. bank' \in [Players -> Nat] /\ Total(bank', Players) = Total(bank, Players) + gold
      <4>1. Booking(bank, p, gold, bank')
        BY <1>5, <3>1, <3>3 DEF Booking
      <4> QED
        BY <4>1, Booked
    <3> QED
      BY <2>0, <3>1, <3>2, <3>4
  <2>2. CASE K!AcceptSell(p, o, amount)
    <3>1. o.sale /\ gold <= bank[p] /\ bank' = K!Moved(bank, p, o.owner, gold)
          /\ stock' = [stock EXCEPT ![p] = @ + amount]
      BY <2>2 DEF K!AcceptSell
    <3> HIDE DEF gold
    <3>2. bank' \in [Players -> Nat] /\ Total(bank', Players) = Total(bank, Players)
      BY <1>3, <1>5, <3>1, Transferred
    <3>3. amount \in Int /\ stock[p] + amount >= 0
      BY <1>3, <1>5
    <3>4. stock' \in [Players -> Nat] /\ Total(stock', Players) = Total(stock, Players) + amount
      <4>1. Booking(stock, p, amount, stock')
        BY <1>5, <3>1, <3>3 DEF Booking
      <4> QED
        BY <4>1, Booked
    <3> QED
      BY <2>0, <3>1, <3>2, <3>4
  <2> QED
    BY <2>1, <2>2 DEF K!AcceptOffer
<1> HIDE DEF gold
<1>7. Worth(bank', offers') = Worth(bank, offers) /\ Ware(stock', offers') = Ware(stock, offers)
  BY <1>2, <1>3, <1>4, <1>6 DEF Worth, Ware
<1> QED
  BY <1>1, <1>2, <1>6, <1>7 DEF MarketInv

(* Expired offers go back to their owners, each amount to one of them.     *)
Restored(f, M, held, g) == g = [p \in Players |-> f[p] + Total(held, {r \in M : r.owner = p})]

(* What each gets adds up to what the rows hold.                           *)
LEMMA GivenBack ==
  ASSUME K!MarketAssumption, NEW f \in [Players -> Nat], NEW M, Sold(M), NEW held, Natural(held, M),
         NEW g, Restored(f, M, held, g)
  PROVE  g \in [Players -> Nat] /\ Total(g, Players) = Total(f, Players) + Total(held, M)
<1> DEFINE back == [p \in Players |-> Total(held, {r \in M : r.owner = p})]
<1>1. IsFiniteSet(M) /\ IsFiniteSet(Players) /\ \A r \in M : r.owner \in Players
  BY Bounds, Prized DEF Sold
<1>2. ASSUME NEW p \in Players PROVE Total(held, {r \in M : r.owner = p}) \in Nat
  <2> DEFINE mine == {r \in M : r.owner = p}
  <2>1. IsFiniteSet(mine) /\ Natural(held, mine)
    BY <1>1, FS_Subset DEF Natural
  <2> HIDE DEF mine
  <2>2. Total(held, mine) \in Nat
    BY <2>1, TotalNat
  <2> QED
    BY <2>2 DEF mine
<1>3. Natural(back, Players) /\ Natural(f, Players)
  BY <1>2 DEF Natural
<1>4. Total(back, Players) = Total(held, M)
  BY <1>1, TotalByOwner
<1>5. g \in [Players -> Nat] /\ \A p \in Players : g[p] = f[p] + back[p]
  BY <1>2 DEF Restored
<1> HIDE DEF back
<1>6. Total(g, Players) = Total(f, Players) + Total(back, Players)
  BY <1>1, <1>3, <1>5, TotalPlus
<1> QED
  BY <1>4, <1>5, <1>6

(* The rows of one owner hold as much in the market's terms.               *)
LEMMA RowsGold ==
  ASSUME K!MarketAssumption, NEW M, Sold(M), NEW p
  PROVE  /\ K!Total(K!Gold(M), {r \in M : r.owner = p}) = Total(GoldAt, {r \in M : r.owner = p})
         /\ K!Total(K!Wares(M), {r \in M : r.owner = p}) = Total(WaresAt, {r \in M : r.owner = p})
<1> DEFINE mine == {r \in M : r.owner = p}
<1>1. IsFiniteSet(mine) /\ mine \in SUBSET M
  BY FS_Subset DEF Sold
<1>2. \A o \in M : K!Gold(M)[o] = GoldAt[o] /\ K!Wares(M)[o] = WaresAt[o]
  BY DEF K!Gold, K!Wares, GoldAt, WaresAt, Sold
<1> HIDE DEF mine
<1>3. Total(K!Gold(M), mine) = Total(GoldAt, mine) /\ Total(K!Wares(M), mine) = Total(WaresAt, mine)
  BY <1>1, <1>2, TotalSame
<1> QED
  BY <1>3, TotalSameMeaning DEF mine

(* Rows that are no offers any more, or other than they were, are what     *)
(* makes the market stale; otherwise all is as before.                     *)
LEMMA OffersExpired ==
  ASSUME K!MarketAssumption, MarketInv, NEW rows \in results, K!ProcessExpiredOffers(rows)
  PROVE  MarketInv'
<1> DEFINE moved == K!StillThere(rows)
           ids == {r.id : r \in moved}
           gone == {o \in offers : o.id \in ids}
<1>1. Sold(rows) /\ Sold(offers) /\ Numbered(offers, history, nextId)
  BY DEF MarketInv
<1>2. Sold(moved) /\ moved \subseteq rows /\ \A r \in moved : \E o \in offers : o.id = r.id
  BY <1>1, FS_Subset DEF Sold, K!StillThere
<1>3. /\ results' = results \ {rows}
      /\ bank' = [p \in Players |-> bank[p] + K!Total(K!Gold(moved), {r \in moved : r.owner = p})]
      /\ stock' = [p \in Players |-> stock[p] + K!Total(K!Wares(moved), {r \in moved : r.owner = p})]
      /\ offers' = {o \in offers : o.id \notin ids}
      /\ history' = history \union {<<i, "expired">> : i \in ids}
      /\ stale' = (stale \/ \E r \in moved : r \notin offers)
      /\ UNCHANGED <<inMarket, clock, nextId, paid>>
  BY DEF K!ProcessExpiredOffers
<1> HIDE DEF moved
<1>4. Restored(bank, moved, GoldAt, bank') /\ Restored(stock, moved, WaresAt, stock')
  <2> DEFINE A(p) == K!Total(K!Gold(moved), {r \in moved : r.owner = p})
             B(p) == Total(GoldAt, {r \in moved : r.owner = p})
             C(p) == K!Total(K!Wares(moved), {r \in moved : r.owner = p})
             D(p) == Total(WaresAt, {r \in moved : r.owner = p})
  <2>1. ASSUME NEW p PROVE A(p) = B(p) /\ C(p) = D(p)
    BY <1>2, RowsGold
  <2>2. bank' = [p \in Players |-> bank[p] + A(p)] /\ stock' = [p \in Players |-> stock[p] + C(p)]
    BY <1>3
  <2> HIDE DEF A, B, C, D
  <2>3. bank' = [p \in Players |-> bank[p] + B(p)] /\ stock' = [p \in Players |-> stock[p] + D(p)]
    BY <2>1, <2>2
  <2> QED
    BY <2>3 DEF Restored, B, D
<1>5. Natural(GoldAt, moved) /\ Natural(WaresAt, moved) /\ bank \in [Players -> Nat]
      /\ stock \in [Players -> Nat]
  BY <1>2, AllNatural DEF Sold, MarketInv
<1>6. /\ bank' \in [Players -> Nat]
         /\ Total(bank', Players) = Total(bank, Players) + Total(GoldAt, moved)
      /\ stock' \in [Players -> Nat]
         /\ Total(stock', Players) = Total(stock, Players) + Total(WaresAt, moved)
  BY <1>2, <1>4, <1>5, GivenBack
<1>7. offers' = offers \ gone /\ gone \in SUBSET offers
  BY <1>3
<1>8. history' = history \union {<<o.id, "expired">> : o \in gone}
  <2>1. ids = {o.id : o \in gone}
    BY <1>2
  <2> HIDE DEF ids, gone
  <2>2. {<<i, "expired">> : i \in {o.id : o \in gone}} = {<<o.id, "expired">> : o \in gone}
    OBVIOUS
  <2> QED
    BY <1>3, <2>1, <2>2
<1> DEFINE state == "expired"
<1>9. history' = history \union {<<o.id, state>> : o \in gone}
  BY <1>8
<1> HIDE DEF gone, state
<1>10. Numbered(offers', history', nextId)
  <2>1. offers \in SUBSET K!Offers
    BY <1>1 DEF Sold
  <2>2. Numbered(offers \ gone, history \union {<<o.id, state>> : o \in gone}, nextId)
    BY <1>1, <1>7, <2>1, NumberedEnd
  <2> QED
    BY <1>7, <1>9, <2>2
<1>11. Sold(offers')
  BY <1>1, <1>7, FS_Subset DEF Sold
<1>12. ASSUME ~stale'
       PROVE  ~stale /\ Worth(bank', offers') = Worth(bank, offers)
              /\ Ware(stock', offers') = Ware(stock, offers)
  <2>1. ~stale /\ \A r \in moved : r \in offers
    BY <1>3, <1>12
  <2>2. gone = moved
    BY <1>1, <2>1 DEF Numbered, gone
  <2>3. Natural(GoldAt, offers) /\ Natural(WaresAt, offers) /\ IsFiniteSet(offers)
    BY <1>1, AllNatural DEF Sold
  <2>4. Total(GoldAt, offers) = Total(GoldAt, moved) + Total(GoldAt, offers')
        /\ Total(WaresAt, offers) = Total(WaresAt, moved) + Total(WaresAt, offers')
    BY <1>7, <2>2, <2>3, TotalApart
  <2>5. Total(bank, Players) \in Nat /\ Total(stock, Players) \in Nat
    BY <1>5, Bounds, TotalNat DEF Natural
  <2>6. Total(GoldAt, moved) \in Nat /\ Total(GoldAt, offers') \in Nat
        /\ Total(WaresAt, moved) \in Nat /\ Total(WaresAt, offers') \in Nat
    BY <1>2, <1>11, Held
  <2> QED
    BY <1>6, <2>1, <2>4, <2>5, <2>6 DEF Worth, Ware
<1>13. stale' \in BOOLEAN /\ \A r \in results' : Sold(r)
  BY <1>3 DEF MarketInv
<1> QED
  BY <1>3, <1>6, <1>10, <1>11, <1>12, <1>13 DEF MarketInv

(* A query answers with offers, of some time.                              *)
LEMMA QueryRun ==
  ASSUME K!MarketAssumption, MarketInv, NEW date, K!RunQuery(date)
  PROVE  MarketInv'
<1> DEFINE expired == {o \in offers : o.created <= date}
<1>1. Sold(expired)
  BY FS_Subset DEF MarketInv, Sold
<1>2. results' \subseteq results \union {expired}
      /\ UNCHANGED <<bank, stock, inMarket, offers, history, clock, nextId, paid, stale>>
  BY DEF K!RunQuery
<1> HIDE DEF expired
<1> QED
  BY <1>1, <1>2 DEF MarketInv

(* What the other steps leave as it is.                                    *)
LEMMA MarketKept ==
  ASSUME MarketInv, inMarket' \in SUBSET Players, clock' \in 0 .. MaxTime,
         UNCHANGED <<bank, stock, offers, history, results, nextId, paid, stale>>
  PROVE  MarketInv'
BY DEF MarketInv

(* At first nothing is offered.                                            *)
LEMMA MarketStart == K!MarketAssumption /\ K!Init => MarketInv
<1> SUFFICES ASSUME K!MarketAssumption, K!Init PROVE MarketInv
  OBVIOUS
<1>1. /\ bank = [p \in Players |-> Wealth] /\ stock = [p \in Players |-> Goods] /\ inMarket = {}
         /\ offers = {}
      /\ history = {} /\ results = {} /\ clock = 0 /\ nextId = 1 /\ paid = 0 /\ stale = FALSE
  BY DEF K!Init
<1>2. Wealth \in Nat /\ Goods \in Nat /\ MaxTime \in Nat /\ IsFiniteSet(Players)
  BY Bounds
<1>3. Total(bank, Players) = Wealth * Cardinality(Players)
      /\ Total(stock, Players) = Goods * Cardinality(Players)
  <2>1. (\A p \in Players : bank[p] = Wealth) /\ (\A p \in Players : stock[p] = Goods)
    BY <1>1
  <2> QED
    BY <1>2, <2>1, TotalConstant
<1>4. Total(GoldAt, {}) = 0 /\ Total(WaresAt, {}) = 0
  BY TotalEmpty
<1>5. Wealth * Cardinality(Players) \in Nat /\ Goods * Cardinality(Players) \in Nat
  BY <1>2, FS_CardinalityType
<1>6. Worth(bank, offers) + paid = Wealth * Cardinality(Players)
      /\ Ware(stock, offers) = Goods * Cardinality(Players)
  BY <1>1, <1>3, <1>4, <1>5 DEF Worth, Ware
<1>7. Sold(offers) /\ Numbered(offers, history, nextId)
  BY <1>1, FS_EmptySet DEF Sold, Numbered
<1>8. bank \in [Players -> Nat] /\ stock \in [Players -> Nat] /\ inMarket \in SUBSET Players
      /\ paid \in Nat /\ clock \in 0 .. MaxTime /\ stale \in BOOLEAN /\ \A rows \in results : Sold(rows)
  <2>1. bank \in [Players -> Nat] /\ stock \in [Players -> Nat] /\ paid \in Nat
        /\ clock \in 0 .. MaxTime
    BY <1>1, <1>2
  <2>2. stale \in BOOLEAN
    BY <1>1, Zenon
  <2>3. inMarket \in SUBSET Players /\ results = {}
    BY <1>1
  <2> QED
    BY <2>1, <2>2, <2>3
<1> QED
  BY <1>6, <1>7, <1>8 DEF MarketInv

(* No step disturbs it.                                                    *)
LEMMA MarketNext == K!MarketAssumption /\ MarketInv /\ [K!Next]_(K!vars) => MarketInv'
<1> SUFFICES ASSUME K!MarketAssumption, MarketInv, [K!Next]_(K!vars) PROVE MarketInv'
  OBVIOUS
<1>1. inMarket \in SUBSET Players /\ clock \in 0 .. MaxTime /\ MaxTime \in Nat
  BY Bounds DEF MarketInv
<1>2. CASE UNCHANGED K!vars
  BY <1>1, <1>2, MarketKept DEF K!vars
<1>3. ASSUME NEW p \in Players, K!EnterMarket(p) \/ K!LeaveMarket(p) PROVE MarketInv'
  BY <1>1, <1>3, MarketKept DEF K!EnterMarket, K!LeaveMarket
<1>4. CASE K!CheckExpiredOffers
  BY <1>1, <1>4, MarketKept DEF K!CheckExpiredOffers
<1>5. CASE K!Tick
  BY <1>1, <1>5, MarketKept DEF K!Tick
<1> QED
  BY <1>2, <1>3, <1>4, <1>5, OfferCreated, OfferCancelled, OfferAccepted, QueryRun, OffersExpired DEF K!Next

(* With any number of players and offers, gold and wares are only moved,   *)
(* but for an expiry that pays back a row which has changed since, and an  *)
(* offer ends once (game.cpp 5074-5409, iomarket.cpp 119-196).             *)
THEOREM MarketAlwaysSound ==
  ASSUME K!MarketAssumption
  PROVE  K!Spec => [](K!TypeOK /\ K!Conserved /\ K!EndsOnce)
<1>1. K!Init => MarketInv
  BY MarketStart
<1>2. MarketInv /\ [K!Next]_(K!vars) => MarketInv'
  BY MarketNext
<1>3. MarketInv => K!Conserved
  <2> SUFFICES ASSUME MarketInv PROVE K!Conserved
    OBVIOUS
  <2>1. K!Total(K!Gold(offers), offers) = Total(GoldAt, offers)
        /\ K!Total(K!Wares(offers), offers) = Total(WaresAt, offers)
        /\ K!Total(bank, Players) = Total(bank, Players)
           /\ K!Total(stock, Players) = Total(stock, Players)
    BY Held, TotalSameMeaning DEF MarketInv
  <2>2. K!Cardinality(Players) = Cardinality(Players)
    BY DEF K!Cardinality, Cardinality
  <2> QED
    BY <2>1, <2>2 DEF MarketInv, K!Conserved, Worth, Ware
<1>4. MarketInv => K!EndsOnce
  BY DEF MarketInv, Numbered, K!EndsOnce
<1>5. MarketInv => K!TypeOK
  BY DEF MarketInv, Sold, K!TypeOK
<1> QED
  BY <1>1, <1>2, <1>3, <1>4, <1>5, PTL DEF K!Spec
=============================================================================
