--------------------------- MODULE CreaturesProofs ---------------------------
(* References, pursuits and the sleep of creatures, for any number of them *)
(* on any cells: the part of MCWorld that is about Creatures.  An operator *)
(* of Creatures maps a record of all creatures to another; Sound says of   *)
(* such a record what holds with the exceptions it names, and each operator*)
(* has a lemma of what it changes and one of the exceptions it removes.    *)
EXTENDS Creatures, FiniteSetTheorems, WellFoundedInduction, TLAPS

-----------------------------------------------------------------------------
(* What a creature is.                                                     *)
Lives == {"unborn", "placed", "removed", "deleted"}

Beings ==
  [life : Lives, slain : BOOLEAN, pos : Int, master : Creatures \union {Nobody},
   attacked : Creatures \union {Nobody}, follow : Creatures \union {Nobody},
   targets : SUBSET Creatures, friends : SUBSET Creatures, condition : BOOLEAN,
   check : BOOLEAN, listed : BOOLEAN, released : Nat, refs : Int]

State == [Creatures -> Beings]

SameBody(a, b) ==
  /\ a.life = b.life /\ a.slain = b.slain /\ a.pos = b.pos
  /\ a.condition = b.condition /\ a.released = b.released
SameAims(a, b) == a.attacked = b.attacked /\ a.follow = b.follow
SameLists(a, b) == a.targets = b.targets /\ a.friends = b.friends
SameChecks(a, b) == a.check = b.check /\ a.listed = b.listed

(* All but the references.                                                 *)
Alike(a, b) ==
  SameBody(a, b) /\ SameAims(a, b) /\ SameLists(a, b) /\ SameChecks(a, b) /\ a.master = b.master

LEMMA Fields ==
  ASSUME NEW v \in State, NEW c \in Creatures
  PROVE  /\ v[c] \in Beings /\ v[c].life \in Lives /\ v[c].slain \in BOOLEAN /\ v[c].pos \in Int
         /\ v[c].master \in Creatures \union {Nobody} /\ v[c].attacked \in Creatures \union {Nobody}
         /\ v[c].follow \in Creatures \union {Nobody} /\ v[c].targets \in SUBSET Creatures
         /\ v[c].friends \in SUBSET Creatures /\ v[c].condition \in BOOLEAN /\ v[c].check \in BOOLEAN
         /\ v[c].listed \in BOOLEAN /\ v[c].released \in Nat /\ v[c].refs \in Int
BY DEF State, Beings

(* References that are added, and nothing else.                            *)
LEMMA AddRefsIs ==
  ASSUME NEW v \in State, NEW S, NEW n \in Int
  PROVE  /\ AddRefs(v, S, n) \in State
         /\ \A c \in Creatures :
              /\ Alike(v[c], AddRefs(v, S, n)[c])
              /\ AddRefs(v, S, n)[c].refs = v[c].refs + IF c \in S THEN n ELSE 0
BY DEF AddRefs, State, Beings, Alike, SameBody, SameAims, SameLists, SameChecks

-----------------------------------------------------------------------------
(* How many pointers there are to a creature.                              *)
Bit(b) == IF b THEN 1 ELSE 0
InTargetsOf(v, c) == {m \in Creatures : c \in v[m].targets}
InFriendsOf(v, c) == {m \in Creatures : c \in v[m].friends}

Held(v, c) ==
  Bit(Placed(v, c)) + Bit(v[c].listed) + Bit(v[c].master # Nobody) + v[c].released
  + Cardinality(InTargetsOf(v, c)) + Cardinality(InFriendsOf(v, c))

Exact(v) == \A c \in Creatures : v[c].refs = Held(v, c)

LEMMA CountChange ==
  ASSUME IsFiniteSet(Creatures), NEW S \in SUBSET Creatures, NEW T \in SUBSET Creatures,
         NEW m \in Creatures, \A e \in Creatures \ {m} : e \in S <=> e \in T
  PROVE  /\ Cardinality(S) \in Nat /\ Cardinality(T) \in Nat
         /\ Cardinality(T) = Cardinality(S) + (Bit(m \in T) - Bit(m \in S))
<1>1. IsFiniteSet(S) /\ IsFiniteSet(T) /\ IsFiniteSet(S \ {m})
      /\ Cardinality(S) \in Nat /\ Cardinality(T) \in Nat /\ Cardinality(S \ {m}) \in Nat
  BY FS_Subset, FS_CardinalityType
<1>2. Cardinality(S \ {m}) = IF m \in S THEN Cardinality(S) - 1 ELSE Cardinality(S)
  BY <1>1, FS_RemoveElement
<1>3. Cardinality(T \ {m}) = IF m \in T THEN Cardinality(T) - 1 ELSE Cardinality(T)
  BY <1>1, FS_RemoveElement
<1>4. T \ {m} = S \ {m}
  OBVIOUS
<1> QED
  BY <1>1, <1>2, <1>3, <1>4 DEF Bit

(* The references change as the pointers do, if one monster's lists change.*)
Balanced(v, w, m) ==
  \A c \in Creatures :
    w[c].refs = v[c].refs + (Bit(c \in w[m].targets) - Bit(c \in v[m].targets))
                + (Bit(c \in w[m].friends) - Bit(c \in v[m].friends))
                + (Bit(w[c].listed) - Bit(v[c].listed))
                + (Bit(w[c].master # Nobody) - Bit(v[c].master # Nobody))
                + (Bit(Placed(w, c)) - Bit(Placed(v, c))) + (w[c].released - v[c].released)

LEMMA ExactKept ==
  ASSUME IsFiniteSet(Creatures), NEW v \in State, NEW w \in State, NEW m \in Creatures, Exact(v),
         \A e \in Creatures \ {m} : SameLists(v[e], w[e]), Balanced(v, w, m)
  PROVE  Exact(w)
<1> SUFFICES ASSUME NEW c \in Creatures PROVE w[c].refs = Held(w, c)
  BY DEF Exact
<1>1. /\ Cardinality(InTargetsOf(v, c)) \in Nat /\ Cardinality(InTargetsOf(w, c)) \in Nat
      /\ Cardinality(InTargetsOf(w, c)) = Cardinality(InTargetsOf(v, c))
           + (Bit(m \in InTargetsOf(w, c)) - Bit(m \in InTargetsOf(v, c)))
  <2>1. InTargetsOf(v, c) \in SUBSET Creatures /\ InTargetsOf(w, c) \in SUBSET Creatures
        /\ \A e \in Creatures \ {m} : e \in InTargetsOf(v, c) <=> e \in InTargetsOf(w, c)
    BY DEF InTargetsOf, SameLists
  <2> QED
    BY <2>1, CountChange
<1>2. /\ Cardinality(InFriendsOf(v, c)) \in Nat /\ Cardinality(InFriendsOf(w, c)) \in Nat
      /\ Cardinality(InFriendsOf(w, c)) = Cardinality(InFriendsOf(v, c))
           + (Bit(m \in InFriendsOf(w, c)) - Bit(m \in InFriendsOf(v, c)))
  <2>1. InFriendsOf(v, c) \in SUBSET Creatures /\ InFriendsOf(w, c) \in SUBSET Creatures
        /\ \A e \in Creatures \ {m} : e \in InFriendsOf(v, c) <=> e \in InFriendsOf(w, c)
    BY DEF InFriendsOf, SameLists
  <2> QED
    BY <2>1, CountChange
<1>3. /\ m \in InTargetsOf(v, c) <=> c \in v[m].targets
      /\ m \in InTargetsOf(w, c) <=> c \in w[m].targets
      /\ m \in InFriendsOf(v, c) <=> c \in v[m].friends
      /\ m \in InFriendsOf(w, c) <=> c \in w[m].friends
  BY DEF InTargetsOf, InFriendsOf
<1>4. /\ Bit(m \in InTargetsOf(v, c)) = Bit(c \in v[m].targets)
      /\ Bit(m \in InTargetsOf(w, c)) = Bit(c \in w[m].targets)
      /\ Bit(m \in InFriendsOf(v, c)) = Bit(c \in v[m].friends)
      /\ Bit(m \in InFriendsOf(w, c)) = Bit(c \in w[m].friends)
  BY <1>3 DEF Bit
<1>5. v[c].refs = Held(v, c)
  BY DEF Exact
<1>6. v[c].refs \in Int /\ w[c].refs \in Int /\ v[c].released \in Nat /\ w[c].released \in Nat
  BY Fields
<1>7. w[c].refs = v[c].refs + (Bit(c \in w[m].targets) - Bit(c \in v[m].targets))
                + (Bit(c \in w[m].friends) - Bit(c \in v[m].friends))
                + (Bit(w[c].listed) - Bit(v[c].listed))
                + (Bit(w[c].master # Nobody) - Bit(v[c].master # Nobody))
                + (Bit(Placed(w, c)) - Bit(Placed(v, c))) + (w[c].released - v[c].released)
  BY DEF Balanced
<1> DEFINE A == Bit(c \in v[m].targets)  B == Bit(c \in w[m].targets)
           D == Bit(c \in v[m].friends)  E == Bit(c \in w[m].friends)
           L == Bit(v[c].listed)  N == Bit(w[c].listed)
           P == Bit(v[c].master # Nobody)  Q == Bit(w[c].master # Nobody)
           X == Bit(Placed(v, c))  Y == Bit(Placed(w, c))
<1>8. A \in Int /\ B \in Int /\ D \in Int /\ E \in Int /\ L \in Int /\ N \in Int
      /\ P \in Int /\ Q \in Int /\ X \in Int /\ Y \in Int
  BY DEF Bit
<1>9. /\ Cardinality(InTargetsOf(w, c)) = Cardinality(InTargetsOf(v, c)) + (B - A)
      /\ Cardinality(InFriendsOf(w, c)) = Cardinality(InFriendsOf(v, c)) + (E - D)
      /\ w[c].refs = v[c].refs + (B - A) + (E - D) + (N - L) + (Q - P) + (Y - X)
                     + (w[c].released - v[c].released)
      /\ v[c].refs = X + L + P + v[c].released
                     + Cardinality(InTargetsOf(v, c)) + Cardinality(InFriendsOf(v, c))
  BY <1>1, <1>2, <1>4, <1>5, <1>7 DEF Held
<1> HIDE DEF A, B, D, E, L, N, P, Q, X, Y
<1>10. w[c].refs = Y + N + Q + w[c].released
                     + Cardinality(InTargetsOf(w, c)) + Cardinality(InFriendsOf(w, c))
  BY <1>1, <1>2, <1>6, <1>8, <1>9
<1> QED
  BY <1>10 DEF Held, N, Q, Y

-----------------------------------------------------------------------------
(* Folds.  Those who hear of something do so one after the other; what     *)
(* holds before, and after each of them if it held before him, holds after *)
(* all of them: else it would fail for some least part of them.            *)

(* Who is the last of a set.                                               *)
Pick(S) == CHOOSE x \in S : TRUE

(* A set of numbers has a least one.                                       *)
LEMMA Least ==
  ASSUME NEW S \in SUBSET Nat, S # {}
  PROVE  \E x \in S : \A y \in S : x <= y
<1>1. IsWellFoundedOn(OpToRel(<,Nat), Nat)
  BY NatLessThanWellFounded
<1>2. PICK x \in S : \A y \in S : ~(<<y, x>> \in OpToRel(<,Nat))
  BY <1>1, WFMin
<1>3. \A y \in S : ~(y < x)
  BY <1>2 DEF OpToRel
<1> QED
  BY <1>3

(* Of some finite sets there is one that none of the others is part of.    *)
LEMMA LeastSet ==
  ASSUME NEW S, IsFiniteSet(S), NEW B \in SUBSET (SUBSET S), B # {}
  PROVE  \E s \in B : \A u \in SUBSET s : u # s => u \notin B
<1>1. ASSUME NEW s \in B PROVE IsFiniteSet(s) /\ Cardinality(s) \in Nat
  BY FS_Subset, FS_CardinalityType
<1> DEFINE N == {Cardinality(s) : s \in B}
<1>2. N \in SUBSET Nat /\ N # {}
  BY <1>1
<1>3. PICK n \in N : \A k \in N : n <= k
  BY <1>2, Least
<1>4. PICK s \in B : n = Cardinality(s)
  OBVIOUS
<1>5. ASSUME NEW u \in SUBSET s, u # s, u \in B PROVE FALSE
  <2>1. Cardinality(u) < Cardinality(s)
    BY <1>1, <1>5, FS_Subset
  <2>2. Cardinality(s) <= Cardinality(u) /\ Cardinality(u) \in Nat /\ Cardinality(s) \in Nat
    BY <1>1, <1>3, <1>4, <1>5
  <2> QED
    BY <2>1, <2>2
<1> QED
  BY <1>5

LEMMA PickIn == ASSUME NEW S, S # {} PROVE Pick(S) \in S
BY DEF Pick

LEMMA OneByOne ==
  ASSUME NEW S, IsFiniteSet(S), NEW Q, {} \in Q,
         \A s \in SUBSET S : s # {} /\ s \ {Pick(s)} \in Q => s \in Q
  PROVE  \A s \in SUBSET S : s \in Q
<1> DEFINE B == {s \in SUBSET S : s \notin Q}
<1> SUFFICES ASSUME B # {} PROVE FALSE
  OBVIOUS
<1>1. B \in SUBSET (SUBSET S)
  OBVIOUS
<1> HIDE DEF B
<1>2. PICK s \in B : \A u \in SUBSET s : u # s => u \notin B
  BY <1>1, LeastSet
<1>3. s \in SUBSET S /\ s \notin Q
  BY DEF B
<1>4. s # {}
  BY <1>3
<1>5. Pick(s) \in s
  BY <1>4, PickIn
<1>6. s \ {Pick(s)} \in SUBSET S /\ s \ {Pick(s)} \notin B
  BY <1>2, <1>3, <1>5
<1>7. s \ {Pick(s)} \in Q
  BY <1>6 DEF B
<1> QED
  BY <1>3, <1>4, <1>7

(* What the parts of S make of v: F[c] is what c does.                     *)
Folding(F, v, S, t) ==
  t = [s \in SUBSET S |-> IF s = {} THEN v ELSE F[Pick(s)][t[s \ {Pick(s)}]]]

Folded(F, v, S) == (CHOOSE t : Folding(F, v, S, t))[S]

LEMMA FoldingAt ==
  ASSUME NEW F, NEW v, NEW S, NEW t, Folding(F, v, S, t), NEW s \in SUBSET S
  PROVE  t[s] = IF s = {} THEN v ELSE F[Pick(s)][t[s \ {Pick(s)}]]
BY DEF Folding

LEMMA FoldingUnique ==
  ASSUME NEW F, NEW v, NEW S, NEW T, NEW t, NEW u, IsFiniteSet(S), S \subseteq T,
         Folding(F, v, S, t), Folding(F, v, T, u)
  PROVE  t[S] = u[S]
<1> DEFINE Q == {s \in SUBSET S : t[s] = u[s]}
<1>1. ASSUME NEW s \in SUBSET S
      PROVE  /\ t[s] = IF s = {} THEN v ELSE F[Pick(s)][t[s \ {Pick(s)}]]
             /\ u[s] = IF s = {} THEN v ELSE F[Pick(s)][u[s \ {Pick(s)}]]
  <2>1. s \in SUBSET T
    OBVIOUS
  <2> QED
    BY <2>1, FoldingAt
<1>2. {} \in Q
  BY <1>1
<1>3. \A s \in SUBSET S : s # {} /\ s \ {Pick(s)} \in Q => s \in Q
  BY <1>1
<1> HIDE DEF Q
<1>4. S \in Q
  BY <1>2, <1>3, OneByOne
<1> QED
  BY <1>4 DEF Q

LEMMA FoldingBelow ==
  ASSUME NEW F, NEW v, NEW S, NEW t, Folding(F, v, S, t), NEW s \in SUBSET S, IsFiniteSet(S)
  PROVE  Folded(F, v, s) = t[s]
<1> DEFINE u == [x \in SUBSET s |-> t[x]]
<1>1. Folding(F, v, s, u)
  <2>1. ASSUME NEW x \in SUBSET s
        PROVE  u[x] = IF x = {} THEN v ELSE F[Pick(x)][u[x \ {Pick(x)}]]
    BY FoldingAt
  <2>2. u = [x \in SUBSET s |-> IF x = {} THEN v ELSE F[Pick(x)][u[x \ {Pick(x)}]]]
    BY <2>1
  <2> HIDE DEF u
  <2> QED
    BY <2>2 DEF Folding
<1> HIDE DEF u
<1>2. Folding(F, v, s, CHOOSE x : Folding(F, v, s, x))
  BY <1>1
<1>3. IsFiniteSet(s)
  BY FS_Subset
<1> QED
  BY <1>2, <1>3, FoldingUnique DEF Folded

LEMMA FoldedStep ==
  ASSUME NEW F, NEW v, NEW S, NEW t, Folding(F, v, S, t), IsFiniteSet(S)
  PROVE  Folded(F, v, S) = IF S = {} THEN v ELSE F[Pick(S)][Folded(F, v, S \ {Pick(S)})]
<1>1. Folded(F, v, S) = t[S] /\ Folded(F, v, S \ {Pick(S)}) = t[S \ {Pick(S)}]
  BY FoldingBelow
<1> QED
  BY <1>1, FoldingAt

LEMMA FoldingExists ==
  ASSUME NEW F, NEW v, NEW S, IsFiniteSet(S)
  PROVE  \E t : Folding(F, v, S, t)
<1> DEFINE B == {s \in SUBSET S : ~\E t : Folding(F, v, s, t)}
<1> SUFFICES ASSUME B # {} PROVE FALSE
  OBVIOUS
<1>0. B \in SUBSET (SUBSET S)
  OBVIOUS
<1> HIDE DEF B
<1>1. PICK s \in B : \A x \in SUBSET s : x # s => x \notin B
  BY <1>0, LeastSet
<1> USE DEF B
<1> DEFINE t == [x \in SUBSET s |-> IF x = {} THEN v ELSE F[Pick(x)][Folded(F, v, x \ {Pick(x)})]]
<1>2. ASSUME NEW x \in SUBSET s, x # s
      PROVE  t[x] = Folded(F, v, x)
  <2>1. PICK u : Folding(F, v, x, u)
    BY <1>1, <1>2
  <2>2. IsFiniteSet(x)
    BY FS_Subset
  <2> QED
    BY <2>1, <2>2, FoldedStep
<1>3. ASSUME NEW x \in SUBSET s
      PROVE  t[x] = IF x = {} THEN v ELSE F[Pick(x)][t[x \ {Pick(x)}]]
  BY <1>2, PickIn
<1>4. t = [x \in SUBSET s |-> IF x = {} THEN v ELSE F[Pick(x)][t[x \ {Pick(x)}]]]
  BY <1>3
<1> HIDE DEF t
<1>5. Folding(F, v, s, t)
  BY <1>4 DEF Folding
<1> QED
  BY <1>5

(* If everybody makes a state of a state there is a state after each part. *)
Run(F, v, S, t) ==
  /\ t \in [SUBSET S -> State] /\ t[{}] = v
  /\ \A s \in SUBSET S : s # {} => t[s] = F[Pick(s)][t[s \ {Pick(s)}]]

LEMMA FoldingStates ==
  ASSUME NEW S, IsFiniteSet(S), NEW v \in State, NEW F \in [S -> [State -> State]]
  PROVE  \E t : Run(F, v, S, t)
<1>1. PICK t : Folding(F, v, S, t)
  BY FoldingExists
<1>2. \A s \in SUBSET S : t[s] = IF s = {} THEN v ELSE F[Pick(s)][t[s \ {Pick(s)}]]
  BY <1>1, FoldingAt
<1> DEFINE Q == {s \in SUBSET S : t[s] \in State}
<1>3. {} \in Q
  BY <1>2
<1>4. ASSUME NEW s \in SUBSET S, s # {}, s \ {Pick(s)} \in Q PROVE s \in Q
  <2>1. Pick(s) \in S
    BY <1>4, PickIn
  <2>2. F[Pick(s)] \in [State -> State]
    BY <2>1
  <2> QED
    BY <1>2, <1>4, <2>2
<1> HIDE DEF Q
<1>5. \A s \in SUBSET S : s \in Q
  BY <1>3, <1>4, OneByOne
<1>6. \A s \in SUBSET S : t[s] \in State
  BY <1>5 DEF Q
<1>7. t = [s \in SUBSET S |-> t[s]]
  BY <1>1 DEF Folding
<1>8. t \in [SUBSET S -> State]
  BY <1>6, <1>7
<1>9. Run(F, v, S, t)
  BY <1>2, <1>8 DEF Run
<1> QED
  BY <1>9

Agree(S, t, u) ==
  /\ t[{}] = u[{}]
  /\ \A s \in SUBSET S : s # {} /\ t[s \ {Pick(s)}] = u[s \ {Pick(s)}] => t[s] = u[s]

LEMMA SameSteps ==
  ASSUME NEW S, IsFiniteSet(S), NEW t, NEW u, Agree(S, t, u)
  PROVE  t[S] = u[S]
<1> DEFINE Q == {s \in SUBSET S : t[s] = u[s]}
<1>1. {} \in Q
  BY DEF Agree
<1>2. \A s \in SUBSET S : s # {} /\ s \ {Pick(s)} \in Q => s \in Q
  BY DEF Agree
<1> HIDE DEF Q
<1>3. S \in Q
  BY <1>1, <1>2, OneByOne
<1> QED
  BY <1>3 DEF Q

-----------------------------------------------------------------------------
(* What a monster does about its own lists and its own sleep: it may add   *)
(* who is placed, and the references follow.                               *)
Unmoved(v, w) ==
  \A c \in Creatures :
    SameBody(v[c], w[c]) /\ SameAims(v[c], w[c]) /\ w[c].master = v[c].master

OnlyOf(v, w, m) ==
  \A c \in Creatures \ {m} : SameLists(v[c], w[c]) /\ SameChecks(v[c], w[c])

Joined(v, w, m) == (w[m].targets \ v[m].targets) \union (w[m].friends \ v[m].friends)

Checked(v, c) == v[c].check => v[c].listed /\ Placed(v, c)

Mind(v, w, m) ==
  /\ w \in State /\ Unmoved(v, w) /\ OnlyOf(v, w, m)
  /\ \A c \in Joined(v, w, m) : Placed(v, c)
  /\ v[m].listed => w[m].listed
  /\ w[m].listed => v[m].listed \/ Placed(v, m)
  /\ Checked(v, m) => Checked(w, m)
  /\ v[m].slain /\ v[m].check => w[m].check
  /\ Exact(v) => Exact(w)

LEMMA MindSelf == ASSUME NEW v \in State, NEW m \in Creatures PROVE Mind(v, v, m)
BY DEF Mind, Unmoved, OnlyOf, Joined, SameBody, SameAims, SameLists, SameChecks

LEMMA MindThen ==
  ASSUME NEW u \in State, NEW v \in State, NEW w \in State, NEW m \in Creatures,
         Mind(u, v, m), Mind(v, w, m)
  PROVE  Mind(u, w, m)
<1>1. Unmoved(u, w)
  BY DEF Mind, Unmoved, SameBody, SameAims
<1>2. OnlyOf(u, w, m)
  BY DEF Mind, OnlyOf, SameLists, SameChecks
<1>3. \A c \in Creatures : Placed(v, c) <=> Placed(u, c)
  BY DEF Mind, Unmoved, SameBody, Placed
<1>4. u[m].slain = v[m].slain
  BY DEF Mind, Unmoved, SameBody
<1>5. ASSUME NEW c \in Joined(u, w, m) PROVE Placed(u, c)
  <2>1. c \in Joined(u, v, m) \/ c \in Joined(v, w, m)
    BY DEF Joined
  <2>2. c \in Creatures
    BY Fields DEF Joined
  <2> QED
    BY <1>3, <2>1, <2>2 DEF Mind
<1> QED
  BY <1>1, <1>2, <1>3, <1>4, <1>5 DEF Mind

(* One creature is another than before.                                    *)
With(v, m, r) == [v EXCEPT ![m] = r]

LEMMA WithIs ==
  ASSUME NEW v \in State, NEW m \in Creatures, NEW r \in Beings
  PROVE  /\ With(v, m, r) \in State /\ With(v, m, r)[m] = r
         /\ \A c \in Creatures \ {m} : With(v, m, r)[c] = v[c]
BY DEF State, With

LEMMA Others ==
  ASSUME NEW v \in State, NEW w \in State, NEW m \in Creatures,
         \A c \in Creatures \ {m} : w[c] = v[c]
  PROVE  /\ OnlyOf(v, w, m)
         /\ SameBody(v[m], w[m]) /\ SameAims(v[m], w[m]) /\ w[m].master = v[m].master => Unmoved(v, w)
BY DEF Unmoved, OnlyOf, SameBody, SameAims, SameLists, SameChecks

BalancedAt(v, w, m) ==
  w[m].refs = v[m].refs + (Bit(w[m].listed) - Bit(v[m].listed))
                + (Bit(w[m].master # Nobody) - Bit(v[m].master # Nobody))
                + (Bit(Placed(w, m)) - Bit(Placed(v, m))) + (w[m].released - v[m].released)

LEMMA BalancedOne ==
  ASSUME NEW v \in State, NEW w \in State, NEW m \in Creatures,
         \A c \in Creatures \ {m} : w[c] = v[c], SameLists(v[m], w[m]), BalancedAt(v, w, m)
  PROVE  Balanced(v, w, m)
<1> SUFFICES ASSUME NEW c \in Creatures
      PROVE  w[c].refs = v[c].refs + (Bit(c \in w[m].targets) - Bit(c \in v[m].targets))
                + (Bit(c \in w[m].friends) - Bit(c \in v[m].friends))
                + (Bit(w[c].listed) - Bit(v[c].listed))
                + (Bit(w[c].master # Nobody) - Bit(v[c].master # Nobody))
                + (Bit(Placed(w, c)) - Bit(Placed(v, c))) + (w[c].released - v[c].released)
  BY DEF Balanced
<1>1. /\ Bit(c \in w[m].targets) - Bit(c \in v[m].targets) = 0
      /\ Bit(c \in w[m].friends) - Bit(c \in v[m].friends) = 0
  BY DEF SameLists, Bit
<1>2. v[c].refs \in Int /\ v[c].released \in Nat /\ w[c].released \in Nat
  BY Fields
<1>3. CASE c = m
  <2>1. /\ Bit(w[m].listed) - Bit(v[m].listed) \in Int
        /\ Bit(w[m].master # Nobody) - Bit(v[m].master # Nobody) \in Int
        /\ Bit(Placed(w, m)) - Bit(Placed(v, m)) \in Int
    BY DEF Bit
  <2>2. w[m].refs = v[m].refs + (Bit(w[m].listed) - Bit(v[m].listed))
                + (Bit(w[m].master # Nobody) - Bit(v[m].master # Nobody))
                + (Bit(Placed(w, m)) - Bit(Placed(v, m))) + (w[m].released - v[m].released)
    BY DEF BalancedAt
  <2> QED
    BY <1>1, <1>2, <1>3, <2>1, <2>2
<1>4. CASE c # m
  <2>1. w[c] = v[c] /\ (Placed(w, c) <=> Placed(v, c))
    BY <1>4 DEF Placed
  <2>2. /\ Bit(w[c].listed) - Bit(v[c].listed) = 0
        /\ Bit(w[c].master # Nobody) - Bit(v[c].master # Nobody) = 0
        /\ Bit(Placed(w, c)) - Bit(Placed(v, c)) = 0 /\ w[c].released - v[c].released = 0
    BY <1>2, <2>1 DEF Bit
  <2> QED
    BY <1>1, <1>2, <2>1, <2>2
<1> QED
  BY <1>3, <1>4

(* The list of checkCreatures.                                             *)
Marked(b, x) == [b EXCEPT !.check = x]
Enlisted(b) == [b EXCEPT !.check = TRUE, !.listed = TRUE, !.refs = @ + 1]

LEMMA MarkedIs ==
  ASSUME NEW b \in Beings, NEW x \in BOOLEAN
  PROVE  /\ Marked(b, x) \in Beings /\ SameBody(b, Marked(b, x)) /\ SameAims(b, Marked(b, x))
         /\ SameLists(b, Marked(b, x)) /\ Marked(b, x).master = b.master
         /\ Marked(b, x).check = x /\ Marked(b, x).listed = b.listed /\ Marked(b, x).refs = b.refs
<1>1. Marked(b, x) \in Beings
  BY DEF Beings, Marked
<1>2. /\ SameBody(b, Marked(b, x)) /\ SameAims(b, Marked(b, x))
      /\ SameLists(b, Marked(b, x)) /\ Marked(b, x).master = b.master
      /\ Marked(b, x).check = x /\ Marked(b, x).listed = b.listed /\ Marked(b, x).refs = b.refs
  BY DEF Beings, Marked, SameBody, SameAims, SameLists
<1> QED
  BY <1>1, <1>2

LEMMA EnlistedIs ==
  ASSUME NEW b \in Beings
  PROVE  /\ Enlisted(b) \in Beings /\ SameBody(b, Enlisted(b)) /\ SameAims(b, Enlisted(b))
         /\ SameLists(b, Enlisted(b)) /\ Enlisted(b).master = b.master
         /\ Enlisted(b).check /\ Enlisted(b).listed /\ Enlisted(b).refs = b.refs + 1
<1>1. Enlisted(b) \in Beings
  <2> DEFINE n == b.refs + 1
  <2>1. b.refs \in Int /\ n \in Int
    BY DEF Beings
  <2>2. Enlisted(b) = [b EXCEPT !.check = TRUE, !.listed = TRUE, !.refs = n]
    BY DEF Enlisted
  <2> HIDE DEF n
  <2> QED
    BY <2>1, <2>2 DEF Beings
<1>2. /\ SameBody(b, Enlisted(b)) /\ SameAims(b, Enlisted(b))
      /\ SameLists(b, Enlisted(b)) /\ Enlisted(b).master = b.master
      /\ Enlisted(b).check /\ Enlisted(b).listed /\ Enlisted(b).refs = b.refs + 1
  BY DEF Beings, Enlisted, SameBody, SameAims, SameLists
<1> QED
  BY <1>1, <1>2

Recharged(a, b) == b.refs = a.refs + (Bit(b.listed) - Bit(a.listed))

LEMMA CheckPut ==
  ASSUME NEW v \in State, NEW m \in Creatures, NEW r \in Beings,
         SameBody(v[m], r), SameAims(v[m], r), SameLists(v[m], r), r.master = v[m].master,
         Recharged(v[m], r),
         NEW w, w = With(v, m, r)
  PROVE  /\ w \in State /\ Unmoved(v, w) /\ OnlyOf(v, w, m) /\ w[m] = r
         /\ Balanced(v, w, m)
<1>1. w \in State /\ w[m] = r /\ \A c \in Creatures \ {m} : w[c] = v[c]
  BY WithIs
<1>2. Unmoved(v, w) /\ OnlyOf(v, w, m)
  BY <1>1, Others
<1>3. v[m].refs \in Int /\ v[m].released \in Nat
  BY Fields
<1>4. /\ Bit(w[m].master # Nobody) - Bit(v[m].master # Nobody) = 0
      /\ Bit(Placed(w, m)) - Bit(Placed(v, m)) = 0 /\ w[m].released - v[m].released = 0
  BY <1>1, <1>3 DEF SameBody, Placed, Bit
<1>5. Bit(w[m].listed) - Bit(v[m].listed) \in Int
  BY DEF Bit
<1>6. w[m].refs = v[m].refs + (Bit(w[m].listed) - Bit(v[m].listed))
  BY <1>1 DEF Recharged
<1>7. BalancedAt(v, w, m)
  BY <1>3, <1>4, <1>5, <1>6 DEF BalancedAt
<1> QED
  BY <1>1, <1>2, <1>7, BalancedOne

LEMMA AddCheckIs ==
  ASSUME NEW v \in State, NEW m \in Creatures, NEW w, w = AddCreatureCheck(v, m)
  PROVE  /\ w \in State /\ Unmoved(v, w) /\ OnlyOf(v, w, m) /\ SameLists(v[m], w[m])
         /\ w[m].check /\ w[m].listed /\ Balanced(v, w, m)
<1>1. v[m] \in Beings /\ v[m].refs \in Int /\ v[m].listed \in BOOLEAN
  BY Fields
<1>2. CASE v[m].listed
  <2> DEFINE r == Marked(v[m], TRUE)
  <2>1. w = With(v, m, r)
    BY <1>2 DEF AddCreatureCheck, With, Marked
  <2>2. /\ r \in Beings /\ SameBody(v[m], r) /\ SameAims(v[m], r) /\ SameLists(v[m], r)
        /\ r.master = v[m].master /\ r.check = TRUE /\ r.listed = v[m].listed /\ r.refs = v[m].refs
    BY <1>1, MarkedIs
  <2> HIDE DEF r
  <2>4. r.check /\ r.listed
    BY <1>2, <2>2
  <2>3. Recharged(v[m], r)
    BY <1>1, <2>2 DEF Bit, Recharged
  <2>5. w \in State /\ Unmoved(v, w) /\ OnlyOf(v, w, m) /\ w[m] = r /\ Balanced(v, w, m)
    BY <2>1, <2>2, <2>3, CheckPut
  <2> QED
    BY <2>2, <2>4, <2>5
<1>3. CASE ~v[m].listed
  <2> DEFINE r == Enlisted(v[m])
  <2>1. w = With(v, m, r)
    BY <1>3 DEF AddCreatureCheck, With, Enlisted, State
  <2>2. /\ r \in Beings /\ SameBody(v[m], r) /\ SameAims(v[m], r) /\ SameLists(v[m], r)
        /\ r.master = v[m].master /\ r.check /\ r.listed /\ r.refs = v[m].refs + 1
    BY <1>1, EnlistedIs
  <2> HIDE DEF r
  <2>3. Recharged(v[m], r)
    BY <1>1, <1>3, <2>2 DEF Bit, Recharged
  <2> QED
    BY <2>1, <2>2, <2>3, CheckPut
<1> QED
  BY <1>2, <1>3

LEMMA RemoveCheckIs ==
  ASSUME NEW v \in State, NEW m \in Creatures, NEW w, w = RemoveCreatureCheck(v, m)
  PROVE  /\ w \in State /\ Unmoved(v, w) /\ OnlyOf(v, w, m) /\ SameLists(v[m], w[m])
         /\ w[m].listed = v[m].listed /\ w[m].check = (v[m].check /\ ~v[m].listed)
         /\ Balanced(v, w, m)
<1> DEFINE x == v[m].check /\ ~v[m].listed
           r == Marked(v[m], x)
<1>1. v[m] \in Beings /\ v[m].refs \in Int /\ x \in BOOLEAN
  BY Fields
<1>2. w = With(v, m, r)
  BY DEF RemoveCreatureCheck, With, Marked
<1>3. /\ r \in Beings /\ SameBody(v[m], r) /\ SameAims(v[m], r) /\ SameLists(v[m], r)
      /\ r.master = v[m].master /\ r.check = x /\ r.listed = v[m].listed /\ r.refs = v[m].refs
  BY <1>1, MarkedIs
<1> HIDE DEF r
<1>4. Recharged(v[m], r)
  BY <1>1, <1>3 DEF Bit, Recharged
<1> QED
  BY <1>2, <1>3, <1>4, CheckPut

(* Lists that change with the references of who enters or leaves them.     *)
Regarding(b, t, f) == [b EXCEPT !.targets = t, !.friends = f]
Befriending(b, f) == [b EXCEPT !.friends = f]
Targeting(b, t) == [b EXCEPT !.targets = t]

OnlyLists(b, r) ==
  /\ SameBody(b, r) /\ SameAims(b, r) /\ SameChecks(b, r) /\ r.master = b.master /\ r.refs = b.refs

LEMMA RegardingIs ==
  ASSUME NEW b \in Beings, NEW t \in SUBSET Creatures, NEW f \in SUBSET Creatures
  PROVE  /\ Regarding(b, t, f) \in Beings /\ OnlyLists(b, Regarding(b, t, f))
         /\ Regarding(b, t, f).targets = t /\ Regarding(b, t, f).friends = f
<1>1. Regarding(b, t, f) \in Beings
  BY DEF Regarding, Beings
<1>2. OnlyLists(b, Regarding(b, t, f)) /\ Regarding(b, t, f).targets = t /\ Regarding(b, t, f).friends = f
  BY DEF Regarding, Beings, OnlyLists, SameBody, SameAims, SameChecks
<1> QED
  BY <1>1, <1>2

LEMMA BefriendingIs ==
  ASSUME NEW b \in Beings, NEW f \in SUBSET Creatures
  PROVE  /\ Befriending(b, f) \in Beings /\ OnlyLists(b, Befriending(b, f))
         /\ Befriending(b, f).targets = b.targets /\ Befriending(b, f).friends = f
<1>1. Befriending(b, f) \in Beings
  BY DEF Befriending, Beings
<1>2. OnlyLists(b, Befriending(b, f)) /\ Befriending(b, f).targets = b.targets /\ Befriending(b, f).friends = f
  BY DEF Befriending, Beings, OnlyLists, SameBody, SameAims, SameChecks
<1> QED
  BY <1>1, <1>2

LEMMA TargetingIs ==
  ASSUME NEW b \in Beings, NEW t \in SUBSET Creatures
  PROVE  /\ Targeting(b, t) \in Beings /\ OnlyLists(b, Targeting(b, t))
         /\ Targeting(b, t).targets = t /\ Targeting(b, t).friends = b.friends
<1>1. Targeting(b, t) \in Beings
  BY DEF Targeting, Beings
<1>2. OnlyLists(b, Targeting(b, t)) /\ Targeting(b, t).targets = t /\ Targeting(b, t).friends = b.friends
  BY DEF Targeting, Beings, OnlyLists, SameBody, SameAims, SameChecks
<1> QED
  BY <1>1, <1>2

(* w has other lists of m than v, and the references to match.             *)
Recounted(v, w, m, t, f) ==
  /\ w \in State /\ Unmoved(v, w) /\ OnlyOf(v, w, m) /\ SameChecks(v[m], w[m])
  /\ w[m].targets = t /\ w[m].friends = f /\ Balanced(v, w, m)

Weighed(v, w, m, t, f) ==
  \A c \in Creatures :
    w[c].refs = v[c].refs + (Bit(c \in t) - Bit(c \in v[m].targets))
                          + (Bit(c \in f) - Bit(c \in v[m].friends))

LEMMA ListsPut ==
  ASSUME NEW v \in State, NEW m \in Creatures, NEW r \in Beings, OnlyLists(v[m], r),
         NEW w \in State, \A c \in Creatures : Alike(With(v, m, r)[c], w[c]),
         Weighed(v, w, m, r.targets, r.friends)
  PROVE  Recounted(v, w, m, r.targets, r.friends)
<1> DEFINE u == With(v, m, r)
<1>1. u \in State /\ u[m] = r /\ \A c \in Creatures \ {m} : u[c] = v[c]
  BY WithIs
<1>2. \A c \in Creatures : Alike(u[c], w[c])
  OBVIOUS
<1> HIDE DEF u
<1>3. Unmoved(v, u) /\ OnlyOf(v, u, m)
  BY <1>1, Others DEF OnlyLists
<1>4. /\ Unmoved(v, w) /\ OnlyOf(v, w, m) /\ SameChecks(v[m], w[m])
      /\ w[m].targets = r.targets /\ w[m].friends = r.friends
  BY <1>1, <1>2, <1>3
  DEF OnlyLists, Unmoved, OnlyOf, Alike, SameBody, SameAims, SameLists, SameChecks
<1>5. ASSUME NEW c \in Creatures
      PROVE  w[c].refs = v[c].refs + (Bit(c \in w[m].targets) - Bit(c \in v[m].targets))
                + (Bit(c \in w[m].friends) - Bit(c \in v[m].friends))
                + (Bit(w[c].listed) - Bit(v[c].listed))
                + (Bit(w[c].master # Nobody) - Bit(v[c].master # Nobody))
                + (Bit(Placed(w, c)) - Bit(Placed(v, c))) + (w[c].released - v[c].released)
  <2>1. /\ w[c].listed = v[c].listed /\ w[c].master = v[c].master /\ w[c].released = v[c].released
        /\ Placed(w, c) <=> Placed(v, c)
    BY <1>4 DEF Unmoved, OnlyOf, SameBody, SameChecks, Placed
  <2>2. /\ w[c].refs = v[c].refs + (Bit(c \in r.targets) - Bit(c \in v[m].targets))
                          + (Bit(c \in r.friends) - Bit(c \in v[m].friends))
        /\ v[c].refs \in Int /\ v[c].released \in Nat
    BY Fields DEF Weighed
  <2>3. Bit(c \in r.targets) - Bit(c \in v[m].targets) \in Int
        /\ Bit(c \in r.friends) - Bit(c \in v[m].friends) \in Int
    BY DEF Bit
  <2>4. /\ Bit(w[c].listed) - Bit(v[c].listed) = 0
        /\ Bit(w[c].master # Nobody) - Bit(v[c].master # Nobody) = 0
        /\ Bit(Placed(w, c)) - Bit(Placed(v, c)) = 0 /\ w[c].released - v[c].released = 0
    BY <2>1, <2>2 DEF Bit
  <2> QED
    BY <1>4, <2>2, <2>3, <2>4
<1> QED
  BY <1>4, <1>5 DEF Recounted, Balanced

LEMMA DroppedIs ==
  ASSUME NEW v \in State, NEW m \in Creatures, NEW t, NEW f,
         t \subseteq v[m].targets, f \subseteq v[m].friends, NEW w, w = Dropped(v, m, t, f)
  PROVE  Recounted(v, w, m, v[m].targets \ t, v[m].friends \ f)
<1> DEFINE T == v[m].targets \ t
           F == v[m].friends \ f
           r == Regarding(v[m], T, F)
           u == With(v, m, r)
           x == AddRefs(u, t, -1)
<1>1. v[m] \in Beings /\ T \in SUBSET Creatures /\ F \in SUBSET Creatures
  BY Fields
<1>2. u = [v EXCEPT ![m].targets = @ \ t, ![m].friends = @ \ f]
  BY DEF State, With, Regarding
<1>3. w = AddRefs(x, f, -1)
  BY <1>2 DEF Dropped
<1> HIDE DEF T, F
<1>4. r \in Beings /\ OnlyLists(v[m], r) /\ r.targets = T /\ r.friends = F
  BY <1>1, RegardingIs
<1> HIDE DEF r
<1>5. u \in State /\ u[m] = r /\ \A c \in Creatures \ {m} : u[c] = v[c]
  BY <1>4, WithIs
<1> HIDE DEF u
<1>6. x \in State /\ \A c \in Creatures :
        Alike(u[c], x[c]) /\ x[c].refs = u[c].refs + IF c \in t THEN -1 ELSE 0
  BY <1>5, AddRefsIs
<1> HIDE DEF x
<1>7. w \in State /\ \A c \in Creatures :
        Alike(x[c], w[c]) /\ w[c].refs = x[c].refs + IF c \in f THEN -1 ELSE 0
  BY <1>3, <1>6, AddRefsIs
<1>8. \A c \in Creatures : Alike(u[c], w[c])
  BY <1>6, <1>7 DEF Alike, SameBody, SameAims, SameLists, SameChecks
<1>9. Weighed(v, w, m, r.targets, r.friends)
  <2> SUFFICES ASSUME NEW c \in Creatures
      PROVE  w[c].refs = v[c].refs + (Bit(c \in T) - Bit(c \in v[m].targets))
                                   + (Bit(c \in F) - Bit(c \in v[m].friends))
    BY <1>4 DEF Weighed
  <2>1. u[c].refs = v[c].refs
    BY <1>4, <1>5 DEF OnlyLists
  <2>2. w[c].refs = v[c].refs + (IF c \in t THEN -1 ELSE 0) + (IF c \in f THEN -1 ELSE 0)
        /\ v[c].refs \in Int
    BY <1>6, <1>7, <2>1, Fields
  <2>3. Bit(c \in T) - Bit(c \in v[m].targets) = IF c \in t THEN -1 ELSE 0
    BY DEF Bit, T
  <2>4. Bit(c \in F) - Bit(c \in v[m].friends) = IF c \in f THEN -1 ELSE 0
    BY DEF Bit, F
  <2> QED
    BY <2>2, <2>3, <2>4
<1>10. Recounted(v, w, m, r.targets, r.friends)
  BY <1>4, <1>7, <1>8, <1>9, ListsPut DEF u
<1> QED
  BY <1>4, <1>10 DEF T, F

(* One creature enters a list or leaves it.                                *)
OneEntry(b, r, c, n) ==
  \/ /\ r.friends = b.friends
     /\ \/ r.targets = b.targets \union {c} /\ c \notin b.targets /\ n = 1
        \/ r.targets = b.targets \ {c} /\ c \in b.targets /\ n = -1
  \/ /\ r.targets = b.targets
     /\ \/ r.friends = b.friends \union {c} /\ c \notin b.friends /\ n = 1
        \/ r.friends = b.friends \ {c} /\ c \in b.friends /\ n = -1

LEMMA OneListed ==
  ASSUME NEW v \in State, NEW m \in Creatures, NEW c \in Creatures, NEW r \in Beings,
         OnlyLists(v[m], r), NEW n \in Int,
         OneEntry(v[m], r, c, n),
         NEW w, w = AddRefs(With(v, m, r), {c}, n)
  PROVE  Recounted(v, w, m, r.targets, r.friends)
<1> DEFINE u == With(v, m, r)
<1>1. u \in State /\ u[m] = r /\ \A d \in Creatures \ {m} : u[d] = v[d]
  BY WithIs
<1> HIDE DEF u
<1>2. w \in State /\ \A d \in Creatures :
        Alike(u[d], w[d]) /\ w[d].refs = u[d].refs + IF d \in {c} THEN n ELSE 0
  BY <1>1, AddRefsIs DEF u
<1>3. ASSUME NEW d \in Creatures
      PROVE  w[d].refs = v[d].refs + (Bit(d \in r.targets) - Bit(d \in v[m].targets))
                                   + (Bit(d \in r.friends) - Bit(d \in v[m].friends))
  <2>1. u[d].refs = v[d].refs
    BY <1>1 DEF OnlyLists
  <2>2. w[d].refs = v[d].refs + (IF d = c THEN n ELSE 0) /\ v[d].refs \in Int
    BY <1>2, <2>1, Fields
  <2>3. (Bit(d \in r.targets) - Bit(d \in v[m].targets))
        + (Bit(d \in r.friends) - Bit(d \in v[m].friends)) = IF d = c THEN n ELSE 0
    BY DEF Bit, OneEntry
  <2>4. (Bit(d \in r.targets) - Bit(d \in v[m].targets)) \in Int
        /\ (Bit(d \in r.friends) - Bit(d \in v[m].friends)) \in Int
    BY DEF Bit
  <2> QED
    BY <2>2, <2>3, <2>4
<1>4. Weighed(v, w, m, r.targets, r.friends)
  BY <1>3 DEF Weighed
<1> QED
  BY <1>2, <1>4, ListsPut DEF u

LEMMA AddFriendIs ==
  ASSUME NEW v \in State, NEW m \in Creatures, NEW c \in Creatures, c \notin v[m].friends
  PROVE  Recounted(v, AddFriend(v, m, c), m, v[m].targets, v[m].friends \union {c})
<1> DEFINE r == Befriending(v[m], v[m].friends \union {c})
<1>1. v[m] \in Beings /\ v[m].targets \in SUBSET Creatures /\ v[m].friends \union {c} \in SUBSET Creatures
  BY Fields
<1>2. AddFriend(v, m, c) = AddRefs(With(v, m, r), {c}, 1)
  BY DEF AddFriend, With, Befriending
<1>3. r \in Beings /\ OnlyLists(v[m], r)
      /\ r.targets = v[m].targets /\ r.friends = v[m].friends \union {c}
  BY <1>1, BefriendingIs
<1> HIDE DEF r
<1>4. OneEntry(v[m], r, c, 1)
  BY <1>3 DEF OneEntry
<1>5. Recounted(v, AddFriend(v, m, c), m, r.targets, r.friends)
  BY <1>2, <1>3, <1>4, OneListed, SMTT(60)
<1> QED
  BY <1>3, <1>5

LEMMA AddTargetIs ==
  ASSUME NEW v \in State, NEW m \in Creatures, NEW c \in Creatures, c \notin v[m].targets
  PROVE  Recounted(v, AddTarget(v, m, c), m, v[m].targets \union {c}, v[m].friends)
<1> DEFINE r == Targeting(v[m], v[m].targets \union {c})
<1>1. v[m] \in Beings /\ v[m].friends \in SUBSET Creatures /\ v[m].targets \union {c} \in SUBSET Creatures
  BY Fields
<1>2. AddTarget(v, m, c) = AddRefs(With(v, m, r), {c}, 1)
  BY DEF AddTarget, With, Targeting
<1>3. r \in Beings /\ OnlyLists(v[m], r)
      /\ r.friends = v[m].friends /\ r.targets = v[m].targets \union {c}
  BY <1>1, TargetingIs
<1> HIDE DEF r
<1>4. OneEntry(v[m], r, c, 1)
  BY <1>3 DEF OneEntry
<1>5. Recounted(v, AddTarget(v, m, c), m, r.targets, r.friends)
  BY <1>2, <1>3, <1>4, OneListed
<1> QED
  BY <1>3, <1>5

LEMMA RemoveFriendIs ==
  ASSUME NEW v \in State, NEW m \in Creatures, NEW c \in Creatures, c \in v[m].friends
  PROVE  Recounted(v, RemoveFriend(v, m, c), m, v[m].targets, v[m].friends \ {c})
<1> DEFINE r == Befriending(v[m], v[m].friends \ {c})
<1>1. v[m] \in Beings /\ v[m].targets \in SUBSET Creatures /\ v[m].friends \ {c} \in SUBSET Creatures
  BY Fields
<1>2. RemoveFriend(v, m, c) = AddRefs(With(v, m, r), {c}, -1)
  BY DEF RemoveFriend, With, Befriending
<1>3. r \in Beings /\ OnlyLists(v[m], r)
      /\ r.targets = v[m].targets /\ r.friends = v[m].friends \ {c}
  BY <1>1, BefriendingIs
<1> HIDE DEF r
<1>4. OneEntry(v[m], r, c, -1)
  BY <1>3 DEF OneEntry
<1>5. Recounted(v, RemoveFriend(v, m, c), m, r.targets, r.friends)
  BY <1>2, <1>3, <1>4, OneListed, SMTT(60)
<1> QED
  BY <1>3, <1>5

LEMMA RemoveTargetIs ==
  ASSUME NEW v \in State, NEW m \in Creatures, NEW c \in Creatures, c \in v[m].targets
  PROVE  Recounted(v, RemoveTarget(v, m, c), m, v[m].targets \ {c}, v[m].friends)
<1> DEFINE r == Targeting(v[m], v[m].targets \ {c})
<1>1. v[m] \in Beings /\ v[m].friends \in SUBSET Creatures /\ v[m].targets \ {c} \in SUBSET Creatures
  BY Fields
<1>2. RemoveTarget(v, m, c) = AddRefs(With(v, m, r), {c}, -1)
  BY DEF RemoveTarget, With, Targeting
<1>3. r \in Beings /\ OnlyLists(v[m], r)
      /\ r.friends = v[m].friends /\ r.targets = v[m].targets \ {c}
  BY <1>1, TargetingIs
<1> HIDE DEF r
<1>4. OneEntry(v[m], r, c, -1)
  BY <1>3 DEF OneEntry
<1>5. Recounted(v, RemoveTarget(v, m, c), m, r.targets, r.friends)
  BY <1>2, <1>3, <1>4, OneListed, SMTT(60)
<1> QED
  BY <1>3, <1>5

-----------------------------------------------------------------------------
(* A monster that has something to do is awake.                            *)
Awake(v, m) ==
  /\ Placed(v, m) /\ v[m].slain => v[m].check
  /\ Alive(v, m) /\ ~v[m].check =>
       /\ v[m].master = Nobody /\ v[m].targets = {}
       /\ v[m].condition => v[m].pos = Home[m]

LEMMA SameAlive ==
  ASSUME NEW v \in State, NEW w \in State, Unmoved(v, w), NEW c \in Creatures
  PROVE  /\ Placed(w, c) <=> Placed(v, c)
         /\ Alive(w, c) <=> Alive(v, c)
         /\ w[c].master = v[c].master /\ w[c].condition = v[c].condition
         /\ w[c].pos = v[c].pos /\ w[c].slain = v[c].slain
BY DEF Unmoved, SameBody, Placed, Alive

LEMMA DeadAwake ==
  ASSUME NEW v \in State, NEW w \in State, NEW m \in Creatures, Mind(v, w, m), ~Alive(v, m), Awake(v, m)
  PROVE  Awake(w, m)
<1>1. Unmoved(v, w)
  BY DEF Mind
<1>2. (Placed(w, m) <=> Placed(v, m)) /\ (Alive(w, m) <=> Alive(v, m)) /\ w[m].slain = v[m].slain
  BY <1>1, SameAlive
<1>3. v[m].slain /\ v[m].check => w[m].check
  BY DEF Mind
<1> QED
  BY <1>2, <1>3 DEF Awake

LEMMA RecountedMind ==
  ASSUME IsFiniteSet(Creatures), NEW v \in State, NEW m \in Creatures, NEW w, NEW t, NEW f,
         Recounted(v, w, m, t, f),
         \A c \in (t \ v[m].targets) \union (f \ v[m].friends) : Placed(v, c)
  PROVE  Mind(v, w, m)
<1>1. /\ w \in State /\ Unmoved(v, w) /\ OnlyOf(v, w, m) /\ SameChecks(v[m], w[m])
      /\ w[m].targets = t /\ w[m].friends = f /\ Balanced(v, w, m)
  BY DEF Recounted
<1>2. \A e \in Creatures \ {m} : SameLists(v[e], w[e])
  BY <1>1 DEF OnlyOf
<1>3. Exact(v) => Exact(w)
  BY <1>1, <1>2, ExactKept
<1>4. \A c \in Joined(v, w, m) : Placed(v, c)
  BY <1>1 DEF Joined
<1>5. Placed(v, m) <=> Placed(w, m)
  BY <1>1, SameAlive
<1>6. /\ v[m].listed => w[m].listed
      /\ w[m].listed => v[m].listed \/ Placed(v, m)
      /\ Checked(v, m) => Checked(w, m)
      /\ v[m].slain /\ v[m].check => w[m].check
  BY <1>1, <1>5 DEF SameChecks, Checked
<1> QED
  BY <1>1, <1>3, <1>4, <1>6 DEF Mind

LEMMA AddCheckMind ==
  ASSUME IsFiniteSet(Creatures), NEW v \in State, NEW m \in Creatures, Placed(v, m)
  PROVE  /\ Mind(v, AddCreatureCheck(v, m), m)
         /\ AddCreatureCheck(v, m)[m].check /\ SameLists(v[m], AddCreatureCheck(v, m)[m])
<1> DEFINE w == AddCreatureCheck(v, m)
<1>1. /\ w \in State /\ Unmoved(v, w) /\ OnlyOf(v, w, m) /\ SameLists(v[m], w[m])
      /\ w[m].check /\ w[m].listed /\ Balanced(v, w, m)
  BY AddCheckIs
<1> HIDE DEF w
<1>2. \A e \in Creatures \ {m} : SameLists(v[e], w[e])
  BY <1>1 DEF OnlyOf
<1>3. Exact(v) => Exact(w)
  BY <1>1, <1>2, ExactKept
<1>4. \A c \in Joined(v, w, m) : Placed(v, c)
  BY <1>1 DEF Joined, SameLists
<1>5. Placed(w, m)
  BY <1>1, SameAlive
<1>6. Mind(v, w, m)
  BY <1>1, <1>3, <1>4, <1>5 DEF Mind, Checked
<1> QED
  BY <1>1, <1>6 DEF w

LEMMA RemoveCheckMind ==
  ASSUME IsFiniteSet(Creatures), NEW v \in State, NEW m \in Creatures, ~v[m].slain
  PROVE  /\ Mind(v, RemoveCreatureCheck(v, m), m)
         /\ SameLists(v[m], RemoveCreatureCheck(v, m)[m])
         /\ Checked(v, m) => ~RemoveCreatureCheck(v, m)[m].check
<1> DEFINE w == RemoveCreatureCheck(v, m)
<1>1. /\ w \in State /\ Unmoved(v, w) /\ OnlyOf(v, w, m) /\ SameLists(v[m], w[m])
      /\ w[m].listed = v[m].listed /\ w[m].check = (v[m].check /\ ~v[m].listed) /\ Balanced(v, w, m)
  BY RemoveCheckIs
<1> HIDE DEF w
<1>2. \A e \in Creatures \ {m} : SameLists(v[e], w[e])
  BY <1>1 DEF OnlyOf
<1>3. Exact(v) => Exact(w)
  BY <1>1, <1>2, ExactKept
<1>4. \A c \in Joined(v, w, m) : Placed(v, c)
  BY <1>1 DEF Joined, SameLists
<1>5. Placed(w, m) <=> Placed(v, m)
  BY <1>1, SameAlive
<1>6. Mind(v, w, m)
  BY <1>1, <1>3, <1>4, <1>5 DEF Mind, Checked
<1> QED
  BY <1>1, <1>6 DEF w, Checked

(* Falling asleep and waking up.                                           *)
LEMMA ClearListsIs ==
  ASSUME NEW v \in State, NEW m \in Creatures
  PROVE  Recounted(v, ClearLists(v, m), m, {}, {})
<1>1. Recounted(v, ClearLists(v, m), m, v[m].targets \ v[m].targets, v[m].friends \ v[m].friends)
  BY DroppedIs DEF ClearLists
<1>2. v[m].targets \ v[m].targets = {} /\ v[m].friends \ v[m].friends = {}
  OBVIOUS
<1> QED
  BY <1>1, <1>2

LEMMA SetIdleIs ==
  ASSUME IsFiniteSet(Creatures), NEW v \in State, NEW m \in Creatures, NEW idle \in BOOLEAN,
         NEW w, w = SetIdle(v, m, idle)
  PROVE  /\ Mind(v, w, m)
         /\ ~Alive(v, m) => w = v
         /\ Alive(v, m) /\ ~idle => w[m].check /\ SameLists(v[m], w[m])
         /\ Alive(v, m) /\ idle => w[m].targets = {} /\ w[m].friends = {}
                                   /\ (Checked(v, m) => ~w[m].check)
<1>1. CASE ~Alive(v, m)
  BY <1>1, MindSelf DEF SetIdle
<1>2. CASE Alive(v, m) /\ ~idle
  <2>1. w = AddCreatureCheck(v, m) /\ Placed(v, m)
    BY <1>2 DEF SetIdle, Alive
  <2> QED
    BY <1>2, <2>1, AddCheckMind
<1>3. CASE Alive(v, m) /\ idle
  <2> DEFINE u == ClearLists(v, m)
  <2>1. w = RemoveCreatureCheck(u, m)
    BY <1>3 DEF SetIdle
  <2>2. Recounted(v, u, m, {}, {})
    BY ClearListsIs
  <2> HIDE DEF u
  <2>3. Mind(v, u, m) /\ u \in State /\ Unmoved(v, u) /\ SameChecks(v[m], u[m])
        /\ u[m].targets = {} /\ u[m].friends = {}
    BY <2>2, RecountedMind DEF Recounted
  <2>4. ~u[m].slain /\ (Checked(v, m) => Checked(u, m))
    BY <1>3, <2>3, SameAlive DEF Alive, Mind
  <2>5. Mind(u, w, m) /\ SameLists(u[m], w[m]) /\ (Checked(u, m) => ~w[m].check)
    BY <2>1, <2>3, <2>4, RemoveCheckMind
  <2>6. w \in State
    BY <2>5 DEF Mind
  <2>7. Mind(v, w, m)
    BY <2>3, <2>5, <2>6, MindThen
  <2> QED
    BY <1>3, <2>3, <2>4, <2>5, <2>7 DEF SameLists
<1> QED
  BY <1>1, <1>2, <1>3

LEMMA UpdateIdleIs ==
  ASSUME IsFiniteSet(Creatures), NEW v \in State, NEW m \in Creatures,
         NEW w, w = UpdateIdleStatus(v, m)
  PROVE  Mind(v, w, m) /\ (Alive(v, m) \/ Awake(v, m) => Awake(w, m))
<1> DEFINE idle == Quiet(v, m)
<1>1. w = SetIdle(v, m, idle) /\ idle \in BOOLEAN
  BY DEF UpdateIdleStatus, Quiet
<1>2. idle => ~v[m].condition /\ v[m].master = Nobody
  BY DEF Quiet
<1> HIDE DEF idle
<1>3. /\ Mind(v, w, m)
      /\ ~Alive(v, m) => w = v
      /\ Alive(v, m) /\ ~idle => w[m].check /\ SameLists(v[m], w[m])
      /\ Alive(v, m) /\ idle => w[m].targets = {}
  BY <1>1, SetIdleIs
<1>4. w \in State /\ Unmoved(v, w)
  BY <1>3 DEF Mind
<1>5. (Placed(w, m) <=> Placed(v, m)) /\ (Alive(w, m) <=> Alive(v, m)) /\ w[m].slain = v[m].slain
      /\ w[m].master = v[m].master /\ w[m].condition = v[m].condition
  BY <1>4, SameAlive
<1>6. ASSUME Alive(v, m) PROVE Awake(w, m)
  <2>1. ~w[m].slain
    BY <1>5, <1>6 DEF Alive
  <2> QED
    BY <1>2, <1>3, <1>5, <1>6, <2>1 DEF Awake
<1>7. ASSUME ~Alive(v, m), Awake(v, m) PROVE Awake(w, m)
  BY <1>3, <1>7
<1> QED
  BY <1>3, <1>6, <1>7

-----------------------------------------------------------------------------
(* Who is found, and who leaves.                                           *)
LEMMA AddFriendMind ==
  ASSUME IsFiniteSet(Creatures), NEW v \in State, NEW m \in Creatures, NEW c \in Creatures,
         NEW w, w = AddFriend(v, m, c)
  PROVE  /\ w \in State /\ Unmoved(v, w) /\ w[m].check = v[m].check
         /\ w[m].targets = v[m].targets
         /\ Placed(v, c) => Mind(v, w, m)
<1>1. CASE c \in v[m].friends
  <2>1. w = v
    BY <1>1 DEF AddFriend
  <2>2. Mind(v, w, m)
    BY <2>1, MindSelf
  <2> QED
    BY <1>1, <2>1, <2>2 DEF Mind
<1>2. CASE c \notin v[m].friends
  <2>1. Recounted(v, w, m, v[m].targets, v[m].friends \union {c})
    BY <1>2, AddFriendIs
  <2>2. \A d \in ((v[m].targets) \ v[m].targets) \union ((v[m].friends \union {c}) \ v[m].friends) : d = c
    OBVIOUS
  <2>3. Placed(v, c) => Mind(v, w, m)
    BY <1>2, <2>1, <2>2, RecountedMind
  <2> QED
    BY <2>1, <2>3 DEF Recounted, SameChecks
<1> QED
  BY <1>1, <1>2

LEMMA AddTargetMind ==
  ASSUME IsFiniteSet(Creatures), NEW v \in State, NEW m \in Creatures, NEW c \in Creatures,
         NEW w, w = AddTarget(v, m, c)
  PROVE  /\ w \in State /\ Unmoved(v, w) /\ w[m].check = v[m].check
         /\ w[m].targets = v[m].targets \union {c}
         /\ Placed(v, c) => Mind(v, w, m)
<1>1. CASE c \in v[m].targets
  <2>1. w = v
    BY <1>1 DEF AddTarget
  <2>2. Mind(v, w, m)
    BY <2>1, MindSelf
  <2> QED
    BY <1>1, <2>1, <2>2 DEF Mind
<1>2. CASE c \notin v[m].targets
  <2>1. Recounted(v, w, m, v[m].targets \union {c}, v[m].friends)
    BY <1>2, AddTargetIs
  <2>2. \A d \in ((v[m].targets \union {c}) \ v[m].targets) \union ((v[m].friends) \ v[m].friends) : d = c
    OBVIOUS
  <2>3. Placed(v, c) => Mind(v, w, m)
    BY <1>2, <2>1, <2>2, RecountedMind
  <2> QED
    BY <2>1, <2>3 DEF Recounted, SameChecks
<1> QED
  BY <1>1, <1>2

LEMMA RemoveFriendMind ==
  ASSUME IsFiniteSet(Creatures), NEW v \in State, NEW m \in Creatures, NEW c \in Creatures,
         NEW w, w = RemoveFriend(v, m, c)
  PROVE  /\ w \in State /\ Unmoved(v, w) /\ w[m].check = v[m].check
         /\ w[m].targets = v[m].targets
         /\ Mind(v, w, m)
<1>1. CASE c \notin v[m].friends
  <2>1. w = v
    BY <1>1 DEF RemoveFriend
  <2>2. Mind(v, w, m)
    BY <2>1, MindSelf
  <2> QED
    BY <1>1, <2>1, <2>2 DEF Mind
<1>2. CASE c \in v[m].friends
  <2>1. Recounted(v, w, m, v[m].targets, v[m].friends \ {c})
    BY <1>2, RemoveFriendIs
  <2>2. \A d \in ((v[m].targets) \ v[m].targets) \union ((v[m].friends \ {c}) \ v[m].friends) : d = c
    OBVIOUS
  <2>3. Mind(v, w, m)
    BY <1>2, <2>1, <2>2, RecountedMind
  <2> QED
    BY <2>1, <2>3 DEF Recounted, SameChecks
<1> QED
  BY <1>1, <1>2

LEMMA RemoveTargetMind ==
  ASSUME IsFiniteSet(Creatures), NEW v \in State, NEW m \in Creatures, NEW c \in Creatures,
         NEW w, w = RemoveTarget(v, m, c)
  PROVE  /\ w \in State /\ Unmoved(v, w) /\ w[m].check = v[m].check
         /\ w[m].targets = v[m].targets \ {c}
         /\ Mind(v, w, m)
<1>1. CASE c \notin v[m].targets
  <2>1. w = v
    BY <1>1 DEF RemoveTarget
  <2>2. Mind(v, w, m)
    BY <2>1, MindSelf
  <2> QED
    BY <1>1, <2>1, <2>2 DEF Mind
<1>2. CASE c \in v[m].targets
  <2>1. Recounted(v, w, m, v[m].targets \ {c}, v[m].friends)
    BY <1>2, RemoveTargetIs
  <2>2. \A d \in ((v[m].targets \ {c}) \ v[m].targets) \union ((v[m].friends) \ v[m].friends) : d = c
    OBVIOUS
  <2>3. Mind(v, w, m)
    BY <1>2, <2>1, <2>2, RecountedMind
  <2> QED
    BY <2>1, <2>3 DEF Recounted, SameChecks
<1> QED
  BY <1>1, <1>2

LEMMA FoundIs ==
  ASSUME IsFiniteSet(Creatures), NEW v \in State, NEW m \in Creatures, NEW c \in Creatures,
         NEW w, w = OnCreatureFound(v, m, c)
  PROVE  /\ w \in State
         /\ Placed(v, c) => Mind(v, w, m) /\ (Alive(v, m) \/ Awake(v, m) => Awake(w, m))
<1> DEFINE x == IF IsFriend(v, m, c) THEN AddFriend(v, m, c) ELSE v
           y == IF IsOpponent(x, m, c) THEN AddTarget(x, m, c) ELSE x
<1>1. w = UpdateIdleStatus(y, m)
  BY DEF OnCreatureFound, IfFriend, IfOpponent
<1>2. x \in State /\ Unmoved(v, x) /\ x[m].check = v[m].check /\ (Placed(v, c) => Mind(v, x, m))
  BY AddFriendMind, MindSelf DEF Mind
<1> HIDE DEF x
<1>3. y \in State /\ Unmoved(x, y) /\ y[m].check = x[m].check /\ (Placed(x, c) => Mind(x, y, m))
  BY <1>2, AddTargetMind, MindSelf DEF Mind
<1> HIDE DEF y
<1>4. Mind(y, w, m) /\ (Alive(y, m) \/ Awake(y, m) => Awake(w, m))
  BY <1>1, <1>3, UpdateIdleIs
<1>5. w \in State
  BY <1>4 DEF Mind
<1>6. ASSUME Placed(v, c) PROVE Mind(v, w, m) /\ (Alive(v, m) \/ Awake(v, m) => Awake(w, m))
  <2>1. Mind(v, x, m) /\ Mind(x, y, m)
    BY <1>2, <1>3, <1>6, SameAlive
  <2>2. Mind(v, y, m)
    BY <1>2, <1>3, <2>1, MindThen
  <2>3. Mind(v, w, m)
    BY <1>3, <1>4, <1>5, <2>2, MindThen
  <2>4. Alive(v, m) => Alive(y, m)
    BY <1>3, <2>2, SameAlive DEF Mind
  <2>5. ~Alive(v, m) /\ Awake(v, m) => Awake(w, m)
    BY <1>5, <2>3, DeadAwake
  <2> QED
    BY <1>4, <2>3, <2>4, <2>5
<1> QED
  BY <1>5, <1>6

LEMMA LeaveIs ==
  ASSUME IsFiniteSet(Creatures), NEW v \in State, NEW m \in Creatures, NEW c \in Creatures,
         NEW w, w = OnCreatureLeave(v, m, c)
  PROVE  Mind(v, w, m) /\ (Awake(v, m) => Awake(w, m))
<1> DEFINE x == IF IsFriend(v, m, c) THEN RemoveFriend(v, m, c) ELSE v
           y == RemoveTarget(x, m, c)
           z == IF y[m].targets = {} THEN UpdateIdleStatus(y, m) ELSE y
<1>1. w = IF IsOpponent(x, m, c) THEN z ELSE x
  BY DEF OnCreatureLeave, IfFriend, IfOpponent, IdleWithoutTargets
<1>2. /\ Mind(v, x, m) /\ x \in State /\ Unmoved(v, x)
      /\ x[m].check = v[m].check /\ x[m].targets = v[m].targets
  BY RemoveFriendMind, MindSelf DEF Mind
<1> HIDE DEF x
<1>3. /\ Mind(x, y, m) /\ y \in State /\ Unmoved(x, y)
      /\ y[m].check = x[m].check /\ y[m].targets = x[m].targets \ {c}
  BY <1>2, RemoveTargetMind, SMTT(60)
<1> HIDE DEF y
<1>4. /\ (Placed(x, m) <=> Placed(v, m)) /\ (Alive(x, m) <=> Alive(v, m))
      /\ x[m].master = v[m].master /\ x[m].condition = v[m].condition
      /\ x[m].pos = v[m].pos /\ x[m].slain = v[m].slain
  BY <1>2, SameAlive
<1>5. Awake(v, m) => Awake(x, m)
  BY <1>2, <1>4, <1>2, SameAlive DEF Awake
<1>6. Mind(v, y, m)
  BY <1>2, <1>3, MindThen
<1>7. CASE ~IsOpponent(x, m, c)
  BY <1>1, <1>2, <1>5, <1>7
<1>8. CASE IsOpponent(x, m, c) /\ y[m].targets = {}
  <2>1. w = UpdateIdleStatus(y, m)
    BY <1>1, <1>8
  <2>2. Mind(y, w, m) /\ (Alive(y, m) => Awake(w, m))
    BY <1>3, <2>1, UpdateIdleIs
  <2>3. w \in State
    BY <2>2 DEF Mind
  <2>4. Mind(v, w, m)
    BY <1>3, <1>6, <2>2, <2>3, MindThen
  <2>5. Alive(v, m) => Alive(y, m)
    BY <1>3, <1>6, SameAlive DEF Mind
  <2>6. ~Alive(v, m) /\ Awake(v, m) => Awake(w, m)
    BY <2>3, <2>4, DeadAwake
  <2> QED
    BY <2>2, <2>4, <2>5, <2>6
<1>9. CASE IsOpponent(x, m, c) /\ y[m].targets # {}
  <2>1. w = y
    BY <1>1, <1>9
  <2>2. /\ (Placed(y, m) <=> Placed(x, m)) /\ (Alive(y, m) <=> Alive(x, m)) /\ y[m].slain = x[m].slain
    BY <1>2, <1>3, SameAlive
  <2>3. x[m].targets # {}
    BY <1>3, <1>9
  <2>4. Awake(x, m) => Awake(y, m)
    BY <1>3, <2>2, <2>3 DEF Awake
  <2> QED
    BY <1>5, <1>6, <2>1, <2>4
<1> QED
  BY <1>7, <1>8, <1>9

(* One finds several.                                                      *)
Finds(v, m, S) == FoldSet(LAMBDA c, u : OnCreatureFound(u, m, c), v, S)

FindsBy(v, m, S, t) ==
  /\ t \in [SUBSET S -> State] /\ t[{}] = v
  /\ \A s \in SUBSET S : s # {} => t[s] = OnCreatureFound(t[s \ {Pick(s)}], m, Pick(s))

LEMMA FindSteps ==
  ASSUME IsFiniteSet(Creatures), NEW v \in State, NEW m \in Creatures, NEW S \in SUBSET Creatures
  PROVE  \E t : FindsBy(v, m, S, t) /\ t[S] = Finds(v, m, S)
<1> DEFINE F == [c \in S |-> [u \in State |-> OnCreatureFound(u, m, c)]]
           Eq(t) == t = [s \in SUBSET S |-> IF s = {} THEN v ELSE OnCreatureFound(t[s \ {Pick(s)}], m, Pick(s))]
<1>1. IsFiniteSet(S)
  BY FS_Subset
<1>2. \A c \in S, u \in State : OnCreatureFound(u, m, c) \in State
  BY FoundIs
<1>3. F \in [S -> [State -> State]] /\ \A c \in S, u \in State : F[c][u] = OnCreatureFound(u, m, c)
  BY <1>2
<1> HIDE DEF F
<1>4. PICK t : Run(F, v, S, t)
  BY <1>1, <1>3, FoldingStates
<1>5. FindsBy(v, m, S, t)
  BY <1>3, <1>4, PickIn DEF Run, FindsBy
<1>6. Eq(t)
  BY <1>5 DEF FindsBy
<1>7. Finds(v, m, S) = (CHOOSE x : Eq(x))[S]
  BY DEF Finds, FoldSet, MapThenFoldSet, Pick
<1>8. PICK x : x = (CHOOSE y : Eq(y)) /\ Eq(x)
  BY <1>6
<1>9. x[{}] = v /\ \A s \in SUBSET S : s # {} => x[s] = OnCreatureFound(x[s \ {Pick(s)}], m, Pick(s))
  BY <1>8
<1> HIDE DEF Eq
<1>10. Agree(S, t, x)
  BY <1>5, <1>9 DEF FindsBy, Agree
<1>11. t[S] = x[S]
  BY <1>1, <1>10, SameSteps
<1> QED
  BY <1>5, <1>7, <1>8, <1>11

LEMMA FindsIs ==
  ASSUME IsFiniteSet(Creatures), NEW v \in State, NEW m \in Creatures, NEW S \in SUBSET Creatures,
         NEW w, w = Finds(v, m, S)
  PROVE  w \in State /\ ((\A c \in S : Placed(v, c)) => Mind(v, w, m))
<1>0. PICK t : FindsBy(v, m, S, t) /\ t[S] = w
  BY FindSteps
<1>1. /\ t \in [SUBSET S -> State] /\ t[{}] = v /\ t[S] = w
      /\ \A s \in SUBSET S : s # {} => t[s] = OnCreatureFound(t[s \ {Pick(s)}], m, Pick(s))
  BY <1>0 DEF FindsBy
<1>2. ASSUME \A c \in S : Placed(v, c) PROVE Mind(v, w, m)
  <2> DEFINE Q == {s \in SUBSET S : Mind(v, t[s], m)}
  <2>1. {} \in Q
    BY <1>1, MindSelf
  <2>2. ASSUME NEW s \in SUBSET S, s # {}, s \ {Pick(s)} \in Q PROVE s \in Q
    <3> DEFINE u == t[s \ {Pick(s)}]
    <3>1. Pick(s) \in s /\ Pick(s) \in Creatures /\ s \ {Pick(s)} \in SUBSET S
      BY <2>2, PickIn
    <3>2. u \in State /\ t[s] \in State /\ Mind(v, u, m) /\ t[s] = OnCreatureFound(u, m, Pick(s))
      BY <1>1, <2>2, <3>1
    <3> HIDE DEF u
    <3>3. Placed(v, Pick(s)) /\ Unmoved(v, u)
      BY <1>2, <3>1, <3>2 DEF Mind
    <3>4. Placed(u, Pick(s))
      BY <3>1, <3>2, <3>3, SameAlive
    <3>5. Mind(u, t[s], m)
      BY <3>1, <3>2, <3>4, FoundIs
    <3>6. Mind(v, t[s], m)
      BY <3>2, <3>5, MindThen
    <3> QED
      BY <3>6
  <2> HIDE DEF Q
  <2>3. IsFiniteSet(S)
    BY FS_Subset
  <2>4. S \in Q
    BY <2>1, <2>2, <2>3, OneByOne
  <2> QED
    BY <1>1, <2>4 DEF Q
<1> QED
  BY <1>1, <1>2

LEMMA UpdateTargetListIs ==
  ASSUME IsFiniteSet(Creatures), NEW v \in State, NEW m \in Creatures,
         NEW w, w = UpdateTargetList(v, m)
  PROVE  Mind(v, w, m)
<1> DEFINE S == {c \in Spectators(v, v[m].pos) \ {m} : Sees(v, m, c)}
           T == {c \in v[m].targets : v[c].slain \/ ~Sees(v, m, c)}
           G == {c \in v[m].friends : v[c].slain \/ ~Sees(v, m, c)}
           u == Dropped(v, m, T, G)
<1>1. w = Finds(u, m, S)
  BY DEF UpdateTargetList, Finds, Over
<1>2. S \in SUBSET Creatures /\ \A c \in S : Placed(v, c)
  BY DEF Spectators
<1>3. T \subseteq v[m].targets /\ G \subseteq v[m].friends
  OBVIOUS
<1> HIDE DEF S, T, G
<1>4. Recounted(v, u, m, v[m].targets \ T, v[m].friends \ G)
  BY <1>3, DroppedIs
<1> HIDE DEF u
<1>5. Mind(v, u, m)
  BY <1>4, RecountedMind
<1>6. u \in State /\ \A c \in S : Placed(u, c)
  BY <1>2, <1>5, SameAlive DEF Mind
<1>7. w \in State /\ Mind(u, w, m)
  BY <1>1, <1>2, <1>6, FindsIs
<1> QED
  BY <1>5, <1>6, <1>7, MindThen

-----------------------------------------------------------------------------
(* Whom a creature attacks and follows.  Aims change to nobody, or to a    *)
(* creature that is placed and in sight, and nothing else changes.         *)
Aiming(b, t) == [b EXCEPT !.attacked = t]
Following(b, t) == [b EXCEPT !.follow = t]

SameSelf(a, b) ==
  SameBody(a, b) /\ SameLists(a, b) /\ SameChecks(a, b) /\ b.master = a.master /\ b.refs = a.refs

LEMMA AimingIs ==
  ASSUME NEW b \in Beings, NEW t \in Creatures \union {Nobody}
  PROVE  /\ Aiming(b, t) \in Beings /\ SameSelf(b, Aiming(b, t))
         /\ Aiming(b, t).attacked = t /\ Aiming(b, t).follow = b.follow
<1>1. Aiming(b, t) \in Beings
  BY DEF Aiming, Beings
<1>2. SameSelf(b, Aiming(b, t)) /\ Aiming(b, t).attacked = t /\ Aiming(b, t).follow = b.follow
  BY DEF Aiming, Beings, SameSelf, SameBody, SameLists, SameChecks
<1> QED
  BY <1>1, <1>2

LEMMA FollowingIs ==
  ASSUME NEW b \in Beings, NEW t \in Creatures \union {Nobody}
  PROVE  /\ Following(b, t) \in Beings /\ SameSelf(b, Following(b, t))
         /\ Following(b, t).follow = t /\ Following(b, t).attacked = b.attacked
<1>1. Following(b, t) \in Beings
  BY DEF Following, Beings
<1>2. SameSelf(b, Following(b, t)) /\ Following(b, t).follow = t /\ Following(b, t).attacked = b.attacked
  BY DEF Following, Beings, SameSelf, SameBody, SameLists, SameChecks
<1> QED
  BY <1>1, <1>2

Bodies(v, w) == \A c \in Creatures : SameBody(v[c], w[c])

LEMMA SameSight ==
  ASSUME NEW v \in State, NEW w \in State, Bodies(v, w), NEW c \in Creatures, NEW d \in Creatures
  PROVE  /\ Sees(w, c, d) <=> Sees(v, c, d)
         /\ Placed(w, d) <=> Placed(v, d)
         /\ Alive(w, d) <=> Alive(v, d)
BY DEF Bodies, SameBody, Sees, Near, Placed, Alive

(* What an aim may become.                                                 *)
Aimed(v, c, a, b) ==
  b = a \/ b = Nobody \/ (b \in Creatures /\ Placed(v, b) /\ Sees(v, c, b))

Turned(v, w, D) ==
  /\ w \in State
  /\ \A c \in Creatures :
       /\ SameSelf(v[c], w[c])
       /\ c \notin D => SameAims(v[c], w[c])
       /\ Aimed(v, c, v[c].attacked, w[c].attacked)
       /\ Aimed(v, c, v[c].follow, w[c].follow)

Faded(v, w) ==
  \A c \in Creatures :
    w[c].attacked \in {v[c].attacked, Nobody} /\ w[c].follow \in {v[c].follow, Nobody}

LEMMA TurnedSelf == ASSUME NEW v \in State, NEW D PROVE Turned(v, v, D) /\ Faded(v, v)
BY DEF Turned, Faded, SameSelf, SameBody, SameLists, SameChecks, SameAims, Aimed

LEMMA TurnedBodies ==
  ASSUME NEW v \in State, NEW w, NEW D, Turned(v, w, D)
  PROVE  w \in State /\ Bodies(v, w) /\ \A c \in Creatures : Summons(w, c) = Summons(v, c)
BY DEF Turned, Bodies, SameSelf, Summons

LEMMA TurnedThen ==
  ASSUME NEW u \in State, NEW v \in State, NEW w \in State, NEW D, Turned(u, v, D), Turned(v, w, D)
  PROVE  Turned(u, w, D)
<1>1. Bodies(u, v)
  BY TurnedBodies
<1>2. ASSUME NEW c \in Creatures
      PROVE  /\ Aimed(u, c, u[c].attacked, w[c].attacked)
             /\ Aimed(u, c, u[c].follow, w[c].follow)
  <2>1. \A d \in Creatures : (Sees(v, c, d) <=> Sees(u, c, d)) /\ (Placed(v, d) <=> Placed(u, d))
    BY <1>1, SameSight
  <2>2. /\ Aimed(u, c, u[c].attacked, v[c].attacked) /\ Aimed(v, c, v[c].attacked, w[c].attacked)
        /\ Aimed(u, c, u[c].follow, v[c].follow) /\ Aimed(v, c, v[c].follow, w[c].follow)
    BY DEF Turned
  <2> QED
    BY <2>1, <2>2 DEF Aimed
<1>3. ASSUME NEW c \in Creatures
      PROVE  SameSelf(u[c], w[c]) /\ (c \notin D => SameAims(u[c], w[c]))
  BY DEF Turned, SameSelf, SameBody, SameLists, SameChecks, SameAims
<1> QED
  BY <1>2, <1>3 DEF Turned

LEMMA FadedThen ==
  ASSUME NEW u \in State, NEW v \in State, NEW w \in State, Faded(u, v), Faded(v, w)
  PROVE  Faded(u, w)
BY DEF Faded

(* Aim, setFollowCreature.                                                 *)
NowAttacks(v, w, c, t) ==
  /\ w \in State /\ w[c].attacked \in {t, Nobody}
  /\ \A d \in Creatures : w[d].follow = v[d].follow /\ (d # c => w[d].attacked = v[d].attacked)
  /\ (t # Nobody => Placed(v, t)) => Turned(v, w, {c})
  /\ t = Nobody => Faded(v, w)

LEMMA AimIs ==
  ASSUME NEW v \in State, NEW c \in Creatures, NEW t \in Creatures \union {Nobody},
         NEW w, w = Aim(v, c, t)
  PROVE  NowAttacks(v, w, c, t)
<1> DEFINE a == IF t = Nobody \/ Sees(v, c, t) THEN t ELSE Nobody
           r == Aiming(v[c], a)
<1>1. w = With(v, c, r)
  BY DEF Aim, With, Aiming
<1>2. v[c] \in Beings /\ a \in Creatures \union {Nobody} /\ a \in {t, Nobody}
  BY Fields
<1>3. a = Nobody \/ (a = t /\ Sees(v, c, t))
  OBVIOUS
<1> HIDE DEF a
<1>4. r \in Beings /\ SameSelf(v[c], r) /\ r.attacked = a /\ r.follow = v[c].follow
  BY <1>2, AimingIs
<1> HIDE DEF r
<1>5. w \in State /\ w[c] = r /\ \A d \in Creatures \ {c} : w[d] = v[d]
  BY <1>1, <1>4, WithIs
<1>6. ASSUME t # Nobody => Placed(v, t) PROVE Turned(v, w, {c})
  <2>1. \A d \in Creatures : SameSelf(v[d], w[d]) /\ (d # c => SameAims(v[d], w[d]))
    BY <1>4, <1>5 DEF SameSelf, SameBody, SameLists, SameChecks, SameAims
  <2>2. \A d \in Creatures : Aimed(v, d, v[d].follow, w[d].follow)
    BY <1>4, <1>5 DEF Aimed
  <2>3. \A d \in Creatures : Aimed(v, d, v[d].attacked, w[d].attacked)
    BY <1>2, <1>3, <1>4, <1>5, <1>6 DEF Aimed
  <2> QED
    BY <1>5, <2>1, <2>2, <2>3 DEF Turned
<1> QED
  BY <1>2, <1>4, <1>5, <1>6 DEF Faded, NowAttacks

NowFollows(v, w, c, t) ==
  /\ Turned(v, w, {c}) /\ w[c].follow \in {t, Nobody}
  /\ \A d \in Creatures : w[d].attacked = v[d].attacked
  /\ t = Nobody => Faded(v, w)

LEMMA SetFollowIs ==
  ASSUME NEW v \in State, NEW c \in Creatures, NEW t \in Creatures \union {Nobody},
         t # Nobody => Placed(v, t), NEW w, w = SetFollowCreature(v, c, t)
  PROVE  NowFollows(v, w, c, t)
<1> DEFINE a == IF t = Nobody \/ Sees(v, c, t) THEN t ELSE Nobody
           r == Following(v[c], a)
<1>1. w = With(v, c, r)
  BY DEF SetFollowCreature, With, Following
<1>2. v[c] \in Beings /\ a \in Creatures \union {Nobody} /\ a \in {t, Nobody}
  BY Fields
<1>3. a = Nobody \/ (a = t /\ Sees(v, c, t))
  OBVIOUS
<1> HIDE DEF a
<1>4. r \in Beings /\ SameSelf(v[c], r) /\ r.follow = a /\ r.attacked = v[c].attacked
  BY <1>2, FollowingIs
<1> HIDE DEF r
<1>5. w \in State /\ w[c] = r /\ \A d \in Creatures \ {c} : w[d] = v[d]
  BY <1>1, <1>4, WithIs
<1>6. \A d \in Creatures : SameSelf(v[d], w[d]) /\ (d # c => SameAims(v[d], w[d]))
  BY <1>4, <1>5 DEF SameSelf, SameBody, SameLists, SameChecks, SameAims
<1>7. \A d \in Creatures : Aimed(v, d, v[d].attacked, w[d].attacked)
  BY <1>4, <1>5 DEF Aimed
<1>8. \A d \in Creatures : Aimed(v, d, v[d].follow, w[d].follow)
  BY <1>2, <1>3, <1>4, <1>5 DEF Aimed
<1>9. Turned(v, w, {c})
  BY <1>5, <1>6, <1>7, <1>8 DEF Turned
<1> QED
  BY <1>2, <1>4, <1>5, <1>9 DEF Faded, NowFollows

(* A creature and its summons.                                             *)
Band(v, c) == {c} \union Summons(v, c)

Aims(v, a, S) == FoldSet(LAMBDA c, u : Aim(u, c, a), v, S)

AimsBy(v, a, S, t) ==
  /\ t \in [SUBSET S -> State] /\ t[{}] = v
  /\ \A s \in SUBSET S : s # {} => t[s] = Aim(t[s \ {Pick(s)}], Pick(s), a)

LEMMA AimSteps ==
  ASSUME IsFiniteSet(Creatures), NEW v \in State, NEW a \in Creatures \union {Nobody}, NEW S \in SUBSET Creatures
  PROVE  \E t : AimsBy(v, a, S, t) /\ t[S] = Aims(v, a, S)
<1> DEFINE F == [c \in S |-> [u \in State |-> Aim(u, c, a)]]
           Eq(t) == t = [s \in SUBSET S |-> IF s = {} THEN v ELSE Aim(t[s \ {Pick(s)}], Pick(s), a)]
<1>1. IsFiniteSet(S)
  BY FS_Subset
<1>2. \A c \in S, u \in State : Aim(u, c, a) \in State
  BY AimIs DEF NowAttacks
<1>3. F \in [S -> [State -> State]] /\ \A c \in S, u \in State : F[c][u] = Aim(u, c, a)
  BY <1>2
<1> HIDE DEF F
<1>4. PICK t : Run(F, v, S, t)
  BY <1>1, <1>3, FoldingStates
<1>5. AimsBy(v, a, S, t)
  BY <1>3, <1>4, PickIn DEF Run, AimsBy
<1>6. Eq(t)
  BY <1>5 DEF AimsBy
<1>7. Aims(v, a, S) = (CHOOSE x : Eq(x))[S]
  BY DEF Aims, FoldSet, MapThenFoldSet, Pick
<1>8. PICK x : x = (CHOOSE y : Eq(y)) /\ Eq(x)
  BY <1>6
<1>9. x[{}] = v /\ \A s \in SUBSET S : s # {} => x[s] = Aim(x[s \ {Pick(s)}], Pick(s), a)
  BY <1>8
<1> HIDE DEF Eq
<1>10. Agree(S, t, x)
  BY <1>5, <1>9 DEF AimsBy, Agree
<1>11. t[S] = x[S]
  BY <1>1, <1>10, SameSteps
<1> QED
  BY <1>5, <1>7, <1>8, <1>11


LEMMA TurnedMore ==
  ASSUME NEW v \in State, NEW w, NEW D, NEW E, Turned(v, w, D), D \subseteq E
  PROVE  Turned(v, w, E)
BY DEF Turned

BandAttacks(v, w, c, a) ==
  /\ Turned(v, w, Band(v, c)) /\ w[c].attacked \in {a, Nobody}
  /\ \A d \in Creatures : w[d].follow = v[d].follow
  /\ a = Nobody => Faded(v, w)

LEMMA SetAttackedIs ==
  ASSUME IsFiniteSet(Creatures), NEW v \in State, NEW c \in Creatures,
         NEW a \in Creatures \union {Nobody}, a # Nobody => Placed(v, a),
         NEW w, w = SetAttackedCreature(v, c, a)
  PROVE  BandAttacks(v, w, c, a)
<1>1. CASE a # Nobody /\ ~Sees(v, c, a)
  <2>1. w = Aim(v, c, Nobody)
    BY <1>1 DEF SetAttackedCreature, Aim
  <2>2. NowAttacks(v, w, c, Nobody)
    BY <2>1, AimIs
  <2>3. /\ Turned(v, w, {c}) /\ w[c].attacked \in {a, Nobody}
        /\ \A d \in Creatures : w[d].follow = v[d].follow
    BY <2>2 DEF NowAttacks
  <2> QED
    BY <1>1, <2>3, TurnedMore DEF Band, BandAttacks
<1>2. CASE ~(a # Nobody /\ ~Sees(v, c, a))
  <2> DEFINE S == Summons(v, c)
             x == Aim(v, c, a)
             D == Band(v, c)
             Done(y) == /\ Turned(v, y, D) /\ y[c].attacked \in {a, Nobody}
                        /\ \A d \in Creatures : y[d].follow = v[d].follow
                        /\ a = Nobody => Faded(v, y)
  <2>1. w = Aims(x, a, S)
    BY <1>2 DEF SetAttackedCreature, Over, Aims
  <2>2. S \in SUBSET Creatures /\ S \subseteq D /\ {c} \subseteq D
    BY DEF Summons, Band
  <2> HIDE DEF S, D
  <2>0. x = Aim(v, c, a)
    OBVIOUS
  <2> HIDE DEF x
  <2>3. /\ Turned(v, x, {c}) /\ x[c].attacked \in {a, Nobody}
        /\ \A d \in Creatures : x[d].follow = v[d].follow
        /\ a = Nobody => Faded(v, x)
    <3>1. NowAttacks(v, x, c, a)
      BY <2>0, AimIs
    <3> QED
      BY <3>1 DEF NowAttacks
  <2>4. Turned(v, x, D)
    BY <2>2, <2>3, TurnedMore
  <2>5. x \in State
    BY <2>4 DEF Turned
  <2>6. PICK t : AimsBy(x, a, S, t) /\ t[S] = w
    BY <2>1, <2>2, <2>5, AimSteps
  <2>7. /\ t \in [SUBSET S -> State] /\ t[{}] = x
        /\ \A s \in SUBSET S : s # {} => t[s] = Aim(t[s \ {Pick(s)}], Pick(s), a)
    BY <2>6 DEF AimsBy
  <2> DEFINE Q == {s \in SUBSET S : Done(t[s])}
  <2>8. {} \in Q
    BY <2>3, <2>4, <2>7
  <2>9. ASSUME NEW s \in SUBSET S, s # {}, s \ {Pick(s)} \in Q PROVE s \in Q
    <3> DEFINE u == t[s \ {Pick(s)}]
               z == t[s]
    <3>1. Pick(s) \in s /\ Pick(s) \in Creatures /\ Pick(s) \in D /\ s \ {Pick(s)} \in SUBSET S
      BY <2>2, <2>9, PickIn
    <3>2. u \in State /\ z \in State /\ z = Aim(u, Pick(s), a)
      BY <2>7, <2>9, <3>1
    <3>3. /\ Turned(v, u, D) /\ u[c].attacked \in {a, Nobody}
          /\ \A d \in Creatures : u[d].follow = v[d].follow
          /\ a = Nobody => Faded(v, u)
      BY <2>9
    <3> HIDE DEF u, z
    <3>4. a # Nobody => Placed(u, a)
      BY <3>2, <3>3, TurnedBodies, SameSight
    <3>5. /\ z[Pick(s)].attacked \in {a, Nobody} /\ Turned(u, z, {Pick(s)})
          /\ \A d \in Creatures : z[d].follow = u[d].follow
                                  /\ (d # Pick(s) => z[d].attacked = u[d].attacked)
          /\ a = Nobody => Faded(u, z)
      <4>1. NowAttacks(u, z, Pick(s), a)
        BY <3>1, <3>2, AimIs
      <4> QED
        BY <3>4, <4>1 DEF NowAttacks
    <3>6. {Pick(s)} \subseteq D
      BY <3>1
    <3>7. Turned(u, z, D)
      BY <3>2, <3>5, <3>6, TurnedMore
    <3>8. Turned(v, z, D)
      BY <3>2, <3>3, <3>7, TurnedThen
    <3>9. a = Nobody => Faded(v, z)
      BY <3>2, <3>3, <3>5, FadedThen
    <3>10. z[c].attacked \in {a, Nobody}
      BY <3>3, <3>5
    <3>11. Done(z)
      BY <3>3, <3>5, <3>8, <3>9, <3>10
    <3> QED
      BY <3>11 DEF z
  <2> HIDE DEF Q
  <2>10. IsFiniteSet(S)
    BY <2>2, FS_Subset
  <2>11. S \in Q
    BY <2>8, <2>9, <2>10, OneByOne
  <2>12. Done(w)
    BY <2>6, <2>11 DEF Q
  <2> QED
    BY <2>12 DEF D, BandAttacks
<1> QED
  BY <1>1, <1>2

-----------------------------------------------------------------------------
(* What holds all the time, also in the middle of a call.                  *)
Gone(v, c) == v[c].life \in {"unborn", "deleted"}

(* Nothing points to who is not yet there, or no longer.                   *)
Unpointed(v) ==
  \A c \in Creatures : Gone(v, c) =>
    /\ ~v[c].listed /\ v[c].master = Nobody /\ v[c].released = 0
    /\ \A m \in Creatures : c \notin v[m].targets /\ c \notin v[m].friends

Fresh(v) ==
  \A c \in Creatures : v[c].life = "unborn" => v[c].attacked = Nobody /\ v[c].follow = Nobody

(* A master has no master, a spawned monster has none.                     *)
Flat(v) ==
  \A c \in Creatures : v[c].master # Nobody =>
    /\ v[v[c].master].master = Nobody /\ ~Gone(v, v[c].master)
    /\ c \in Monsters => Home[c] = -1

Base(v) ==
  /\ v \in State /\ Exact(v) /\ Unpointed(v) /\ Fresh(v) /\ Flat(v)
  /\ \A c \in Creatures : Checked(v, c)

(* Whom the creatures pursue is in the game and in their sight, except for *)
(* those of R who have yet to learn that x, or they themselves, went away. *)
Pursues(v, c, t) == Placed(v, c) /\ (v[c].attacked = t \/ v[c].follow = t)
Within(v, c, t) == Placed(v, t) /\ Sees(v, c, t)
Unnoticed(v, R, x, c, t) == c \in R /\ x \in {c, t} /\ ~Sees(v, c, t)

InSight(v, R, x) ==
  \A c \in Creatures, t \in Creatures :
    Pursues(v, c, t) => Within(v, c, t) \/ Unnoticed(v, R, x, c, t)

(* The monsters are awake but for those of X, and who is in the game has   *)
(* his master there, unless that is one of Y.                              *)
AllAwake(v, X) == \A m \in Monsters \ X : Awake(v, m)
Served(v, Y) ==
  \A c \in Creatures : Placed(v, c) /\ v[c].master # Nobody =>
    Placed(v, v[c].master) \/ v[c].master \in Y

Sound(v, R, x, X, Y) == Base(v) /\ InSight(v, R, x) /\ AllAwake(v, X) /\ Served(v, Y)

(* What a monster does about its lists keeps all of that.                  *)
LEMMA MindBase ==
  ASSUME NEW v, NEW w, NEW m \in Creatures, Base(v), Mind(v, w, m)
  PROVE  Base(w)
<1>1. v \in State /\ w \in State /\ Unmoved(v, w) /\ OnlyOf(v, w, m) /\ Exact(w) /\ Checked(w, m)
  BY DEF Base, Mind
<1>2. \A c \in Creatures :
        /\ (Placed(w, c) <=> Placed(v, c)) /\ (Gone(w, c) <=> Gone(v, c)) /\ w[c].life = v[c].life
        /\ w[c].master = v[c].master /\ w[c].released = v[c].released
        /\ w[c].attacked = v[c].attacked /\ w[c].follow = v[c].follow
  BY <1>1 DEF Unmoved, SameBody, SameAims, Placed, Gone
<1>3. \A c \in Creatures \ {m} :
        /\ w[c].targets = v[c].targets /\ w[c].friends = v[c].friends
        /\ w[c].check = v[c].check /\ w[c].listed = v[c].listed
  BY <1>1 DEF OnlyOf, SameLists, SameChecks
<1>4. ASSUME NEW c \in Creatures, Gone(w, c)
      PROVE  /\ ~w[c].listed /\ w[c].master = Nobody /\ w[c].released = 0
             /\ \A d \in Creatures : c \notin w[d].targets /\ c \notin w[d].friends
  <2>1. /\ ~v[c].listed /\ v[c].master = Nobody /\ v[c].released = 0
        /\ \A d \in Creatures : c \notin v[d].targets /\ c \notin v[d].friends
    BY <1>2, <1>4 DEF Base, Unpointed
  <2>2. ~Placed(v, c)
    BY <1>2, <1>4 DEF Gone, Placed
  <2>3. ~w[c].listed
    BY <1>3, <2>1, <2>2 DEF Mind
  <2>4. c \notin w[m].targets /\ c \notin w[m].friends
    BY <2>1, <2>2 DEF Mind, Joined
  <2> QED
    BY <1>2, <1>3, <2>1, <2>3, <2>4
<1>5. Unpointed(w)
  BY <1>4 DEF Unpointed
<1>6. Fresh(w)
  BY <1>2 DEF Base, Fresh
<1>7. Flat(w)
  <2>1. \A c \in Creatures : v[c].master \in Creatures \union {Nobody}
    BY <1>1, Fields
  <2> QED
    BY <1>2, <2>1 DEF Base, Flat
<1>8. \A c \in Creatures \ {m} : Checked(w, c)
  BY <1>2, <1>3 DEF Base, Checked
<1> QED
  BY <1>1, <1>5, <1>6, <1>7, <1>8 DEF Base

LEMMA MindInSight ==
  ASSUME NEW v \in State, NEW w, NEW m \in Creatures, Mind(v, w, m), NEW R, NEW x, InSight(v, R, x)
  PROVE  InSight(w, R, x)
<1>1. w \in State /\ Unmoved(v, w)
  BY DEF Mind
<1>2. Bodies(v, w)
  BY <1>1 DEF Unmoved, Bodies
<1>3. \A c, t \in Creatures : (Sees(w, c, t) <=> Sees(v, c, t)) /\ (Placed(w, t) <=> Placed(v, t))
  BY <1>1, <1>2, SameSight
<1>4. \A c, t \in Creatures : Pursues(w, c, t) <=> Pursues(v, c, t)
  BY <1>1, <1>3 DEF Unmoved, SameAims, Pursues
<1> QED
  BY <1>3, <1>4 DEF InSight, Within, Unnoticed

LEMMA OthersAwake ==
  ASSUME NEW v \in State, NEW w \in State, NEW m \in Creatures, Unmoved(v, w), OnlyOf(v, w, m),
         NEW d \in Creatures \ {m}, Awake(v, d)
  PROVE  Awake(w, d)
<1>1. /\ (Placed(w, d) <=> Placed(v, d)) /\ (Alive(w, d) <=> Alive(v, d)) /\ w[d].master = v[d].master
      /\ w[d].condition = v[d].condition /\ w[d].pos = v[d].pos /\ w[d].slain = v[d].slain
  BY SameAlive
<1>2. w[d].targets = v[d].targets /\ w[d].check = v[d].check
  BY DEF OnlyOf, SameLists, SameChecks
<1> QED
  BY <1>1, <1>2 DEF Awake

LEMMA MindSound ==
  ASSUME NEW v, NEW w, NEW m \in Creatures, NEW R, NEW x, NEW X, NEW Y, NEW Z,
         Sound(v, R, x, X, Y), Mind(v, w, m), X \subseteq Z \union {m},
         m \in Monsters => m \in Z \/ Awake(w, m)
  PROVE  Sound(w, R, x, Z, Y)
<1>1. v \in State /\ w \in State /\ Unmoved(v, w) /\ OnlyOf(v, w, m)
  BY DEF Sound, Base, Mind
<1>2. Base(w)
  BY MindBase DEF Sound
<1>3. InSight(w, R, x)
  BY <1>1, MindInSight DEF Sound
<1>4. AllAwake(w, Z)
  <2> SUFFICES ASSUME NEW d \in Monsters \ Z PROVE Awake(w, d)
    BY DEF AllAwake
  <2>1. CASE d = m
    BY <2>1
  <2>2. CASE d # m
    <3>1. d \in Creatures \ {m} /\ Awake(v, d)
      BY <2>2 DEF Sound, AllAwake, Creatures
    <3> QED
      BY <1>1, <3>1, OthersAwake
  <2> QED
    BY <2>1, <2>2
<1>5. Served(w, Y)
  <2>1. \A c \in Creatures : (Placed(w, c) <=> Placed(v, c)) /\ w[c].master = v[c].master
                             /\ v[c].master \in Creatures \union {Nobody}
    BY <1>1, SameAlive, Fields
  <2> QED
    BY <2>1 DEF Sound, Served
<1> QED
  BY <1>2, <1>3, <1>4, <1>5 DEF Sound

(* And so does what is done about aims.                                    *)
LEMMA TurnedSound ==
  ASSUME Nobody \notin Creatures, NEW v, NEW w, NEW D, NEW R, NEW x, NEW X, NEW Y,
         Sound(v, R, x, X, Y), Turned(v, w, D), \A c \in D : v[c].life # "unborn"
  PROVE  Sound(w, R, x, X, Y)
<1>1. v \in State /\ w \in State /\ Bodies(v, w)
  BY TurnedBodies DEF Sound, Base
<1>2. \A c \in Creatures :
        /\ (Placed(w, c) <=> Placed(v, c)) /\ (Gone(w, c) <=> Gone(v, c)) /\ w[c].life = v[c].life
        /\ (Alive(w, c) <=> Alive(v, c)) /\ w[c].slain = v[c].slain
        /\ w[c].condition = v[c].condition /\ w[c].pos = v[c].pos
        /\ w[c].master = v[c].master /\ w[c].released = v[c].released /\ w[c].refs = v[c].refs
        /\ w[c].targets = v[c].targets /\ w[c].friends = v[c].friends
        /\ w[c].check = v[c].check /\ w[c].listed = v[c].listed
  BY DEF Turned, SameSelf, SameBody, SameLists, SameChecks, Placed, Gone, Alive
<1>4. Exact(w)
  <2>1. \A c \in Creatures : InTargetsOf(w, c) = InTargetsOf(v, c) /\ InFriendsOf(w, c) = InFriendsOf(v, c)
    BY <1>2 DEF InTargetsOf, InFriendsOf
  <2>2. \A c \in Creatures : Held(w, c) = Held(v, c)
    BY <1>2, <2>1 DEF Held, Bit
  <2> QED
    BY <1>2, <2>2 DEF Sound, Base, Exact
<1>5. Unpointed(w)
  BY <1>2 DEF Sound, Base, Unpointed
<1>6. Fresh(w)
  BY <1>2 DEF Sound, Base, Fresh, Turned, SameAims
<1>7. \A c \in Creatures : v[c].master \in Creatures \union {Nobody}
  BY <1>1, Fields
<1>8. Flat(w)
  BY <1>2, <1>7 DEF Sound, Base, Flat
<1>9. \A c \in Creatures : Checked(w, c)
  BY <1>2 DEF Sound, Base, Checked
<1>10. AllAwake(w, X)
  BY <1>2 DEF Sound, AllAwake, Awake, Creatures
<1>11. Served(w, Y)
  BY <1>2, <1>7 DEF Sound, Served
<1>12. InSight(w, R, x)
  <2> SUFFICES ASSUME NEW c \in Creatures, NEW t \in Creatures, Pursues(w, c, t)
               PROVE  Within(w, c, t) \/ Unnoticed(w, R, x, c, t)
    BY DEF InSight
  <2>1. (Sees(w, c, t) <=> Sees(v, c, t)) /\ (Placed(w, t) <=> Placed(v, t)) /\ (Placed(w, c) <=> Placed(v, c))
    BY <1>1, SameSight
  <2>2. t # Nobody
    OBVIOUS
  <2>3. Pursues(v, c, t) \/ Within(v, c, t)
    BY <2>1, <2>2 DEF Turned, Aimed, Pursues, Within
  <2>4. Within(v, c, t) \/ Unnoticed(v, R, x, c, t) => Within(w, c, t) \/ Unnoticed(w, R, x, c, t)
    BY <2>1 DEF Within, Unnoticed
  <2> QED
    BY <2>2, <2>3, <2>4 DEF Sound, InSight
<1> QED
  BY <1>1, <1>4, <1>5, <1>6, <1>8, <1>9, <1>10, <1>11, <1>12 DEF Sound, Base

-----------------------------------------------------------------------------
(* Who is chosen, and who is lost.                                         *)
LEMMA SelectTargetIs ==
  ASSUME IsFiniteSet(Creatures), NEW v \in State, NEW m \in Creatures, NEW t \in Creatures,
         NEW w, w = SelectTarget(v, m, t)
  PROVE  Turned(v, w, Band(v, m))
<1>1. CASE ~Placed(v, t) \/ t \notin v[m].targets
  <2>1. w = v
    BY <1>1 DEF SelectTarget
  <2> QED
    BY <2>1, TurnedSelf
<1>2. CASE Placed(v, t) /\ t \in v[m].targets
  <2> DEFINE u == SetAttackedCreature(v, m, t)
  <2>1. w = SetFollowCreature(u, m, t) /\ t \in Creatures \union {Nobody}
    BY <1>2 DEF SelectTarget
  <2>2. BandAttacks(v, u, m, t)
    BY <1>2, SetAttackedIs
  <2> HIDE DEF u
  <2>3. Turned(v, u, Band(v, m))
    BY <2>2 DEF BandAttacks
  <2>4. u \in State /\ Placed(u, t)
    BY <1>2, <2>3, TurnedBodies, SameSight
  <2>5. NowFollows(u, w, m, t)
    BY <2>1, <2>4, SetFollowIs
  <2>6. Turned(u, w, {m}) /\ w \in State
    BY <2>5 DEF NowFollows, Turned
  <2>7. {m} \subseteq Band(v, m)
    BY DEF Band
  <2>8. Turned(u, w, Band(v, m))
    BY <2>4, <2>6, <2>7, TurnedMore
  <2> QED
    BY <2>3, <2>4, <2>6, <2>8, TurnedThen
<1> QED
  BY <1>1, <1>2

(* w is v, but that some aims of c and of its summons are given up.        *)
GivesUp(v, w, c) == Turned(v, w, Band(v, c)) /\ Faded(v, w)

LEMMA GivesUpSelf == ASSUME NEW v \in State, NEW c \in Creatures PROVE GivesUp(v, v, c)
BY TurnedSelf DEF GivesUp

LEMMA GivesUpThen ==
  ASSUME NEW u \in State, NEW v, NEW w, NEW c \in Creatures, GivesUp(u, v, c), GivesUp(v, w, c)
  PROVE  GivesUp(u, w, c)
<1>1. v \in State /\ w \in State /\ Turned(u, v, Band(u, c)) /\ Faded(u, v)
      /\ Turned(v, w, Band(v, c)) /\ Faded(v, w)
  BY DEF GivesUp, Turned
<1>2. Band(v, c) = Band(u, c)
  BY <1>1, TurnedBodies DEF Band
<1> QED
  BY <1>1, <1>2, TurnedThen, FadedThen DEF GivesUp

LEMMA DisappearIs ==
  ASSUME IsFiniteSet(Creatures), Nobody \notin Creatures,
         NEW v \in State, NEW c \in Creatures, NEW t \in Creatures,
         NEW w, w = OnCreatureDisappear(v, c, t)
  PROVE  GivesUp(v, w, c) /\ w[c].attacked # t /\ w[c].follow # t
<1> DEFINE u == IF v[c].attacked = t THEN SetAttackedCreature(v, c, Nobody) ELSE v
<1>0. t # Nobody
  OBVIOUS
<1>1. w = IF u[c].follow = t THEN SetFollowCreature(u, c, Nobody) ELSE u
  BY DEF OnCreatureDisappear, StopFollow, StopAttack
<1>2. GivesUp(v, u, c) /\ u[c].attacked # t
  <2>1. CASE v[c].attacked # t
    BY <2>1, GivesUpSelf
  <2>2. CASE v[c].attacked = t
    <3>1. u = SetAttackedCreature(v, c, Nobody)
      BY <2>2
    <3> HIDE DEF u
    <3>2. BandAttacks(v, u, c, Nobody)
      BY <3>1, SetAttackedIs
    <3> QED
      BY <1>0, <3>2 DEF BandAttacks, GivesUp
  <2> QED
    BY <2>1, <2>2
<1> HIDE DEF u
<1>3. u \in State
  BY <1>2 DEF GivesUp, Turned
<1>4. CASE u[c].follow # t
  BY <1>1, <1>2, <1>4
<1>5. CASE u[c].follow = t
  <2>1. w = SetFollowCreature(u, c, Nobody)
    BY <1>1, <1>5
  <2>2. NowFollows(u, w, c, Nobody)
    BY <1>3, <2>1, SetFollowIs
  <2>3. Turned(u, w, {c}) /\ Faded(u, w) /\ w[c].follow # t /\ w[c].attacked # t
    BY <1>0, <1>2, <2>2 DEF NowFollows
  <2>4. {c} \subseteq Band(u, c)
    BY DEF Band
  <2>5. GivesUp(u, w, c)
    BY <1>3, <2>3, <2>4, TurnedMore DEF GivesUp
  <2> QED
    BY <1>2, <2>3, <2>5, GivesUpThen
<1> QED
  BY <1>4, <1>5

LEMMA LoseIfIs ==
  ASSUME IsFiniteSet(Creatures), Nobody \notin Creatures,
         NEW v \in State, NEW c \in Creatures, NEW d \in Creatures, NEW t \in Creatures \union {Nobody},
         NEW w, w = LoseIf(v, c, d, t)
  PROVE  /\ GivesUp(v, w, c)
         /\ t # Nobody /\ d \in {c, t} /\ ~Sees(v, c, t) => w[c].attacked # t /\ w[c].follow # t
<1>1. CASE t # Nobody /\ d \in {c, t} /\ ~Sees(v, c, t)
  <2>1. w = OnCreatureDisappear(v, c, t) /\ t \in Creatures
    BY <1>1 DEF LoseIf
  <2> QED
    BY <2>1, DisappearIs
<1>2. CASE ~(t # Nobody /\ d \in {c, t} /\ ~Sees(v, c, t))
  <2>1. w = v
    BY <1>2 DEF LoseIf
  <2> QED
    BY <1>2, <2>1, GivesUpSelf
<1> QED
  BY <1>1, <1>2

LEMMA LoseSightIs ==
  ASSUME IsFiniteSet(Creatures), Nobody \notin Creatures,
         NEW v \in State, NEW c \in Creatures, NEW d \in Creatures,
         NEW w, w = LoseSight(v, c, d)
  PROVE  /\ GivesUp(v, w, c)
         /\ \A t \in Creatures : (w[c].attacked = t \/ w[c].follow = t) /\ d \in {c, t} => Sees(w, c, t)
<1> DEFINE f == v[c].follow
           u == LoseIf(v, c, d, f)
           a == u[c].attacked
<1>1. w = LoseIf(u, c, d, a)
  BY DEF LoseSight, LoseAttacked
<1>2. f \in Creatures \union {Nobody}
  BY Fields
<1>3. /\ GivesUp(v, u, c)
      /\ f # Nobody /\ d \in {c, f} /\ ~Sees(v, c, f) => u[c].attacked # f /\ u[c].follow # f
  <2> HIDE DEF f
  <2> QED
    BY <1>2, LoseIfIs
<1> HIDE DEF u
<1>4. u \in State /\ a \in Creatures \union {Nobody}
  BY <1>3, Fields DEF GivesUp, Turned
<1>5. /\ GivesUp(u, w, c)
      /\ a # Nobody /\ d \in {c, a} /\ ~Sees(u, c, a) => w[c].attacked # a /\ w[c].follow # a
  <2> HIDE DEF a
  <2> QED
    BY <1>1, <1>4, LoseIfIs
<1>6. GivesUp(v, w, c)
  BY <1>3, <1>5, GivesUpThen
<1>7. w \in State /\ Bodies(v, u) /\ Bodies(u, w)
  BY <1>3, <1>4, <1>5, TurnedBodies DEF GivesUp
<1>8. ASSUME NEW t \in Creatures, w[c].attacked = t \/ w[c].follow = t, d \in {c, t} PROVE Sees(w, c, t)
  <2>0. t # Nobody
    OBVIOUS
  <2>1. (Sees(w, c, t) <=> Sees(u, c, t)) /\ (Sees(u, c, t) <=> Sees(v, c, t))
    BY <1>4, <1>7, SameSight
  <2>2. CASE w[c].attacked = t
    <3>1. a = t
      BY <1>5, <2>0, <2>2 DEF GivesUp, Faded
    <3> QED
      BY <1>5, <1>8, <2>0, <2>1, <2>2, <3>1
  <2>3. CASE w[c].follow = t
    <3>1. u[c].follow = t
      BY <1>5, <2>0, <2>3 DEF GivesUp, Faded
    <3>2. f = t
      BY <1>3, <2>0, <3>1 DEF GivesUp, Faded
    <3> QED
      BY <1>3, <1>8, <2>0, <2>1, <3>1, <3>2
  <2> QED
    BY <1>8, <2>2, <2>3
<1> QED
  BY <1>6, <1>8

LEMMA BandBorn ==
  ASSUME NEW v, Base(v), NEW c \in Creatures, v[c].life # "unborn", Nobody \notin Creatures
  PROVE  \A d \in Band(v, c) : v[d].life # "unborn"
BY DEF Base, Unpointed, Gone, Band, Summons

LEMMA LoseSightSound ==
  ASSUME IsFiniteSet(Creatures), Nobody \notin Creatures, NEW v, NEW R, NEW x \in Creatures, NEW X, NEW Y,
         Sound(v, R, x, X, Y), NEW c \in Creatures, v[c].life # "unborn",
         NEW w, w = LoseSight(v, c, x)
  PROVE  GivesUp(v, w, c) /\ Sound(w, R \ {c}, x, X, Y)
<1>1. v \in State
  BY DEF Sound, Base
<1>2. /\ GivesUp(v, w, c)
      /\ \A t \in Creatures : (w[c].attacked = t \/ w[c].follow = t) /\ x \in {c, t} => Sees(w, c, t)
  BY <1>1, LoseSightIs
<1>3. Turned(v, w, Band(v, c))
  BY <1>2 DEF GivesUp
<1>4. \A d \in Band(v, c) : v[d].life # "unborn"
  BY BandBorn DEF Sound
<1>5. Sound(w, R, x, X, Y)
  BY <1>3, <1>4, TurnedSound
<1>6. InSight(w, R \ {c}, x)
  BY <1>2, <1>5 DEF Sound, InSight, Pursues, Unnoticed
<1> QED
  BY <1>2, <1>5, <1>6 DEF Sound

-----------------------------------------------------------------------------
(* Who hears that x moved from old.                                        *)
LEMMA Facts ==
  ASSUME CreaturesAssumption
  PROVE  /\ IsFiniteSet(Creatures) /\ Nobody \notin Creatures /\ Monsters \cap Players = {}
         /\ Creatures = Monsters \union Players
BY DEF CreaturesAssumption, Creatures

LEMMA MindBodies ==
  ASSUME NEW v, NEW w, NEW m, Mind(v, w, m) PROVE w \in State /\ Bodies(v, w)
BY DEF Mind, Unmoved, Bodies

LEMMA GivesUpBodies ==
  ASSUME NEW v \in State, NEW w, NEW c, GivesUp(v, w, c) PROVE w \in State /\ Bodies(v, w)
BY TurnedBodies DEF GivesUp

LEMMA BodiesThen ==
  ASSUME NEW u, NEW v, NEW w, Bodies(u, v), Bodies(v, w) PROVE Bodies(u, w)
BY DEF Bodies, SameBody

LEMMA SoundState == ASSUME NEW v, NEW R, NEW x, NEW X, NEW Y, Sound(v, R, x, X, Y) PROVE v \in State
BY DEF Sound, Base

LEMMA FoundOrLostIs ==
  ASSUME IsFiniteSet(Creatures), NEW v \in State, NEW m \in Creatures, NEW x \in Creatures, NEW old,
         Placed(v, x), Awake(v, m), NEW w, w = FoundOrLost(v, m, x, old)
  PROVE  Mind(v, w, m) /\ Awake(w, m)
<1>1. CASE w = OnCreatureFound(v, m, x)
  BY <1>1, FoundIs
<1>2. CASE w = OnCreatureLeave(v, m, x)
  BY <1>2, LeaveIs
<1>3. CASE w = v
  BY <1>3, MindSelf
<1> QED
  BY <1>1, <1>2, <1>3 DEF FoundOrLost

LEMMA UpdateIdleSound ==
  ASSUME IsFiniteSet(Creatures), NEW v, NEW R, NEW x, NEW X, NEW Y, NEW Z, NEW m \in Creatures,
         Sound(v, R, x, X, Y), Alive(v, m) \/ Awake(v, m), X \subseteq Z \union {m},
         NEW w, w = UpdateIdleStatus(v, m)
  PROVE  Sound(w, R, x, Z, Y) /\ Bodies(v, w) /\ Awake(w, m) /\ Mind(v, w, m)
<1>1. v \in State
  BY SoundState
<1>2. Mind(v, w, m) /\ Awake(w, m)
  BY <1>1, UpdateIdleIs
<1> QED
  BY <1>2, MindSound, MindBodies

LEMMA SelectSound ==
  ASSUME IsFiniteSet(Creatures), Nobody \notin Creatures,
         NEW v, NEW R, NEW x, NEW X, NEW Y, NEW m \in Creatures, NEW t \in Creatures,
         Sound(v, R, x, X, Y), v[m].life # "unborn", NEW w, w = SelectTarget(v, m, t)
  PROVE  Sound(w, R, x, X, Y) /\ Bodies(v, w)
<1>1. v \in State
  BY SoundState
<1>2. Turned(v, w, Band(v, m))
  BY <1>1, SelectTargetIs
<1>3. \A d \in Band(v, m) : v[d].life # "unborn"
  BY BandBorn DEF Sound
<1> QED
  BY <1>1, <1>2, <1>3, TurnedSound, TurnedBodies

LEMMA HearsMove ==
  ASSUME CreaturesAssumption, NEW v, NEW R, NEW x \in Creatures, NEW X, NEW Y, NEW old,
         Sound(v, R, x, X, Y), Alive(v, x), NEW d \in Creatures, v[d].life # "unborn", d \in X => d = x,
         NEW w, w = OnCreatureMove(v, d, x, old)
  PROVE  Bodies(v, w) /\ Sound(w, R \ {d}, x, X \ {d}, Y)
<1> DEFINE u == LoseSight(v, d, x)
           T == R \ {d}
<1>0. /\ IsFiniteSet(Creatures) /\ Nobody \notin Creatures /\ Monsters \cap Players = {}
      /\ Creatures = Monsters \union Players /\ v \in State
  BY Facts, SoundState
<1>1. w = IF d \in Players THEN u
          ELSE IF d = x THEN UpdateIdleStatus(UpdateTargetList(u, d), d)
          ELSE TargetWhoMoves(UpdateIdleStatus(FoundOrLost(u, d, x, old), d), d, x)
  BY DEF OnCreatureMove
<1>2. GivesUp(v, u, d) /\ Sound(u, T, x, X, Y)
  BY <1>0, LoseSightSound
<1>3. u \in State /\ Bodies(v, u)
  BY <1>0, <1>2, GivesUpBodies
<1> HIDE DEF u
<1>4. Alive(u, x) /\ Placed(u, x) /\ u[d].life # "unborn"
  BY <1>0, <1>3, SameSight DEF Alive, Bodies, SameBody
<1> HIDE DEF T
<1>5. CASE d \in Players
  <2>1. w = u /\ Monsters \ X = Monsters \ (X \ {d})
    BY <1>0, <1>1, <1>5
  <2> QED
    BY <1>2, <1>3, <2>1 DEF T, Sound, AllAwake
<1>6. CASE d \notin Players /\ d = x
  <2> DEFINE f == UpdateTargetList(u, d)
  <2>1. w = UpdateIdleStatus(f, d)
    BY <1>1, <1>6
  <2>2. Mind(u, f, d)
    BY <1>0, <1>3, UpdateTargetListIs
  <2> HIDE DEF f
  <2>3. f \in State /\ Bodies(u, f)
    BY <2>2, MindBodies
  <2>4. Sound(f, T, x, X \union {d}, Y)
    BY <1>2, <2>2, MindSound
  <2>5. Alive(f, d)
    BY <1>3, <1>4, <1>6, <2>3, SameSight
  <2>6. X \union {d} \subseteq (X \ {d}) \union {d}
    OBVIOUS
  <2>7. Sound(w, T, x, X \ {d}, Y) /\ Bodies(f, w)
    BY <1>0, <2>1, <2>4, <2>5, <2>6, UpdateIdleSound
  <2> QED
    BY <1>3, <2>3, <2>7, BodiesThen DEF T
<1>7. CASE d \notin Players /\ d # x
  <2> DEFINE f == FoundOrLost(u, d, x, old)
             g == UpdateIdleStatus(f, d)
  <2>1. w = TargetWhoMoves(g, d, x)
    BY <1>1, <1>7
  <2>2. d \in Monsters \ X /\ Awake(u, d) /\ X \ {d} = X /\ X \subseteq X \union {d}
    BY <1>0, <1>2, <1>7 DEF Sound, AllAwake
  <2>3. Mind(u, f, d) /\ Awake(f, d)
    BY <1>0, <1>3, <1>4, <2>2, FoundOrLostIs
  <2>4. g = UpdateIdleStatus(f, d)
    OBVIOUS
  <2> HIDE DEF f, g
  <2>5. f \in State /\ Bodies(u, f)
    BY <2>3, MindBodies
  <2>6. Sound(f, T, x, X, Y)
    BY <1>2, <2>2, <2>3, MindSound
  <2>7. Sound(g, T, x, X, Y) /\ Bodies(f, g)
    BY <1>0, <2>2, <2>3, <2>4, <2>6, UpdateIdleSound
  <2>8. Bodies(v, g)
    BY <1>3, <2>5, <2>7, BodiesThen
  <2>9. g[d].life # "unborn"
    BY <2>8 DEF Bodies, SameBody
  <2>10. w = g \/ w = SelectTarget(g, d, x)
    BY <2>1 DEF TargetWhoMoves
  <2>11. CASE w = g
    BY <2>2, <2>7, <2>8, <2>11 DEF T
  <2>12. CASE w = SelectTarget(g, d, x)
    <3>1. Sound(w, T, x, X, Y) /\ Bodies(g, w)
      BY <1>0, <2>7, <2>9, <2>12, SelectSound
    <3> QED
      BY <2>2, <2>8, <3>1, BodiesThen DEF T
  <2> QED
    BY <2>10, <2>11, <2>12
<1> QED
  BY <1>5, <1>6, <1>7

LEMMA MoveType ==
  ASSUME IsFiniteSet(Creatures), Nobody \notin Creatures,
         NEW v \in State, NEW x \in Creatures, NEW old, NEW d \in Creatures
  PROVE  OnCreatureMove(v, d, x, old) \in State
<1> DEFINE u == LoseSight(v, d, x)
           f == UpdateTargetList(u, d)
           g == FoundOrLost(u, d, x, old)
           h == UpdateIdleStatus(g, d)
           w == OnCreatureMove(v, d, x, old)
<1>1. \/ w = u
      \/ w = UpdateIdleStatus(f, d)
      \/ w = h \/ w = SelectTarget(h, d, x)
  BY DEF OnCreatureMove, TargetWhoMoves
<1>2. g = u \/ g = OnCreatureFound(u, d, x) \/ g = OnCreatureLeave(u, d, x)
  BY DEF FoundOrLost
<1>3. u = LoseSight(v, d, x) /\ f = UpdateTargetList(u, d) /\ h = UpdateIdleStatus(g, d)
  OBVIOUS
<1> HIDE DEF u, f, g, h, w
<1>4. GivesUp(v, u, d)
  BY <1>3, LoseSightIs
<1>5. u \in State
  BY <1>4, GivesUpBodies
<1>6. Mind(u, f, d)
  BY <1>3, <1>5, UpdateTargetListIs
<1>7. g \in State
  BY <1>2, <1>5, FoundIs, LeaveIs, MindBodies
<1>8. Mind(g, h, d)
  BY <1>3, <1>7, UpdateIdleIs
<1>9. f \in State /\ h \in State
  BY <1>6, <1>8, MindBodies
<1>10. UpdateIdleStatus(f, d) \in State
  BY <1>9, UpdateIdleIs, MindBodies
<1>11. Turned(h, SelectTarget(h, d, x), Band(h, d))
  BY <1>9, SelectTargetIs
<1>12. w \in State
  BY <1>1, <1>5, <1>9, <1>10, <1>11, TurnedBodies
<1> QED
  BY <1>12 DEF w

Hears(v, x, old, S) == FoldSet(LAMBDA c, u : OnCreatureMove(u, c, x, old), v, S)

HearsBy(v, x, old, S, t) ==
  /\ t \in [SUBSET S -> State] /\ t[{}] = v
  /\ \A s \in SUBSET S : s # {} => t[s] = OnCreatureMove(t[s \ {Pick(s)}], Pick(s), x, old)

LEMMA MoveSteps ==
  ASSUME IsFiniteSet(Creatures), Nobody \notin Creatures, NEW v \in State,
         NEW x \in Creatures, NEW old, NEW S \in SUBSET Creatures
  PROVE  \E t : HearsBy(v, x, old, S, t) /\ t[S] = Hears(v, x, old, S)
<1> DEFINE F == [c \in S |-> [u \in State |-> OnCreatureMove(u, c, x, old)]]
           Eq(t) == t = [s \in SUBSET S |-> IF s = {} THEN v ELSE OnCreatureMove(t[s \ {Pick(s)}], Pick(s), x, old)]
<1>1. IsFiniteSet(S)
  BY FS_Subset
<1>2. \A c \in S, u \in State : OnCreatureMove(u, c, x, old) \in State
  BY MoveType
<1>3. F \in [S -> [State -> State]] /\ \A c \in S, u \in State : F[c][u] = OnCreatureMove(u, c, x, old)
  BY <1>2
<1> HIDE DEF F
<1>4. PICK t : Run(F, v, S, t)
  BY <1>1, <1>3, FoldingStates
<1>5. HearsBy(v, x, old, S, t)
  BY <1>3, <1>4, PickIn DEF Run, HearsBy
<1>6. Eq(t)
  BY <1>5 DEF HearsBy
<1>7. Hears(v, x, old, S) = (CHOOSE q : Eq(q))[S]
  BY DEF Hears, FoldSet, MapThenFoldSet, Pick
<1> HIDE DEF Eq
<1>8. PICK q : q = (CHOOSE p : Eq(p)) /\ Eq(q)
  BY <1>6
<1>9. q[{}] = v /\ \A s \in SUBSET S : s # {} => q[s] = OnCreatureMove(q[s \ {Pick(s)}], Pick(s), x, old)
  BY <1>8 DEF Eq
<1>10. Agree(S, t, q)
  BY <1>5, <1>9 DEF HearsBy, Agree
<1>11. t[S] = q[S]
  BY <1>1, <1>10, SameSteps
<1> QED
  BY <1>5, <1>7, <1>8, <1>11


LEMMA HearsIs ==
  ASSUME CreaturesAssumption, NEW v, NEW x \in Creatures, NEW Y, NEW old, NEW S \in SUBSET Creatures,
         Sound(v, S, x, {x}, Y), Alive(v, x), x \in S, \A d \in S : v[d].life # "unborn",
         NEW w, w = Hears(v, x, old, S)
  PROVE  Bodies(v, w) /\ Sound(w, {}, x, {}, Y)
<1>0. IsFiniteSet(Creatures) /\ Nobody \notin Creatures /\ v \in State /\ IsFiniteSet(S)
  BY Facts, SoundState, FS_Subset
<1>1. PICK t : HearsBy(v, x, old, S, t) /\ t[S] = w
  BY <1>0, MoveSteps
<1>2. /\ t \in [SUBSET S -> State] /\ t[{}] = v
      /\ \A s \in SUBSET S : s # {} => t[s] = OnCreatureMove(t[s \ {Pick(s)}], Pick(s), x, old)
  BY <1>1 DEF HearsBy
<1> DEFINE Q == {s \in SUBSET S : Bodies(v, t[s]) /\ Sound(t[s], S \ s, x, {x} \ s, Y)}
<1>3. {} \in Q
  <2>1. Bodies(v, v) /\ S \ {} = S /\ {x} \ {} = {x}
    BY DEF Bodies, SameBody
  <2> QED
    BY <1>2, <2>1
<1>4. ASSUME NEW s \in SUBSET S, s # {}, s \ {Pick(s)} \in Q PROVE s \in Q
  <2> DEFINE u == t[s \ {Pick(s)}]
             z == t[s]
             d == Pick(s)
             R == S \ (s \ {Pick(s)})
             X == {x} \ (s \ {Pick(s)})
  <2>1. d \in s /\ d \in Creatures /\ d \in S /\ s \ {d} \in SUBSET S
    BY <1>4, PickIn
  <2>2. u \in State /\ z = OnCreatureMove(u, d, x, old) /\ Bodies(v, u) /\ Sound(u, R, x, X, Y)
    BY <1>2, <1>4, <2>1
  <2>3. R \ {d} = S \ s /\ X \ {d} = {x} \ s /\ (d \in X => d = x)
    BY <2>1
  <2> HIDE DEF u, z, d, R, X
  <2>4. Alive(u, x) /\ u[d].life # "unborn"
    BY <1>0, <2>1, <2>2, SameSight DEF Bodies, SameBody
  <2>5. Bodies(u, z) /\ Sound(z, R \ {d}, x, X \ {d}, Y)
    BY <2>1, <2>2, <2>3, <2>4, HearsMove
  <2>6. Bodies(v, z) /\ Sound(z, S \ s, x, {x} \ s, Y)
    BY <2>2, <2>3, <2>5, BodiesThen
  <2> QED
    BY <2>6 DEF z
<1> HIDE DEF Q
<1>5. S \in Q
  BY <1>0, <1>3, <1>4, OneByOne
<1>6. S \ S = {} /\ {x} \ S = {}
  OBVIOUS
<1> QED
  BY <1>1, <1>5, <1>6 DEF Q

-----------------------------------------------------------------------------
(* A summon gets a master, or loses him.                                   *)
Serving(b, c) == [b EXCEPT !.master = c]
Charged(b, n) == [b EXCEPT !.refs = @ + n]

LEMMA ServingIs ==
  ASSUME NEW b \in Beings, NEW c \in Creatures \union {Nobody}
  PROVE  /\ Serving(b, c) \in Beings /\ SameBody(b, Serving(b, c)) /\ SameAims(b, Serving(b, c))
         /\ SameLists(b, Serving(b, c)) /\ SameChecks(b, Serving(b, c))
         /\ Serving(b, c).master = c /\ Serving(b, c).refs = b.refs
<1>1. Serving(b, c) \in Beings
  BY DEF Beings, Serving
<1>2. /\ SameBody(b, Serving(b, c)) /\ SameAims(b, Serving(b, c))
      /\ SameLists(b, Serving(b, c)) /\ SameChecks(b, Serving(b, c))
      /\ Serving(b, c).master = c /\ Serving(b, c).refs = b.refs
  BY DEF Beings, Serving, SameBody, SameAims, SameLists, SameChecks
<1> QED
  BY <1>1, <1>2

LEMMA ChargedIs ==
  ASSUME NEW b \in Beings, NEW n \in Int
  PROVE  Charged(b, n) \in Beings /\ Alike(b, Charged(b, n)) /\ Charged(b, n).refs = b.refs + n
<1>1. Charged(b, n) \in Beings
  <2> DEFINE k == b.refs + n
  <2>1. k \in Int /\ Charged(b, n) = [b EXCEPT !.refs = k]
    BY DEF Beings, Charged
  <2> HIDE DEF k
  <2> QED
    BY <2>1 DEF Beings
<1>2. Alike(b, Charged(b, n)) /\ Charged(b, n).refs = b.refs + n
  BY DEF Beings, Charged, Alike, SameBody, SameAims, SameLists, SameChecks
<1> QED
  BY <1>1, <1>2

NowServes(v, w, s, c) ==
  /\ w \in State /\ \A e \in Creatures \ {s} : w[e] = v[e]
  /\ SameBody(v[s], w[s]) /\ SameAims(v[s], w[s]) /\ SameLists(v[s], w[s]) /\ SameChecks(v[s], w[s])
  /\ w[s].master = c
  /\ Exact(v) => Exact(w)

LEMMA SetMasterIs ==
  ASSUME IsFiniteSet(Creatures), NEW v \in State, NEW s \in Creatures,
         NEW c \in Creatures \union {Nobody}, NEW w, w = SetMaster(v, s, c)
  PROVE  NowServes(v, w, s, c)
<1> DEFINE n == (IF c # Nobody THEN 1 ELSE 0) - (IF v[s].master # Nobody THEN 1 ELSE 0)
           b == Serving(v[s], c)
           r == Charged(b, n)
           u == With(v, s, b)
<1>1. v[s] \in Beings /\ n \in Int /\ n = Bit(c # Nobody) - Bit(v[s].master # Nobody)
  BY Fields DEF Bit
<1>2. w = AddRefs(u, {s}, n)
  BY DEF SetMaster, With, Serving
<1> HIDE DEF n
<1>3. /\ b \in Beings /\ SameBody(v[s], b) /\ SameAims(v[s], b) /\ SameLists(v[s], b)
      /\ SameChecks(v[s], b) /\ b.master = c /\ b.refs = v[s].refs
  BY <1>1, ServingIs
<1> HIDE DEF b
<1>4. u \in State /\ u[s] = b /\ \A e \in Creatures \ {s} : u[e] = v[e]
  BY <1>3, WithIs
<1> HIDE DEF u
<1>5. r \in Beings /\ Alike(b, r) /\ r.refs = b.refs + n
  BY <1>1, <1>3, ChargedIs
<1>6. w \in State
  BY <1>1, <1>2, <1>4, AddRefsIs
<1>7. w[s] = r /\ \A e \in Creatures \ {s} : w[e] = u[e]
  BY <1>2, <1>4 DEF AddRefs, Charged
<1> HIDE DEF r
<1>8. /\ SameBody(v[s], w[s]) /\ SameAims(v[s], w[s]) /\ SameLists(v[s], w[s]) /\ SameChecks(v[s], w[s])
      /\ w[s].master = c /\ w[s].refs = v[s].refs + n
  BY <1>3, <1>5, <1>7 DEF Alike, SameBody, SameAims, SameLists, SameChecks
<1>9. \A e \in Creatures \ {s} : w[e] = v[e]
  BY <1>4, <1>7
<1>10. BalancedAt(v, w, s)
  <2>1. v[s].refs \in Int /\ v[s].released \in Nat
    BY Fields
  <2>2. /\ Bit(w[s].listed) - Bit(v[s].listed) = 0 /\ w[s].released - v[s].released = 0
        /\ Bit(Placed(w, s)) - Bit(Placed(v, s)) = 0
    BY <1>8, <2>1 DEF SameChecks, SameBody, Placed, Bit
  <2>3. w[s].refs = v[s].refs + (Bit(w[s].master # Nobody) - Bit(v[s].master # Nobody))
        /\ Bit(w[s].master # Nobody) - Bit(v[s].master # Nobody) \in Int
    BY <1>1, <1>8 DEF Bit
  <2> QED
    BY <2>1, <2>2, <2>3 DEF BalancedAt
<1>11. Balanced(v, w, s)
  BY <1>6, <1>8, <1>9, <1>10, BalancedOne
<1>12. \A e \in Creatures \ {s} : SameLists(v[e], w[e])
  BY <1>9 DEF SameLists
<1>13. Exact(v) => Exact(w)
  BY <1>6, <1>11, <1>12, ExactKept
<1> QED
  BY <1>6, <1>8, <1>9, <1>13 DEF NowServes

(* Whom c may have for a summon.                                           *)
MayServe(v, s, c) ==
  \/ c = Nobody
  \/ /\ c \in Creatures \ {s} /\ v[c].master = Nobody /\ Placed(v, c) /\ Placed(v, s) /\ v[s].check
     /\ s \in Monsters => Home[s] = -1
     /\ \A e \in Creatures : v[e].master # s

LEMMA ServesSound ==
  ASSUME Nobody \notin Creatures, NEW v, NEW R, NEW x, NEW X, NEW Y, Sound(v, R, x, X, Y),
         NEW s \in Creatures, NEW c \in Creatures \union {Nobody}, MayServe(v, s, c),
         NEW w, NowServes(v, w, s, c)
  PROVE  Sound(w, R, x, X, Y) /\ Bodies(v, w)
<1>0. v \in State /\ w \in State /\ Exact(w)
  BY DEF Sound, Base, NowServes
<1>1. \A e \in Creatures :
        /\ SameBody(v[e], w[e]) /\ SameAims(v[e], w[e]) /\ SameLists(v[e], w[e]) /\ SameChecks(v[e], w[e])
        /\ e # s => w[e].master = v[e].master
  BY DEF NowServes, SameBody, SameAims, SameLists, SameChecks
<1>2. w[s].master = c
  BY DEF NowServes
<1>3. Bodies(v, w)
  BY <1>1 DEF Bodies
<1>4. \A e \in Creatures :
        /\ (Placed(w, e) <=> Placed(v, e)) /\ (Gone(w, e) <=> Gone(v, e)) /\ w[e].life = v[e].life
        /\ (Alive(w, e) <=> Alive(v, e)) /\ w[e].slain = v[e].slain
        /\ w[e].condition = v[e].condition /\ w[e].pos = v[e].pos /\ w[e].released = v[e].released
        /\ w[e].attacked = v[e].attacked /\ w[e].follow = v[e].follow
        /\ w[e].targets = v[e].targets /\ w[e].friends = v[e].friends
        /\ w[e].check = v[e].check /\ w[e].listed = v[e].listed
        /\ v[e].master \in Creatures \union {Nobody}
  BY <1>0, <1>1, Fields DEF SameBody, SameAims, SameLists, SameChecks, Placed, Gone, Alive
<1>5. c # Nobody => ~Gone(v, s) /\ ~Gone(v, c)
  BY DEF MayServe, Placed, Gone
<1>6. Unpointed(w)
  BY <1>1, <1>2, <1>4, <1>5 DEF Sound, Base, Unpointed
<1>7. Fresh(w)
  BY <1>4 DEF Sound, Base, Fresh
<1>8. Flat(w)
  <2> SUFFICES ASSUME NEW e \in Creatures, w[e].master # Nobody
               PROVE  /\ w[w[e].master].master = Nobody /\ ~Gone(w, w[e].master)
                      /\ e \in Monsters => Home[e] = -1
    BY DEF Flat
  <2>1. CASE e = s
    BY <1>1, <1>2, <1>4, <1>5, <2>1 DEF MayServe
  <2>2. CASE e # s
    <3> DEFINE o == v[e].master
    <3>1. w[e].master = o /\ o \in Creatures /\ v[o].master = Nobody /\ ~Gone(v, o)
          /\ (e \in Monsters => Home[e] = -1)
      BY <1>1, <1>4, <2>2 DEF Sound, Base, Flat
    <3>2. o = s => c = Nobody
      BY DEF MayServe
    <3> HIDE DEF o
    <3> QED
      BY <1>1, <1>2, <1>4, <3>1, <3>2
  <2> QED
    BY <2>1, <2>2
<1>9. \A e \in Creatures : Checked(w, e)
  BY <1>4 DEF Sound, Base, Checked
<1>10. AllAwake(w, X)
  <2> SUFFICES ASSUME NEW m \in Monsters \ X PROVE Awake(w, m)
    BY DEF AllAwake
  <2>1. m \in Creatures /\ Awake(v, m)
    BY DEF Sound, AllAwake, Creatures
  <2>2. m = s => c = Nobody \/ w[m].check
    BY <1>4 DEF MayServe
  <2> QED
    BY <1>1, <1>2, <1>4, <2>1, <2>2 DEF Awake
<1>11. Served(w, Y)
  BY <1>1, <1>2, <1>4 DEF Sound, Served, MayServe
<1>12. InSight(w, R, x)
  <2>1. \A e, t \in Creatures : (Sees(w, e, t) <=> Sees(v, e, t))
    BY <1>0, <1>3, SameSight
  <2> QED
    BY <1>4, <2>1 DEF Sound, InSight, Pursues, Within, Unnoticed
<1> QED
  BY <1>0, <1>3, <1>6, <1>7, <1>8, <1>9, <1>10, <1>11, <1>12 DEF Sound, Base

-----------------------------------------------------------------------------
(* Somebody is removed: nothing is gained, only those of G leave the game. *)
Shrinks(v, w, G) ==
  /\ w \in State /\ Faded(v, w)
  /\ \A e \in Creatures :
       /\ w[e].master \in {v[e].master, Nobody} /\ w[e].pos = v[e].pos
       /\ e \notin G => SameBody(v[e], w[e])
       /\ w[e].life \in {v[e].life, "removed"}

LEMMA ShrinksSelf == ASSUME NEW v \in State, NEW G PROVE Shrinks(v, v, G)
BY DEF Shrinks, Faded, SameBody

LEMMA ShrinksThen ==
  ASSUME NEW u, NEW v, NEW w, NEW G, Shrinks(u, v, G), Shrinks(v, w, G)
  PROVE  Shrinks(u, w, G)
<1>1. Faded(u, w)
  BY DEF Shrinks, Faded
<1>2. ASSUME NEW e \in Creatures
      PROVE  /\ w[e].master \in {u[e].master, Nobody} /\ w[e].pos = u[e].pos
             /\ e \notin G => SameBody(u[e], w[e])
             /\ w[e].life \in {u[e].life, "removed"}
  BY DEF Shrinks, SameBody
<1> QED
  BY <1>1, <1>2 DEF Shrinks

LEMMA ShrinksMore ==
  ASSUME NEW v, NEW w, NEW G, NEW H, Shrinks(v, w, G), G \subseteq H PROVE Shrinks(v, w, H)
BY DEF Shrinks

LEMMA GivesUpShrinks ==
  ASSUME NEW v \in State, NEW w, NEW c, NEW G, GivesUp(v, w, c) PROVE Shrinks(v, w, G)
BY DEF GivesUp, Turned, Shrinks, SameSelf, SameBody

LEMMA MindShrinks ==
  ASSUME NEW v \in State, NEW w, NEW m, NEW G, Mind(v, w, m)
  PROVE  Shrinks(v, w, G) /\ \A e \in Creatures : w[e].attacked = v[e].attacked /\ w[e].follow = v[e].follow
BY DEF Mind, Unmoved, SameAims, Faded, Shrinks, SameBody

LEMMA FreedShrinks ==
  ASSUME NEW v \in State, NEW w, NEW s \in Creatures, NEW G, NowServes(v, w, s, Nobody)
  PROVE  Shrinks(v, w, G) /\ \A e \in Creatures : w[e].attacked = v[e].attacked /\ w[e].follow = v[e].follow
<1>1. \A e \in Creatures : SameBody(v[e], w[e]) /\ SameAims(v[e], w[e])
                           /\ w[e].master \in {v[e].master, Nobody}
  BY DEF NowServes, SameBody, SameAims
<1> QED
  BY <1>1 DEF NowServes, Shrinks, Faded, SameBody, SameAims

(* c hears that it is removed itself.                                      *)
Forgot(v, d, c) == v[d].attacked # c /\ v[d].follow # c

LEMMA ForgotStays ==
  ASSUME Nobody \notin Creatures, NEW v, NEW w, NEW G, Shrinks(v, w, G),
         NEW c \in Creatures, NEW d \in Creatures, Forgot(v, d, c)
  PROVE  Forgot(w, d, c)
BY DEF Shrinks, Faded, Forgot

Born(v, d) == v[d].life # "unborn"

LEMMA LeaveMasterSound ==
  ASSUME IsFiniteSet(Creatures), Nobody \notin Creatures, NEW v \in State,
         NEW c \in Creatures, NEW w, w = LeaveMaster(v, c)
  PROVE  /\ Shrinks(v, w, {}) /\ \A e \in Creatures : w[e].attacked = v[e].attacked /\ w[e].follow = v[e].follow
         /\ \A R, x, X, Y : Sound(v, R, x, X, Y) => Sound(w, R, x, X, Y)
<1>1. CASE w = v
  BY <1>1, ShrinksSelf
<1>2. CASE w = SetMaster(v, c, Nobody)
  <2>1. NowServes(v, w, c, Nobody)
    BY <1>2, SetMasterIs
  <2>2. MayServe(v, c, Nobody)
    BY DEF MayServe
  <2>3. ASSUME NEW R, NEW x, NEW X, NEW Y, Sound(v, R, x, X, Y) PROVE Sound(w, R, x, X, Y)
    BY <2>1, <2>2, <2>3, ServesSound
  <2> QED
    BY <2>1, <2>3, FreedShrinks
<1> QED
  BY <1>1, <1>2 DEF LeaveMaster

LEMMA OwnRemoval ==
  ASSUME CreaturesAssumption, NEW v \in State, NEW c \in Creatures, NEW w, w = OnOwnRemoval(v, c)
  PROVE  /\ Shrinks(v, w, {}) /\ Forgot(w, c, c)
         /\ \A R, x, X, Y : Sound(v, R, x, X, Y) /\ Born(v, c) /\ c \in X => Sound(w, R, x, X, Y)
<1>0. IsFiniteSet(Creatures) /\ Nobody \notin Creatures
  BY Facts
<1> DEFINE a == OnCreatureDisappear(v, c, c)
           b == LeaveMaster(a, c)
<1>1. w = b \/ w = SetIdle(b, c, TRUE)
  BY DEF OnOwnRemoval
<1>2. GivesUp(v, a, c) /\ a[c].attacked # c /\ a[c].follow # c
  BY <1>0, DisappearIs
<1>3. b = LeaveMaster(a, c)
  OBVIOUS
<1> HIDE DEF a, b
<1>4. a \in State /\ Shrinks(v, a, {}) /\ Bodies(v, a)
  BY <1>2, GivesUpBodies, GivesUpShrinks
<1>5. /\ Shrinks(a, b, {}) /\ \A e \in Creatures : b[e].attacked = a[e].attacked /\ b[e].follow = a[e].follow
      /\ \A R, x, X, Y : Sound(a, R, x, X, Y) => Sound(b, R, x, X, Y)
  BY <1>0, <1>3, <1>4, LeaveMasterSound
<1>6. b \in State
  BY <1>5 DEF Shrinks
<1>7. Mind(b, w, c)
  <2>1. CASE w = b
    BY <1>6, <2>1, MindSelf
  <2>2. CASE w = SetIdle(b, c, TRUE)
    BY <1>0, <1>6, <2>2, SetIdleIs
  <2> QED
    BY <1>1, <2>1, <2>2
<1>8. Shrinks(b, w, {}) /\ \A e \in Creatures : w[e].attacked = b[e].attacked /\ w[e].follow = b[e].follow
  BY <1>6, <1>7, MindShrinks
<1>9. Shrinks(v, b, {})
  BY <1>4, <1>5, ShrinksThen
<1>10. Shrinks(v, w, {})
  BY <1>8, <1>9, ShrinksThen
<1>11. Forgot(w, c, c)
  BY <1>2, <1>5, <1>8 DEF Forgot
<1>12. ASSUME NEW R, NEW x, NEW X, NEW Y, Sound(v, R, x, X, Y), Born(v, c), c \in X
       PROVE  Sound(w, R, x, X, Y)
  <2>1. \A d \in Band(v, c) : v[d].life # "unborn"
    BY <1>0, <1>12, BandBorn DEF Sound, Born
  <2>2. Sound(a, R, x, X, Y)
    BY <1>0, <1>2, <1>12, <2>1, TurnedSound DEF GivesUp
  <2>3. Sound(b, R, x, X, Y)
    BY <1>5, <2>2
  <2> QED
    BY <1>7, <1>12, <2>3, MindSound
<1> QED
  BY <1>10, <1>11, <1>12

LEMMA OtherRemoved ==
  ASSUME CreaturesAssumption, NEW v \in State, NEW c \in Creatures, NEW d \in Creatures,
         NEW w, w = OnOtherRemoved(v, d, c)
  PROVE  /\ Shrinks(v, w, {}) /\ Forgot(w, d, c)
         /\ \A R, x, X, Y : Sound(v, R, x, X, Y) /\ Born(v, d) => Sound(w, R, x, X, Y)
<1>0. IsFiniteSet(Creatures) /\ Nobody \notin Creatures
  BY Facts
<1> DEFINE a == OnCreatureDisappear(v, d, c)
<1>1. w = a \/ w = OnCreatureLeave(a, d, c)
  BY DEF OnOtherRemoved
<1>2. GivesUp(v, a, d) /\ a[d].attacked # c /\ a[d].follow # c
  BY <1>0, DisappearIs
<1> HIDE DEF a
<1>3. a \in State /\ Shrinks(v, a, {})
  BY <1>2, GivesUpBodies, GivesUpShrinks
<1>4. Mind(a, w, d) /\ (Awake(a, d) => Awake(w, d))
  <2>1. CASE w = a
    BY <1>3, <2>1, MindSelf
  <2>2. CASE w = OnCreatureLeave(a, d, c)
    BY <1>0, <1>3, <2>2, LeaveIs
  <2> QED
    BY <1>1, <2>1, <2>2
<1>5. Shrinks(a, w, {}) /\ \A e \in Creatures : w[e].attacked = a[e].attacked /\ w[e].follow = a[e].follow
  BY <1>3, <1>4, MindShrinks
<1>6. Shrinks(v, w, {})
  BY <1>3, <1>5, ShrinksThen
<1>7. Forgot(w, d, c)
  BY <1>2, <1>5 DEF Forgot
<1>8. ASSUME NEW R, NEW x, NEW X, NEW Y, Sound(v, R, x, X, Y), Born(v, d)
      PROVE  Sound(w, R, x, X, Y)
  <2>1. \A e \in Band(v, d) : v[e].life # "unborn"
    BY <1>0, <1>8, BandBorn DEF Sound, Born
  <2>2. Sound(a, R, x, X, Y)
    BY <1>0, <1>2, <1>8, <2>1, TurnedSound DEF GivesUp
  <2>3. d \in Monsters => d \in X \/ Awake(w, d)
    BY <1>4, <2>2 DEF Sound, AllAwake
  <2> QED
    BY <1>4, <2>2, <2>3, MindSound
<1> QED
  BY <1>6, <1>7, <1>8

(* All of S hear that c is removed.                                        *)
HearRemoval(v, c, d) == IF d = c THEN OnOwnRemoval(v, c) ELSE OnOtherRemoved(v, d, c)

LEMMA RemovalHeard ==
  ASSUME CreaturesAssumption, NEW v \in State, NEW c \in Creatures, NEW d \in Creatures,
         NEW w, w = HearRemoval(v, c, d)
  PROVE  /\ Shrinks(v, w, {}) /\ Forgot(w, d, c)
         /\ \A R, x, X, Y : Sound(v, R, x, X, Y) /\ Born(v, d) /\ c \in X => Sound(w, R, x, X, Y)
<1>1. CASE d = c
  BY <1>1, OwnRemoval DEF HearRemoval
<1>2. CASE d # c
  BY <1>2, OtherRemoved DEF HearRemoval
<1> QED
  BY <1>1, <1>2

LEMMA RemovalHeardType ==
  ASSUME CreaturesAssumption, NEW v \in State, NEW c \in Creatures, NEW d \in Creatures
  PROVE  HearRemoval(v, c, d) \in State
BY RemovalHeard DEF Shrinks

Tells(v, r, S) == FoldSet(LAMBDA c, u : HearRemoval(u, r, c), v, S)

TellsBy(v, r, S, t) ==
  /\ t \in [SUBSET S -> State] /\ t[{}] = v
  /\ \A s \in SUBSET S : s # {} => t[s] = HearRemoval(t[s \ {Pick(s)}], r, Pick(s))

LEMMA TellSteps ==
  ASSUME CreaturesAssumption, NEW v \in State,
         NEW r \in Creatures, NEW S \in SUBSET Creatures
  PROVE  \E t : TellsBy(v, r, S, t) /\ t[S] = Tells(v, r, S)
<1> DEFINE F == [c \in S |-> [u \in State |-> HearRemoval(u, r, c)]]
           Eq(t) == t = [s \in SUBSET S |-> IF s = {} THEN v ELSE HearRemoval(t[s \ {Pick(s)}], r, Pick(s))]
<1>1. IsFiniteSet(S)
  BY Facts, FS_Subset
<1>2. \A c \in S, u \in State : HearRemoval(u, r, c) \in State
  BY RemovalHeardType
<1>3. F \in [S -> [State -> State]] /\ \A c \in S, u \in State : F[c][u] = HearRemoval(u, r, c)
  BY <1>2
<1> HIDE DEF F
<1>4. PICK t : Run(F, v, S, t)
  BY <1>1, <1>3, FoldingStates
<1>5. TellsBy(v, r, S, t)
  BY <1>3, <1>4, PickIn DEF Run, TellsBy
<1>6. Eq(t)
  BY <1>5 DEF TellsBy
<1>7. Tells(v, r, S) = (CHOOSE q : Eq(q))[S]
  BY DEF Tells, FoldSet, MapThenFoldSet, Pick
<1> HIDE DEF Eq
<1>8. PICK q : q = (CHOOSE p : Eq(p)) /\ Eq(q)
  BY <1>6
<1>9. q[{}] = v /\ \A s \in SUBSET S : s # {} => q[s] = HearRemoval(q[s \ {Pick(s)}], r, Pick(s))
  BY <1>8 DEF Eq
<1>10. Agree(S, t, q)
  BY <1>5, <1>9 DEF TellsBy, Agree
<1>11. t[S] = q[S]
  BY <1>1, <1>10, SameSteps
<1> QED
  BY <1>5, <1>7, <1>8, <1>11


LEMMA TellsIs ==
  ASSUME CreaturesAssumption, NEW v \in State, NEW c \in Creatures, NEW S \in SUBSET Creatures,
         NEW w, w = Tells(v, c, S)
  PROVE  /\ Shrinks(v, w, {}) /\ \A d \in S : Forgot(w, d, c)
         /\ \A R, x, X, Y :
              Sound(v, R, x, X, Y) /\ (\A d \in S : Born(v, d)) /\ c \in X => Sound(w, R, x, X, Y)
<1>0. IsFiniteSet(Creatures) /\ Nobody \notin Creatures /\ IsFiniteSet(S)
  BY Facts, FS_Subset
<1>1. PICK t : TellsBy(v, c, S, t) /\ t[S] = w
  BY TellSteps
<1>2. /\ t \in [SUBSET S -> State] /\ t[{}] = v
      /\ \A s \in SUBSET S : s # {} => t[s] = HearRemoval(t[s \ {Pick(s)}], c, Pick(s))
  BY <1>1 DEF TellsBy
<1> DEFINE P(s) == /\ Shrinks(v, t[s], {}) /\ \A d \in s : Forgot(t[s], d, c)
                   /\ \A R, x, X, Y :
                        Sound(v, R, x, X, Y) /\ (\A d \in S : Born(v, d)) /\ c \in X => Sound(t[s], R, x, X, Y)
           Q == {s \in SUBSET S : P(s)}
<1>3. {} \in Q
  BY <1>2, ShrinksSelf
<1>4. ASSUME NEW s \in SUBSET S, s # {}, s \ {Pick(s)} \in Q PROVE s \in Q
  <2> DEFINE u == t[s \ {Pick(s)}]
             z == t[s]
             d == Pick(s)
  <2>1. d \in s /\ d \in Creatures /\ d \in S /\ s \ {d} \in SUBSET S
    BY <1>4, PickIn
  <2>2. /\ u \in State /\ z = HearRemoval(u, c, d) /\ Shrinks(v, u, {})
        /\ \A e \in s \ {d} : Forgot(u, e, c)
        /\ \A R, x, X, Y :
             Sound(v, R, x, X, Y) /\ (\A e \in S : Born(v, e)) /\ c \in X => Sound(u, R, x, X, Y)
    BY <1>2, <1>4, <2>1
  <2>3. s \in SUBSET Creatures
    OBVIOUS
  <2> HIDE DEF u, z, d
  <2>4. /\ Shrinks(u, z, {}) /\ Forgot(z, d, c)
        /\ \A R, x, X, Y : Sound(u, R, x, X, Y) /\ Born(u, d) /\ c \in X => Sound(z, R, x, X, Y)
    BY <2>1, <2>2, RemovalHeard
  <2>5. Shrinks(v, z, {})
    BY <2>2, <2>4, ShrinksThen
  <2>6. \A e \in s : Forgot(z, e, c)
    BY <1>0, <2>2, <2>3, <2>4, ForgotStays
  <2>7. Born(v, d) => Born(u, d)
    BY <2>1, <2>2 DEF Shrinks, Born
  <2>8. P(s)
    BY <2>1, <2>2, <2>4, <2>5, <2>6, <2>7 DEF z
  <2> QED
    BY <2>8
<1> HIDE DEF Q
<1>5. S \in Q
  BY <1>0, <1>3, <1>4, OneByOne
<1> QED
  BY <1>1, <1>5 DEF Q

LEMMA ToldIs ==
  ASSUME CreaturesAssumption, NEW v \in State, NEW c \in Creatures, NEW first \in BOOLEAN,
         NEW w, w = Told(v, c, first)
  PROVE  /\ Shrinks(v, w, {}) /\ Forgot(w, c, c) /\ \A d \in Spectators(v, v[c].pos) : Forgot(w, d, c)
         /\ \A R, x, X, Y :
              Sound(v, R, x, X, Y) /\ Placed(v, c) /\ c \in X => Sound(w, R, x, X, Y)
<1> DEFINE O == Spectators(v, v[c].pos) \ {c}
           A == IF first THEN {c} ELSE O
           B == IF first THEN O ELSE {c}
           u == Tells(v, c, A)
<1>0. IsFiniteSet(Creatures) /\ Nobody \notin Creatures
  BY Facts
<1>1. w = Tells(u, c, B)
  BY DEF Told, Over, Tells, HearRemoval
<1>2. A \in SUBSET Creatures /\ B \in SUBSET Creatures /\ u = Tells(v, c, A)
      /\ c \in A \union B /\ (\A d \in Spectators(v, v[c].pos) : d \in A \union B)
      /\ \A d \in A \union B : d = c \/ Placed(v, d)
  BY DEF Spectators
<1> HIDE DEF O, A, B, u
<1>3. /\ Shrinks(v, u, {}) /\ \A d \in A : Forgot(u, d, c)
      /\ \A R, x, X, Y :
           Sound(v, R, x, X, Y) /\ (\A d \in A : Born(v, d)) /\ c \in X => Sound(u, R, x, X, Y)
  BY <1>2, TellsIs
<1>4. u \in State
  BY <1>3 DEF Shrinks
<1>5. /\ Shrinks(u, w, {}) /\ \A d \in B : Forgot(w, d, c)
      /\ \A R, x, X, Y :
           Sound(u, R, x, X, Y) /\ (\A d \in B : Born(u, d)) /\ c \in X => Sound(w, R, x, X, Y)
  BY <1>1, <1>2, <1>4, TellsIs
<1>6. Shrinks(v, w, {})
  BY <1>3, <1>5, ShrinksThen
<1>7. \A d \in A \union B : Forgot(w, d, c)
  BY <1>0, <1>2, <1>3, <1>5, ForgotStays
<1>8. ASSUME NEW R, NEW x, NEW X, NEW Y, Sound(v, R, x, X, Y), Placed(v, c), c \in X
      PROVE  Sound(w, R, x, X, Y)
  <2>1. \A d \in A \union B : d \in Creatures /\ Born(v, d)
    BY <1>2, <1>8 DEF Placed, Born
  <2>2. \A d \in A \union B : Born(u, d)
    BY <1>3, <2>1 DEF Shrinks, Born
  <2>3. Sound(u, R, x, X, Y)
    BY <1>3, <1>8, <2>1
  <2> QED
    BY <1>5, <1>8, <2>2, <2>3
<1> QED
  BY <1>2, <1>6, <1>7, <1>8

(* Removed(u, c): c is out of the game, and waits for its release.         *)
Releasing(b) == [b EXCEPT !.life = "removed", !.released = @ + 1]

LEMMA ReleasingIs ==
  ASSUME NEW b \in Beings
  PROVE  /\ Releasing(b) \in Beings /\ SameAims(b, Releasing(b)) /\ SameLists(b, Releasing(b))
         /\ SameChecks(b, Releasing(b)) /\ Releasing(b).life = "removed"
         /\ Releasing(b).master = b.master /\ Releasing(b).pos = b.pos
         /\ Releasing(b).released = b.released + 1 /\ Releasing(b).refs = b.refs
<1>1. Releasing(b) \in Beings
  <2> DEFINE n == b.released + 1
  <2>1. n \in Nat /\ Releasing(b) = [b EXCEPT !.life = "removed", !.released = n]
    BY DEF Beings, Releasing
  <2> HIDE DEF n
  <2> QED
    BY <2>1 DEF Beings, Lives
<1>2. /\ SameAims(b, Releasing(b)) /\ SameLists(b, Releasing(b))
      /\ SameChecks(b, Releasing(b)) /\ Releasing(b).life = "removed"
      /\ Releasing(b).master = b.master /\ Releasing(b).pos = b.pos
      /\ Releasing(b).released = b.released + 1 /\ Releasing(b).refs = b.refs
  BY DEF Beings, Releasing, SameAims, SameLists, SameChecks
<1> QED
  BY <1>1, <1>2

(* The step from u to w: c leaves the game.                                *)
Outs(u, w, c) ==
  /\ w \in State
  /\ \A e \in Creatures :
       /\ SameAims(u[e], w[e]) /\ SameLists(u[e], w[e])
       /\ w[e].master = u[e].master /\ w[e].pos = u[e].pos /\ w[e].listed = u[e].listed
       /\ e # c => SameBody(u[e], w[e]) /\ SameChecks(u[e], w[e])
  /\ w[c].life = "removed" /\ (Checked(u, c) => ~w[c].check)
  /\ Placed(u, c) /\ Exact(u) => Exact(w)

LEMMA OutsIs ==
  ASSUME IsFiniteSet(Creatures), NEW u \in State, NEW c \in Creatures,
         NEW w, w = RemoveCreatureCheck([u EXCEPT ![c].life = "removed", ![c].released = @ + 1], c)
  PROVE  Outs(u, w, c)
<1> DEFINE r == Releasing(u[c])
           z == With(u, c, r)
<1>1. w = RemoveCreatureCheck(z, c)
  BY DEF With, Releasing, State
<1>2. /\ r \in Beings /\ SameAims(u[c], r) /\ SameLists(u[c], r)
      /\ SameChecks(u[c], r) /\ r.life = "removed"
      /\ r.master = u[c].master /\ r.pos = u[c].pos
      /\ r.released = u[c].released + 1 /\ r.refs = u[c].refs
  BY Fields, ReleasingIs
<1> HIDE DEF r
<1>3. z \in State /\ z[c] = r /\ \A e \in Creatures \ {c} : z[e] = u[e]
  BY <1>2, WithIs
<1> HIDE DEF z
<1>4. /\ w \in State /\ Unmoved(z, w) /\ OnlyOf(z, w, c) /\ SameLists(z[c], w[c])
      /\ w[c].listed = z[c].listed /\ w[c].check = (z[c].check /\ ~z[c].listed)
      /\ Balanced(z, w, c)
  BY <1>1, <1>3, RemoveCheckIs
<1>5. ASSUME NEW e \in Creatures
      PROVE  /\ SameAims(u[e], w[e]) /\ SameLists(u[e], w[e])
             /\ w[e].master = u[e].master /\ w[e].pos = u[e].pos /\ w[e].listed = u[e].listed
             /\ e # c => SameBody(u[e], w[e]) /\ SameChecks(u[e], w[e])
  <2>0. Unmoved(z, w) /\ OnlyOf(z, w, c) /\ SameLists(z[c], w[c]) /\ w[c].listed = z[c].listed
    BY <1>4
  <2>1. CASE e # c
    <3>1. z[e] = u[e] /\ e \in Creatures \ {c}
      BY <1>3, <2>1
    <3>2. SameBody(z[e], w[e]) /\ SameAims(z[e], w[e]) /\ w[e].master = z[e].master
          /\ SameLists(z[e], w[e]) /\ SameChecks(z[e], w[e])
      BY <2>0, <3>1 DEF Unmoved, OnlyOf
    <3>3. SameBody(u[e], w[e]) /\ SameAims(u[e], w[e]) /\ w[e].master = u[e].master
          /\ SameLists(u[e], w[e]) /\ SameChecks(u[e], w[e])
      BY <3>1, <3>2
    <3> QED
      BY <3>3 DEF SameBody, SameChecks
  <2>2. CASE e = c
    BY <1>2, <1>3, <2>0, <2>2, ZenonT(60) DEF Unmoved, SameAims, SameLists, SameChecks, SameBody
  <2> QED
    BY <2>1, <2>2
<1>6. w[c].life = "removed" /\ (Checked(u, c) => ~w[c].check)
  BY <1>2, <1>3, <1>4 DEF Unmoved, SameBody, Checked, SameChecks
<1>7. ASSUME Placed(u, c), Exact(u) PROVE Exact(w)
  <2>1. BalancedAt(u, z, c)
    <3>1. u[c].refs \in Int /\ u[c].released \in Nat
      BY Fields
    <3>2. /\ Bit(z[c].listed) - Bit(u[c].listed) = 0
          /\ Bit(z[c].master # Nobody) - Bit(u[c].master # Nobody) = 0
      BY <1>2, <1>3 DEF SameChecks, Bit
    <3>3. Bit(Placed(z, c)) - Bit(Placed(u, c)) = -1
      BY <1>2, <1>3, <1>7 DEF Placed, Bit
    <3>4. z[c].released - u[c].released = 1 /\ z[c].refs = u[c].refs
      BY <1>2, <1>3, <3>1
    <3> QED
      BY <3>1, <3>2, <3>3, <3>4 DEF BalancedAt
  <2>2. Balanced(u, z, c)
    BY <1>2, <1>3, <2>1, BalancedOne
  <2>3. \A e \in Creatures \ {c} : SameLists(u[e], z[e])
    BY <1>3 DEF SameLists
  <2>4. Exact(z)
    BY <1>3, <1>7, <2>2, <2>3, ExactKept
  <2>5. \A e \in Creatures \ {c} : SameLists(z[e], w[e])
    BY <1>4 DEF OnlyOf
  <2> QED
    BY <1>3, <1>4, <2>4, <2>5, ExactKept
<1> QED
  BY <1>4, <1>5, <1>6, <1>7 DEF Outs

(* Who is seen is not farther than who may hear.                           *)
LEMMA SeesNear ==
  ASSUME CreaturesAssumption, NEW v \in State, NEW c \in Creatures, NEW t \in Creatures, Sees(v, c, t)
  PROVE  Near(v, c, v[t].pos, Viewport)
<1>1. v[c].pos \in Int /\ v[t].pos \in Int
  BY Fields
<1>2. View \in Nat /\ Viewport \in Nat /\ View <= Viewport
  BY DEF CreaturesAssumption
<1> QED
  BY <1>1, <1>2 DEF Sees, Near

LEMMA OutsSound ==
  ASSUME CreaturesAssumption, NEW u, NEW w, NEW c \in Creatures, NEW R, NEW x, NEW X, NEW Y,
         Sound(u, R, x, X \union {c}, Y), Outs(u, w, c), Placed(u, c),
         \A d \in Spectators(u, u[c].pos) : Forgot(u, d, c)
  PROVE  Sound(w, R, x, X, Y \union {c})
<1>0. u \in State /\ w \in State /\ Exact(w) /\ Checked(u, c) /\ Nobody \notin Creatures
  BY Facts DEF Sound, Base, Outs
<1>1. ASSUME NEW e \in Creatures
      PROVE  /\ w[e].master = u[e].master /\ w[e].pos = u[e].pos /\ w[e].listed = u[e].listed
             /\ w[e].attacked = u[e].attacked /\ w[e].follow = u[e].follow
             /\ w[e].targets = u[e].targets /\ w[e].friends = u[e].friends
             /\ u[e].master \in Creatures \union {Nobody}
  BY <1>0, Fields DEF Outs, SameAims, SameLists
<1>2. ASSUME NEW e \in Creatures, e # c
      PROVE  /\ w[e].life = u[e].life /\ w[e].check = u[e].check /\ w[e].released = u[e].released
             /\ w[e].slain = u[e].slain /\ w[e].condition = u[e].condition
             /\ (Placed(w, e) <=> Placed(u, e)) /\ (Gone(w, e) <=> Gone(u, e))
             /\ (Alive(w, e) <=> Alive(u, e))
  BY <1>2 DEF Outs, SameBody, SameChecks, Placed, Gone, Alive
<1>3. ~Placed(w, c) /\ ~Gone(w, c) /\ w[c].life # "unborn" /\ ~w[c].check /\ ~Gone(u, c)
  BY <1>0 DEF Outs, Placed, Gone
<1>4. Unpointed(w)
  BY <1>1, <1>2, <1>3 DEF Sound, Base, Unpointed
<1>5. Fresh(w)
  BY <1>1, <1>2, <1>3 DEF Sound, Base, Fresh
<1>6. Flat(w)
  BY <1>1, <1>2, <1>3 DEF Sound, Base, Flat
<1>7. \A e \in Creatures : Checked(w, e)
  BY <1>1, <1>2, <1>3 DEF Sound, Base, Checked
<1>8. AllAwake(w, X)
  <2> SUFFICES ASSUME NEW m \in Monsters \ X PROVE Awake(w, m)
    BY DEF AllAwake
  <2>1. CASE m = c
    BY <1>3, <2>1 DEF Awake, Alive
  <2>2. CASE m # c
    <3>1. m \in Creatures /\ Awake(u, m)
      BY <2>2 DEF Sound, AllAwake, Creatures
    <3> QED
      BY <1>1, <1>2, <2>2, <3>1 DEF Awake
  <2> QED
    BY <2>1, <2>2
<1>9. Served(w, Y \union {c})
  BY <1>1, <1>2, <1>3 DEF Sound, Served
<1>10. InSight(w, R, x)
  <2> SUFFICES ASSUME NEW e \in Creatures, NEW t \in Creatures, Pursues(w, e, t)
               PROVE  Within(w, e, t) \/ Unnoticed(w, R, x, e, t)
    BY DEF InSight
  <2>1. e # c /\ Placed(u, e) /\ Pursues(u, e, t)
    BY <1>1, <1>2, <1>3 DEF Pursues
  <2>2. Sees(w, e, t) <=> Sees(u, e, t)
    BY <1>1 DEF Sees, Near
  <2>3. Within(u, e, t) \/ Unnoticed(u, R, x, e, t)
    BY <2>1 DEF Sound, InSight
  <2>4. CASE Unnoticed(u, R, x, e, t)
    BY <2>2, <2>4 DEF Unnoticed
  <2>5. CASE Within(u, e, t) /\ t # c
    BY <1>2, <2>2, <2>5 DEF Within
  <2>6. CASE Within(u, e, t) /\ t = c
    <3>1. Near(u, e, u[c].pos, Viewport)
      BY <1>0, <2>6, SeesNear DEF Within
    <3>2. Forgot(u, e, c)
      BY <2>1, <3>1 DEF Spectators
    <3> QED
      BY <2>1, <2>6, <3>2 DEF Forgot, Pursues
  <2> QED
    BY <2>3, <2>4, <2>5, <2>6
<1> QED
  BY <1>0, <1>4, <1>5, <1>6, <1>7, <1>8, <1>9, <1>10 DEF Sound, Base

LEMMA RemovedIs ==
  ASSUME CreaturesAssumption, NEW v \in State, NEW c \in Creatures, NEW first \in BOOLEAN,
         NEW w, w = Removed(v, c, first)
  PROVE  /\ Shrinks(v, w, {c}) /\ ~Placed(w, c)
         /\ \A R, x, X, Y : Sound(v, R, x, X, Y) /\ Placed(v, c) => Sound(w, R, x, X, Y \union {c})
<1> DEFINE u == Told(v, c, first)
<1>0. IsFiniteSet(Creatures)
  BY Facts
<1>1. w = RemoveCreatureCheck([u EXCEPT ![c].life = "removed", ![c].released = @ + 1], c)
      /\ u = Told(v, c, first)
  BY DEF Removed
<1> HIDE DEF u
<1>2. /\ Shrinks(v, u, {}) /\ Forgot(u, c, c) /\ \A d \in Spectators(v, v[c].pos) : Forgot(u, d, c)
      /\ \A R, x, X, Y :
           Sound(v, R, x, X, Y) /\ Placed(v, c) /\ c \in X => Sound(u, R, x, X, Y)
  BY <1>1, ToldIs
<1>3. u \in State
  BY <1>2 DEF Shrinks
<1>4. Outs(u, w, c)
  BY <1>0, <1>1, <1>3, OutsIs
<1>5. Shrinks(u, w, {c})
  BY <1>4 DEF Outs, Shrinks, Faded, SameAims, SameBody
<1>6. Shrinks(v, w, {c})
  BY <1>2, <1>5, ShrinksMore, ShrinksThen
<1>7. ~Placed(w, c)
  BY <1>4 DEF Outs, Placed
<1>8. ASSUME NEW R, NEW x, NEW X, NEW Y, Sound(v, R, x, X, Y), Placed(v, c)
      PROVE  Sound(w, R, x, X, Y \union {c})
  <2>1. Sound(v, R, x, X \union {c}, Y)
    BY <1>8 DEF Sound, AllAwake
  <2>2. c \in X \union {c}
    OBVIOUS
  <2>3. Sound(u, R, x, X \union {c}, Y)
    BY <1>2, <1>8, <2>1, <2>2
  <2>4. \A e \in Creatures : u[e].pos = v[e].pos /\ u[e].life = v[e].life
    BY <1>2 DEF Shrinks, SameBody
  <2>5. \A d \in Spectators(u, u[c].pos) : d \in Spectators(v, v[c].pos)
    BY <2>4 DEF Spectators, Placed, Near
  <2>6. Placed(u, c) /\ \A d \in Spectators(u, u[c].pos) : Forgot(u, d, c)
    BY <1>2, <1>8, <2>4, <2>5 DEF Placed
  <2> QED
    BY <1>4, <2>3, <2>6, OutsSound
<1> QED
  BY <1>6, <1>7, <1>8

(* The summons of c go with it.                                            *)
AlsoRemoved(v, s, first) == IF Placed(v, s) THEN Removed(v, s, first) ELSE v

LEMMA AlsoType ==
  ASSUME CreaturesAssumption, NEW v \in State, NEW s \in Creatures, NEW first \in BOOLEAN
  PROVE  AlsoRemoved(v, s, first) \in State
BY RemovedIs DEF AlsoRemoved, Shrinks

AllRemoved(v, first, S) == FoldSet(LAMBDA c, u : AlsoRemoved(u, c, first), v, S)

AllRemovedBy(v, first, S, t) ==
  /\ t \in [SUBSET S -> State] /\ t[{}] = v
  /\ \A s \in SUBSET S : s # {} => t[s] = AlsoRemoved(t[s \ {Pick(s)}], Pick(s), first)

LEMMA AlsoSteps ==
  ASSUME CreaturesAssumption, NEW v \in State,
         NEW first \in BOOLEAN, NEW S \in SUBSET Creatures
  PROVE  \E t : AllRemovedBy(v, first, S, t) /\ t[S] = AllRemoved(v, first, S)
<1> DEFINE F == [c \in S |-> [u \in State |-> AlsoRemoved(u, c, first)]]
           Eq(t) == t = [s \in SUBSET S |-> IF s = {} THEN v ELSE AlsoRemoved(t[s \ {Pick(s)}], Pick(s), first)]
<1>1. IsFiniteSet(S)
  BY Facts, FS_Subset
<1>2. \A c \in S, u \in State : AlsoRemoved(u, c, first) \in State
  BY AlsoType
<1>3. F \in [S -> [State -> State]] /\ \A c \in S, u \in State : F[c][u] = AlsoRemoved(u, c, first)
  BY <1>2
<1> HIDE DEF F
<1>4. PICK t : Run(F, v, S, t)
  BY <1>1, <1>3, FoldingStates
<1>5. AllRemovedBy(v, first, S, t)
  BY <1>3, <1>4, PickIn DEF Run, AllRemovedBy
<1>6. Eq(t)
  BY <1>5 DEF AllRemovedBy
<1>7. AllRemoved(v, first, S) = (CHOOSE q : Eq(q))[S]
  BY DEF AllRemoved, FoldSet, MapThenFoldSet, Pick
<1> HIDE DEF Eq
<1>8. PICK q : q = (CHOOSE p : Eq(p)) /\ Eq(q)
  BY <1>6
<1>9. q[{}] = v /\ \A s \in SUBSET S : s # {} => q[s] = AlsoRemoved(q[s \ {Pick(s)}], Pick(s), first)
  BY <1>8 DEF Eq
<1>10. Agree(S, t, q)
  BY <1>5, <1>9 DEF AllRemovedBy, Agree
<1>11. t[S] = q[S]
  BY <1>1, <1>10, SameSteps
<1> QED
  BY <1>5, <1>7, <1>8, <1>11


Flatly(v) == Nobody \notin Creatures /\ Flat(v)

LEMMA NoSummons ==
  ASSUME NEW v \in State, Flatly(v), NEW s \in Creatures, v[s].master # Nobody,
         NEW w, NEW G, Shrinks(v, w, G)
  PROVE  \A e \in Creatures : w[e].master # s
BY DEF Flatly, Flat, Shrinks

LEMMA WithSummonsIs ==
  ASSUME CreaturesAssumption, NEW v \in State, NEW c \in Creatures, NEW first \in BOOLEAN,
         NEW w, w = WithSummons(v, c, first)
  PROVE  /\ Shrinks(v, w, Summons(v, c))
         /\ \A R, x, X, Y : Sound(v, R, x, X, Y \union {c}) => Sound(w, R, x, X, Y)
<1> DEFINE S == Summons(v, c)
<1>0. Nobody \notin Creatures /\ S \in SUBSET Creatures /\ IsFiniteSet(S)
      /\ (\A s \in Creatures : s \in S <=> v[s].master = c) /\ S = Summons(v, c)
  BY Facts, FS_Subset DEF Summons
<1>1. w = AllRemoved(v, first, S)
  BY DEF WithSummons, Over, AllRemoved, AlsoRemoved
<1> HIDE DEF S
<1>2. PICK t : AllRemovedBy(v, first, S, t) /\ t[S] = w
  BY <1>0, <1>1, AlsoSteps
<1>3. /\ t \in [SUBSET S -> State] /\ t[{}] = v
      /\ \A s \in SUBSET S : s # {} => t[s] = AlsoRemoved(t[s \ {Pick(s)}], Pick(s), first)
  BY <1>2 DEF AllRemovedBy
<1> DEFINE P(s) == /\ Shrinks(v, t[s], S) /\ \A e \in s : ~Placed(t[s], e)
                   /\ \A R, x, X, Y :
                        Sound(v, R, x, X, Y \union {c}) => Sound(t[s], R, x, X, Y \union {c})
           Q == {s \in SUBSET S : P(s)}
<1>4. {} \in Q
  BY <1>3, ShrinksSelf
<1>5. ASSUME NEW s \in SUBSET S, s # {}, s \ {Pick(s)} \in Q PROVE s \in Q
  <2> DEFINE u == t[s \ {Pick(s)}]
             z == t[s]
             d == Pick(s)
  <2>1. d \in s /\ d \in Creatures /\ d \in S /\ s \ {d} \in SUBSET S /\ s \in SUBSET Creatures
    BY <1>0, <1>5, PickIn
  <2>2. /\ u \in State /\ z = AlsoRemoved(u, d, first) /\ Shrinks(v, u, S)
        /\ \A e \in s \ {d} : ~Placed(u, e)
        /\ \A R, x, X, Y : Sound(v, R, x, X, Y \union {c}) => Sound(u, R, x, X, Y \union {c})
    BY <1>3, <1>5, <2>1
  <2> HIDE DEF u, z, d
  <2>3. CASE ~Placed(u, d)
    <3>1. z = u
      BY <2>2, <2>3 DEF AlsoRemoved
    <3>2. P(s)
      BY <2>2, <2>3, <3>1 DEF z
    <3> QED
      BY <3>2
  <2>4. CASE Placed(u, d)
    <3>1. z = Removed(u, d, first)
      BY <2>2, <2>4 DEF AlsoRemoved
    <3>2. /\ Shrinks(u, z, {d}) /\ ~Placed(z, d)
          /\ \A R, x, X, Y : Sound(u, R, x, X, Y) /\ Placed(u, d) => Sound(z, R, x, X, Y \union {d})
      BY <2>1, <2>2, <3>1, RemovedIs
    <3>3. Shrinks(u, z, S)
      BY <2>1, <3>2, ShrinksMore
    <3>4. Shrinks(v, z, S)
      BY <2>2, <3>3, ShrinksThen
    <3>5. \A e \in s : ~Placed(z, e)
      BY <2>1, <2>2, <3>2 DEF Shrinks, Placed
    <3>6. ASSUME NEW R, NEW x, NEW X, NEW Y, Sound(v, R, x, X, Y \union {c})
          PROVE  Sound(z, R, x, X, Y \union {c})
      <4>1. Sound(z, R, x, X, (Y \union {c}) \union {d})
        BY <2>2, <2>4, <3>2, <3>6
      <4>2. Flatly(v)
        BY <1>0, <3>6 DEF Sound, Base, Flatly
      <4>3. v[d].master # Nobody
        BY <1>0, <2>1
      <4>4. \A e \in Creatures : z[e].master # d
        BY <2>1, <3>4, <4>2, <4>3, NoSummons
      <4>5. Served(z, Y \union {c})
        BY <4>1, <4>4 DEF Sound, Served
      <4> QED
        BY <4>1, <4>5 DEF Sound
    <3>7. P(s)
      BY <3>4, <3>5, <3>6 DEF z
    <3> QED
      BY <3>7
  <2> QED
    BY <2>3, <2>4
<1> HIDE DEF Q
<1>6. S \in Q
  BY <1>0, <1>4, <1>5, OneByOne
<1>7. P(S)
  BY <1>6 DEF Q
<1>8. Shrinks(v, w, S) /\ \A e \in S : ~Placed(w, e)
  BY <1>2, <1>7
<1>9. ASSUME NEW R, NEW x, NEW X, NEW Y, Sound(v, R, x, X, Y \union {c}) PROVE Sound(w, R, x, X, Y)
  <2>1. Sound(w, R, x, X, Y \union {c})
    BY <1>2, <1>7, <1>9
  <2>2. \A e \in Creatures : w[e].master = c => e \in S
    BY <1>0, <1>8 DEF Shrinks
  <2>3. Served(w, Y)
    BY <1>8, <2>1, <2>2 DEF Sound, Served
  <2> QED
    BY <2>1, <2>3 DEF Sound
<1> QED
  BY <1>0, <1>8, <1>9

LEMMA RemoveCreatureIs ==
  ASSUME CreaturesAssumption, NEW v \in State, NEW c \in Creatures, NEW first \in BOOLEAN,
         NEW w, w = RemoveCreature(v, c, first)
  PROVE  /\ Shrinks(v, w, {c} \union Summons(v, c)) /\ ~Placed(w, c)
         /\ \A R, x, X, Y : Sound(v, R, x, X, Y) /\ Placed(v, c) => Sound(w, R, x, X, Y)
<1> DEFINE u == Removed(v, c, first)
           G == {c} \union Summons(v, c)
<1>0. Nobody \notin Creatures
  BY Facts
<1>1. w = WithSummons(u, c, first) /\ u = Removed(v, c, first)
  BY DEF RemoveCreature
<1> HIDE DEF u
<1>2. /\ Shrinks(v, u, {c}) /\ ~Placed(u, c)
      /\ \A R, x, X, Y : Sound(v, R, x, X, Y) /\ Placed(v, c) => Sound(u, R, x, X, Y \union {c})
  BY <1>1, RemovedIs
<1>3. u \in State
  BY <1>2 DEF Shrinks
<1>4. /\ Shrinks(u, w, Summons(u, c))
      /\ \A R, x, X, Y : Sound(u, R, x, X, Y \union {c}) => Sound(w, R, x, X, Y)
  BY <1>1, <1>3, WithSummonsIs
<1>5. Summons(u, c) \subseteq G /\ {c} \subseteq G
  BY <1>0, <1>2 DEF Summons, Shrinks
<1>6. Shrinks(v, w, G)
  <2> HIDE DEF G
  <2>1. Shrinks(v, u, G) /\ Shrinks(u, w, G)
    BY <1>2, <1>4, <1>5, ShrinksMore
  <2> QED
    BY <2>1, ShrinksThen
<1>7. ~Placed(w, c)
  BY <1>2, <1>4 DEF Shrinks, Placed
<1> QED
  BY <1>2, <1>4, <1>6, <1>7

LEMMA RemoveType ==
  ASSUME CreaturesAssumption, NEW v \in State, NEW c \in Creatures, NEW first \in BOOLEAN
  PROVE  RemoveCreature(v, c, first) \in State
BY RemoveCreatureIs DEF Shrinks

(* The summons that are too far behind.                                    *)

Behind(v, first, S) == FoldSet(LAMBDA c, u : RemoveCreature(u, c, first), v, S)

BehindBy(v, first, S, t) ==
  /\ t \in [SUBSET S -> State] /\ t[{}] = v
  /\ \A s \in SUBSET S : s # {} => t[s] = RemoveCreature(t[s \ {Pick(s)}], Pick(s), first)

LEMMA BehindSteps ==
  ASSUME CreaturesAssumption, NEW v \in State,
         NEW first \in BOOLEAN, NEW S \in SUBSET Creatures
  PROVE  \E t : BehindBy(v, first, S, t) /\ t[S] = Behind(v, first, S)
<1> DEFINE F == [c \in S |-> [u \in State |-> RemoveCreature(u, c, first)]]
           Eq(t) == t = [s \in SUBSET S |-> IF s = {} THEN v ELSE RemoveCreature(t[s \ {Pick(s)}], Pick(s), first)]
<1>1. IsFiniteSet(S)
  BY Facts, FS_Subset
<1>2. \A c \in S, u \in State : RemoveCreature(u, c, first) \in State
  BY RemoveType
<1>3. F \in [S -> [State -> State]] /\ \A c \in S, u \in State : F[c][u] = RemoveCreature(u, c, first)
  BY <1>2
<1> HIDE DEF F
<1>4. PICK t : Run(F, v, S, t)
  BY <1>1, <1>3, FoldingStates
<1>5. BehindBy(v, first, S, t)
  BY <1>3, <1>4, PickIn DEF Run, BehindBy
<1>6. Eq(t)
  BY <1>5 DEF BehindBy
<1>7. Behind(v, first, S) = (CHOOSE q : Eq(q))[S]
  BY DEF Behind, FoldSet, MapThenFoldSet, Pick
<1> HIDE DEF Eq
<1>8. PICK q : q = (CHOOSE p : Eq(p)) /\ Eq(q)
  BY <1>6
<1>9. q[{}] = v /\ \A s \in SUBSET S : s # {} => q[s] = RemoveCreature(q[s \ {Pick(s)}], Pick(s), first)
  BY <1>8 DEF Eq
<1>10. Agree(S, t, q)
  BY <1>5, <1>9 DEF BehindBy, Agree
<1>11. t[S] = q[S]
  BY <1>1, <1>10, SameSteps
<1> QED
  BY <1>5, <1>7, <1>8, <1>11


LEMMA LeaveBehindIs ==
  ASSUME CreaturesAssumption, NEW v, NEW c \in Creatures, NEW R, NEW x, NEW X, NEW Y,
         Sound(v, R, x, X, Y), NEW w, w = LeaveBehind(v, c)
  PROVE  Shrinks(v, w, Summons(v, c)) /\ Sound(w, R, x, X, Y)
<1> DEFINE S == {s \in Summons(v, c) : Placed(v, s) /\ ~Near(v, s, v[c].pos, SummonRange)}
<1>0. /\ Nobody \notin Creatures /\ S \in SUBSET Creatures /\ IsFiniteSet(S) /\ v \in State
      /\ S \subseteq Summons(v, c) /\ \A s \in S : Placed(v, s) /\ v[s].master = c
  BY Facts, FS_Subset, SoundState DEF Summons
<1>1. w = Behind(v, TRUE, S)
  BY DEF LeaveBehind, Over, Behind
<1> HIDE DEF S
<1>2. PICK t : BehindBy(v, TRUE, S, t) /\ t[S] = w
  BY <1>0, <1>1, BehindSteps
<1>3. /\ t \in [SUBSET S -> State] /\ t[{}] = v
      /\ \A s \in SUBSET S : s # {} => t[s] = RemoveCreature(t[s \ {Pick(s)}], Pick(s), TRUE)
  BY <1>2 DEF BehindBy
<1> DEFINE Q == {s \in SUBSET S : Shrinks(v, t[s], s) /\ Sound(t[s], R, x, X, Y)}
<1>4. {} \in Q
  BY <1>3, <1>0, ShrinksSelf
<1>5. ASSUME NEW s \in SUBSET S, s # {}, s \ {Pick(s)} \in Q PROVE s \in Q
  <2> DEFINE u == t[s \ {Pick(s)}]
             z == t[s]
             d == Pick(s)
  <2>1. d \in s /\ d \in Creatures /\ d \in S /\ s \ {d} \in SUBSET S /\ s \ {d} \subseteq s
    BY <1>0, <1>5, PickIn
  <2>2. /\ u \in State /\ z = RemoveCreature(u, d, TRUE)
        /\ Shrinks(v, u, s \ {d}) /\ Sound(u, R, x, X, Y)
    BY <1>3, <1>5, <2>1
  <2> HIDE DEF u, z, d
  <2>3. Placed(u, d)
    BY <1>0, <2>1, <2>2 DEF Shrinks, SameBody, Placed
  <2>4. v[d].master # Nobody /\ Flatly(v)
    BY <1>0, <2>1 DEF Sound, Base, Flatly
  <2>5. \A e \in Creatures : u[e].master # d
    BY <1>0, <2>1, <2>2, <2>4, NoSummons
  <2>6. Summons(u, d) = {}
    BY <2>5 DEF Summons
  <2>7. /\ Shrinks(u, z, {d} \union Summons(u, d))
        /\ \A R1, x1, X1, Y1 : Sound(u, R1, x1, X1, Y1) /\ Placed(u, d) => Sound(z, R1, x1, X1, Y1)
    BY <2>1, <2>2, RemoveCreatureIs
  <2>8. Sound(z, R, x, X, Y)
    BY <2>2, <2>3, <2>7
  <2>9. {d} \union Summons(u, d) \subseteq s
    BY <2>1, <2>6
  <2>10. Shrinks(u, z, s) /\ Shrinks(v, u, s)
    BY <2>1, <2>2, <2>7, <2>9, ShrinksMore
  <2>11. Shrinks(v, z, s)
    BY <2>10, ShrinksThen
  <2> QED
    BY <2>8, <2>11 DEF z
<1> HIDE DEF Q
<1>6. S \in Q
  BY <1>0, <1>4, <1>5, OneByOne
<1>7. Shrinks(v, w, S) /\ Sound(w, R, x, X, Y)
  BY <1>2, <1>6 DEF Q
<1> QED
  BY <1>0, <1>7, ShrinksMore

-----------------------------------------------------------------------------
(* Where a creature is, whether it was slain and what ails it.             *)
Rest(v, w) ==
  /\ w \in State
  /\ \A e \in Creatures :
       /\ w[e].life = v[e].life /\ w[e].released = v[e].released /\ w[e].refs = v[e].refs
       /\ SameAims(v[e], w[e]) /\ SameLists(v[e], w[e]) /\ SameChecks(v[e], w[e])
       /\ w[e].master = v[e].master

LEMMA RestBase ==
  ASSUME NEW v, NEW w, NEW Y, Base(v), Served(v, Y), Rest(v, w)
  PROVE  Base(w) /\ Served(w, Y) /\ \A e, t \in Creatures : Pursues(w, e, t) <=> Pursues(v, e, t)
<1>0. v \in State /\ w \in State
  BY DEF Base, Rest
<1>1. \A e \in Creatures :
        /\ w[e].life = v[e].life /\ w[e].released = v[e].released /\ w[e].refs = v[e].refs
        /\ w[e].attacked = v[e].attacked /\ w[e].follow = v[e].follow
        /\ w[e].targets = v[e].targets /\ w[e].friends = v[e].friends
        /\ w[e].check = v[e].check /\ w[e].listed = v[e].listed /\ w[e].master = v[e].master
        /\ (Placed(w, e) <=> Placed(v, e)) /\ (Gone(w, e) <=> Gone(v, e))
        /\ v[e].master \in Creatures \union {Nobody}
  BY <1>0, Fields DEF Rest, SameAims, SameLists, SameChecks, Placed, Gone
<1>2. Exact(w)
  <2>1. \A c \in Creatures : InTargetsOf(w, c) = InTargetsOf(v, c) /\ InFriendsOf(w, c) = InFriendsOf(v, c)
    BY <1>1 DEF InTargetsOf, InFriendsOf
  <2>2. \A c \in Creatures : Held(w, c) = Held(v, c)
    BY <1>1, <2>1 DEF Held, Bit
  <2> QED
    BY <1>1, <2>2 DEF Base, Exact
<1>3. Unpointed(w)
  BY <1>1 DEF Base, Unpointed
<1>4. Fresh(w)
  BY <1>1 DEF Base, Fresh
<1>5. Flat(w)
  BY <1>1 DEF Base, Flat
<1>6. \A e \in Creatures : Checked(w, e)
  BY <1>1 DEF Base, Checked
<1>7. Served(w, Y)
  BY <1>1 DEF Served
<1>8. \A e, t \in Creatures : Pursues(w, e, t) <=> Pursues(v, e, t)
  BY <1>1 DEF Pursues
<1> QED
  BY <1>0, <1>2, <1>3, <1>4, <1>5, <1>6, <1>7, <1>8 DEF Base

Going(b, x) == [b EXCEPT !.pos = x]
Slaying(b) == [b EXCEPT !.slain = TRUE]
Ailing(b) == [b EXCEPT !.condition = ~@]

SameRest(b, r) ==
  /\ r \in Beings /\ r.life = b.life /\ r.released = b.released /\ r.refs = b.refs
  /\ SameAims(b, r) /\ SameLists(b, r) /\ SameChecks(b, r) /\ r.master = b.master

LEMMA GoingIs ==
  ASSUME NEW b \in Beings, NEW x \in Int
  PROVE  /\ SameRest(b, Going(b, x)) /\ Going(b, x).pos = x /\ Going(b, x).slain = b.slain
         /\ Going(b, x).condition = b.condition
<1>1. Going(b, x) \in Beings
  BY DEF Beings, Going
<1> QED
  BY <1>1 DEF Beings, Going, SameRest, SameAims, SameLists, SameChecks

LEMMA SlayingIs ==
  ASSUME NEW b \in Beings
  PROVE  /\ SameRest(b, Slaying(b)) /\ Slaying(b).pos = b.pos /\ Slaying(b).slain
         /\ Slaying(b).condition = b.condition
<1>1. Slaying(b) \in Beings
  BY DEF Beings, Slaying
<1> QED
  BY <1>1 DEF Beings, Slaying, SameRest, SameAims, SameLists, SameChecks

LEMMA AilingIs ==
  ASSUME NEW b \in Beings
  PROVE  SameRest(b, Ailing(b)) /\ Ailing(b).pos = b.pos /\ Ailing(b).slain = b.slain
<1> DEFINE x == ~b.condition
<1>0. x \in BOOLEAN /\ Ailing(b) = [b EXCEPT !.condition = x]
  BY DEF Ailing
<1> HIDE DEF x
<1>1. Ailing(b) \in Beings
  BY <1>0 DEF Beings
<1>2. [b EXCEPT !.condition = x].life = b.life
  BY DEF Beings
<1> QED
  BY <1>0, <1>1 DEF Beings, SameRest, SameAims, SameLists, SameChecks

LEMMA RestPut ==
  ASSUME NEW v \in State, NEW m \in Creatures, NEW r, SameRest(v[m], r), NEW w, w = With(v, m, r)
  PROVE  Rest(v, w) /\ w[m] = r /\ \A e \in Creatures \ {m} : w[e] = v[e]
<1>1. r \in Beings
  BY DEF SameRest
<1>2. w \in State /\ w[m] = r /\ \A e \in Creatures \ {m} : w[e] = v[e]
  BY <1>1, WithIs
<1> QED
  BY <1>2 DEF Rest, SameRest, SameAims, SameLists, SameChecks

LEMMA SameOther ==
  ASSUME NEW v, NEW w, NEW e, w[e] = v[e], Awake(v, e)
  PROVE  Awake(w, e)
BY DEF Awake, Alive, Placed

(* One that is killed stays in the game, and on the list of those checked. *)
LEMMA KilledIs ==
  ASSUME CreaturesAssumption, NEW v \in State, NEW m \in Creatures, NEW w, w = Killed(v, m)
  PROVE  /\ w \in State /\ \A e \in Creatures : w[e].life = v[e].life /\ w[e].master = v[e].master
         /\ \A R, x, X, Y : Sound(v, R, x, X, Y) => Sound(w, R, x, X, Y)
<1> DEFINE u == SetIdle(v, m, FALSE)
           r == Slaying(u[m])
<1>0. IsFiniteSet(Creatures) /\ Creatures = Monsters \union Players
  BY Facts
<1>1. w = With(u, m, r)
  BY DEF Killed, With, Slaying
<1>2. u = SetIdle(v, m, FALSE) /\ FALSE \in BOOLEAN
  OBVIOUS
<1> HIDE DEF u
<1>3. Mind(v, u, m) /\ (~Alive(v, m) => u = v) /\ (Alive(v, m) => u[m].check)
  BY <1>0, <1>2, SetIdleIs
<1>4. u \in State /\ Unmoved(v, u)
  BY <1>3 DEF Mind
<1>5. SameRest(u[m], r) /\ r.pos = u[m].pos /\ r.slain
  BY <1>4, Fields, SlayingIs
<1> HIDE DEF r
<1>6. Rest(u, w) /\ w[m] = r /\ \A e \in Creatures \ {m} : w[e] = u[e]
  BY <1>1, <1>4, <1>5, RestPut
<1>7. \A e \in Creatures : w[e].life = v[e].life /\ w[e].master = v[e].master
  BY <1>4, <1>6 DEF Rest, Unmoved, SameBody
<1>8. ASSUME NEW R, NEW x, NEW X, NEW Y, Sound(v, R, x, X, Y) PROVE Sound(w, R, x, X, Y)
  <2>1. m \in Monsters /\ m \notin X => Awake(v, m)
    BY <1>8 DEF Sound, AllAwake
  <2>2. m \in Monsters /\ m \notin X => (Placed(u, m) => u[m].check)
    <3>1. Placed(u, m) <=> Placed(v, m)
      BY <1>4, SameAlive
    <3> QED
      BY <1>3, <2>1, <3>1 DEF Awake, Alive
  <2>3. X \subseteq (X \union {m}) \union {m} /\ m \in X \union {m}
    OBVIOUS
  <2>4. Sound(u, R, x, X \union {m}, Y)
    BY <1>3, <1>8, <2>3, MindSound
  <2>5. Base(w) /\ Served(w, Y) /\ \A e, t \in Creatures : Pursues(w, e, t) <=> Pursues(u, e, t)
    BY <1>6, <2>4, RestBase DEF Sound
  <2>6. \A e \in Creatures : w[e].pos = u[e].pos /\ w[e].life = u[e].life
    BY <1>5, <1>6 DEF SameRest
  <2>7. \A e, t \in Creatures : (Sees(w, e, t) <=> Sees(u, e, t)) /\ (Placed(w, t) <=> Placed(u, t))
    BY <2>6 DEF Sees, Near, Placed
  <2>8. InSight(w, R, x)
    BY <2>4, <2>5, <2>7 DEF Sound, InSight, Within, Unnoticed
  <2>9. AllAwake(w, X)
    <3> SUFFICES ASSUME NEW e \in Monsters \ X PROVE Awake(w, e)
      BY DEF AllAwake
    <3>1. CASE e = m
      <4>1. w[m].slain /\ w[m].check = u[m].check /\ (Placed(w, m) <=> Placed(u, m))
        BY <1>5, <1>6, <2>6 DEF SameRest, SameChecks, Placed
      <4> QED
        BY <2>2, <3>1, <4>1 DEF Awake, Alive
    <3>2. CASE e # m
      <4>1. w[e] = u[e] /\ Awake(u, e)
        BY <1>0, <1>6, <2>4, <3>2 DEF Sound, AllAwake
      <4> QED
        BY <4>1, SameOther
    <3> QED
      BY <3>1, <3>2
  <2> QED
    BY <2>5, <2>8, <2>9 DEF Sound
<1>9. w \in State
  BY <1>6 DEF Rest
<1> QED
  BY <1>7, <1>8, <1>9

(* Between the calls.                                                      *)
Whole(v) == Sound(v, {}, Nobody, {}, {})

LEMMA WholeAny ==
  ASSUME NEW v, NEW x, NEW y, NEW X, NEW Y, Sound(v, {}, x, X, Y) PROVE Sound(v, {}, y, X, Y)
BY DEF Sound, InSight, Unnoticed

LEMMA SelfNear ==
  ASSUME CreaturesAssumption, NEW v \in State, NEW c \in Creatures
  PROVE  Near(v, c, v[c].pos, Viewport)
<1>1. v[c].pos \in Int /\ Viewport \in Nat
  BY Fields DEF CreaturesAssumption
<1> QED
  BY <1>1 DEF Near

(* c went from old to x, and nobody knows.                                 *)
Went(v, u, c, x, W) ==
  /\ Sound(u, W, c, {c}, {}) /\ u[c].pos = x
  /\ \A e \in Creatures : u[e].life = v[e].life /\ u[e].slain = v[e].slain /\ u[e].master = v[e].master

LEMMA WentIs ==
  ASSUME CreaturesAssumption, NEW v, Whole(v), NEW c \in Creatures, Placed(v, c), NEW x \in Int,
         NEW u, u = With(v, c, Going(v[c], x)), NEW W, Spectators(v, v[c].pos) \subseteq W
  PROVE  Went(v, u, c, x, W)
<1> DEFINE r == Going(v[c], x)
<1>0. v \in State /\ Nobody \notin Creatures /\ Creatures = Monsters \union Players
  BY Facts, SoundState DEF Whole
<1>1. SameRest(v[c], r) /\ r.pos = x /\ r.slain = v[c].slain
  BY <1>0, Fields, GoingIs
<1>2. u = With(v, c, r)
  OBVIOUS
<1> HIDE DEF r
<1>3. Rest(v, u) /\ u[c] = r /\ \A e \in Creatures \ {c} : u[e] = v[e]
  BY <1>0, <1>1, <1>2, RestPut
<1>4. \A e \in Creatures : u[e].life = v[e].life /\ u[e].slain = v[e].slain /\ u[e].master = v[e].master
  BY <1>1, <1>3 DEF Rest
<1>5. Base(u) /\ Served(u, {}) /\ \A e, t \in Creatures : Pursues(u, e, t) <=> Pursues(v, e, t)
  BY <1>3, RestBase DEF Whole, Sound
<1>6. AllAwake(u, {c})
  <2> SUFFICES ASSUME NEW e \in Monsters \ {c} PROVE Awake(u, e)
    BY DEF AllAwake
  <2>1. u[e] = v[e] /\ Awake(v, e)
    BY <1>0, <1>3 DEF Whole, Sound, AllAwake
  <2> QED
    BY <2>1, SameOther
<1>7. InSight(u, W, c)
  <2> SUFFICES ASSUME NEW e \in Creatures, NEW t \in Creatures, Pursues(u, e, t)
               PROVE  Within(u, e, t) \/ Unnoticed(u, W, c, e, t)
    BY DEF InSight
  <2>1. Pursues(v, e, t) /\ Within(v, e, t) /\ Placed(v, e) /\ Placed(u, t)
    BY <1>4, <1>5 DEF Whole, Sound, InSight, Unnoticed, Pursues, Within, Placed
  <2>2. CASE Sees(u, e, t)
    BY <2>1, <2>2 DEF Within
  <2>3. CASE ~Sees(u, e, t) /\ c \notin {e, t}
    <3>1. u[e] = v[e] /\ u[t] = v[t]
      BY <1>3, <2>3
    <3>2. Sees(u, e, t) <=> Sees(v, e, t)
      BY <3>1 DEF Sees, Near
    <3> QED
      BY <2>1, <2>3, <3>2 DEF Within
  <2>4. CASE ~Sees(u, e, t) /\ c = e
    <3>1. Near(v, c, v[c].pos, Viewport)
      BY <1>0, SelfNear
    <3>2. e \in W
      BY <2>1, <2>4, <3>1 DEF Spectators
    <3> QED
      BY <2>4, <3>2 DEF Unnoticed
  <2>5. CASE ~Sees(u, e, t) /\ c = t
    <3>1. Near(v, e, v[c].pos, Viewport)
      BY <1>0, <2>1, <2>5, SeesNear DEF Within
    <3>2. e \in W
      BY <2>1, <3>1 DEF Spectators
    <3> QED
      BY <2>5, <3>2 DEF Unnoticed
  <2> QED
    BY <2>2, <2>3, <2>4, <2>5
<1> QED
  BY <1>1, <1>3, <1>4, <1>5, <1>6, <1>7 DEF Sound, Went

LEMMA MoveCreatureIs ==
  ASSUME CreaturesAssumption, NEW v, Whole(v), NEW c \in Creatures, Alive(v, c), NEW x \in Int,
         NEW w, w = MoveCreature(v, c, x)
  PROVE  Whole(w) /\ Alive(w, c) /\ w[c].pos = x
<1> DEFINE old == v[c].pos
           u == With(v, c, Going(v[c], x))
           l == LeaveBehind(u, c)
           W == Spectators(v, old) \union Spectators(u, x)
<1>0. v \in State /\ Nobody \notin Creatures /\ Placed(v, c) /\ ~v[c].slain
  BY Facts, SoundState DEF Whole, Alive
<1>1. w = Hears(l, c, old, W)
  BY DEF MoveCreature, Over, Hears, With, Going
<1>2. W \in SUBSET Creatures /\ Spectators(v, v[c].pos) \subseteq W
      /\ u = With(v, c, Going(v[c], x)) /\ l = LeaveBehind(u, c)
      /\ \A d \in W : Placed(v, d) \/ Placed(u, d)
  BY DEF Spectators
<1>3. Near(v, c, v[c].pos, Viewport)
  BY <1>0, SelfNear
<1>4. c \in W
  BY <1>0, <1>3 DEF Spectators
<1> HIDE DEF u, l, W, old
<1>5. /\ Sound(u, W, c, {c}, {}) /\ u[c].pos = x
      /\ \A e \in Creatures : u[e].life = v[e].life /\ u[e].slain = v[e].slain /\ u[e].master = v[e].master
  <2>1. Went(v, u, c, x, W)
    BY <1>0, <1>2, WentIs
  <2> QED
    BY <2>1 DEF Went
<1>6. Shrinks(u, l, Summons(u, c)) /\ Sound(l, W, c, {c}, {})
  BY <1>2, <1>5, LeaveBehindIs
<1>7. c \notin Summons(u, c)
  BY <1>0, <1>5 DEF Summons, Sound, Base, Flat
<1>8. SameBody(u[c], l[c])
  BY <1>6, <1>7 DEF Shrinks
<1>9. Alive(l, c) /\ l[c].pos = x
  BY <1>0, <1>5, <1>8 DEF SameBody, Alive, Placed
<1>10. \A d \in W : l[d].life # "unborn"
  BY <1>2, <1>5, <1>6 DEF Shrinks, Placed
<1>11. Bodies(l, w) /\ Sound(w, {}, c, {}, {})
  BY <1>1, <1>2, <1>4, <1>6, <1>9, <1>10, HearsIs
<1>12. l \in State /\ w \in State
  BY <1>6, <1>11, SoundState
<1>13. Alive(w, c) /\ w[c].pos = x
  BY <1>9, <1>11, <1>12, SameSight DEF Bodies, SameBody
<1> QED
  BY <1>11, <1>13, WholeAny DEF Whole

(* c comes into the game, and those around hear of it.                     *)
Entering(b, x) == [b EXCEPT !.life = "placed", !.pos = x, !.refs = 1]

LEMMA EnteringIs ==
  ASSUME NEW b \in Beings, NEW x \in Int
  PROVE  /\ Entering(b, x) \in Beings /\ SameAims(b, Entering(b, x)) /\ SameLists(b, Entering(b, x))
         /\ SameChecks(b, Entering(b, x)) /\ Entering(b, x).life = "placed" /\ Entering(b, x).refs = 1
         /\ Entering(b, x).master = b.master /\ Entering(b, x).released = b.released
<1>1. Entering(b, x) \in Beings
  <2> DEFINE n == 1
             l == "placed"
  <2>1. n \in Int /\ l \in Lives /\ Entering(b, x) = [b EXCEPT !.life = l, !.pos = x, !.refs = n]
    BY DEF Entering, Lives
  <2> HIDE DEF n, l
  <2> QED
    BY <2>1 DEF Beings
<1> QED
  BY <1>1 DEF Beings, Entering, SameAims, SameLists, SameChecks

LEMMA UnbornFree ==
  ASSUME CreaturesAssumption, NEW v, Base(v), NEW c \in Creatures, v[c].life = "unborn"
  PROVE  /\ v[c].refs = 0 /\ ~v[c].listed /\ ~v[c].check /\ v[c].master = Nobody /\ v[c].released = 0
         /\ v[c].attacked = Nobody /\ v[c].follow = Nobody
         /\ \A e \in Creatures : v[e].master # c
<1>1. /\ ~v[c].listed /\ v[c].master = Nobody /\ v[c].released = 0
      /\ \A m \in Creatures : c \notin v[m].targets /\ c \notin v[m].friends
      /\ v[c].attacked = Nobody /\ v[c].follow = Nobody
  BY DEF Base, Unpointed, Fresh, Gone
<1>2. ~Placed(v, c)
  BY DEF Placed
<1>3. InTargetsOf(v, c) = {} /\ InFriendsOf(v, c) = {}
  BY <1>1 DEF InTargetsOf, InFriendsOf
<1>4. Held(v, c) = 0
  BY <1>1, <1>2, <1>3, FS_EmptySet DEF Held, Bit
<1>5. v[c].refs = 0 /\ ~v[c].check
  BY <1>1, <1>4 DEF Base, Exact, Checked
<1>6. c # Nobody
  BY Facts
<1>7. \A e \in Creatures : v[e].master # c
  BY <1>6 DEF Base, Flat, Gone
<1> QED
  BY <1>1, <1>5, <1>7

Entered(v, u, c) ==
  /\ Sound(u, {}, Nobody, {c}, {}) /\ Placed(u, c) /\ u[c].master = Nobody
  /\ \A e \in Creatures \ {c} : u[e] = v[e]

LEMMA EnteredIs ==
  ASSUME CreaturesAssumption, NEW v, Whole(v), NEW c \in Creatures, v[c].life = "unborn",
         NEW x \in Int, NEW u, u = With(v, c, Entering(v[c], x))
  PROVE  Entered(v, u, c)
<1> DEFINE r == Entering(v[c], x)
<1>0. v \in State /\ Nobody \notin Creatures /\ Creatures = Monsters \union Players /\ Base(v)
      /\ IsFiniteSet(Creatures)
  BY Facts, SoundState DEF Whole, Sound
<1>1. /\ r \in Beings /\ SameAims(v[c], r) /\ SameLists(v[c], r) /\ SameChecks(v[c], r)
      /\ r.life = "placed" /\ r.refs = 1 /\ r.master = v[c].master /\ r.released = v[c].released
  BY <1>0, Fields, EnteringIs
<1>2. u = With(v, c, r)
  OBVIOUS
<1> HIDE DEF r
<1>3. u \in State /\ u[c] = r /\ \A e \in Creatures \ {c} : u[e] = v[e]
  BY <1>0, <1>1, <1>2, WithIs
<1>4. /\ v[c].refs = 0 /\ ~v[c].listed /\ ~v[c].check /\ v[c].master = Nobody /\ v[c].released = 0
      /\ v[c].attacked = Nobody /\ v[c].follow = Nobody
      /\ \A e \in Creatures : v[e].master # c
  BY <1>0, UnbornFree
<1>5. /\ u[c].life = "placed" /\ u[c].refs = 1 /\ u[c].master = Nobody /\ u[c].released = 0
      /\ u[c].attacked = Nobody /\ u[c].follow = Nobody /\ ~u[c].listed /\ ~u[c].check
      /\ SameLists(v[c], u[c])
  BY <1>1, <1>3, <1>4 DEF SameAims, SameChecks
<1>6. Exact(u)
  <2>1. BalancedAt(v, u, c)
    <3>1. /\ Bit(u[c].listed) - Bit(v[c].listed) = 0
          /\ Bit(u[c].master # Nobody) - Bit(v[c].master # Nobody) = 0
          /\ Bit(Placed(u, c)) - Bit(Placed(v, c)) = 1
      BY <1>4, <1>5 DEF Bit, Placed
    <3> QED
      BY <1>4, <1>5, <3>1 DEF BalancedAt
  <2>2. Balanced(v, u, c)
    BY <1>0, <1>3, <1>5, <2>1, BalancedOne
  <2>3. \A e \in Creatures \ {c} : SameLists(v[e], u[e])
    BY <1>3 DEF SameLists
  <2> QED
    BY <1>0, <1>3, <2>2, <2>3, ExactKept DEF Base
<1>7. \A e \in Creatures : u[e].targets = v[e].targets /\ u[e].friends = v[e].friends
  BY <1>3, <1>5 DEF SameLists
<1>8. Placed(u, c) /\ ~Gone(u, c)
  BY <1>5 DEF Placed, Gone
<1>9. \A e \in Creatures \ {c} : (Gone(u, e) <=> Gone(v, e)) /\ (Placed(u, e) <=> Placed(v, e))
  BY <1>3 DEF Gone, Placed
<1>10. Unpointed(u)
  <2> SUFFICES ASSUME NEW e \in Creatures, Gone(u, e)
      PROVE  /\ ~u[e].listed /\ u[e].master = Nobody /\ u[e].released = 0
             /\ \A m \in Creatures : e \notin u[m].targets /\ e \notin u[m].friends
    BY DEF Unpointed
  <2>1. e # c /\ u[e] = v[e] /\ Gone(v, e)
    BY <1>3, <1>8, <1>9
  <2> QED
    BY <1>0, <1>7, <2>1 DEF Base, Unpointed
<1>11. Fresh(u)
  <2>1. \A e \in Creatures \ {c} : u[e].life = v[e].life /\ u[e].attacked = v[e].attacked /\ u[e].follow = v[e].follow
    BY <1>3
  <2> QED
    BY <1>0, <1>5, <2>1 DEF Base, Fresh
<1>12. Flat(u)
  <2> SUFFICES ASSUME NEW e \in Creatures, u[e].master # Nobody
               PROVE  /\ u[u[e].master].master = Nobody /\ ~Gone(u, u[e].master)
                      /\ e \in Monsters => Home[e] = -1
    BY DEF Flat
  <2>1. e # c /\ u[e] = v[e]
    BY <1>3, <1>5
  <2> DEFINE o == v[e].master
  <2>2. o \in Creatures /\ o # c /\ v[o].master = Nobody /\ ~Gone(v, o) /\ (e \in Monsters => Home[e] = -1)
    BY <1>0, <1>4, <2>1, Fields DEF Base, Flat
  <2>3. u[e].master = o
    BY <2>1
  <2> HIDE DEF o
  <2>4. u[o] = v[o] /\ ~Gone(u, o)
    BY <1>3, <1>9, <2>2
  <2> QED
    BY <2>2, <2>3, <2>4
<1>13. \A e \in Creatures : Checked(u, e)
  <2> SUFFICES ASSUME NEW e \in Creatures PROVE Checked(u, e)
    OBVIOUS
  <2>1. CASE e = c
    BY <1>5, <2>1 DEF Checked
  <2>2. CASE e # c
    <3>1. u[e] = v[e] /\ (Placed(u, e) <=> Placed(v, e)) /\ Checked(v, e)
      BY <1>0, <1>3, <1>9, <2>2 DEF Base
    <3> QED
      BY <3>1 DEF Checked
  <2> QED
    BY <2>1, <2>2
<1>14. AllAwake(u, {c})
  <2> SUFFICES ASSUME NEW e \in Monsters \ {c} PROVE Awake(u, e)
    BY DEF AllAwake
  <2>1. u[e] = v[e] /\ Awake(v, e)
    BY <1>0, <1>3 DEF Whole, Sound, AllAwake
  <2> QED
    BY <2>1, SameOther
<1>15. Served(u, {})
  <2> SUFFICES ASSUME NEW e \in Creatures, Placed(u, e), u[e].master # Nobody
               PROVE  Placed(u, u[e].master)
    BY DEF Served
  <2>1. e # c /\ u[e] = v[e] /\ Placed(v, e)
    BY <1>3, <1>5, <1>9
  <2> DEFINE o == v[e].master
  <2>2. o \in Creatures /\ Placed(v, o) /\ u[e].master = o
    BY <1>0, <2>1, Fields DEF Whole, Sound, Served
  <2> HIDE DEF o
  <2> QED
    BY <1>8, <1>9, <2>2
<1>16. InSight(u, {}, Nobody)
  <2> SUFFICES ASSUME NEW e \in Creatures, NEW t \in Creatures, Pursues(u, e, t)
               PROVE  Within(u, e, t)
    BY DEF InSight
  <2>1. e # c
    BY <1>0, <1>5 DEF Pursues
  <2>2. u[e] = v[e] /\ Placed(v, e)
    BY <1>3, <1>9, <2>1 DEF Pursues
  <2>3. Within(v, e, t)
    BY <2>2 DEF Pursues, Whole, Sound, InSight, Unnoticed
  <2>4. t # c
    BY <2>3 DEF Within, Placed
  <2>5. u[t] = v[t]
    BY <1>3, <2>4
  <2> QED
    BY <2>2, <2>3, <2>5 DEF Within, Placed, Sees, Near
<1> QED
  BY <1>3, <1>5, <1>6, <1>8, <1>10, <1>11, <1>12, <1>13, <1>14, <1>15, <1>16 DEF Sound, Base, Entered

LEMMA AppearIs ==
  ASSUME CreaturesAssumption, NEW v \in State, NEW d \in Creatures, NEW c \in Creatures,
         NEW w, w = OnCreatureAppear(v, d, c)
  PROVE  /\ w \in State
         /\ Placed(v, c) => Mind(v, w, d) /\ (d # c /\ d \in Monsters => (Awake(v, d) => Awake(w, d)))
<1>0. IsFiniteSet(Creatures)
  BY Facts
<1>1. CASE w = v
  BY <1>1, MindSelf
<1>2. CASE d # c /\ w = OnCreatureFound(v, d, c)
  BY <1>0, <1>2, FoundIs
<1>3. CASE d = c /\ w = UpdateIdleStatus(UpdateTargetList(v, d), d)
  <2> DEFINE f == UpdateTargetList(v, d)
  <2>1. w = UpdateIdleStatus(f, d) /\ f = UpdateTargetList(v, d)
    BY <1>3
  <2> HIDE DEF f
  <2>2. Mind(v, f, d)
    BY <1>0, <2>1, UpdateTargetListIs
  <2>3. f \in State
    BY <2>2, MindBodies
  <2>4. Mind(f, w, d)
    BY <1>0, <2>1, <2>3, UpdateIdleIs
  <2>5. w \in State
    BY <2>4, MindBodies
  <2>6. Mind(v, w, d)
    BY <2>2, <2>3, <2>4, <2>5, MindThen
  <2> QED
    BY <1>3, <2>5, <2>6
<1> QED
  BY <1>1, <1>2, <1>3 DEF OnCreatureAppear

LEMMA AppearType ==
  ASSUME CreaturesAssumption, NEW v \in State, NEW d \in Creatures, NEW c \in Creatures
  PROVE  OnCreatureAppear(v, d, c) \in State
BY AppearIs

Appears(v, r, S) == FoldSet(LAMBDA c, u : OnCreatureAppear(u, c, r), v, S)

AppearsBy(v, r, S, t) ==
  /\ t \in [SUBSET S -> State] /\ t[{}] = v
  /\ \A s \in SUBSET S : s # {} => t[s] = OnCreatureAppear(t[s \ {Pick(s)}], Pick(s), r)

LEMMA AppearSteps ==
  ASSUME CreaturesAssumption, NEW v \in State,
         NEW r \in Creatures, NEW S \in SUBSET Creatures
  PROVE  \E t : AppearsBy(v, r, S, t) /\ t[S] = Appears(v, r, S)
<1> DEFINE F == [c \in S |-> [u \in State |-> OnCreatureAppear(u, c, r)]]
           Eq(t) == t = [s \in SUBSET S |-> IF s = {} THEN v ELSE OnCreatureAppear(t[s \ {Pick(s)}], Pick(s), r)]
<1>1. IsFiniteSet(S)
  BY Facts, FS_Subset
<1>2. \A c \in S, u \in State : OnCreatureAppear(u, c, r) \in State
  BY AppearType
<1>3. F \in [S -> [State -> State]] /\ \A c \in S, u \in State : F[c][u] = OnCreatureAppear(u, c, r)
  BY <1>2
<1> HIDE DEF F
<1>4. PICK t : Run(F, v, S, t)
  BY <1>1, <1>3, FoldingStates
<1>5. AppearsBy(v, r, S, t)
  BY <1>3, <1>4, PickIn, SMTT(60) DEF Run, AppearsBy
<1>6. Eq(t)
  BY <1>5 DEF AppearsBy
<1>7. Appears(v, r, S) = (CHOOSE q : Eq(q))[S]
  BY DEF Appears, FoldSet, MapThenFoldSet, Pick
<1> HIDE DEF Eq
<1>8. PICK q : q = (CHOOSE p : Eq(p)) /\ Eq(q)
  BY <1>6
<1>9. q[{}] = v /\ \A s \in SUBSET S : s # {} => q[s] = OnCreatureAppear(q[s \ {Pick(s)}], Pick(s), r)
  BY <1>8 DEF Eq
<1>10. Agree(S, t, q)
  BY <1>5, <1>9 DEF AppearsBy, Agree
<1>11. t[S] = q[S]
  BY <1>1, <1>10, SameSteps
<1> QED
  BY <1>5, <1>7, <1>8, <1>11


LEMMA PlaceCreatureIs ==
  ASSUME CreaturesAssumption, NEW v, Whole(v), NEW c \in Creatures, v[c].life = "unborn",
         NEW x \in Int, NEW w, w = PlaceCreature(v, c, x)
  PROVE  /\ Whole(w) /\ Placed(w, c) /\ w[c].check
         /\ \A e \in Creatures : w[e].master = v[e].master /\ (e # c => w[e].life = v[e].life)
<1> DEFINE u == With(v, c, Entering(v[c], x))
           S == Spectators(u, x)
           y == Appears(u, c, S)
<1>0. IsFiniteSet(Creatures) /\ S \in SUBSET Creatures /\ v[c].master = Nobody /\ IsFiniteSet(S)
  BY Facts, UnbornFree, FS_Subset DEF Spectators, Whole, Sound
<1>1. w = AddCreatureCheck(y, c)
  BY DEF PlaceCreature, Over, Appears, With, Entering
<1>2. u = With(v, c, Entering(v[c], x)) /\ y = Appears(u, c, S)
  OBVIOUS
<1> HIDE DEF u, S, y
<1>3. Entered(v, u, c)
  BY <1>2, EnteredIs
<1>4. Sound(u, {}, Nobody, {c}, {}) /\ Placed(u, c) /\ u \in State
  BY <1>3, SoundState DEF Entered
<1>5. \A e \in Creatures : u[e].master = v[e].master /\ (e # c => u[e].life = v[e].life)
  BY <1>0, <1>3 DEF Entered
<1>6. PICK t : AppearsBy(u, c, S, t) /\ t[S] = y
  BY <1>0, <1>2, <1>4, AppearSteps
<1>7. /\ t \in [SUBSET S -> State] /\ t[{}] = u
      /\ \A s \in SUBSET S : s # {} => t[s] = OnCreatureAppear(t[s \ {Pick(s)}], Pick(s), c)
  BY <1>6 DEF AppearsBy
<1> DEFINE Q == {s \in SUBSET S : Unmoved(u, t[s]) /\ Sound(t[s], {}, Nobody, {c}, {})}
<1>8. {} \in Q
  BY <1>4, <1>7 DEF Unmoved, SameBody, SameAims
<1>9. ASSUME NEW s \in SUBSET S, s # {}, s \ {Pick(s)} \in Q PROVE s \in Q
  <2> DEFINE k == t[s \ {Pick(s)}]
             z == t[s]
             d == Pick(s)
  <2>1. d \in s /\ d \in Creatures /\ s \ {d} \in SUBSET S
    BY <1>0, <1>9, PickIn
  <2>2. /\ k \in State /\ z = OnCreatureAppear(k, d, c)
        /\ Unmoved(u, k) /\ Sound(k, {}, Nobody, {c}, {})
    BY <1>7, <1>9, <2>1
  <2> HIDE DEF k, z, d
  <2>3. Placed(k, c)
    BY <1>4, <2>2, SameAlive
  <2>4. Mind(k, z, d) /\ (d # c /\ d \in Monsters => (Awake(k, d) => Awake(z, d)))
    BY <2>1, <2>2, <2>3, AppearIs
  <2>5. d \in Monsters => d \in {c} \/ Awake(z, d)
    BY <2>2, <2>4 DEF Sound, AllAwake
  <2>6. Sound(z, {}, Nobody, {c}, {})
    BY <2>1, <2>2, <2>4, <2>5, MindSound
  <2>7. Unmoved(u, z)
    BY <2>2, <2>4 DEF Mind, Unmoved, SameBody, SameAims
  <2> QED
    BY <2>6, <2>7 DEF z
<1> HIDE DEF Q
<1>10. S \in Q
  BY <1>0, <1>8, <1>9, OneByOne
<1>11. Unmoved(u, y) /\ Sound(y, {}, Nobody, {c}, {}) /\ y \in State
  BY <1>6, <1>10, SoundState DEF Q
<1>12. Placed(y, c)
  BY <1>4, <1>11, SameAlive
<1>13. Mind(y, w, c) /\ w[c].check
  BY <1>0, <1>1, <1>11, <1>12, AddCheckMind
<1>14. w \in State /\ Unmoved(y, w)
  BY <1>13 DEF Mind
<1>15. Awake(w, c)
  BY <1>13 DEF Awake
<1>16. {c} \subseteq {} \union {c}
  OBVIOUS
<1>17. Sound(w, {}, Nobody, {}, {})
  BY <1>11, <1>13, <1>15, <1>16, MindSound
<1>18. Placed(w, c)
  BY <1>11, <1>12, <1>14, SameAlive
<1>19. \A e \in Creatures : w[e].master = v[e].master /\ (e # c => w[e].life = v[e].life)
  BY <1>5, <1>11, <1>14 DEF Unmoved, SameBody
<1> QED
  BY <1>13, <1>17, <1>18, <1>19 DEF Whole

-----------------------------------------------------------------------------
(* A death: the summons die too, and have no master any more.              *)
LetGo(v, s) == SetMaster(Killed(v, s), s, Nobody)

LEMMA LetGoIs ==
  ASSUME CreaturesAssumption, NEW v \in State, NEW s \in Creatures, NEW w, w = LetGo(v, s)
  PROVE  /\ w \in State /\ \A e \in Creatures : w[e].life = v[e].life
         /\ \A R, x, X, Y : Sound(v, R, x, X, Y) => Sound(w, R, x, X, Y)
<1> DEFINE u == Killed(v, s)
<1>0. IsFiniteSet(Creatures) /\ Nobody \notin Creatures
  BY Facts
<1>1. u = Killed(v, s) /\ w = SetMaster(u, s, Nobody) /\ Nobody \in Creatures \union {Nobody}
  BY DEF LetGo
<1> HIDE DEF u
<1>2. /\ u \in State /\ \A e \in Creatures : u[e].life = v[e].life /\ u[e].master = v[e].master
      /\ \A R, x, X, Y : Sound(v, R, x, X, Y) => Sound(u, R, x, X, Y)
  BY <1>1, KilledIs
<1>3. NowServes(u, w, s, Nobody)
  BY <1>0, <1>1, <1>2, SetMasterIs
<1>4. w \in State /\ \A e \in Creatures : w[e].life = u[e].life
  BY <1>3 DEF NowServes, SameBody
<1>5. ASSUME NEW R, NEW x, NEW X, NEW Y, Sound(v, R, x, X, Y) PROVE Sound(w, R, x, X, Y)
  <2>1. Sound(u, R, x, X, Y) /\ MayServe(u, s, Nobody)
    BY <1>2, <1>5 DEF MayServe
  <2> QED
    BY <1>0, <1>1, <1>3, <2>1, ServesSound
<1> QED
  BY <1>2, <1>4, <1>5

LEMMA LetGoType ==
  ASSUME CreaturesAssumption, NEW v \in State, NEW s \in Creatures
  PROVE  LetGo(v, s) \in State
BY LetGoIs

LetsGo(v, S) == FoldSet(LAMBDA c, u : LetGo(u, c), v, S)

LetsGoBy(v, S, t) ==
  /\ t \in [SUBSET S -> State] /\ t[{}] = v
  /\ \A s \in SUBSET S : s # {} => t[s] = LetGo(t[s \ {Pick(s)}], Pick(s))

LEMMA LetSteps ==
  ASSUME CreaturesAssumption, NEW v \in State, NEW S \in SUBSET Creatures
  PROVE  \E t : LetsGoBy(v, S, t) /\ t[S] = LetsGo(v, S)
<1> DEFINE F == [c \in S |-> [u \in State |-> LetGo(u, c)]]
           Eq(t) == t = [s \in SUBSET S |-> IF s = {} THEN v ELSE LetGo(t[s \ {Pick(s)}], Pick(s))]
<1>1. IsFiniteSet(S)
  BY Facts, FS_Subset
<1>2. \A c \in S, u \in State : LetGo(u, c) \in State
  BY LetGoType
<1>3. F \in [S -> [State -> State]] /\ \A c \in S, u \in State : F[c][u] = LetGo(u, c)
  BY <1>2
<1> HIDE DEF F
<1>4. PICK t : Run(F, v, S, t)
  BY <1>1, <1>3, FoldingStates
<1>5. LetsGoBy(v, S, t)
  BY <1>3, <1>4, PickIn DEF Run, LetsGoBy
<1>6. Eq(t)
  BY <1>5 DEF LetsGoBy
<1>7. LetsGo(v, S) = (CHOOSE q : Eq(q))[S]
  BY DEF LetsGo, FoldSet, MapThenFoldSet, Pick
<1> HIDE DEF Eq
<1>8. PICK q : q = (CHOOSE p : Eq(p)) /\ Eq(q)
  BY <1>6
<1>9. q[{}] = v /\ \A s \in SUBSET S : s # {} => q[s] = LetGo(q[s \ {Pick(s)}], Pick(s))
  BY <1>8 DEF Eq
<1>10. Agree(S, t, q)
  BY <1>5, <1>9 DEF LetsGoBy, Agree
<1>11. t[S] = q[S]
  BY <1>1, <1>10, SameSteps
<1> QED
  BY <1>5, <1>7, <1>8, <1>11


LEMMA LetsGoIs ==
  ASSUME CreaturesAssumption, NEW v, Whole(v), NEW S \in SUBSET Creatures, NEW w, w = LetsGo(v, S)
  PROVE  Whole(w) /\ \A e \in Creatures : w[e].life = v[e].life
<1>0. IsFiniteSet(S) /\ v \in State
  BY Facts, FS_Subset, SoundState DEF Whole
<1>1. PICK t : LetsGoBy(v, S, t) /\ t[S] = w
  BY <1>0, LetSteps
<1>2. /\ t \in [SUBSET S -> State] /\ t[{}] = v
      /\ \A s \in SUBSET S : s # {} => t[s] = LetGo(t[s \ {Pick(s)}], Pick(s))
  BY <1>1 DEF LetsGoBy
<1> DEFINE Q == {s \in SUBSET S : Whole(t[s]) /\ \A e \in Creatures : t[s][e].life = v[e].life}
<1>3. {} \in Q
  BY <1>2
<1>4. ASSUME NEW s \in SUBSET S, s # {}, s \ {Pick(s)} \in Q PROVE s \in Q
  <2> DEFINE k == t[s \ {Pick(s)}]
             z == t[s]
             d == Pick(s)
  <2>1. d \in s /\ d \in Creatures /\ s \ {d} \in SUBSET S
    BY <1>4, PickIn
  <2>2. /\ k \in State /\ z = LetGo(k, d)
        /\ Whole(k) /\ \A e \in Creatures : k[e].life = v[e].life
    BY <1>2, <1>4, <2>1
  <2> HIDE DEF k, z, d
  <2>3. /\ \A e \in Creatures : z[e].life = k[e].life
        /\ \A R, x, X, Y : Sound(k, R, x, X, Y) => Sound(z, R, x, X, Y)
    BY <2>1, <2>2, LetGoIs
  <2>4. Whole(z) /\ \A e \in Creatures : z[e].life = v[e].life
    BY <2>2, <2>3 DEF Whole
  <2> QED
    BY <2>4 DEF z
<1> HIDE DEF Q
<1>5. S \in Q
  BY <1>0, <1>3, <1>4, OneByOne
<1> QED
  BY <1>1, <1>5 DEF Q

LEMMA ClearListsSound ==
  ASSUME CreaturesAssumption, NEW v, Whole(v), NEW m \in Creatures, NEW w, w = ClearLists(v, m)
  PROVE  Whole(w) /\ Unmoved(v, w)
<1>0. IsFiniteSet(Creatures) /\ v \in State
  BY Facts, SoundState DEF Whole
<1>1. Recounted(v, w, m, {}, {})
  BY <1>0, ClearListsIs
<1>2. Mind(v, w, m)
  BY <1>0, <1>1, RecountedMind
<1>3. w \in State /\ Unmoved(v, w) /\ w[m].targets = {} /\ w[m].check = v[m].check
  BY <1>1 DEF Recounted, SameChecks
<1>4. m \in Monsters => Awake(v, m)
  BY DEF Whole, Sound, AllAwake
<1>5. /\ Placed(w, m) <=> Placed(v, m)
      /\ Alive(w, m) <=> Alive(v, m)
      /\ w[m].master = v[m].master /\ w[m].condition = v[m].condition
      /\ w[m].pos = v[m].pos /\ w[m].slain = v[m].slain
  BY <1>0, <1>3, SameAlive
<1>6. m \in Monsters => Awake(w, m)
  BY <1>3, <1>4, <1>5 DEF Awake
<1>7. {} \subseteq {} \union {m}
  OBVIOUS
<1> QED
  BY <1>2, <1>3, <1>6, <1>7, MindSound DEF Whole

LEMMA OnDeathIs ==
  ASSUME CreaturesAssumption, NEW v, Whole(v), NEW m \in Creatures, Placed(v, m), NEW first \in BOOLEAN,
         NEW w, w = OnDeath(v, m, first)
  PROVE  Whole(w)
<1> DEFINE a == SetAttackedCreature(v, m, Nobody)
           S == {s \in Summons(v, m) : Placed(v, s)}
           b == LetsGo(a, S)
           c == ClearLists(b, m)
           d == SetMaster(c, m, Nobody)
<1>0. IsFiniteSet(Creatures) /\ Nobody \notin Creatures /\ v \in State /\ Nobody \in Creatures \union {Nobody}
  BY Facts, SoundState DEF Whole
<1>1. w = RemoveCreature(d, m, first)
  BY DEF OnDeath, Over, LetsGo, LetGo
<1>2. /\ a = SetAttackedCreature(v, m, Nobody) /\ b = LetsGo(a, S) /\ c = ClearLists(b, m)
      /\ d = SetMaster(c, m, Nobody) /\ S \in SUBSET Creatures
  BY DEF Summons
<1> HIDE DEF a, b, c, d, S
<1>3. BandAttacks(v, a, m, Nobody)
  BY <1>0, <1>2, SetAttackedIs
<1>4. Turned(v, a, Band(v, m))
  BY <1>3 DEF BandAttacks
<1>5. \A e \in Band(v, m) : v[e].life # "unborn"
  <2>1. v[m].life # "unborn"
    BY DEF Placed
  <2> QED
    BY <1>0, <2>1, BandBorn DEF Whole, Sound
<1>6. Whole(a)
  BY <1>0, <1>4, <1>5, TurnedSound DEF Whole
<1>7. Placed(a, m)
  BY <1>0, <1>4, TurnedBodies, SameSight
<1>8. Whole(b) /\ Placed(b, m)
  BY <1>2, <1>6, <1>7, LetsGoIs DEF Placed
<1>9. Whole(c) /\ Unmoved(b, c)
  BY <1>2, <1>8, ClearListsSound
<1>10. c \in State /\ b \in State
  BY <1>8, <1>9, SoundState DEF Whole
<1>11. Placed(c, m) /\ MayServe(c, m, Nobody)
  BY <1>8, <1>9, <1>10, SameAlive DEF MayServe
<1>12. NowServes(c, d, m, Nobody)
  BY <1>0, <1>2, <1>10, SetMasterIs
<1>13. Whole(d) /\ Bodies(c, d)
  BY <1>0, <1>9, <1>11, <1>12, ServesSound DEF Whole
<1>14. d \in State /\ Placed(d, m)
  BY <1>10, <1>11, <1>12, <1>13, SameSight DEF NowServes
<1> QED
  BY <1>1, <1>13, <1>14, RemoveCreatureIs DEF Whole

-----------------------------------------------------------------------------
(* The thoughts of a monster.                                              *)
LEMMA FollowSound ==
  ASSUME CreaturesAssumption, NEW v, Whole(v), NEW c \in Creatures, v[c].life # "unborn",
         NEW t \in Creatures \union {Nobody}, t # Nobody => Placed(v, t),
         NEW w, w = SetFollowCreature(v, c, t)
  PROVE  Whole(w) /\ Bodies(v, w)
<1>0. Nobody \notin Creatures /\ v \in State
  BY Facts, SoundState DEF Whole
<1>1. NowFollows(v, w, c, t)
  BY <1>0, SetFollowIs
<1>2. Turned(v, w, {c})
  BY <1>1 DEF NowFollows
<1>3. \A d \in {c} : v[d].life # "unborn"
  OBVIOUS
<1> QED
  BY <1>0, <1>2, <1>3, TurnedSound, TurnedBodies DEF Whole

LEMMA ThinkAsSummonIs ==
  ASSUME CreaturesAssumption, NEW v, Whole(v), NEW m \in Creatures, Placed(v, m),
         v[m].master # Nobody, NEW w, w = ThinkAsSummon(v, m)
  PROVE  Whole(w)
<1> DEFINE a == v[m].attacked
           o == v[m].master
           f == IF a = Nobody THEN o ELSE IF a = m THEN Nobody ELSE a
<1>0. IsFiniteSet(Creatures) /\ Nobody \notin Creatures /\ v \in State /\ v[m].life # "unborn"
  BY Facts, SoundState DEF Whole, Placed
<1>1. o \in Creatures /\ a \in Creatures \union {Nobody} /\ v[o].attacked \in Creatures \union {Nobody}
  BY <1>0, Fields
<1>2. CASE a = Nobody /\ v[o].attacked # Nobody
  <2> DEFINE b == v[o].attacked
  <2>1. b \in Creatures /\ w = SelectTarget(v, m, b)
    BY <1>1, <1>2 DEF ThinkAsSummon
  <2> HIDE DEF b
  <2> QED
    BY <1>0, <2>1, SelectSound DEF Whole
<1>3. CASE ~(a = Nobody /\ v[o].attacked # Nobody)
  <2>1. w = SetFollowCreature(v, m, f)
    BY <1>3 DEF ThinkAsSummon
  <2>2. Placed(v, o)
    BY <1>0 DEF Whole, Sound, Served
  <2>3. a # Nobody => Placed(v, a)
    BY <1>1 DEF Whole, Sound, InSight, Pursues, Within, Unnoticed
  <2>4. f \in Creatures \union {Nobody} /\ (f # Nobody => Placed(v, f))
    BY <1>1, <2>2, <2>3
  <2> HIDE DEF f
  <2> QED
    BY <1>0, <2>1, <2>4, FollowSound
<1> QED
  BY <1>2, <1>3

(* Sent home, a monster sleeps.                                            *)
LEMMA SentHome ==
  ASSUME CreaturesAssumption, NEW v, Whole(v), NEW m \in Monsters, Alive(v, m), Home[m] # -1,
         NEW w, w = SetIdle(MoveCreature(v, m, Home[m]), m, TRUE)
  PROVE  Whole(w)
<1> DEFINE x == Home[m]
           u == MoveCreature(v, m, x)
<1>0. IsFiniteSet(Creatures) /\ m \in Creatures /\ TRUE \in BOOLEAN
  BY Facts
<1>1. x \in Int
  <2>1. Home \in [Monsters -> Cells \union {-1}] /\ Cells \subseteq Nat
    BY DEF CreaturesAssumption
  <2>2. x \in Cells
    BY <2>1
  <2>3. Cells \subseteq Int
    BY <2>1
  <2> HIDE DEF x
  <2> QED
    BY <2>2, <2>3
<1>2. u = MoveCreature(v, m, x) /\ w = SetIdle(u, m, TRUE)
  OBVIOUS
<1> HIDE DEF u
<1>3. Whole(u) /\ Alive(u, m) /\ u[m].pos = Home[m]
  BY <1>0, <1>1, <1>2, MoveCreatureIs
<1>4. u \in State /\ u[m].master = Nobody
  BY <1>0, <1>3, SoundState DEF Whole, Sound, Base, Flat
<1>5. Mind(u, w, m) /\ w[m].targets = {}
  BY <1>0, <1>2, <1>3, <1>4, SetIdleIs
<1>6. Unmoved(u, w) /\ w \in State
  BY <1>5 DEF Mind
<1>7. Alive(w, m) /\ w[m].pos = Home[m] /\ w[m].master = Nobody
  BY <1>0, <1>3, <1>4, <1>6, SameAlive, ZenonT(60)
<1>8. Awake(w, m)
  BY <1>5, <1>7 DEF Awake, Alive
<1>9. {} \subseteq {} \union {m}
  OBVIOUS
<1> QED
  BY <1>0, <1>3, <1>5, <1>8, <1>9, MindSound DEF Whole

LEMMA OnThinkIs ==
  ASSUME CreaturesAssumption, NEW v, Whole(v), NEW m \in Monsters, Alive(v, m),
         NEW t \in Creatures \union {Nobody}, NEW w, w = OnThink(v, m, t)
  PROVE  Whole(w)
<1>0. IsFiniteSet(Creatures) /\ Nobody \notin Creatures /\ m \in Creatures /\ v \in State
  BY Facts, SoundState DEF Whole
<1>1. CASE Home[m] # -1 /\ ~Near(v, m, Home[m], HomeRange)
  <2>1. w = SetIdle(MoveCreature(v, m, Home[m]), m, TRUE)
    BY <1>1 DEF OnThink
  <2> QED
    BY <1>1, <2>1, SentHome
<1>2. CASE ~(Home[m] # -1 /\ ~Near(v, m, Home[m], HomeRange))
  <2> DEFINE u == UpdateIdleStatus(v, m)
  <2>1. w = IF Quiet(v, m) THEN u
            ELSE IF v[m].master # Nobody THEN ThinkAsSummon(u, m)
            ELSE IF t # Nobody THEN SelectTarget(u, m, t) ELSE u
    BY <1>2 DEF OnThink
  <2>2. u = UpdateIdleStatus(v, m) /\ {} \subseteq {} \union {m}
    OBVIOUS
  <2> HIDE DEF u
  <2>3. Whole(u) /\ Bodies(v, u) /\ Mind(v, u, m)
    BY <1>0, <2>2, UpdateIdleSound DEF Whole
  <2>4. u \in State /\ u[m].master = v[m].master
    BY <1>0, <2>3 DEF Mind, Unmoved
  <2>5. Placed(u, m) /\ u[m].life # "unborn"
    BY <1>0, <2>3, <2>4, SameSight DEF Alive, Placed
  <2>6. CASE w = u
    BY <2>3, <2>6
  <2>7. CASE v[m].master # Nobody /\ w = ThinkAsSummon(u, m)
    BY <1>0, <2>3, <2>4, <2>5, <2>7, ThinkAsSummonIs
  <2>8. CASE t # Nobody /\ w = SelectTarget(u, m, t)
    BY <1>0, <2>3, <2>5, <2>8, SelectSound DEF Whole
  <2> QED
    BY <2>1, <2>6, <2>7, <2>8
<1> QED
  BY <1>1, <1>2

-----------------------------------------------------------------------------
(* The other actions, up to the destruction of who is not needed any more. *)
LEMMA ConditionIs ==
  ASSUME CreaturesAssumption, NEW v, Whole(v), NEW m \in Monsters, Alive(v, m),
         NEW w, w = UpdateIdleStatus([v EXCEPT ![m].condition = ~@], m)
  PROVE  Whole(w)
<1> DEFINE r == Ailing(v[m])
           u == With(v, m, r)
<1>0. IsFiniteSet(Creatures) /\ m \in Creatures /\ v \in State /\ v[m] \in Beings
  BY Facts, Fields, SoundState DEF Whole
<1>1. w = UpdateIdleStatus(u, m)
  BY DEF With, Ailing
<1>2. u = With(v, m, r)
  OBVIOUS
<1>3. SameRest(v[m], r) /\ r.pos = v[m].pos /\ r.slain = v[m].slain
  BY <1>0, AilingIs
<1> HIDE DEF u, r
<1>4. Rest(v, u) /\ u[m] = r /\ \A e \in Creatures \ {m} : u[e] = v[e]
  BY <1>0, <1>2, <1>3, RestPut
<1>5. Base(u) /\ Served(u, {}) /\ \A e, t \in Creatures : Pursues(u, e, t) <=> Pursues(v, e, t)
  BY <1>4, RestBase DEF Whole, Sound
<1>6. \A e \in Creatures : u[e].pos = v[e].pos /\ u[e].life = v[e].life /\ u[e].slain = v[e].slain
  BY <1>3, <1>4 DEF SameRest
<1>7. \A e, t \in Creatures : (Sees(u, e, t) <=> Sees(v, e, t)) /\ (Placed(u, t) <=> Placed(v, t))
  BY <1>6 DEF Sees, Near, Placed
<1>8. InSight(u, {}, Nobody)
  BY <1>5, <1>7 DEF Whole, Sound, InSight, Within, Unnoticed
<1>9. AllAwake(u, {m})
  <2> SUFFICES ASSUME NEW e \in Monsters \ {m} PROVE Awake(u, e)
    BY DEF AllAwake
  <2>1. Awake(v, e) /\ u[e] = v[e]
    BY <1>0, <1>4, Facts DEF Whole, Sound, AllAwake
  <2> QED
    BY <2>1, SameOther
<1>10. Sound(u, {}, Nobody, {m}, {})
  BY <1>5, <1>8, <1>9 DEF Sound
<1>11. Alive(u, m) /\ {m} \subseteq {} \union {m}
  BY <1>0, <1>6 DEF Alive, Placed
<1> QED
  BY <1>0, <1>1, <1>10, <1>11, UpdateIdleSound DEF Whole

LEMMA SetTargetIs ==
  ASSUME CreaturesAssumption, NEW v, Whole(v), NEW p \in Creatures, v[p].life # "unborn",
         NEW t \in Creatures \union {Nobody}, t # Nobody => Placed(v, t), NEW chase \in BOOLEAN,
         NEW w, w = SetTarget(v, p, t, chase)
  PROVE  Whole(w) /\ Bodies(v, w)
<1> DEFINE a == SetAttackedCreature(v, p, t)
           f == IF chase THEN t ELSE Nobody
<1>0. IsFiniteSet(Creatures) /\ Nobody \notin Creatures /\ v \in State
  BY Facts, SoundState DEF Whole
<1>1. w = a \/ w = SetFollowCreature(a, p, f)
  BY DEF SetTarget
<1>2. a = SetAttackedCreature(v, p, t) /\ f \in {t, Nobody}
  OBVIOUS
<1> HIDE DEF a, f
<1>3. BandAttacks(v, a, p, t)
  BY <1>0, <1>2, SetAttackedIs
<1>4. Turned(v, a, Band(v, p))
  BY <1>3 DEF BandAttacks
<1>5. \A e \in Band(v, p) : v[e].life # "unborn"
  BY <1>0, BandBorn DEF Whole, Sound
<1>6. Whole(a) /\ Bodies(v, a) /\ a \in State
  BY <1>0, <1>4, <1>5, TurnedSound, TurnedBodies DEF Whole
<1>7. a[p].life # "unborn" /\ f \in Creatures \union {Nobody} /\ (f # Nobody => Placed(a, f))
  BY <1>0, <1>2, <1>6, SameSight DEF Bodies, SameBody
<1>8. CASE w = SetFollowCreature(a, p, f)
  <2>1. Whole(w) /\ Bodies(a, w)
    BY <1>6, <1>7, <1>8, FollowSound
  <2> QED
    BY <1>6, <2>1, BodiesThen
<1> QED
  BY <1>1, <1>6, <1>8

LEMMA FollowIs ==
  ASSUME CreaturesAssumption, NEW v, Whole(v), NEW p \in Creatures, v[p].life # "unborn",
         NEW t \in Creatures \union {Nobody}, t # Nobody => Placed(v, t),
         NEW w, w = SetFollowCreature(SetTarget(v, p, Nobody, FALSE), p, t)
  PROVE  Whole(w)
<1> DEFINE a == SetTarget(v, p, Nobody, FALSE)
<1>0. Nobody \in Creatures \union {Nobody} /\ FALSE \in BOOLEAN /\ v \in State
  BY SoundState DEF Whole
<1>1. a = SetTarget(v, p, Nobody, FALSE) /\ w = SetFollowCreature(a, p, t)
  OBVIOUS
<1> HIDE DEF a
<1>2. Whole(a) /\ Bodies(v, a)
  BY <1>0, <1>1, SetTargetIs
<1>3. a \in State
  BY <1>2, SoundState DEF Whole
<1>4. a[p].life # "unborn" /\ (t # Nobody => Placed(a, t))
  BY <1>0, <1>2, <1>3, SameSight DEF Bodies, SameBody
<1> QED
  BY <1>1, <1>2, <1>4, FollowSound

LEMMA LoseWayIs ==
  ASSUME CreaturesAssumption, NEW v, Whole(v), NEW m \in Monsters, Alive(v, m), v[m].master # Nobody,
         NEW c \in Creatures, NEW w, w = RemoveTarget(v, m, c)
  PROVE  Whole(w)
<1>0. IsFiniteSet(Creatures) /\ m \in Creatures /\ v \in State
  BY Facts, SoundState DEF Whole
<1>1. Mind(v, w, m) /\ w[m].check = v[m].check /\ w \in State /\ Unmoved(v, w)
  BY <1>0, RemoveTargetMind
<1>2. Awake(v, m)
  BY DEF Whole, Sound, AllAwake
<1>3. v[m].check
  BY <1>2 DEF Awake
<1>4. Awake(w, m)
  BY <1>1, <1>3 DEF Awake
<1>5. {} \subseteq {} \union {m}
  OBVIOUS
<1> QED
  BY <1>0, <1>1, <1>4, <1>5, MindSound DEF Whole

LEMMA SummonIs ==
  ASSUME CreaturesAssumption, NEW v, Whole(v), NEW c \in Creatures, NEW s \in Monsters, c # s,
         Home[s] = -1, Alive(v, c), v[c].master = Nobody, v[s].life = "unborn",
         NEW w, w = SetMaster(PlaceCreature(v, s, v[c].pos), s, c)
  PROVE  Whole(w)
<1> DEFINE x == v[c].pos
           u == PlaceCreature(v, s, x)
<1>0. IsFiniteSet(Creatures) /\ Nobody \notin Creatures /\ s \in Creatures /\ v \in State
  BY Facts, SoundState DEF Whole
<1>1. x \in Int
  BY <1>0, Fields
<1>2. u = PlaceCreature(v, s, x) /\ w = SetMaster(u, s, c) /\ c \in Creatures \union {Nobody}
  OBVIOUS
<1>3. \A e \in Creatures : v[e].master # s
  BY <1>0, UnbornFree DEF Whole, Sound
<1> HIDE DEF u, x
<1>4. /\ Whole(u) /\ Placed(u, s) /\ u[s].check
      /\ \A e \in Creatures : u[e].master = v[e].master /\ (e # s => u[e].life = v[e].life)
  BY <1>0, <1>1, <1>2, PlaceCreatureIs
<1>5. u \in State
  BY <1>4, SoundState DEF Whole
<1>6. MayServe(u, s, c)
  BY <1>0, <1>3, <1>4 DEF MayServe, Placed, Alive
<1>7. NowServes(u, w, s, c)
  BY <1>0, <1>2, <1>5, SetMasterIs
<1> QED
  BY <1>0, <1>2, <1>4, <1>6, <1>7, ServesSound DEF Whole

-----------------------------------------------------------------------------
(* A creature leaves the list of checkCreatures, and the release list is   *)
(* emptied: only references, listed and released change.                   *)
Quietly(v, w) ==
  /\ w \in State
  /\ \A e \in Creatures :
       /\ w[e].life = v[e].life /\ w[e].slain = v[e].slain /\ w[e].pos = v[e].pos
       /\ w[e].condition = v[e].condition /\ w[e].check = v[e].check /\ w[e].master = v[e].master
       /\ SameAims(v[e], w[e]) /\ SameLists(v[e], w[e])

LEMMA QuietKept ==
  ASSUME CreaturesAssumption, NEW v, Whole(v), NEW w, Quietly(v, w), Exact(w),
         \A c \in Creatures : Checked(w, c),
         \A c \in Creatures : Gone(w, c) => ~w[c].listed /\ w[c].released = 0
  PROVE  Whole(w)
<1>0. v \in State /\ Nobody \notin Creatures /\ Monsters \subseteq Creatures
  BY Facts, SoundState DEF Whole
<1>1. \A e, t \in Creatures : /\ Sees(w, e, t) <=> Sees(v, e, t)
                              /\ Placed(w, t) <=> Placed(v, t)
                              /\ Pursues(w, e, t) <=> Pursues(v, e, t)
  BY DEF Quietly, Sees, Near, Placed, Pursues, SameAims
<1>2. Unpointed(w)
  BY DEF Whole, Sound, Base, Unpointed, Quietly, SameLists, Gone
<1>3. Fresh(w)
  BY DEF Whole, Sound, Base, Fresh, Quietly, SameAims
<1>4. Flat(w)
  <2> SUFFICES ASSUME NEW c \in Creatures, w[c].master # Nobody
               PROVE  /\ w[w[c].master].master = Nobody /\ ~Gone(w, w[c].master)
                      /\ c \in Monsters => Home[c] = -1
    BY DEF Flat
  <2>1. v[c].master # Nobody /\ w[c].master = v[c].master /\ v[c].master \in Creatures
    BY <1>0, Fields DEF Quietly
  <2> QED
    BY <2>1 DEF Whole, Sound, Base, Flat, Quietly, Gone
<1>5. Base(w)
  BY <1>2, <1>3, <1>4 DEF Base, Quietly
<1>6. InSight(w, {}, Nobody)
  BY <1>1 DEF Whole, Sound, InSight, Within, Unnoticed
<1>7. AllAwake(w, {})
  <2> SUFFICES ASSUME NEW e \in Monsters PROVE Awake(w, e)
    BY DEF AllAwake
  <2>1. Awake(v, e)
    BY DEF Whole, Sound, AllAwake
  <2> QED
    BY <1>0, <2>1 DEF Quietly, Awake, Alive, Placed, SameLists
<1>8. Served(w, {})
  <2> SUFFICES ASSUME NEW c \in Creatures, Placed(w, c), w[c].master # Nobody
               PROVE  Placed(w, w[c].master)
    BY DEF Served
  <2>1. v[c].master # Nobody /\ w[c].master = v[c].master /\ v[c].master \in Creatures /\ Placed(v, c)
    BY <1>0, <1>1, Fields DEF Quietly
  <2>2. Placed(v, v[c].master)
    BY <2>1 DEF Whole, Sound, Served
  <2> QED
    BY <1>1, <2>1, <2>2
<1> QED
  BY <1>5, <1>6, <1>7, <1>8 DEF Whole, Sound

Unlisting(b) == [b EXCEPT !.listed = FALSE, !.released = @ + 1]

LEMMA UnlistingIs ==
  ASSUME NEW b \in Beings
  PROVE  /\ Unlisting(b) \in Beings /\ SameAims(b, Unlisting(b)) /\ SameLists(b, Unlisting(b))
         /\ Unlisting(b).life = b.life /\ Unlisting(b).slain = b.slain /\ Unlisting(b).pos = b.pos
         /\ Unlisting(b).condition = b.condition /\ Unlisting(b).check = b.check
         /\ Unlisting(b).master = b.master /\ Unlisting(b).refs = b.refs
         /\ Unlisting(b).released = b.released + 1 /\ ~Unlisting(b).listed
<1>1. Unlisting(b) \in Beings
  <2> DEFINE n == b.released + 1
             l == FALSE
  <2>1. n \in Nat /\ l \in BOOLEAN /\ Unlisting(b) = [b EXCEPT !.listed = l, !.released = n]
    BY DEF Unlisting, Beings
  <2> HIDE DEF n, l
  <2> QED
    BY <2>1 DEF Beings
<1> QED
  BY <1>1 DEF Beings, Unlisting, SameAims, SameLists

Unlisted(v, c) == [v EXCEPT ![c].listed = FALSE, ![c].released = @ + 1]

LEMMA UnlistedIs ==
  ASSUME CreaturesAssumption, NEW v, Whole(v), NEW c \in Creatures, v[c].listed, ~v[c].check,
         NEW w, w = Unlisted(v, c)
  PROVE  Whole(w)
<1> DEFINE r == Unlisting(v[c])
<1>0. v \in State /\ v[c] \in Beings /\ IsFiniteSet(Creatures)
  BY Facts, Fields, SoundState DEF Whole
<1>1. w = With(v, c, r)
  BY <1>0 DEF With, Unlisted, Unlisting, State
<1>2. /\ r \in Beings /\ SameAims(v[c], r) /\ SameLists(v[c], r)
      /\ r.life = v[c].life /\ r.slain = v[c].slain /\ r.pos = v[c].pos
      /\ r.condition = v[c].condition /\ r.check = v[c].check
      /\ r.master = v[c].master /\ r.refs = v[c].refs
      /\ r.released = v[c].released + 1 /\ ~r.listed
  BY <1>0, UnlistingIs
<1> HIDE DEF r
<1>3. w \in State /\ w[c] = r /\ \A e \in Creatures \ {c} : w[e] = v[e]
  BY <1>0, <1>1, <1>2, WithIs
<1>4. Quietly(v, w)
  BY <1>2, <1>3 DEF Quietly, SameAims, SameLists
<1>5. Exact(w)
  <2>1. Bit(w[c].listed) = 0 /\ Bit(v[c].listed) = 1
    BY <1>2, <1>3 DEF Bit
  <2>2. Bit(Placed(w, c)) = Bit(Placed(v, c)) /\ Bit(w[c].master # Nobody) = Bit(v[c].master # Nobody)
    BY <1>2, <1>3 DEF Placed
  <2>3. \A b \in BOOLEAN : Bit(b) \in Int
    BY DEF Bit
  <2>4. BalancedAt(v, w, c)
    <3>1. Placed(v, c) \in BOOLEAN /\ (v[c].master # Nobody) \in BOOLEAN
      BY DEF Placed
    <3>2. Bit(Placed(v, c)) \in Int /\ Bit(v[c].master # Nobody) \in Int
      BY <2>3, <3>1
    <3>3. w[c].refs = v[c].refs /\ w[c].released = v[c].released + 1 /\ v[c].released \in Int /\ v[c].refs \in Int
      BY <1>0, <1>2, <1>3, Fields
    <3>4. \A k, p, q, n \in Int : k = k + (0 - 1) + (q - q) + (p - p) + ((n + 1) - n)
      OBVIOUS
    <3> DEFINE p == Bit(Placed(v, c))
               q == Bit(v[c].master # Nobody)
               n == v[c].released
    <3>5. v[c].refs = v[c].refs + (0 - 1) + (q - q) + (p - p) + ((n + 1) - n)
      BY <3>2, <3>3, <3>4
    <3>6. /\ Bit(w[c].listed) = 0 /\ Bit(v[c].listed) = 1 /\ Bit(Placed(w, c)) = p
          /\ Bit(w[c].master # Nobody) = q /\ w[c].refs = v[c].refs /\ w[c].released = n + 1
      BY <2>1, <2>2, <3>3
    <3> QED
      BY Zenon, <3>5, <3>6 DEF BalancedAt
  <2>5. SameLists(v[c], w[c]) /\ \A e \in Creatures \ {c} : SameLists(v[e], w[e])
    BY <1>2, <1>3 DEF SameLists
  <2>6. Balanced(v, w, c)
    BY <1>0, <1>3, <2>4, <2>5, BalancedOne
  <2> QED
    BY <1>0, <1>3, <2>5, <2>6, ExactKept DEF Whole, Sound, Base
<1>6. \A e \in Creatures : Checked(w, e)
  BY <1>2, <1>3 DEF Whole, Sound, Base, Checked, Placed
<1>7. \A e \in Creatures : Gone(w, e) => ~w[e].listed /\ w[e].released = 0
  <2>1. \A e \in Creatures : Gone(v, e) => ~v[e].listed /\ v[e].released = 0
    BY DEF Whole, Sound, Base, Unpointed
  <2>2. ~Gone(w, c)
    BY <1>2, <1>3, <2>1 DEF Gone
  <2> QED
    BY <1>3, <2>1, <2>2 DEF Gone
<1> QED
  BY <1>4, <1>5, <1>6, <1>7, QuietKept

Paying(b) == [b EXCEPT !.refs = @ - b.released, !.released = 0]

LEMMA PayingIs ==
  ASSUME NEW b \in Beings
  PROVE  /\ Paying(b) \in Beings /\ SameAims(b, Paying(b)) /\ SameLists(b, Paying(b))
         /\ Paying(b).life = b.life /\ Paying(b).slain = b.slain /\ Paying(b).pos = b.pos
         /\ Paying(b).condition = b.condition /\ SameChecks(b, Paying(b))
         /\ Paying(b).master = b.master /\ Paying(b).refs = b.refs - b.released /\ Paying(b).released = 0
<1>1. Paying(b) \in Beings
  <2> DEFINE n == b.refs - b.released
             z == 0
  <2>1. n \in Int /\ z \in Nat /\ Paying(b) = [b EXCEPT !.refs = n, !.released = z]
    BY DEF Paying, Beings
  <2> HIDE DEF n, z
  <2> QED
    BY <2>1 DEF Beings
<1> QED
  BY <1>1 DEF Beings, Paying, SameAims, SameLists, SameChecks

Paid(v) == [c \in Creatures |-> [v[c] EXCEPT !.refs = @ - v[c].released, !.released = 0]]

LEMMA PaidIs ==
  ASSUME CreaturesAssumption, NEW v, Whole(v), NEW w, w = Paid(v)
  PROVE  Whole(w)
<1>0. v \in State /\ IsFiniteSet(Creatures)
  BY Facts, SoundState DEF Whole
<1>1. w = [c \in Creatures |-> Paying(v[c])]
  BY DEF Paid, Paying
<1>2. ASSUME NEW c \in Creatures
      PROVE  /\ w[c] \in Beings /\ SameAims(v[c], w[c]) /\ SameLists(v[c], w[c])
             /\ w[c].life = v[c].life /\ w[c].slain = v[c].slain /\ w[c].pos = v[c].pos
             /\ w[c].condition = v[c].condition /\ SameChecks(v[c], w[c])
             /\ w[c].master = v[c].master /\ w[c].refs = v[c].refs - v[c].released /\ w[c].released = 0
  <2>1. w[c] = Paying(v[c]) /\ v[c] \in Beings
    BY <1>0, <1>1, Fields
  <2> QED
    BY <2>1, PayingIs
<1>3. Quietly(v, w)
  <2>1. w \in State
    BY <1>1, <1>2 DEF State
  <2> QED
    BY <1>2, <2>1 DEF Quietly, SameChecks
<1>4. Exact(w)
  <2> SUFFICES ASSUME NEW c \in Creatures PROVE w[c].refs = Held(w, c)
    BY DEF Exact
  <2>1. InTargetsOf(w, c) = InTargetsOf(v, c) /\ InFriendsOf(w, c) = InFriendsOf(v, c)
    BY <1>2 DEF InTargetsOf, InFriendsOf, SameLists
  <2>2. /\ Bit(Placed(w, c)) = Bit(Placed(v, c)) /\ Bit(w[c].master # Nobody) = Bit(v[c].master # Nobody)
        /\ Bit(w[c].listed) = Bit(v[c].listed)
    BY <1>2 DEF Placed, SameChecks
  <2>3. v[c].refs = Held(v, c) /\ v[c].released \in Int
    BY <1>0, Fields DEF Whole, Sound, Base, Exact
  <2>4. Cardinality(InTargetsOf(v, c)) \in Int /\ Cardinality(InFriendsOf(v, c)) \in Int
    <3>1. InTargetsOf(v, c) \subseteq Creatures /\ InFriendsOf(v, c) \subseteq Creatures
      BY DEF InTargetsOf, InFriendsOf
    <3>2. Cardinality(InTargetsOf(v, c)) \in Nat /\ Cardinality(InFriendsOf(v, c)) \in Nat
      BY <1>0, <3>1, FS_Subset, FS_CardinalityType
    <3> QED
      BY <3>2
  <2>5. /\ Bit(Placed(v, c)) \in Int /\ Bit(v[c].master # Nobody) \in Int /\ Bit(v[c].listed) \in Int
    BY DEF Bit
  <2>6. w[c].refs = v[c].refs - v[c].released /\ w[c].released = 0
    BY <1>2
  <2> QED
    BY <2>1, <2>2, <2>3, <2>4, <2>5, <2>6 DEF Held
<1>5. \A c \in Creatures : Checked(w, c)
  BY <1>2 DEF Whole, Sound, Base, Checked, Placed, SameChecks
<1>6. \A c \in Creatures : Gone(w, c) => ~w[c].listed /\ w[c].released = 0
  BY <1>2 DEF Whole, Sound, Base, Unpointed, Gone, SameChecks
<1> QED
  BY <1>3, <1>4, <1>5, <1>6, QuietKept

-----------------------------------------------------------------------------
(* Nothing holds c any more.                                               *)
Unheld(v, c) ==
  /\ ~Placed(v, c) /\ ~v[c].listed /\ v[c].master = Nobody /\ v[c].released = 0
  /\ \A m \in Creatures : c \notin v[m].targets /\ c \notin v[m].friends

LEMMA NatSum ==
  ASSUME NEW i \in Nat, NEW j \in Nat, NEW k \in Nat, NEW l \in Nat, NEW m \in Nat, NEW n \in Nat
  PROVE  i + j + k + l + m + n = 0 <=> i = 0 /\ j = 0 /\ k = 0 /\ l = 0 /\ m = 0 /\ n = 0
OBVIOUS

LEMMA UnheldIs ==
  ASSUME IsFiniteSet(Creatures), NEW v \in State, Exact(v), NEW c \in Creatures
  PROVE  v[c].refs = 0 <=> Unheld(v, c)
<1> DEFINE i == Bit(Placed(v, c))
           j == Bit(v[c].listed)
           k == Bit(v[c].master # Nobody)
           l == v[c].released
           m == Cardinality(InTargetsOf(v, c))
           n == Cardinality(InFriendsOf(v, c))
<1>1. v[c].refs = i + j + k + l + m + n
  BY DEF Exact, Held
<1>2. /\ IsFiniteSet(InTargetsOf(v, c)) /\ IsFiniteSet(InFriendsOf(v, c))
  <2>1. InTargetsOf(v, c) \subseteq Creatures /\ InFriendsOf(v, c) \subseteq Creatures
    BY DEF InTargetsOf, InFriendsOf
  <2> QED
    BY <2>1, FS_Subset
<1>3. i \in Nat /\ j \in Nat /\ k \in Nat
  BY DEF Bit
<1>4. l \in Nat
  BY Fields
<1>5. m \in Nat /\ n \in Nat
  BY <1>2, FS_CardinalityType
<1>6. (i = 0 <=> ~Placed(v, c)) /\ (j = 0 <=> ~v[c].listed) /\ (k = 0 <=> v[c].master = Nobody)
  BY DEF Bit
<1>7. /\ m = 0 <=> InTargetsOf(v, c) = {}
      /\ n = 0 <=> InFriendsOf(v, c) = {}
  BY <1>2, FS_EmptySet
<1>8. InTargetsOf(v, c) = {} /\ InFriendsOf(v, c) = {}
      <=> \A e \in Creatures : c \notin v[e].targets /\ c \notin v[e].friends
  BY DEF InTargetsOf, InFriendsOf
<1>9. Unheld(v, c) <=> i = 0 /\ j = 0 /\ k = 0 /\ l = 0 /\ m = 0 /\ n = 0
  BY Zenon, <1>6, <1>7, <1>8 DEF Unheld
<1> HIDE DEF i, j, k, l, m, n
<1>10. i + j + k + l + m + n = 0 <=> i = 0 /\ j = 0 /\ k = 0 /\ l = 0 /\ m = 0 /\ n = 0
  BY <1>3, <1>4, <1>5, NatSum
<1> QED
  BY <1>1, <1>9, <1>10

(* A destroyed master lets his summons go.                                 *)
Letting(b) == [b EXCEPT !.master = Nobody, !.attacked = Nobody]
Freed(v, c) == [d \in Creatures |-> IF d \in Summons(v, c) THEN Letting(v[d]) ELSE v[d]]
Loosed(v, c) == AddRefs(Freed(v, c), Summons(v, c), -1)

LEMMA LettingIs ==
  ASSUME NEW b \in Beings
  PROVE  /\ Letting(b) \in Beings /\ SameBody(b, Letting(b)) /\ SameLists(b, Letting(b))
         /\ SameChecks(b, Letting(b)) /\ Letting(b).follow = b.follow /\ Letting(b).refs = b.refs
         /\ Letting(b).master = Nobody /\ Letting(b).attacked = Nobody
<1>1. Letting(b) \in Beings
  <2> DEFINE n == Nobody
  <2>1. n \in Creatures \union {Nobody} /\ Letting(b) = [b EXCEPT !.master = n, !.attacked = n]
    BY DEF Letting
  <2> HIDE DEF n
  <2> QED
    BY <2>1 DEF Beings
<1> QED
  BY <1>1 DEF Beings, Letting, SameBody, SameLists, SameChecks

Loosens(v, u, s) ==
  /\ u \in State
  /\ \A e \in Creatures :
       /\ SameBody(v[e], u[e]) /\ SameLists(v[e], u[e]) /\ SameChecks(v[e], u[e])
       /\ u[e].follow = v[e].follow
       /\ e \in s => u[e].master = Nobody /\ u[e].attacked = Nobody /\ u[e].refs = v[e].refs - 1
       /\ e \notin s =>
            u[e].master = v[e].master /\ u[e].attacked = v[e].attacked /\ u[e].refs = v[e].refs

LEMMA LoosedIs ==
  ASSUME NEW v \in State, NEW c \in Creatures, NEW u, u = Loosed(v, c)
  PROVE  Loosens(v, u, Summons(v, c))
<1> DEFINE s == Summons(v, c)
           f == Freed(v, c)
<1>1. ASSUME NEW e \in Creatures
      PROVE  /\ f[e] \in Beings /\ SameBody(v[e], f[e]) /\ SameLists(v[e], f[e])
             /\ SameChecks(v[e], f[e]) /\ f[e].follow = v[e].follow /\ f[e].refs = v[e].refs
             /\ e \in s => f[e].master = Nobody /\ f[e].attacked = Nobody
             /\ e \notin s => f[e].master = v[e].master /\ f[e].attacked = v[e].attacked
  <2>1. v[e] \in Beings
    BY Fields
  <2>2. CASE e \in s
    <3>1. f[e] = Letting(v[e])
      BY <2>2 DEF Freed
    <3> QED
      BY <2>1, <2>2, <3>1, LettingIs
  <2>3. CASE e \notin s
    <3>1. f[e] = v[e]
      BY <2>3 DEF Freed
    <3> QED
      BY <2>1, <2>3, <3>1 DEF SameBody, SameLists, SameChecks
  <2> QED
    BY <2>2, <2>3
<1>2. f \in State
  <2>1. f = [d \in Creatures |-> f[d]]
    BY DEF Freed
  <2> QED
    BY <1>1, <2>1 DEF State
<1>3. u = AddRefs(f, s, -1) /\ -1 \in Int
  BY DEF Loosed
<1> HIDE DEF f, s
<1>4. u \in State /\ \A e \in Creatures : Alike(f[e], u[e]) /\ u[e].refs = f[e].refs + IF e \in s THEN -1 ELSE 0
  BY <1>2, <1>3, AddRefsIs
<1>5. \A e \in Creatures : f[e].refs \in Int
  BY <1>2, Fields
<1>6. \A e \in Creatures :
        /\ SameBody(v[e], u[e]) /\ SameLists(v[e], u[e]) /\ SameChecks(v[e], u[e])
        /\ u[e].follow = v[e].follow
        /\ e \in s => u[e].master = Nobody /\ u[e].attacked = Nobody
        /\ e \notin s => u[e].master = v[e].master /\ u[e].attacked = v[e].attacked
  BY <1>1, <1>4 DEF Alike, SameBody, SameLists, SameChecks, SameAims
<1>7. \A e \in Creatures :
        /\ e \in s => u[e].refs = v[e].refs - 1
        /\ e \notin s => u[e].refs = v[e].refs
  <2> SUFFICES ASSUME NEW e \in Creatures
               PROVE  /\ e \in s => u[e].refs = v[e].refs - 1
                      /\ e \notin s => u[e].refs = v[e].refs
    OBVIOUS
  <2>1. f[e].refs = v[e].refs
    BY <1>1
  <2>2. v[e].refs \in Int /\ u[e].refs = v[e].refs + IF e \in s THEN -1 ELSE 0
    BY <1>4, <1>5, <2>1
  <2> QED
    BY <2>2
<1> QED
  BY <1>4, <1>6, <1>7 DEF Loosens, s

LEMMA LoosedExact ==
  ASSUME IsFiniteSet(Creatures), Nobody \notin Creatures, NEW v \in State, Exact(v),
         NEW c \in Creatures, NEW u, Loosens(v, u, Summons(v, c))
  PROVE  Exact(u)
<1> SUFFICES ASSUME NEW e \in Creatures PROVE u[e].refs = Held(u, e)
  BY DEF Exact
<1>1. InTargetsOf(u, e) = InTargetsOf(v, e) /\ InFriendsOf(u, e) = InFriendsOf(v, e)
  BY DEF Loosens, InTargetsOf, InFriendsOf, SameLists
<1>2. Bit(Placed(u, e)) = Bit(Placed(v, e)) /\ Bit(u[e].listed) = Bit(v[e].listed)
      /\ u[e].released = v[e].released
  BY DEF Loosens, Placed, SameBody, SameChecks
<1>3. /\ e \in Summons(v, c) => Bit(u[e].master # Nobody) = 0 /\ Bit(v[e].master # Nobody) = 1
      /\ e \notin Summons(v, c) => Bit(u[e].master # Nobody) = Bit(v[e].master # Nobody)
  BY DEF Loosens, Summons, Bit
<1>4. /\ e \in Summons(v, c) => u[e].refs = v[e].refs - 1
      /\ e \notin Summons(v, c) => u[e].refs = v[e].refs
  BY DEF Loosens
<1>5. v[e].refs = Held(v, e)
  BY DEF Exact
<1>6. /\ Cardinality(InTargetsOf(v, e)) \in Nat /\ Cardinality(InFriendsOf(v, e)) \in Nat
  <2>1. InTargetsOf(v, e) \subseteq Creatures /\ InFriendsOf(v, e) \subseteq Creatures
    BY DEF InTargetsOf, InFriendsOf
  <2> QED
    BY <2>1, FS_Subset, FS_CardinalityType
<1>7. Bit(Placed(v, e)) \in Nat /\ Bit(v[e].listed) \in Nat /\ Bit(v[e].master # Nobody) \in Nat
  BY DEF Bit
<1>8. v[e].released \in Nat
  BY Fields
<1> DEFINE i == Bit(Placed(v, e))
           j == Bit(v[e].listed)
           k == Bit(v[e].master # Nobody)
           l == v[e].released
           m == Cardinality(InTargetsOf(v, e))
           n == Cardinality(InFriendsOf(v, e))
           h == Bit(u[e].master # Nobody)
<1>9. v[e].refs = i + j + k + l + m + n /\ Held(u, e) = i + j + h + l + m + n
  BY <1>1, <1>2, <1>5 DEF Held
<1>10. /\ i \in Nat /\ j \in Nat /\ k \in Nat /\ l \in Nat /\ m \in Nat /\ n \in Nat
       /\ e \in Summons(v, c) => h = 0 /\ k = 1
       /\ e \notin Summons(v, c) => h = k
  BY <1>3, <1>6, <1>7, <1>8
<1> HIDE DEF i, j, k, l, m, n, h
<1>11. CASE e \in Summons(v, c)
  BY <1>4, <1>9, <1>10, <1>11
<1>12. CASE e \notin Summons(v, c)
  BY <1>4, <1>9, <1>10, <1>12
<1> QED
  BY <1>11, <1>12

(* And is gone, his lists empty.                                           *)
Deleting(b) == [b EXCEPT !.life = "deleted"]

LEMMA DeletingIs ==
  ASSUME NEW b \in Beings
  PROVE  /\ Deleting(b) \in Beings /\ SameAims(b, Deleting(b)) /\ SameLists(b, Deleting(b))
         /\ SameChecks(b, Deleting(b)) /\ Deleting(b).life = "deleted" /\ Deleting(b).slain = b.slain
         /\ Deleting(b).pos = b.pos /\ Deleting(b).condition = b.condition
         /\ Deleting(b).released = b.released /\ Deleting(b).refs = b.refs
         /\ Deleting(b).master = b.master
<1>1. Deleting(b) \in Beings
  <2> DEFINE l == "deleted"
  <2>1. l \in Lives /\ Deleting(b) = [b EXCEPT !.life = l]
    BY DEF Deleting, Lives
  <2> HIDE DEF l
  <2> QED
    BY <2>1 DEF Beings
<1> QED
  BY <1>1 DEF Beings, Deleting, SameAims, SameLists, SameChecks

Ruined(v, w, c) ==
  /\ w \in State /\ w[c].life = "deleted" /\ w[c].targets = {} /\ w[c].friends = {}
  /\ \A e \in Creatures :
       /\ w[e].slain = v[e].slain /\ w[e].pos = v[e].pos /\ w[e].condition = v[e].condition
       /\ w[e].released = v[e].released /\ w[e].follow = v[e].follow /\ SameChecks(v[e], w[e])
       /\ e # c => w[e].life = v[e].life /\ SameLists(v[e], w[e])
       /\ e \in Summons(v, c) => w[e].master = Nobody /\ w[e].attacked = Nobody
       /\ e \notin Summons(v, c) => w[e].master = v[e].master /\ w[e].attacked = v[e].attacked

LEMMA DestroyedType ==
  ASSUME CreaturesAssumption, NEW v \in State, NEW c \in Creatures, NEW w, w = Destroyed(v, c)
  PROVE  Ruined(v, w, c) /\ (Exact(v) /\ ~Placed(v, c) => Exact(w))
<1> DEFINE a == Loosed(v, c)
           b == ClearLists(a, c)
           r == Deleting(b[c])
           s == Summons(v, c)
<1>0. IsFiniteSet(Creatures) /\ Nobody \notin Creatures
  BY Facts
<1>1. w = With(b, c, r)
  BY DEF Destroyed, Loosed, Freed, Letting, Deleting, With
<1>2. a = Loosed(v, c) /\ b = ClearLists(a, c) /\ r = Deleting(b[c])
  OBVIOUS
<1> HIDE DEF a, b, r
<1>3. Loosens(v, a, s)
  BY <1>2, LoosedIs
<1>4. a \in State
  BY <1>3 DEF Loosens
<1>5. Recounted(a, b, c, {}, {})
  BY <1>2, <1>4, ClearListsIs
<1>6. /\ b \in State /\ Unmoved(a, b) /\ OnlyOf(a, b, c) /\ SameChecks(a[c], b[c])
      /\ b[c].targets = {} /\ b[c].friends = {}
  BY <1>5 DEF Recounted
<1>7. Mind(a, b, c)
  BY <1>0, <1>4, <1>5, RecountedMind
<1>8. /\ r \in Beings /\ SameAims(b[c], r) /\ SameLists(b[c], r)
      /\ SameChecks(b[c], r) /\ r.life = "deleted" /\ r.slain = b[c].slain
      /\ r.pos = b[c].pos /\ r.condition = b[c].condition
      /\ r.released = b[c].released /\ r.refs = b[c].refs /\ r.master = b[c].master
  BY <1>2, <1>6, Fields, DeletingIs
<1>9. w \in State /\ w[c] = r /\ \A e \in Creatures \ {c} : w[e] = b[e]
  BY <1>1, <1>6, <1>8, WithIs
<1>10. ASSUME NEW e \in Creatures
       PROVE  /\ w[e].slain = v[e].slain /\ w[e].pos = v[e].pos /\ w[e].condition = v[e].condition
              /\ w[e].released = v[e].released /\ w[e].follow = v[e].follow /\ SameChecks(v[e], w[e])
              /\ e # c => w[e].life = v[e].life /\ SameLists(v[e], w[e])
              /\ e \in s => w[e].master = Nobody /\ w[e].attacked = Nobody
              /\ e \notin s => w[e].master = v[e].master /\ w[e].attacked = v[e].attacked
  <2>1. /\ SameBody(v[e], a[e]) /\ SameLists(v[e], a[e]) /\ SameChecks(v[e], a[e])
        /\ a[e].follow = v[e].follow
        /\ e \in s => a[e].master = Nobody /\ a[e].attacked = Nobody
        /\ e \notin s => a[e].master = v[e].master /\ a[e].attacked = v[e].attacked
    BY <1>3 DEF Loosens
  <2>2. /\ SameBody(a[e], b[e]) /\ SameAims(a[e], b[e]) /\ b[e].master = a[e].master
        /\ SameChecks(a[e], b[e]) /\ (e # c => SameLists(a[e], b[e]))
    BY <1>6 DEF Unmoved, OnlyOf
  <2>3. /\ SameAims(b[e], w[e]) /\ SameLists(b[e], w[e]) /\ SameChecks(b[e], w[e])
        /\ w[e].slain = b[e].slain /\ w[e].pos = b[e].pos /\ w[e].condition = b[e].condition
        /\ w[e].released = b[e].released /\ w[e].master = b[e].master
        /\ e # c => w[e].life = b[e].life
    BY <1>8, <1>9 DEF SameAims, SameLists, SameChecks
  <2> QED
    BY <2>1, <2>2, <2>3 DEF SameBody, SameAims, SameLists, SameChecks
<1>11. w[c].life = "deleted" /\ w[c].targets = {} /\ w[c].friends = {}
  BY <1>6, <1>8, <1>9 DEF SameLists
<1>12. ASSUME Exact(v), ~Placed(v, c) PROVE Exact(w)
  <2>1. Exact(a)
    BY <1>0, <1>3, <1>12, LoosedExact
  <2>2. Exact(b)
    BY <1>7, <2>1 DEF Mind
  <2>3. ~Placed(b, c) /\ ~Placed(w, c)
    BY <1>3, <1>6, <1>11, <1>12 DEF Loosens, Unmoved, SameBody, Placed
  <2>4. Bit(Placed(w, c)) = 0 /\ Bit(Placed(b, c)) = 0
    BY <2>3 DEF Bit
  <2>5. /\ w[c].refs = b[c].refs /\ w[c].listed = b[c].listed /\ w[c].master = b[c].master
        /\ w[c].released = b[c].released
    BY <1>8, <1>9 DEF SameChecks
  <2>6. BalancedAt(b, w, c)
    <3>1. b[c].refs \in Int /\ b[c].released \in Int /\ Bit(b[c].listed) \in Int
          /\ Bit(b[c].master # Nobody) \in Int
      BY <1>6, Fields DEF Bit
    <3>2. \A k, p, q, n \in Int : k = k + (p - p) + (q - q) + (0 - 0) + (n - n)
      OBVIOUS
    <3> DEFINE p == Bit(b[c].listed)
               q == Bit(b[c].master # Nobody)
    <3>3. b[c].refs = b[c].refs + (p - p) + (q - q) + (0 - 0) + (b[c].released - b[c].released)
      BY <3>1, <3>2
    <3> QED
      BY Zenon, <2>4, <2>5, <3>3 DEF BalancedAt
  <2>7. SameLists(b[c], w[c]) /\ \A e \in Creatures \ {c} : SameLists(b[e], w[e])
    BY <1>8, <1>9 DEF SameLists
  <2>8. Balanced(b, w, c)
    BY <1>6, <1>9, <2>6, <2>7, BalancedOne
  <2> QED
    BY <1>0, <1>6, <1>9, <2>2, <2>7, <2>8, ExactKept
<1> QED
  BY <1>9, <1>10, <1>11, <1>12 DEF Ruined

LEMMA RuinSound ==
  ASSUME CreaturesAssumption, NEW v, Whole(v), NEW c \in Creatures, Unheld(v, c),
         NEW w, Ruined(v, w, c), Exact(w)
  PROVE  Whole(w)
<1>0. v \in State /\ w \in State /\ Nobody \notin Creatures /\ Monsters \subseteq Creatures
  BY Facts, SoundState DEF Whole, Ruined
<1>1. c \notin Summons(v, c) /\ ~Placed(w, c) /\ ~v[c].check
  <2>1. c \notin Summons(v, c)
    BY <1>0 DEF Unheld, Summons
  <2>2. ~Placed(w, c)
    BY DEF Ruined, Placed
  <2>3. Checked(v, c) /\ ~v[c].listed
    BY DEF Unheld, Whole, Sound, Base
  <2> QED
    BY <2>1, <2>2, <2>3 DEF Checked
<1>2. \A e \in Creatures : /\ Placed(w, e) <=> Placed(v, e)
                           /\ w[e].master \in {v[e].master, Nobody}
                           /\ w[e].attacked \in {v[e].attacked, Nobody} /\ w[e].follow = v[e].follow
  BY <1>1 DEF Ruined, Placed, Unheld
<1>3. \A e, t \in Creatures : Sees(w, e, t) <=> Sees(v, e, t)
  BY DEF Ruined, Sees, Near
<1>4. Unpointed(w)
  <2> SUFFICES ASSUME NEW e \in Creatures, Gone(w, e)
               PROVE  /\ ~w[e].listed /\ w[e].master = Nobody /\ w[e].released = 0
                      /\ \A m \in Creatures : e \notin w[m].targets /\ e \notin w[m].friends
    BY DEF Unpointed
  <2>1. /\ ~v[e].listed /\ v[e].master = Nobody /\ v[e].released = 0
        /\ \A m \in Creatures : e \notin v[m].targets /\ e \notin v[m].friends
    <3>1. CASE e = c
      BY <3>1 DEF Unheld
    <3>2. CASE e # c
      BY <3>2 DEF Ruined, Gone, Whole, Sound, Base, Unpointed
    <3> QED
      BY <3>1, <3>2
  <2>2. ~w[e].listed /\ w[e].master = Nobody /\ w[e].released = 0
    BY <1>2, <2>1 DEF Ruined, SameChecks
  <2>3. ASSUME NEW m \in Creatures PROVE e \notin w[m].targets /\ e \notin w[m].friends
    <3>1. m # c => SameLists(v[m], w[m])
      BY DEF Ruined
    <3>2. w[c].targets = {} /\ w[c].friends = {}
      BY DEF Ruined
    <3> QED
      BY <2>1, <3>1, <3>2 DEF SameLists
  <2> QED
    BY <2>2, <2>3
<1>5. Fresh(w)
  BY <1>2 DEF Ruined, Whole, Sound, Base, Fresh
<1>6. Flat(w)
  <2> SUFFICES ASSUME NEW e \in Creatures, w[e].master # Nobody
               PROVE  /\ w[w[e].master].master = Nobody /\ ~Gone(w, w[e].master)
                      /\ e \in Monsters => Home[e] = -1
    BY DEF Flat
  <2>1. e \notin Summons(v, c) /\ w[e].master = v[e].master
    BY DEF Ruined
  <2> DEFINE m == v[e].master
  <2>2. m # Nobody /\ m \in Creatures /\ m # c
    BY <1>0, <2>1, Fields DEF Summons
  <2>3. v[m].master = Nobody /\ ~Gone(v, m) /\ (e \in Monsters => Home[e] = -1)
    BY <2>2 DEF Whole, Sound, Base, Flat
  <2> HIDE DEF m
  <2>4. w[m].master = Nobody /\ ~Gone(w, m)
    BY <1>2, <2>2, <2>3 DEF Ruined, Gone
  <2> QED
    BY <2>1, <2>3, <2>4 DEF m
<1>7. \A e \in Creatures : Checked(w, e)
  <2> SUFFICES ASSUME NEW e \in Creatures PROVE Checked(w, e)
    OBVIOUS
  <2>1. Checked(v, e) /\ (Placed(w, e) <=> Placed(v, e)) /\ SameChecks(v[e], w[e])
    BY <1>2 DEF Whole, Sound, Base, Ruined
  <2> QED
    BY <2>1 DEF Checked, SameChecks
<1>8. Base(w)
  BY <1>0, <1>4, <1>5, <1>6, <1>7 DEF Base
<1>9. InSight(w, {}, Nobody)
  <2> SUFFICES ASSUME NEW e \in Creatures, NEW t \in Creatures, Pursues(w, e, t)
               PROVE  Within(w, e, t)
    BY DEF InSight
  <2>1. Pursues(v, e, t)
    BY <1>0, <1>2 DEF Pursues
  <2>2. Within(v, e, t)
    BY <2>1 DEF Whole, Sound, InSight, Unnoticed
  <2> QED
    BY <1>2, <1>3, <2>2 DEF Within
<1>10. AllAwake(w, {})
  <2> SUFFICES ASSUME NEW e \in Monsters PROVE Awake(w, e)
    BY DEF AllAwake
  <2>1. Awake(v, e) /\ e \in Creatures
    BY <1>0 DEF Whole, Sound, AllAwake
  <2>2. CASE e = c
    BY <1>1, <2>2 DEF Awake, Alive
  <2>3. CASE e # c
    <3>1. /\ w[e].life = v[e].life /\ w[e].slain = v[e].slain /\ w[e].check = v[e].check
          /\ w[e].targets = v[e].targets /\ w[e].condition = v[e].condition /\ w[e].pos = v[e].pos
      BY <2>1, <2>3 DEF Ruined, SameChecks, SameLists
    <3>2. v[e].master = Nobody => w[e].master = Nobody
      BY <1>2, <2>1
    <3> QED
      BY <2>1, <3>1, <3>2 DEF Awake, Alive, Placed
  <2> QED
    BY <2>2, <2>3
<1>11. Served(w, {})
  <2> SUFFICES ASSUME NEW e \in Creatures, Placed(w, e), w[e].master # Nobody
               PROVE  Placed(w, w[e].master)
    BY DEF Served
  <2>1. w[e].master = v[e].master /\ v[e].master \in Creatures /\ Placed(v, e)
    BY <1>0, <1>2, Fields
  <2>2. Placed(v, v[e].master)
    BY <2>1 DEF Whole, Sound, Served
  <2> QED
    BY <1>2, <2>1, <2>2
<1> QED
  BY <1>8, <1>9, <1>10, <1>11 DEF Whole, Sound

LEMMA DestroyedIs ==
  ASSUME CreaturesAssumption, NEW v, Whole(v), NEW c \in Unreferenced(v), NEW w, w = Destroyed(v, c)
  PROVE  /\ Whole(w) /\ w[c].life = "deleted" /\ \A e \in Creatures \ {c} : w[e].life = v[e].life
         /\ Unreferenced(v) \ {c} \subseteq Unreferenced(w)
<1>0. /\ IsFiniteSet(Creatures) /\ v \in State /\ Exact(v) /\ c \in Creatures
      /\ Unreferenced(v) \subseteq Creatures
  BY Facts, SoundState DEF Whole, Sound, Base, Unreferenced
<1>1. Unheld(v, c)
  BY <1>0, UnheldIs DEF Unreferenced
<1>2. Ruined(v, w, c) /\ Exact(w) /\ w \in State
  BY <1>0, <1>1, DestroyedType DEF Unheld, Ruined
<1>3. Whole(w)
  BY <1>0, <1>1, <1>2, RuinSound
<1>4. w[c].life = "deleted" /\ \A e \in Creatures \ {c} : w[e].life = v[e].life
  BY <1>2 DEF Ruined
<1>5. ASSUME NEW e \in Unreferenced(v) \ {c} PROVE e \in Unreferenced(w)
  <2>1. e \in Creatures /\ e # c /\ v[e].refs = 0 /\ v[e].life \notin {"unborn", "deleted"}
    BY <1>5 DEF Unreferenced
  <2>2. Unheld(v, e)
    BY <1>0, <2>1, UnheldIs
  <2>3. /\ w[e].life = v[e].life /\ w[e].released = v[e].released /\ w[e].listed = v[e].listed
        /\ w[e].master \in {v[e].master, Nobody}
    BY <1>2, <2>1 DEF Ruined, SameChecks
  <2>4. ASSUME NEW m \in Creatures PROVE e \notin w[m].targets /\ e \notin w[m].friends
    <3>1. m # c => SameLists(v[m], w[m])
      BY <1>2 DEF Ruined
    <3>2. w[c].targets = {} /\ w[c].friends = {}
      BY <1>2 DEF Ruined
    <3> QED
      BY <2>2, <3>1, <3>2 DEF SameLists, Unheld
  <2>5. Unheld(w, e)
    BY <2>2, <2>3, <2>4 DEF Unheld, Placed
  <2>6. w[e].refs = 0
    BY <1>0, <1>2, <2>1, <2>5, UnheldIs
  <2> QED
    BY <2>1, <2>3, <2>6 DEF Unreferenced
<1> QED
  BY <1>3, <1>4, <1>5

LEMMA RuinType ==
  ASSUME CreaturesAssumption, NEW v \in State, NEW c \in Creatures
  PROVE  Destroyed(v, c) \in State
BY DestroyedType DEF Ruined

Ruin(v, S) == FoldSet(LAMBDA c, u : Destroyed(u, c), v, S)

RuinBy(v, S, t) ==
  /\ t \in [SUBSET S -> State] /\ t[{}] = v
  /\ \A s \in SUBSET S : s # {} => t[s] = Destroyed(t[s \ {Pick(s)}], Pick(s))

LEMMA RuinSteps ==
  ASSUME CreaturesAssumption, NEW v \in State, NEW S \in SUBSET Creatures
  PROVE  \E t : RuinBy(v, S, t) /\ t[S] = Ruin(v, S)
<1> DEFINE F == [c \in S |-> [u \in State |-> Destroyed(u, c)]]
           Eq(t) == t = [s \in SUBSET S |-> IF s = {} THEN v ELSE Destroyed(t[s \ {Pick(s)}], Pick(s))]
<1>1. IsFiniteSet(S)
  BY Facts, FS_Subset
<1>2. \A c \in S, u \in State : Destroyed(u, c) \in State
  BY RuinType
<1>3. F \in [S -> [State -> State]] /\ \A c \in S, u \in State : F[c][u] = Destroyed(u, c)
  BY <1>2
<1> HIDE DEF F
<1>4. PICK t : Run(F, v, S, t)
  BY <1>1, <1>3, FoldingStates
<1>5. RuinBy(v, S, t)
  BY <1>3, <1>4, PickIn DEF Run, RuinBy
<1>6. Eq(t)
  BY <1>5 DEF RuinBy
<1>7. Ruin(v, S) = (CHOOSE q : Eq(q))[S]
  BY DEF Ruin, FoldSet, MapThenFoldSet, Pick
<1> HIDE DEF Eq
<1>8. PICK q : q = (CHOOSE p : Eq(p)) /\ Eq(q)
  BY <1>6
<1>9. q[{}] = v /\ \A s \in SUBSET S : s # {} => q[s] = Destroyed(q[s \ {Pick(s)}], Pick(s))
  BY <1>8 DEF Eq
<1>10. Agree(S, t, q)
  BY <1>5, <1>9 DEF RuinBy, Agree
<1>11. t[S] = q[S]
  BY <1>1, <1>10, SameSteps
<1> QED
  BY <1>5, <1>7, <1>8, <1>11


LEMMA RoundType ==
  ASSUME CreaturesAssumption, NEW v \in State
  PROVE  Round(v) \in State
<1> DEFINE S == Unreferenced(v)
<1>1. S \in SUBSET Creatures
  BY DEF Unreferenced
<1>2. Round(v) = Ruin(v, S)
  BY DEF Round, Over, Ruin
<1> HIDE DEF S
<1>3. PICK t : RuinBy(v, S, t) /\ t[S] = Ruin(v, S)
  BY <1>1, RuinSteps
<1> QED
  BY <1>2, <1>3 DEF RuinBy

(* A round destroys all that have no reference when it begins.             *)
LEMMA RoundIs ==
  ASSUME CreaturesAssumption, NEW v, Whole(v), NEW w, w = Round(v)
  PROVE  /\ Whole(w) /\ \A e \in Creatures : v[e].life = "deleted" => w[e].life = "deleted"
         /\ \A e \in Unreferenced(v) : w[e].life = "deleted"
         /\ Unreferenced(v) = {} => w = v
<1> DEFINE S == Unreferenced(v)
<1>0. S \in SUBSET Creatures /\ v \in State /\ S = Unreferenced(v)
  BY SoundState DEF Unreferenced, Whole
<1>1. w = Ruin(v, S)
  BY DEF Round, Over, Ruin
<1> HIDE DEF S
<1>2. PICK t : RuinBy(v, S, t) /\ t[S] = w
  BY <1>0, <1>1, RuinSteps
<1>3. /\ t \in [SUBSET S -> State] /\ t[{}] = v /\ IsFiniteSet(S)
      /\ \A s \in SUBSET S : s # {} => t[s] = Destroyed(t[s \ {Pick(s)}], Pick(s))
  BY <1>0, <1>2, Facts, FS_Subset DEF RuinBy
<1> DEFINE Q == {s \in SUBSET S :
                   /\ Whole(t[s]) /\ S \ s \subseteq Unreferenced(t[s])
                   /\ \A e \in s : t[s][e].life = "deleted"
                   /\ \A e \in Creatures : v[e].life = "deleted" => t[s][e].life = "deleted"}
<1>4. {} \in Q
  BY <1>0, <1>3
<1>5. ASSUME NEW s \in SUBSET S, s # {}, s \ {Pick(s)} \in Q PROVE s \in Q
  <2> DEFINE k == t[s \ {Pick(s)}]
             z == t[s]
             d == Pick(s)
  <2>1. d \in s /\ d \in Creatures /\ s \ {d} \in SUBSET S /\ d \in S
    BY <1>0, <1>5, PickIn
  <2>2. /\ k \in State /\ z = Destroyed(k, d) /\ Whole(k) /\ S \ (s \ {d}) \subseteq Unreferenced(k)
        /\ \A e \in s \ {d} : k[e].life = "deleted"
        /\ \A e \in Creatures : v[e].life = "deleted" => k[e].life = "deleted"
    BY <1>3, <1>5, <2>1
  <2> HIDE DEF k, z, d
  <2>3. d \in Unreferenced(k)
    BY <2>1, <2>2
  <2>4. /\ Whole(z) /\ z[d].life = "deleted" /\ \A e \in Creatures \ {d} : z[e].life = k[e].life
        /\ Unreferenced(k) \ {d} \subseteq Unreferenced(z)
    BY <2>2, <2>3, DestroyedIs
  <2>5. S \ s \subseteq Unreferenced(z)
    BY <2>1, <2>2, <2>4
  <2>6. \A e \in s : z[e].life = "deleted"
    BY <1>0, <2>2, <2>4
  <2>7. \A e \in Creatures : v[e].life = "deleted" => z[e].life = "deleted"
    BY <2>2, <2>4
  <2> QED
    BY <2>4, <2>5, <2>6, <2>7 DEF z
<1> HIDE DEF Q
<1>6. S \in Q
  BY <1>3, <1>4, <1>5, OneByOne, SMTT(60)
<1>7. /\ Whole(w) /\ \A e \in S : w[e].life = "deleted"
      /\ \A e \in Creatures : v[e].life = "deleted" => w[e].life = "deleted"
  BY <1>2, <1>6 DEF Q
<1>8. S = {} => w = v
  BY <1>2, <1>3
<1> QED
  BY <1>0, <1>7, <1>8

(* After as many rounds as there are creatures nobody is left.             *)
Rounds(v, S) == FoldSet(LAMBDA c, u : Round(u), v, S)

RoundsBy(v, S, t) ==
  /\ t \in [SUBSET S -> State] /\ t[{}] = v
  /\ \A s \in SUBSET S : s # {} => t[s] = Round(t[s \ {Pick(s)}])

LEMMA RoundSteps ==
  ASSUME CreaturesAssumption, NEW v \in State, NEW S \in SUBSET Creatures
  PROVE  \E t : RoundsBy(v, S, t) /\ t[S] = Rounds(v, S)
<1> DEFINE F == [c \in S |-> [u \in State |-> Round(u)]]
           Eq(t) == t = [s \in SUBSET S |-> IF s = {} THEN v ELSE Round(t[s \ {Pick(s)}])]
<1>1. IsFiniteSet(S)
  BY Facts, FS_Subset
<1>2. \A c \in S, u \in State : Round(u) \in State
  BY RoundType
<1>3. F \in [S -> [State -> State]] /\ \A c \in S, u \in State : F[c][u] = Round(u)
  BY <1>2
<1> HIDE DEF F
<1>4. PICK t : Run(F, v, S, t)
  BY <1>1, <1>3, FoldingStates
<1>5. RoundsBy(v, S, t)
  BY <1>3, <1>4, PickIn DEF Run, RoundsBy
<1>6. Eq(t)
  BY <1>5 DEF RoundsBy
<1>7. Rounds(v, S) = (CHOOSE q : Eq(q))[S]
  BY DEF Rounds, FoldSet, MapThenFoldSet, Pick
<1> HIDE DEF Eq
<1>8. PICK q : q = (CHOOSE p : Eq(p)) /\ Eq(q)
  BY <1>6
<1>9. q[{}] = v /\ \A s \in SUBSET S : s # {} => q[s] = Round(q[s \ {Pick(s)}])
  BY <1>8 DEF Eq
<1>10. Agree(S, t, q)
  BY <1>5, <1>9 DEF RoundsBy, Agree
<1>11. t[S] = q[S]
  BY <1>1, <1>10, SameSteps
<1> QED
  BY <1>5, <1>7, <1>8, <1>11


DeletedIn(v) == {c \in Creatures : v[c].life = "deleted"}

LEMMA RoundCounts ==
  ASSUME CreaturesAssumption, NEW v, Whole(v), NEW w, w = Round(v), Unreferenced(v) # {}
  PROVE  /\ Cardinality(DeletedIn(v)) \in Nat /\ Cardinality(DeletedIn(w)) \in Nat
         /\ Cardinality(DeletedIn(w)) >= Cardinality(DeletedIn(v)) + 1
<1>1. PICK c \in Unreferenced(v) : TRUE
  OBVIOUS
<1>2. c \in Creatures /\ c \notin DeletedIn(v) /\ c \in DeletedIn(w) /\ DeletedIn(v) \subseteq DeletedIn(w)
  BY <1>1, RoundIs DEF Unreferenced, DeletedIn
<1>3. IsFiniteSet(DeletedIn(v)) /\ IsFiniteSet(DeletedIn(w))
  <2>1. DeletedIn(v) \subseteq Creatures /\ DeletedIn(w) \subseteq Creatures
    BY DEF DeletedIn
  <2> QED
    BY <2>1, Facts, FS_Subset
<1>4. Cardinality(DeletedIn(v) \union {c}) = Cardinality(DeletedIn(v)) + 1
  BY <1>2, <1>3, FS_AddElement
<1>5. DeletedIn(v) \union {c} \subseteq DeletedIn(w)
  BY <1>2
<1>6. Cardinality(DeletedIn(v) \union {c}) <= Cardinality(DeletedIn(w))
  BY <1>3, <1>5, FS_Subset
<1>7. Cardinality(DeletedIn(v)) \in Nat /\ Cardinality(DeletedIn(w)) \in Nat
  BY <1>3, FS_CardinalityType
<1> QED
  BY <1>4, <1>6, <1>7

LEMMA RoundsIs ==
  ASSUME CreaturesAssumption, NEW v, Whole(v), NEW w, w = Rounds(v, Creatures)
  PROVE  Whole(w) /\ Unreferenced(w) = {}
<1> DEFINE S == Creatures
<1>0. v \in State /\ IsFiniteSet(S) /\ S \in SUBSET Creatures /\ w = Rounds(v, S)
  BY Facts, SoundState DEF Whole
<1> HIDE DEF S
<1>1. PICK t : RoundsBy(v, S, t) /\ t[S] = w
  BY <1>0, RoundSteps
<1>2. /\ t \in [SUBSET S -> State] /\ t[{}] = v
      /\ \A s \in SUBSET S : s # {} => t[s] = Round(t[s \ {Pick(s)}])
  BY <1>1 DEF RoundsBy
<1> DEFINE Q == {s \in SUBSET S :
                   /\ Whole(t[s])
                   /\ Unreferenced(t[s]) = {} \/ Cardinality(DeletedIn(t[s])) >= Cardinality(s)}
<1>3. {} \in Q
  <2>1. IsFiniteSet(DeletedIn(v))
    <3>1. DeletedIn(v) \subseteq Creatures
      BY DEF DeletedIn
    <3> QED
      BY <3>1, Facts, FS_Subset
  <2>2. Cardinality({}) = 0 /\ Cardinality(DeletedIn(v)) \in Nat
    BY <2>1, FS_EmptySet, FS_CardinalityType
  <2> QED
    BY <1>2, <2>2
<1>4. ASSUME NEW s \in SUBSET S, s # {}, s \ {Pick(s)} \in Q PROVE s \in Q
  <2> DEFINE k == t[s \ {Pick(s)}]
             z == t[s]
             d == Pick(s)
  <2>1. d \in s /\ s \ {d} \in SUBSET S
    BY <1>4, PickIn
  <2>2. /\ k \in State /\ z = Round(k) /\ Whole(k)
        /\ Unreferenced(k) = {} \/ Cardinality(DeletedIn(k)) >= Cardinality(s \ {d})
    BY <1>2, <1>4, <2>1
  <2> HIDE DEF k, z, d
  <2>3. Whole(z) /\ (Unreferenced(k) = {} => z = k)
    BY <2>2, RoundIs
  <2>4. CASE Unreferenced(k) = {}
    <3>1. Unreferenced(z) = {}
      BY <2>3, <2>4
    <3> QED
      BY <2>3, <3>1 DEF z
  <2>5. CASE Unreferenced(k) # {}
    <3>1. /\ Cardinality(DeletedIn(k)) \in Nat /\ Cardinality(DeletedIn(z)) \in Nat
          /\ Cardinality(DeletedIn(z)) >= Cardinality(DeletedIn(k)) + 1
      BY <2>2, <2>5, RoundCounts
    <3>2. IsFiniteSet(s)
      BY <1>0, FS_Subset
    <3>3. Cardinality(s \ {d}) = Cardinality(s) - 1 /\ Cardinality(s) \in Nat
      BY <2>1, <3>2, FS_RemoveElement, FS_CardinalityType
    <3>4. Cardinality(DeletedIn(z)) >= Cardinality(s)
      BY <2>2, <2>5, <3>1, <3>3
    <3> QED
      BY <2>3, <3>4 DEF z
  <2> QED
    BY <2>4, <2>5
<1> HIDE DEF Q
<1>5. S \in Q
  BY <1>0, <1>3, <1>4, OneByOne
<1>6. Whole(w) /\ (Unreferenced(w) = {} \/ Cardinality(DeletedIn(w)) >= Cardinality(Creatures))
  BY <1>1, <1>5 DEF Q, S
<1>7. ASSUME Cardinality(DeletedIn(w)) >= Cardinality(Creatures) PROVE Unreferenced(w) = {}
  <2>1. IsFiniteSet(Creatures) /\ DeletedIn(w) \subseteq Creatures
    BY Facts DEF DeletedIn
  <2>2. /\ Cardinality(DeletedIn(w)) <= Cardinality(Creatures)
        /\ Cardinality(Creatures) = Cardinality(DeletedIn(w)) => Creatures = DeletedIn(w)
    BY <2>1, FS_Subset
  <2>3. IsFiniteSet(DeletedIn(w))
    BY <2>1, FS_Subset
  <2>4. Cardinality(DeletedIn(w)) \in Nat /\ Cardinality(Creatures) \in Nat
    BY <2>1, <2>3, FS_CardinalityType
  <2>5. DeletedIn(w) = Creatures
    BY <1>7, <2>2, <2>4
  <2> QED
    BY <2>5 DEF DeletedIn, Unreferenced
<1> QED
  BY <1>6, <1>7

-----------------------------------------------------------------------------
(* The inductive invariant: the creatures are as between two calls, and    *)
(* nobody without a reference is left to destroy.                          *)
CreaturesInv == Whole(cr) /\ Unreferenced(cr) = {}

LEMMA BecomesIs ==
  ASSUME CreaturesAssumption, NEW v, Whole(v), Becomes(v) PROVE CreaturesInv'
<1>1. cr' = Rounds(v, Creatures)
  BY DEF Becomes, Over, Rounds
<1>2. Whole(cr') /\ Unreferenced(cr') = {}
  BY <1>1, RoundsIs
<1> QED
  BY <1>2 DEF CreaturesInv

LEMMA CleanupIs ==
  ASSUME CreaturesAssumption, NEW v, Whole(v), Cleanup(v) PROVE CreaturesInv'
<1> DEFINE w == Paid(v)
<1>1. Becomes(w) /\ w = Paid(v)
  BY DEF Cleanup, Paid
<1> HIDE DEF w
<1>2. Whole(w)
  BY <1>1, PaidIs
<1> QED
  BY <1>1, <1>2, BecomesIs

LEMMA InitSound ==
  ASSUME CreaturesAssumption, Init PROVE CreaturesInv
<1> DEFINE b == [life |-> "unborn", slain |-> FALSE, pos |-> 0, master |-> Nobody, attacked |-> Nobody,
                 follow |-> Nobody, targets |-> {}, friends |-> {}, condition |-> FALSE,
                 check |-> FALSE, listed |-> FALSE, released |-> 0, refs |-> 0]
<1>0. IsFiniteSet(Creatures) /\ Nobody \notin Creatures
  BY Facts
<1>1. cr = [c \in Creatures |-> b]
  BY DEF Init
<1>2. b \in Beings
  BY DEF Beings, Lives
<1>3. /\ b.life = "unborn" /\ ~b.slain /\ b.pos = 0 /\ b.master = Nobody /\ b.attacked = Nobody
      /\ b.follow = Nobody /\ b.targets = {} /\ b.friends = {} /\ ~b.check /\ ~b.listed
      /\ b.released = 0 /\ b.refs = 0
  OBVIOUS
<1> HIDE DEF b
<1>4. cr \in State /\ \A c \in Creatures : cr[c] = b
  BY <1>1, <1>2 DEF State
<1>5. \A c \in Creatures : Unheld(cr, c) /\ ~Placed(cr, c)
  BY <1>3, <1>4 DEF Unheld, Placed
<1>6. Exact(cr)
  <2> SUFFICES ASSUME NEW c \in Creatures PROVE cr[c].refs = Held(cr, c)
    BY DEF Exact
  <2>1. InTargetsOf(cr, c) = {} /\ InFriendsOf(cr, c) = {}
    BY <1>5 DEF Unheld, InTargetsOf, InFriendsOf
  <2>2. Bit(Placed(cr, c)) = 0 /\ Bit(cr[c].listed) = 0 /\ Bit(cr[c].master # Nobody) = 0
    BY <1>5 DEF Unheld, Bit
  <2>3. cr[c].refs = 0 /\ cr[c].released = 0
    BY <1>3, <1>4
  <2>4. Cardinality(InTargetsOf(cr, c)) = 0 /\ Cardinality(InFriendsOf(cr, c)) = 0
    BY <2>1, FS_EmptySet
  <2> QED
    BY <2>2, <2>3, <2>4 DEF Held
<1>7. Unpointed(cr) /\ Fresh(cr) /\ Flat(cr) /\ \A c \in Creatures : Checked(cr, c)
  <2>1. Unpointed(cr)
    BY <1>5 DEF Unheld, Unpointed
  <2>2. Fresh(cr)
    BY <1>3, <1>4 DEF Fresh
  <2>3. Flat(cr)
    BY <1>5 DEF Unheld, Flat
  <2>4. \A c \in Creatures : Checked(cr, c)
    BY <1>3, <1>4 DEF Checked
  <2> QED
    BY <2>1, <2>2, <2>3, <2>4
<1>8. Base(cr)
  BY <1>4, <1>6, <1>7 DEF Base
<1>9. InSight(cr, {}, Nobody) /\ Served(cr, {})
  BY <1>5 DEF InSight, Pursues, Served
<1>10. AllAwake(cr, {})
  BY <1>5 DEF AllAwake, Awake, Alive, Creatures
<1>11. Unreferenced(cr) = {}
  BY <1>3, <1>4 DEF Unreferenced
<1> QED
  BY <1>8, <1>9, <1>10, <1>11 DEF CreaturesInv, Whole, Sound

LEMMA CheckSound ==
  ASSUME CreaturesAssumption, CreaturesInv, NEW c \in Creatures, Check(c) PROVE CreaturesInv'
<1>0. Whole(cr) /\ cr \in State /\ Creatures = Monsters \union Players
  BY Facts, SoundState DEF CreaturesInv, Whole
<1>1. cr[c].check => Placed(cr, c)
  BY <1>0 DEF Whole, Sound, Base, Checked
<1>2. CASE ~cr[c].check
  <2> DEFINE w == Unlisted(cr, c)
  <2>1. Cleanup(w) /\ w = Unlisted(cr, c) /\ cr[c].listed
    BY <1>2 DEF Check, Unlisted
  <2> HIDE DEF w
  <2>2. Whole(w)
    BY <1>0, <1>2, <2>1, UnlistedIs
  <2> QED
    BY <2>1, <2>2, CleanupIs
<1>3. CASE cr[c].check /\ cr[c].slain
  <2>1. PICK first \in BOOLEAN : Cleanup(OnDeath(cr, c, first))
    BY <1>3 DEF Check
  <2> DEFINE w == OnDeath(cr, c, first)
  <2>2. Cleanup(w) /\ w = OnDeath(cr, c, first)
    BY <2>1
  <2> HIDE DEF w
  <2>3. Whole(w)
    BY <1>0, <1>1, <1>3, <2>2, OnDeathIs
  <2> QED
    BY <2>2, <2>3, CleanupIs
<1>4. CASE cr[c].check /\ ~cr[c].slain /\ c \in Players
  <2>1. Cleanup(cr)
    BY <1>4 DEF Check
  <2> QED
    BY <1>0, <2>1, CleanupIs
<1>5. CASE cr[c].check /\ ~cr[c].slain /\ c \notin Players
  <2>1. PICK t \in cr[c].targets \union {Nobody} : Cleanup(OnThink(cr, c, t))
    BY <1>5 DEF Check
  <2> DEFINE w == OnThink(cr, c, t)
  <2>2. Cleanup(w) /\ w = OnThink(cr, c, t)
    BY <2>1
  <2>3. t \in Creatures \union {Nobody} /\ c \in Monsters /\ Alive(cr, c)
    BY <1>0, <1>1, <1>5, <2>1, Fields DEF Alive
  <2> HIDE DEF w
  <2>4. Whole(w)
    BY <1>0, <2>2, <2>3, OnThinkIs
  <2> QED
    BY <2>2, <2>4, CleanupIs
<1> QED
  BY <1>2, <1>3, <1>4, <1>5

LEMMA RemainSound ==
  ASSUME CreaturesAssumption, CreaturesInv, cr' = cr PROVE CreaturesInv'
BY DEF CreaturesInv

LEMMA PlaceSound ==
  ASSUME CreaturesAssumption, CreaturesInv, NEW c \in Creatures, NEW x \in Cells,
         Place(c, x) \/ Move(c, x)
  PROVE  CreaturesInv'
<1>0. Whole(cr) /\ x \in Int
  BY DEF CreaturesInv, CreaturesAssumption
<1>1. CASE Place(c, x)
  <2> DEFINE w == PlaceCreature(cr, c, x)
  <2>1. Becomes(w) /\ w = PlaceCreature(cr, c, x) /\ cr[c].life = "unborn"
    BY <1>1 DEF Place
  <2> HIDE DEF w
  <2> QED
    BY <1>0, <2>1, PlaceCreatureIs, BecomesIs
<1>2. CASE Move(c, x)
  <2> DEFINE w == MoveCreature(cr, c, x)
  <2>1. Becomes(w) /\ w = MoveCreature(cr, c, x) /\ Alive(cr, c)
    BY <1>2 DEF Move
  <2> HIDE DEF w
  <2> QED
    BY <1>0, <2>1, MoveCreatureIs, BecomesIs
<1> QED
  BY <1>1, <1>2

LEMMA LeaveSound ==
  ASSUME CreaturesAssumption, CreaturesInv, NEW c \in Creatures, Leave(c)
  PROVE  CreaturesInv'
<1>0. Whole(cr) /\ cr \in State
  BY SoundState DEF CreaturesInv, Whole
<1>1. PICK first \in BOOLEAN : Placed(cr, c) /\ Becomes(RemoveCreature(cr, c, first))
  BY DEF Leave
<1> DEFINE w == RemoveCreature(cr, c, first)
<1>2. Becomes(w) /\ w = RemoveCreature(cr, c, first)
  BY <1>1
<1> HIDE DEF w
<1>3. Whole(w)
  BY <1>0, <1>1, <1>2, RemoveCreatureIs DEF Whole
<1> QED
  BY <1>2, <1>3, BecomesIs

LEMMA SummonSound ==
  ASSUME CreaturesAssumption, CreaturesInv, NEW c \in Creatures, NEW s \in Monsters, Summon(c, s)
  PROVE  CreaturesInv'
<1> DEFINE w == SetMaster(PlaceCreature(cr, s, cr[c].pos), s, c)
<1>0. Whole(cr)
  BY DEF CreaturesInv
<1>1. /\ Becomes(w) /\ w = SetMaster(PlaceCreature(cr, s, cr[c].pos), s, c)
      /\ c # s /\ Home[s] = -1 /\ Alive(cr, c) /\ cr[c].master = Nobody /\ cr[s].life = "unborn"
  BY DEF Summon
<1> HIDE DEF w
<1>2. Whole(w)
  BY <1>0, <1>1, SummonIs
<1> QED
  BY <1>1, <1>2, BecomesIs

LEMMA MonsterSound ==
  ASSUME CreaturesAssumption, CreaturesInv, NEW m \in Monsters,
         Kill(m) \/ SetCondition(m) \/ LoseWay(m)
  PROVE  CreaturesInv'
<1>0. Whole(cr) /\ cr \in State /\ m \in Creatures
  BY Facts, SoundState DEF CreaturesInv, Whole
<1>1. CASE Kill(m)
  <2> DEFINE w == Killed(cr, m)
  <2>1. Becomes(w) /\ w = Killed(cr, m)
    BY <1>1 DEF Kill
  <2> HIDE DEF w
  <2>2. Whole(w)
    BY <1>0, <2>1, KilledIs DEF Whole
  <2> QED
    BY <2>1, <2>2, BecomesIs
<1>2. CASE SetCondition(m)
  <2> DEFINE w == UpdateIdleStatus([cr EXCEPT ![m].condition = ~@], m)
  <2>1. Becomes(w) /\ w = UpdateIdleStatus([cr EXCEPT ![m].condition = ~@], m) /\ Alive(cr, m)
    BY <1>2 DEF SetCondition
  <2> HIDE DEF w
  <2>2. Whole(w)
    BY <1>0, <2>1, ConditionIs
  <2> QED
    BY <2>1, <2>2, BecomesIs
<1>3. CASE LoseWay(m)
  <2> DEFINE c == cr[m].follow
             w == RemoveTarget(cr, m, c)
  <2>1. Becomes(w) /\ w = RemoveTarget(cr, m, c) /\ Alive(cr, m) /\ cr[m].master # Nobody /\ c \in cr[m].targets
    BY <1>3 DEF LoseWay
  <2>2. c \in Creatures
    BY <1>0, <2>1, Fields
  <2> HIDE DEF w, c
  <2>3. Whole(w)
    BY <1>0, <2>1, <2>2, LoseWayIs
  <2> QED
    BY <2>1, <2>3, BecomesIs
<1> QED
  BY <1>1, <1>2, <1>3

LEMMA PlayerSound ==
  ASSUME CreaturesAssumption, CreaturesInv, NEW p \in Players, NEW t \in Creatures \union {Nobody},
         Attack(p, t) \/ Follow(p, t)
  PROVE  CreaturesInv'
<1>0. Whole(cr) /\ p \in Creatures
  BY Facts DEF CreaturesInv
<1>1. CASE Attack(p, t)
  <2>1. PICK chase \in BOOLEAN : Becomes(SetTarget(cr, p, t, chase))
    BY <1>1 DEF Attack
  <2> DEFINE w == SetTarget(cr, p, t, chase)
  <2>2. Becomes(w) /\ w = SetTarget(cr, p, t, chase)
    BY <2>1
  <2>3. cr[p].life # "unborn" /\ (t # Nobody => Placed(cr, t))
    BY <1>1 DEF Attack, Alive, Placed
  <2> HIDE DEF w
  <2>4. Whole(w)
    BY <1>0, <2>2, <2>3, SetTargetIs
  <2> QED
    BY <2>2, <2>4, BecomesIs
<1>2. CASE Follow(p, t)
  <2> DEFINE w == SetFollowCreature(SetTarget(cr, p, Nobody, FALSE), p, t)
  <2>1. Becomes(w) /\ w = SetFollowCreature(SetTarget(cr, p, Nobody, FALSE), p, t)
    BY <1>2 DEF Follow
  <2>2. cr[p].life # "unborn" /\ (t # Nobody => Placed(cr, t))
    BY <1>2 DEF Follow, Alive, Placed
  <2> HIDE DEF w
  <2>3. Whole(w)
    BY <1>0, <2>1, <2>2, FollowIs
  <2> QED
    BY <2>1, <2>3, BecomesIs
<1> QED
  BY <1>1, <1>2

LEMMA CreaturesInduction ==
  ASSUME CreaturesAssumption, CreaturesInv, [Next]_cr PROVE CreaturesInv'
<1>1. ASSUME NEW c \in Creatures, Check(c) \/ Leave(c) PROVE CreaturesInv'
  BY <1>1, CheckSound, LeaveSound
<1>2. ASSUME NEW c \in Creatures, NEW x \in Cells, Place(c, x) \/ Move(c, x) PROVE CreaturesInv'
  BY <1>2, PlaceSound
<1>3. ASSUME NEW c \in Creatures, NEW s \in Monsters, Summon(c, s) PROVE CreaturesInv'
  BY <1>3, SummonSound
<1>4. ASSUME NEW m \in Monsters, Kill(m) \/ SetCondition(m) \/ LoseWay(m) PROVE CreaturesInv'
  BY <1>4, MonsterSound
<1>5. ASSUME NEW p \in Players, NEW t \in Creatures \union {Nobody}, Attack(p, t) \/ Follow(p, t)
      PROVE CreaturesInv'
  BY <1>5, PlayerSound
<1>6. CASE cr' = cr
  BY <1>6, RemainSound
<1> QED
  BY <1>1, <1>2, <1>3, <1>4, <1>5, <1>6 DEF Next

LEMMA CreaturesMeant ==
  ASSUME CreaturesAssumption, CreaturesInv PROVE RefsExact /\ PursuitInSight /\ AwakeWhenNeeded
<1>0. /\ Whole(cr) /\ Unreferenced(cr) = {} /\ cr \in State /\ IsFiniteSet(Creatures)
      /\ Nobody \notin Creatures /\ Creatures = Monsters \union Players
  BY Facts, SoundState DEF CreaturesInv, Whole
<1>1. RefsExact
  <2> SUFFICES ASSUME NEW c \in Creatures
               PROVE  /\ cr[c].refs = (IF Placed(cr, c) THEN 1 ELSE 0) + (IF cr[c].listed THEN 1 ELSE 0)
                           + (IF cr[c].master # Nobody THEN 1 ELSE 0) + cr[c].released
                           + Cardinality({m \in Creatures : c \in cr[m].targets})
                           + Cardinality({m \in Creatures : c \in cr[m].friends})
                      /\ (cr[c].life \in {"unborn", "deleted"} <=> cr[c].refs = 0)
    BY DEF RefsExact, Times
  <2>1. cr[c].refs = Held(cr, c)
    BY <1>0 DEF Whole, Sound, Base, Exact
  <2>2. cr[c].refs = (IF Placed(cr, c) THEN 1 ELSE 0) + (IF cr[c].listed THEN 1 ELSE 0)
                     + (IF cr[c].master # Nobody THEN 1 ELSE 0) + cr[c].released
                     + Cardinality({m \in Creatures : c \in cr[m].targets})
                     + Cardinality({m \in Creatures : c \in cr[m].friends})
    BY <2>1 DEF Held, Bit, InTargetsOf, InFriendsOf
  <2>3. cr[c].refs = 0 => Gone(cr, c)
    BY <1>0 DEF Unreferenced, Gone
  <2>4. Gone(cr, c) => Unheld(cr, c)
    BY <1>0 DEF Whole, Sound, Base, Unpointed, Unheld, Gone, Placed
  <2>5. Gone(cr, c) <=> cr[c].refs = 0
    BY <1>0, <2>3, <2>4, UnheldIs DEF Whole, Sound, Base
  <2> QED
    BY <2>2, <2>5 DEF Gone
<1>2. PursuitInSight
  <2> SUFFICES ASSUME NEW c \in Creatures, Placed(cr, c)
               PROVE  /\ \A t \in {cr[c].attacked, cr[c].follow} \ {Nobody} : Placed(cr, t) /\ Sees(cr, c, t)
                      /\ cr[c].master # Nobody => Placed(cr, cr[c].master)
    BY DEF PursuitInSight
  <2>1. ASSUME NEW t \in {cr[c].attacked, cr[c].follow} \ {Nobody} PROVE Placed(cr, t) /\ Sees(cr, c, t)
    <3>1. t \in Creatures /\ Pursues(cr, c, t)
      BY <1>0, <2>1, Fields DEF Pursues
    <3> QED
      BY <1>0, <3>1 DEF Whole, Sound, InSight, Within, Unnoticed
  <2>2. cr[c].master # Nobody => Placed(cr, cr[c].master)
    BY <1>0 DEF Whole, Sound, Served
  <2> QED
    BY <2>1, <2>2
<1>3. AwakeWhenNeeded
  <2> SUFFICES ASSUME NEW m \in Monsters
               PROVE  /\ cr[m].check => cr[m].listed
                      /\ Placed(cr, m) /\ cr[m].slain => cr[m].check
                      /\ Alive(cr, m) /\ ~cr[m].check =>
                           /\ cr[m].master = Nobody /\ cr[m].targets = {}
                           /\ cr[m].condition => cr[m].pos = Home[m]
    BY DEF AwakeWhenNeeded
  <2>1. Checked(cr, m) /\ Awake(cr, m)
    BY <1>0 DEF Whole, Sound, Base, AllAwake
  <2> QED
    BY <2>1 DEF Checked, Awake
<1> QED
  BY <1>1, <1>2, <1>3

-----------------------------------------------------------------------------
(* A creature always has as many references as there are pointers that     *)
(* must keep it alive, and is deleted exactly when the last one goes; whom *)
(* one in the game attacks, follows or serves is in the game, the first    *)
(* two in sight; and checkCreatures comes to every monster that is dead or *)
(* has something to do (Game::removeCreature with onCreatureDisappear,     *)
(* ReleaseCreature and decrementReferenceCounter, Monster::updateIdleStatus)*)
THEOREM CreaturesAlwaysSound ==
  ASSUME CreaturesAssumption
  PROVE  Spec => []CreaturesSound
<1>1. Init => CreaturesInv
  BY InitSound
<1>2. CreaturesInv /\ [Next]_cr => CreaturesInv'
  BY CreaturesInduction
<1>3. CreaturesInv => CreaturesSound
  BY CreaturesMeant DEF CreaturesSound
<1> QED
  BY <1>1, <1>2, <1>3, PTL DEF Spec
=============================================================================
