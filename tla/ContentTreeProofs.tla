---------------------------- MODULE ContentTreeProofs ----------------------------
(***************************************************************************)
(* Proofs about ContentTree for every finite set of paths, every size and  *)
(* every filter. The tree is defined by recursion: on the children of a    *)
(* node for its totals, on its parent for the rows shown. That such        *)
(* functions exist, and what they compute, is shown by induction, which is *)
(* stated for sets: a set that holds 0, and n + 1 whenever it holds n,     *)
(* holds every natural number.                                             *)
(***************************************************************************)
EXTENDS ContentTree, SequenceTheorems, FiniteSetTheorems, WellFoundedInduction, TLAPS

-----------------------------------------------------------------------------
(* Induction on natural numbers and on the subsets of a finite set. *)

\* Less-than on the natural numbers, as a relation.
Below == OpToRel(<, Nat)

\* Every set of natural numbers that is not empty has a least member.
LEMMA LeastNatural ==
    ASSUME NEW S \in SUBSET Nat, S # {}
    PROVE  \E m \in S : \A n \in S : m <= n
<1>1. IsWellFoundedOn(Below, Nat)
  BY NatLessThanWellFounded DEF Below
<1>2. PICK m \in S : \A n \in S : <<n, m>> \notin Below
  BY <1>1, WFMin
<1>3. \A n \in S : ~(n < m)
  BY <1>2 DEF Below, OpToRel
<1> QED
  BY <1>3

\* Induction on the natural numbers, for a set.
LEMMA Induction ==
    ASSUME NEW N, 0 \in N, \A n \in Nat : n \in N => n + 1 \in N
    PROVE  \A n \in Nat : n \in N
<1> SUFFICES ASSUME Nat \ N # {} PROVE FALSE
  OBVIOUS
<1>1. PICK m \in Nat \ N : \A n \in Nat \ N : m <= n
  BY LeastNatural
<1>2. m # 0 /\ m - 1 \in Nat
  BY <1>1
<1>3. m - 1 \in N
  BY <1>1, <1>2
<1>4. (m - 1) + 1 \in N
  BY <1>2, <1>3
<1> QED
  BY <1>1, <1>4

\* Removing a member leaves one less.
LEMMA OneLess ==
    ASSUME NEW S, IsFiniteSet(S), NEW s \in SUBSET S, NEW c \in s
    PROVE  /\ Cardinality(s) \in Nat \ {0}
           /\ s \ {c} \in SUBSET S /\ Cardinality(s \ {c}) \in Nat
           /\ Cardinality(s \ {c}) + 1 = Cardinality(s)
<1>1. IsFiniteSet(s)
  BY FS_Subset
<1>2. Cardinality(s) \in Nat
  BY <1>1, FS_CardinalityType
<1>3. IsFiniteSet(s \ {c}) /\ Cardinality(s \ {c}) = Cardinality(s) - 1
  BY <1>1, FS_RemoveElement
<1>4. Cardinality(s \ {c}) \in Nat
  BY <1>3, FS_CardinalityType
<1> QED
  BY <1>2, <1>3, <1>4

Member(s) == CHOOSE x \in s : TRUE

\* Induction on the subsets of a finite set.
LEMMA MemberInduction ==
    ASSUME NEW S, IsFiniteSet(S), NEW X, {} \in X,
           \A s \in SUBSET S : s # {} /\ s \ {Member(s)} \in X => s \in X
    PROVE  \A s \in SUBSET S : s \in X
<1> DEFINE N == {n \in Nat : \A s \in SUBSET S : Cardinality(s) = n => s \in X}
<1>1. 0 \in N
  BY FS_Subset, FS_EmptySet
<1>2. ASSUME NEW n \in Nat, n \in N
      PROVE  n + 1 \in N
  <2>1. ASSUME NEW s \in SUBSET S, Cardinality(s) = n + 1
        PROVE  s \in X
    <3>1. s # {}
      BY <2>1, FS_EmptySet
    <3>2. Member(s) \in s
      BY <3>1 DEF Member
    <3>3. s \ {Member(s)} \in SUBSET S /\ Cardinality(s \ {Member(s)}) = n
      BY <2>1, <3>2, OneLess
    <3> QED
      BY <1>2, <3>1, <3>3
  <2> QED
    BY <2>1
<1> HIDE DEF N
<1>3. \A n \in Nat : n \in N
  BY <1>1, <1>2, Induction
<1> QED
  BY <1>3, FS_Subset, FS_CardinalityType DEF N

\* The same, with any member removed.
LEMMA SetInduction ==
    ASSUME NEW S, IsFiniteSet(S), NEW X, {} \in X,
           \A s \in SUBSET S : \A c \in s : s \ {c} \in X => s \in X
    PROVE  \A s \in SUBSET S : s \in X
<1>1. \A s \in SUBSET S : s # {} => Member(s) \in s
  BY DEF Member
<1>2. \A s \in SUBSET S : s # {} /\ s \ {Member(s)} \in X => s \in X
  BY <1>1
<1> QED
  BY <1>2, MemberInduction

-----------------------------------------------------------------------------
(* Sums and products over a finite set, whatever the order in which they are taken. *)

\* g[s] is the sum over s, whatever the order.
Adds(g, w, S) ==
    /\ g \in [SUBSET S -> Nat] /\ g[{}] = 0
    /\ \A s \in SUBSET S : \A c \in s : g[s] = w[c] + g[s \ {c}]

\* There is a sum of any weights.
LEMMA AddsExists ==
    ASSUME NEW S, IsFiniteSet(S), NEW w, \A c \in S : w[c] \in Nat
    PROVE  \E g : Adds(g, w, S)
<1> DEFINE Upto(g, n) ==
             /\ g \in [SUBSET S -> Nat] /\ g[{}] = 0
             /\ \A s \in SUBSET S : Cardinality(s) <= n =>
                   \A c \in s : g[s] = w[c] + g[s \ {c}]
           N == {n \in Nat : \E g : Upto(g, n)}
<1>1. 0 \in N
  <2> DEFINE g == [s \in SUBSET S |-> 0]
  <2>1. ASSUME NEW s \in SUBSET S, NEW c \in s
        PROVE  ~(Cardinality(s) <= 0)
    <3>1. Cardinality(s) \in Nat \ {0}
      BY OneLess
    <3> QED
      BY <3>1
  <2>2. g \in [SUBSET S -> Nat] /\ g[{}] = 0
    OBVIOUS
  <2> HIDE DEF g
  <2>3. Upto(g, 0)
    BY <2>1, <2>2
  <2> QED
    BY <2>3
<1>2. ASSUME NEW n \in Nat, n \in N
      PROVE  n + 1 \in N
  <2>1. PICK g : Upto(g, n)
    BY <1>2
  <2> DEFINE h == [s \in SUBSET S |-> IF Cardinality(s) <= n THEN g[s]
                                      ELSE w[Member(s)] + g[s \ {Member(s)}]]
  <2>2. \A s \in SUBSET S : s # {} => Member(s) \in s
    BY DEF Member
  <2>3. Cardinality({}) = 0
    BY FS_EmptySet
  <2>4. h \in [SUBSET S -> Nat] /\ h[{}] = 0
    <3>1. h[{}] = 0
      BY <2>1, <2>3
    <3>2. ASSUME NEW s \in SUBSET S
          PROVE  (IF Cardinality(s) <= n THEN g[s]
                                         ELSE w[Member(s)] + g[s \ {Member(s)}]) \in Nat
      <4>1. CASE s = {}
        BY <2>1, <2>3, <4>1
      <4>2. CASE s # {}
        <5>1. Member(s) \in s /\ w[Member(s)] \in Nat /\ s \ {Member(s)} \in SUBSET S
          BY <2>2, <4>2
        <5> QED
          BY <2>1, <5>1
      <4> QED
        BY <4>1, <4>2
    <3> QED
      BY <3>1, <3>2
  <2>5. ASSUME NEW s \in SUBSET S, Cardinality(s) <= n + 1, NEW c \in s
        PROVE  h[s] = w[c] + h[s \ {c}]
    <3>1. /\ Cardinality(s) \in Nat /\ Cardinality(s \ {c}) \in Nat
          /\ Cardinality(s \ {c}) + 1 = Cardinality(s) /\ s \ {c} \in SUBSET S
      BY OneLess
    <3>2. h[s \ {c}] = g[s \ {c}]
      BY <2>5, <3>1
    <3>3. CASE Cardinality(s) <= n
      BY <2>1, <3>2, <3>3
    <3>4. CASE Cardinality(s) = n + 1
      <4> DEFINE x == Member(s)
      <4>1. x \in s /\ h[s] = w[x] + g[s \ {x}]
        BY <2>2, <3>4
      <4> HIDE DEF x
      <4>2. CASE x = c
        BY <3>2, <4>1, <4>2
      <4>3. CASE x # c
        <5>1. /\ Cardinality(s \ {x}) <= n /\ s \ {x} \in SUBSET S /\ c \in s \ {x}
              /\ Cardinality(s \ {c}) <= n /\ x \in s \ {c}
          <6>1. s \ {x} \in SUBSET S /\ c \in s \ {x} /\ x \in s \ {c}
            BY <4>1, <4>3
          <6>2. Cardinality(s \ {x}) + 1 = Cardinality(s) /\ Cardinality(s \ {x}) \in Nat
            BY <4>1, OneLess
          <6> QED
            BY <3>1, <3>4, <6>1, <6>2
        <5>2. g[s \ {x}] = w[c] + g[(s \ {x}) \ {c}]
          BY <2>1, <5>1
        <5>3. g[s \ {c}] = w[x] + g[(s \ {c}) \ {x}]
          BY <2>1, <3>1, <5>1
        <5>4. (s \ {x}) \ {c} = (s \ {c}) \ {x} /\ (s \ {x}) \ {c} \in SUBSET S
          OBVIOUS
        <5>5. w[c] \in Nat /\ w[x] \in Nat /\ g[(s \ {x}) \ {c}] \in Nat
          BY <2>1, <4>1, <5>4
        <5>6. g[(s \ {c}) \ {x}] = g[(s \ {x}) \ {c}]
          BY <5>4
        <5> HIDE DEF h
        <5> QED
          BY <3>2, <4>1, <5>2, <5>3, <5>5, <5>6
      <4> QED
        BY <4>2, <4>3
    <3> QED
      BY <2>5, <3>1, <3>3, <3>4
  <2> HIDE DEF h
  <2>6. Upto(h, n + 1)
    BY <2>4, <2>5
  <2> HIDE DEF Upto
  <2> QED
    BY <2>6
<1> HIDE DEF N
<1>3. Cardinality(S) \in N
  BY <1>1, <1>2, Induction, FS_CardinalityType
<1>4. PICK g : Upto(g, Cardinality(S))
  BY <1>3 DEF N
<1>5. \A s \in SUBSET S : Cardinality(s) <= Cardinality(S)
  BY FS_Subset
<1> QED
  BY <1>4, <1>5 DEF Adds

\* SumFunctionOnSet, which takes the members one by one, is such a sum.
LEMMA SumIsAdds ==
    ASSUME NEW S, IsFiniteSet(S), NEW w, \A c \in S : w[c] \in Nat, NEW g, Adds(g, w, S),
           NEW T \in SUBSET S
    PROVE  SumFunctionOnSet(w, T) = g[T]
<1> DEFINE iter == CHOOSE f : f = [s \in SUBSET T |->
                       IF s = {} THEN 0 ELSE w[Member(s)] + f[s \ {Member(s)}]]
           N    == {n \in Nat : \A s \in SUBSET T : Cardinality(s) = n => iter[s] = g[s]}
<1>1. SumFunctionOnSet(w, T) = iter[T]
  BY DEF SumFunctionOnSet, FoldFunctionOnSet, MapThenFoldSet, Member
<1>2. iter = [s \in SUBSET T |->
                 IF s = {} THEN 0 ELSE w[Member(s)] + iter[s \ {Member(s)}]]
  <2> DEFINE f == [s \in SUBSET T |-> g[s]]
  <2>1. ASSUME NEW s \in SUBSET T
        PROVE  f[s] = IF s = {} THEN 0 ELSE w[Member(s)] + f[s \ {Member(s)}]
    <3>1. CASE s = {}
      BY <3>1 DEF Adds
    <3>2. CASE s # {}
      <4>1. Member(s) \in s
        BY <3>2 DEF Member
      <4>2. s \in SUBSET S /\ s \ {Member(s)} \in SUBSET T
        OBVIOUS
      <4>3. g[s] = w[Member(s)] + g[s \ {Member(s)}]
        BY <4>1, <4>2 DEF Adds
      <4> QED
        BY <3>2, <4>2, <4>3
    <3> QED
      BY <3>1, <3>2
  <2>2. f = [s \in SUBSET T |->
                IF s = {} THEN 0 ELSE w[Member(s)] + f[s \ {Member(s)}]]
    BY <2>1
  <2> QED
    BY <2>2
<1> HIDE DEF iter
<1>3. 0 \in N
  <2>1. \A s \in SUBSET T : Cardinality(s) = 0 => s = {}
    BY FS_Subset, FS_EmptySet
  <2>2. iter[{}] = 0
    BY <1>2
  <2> QED
    BY <2>1, <2>2 DEF Adds
<1>4. ASSUME NEW n \in Nat, n \in N
      PROVE  n + 1 \in N
  <2>1. ASSUME NEW s \in SUBSET T, Cardinality(s) = n + 1
        PROVE  iter[s] = g[s]
    <3>1. s # {}
      BY <2>1, FS_EmptySet
    <3> DEFINE x == Member(s)
    <3>2. x \in s
      BY <3>1 DEF Member
    <3>3. iter[s] = w[x] + iter[s \ {x}]
      BY <1>2, <3>1
    <3> HIDE DEF x
    <3>4. s \in SUBSET S /\ s \ {x} \in SUBSET T
      OBVIOUS
    <3>5. Cardinality(s \ {x}) = n
      BY <2>1, <3>2, <3>4, OneLess
    <3>6. iter[s \ {x}] = g[s \ {x}]
      BY <1>4, <3>4, <3>5
    <3> QED
      BY <3>2, <3>3, <3>4, <3>6 DEF Adds
  <2> QED
    BY <2>1
<1> HIDE DEF N
<1>5. Cardinality(T) \in N
  BY <1>3, <1>4, Induction, FS_Subset, FS_CardinalityType
<1> QED
  BY <1>1, <1>5 DEF N

\* The sum of weights: over nothing, and with one member taken out.
LEMMA SumSteps ==
    ASSUME NEW S, IsFiniteSet(S), NEW w, \A c \in S : w[c] \in Nat
    PROVE  /\ SumFunctionOnSet(w, {}) = 0
           /\ SumFunctionOnSet(w, S) \in Nat
           /\ \A c \in S : SumFunctionOnSet(w, S) = w[c] + SumFunctionOnSet(w, S \ {c})
<1>1. PICK g : Adds(g, w, S)
  BY AddsExists
<1>2. \A T \in SUBSET S : SumFunctionOnSet(w, T) = g[T]
  BY <1>1, SumIsAdds
<1> QED
  BY <1>1, <1>2 DEF Adds

\* Only the weights of the members count.
LEMMA SumSame ==
    ASSUME NEW S, IsFiniteSet(S), NEW w, NEW v, \A c \in S : w[c] \in Nat /\ v[c] = w[c]
    PROVE  SumFunctionOnSet(v, S) = SumFunctionOnSet(w, S)
<1>1. PICK g : Adds(g, w, S)
  BY AddsExists
<1>2. Adds(g, v, S)
  BY <1>1 DEF Adds
<1> QED
  BY <1>1, <1>2, SumIsAdds

\* A common factor can be taken out.
LEMMA SumScale ==
    ASSUME NEW S, IsFiniteSet(S), NEW w, \A c \in S : w[c] \in Nat, NEW k \in Nat,
           NEW v, \A c \in S : v[c] = k * w[c]
    PROVE  SumFunctionOnSet(v, S) = k * SumFunctionOnSet(w, S)
<1>1. PICK g : Adds(g, w, S)
  BY AddsExists
<1> DEFINE h == [s \in SUBSET S |-> k * g[s]]
<1>2. Adds(h, v, S)
  <2>1. h \in [SUBSET S -> Nat] /\ h[{}] = 0
    BY <1>1 DEF Adds
  <2>2. ASSUME NEW s \in SUBSET S, NEW c \in s
        PROVE  h[s] = v[c] + h[s \ {c}]
    <3> DEFINE a == w[c]
               b == g[s \ {c}]
    <3>1. s \ {c} \in SUBSET S
      OBVIOUS
    <3>2. a \in Nat /\ b \in Nat /\ g[s] = a + b /\ v[c] = k * a
      BY <1>1, <3>1 DEF Adds
    <3>3. h[s] = k * g[s] /\ h[s \ {c}] = k * b
      BY <3>1
    <3> HIDE DEF a, b, h
    <3>4. k * (a + b) = k * a + k * b
      BY <3>2
    <3> QED
      BY <3>2, <3>3, <3>4
  <2> QED
    BY <2>1, <2>2 DEF Adds
<1>3. \A c \in S : v[c] \in Nat
  OBVIOUS
<1>4. SumFunctionOnSet(v, S) = h[S]
  BY <1>2, <1>3, SumIsAdds
<1>5. SumFunctionOnSet(w, S) = g[S]
  BY <1>1, SumIsAdds
<1> QED
  BY <1>4, <1>5

\* A sum of smaller weights is smaller, and equal only if all of them are.
LEMMA SumCompare ==
    ASSUME NEW S, IsFiniteSet(S), NEW v, NEW w,
           \A c \in S : v[c] \in Nat /\ w[c] \in Nat /\ v[c] <= w[c]
    PROVE  /\ SumFunctionOnSet(v, S) <= SumFunctionOnSet(w, S)
           /\ SumFunctionOnSet(v, S) = SumFunctionOnSet(w, S) <=> \A c \in S : v[c] = w[c]
<1>1. PICK g : Adds(g, v, S)
  BY AddsExists
<1>2. PICK h : Adds(h, w, S)
  BY AddsExists
<1> DEFINE X == {s \in SUBSET S : /\ g[s] <= h[s]
                                  /\ g[s] = h[s] => \A c \in s : v[c] = w[c]}
<1>3. {} \in X
  BY <1>1, <1>2 DEF Adds
<1>4. ASSUME NEW s \in SUBSET S, NEW c \in s, s \ {c} \in X
      PROVE  s \in X
  <2>1. g[s] = v[c] + g[s \ {c}] /\ h[s] = w[c] + h[s \ {c}]
    BY <1>1, <1>2 DEF Adds
  <2>2. g[s \ {c}] \in Nat /\ h[s \ {c}] \in Nat /\ v[c] \in Nat /\ w[c] \in Nat
    BY <1>1, <1>2 DEF Adds
  <2>3. g[s \ {c}] <= h[s \ {c}] /\ v[c] <= w[c]
    BY <1>4
  <2>4. g[s] <= h[s]
    BY <2>1, <2>2, <2>3
  <2>5. ASSUME g[s] = h[s]
        PROVE  v[c] = w[c] /\ g[s \ {c}] = h[s \ {c}]
    BY <2>1, <2>2, <2>3, <2>5
  <2> QED
    BY <1>4, <2>4, <2>5
<1> HIDE DEF X
<1>5. S \in X
  BY <1>3, <1>4, SetInduction
<1>6. SumFunctionOnSet(v, S) = g[S] /\ SumFunctionOnSet(w, S) = h[S]
  BY <1>1, <1>2, SumIsAdds
<1>7. (\A c \in S : v[c] = w[c]) => SumFunctionOnSet(v, S) = SumFunctionOnSet(w, S)
  BY SumSame
<1> QED
  BY <1>5, <1>6, <1>7 DEF X

\* The sum over two sets with no member in common.
LEMMA SumUnion ==
    ASSUME NEW S, IsFiniteSet(S), NEW w, \A c \in S : w[c] \in Nat,
           NEW A \in SUBSET S, NEW B \in SUBSET S, A \cap B = {}
    PROVE  SumFunctionOnSet(w, A \cup B) = SumFunctionOnSet(w, A) + SumFunctionOnSet(w, B)
<1>1. PICK g : Adds(g, w, S)
  BY AddsExists
<1> DEFINE X == {s \in SUBSET S : s \cap B = {} => g[s \cup B] = g[s] + g[B]}
<1>2. {} \in X
  <2>1. {} \cup B = B /\ g[{}] = 0 /\ g[B] \in Nat
    BY <1>1 DEF Adds
  <2> QED
    BY <2>1
<1>3. ASSUME NEW s \in SUBSET S, NEW c \in s, s \ {c} \in X
      PROVE  s \in X
  <2> SUFFICES ASSUME s \cap B = {}
               PROVE  g[s \cup B] = g[s] + g[B]
    OBVIOUS
  <2>1. /\ (s \cup B) \ {c} = (s \ {c}) \cup B /\ s \cup B \in SUBSET S
        /\ s \ {c} \in SUBSET S /\ (s \ {c}) \cap B = {} /\ c \in s \cup B
        /\ (s \ {c}) \cup B \in SUBSET S
    OBVIOUS
  <2>2. g[s \cup B] = w[c] + g[(s \ {c}) \cup B] /\ g[s] = w[c] + g[s \ {c}]
    BY <1>1, <2>1 DEF Adds
  <2>3. g[(s \ {c}) \cup B] = g[s \ {c}] + g[B]
    BY <1>3, <2>1
  <2>4. w[c] \in Nat /\ g[s \ {c}] \in Nat /\ g[B] \in Nat
    BY <1>1, <2>1 DEF Adds
  <2> QED
    BY <2>2, <2>3, <2>4
<1> HIDE DEF X
<1>4. A \in X
  BY <1>2, <1>3, SetInduction
<1>5. A \cup B \in SUBSET S
  OBVIOUS
<1> QED
  BY <1>1, <1>4, <1>5, SumIsAdds DEF X

\* The sum over a partition is the sum of the sums over its parts.
LEMMA SumFamily ==
    ASSUME NEW S, IsFiniteSet(S), NEW w, \A c \in S : w[c] \in Nat,
           NEW C, IsFiniteSet(C), NEW F \in [C -> SUBSET S],
           \A c \in C, d \in C : c # d => F[c] \cap F[d] = {},
           NEW v, \A c \in C : v[c] = SumFunctionOnSet(w, F[c])
    PROVE  SumFunctionOnSet(v, C) = SumFunctionOnSet(w, UNION {F[c] : c \in C})
<1> DEFINE Parts(D) == UNION {F[c] : c \in D}
           X == {D \in SUBSET C : SumFunctionOnSet(v, D) = SumFunctionOnSet(w, Parts(D))}
<1>1. \A c \in C : v[c] \in Nat
  <2>1. ASSUME NEW c \in C
        PROVE  SumFunctionOnSet(w, F[c]) \in Nat
    <3>1. F[c] \in SUBSET S
      OBVIOUS
    <3>2. IsFiniteSet(F[c])
      BY <3>1, FS_Subset
    <3> QED
      BY <3>1, <3>2, SumSteps
  <2> QED
    BY <2>1
<1>2. {} \in X
  <2>1. Parts({}) = {}
    OBVIOUS
  <2>2. SumFunctionOnSet(v, {}) = 0 /\ SumFunctionOnSet(w, {}) = 0
    BY <1>1, SumSteps
  <2> QED
    BY <2>1, <2>2
<1>3. ASSUME NEW D \in SUBSET C, NEW c \in D, D \ {c} \in X
      PROVE  D \in X
  <2>1. /\ Parts(D) = F[c] \cup Parts(D \ {c}) /\ F[c] \cap Parts(D \ {c}) = {}
        /\ F[c] \in SUBSET S /\ Parts(D \ {c}) \in SUBSET S
    OBVIOUS
  <2>2. SumFunctionOnSet(w, Parts(D)) =
            SumFunctionOnSet(w, F[c]) + SumFunctionOnSet(w, Parts(D \ {c}))
    <3> DEFINE A == F[c]
               B == Parts(D \ {c})
    <3>1. Parts(D) = A \cup B /\ A \cap B = {} /\ A \in SUBSET S /\ B \in SUBSET S
      BY <2>1
    <3> HIDE DEF A, B, Parts
    <3>2. SumFunctionOnSet(w, A \cup B) = SumFunctionOnSet(w, A) + SumFunctionOnSet(w, B)
      BY <3>1, SumUnion
    <3>3. SumFunctionOnSet(w, Parts(D)) = SumFunctionOnSet(w, A) + SumFunctionOnSet(w, B)
      BY <3>1, <3>2
    <3> QED
      BY <3>3 DEF A, B
  <2>3. IsFiniteSet(D)
    BY FS_Subset
  <2>4. SumFunctionOnSet(v, D) = v[c] + SumFunctionOnSet(v, D \ {c})
    BY <1>1, <2>3, SumSteps
  <2>5. v[c] = SumFunctionOnSet(w, F[c])
    OBVIOUS
  <2> QED
    BY <1>3, <2>2, <2>4, <2>5
<1> HIDE DEF X
<1>4. C \in X
  BY <1>2, <1>3, SetInduction
<1> QED
  BY <1>4 DEF X

\* A sum is zero only if all weights are.
LEMMA SumZero ==
    ASSUME NEW S, IsFiniteSet(S), NEW w, \A c \in S : w[c] \in Nat
    PROVE  SumFunctionOnSet(w, S) = 0 <=> \A c \in S : w[c] = 0
<1> DEFINE z == [c \in S |-> 0]
<1>1. \A c \in S : z[c] = 0 * w[c] /\ z[c] = 0
  OBVIOUS
<1>2. SumFunctionOnSet(w, S) \in Nat
  BY SumSteps
<1> HIDE DEF z
<1>3. SumFunctionOnSet(z, S) = 0 * SumFunctionOnSet(w, S)
  BY <1>1, SumScale
<1>4. SumFunctionOnSet(z, S) = 0
  BY <1>2, <1>3
<1>5. \A c \in S : z[c] \in Nat /\ w[c] \in Nat /\ z[c] <= w[c]
  BY <1>1
<1>6. SumFunctionOnSet(z, S) = SumFunctionOnSet(w, S) <=> \A c \in S : z[c] = w[c]
  BY <1>5, SumCompare
<1> QED
  BY <1>1, <1>4, <1>6

\* Product takes the members one by one.
Multiplied(h, f, s) == IF s = {} THEN 1 ELSE f[Member(s)] * h[s \ {Member(s)}]
\* There is such a function.
LEMMA ProductExists ==
    ASSUME NEW S, IsFiniteSet(S), NEW f \in [S -> Nat \ {0}]
    PROVE  \E h \in [SUBSET S -> Nat \ {0}] :
              \A s \in SUBSET S : h[s] = Multiplied(h, f, s)
<1> DEFINE Step(h, s) == Multiplied(h, f, s)
           Upto(h, n) == \A s \in SUBSET S : Cardinality(s) <= n => h[s] = Step(h, s)
           N == {n \in Nat : \E h \in [SUBSET S -> Nat \ {0}] : Upto(h, n)}
<1>1. ASSUME NEW s \in SUBSET S, s # {}
      PROVE  /\ Member(s) \in s /\ f[Member(s)] \in Nat \ {0} /\ s \ {Member(s)} \in SUBSET S
             /\ Cardinality(s \ {Member(s)}) \in Nat
             /\ Cardinality(s \ {Member(s)}) + 1 = Cardinality(s)
  <2>1. Member(s) \in s
    BY <1>1 DEF Member
  <2> QED
    BY <2>1, OneLess
<1>2. ASSUME NEW h \in [SUBSET S -> Nat \ {0}], NEW s \in SUBSET S
      PROVE  Step(h, s) \in Nat \ {0}
  <2>1. CASE s = {}
    BY <2>1 DEF Multiplied
  <2>2. CASE s # {}
    <3> DEFINE a == f[Member(s)]
               b == h[s \ {Member(s)}]
    <3>1. a \in Nat \ {0} /\ b \in Nat \ {0}
      BY <1>1, <2>2
    <3>2. Step(h, s) = a * b
      BY <2>2 DEF Multiplied
    <3> HIDE DEF a, b, Step
    <3> QED
      BY <3>1, <3>2
  <2> QED
    BY <2>1, <2>2
<1>3. 0 \in N
  <2> DEFINE h == [s \in SUBSET S |-> 1]
  <2>1. \A s \in SUBSET S : Cardinality(s) <= 0 => s = {}
    <3>1. ASSUME NEW s \in SUBSET S, s # {}
          PROVE  ~(Cardinality(s) <= 0)
      <4>1. Cardinality(s \ {Member(s)}) \in Nat /\ Cardinality(s \ {Member(s)}) + 1 = Cardinality(s)
        BY <1>1, <3>1
      <4> QED
        BY <4>1
    <3> QED
      BY <3>1
  <2>2. h \in [SUBSET S -> Nat \ {0}]
    OBVIOUS
  <2>3. Upto(h, 0)
    BY <2>1 DEF Multiplied
  <2> HIDE DEF h, Upto
  <2> QED
    BY <2>2, <2>3
<1>4. ASSUME NEW n \in Nat, n \in N
      PROVE  n + 1 \in N
  <2>1. PICK h \in [SUBSET S -> Nat \ {0}] : Upto(h, n)
    BY <1>4
  <2> DEFINE g == [s \in SUBSET S |-> IF Cardinality(s) <= n THEN h[s] ELSE Step(h, s)]
  <2>2. g \in [SUBSET S -> Nat \ {0}]
    <3> HIDE DEF Step
    <3> QED
      BY <1>2
  <2>3. ASSUME NEW s \in SUBSET S, Cardinality(s) <= n + 1
        PROVE  g[s] = Step(g, s)
    <3>1. g[s] = Step(h, s)
      BY <2>1
    <3>2. CASE s = {}
      BY <3>1, <3>2 DEF Multiplied
    <3>3. CASE s # {}
      <4> DEFINE x == Member(s)
      <4>1. s \ {x} \in SUBSET S /\ Cardinality(s \ {x}) <= n
        BY <1>1, <2>3, <3>3
      <4>2. g[s \ {x}] = h[s \ {x}]
        BY <4>1
      <4> HIDE DEF g
      <4> QED
        BY <3>1, <3>3, <4>2 DEF Multiplied
    <3> QED
      BY <3>2, <3>3
  <2> HIDE DEF g
  <2>4. Upto(g, n + 1)
    <3> HIDE DEF Step
    <3> QED
      BY <2>3
  <2> HIDE DEF Upto
  <2> QED
    BY <2>2, <2>4
<1> HIDE DEF N
<1>5. Cardinality(S) \in N
  BY <1>3, <1>4, Induction, FS_CardinalityType
<1>6. \A s \in SUBSET S : Cardinality(s) <= Cardinality(S)
  BY FS_Subset
<1> QED
  BY <1>5, <1>6 DEF N

\* A product of denominators is a common one.
LEMMA ProductDivides ==
    ASSUME NEW S, IsFiniteSet(S), NEW f \in [S -> Nat \ {0}]
    PROVE  /\ Product(f) \in Nat \ {0}
           /\ \A c \in S : \E q \in Nat \ {0} : Product(f) = f[c] * q
<1> DEFINE Step(h, s) == Multiplied(h, f, s)
           iter == CHOOSE h : h = [s \in SUBSET S |-> Step(h, s)]
<1>1. Product(f) = iter[S]
  BY DEF Product, FoldFunction, FoldFunctionOnSet, MapThenFoldSet, Member, Multiplied
<1>2. PICK h \in [SUBSET S -> Nat \ {0}] : \A s \in SUBSET S : h[s] = Step(h, s)
  BY ProductExists
<1>3. h = [s \in SUBSET S |-> Step(h, s)]
  <2> HIDE DEF Step
  <2> QED
    BY <1>2
<1>4. iter = [s \in SUBSET S |-> Step(iter, s)]
  <2> HIDE DEF Step
  <2> QED
    BY <1>3
<1> HIDE DEF iter
<1> DEFINE Divides(c, s) == \E q \in Nat \ {0} : iter[s] = f[c] * q
           X == {s \in SUBSET S : iter[s] \in Nat \ {0} /\ \A c \in s : Divides(c, s)}
<1>5. {} \in X
  BY <1>4 DEF Multiplied
<1>6. ASSUME NEW s \in SUBSET S, s # {}, s \ {Member(s)} \in X
      PROVE  s \in X
  <2> DEFINE x == Member(s)
             r == s \ {x}
  <2>1. x \in s /\ r \in SUBSET S
    BY <1>6 DEF Member
  <2>2. iter[s] = f[x] * iter[r]
    BY <1>4, <1>6 DEF Multiplied
  <2>3. f[x] \in Nat \ {0} /\ iter[r] \in Nat \ {0}
    BY <1>6, <2>1
  <2>4. \A c \in r : Divides(c, r)
    BY <1>6
  <2>5. s = r \cup {x}
    BY <2>1
  <2> HIDE DEF x, r
  <2>6. iter[s] \in Nat \ {0}
    BY <2>2, <2>3
  <2>7. ASSUME NEW c \in s
        PROVE  Divides(c, s)
    <3>1. CASE c = x
      BY <2>2, <2>3, <3>1
    <3>2. CASE c \in r
      <4>1. PICK q \in Nat \ {0} : iter[r] = f[c] * q
        BY <2>4, <3>2
      <4>2. f[c] \in Nat \ {0}
        OBVIOUS
      <4>3. iter[s] = f[c] * (f[x] * q) /\ f[x] * q \in Nat \ {0}
        BY <2>2, <2>3, <4>1, <4>2
      <4> QED
        BY <4>3
    <3> QED
      BY <2>5, <3>1, <3>2
  <2> QED
    BY <2>6, <2>7
<1> HIDE DEF X
<1>7. S \in X
  BY <1>5, <1>6, MemberInduction
<1> QED
  BY <1>1, <1>7 DEF X

-----------------------------------------------------------------------------
(* Paths and nodes. *)

\* The files below a node, or the node itself.
Leaves(n) ==
    {p \in Paths : IF n.isDir THEN n.path \in FolderPaths(p) ELSE n.path = p}

\* The child of the folder d that leads to the file p.
Towards(d, p) ==
    [path |-> SubSeq(p, 1, Len(d.path) + 1), isDir |-> Len(d.path) + 1 # Len(p)]

\* Paths are sequences of names, of length 1 at least.
LEMMA PathType == \A p \in Paths : p \in Seq(STRING) /\ Len(p) \in Nat \ {0}
<1>1. \A p \in Seq(STRING) : p # <<>> => Len(p) \in Nat \ {0}
  BY EmptySeq
<1> QED
  BY <1>1, PathsAssumption

\* A prefix of a path.
LEMMA PrefixType ==
    ASSUME NEW p \in Seq(STRING), NEW n \in 1 .. Len(p)
    PROVE  SubSeq(p, 1, n) \in Seq(STRING) /\ Len(SubSeq(p, 1, n)) = n
<1>1. \A i \in 1 .. n : p[i] \in STRING
  OBVIOUS
<1>2. n \in Int /\ 1 <= n /\ 1 \in Int
  OBVIOUS
<1> QED
  BY <1>1, <1>2, SubSeqProperties

\* A prefix of a prefix is a prefix.
LEMMA PrefixOfPrefix ==
    ASSUME NEW p \in Seq(STRING), NEW n \in 1 .. Len(p), NEW m \in 1 .. n
    PROVE  SubSeq(SubSeq(p, 1, n), 1, m) = SubSeq(p, 1, m)
<1>1. 1 \in 1 .. Len(p) /\ 1 \in 1 .. n - 1 + 1 /\ m \in 1 .. n - 1 + 1
  OBVIOUS
<1>2. SubSeq(SubSeq(p, 1, n), 1, m) = SubSeq(p, 1 + 1 - 1, 1 + m - 1)
  BY <1>1, SubSeqOfSubSeq
<1> QED
  BY <1>2

\* A folder of a path is a prefix of it that is shorter.
LEMMA FolderType ==
    ASSUME NEW p \in Paths, NEW q \in FolderPaths(p)
    PROVE  /\ q \in Seq(STRING) /\ Len(q) \in 1 .. Len(p) - 1
           /\ q = SubSeq(p, 1, Len(q))
<1>1. PICK n \in 1 .. Len(p) - 1 : q = SubSeq(p, 1, n)
  BY DEF FolderPaths
<1>2. n \in 1 .. Len(p)
  BY PathType
<1> QED
  BY <1>1, <1>2, PathType, PrefixType

\* A node is a file, or a folder above some file.
LEMMA NodeType ==
    ASSUME NEW n \in Nodes
    PROVE  /\ n = [path |-> n.path, isDir |-> n.isDir] /\ n.isDir \in BOOLEAN
           /\ n.path \in Seq(STRING) /\ Len(n.path) \in Nat \ {0}
           /\ n.isDir => \E p \in Paths : n.path \in FolderPaths(p)
           /\ ~n.isDir => n.path \in Paths
<1>1. CASE n \in FileNodes
  <2>1. n = [path |-> n.path, isDir |-> n.isDir] /\ n.isDir = FALSE /\ n.path \in Paths
    BY <1>1 DEF FileNodes
  <2> QED
    BY <2>1, PathType
<1>2. CASE n \in FolderNodes
  <2>1. n = [path |-> n.path, isDir |-> n.isDir] /\ n.isDir = TRUE
    BY <1>2 DEF FolderNodes
  <2>2. PICK p \in Paths : n.path \in FolderPaths(p)
    BY <1>2 DEF FolderNodes
  <2>3. n.path \in Seq(STRING) /\ Len(n.path) \in 1 .. Len(p) - 1
    BY <2>2, FolderType
  <2>4. Len(n.path) \in Nat \ {0}
    BY <2>3, PathType
  <2> QED
    BY <2>1, <2>2, <2>3, <2>4
<1> QED
  BY <1>1, <1>2 DEF Nodes

\* The path of a child is one name longer than that of its folder.
LEMMA ChildType ==
    ASSUME NEW d \in Nodes, NEW c \in Children(d)
    PROVE  /\ c \in Nodes /\ d.isDir
           /\ Len(c.path) = Len(d.path) + 1 /\ d.path = SubSeq(c.path, 1, Len(d.path))
<1>1. c \in Nodes /\ d = [path |-> SubSeq(c.path, 1, Len(c.path) - 1), isDir |-> TRUE]
  BY DEF Children, Parent
<1>2. d.path = SubSeq(c.path, 1, Len(c.path) - 1) /\ d.isDir
  BY <1>1
<1>3. c.path \in Seq(STRING) /\ Len(c.path) \in Nat \ {0} /\ Len(d.path) \in Nat \ {0}
  BY <1>1, NodeType
<1>4. Len(c.path) # 1
  <2>1. ASSUME Len(c.path) = 1
        PROVE  FALSE
    <3>1. d.path = SubSeq(c.path, 1, 0)
      BY <1>2, <2>1
    <3>2. d.path = <<>>
      BY <3>1, SubSeqEmpty
    <3> QED
      BY <1>3, <3>2
  <2> QED
    BY <2>1
<1>5. Len(c.path) - 1 \in 1 .. Len(c.path)
  <2> DEFINE k == Len(c.path)
  <2>1. k \in Nat \ {0} /\ k # 1
    BY <1>3, <1>4
  <2> HIDE DEF k
  <2>2. k - 1 \in 1 .. k
    BY <2>1
  <2> QED
    BY <2>2 DEF k
<1>6. Len(d.path) = Len(c.path) - 1
  BY <1>2, <1>3, <1>5, PrefixType
<1> QED
  BY <1>1, <1>2, <1>3, <1>6

\* The files below a folder are below its child that leads to them, and no other.
LEMMA TowardsChild ==
    ASSUME NEW d \in Nodes, d.isDir, NEW p \in Leaves(d)
    PROVE  Towards(d, p) \in Children(d)
<1> DEFINE k == Len(d.path)
           q == SubSeq(p, 1, k + 1)
<1>1. p \in Paths /\ d.path \in FolderPaths(p)
  BY DEF Leaves
<1>2. p \in Seq(STRING) /\ Len(p) \in Nat \ {0}
  BY <1>1, PathType
<1>3. k \in 1 .. Len(p) - 1 /\ d.path = SubSeq(p, 1, k)
  BY <1>1, FolderType
<1> HIDE DEF k
<1>4. k + 1 \in 1 .. Len(p) /\ k \in 1 .. k + 1 /\ k \in Nat
  BY <1>2, <1>3
<1>5. Len(q) = k + 1 /\ SubSeq(q, 1, k) = SubSeq(p, 1, k)
  BY <1>2, <1>4, PrefixType, PrefixOfPrefix
<1>6. [path |-> q, isDir |-> k + 1 # Len(p)] \in Nodes
  <2>1. CASE k + 1 = Len(p)
    <3>1. q = p
      BY <1>2, <2>1, SubSeqFull
    <3> QED
      BY <1>1, <2>1, <3>1 DEF Nodes, FileNodes
  <2>2. CASE k + 1 # Len(p)
    <3>1. k + 1 \in 1 .. Len(p) - 1
      BY <1>2, <1>3, <2>2
    <3>2. q \in FolderPaths(p)
      BY <3>1 DEF FolderPaths
    <3>3. q \in UNION {FolderPaths(r) : r \in Paths}
      BY <1>1, <3>2
    <3> QED
      BY <2>2, <3>3 DEF Nodes, FolderNodes
  <2> QED
    BY <2>1, <2>2
<1>7. SubSeq(q, 1, Len(q) - 1) = d.path
  <2>1. Len(q) - 1 = k
    BY <1>4, <1>5
  <2> QED
    BY <1>3, <1>5, <2>1
<1>8. d = [path |-> d.path, isDir |-> TRUE]
  BY NodeType
<1> HIDE DEF q
<1>9. d = Parent([path |-> q, isDir |-> k + 1 # Len(p)])
  BY <1>7, <1>8 DEF Parent
<1> QED
  BY <1>6, <1>9 DEF Children, Towards, q, k

\* A file below a child is below the folder, and leads to that child.
LEMMA LeavesOfChild ==
    ASSUME NEW d \in Nodes, NEW c \in Children(d), NEW p \in Leaves(c)
    PROVE  p \in Leaves(d) /\ c = Towards(d, p)
<1> DEFINE k == Len(d.path)
<1>1. /\ c \in Nodes /\ d.isDir /\ Len(c.path) = k + 1 /\ d.path = SubSeq(c.path, 1, k)
      /\ k \in Nat \ {0} /\ c.path \in Seq(STRING) /\ c.isDir \in BOOLEAN
      /\ c = [path |-> c.path, isDir |-> c.isDir]
  BY ChildType, NodeType
<1>2. p \in Paths /\ p \in Seq(STRING) /\ Len(p) \in Nat \ {0}
  BY PathType DEF Leaves
<1>3. CASE ~c.isDir
  <2>1. c.path = p
    BY <1>3 DEF Leaves
  <2>2. k \in 1 .. Len(p) - 1 /\ d.path \in FolderPaths(p)
    <3>1. Len(p) = k + 1 /\ d.path = SubSeq(p, 1, k) /\ k \in Nat \ {0}
      BY <1>1, <2>1
    <3> HIDE DEF k
    <3>2. k \in 1 .. Len(p) - 1
      BY <3>1
    <3> QED
      BY <3>1, <3>2 DEF FolderPaths
  <2>3. c.path = SubSeq(p, 1, k + 1)
    BY <1>1, <1>2, <2>1, SubSeqFull
  <2>4. k + 1 = Len(p)
    BY <1>1, <2>1
  <2> QED
    BY <1>1, <1>2, <1>3, <2>2, <2>3, <2>4 DEF Leaves, Towards
<1>4. CASE c.isDir
  <2>1. c.path \in FolderPaths(p)
    BY <1>4 DEF Leaves
  <2>2. k + 1 \in 1 .. Len(p) - 1 /\ c.path = SubSeq(p, 1, k + 1)
    BY <1>1, <1>2, <2>1, FolderType
  <2>3. k + 1 \in 1 .. Len(p) /\ k \in 1 .. k + 1 /\ k \in 1 .. Len(p) - 1 /\ k + 1 # Len(p)
    BY <1>1, <1>2, <2>2
  <2>4. d.path = SubSeq(p, 1, k)
    BY <1>1, <1>2, <2>2, <2>3, PrefixOfPrefix
  <2>5. d.path \in FolderPaths(p)
    BY <2>3, <2>4 DEF FolderPaths
  <2>6. c = [path |-> SubSeq(p, 1, k + 1), isDir |-> TRUE]
    BY <1>1, <1>4, <2>2
  <2> QED
    BY <1>1, <1>2, <2>3, <2>5, <2>6 DEF Leaves, Towards
<1> QED
  BY <1>1, <1>3, <1>4

\* There are files below every node, finitely many.
LEMMA LeavesFinite ==
    ASSUME NEW n \in Nodes
    PROVE  /\ IsFiniteSet(Leaves(n)) /\ Leaves(n) \in SUBSET Paths /\ Leaves(n) # {}
<1>1. Leaves(n) \in SUBSET Paths
  BY DEF Leaves
<1>2. Leaves(n) # {}
  BY NodeType DEF Leaves
<1> QED
  BY <1>1, <1>2, PathsAssumption, FS_Subset

\* The children of a folder part the files below it among them.
LEMMA ChildrenPart ==
    ASSUME NEW d \in Nodes, d.isDir
    PROVE  /\ IsFiniteSet(Children(d)) /\ Children(d) # {}
           /\ UNION {Leaves(c) : c \in Children(d)} = Leaves(d)
           /\ \A b \in Children(d), c \in Children(d) : b # c => Leaves(b) \cap Leaves(c) = {}
<1>1. \A p \in Leaves(d) : Towards(d, p) \in Children(d)
  BY TowardsChild
<1>2. \A c \in Children(d) : \A p \in Leaves(c) : p \in Leaves(d) /\ c = Towards(d, p)
  BY LeavesOfChild
<1>3. \A c \in Children(d) : Leaves(c) # {}
  BY ChildType, LeavesFinite
<1>4. \A p \in Leaves(d) : p \in Leaves(Towards(d, p))
  <2> SUFFICES ASSUME NEW p \in Leaves(d)
               PROVE  p \in Leaves(Towards(d, p))
    OBVIOUS
  <2> DEFINE k == Len(d.path)
  <2>1. p \in Paths /\ d.path \in FolderPaths(p)
    BY DEF Leaves
  <2>2. k \in 1 .. Len(p) - 1 /\ Len(p) \in Nat /\ p \in Seq(STRING)
    BY <2>1, FolderType, PathType
  <2> HIDE DEF k
  <2>3. CASE k + 1 = Len(p)
    <3>1. SubSeq(p, 1, k + 1) = p
      BY <2>2, <2>3, SubSeqFull
    <3> QED
      BY <2>1, <2>3, <3>1 DEF Leaves, Towards, k
  <2>4. CASE k + 1 # Len(p)
    <3>1. k + 1 \in 1 .. Len(p) - 1
      BY <2>2, <2>4
    <3>2. SubSeq(p, 1, k + 1) \in FolderPaths(p)
      BY <3>1 DEF FolderPaths
    <3> QED
      BY <2>1, <2>4, <3>2 DEF Leaves, Towards, k
  <2> QED
    BY <2>3, <2>4
<1>5. IsFiniteSet(Children(d))
  <2> DEFINE f == [p \in Leaves(d) |-> Towards(d, p)]
  <2>1. f \in Surjection(Leaves(d), Children(d))
    <3>1. f \in [Leaves(d) -> Children(d)]
      BY <1>1
    <3>2. \A c \in Children(d) : \E p \in Leaves(d) : f[p] = c
      BY <1>2, <1>3
    <3> HIDE DEF f
    <3> QED
      BY <3>1, <3>2 DEF Surjection
  <2> QED
    BY <2>1, LeavesFinite, FS_Surjection
<1>6. Children(d) # {}
  BY <1>1, LeavesFinite
<1>7. UNION {Leaves(c) : c \in Children(d)} = Leaves(d)
  <2>1. \A p \in Leaves(d) : \E c \in Children(d) : p \in Leaves(c)
    BY <1>1, <1>4
  <2> QED
    BY <1>2, <2>1
<1> QED
  BY <1>2, <1>5, <1>6, <1>7

-----------------------------------------------------------------------------
(* Averages. *)

\* A factor divides a product.
LEMMA Cancel ==
    ASSUME NEW a \in Nat \ {0}, NEW q \in Nat
    PROVE  (a * q) \div a = q
<1>1. a * q \in Nat
  OBVIOUS
<1> QED
  BY <1>1

\* The average of fractions up to 1 is one of them, and 1 only if all that weigh are.
LEMMA AverageOfFractions ==
    ASSUME NEW S, IsFiniteSet(S), NEW of,
           \A c \in S : /\ of[c].size \in Nat /\ of[c].whole \in Nat \ {0}
                        /\ of[c].parts \in 0 .. of[c].whole
    PROVE  LET average == Average(of, S)
           IN  /\ average.whole \in Nat \ {0} /\ average.parts \in 0 .. average.whole
               /\ average.parts = average.whole
                     <=> \A c \in S : of[c].size = 0 \/ of[c].parts = of[c].whole
<1> DEFINE wholes == [c \in S |-> of[c].whole]
           whole  == Product(wholes)
           parts  == [c \in S |-> of[c].size * of[c].parts * (whole \div of[c].whole)]
           sizes  == [c \in S |-> of[c].size]
           scaled == [c \in S |-> whole * sizes[c]]
<1>1. Average(of, S) = IF SumFunctionOnSet(sizes, S) = 0 THEN [parts |-> 1, whole |-> 1]
                       ELSE [parts |-> SumFunctionOnSet(parts, S),
                             whole |-> whole * SumFunctionOnSet(sizes, S)]
  BY DEF Average, SumFunction
<1>2. wholes \in [S -> Nat \ {0}]
  OBVIOUS
<1>3. whole \in Nat \ {0} /\ \A c \in S : \E q \in Nat \ {0} : whole = wholes[c] * q
  <2> HIDE DEF wholes
  <2> QED
    BY <1>2, ProductDivides
<1>4. \A c \in S : sizes[c] \in Nat /\ sizes[c] = of[c].size
  OBVIOUS
<1>5. /\ SumFunctionOnSet(sizes, S) \in Nat
      /\ SumFunctionOnSet(sizes, S) = 0 <=> \A c \in S : of[c].size = 0
  <2> HIDE DEF sizes
  <2> QED
    BY <1>4, SumSteps, SumZero
<1>6. ASSUME NEW c \in S
      PROVE  /\ parts[c] \in Nat /\ scaled[c] \in Nat /\ parts[c] <= scaled[c]
             /\ parts[c] = scaled[c] <=> of[c].size = 0 \/ of[c].parts = of[c].whole
  <2> DEFINE s == of[c].size
             a == of[c].whole
             p == of[c].parts
  <2>1. s \in Nat /\ a \in Nat \ {0} /\ p \in 0 .. a
    OBVIOUS
  <2>2. PICK q \in Nat \ {0} : whole = a * q
    BY <1>3
  <2>3. parts[c] = s * p * (whole \div a) /\ scaled[c] = whole * s
    OBVIOUS
  <2> HIDE DEF s, a, p, whole, parts, scaled
  <2>4. whole \div a = q
    BY <2>1, <2>2, Cancel
  <2>5. s * q \in Nat /\ (s * q = 0 <=> s = 0)
    BY <2>1
  <2>6. parts[c] = (s * q) * p /\ scaled[c] = (s * q) * a
    BY <2>1, <2>2, <2>3, <2>4
  <2> DEFINE k == s * q
  <2> HIDE DEF k
  <2>7. /\ k \in Nat /\ (k = 0 <=> s = 0)
        /\ parts[c] = k * p /\ scaled[c] = k * a /\ p \in 0 .. a /\ a \in Nat
    BY <2>1, <2>5, <2>6 DEF k
  <2>8. a - p \in Nat /\ a = p + (a - p)
    BY <2>7
  <2>9. k * a = k * p + k * (a - p) /\ k * (a - p) \in Nat /\ k * p \in Nat
    BY <2>7, <2>8
  <2>10. k * (a - p) = 0 <=> k = 0 \/ a - p = 0
    BY <2>7, <2>8
  <2>11. parts[c] \in Nat /\ scaled[c] \in Nat /\ parts[c] <= scaled[c]
    BY <2>7, <2>9
  <2>12. parts[c] = scaled[c] <=> s = 0 \/ p = a
    BY <2>7, <2>8, <2>9, <2>10
  <2> QED
    BY <2>11, <2>12 DEF s, p, a
<1>7. SumFunctionOnSet(scaled, S) = whole * SumFunctionOnSet(sizes, S)
  <2>1. \A c \in S : scaled[c] = whole * sizes[c]
    OBVIOUS
  <2> HIDE DEF scaled, sizes, whole
  <2> QED
    BY <1>3, <1>4, <2>1, SumScale
<1>8. /\ SumFunctionOnSet(parts, S) <= SumFunctionOnSet(scaled, S)
      /\ SumFunctionOnSet(parts, S) = SumFunctionOnSet(scaled, S)
            <=> \A c \in S : parts[c] = scaled[c]
      /\ SumFunctionOnSet(parts, S) \in Nat
  <2> HIDE DEF parts, scaled
  <2> QED
    BY <1>6, SumCompare, SumSteps
<1> DEFINE P == SumFunctionOnSet(parts, S)
           W == whole * SumFunctionOnSet(sizes, S)
<1>9. W \in Nat /\ (SumFunctionOnSet(sizes, S) # 0 => W # 0)
  <2> HIDE DEF whole, sizes
  <2> QED
    BY <1>3, <1>5
<1>10. P \in 0 .. W
  <2> HIDE DEF whole, sizes, parts, scaled
  <2>1. P <= W /\ P \in Nat /\ W \in Nat
    BY <1>7, <1>8, <1>9
  <2> HIDE DEF P, W
  <2> QED
    BY <2>1
<1>11. P = W <=> \A c \in S : of[c].size = 0 \/ of[c].parts = of[c].whole
  <2> HIDE DEF whole, sizes, parts, scaled
  <2> QED
    BY <1>6, <1>7, <1>8
<1>12. Average(of, S) = IF SumFunctionOnSet(sizes, S) = 0 THEN [parts |-> 1, whole |-> 1]
                        ELSE [parts |-> P, whole |-> W]
  BY <1>1
<1> HIDE DEF P, W, sizes
<1>13. CASE SumFunctionOnSet(sizes, S) = 0
  BY <1>5, <1>12, <1>13
<1>14. CASE SumFunctionOnSet(sizes, S) # 0
  BY <1>9, <1>10, <1>11, <1>12, <1>14
<1> QED
  BY <1>13, <1>14

\* If each fraction is done / (k * size), in whatever terms, then so is their average.
LEMMA AverageOfAverages ==
    ASSUME NEW S, IsFiniteSet(S), NEW of, NEW k \in Nat, NEW done, NEW sizes,
           \A c \in S : /\ of[c].size \in Nat /\ of[c].whole \in Nat \ {0}
                        /\ of[c].parts \in 0 .. of[c].whole
                        /\ done[c] \in Nat /\ sizes[c] = of[c].size
                        /\ of[c].parts * (k * of[c].size) = of[c].whole * done[c]
    PROVE  LET average == Average(of, S)
           IN  average.parts * (k * SumFunctionOnSet(sizes, S))
                   = average.whole * SumFunctionOnSet(done, S)
<1> DEFINE wholes == [c \in S |-> of[c].whole]
           whole  == Product(wholes)
           parts  == [c \in S |-> of[c].size * of[c].parts * (whole \div of[c].whole)]
           weight == [c \in S |-> of[c].size]
           common == [c \in S |-> whole * done[c]]
           P == SumFunctionOnSet(parts, S)
           Z == SumFunctionOnSet(sizes, S)
           D == SumFunctionOnSet(done, S)
<1>1. SumFunctionOnSet(weight, S) = Z
  <2>1. \A c \in S : sizes[c] \in Nat /\ weight[c] = sizes[c]
    OBVIOUS
  <2> HIDE DEF weight
  <2> QED
    BY <2>1, SumSame
<1>2. Average(of, S) = IF Z = 0 THEN [parts |-> 1, whole |-> 1]
                       ELSE [parts |-> P, whole |-> whole * Z]
  <2>1. Average(of, S) = IF SumFunctionOnSet(weight, S) = 0 THEN [parts |-> 1, whole |-> 1]
                         ELSE [parts |-> P, whole |-> whole * SumFunctionOnSet(weight, S)]
    BY DEF Average, SumFunction
  <2> HIDE DEF weight, P, Z, whole
  <2> QED
    BY <1>1, <2>1
<1>3. wholes \in [S -> Nat \ {0}]
  OBVIOUS
<1>4. whole \in Nat \ {0} /\ \A c \in S : \E q \in Nat \ {0} : whole = wholes[c] * q
  <2> HIDE DEF wholes
  <2> QED
    BY <1>3, ProductDivides
<1>5. ASSUME NEW c \in S
      PROVE  parts[c] \in Nat /\ common[c] = k * parts[c]
  <2> DEFINE s == of[c].size
             a == of[c].whole
             f == of[c].parts
             d == done[c]
  <2>1. /\ s \in Nat /\ a \in Nat \ {0} /\ f \in Nat /\ d \in Nat
        /\ f * (k * s) = a * d
    OBVIOUS
  <2>2. PICK q \in Nat \ {0} : whole = a * q
    BY <1>4
  <2>3. parts[c] = s * f * (whole \div a) /\ common[c] = whole * d
    OBVIOUS
  <2> HIDE DEF s, a, f, d, whole, parts, common
  <2>4. whole \div a = q
    BY <2>1, <2>2, Cancel
  <2>5. parts[c] = (s * f) * q /\ common[c] = (a * q) * d
    BY <2>2, <2>3, <2>4
  <2>6. (a * q) * d = (f * (k * s)) * q
    BY <2>1
  <2>7. (f * (k * s)) * q = k * ((s * f) * q) /\ (s * f) * q \in Nat
    BY <2>1
  <2> QED
    BY <2>5, <2>6, <2>7
<1>6. k * P = whole * D /\ P \in Nat /\ D \in Nat /\ Z \in Nat
  <2>1. \A c \in S : common[c] = whole * done[c]
    OBVIOUS
  <2>2. \A c \in S : done[c] \in Nat /\ sizes[c] \in Nat
    OBVIOUS
  <2> HIDE DEF parts, common, whole
  <2>3. SumFunctionOnSet(common, S) = k * P
    BY <1>5, SumScale
  <2>4. SumFunctionOnSet(common, S) = whole * D
    BY <1>4, <2>1, <2>2, SumScale
  <2> QED
    BY <1>5, <2>2, <2>3, <2>4, SumSteps
<1>7. CASE Z = 0
  <2>1. \A c \in S : sizes[c] \in Nat /\ done[c] \in Nat
    OBVIOUS
  <2>2. \A c \in S : sizes[c] = 0
    BY <1>7, <2>1, SumZero
  <2>3. ASSUME NEW c \in S
        PROVE  done[c] = 0
    <3> DEFINE a == of[c].whole
               f == of[c].parts
               d == done[c]
    <3>1. a \in Nat \ {0} /\ f \in Nat /\ d \in Nat /\ f * (k * 0) = a * d
      BY <2>2
    <3> HIDE DEF a, f, d
    <3>2. d = 0
      BY <3>1
    <3> QED
      BY <3>2 DEF d
  <2>4. D = 0
    BY <2>1, <2>3, SumZero
  <2> HIDE DEF P, Z, D, whole
  <2> QED
    BY <1>2, <1>7, <2>4 DEF Z, D
<1>8. CASE Z # 0
  <2> HIDE DEF P, Z, D, whole
  <2>1. Average(of, S).parts = P /\ Average(of, S).whole = whole * Z
    BY <1>2, <1>8
  <2>2. P * (k * Z) = (k * P) * Z /\ (whole * D) * Z = (whole * Z) * D
    BY <1>4, <1>6
  <2>3. P * (k * Z) = (whole * Z) * D
    BY <1>6, <2>2
  <2> QED
    BY <2>1, <2>3 DEF Z, D
<1> QED
  BY <1>7, <1>8

-----------------------------------------------------------------------------
(* The recursive functions. *)

\* No path is longer than all of them together.
LEMMA DepthBound == \E bound \in Nat : \A n \in Nodes : Len(n.path) <= bound
<1> DEFINE w == [p \in Paths |-> Len(p)]
           sum == SumFunctionOnSet(w, Paths)
<1>1. \A p \in Paths : w[p] = Len(p) /\ w[p] \in Nat
  BY PathType
<1> HIDE DEF w
<1>2. sum \in Nat
  BY <1>1, PathsAssumption, SumSteps
<1>3. ASSUME NEW p \in Paths
      PROVE  Len(p) <= sum
  <2>1. sum = w[p] + SumFunctionOnSet(w, Paths \ {p})
    BY <1>1, PathsAssumption, SumSteps
  <2>2. IsFiniteSet(Paths \ {p})
    BY PathsAssumption, FS_Subset
  <2>3. SumFunctionOnSet(w, Paths \ {p}) \in Nat
    BY <1>1, <2>2, SumSteps
  <2> HIDE DEF sum
  <2> QED
    BY <1>1, <2>1, <2>3
<1> HIDE DEF sum
<1>4. ASSUME NEW n \in Nodes
      PROVE  Len(n.path) <= sum
  <2>1. CASE n.isDir
    <3>1. PICK p \in Paths : n.path \in FolderPaths(p)
      BY <2>1, NodeType
    <3>2. Len(n.path) \in 1 .. Len(p) - 1 /\ Len(p) \in Nat
      BY <3>1, FolderType, PathType
    <3>3. Len(p) <= sum
      BY <1>3
    <3> QED
      BY <1>2, <3>2, <3>3
  <2>2. CASE ~n.isDir
    BY <1>3, <2>2, NodeType
  <2> QED
    BY <2>1, <2>2
<1> QED
  BY <1>2, <1>4

\* The nodes of which only k levels can be below.
Upper(bound, k) == {n \in Nodes : bound <= Len(n.path) + k}

\* The children of a node have one level less below them.
LEMMA UpperChildren ==
    ASSUME NEW bound \in Nat, \A n \in Nodes : Len(n.path) <= bound
    PROVE  /\ Upper(bound, bound) = Nodes
           /\ \A n \in Upper(bound, 0) : Children(n) = {}
           /\ \A k \in Nat : /\ Upper(bound, k) \subseteq Upper(bound, k + 1)
                             /\ \A n \in Upper(bound, k) : Children(n) \subseteq Upper(bound, k)
                             /\ \A n \in Upper(bound, k + 1) :
                                   Children(n) \subseteq Upper(bound, k)
<1>1. \A n \in Nodes : Len(n.path) \in Nat
  BY NodeType
<1>2. \A n \in Nodes : \A c \in Children(n) : c \in Nodes /\ Len(c.path) = Len(n.path) + 1
  BY ChildType
<1>3. Upper(bound, bound) = Nodes
  BY <1>1 DEF Upper
<1>4. \A n \in Upper(bound, 0) : Children(n) = {}
  <2> SUFFICES ASSUME NEW n \in Upper(bound, 0), NEW c \in Children(n)
               PROVE  FALSE
    OBVIOUS
  <2>1. n \in Nodes /\ bound <= Len(n.path) + 0 /\ Len(n.path) \in Nat
    BY <1>1 DEF Upper
  <2>2. Len(c.path) = Len(n.path) + 1 /\ Len(c.path) <= bound
    BY <1>2, <2>1
  <2> QED
    BY <2>1, <2>2
<1>5. ASSUME NEW k \in Nat, NEW n \in Nodes, NEW c \in Children(n),
             bound <= Len(n.path) + (k + 1)
      PROVE  c \in Upper(bound, k)
  <2>1. Len(n.path) \in Nat /\ Len(c.path) = Len(n.path) + 1 /\ c \in Nodes
    BY <1>1, <1>2
  <2> DEFINE a == Len(n.path)
             b == Len(c.path)
  <2>2. a \in Nat /\ b = a + 1 /\ bound <= a + (k + 1)
    BY <1>5, <2>1
  <2> HIDE DEF a, b
  <2>3. bound <= b + k
    BY <2>2
  <2> QED
    BY <2>1, <2>3 DEF Upper, b
<1>6. ASSUME NEW k \in Nat
      PROVE  /\ Upper(bound, k) \subseteq Upper(bound, k + 1)
             /\ \A n \in Upper(bound, k) : Children(n) \subseteq Upper(bound, k)
             /\ \A n \in Upper(bound, k + 1) : Children(n) \subseteq Upper(bound, k)
  <2>1. ASSUME NEW n \in Nodes, bound <= Len(n.path) + k
        PROVE  bound <= Len(n.path) + (k + 1)
    <3> DEFINE a == Len(n.path)
    <3>1. a \in Nat /\ bound <= a + k
      BY <1>1, <2>1
    <3> HIDE DEF a
    <3>2. bound <= a + (k + 1)
      BY <3>1
    <3> QED
      BY <3>2 DEF a
  <2>2. \A n \in Upper(bound, k) : n \in Nodes /\ bound <= Len(n.path) + k
    BY DEF Upper
  <2>3. \A n \in Upper(bound, k + 1) : n \in Nodes /\ bound <= Len(n.path) + (k + 1)
    BY DEF Upper
  <2>4. Upper(bound, k) \subseteq Upper(bound, k + 1)
    BY <2>1 DEF Upper
  <2>5. \A n \in Upper(bound, k) : Children(n) \subseteq Upper(bound, k)
    BY <1>5, <2>1, <2>2
  <2>6. \A n \in Upper(bound, k + 1) : Children(n) \subseteq Upper(bound, k)
    BY <1>5, <2>3
  <2> QED
    BY <2>4, <2>5, <2>6
<1> QED
  BY <1>3, <1>4, <1>6

\* Induction from the leaves up.
LEMMA TreeInduction ==
    ASSUME NEW X, \A n \in Nodes : Children(n) \subseteq X => n \in X
    PROVE  \A n \in Nodes : n \in X
<1>1. PICK bound \in Nat : \A n \in Nodes : Len(n.path) <= bound
  BY DepthBound
<1> DEFINE N == {k \in Nat : Upper(bound, k) \subseteq X}
<1>2. \A k \in Nat : Upper(bound, k) \subseteq Nodes
  BY DEF Upper
<1>3. 0 \in N
  BY <1>1, <1>2, UpperChildren
<1>4. ASSUME NEW k \in Nat, k \in N
      PROVE  k + 1 \in N
  <2>1. \A n \in Upper(bound, k + 1) : n \in Nodes /\ Children(n) \subseteq X
    BY <1>1, <1>2, <1>4, UpperChildren
  <2> QED
    BY <2>1
<1> HIDE DEF N
<1>5. bound \in N
  BY <1>3, <1>4, Induction
<1> QED
  BY <1>1, <1>5, UpperChildren DEF N

\* recalculateContentNode, for one node.
Recalculated(fs, n, t) ==
    IF n.isDir THEN Folder([c \in Children(n) |-> t[c]])
               ELSE Leaf(fs[n.path], Size[n.path])

\* Only the totals of the children count.
LEMMA RecalculatedSame ==
    ASSUME NEW fs, NEW n, NEW s, NEW t, \A c \in Children(n) : s[c] = t[c]
    PROVE  Recalculated(fs, n, s) = Recalculated(fs, n, t)
<1>1. [c \in Children(n) |-> s[c]] = [c \in Children(n) |-> t[c]]
  OBVIOUS
<1> QED
  BY <1>1 DEF Recalculated

\* The recursive function exists, and is what its definition says.
LEMMA TotalsEquation ==
    ASSUME NEW fs
    PROVE  \A n \in Nodes : Totals(fs)[n] = Recalculated(fs, n, Totals(fs))
<1> DEFINE totals == CHOOSE t : t = [n \in Nodes |-> Recalculated(fs, n, t)]
<1>1. Totals(fs) = totals
  BY DEF Totals, Recalculated
<1>2. PICK bound \in Nat : \A n \in Nodes : Len(n.path) <= bound
  BY DepthBound
<1> DEFINE Upto(t, k) == \A n \in Upper(bound, k) : t[n] = Recalculated(fs, n, t)
           N == {k \in Nat : \E t : Upto(t, k)}
<1>3. ASSUME NEW k \in Nat, NEW t, NEW A,
             \A n \in A : n \in Nodes /\ Children(n) \subseteq Upper(bound, k),
             \A n \in Upper(bound, k) : t[n] = Recalculated(fs, n, t)
      PROVE  \E g : \A n \in A : g[n] = Recalculated(fs, n, g)
  <2> DEFINE g == [n \in Nodes |-> IF n \in Upper(bound, k) THEN t[n]
                                   ELSE Recalculated(fs, n, t)]
  <2>1. \A n \in Upper(bound, k) : n \in Nodes /\ g[n] = t[n]
    BY DEF Upper
  <2>2. \A n \in Nodes : g[n] = Recalculated(fs, n, t)
    BY <1>3
  <2> HIDE DEF g
  <2>3. ASSUME NEW n \in A
        PROVE  g[n] = Recalculated(fs, n, g)
    <3>1. \A c \in Children(n) : g[c] = t[c]
      BY <1>3, <2>1
    <3> QED
      BY <1>3, <2>2, <3>1, RecalculatedSame
  <2> QED
    BY <2>3
<1>4. 0 \in N
  <2> DEFINE g == [n \in Nodes |-> Recalculated(fs, n, fs)]
  <2>1. \A n \in Upper(bound, 0) : n \in Nodes /\ Children(n) = {}
    BY <1>2, UpperChildren DEF Upper
  <2>2. \A n \in Upper(bound, 0) : g[n] = Recalculated(fs, n, fs)
    BY <2>1
  <2> HIDE DEF g
  <2>3. Upto(g, 0)
    BY <2>1, <2>2, RecalculatedSame
  <2> HIDE DEF Upto
  <2> QED
    BY <2>3
<1>5. ASSUME NEW k \in Nat, k \in N
      PROVE  k + 1 \in N
  <2>1. PICK t : Upto(t, k)
    BY <1>5
  <2>2. \A n \in Upper(bound, k + 1) : n \in Nodes /\ Children(n) \subseteq Upper(bound, k)
    BY <1>2, UpperChildren DEF Upper
  <2>3. \E g : Upto(g, k + 1)
    BY <1>3, <2>1, <2>2
  <2> HIDE DEF Upto
  <2> QED
    BY <2>3
<1> HIDE DEF N
<1>6. bound \in N
  BY <1>4, <1>5, Induction
<1>7. PICK t : Upto(t, bound)
  BY <1>6 DEF N
<1>8. Upper(bound, bound) = Nodes /\ \A n \in Nodes : Children(n) \subseteq Nodes
  BY <1>2, UpperChildren DEF Children
<1> DEFINE f == [n \in Nodes |-> t[n]]
<1>9. f = [n \in Nodes |-> Recalculated(fs, n, f)]
  <2>1. \A n \in Nodes : f[n] = t[n]
    OBVIOUS
  <2>2. \A n \in Nodes : t[n] = Recalculated(fs, n, t)
    BY <1>7, <1>8
  <2>3. \A n \in Nodes : t[n] = Recalculated(fs, n, f)
    <3> HIDE DEF f
    <3> QED
      BY <1>8, <2>1, <2>2, RecalculatedSame
  <2> QED
    BY <2>3
<1> HIDE DEF f
<1>10. totals = [n \in Nodes |-> Recalculated(fs, n, totals)]
  BY <1>9
<1> HIDE DEF totals
<1> QED
  BY <1>1, <1>10

-----------------------------------------------------------------------------
(* A folder agrees with its files. *)

\* The files below n that are downloaded.
ActiveLeaves(fs, n) == {p \in Leaves(n) : fs[p].priority # Ignored}

\* What remains of each file, and the bytes of it that are there, times Whole.
Left(fs) == [p \in Paths |-> Remaining(fs[p], Size[p])]
Done(fs) == [p \in Paths |-> Size[p] * fs[p].progress]

\* No folder inside n mixes files that are downloaded with others.
Unmixed(fs, n) ==
    \A e \in FolderNodes : IsWithin(e, n) /\ e # n =>
        ActiveLeaves(fs, e) = {} \/ ActiveLeaves(fs, e) = Leaves(e)

\* The files below n that are downloaded are complete, or empty.
AllThere(fs, n) == \A p \in ActiveLeaves(fs, n) : Size[p] = 0 \/ fs[p].progress = Whole

\* The totals t of n give the progress of the files below that are downloaded.
Exact(fs, n, t) ==
    t.parts * (Whole * SumFunctionOnSet(Size, ActiveLeaves(fs, n)))
        = t.whole * SumFunctionOnSet(Done(fs), ActiveLeaves(fs, n))

\* What the totals t of n say of the files below. A file that is not downloaded has its
\* progress all the same, and an empty one may be incomplete with nothing missing.
Agrees(fs, n, t) ==
    /\ t.size = SumFunctionOnSet(Size, Leaves(n))
    /\ t.whole \in Nat \ {0} /\ t.parts \in 0 .. t.whole
    /\ n.isDir \/ t.priority # Ignored =>
          /\ t.remaining = SumFunctionOnSet(Left(fs), ActiveLeaves(fs, n))
          /\ n.isDir \/ t.size # 0 => (t.parts = t.whole <=> AllThere(fs, n))
          /\ Unmixed(fs, n) => Exact(fs, n, t)
    /\ \A k \in Priorities : t.priority = k <=> \A p \in Leaves(n) : fs[p].priority = k

\* Files may be empty.
LEMMA SizeType == \A p \in Paths : Size[p] \in Nat
BY SizeAssumption

\* A file has a progress, from which the rest follows, and a priority.
LEMMA FileFields ==
    ASSUME NEW fs \in [Paths -> File], NEW p \in Paths
    PROVE  /\ fs[p].progress \in 0 .. Whole /\ fs[p].priority \in Priorities
           /\ Left(fs)[p] = Remaining(fs[p], Size[p]) /\ Left(fs)[p] \in Nat
           /\ Done(fs)[p] = Size[p] * fs[p].progress /\ Done(fs)[p] \in Nat
<1>1. fs[p].progress \in 0 .. Whole /\ fs[p].priority \in Priorities
  BY DEF File
<1>2. Size[p] \in Nat /\ Whole \in Nat \ {0}
  BY SizeType, WholeAssumption
<1>3. Left(fs)[p] = (Size[p] * (Whole - fs[p].progress)) \div Whole
  BY DEF Left, Remaining
<1>4. Done(fs)[p] = Size[p] * fs[p].progress
  BY DEF Done
<1> DEFINE a == Size[p]
           f == fs[p].progress
<1>5. a \in Nat /\ f \in 0 .. Whole
  BY <1>1, <1>2
<1> HIDE DEF a, f
<1>6. Whole - f \in Nat /\ f \in Nat
  BY <1>2, <1>5
<1>7. a * (Whole - f) \in Nat /\ a * f \in Nat
  BY <1>5, <1>6
<1>8. (a * (Whole - f)) \div Whole \in Nat
  <2> DEFINE x == a * (Whole - f)
  <2>1. x \in Nat
    BY <1>7
  <2> HIDE DEF x
  <2>2. x \div Whole \in Nat
    BY <1>2, <2>1
  <2> QED
    BY <2>2 DEF x
<1> QED
  BY <1>1, <1>3, <1>4, <1>7, <1>8 DEF a, f, Left, Remaining

\* A sum over one file, and over none.
LEMMA SumOfOne ==
    ASSUME NEW p \in Paths, NEW w, \A q \in Paths : w[q] \in Nat
    PROVE  SumFunctionOnSet(w, {p}) = w[p]
<1>1. IsFiniteSet({p}) /\ \A c \in {p} : w[c] \in Nat
  BY FS_Singleton
<1>2. SumFunctionOnSet(w, {}) = 0
  BY <1>1, SumSteps
<1>3. SumFunctionOnSet(w, {p}) = w[p] + SumFunctionOnSet(w, {p} \ {p})
  BY <1>1, SumSteps
<1>4. {p} \ {p} = {} /\ w[p] \in Nat
  OBVIOUS
<1> QED
  BY <1>2, <1>3, <1>4

\* A file agrees with itself.
LEMMA LeafAgrees ==
    ASSUME NEW fs \in [Paths -> File], NEW n \in Nodes, ~n.isDir
    PROVE  Agrees(fs, n, Leaf(fs[n.path], Size[n.path]))
<1> DEFINE p == n.path
           t == Leaf(fs[p], Size[p])
<1>1. p \in Paths /\ Leaves(n) = {p}
  BY NodeType DEF Leaves
<1>2. /\ Size[p] \in Nat /\ fs[p].progress \in 0 .. Whole /\ fs[p].priority \in Priorities
      /\ Left(fs)[p] = Remaining(fs[p], Size[p]) /\ Done(fs)[p] = Size[p] * fs[p].progress
      /\ Whole \in Nat \ {0}
  BY <1>1, SizeType, FileFields, WholeAssumption
<1>3. /\ t.size = Size[p] /\ t.remaining = Remaining(fs[p], Size[p])
      /\ t.priority = fs[p].priority /\ t.parts = fs[p].progress /\ t.whole = Whole
  BY DEF Leaf
<1> HIDE DEF t
<1>4. t.priority # Ignored => ActiveLeaves(fs, n) = {p}
  BY <1>1, <1>3 DEF ActiveLeaves
<1> HIDE DEF p
<1>5. /\ SumFunctionOnSet(Size, {p}) = Size[p] /\ SumFunctionOnSet(Left(fs), {p}) = Left(fs)[p]
      /\ SumFunctionOnSet(Done(fs), {p}) = Done(fs)[p]
  <2>1. \A q \in Paths : Left(fs)[q] \in Nat /\ Done(fs)[q] \in Nat /\ Size[q] \in Nat
    BY FileFields, SizeType
  <2> QED
    BY <1>1, <2>1, SumOfOne
<1>6. t.size = SumFunctionOnSet(Size, Leaves(n))
  BY <1>1, <1>3, <1>5
<1>7. t.whole \in Nat \ {0} /\ t.parts \in 0 .. t.whole
  BY <1>2, <1>3
<1>8. ASSUME t.priority # Ignored
      PROVE  /\ t.remaining = SumFunctionOnSet(Left(fs), ActiveLeaves(fs, n))
             /\ t.size # 0 => (t.parts = t.whole <=> AllThere(fs, n))
             /\ Exact(fs, n, t)
  <2>1. ActiveLeaves(fs, n) = {p}
    BY <1>4, <1>8
  <2>2. t.size # 0 => (t.parts = t.whole <=> AllThere(fs, n))
    BY <1>3, <2>1 DEF AllThere
  <2>3. Exact(fs, n, t)
    <3> DEFINE a == Size[p]
               f == fs[p].progress
    <3>1. a \in Nat /\ f \in Nat
      BY <1>2
    <3>2. /\ t.parts = f /\ t.whole = Whole /\ SumFunctionOnSet(Size, ActiveLeaves(fs, n)) = a
          /\ SumFunctionOnSet(Done(fs), ActiveLeaves(fs, n)) = a * f
      BY <1>2, <1>3, <1>5, <2>1
    <3> HIDE DEF a, f
    <3>3. f * (Whole * a) = Whole * (a * f)
      BY <1>2, <3>1
    <3> QED
      BY <3>2, <3>3 DEF Exact
  <2> QED
    BY <1>2, <1>3, <1>5, <2>1, <2>2, <2>3
<1>9. \A k \in Priorities : t.priority = k <=> \A q \in Leaves(n) : fs[q].priority = k
  BY <1>1, <1>3
<1> QED
  BY <1>6, <1>7, <1>8, <1>9 DEF Agrees, t, p

\* A sum over the children of sums over files below them.
LEMMA SumBelow ==
    ASSUME NEW d \in Nodes, d.isDir, NEW C \in SUBSET Children(d),
           NEW F, \A c \in C : F[c] \subseteq Leaves(c), DOMAIN F = C,
           NEW w, \A p \in Paths : w[p] \in Nat,
           NEW v, \A c \in C : v[c] = SumFunctionOnSet(w, F[c])
    PROVE  SumFunctionOnSet(v, C) = SumFunctionOnSet(w, UNION {F[c] : c \in C})
<1>1. IsFiniteSet(C)
  BY ChildrenPart, FS_Subset
<1>2. \A b \in C, c \in C : b # c => F[b] \cap F[c] = {}
  BY ChildrenPart
<1>3. \A c \in C : F[c] \in SUBSET Paths
  BY DEF Leaves
<1> DEFINE G == [c \in C |-> F[c]]
<1>4. G \in [C -> SUBSET Paths] /\ \A c \in C : G[c] = F[c]
  BY <1>3
<1> HIDE DEF G
<1>5. {G[c] : c \in C} = {F[c] : c \in C}
  BY <1>4
<1>6. \A b \in C, c \in C : b # c => G[b] \cap G[c] = {}
  BY <1>2, <1>4
<1>7. \A c \in C : v[c] = SumFunctionOnSet(w, G[c])
  BY <1>4
<1>8. IsFiniteSet(Paths)
  BY PathsAssumption
<1>9. SumFunctionOnSet(v, C) = SumFunctionOnSet(w, UNION {G[c] : c \in C})
  BY <1>1, <1>4, <1>6, <1>7, <1>8, SumFamily
<1> QED
  BY <1>5, <1>9

\* What is within a child is within the folder, and so is the child itself.
LEMMA UnmixedChild ==
    ASSUME NEW fs, NEW d \in Nodes, d.isDir, NEW c \in Children(d), Unmixed(fs, d)
    PROVE  /\ Unmixed(fs, c)
           /\ c.isDir => ActiveLeaves(fs, c) = {} \/ ActiveLeaves(fs, c) = Leaves(c)
<1> DEFINE k == Len(d.path)
<1>1. /\ c \in Nodes /\ Len(c.path) = k + 1 /\ d.path = SubSeq(c.path, 1, k)
      /\ k \in Nat \ {0} /\ c.path \in Seq(STRING)
      /\ c = [path |-> c.path, isDir |-> c.isDir]
  BY ChildType, NodeType
<1>2. c.path # d.path /\ d.path \in FolderPaths(c.path)
  <2>1. k \in 1 .. Len(c.path) - 1 /\ k + 1 # k
    <3> HIDE DEF k
    <3> QED
      BY <1>1
  <2> QED
    BY <1>1, <2>1 DEF FolderPaths
<1>3. ASSUME NEW e \in FolderNodes, IsWithin(e, c)
      PROVE  IsWithin(e, d) /\ e # d
  <2>1. CASE e = c
    BY <1>2, <2>1 DEF IsWithin
  <2>2. CASE c.path \in FolderPaths(e.path)
    <3>1. e \in Nodes /\ e.path \in Seq(STRING)
      BY NodeType DEF Nodes
    <3>2. PICK j \in 1 .. Len(e.path) - 1 : c.path = SubSeq(e.path, 1, j)
      BY <2>2 DEF FolderPaths
    <3>3. Len(e.path) \in Nat
      BY <3>1
    <3>4. j \in 1 .. Len(e.path)
      BY <3>2, <3>3
    <3>5. j = k + 1
      BY <1>1, <3>1, <3>2, <3>4, PrefixType
    <3> HIDE DEF k
    <3>6. k \in 1 .. j /\ k \in 1 .. Len(e.path) - 1 /\ k # Len(e.path)
      BY <1>1, <3>2, <3>3, <3>5
    <3>7. d.path = SubSeq(e.path, 1, k)
      BY <1>1, <3>1, <3>2, <3>4, <3>6, PrefixOfPrefix
    <3>8. d.path \in FolderPaths(e.path)
      BY <3>6, <3>7 DEF FolderPaths
    <3> QED
      BY <3>6, <3>8 DEF IsWithin, k
  <2> QED
    BY <1>3, <2>1, <2>2 DEF IsWithin
<1>4. c.isDir => c \in FolderNodes
  BY <1>1 DEF Nodes, FileNodes
<1>5. IsWithin(c, c)
  BY DEF IsWithin
<1>6. Unmixed(fs, c)
  BY <1>3 DEF Unmixed
<1> QED
  BY <1>3, <1>4, <1>5, <1>6 DEF Unmixed

\* The totals t of its children give a folder totals that agree with its files.
LEMMA FolderAgrees ==
    ASSUME NEW fs \in [Paths -> File], NEW d \in Nodes, d.isDir,
           NEW t, \A c \in Children(d) : Agrees(fs, c, t[c])
    PROVE  Agrees(fs, d, Folder([c \in Children(d) |-> t[c]]))
<1> DEFINE C       == Children(d)
           of      == [c \in C |-> t[c]]
           counted == {c \in C : of[c].priority # Ignored}
           sizes   == [c \in C |-> of[c].size]
           lefts   == [c \in counted |-> of[c].remaining]
           average == Average(of, counted)
           total   == Folder(of)
           F       == [c \in counted |-> ActiveLeaves(fs, c)]
<1>1. /\ total.size = SumFunctionOnSet(sizes, C)
      /\ total.remaining = SumFunctionOnSet(lefts, counted)
      /\ total.priority = CommonPriority(of)
      /\ total.parts = average.parts /\ total.whole = average.whole
  BY DEF Folder, Combine, SumFunction
<1>2. DOMAIN of = C /\ \A c \in C : of[c] = t[c] /\ Agrees(fs, c, of[c])
  OBVIOUS
<1> HIDE DEF of
<1>3. /\ counted \in SUBSET C /\ \A c \in C : c \in counted <=> of[c].priority # Ignored
      /\ \A c \in C : sizes[c] = of[c].size
      /\ \A c \in counted : lefts[c] = of[c].remaining
      /\ DOMAIN F = counted /\ \A c \in counted : F[c] = ActiveLeaves(fs, c)
  OBVIOUS
<1>4. /\ IsFiniteSet(C) /\ C # {} /\ UNION {Leaves(c) : c \in C} = Leaves(d)
      /\ \A c \in C : c \in Nodes /\ IsFiniteSet(Leaves(c)) /\ Leaves(c) \in SUBSET Paths
  BY ChildrenPart, ChildType, LeavesFinite
<1>5. IsFiniteSet(counted)
  BY <1>3, <1>4, FS_Subset
<1>6. \A p \in Paths : Size[p] \in Nat /\ Left(fs)[p] \in Nat /\ Done(fs)[p] \in Nat
  BY SizeType, FileFields
<1> HIDE DEF C, sizes, lefts, total, F
\* The size.
<1>7. total.size = SumFunctionOnSet(Size, Leaves(d))
  <2> DEFINE G == [c \in C |-> Leaves(c)]
  <2>1. DOMAIN G = C /\ \A c \in C : G[c] = Leaves(c)
    OBVIOUS
  <2> HIDE DEF G
  <2>2. {G[c] : c \in C} = {Leaves(c) : c \in C}
    BY <2>1
  <2>3. \A c \in C : sizes[c] = SumFunctionOnSet(Size, G[c])
    BY <1>2, <1>3, <2>1 DEF Agrees
  <2>4. C \in SUBSET Children(d) /\ \A c \in C : G[c] \subseteq Leaves(c)
    BY <2>1 DEF C
  <2>5. SumFunctionOnSet(sizes, C) = SumFunctionOnSet(Size, UNION {G[c] : c \in C})
    BY <1>6, <2>1, <2>3, <2>4, SumBelow
  <2> QED
    BY <1>1, <1>4, <2>2, <2>5
\* The files that are downloaded are below the children that count.
<1>8. /\ UNION {F[c] : c \in counted} = ActiveLeaves(fs, d)
      /\ \A c \in counted : F[c] \subseteq Leaves(c)
      /\ counted \in SUBSET Children(d)
  <2>1. ASSUME NEW c \in counted, NEW p \in F[c]
        PROVE  p \in ActiveLeaves(fs, d)
    BY <1>3, <1>4 DEF ActiveLeaves
  <2>2. ASSUME NEW p \in ActiveLeaves(fs, d)
        PROVE  \E c \in counted : p \in F[c]
    <3>1. p \in Leaves(d) /\ fs[p].priority # Ignored
      BY DEF ActiveLeaves
    <3>2. PICK c \in C : p \in Leaves(c)
      BY <1>4, <3>1
    <3>3. Ignored \in Priorities
      BY DEF Priorities
    <3>4. of[c].priority # Ignored
      BY <1>2, <3>1, <3>2, <3>3 DEF Agrees
    <3> QED
      BY <1>3, <3>1, <3>2, <3>4 DEF ActiveLeaves
  <2>3. \A c \in counted : F[c] \subseteq Leaves(c)
    BY <1>3 DEF ActiveLeaves
  <2> QED
    BY <1>3, <2>1, <2>2, <2>3 DEF C
\* What remains.
<1>9. total.remaining = SumFunctionOnSet(Left(fs), ActiveLeaves(fs, d))
  <2>1. \A c \in counted : lefts[c] = SumFunctionOnSet(Left(fs), F[c])
    BY <1>2, <1>3 DEF Agrees
  <2> HIDE DEF counted
  <2>2. SumFunctionOnSet(lefts, counted)
            = SumFunctionOnSet(Left(fs), UNION {F[c] : c \in counted})
    BY <1>3, <1>6, <1>8, <2>1, SumBelow
  <2> QED
    BY <1>1, <1>8, <2>2
\* The progress.
<1>10. \A c \in C : /\ of[c].size \in Nat
                    /\ of[c].whole \in Nat \ {0} /\ of[c].parts \in 0 .. of[c].whole
  <2>1. ASSUME NEW c \in C
        PROVE  SumFunctionOnSet(Size, Leaves(c)) \in Nat
    <3>1. IsFiniteSet(Leaves(c)) /\ \A p \in Leaves(c) : Size[p] \in Nat
      BY <1>4, <1>6
    <3> QED
      BY <3>1, SumSteps
  <2> QED
    BY <1>2, <2>1 DEF Agrees
<1>11. \A c \in counted : of[c].size = 0 \/ of[c].parts = of[c].whole <=> AllThere(fs, c)
  <2> SUFFICES ASSUME NEW c \in counted
               PROVE  of[c].size = 0 \/ of[c].parts = of[c].whole <=> AllThere(fs, c)
    OBVIOUS
  <2>1. c \in C /\ of[c].priority # Ignored /\ Agrees(fs, c, of[c])
    BY <1>2, <1>3
  <2>2. CASE of[c].size = 0
    <3>1. SumFunctionOnSet(Size, Leaves(c)) = 0
      BY <2>1, <2>2 DEF Agrees
    <3>2. IsFiniteSet(Leaves(c)) /\ \A p \in Leaves(c) : Size[p] \in Nat
      BY <1>4, <1>6, <2>1
    <3>3. \A p \in Leaves(c) : Size[p] = 0
      BY <3>1, <3>2, SumZero
    <3>4. AllThere(fs, c)
      BY <3>3 DEF AllThere, ActiveLeaves
    <3> QED
      BY <2>2, <3>4
  <2>3. CASE of[c].size # 0
    <3>1. of[c].parts = of[c].whole <=> AllThere(fs, c)
      BY <2>1, <2>3 DEF Agrees
    <3> QED
      BY <2>3, <3>1
  <2> QED
    BY <2>2, <2>3
<1>12. /\ total.whole \in Nat \ {0} /\ total.parts \in 0 .. total.whole
       /\ total.parts = total.whole <=> AllThere(fs, d)
  <2>1. \A c \in counted : /\ of[c].size \in Nat /\ of[c].whole \in Nat \ {0}
                           /\ of[c].parts \in 0 .. of[c].whole
    BY <1>3, <1>10
  <2> HIDE DEF counted
  <2>2. /\ average.whole \in Nat \ {0} /\ average.parts \in 0 .. average.whole
        /\ average.parts = average.whole
              <=> \A c \in counted : of[c].size = 0 \/ of[c].parts = of[c].whole
    BY <1>5, <2>1, AverageOfFractions
  <2> HIDE DEF average
  <2>3. (\A c \in counted : AllThere(fs, c)) <=> AllThere(fs, d)
    <3>1. \A p : p \in ActiveLeaves(fs, d) <=> \E c \in counted : p \in ActiveLeaves(fs, c)
      BY <1>3, <1>8
    <3> QED
      BY <3>1 DEF AllThere
  <2> QED
    BY <1>1, <1>11, <2>2, <2>3
<1>13. Unmixed(fs, d) => Exact(fs, d, total)
  <2> SUFFICES ASSUME Unmixed(fs, d)
               PROVE  Exact(fs, d, total)
    OBVIOUS
  <2> DEFINE done == [c \in counted |-> SumFunctionOnSet(Done(fs), F[c])]
  <2>1. ASSUME NEW c \in counted
        PROVE  /\ c \in C /\ Exact(fs, c, of[c]) /\ ActiveLeaves(fs, c) = Leaves(c)
               /\ sizes[c] = of[c].size /\ of[c].size = SumFunctionOnSet(Size, F[c])
               /\ done[c] = SumFunctionOnSet(Done(fs), F[c]) /\ done[c] \in Nat
    <3>1. c \in C /\ of[c].priority # Ignored /\ Agrees(fs, c, of[c]) /\ c \in Children(d)
      BY <1>2, <1>3 DEF C
    <3>2. Unmixed(fs, c) /\ (c.isDir => ActiveLeaves(fs, c) = {} \/ ActiveLeaves(fs, c) = Leaves(c))
      BY <3>1, UnmixedChild
    <3>3. Ignored \in Priorities /\ Leaves(c) # {}
      BY <1>4, <3>1, LeavesFinite DEF Priorities
    <3>4. PICK p \in Leaves(c) : fs[p].priority # Ignored
      BY <3>1, <3>3 DEF Agrees
    <3>5. ActiveLeaves(fs, c) = Leaves(c)
      <4>1. CASE c.isDir
        BY <3>2, <3>4, <4>1 DEF ActiveLeaves
      <4>2. CASE ~c.isDir
        BY <3>4, <4>2 DEF ActiveLeaves, Leaves
      <4> QED
        BY <4>1, <4>2
    <3>6. IsFiniteSet(Leaves(c)) /\ \A q \in Leaves(c) : Done(fs)[q] \in Nat
      BY <1>4, <1>6, <3>1
    <3>7. SumFunctionOnSet(Done(fs), Leaves(c)) \in Nat
      BY <3>6, SumSteps
    <3> QED
      BY <1>3, <3>1, <3>2, <3>5, <3>7 DEF Agrees
  <2>2. \A c \in counted : done[c] = SumFunctionOnSet(Done(fs), F[c])
    OBVIOUS
  <2> HIDE DEF counted, done
  <2>3. SumFunctionOnSet(done, counted) = SumFunctionOnSet(Done(fs), ActiveLeaves(fs, d))
    <3>1. SumFunctionOnSet(done, counted)
              = SumFunctionOnSet(Done(fs), UNION {F[c] : c \in counted})
      BY <1>3, <1>6, <1>8, <2>2, SumBelow
    <3> QED
      BY <1>8, <3>1
  <2>4. SumFunctionOnSet(sizes, counted) = SumFunctionOnSet(Size, ActiveLeaves(fs, d))
    <3>1. \A c \in counted : sizes[c] = SumFunctionOnSet(Size, F[c])
      BY <2>1
    <3>2. SumFunctionOnSet(sizes, counted)
              = SumFunctionOnSet(Size, UNION {F[c] : c \in counted})
      BY <1>3, <1>6, <1>8, <3>1, SumBelow
    <3> QED
      BY <1>8, <3>2
  <2>5. ASSUME NEW c \in counted
        PROVE  of[c].parts * (Whole * of[c].size) = of[c].whole * done[c]
    BY <1>3, <2>1 DEF Exact
  <2>6. \A c \in counted : /\ of[c].size \in Nat /\ of[c].whole \in Nat \ {0}
                           /\ of[c].parts \in 0 .. of[c].whole
                           /\ done[c] \in Nat /\ sizes[c] = of[c].size
                           /\ of[c].parts * (Whole * of[c].size) = of[c].whole * done[c]
    BY <1>10, <2>1, <2>5
  <2>7. Whole \in Nat
    BY WholeAssumption
  <2>8. average.parts * (Whole * SumFunctionOnSet(sizes, counted))
            = average.whole * SumFunctionOnSet(done, counted)
    BY <1>5, <2>6, <2>7, AverageOfAverages
  <2> QED
    BY <1>1, <2>3, <2>4, <2>8 DEF Exact
<1> HIDE DEF average
\* The priority.
<1>14. \A k \in Priorities : total.priority = k <=> \A c \in C : of[c].priority = k
  <2> SUFFICES ASSUME NEW k \in Priorities
               PROVE  CommonPriority(of) = k <=> \A c \in C : of[c].priority = k
    BY <1>1
  <2>1. Mixed \notin Priorities
    BY DEF Mixed, Priorities, Ignored
  <2> DEFINE x == CHOOSE c \in C : TRUE
  <2>2. x \in C
    BY <1>4
  <2>3. CommonPriority(of) = IF \E p \in Priorities : \A c \in C : of[c].priority = p
                             THEN of[x].priority ELSE Mixed
    BY <1>2 DEF CommonPriority
  <2> HIDE DEF x
  <2>4. CASE \E p \in Priorities : \A c \in C : of[c].priority = p
    BY <2>2, <2>3, <2>4
  <2>5. CASE ~\E p \in Priorities : \A c \in C : of[c].priority = p
    BY <2>1, <2>3, <2>5
  <2> QED
    BY <2>4, <2>5
<1>15. \A k \in Priorities : total.priority = k <=> \A p \in Leaves(d) : fs[p].priority = k
  <2> SUFFICES ASSUME NEW k \in Priorities
               PROVE  (\A c \in C : of[c].priority = k) <=> \A p \in Leaves(d) : fs[p].priority = k
    BY <1>14
  <2>1. \A c \in C : of[c].priority = k <=> \A p \in Leaves(c) : fs[p].priority = k
    BY <1>2 DEF Agrees
  <2>2. \A p : p \in Leaves(d) <=> \E c \in C : p \in Leaves(c)
    BY <1>4
  <2> QED
    BY <2>1, <2>2
<1> HIDE DEF counted
<1> QED
  BY <1>7, <1>9, <1>12, <1>13, <1>15 DEF Agrees, total, of, C

\* All nodes agree with the files below them, from the leaves up.
LEMMA TotalsAgree ==
    ASSUME NEW fs \in [Paths -> File]
    PROVE  \A n \in Nodes : Agrees(fs, n, Totals(fs)[n])
<1> DEFINE t == Totals(fs)
           X == {n \in Nodes : Agrees(fs, n, t[n])}
<1>1. \A n \in Nodes : t[n] = Recalculated(fs, n, t)
  BY TotalsEquation
<1> HIDE DEF t
<1>2. ASSUME NEW n \in Nodes, Children(n) \subseteq X
      PROVE  Agrees(fs, n, t[n])
  <2>1. CASE n.isDir
    <3>1. t[n] = Folder([c \in Children(n) |-> t[c]])
      BY <1>1, <2>1 DEF Recalculated
    <3>2. \A c \in Children(n) : Agrees(fs, c, t[c])
      BY <1>2
    <3>3. Agrees(fs, n, Folder([c \in Children(n) |-> t[c]]))
      BY <2>1, <3>2, FolderAgrees
    <3> QED
      BY <3>1, <3>3
  <2>2. CASE ~n.isDir
    <3>1. t[n] = Leaf(fs[n.path], Size[n.path])
      BY <1>1, <2>2 DEF Recalculated
    <3>2. Agrees(fs, n, Leaf(fs[n.path], Size[n.path]))
      BY <2>2, LeafAgrees
    <3> QED
      BY <3>1, <3>2
  <2> QED
    BY <2>1, <2>2
<1>3. \A n \in Nodes : Children(n) \subseteq X => n \in X
  BY <1>2
<1> HIDE DEF X
<1>4. \A n \in Nodes : n \in X
  BY <1>3, TreeInduction
<1> QED
  BY <1>4 DEF X, t

-----------------------------------------------------------------------------
(* The rows. *)

\* The parent of a node that is not at the top is a folder.
LEMMA ParentType ==
    ASSUME NEW n \in Nodes, Len(n.path) > 1
    PROVE  Parent(n) \in Nodes /\ Parent(n).isDir /\ Len(Parent(n).path) + 1 = Len(n.path)
<1> DEFINE k == Len(n.path) - 1
           q == SubSeq(n.path, 1, k)
<1>1. n.path \in Seq(STRING) /\ k \in Nat \ {0} /\ k \in 1 .. Len(n.path) /\ k + 1 = Len(n.path)
  <2> DEFINE l == Len(n.path)
  <2>1. l \in Nat /\ l > 1 /\ n.path \in Seq(STRING)
    BY NodeType
  <2> HIDE DEF l
  <2>2. l - 1 \in Nat \ {0} /\ l - 1 \in 1 .. l /\ (l - 1) + 1 = l
    BY <2>1
  <2> QED
    BY <2>1, <2>2 DEF l
<1>2. Len(q) = k
  BY <1>1, PrefixType
<1>3. \E p \in Paths : q \in FolderPaths(p)
  <2>1. CASE ~n.isDir
    <3>1. n.path \in Paths
      BY <2>1, NodeType
    <3>2. k \in 1 .. Len(n.path) - 1
      BY <1>1
    <3>3. q \in FolderPaths(n.path)
      BY <3>2 DEF FolderPaths
    <3> QED
      BY <3>1, <3>3
  <2>2. CASE n.isDir
    <3>1. PICK p \in Paths : n.path \in FolderPaths(p)
      BY <2>2, NodeType
    <3>2. /\ Len(n.path) \in 1 .. Len(p) - 1 /\ n.path = SubSeq(p, 1, Len(n.path))
          /\ p \in Seq(STRING) /\ Len(p) \in Nat
      BY <3>1, FolderType, PathType
    <3> DEFINE l == Len(n.path)
    <3>3. l \in 1 .. Len(p) /\ k \in 1 .. l /\ k \in 1 .. Len(p) - 1
      <4>1. l \in 1 .. Len(p) - 1 /\ k + 1 = l /\ k \in Nat \ {0}
        BY <1>1, <3>2
      <4> HIDE DEF l, k
      <4> QED
        BY <3>2, <4>1
    <3>4. q = SubSeq(p, 1, k)
      BY <3>2, <3>3, PrefixOfPrefix
    <3>5. q \in FolderPaths(p)
      BY <3>3, <3>4 DEF FolderPaths
    <3> QED
      BY <3>5
  <2> QED
    BY <2>1, <2>2
<1>4. Parent(n) = [path |-> q, isDir |-> TRUE]
  BY DEF Parent
<1> HIDE DEF q
<1>5. Parent(n) \in Nodes
  BY <1>3, <1>4 DEF Nodes, FolderNodes
<1> HIDE DEF k
<1> QED
  BY <1>1, <1>2, <1>4, <1>5

\* walkVisible, for one node.
Walked(filter, open, n, s) ==
    /\ SubtreeMatches(n, filter)
    /\ Len(n.path) > 1 => /\ s[Parent(n)]
                          /\ RowExpanded(Parent(n), filter, open)

\* Only whether the parent is shown counts.
LEMMA WalkedSame ==
    ASSUME NEW filter, NEW open, NEW n, NEW s, NEW t,
           Len(n.path) > 1 => s[Parent(n)] = t[Parent(n)]
    PROVE  Walked(filter, open, n, s) = Walked(filter, open, n, t)
BY Zenon DEF Walked

\* The recursive function exists, and is what its definition says.
LEMMA ShownEquation ==
    ASSUME NEW filter, NEW open
    PROVE  \E shown : /\ \A n \in Nodes : shown[n] = Walked(filter, open, n, shown)
                      /\ VisibleRows(filter, open) =
                            [filter |-> filter, nodes |-> {n \in Nodes : shown[n]}]
<1> DEFINE W(n, s) == Walked(filter, open, n, s)
           shown   == CHOOSE s : s = [n \in Nodes |-> W(n, s)]
           Lower(k) == {n \in Nodes : Len(n.path) <= k}
           Upto(s, k) == \A n \in Lower(k) : s[n] = W(n, s)
           N == {k \in Nat : \E s : Upto(s, k)}
<1>1. VisibleRows(filter, open) = [filter |-> filter, nodes |-> {n \in Nodes : shown[n]}]
  BY DEF VisibleRows, Walked
<1>2. PICK bound \in Nat : \A n \in Nodes : Len(n.path) <= bound
  BY DepthBound
<1>3. \A n \in Nodes : Len(n.path) \in Nat \ {0}
  BY NodeType
<1>4. \A n \in Nodes : Len(n.path) > 1 =>
          Parent(n) \in Nodes /\ Len(Parent(n).path) + 1 = Len(n.path)
  BY ParentType
<1>5. Lower(0) = {} /\ Lower(bound) = Nodes
  <2>1. \A n \in Nodes : ~(Len(n.path) <= 0)
    BY <1>3
  <2> QED
    BY <1>2, <2>1
<1>6. ASSUME NEW k \in Nat, NEW n \in Lower(k + 1), Len(n.path) > 1
      PROVE  Parent(n) \in Lower(k)
  <2>1. Parent(n) \in Nodes /\ Len(Parent(n).path) + 1 = Len(n.path) /\ Len(n.path) <= k + 1
    BY <1>4, <1>6
  <2> DEFINE a == Len(Parent(n).path)
             b == Len(n.path)
  <2>2. a \in Nat /\ a + 1 = b /\ b <= k + 1
    BY <1>3, <2>1
  <2> HIDE DEF a, b
  <2>3. a <= k
    BY <2>2
  <2> QED
    BY <2>1, <2>3 DEF a
<1>7. \A k \in Nat : Lower(k) \subseteq Lower(k + 1)
  <2> SUFFICES ASSUME NEW k \in Nat, NEW n \in Nodes, Len(n.path) <= k
               PROVE  Len(n.path) <= k + 1
    OBVIOUS
  <2> DEFINE a == Len(n.path)
  <2>1. a \in Nat /\ a <= k
    BY <1>3
  <2> HIDE DEF a
  <2>2. a <= k + 1
    BY <2>1
  <2> QED
    BY <2>2 DEF a
<1> HIDE DEF Lower
<1>8. 0 \in N
  BY <1>5
<1>9. ASSUME NEW k \in Nat, k \in N
      PROVE  k + 1 \in N
  <2>1. PICK s : Upto(s, k)
    BY <1>9
  <2> DEFINE g == [n \in Nodes |-> IF n \in Lower(k) THEN s[n] ELSE W(n, s)]
  <2>2. \A n \in Lower(k) : n \in Nodes /\ g[n] = s[n]
    BY DEF Lower
  <2>3. \A n \in Nodes : n \notin Lower(k) => g[n] = W(n, s)
    OBVIOUS
  <2> HIDE DEF g, W
  <2>4. \A n \in Lower(k + 1) : g[n] = W(n, s)
    BY <2>1, <2>2, <2>3 DEF Lower
  <2>5. ASSUME NEW n \in Lower(k + 1)
        PROVE  g[n] = W(n, g)
    <3>1. Len(n.path) > 1 => g[Parent(n)] = s[Parent(n)]
      BY <1>6, <2>2
    <3>2. W(n, g) = W(n, s)
      BY <3>1, WalkedSame DEF W
    <3> QED
      BY <2>4, <3>2
  <2>6. Upto(g, k + 1)
    BY <2>5
  <2> HIDE DEF Upto
  <2> QED
    BY <2>6
<1> HIDE DEF N
<1>10. bound \in N
  BY <1>8, <1>9, Induction
<1>11. PICK s : Upto(s, bound)
  BY <1>10 DEF N
<1> DEFINE f == [n \in Nodes |-> s[n]]
<1> HIDE DEF W
<1>12. f = [n \in Nodes |-> W(n, f)]
  <2>1. \A n \in Nodes : f[n] = s[n]
    OBVIOUS
  <2> HIDE DEF f
  <2>2. ASSUME NEW n \in Nodes
        PROVE  f[n] = W(n, f)
    <3>1. Len(n.path) > 1 => f[Parent(n)] = s[Parent(n)]
      BY <1>4, <2>1
    <3>2. W(n, f) = W(n, s)
      BY <3>1, WalkedSame DEF W
    <3>3. s[n] = W(n, s)
      BY <1>5, <1>11
    <3> QED
      BY <2>1, <3>2, <3>3
  <2>3. DOMAIN f = Nodes /\ f = [n \in Nodes |-> f[n]]
    BY DEF f
  <2> QED
    BY <2>2, <2>3
<1> HIDE DEF f
<1>13. shown = [n \in Nodes |-> W(n, shown)]
  BY <1>12
<1> HIDE DEF shown
<1>14. \A n \in Nodes : shown[n] = Walked(filter, open, n, shown)
  BY <1>13 DEF W
<1> QED
  BY <1>1, <1>14

\* Rows are shown below the folders they are in.
LEMMA VisibleRowsType ==
    ASSUME NEW filter, NEW open
    PROVE  LET visible == VisibleRows(filter, open)
           IN  /\ visible.filter = filter /\ visible.nodes \subseteq Nodes
               /\ \A n \in visible.nodes : Len(n.path) > 1 => Parent(n) \in visible.nodes
<1>1. PICK shown :
        /\ \A n \in Nodes : shown[n] = Walked(filter, open, n, shown)
        /\ VisibleRows(filter, open) = [filter |-> filter, nodes |-> {n \in Nodes : shown[n]}]
  BY ShownEquation
<1> DEFINE visible == VisibleRows(filter, open)
<1>2. visible.filter = filter /\ visible.nodes = {n \in Nodes : shown[n]}
  BY <1>1
<1> HIDE DEF visible
<1>3. ASSUME NEW n \in Nodes, shown[n], Len(n.path) > 1
      PROVE  Parent(n) \in Nodes /\ shown[Parent(n)]
  <2>1. Walked(filter, open, n, shown)
    BY <1>1, <1>3, Zenon
  <2>2. shown[Parent(n)]
    BY <1>3, <2>1, Zenon DEF Walked
  <2> QED
    BY <1>3, <2>2, ParentType
<1>4. \A n \in visible.nodes : n \in Nodes /\ shown[n]
  BY <1>2
<1>5. ASSUME NEW n \in visible.nodes, Len(n.path) > 1
      PROVE  Parent(n) \in visible.nodes
  BY <1>2, <1>3, <1>4, <1>5
<1> QED
  BY <1>2, <1>5 DEF visible

-----------------------------------------------------------------------------
(* The theorems. *)

\* The types hold in the initial states, ...
LEMMA ContentTypeInit == ContentInit => ContentTypeOK
<1> SUFFICES ASSUME ContentInit
             PROVE  ContentTypeOK
  OBVIOUS
<1>1. files \in [Paths -> File]
  <2>1. 0 \in 0 .. Whole
    BY WholeAssumption
  <2>2. [progress |-> 0, priority |-> 1] \in File
    BY <2>1 DEF File, Priorities
  <2> QED
    BY <2>2 DEF ContentInit
<1>2. /\ rows.filter = NoFilter /\ rows.nodes \subseteq Nodes
      /\ \A n \in rows.nodes : Len(n.path) > 1 => Parent(n) \in rows.nodes
  BY VisibleRowsType DEF ContentInit
<1> QED
  BY <1>1, <1>2, FiltersAssumption DEF ContentInit, ContentTypeOK

\* ... and are kept by every step.
LEMMA ContentTypeStep ==
    ASSUME ContentTypeOK, [ContentNext]_contentVars
    PROVE  ContentTypeOK'
<1> USE DEF ContentTypeOK
<1>1. CASE RefreshContent
  <2>1. /\ rows'.filter = contentFilter /\ rows'.nodes \subseteq Nodes
        /\ \A n \in rows'.nodes : Len(n.path) > 1 => Parent(n) \in rows'.nodes
    BY <1>1, VisibleRowsType DEF RefreshContent
  <2> QED
    BY <1>1, <2>1 DEF RefreshContent
<1>2. CASE PollContent
  BY <1>2 DEF PollContent
<1>3. CASE SetContentFilter
  BY <1>3 DEF SetContentFilter
<1>4. CASE ContentTimerFires
  BY <1>4 DEF ContentTimerFires
<1>5. CASE ToggleContentNode
  <2>1. PICK n \in rows.nodes :
          n.isDir /\ expanded' = IF n.path \in expanded THEN expanded \ {n.path}
                                                        ELSE expanded \cup {n.path}
    BY <1>5 DEF ToggleContentNode
  <2>2. n \in FolderNodes
    BY <2>1 DEF Nodes, FileNodes
  <2>3. expanded' \subseteq {m.path : m \in FolderNodes}
    BY <2>1, <2>2
  <2> QED
    BY <1>5, <2>3 DEF ToggleContentNode
<1>6. CASE ResetContent
  BY <1>6, FiltersAssumption DEF ResetContent
<1>7. CASE UNCHANGED contentVars
  BY <1>7 DEF contentVars
<1> QED
  BY <1>1, <1>2, <1>3, <1>4, <1>5, <1>6, <1>7 DEF ContentNext

\* Files of the right type are enough for every folder to agree with them.
LEMMA FolderAgreement == ContentTypeOK => FolderAgreesWithFiles
<1> SUFFICES ASSUME ContentTypeOK
             PROVE  FolderAgreesWithFiles
  OBVIOUS
<1>1. files \in [Paths -> File]
  BY DEF ContentTypeOK
<1>2. \A d \in FolderNodes : d \in Nodes /\ d.isDir
  BY DEF Nodes, FolderNodes
<1>3. \A d \in FolderNodes : FilesBelow(d) = Leaves(d) /\ Active(d) = ActiveLeaves(files, d)
  BY <1>2 DEF FilesBelow, Active, Leaves, ActiveLeaves
<1>4. \A d \in FolderNodes : Agrees(files, d, Totals(files)[d])
  BY <1>1, <1>2, TotalsAgree
<1>5. ASSUME NEW d \in FolderNodes, \A e \in FolderNodes : IsWithin(e, d) /\ e # d => ~Mixes(e)
      PROVE  Unmixed(files, d)
  BY <1>3, <1>5 DEF Unmixed, Mixes
<1> QED
  BY <1>2, <1>3, <1>4, <1>5
  DEF FolderAgreesWithFiles, Agrees, AllThere, Left, Exact, Done

\* The variables of the content tab keep their types, and every row is shown below the
\* folders it is in.
THEOREM ContentTypeCorrect == ContentSpec => []ContentTypeOK
<1>1. ContentTypeOK /\ [ContentNext]_contentVars => ContentTypeOK'
  BY ContentTypeStep
<1> QED
  BY ContentTypeInit, <1>1, PTL DEF ContentSpec

\* recalculateContentNode: size, remaining bytes, completion and priority of every folder
\* agree with the files below it, at any depth and whatever part of each is downloaded,
\* and so does its progress, if no folder inside it mixes files that are downloaded with
\* others.
THEOREM FolderCorrect == ContentSpec => []FolderAgreesWithFiles
BY ContentTypeCorrect, FolderAgreement, PTL
==================================================================================
