------------------------- MODULE RecursiveFunctions -------------------------
(***************************************************************************)
(* Facts about recursive functions that the proofs of the other modules    *)
(* cite.  f[x \in D] == e is CHOOSE f : f = [x \in D |-> e], so what e     *)
(* computes can be said of f only when such an f exists.  It does when e   *)
(* calls f below x only, for a relation in which every set of arguments    *)
(* has a smallest one.  Prec is a set of pairs and Step is e as a function *)
(* of x and f, so that the theorem is stated for all recursions at once    *)
(* without a parameter that is an operator.                                *)
(***************************************************************************)
EXTENDS Naturals, SequencesExt, SequenceTheorems, WellFoundedInduction, TLAPS

Grounded(Prec, D) ==
  \A T \in SUBSET D : T # {} => \E x \in T : \A y \in T : <<y, x>> \notin Prec

(* Every set of numbers has a least one.                                   *)
LEMMA LeastNumber ==
  ASSUME NEW T \in SUBSET Nat, T # {}
  PROVE  \E n \in T : \A m \in T : n <= m
<1>1. \E R : /\ IsWellFoundedOn(R, Nat)
             /\ \A m, n \in Nat : <<m, n>> \in R <=> m < n
  <2>1. \A m, n \in Nat : <<m, n>> \in OpToRel(<,Nat) <=> m < n
    BY Zenon DEF OpToRel
  <2>. QED
    BY <2>1, NatLessThanWellFounded, Zenon
<1>2. PICK R : /\ IsWellFoundedOn(R, Nat)
               /\ \A m, n \in Nat : <<m, n>> \in R <=> m < n
  BY <1>1
<1>3. IsWellFoundedOn(R, Nat) /\ T \subseteq Nat
  BY <1>2
<1>4. PICK n \in T : \A m \in T : ~(<<m, n>> \in R)
  BY <1>3, WFMin, Zenon
<1>5. ASSUME NEW m \in T PROVE n <= m
  <2>1. m \in Nat /\ n \in Nat
    BY <1>3
  <2>2. ~(m < n)
    BY <1>2, <1>4, <2>1
  <2>. QED
    BY <2>1, <2>2
<1>. QED
  BY <1>5

(* A set of things that have a size has one of the least size.             *)
LEMMA LeastSize ==
  ASSUME NEW S, NEW size \in [S -> Nat], NEW T \in SUBSET S, T # {}
  PROVE  \E x \in T : \A y \in T : size[x] <= size[y]
<1> DEFINE sizes == {size[x] : x \in T}
<1>1. sizes \in SUBSET Nat /\ sizes # {}
  OBVIOUS
<1>2. PICK n \in sizes : \A m \in sizes : n <= m
  BY <1>1, LeastNumber
<1>. QED
  BY <1>2
(* What Step computes at x depends on its second argument below x only.    *)
LooksBelow(Step, Prec, D, V) ==
  \A x \in D : \A g, h \in [D -> V] :
    (\A y \in D : <<y, x>> \in Prec => g[y] = h[y]) => Step[<<x, g>>] = Step[<<x, h>>]

(* A function that does what Step says on a part of D that is closed       *)
(* below.                                                                  *)
Solves(g, A, Step, Prec, D) ==
  /\ \A x \in A : \A y \in D : <<y, x>> \in Prec => y \in A
  /\ \A x \in A : g[x] = Step[<<x, g>>]

(* Two such functions agree where both do.                                 *)
LEMMA SolutionsAgree ==
  ASSUME NEW D, NEW V, NEW Prec, Grounded(Prec, D),
         NEW Step, LooksBelow(Step, Prec, D, V),
         NEW A \in SUBSET D, NEW g \in [D -> V], Solves(g, A, Step, Prec, D),
         NEW B \in SUBSET D, NEW h \in [D -> V], Solves(h, B, Step, Prec, D)
  PROVE  \A x \in A \cap B : g[x] = h[x]
<1> SUFFICES ASSUME {x \in A \cap B : g[x] # h[x]} # {}
             PROVE  FALSE
  OBVIOUS
<1>1. {x \in A \cap B : g[x] # h[x]} \in SUBSET D
  OBVIOUS
<1>2. PICK x \in {x \in A \cap B : g[x] # h[x]} :
        \A y \in {z \in A \cap B : g[z] # h[z]} : <<y, x>> \notin Prec
  BY <1>1 DEF Grounded
<1>3. \A y \in D : <<y, x>> \in Prec => g[y] = h[y]
  BY <1>2 DEF Solves
<1>4. Step[<<x, g>>] = Step[<<x, h>>]
  BY <1>2, <1>3 DEF LooksBelow
<1>. QED
  BY <1>2, <1>4 DEF Solves

(* What a recursion must be to define a function from D to V.              *)
IsRecursion(Step, Prec, D, V) ==
  /\ Grounded(Prec, D)
  /\ V # {}
  /\ Step \in [D \X [D -> V] -> V]
  /\ LooksBelow(Step, Prec, D, V)

HasSolution(Step, D, V) == \E f \in [D -> V] : \A x \in D : f[x] = Step[<<x, f>>]

(* The recursion theorem: there is a function that does what Step says.    *)
THEOREM RecursionTheorem ==
  ASSUME NEW Step, NEW Prec, NEW D, NEW V, IsRecursion(Step, Prec, D, V)
  PROVE  HasSolution(Step, D, V)
<1>0. /\ Grounded(Prec, D) /\ LooksBelow(Step, Prec, D, V)
      /\ Step \in [D \X [D -> V] -> V]
  BY DEF IsRecursion
<1> PICK any : any \in V
  BY DEF IsRecursion
<1> DEFINE Good(g, A) == Solves(g, A, Step, Prec, D)
           U == {x \in D : \E g \in [D -> V], A \in SUBSET D : x \in A /\ Good(g, A)}
           Value(x) == {v \in V : \E g \in [D -> V], A \in SUBSET D :
                                    x \in A /\ Good(g, A) /\ v = g[x]}
           h == [x \in D |-> IF x \in U THEN CHOOSE v \in V : v \in Value(x) ELSE any]
<1>1. ASSUME NEW g \in [D -> V], NEW A \in SUBSET D, Good(g, A), NEW x \in A
      PROVE  x \in U /\ h[x] = g[x]
  <2>1. x \in U /\ g[x] \in Value(x)
    BY <1>1
  <2>2. \A v \in Value(x) : v = g[x]
    BY <1>0, <1>1, SolutionsAgree
  <2>3. (CHOOSE v \in V : v \in Value(x)) = g[x]
    BY <2>1, <2>2
  <2>. QED
    BY <2>1, <2>3
<1>2. h \in [D -> V]
  <2>1. ASSUME NEW x \in U PROVE (CHOOSE v \in V : v \in Value(x)) \in V
    BY <2>1
  <2>. QED
    BY <2>1
<1>3. U \in SUBSET D
  OBVIOUS
<1> HIDE DEF h
<1>4. Good(h, U)
  <2> SUFFICES ASSUME NEW x \in U
               PROVE  (\A y \in D : <<y, x>> \in Prec => y \in U) /\ h[x] = Step[<<x, h>>]
    BY Zenon DEF Solves
  <2>1. PICK g \in [D -> V], A \in SUBSET D : x \in A /\ Good(g, A)
    OBVIOUS
  <2>2. ASSUME NEW y \in D, <<y, x>> \in Prec
        PROVE  y \in U /\ h[y] = g[y]
    <3>1. y \in A
      BY <2>1, <2>2 DEF Solves
    <3>. QED
      BY <2>1, <3>1, <1>1
  <2>3. h[x] = g[x] /\ g[x] = Step[<<x, g>>]
    <3>1. h[x] = g[x]
      BY <2>1, <1>1, Zenon
    <3>2. Solves(g, A, Step, Prec, D) /\ x \in A
      BY <2>1
    <3>. QED
      BY <3>1, <3>2, Zenon DEF Solves
  <2>4. Step[<<x, g>>] = Step[<<x, h>>]
    BY <1>0, <2>2, <1>2 DEF LooksBelow
  <2>. QED
    BY <2>2, <2>3, <2>4
<1>5. U = D
  <2> SUFFICES ASSUME D \ U # {} PROVE FALSE
    BY <1>3
  <2>1. PICK x \in D \ U : \A y \in D \ U : <<y, x>> \notin Prec
    BY <1>0 DEF Grounded
  <2> DEFINE k == [h EXCEPT ![x] = Step[<<x, h>>]]
  <2>2. k \in [D -> V] /\ U \cup {x} \in SUBSET D
    BY <1>0, <1>2, <1>3
  <2>3. k[x] = Step[<<x, h>>] /\ \A y \in U : k[y] = h[y]
    BY <1>2, <2>1
  <2> HIDE DEF k
  <2>4. \A z \in U \cup {x} : \A y \in D : <<y, z>> \in Prec => y \in U
    BY <1>4, <2>1 DEF Solves
  <2>5. \A z \in U \cup {x} : Step[<<z, k>>] = Step[<<z, h>>]
    <3> SUFFICES ASSUME NEW z \in U \cup {x} PROVE Step[<<z, k>>] = Step[<<z, h>>]
      OBVIOUS
    <3>1. z \in D /\ \A y \in D : <<y, z>> \in Prec => k[y] = h[y]
      BY <1>3, <2>3, <2>4
    <3> HIDE DEF U
    <3>. QED
      BY <1>0, <1>2, <2>2, <3>1 DEF LooksBelow
  <2>6. Good(k, U \cup {x})
    BY <1>4, <2>3, <2>4, <2>5 DEF Solves
  <2>. QED
    BY <2>1, <2>2, <2>6
<1> HIDE DEF U
<1>. QED
  BY <1>2, <1>4, <1>5 DEF Solves, HasSolution
-----------------------------------------------------------------------------
(* The function that FlattenSeq computes with, as a recursion on numbers.  *)
Flattens(f, ss, n) == f = [i \in 1..n |-> IF i = 1 THEN ss[i] ELSE f[i - 1] \o ss[i]]
LEMMA FlattenDefined ==
  ASSUME NEW S, NEW n \in Nat \ {0}, NEW ss \in [1..n -> Seq(S)]
  PROVE  \E f : Flattens(f, ss, n)
<1> DEFINE D == 1..n
           V == Seq(S)
           Below == {<<i - 1, i>> : i \in 2..n}
           Step == [p \in D \X [D -> V] |->
                      IF p[1] = 1 THEN ss[p[1]] ELSE (p[2])[p[1] - 1] \o ss[p[1]]]
<1>1. Grounded(Below, D)
  <2> SUFFICES ASSUME NEW T \in SUBSET D, T # {}
               PROVE  \E x \in T : \A y \in T : <<y, x>> \notin Below
    BY DEF Grounded
  <2>1. PICK x \in T : \A y \in T : x <= y
    <3>1. T \in SUBSET Nat
      OBVIOUS
    <3>. QED
      BY <3>1, LeastNumber
  <2>2. \A y \in T : <<y, x>> \in Below => y = x - 1
    OBVIOUS
  <2>. QED
    BY <2>1, <2>2
<1>2. ASSUME NEW i \in D, NEW g \in [D -> V]
      PROVE  /\ Step[<<i, g>>] = IF i = 1 THEN ss[i] ELSE g[i - 1] \o ss[i]
             /\ Step[<<i, g>>] \in V
  <2>1. Step[<<i, g>>] = IF i = 1 THEN ss[i] ELSE g[i - 1] \o ss[i]
    OBVIOUS
  <2>2. ss[i] \in Seq(S)
    OBVIOUS
  <2>3. i # 1 => g[i - 1] \in Seq(S)
    OBVIOUS
  <2>. QED
    BY <2>1, <2>2, <2>3
<1>3. Step \in [D \X [D -> V] -> V]
  <2> SUFFICES ASSUME NEW p \in D \X [D -> V] PROVE Step[p] \in V
    OBVIOUS
  <2>1. p[1] \in D /\ p[2] \in [D -> V] /\ p = <<p[1], p[2]>>
    OBVIOUS
  <2> HIDE DEF Step, D, V
  <2>. QED
    BY <1>2, <2>1
<1>4. LooksBelow(Step, Below, D, V)
  <2> SUFFICES ASSUME NEW i \in D, NEW g \in [D -> V], NEW h \in [D -> V],
                      \A y \in D : <<y, i>> \in Below => g[y] = h[y]
               PROVE  Step[<<i, g>>] = Step[<<i, h>>]
    BY DEF LooksBelow
  <2>1. i # 1 => i - 1 \in D /\ <<i - 1, i>> \in Below
    OBVIOUS
  <2>2. i # 1 => g[i - 1] = h[i - 1]
    BY <2>1
  <2>3. /\ Step[<<i, g>>] = IF i = 1 THEN ss[i] ELSE g[i - 1] \o ss[i]
        /\ Step[<<i, h>>] = IF i = 1 THEN ss[i] ELSE h[i - 1] \o ss[i]
    BY <1>2
  <2> HIDE DEF Step
  <2>. QED
    BY <2>2, <2>3
<1>5. V # {}
  BY EmptySeq
<1>6. PICK f \in [D -> V] : \A x \in D : f[x] = Step[<<x, f>>]
  <2> HIDE DEF D, V, Step, Below
  <2>1. IsRecursion(Step, Below, D, V)
    BY <1>1, <1>3, <1>4, <1>5 DEF IsRecursion
  <2>2. HasSolution(Step, D, V)
    BY <2>1, RecursionTheorem
  <2>. QED
    BY <2>2 DEF HasSolution
<1>7. \A i \in D : f[i] = IF i = 1 THEN ss[i] ELSE f[i - 1] \o ss[i]
  BY <1>2, <1>6
<1>8. f = [i \in 1..n |-> IF i = 1 THEN ss[i] ELSE f[i - 1] \o ss[i]]
  BY <1>7
<1>. QED
  BY <1>8 DEF Flattens

LEMMA FlatteningKeepsElements ==
  ASSUME NEW S, NEW ss \in Seq(Seq(S))
  PROVE  FlattenSeq(ss) \in Seq(S)
<1>1. CASE Len(ss) = 0
  <2>1. FlattenSeq(ss) = ss /\ ss = <<>>
    BY <1>1 DEF FlattenSeq
  <2>. QED
    BY <2>1, EmptySeq
<1>2. CASE Len(ss) # 0
  <2>1. Len(ss) \in Nat \ {0} /\ ss \in [1..Len(ss) -> Seq(S)]
    BY <1>2
  <2> DEFINE flat == CHOOSE f : Flattens(f, ss, Len(ss))
  <2>2. \E f : Flattens(f, ss, Len(ss))
    BY <2>1, FlattenDefined
  <2>3. FlattenSeq(ss) = flat[Len(ss)]
    BY <1>2 DEF FlattenSeq, Flattens
  <2>4. Flattens(flat, ss, Len(ss))
    BY <2>2, Zenon
  <2> HIDE DEF flat
  <2>5. \A i \in 1..Len(ss) : flat[i] = IF i = 1 THEN ss[i] ELSE flat[i - 1] \o ss[i]
    BY <2>4 DEF Flattens
  <2> DEFINE T == {i \in 1..Len(ss) : flat[i] \notin Seq(S)}
  <2>6. ASSUME T # {} PROVE FALSE
    <3>1. T \in SUBSET Nat
      OBVIOUS
    <3>2. PICK i \in T : \A k \in T : i <= k
      BY <2>6, <3>1, LeastNumber
    <3>3. i # 1 => flat[i - 1] \in Seq(S)
      BY <3>2
    <3>4. ss[i] \in Seq(S)
      BY <2>1
    <3>5. CASE i = 1
      BY <2>5, <3>2, <3>4, <3>5
    <3>6. CASE i # 1
      <4>1. flat[i - 1] \o ss[i] \in Seq(S)
        BY <3>3, <3>4, <3>6, ConcatProperties
      <4>. QED
        BY <2>5, <3>2, <3>6, <4>1
    <3>. QED
      BY <3>5, <3>6
  <2>7. Len(ss) \in 1..Len(ss)
    BY <2>1
  <2>. QED
    BY <2>3, <2>6, <2>7
<1>. QED
  BY <1>1, <1>2
=============================================================================
