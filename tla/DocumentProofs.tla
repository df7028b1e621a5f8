--------------------------- MODULE DocumentProofs ---------------------------
(***************************************************************************)
(* Proofs about FigmaDocument: every call of the plugin API that the       *)
(* handlers make turns a document into a document.                         *)
(***************************************************************************)
EXTENDS FigmaDocument, RecursiveFunctions, FiniteSetTheorems, TLAPS

-----------------------------------------------------------------------------
(***************************************************************************)
(* Lists of children.                                                      *)
(***************************************************************************)
LEMMA AppendFacts ==
  ASSUME NEW S, NEW s \in Seq(S), NEW e \in S
  PROVE  /\ Append(s, e) \in Seq(S)
         /\ ToSet(Append(s, e)) = ToSet(s) \cup {e}
         /\ IsInjective(s) /\ e \notin ToSet(s) => IsInjective(Append(s, e))
<1> DEFINE t == Append(s, e)
<1>1. t \in Seq(S) /\ DOMAIN t = 1..(Len(s) + 1) /\ DOMAIN s = 1..Len(s) /\ Len(s) \in Nat
  OBVIOUS
<1>2. (\A i \in 1..Len(s) : t[i] = s[i]) /\ t[Len(s) + 1] = e
  OBVIOUS
<1> HIDE DEF t
<1>3. \A i \in 1..(Len(s) + 1) : i \in 1..Len(s) \/ i = Len(s) + 1
  BY <1>1
<1>4. ToSet(t) = ToSet(s) \cup {e}
  BY <1>1, <1>2, <1>3 DEF ToSet
<1>5. ASSUME IsInjective(s), e \notin ToSet(s) PROVE IsInjective(t)
  BY <1>1, <1>2, <1>3, <1>5 DEF IsInjective, ToSet
<1>. QED
  BY <1>1, <1>4, <1>5 DEF t

(* An element put in at a place.                                           *)
LEMMA InsertFacts ==
  ASSUME NEW S, NEW s \in Seq(S), NEW e \in S, NEW i \in 1..(Len(s) + 1)
  PROVE  /\ InsertAt(s, i, e) \in Seq(S)
         /\ ToSet(InsertAt(s, i, e)) = ToSet(s) \cup {e}
         /\ IsInjective(s) /\ e \notin ToSet(s) => IsInjective(InsertAt(s, i, e))
<1> DEFINE t == InsertAt(s, i, e)
<1>1. /\ t \in Seq(S) /\ Len(t) = Len(s) + 1
      /\ \A j \in 1..(Len(s) + 1) : t[j] = IF j < i THEN s[j] ELSE IF j = i THEN e ELSE s[j - 1]
  <2>1. Len(s) \in Nat /\ i \in Nat
    OBVIOUS
  <2> DEFINE a == SubSeq(s, 1, i - 1)
             b == SubSeq(s, i, Len(s))
  <2>2. a \in Seq(S) /\ Len(a) = i - 1 /\ \A j \in 1..(i - 1) : a[j] = s[j]
    BY <2>1
  <2>3. b \in Seq(S) /\ Len(b) = Len(s) - i + 1 /\ \A j \in 1..(Len(s) - i + 1) : b[j] = s[i + j - 1]
    BY <2>1
  <2>4. t = a \o <<e>> \o b
    BY DEF InsertAt
  <2> HIDE DEF a, b, t
  <2>5. a \o <<e>> \in Seq(S) /\ Len(a \o <<e>>) = i
        /\ \A j \in 1..i : (a \o <<e>>)[j] = IF j < i THEN s[j] ELSE e
    BY <2>1, <2>2
  <2> DEFINE h == a \o <<e>>
  <2> HIDE DEF h
  <2>6. /\ h \o b \in Seq(S) /\ Len(h \o b) = Len(s) + 1
        /\ \A j \in 1..(Len(s) + 1) : (h \o b)[j] = IF j <= i THEN h[j] ELSE b[j - i]
    BY <2>1, <2>3, <2>5 DEF h
  <2>7. \A j \in 1..(Len(s) + 1) : j > i => b[j - i] = s[j - 1]
    BY <2>1, <2>3
  <2>8. t = h \o b
    BY <2>4 DEF h
  <2>9. \A j \in 1..i : h[j] = IF j < i THEN s[j] ELSE e
    BY <2>5 DEF h
  <2>10. ASSUME NEW j \in 1..(Len(s) + 1)
         PROVE  t[j] = IF j < i THEN s[j] ELSE IF j = i THEN e ELSE s[j - 1]
    <3>1. j <= i => j \in 1..i
      BY <2>1
    <3>. QED
      BY <2>1, <2>6, <2>7, <2>8, <2>9, <3>1
  <2>. QED
    BY <2>6, <2>8, <2>10
<1> HIDE DEF t
<1>2. DOMAIN t = 1..(Len(s) + 1) /\ DOMAIN s = 1..Len(s) /\ Len(s) \in Nat
  BY <1>1
<1>3. ToSet(t) \subseteq ToSet(s) \cup {e}
  <2> SUFFICES ASSUME NEW j \in 1..(Len(s) + 1), t[j] # e PROVE \E h \in 1..Len(s) : t[j] = s[h]
    BY <1>2 DEF ToSet
  <2>1. j < i => j \in 1..Len(s)
    BY <1>2
  <2>2. j > i => j - 1 \in 1..Len(s)
    BY <1>2
  <2>. QED
    BY <1>1, <2>1, <2>2
<1>4. ToSet(s) \cup {e} \subseteq ToSet(t)
  <2>1. t[i] = e
    BY <1>1
  <2>2. ASSUME NEW j \in 1..Len(s) PROVE \E h \in 1..(Len(s) + 1) : t[h] = s[j]
    <3>1. CASE j < i
      BY <1>1, <1>2, <3>1
    <3>2. CASE j >= i
      <4>1. j + 1 \in 1..(Len(s) + 1) /\ j + 1 > i /\ j + 1 - 1 = j
        BY <1>2, <3>2
      <4>2. t[j + 1] = s[j + 1 - 1]
        BY <1>1, <1>2, <4>1
      <4>. QED
        BY <4>1, <4>2
    <3>. QED
      BY <1>2, <3>1, <3>2
  <2>. QED
    BY <1>2, <2>1, <2>2 DEF ToSet
<1>5. ASSUME IsInjective(s), e \notin ToSet(s) PROVE IsInjective(t)
  <2> SUFFICES ASSUME NEW j \in 1..(Len(s) + 1), NEW k \in 1..(Len(s) + 1), t[j] = t[k], j < k
               PROVE  FALSE
    <3>1. \A j, k \in 1..(Len(s) + 1) : t[j] = t[k] => ~(j < k) /\ ~(k < j)
      OBVIOUS
    <3>. QED
      BY <1>2, <3>1 DEF IsInjective
  <2> DEFINE Was(h) == IF h < i THEN h ELSE h - 1
  <2>1. \A h \in 1..(Len(s) + 1) : h # i => Was(h) \in 1..Len(s) /\ t[h] = s[Was(h)]
    BY <1>1, <1>2
  <2>2. t[i] = e
    BY <1>1
  <2> HIDE DEF Was
  <2>5. \A h \in 1..(Len(s) + 1) : h # i => t[h] # e
    BY <1>2, <1>5, <2>1 DEF ToSet
  <2>3. j # i /\ k # i
    BY <1>2, <2>2, <2>5
  <2>4. Was(j) = Was(k)
    BY <1>2, <1>5, <2>1, <2>3 DEF IsInjective
  <2>. QED
    BY <1>2, <2>3, <2>4 DEF Was
<1>. QED
  BY <1>1, <1>3, <1>4, <1>5 DEF t

(* Children taken out.                                                     *)
Keeps(f, kids, gone, n) ==
  f = [i \in 0..n |-> IF i = 0 THEN <<>>
                      ELSE IF kids[i] \in gone THEN f[i - 1] ELSE Append(f[i - 1], kids[i])]
LEMMA KeepsDefined ==
  ASSUME NEW kids, NEW gone, NEW n \in Nat
  PROVE  \E f : Keeps(f, kids, gone, n)
<1> DEFINE T == {m \in Nat : ~\E f : Keeps(f, kids, gone, m)}
<1> SUFFICES ASSUME T # {} PROVE FALSE
  OBVIOUS
<1>1. PICK m \in T : \A l \in T : m <= l
  <2>1. T \in SUBSET Nat
    OBVIOUS
  <2> HIDE DEF T
  <2>. QED
    BY <2>1, LeastNumber
<1>2. CASE m = 0
  <2> DEFINE f == [i \in 0..0 |-> <<>>]
  <2>1. Keeps(f, kids, gone, 0)
    BY DEF Keeps
  <2>. QED
    BY <1>1, <1>2, <2>1
<1>3. CASE m # 0
  <2>1. m - 1 \in Nat /\ m - 1 \notin T
    BY <1>1, <1>3
  <2>2. PICK f : Keeps(f, kids, gone, m - 1)
    BY <2>1
  <2>3. \A i \in 0..(m - 1) : f[i] = IF i = 0 THEN <<>>
                      ELSE IF kids[i] \in gone THEN f[i - 1] ELSE Append(f[i - 1], kids[i])
    BY <2>2 DEF Keeps
  <2> DEFINE g == [i \in 0..m |-> IF i < m THEN f[i]
                      ELSE IF kids[i] \in gone THEN f[i - 1] ELSE Append(f[i - 1], kids[i])]
  <2>4. \A i \in 0..m : i # 0 => g[i - 1] = f[i - 1]
    OBVIOUS
  <2>5. ASSUME NEW i \in 0..m
        PROVE  g[i] = IF i = 0 THEN <<>>
                      ELSE IF kids[i] \in gone THEN g[i - 1] ELSE Append(g[i - 1], kids[i])
    <3>1. CASE i < m
      <4>1. g[i] = f[i] /\ i \in 0..(m - 1)
        BY <3>1
      <4> HIDE DEF g
      <4>. QED
        BY <2>3, <2>4, <4>1
    <3>2. CASE i = m
      <4>1. g[i] = IF kids[i] \in gone THEN f[i - 1] ELSE Append(f[i - 1], kids[i])
        BY <3>2
      <4> HIDE DEF g
      <4>. QED
        BY <1>3, <2>4, <3>2, <4>1
    <3>. QED
      BY <3>1, <3>2
  <2>6. g = [i \in 0..m |-> IF i = 0 THEN <<>>
                      ELSE IF kids[i] \in gone THEN g[i - 1] ELSE Append(g[i - 1], kids[i])]
    <3>1. g = [i \in 0..m |-> g[i]]
      OBVIOUS
    <3> HIDE DEF g
    <3>. QED
      BY <2>5, <3>1
  <2>7. Keeps(g, kids, gone, m)
    BY <2>6 DEF Keeps
  <2>. QED
    BY <1>1, <2>7
<1>. QED
  BY <1>2, <1>3

LEMMA WithoutFacts ==
  ASSUME NEW S, NEW kids \in Seq(S), NEW gone
  PROVE  /\ Without(kids, gone) \in Seq(S \ gone)
         /\ ToSet(Without(kids, gone)) = ToSet(kids) \ gone
         /\ IsInjective(kids) => IsInjective(Without(kids, gone))
<1> DEFINE left == CHOOSE f : Keeps(f, kids, gone, Len(kids))
           Part(i) == {kids[j] : j \in 1..i} \ gone
           Good(i) == /\ left[i] \in Seq(S \ gone) /\ ToSet(left[i]) = Part(i)
                      /\ IsInjective(kids) => IsInjective(left[i])
           T == {i \in 0..Len(kids) : ~Good(i)}
<1>1. Len(kids) \in Nat /\ DOMAIN kids = 1..Len(kids) /\ \A i \in 1..Len(kids) : kids[i] \in S
  OBVIOUS
<1>2. Without(kids, gone) = left[Len(kids)]
  BY DEF Without, Keeps
<1>3. \A i \in 0..Len(kids) : left[i] = IF i = 0 THEN <<>>
                      ELSE IF kids[i] \in gone THEN left[i - 1] ELSE Append(left[i - 1], kids[i])
  <2>1. \E f : Keeps(f, kids, gone, Len(kids))
    BY <1>1, KeepsDefined
  <2>2. Keeps(left, kids, gone, Len(kids))
    BY <2>1, Zenon
  <2> HIDE DEF left
  <2>. QED
    BY <2>2 DEF Keeps
<1> HIDE DEF left
<1>4. ASSUME T # {} PROVE FALSE
  <2>1. PICK i \in T : \A l \in T : i <= l
    <3>1. T \in SUBSET Nat
      OBVIOUS
    <3> HIDE DEF T
    <3>. QED
      BY <1>4, <3>1, LeastNumber
  <2>2. /\ i \in 0..Len(kids) /\ ~Good(i)
        /\ \A l \in 0..Len(kids) : l < i => Good(l)
    <3> HIDE DEF Good
    <3>. QED
      BY <1>1, <2>1
  <2>3. CASE i = 0
    <3>1. left[i] = <<>>
      BY <1>3, <2>2, <2>3
    <3>2. Part(i) = {}
      BY <2>3
    <3>3. <<>> \in Seq(S \ gone) /\ ToSet(<<>>) = {} /\ IsInjective(<<>>)
      BY DEF ToSet, IsInjective
    <3>. QED
      BY <2>2, <3>1, <3>2, <3>3
  <2>4. CASE i # 0
    <3>1. i - 1 \in 0..Len(kids) /\ i \in 1..Len(kids) /\ i - 1 < i
      BY <1>1, <2>2, <2>4
    <3>2. Good(i - 1)
      BY <2>2, <3>1
    <3>3. Part(i) = (Part(i - 1) \cup {kids[i]}) \ gone
      <4>1. \A j \in 1..i : j \in 1..(i - 1) \/ j = i
        BY <3>1
      <4>2. \A j \in 1..(i - 1) : j \in 1..i
        BY <3>1
      <4>3. i \in 1..i
        BY <3>1
      <4>. QED
        BY <4>1, <4>2, <4>3
    <3>4. left[i] = IF kids[i] \in gone THEN left[i - 1] ELSE Append(left[i - 1], kids[i])
      BY <1>3, <2>2, <2>4
    <3>5. CASE kids[i] \in gone
      <4>1. Part(i) = Part(i - 1)
        BY <3>3, <3>5
      <4>2. left[i] = left[i - 1]
        BY <3>4, <3>5
      <4> HIDE DEF Part
      <4>. QED
        BY <2>2, <3>2, <4>1, <4>2
    <3>6. CASE kids[i] \notin gone
      <4>1. kids[i] \in S \ gone
        BY <1>1, <3>1, <3>6
      <4>2. Part(i) = Part(i - 1) \cup {kids[i]}
        BY <3>3, <3>6
      <4>3. left[i] = Append(left[i - 1], kids[i])
        BY <3>4, <3>6
      <4>4. IsInjective(kids) => kids[i] \notin Part(i - 1)
        <5>1. \A j \in 1..(i - 1) : j \in 1..Len(kids) /\ j # i
          BY <1>1, <3>1
        <5>. QED
          BY <1>1, <3>1, <5>1 DEF IsInjective
      <4> HIDE DEF Part
      <4>. QED
        BY <2>2, <3>2, <4>1, <4>2, <4>3, <4>4, AppendFacts
    <3>. QED
      BY <3>5, <3>6
  <2>. QED
    BY <2>3, <2>4
<1>5. Good(Len(kids))
  <2>1. Len(kids) \in 0..Len(kids)
    BY <1>1
  <2>. QED
    BY <1>4, <2>1
<1>6. Part(Len(kids)) = ToSet(kids) \ gone
  BY <1>1 DEF ToSet
<1>. QED
  BY <1>2, <1>5, <1>6

(* The nodes of a set in some order.                                       *)
LEMMA SetToSeqFacts ==
  ASSUME NEW S, IsFiniteSet(S)
  PROVE  SetToSeq(S) \in Seq(S) /\ ToSet(SetToSeq(S)) = S /\ IsInjective(SetToSeq(S))
<1> DEFINE D == 1..Cardinality(S)
           s == SetToSeq(S)
<1>1. Cardinality(S) \in Nat /\ ExistsBijection(D, S)
  BY FS_CardinalityType
<1>2. \E f \in [D -> S] : IsInjective(f)
  BY <1>1 DEF ExistsBijection, Bijection, Injection
<1>3. s = CHOOSE f \in [D -> S] : IsInjective(f)
  BY DEF SetToSeq
<1>4. s \in [D -> S] /\ IsInjective(s)
  <2> HIDE DEF s, D
  <2>. QED
    BY <1>2, <1>3, Zenon
<1>5. IsFiniteSet(D) /\ Cardinality(D) = Cardinality(S)
  BY <1>1, FS_Interval
<1>6. s \in Surjection(D, S)
  <2>1. s \in Injection(D, S)
    BY <1>4 DEF Injection
  <2> HIDE DEF s, D
  <2>. QED
    BY <1>5, <2>1, FS_Injection
<1>7. ToSet(s) = S
  <2> HIDE DEF s, D
  <2>. QED
    BY <1>4, <1>6 DEF ToSet, Surjection
<1>8. s \in Seq(S)
  <2> HIDE DEF s
  <2>. QED
    BY <1>1, <1>4
<1>. QED
  BY <1>4, <1>7, <1>8

-----------------------------------------------------------------------------
(***************************************************************************)
(* What is above a node.                                                   *)
(***************************************************************************)
LEMMA Parents ==
  ASSUME NEW d, IsTree(d), NEW n \in DOMAIN d
  PROVE  /\ d[n].parent = None \/ d[n].parent \in LiveNodes(d)
         /\ d[n].parent = None <=> d[n].type \in {"PAGE", "REMOVED"}
<1>1. IsNode(d, n) /\ LiveNodes(d) \subseteq Nat
  <2>1. Cardinality(DOMAIN d) \in Nat
    BY FS_CardinalityType DEF IsTree
  <2>2. DOMAIN d \subseteq Nat
    BY <2>1 DEF IsTree
  <2>. QED
    BY <2>2 DEF IsTree, LiveNodes
<1>. QED
  BY <1>1, NoneAssumption DEF IsNode

LEMMA LowestFirst ==
  ASSUME NEW d, IsTree(d), NEW S \in SUBSET DOMAIN d, S # {}
  PROVE  \E n \in S : d[n].parent \notin S
BY DEF IsTree

LEMMA AncestorsUnfold ==
  ASSUME NEW d, IsTree(d), NEW n \in DOMAIN d
  PROVE  /\ Ancestors(d, n) \subseteq LiveNodes(d)
         /\ d[n].parent = None => Ancestors(d, n) = {}
         /\ d[n].parent # None =>
              Ancestors(d, n) = {d[n].parent} \cup Ancestors(d, d[n].parent)
<1> DEFINE D == DOMAIN d
           V == SUBSET LiveNodes(d)
           Prec == {e \in D \X D : e[1] = d[e[2]].parent}
           Step == [e \in D \X [D -> V] |->
                      IF d[e[1]].parent = None THEN {}
                      ELSE {d[e[1]].parent} \cup (e[2])[d[e[1]].parent]]
           up == CHOOSE f : f = [m \in D |-> IF d[m].parent = None THEN {}
                                             ELSE {d[m].parent} \cup f[d[m].parent]]
<1>1. Grounded(Prec, D)
  <2> SUFFICES ASSUME NEW T \in SUBSET D, T # {}
               PROVE  \E x \in T : \A y \in T : <<y, x>> \notin Prec
    BY DEF Grounded
  <2>1. PICK x \in T : d[x].parent \notin T
    BY LowestFirst
  <2>. QED
    BY <2>1
<1>2. \A m \in D : d[m].parent # None => d[m].parent \in LiveNodes(d) /\ d[m].parent \in D
  BY Parents DEF LiveNodes
<1>3. ASSUME NEW m \in D, NEW f \in [D -> V]
      PROVE  /\ Step[<<m, f>>] = IF d[m].parent = None THEN {} ELSE {d[m].parent} \cup f[d[m].parent]
             /\ Step[<<m, f>>] \in V
  <2>1. Step[<<m, f>>] = IF d[m].parent = None THEN {} ELSE {d[m].parent} \cup f[d[m].parent]
    OBVIOUS
  <2>2. d[m].parent # None => f[d[m].parent] \in V
    BY <1>2
  <2> HIDE DEF Step
  <2>. QED
    BY <1>2, <2>1, <2>2
<1>4. Step \in [D \X [D -> V] -> V]
  <2> SUFFICES ASSUME NEW e \in D \X [D -> V] PROVE Step[e] \in V
    OBVIOUS
  <2>1. e[1] \in D /\ e[2] \in [D -> V] /\ e = <<e[1], e[2]>>
    OBVIOUS
  <2> HIDE DEF Step, D, V
  <2>. QED
    BY <1>3, <2>1
<1>5. LooksBelow(Step, Prec, D, V)
  <2> SUFFICES ASSUME NEW m \in D, NEW g \in [D -> V], NEW h \in [D -> V],
                      \A y \in D : <<y, m>> \in Prec => g[y] = h[y]
               PROVE  Step[<<m, g>>] = Step[<<m, h>>]
    BY DEF LooksBelow
  <2>1. d[m].parent # None => g[d[m].parent] = h[d[m].parent]
    BY <1>2
  <2>2. /\ Step[<<m, g>>] = IF d[m].parent = None THEN {} ELSE {d[m].parent} \cup g[d[m].parent]
        /\ Step[<<m, h>>] = IF d[m].parent = None THEN {} ELSE {d[m].parent} \cup h[d[m].parent]
    BY <1>3
  <2> HIDE DEF Step
  <2>. QED
    BY <2>1, <2>2
<1>6. PICK f \in [D -> V] : \A m \in D : f[m] = Step[<<m, f>>]
  <2>1. {} \in V
    OBVIOUS
  <2> HIDE DEF D, V, Step, Prec
  <2>2. IsRecursion(Step, Prec, D, V)
    BY <1>1, <1>4, <1>5, <2>1 DEF IsRecursion
  <2>3. HasSolution(Step, D, V)
    BY <2>2, RecursionTheorem
  <2>. QED
    BY <2>3 DEF HasSolution
<1>7. \A m \in D : f[m] = IF d[m].parent = None THEN {} ELSE {d[m].parent} \cup f[d[m].parent]
  BY <1>3, <1>6
<1>8. f = [m \in D |-> IF d[m].parent = None THEN {} ELSE {d[m].parent} \cup f[d[m].parent]]
  BY <1>7
<1>9. up = [m \in D |-> IF d[m].parent = None THEN {} ELSE {d[m].parent} \cup up[d[m].parent]]
  BY <1>8, Zenon
<1>10. \A m \in D : Ancestors(d, m) = up[m]
  BY DEF Ancestors
<1> HIDE DEF up
<1>11. \A m \in D : up[m] = IF d[m].parent = None THEN {} ELSE {d[m].parent} \cup up[d[m].parent]
  BY <1>9
<1>12. \A m \in D : up[m] = f[m]
  <2> SUFFICES ASSUME {m \in D : up[m] # f[m]} # {} PROVE FALSE
    OBVIOUS
  <2>1. PICK x \in {m \in D : up[m] # f[m]} : d[x].parent \notin {m \in D : up[m] # f[m]}
    BY LowestFirst
  <2>. QED
    BY <1>2, <1>7, <1>11, <2>1
<1>13. Ancestors(d, n) = f[n]
  BY <1>10, <1>12
<1>14. d[n].parent # None => Ancestors(d, d[n].parent) = f[d[n].parent]
  BY <1>2, <1>10, <1>12
<1>15. f[n] \in V
  OBVIOUS
<1>. QED
  BY <1>7, <1>13, <1>14, <1>15

LEMMA AncestorsOfAncestors ==
  ASSUME NEW d, IsTree(d), NEW n \in DOMAIN d, NEW m \in Ancestors(d, n)
  PROVE  Ancestors(d, m) \subseteq Ancestors(d, n)
<1> DEFINE Bad == {x \in DOMAIN d : \E y \in Ancestors(d, x) : ~(Ancestors(d, y) \subseteq Ancestors(d, x))}
<1> SUFFICES ASSUME Bad # {} PROVE FALSE
  OBVIOUS
<1>1. PICK x \in Bad : d[x].parent \notin Bad
  BY LowestFirst
<1>2. PICK y \in Ancestors(d, x) : ~(Ancestors(d, y) \subseteq Ancestors(d, x))
  OBVIOUS
<1>3. d[x].parent # None
  BY <1>2, AncestorsUnfold
<1>4. /\ d[x].parent \in DOMAIN d
      /\ Ancestors(d, x) = {d[x].parent} \cup Ancestors(d, d[x].parent)
  BY <1>3, AncestorsUnfold, Parents DEF LiveNodes
<1>5. \A z \in Ancestors(d, d[x].parent) : Ancestors(d, z) \subseteq Ancestors(d, d[x].parent)
  BY <1>1, <1>4
<1>. QED
  BY <1>2, <1>4, <1>5

LEMMA NotAboveItself ==
  ASSUME NEW d, IsTree(d), NEW n \in DOMAIN d
  PROVE  n \notin Ancestors(d, n)
<1> DEFINE Bad == {x \in DOMAIN d : x \in Ancestors(d, x)}
<1> SUFFICES ASSUME Bad # {} PROVE FALSE
  OBVIOUS
<1>1. PICK x \in Bad : d[x].parent \notin Bad
  BY LowestFirst
<1>2. d[x].parent # None
  BY AncestorsUnfold
<1>3. /\ d[x].parent \in DOMAIN d /\ d[x].parent \in Ancestors(d, x)
      /\ Ancestors(d, x) = {d[x].parent} \cup Ancestors(d, d[x].parent)
  BY <1>2, AncestorsUnfold, Parents DEF LiveNodes
<1>4. d[x].parent \notin Ancestors(d, d[x].parent)
  BY <1>1, <1>3
<1>5. x \in Ancestors(d, d[x].parent)
  BY <1>3, <1>4
<1>. QED
  BY <1>3, <1>4, <1>5, AncestorsOfAncestors

LEMMA UnderAPage ==
  ASSUME NEW d, IsTree(d), NEW n \in LiveNodes(d), d[n].type # "PAGE"
  PROVE  \E p \in Ancestors(d, n) : d[p].type = "PAGE"
<1> DEFINE Bad == {x \in LiveNodes(d) : d[x].type # "PAGE" /\ \A p \in Ancestors(d, x) : d[p].type # "PAGE"}
<1> SUFFICES ASSUME Bad # {} PROVE FALSE
  OBVIOUS
<1>1. Bad \in SUBSET DOMAIN d
  BY DEF LiveNodes
<1>2. PICK x \in Bad : d[x].parent \notin Bad
  BY <1>1, LowestFirst
<1>3. x \in DOMAIN d /\ d[x].type # "REMOVED"
  BY DEF LiveNodes
<1>4. /\ d[x].parent \in LiveNodes(d)
      /\ Ancestors(d, x) = {d[x].parent} \cup Ancestors(d, d[x].parent)
  BY <1>3, AncestorsUnfold, Parents
<1>. QED
  BY <1>2, <1>4

(* Two documents agree on what is above a node when they agree on the way. *)
LEMMA AncestorsAgree ==
  ASSUME NEW d, IsTree(d), NEW e, IsTree(e), NEW A, A \subseteq DOMAIN d, A \subseteq DOMAIN e,
         \A m \in A : /\ e[m].parent = d[m].parent
                      /\ d[m].parent # None => d[m].parent \in A,
         NEW n \in A
  PROVE  Ancestors(e, n) = Ancestors(d, n)
<1> DEFINE Bad == {x \in A : Ancestors(e, x) # Ancestors(d, x)}
<1> SUFFICES ASSUME Bad # {} PROVE FALSE
  OBVIOUS
<1>1. PICK x \in Bad : d[x].parent \notin Bad
  <2>1. Bad \in SUBSET DOMAIN d
    OBVIOUS
  <2>. QED
    BY <2>1, LowestFirst
<1>2. x \in DOMAIN d /\ x \in DOMAIN e /\ x \in A
  OBVIOUS
<1>3. d[x].parent # None
  BY <1>2, AncestorsUnfold
<1>4. Ancestors(e, d[x].parent) = Ancestors(d, d[x].parent)
  BY <1>1, <1>2, <1>3
<1>5. e[x].parent = d[x].parent
  BY <1>2
<1>6. Ancestors(d, x) = {d[x].parent} \cup Ancestors(d, d[x].parent)
  BY <1>2, <1>3, AncestorsUnfold
<1>7. Ancestors(e, x) = {d[x].parent} \cup Ancestors(e, d[x].parent)
  BY <1>2, <1>3, <1>5, AncestorsUnfold
<1>. QED
  BY <1>4, <1>6, <1>7

(* What the handlers keep from node to node makes the whole a forest: a    *)
(* document in which each node hangs where its parent lists it, and no set *)
(* of nodes is above itself, has every node under a page.                  *)
THEOREM TreeIsForest ==
  ASSUME NEW d, IsTree(d)
  PROVE  IsForest(d)
<1> SUFFICES ASSUME NEW n \in LiveNodes(d)
             PROVE  /\ IsInjective(d[n].kids)
                    /\ \A i \in DOMAIN d[n].kids : d[d[n].kids[i]].parent = n
                    /\ d[n].type # "PAGE" =>
                         /\ n \in ToSet(d[d[n].parent].kids)
                         /\ \E p \in Ancestors(d, n) : d[p].type = "PAGE"
  BY DEF IsForest
<1>1. IsNode(d, n) /\ d[n].type # "REMOVED"
  BY DEF IsTree, LiveNodes
<1>2. \A i \in DOMAIN d[n].kids : d[n].kids[i] \in ToSet(d[n].kids)
  BY DEF ToSet
<1>. QED
  BY <1>1, <1>2, UnderAPage DEF IsNode

-----------------------------------------------------------------------------
(***************************************************************************)
(* Taking nodes out.                                                       *)
(***************************************************************************)
LEMMA NodeFields ==
  /\ DOMAIN Removed = {"type", "parent", "kids", "key", "op", "style", "by"}
  /\ Removed.type = "REMOVED" /\ Removed.parent = None /\ Removed.kids = <<>>
BY DEF Removed, NewNode

LEMMA NoneIsNoNode ==
  ASSUME NEW d, IsTree(d)
  PROVE  None \notin DOMAIN d
<1>1. Cardinality(DOMAIN d) \in Nat
  BY FS_CardinalityType DEF IsTree
<1>. QED
  BY <1>1, NoneAssumption DEF IsTree

(* Nodes that are not pages, with all that is below them.                  *)
Branches(d, gone) ==
  /\ gone \subseteq LiveNodes(d)
  /\ \A n \in gone : d[n].type # "PAGE"
  /\ \A n \in LiveNodes(d) : d[n].parent \in gone => n \in gone

(* What is the same of a node in two documents, its children aside.        *)
SameNode(x, y) ==
  /\ DOMAIN x = DOMAIN y
  /\ x.type = y.type /\ x.parent = y.parent /\ x.key = y.key /\ x.op = y.op
  /\ x.style = y.style /\ x.by = y.by

LEMMA DropFields ==
  ASSUME NEW d, IsTree(d), NEW gone
  PROVE  /\ DOMAIN Drop(d, gone) = DOMAIN d
         /\ \A n \in DOMAIN d :
              /\ n \in gone => Drop(d, gone)[n] = Removed
              /\ n \notin gone => /\ SameNode(Drop(d, gone)[n], d[n])
                                  /\ Drop(d, gone)[n].kids = Without(d[n].kids, gone)
<1> DEFINE e == Drop(d, gone)
<1>1. DOMAIN e = DOMAIN d
  BY DEF Drop
<1>2. ASSUME NEW n \in DOMAIN d, n \in gone PROVE e[n] = Removed
  BY <1>2 DEF Drop
<1>3. ASSUME NEW n \in DOMAIN d, n \notin gone
      PROVE  SameNode(e[n], d[n]) /\ e[n].kids = Without(d[n].kids, gone)
  <2>1. e[n] = [d[n] EXCEPT !.kids = Without(d[n].kids, gone)]
    BY <1>3 DEF Drop
  <2>2. DOMAIN d[n] = {"type", "parent", "kids", "key", "op", "style", "by"}
    BY NodeFields DEF IsTree, IsNode
  <2> HIDE DEF e
  <2>. QED
    BY <2>1, <2>2 DEF SameNode
<1>. QED
  BY <1>1, <1>2, <1>3

LEMMA DropIsTree ==
  ASSUME NEW d, IsTree(d), NEW gone, Branches(d, gone)
  PROVE  /\ IsTree(Drop(d, gone))
         /\ DOMAIN Drop(d, gone) = DOMAIN d
         /\ LiveNodes(Drop(d, gone)) = LiveNodes(d) \ gone
         /\ \A n \in LiveNodes(d) \ gone :
              /\ SameNode(Drop(d, gone)[n], d[n])
              /\ Ancestors(Drop(d, gone), n) = Ancestors(d, n)
<1> DEFINE e == Drop(d, gone)
<1>1. /\ DOMAIN e = DOMAIN d
      /\ \A n \in gone : e[n] = Removed
      /\ \A n \in DOMAIN d \ gone : SameNode(e[n], d[n]) /\ e[n].kids = Without(d[n].kids, gone)
  BY DropFields DEF Branches, LiveNodes
<1> HIDE DEF e
<1>2. LiveNodes(e) = LiveNodes(d) \ gone
  <2>1. \A n \in DOMAIN d : e[n].type = IF n \in gone THEN "REMOVED" ELSE d[n].type
    BY <1>1, NodeFields DEF SameNode
  <2>. QED
    BY <1>1, <2>1 DEF LiveNodes
<1>3. ASSUME NEW n \in gone PROVE IsNode(e, n)
  <2>1. e[n].kids = <<>> /\ e[n].type = "REMOVED" /\ e[n].parent = None /\ DOMAIN e[n] = DOMAIN Removed
    BY <1>1, <1>3, NodeFields
  <2>2. <<>> \in Seq(LiveNodes(e)) /\ ToSet(<<>>) = {} /\ IsInjective(<<>>)
    BY DEF ToSet, IsInjective
  <2>. QED
    BY <2>1, <2>2 DEF IsNode, NodeTypes
<1>4. ASSUME NEW n \in DOMAIN d \ gone PROVE IsNode(e, n)
  <2>1. IsNode(d, n) /\ SameNode(e[n], d[n]) /\ e[n].kids = Without(d[n].kids, gone)
    BY <1>1 DEF IsTree
  <2>2. d[n].kids \in Seq(LiveNodes(d)) /\ IsInjective(d[n].kids)
    BY <2>1 DEF IsNode
  <2>3. /\ e[n].kids \in Seq(LiveNodes(e)) /\ IsInjective(e[n].kids)
        /\ ToSet(e[n].kids) = ToSet(d[n].kids) \ gone
    <3>1. /\ Without(d[n].kids, gone) \in Seq(LiveNodes(d) \ gone)
          /\ ToSet(Without(d[n].kids, gone)) = ToSet(d[n].kids) \ gone
          /\ IsInjective(Without(d[n].kids, gone))
      BY <2>2, WithoutFacts
    <3>. QED
      BY <1>2, <2>1, <3>1
  <2>4. ASSUME NEW m \in ToSet(e[n].kids) PROVE e[m].parent = n
    <3>1. m \in LiveNodes(e)
      BY <2>3 DEF ToSet
    <3>2. m \in DOMAIN d \ gone /\ m \in ToSet(d[n].kids)
      BY <1>2, <2>3, <3>1 DEF LiveNodes
    <3>. QED
      BY <1>1, <2>1, <3>2 DEF IsNode, SameNode
  <2>5. d[n].type \notin {"PAGE", "REMOVED"} =>
          d[n].parent \in LiveNodes(e) /\ n \in ToSet(e[d[n].parent].kids)
    <3> SUFFICES ASSUME d[n].type \notin {"PAGE", "REMOVED"}
                 PROVE  d[n].parent \in LiveNodes(e) /\ n \in ToSet(e[d[n].parent].kids)
      OBVIOUS
    <3>1. d[n].parent \in LiveNodes(d) /\ n \in ToSet(d[d[n].parent].kids)
      BY <2>1 DEF IsNode
    <3>2. d[n].parent \notin gone
      BY DEF Branches, LiveNodes
    <3> DEFINE p == d[n].parent
    <3>3. p \in DOMAIN d \ gone
      BY <3>1, <3>2 DEF LiveNodes
    <3>4. d[p].kids \in Seq(LiveNodes(d)) /\ e[p].kids = Without(d[p].kids, gone)
      BY <1>1, <3>3 DEF IsTree, IsNode
    <3>5. ToSet(e[p].kids) = ToSet(d[p].kids) \ gone
      BY <3>4, WithoutFacts
    <3>. QED
      BY <1>2, <3>1, <3>2, <3>5
  <2>6. /\ DOMAIN e[n] = DOMAIN Removed /\ e[n].type \in NodeTypes
        /\ e[n].type = d[n].type /\ e[n].parent = d[n].parent
        /\ d[n].type \in {"PAGE", "REMOVED"} => d[n].parent = None
    BY <2>1 DEF IsNode, SameNode
  <2>. QED
    BY <2>3, <2>4, <2>5, <2>6 DEF IsNode
<1>5. ASSUME NEW S \in SUBSET DOMAIN e, S # {} PROVE \E n \in S : e[n].parent \notin S
  <2>1. PICK n \in S : d[n].parent \notin S
    BY <1>1, <1>5, LowestFirst
  <2>2. e[n].parent \in {None, d[n].parent}
    BY <1>1, NodeFields DEF SameNode
  <2>. QED
    BY <1>1, <2>1, <2>2, NoneIsNoNode
<1>6. IsTree(e)
  BY <1>1, <1>3, <1>4, <1>5 DEF IsTree
<1>7. ASSUME NEW n \in LiveNodes(d) \ gone PROVE Ancestors(e, n) = Ancestors(d, n)
  <2> DEFINE A == LiveNodes(d) \ gone
  <2>1. A \subseteq DOMAIN d /\ A \subseteq DOMAIN e
    BY <1>1 DEF LiveNodes
  <2>2. ASSUME NEW m \in A
        PROVE  /\ e[m].parent = d[m].parent
               /\ d[m].parent # None => d[m].parent \in A
    <3>1. m \in DOMAIN d \ gone
      BY <2>1
    <3>2. d[m].parent # None => d[m].parent \in LiveNodes(d)
      BY <3>1, Parents
    <3>. QED
      BY <1>1, <3>1, <3>2 DEF SameNode, Branches
  <2> HIDE DEF A
  <2>3. n \in A
    BY DEF A
  <2>. QED
    BY <1>6, <2>1, <2>2, <2>3, AncestorsAgree
<1>. QED
  BY <1>1, <1>2, <1>6, <1>7 DEF e, LiveNodes

(* What lies below some nodes, with the nodes.                             *)
LEMMA SubtreesAreBranches ==
  ASSUME NEW d, IsTree(d), NEW N, N \subseteq LiveNodes(d), \A n \in N : d[n].type # "PAGE"
  PROVE  Branches(d, N \cup UNION {Below(d, n) : n \in N})
<1> DEFINE gone == N \cup UNION {Below(d, n) : n \in N}
<1>1. ASSUME NEW n \in N, NEW m \in Below(d, n)
      PROVE  m \in LiveNodes(d) /\ d[m].type # "PAGE"
  <2>1. m \in DOMAIN d /\ Ancestors(d, m) # {}
    BY DEF Below
  <2>2. d[m].parent # None
    BY <2>1, AncestorsUnfold
  <2>. QED
    BY <2>1, <2>2, Parents DEF LiveNodes
<1>2. ASSUME NEW m \in LiveNodes(d), d[m].parent \in gone PROVE m \in gone
  <2>1. m \in DOMAIN d /\ d[m].parent # None
    BY <1>1, <1>2, NoneIsNoNode DEF LiveNodes
  <2>2. Ancestors(d, m) = {d[m].parent} \cup Ancestors(d, d[m].parent)
    BY <2>1, AncestorsUnfold
  <2>3. PICK n \in N : d[m].parent = n \/ d[m].parent \in Below(d, n)
    BY <1>2
  <2>4. n \in Ancestors(d, m)
    BY <2>2, <2>3 DEF Below
  <2>. QED
    BY <2>1, <2>4 DEF Below
<1>. QED
  BY <1>1, <1>2 DEF Branches

LEMMA HollowsAreBranches ==
  ASSUME NEW d, IsTree(d)
  PROVE  Branches(d, Hollow(d))
<1>1. ASSUME NEW n \in LiveNodes(d), d[n].parent \in Hollow(d) PROVE n \in Hollow(d)
  <2> DEFINE g == d[n].parent
  <2>1. n \in DOMAIN d /\ g # None /\ g \in Hollow(d)
    BY <1>1, NoneIsNoNode DEF Hollow, LiveNodes
  <2>2. Ancestors(d, n) = {g} \cup Ancestors(d, g)
    BY <2>1, AncestorsUnfold
  <2>3. n \in Below(d, g)
    BY <2>1, <2>2 DEF Below
  <2>4. \A m \in Below(d, n) : m \in Below(d, g)
    BY <2>2, AncestorsOfAncestors DEF Below
  <2>. QED
    BY <2>1, <2>3, <2>4 DEF Hollow
<1>. QED
  BY <1>1 DEF Branches, Hollow

(* What is left of a document d in e.                                      *)
Survive(d, e, gone) ==
  /\ DOMAIN e = DOMAIN d
  /\ LiveNodes(e) = LiveNodes(d) \ gone
  /\ \A n \in LiveNodes(d) \ gone : SameNode(e[n], d[n]) /\ Ancestors(e, n) = Ancestors(d, n)

LEMMA SweepIsDocument ==
  ASSUME NEW d, IsTree(d)
  PROVE  IsDocument(Sweep(d)) /\ Survive(d, Sweep(d), Hollow(d))
<1> DEFINE e == Sweep(d)
<1>1. IsTree(e) /\ Survive(d, e, Hollow(d))
  BY HollowsAreBranches, DropIsTree DEF Sweep, Survive
<1> HIDE DEF e
<1>2. ASSUME NEW g \in Hollow(e) PROVE FALSE
  <2>1. g \in LiveNodes(d) \ Hollow(d) /\ d[g].type = "GROUP"
    BY <1>1 DEF Hollow, Survive, SameNode
  <2>2. PICK m \in Below(d, g) : d[m].type # "GROUP"
    BY <2>1 DEF Hollow
  <2>3. m \in DOMAIN d /\ g \in Ancestors(d, m)
    BY DEF Below
  <2>4. m \in LiveNodes(d)
    <3>1. d[m].parent # None
      BY <2>3, AncestorsUnfold
    <3>. QED
      BY <2>3, <3>1, Parents DEF LiveNodes
  <2>5. m \in LiveNodes(d) \ Hollow(d)
    BY <2>2, <2>4 DEF Hollow
  <2>6. m \in Below(e, g) /\ e[m].type # "GROUP"
    BY <1>1, <2>2, <2>3, <2>5 DEF Below, Survive, SameNode
  <2>. QED
    BY <2>6 DEF Hollow
<1>. QED
  BY <1>1, <1>2 DEF IsDocument, e

LEMMA RemovalIsDocument ==
  ASSUME NEW d, IsTree(d), NEW N, N \subseteq LiveNodes(d), \A n \in N : d[n].type # "PAGE",
         NEW gone, gone = N \cup UNION {Below(d, n) : n \in N}
  PROVE  /\ IsDocument(Sweep(Drop(d, gone)))
         /\ \E swept : /\ swept \subseteq {g \in LiveNodes(d) : d[g].type = "GROUP"}
                       /\ Survive(d, Sweep(Drop(d, gone)), gone \cup swept)
<1> DEFINE e == Drop(d, gone)
           f == Sweep(e)
<1>1. Branches(d, gone)
  BY SubtreesAreBranches
<1>2. IsTree(e) /\ Survive(d, e, gone)
  BY <1>1, DropIsTree DEF Survive
<1> HIDE DEF e
<1>3. IsDocument(f) /\ Survive(e, f, Hollow(e))
  BY <1>2, SweepIsDocument
<1> HIDE DEF f
<1>4. Hollow(e) \subseteq {g \in LiveNodes(d) : d[g].type = "GROUP"}
  BY <1>2 DEF Hollow, Survive, SameNode
<1>5. Survive(d, f, gone \cup Hollow(e))
  BY <1>2, <1>3 DEF Survive, SameNode
<1>. QED
  BY <1>3, <1>4, <1>5 DEF e, f

-----------------------------------------------------------------------------
(***************************************************************************)
(* Putting a node in.                                                      *)
(***************************************************************************)
IsNew(d, node) ==
  /\ DOMAIN node = DOMAIN Removed
  /\ node.type \in NodeTypes \ {"REMOVED"} /\ node.kids = <<>>
  /\ IF node.type = "PAGE" THEN node.parent = None ELSE node.parent \in LiveNodes(d)

LEMMA NewIds ==
  ASSUME NEW d, IsTree(d)
  PROVE  /\ NewId(d) \in Nat /\ NewId(d) \notin DOMAIN d
         /\ DOMAIN d \cup {NewId(d)} = 1..NewId(d)
         /\ IsFiniteSet(DOMAIN d \cup {NewId(d)}) /\ Cardinality(DOMAIN d \cup {NewId(d)}) = NewId(d)
<1>1. Cardinality(DOMAIN d) \in Nat /\ DOMAIN d = 1..Cardinality(DOMAIN d)
  BY FS_CardinalityType DEF IsTree
<1>2. NewId(d) \in Nat /\ NewId(d) \notin DOMAIN d /\ DOMAIN d \cup {NewId(d)} = 1..NewId(d)
  BY <1>1 DEF NewId
<1>. QED
  BY <1>2, FS_AddElement DEF IsTree, NewId

LEMMA AddFields ==
  ASSUME NEW d, IsTree(d), NEW node, IsNew(d, node)
  PROVE  /\ DOMAIN Add(d, node) = DOMAIN d \cup {NewId(d)}
         /\ Add(d, node)[NewId(d)] = node
         /\ \A n \in DOMAIN d :
              /\ SameNode(Add(d, node)[n], d[n])
              /\ Add(d, node)[n].kids =
                   IF n = node.parent THEN Append(d[n].kids, NewId(d)) ELSE d[n].kids
<1> DEFINE e == Add(d, node)
<1>1. DOMAIN e = DOMAIN d \cup {NewId(d)} /\ e[NewId(d)] = node
  BY DEF Add
<1>2. ASSUME NEW n \in DOMAIN d
      PROVE  /\ SameNode(e[n], d[n])
             /\ e[n].kids = IF n = node.parent THEN Append(d[n].kids, NewId(d)) ELSE d[n].kids
  <2>1. e[n] = IF n = node.parent THEN [d[n] EXCEPT !.kids = Append(d[n].kids, NewId(d))] ELSE d[n]
    BY NewIds DEF Add
  <2>2. DOMAIN d[n] = {"type", "parent", "kids", "key", "op", "style", "by"}
    BY NodeFields DEF IsTree, IsNode
  <2> HIDE DEF e
  <2>3. CASE n = node.parent
    BY <2>1, <2>2, <2>3 DEF SameNode
  <2>4. CASE n # node.parent
    BY <2>1, <2>4 DEF SameNode
  <2>. QED
    BY <2>3, <2>4
<1>. QED
  BY <1>1, <1>2

LEMMA AddIsTree ==
  ASSUME NEW d, IsTree(d), NEW node, IsNew(d, node)
  PROVE  /\ IsTree(Add(d, node))
         /\ LiveNodes(Add(d, node)) = LiveNodes(d) \cup {NewId(d)}
         /\ \A n \in DOMAIN d : Ancestors(Add(d, node), n) = Ancestors(d, n)
<1> DEFINE e == Add(d, node)
           new == NewId(d)
           p == node.parent
<1>1. /\ DOMAIN e = DOMAIN d \cup {new} /\ e[new] = node
      /\ \A n \in DOMAIN d :
           /\ SameNode(e[n], d[n])
           /\ e[n].kids = IF n = p THEN Append(d[n].kids, new) ELSE d[n].kids
  BY AddFields
<1>2. new \notin DOMAIN d /\ new \in Nat
  BY NewIds
<1>3. p = None \/ p \in LiveNodes(d)
  BY DEF IsNew
<1>4. p # new
  BY <1>2, <1>3, NoneAssumption DEF LiveNodes
<1> HIDE DEF e, new
<1>5. LiveNodes(e) = LiveNodes(d) \cup {new}
  BY <1>1 DEF LiveNodes, SameNode, IsNew
<1>6. IsNode(e, new)
  <2>1. <<>> \in Seq(LiveNodes(e)) /\ ToSet(<<>>) = {} /\ IsInjective(<<>>)
    BY DEF ToSet, IsInjective
  <2>2. node.type # "PAGE" => p \in LiveNodes(e) /\ new \in ToSet(e[p].kids)
    <3> SUFFICES ASSUME node.type # "PAGE" PROVE p \in LiveNodes(e) /\ new \in ToSet(e[p].kids)
      OBVIOUS
    <3>1. p \in LiveNodes(d) /\ p \in DOMAIN d
      BY DEF IsNew, LiveNodes
    <3>2. d[p].kids \in Seq(LiveNodes(d)) /\ LiveNodes(d) \subseteq LiveNodes(e) /\ new \in LiveNodes(e)
      BY <1>5, <3>1 DEF IsTree, IsNode
    <3>3. d[p].kids \in Seq(LiveNodes(e))
      BY <3>2
    <3>4. ToSet(Append(d[p].kids, new)) = ToSet(d[p].kids) \cup {new}
      BY <3>2, <3>3, AppendFacts
    <3>. QED
      BY <1>1, <1>5, <3>1, <3>4
  <2>. QED
    BY <1>1, <2>1, <2>2 DEF IsNode, IsNew
<1>7. ASSUME NEW n \in DOMAIN d PROVE IsNode(e, n)
  <2>1. IsNode(d, n) /\ SameNode(e[n], d[n])
    BY <1>1 DEF IsTree
  <2>2. d[n].kids \in Seq(LiveNodes(d)) /\ IsInjective(d[n].kids) /\ ToSet(d[n].kids) \subseteq DOMAIN d
    BY <2>1 DEF IsNode, LiveNodes, ToSet
  <2>3. d[n].kids \in Seq(LiveNodes(e)) /\ new \in LiveNodes(e) /\ new \notin ToSet(d[n].kids)
    BY <1>2, <1>5, <2>2
  <2>4. n # p => e[n].kids = d[n].kids
    BY <1>1
  <2>5. n = p => /\ e[n].kids \in Seq(LiveNodes(e)) /\ IsInjective(e[n].kids)
                 /\ ToSet(e[n].kids) = ToSet(d[n].kids) \cup {new}
    <3>1. /\ Append(d[n].kids, new) \in Seq(LiveNodes(e)) /\ IsInjective(Append(d[n].kids, new))
          /\ ToSet(Append(d[n].kids, new)) = ToSet(d[n].kids) \cup {new}
      BY <2>2, <2>3, AppendFacts
    <3>. QED
      BY <1>1, <3>1
  <2>6. ASSUME NEW m \in ToSet(e[n].kids) PROVE e[m].parent = n
    <3>1. CASE m = new
      <4>1. n = p
        BY <2>3, <2>4, <2>6, <3>1
      <4>. QED
        BY <1>1, <3>1, <4>1
    <3>2. CASE m # new
      <4>1. m \in ToSet(d[n].kids)
        BY <2>4, <2>5, <2>6, <3>2
      <4>. QED
        BY <1>1, <2>1, <2>2, <4>1 DEF IsNode, SameNode
    <3>. QED
      BY <3>1, <3>2
  <2>7. d[n].type \notin {"PAGE", "REMOVED"} =>
          d[n].parent \in LiveNodes(e) /\ n \in ToSet(e[d[n].parent].kids)
    <3> SUFFICES ASSUME d[n].type \notin {"PAGE", "REMOVED"}
                 PROVE  d[n].parent \in LiveNodes(e) /\ n \in ToSet(e[d[n].parent].kids)
      OBVIOUS
    <3> DEFINE q == d[n].parent
    <3>1. q \in LiveNodes(d) /\ n \in ToSet(d[q].kids) /\ q \in DOMAIN d
      BY <2>1 DEF IsNode, LiveNodes
    <3>2. d[q].kids \in Seq(LiveNodes(e)) /\ new \in LiveNodes(e)
      <4>1. d[q].kids \in Seq(LiveNodes(d))
        BY <3>1 DEF IsTree, IsNode
      <4>. QED
        BY <1>5, <4>1
    <3>3. ToSet(Append(d[q].kids, new)) = ToSet(d[q].kids) \cup {new}
      BY <3>2, AppendFacts
    <3> HIDE DEF q
    <3>4. n \in ToSet(e[q].kids)
      BY <1>1, <3>1, <3>3
    <3>. QED
      BY <1>5, <3>1, <3>4 DEF q
  <2>8. /\ DOMAIN e[n] = DOMAIN Removed /\ e[n].type \in NodeTypes
        /\ e[n].type = d[n].type /\ e[n].parent = d[n].parent
        /\ d[n].type \in {"PAGE", "REMOVED"} => d[n].parent = None
    BY <2>1 DEF IsNode, SameNode
  <2>9. e[n].kids \in Seq(LiveNodes(e)) /\ IsInjective(e[n].kids)
    BY <2>2, <2>3, <2>4, <2>5
  <2>. QED
    BY <2>6, <2>7, <2>8, <2>9 DEF IsNode
<1>8. ASSUME NEW S \in SUBSET DOMAIN e, S # {} PROVE \E n \in S : e[n].parent \notin S
  <2>1. CASE S = {new}
    BY <1>1, <1>4, <2>1
  <2>2. CASE S # {new}
    <3>1. S \ {new} \in SUBSET DOMAIN d /\ S \ {new} # {}
      BY <1>1, <1>8, <2>2
    <3>2. PICK n \in S \ {new} : d[n].parent \notin S \ {new}
      BY <3>1, LowestFirst
    <3>3. d[n].parent # new
      BY <1>2, <3>1, Parents, NoneAssumption DEF LiveNodes
    <3>. QED
      BY <1>1, <3>1, <3>2, <3>3 DEF SameNode
  <2>. QED
    BY <2>1, <2>2
<1>9. IsTree(e)
  BY <1>1, <1>6, <1>7, <1>8, NewIds DEF IsTree, new
<1>10. ASSUME NEW n \in DOMAIN d PROVE Ancestors(e, n) = Ancestors(d, n)
  <2>1. ASSUME NEW m \in DOMAIN d
        PROVE  /\ e[m].parent = d[m].parent
               /\ d[m].parent # None => d[m].parent \in DOMAIN d
    BY <1>1, Parents DEF SameNode, LiveNodes
  <2> DEFINE A == DOMAIN d
  <2>2. A \subseteq DOMAIN d /\ A \subseteq DOMAIN e /\ n \in A
    BY <1>1
  <2>3. \A m \in A : /\ e[m].parent = d[m].parent
                     /\ d[m].parent # None => d[m].parent \in A
    BY <2>1
  <2> HIDE DEF A
  <2>. QED
    BY <1>9, <2>2, <2>3, AncestorsAgree
<1>. QED
  BY <1>5, <1>9, <1>10 DEF e, new

LEMMA AddIsDocument ==
  ASSUME NEW d, IsDocument(d), NEW node, IsNew(d, node), node.type # "GROUP"
  PROVE  IsDocument(Add(d, node))
<1> DEFINE e == Add(d, node)
           new == NewId(d)
<1>1. /\ DOMAIN e = DOMAIN d \cup {new} /\ e[new] = node
      /\ \A n \in DOMAIN d : SameNode(e[n], d[n])
  BY AddFields DEF IsDocument
<1>2. /\ IsTree(e) /\ LiveNodes(e) = LiveNodes(d) \cup {new}
      /\ \A n \in DOMAIN d : Ancestors(e, n) = Ancestors(d, n)
  BY AddIsTree DEF IsDocument
<1> HIDE DEF e, new
<1>3. ASSUME NEW g \in Hollow(e) PROVE FALSE
  <2>1. g \in LiveNodes(d) /\ d[g].type = "GROUP"
    BY <1>1, <1>2 DEF Hollow, SameNode, LiveNodes
  <2>2. PICK m \in Below(d, g) : d[m].type # "GROUP"
    BY <2>1 DEF IsDocument, Hollow
  <2>3. m \in Below(e, g) /\ e[m].type # "GROUP"
    BY <1>1, <1>2, <2>2 DEF Below, SameNode
  <2>. QED
    BY <2>3 DEF Hollow
<1>. QED
  BY <1>2, <1>3 DEF IsDocument, e

-----------------------------------------------------------------------------
(***************************************************************************)
(* Hanging nodes somewhere else: the nodes S come under p.                 *)
(***************************************************************************)
Fits(d, S, p) ==
  /\ S \subseteq LiveNodes(d) /\ \A n \in S : d[n].type # "PAGE"
  /\ p \in LiveNodes(d) /\ p \notin S /\ \A n \in S : n \notin Ancestors(d, p)

Relinked(d, e, S, p) ==
  /\ DOMAIN e = DOMAIN d
  /\ \A n \in DOMAIN d :
       /\ DOMAIN e[n] = DOMAIN d[n] /\ e[n].type = d[n].type
       /\ e[n].parent = IF n \in S THEN p ELSE d[n].parent
       /\ e[n].kids \in Seq(LiveNodes(d)) /\ IsInjective(e[n].kids)
       /\ ToSet(e[n].kids) = (ToSet(d[n].kids) \ S) \cup (IF n = p THEN S ELSE {})

LEMMA RelinkedLowest ==
  ASSUME NEW d, IsTree(d), NEW S, NEW p, Fits(d, S, p), NEW e, Relinked(d, e, S, p),
         NEW T \in SUBSET DOMAIN e, T # {}
  PROVE  \E n \in T : e[n].parent \notin T
<1> SUFFICES ASSUME \A n \in T : e[n].parent \in T PROVE FALSE
  OBVIOUS
<1>1. T \in SUBSET DOMAIN d /\ \A n \in T : e[n].parent = IF n \in S THEN p ELSE d[n].parent
  BY DEF Relinked
<1>2. PICK x \in T : d[x].parent \notin T
  BY <1>1, LowestFirst
<1>3. p \in T
  BY <1>1, <1>2
<1> DEFINE U == {m \in T : m \notin S /\ \A n \in S : n \notin Ancestors(d, m)}
<1>4. U \in SUBSET DOMAIN d /\ p \in U
  BY <1>1, <1>3 DEF Fits
<1>5. PICK m \in U : d[m].parent \notin U
  BY <1>4, LowestFirst
<1>6. m \in T /\ m \in DOMAIN d /\ d[m].parent \in T
  BY <1>1, <1>5
<1>7. d[m].parent # None
  BY <1>1, <1>6, NoneIsNoNode
<1>8. Ancestors(d, m) = {d[m].parent} \cup Ancestors(d, d[m].parent)
  BY <1>6, <1>7, AncestorsUnfold
<1>. QED
  BY <1>5, <1>6, <1>8

LEMMA RelinkedIsTree ==
  ASSUME NEW d, IsTree(d), NEW S, NEW p, Fits(d, S, p), NEW e, Relinked(d, e, S, p)
  PROVE  IsTree(e) /\ LiveNodes(e) = LiveNodes(d)
<1>1. LiveNodes(e) = LiveNodes(d)
  BY DEF LiveNodes, Relinked
<1>2. ASSUME NEW n \in DOMAIN d PROVE IsNode(e, n)
  <2>1. /\ DOMAIN e[n] = DOMAIN d[n] /\ e[n].type = d[n].type
        /\ e[n].parent = IF n \in S THEN p ELSE d[n].parent
        /\ e[n].kids \in Seq(LiveNodes(d)) /\ IsInjective(e[n].kids)
        /\ ToSet(e[n].kids) = (ToSet(d[n].kids) \ S) \cup (IF n = p THEN S ELSE {})
    BY DEF Relinked
  <2>2. IsNode(d, n)
    BY DEF IsTree
  <2>3. ASSUME NEW m \in ToSet(e[n].kids) PROVE e[m].parent = n
    <3>1. m \in DOMAIN d
      BY <2>1 DEF ToSet, LiveNodes
    <3>2. e[m].parent = IF m \in S THEN p ELSE d[m].parent
      BY <3>1 DEF Relinked
    <3>. QED
      BY <2>1, <2>2, <3>2 DEF IsNode
  <2>4. d[n].type \notin {"PAGE", "REMOVED"} =>
          e[n].parent \in LiveNodes(e) /\ n \in ToSet(e[e[n].parent].kids)
    <3> SUFFICES ASSUME d[n].type \notin {"PAGE", "REMOVED"}
                 PROVE  e[n].parent \in LiveNodes(e) /\ n \in ToSet(e[e[n].parent].kids)
      OBVIOUS
    <3>1. CASE n \in S
      <4>1. p \in DOMAIN d /\ p \in LiveNodes(d)
        BY DEF Fits, LiveNodes
      <4>2. ToSet(e[p].kids) = (ToSet(d[p].kids) \ S) \cup S
        BY <4>1 DEF Relinked
      <4>. QED
        BY <1>1, <2>1, <3>1, <4>1, <4>2
    <3>2. CASE n \notin S
      <4> DEFINE q == d[n].parent
      <4>1. q \in LiveNodes(d) /\ n \in ToSet(d[q].kids) /\ q \in DOMAIN d
        BY <2>2 DEF IsNode, LiveNodes
      <4>2. ToSet(e[q].kids) = (ToSet(d[q].kids) \ S) \cup (IF q = p THEN S ELSE {})
        BY <4>1 DEF Relinked
      <4> HIDE DEF q
      <4>3. q \in LiveNodes(e) /\ n \in ToSet(e[q].kids)
        BY <1>1, <3>2, <4>1, <4>2
      <4>. QED
        BY <2>1, <3>2, <4>3 DEF q
    <3>. QED
      BY <3>1, <3>2
  <2>5. d[n].type \in {"PAGE", "REMOVED"} => e[n].parent = None
    BY <2>1, <2>2 DEF IsNode, Fits, LiveNodes
  <2>6. DOMAIN e[n] = DOMAIN Removed /\ e[n].type \in NodeTypes
    BY <2>1, <2>2 DEF IsNode
  <2>7. e[n].kids \in Seq(LiveNodes(e)) /\ IsInjective(e[n].kids)
    BY <1>1, <2>1
  <2>. QED
    BY <2>1, <2>3, <2>4, <2>5, <2>6, <2>7 DEF IsNode
<1>3. IsFiniteSet(DOMAIN e) /\ DOMAIN e = 1..Cardinality(DOMAIN e) /\ DOMAIN e = DOMAIN d
  BY DEF IsTree, Relinked
<1>4. \A T \in SUBSET DOMAIN e : T # {} => \E n \in T : e[n].parent \notin T
  BY RelinkedLowest
<1>. QED
  BY <1>1, <1>2, <1>3, <1>4 DEF IsTree

(* Who was above a node is so still, unless it was above what moved.       *)
LEMMA RelinkedAncestors ==
  ASSUME NEW d, IsTree(d), NEW S, NEW p, Fits(d, S, p), NEW e, Relinked(d, e, S, p),
         NEW m \in DOMAIN d, NEW g \in Ancestors(d, m), \A n \in S : g \notin Ancestors(d, n)
  PROVE  g \in Ancestors(e, m)
<1> DEFINE Bad == {x \in DOMAIN d : g \in Ancestors(d, x) /\ g \notin Ancestors(e, x)}
<1> SUFFICES ASSUME Bad # {} PROVE FALSE
  OBVIOUS
<1>1. PICK x \in Bad : d[x].parent \notin Bad
  BY LowestFirst
<1>2. x \in DOMAIN d /\ x \notin S /\ d[x].parent # None
  BY AncestorsUnfold
<1>3. e[x].parent = d[x].parent /\ x \in DOMAIN e /\ IsTree(e)
  <2>1. IsTree(e)
    BY RelinkedIsTree
  <2>. QED
    BY <1>2, <2>1 DEF Relinked
<1>4. /\ d[x].parent \in DOMAIN d
      /\ Ancestors(d, x) = {d[x].parent} \cup Ancestors(d, d[x].parent)
  BY <1>2, AncestorsUnfold, Parents DEF LiveNodes
<1>5. Ancestors(e, x) = {d[x].parent} \cup Ancestors(e, d[x].parent)
  BY <1>2, <1>3, AncestorsUnfold
<1>. QED
  BY <1>1, <1>4, <1>5

(* A document in which nodes have the same place.                          *)
SamePlaces(d, e) ==
  /\ DOMAIN e = DOMAIN d
  /\ \A n \in DOMAIN d :
       /\ DOMAIN e[n] = DOMAIN d[n] /\ e[n].type = d[n].type
       /\ e[n].parent = d[n].parent /\ e[n].kids = d[n].kids

LEMMA SamePlacesIsDocument ==
  ASSUME NEW d, IsDocument(d), NEW e, SamePlaces(d, e)
  PROVE  /\ IsDocument(e) /\ LiveNodes(e) = LiveNodes(d)
         /\ \A n \in DOMAIN d : Ancestors(e, n) = Ancestors(d, n)
<1>1. LiveNodes(e) = LiveNodes(d)
  BY DEF LiveNodes, SamePlaces
<1>2. IsTree(d) /\ Hollow(d) = {}
  BY DEF IsDocument
<1>3. ASSUME NEW n \in DOMAIN d PROVE IsNode(e, n)
  <2>1. IsNode(d, n) /\ d[n].kids \in Seq(LiveNodes(d))
    BY <1>2 DEF IsTree, IsNode
  <2>2. ToSet(d[n].kids) \subseteq DOMAIN d
    BY <2>1 DEF ToSet, LiveNodes
  <2>3. d[n].parent \in LiveNodes(d) => d[n].parent \in DOMAIN d
    BY DEF LiveNodes
  <2>. QED
    BY <1>1, <2>1, <2>2, <2>3 DEF IsNode, SamePlaces
<1>4. IsTree(e)
  <2>1. \A T \in SUBSET DOMAIN e : T # {} => \E n \in T : e[n].parent \notin T
    BY <1>2, LowestFirst DEF SamePlaces
  <2>. QED
    BY <1>2, <1>3, <2>1 DEF IsTree, SamePlaces
<1>5. ASSUME NEW n \in DOMAIN d PROVE Ancestors(e, n) = Ancestors(d, n)
  <2> DEFINE A == DOMAIN d
  <2>1. A \subseteq DOMAIN d /\ A \subseteq DOMAIN e /\ n \in A
    BY DEF SamePlaces
  <2>2. \A m \in A : /\ e[m].parent = d[m].parent
                     /\ d[m].parent # None => d[m].parent \in A
    BY <1>2, Parents DEF SamePlaces, LiveNodes
  <2> HIDE DEF A
  <2>. QED
    BY <1>2, <1>4, <2>1, <2>2, AncestorsAgree
<1>6. Hollow(e) = Hollow(d)
  <2>1. \A g \in DOMAIN d : Below(e, g) = Below(d, g)
    BY <1>5 DEF Below, SamePlaces
  <2>2. \A g \in DOMAIN d : \A m \in Below(d, g) : m \in DOMAIN d
    BY DEF Below
  <2>. QED
    BY <1>1, <2>1, <2>2 DEF Hollow, SamePlaces, LiveNodes
<1>. QED
  BY <1>1, <1>2, <1>4, <1>5, <1>6 DEF IsDocument

(* What accepts a node has room for it.                                    *)
LEMMA AcceptedFits ==
  ASSUME NEW d, IsTree(d), NEW S, NEW p, S # {}, \A n \in S : Accepts(d, p, n)
  PROVE  Fits(d, S, p)
<1>1. p \in LiveNodes(d)
  BY DEF Accepts, HasChildren, Live, LiveNodes
<1>2. \A n \in S : n \in LiveNodes(d) /\ d[n].type # "PAGE" /\ n # p /\ n \notin Ancestors(d, p)
  BY DEF Accepts, Removable, Live, LiveNodes
<1>. QED
  BY <1>1, <1>2 DEF Fits

(* insertChild() before it sweeps.                                         *)
Detached(d, n) == [m \in DOMAIN d |-> [d[m] EXCEPT !.kids = Without(@, {n})]]
Inserted(d, p, i, n) ==
  LET out == Detached(d, n)
      at  == IF i > Len(out[p].kids) THEN Len(out[p].kids) ELSE i
  IN  [out EXCEPT ![n].parent = p, ![p].kids = InsertAt(@, at + 1, n)]

LEMMA InsertedRelinks ==
  ASSUME NEW d, IsTree(d), NEW p, NEW n, Fits(d, {n}, p), NEW i \in Nat
  PROVE  /\ Relinked(d, Inserted(d, p, i, n), {n}, p)
         /\ \A m \in DOMAIN d \ {n} : SameNode(Inserted(d, p, i, n)[m], d[m])
         /\ SameNode(Inserted(d, p, i, n)[n], [d[n] EXCEPT !.parent = p])
<1> DEFINE out == Detached(d, n)
           at == IF i > Len(out[p].kids) THEN Len(out[p].kids) ELSE i
           list == InsertAt(out[p].kids, at + 1, n)
           e == Inserted(d, p, i, n)
           Fields == {"type", "parent", "kids", "key", "op", "style", "by"}
<1>1. n \in DOMAIN d /\ p \in DOMAIN d /\ n # p /\ n \in LiveNodes(d) /\ p \in LiveNodes(d)
  BY DEF Fits, LiveNodes
<1>2. \A m \in DOMAIN d : DOMAIN d[m] = Fields
  BY NodeFields DEF IsTree, IsNode
<1>3. /\ DOMAIN out = DOMAIN d
      /\ \A m \in DOMAIN d : /\ DOMAIN out[m] = Fields /\ SameNode(out[m], d[m])
                             /\ out[m].kids = Without(d[m].kids, {n})
  <2>1. DOMAIN out = DOMAIN d /\ \A m \in DOMAIN d : out[m] = [d[m] EXCEPT !.kids = Without(@, {n})]
    BY DEF Detached
  <2> HIDE DEF out
  <2>. QED
    BY <1>2, <2>1 DEF SameNode
<1>4. e = [out EXCEPT ![n].parent = p, ![p].kids = list]
  BY DEF Inserted
<1> HIDE DEF e, out
<1>5. /\ DOMAIN e = DOMAIN d
      /\ e[n] = [out[n] EXCEPT !.parent = p]
      /\ e[p] = [out[p] EXCEPT !.kids = list]
      /\ \A m \in DOMAIN d \ {n, p} : e[m] = out[m]
  <2> HIDE DEF list
  <2>. QED
    BY <1>1, <1>3, <1>4
<1>6. \A m \in DOMAIN d : /\ Without(d[m].kids, {n}) \in Seq(LiveNodes(d) \ {n})
                          /\ ToSet(Without(d[m].kids, {n})) = ToSet(d[m].kids) \ {n}
                          /\ IsInjective(Without(d[m].kids, {n}))
  <2>1. \A m \in DOMAIN d : d[m].kids \in Seq(LiveNodes(d)) /\ IsInjective(d[m].kids)
    BY DEF IsTree, IsNode
  <2>. QED
    BY <2>1, WithoutFacts
<1>7. \A m \in DOMAIN d : out[m].kids \in Seq(LiveNodes(d))
  <2> SUFFICES ASSUME NEW m \in DOMAIN d PROVE out[m].kids \in Seq(LiveNodes(d))
    OBVIOUS
  <2>1. out[m].kids = Without(d[m].kids, {n}) /\ Without(d[m].kids, {n}) \in Seq(LiveNodes(d) \ {n})
    BY <1>3, <1>6
  <2>2. \A k \in Seq(LiveNodes(d) \ {n}) : k \in Seq(LiveNodes(d))
    OBVIOUS
  <2>. QED
    BY <2>1, <2>2
<1>8. list \in Seq(LiveNodes(d)) /\ IsInjective(list) /\ ToSet(list) = ToSet(d[p].kids) \cup {n}
  <2>1. out[p].kids \in Seq(LiveNodes(d)) /\ Len(out[p].kids) \in Nat
    BY <1>1, <1>7
  <2>2. at + 1 \in 1..(Len(out[p].kids) + 1)
    BY <2>1
  <2>3. IsInjective(out[p].kids) /\ ToSet(out[p].kids) = ToSet(d[p].kids) \ {n}
    BY <1>1, <1>3, <1>6
  <2> HIDE DEF at
  <2>. QED
    BY <1>1, <2>1, <2>2, <2>3, InsertFacts
<1> HIDE DEF list
<1>9. ASSUME NEW m \in DOMAIN d
      PROVE  /\ DOMAIN e[m] = Fields
             /\ e[m].type = d[m].type /\ e[m].key = d[m].key /\ e[m].op = d[m].op
             /\ e[m].style = d[m].style /\ e[m].by = d[m].by
             /\ e[m].parent = IF m = n THEN p ELSE d[m].parent
             /\ e[m].kids = IF m = p THEN list ELSE out[m].kids
  <2>1. DOMAIN out[m] = Fields /\ SameNode(out[m], d[m])
    BY <1>3
  <2>2. CASE m = n
    BY <1>1, <1>5, <2>1, <2>2 DEF SameNode
  <2>3. CASE m = p
    BY <1>1, <1>5, <2>1, <2>3 DEF SameNode
  <2>4. CASE m \notin {n, p}
    BY <1>5, <2>1, <2>4 DEF SameNode
  <2>. QED
    BY <2>2, <2>3, <2>4
<1>10. ASSUME NEW m \in DOMAIN d
       PROVE  /\ e[m].kids \in Seq(LiveNodes(d)) /\ IsInjective(e[m].kids)
              /\ ToSet(e[m].kids) = (ToSet(d[m].kids) \ {n}) \cup (IF m = p THEN {n} ELSE {})
  <2>1. CASE m = p
    BY <1>8, <1>9, <2>1
  <2>2. CASE m # p
    <3>1. e[m].kids = out[m].kids /\ out[m].kids = Without(d[m].kids, {n})
      BY <1>3, <1>9, <2>2
    <3>2. out[m].kids \in Seq(LiveNodes(d))
      BY <1>7
    <3>3. /\ IsInjective(Without(d[m].kids, {n}))
          /\ ToSet(Without(d[m].kids, {n})) = ToSet(d[m].kids) \ {n}
      BY <1>6
    <3>4. IsInjective(e[m].kids) /\ ToSet(e[m].kids) = ToSet(d[m].kids) \ {n}
      BY <3>1, <3>3
    <3>. QED
      BY <2>2, <3>1, <3>2, <3>4
  <2>. QED
    BY <2>1, <2>2
<1>11. Relinked(d, e, {n}, p)
  BY <1>2, <1>5, <1>9, <1>10 DEF Relinked
<1>12. \A m \in DOMAIN d \ {n} : SameNode(e[m], d[m])
  BY <1>2, <1>9 DEF SameNode
<1>13. SameNode(e[n], [d[n] EXCEPT !.parent = p])
  <2>1. DOMAIN d[n] = Fields
    BY <1>1, <1>2
  <2>. QED
    BY <1>1, <1>9, <2>1 DEF SameNode
<1>. QED
  BY <1>11, <1>12, <1>13 DEF e

(* insertChild(): a node keeps what it is, and where it is unless it moves.*)
(* Only groups that lose their content with the node go.                   *)
Moves(d, e, p, n) ==
  /\ DOMAIN e = DOMAIN d /\ LiveNodes(e) \subseteq LiveNodes(d)
  /\ \A g \in LiveNodes(d) \ LiveNodes(e) : d[g].type = "GROUP" /\ g \in Ancestors(d, n)
  /\ p \in LiveNodes(e) /\ n \in LiveNodes(e)
  /\ \A m \in LiveNodes(e) \ {n} : SameNode(e[m], d[m])
  /\ SameNode(e[n], [d[n] EXCEPT !.parent = p])

LEMMA InsertIsDocument ==
  ASSUME NEW d, IsDocument(d), NEW p, NEW n, Fits(d, {n}, p), NEW i \in Nat
  PROVE  IsDocument(InsertChild(d, p, i, n)) /\ Moves(d, InsertChild(d, p, i, n), p, n)
<1> DEFINE e == InsertChild(d, p, i, n)
           r == Inserted(d, p, i, n)
<1>1. /\ Relinked(d, r, {n}, p)
      /\ \A m \in DOMAIN d \ {n} : SameNode(r[m], d[m])
      /\ SameNode(r[n], [d[n] EXCEPT !.parent = p])
  BY InsertedRelinks DEF IsDocument
<1>2. e = Sweep(r)
  BY DEF InsertChild, Inserted, Detached
<1> HIDE DEF e, r
<1>3. IsTree(d) /\ IsTree(r) /\ LiveNodes(r) = LiveNodes(d) /\ DOMAIN r = DOMAIN d
  <2>1. IsTree(d)
    BY DEF IsDocument
  <2>2. IsTree(r) /\ LiveNodes(r) = LiveNodes(d)
    BY <1>1, <2>1, RelinkedIsTree
  <2>3. DOMAIN r = DOMAIN d
    BY <1>1 DEF Relinked
  <2>. QED
    BY <2>1, <2>2, <2>3
<1>4. IsDocument(e) /\ Survive(r, e, Hollow(r))
  BY <1>2, <1>3, SweepIsDocument
<1>5. n \in LiveNodes(d) /\ p \in LiveNodes(d) /\ n # p /\ LiveNodes(d) \subseteq DOMAIN d
  BY DEF Fits, LiveNodes
<1>6. \A m \in DOMAIN d : r[m].type = d[m].type
  BY <1>1 DEF Relinked
<1>7. ASSUME NEW m \in LiveNodes(d), d[m].type # "GROUP",
             NEW g \in Ancestors(d, m), g \notin Ancestors(d, n)
      PROVE  g \notin Hollow(r)
  <2>1. m \in DOMAIN d
    BY DEF LiveNodes
  <2>2. g \in Ancestors(r, m)
    BY <1>1, <1>3, <1>7, <2>1, RelinkedAncestors
  <2>3. m \in Below(r, g) /\ r[m].type # "GROUP"
    BY <1>3, <1>6, <1>7, <2>1, <2>2 DEF Below
  <2>. QED
    BY <2>3 DEF Hollow
<1>8. \A g \in LiveNodes(d) : d[g].type = "GROUP" =>
         \E m \in LiveNodes(d) : g \in Ancestors(d, m) /\ d[m].type # "GROUP"
  <2> SUFFICES ASSUME NEW g \in LiveNodes(d), d[g].type = "GROUP"
               PROVE  \E m \in LiveNodes(d) : g \in Ancestors(d, m) /\ d[m].type # "GROUP"
    OBVIOUS
  <2>1. PICK m \in Below(d, g) : d[m].type # "GROUP"
    BY DEF IsDocument, Hollow
  <2>2. m \in DOMAIN d /\ g \in Ancestors(d, m)
    BY DEF Below
  <2>3. d[m].parent # None
    BY <1>3, <2>2, AncestorsUnfold
  <2>4. m \in LiveNodes(d)
    BY <1>3, <2>2, <2>3, Parents DEF LiveNodes
  <2>. QED
    BY <2>1, <2>2, <2>4
<1>9. ASSUME NEW g \in Hollow(r) PROVE d[g].type = "GROUP" /\ g \in Ancestors(d, n)
  <2>1. g \in LiveNodes(d) /\ d[g].type = "GROUP"
    BY <1>3, <1>5, <1>6 DEF Hollow
  <2>. QED
    BY <1>7, <1>8, <2>1
<1>10. n \notin Hollow(r)
  BY <1>3, <1>5, <1>9, NotAboveItself
<1>11. p \notin Hollow(r)
  <2>1. n \in DOMAIN r /\ r[n].parent = p /\ p # None
    BY <1>1, <1>3, <1>5, NoneIsNoNode DEF Relinked
  <2>2. Ancestors(r, n) = {p} \cup Ancestors(r, p)
    BY <1>3, <2>1, AncestorsUnfold
  <2>3. CASE d[n].type # "GROUP"
    <3>1. n \in Below(r, p) /\ r[n].type # "GROUP"
      BY <1>6, <1>3, <2>1, <2>2, <2>3 DEF Below
    <3>. QED
      BY <3>1 DEF Hollow
  <2>4. CASE d[n].type = "GROUP"
    <3>1. PICK m \in LiveNodes(d) : n \in Ancestors(d, m) /\ d[m].type # "GROUP"
      BY <1>5, <1>8, <2>4
    <3>2. m \in DOMAIN d /\ m \in DOMAIN r
      BY <1>3 DEF LiveNodes
    <3>3. n \notin Ancestors(d, n)
      BY <1>3, <1>5, NotAboveItself
    <3>4. n \in Ancestors(r, m)
      BY <1>1, <1>3, <3>1, <3>2, <3>3, RelinkedAncestors
    <3>5. p \in Ancestors(r, m)
      BY <1>3, <2>2, <3>2, <3>4, AncestorsOfAncestors
    <3>6. m \in Below(r, p) /\ r[m].type # "GROUP"
      BY <1>6, <3>1, <3>2, <3>5 DEF Below
    <3>. QED
      BY <3>6 DEF Hollow
  <2>. QED
    BY <2>3, <2>4
<1>12. DOMAIN e = DOMAIN d /\ LiveNodes(e) = LiveNodes(d) \ Hollow(r)
  BY <1>3, <1>4 DEF Survive
<1>13. \A m \in LiveNodes(e) : SameNode(e[m], r[m]) /\ m \in DOMAIN d
  BY <1>3, <1>4, <1>5, <1>12 DEF Survive
<1>14. \A m \in LiveNodes(e) \ {n} : SameNode(e[m], d[m])
  BY <1>1, <1>13 DEF SameNode
<1>15. n \in LiveNodes(e) /\ p \in LiveNodes(e)
  BY <1>5, <1>10, <1>11, <1>12
<1>16. SameNode(e[n], [d[n] EXCEPT !.parent = p])
  BY <1>1, <1>13, <1>15 DEF SameNode
<1>. QED
  BY <1>4, <1>9, <1>12, <1>14, <1>15, <1>16 DEF Moves, e

-----------------------------------------------------------------------------
(***************************************************************************)
(* What the handlers rely on: a call leaves a document, and of what is not *)
(* a group only the nodes gone are lost.  No node comes back, changes its  *)
(* type or, but for an instance, its plan key, and no group gets one.      *)
(***************************************************************************)
Tags(d, e) ==
  /\ DOMAIN d \subseteq DOMAIN e
  /\ \A n \in LiveNodes(e) \cap DOMAIN d :
       /\ n \in LiveNodes(d) /\ e[n].type = d[n].type
       /\ d[n].type # "INSTANCE" => e[n].key = d[n].key
  /\ \A n \in LiveNodes(e) \ DOMAIN d : e[n].type = "GROUP" => e[n].key = None

LEMMA TagsOneAfterTheOther ==
  ASSUME NEW d, NEW e, Tags(d, e), NEW f, Tags(e, f)
  PROVE  Tags(d, f)
<1>1. ASSUME NEW n \in LiveNodes(f) \cap DOMAIN d
      PROVE  /\ n \in LiveNodes(d) /\ f[n].type = d[n].type
             /\ d[n].type # "INSTANCE" => f[n].key = d[n].key
  BY <1>1 DEF Tags
<1>2. ASSUME NEW n \in LiveNodes(f) \ DOMAIN d, f[n].type = "GROUP"
      PROVE  f[n].key = None
  <2>1. CASE n \in DOMAIN e
    <3>1. n \in LiveNodes(e) /\ e[n].type = "GROUP" /\ f[n].key = e[n].key
      BY <1>2, <2>1 DEF Tags
    <3>. QED
      BY <1>2, <3>1 DEF Tags
  <2>2. CASE n \notin DOMAIN e
    BY <1>2, <2>2 DEF Tags
  <2>. QED
    BY <2>1, <2>2
<1>. QED
  BY <1>1, <1>2 DEF Tags

LEMMA SameNodesTags ==
  ASSUME NEW d, NEW e, DOMAIN e = DOMAIN d, LiveNodes(e) \subseteq LiveNodes(d),
         \A n \in LiveNodes(e) : e[n].type = d[n].type /\ e[n].key = d[n].key
  PROVE  Tags(d, e)
BY DEF Tags, LiveNodes

LEMMA UnchangedTags ==
  ASSUME NEW d
  PROVE  Tags(d, d)
BY DEF Tags, LiveNodes

Spares(d, e, gone) ==
  /\ IsDocument(e) /\ Tags(d, e)
  /\ \A n \in LiveNodes(d) \ gone :
       d[n].type # "GROUP" => n \in LiveNodes(e) /\ e[n].type = d[n].type

LEMMA SparesOneAfterTheOther ==
  ASSUME NEW d, NEW e, NEW gone, Spares(d, e, gone), NEW f, NEW lost, Spares(e, f, lost)
  PROVE  Spares(d, f, gone \cup lost)
BY TagsOneAfterTheOther DEF Spares

LEMMA SamePlacesSpares ==
  ASSUME NEW d, IsDocument(d), NEW e, SamePlaces(d, e),
         \A n \in LiveNodes(d) : d[n].type # "INSTANCE" => e[n].key = d[n].key
  PROVE  Spares(d, e, {})
<1>1. IsDocument(e) /\ LiveNodes(e) = LiveNodes(d)
  BY SamePlacesIsDocument
<1>. QED
  BY <1>1 DEF Spares, Tags, SamePlaces, LiveNodes

LEMMA AddSpares ==
  ASSUME NEW d, IsDocument(d), NEW node, IsNew(d, node), node.type # "GROUP"
  PROVE  Spares(d, Add(d, node), {}) /\ LiveNodes(Add(d, node)) = LiveNodes(d) \cup {NewId(d)}
<1>1. IsTree(d)
  BY DEF IsDocument
<1>2. IsDocument(Add(d, node))
  BY AddIsDocument
<1>3. LiveNodes(Add(d, node)) = LiveNodes(d) \cup {NewId(d)}
  BY <1>1, AddIsTree
<1>4. \A n \in DOMAIN d : SameNode(Add(d, node)[n], d[n])
  BY <1>1, AddFields
<1>5. /\ DOMAIN Add(d, node) = DOMAIN d \cup {NewId(d)} /\ NewId(d) \notin DOMAIN d
      /\ Add(d, node)[NewId(d)] = node
  BY <1>1, AddFields, NewIds
<1>6. Tags(d, Add(d, node))
  BY <1>3, <1>4, <1>5 DEF Tags, SameNode, LiveNodes
<1>. QED
  BY <1>2, <1>3, <1>4, <1>6 DEF Spares, SameNode, LiveNodes

(* A removal: the nodes gone, and groups left empty by that, are lost, and *)
(* nothing else is changed but for the lists of children.                  *)
Loses(d, e, gone) ==
  /\ IsDocument(e) /\ DOMAIN e = DOMAIN d /\ LiveNodes(e) \subseteq LiveNodes(d) \ gone
  /\ \A n \in LiveNodes(d) \ gone : d[n].type # "GROUP" => n \in LiveNodes(e)
  /\ \A n \in LiveNodes(e) : SameNode(e[n], d[n])

LEMMA LosesSpares ==
  ASSUME NEW d, NEW e, NEW gone, Loses(d, e, gone)
  PROVE  Spares(d, e, gone)
<1>1. Tags(d, e)
  BY SameNodesTags DEF Loses, SameNode
<1>. QED
  BY <1>1 DEF Loses, Spares, SameNode

LEMMA RemovalLoses ==
  ASSUME NEW d, IsTree(d), NEW N, \A n \in N : Removable(d, n),
         NEW gone, gone = N \cup UNION {Below(d, n) : n \in N}
  PROVE  Loses(d, Sweep(Drop(d, gone)), gone) /\ \A n \in gone : d[n].type # "PAGE"
<1>1. N \subseteq LiveNodes(d) /\ \A n \in N : d[n].type # "PAGE"
  BY DEF Removable, Live, LiveNodes
<1>2. IsDocument(Sweep(Drop(d, gone)))
  BY <1>1, RemovalIsDocument
<1>3. PICK swept : /\ swept \subseteq {g \in LiveNodes(d) : d[g].type = "GROUP"}
                   /\ Survive(d, Sweep(Drop(d, gone)), gone \cup swept)
  BY <1>1, RemovalIsDocument
<1>4. Branches(d, gone)
  BY <1>1, SubtreesAreBranches
<1>. QED
  BY <1>2, <1>3, <1>4 DEF Loses, Survive, Branches

LEMMA RemoveNodeLoses ==
  ASSUME NEW d, IsTree(d), NEW n, Removable(d, n)
  PROVE  /\ Loses(d, RemoveNode(d, n), {n} \cup Below(d, n))
         /\ \A m \in {n} \cup Below(d, n) : d[m].type # "PAGE"
<1> DEFINE N == {n}
           gone == {n} \cup Below(d, n)
<1>1. gone = N \cup UNION {Below(d, m) : m \in N}
  OBVIOUS
<1>2. \A m \in N : Removable(d, m)
  OBVIOUS
<1>3. RemoveNode(d, n) = Sweep(Drop(d, gone))
  BY DEF RemoveNode
<1> HIDE DEF N, gone
<1>4. Loses(d, Sweep(Drop(d, gone)), gone) /\ \A m \in gone : d[m].type # "PAGE"
  BY <1>1, <1>2, RemovalLoses
<1>. QED
  BY <1>3, <1>4 DEF gone

LEMMA RemoveNodeSpares ==
  ASSUME NEW d, IsTree(d), NEW n, Removable(d, n)
  PROVE  /\ Spares(d, RemoveNode(d, n), {n} \cup Below(d, n))
         /\ \A m \in {n} \cup Below(d, n) : d[m].type # "PAGE"
BY RemoveNodeLoses, LosesSpares

LEMMA InsertSpares ==
  ASSUME NEW d, IsDocument(d), NEW p, NEW n, Fits(d, {n}, p), NEW i \in Nat
  PROVE  Spares(d, InsertChild(d, p, i, n), {})
<1> DEFINE e == InsertChild(d, p, i, n)
<1>0. IsDocument(e) /\ Moves(d, e, p, n)
  BY InsertIsDocument
<1> HIDE DEF e
<1>1. /\ IsDocument(e) /\ \A g \in LiveNodes(d) \ LiveNodes(e) : d[g].type = "GROUP"
      /\ \A m \in LiveNodes(e) \ {n} : SameNode(e[m], d[m])
      /\ SameNode(e[n], [d[n] EXCEPT !.parent = p])
      /\ DOMAIN e = DOMAIN d /\ LiveNodes(e) \subseteq LiveNodes(d)
  BY <1>0 DEF Moves
<1>2. e[n].type = d[n].type /\ e[n].key = d[n].key
  <2>1. n \in LiveNodes(d) /\ n \in DOMAIN d
    BY DEF Fits, LiveNodes
  <2>2. IsNode(d, n)
    BY <2>1 DEF IsDocument, IsTree
  <2>3. [d[n] EXCEPT !.parent = p].type = d[n].type /\ [d[n] EXCEPT !.parent = p].key = d[n].key
    BY <2>2, NodeFields DEF IsNode
  <2>. QED
    BY <1>1, <2>3 DEF SameNode
<1>3. \A m \in LiveNodes(e) : e[m].type = d[m].type /\ e[m].key = d[m].key
  BY <1>1, <1>2 DEF SameNode
<1>4. Tags(d, e)
  BY <1>1, <1>3, SameNodesTags
<1>. QED
  BY <1>1, <1>3, <1>4 DEF Spares, e

(* A node without children has nothing below it.                           *)
LEMMA ChildlessIsLeaf ==
  ASSUME NEW d, IsTree(d), NEW n \in DOMAIN d, d[n].kids = <<>>
  PROVE  Below(d, n) = {}
<1> SUFFICES ASSUME Below(d, n) # {} PROVE FALSE
  OBVIOUS
<1>1. Below(d, n) \in SUBSET DOMAIN d
  BY DEF Below
<1>2. PICK m \in Below(d, n) : d[m].parent \notin Below(d, n)
  BY <1>1, LowestFirst
<1>3. m \in DOMAIN d /\ n \in Ancestors(d, m)
  BY DEF Below
<1>4. d[m].parent # None /\ Ancestors(d, m) = {d[m].parent} \cup Ancestors(d, d[m].parent)
  BY <1>3, AncestorsUnfold
<1>5. d[m].parent \in DOMAIN d /\ d[m].type \notin {"PAGE", "REMOVED"}
  BY <1>3, <1>4, Parents DEF LiveNodes
<1>6. d[m].parent = n
  BY <1>2, <1>3, <1>4, <1>5 DEF Below
<1>7. m \in ToSet(d[n].kids)
  BY <1>3, <1>5, <1>6 DEF IsTree, IsNode
<1>. QED
  BY <1>7 DEF ToSet

(***************************************************************************)
(* Nodes put into a new one.                                               *)
(***************************************************************************)
Wrapped(d, type, S, p, by) ==
  LET n == NewId(d)
      e == Add(d, NewNode(type, p, by))
  IN  [m \in DOMAIN e |->
         IF m = n THEN [e[m] EXCEPT !.kids = SetToSeq(S)]
         ELSE [e[m] EXCEPT !.kids = Without(@, S), !.parent = IF m \in S THEN n ELSE @]]

LEMMA WrapFits ==
  ASSUME NEW d, IsTree(d), NEW S, NEW p, Fits(d, S, p), NEW node, IsNew(d, node), node.parent = p
  PROVE  Fits(Add(d, node), S, NewId(d)) /\ IsTree(Add(d, node))
<1> DEFINE e == Add(d, node)
           n == NewId(d)
<1>1. /\ IsTree(e) /\ LiveNodes(e) = LiveNodes(d) \cup {n}
      /\ \A m \in DOMAIN d : Ancestors(e, m) = Ancestors(d, m)
  BY AddIsTree
<1>2. /\ DOMAIN e = DOMAIN d \cup {n} /\ e[n] = node
      /\ \A m \in DOMAIN d : SameNode(e[m], d[m])
  BY AddFields
<1>3. n \notin DOMAIN d
  BY NewIds
<1> HIDE DEF e, n
<1>4. S \subseteq LiveNodes(e) /\ n \notin S /\ n \in LiveNodes(e) /\ \A m \in S : e[m].type # "PAGE"
  BY <1>1, <1>2, <1>3 DEF Fits, SameNode, LiveNodes
<1>5. p # None /\ p \in DOMAIN d
  BY NoneIsNoNode DEF Fits, LiveNodes
<1>6. Ancestors(e, n) = {p} \cup Ancestors(d, p)
  <2>1. n \in DOMAIN e /\ e[n].parent = p
    BY <1>2
  <2>. QED
    BY <1>1, <1>5, <2>1, AncestorsUnfold
<1>7. \A m \in S : m \notin Ancestors(e, n)
  BY <1>6 DEF Fits
<1>. QED
  BY <1>1, <1>4, <1>7 DEF Fits, e, n

LEMMA WrappedRelinks ==
  ASSUME NEW d, IsTree(d), NEW S, NEW p, Fits(d, S, p), NEW type, NEW by,
         NEW e, e = Add(d, NewNode(type, p, by)), IsNew(d, NewNode(type, p, by)),
         NEW w, w = Wrapped(d, type, S, p, by)
  PROVE  Relinked(e, w, S, NewId(d))
<1> DEFINE n == NewId(d)
           node == NewNode(type, p, by)
<1>1. Fits(e, S, n) /\ IsTree(e)
  <2>1. node.parent = p
    BY DEF NewNode
  <2> HIDE DEF node
  <2>2. Fits(Add(d, node), S, NewId(d)) /\ IsTree(Add(d, node))
    BY <2>1, WrapFits DEF node
  <2>. QED
    BY <2>2 DEF node
<1>2. n \in DOMAIN e /\ e[n].kids = <<>>
  <2>1. DOMAIN Add(d, node) = DOMAIN d \cup {NewId(d)} /\ Add(d, node)[NewId(d)] = node
    BY AddFields
  <2>2. node.kids = <<>>
    BY DEF NewNode
  <2>. QED
    BY <2>1, <2>2
<1>3. /\ DOMAIN w = DOMAIN e
      /\ w[n] = [e[n] EXCEPT !.kids = SetToSeq(S)]
      /\ \A m \in DOMAIN e \ {n} :
           w[m] = [e[m] EXCEPT !.kids = Without(e[m].kids, S), !.parent = IF m \in S THEN n ELSE e[m].parent]
  BY <1>2 DEF Wrapped
<1> HIDE DEF n, node
<1>4. SetToSeq(S) \in Seq(LiveNodes(e)) /\ ToSet(SetToSeq(S)) = S /\ IsInjective(SetToSeq(S))
  <2>1. S \subseteq LiveNodes(e) /\ LiveNodes(e) \subseteq DOMAIN e /\ IsFiniteSet(DOMAIN e)
    BY <1>1 DEF Fits, LiveNodes, IsTree
  <2>2. IsFiniteSet(S)
    BY <2>1, FS_Subset
  <2>3. SetToSeq(S) \in Seq(S) /\ ToSet(SetToSeq(S)) = S /\ IsInjective(SetToSeq(S))
    BY <2>2, SetToSeqFacts
  <2>. QED
    BY <2>1, <2>3
<1>5. \A m \in DOMAIN e : IsNode(e, m) /\ DOMAIN e[m] = DOMAIN Removed
  BY <1>1 DEF IsTree, IsNode
<1>6. ASSUME NEW m \in DOMAIN e
      PROVE  /\ Without(e[m].kids, S) \in Seq(LiveNodes(e)) /\ IsInjective(Without(e[m].kids, S))
             /\ ToSet(Without(e[m].kids, S)) = ToSet(e[m].kids) \ S
  <2>1. e[m].kids \in Seq(LiveNodes(e)) /\ IsInjective(e[m].kids)
    BY <1>5 DEF IsNode
  <2>2. /\ Without(e[m].kids, S) \in Seq(LiveNodes(e) \ S) /\ IsInjective(Without(e[m].kids, S))
        /\ ToSet(Without(e[m].kids, S)) = ToSet(e[m].kids) \ S
    BY <2>1, WithoutFacts
  <2>3. \A k \in Seq(LiveNodes(e) \ S) : k \in Seq(LiveNodes(e))
    OBVIOUS
  <2>. QED
    BY <2>2, <2>3
<1>7. n \notin S
  BY <1>1 DEF Fits
<1>8. ASSUME NEW m \in DOMAIN e
      PROVE  /\ DOMAIN w[m] = DOMAIN e[m] /\ w[m].type = e[m].type
             /\ w[m].parent = IF m \in S THEN n ELSE e[m].parent
             /\ w[m].kids = IF m = n THEN SetToSeq(S) ELSE Without(e[m].kids, S)
  <2>1. DOMAIN e[m] = {"type", "parent", "kids", "key", "op", "style", "by"}
    BY <1>5, NodeFields
  <2>2. CASE m = n
    BY <1>3, <1>7, <2>1, <2>2
  <2>3. CASE m # n
    <3> DEFINE kids == Without(e[m].kids, S)
               parent == IF m \in S THEN n ELSE e[m].parent
    <3>1. w[m] = [e[m] EXCEPT !.kids = kids, !.parent = parent]
      BY <1>3, <2>3
    <3> HIDE DEF kids, parent
    <3>2. /\ DOMAIN w[m] = DOMAIN e[m] /\ w[m].type = e[m].type
          /\ w[m].parent = parent /\ w[m].kids = kids
      BY <2>1, <3>1
    <3>. QED
      BY <2>3, <3>2 DEF kids, parent
  <2>. QED
    BY <2>2, <2>3
<1>9. ToSet(e[n].kids) = {}
  BY <1>2 DEF ToSet
<1>10. ASSUME NEW m \in DOMAIN e
       PROVE  /\ w[m].kids \in Seq(LiveNodes(e)) /\ IsInjective(w[m].kids)
              /\ ToSet(w[m].kids) = (ToSet(e[m].kids) \ S) \cup (IF m = n THEN S ELSE {})
  <2>1. CASE m = n
    BY <1>4, <1>8, <1>9, <2>1
  <2>2. CASE m # n
    BY <1>6, <1>8, <2>2
  <2>. QED
    BY <2>1, <2>2
<1>. QED
  BY <1>3, <1>8, <1>10 DEF Relinked, n

(* Wrap(): of what there was only groups left empty are lost, the nodes    *)
(* wrapped hang in the new node and the others where they were; the new    *)
(* node is there unless it is a group of groups that are empty.            *)
Wraps(d, f, type, S, p) ==
  /\ IsDocument(f) /\ DOMAIN f = DOMAIN d \cup {NewId(d)}
  /\ \A m \in LiveNodes(d) : d[m].type # "GROUP" => m \in LiveNodes(f)
  /\ type # "GROUP" => NewId(d) \in LiveNodes(f)
  /\ \A m \in LiveNodes(f) :
       IF m = NewId(d) THEN f[m].type = type /\ f[m].parent = p /\ f[m].key = None
       ELSE /\ m \in LiveNodes(d) /\ f[m].type = d[m].type /\ f[m].key = d[m].key
            /\ f[m].parent = IF m \in S THEN NewId(d) ELSE d[m].parent

LEMMA WrapWraps ==
  ASSUME NEW d, IsDocument(d), NEW S, NEW p, Fits(d, S, p), NEW type, NEW by,
         type \in NodeTypes \ {"REMOVED", "PAGE"}
  PROVE  Wraps(d, Wrap(d, type, S, p, by), type, S, p)
<1> DEFINE node == NewNode(type, p, by)
           e == Add(d, node)
           w == Wrapped(d, type, S, p, by)
           f == Wrap(d, type, S, p, by)
<1>1. IsTree(d)
  BY DEF IsDocument
<1>2. IsNew(d, node) /\ node.parent = p /\ node.type = type /\ node.key = None
  BY NodeFields DEF IsNew, NewNode, Fits
<1>3. f = Sweep(w)
  BY DEF Wrap, Wrapped
<1>4. Relinked(e, w, S, NewId(d))
  BY <1>1, <1>2, WrappedRelinks
<1>5. Fits(e, S, NewId(d)) /\ IsTree(e)
  BY <1>1, <1>2, WrapFits
<1>6. \A m \in DOMAIN e : w[m].key = e[m].key
  <2>1. \A m \in DOMAIN e : DOMAIN e[m] = {"type", "parent", "kids", "key", "op", "style", "by"}
    BY <1>5, NodeFields DEF IsTree, IsNode
  <2> HIDE DEF e, node
  <2>. QED
    BY <2>1 DEF Wrapped, e, node
<1> HIDE DEF w, f, node
<1>7. /\ LiveNodes(e) = LiveNodes(d) \cup {NewId(d)} /\ DOMAIN e = DOMAIN d \cup {NewId(d)}
      /\ NewId(d) \notin DOMAIN d /\ e[NewId(d)] = node
      /\ \A m \in DOMAIN d : SameNode(e[m], d[m])
  BY <1>1, <1>2, AddIsTree, AddFields, NewIds
<1>8. NewId(d) \notin S
  BY <1>7 DEF Fits, LiveNodes
<1> HIDE DEF e
<1>9. IsTree(w) /\ LiveNodes(w) = LiveNodes(e)
  BY <1>4, <1>5, RelinkedIsTree
<1>10. IsDocument(f) /\ Survive(w, f, Hollow(w))
  BY <1>3, <1>9, SweepIsDocument
<1>11. /\ DOMAIN w = DOMAIN e
       /\ \A m \in DOMAIN e : /\ w[m].type = e[m].type
                              /\ w[m].parent = IF m \in S THEN NewId(d) ELSE e[m].parent
  BY <1>4 DEF Relinked
<1>12. \A m \in LiveNodes(w) : w[m].type # "GROUP" => m \notin Hollow(w)
  BY DEF Hollow
<1>13. \A m \in LiveNodes(w) : w[m].type # "GROUP" => m \in LiveNodes(f)
  BY <1>10, <1>12 DEF Survive
<1>14. DOMAIN f = DOMAIN d \cup {NewId(d)}
  BY <1>7, <1>10, <1>11 DEF Survive
<1>15. \A m \in LiveNodes(f) :
         m \in LiveNodes(w) /\ m \in DOMAIN e /\ SameNode(f[m], w[m])
  BY <1>10, <1>11 DEF Survive, LiveNodes
<1>16. \A m \in LiveNodes(d) :
         m \in LiveNodes(w) /\ m \in DOMAIN e /\ w[m].type = d[m].type
  BY <1>7, <1>9, <1>11 DEF SameNode, LiveNodes
<1>17. NewId(d) \in LiveNodes(w) /\ w[NewId(d)].type = type
  BY <1>2, <1>7, <1>9, <1>11
<1>18. ASSUME NEW m \in LiveNodes(f), m # NewId(d)
       PROVE  /\ m \in LiveNodes(d) /\ f[m].type = d[m].type /\ f[m].key = d[m].key
              /\ f[m].parent = IF m \in S THEN NewId(d) ELSE d[m].parent
  <2>1. m \in LiveNodes(d) /\ m \in DOMAIN d /\ m \in DOMAIN e
    BY <1>7, <1>9, <1>15, <1>18 DEF LiveNodes
  <2>2. SameNode(f[m], w[m]) /\ SameNode(e[m], d[m])
    BY <1>7, <1>15, <2>1
  <2>. QED
    BY <1>6, <1>11, <2>1, <2>2 DEF SameNode
<1>19. ASSUME NEW m \in LiveNodes(f), m = NewId(d)
       PROVE  f[m].type = type /\ f[m].parent = p /\ f[m].key = None
  BY <1>2, <1>6, <1>7, <1>8, <1>11, <1>15, <1>19 DEF SameNode
<1>. QED
  BY <1>10, <1>13, <1>14, <1>16, <1>17, <1>18, <1>19 DEF Wraps, f

LEMMA WrapSpares ==
  ASSUME NEW d, IsDocument(d), NEW S, NEW p, Fits(d, S, p), NEW type, NEW by,
         type \in NodeTypes \ {"REMOVED", "PAGE"}
  PROVE  /\ Spares(d, Wrap(d, type, S, p, by), {})
         /\ DOMAIN Wrap(d, type, S, p, by) = DOMAIN d \cup {NewId(d)}
<1> DEFINE f == Wrap(d, type, S, p, by)
<1>1. Wraps(d, f, type, S, p)
  BY WrapWraps
<1> HIDE DEF f
<1>2. NewId(d) \notin DOMAIN d
  BY NewIds DEF IsDocument
<1>3. Tags(d, f)
  <2>1. DOMAIN f = DOMAIN d \cup {NewId(d)}
    BY <1>1 DEF Wraps
  <2>2. ASSUME NEW n \in LiveNodes(f), n # NewId(d)
        PROVE  n \in LiveNodes(d) /\ f[n].type = d[n].type /\ f[n].key = d[n].key
    BY <1>1, <2>2 DEF Wraps
  <2>3. NewId(d) \in LiveNodes(f) => f[NewId(d)].key = None
    BY <1>1 DEF Wraps
  <2>4. \A n \in LiveNodes(f) : n \in DOMAIN d \/ n = NewId(d)
    BY <2>1 DEF LiveNodes
  <2>. QED
    BY <1>2, <2>1, <2>2, <2>3, <2>4 DEF Tags
<1>4. \A n \in LiveNodes(d) : d[n].type # "GROUP" => n \in LiveNodes(f) /\ f[n].type = d[n].type
  BY <1>1, <1>2 DEF Wraps, LiveNodes
<1>. QED
  BY <1>1, <1>3, <1>4 DEF Wraps, Spares, f

LEMMA AcceptedWrapFits ==
  ASSUME NEW d, IsTree(d), NEW S, NEW p, CanWrap(d, S, p)
  PROVE  Fits(d, S, p)
BY AcceptedFits DEF CanWrap

(***************************************************************************)
(* The children of a group g taken out of it one after the other, each put *)
(* into the parent of the group, at places that begin with at.             *)
(***************************************************************************)
Emptying(f, d, p, at, kids, n) ==
  f = [i \in 0..n |-> IF i = 0 THEN d ELSE InsertChild(f[i - 1], p, at + i - 1, kids[i])]

LEMMA EmptyingDefined ==
  ASSUME NEW d, NEW p, NEW at, NEW kids, NEW n \in Nat
  PROVE  \E f : Emptying(f, d, p, at, kids, n)
<1> DEFINE T == {m \in Nat : ~\E f : Emptying(f, d, p, at, kids, m)}
<1> SUFFICES ASSUME T # {} PROVE FALSE
  OBVIOUS
<1>1. PICK m \in T : \A l \in T : m <= l
  <2>1. T \in SUBSET Nat
    OBVIOUS
  <2> HIDE DEF T
  <2>. QED
    BY <2>1, LeastNumber
<1>2. CASE m = 0
  <2> DEFINE f == [i \in 0..0 |-> d]
  <2>1. Emptying(f, d, p, at, kids, 0)
    BY DEF Emptying
  <2>. QED
    BY <1>1, <1>2, <2>1
<1>3. CASE m # 0
  <2>1. m - 1 \in Nat /\ m - 1 \notin T
    BY <1>1, <1>3
  <2>2. PICK f : Emptying(f, d, p, at, kids, m - 1)
    BY <2>1
  <2>3. \A i \in 0..(m - 1) :
          f[i] = IF i = 0 THEN d ELSE InsertChild(f[i - 1], p, at + i - 1, kids[i])
    BY <2>2 DEF Emptying
  <2> DEFINE g == [i \in 0..m |-> IF i < m THEN f[i]
                                  ELSE InsertChild(f[i - 1], p, at + i - 1, kids[i])]
  <2>4. \A i \in 0..m : i # 0 => g[i - 1] = f[i - 1]
    OBVIOUS
  <2>5. ASSUME NEW i \in 0..m
        PROVE  g[i] = IF i = 0 THEN d ELSE InsertChild(g[i - 1], p, at + i - 1, kids[i])
    <3>1. CASE i < m
      <4>1. g[i] = f[i] /\ i \in 0..(m - 1)
        BY <3>1
      <4> HIDE DEF g
      <4>. QED
        BY <2>3, <2>4, <4>1
    <3>2. CASE i = m
      <4>1. g[i] = InsertChild(f[i - 1], p, at + i - 1, kids[i])
        BY <3>2
      <4> HIDE DEF g
      <4>. QED
        BY <1>3, <2>4, <3>2, <4>1
    <3>. QED
      BY <3>1, <3>2
  <2>6. g = [i \in 0..m |-> IF i = 0 THEN d ELSE InsertChild(g[i - 1], p, at + i - 1, kids[i])]
    <3>1. g = [i \in 0..m |-> g[i]]
      OBVIOUS
    <3> HIDE DEF g
    <3>. QED
      BY <2>5, <3>1
  <2>7. Emptying(g, d, p, at, kids, m)
    BY <2>6 DEF Emptying
  <2>. QED
    BY <1>1, <2>7
<1>. QED
  BY <1>2, <1>3

(* Where the loop stands: the children left are still in the group.        *)
Leaving(d, e, g, p, left) ==
  /\ Spares(d, e, {})
  /\ p \in LiveNodes(e)
  /\ g \in LiveNodes(e) => e[g].parent = p
  /\ \A n \in left : n \in LiveNodes(e) /\ e[n].parent = g

LEMMA OneLeaves ==
  ASSUME NEW d, NEW e, NEW g, NEW p, NEW left, Leaving(d, e, g, p, left), g # None,
         NEW n \in left, NEW at \in Nat
  PROVE  Leaving(d, InsertChild(e, p, at, n), g, p, left \ {n})
<1> DEFINE f == InsertChild(e, p, at, n)
<1>1. IsDocument(e) /\ IsTree(e)
  BY DEF Leaving, Spares, IsDocument
<1>2. /\ \A m \in left : m \in LiveNodes(e) /\ m \in DOMAIN e /\ e[m].parent = g
      /\ p \in LiveNodes(e) /\ p \in DOMAIN e
  BY DEF Leaving, LiveNodes
<1>3. g \in LiveNodes(e) /\ g \in DOMAIN e
  BY <1>1, <1>2, Parents DEF LiveNodes
<1>4. e[g].parent = p /\ p # None
  BY <1>1, <1>2, <1>3, NoneIsNoNode DEF Leaving
<1>5. Ancestors(e, g) = {p} \cup Ancestors(e, p)
  BY <1>1, <1>3, <1>4, AncestorsUnfold
<1>6. \A m \in left : Ancestors(e, m) = {g, p} \cup Ancestors(e, p)
  <2>1. \A m \in left : Ancestors(e, m) = {g} \cup Ancestors(e, g)
    BY <1>1, <1>2, AncestorsUnfold
  <2>. QED
    BY <1>5, <2>1
<1>7. \A m \in left : m \notin {g, p} \cup Ancestors(e, p)
  BY <1>1, <1>2, <1>6, NotAboveItself
<1>8. Fits(e, {n}, p)
  <2>1. e[n].type # "PAGE"
    BY <1>1, <1>2, Parents
  <2>. QED
    BY <1>2, <1>7, <2>1 DEF Fits
<1>9. Spares(e, f, {})
  BY <1>1, <1>8, InsertSpares
<1> HIDE DEF f
<1>10. /\ LiveNodes(f) \subseteq LiveNodes(e) /\ p \in LiveNodes(f)
       /\ \A m \in LiveNodes(e) \ LiveNodes(f) : m \in Ancestors(e, n)
       /\ \A m \in LiveNodes(f) \ {n} : SameNode(f[m], e[m])
  BY <1>1, <1>8, InsertIsDocument DEF Moves, f
<1>11. Spares(d, f, {})
  <2>1. Spares(d, e, {})
    BY DEF Leaving
  <2>2. Spares(d, f, {} \cup {})
    BY <1>9, <2>1, SparesOneAfterTheOther
  <2>. QED
    BY <2>2
<1>12. g \in LiveNodes(f) => f[g].parent = p
  BY <1>4, <1>7, <1>10 DEF SameNode
<1>13. \A m \in left \ {n} : m \in LiveNodes(f) /\ f[m].parent = g
  <2> SUFFICES ASSUME NEW m \in left \ {n} PROVE m \in LiveNodes(f) /\ f[m].parent = g
    OBVIOUS
  <2>1. m \notin Ancestors(e, n)
    BY <1>6, <1>7
  <2>2. m \in LiveNodes(f)
    BY <1>2, <1>10, <2>1
  <2>. QED
    BY <1>2, <1>10, <2>2 DEF SameNode
<1>. QED
  BY <1>10, <1>11, <1>12, <1>13 DEF Leaving, f

(* handleUngroupNode: the children of a group put into its parent one      *)
(* after the other, whereupon Figma removes the group, lose nothing and    *)
(* leave a document, whatever their number.                                *)
THEOREM EmptyingSpares ==
  ASSUME NEW d, IsDocument(d), NEW g, g \in LiveNodes(d), d[g].type # "PAGE",
         NEW at \in Nat, NEW f, Emptying(f, d, d[g].parent, at, d[g].kids, Len(d[g].kids))
  PROVE  Spares(d, f[Len(d[g].kids)], {})
<1> DEFINE p == d[g].parent
           kids == d[g].kids
           Left(i) == {kids[j] : j \in (i + 1)..Len(kids)}
           Good(i) == Leaving(d, f[i], g, p, Left(i))
           T == {i \in 0..Len(kids) : ~Good(i)}
<1>1. IsTree(d) /\ g \in DOMAIN d /\ IsNode(d, g) /\ d[g].type \notin {"PAGE", "REMOVED"}
  BY DEF IsDocument, IsTree, LiveNodes
<1>2. /\ kids \in Seq(LiveNodes(d)) /\ IsInjective(kids) /\ p \in LiveNodes(d)
      /\ Len(kids) \in Nat /\ DOMAIN kids = 1..Len(kids)
  BY <1>1 DEF IsNode
<1>3. \A j \in 1..Len(kids) : kids[j] \in LiveNodes(d) /\ d[kids[j]].parent = g
  <2>1. \A m \in ToSet(kids) : d[m].parent = g
    BY <1>1 DEF IsNode
  <2> HIDE DEF kids
  <2>. QED
    BY <1>2, <2>1 DEF ToSet
<1>4. g # None
  BY <1>1, NoneIsNoNode
<1>5. \A i \in 0..Len(kids) :
        f[i] = IF i = 0 THEN d ELSE InsertChild(f[i - 1], p, at + i - 1, kids[i])
  BY <1>2 DEF Emptying
<1> HIDE DEF kids
<1>6. Good(0)
  <2>1. f[0] = d
    BY <1>2, <1>5
  <2>2. Spares(d, d, {})
    BY UnchangedTags DEF Spares
  <2>3. \A n \in Left(0) : n \in LiveNodes(d) /\ d[n].parent = g
    BY <1>3
  <2>. QED
    BY <1>2, <2>1, <2>2, <2>3 DEF Leaving
<1> HIDE DEF p
<1>7. ASSUME NEW i \in 1..Len(kids), Good(i - 1) PROVE Good(i)
  <2>1. /\ f[i] = InsertChild(f[i - 1], p, at + i - 1, kids[i]) /\ at + i - 1 \in Nat
        /\ kids[i] \in Left(i - 1)
    BY <1>2, <1>5
  <2>2. Left(i) = Left(i - 1) \ {kids[i]}
    <3>1. \A j \in 1..Len(kids) : j # i => kids[j] # kids[i]
      BY <1>2 DEF IsInjective
    <3>2. \A j : j \in i..Len(kids) <=> j = i \/ j \in (i + 1)..Len(kids)
      BY <1>2
    <3>3. \A j \in (i + 1)..Len(kids) : j \in 1..Len(kids) /\ j # i
      BY <1>2
    <3>4. i - 1 + 1 = i
      OBVIOUS
    <3>. QED
      BY <3>1, <3>2, <3>3, <3>4
  <2> HIDE DEF Left
  <2>3. \A e, left, n, k : Leaving(d, e, g, p, left) /\ n \in left /\ k \in Nat =>
           Leaving(d, InsertChild(e, p, k, n), g, p, left \ {n})
    BY <1>4, OneLeaves
  <2>4. Leaving(d, InsertChild(f[i - 1], p, at + i - 1, kids[i]), g, p, Left(i - 1) \ {kids[i]})
    BY <1>7, <2>1, <2>3
  <2>. QED
    BY <2>1, <2>2, <2>4
<1>8. \A i \in 0..Len(kids) : Good(i)
  <2> SUFFICES ASSUME T # {} PROVE FALSE
    OBVIOUS
  <2>1. T \in SUBSET Nat
    BY <1>2
  <2> HIDE DEF T
  <2>2. PICK m \in T : \A l \in T : m <= l
    BY <2>1, LeastNumber
  <2>3. m \in 0..Len(kids) /\ ~Good(m) /\ \A l \in 0..Len(kids) : ~Good(l) => m <= l
    BY <2>2 DEF T
  <2> HIDE DEF Good
  <2>4. m # 0
    BY <1>6, <2>3
  <2>5. m \in 1..Len(kids) /\ m - 1 \in 0..Len(kids) /\ ~(m <= m - 1)
    BY <1>2, <2>3, <2>4
  <2>. QED
    BY <1>7, <2>3, <2>5
<1>9. Len(kids) \in 0..Len(kids)
  BY <1>2
<1>. QED
  BY <1>8, <1>9 DEF Leaving, kids

(* The handlers ask Figma in these forms.                                  *)
LEMMA AcceptedSpares ==
  ASSUME NEW d, IsDocument(d), NEW p, NEW n, Accepts(d, p, n), NEW i \in Nat
  PROVE  Spares(d, InsertChild(d, p, i, n), {})
<1>1. Fits(d, {n}, p)
  <2> DEFINE S == {n}
  <2>1. S # {} /\ \A m \in S : Accepts(d, p, m)
    OBVIOUS
  <2> HIDE DEF S
  <2>2. Fits(d, S, p)
    BY <2>1, AcceptedFits DEF IsDocument
  <2>. QED
    BY <2>2 DEF S
<1>. QED
  BY <1>1, InsertSpares

LEMMA AppendSpares ==
  ASSUME NEW d, IsDocument(d), NEW p, NEW n, Accepts(d, p, n)
  PROVE  Spares(d, AppendChild(d, p, n), {}) /\ Len(d[p].kids) \in Nat
<1>1. d[p].kids \in Seq(LiveNodes(d))
  BY DEF IsDocument, IsTree, IsNode, Accepts, HasChildren, Live
<1>2. Len(d[p].kids) \in Nat
  BY <1>1
<1>. QED
  BY <1>2, AcceptedSpares DEF AppendChild

LEMMA AcceptedWrapSpares ==
  ASSUME NEW d, IsDocument(d), NEW S, NEW p, CanWrap(d, S, p), NEW type, NEW by,
         type \in NodeTypes \ {"REMOVED", "PAGE"}
  PROVE  /\ Spares(d, Wrap(d, type, S, p, by), {})
         /\ DOMAIN Wrap(d, type, S, p, by) = DOMAIN d \cup {NewId(d)}
<1>1. Fits(d, S, p)
  BY AcceptedWrapFits DEF IsDocument
<1>. QED
  BY <1>1, WrapSpares

(* What is written on a node changes no places; of the instances only the  *)
(* key is, and once.                                                       *)
Written(d, n, v, e) ==
  \/ n \in LiveNodes(d) /\ d[n].type = "INSTANCE" /\ e = [d EXCEPT ![n].key = v]
  \/ e = [d EXCEPT ![n].op = v]
  \/ e = [d EXCEPT ![n].style = v]

LEMMA WritingSpares ==
  ASSUME NEW d, IsDocument(d), NEW n, NEW v, NEW e, Written(d, n, v, e)
  PROVE  Spares(d, e, {})
<1>1. \A m \in DOMAIN d : DOMAIN d[m] = {"type", "parent", "kids", "key", "op", "style", "by"}
  BY NodeFields DEF IsDocument, IsTree, IsNode
<1>2. SamePlaces(d, e)
  <2>1. CASE e = [d EXCEPT ![n].key = v]
    BY <1>1, <2>1 DEF SamePlaces
  <2>2. CASE e = [d EXCEPT ![n].op = v]
    BY <1>1, <2>2 DEF SamePlaces
  <2>3. CASE e = [d EXCEPT ![n].style = v]
    BY <1>1, <2>3 DEF SamePlaces
  <2>. QED
    BY <2>1, <2>2, <2>3 DEF Written
<1>3. \A m \in LiveNodes(d) : d[m].type # "INSTANCE" => e[m].key = d[m].key
  BY <1>1 DEF Written, LiveNodes
<1>. QED
  BY <1>2, <1>3, SamePlacesSpares

-----------------------------------------------------------------------------
LEMMA ChildrenAreDeeper ==
  ASSUME NEW d, IsTree(d), NEW T \in SUBSET DOMAIN d, T # {}
  PROVE  \E n \in T : \A m \in T : m \notin ToSet(d[n].kids)
<1> DEFINE all == Cardinality(DOMAIN d)
           size == [n \in DOMAIN d |-> all - Cardinality(Ancestors(d, n))]
<1>1. IsFiniteSet(DOMAIN d) /\ all \in Nat
  BY FS_CardinalityType DEF IsTree
<1>2. \A n \in DOMAIN d : IsFiniteSet(Ancestors(d, n)) /\ Cardinality(Ancestors(d, n)) \in Nat
                          /\ Cardinality(Ancestors(d, n)) <= all
  <2> TAKE n \in DOMAIN d
  <2>1. Ancestors(d, n) \subseteq DOMAIN d
    BY AncestorsUnfold DEF LiveNodes
  <2>. QED
    BY <1>1, <2>1, FS_Subset, FS_CardinalityType
<1> HIDE DEF all
<1>3. size \in [DOMAIN d -> Nat]
  BY <1>1, <1>2
<1>4. PICK n \in T : \A m \in T : size[n] <= size[m]
  <2> HIDE DEF size
  <2>. QED
    BY <1>3, LeastSize
<1>5. ASSUME NEW m \in T, m \in ToSet(d[n].kids) PROVE FALSE
  <2>1. n \in DOMAIN d /\ m \in DOMAIN d /\ d[m].parent = n
    BY <1>5 DEF IsTree, IsNode
  <2>2. d[m].parent # None
    BY <2>1, NoneIsNoNode
  <2>3. Ancestors(d, m) = Ancestors(d, n) \cup {n} /\ n \notin Ancestors(d, n)
    BY <2>1, <2>2, AncestorsUnfold, NotAboveItself
  <2>4. Cardinality(Ancestors(d, m)) = Cardinality(Ancestors(d, n)) + 1
    <3>1. PICK A : A = Ancestors(d, n)
      OBVIOUS
    <3>2. IsFiniteSet(A) /\ n \notin A
      BY <1>2, <2>1, <2>3, <3>1
    <3>3. Cardinality(A \cup {n}) = Cardinality(A) + 1
      BY <3>2, FS_AddElement
    <3>. QED
      BY <2>3, <3>1, <3>3
  <2>5. size[m] < size[n]
    BY <1>1, <1>2, <2>1, <2>4
  <2> HIDE DEF size
  <2>6. size[m] \in Nat /\ size[n] \in Nat
    BY <1>3, <2>1
  <2>. QED
    BY <1>4, <2>5, <2>6
<1>. QED
  BY <1>5

(* A walk meets nodes of the document, and no instance.                    *)
LEMMA WalkRange ==
  ASSUME NEW d, IsTree(d), NEW n \in DOMAIN d
  PROVE  Walk(d, n) \in Seq({m \in DOMAIN d : d[m].type # "INSTANCE"})
<1> DEFINE D == DOMAIN d
           E == {m \in DOMAIN d : d[m].type # "INSTANCE"}
           V == Seq(E)
           Prec == {e \in D \X D : e[1] \in ToSet(d[e[2]].kids)}
           Lists(f, m) == [i \in DOMAIN d[m].kids |-> f[d[m].kids[i]]]
           Val(f, m) == IF d[m].type = "INSTANCE" THEN <<>> ELSE <<m>> \o FlattenSeq(Lists(f, m))
           Step == [e \in D \X [D -> V] |-> Val(e[2], e[1])]
           walk == CHOOSE f : f = [m \in D |-> Val(f, m)]
<1>1. Walk(d, n) = walk[n]
  BY DEF Walk
<1>2. Grounded(Prec, D)
  <2> SUFFICES ASSUME NEW T \in SUBSET D, T # {}
               PROVE  \E x \in T : \A y \in T : <<y, x>> \notin Prec
    BY DEF Grounded
  <2>1. PICK x \in T : \A y \in T : y \notin ToSet(d[x].kids)
    BY ChildrenAreDeeper
  <2>. QED
    BY <2>1
<1>3. \A m \in D : /\ d[m].kids \in Seq(D)
                   /\ \A i \in DOMAIN d[m].kids : d[m].kids[i] \in D /\ <<d[m].kids[i], m>> \in Prec
  <2> TAKE m \in D
  <2>1. d[m].kids \in Seq(LiveNodes(d))
    BY DEF IsTree, IsNode
  <2>2. d[m].kids \in Seq(D)
    BY <2>1 DEF LiveNodes
  <2>. QED
    BY <2>2 DEF ToSet
<1>4. ASSUME NEW f \in [D -> V], NEW m \in D PROVE Val(f, m) \in V
  <2>1. Lists(f, m) \in Seq(V)
    <3>1. d[m].kids \in Seq(D)
      BY <1>3
    <3> HIDE DEF V, D
    <3>. QED
      BY <3>1
  <2>2. FlattenSeq(Lists(f, m)) \in Seq(E)
    <3> HIDE DEF Lists, E
    <3>. QED
      BY <2>1, FlatteningKeepsElements
  <2>3. CASE d[m].type = "INSTANCE"
    BY <2>3, EmptySeq
  <2>4. CASE d[m].type # "INSTANCE"
    <3>1. <<m>> \in Seq(E)
      BY <2>4
    <3> HIDE DEF Lists, E
    <3>. QED
      BY <2>2, <2>4, <3>1, ConcatProperties
  <2>. QED
    BY <2>3, <2>4
<1>5. ASSUME NEW f, NEW g, NEW m \in D, \A y \in D : <<y, m>> \in Prec => f[y] = g[y]
      PROVE  Val(f, m) = Val(g, m)
  <2>1. Lists(f, m) = Lists(g, m)
    <3>1. \A i \in DOMAIN d[m].kids : f[d[m].kids[i]] = g[d[m].kids[i]]
      BY <1>3, <1>5
    <3>. QED
      BY <3>1
  <2> HIDE DEF Lists
  <2>. QED
    BY <2>1
<1> HIDE DEF Prec, Lists
<1>6. ASSUME NEW m \in D, NEW f \in [D -> V] PROVE Step[<<m, f>>] = Val(f, m) /\ Step[<<m, f>>] \in V
  <2>1. <<m, f>> \in D \X [D -> V]
    OBVIOUS
  <2>2. Step[<<m, f>>] = Val(f, m)
    BY <2>1
  <2> HIDE DEF V, D, Val, Step
  <2>. QED
    BY <1>4, <2>2
<1>7. Step \in [D \X [D -> V] -> V]
  <2> SUFFICES ASSUME NEW e \in D \X [D -> V] PROVE Val(e[2], e[1]) \in V
    OBVIOUS
  <2>1. e[1] \in D /\ e[2] \in [D -> V]
    OBVIOUS
  <2> HIDE DEF V, D, Val
  <2>. QED
    BY <1>4, <2>1
<1>8. LooksBelow(Step, Prec, D, V)
  <2> SUFFICES ASSUME NEW m \in D, NEW g \in [D -> V], NEW h \in [D -> V],
                      \A y \in D : <<y, m>> \in Prec => g[y] = h[y]
               PROVE  Step[<<m, g>>] = Step[<<m, h>>]
    BY DEF LooksBelow
  <2> HIDE DEF V, D, Val, Step
  <2>1. Val(g, m) = Val(h, m)
    BY <1>5
  <2>. QED
    BY <1>6, <2>1
<1>9. PICK f \in [D -> V] : \A m \in D : f[m] = Step[<<m, f>>]
  <2>1. V # {}
    BY EmptySeq
  <2> HIDE DEF V, D, Step
  <2>2. IsRecursion(Step, Prec, D, V)
    BY <1>2, <1>7, <1>8, <2>1 DEF IsRecursion
  <2>3. HasSolution(Step, D, V)
    BY <2>2, RecursionTheorem
  <2>. QED
    BY <2>3 DEF HasSolution
<1>10. \A m \in D : f[m] = Val(f, m)
  BY <1>6, <1>9
<1> HIDE DEF Step, V, D, Val
<1>11. f = [m \in D |-> Val(f, m)]
  BY <1>9, <1>10
<1>12. walk = [m \in D |-> Val(walk, m)]
  BY <1>11, Zenon
<1> HIDE DEF walk
<1>13. \A m \in D : walk[m] = Val(walk, m)
  BY <1>12
<1>14. \A m \in D : walk[m] = f[m]
  <2> DEFINE T == {m \in D : walk[m] # f[m]}
  <2> SUFFICES ASSUME T # {} PROVE FALSE
    OBVIOUS
  <2>1. PICK x \in T : \A y \in T : <<y, x>> \notin Prec
    BY <1>2 DEF Grounded
  <2>2. \A y \in D : <<y, x>> \in Prec => walk[y] = f[y]
    BY <2>1
  <2>3. Val(walk, x) = Val(f, x)
    BY <1>5, <2>2
  <2>. QED
    BY <1>10, <1>13, <2>3
<1>15. walk[n] \in V
  BY <1>9, <1>14 DEF D
<1>. QED
  BY <1>1, <1>15 DEF V, E
=============================================================================
