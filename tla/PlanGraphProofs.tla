--------------------------- MODULE PlanGraphProofs ---------------------------
(***************************************************************************)
(* The two walks of PlanGraph, for every plan: preflightPlan() reports a   *)
(* cycle just when there is one, and topologicalOrder() of a plan without  *)
(* one is a running order.  That there is no cycle is also the induction   *)
(* principle of these proofs: every set of steps has one that depends on   *)
(* none of the set.                                                        *)
(***************************************************************************)
EXTENDS PlanGraph, RecursiveFunctions, FiniteSetTheorems

(* What buildPlan() makes: arrays of ids.                                  *)
PlanShape(p) ==
  /\ p.steps \in Seq(Ids(p))
  /\ \A s \in Ids(p) : p.dependsOn[s] \in Seq(ToSet(p.dependsOn[s]))

LEMMA DepsAreNamed ==
  ASSUME NEW p, PlanShape(p)
  PROVE  /\ p.steps \in Seq(Named(p))
         /\ \A s \in Ids(p) : p.dependsOn[s] \in Seq(Named(p))
<1>1. Ids(p) \subseteq Named(p) /\ \A s \in Ids(p) : ToSet(p.dependsOn[s]) \subseteq Named(p)
  BY DEF Named
<1>. QED
  BY <1>1 DEF PlanShape

(* A nonempty sequence is its head and its tail.                           *)
LEMMA HeadAndTail ==
  ASSUME NEW S, NEW t \in Seq(S), t # <<>>
  PROVE  /\ Head(t) \in S /\ Tail(t) \in Seq(S)
         /\ Len(Tail(t)) \in Nat /\ Len(Tail(t)) < Len(t)
         /\ ToSet(t) = {Head(t)} \cup ToSet(Tail(t))
<1>1. Head(t) = t[1] /\ Len(t) \in Nat \ {0} /\ Len(Tail(t)) = Len(t) - 1
  OBVIOUS
<1>2. \A i \in 1..(Len(t) - 1) : Tail(t)[i] = t[i + 1]
  OBVIOUS
<1>3. ASSUME NEW x \in ToSet(t), x # Head(t)
      PROVE  x \in ToSet(Tail(t))
  <2>1. PICK i \in 1..Len(t) : x = t[i]
    BY DEF ToSet
  <2>2. i # 1 /\ i - 1 \in 1..Len(Tail(t)) /\ Tail(t)[i - 1] = x
    BY <1>1, <1>2, <1>3, <2>1
  <2>3. DOMAIN Tail(t) = 1..Len(Tail(t))
    OBVIOUS
  <2>. QED
    BY <2>2, <2>3 DEF ToSet
<1>4. ASSUME NEW x \in ToSet(Tail(t))
      PROVE  x \in ToSet(t)
  <2>1. PICK i \in 1..Len(Tail(t)) : x = Tail(t)[i]
    BY DEF ToSet
  <2>2. i + 1 \in 1..Len(t) /\ t[i + 1] = x
    BY <1>1, <1>2, <2>1
  <2>. QED
    BY <2>2 DEF ToSet
<1>5. Head(t) \in ToSet(t)
  BY <1>1 DEF ToSet
<1>. QED
  BY <1>1, <1>3, <1>4, <1>5

-----------------------------------------------------------------------------
(***************************************************************************)
(* What a step depends on, directly or not.                                *)
(***************************************************************************)
Closed(p, Q) ==
  Q \subseteq Ids(p) /\ \A s \in Q : ToSet(p.dependsOn[s]) \cap Ids(p) \subseteq Q

(* The steps of A and all they depend on: the least closed set with A.     *)
Reach(p, A) ==
  {s \in Ids(p) : \A Q \in SUBSET Ids(p) : Closed(p, Q) /\ A \cap Ids(p) \subseteq Q => s \in Q}

LEMMA ReachIsLeast ==
  ASSUME NEW p, NEW A
  PROVE  /\ A \cap Ids(p) \subseteq Reach(p, A)
         /\ Closed(p, Reach(p, A))
         /\ \A Q : Closed(p, Q) /\ A \cap Ids(p) \subseteq Q => Reach(p, A) \subseteq Q
BY DEF Reach, Closed

LEMMA ReachGrows ==
  ASSUME NEW p, NEW A, NEW B, B \cap Ids(p) \subseteq Reach(p, A)
  PROVE  Reach(p, B) \subseteq Reach(p, A)
BY ReachIsLeast

(* In a plan without a cycle no step depends on itself.                    *)
LEMMA NoStepNeedsItself ==
  ASSUME NEW p, NEW s \in Ids(p), s \in Reach(p, ToSet(p.dependsOn[s]))
  PROVE  Cyclic(p)
<1> DEFINE Avoids(Q, x) == Closed(p, Q) /\ x \in Q /\ s \notin Q
           C == {x \in Ids(p) : ~ \E Q \in SUBSET Ids(p) : Avoids(Q, x)}
           R == UNION {Q \in SUBSET Ids(p) : Closed(p, Q) /\ s \notin Q}
<1>1. s \in C
  OBVIOUS
<1>2. Closed(p, R) /\ s \notin R /\ \A x \in Ids(p) : x \in C <=> x \notin R
  BY DEF Closed
<1> HIDE DEF C, R
<1>3. ASSUME NEW x \in C, \A d \in C : d \notin ToSet(p.dependsOn[x])
      PROVE  FALSE
  <2>0. x \in Ids(p) /\ C \subseteq Ids(p)
    BY <1>3 DEF C
  <2>1. ToSet(p.dependsOn[x]) \cap Ids(p) \subseteq R
    BY <1>2, <1>3
  <2>2. CASE x = s
    BY <1>2, <2>1, <2>2, ReachIsLeast
  <2>3. CASE x # s
    <3>1. Closed(p, R \cup {x}) /\ s \notin R \cup {x}
      BY <1>2, <2>0, <2>1, <2>3 DEF Closed
    <3>2. x \in R
      BY <3>1 DEF R, Closed
    <3>. QED
      BY <1>2, <2>0, <3>2
  <2>. QED
    BY <2>2, <2>3
<1>4. C \in (SUBSET Ids(p)) \ {{}}
  BY <1>1 DEF C
<1>. QED
  BY <1>3, <1>4 DEF Cyclic

-----------------------------------------------------------------------------
(***************************************************************************)
(* topologicalOrder().                                                     *)
(***************************************************************************)

(* The calls visit() makes: for the rest of the loop and for the ids a     *)
(* step names.                                                             *)
OrderPrec(p) ==
  {e \in Seq(Named(p)) \X Seq(Named(p)) :
     /\ e[2] # <<>>
     /\ \/ e[1] = Tail(e[2])
        \/ Head(e[2]) \in Ids(p) /\ e[1] = p.dependsOn[Head(e[2])]}

(* Without a cycle the walk ends.                                          *)
LEMMA OrderGrounded ==
  ASSUME NEW p, PlanShape(p), ~Cyclic(p)
  PROVE  Grounded(OrderPrec(p), Seq(Named(p)))
<1> SUFFICES ASSUME NEW T \in SUBSET Seq(Named(p)), T # {},
                    \A x \in T : \E y \in T : <<y, x>> \in OrderPrec(p)
             PROVE  FALSE
  BY DEF Grounded
<1> DEFINE Safe(s) == s \in Ids(p) => p.dependsOn[s] \notin T
<1>1. ASSUME NEW t \in T, \A s \in ToSet(t) : Safe(s)
      PROVE  FALSE
  <2> DEFINE B == {u \in T : \A s \in ToSet(u) : Safe(s)}
             size == [u \in Seq(Named(p)) |-> Len(u)]
  <2>1. size \in [Seq(Named(p)) -> Nat] /\ B \in SUBSET Seq(Named(p)) /\ B # {}
    BY <1>1
  <2>2. PICK u \in B : \A w \in B : size[u] <= size[w]
    <3> HIDE DEF B, size
    <3>. QED
      BY <2>1, LeastSize
  <2>3. PICK y \in T : <<y, u>> \in OrderPrec(p)
    OBVIOUS
  <2>4. u # <<>> /\ (y = Tail(u) \/ (Head(u) \in Ids(p) /\ y = p.dependsOn[Head(u)]))
    BY <2>3 DEF OrderPrec
  <2>5. Head(u) \in ToSet(u) /\ ToSet(Tail(u)) \subseteq ToSet(u) /\ Len(Tail(u)) < Len(u)
    BY <2>4, HeadAndTail
  <2>6. y = Tail(u)
    BY <2>4, <2>5
  <2>7. y \in B /\ ~(size[u] <= size[y])
    BY <2>5, <2>6
  <2>. QED
    BY <2>2, <2>7
<1>2. \A s \in Ids(p) : Safe(s)
  <2> DEFINE C == {s \in Ids(p) : ~Safe(s)}
  <2> SUFFICES ASSUME C # {} PROVE FALSE
    OBVIOUS
  <2>1. PICK s \in C : \A d \in C : d \notin ToSet(p.dependsOn[s])
    BY DEF Cyclic
  <2>2. \A d \in ToSet(p.dependsOn[s]) : Safe(d)
    BY <2>1
  <2>. QED
    BY <2>1, <2>2, <1>1
<1>. QED
  BY <1>1, <1>2
Orders(p) == Seq(Ids(p))

(* One call of visit(), with walk for the calls it makes.                  *)
OrderAfter(p, walk, s, ordered) ==
  IF s \in ToSet(ordered) \/ s \notin Ids(p) THEN ordered
  ELSE Append(walk[p.dependsOn[s]][ordered], s)

OrderStep(p, walk, todo) ==
  [ordered \in Orders(p) |->
     IF todo = <<>> THEN ordered
     ELSE walk[Tail(todo)][OrderAfter(p, walk, Head(todo), ordered)]]

LEMMA OrderAfterType ==
  ASSUME NEW p, PlanShape(p), NEW walk \in [Seq(Named(p)) -> [Orders(p) -> Orders(p)]],
         NEW s, NEW ordered \in Orders(p)
  PROVE  OrderAfter(p, walk, s, ordered) \in Orders(p)
<1> SUFFICES ASSUME s \in Ids(p)
             PROVE  Append(walk[p.dependsOn[s]][ordered], s) \in Orders(p)
  BY DEF OrderAfter
<1>1. walk[p.dependsOn[s]][ordered] \in Orders(p)
  BY DepsAreNamed
<1>. QED
  BY <1>1 DEF Orders

LEMMA OrderStepType ==
  ASSUME NEW p, PlanShape(p), NEW walk \in [Seq(Named(p)) -> [Orders(p) -> Orders(p)]],
         NEW todo \in Seq(Named(p))
  PROVE  OrderStep(p, walk, todo) \in [Orders(p) -> Orders(p)]
<1> SUFFICES ASSUME NEW ordered \in Orders(p), todo # <<>>
             PROVE  walk[Tail(todo)][OrderAfter(p, walk, Head(todo), ordered)] \in Orders(p)
  BY DEF OrderStep
<1>. QED
  BY OrderAfterType, HeadAndTail

LEMMA OrderStepLooksBelow ==
  ASSUME NEW p, PlanShape(p), NEW todo \in Seq(Named(p)), NEW g, NEW h,
         \A y \in Seq(Named(p)) : <<y, todo>> \in OrderPrec(p) => g[y] = h[y]
  PROVE  OrderStep(p, g, todo) = OrderStep(p, h, todo)
<1> SUFFICES ASSUME NEW ordered \in Orders(p), todo # <<>>
             PROVE  g[Tail(todo)][OrderAfter(p, g, Head(todo), ordered)]
                      = h[Tail(todo)][OrderAfter(p, h, Head(todo), ordered)]
  BY DEF OrderStep
<1>1. g[Tail(todo)] = h[Tail(todo)]
  BY HeadAndTail DEF OrderPrec
<1>2. Head(todo) \in Ids(p) => g[p.dependsOn[Head(todo)]] = h[p.dependsOn[Head(todo)]]
  BY DepsAreNamed DEF OrderPrec
<1>. QED
  BY <1>1, <1>2 DEF OrderAfter

(* The walk does at every call what its body says.                         *)
LEMMA OrderUnfolds ==
  ASSUME NEW p, PlanShape(p), ~Cyclic(p)
  PROVE  /\ OrderWalk(p) \in [Seq(Named(p)) -> [Orders(p) -> Orders(p)]]
         /\ \A todo \in Seq(Named(p)) : OrderWalk(p)[todo] = OrderStep(p, OrderWalk(p), todo)
<1> DEFINE D == Seq(Named(p))
           V == [Orders(p) -> Orders(p)]
           Step == [c \in D \X [D -> V] |-> OrderStep(p, c[2], c[1])]
           W == OrderWalk(p)
<1>1. Step \in [D \X [D -> V] -> V]
  BY OrderStepType
<1>2. LooksBelow(Step, OrderPrec(p), D, V)
  BY OrderStepLooksBelow DEF LooksBelow
<1>3. V # {}
  <2>1. [ordered \in Orders(p) |-> ordered] \in V
    OBVIOUS
  <2>. QED
    BY <2>1
<1>4. HasSolution(Step, D, V)
  <2>1. IsRecursion(Step, OrderPrec(p), D, V)
    BY <1>1, <1>2, <1>3, OrderGrounded DEF IsRecursion
  <2> HIDE DEF D, V, Step
  <2>. QED
    BY <2>1, RecursionTheorem, Zenon
<1>5. PICK f \in [D -> V] : f = [todo \in D |-> OrderStep(p, f, todo)]
  BY <1>4 DEF HasSolution
<1>6. W = CHOOSE visit : visit = [todo \in D |-> OrderStep(p, visit, todo)]
  BY Zenon DEF OrderWalk, OrderStep, OrderAfter, Orders
<1>7. W = [todo \in D |-> OrderStep(p, W, todo)]
  <2> HIDE DEF D, W
  <2>. QED
    BY <1>5, <1>6, Zenon
<1>8. W = f
  <2> SUFFICES ASSUME {todo \in D : W[todo] # f[todo]} # {} PROVE FALSE
    BY <1>5, <1>7
  <2>1. PICK x \in {todo \in D : W[todo] # f[todo]} :
          \A y \in {todo \in D : W[todo] # f[todo]} : <<y, x>> \notin OrderPrec(p)
    BY OrderGrounded DEF Grounded
  <2>2. OrderStep(p, W, x) = OrderStep(p, f, x)
    BY <2>1, OrderStepLooksBelow
  <2>3. W[x] = OrderStep(p, W, x) /\ f[x] = OrderStep(p, f, x)
    BY <1>5, <1>7
  <2>. QED
    BY <2>1, <2>2, <2>3
<1>. QED
  BY <1>5, <1>8
(* A running order as far as it goes.                                      *)
Sound(p, o) ==
  /\ \A i, j \in 1..Len(o) : o[i] = o[j] => i = j
  /\ \A j \in 1..Len(o) : \A d \in ToSet(p.dependsOn[o[j]]) \cap Ids(p) :
       \E i \in 1..(j - 1) : o[i] = d

(* A step whose dependencies are in order may come next.                   *)
LEMMA AppendIsSound ==
  ASSUME NEW p, NEW o \in Orders(p), Sound(p, o), NEW s \in Ids(p), s \notin ToSet(o),
         ToSet(p.dependsOn[s]) \cap Ids(p) \subseteq ToSet(o)
  PROVE  Sound(p, Append(o, s)) /\ ToSet(Append(o, s)) = ToSet(o) \cup {s}
<1> DEFINE a == Append(o, s)
           n == Len(o)
<1>1. /\ n \in Nat /\ Len(a) = n + 1 /\ a[n + 1] = s /\ \A i \in 1..n : a[i] = o[i]
      /\ DOMAIN a = 1..(n + 1) /\ DOMAIN o = 1..n
  BY DEF Orders
<1>2. \A i \in 1..n : o[i] # s
  BY <1>1 DEF ToSet
<1> HIDE DEF a
<1>3. ASSUME NEW i \in 1..Len(a), NEW j \in 1..Len(a), a[i] = a[j]
      PROVE  i = j
  BY <1>1, <1>2, <1>3 DEF Sound
<1>4. ASSUME NEW j \in 1..Len(a), NEW d \in ToSet(p.dependsOn[a[j]]) \cap Ids(p)
      PROVE  \E i \in 1..(j - 1) : a[i] = d
  <2>1. CASE j = n + 1
    <3>1. PICK i \in 1..n : o[i] = d
      BY <1>1, <1>4, <2>1 DEF ToSet
    <3>. QED
      BY <1>1, <2>1, <3>1
  <2>2. CASE j \in 1..n
    <3>1. PICK i \in 1..(j - 1) : o[i] = d
      BY <1>1, <1>4, <2>2 DEF Sound
    <3>2. i \in 1..n
      BY <1>1, <2>2, <3>1
    <3>. QED
      BY <1>1, <3>1, <3>2
  <2>. QED
    BY <1>1, <2>1, <2>2
<1>5. ToSet(a) = ToSet(o) \cup {s}
  <2>1. ASSUME NEW x \in ToSet(a) PROVE x \in ToSet(o) \cup {s}
    BY <1>1 DEF ToSet
  <2>2. ASSUME NEW x \in ToSet(o) PROVE x \in ToSet(a)
    BY <1>1 DEF ToSet
  <2>3. s \in ToSet(a)
    BY <1>1 DEF ToSet
  <2>. QED
    BY <2>1, <2>2, <2>3
<1>. QED
  BY <1>3, <1>4, <1>5 DEF a, Sound
(* What visiting the ids of todo makes of an order.                        *)
Extends(p, ordered, r, A) ==
  /\ Sound(p, r)
  /\ ToSet(ordered) \cup (A \cap Ids(p)) \subseteq ToSet(r)
  /\ ToSet(r) \subseteq ToSet(ordered) \cup Reach(p, A)

Ordered(p, todo) ==
  \A ordered \in Orders(p) :
    Sound(p, ordered) => Extends(p, ordered, OrderWalk(p)[todo][ordered], ToSet(todo))

LEMMA AfterExtends ==
  ASSUME NEW p, PlanShape(p), ~Cyclic(p), NEW s \in Named(p),
         s \in Ids(p) => Ordered(p, p.dependsOn[s]),
         NEW ordered \in Orders(p), Sound(p, ordered)
  PROVE  Extends(p, ordered, OrderAfter(p, OrderWalk(p), s, ordered), {s})
<1> DEFINE after == OrderAfter(p, OrderWalk(p), s, ordered)
           below == OrderWalk(p)[p.dependsOn[s]][ordered]
<1>1. CASE s \in ToSet(ordered) \/ s \notin Ids(p)
  BY <1>1 DEF OrderAfter, Extends
<1>2. CASE s \notin ToSet(ordered) /\ s \in Ids(p)
  <2>1. below \in Orders(p)
    BY <1>2, OrderUnfolds, DepsAreNamed
  <2>2. Extends(p, ordered, below, ToSet(p.dependsOn[s]))
    BY <1>2 DEF Ordered
  <2>3. s \notin ToSet(below)
    BY <1>2, <2>2, NoStepNeedsItself DEF Extends
  <2>4. after = Append(below, s)
    BY <1>2 DEF OrderAfter
  <2>5. Sound(p, after) /\ ToSet(after) = ToSet(below) \cup {s}
    BY <1>2, <2>1, <2>2, <2>3, <2>4, AppendIsSound DEF Extends
  <2>6. s \in Reach(p, {s}) /\ Reach(p, ToSet(p.dependsOn[s])) \subseteq Reach(p, {s})
    BY <1>2, ReachIsLeast, ReachGrows DEF Closed
  <2>. QED
    BY <1>2, <2>2, <2>5, <2>6 DEF Extends
<1>. QED
  BY <1>1, <1>2

LEMMA ExtendsTwice ==
  ASSUME NEW p, NEW o, NEW m, NEW r, NEW A, NEW B, NEW C,
         Extends(p, o, m, A), Extends(p, m, r, B), C = A \cup B
  PROVE  Extends(p, o, r, C)
<1>1. Reach(p, A) \subseteq Reach(p, C) /\ Reach(p, B) \subseteq Reach(p, C)
  BY ReachIsLeast, ReachGrows
<1>. QED
  BY <1>1 DEF Extends

LEMMA WalkOrders ==
  ASSUME NEW p, PlanShape(p), ~Cyclic(p), NEW t \in Seq(Named(p))
  PROVE  Ordered(p, t)
<1> DEFINE B == {u \in Seq(Named(p)) : ~Ordered(p, u)}
<1> SUFFICES ASSUME B # {} PROVE FALSE
  OBVIOUS
<1>1. PICK todo \in B : \A u \in B : <<u, todo>> \notin OrderPrec(p)
  BY OrderGrounded DEF Grounded
<1>2. PICK ordered \in Orders(p) :
        Sound(p, ordered) /\ ~Extends(p, ordered, OrderWalk(p)[todo][ordered], ToSet(todo))
  BY DEF Ordered
<1>3. OrderWalk(p)[todo][ordered] = OrderStep(p, OrderWalk(p), todo)[ordered]
  BY OrderUnfolds
<1>4. CASE todo = <<>>
  <2>1. OrderWalk(p)[todo][ordered] = ordered /\ ToSet(todo) = {}
    BY <1>3, <1>4 DEF OrderStep, ToSet
  <2>. QED
    BY <1>2, <2>1 DEF Extends
<1>5. CASE todo # <<>>
  <2> DEFINE s == Head(todo)
             after == OrderAfter(p, OrderWalk(p), s, ordered)
  <2>1. /\ s \in Named(p) /\ Tail(todo) \in Seq(Named(p))
        /\ ToSet(todo) = {s} \cup ToSet(Tail(todo))
    BY <1>5, HeadAndTail
  <2>2. Ordered(p, Tail(todo))
    BY <1>1, <1>5, <2>1 DEF OrderPrec
  <2>3. s \in Ids(p) => Ordered(p, p.dependsOn[s])
    BY <1>1, <1>5, DepsAreNamed DEF OrderPrec
  <2>4. Extends(p, ordered, after, {s}) /\ after \in Orders(p)
    BY <1>2, <2>1, <2>3, AfterExtends, OrderAfterType, OrderUnfolds
  <2>5. Extends(p, after, OrderWalk(p)[Tail(todo)][after], ToSet(Tail(todo)))
    BY <2>2, <2>4 DEF Ordered, Extends
  <2>6. OrderWalk(p)[todo][ordered] = OrderWalk(p)[Tail(todo)][after]
    BY <1>3, <1>5 DEF OrderStep
  <2>. QED
    BY <1>2, <2>1, <2>4, <2>5, <2>6, ExtendsTwice
<1>. QED
  BY <1>4, <1>5

(* topologicalOrder() of a plan without a cycle has every step once, after *)
(* everything it depends on.                                               *)
THEOREM OrderOfAcyclicPlan ==
  ASSUME NEW p, PlanShape(p), Executable(p)
  PROVE  IsRunningOrder(topologicalOrder(p), p)
<1>1. ~Cyclic(p) /\ \A s \in Ids(p) : ToSet(p.dependsOn[s]) \subseteq Ids(p)
  BY DEF Executable
<1>2. Ordered(p, p.steps)
  BY <1>1, WalkOrders, DepsAreNamed
<1>3. <<>> \in Orders(p) /\ Sound(p, <<>>)
  BY DEF Orders, Sound
<1>4. topologicalOrder(p) \in Orders(p)
  BY <1>1, <1>3, OrderUnfolds, DepsAreNamed DEF topologicalOrder
<1>5. Sound(p, topologicalOrder(p)) /\ Ids(p) \subseteq ToSet(topologicalOrder(p))
  BY <1>2, <1>3 DEF Ordered, Extends, topologicalOrder, Ids
<1>6. \A j \in 1..Len(topologicalOrder(p)) : topologicalOrder(p)[j] \in Ids(p)
  BY <1>4 DEF Orders
<1>. QED
  BY <1>1, <1>4, <1>5, <1>6 DEF Sound, Orders, IsRunningOrder
-----------------------------------------------------------------------------
(***************************************************************************)
(* preflightPlan().                                                        *)
(***************************************************************************)
Places(p) == Seq(Named(p)) \X SUBSET Ids(p)

(* The calls visit() makes: for the rest of the loop, and with one more id *)
(* in `visiting` for the ids a step names.                                 *)
CyclePrec(p) ==
  {e \in Places(p) \X Places(p) :
     /\ e[2][1] # <<>>
     /\ \/ e[1] = <<Tail(e[2][1]), e[2][2]>>
        \/ /\ Head(e[2][1]) \in Ids(p) \ e[2][2]
           /\ e[1] = <<p.dependsOn[Head(e[2][1])], e[2][2] \cup {Head(e[2][1])}>>}

LEMMA IdsAreFinite ==
  ASSUME NEW p, PlanShape(p)
  PROVE  IsFiniteSet(Ids(p))
<1>1. p.steps \in Seq(Ids(p)) /\ DOMAIN p.steps = 1..Len(p.steps)
  BY DEF PlanShape
<1>2. \A s \in Ids(p) : \E n \in 1..Len(p.steps) : p.steps[n] = s
  BY <1>1 DEF Ids, ToSet
<1>. QED
  BY <1>1, <1>2 DEF IsFiniteSet

(* The walk always ends: `visiting` grows, or the loop gets on.            *)
LEMMA CycleGrounded ==
  ASSUME NEW p, PlanShape(p)
  PROVE  Grounded(CyclePrec(p), Places(p))
<1> SUFFICES ASSUME NEW T \in SUBSET Places(p), T # {},
                    \A x \in T : \E y \in T : <<y, x>> \in CyclePrec(p)
             PROVE  FALSE
  BY DEF Grounded
<1> DEFINE left == [x \in Places(p) |-> Cardinality(Ids(p) \ x[2])]
           size == [x \in Places(p) |-> Len(x[1])]
           T1 == {x \in T : \A y \in T : left[x] <= left[y]}
<1>1. \A V \in SUBSET Ids(p) : IsFiniteSet(Ids(p) \ V) /\ Cardinality(Ids(p) \ V) \in Nat
  <2> TAKE V \in SUBSET Ids(p)
  <2>1. Ids(p) \ V \in SUBSET Ids(p)
    OBVIOUS
  <2>. QED
    BY <2>1, IdsAreFinite, FS_Subset, FS_CardinalityType
<1>2. left \in [Places(p) -> Nat] /\ size \in [Places(p) -> Nat]
  <2>1. \A x \in Places(p) : Len(x[1]) \in Nat /\ x[2] \in SUBSET Ids(p)
    BY DEF Places
  <2>. QED
    BY <1>1, <2>1
<1>3. T1 \in SUBSET Places(p) /\ T1 # {}
  <2> HIDE DEF left
  <2>1. \E x \in T : \A y \in T : left[x] <= left[y]
    BY <1>2, LeastSize
  <2>. QED
    BY <2>1
<1>4. PICK x \in T1 : \A y \in T1 : size[x] <= size[y]
  <2> HIDE DEF T1, size
  <2>. QED
    BY <1>2, <1>3, LeastSize
<1>5. PICK y \in T : <<y, x>> \in CyclePrec(p)
  OBVIOUS
<1>6. x \in Places(p) /\ y \in Places(p) /\ x[1] # <<>>
  BY <1>5 DEF CyclePrec
<1>7. CASE y = <<Tail(x[1]), x[2]>>
  <2>1. left[y] = left[x] /\ Len(Tail(x[1])) < Len(x[1])
    BY <1>6, <1>7, HeadAndTail DEF Places
  <2>2. y \in T1
    BY <1>6, <1>7, <2>1
  <2>3. size[y] = Len(Tail(x[1])) /\ size[x] = Len(x[1])
    BY <1>6, <1>7
  <2>4. size[x] <= size[y]
    BY <1>4, <2>2
  <2>5. size[x] \in Nat /\ size[y] \in Nat
    BY <1>2, <1>6
  <2> HIDE DEF size, left, T1
  <2>. QED
    BY <2>1, <2>3, <2>4, <2>5
<1>8. CASE Head(x[1]) \in Ids(p) \ x[2] /\ y[2] = x[2] \cup {Head(x[1])}
  <2>1. Ids(p) \ y[2] = (Ids(p) \ x[2]) \ {Head(x[1])}
    BY <1>8
  <2>0. IsFiniteSet(Ids(p) \ x[2]) /\ Head(x[1]) \in Ids(p) \ x[2]
    BY <1>1, <1>6, <1>8 DEF Places
  <2>2. Cardinality(Ids(p) \ y[2]) = Cardinality(Ids(p) \ x[2]) - 1
    <3>1. ASSUME NEW S, IsFiniteSet(S), NEW e \in S
          PROVE  Cardinality(S \ {e}) = Cardinality(S) - 1
      BY <3>1, FS_RemoveElement
    <3>. QED
      BY <2>0, <2>1, <3>1, Zenon
  <2>3. left[y] = left[x] - 1 /\ left[x] \in Nat /\ left[y] \in Nat
    BY <1>2, <1>6, <2>2
  <2>4. left[x] <= left[y]
    BY <1>5
  <2>. QED
    BY <2>3, <2>4
<1>. QED
  BY <1>5, <1>7, <1>8 DEF CyclePrec
(* One call of visit(), with walk for the calls it makes.                  *)
CycleAfter(p, walk, s, visiting, seen) ==
  IF s \in seen.visited \/ s \notin Ids(p) THEN seen
  ELSE IF s \in visiting THEN [seen EXCEPT !.cycle = TRUE]
  ELSE [walk[<<p.dependsOn[s], visiting \cup {s}>>][seen] EXCEPT !.visited = @ \cup {s}]

CycleStep(p, walk, at) ==
  [seen \in Seen(p) |->
     IF at[1] = <<>> THEN seen
     ELSE walk[<<Tail(at[1]), at[2]>>][CycleAfter(p, walk, Head(at[1]), at[2], seen)]]

LEMMA NextPlaces ==
  ASSUME NEW p, PlanShape(p), NEW at \in Places(p), at[1] # <<>>
  PROVE  /\ at[2] \in SUBSET Ids(p) /\ Head(at[1]) \in Named(p)
         /\ <<Tail(at[1]), at[2]>> \in Places(p)
         /\ <<<<Tail(at[1]), at[2]>>, at>> \in CyclePrec(p)
         /\ Head(at[1]) \in Ids(p) \ at[2] =>
              LET below == <<p.dependsOn[Head(at[1])], at[2] \cup {Head(at[1])}>>
              IN  below \in Places(p) /\ <<below, at>> \in CyclePrec(p)
<1>1. at[1] \in Seq(Named(p)) /\ at[2] \in SUBSET Ids(p)
  BY DEF Places
<1>2. Head(at[1]) \in Named(p) /\ Tail(at[1]) \in Seq(Named(p))
  BY <1>1, HeadAndTail
<1>. QED
  BY <1>1, <1>2, DepsAreNamed DEF Places, CyclePrec

LEMMA CycleAfterType ==
  ASSUME NEW p, PlanShape(p), NEW walk \in [Places(p) -> [Seen(p) -> Seen(p)]],
         NEW s, NEW visiting \in SUBSET Ids(p), NEW seen \in Seen(p)
  PROVE  CycleAfter(p, walk, s, visiting, seen) \in Seen(p)
<1>1. CASE s \in Ids(p)
  <2>1. walk[<<p.dependsOn[s], visiting \cup {s}>>][seen] \in Seen(p)
    BY <1>1, DepsAreNamed DEF Places
  <2>. QED
    BY <1>1, <2>1 DEF CycleAfter, Seen
<1>. QED
  BY <1>1 DEF CycleAfter

LEMMA CycleStepType ==
  ASSUME NEW p, PlanShape(p), NEW walk \in [Places(p) -> [Seen(p) -> Seen(p)]],
         NEW at \in Places(p)
  PROVE  CycleStep(p, walk, at) \in [Seen(p) -> Seen(p)]
<1> SUFFICES ASSUME NEW seen \in Seen(p), at[1] # <<>>
             PROVE  walk[<<Tail(at[1]), at[2]>>][CycleAfter(p, walk, Head(at[1]), at[2], seen)]
                      \in Seen(p)
  BY DEF CycleStep
<1>. QED
  BY CycleAfterType, NextPlaces

LEMMA CycleStepLooksBelow ==
  ASSUME NEW p, PlanShape(p), NEW at \in Places(p), NEW g, NEW h,
         \A y \in Places(p) : <<y, at>> \in CyclePrec(p) => g[y] = h[y]
  PROVE  CycleStep(p, g, at) = CycleStep(p, h, at)
<1> SUFFICES ASSUME NEW seen \in Seen(p), at[1] # <<>>
             PROVE  g[<<Tail(at[1]), at[2]>>][CycleAfter(p, g, Head(at[1]), at[2], seen)]
                      = h[<<Tail(at[1]), at[2]>>][CycleAfter(p, h, Head(at[1]), at[2], seen)]
  BY DEF CycleStep
<1> DEFINE below == <<p.dependsOn[Head(at[1])], at[2] \cup {Head(at[1])}>>
<1>1. g[<<Tail(at[1]), at[2]>>] = h[<<Tail(at[1]), at[2]>>]
  BY NextPlaces
<1>2. Head(at[1]) \in Ids(p) \ at[2] => g[below] = h[below]
  BY NextPlaces
<1>. QED
  BY <1>1, <1>2 DEF CycleAfter

(* The walk does at every call what its body says.                         *)
LEMMA CycleUnfolds ==
  ASSUME NEW p, PlanShape(p)
  PROVE  /\ CycleWalk(p) \in [Places(p) -> [Seen(p) -> Seen(p)]]
         /\ \A at \in Places(p) : CycleWalk(p)[at] = CycleStep(p, CycleWalk(p), at)
<1> DEFINE D == Places(p)
           V == [Seen(p) -> Seen(p)]
           Step == [c \in D \X [D -> V] |-> CycleStep(p, c[2], c[1])]
           W == CycleWalk(p)
<1>1. Step \in [D \X [D -> V] -> V]
  BY CycleStepType
<1>2. LooksBelow(Step, CyclePrec(p), D, V)
  BY CycleStepLooksBelow DEF LooksBelow
<1>3. V # {}
  <2>1. [seen \in Seen(p) |-> seen] \in V
    OBVIOUS
  <2>. QED
    BY <2>1
<1>4. HasSolution(Step, D, V)
  <2>1. IsRecursion(Step, CyclePrec(p), D, V)
    BY <1>1, <1>2, <1>3, CycleGrounded DEF IsRecursion
  <2> HIDE DEF D, V, Step
  <2>. QED
    BY <2>1, RecursionTheorem, Zenon
<1>5. PICK f \in [D -> V] : f = [at \in D |-> CycleStep(p, f, at)]
  BY <1>4 DEF HasSolution
<1>6. W = CHOOSE visit : visit = [at \in D |-> CycleStep(p, visit, at)]
  BY Zenon DEF CycleWalk, CycleStep, CycleAfter, Places
<1>7. W = [at \in D |-> CycleStep(p, W, at)]
  <2> HIDE DEF D, W
  <2>. QED
    BY <1>5, <1>6, Zenon
<1>8. W = f
  <2> SUFFICES ASSUME {at \in D : W[at] # f[at]} # {} PROVE FALSE
    BY <1>5, <1>7
  <2>1. PICK x \in {at \in D : W[at] # f[at]} :
          \A y \in {at \in D : W[at] # f[at]} : <<y, x>> \notin CyclePrec(p)
    BY CycleGrounded DEF Grounded
  <2>2. CycleStep(p, W, x) = CycleStep(p, f, x)
    BY <2>1, CycleStepLooksBelow
  <2>3. W[x] = CycleStep(p, W, x) /\ f[x] = CycleStep(p, f, x)
    BY <1>5, <1>7
  <2>. QED
    BY <2>1, <2>2, <2>3
<1>. QED
  BY <1>5, <1>8
-----------------------------------------------------------------------------
(* Finished steps: all they depend on is finished, and no cycle among them. *)
Fine(p, v) ==
  /\ Closed(p, v)
  /\ \A C \in (SUBSET v) \ {{}} : \E s \in C : \A d \in C : d \notin ToSet(p.dependsOn[s])

(* Seen after a call of the walk, when that found no cycle.                *)
Finishes(p, seen, r, A) ==
  /\ seen.cycle => r.cycle
  /\ ~r.cycle /\ Fine(p, seen.visited) =>
       Fine(p, r.visited) /\ seen.visited \cup (A \cap Ids(p)) \subseteq r.visited

Clears(p, at) ==
  \A seen \in Seen(p) : Finishes(p, seen, CycleWalk(p)[at][seen], ToSet(at[1]))

(* A step is finished when all it depends on is.                           *)
LEMMA FineStep ==
  ASSUME NEW p, NEW v, Fine(p, v), NEW s \in Ids(p), ToSet(p.dependsOn[s]) \cap Ids(p) \subseteq v
  PROVE  Fine(p, v \cup {s})
<1>1. Closed(p, v \cup {s})
  BY DEF Fine, Closed
<1>2. ASSUME NEW C \in (SUBSET (v \cup {s})) \ {{}}, s \notin v
      PROVE  \E x \in C : \A d \in C : d \notin ToSet(p.dependsOn[x])
  <2>1. CASE C \ {s} = {}
    <3>1. C = {s} /\ s \notin ToSet(p.dependsOn[s])
      BY <1>2, <2>1
    <3>. QED
      BY <3>1
  <2>2. CASE C \ {s} # {}
    <3>1. C \ {s} \in (SUBSET v) \ {{}}
      BY <2>2
    <3>2. PICK x \in C \ {s} : \A d \in C \ {s} : d \notin ToSet(p.dependsOn[x])
      BY <3>1 DEF Fine
    <3>3. s \notin ToSet(p.dependsOn[x])
      BY <1>2, <3>1, <3>2 DEF Fine, Closed
    <3>. QED
      BY <3>2, <3>3
  <2>. QED
    BY <2>1, <2>2
<1>3. CASE s \in v
  <2>1. v \cup {s} = v
    BY <1>3
  <2>. QED
    BY <2>1
<1>4. CASE s \notin v
  BY <1>1, <1>2, <1>4 DEF Fine
<1>. QED
  BY <1>3, <1>4

LEMMA AfterFinishes ==
  ASSUME NEW p, PlanShape(p), NEW s \in Named(p), NEW visiting \in SUBSET Ids(p),
         s \in Ids(p) \ visiting => Clears(p, <<p.dependsOn[s], visiting \cup {s}>>),
         NEW seen \in Seen(p)
  PROVE  Finishes(p, seen, CycleAfter(p, CycleWalk(p), s, visiting, seen), {s})
<1> DEFINE after == CycleAfter(p, CycleWalk(p), s, visiting, seen)
           below == CycleWalk(p)[<<p.dependsOn[s], visiting \cup {s}>>][seen]
<1>1. CASE s \in seen.visited \/ s \notin Ids(p)
  BY <1>1 DEF CycleAfter, Finishes
<1>2. CASE ~(s \in seen.visited \/ s \notin Ids(p)) /\ s \in visiting
  <2>1. after = [seen EXCEPT !.cycle = TRUE]
    BY <1>2 DEF CycleAfter
  <2>2. after.cycle = TRUE
    BY <2>1 DEF Seen
  <2>. QED
    BY <2>2 DEF Finishes
<1>3. CASE ~(s \in seen.visited \/ s \notin Ids(p)) /\ s \notin visiting
  <2>1. below \in Seen(p)
    <3>1. <<p.dependsOn[s], visiting \cup {s}>> \in Places(p)
      BY <1>3, DepsAreNamed DEF Places
    <3>. QED
      BY <3>1, CycleUnfolds
  <2>2. Finishes(p, seen, below, ToSet(p.dependsOn[s]))
    BY <1>3 DEF Clears
  <2>3. after = [below EXCEPT !.visited = @ \cup {s}]
    BY <1>3 DEF CycleAfter
  <2>4. after.cycle = below.cycle /\ after.visited = below.visited \cup {s}
    BY <2>1, <2>3 DEF Seen
  <2> HIDE DEF after, below
  <2>5. ASSUME ~below.cycle, Fine(p, seen.visited)
        PROVE  /\ Fine(p, after.visited)
               /\ seen.visited \cup {s} \subseteq after.visited
    <3>1. /\ Fine(p, below.visited) /\ seen.visited \subseteq below.visited
          /\ ToSet(p.dependsOn[s]) \cap Ids(p) \subseteq below.visited
      BY <2>2, <2>5 DEF Finishes
    <3>. QED
      BY <1>3, <2>4, <3>1, FineStep
  <2>6. Finishes(p, seen, after, {s})
    BY <2>2, <2>4, <2>5 DEF Finishes
  <2>. QED
    BY <2>6 DEF after
<1>. QED
  BY <1>1, <1>2, <1>3

LEMMA FinishesTwice ==
  ASSUME NEW p, NEW o, NEW m, NEW r, NEW A, NEW B, NEW C,
         Finishes(p, o, m, A), Finishes(p, m, r, B), C = A \cup B
  PROVE  Finishes(p, o, r, C)
BY DEF Finishes

LEMMA WalkClears ==
  ASSUME NEW p, PlanShape(p), NEW x \in Places(p)
  PROVE  Clears(p, x)
<1> DEFINE B == {y \in Places(p) : ~Clears(p, y)}
<1> SUFFICES ASSUME B # {} PROVE FALSE
  OBVIOUS
<1>1. PICK at \in B : \A y \in B : <<y, at>> \notin CyclePrec(p)
  BY CycleGrounded DEF Grounded
<1>2. PICK seen \in Seen(p) : ~Finishes(p, seen, CycleWalk(p)[at][seen], ToSet(at[1]))
  BY DEF Clears
<1>3. CycleWalk(p)[at][seen] = CycleStep(p, CycleWalk(p), at)[seen]
  BY CycleUnfolds
<1>4. CASE at[1] = <<>>
  <2>1. CycleWalk(p)[at][seen] = seen /\ ToSet(at[1]) = {}
    BY <1>3, <1>4 DEF CycleStep, ToSet
  <2>. QED
    BY <1>2, <2>1 DEF Finishes
<1>5. CASE at[1] # <<>>
  <2> DEFINE s == Head(at[1])
             rest == <<Tail(at[1]), at[2]>>
             after == CycleAfter(p, CycleWalk(p), s, at[2], seen)
  <2>1. ToSet(at[1]) = {s} \cup ToSet(Tail(at[1]))
    BY <1>5, HeadAndTail DEF Places
  <2>2. /\ s \in Named(p) /\ at[2] \in SUBSET Ids(p) /\ rest \in Places(p)
        /\ Clears(p, rest)
        /\ s \in Ids(p) \ at[2] => Clears(p, <<p.dependsOn[s], at[2] \cup {s}>>)
    BY <1>1, <1>5, NextPlaces
  <2>3. Finishes(p, seen, after, {s}) /\ after \in Seen(p)
    BY <2>2, AfterFinishes, CycleAfterType, CycleUnfolds
  <2>4. Finishes(p, after, CycleWalk(p)[rest][after], ToSet(Tail(at[1])))
    BY <2>2, <2>3 DEF Clears
  <2>5. CycleWalk(p)[at][seen] = CycleWalk(p)[rest][after]
    BY <1>3, <1>5 DEF CycleStep
  <2>. QED
    BY <1>2, <2>1, <2>3, <2>4, <2>5, FinishesTwice
<1>. QED
  BY <1>4, <1>5
-----------------------------------------------------------------------------
(* The ids to visit are needed by every step being visited.                *)
Needed(p, at) ==
  \A v \in at[2] : ToSet(at[1]) \cap Ids(p) \subseteq Reach(p, ToSet(p.dependsOn[v]))

NoFalseAlarm(p, at) ==
  Needed(p, at) =>
    \A seen \in Seen(p) : ~seen.cycle /\ CycleWalk(p)[at][seen].cycle => Cyclic(p)

LEMMA WalkHasNoFalseAlarm ==
  ASSUME NEW p, PlanShape(p), NEW x \in Places(p)
  PROVE  NoFalseAlarm(p, x)
<1> DEFINE B == {y \in Places(p) : ~NoFalseAlarm(p, y)}
<1> SUFFICES ASSUME B # {}, ~Cyclic(p) PROVE FALSE
  BY DEF NoFalseAlarm
<1>1. PICK at \in B : \A y \in B : <<y, at>> \notin CyclePrec(p)
  BY CycleGrounded DEF Grounded
<1>2. Needed(p, at) /\ \E seen \in Seen(p) : ~seen.cycle /\ CycleWalk(p)[at][seen].cycle
  BY DEF NoFalseAlarm
<1>3. PICK seen \in Seen(p) : ~seen.cycle /\ CycleWalk(p)[at][seen].cycle
  BY <1>2
<1>4. CycleWalk(p)[at][seen] = CycleStep(p, CycleWalk(p), at)[seen]
  BY CycleUnfolds
<1>5. at[1] # <<>>
  BY <1>3, <1>4 DEF CycleStep
<1> DEFINE s == Head(at[1])
           rest == <<Tail(at[1]), at[2]>>
           below == <<p.dependsOn[s], at[2] \cup {s}>>
           after == CycleAfter(p, CycleWalk(p), s, at[2], seen)
<1>6. ToSet(at[1]) = {s} \cup ToSet(Tail(at[1]))
  BY <1>5, HeadAndTail DEF Places
<1>7. /\ s \in Named(p) /\ at[2] \in SUBSET Ids(p)
      /\ rest \in Places(p) /\ NoFalseAlarm(p, rest)
      /\ s \in Ids(p) \ at[2] => below \in Places(p) /\ NoFalseAlarm(p, below)
  BY <1>1, <1>5, NextPlaces
<1>8. after \in Seen(p)
  BY <1>7, CycleAfterType, CycleUnfolds
<1>9. after.cycle
  <2>1. Needed(p, rest)
    BY <1>2, <1>6 DEF Needed
  <2>2. CycleWalk(p)[at][seen] = CycleWalk(p)[rest][after]
    BY <1>4, <1>5 DEF CycleStep
  <2>. QED
    BY <1>3, <1>7, <1>8, <2>1, <2>2 DEF NoFalseAlarm
<1>10. s \in Ids(p) /\ s \notin seen.visited
  BY <1>3, <1>9 DEF CycleAfter
<1>11. s \notin at[2]
  BY <1>2, <1>6, <1>10, NoStepNeedsItself DEF Needed
<1>12. CycleWalk(p)[below][seen].cycle
  <2>1. after = [CycleWalk(p)[below][seen] EXCEPT !.visited = @ \cup {s}]
    BY <1>10, <1>11 DEF CycleAfter
  <2>2. CycleWalk(p)[below][seen] \in Seen(p)
    BY <1>7, <1>10, <1>11, CycleUnfolds
  <2>. QED
    BY <1>9, <2>1, <2>2 DEF Seen
<1>13. Needed(p, below)
  <2>1. ASSUME NEW v \in at[2]
        PROVE  ToSet(p.dependsOn[s]) \cap Ids(p) \subseteq Reach(p, ToSet(p.dependsOn[v]))
    <3>1. s \in Reach(p, ToSet(p.dependsOn[v]))
      BY <1>2, <1>6, <1>10, <2>1 DEF Needed
    <3>. QED
      BY <3>1, ReachIsLeast DEF Closed
  <2>2. ToSet(p.dependsOn[s]) \cap Ids(p) \subseteq Reach(p, ToSet(p.dependsOn[s]))
    BY ReachIsLeast
  <2>. QED
    BY <2>1, <2>2 DEF Needed
<1>. QED
  BY <1>3, <1>7, <1>10, <1>11, <1>12, <1>13 DEF NoFalseAlarm

(* preflightPlan() reports DEPENDENCY_CYCLE just for the plans with one.   *)
THEOREM CycleFound ==
  ASSUME NEW p, PlanShape(p)
  PROVE  DependencyCycle(p) <=> Cyclic(p)
<1> DEFINE at == <<p.steps, {}>>
           none == [visited |-> {}, cycle |-> FALSE]
<1>1. at \in Places(p) /\ none \in Seen(p)
  BY DepsAreNamed DEF Places, Seen
<1>2. ASSUME DependencyCycle(p) PROVE Cyclic(p)
  <2>1. Needed(p, at)
    BY DEF Needed
  <2>. QED
    BY <1>1, <1>2, <2>1, WalkHasNoFalseAlarm DEF NoFalseAlarm, DependencyCycle
<1>3. ASSUME ~DependencyCycle(p) PROVE ~Cyclic(p)
  <2> DEFINE r == CycleWalk(p)[at][none]
  <2>1. r \in Seen(p)
    BY <1>1, CycleUnfolds
  <2>2. Fine(p, none.visited)
    BY DEF Fine, Closed
  <2>3. ~r.cycle
    BY <1>3 DEF DependencyCycle
  <2>4. Finishes(p, none, r, Ids(p))
    BY <1>1, WalkClears DEF Clears, Ids
  <2> HIDE DEF r, none
  <2>5. Fine(p, r.visited) /\ Ids(p) \subseteq r.visited
    BY <2>2, <2>3, <2>4 DEF Finishes
  <2>6. r.visited = Ids(p)
    BY <2>1, <2>5 DEF Seen
  <2>. QED
    BY <2>5, <2>6 DEF Fine, Cyclic
<1>. QED
  BY <1>2, <1>3

(* preflightPlan() lets the executable plans through and no others.        *)
THEOREM PreflightExact ==
  ASSUME NEW p, PlanShape(p)
  PROVE  preflightOk(p) <=> Executable(p)
BY CycleFound DEF preflightOk, Executable, CapabilityNotFound, InvalidDependency
=============================================================================
