-------------------------- MODULE PreflightProofs --------------------------
(***************************************************************************)
(* Theorems about DependencyGraph and Preflight.                           *)
(***************************************************************************)
EXTENDS Preflight, FiniteSetTheorems, NaturalsInduction, TLAPS

-----------------------------------------------------------------------------
(* Numbers: induction and least members without an operator parameter.     *)

LEMMA LeastNat ==
  ASSUME NEW T, T \subseteq Nat, T # {}
  PROVE  \E n \in T : \A m \in T : n <= m
<1> DEFINE R == OpToRel(<, Nat)
<1>1. IsWellFoundedOn(R, Nat)
  BY NatLessThanWellFounded
<1> HIDE DEF R
<1>2. PICK n \in T : \A m \in T : ~ (<<m, n>> \in R)
  BY <1>1, WFMin
<1>3. \A m \in T : ~(m < n)
  BY <1>2 DEF R, OpToRel
<1>. QED BY <1>3

LEMMA NatSets ==
  ASSUME NEW S, 0 \in S, \A n \in Nat : n \in S => n + 1 \in S
  PROVE  Nat \subseteq S
<1> SUFFICES ASSUME Nat \ S # {} PROVE FALSE
  OBVIOUS
<1>1. PICK n \in Nat \ S : \A m \in Nat \ S : n <= m
  BY LeastNat
<1>2. n # 0 /\ n - 1 \in Nat /\ (n - 1) + 1 = n /\ ~(n <= n - 1)
  OBVIOUS
<1>3. n - 1 \in S
  BY <1>1, <1>2
<1>. QED BY <1>2, <1>3

LEMMA LeastFacts ==
  ASSUME NEW T \in SUBSET Nat, T # {}
  PROVE  Least(T) \in T /\ \A m \in T : Least(T) <= m
BY LeastNat DEF Least

LEMMA GreatestNat ==
  ASSUME NEW T \in SUBSET Nat, T # {}, IsFiniteSet(T)
  PROVE  \E n \in T : \A m \in T : m <= n
<1> DEFINE P == {k \in Nat : \A S \in SUBSET Nat :
                    S # {} /\ IsFiniteSet(S) /\ Cardinality(S) = k => \E n \in S : \A m \in S : m <= n}
<1>1. 0 \in P
  BY FS_EmptySet
<1>2. ASSUME NEW k \in Nat, k \in P PROVE k + 1 \in P
  <2> SUFFICES ASSUME NEW S \in SUBSET Nat, S # {}, IsFiniteSet(S), Cardinality(S) = k + 1
               PROVE  \E n \in S : \A m \in S : m <= n
    OBVIOUS
  <2>1. PICK x \in S : TRUE
    OBVIOUS
  <2>2. IsFiniteSet(S \ {x}) /\ Cardinality(S \ {x}) = k /\ S \ {x} \in SUBSET Nat
    <3>1. Cardinality(S \ {x}) = Cardinality(S) - 1 /\ IsFiniteSet(S \ {x})
      BY FS_RemoveElement
    <3>. QED BY <3>1
  <2>3. CASE S \ {x} = {}
    BY <2>3
  <2>4. CASE S \ {x} # {}
    <3>1. PICK y \in S \ {x} : \A m \in S \ {x} : m <= y
      BY <1>2, <2>2, <2>4
    <3>2. CASE x <= y
      BY <3>1, <3>2
    <3>3. CASE ~(x <= y)
      <4>1. \A m \in S : m <= x
        BY <3>1, <3>3
      <4>. QED BY <4>1
    <3>. QED BY <3>2, <3>3
  <2>. QED BY <2>3, <2>4
<1> HIDE DEF P
<1>3. Cardinality(T) \in P
  BY <1>1, <1>2, NatSets, FS_CardinalityType
<1>. QED BY <1>3 DEF P

\* Every resource is below the number at which a pass ends.
Bound == 1 + Max({0} \cup Node)

LEMMA BoundFacts == Bound \in Nat /\ \A n \in Node : n < Bound
<1> DEFINE T == {0} \cup Node
<1>1. T \in SUBSET Nat /\ T # {} /\ IsFiniteSet(T)
  BY NodeAssumption, FS_AddElement
<1>2. Max(T) \in T /\ \A m \in T : m <= Max(T)
  <2>1. \E n \in T : \A m \in T : n >= m
    BY <1>1, GreatestNat
  <2>. QED BY <2>1 DEF Max
<1>. QED BY <1>1, <1>2 DEF Bound

\* A function can be defined by what it is at 0 and how it goes on from k.
Begins(g, S, base, f, n) ==
    /\ g \in [0 .. n -> S] /\ g[0] = base
    /\ \A i \in 0 .. n - 1 : g[i + 1] = f[i][g[i]]

LEMMA BeginningExists ==
  ASSUME NEW S, NEW base \in S, NEW f \in [Nat -> [S -> S]]
  PROVE  \A n \in Nat : \E g : Begins(g, S, base, f, n)
<1> DEFINE P == {n \in Nat : \E g : Begins(g, S, base, f, n)}
<1>1. 0 \in P
  <2>1. Begins([i \in 0 .. 0 |-> base], S, base, f, 0)
    BY DEF Begins
  <2>. QED BY <2>1
<1>2. ASSUME NEW n \in Nat, n \in P PROVE n + 1 \in P
  <2>1. PICK g : Begins(g, S, base, f, n)
    BY <1>2
  <2> DEFINE h == [i \in 0 .. n + 1 |-> IF i = n + 1 THEN f[n][g[n]] ELSE g[i]]
  <2>2. f[n][g[n]] \in S
    BY <2>1 DEF Begins
  <2>3. h \in [0 .. n + 1 -> S]
    BY <2>1, <2>2 DEF Begins
  <2>4. h[0] = base /\ \A i \in 0 .. n : h[i + 1] = f[i][h[i]]
    BY <2>1 DEF Begins
  <2>5. Begins(h, S, base, f, n + 1)
    <3>1. (n + 1) - 1 = n
      OBVIOUS
    <3> HIDE DEF h
    <3>. QED BY <3>1, <2>3, <2>4 DEF Begins
  <2>. QED BY <2>5
<1> HIDE DEF P
<1>3. Nat \subseteq P
  BY <1>1, <1>2, NatSets
<1>. QED BY <1>3 DEF P

LEMMA BeginningUnique ==
  ASSUME NEW S, NEW base, NEW f, NEW n \in Nat, NEW m \in Nat, n <= m,
         NEW g, NEW h, Begins(g, S, base, f, n), Begins(h, S, base, f, m)
  PROVE  g[n] = h[n]
<1> DEFINE P == {i \in Nat : i <= n => g[i] = h[i]}
<1>1. 0 \in P
  BY DEF Begins
<1>2. ASSUME NEW i \in Nat, i \in P PROVE i + 1 \in P
  <2> SUFFICES ASSUME i + 1 <= n PROVE g[i + 1] = h[i + 1]
    OBVIOUS
  <2>1. g[i] = h[i] /\ i \in 0 .. n - 1 /\ i \in 0 .. m - 1
    BY <1>2
  <2>2. g[i + 1] = f[i][g[i]] /\ h[i + 1] = f[i][h[i]]
    BY <2>1 DEF Begins
  <2>. QED BY <2>1, <2>2
<1> HIDE DEF P
<1>3. n \in P
  BY <1>1, <1>2, NatSets
<1>. QED BY <1>3 DEF P

CanIterate(S, base, f) ==
    \E g \in [Nat -> S] : g[0] = base /\ \A k \in Nat : g[k + 1] = f[k][g[k]]

LEMMA Iterated ==
  ASSUME NEW S, NEW base \in S, NEW f \in [Nat -> [S -> S]]
  PROVE  CanIterate(S, base, f)
<1> DEFINE P(n) == CHOOSE g : Begins(g, S, base, f, n)
           g == [n \in Nat |-> P(n)[n]]
<1>1. \A n \in Nat : Begins(P(n), S, base, f, n)
  BY BeginningExists
<1> HIDE DEF P
<1>2. g \in [Nat -> S] /\ g[0] = base
  BY <1>1 DEF Begins
<1>3. ASSUME NEW k \in Nat PROVE g[k + 1] = f[k][g[k]]
  <2>1. k + 1 \in Nat /\ k <= k + 1 /\ k \in 0 .. (k + 1) - 1
    OBVIOUS
  <2>2. P(k)[k] = P(k + 1)[k]
    BY <2>1, <1>1, BeginningUnique
  <2>3. P(k + 1)[k + 1] = f[k][P(k + 1)[k]]
    BY <2>1, <1>1 DEF Begins
  <2>. QED BY <2>1, <2>2, <2>3
<1> HIDE DEF g
<1>. QED BY <1>2, <1>3 DEF CanIterate
-----------------------------------------------------------------------------
(* The depth-first search, one iteration at a time.                        *)

EdgeMaps == [Node -> SUBSET Node]

SearchState == [stack : Seq(Node), todo : EdgeMaps, visited : SUBSET Node, path : Seq(Node)]

Running(s) == s.path = << >> /\ s.stack # << >>

top(s) == s.stack[Len(s.stack)]
next(s) == Least(s.todo[top(s)])

\* What one iteration of a running search does: it pops, succeeds, skips or pushes.
Pops(s, t) ==
    /\ s.todo[top(s)] = {}
    /\ t.stack = Front(s.stack) /\ t.todo = s.todo /\ t.visited = s.visited /\ t.path = << >>

Succeeds(s, t, target) ==
    /\ s.todo[top(s)] # {} /\ next(s) = target
    /\ t.stack = s.stack /\ t.todo = s.todo /\ t.visited = s.visited
    /\ t.path = Append(s.stack, target)

Skips(s, t, start, target) ==
    /\ s.todo[top(s)] # {} /\ next(s) # target /\ next(s) \in s.visited \cup {start}
    /\ t.stack = s.stack /\ t.visited = s.visited /\ t.path = << >>
    /\ t.todo = [s.todo EXCEPT ![top(s)] = @ \ {next(s)}]

Pushes(s, t, start, target) ==
    /\ s.todo[top(s)] # {} /\ next(s) # target /\ next(s) \notin s.visited \cup {start}
    /\ t.stack = Append(s.stack, next(s)) /\ t.visited = s.visited \cup {next(s)} /\ t.path = << >>
    /\ t.todo = [s.todo EXCEPT ![top(s)] = @ \ {next(s)}]

LEMMA TopFacts ==
  ASSUME NEW s \in SearchState, Running(s)
  PROVE  /\ Len(s.stack) \in Nat /\ Len(s.stack) > 0 /\ top(s) \in Node
         /\ s.todo[top(s)] \subseteq Node
         /\ Front(s.stack) \in Seq(Node) /\ Len(Front(s.stack)) = Len(s.stack) - 1
         /\ \A i \in 1 .. Len(s.stack) - 1 : Front(s.stack)[i] = s.stack[i]
         /\ s.todo[top(s)] # {} => /\ next(s) \in s.todo[top(s)] /\ next(s) \in Node
                                   /\ \A c \in s.todo[top(s)] : next(s) <= c
<1>1. s.stack \in Seq(Node) /\ s.stack # << >> /\ s.todo \in EdgeMaps
  BY DEF SearchState, Running
<1>2. Len(s.stack) \in Nat /\ Len(s.stack) > 0 /\ top(s) \in Node
  BY <1>1 DEF top
<1>3. s.todo[top(s)] \subseteq Node
  BY <1>1, <1>2 DEF EdgeMaps
<1>4. /\ Front(s.stack) \in Seq(Node) /\ Len(Front(s.stack)) = Len(s.stack) - 1
      /\ \A i \in 1 .. Len(s.stack) - 1 : Front(s.stack)[i] = s.stack[i]
  BY <1>1, <1>2 DEF Front
<1>5. ASSUME s.todo[top(s)] # {}
      PROVE  next(s) \in s.todo[top(s)] /\ \A c \in s.todo[top(s)] : next(s) <= c
  BY <1>3, <1>5, NodeAssumption, LeastFacts DEF next
<1>. QED BY <1>2, <1>3, <1>4, <1>5

LEMMA IterateFacts ==
  ASSUME NEW s \in SearchState, NEW start \in Node, NEW target \in Node
  PROVE  LET t == iterate(s, start, target) IN
         /\ t \in SearchState
         /\ ~Running(s) => t = s
         /\ Running(s) => \/ Pops(s, t)
                          \/ Succeeds(s, t, target)
                          \/ Skips(s, t, start, target)
                          \/ Pushes(s, t, start, target)
<1> DEFINE t == iterate(s, start, target)
           tried == [s EXCEPT !.todo[top(s)] = @ \ {next(s)}]
<1>1. CASE ~Running(s)
  <2>1. t = s
    BY <1>1 DEF iterate, Running
  <2>. QED BY <2>1, <1>1
<1>2. CASE Running(s)
  <2>0. /\ s.stack \in Seq(Node) /\ s.todo \in EdgeMaps /\ s.visited \in SUBSET Node
        /\ s.path = << >> /\ s.stack # << >> /\ top(s) = Last(s.stack)
    BY <1>2 DEF SearchState, Running, top, Last
  <2>1. CASE s.todo[top(s)] = {}
    <3>1. t = [s EXCEPT !.stack = Front(@)]
      BY <2>0, <2>1 DEF iterate
    <3>2. Pops(s, t) /\ t \in SearchState
      BY <3>1, <2>0, <2>1, <1>2, TopFacts DEF Pops, SearchState
    <3>. QED BY <3>2, <1>2
  <2>2. CASE s.todo[top(s)] # {} /\ next(s) = target
    <3>1. t = [s EXCEPT !.path = Append(s.stack, target)]
      BY <2>0, <2>2 DEF iterate, next
    <3>2. Append(s.stack, target) \in Seq(Node)
      BY <2>0
    <3>3. Succeeds(s, t, target)
      BY <3>1, <2>0, <2>2 DEF Succeeds, SearchState
    <3>4. t \in SearchState
      BY <3>1, <3>2 DEF SearchState
    <3>. QED BY <3>3, <3>4, <1>2
  <2>3. CASE s.todo[top(s)] # {} /\ next(s) # target
    <3>1. [s.todo EXCEPT ![top(s)] = @ \ {next(s)}] \in EdgeMaps
      BY <2>0, <1>2, TopFacts DEF EdgeMaps
    <3>2. tried = [s EXCEPT !.todo = [s.todo EXCEPT ![top(s)] = @ \ {next(s)}]]
      BY DEF SearchState
    <3>3. CASE next(s) \in s.visited \cup {start}
      <4>1. t = tried
        BY <2>0, <2>3, <3>3 DEF iterate, next
      <4>2. Skips(s, t, start, target) /\ t \in SearchState
        BY <4>1, <3>1, <3>2, <3>3, <2>0, <2>3 DEF Skips, SearchState
      <4>. QED BY <4>2, <1>2
    <3>4. CASE next(s) \notin s.visited \cup {start}
      <4>1. t = [tried EXCEPT !.stack = Append(@, next(s)), !.visited = @ \cup {next(s)}]
        BY <2>0, <2>3, <3>4 DEF iterate, next
      <4>2. next(s) \in Node
        BY <2>3, <1>2, TopFacts
      <4>3. Append(s.stack, next(s)) \in Seq(Node) /\ s.visited \cup {next(s)} \in SUBSET Node
        BY <2>0, <4>2
      <4>4. t = [s EXCEPT !.stack = Append(s.stack, next(s)), !.visited = s.visited \cup {next(s)},
                          !.todo = [s.todo EXCEPT ![top(s)] = @ \ {next(s)}]]
        BY <4>1, <3>2 DEF SearchState
      <4>5. Pushes(s, t, start, target)
        BY <4>4, <3>4, <2>0, <2>3 DEF Pushes, SearchState
      <4>6. t \in SearchState
        BY <4>3, <4>4, <3>1 DEF SearchState
      <4>. QED BY <4>5, <4>6, <1>2
    <3>. QED BY <3>3, <3>4
  <2>. QED BY <2>1, <2>2, <2>3
<1>. QED BY <1>1, <1>2

LEMMA SearchDef ==
  ASSUME NEW E \in EdgeMaps, NEW start \in Node, NEW target \in Node
  PROVE  LET loop == search(E, start, target) IN
         /\ loop \in [Nat -> SearchState]
         /\ loop[0] = [stack |-> <<start>>, todo |-> E, visited |-> {}, path |-> << >>]
         /\ \A k \in Nat : loop[k + 1] = iterate(loop[k], start, target)
<1> DEFINE base == [stack |-> <<start>>, todo |-> E, visited |-> {}, path |-> << >>]
           f == [k \in Nat |-> [s \in SearchState |-> iterate(s, start, target)]]
           loop == search(E, start, target)
<1>1. base \in SearchState
  BY DEF SearchState
<1>2. f \in [Nat -> [SearchState -> SearchState]]
  BY IterateFacts
<1> HIDE DEF base, f
<1>3. PICK g \in [Nat -> SearchState] : g[0] = base /\ \A k \in Nat : g[k + 1] = f[k][g[k]]
  <2>1. CanIterate(SearchState, base, f)
    BY <1>1, <1>2, Iterated
  <2>. QED BY <2>1 DEF CanIterate
<1>4. \A k \in Nat : g[k + 1] = iterate(g[k], start, target)
  BY <1>3 DEF f
<1>5. g = [k \in Nat |-> IF k = 0 THEN base ELSE iterate(g[k - 1], start, target)]
  <2>1. \A k \in Nat : k # 0 => k - 1 \in Nat /\ (k - 1) + 1 = k
    OBVIOUS
  <2>2. \A k \in Nat : g[k] = IF k = 0 THEN base ELSE iterate(g[k - 1], start, target)
    BY <2>1, <1>3, <1>4
  <2>. QED BY <2>2, <1>3
<1>6. loop = [k \in Nat |-> IF k = 0 THEN base ELSE iterate(loop[k - 1], start, target)]
  BY <1>5 DEF search, base
<1> HIDE DEF loop
<1>7. loop[0] = base /\ \A k \in Nat : loop[k + 1] = iterate(loop[k], start, target)
  <2>1. \A k \in Nat : k + 1 \in Nat /\ k + 1 # 0 /\ (k + 1) - 1 = k
    OBVIOUS
  <2>. QED BY <1>6, <2>1
<1> DEFINE P == {k \in Nat : loop[k] \in SearchState}
<1>8. 0 \in P
  BY <1>7, <1>1
<1>9. \A k \in Nat : k \in P => k + 1 \in P
  BY <1>7, IterateFacts
<1> HIDE DEF P
<1>10. Nat \subseteq P
  BY <1>8, <1>9, NatSets
<1>11. loop \in [Nat -> SearchState]
  BY <1>6, <1>10 DEF P
<1>. QED BY <1>7, <1>11 DEF loop, base
-----------------------------------------------------------------------------
(* What the search returns.  A cycle through n is a closed path that takes *)
(* one edge per step and repeats no other node; of two, the earlier one has *)
(* the smaller resource where they part.                                   *)

IsCycle(E, n, q) ==
    /\ q \in Seq(Node) /\ Len(q) > 1 /\ q[1] = n /\ q[Len(q)] = n
    /\ \A i \in 1 .. Len(q) - 1 : q[i + 1] \in E[q[i]]
    /\ \A i, j \in 1 .. Len(q) - 1 : q[i] = q[j] => i = j

Before(p, q) ==
    \E i \in 1 .. Len(p) : /\ i <= Len(q) /\ p[i] < q[i]
                           /\ \A j \in 1 .. i - 1 : p[j] = q[j]

Earliest(E, n, p) == IsCycle(E, n, p) /\ \A q : IsCycle(E, n, q) => q = p \/ Before(p, q)

OnStack(s, v) == \E i \in 1 .. Len(s.stack) : s.stack[i] = v

\* The stack is a path from n without repetition; the children that its nodes
\* have still to try come after the one that was taken.
StackInv(E, n, s) ==
    /\ \A i \in 1 .. Len(s.stack) : s.stack[i] \in s.visited \cup {n}
    /\ \A i, j \in 1 .. Len(s.stack) : s.stack[i] = s.stack[j] => i = j
    /\ s.stack # << >> => s.stack[1] = n
    /\ \A i \in 1 .. Len(s.stack) - 1 :
           /\ s.stack[i + 1] \in E[s.stack[i]]
           /\ \A c \in s.todo[s.stack[i]] : s.stack[i + 1] < c

\* What was tried was visited, and what left the stack has tried everything.
TodoInv(E, n, s) ==
    /\ n \notin s.visited
    /\ \A v \in Node :
           /\ s.todo[v] \subseteq E[v]
           /\ v \notin s.visited \cup {n} => s.todo[v] = E[v]
           /\ v \in s.visited \cup {n} => E[v] \ s.todo[v] \subseteq s.visited
           /\ v \in s.visited \cup {n} /\ ~OnStack(s, v) => s.todo[v] = {}

\* Every cycle through n leaves the stack by a child that is still to be tried.
Ahead(s, q) ==
    \E i \in 1 .. Len(s.stack) : /\ i < Len(q) /\ \A j \in 1 .. i : q[j] = s.stack[j]
                                 /\ q[i + 1] \in s.todo[s.stack[i]]

AheadInv(E, n, s) == \A q : IsCycle(E, n, q) => Ahead(s, q)

SearchInv(E, n, s) ==
    /\ s \in SearchState
    /\ s.path = << >> => StackInv(E, n, s) /\ TodoInv(E, n, s) /\ AheadInv(E, n, s)
    /\ s.path # << >> => Earliest(E, n, s.path)

\* A visited node that is not on the stack leads to no cycle.
LEMMA DeadEnd ==
  ASSUME NEW E \in EdgeMaps, NEW n \in Node, NEW s \in SearchState, TodoInv(E, n, s),
         NEW q, IsCycle(E, n, q), Len(s.stack) < Len(q),
         \A j \in 1 .. Len(s.stack) : q[j] = s.stack[j]
  PROVE  q[Len(s.stack) + 1] \notin s.visited
<1> SUFFICES ASSUME q[Len(s.stack) + 1] \in s.visited PROVE FALSE
  OBVIOUS
<1> DEFINE l == Len(s.stack)
           P == {k \in Nat : l + 1 + k <= Len(q) =>
                    q[l + 1 + k] \in s.visited /\ ~OnStack(s, q[l + 1 + k])}
<1>0. l \in Nat /\ Len(q) \in Nat /\ q \in Seq(Node) /\ q[Len(q)] = n /\ n \notin s.visited
  BY DEF SearchState, IsCycle, TodoInv
<1>1. ASSUME NEW m \in l + 1 .. Len(q), q[m] \in s.visited PROVE ~OnStack(s, q[m])
  <2> SUFFICES ASSUME NEW j \in 1 .. l, s.stack[j] = q[m] PROVE FALSE
    BY DEF OnStack
  <2>1. m # Len(q)
    BY <1>0, <1>1
  <2>2. q[j] = q[m] /\ j \in 1 .. Len(q) - 1 /\ m \in 1 .. Len(q) - 1 /\ j # m
    BY <1>0, <1>1, <2>1
  <2>. QED BY <2>2 DEF IsCycle
<1>2. 0 \in P
  BY <1>0, <1>1
<1>3. ASSUME NEW k \in Nat, k \in P PROVE k + 1 \in P
  <2> DEFINE m == l + 1 + k
  <2> SUFFICES ASSUME m + 1 <= Len(q) PROVE q[m + 1] \in s.visited /\ ~OnStack(s, q[m + 1])
    BY <1>0
  <2>1. q[m] \in s.visited /\ ~OnStack(s, q[m]) /\ m \in 1 .. Len(q) - 1
    BY <1>0, <1>3
  <2>2. E[q[m]] \subseteq s.visited
    <3>1. q[m] \in Node /\ s.todo[q[m]] = {}
      BY <2>1, <1>0 DEF TodoInv
    <3>2. E[q[m]] \ s.todo[q[m]] \subseteq s.visited
      BY <3>1, <2>1 DEF TodoInv
    <3>. QED BY <3>1, <3>2
  <2>3. q[m + 1] \in s.visited
    BY <2>1, <2>2 DEF IsCycle
  <2>4. m + 1 \in l + 1 .. Len(q)
    BY <1>0
  <2>. QED BY <1>1, <2>3, <2>4
<1> HIDE DEF P
<1>4. Len(q) - l - 1 \in P
  BY <1>0, <1>2, <1>3, NatSets
<1>5. q[Len(q)] \in s.visited
  BY <1>0, <1>4 DEF P
<1>. QED BY <1>0, <1>5

LEMMA SearchBegins ==
  ASSUME NEW E \in EdgeMaps, NEW n \in Node,
         NEW s, s = [stack |-> <<n>>, todo |-> E, visited |-> {}, path |-> << >>]
  PROVE  SearchInv(E, n, s)
<1>1. s \in SearchState /\ Len(s.stack) = 1 /\ s.stack[1] = n /\ s.todo = E /\ s.visited = {}
  BY DEF SearchState
<1>2. StackInv(E, n, s)
  BY <1>1 DEF StackInv
<1>3. TodoInv(E, n, s)
  BY <1>1 DEF TodoInv, OnStack
<1>4. AheadInv(E, n, s)
  <2> SUFFICES ASSUME NEW q, IsCycle(E, n, q) PROVE Ahead(s, q)
    BY DEF AheadInv
  <2>1. 1 \in 1 .. Len(q) - 1 /\ 1 < Len(q) /\ q[1] = n /\ q[1 + 1] \in E[q[1]]
    BY DEF IsCycle
  <2>. QED BY <1>1, <2>1 DEF Ahead
<1>. QED BY <1>1, <1>2, <1>3, <1>4 DEF SearchInv

LEMMA PopStep ==
  ASSUME NEW E \in EdgeMaps, NEW n \in Node, NEW s \in SearchState, NEW t \in SearchState,
         Running(s), StackInv(E, n, s), TodoInv(E, n, s), AheadInv(E, n, s), Pops(s, t)
  PROVE  StackInv(E, n, t) /\ TodoInv(E, n, t) /\ AheadInv(E, n, t)
<1> DEFINE l == Len(s.stack)
<1>1. /\ l \in Nat /\ l > 0 /\ Len(t.stack) = l - 1 /\ t.todo = s.todo /\ t.visited = s.visited
      /\ \A i \in 1 .. l - 1 : t.stack[i] = s.stack[i]
      /\ s.todo[s.stack[l]] = {} /\ t.stack \in Seq(Node)
  BY TopFacts DEF Pops, top
<1>2. StackInv(E, n, t)
  <2>1. \A i \in 1 .. l - 1 : i \in 1 .. l
    BY <1>1
  <2>2. \A i \in 1 .. l - 1 : t.stack[i] \in t.visited \cup {n}
    BY <1>1, <2>1 DEF StackInv
  <2>3. \A i, j \in 1 .. l - 1 : t.stack[i] = t.stack[j] => i = j
    BY <1>1, <2>1 DEF StackInv
  <2>4. t.stack # << >> => t.stack[1] = n
    BY <1>1 DEF StackInv, Running
  <2>5. ASSUME NEW i \in 1 .. (l - 1) - 1
        PROVE  t.stack[i + 1] \in E[t.stack[i]] /\ \A c \in t.todo[t.stack[i]] : t.stack[i + 1] < c
    <3>1. i \in 1 .. l - 1 /\ i + 1 \in 1 .. l - 1
      BY <1>1
    <3>. QED BY <3>1, <1>1 DEF StackInv
  <2>. QED BY <1>1, <2>2, <2>3, <2>4, <2>5 DEF StackInv
<1>3. TodoInv(E, n, t)
  <2>1. ASSUME NEW v \in Node, v \in s.visited \cup {n}, ~OnStack(t, v) PROVE s.todo[v] = {}
    <3>1. CASE v = s.stack[l]
      BY <3>1, <1>1
    <3>2. CASE v # s.stack[l]
      <4>1. ~OnStack(s, v)
        BY <2>1, <3>2, <1>1 DEF OnStack
      <4>. QED BY <4>1, <2>1 DEF TodoInv
    <3>. QED BY <3>1, <3>2
  <2>. QED BY <1>1, <2>1 DEF TodoInv
<1>4. AheadInv(E, n, t)
  <2> SUFFICES ASSUME NEW q, IsCycle(E, n, q) PROVE Ahead(t, q)
    BY DEF AheadInv
  <2>1. PICK i \in 1 .. l : /\ i < Len(q) /\ \A j \in 1 .. i : q[j] = s.stack[j]
                            /\ q[i + 1] \in s.todo[s.stack[i]]
    BY DEF AheadInv, Ahead
  <2>2. i # l
    BY <2>1, <1>1
  <2>3. i \in 1 .. Len(t.stack) /\ \A j \in 1 .. i : j \in 1 .. l - 1
    BY <1>1, <2>2
  <2>. QED BY <1>1, <2>1, <2>3 DEF Ahead
<1>. QED BY <1>2, <1>3, <1>4

\* The cycle found is the earliest one: the others leave the stack later.
LEMMA SuccessStep ==
  ASSUME NEW E \in EdgeMaps, NEW n \in Node, NEW s \in SearchState, NEW t \in SearchState,
         Running(s), StackInv(E, n, s), TodoInv(E, n, s), AheadInv(E, n, s), Succeeds(s, t, n)
  PROVE  t.path # << >> /\ Earliest(E, n, t.path)
<1> DEFINE l == Len(s.stack)
           p == t.path
<1>1. /\ l \in Nat /\ l > 0 /\ s.stack \in Seq(Node) /\ p = Append(s.stack, n) /\ n \in Node
      /\ s.todo[s.stack[l]] # {} /\ s.stack[l] \in Node
      /\ n \in s.todo[s.stack[l]] /\ \A c \in s.todo[s.stack[l]] : n <= c
  BY TopFacts DEF Succeeds, top, SearchState
<1>2. /\ p \in Seq(Node) /\ Len(p) = l + 1 /\ p[l + 1] = n /\ p # << >>
      /\ \A i \in 1 .. l : p[i] = s.stack[i]
  BY <1>1
<1> HIDE DEF p
<1>3. IsCycle(E, n, p)
  <2>1. p[1] = n /\ Len(p) > 1 /\ p[Len(p)] = n
    BY <1>1, <1>2 DEF StackInv, Running
  <2>2. ASSUME NEW i \in 1 .. l PROVE p[i + 1] \in E[p[i]]
    <3>1. CASE i = l
      BY <3>1, <1>1, <1>2 DEF TodoInv
    <3>2. CASE i # l
      <4>1. i \in 1 .. l - 1 /\ i + 1 \in 1 .. l
        BY <3>2, <1>1
      <4>. QED BY <4>1, <1>2 DEF StackInv
    <3>. QED BY <3>1, <3>2
  <2>3. \A i, j \in 1 .. l : p[i] = p[j] => i = j
    BY <1>2 DEF StackInv
  <2>4. Len(p) - 1 = l
    BY <1>1, <1>2
  <2>. QED BY <1>2, <2>1, <2>2, <2>3, <2>4 DEF IsCycle
<1>4. ASSUME NEW q, IsCycle(E, n, q) PROVE q = p \/ Before(p, q)
  <2>0. q \in Seq(Node) /\ Len(q) \in Nat
    BY <1>4 DEF IsCycle
  <2>1. PICK i \in 1 .. l : /\ i < Len(q) /\ \A j \in 1 .. i : q[j] = s.stack[j]
                            /\ q[i + 1] \in s.todo[s.stack[i]]
    BY <1>4 DEF AheadInv, Ahead
  <2>2. i + 1 <= Len(q) /\ i + 1 \in 1 .. Len(p) /\ \A j \in 1 .. (i + 1) - 1 : p[j] = q[j]
    BY <2>0, <2>1, <1>1, <1>2
  <2>3. CASE i < l
    <3>1. i \in 1 .. l - 1 /\ i + 1 \in 1 .. l
      BY <2>3, <1>1
    <3>2. p[i + 1] < q[i + 1]
      BY <3>1, <2>1, <1>2 DEF StackInv
    <3>. QED BY <2>2, <3>2 DEF Before
  <2>4. CASE i = l /\ q[i + 1] # n
    <3>1. n <= q[i + 1] /\ q[i + 1] \in Nat /\ n \in Nat
      <4>1. q[i + 1] \in Node
        BY <2>0, <2>1, <1>1
      <4>. QED BY <4>1, <2>1, <2>4, <1>1, NodeAssumption
    <3>2. p[i + 1] < q[i + 1]
      BY <3>1, <2>4, <1>2
    <3>. QED BY <2>2, <3>2 DEF Before
  <2>5. CASE i = l /\ q[i + 1] = n
    <3>1. Len(q) = l + 1
      <4> SUFFICES ASSUME Len(q) # l + 1 PROVE FALSE
        OBVIOUS
      <4>1. l + 1 \in 1 .. Len(q) - 1 /\ 1 \in 1 .. Len(q) - 1 /\ l + 1 # 1
        BY <2>0, <2>1, <2>5, <1>1
      <4>. QED BY <4>1, <2>5, <1>4 DEF IsCycle
    <3>2. \A j \in 1 .. l + 1 : p[j] = q[j]
      BY <2>1, <2>5, <1>1, <1>2
    <3>. QED BY <3>1, <3>2, <2>0, <1>2
  <2>. QED BY <2>3, <2>4, <2>5, <1>1
<1>. QED BY <1>2, <1>3, <1>4 DEF Earliest, p

\* The child tried now is gone from the top's list; it was the least of them.
LEMMA TriedFacts ==
  ASSUME NEW s \in SearchState, NEW t \in SearchState, Running(s), s.todo[top(s)] # {},
         t.todo = [s.todo EXCEPT ![top(s)] = @ \ {next(s)}]
  PROVE  /\ t.todo[top(s)] = s.todo[top(s)] \ {next(s)}
         /\ \A v \in Node : v # top(s) => t.todo[v] = s.todo[v]
         /\ \A v \in Node : t.todo[v] \subseteq s.todo[v]
         /\ \A c \in t.todo[top(s)] : next(s) < c
<1>1. s.todo \in EdgeMaps /\ top(s) \in Node
  BY TopFacts DEF SearchState
<1>2. /\ t.todo[top(s)] = s.todo[top(s)] \ {next(s)}
      /\ \A v \in Node : v # top(s) => t.todo[v] = s.todo[v]
  BY <1>1 DEF EdgeMaps
<1>3. ASSUME NEW c \in t.todo[top(s)] PROVE next(s) < c
  <2>1. next(s) <= c /\ c # next(s) /\ c \in Nat /\ next(s) \in Nat
    BY <1>2, TopFacts, NodeAssumption
  <2>. QED BY <2>1
<1>. QED BY <1>2, <1>3

LEMMA SkipStep ==
  ASSUME NEW E \in EdgeMaps, NEW n \in Node, NEW s \in SearchState, NEW t \in SearchState,
         Running(s), StackInv(E, n, s), TodoInv(E, n, s), AheadInv(E, n, s), Skips(s, t, n, n)
  PROVE  StackInv(E, n, t) /\ TodoInv(E, n, t) /\ AheadInv(E, n, t)
<1> DEFINE l == Len(s.stack)
           x == next(s)
<1>1. /\ l \in Nat /\ l > 0 /\ s.stack \in Seq(Node) /\ t.stack = s.stack /\ t.visited = s.visited
      /\ x \in s.todo[s.stack[l]] /\ x \in s.visited /\ s.stack[l] \in Node
  BY TopFacts DEF Skips, top, SearchState
<1>2. /\ t.todo[s.stack[l]] = s.todo[s.stack[l]] \ {x}
      /\ \A v \in Node : v # s.stack[l] => t.todo[v] = s.todo[v]
      /\ \A v \in Node : t.todo[v] \subseteq s.todo[v]
  BY TriedFacts DEF Skips, top
<1> HIDE DEF x
<1>3. \A i \in 1 .. l : s.stack[i] \in Node
  BY <1>1
<1>4. StackInv(E, n, t)
  <2>1. \A i \in 1 .. l - 1 : \A c \in t.todo[t.stack[i]] : t.stack[i + 1] < c
    <3>1. \A i \in 1 .. l - 1 : i \in 1 .. l
      BY <1>1
    <3>. QED BY <3>1, <1>1, <1>2, <1>3 DEF StackInv
  <2>. QED BY <2>1, <1>1 DEF StackInv
<1>5. TodoInv(E, n, t)
  <2>1. \A v : OnStack(t, v) <=> OnStack(s, v)
    BY <1>1 DEF OnStack
  <2>2. OnStack(s, s.stack[l]) /\ s.stack[l] \in s.visited \cup {n}
    BY <1>1 DEF OnStack, StackInv
  <2>3. ASSUME NEW v \in Node
        PROVE  /\ t.todo[v] \subseteq E[v]
               /\ v \notin s.visited \cup {n} => t.todo[v] = E[v]
               /\ v \in s.visited \cup {n} => E[v] \ t.todo[v] \subseteq s.visited
               /\ v \in s.visited \cup {n} /\ ~OnStack(s, v) => t.todo[v] = {}
    <3>1. CASE v = s.stack[l]
      BY <3>1, <2>2, <1>1, <1>2 DEF TodoInv
    <3>2. CASE v # s.stack[l]
      BY <3>2, <1>2 DEF TodoInv
    <3>. QED BY <3>1, <3>2
  <2>. QED BY <1>1, <2>1, <2>3 DEF TodoInv
<1>6. AheadInv(E, n, t)
  <2> SUFFICES ASSUME NEW q, IsCycle(E, n, q) PROVE Ahead(t, q)
    BY DEF AheadInv
  <2>1. PICK i \in 1 .. l : /\ i < Len(q) /\ \A j \in 1 .. i : q[j] = s.stack[j]
                            /\ q[i + 1] \in s.todo[s.stack[i]]
    BY DEF AheadInv, Ahead
  <2>2. q[i + 1] \in t.todo[s.stack[i]]
    <3>1. CASE i = l
      <4>1. q[l + 1] \notin s.visited
        BY <2>1, <3>1, DeadEnd
      <4>. QED BY <4>1, <3>1, <2>1, <1>1, <1>2
    <3>2. CASE i # l
      <4>1. s.stack[i] # s.stack[l]
        BY <3>2, <1>1 DEF StackInv
      <4>. QED BY <4>1, <2>1, <1>2, <1>3
    <3>. QED BY <3>1, <3>2
  <2>. QED BY <1>1, <2>1, <2>2 DEF Ahead
<1>. QED BY <1>4, <1>5, <1>6

LEMMA PushStep ==
  ASSUME NEW E \in EdgeMaps, NEW n \in Node, NEW s \in SearchState, NEW t \in SearchState,
         Running(s), StackInv(E, n, s), TodoInv(E, n, s), AheadInv(E, n, s), Pushes(s, t, n, n)
  PROVE  StackInv(E, n, t) /\ TodoInv(E, n, t) /\ AheadInv(E, n, t)
<1> DEFINE l == Len(s.stack)
           x == next(s)
<1>1. /\ l \in Nat /\ l > 0 /\ s.stack \in Seq(Node) /\ t.stack = Append(s.stack, x)
      /\ t.visited = s.visited \cup {x} /\ x \in Node
      /\ x \in s.todo[s.stack[l]] /\ x \notin s.visited /\ x # n /\ s.stack[l] \in Node
  BY TopFacts DEF Pushes, top, SearchState
<1>2. /\ t.todo[s.stack[l]] = s.todo[s.stack[l]] \ {x}
      /\ \A v \in Node : v # s.stack[l] => t.todo[v] = s.todo[v]
      /\ \A v \in Node : t.todo[v] \subseteq s.todo[v]
      /\ \A c \in t.todo[s.stack[l]] : x < c
  BY TriedFacts DEF Pushes, top
<1> HIDE DEF x
<1>3. \A i \in 1 .. l : s.stack[i] \in Node
  BY <1>1
<1>4. Len(t.stack) = l + 1 /\ t.stack[l + 1] = x /\ \A i \in 1 .. l : t.stack[i] = s.stack[i]
  BY <1>1
<1>5. \A i \in 1 .. l : s.stack[i] \in s.visited \cup {n} /\ s.stack[i] # x
  BY <1>1 DEF StackInv
<1>6. StackInv(E, n, t)
  <2>1. \A i \in 1 .. l + 1 : t.stack[i] \in t.visited \cup {n}
    BY <1>1, <1>4, <1>5
  <2>2. \A i, j \in 1 .. l + 1 : t.stack[i] = t.stack[j] => i = j
    <3>1. \A i, j \in 1 .. l : s.stack[i] = s.stack[j] => i = j
      BY DEF StackInv
    <3>2. \A i \in 1 .. l + 1 : i = l + 1 \/ i \in 1 .. l
      BY <1>1
    <3>. QED BY <3>1, <3>2, <1>4, <1>5
  <2>3. t.stack[1] = n
    BY <1>1, <1>4 DEF StackInv, Running
  <2>4. ASSUME NEW i \in 1 .. l
        PROVE  t.stack[i + 1] \in E[t.stack[i]] /\ \A c \in t.todo[t.stack[i]] : t.stack[i + 1] < c
    <3>1. CASE i = l
      <4>1. x \in E[s.stack[l]]
        BY <1>1 DEF TodoInv
      <4>. QED BY <4>1, <3>1, <1>2, <1>4
    <3>2. CASE i # l
      <4>1. i \in 1 .. l - 1 /\ i + 1 \in 1 .. l
        BY <3>2, <1>1
      <4>2. t.todo[s.stack[i]] \subseteq s.todo[s.stack[i]]
        BY <1>2, <1>3
      <4>. QED BY <4>1, <4>2, <1>4 DEF StackInv
    <3>. QED BY <3>1, <3>2
  <2>5. Len(t.stack) - 1 = l
    BY <1>1, <1>4
  <2>. QED BY <1>4, <2>1, <2>2, <2>3, <2>4, <2>5 DEF StackInv
<1>7. TodoInv(E, n, t)
  <2>1. \A v : OnStack(t, v) <=> OnStack(s, v) \/ v = x
    <3>1. \A i : i \in 1 .. l + 1 <=> i = l + 1 \/ i \in 1 .. l
      BY <1>1
    <3>. QED BY <3>1, <1>4 DEF OnStack
  <2>2. OnStack(s, s.stack[l]) /\ s.stack[l] \in s.visited \cup {n} /\ x # s.stack[l]
    BY <1>1, <1>5 DEF OnStack, StackInv
  <2>3. ASSUME NEW v \in Node
        PROVE  /\ t.todo[v] \subseteq E[v]
               /\ v \notin t.visited \cup {n} => t.todo[v] = E[v]
               /\ v \in t.visited \cup {n} => E[v] \ t.todo[v] \subseteq t.visited
               /\ v \in t.visited \cup {n} /\ ~OnStack(t, v) => t.todo[v] = {}
    <3>1. CASE v = s.stack[l]
      <4>1. s.todo[v] \subseteq E[v] /\ E[v] \ s.todo[v] \subseteq s.visited
        BY <3>1, <2>2 DEF TodoInv
      <4>. QED BY <4>1, <3>1, <2>1, <2>2, <1>1, <1>2
    <3>2. CASE v = x
      <4>1. t.todo[v] = E[v]
        BY <3>2, <2>2, <1>1, <1>2 DEF TodoInv
      <4>. QED BY <4>1, <3>2, <2>1, <1>1
    <3>3. CASE v # s.stack[l] /\ v # x
      <4>1. t.todo[v] = s.todo[v] /\ (v \in t.visited <=> v \in s.visited) /\ s.visited \subseteq t.visited
        BY <3>3, <1>1, <1>2
      <4>2. OnStack(t, v) <=> OnStack(s, v)
        BY <3>3, <2>1
      <4>. QED BY <4>1, <4>2 DEF TodoInv
    <3>. QED BY <3>1, <3>2, <3>3
  <2>4. n \notin t.visited
    BY <1>1 DEF TodoInv
  <2>. QED BY <2>3, <2>4 DEF TodoInv
<1>8. AheadInv(E, n, t)
  <2> SUFFICES ASSUME NEW q, IsCycle(E, n, q) PROVE Ahead(t, q)
    BY DEF AheadInv
  <2>0. q \in Seq(Node) /\ Len(q) \in Nat /\ q[Len(q)] = n
    BY DEF IsCycle
  <2>1. PICK i \in 1 .. l : /\ i < Len(q) /\ \A j \in 1 .. i : q[j] = s.stack[j]
                            /\ q[i + 1] \in s.todo[s.stack[i]]
    BY DEF AheadInv, Ahead
  <2>2. i \in 1 .. Len(t.stack) /\ \A j \in 1 .. i : q[j] = t.stack[j]
    BY <2>1, <1>1, <1>4
  <2>3. CASE i = l /\ q[i + 1] = x
    <3>1. l + 1 < Len(q)
      BY <2>0, <2>1, <2>3, <1>1
    <3>2. q[(l + 1) + 1] \in E[q[l + 1]]
      <4>1. l + 1 \in 1 .. Len(q) - 1
        BY <3>1, <2>0, <1>1
      <4>. QED BY <4>1 DEF IsCycle
    <3>3. t.todo[x] = E[x]
      BY <1>1, <1>2, <1>5 DEF TodoInv
    <3>4. \A j \in 1 .. l + 1 : q[j] = t.stack[j]
      <4>1. \A j \in 1 .. l + 1 : j = l + 1 \/ j \in 1 .. l
        BY <1>1
      <4>. QED BY <4>1, <2>1, <2>3, <1>4
    <3>5. l + 1 \in 1 .. Len(t.stack)
      BY <1>1, <1>4
    <3>. QED BY <3>1, <3>2, <3>3, <3>4, <3>5, <2>3, <1>4 DEF Ahead
  <2>4. CASE i = l /\ q[i + 1] # x
    <3>1. q[i + 1] \in t.todo[t.stack[i]]
      BY <2>1, <2>4, <1>2, <1>4
    <3>. QED BY <3>1, <2>1, <2>2 DEF Ahead
  <2>5. CASE i # l
    <3>1. s.stack[i] # s.stack[l]
      BY <2>5, <1>1 DEF StackInv
    <3>2. q[i + 1] \in t.todo[t.stack[i]]
      BY <3>1, <2>1, <1>2, <1>3, <1>4
    <3>. QED BY <3>2, <2>1, <2>2 DEF Ahead
  <2>. QED BY <2>3, <2>4, <2>5
<1>. QED BY <1>6, <1>7, <1>8

LEMMA SearchStep ==
  ASSUME NEW E \in EdgeMaps, NEW n \in Node, NEW s, SearchInv(E, n, s)
  PROVE  SearchInv(E, n, iterate(s, n, n))
<1> DEFINE t == iterate(s, n, n)
<1> SUFFICES SearchInv(E, n, t)
  OBVIOUS
<1>1. s \in SearchState /\ t \in SearchState
  BY IterateFacts DEF SearchInv
<1>2. CASE ~Running(s)
  BY <1>1, <1>2, IterateFacts
<1>3. CASE Running(s)
  <2>1. StackInv(E, n, s) /\ TodoInv(E, n, s) /\ AheadInv(E, n, s)
    BY <1>3 DEF SearchInv, Running
  <2>2. Pops(s, t) \/ Succeeds(s, t, n) \/ Skips(s, t, n, n) \/ Pushes(s, t, n, n)
    BY <1>1, <1>3, IterateFacts
  <2> HIDE DEF t
  <2>3. CASE Pops(s, t)
    BY <2>1, <2>3, <1>1, <1>3, PopStep DEF SearchInv, Pops
  <2>4. CASE Succeeds(s, t, n)
    BY <2>1, <2>4, <1>1, <1>3, SuccessStep DEF SearchInv
  <2>5. CASE Skips(s, t, n, n)
    BY <2>1, <2>5, <1>1, <1>3, SkipStep DEF SearchInv, Skips
  <2>6. CASE Pushes(s, t, n, n)
    BY <2>1, <2>6, <1>1, <1>3, PushStep DEF SearchInv, Pushes
  <2>. QED BY <2>2, <2>3, <2>4, <2>5, <2>6
<1>. QED BY <1>2, <1>3

(* The search ends in time: with every iteration an edge was tried or a    *)
(* node has left the stack.                                                *)
Untried(s) == {e \in Node \X Node : e[2] \in s.todo[e[1]]}
Open(s) == {v \in Node : v \notin s.visited \/ OnStack(s, v)}
Work(s) == Cardinality(Untried(s)) + Cardinality(Open(s))

LEMMA WorkFacts ==
  ASSUME NEW s
  PROVE  /\ IsFiniteSet(Untried(s)) /\ IsFiniteSet(Open(s))
         /\ Cardinality(Untried(s)) \in Nat /\ Cardinality(Open(s)) \in Nat
         /\ Cardinality(Node) \in Nat /\ Iterations \in Nat /\ Work(s) <= Iterations
<1>1. /\ IsFiniteSet(Node \X Node) /\ Cardinality(Node \X Node) = Cardinality(Node) * Cardinality(Node)
      /\ Cardinality(Node) \in Nat
  BY NodeAssumption, FS_Product, FS_CardinalityType
<1>2. Untried(s) \subseteq Node \X Node /\ Open(s) \subseteq Node
  BY DEF Untried, Open
<1>3. /\ IsFiniteSet(Untried(s)) /\ Cardinality(Untried(s)) \in Nat
      /\ Cardinality(Untried(s)) <= Cardinality(Node) * Cardinality(Node)
  BY <1>1, <1>2, FS_Subset, FS_CardinalityType
<1>4. /\ IsFiniteSet(Open(s)) /\ Cardinality(Open(s)) \in Nat
      /\ Cardinality(Open(s)) <= Cardinality(Node)
  BY <1>1, <1>2, NodeAssumption, FS_Subset, FS_CardinalityType
<1>5. \A c \in Nat : c * (c + 1) = c * c + c /\ c * c \in Nat
  OBVIOUS
<1>6. Iterations = Cardinality(Node) * Cardinality(Node) + Cardinality(Node) /\ Iterations \in Nat
  BY <1>1, <1>5 DEF Iterations
<1>7. \A a, b, c, d \in Nat : a <= c /\ b <= d => a + b <= c + d
  OBVIOUS
<1>8. Cardinality(Node) * Cardinality(Node) \in Nat
  BY <1>1, <1>5
<1>9. Work(s) <= Iterations
  BY <1>1, <1>3, <1>4, <1>6, <1>7, <1>8 DEF Work
<1>. QED BY <1>1, <1>3, <1>4, <1>6, <1>9

LEMMA WorkShrinks ==
  ASSUME NEW E \in EdgeMaps, NEW n \in Node, NEW s, SearchInv(E, n, s),
         Running(iterate(s, n, n))
  PROVE  /\ Running(s) /\ Work(s) \in Nat /\ Work(iterate(s, n, n)) \in Nat
         /\ Work(iterate(s, n, n)) + 1 <= Work(s)
<1> DEFINE t == iterate(s, n, n)
           l == Len(s.stack)
           x == next(s)
<1>1. s \in SearchState /\ t \in SearchState /\ SearchInv(E, n, t)
  BY IterateFacts, SearchStep DEF SearchInv
<1>2. Running(s)
  BY <1>1, IterateFacts
<1>3. Pops(s, t) \/ Succeeds(s, t, n) \/ Skips(s, t, n, n) \/ Pushes(s, t, n, n)
  BY <1>1, <1>2, IterateFacts
<1> SUFFICES Work(t) + 1 <= Work(s)
  BY <1>2, WorkFacts DEF Work
<1>4. Running(t)
  OBVIOUS
<1>5. StackInv(E, n, s) /\ TodoInv(E, n, s)
  BY <1>2 DEF SearchInv, Running
<1>6. l \in Nat /\ l > 0 /\ s.stack \in Seq(Node) /\ top(s) = s.stack[l] /\ top(s) \in Node
  BY <1>1, <1>2, TopFacts DEF top, SearchState
<1> HIDE DEF t
<1>7. CASE Pops(s, t)
  <2>1. /\ Len(t.stack) = l - 1 /\ t.todo = s.todo /\ t.visited = s.visited
        /\ \A i \in 1 .. l - 1 : t.stack[i] = s.stack[i]
    BY <1>1, <1>2, <1>7, TopFacts DEF Pops
  <2>2. l > 1
    BY <2>1, <1>1, <1>4, <1>6 DEF Running, SearchState
  <2>3. top(s) \in s.visited
    BY <2>2, <1>2, <1>5, <1>6 DEF StackInv, Running
  <2>4. OnStack(s, top(s)) /\ ~OnStack(t, top(s))
    <3>1. \A i \in 1 .. l - 1 : i \in 1 .. l /\ s.stack[i] # s.stack[l]
      BY <1>5, <1>6 DEF StackInv
    <3>. QED BY <3>1, <2>1, <1>6 DEF OnStack
  <2>5. \A v : v # top(s) => (OnStack(t, v) <=> OnStack(s, v))
    BY <2>1, <1>6 DEF OnStack
  <2>6. Open(t) = Open(s) \ {top(s)} /\ top(s) \in Open(s)
    BY <2>1, <2>3, <2>4, <2>5, <1>6 DEF Open
  <2>7. Untried(t) = Untried(s)
    BY <2>1 DEF Untried
  <2>8. Cardinality(Open(t)) = Cardinality(Open(s)) - 1
    BY <2>6, WorkFacts, FS_RemoveElement
  <2>. QED BY <2>7, <2>8, WorkFacts DEF Work
<1>8. CASE Succeeds(s, t, n)
  BY <1>1, <1>4, <1>8, <1>6 DEF Succeeds, Running
<1>9. ASSUME Skips(s, t, n, n) \/ Pushes(s, t, n, n) PROVE Work(t) + 1 <= Work(s)
  <2>1. /\ t.todo = [s.todo EXCEPT ![top(s)] = @ \ {x}]
        /\ x \in s.todo[top(s)] /\ x \in Node /\ s.todo[top(s)] # {}
    BY <1>9, <1>1, <1>2, TopFacts DEF Skips, Pushes
  <2>2. /\ t.todo[top(s)] = s.todo[top(s)] \ {x}
        /\ \A v \in Node : v # top(s) => t.todo[v] = s.todo[v]
    BY <2>1, <1>1, <1>2, TriedFacts
  <2>3. Untried(t) = Untried(s) \ {<<top(s), x>>} /\ <<top(s), x>> \in Untried(s)
    BY <2>1, <2>2, <1>6 DEF Untried
  <2>4. Cardinality(Untried(t)) = Cardinality(Untried(s)) - 1
    BY <2>3, WorkFacts, FS_RemoveElement
  <2>5. Open(t) = Open(s)
    <3>1. CASE Skips(s, t, n, n)
      BY <3>1 DEF Skips, Open, OnStack
    <3>2. CASE Pushes(s, t, n, n)
      <4>1. /\ t.stack = Append(s.stack, x) /\ t.visited = s.visited \cup {x} /\ x \notin s.visited
        BY <3>2 DEF Pushes
      <4>2. Len(t.stack) = l + 1 /\ t.stack[l + 1] = x /\ \A i \in 1 .. l : t.stack[i] = s.stack[i]
        BY <4>1, <2>1, <1>6
      <4>3. \A i : i \in 1 .. l + 1 <=> i = l + 1 \/ i \in 1 .. l
        BY <1>6
      <4>4. \A v : OnStack(t, v) <=> OnStack(s, v) \/ v = x
        BY <4>2, <4>3 DEF OnStack
      <4>. QED BY <4>1, <4>4 DEF Open
    <3>. QED BY <3>1, <3>2, <1>9
  <2>. QED BY <2>4, <2>5, WorkFacts DEF Work
<1>. QED BY <1>3, <1>7, <1>8, <1>9

LEMMA SearchEnds ==
  ASSUME NEW E \in EdgeMaps, NEW n \in Node
  PROVE  LET s == search(E, n, n)[Iterations] IN SearchInv(E, n, s) /\ ~Running(s)
<1> DEFINE loop == search(E, n, n)
           P == {k \in Nat : /\ SearchInv(E, n, loop[k])
                             /\ Running(loop[k]) => Work(loop[k]) + k <= Iterations}
<1>1. /\ loop[0] = [stack |-> <<n>>, todo |-> E, visited |-> {}, path |-> << >>]
      /\ \A k \in Nat : loop[k + 1] = iterate(loop[k], n, n)
  BY SearchDef
<1> HIDE DEF loop
<1>2. 0 \in P
  <2>1. SearchInv(E, n, loop[0])
    BY <1>1, SearchBegins
  <2>2. Work(loop[0]) \in Nat /\ Work(loop[0]) <= Iterations
    BY WorkFacts DEF Work
  <2>3. Work(loop[0]) + 0 <= Iterations
    BY <2>2
  <2>. QED BY <2>1, <2>3
<1>3. ASSUME NEW k \in Nat, k \in P PROVE k + 1 \in P
  <2>1. SearchInv(E, n, loop[k + 1])
    BY <1>1, <1>3, SearchStep
  <2>2. ASSUME Running(loop[k + 1]) PROVE Work(loop[k + 1]) + (k + 1) <= Iterations
    <3>1. /\ Running(loop[k]) /\ Work(loop[k]) \in Nat /\ Work(loop[k + 1]) \in Nat
          /\ Work(loop[k + 1]) + 1 <= Work(loop[k])
      BY <2>2, <1>1, <1>3, WorkShrinks
    <3>2. Work(loop[k]) + k <= Iterations
      BY <3>1, <1>3
    <3>. QED BY <3>1, <3>2, WorkFacts
  <2>. QED BY <2>1, <2>2
<1> HIDE DEF P
<1>4. Iterations \in P
  BY <1>2, <1>3, NatSets, WorkFacts
<1> DEFINE s == loop[Iterations]
<1>5. SearchInv(E, n, s) /\ (Running(s) => Work(s) + Iterations <= Iterations)
  BY <1>4 DEF P
<1> HIDE DEF s
<1>6. ASSUME Running(s) PROVE FALSE
  <2>1. Work(s) <= 0
    BY <1>5, <1>6, WorkFacts DEF Work
  <2>2. n \in Open(s)
    BY <1>5, <1>6 DEF SearchInv, TodoInv, Running, Open
  <2>3. Cardinality(Open(s)) # 0
    BY <2>2, WorkFacts, FS_EmptySet
  <2>. QED BY <2>1, <2>3, WorkFacts DEF Work
<1>. QED BY <1>5, <1>6 DEF s, loop

LEMMA ClosureFacts ==
  ASSUME NEW E \in EdgeMaps, NEW S \in SUBSET Node
  PROVE  /\ S \subseteq Closure(E, S) /\ Closure(E, S) \in SUBSET Node /\ Closed(E, Closure(E, S))
         /\ \A T \in SUBSET Node : S \subseteq T /\ Closed(E, T) => Closure(E, S) \subseteq T
<1>1. S \subseteq Closure(E, S) /\ Closure(E, S) \in SUBSET Node
  BY DEF Closure
<1>2. \A T \in SUBSET Node : S \subseteq T /\ Closed(E, T) => Closure(E, S) \subseteq T
  BY DEF Closure
<1>3. ASSUME NEW n \in Closure(E, S), NEW m \in E[n] PROVE m \in Closure(E, S)
  <2>1. n \in Node /\ m \in Node
    BY <1>1 DEF EdgeMaps
  <2>2. ASSUME NEW T \in SUBSET Node, S \subseteq T, Closed(E, T) PROVE m \in T
    BY <1>2, <2>2 DEF Closed
  <2>. QED BY <2>1, <2>2 DEF Closure
<1>. QED BY <1>1, <1>2, <1>3 DEF Closed

\* The search finds the earliest cycle through n, and a cycle if there is one.
LEMMA FindPath ==
  ASSUME NEW E \in EdgeMaps, NEW n \in Node
  PROVE  /\ findPath(E, n, n) # << >> => Earliest(E, n, findPath(E, n, n))
         /\ findPath(E, n, n) = << >> => ~OnCycle(E, n)
<1> DEFINE s == search(E, n, n)[Iterations]
<1>1. SearchInv(E, n, s) /\ ~Running(s) /\ findPath(E, n, n) = s.path
  BY SearchEnds DEF findPath
<1> HIDE DEF s
<1>2. ASSUME s.path = << >> PROVE ~OnCycle(E, n)
  <2>1. TodoInv(E, n, s) /\ s.stack = << >> /\ s.visited \in SUBSET Node
    BY <1>1, <1>2 DEF SearchInv, Running, SearchState
  <2>2. \A v : ~OnStack(s, v)
    BY <2>1 DEF OnStack
  <2>3. \A v \in s.visited \cup {n} : E[v] \subseteq s.visited
    BY <2>1, <2>2 DEF TodoInv
  <2>4. Closed(E, s.visited) /\ E[n] \subseteq s.visited /\ n \notin s.visited
    BY <2>1, <2>3 DEF Closed, TodoInv
  <2>. QED BY <2>1, <2>4 DEF OnCycle, Closure
<1>. QED BY <1>1, <1>2 DEF SearchInv
-----------------------------------------------------------------------------
(* Cycles and the paths reported for them.                                 *)

\* What holds of the next node whenever it holds of one holds all around a cycle.
LEMMA CycleWalk ==
  ASSUME NEW q \in Seq(Node), Len(q) > 1, q[1] = q[Len(q)],
         NEW T, \A i \in 1 .. Len(q) - 1 : q[i] \in T => q[i + 1] \in T,
         NEW k \in 1 .. Len(q), q[k] \in T
  PROVE  \A i \in 1 .. Len(q) : q[i] \in T
<1>0. Len(q) \in Nat
  OBVIOUS
<1>1. ASSUME NEW a \in 1 .. Len(q), q[a] \in T, NEW b \in a .. Len(q) PROVE q[b] \in T
  <2> DEFINE P == {d \in Nat : a + d <= Len(q) => q[a + d] \in T}
  <2>1. 0 \in P
    BY <1>1
  <2>2. ASSUME NEW d \in Nat, d \in P PROVE d + 1 \in P
    <3> SUFFICES ASSUME a + (d + 1) <= Len(q) PROVE q[a + (d + 1)] \in T
      OBVIOUS
    <3>1. a + d \in 1 .. Len(q) - 1 /\ q[a + d] \in T /\ (a + d) + 1 = a + (d + 1)
      BY <2>2, <1>0
    <3>. QED BY <3>1
  <2> HIDE DEF P
  <2>3. b - a \in P
    BY <2>1, <2>2, NatSets, <1>0
  <2>. QED BY <2>3, <1>0 DEF P
<1>2. q[Len(q)] \in T
  BY <1>0, <1>1
<1>. QED BY <1>0, <1>1, <1>2

LEMMA AroundACycle ==
  ASSUME NEW E \in EdgeMaps, NEW n \in Node, NEW q, IsCycle(E, n, q), NEW k \in 1 .. Len(q)
  PROVE  q[k] \in Node /\ OnCycle(E, q[k])
<1>0. /\ q \in Seq(Node) /\ Len(q) \in Nat /\ Len(q) > 1 /\ q[1] = n /\ q[Len(q)] = n
      /\ \A i \in 1 .. Len(q) : q[i] \in Node
  BY DEF IsCycle
<1>1. PICK j \in 1 .. Len(q) - 1 : q[j] = q[k]
  BY <1>0
<1> DEFINE T == Closure(E, E[q[k]])
<1>2. E[q[k]] \in SUBSET Node
  BY <1>0 DEF EdgeMaps
<1>3. E[q[k]] \subseteq T /\ Closed(E, T)
  BY <1>2, ClosureFacts
<1> HIDE DEF T
<1>4. \A i \in 1 .. Len(q) - 1 : q[i] \in T => q[i + 1] \in T
  BY <1>3 DEF IsCycle, Closed
<1>5. q[j + 1] \in T /\ j + 1 \in 1 .. Len(q)
  BY <1>0, <1>1, <1>3 DEF IsCycle
<1>6. q[k] \in T
  BY <1>0, <1>4, <1>5, CycleWalk
<1>. QED BY <1>0, <1>6 DEF T, OnCycle

LEMMA CyclesFound ==
  ASSUME NEW E \in EdgeMaps, NEW n \in Node
  PROVE  /\ OnCycle(E, n) <=> findPath(E, n, n) # << >>
         /\ OnCycle(E, n) => Earliest(E, n, findPath(E, n, n)) /\ IsCycle(E, n, findPath(E, n, n))
<1>1. ASSUME findPath(E, n, n) # << >> PROVE OnCycle(E, n)
  <2>1. IsCycle(E, n, findPath(E, n, n))
    BY <1>1, FindPath DEF Earliest
  <2>2. 1 \in 1 .. Len(findPath(E, n, n)) /\ findPath(E, n, n)[1] = n
    BY <2>1 DEF IsCycle
  <2>. QED BY <2>1, <2>2, AroundACycle
<1>. QED BY <1>1, FindPath DEF Earliest

\* Two searches that have the same cycles before them find the same one.
LEMMA EarliestIsUnique ==
  ASSUME NEW E, NEW D, NEW n, NEW p, NEW q, Earliest(E, n, p), Earliest(D, n, q),
         \A r : IsCycle(E, n, r) <=> IsCycle(D, n, r)
  PROVE  p = q
<1> SUFFICES ASSUME p # q PROVE FALSE
  OBVIOUS
<1>1. Before(p, q) /\ Before(q, p)
  BY DEF Earliest
<1>2. p \in Seq(Node) /\ q \in Seq(Node) /\ Len(p) \in Nat /\ Len(q) \in Nat
  BY DEF Earliest, IsCycle
<1>3. PICK i \in 1 .. Len(p) : /\ i <= Len(q) /\ p[i] < q[i]
                               /\ \A j \in 1 .. i - 1 : p[j] = q[j]
  BY <1>1 DEF Before
<1>4. PICK k \in 1 .. Len(q) : /\ k <= Len(p) /\ q[k] < p[k]
                               /\ \A j \in 1 .. k - 1 : q[j] = p[j]
  BY <1>1 DEF Before
<1>5. p[i] \in Nat /\ q[i] \in Nat /\ p[k] \in Nat /\ q[k] \in Nat
  <2>1. i \in 1 .. Len(q) /\ k \in 1 .. Len(p)
    BY <1>2, <1>3, <1>4
  <2>2. (\A j \in 1 .. Len(p) : p[j] \in Node) /\ (\A j \in 1 .. Len(q) : q[j] \in Node)
    BY <1>2
  <2>. QED BY <2>1, <2>2, <1>3, <1>4, NodeAssumption
<1>6. i \in Nat /\ k \in Nat /\ i > 0 /\ k > 0
  BY <1>2, <1>3, <1>4
<1>7. CASE i = k
  BY <1>3, <1>4, <1>5, <1>7
<1>8. CASE i < k
  <2>1. i \in 1 .. k - 1
    BY <1>6, <1>8
  <2>. QED BY <2>1, <1>3, <1>4, <1>5
<1>9. CASE k < i
  <2>1. k \in 1 .. i - 1
    BY <1>6, <1>9
  <2>. QED BY <2>1, <1>3, <1>4, <1>5
<1>. QED BY <1>6, <1>7, <1>8, <1>9

\* What FailedAreCycles asks of the path reported for n.
Reported(E, n, p) ==
    /\ p \in Seq(Node)
    /\ Len(p) > 1
    /\ n \in Range(p)
    /\ p[1] = p[Len(p)]
    /\ p[1] = Least(Range(p))
    /\ \A i \in 1 .. Len(p) - 1 : p[i + 1] \in E[p[i]]
    /\ Cardinality(Range(p)) = Len(p) - 1

LEMMA RotateReports ==
  ASSUME NEW E \in EdgeMaps, NEW m \in Node, NEW q, IsCycle(E, m, q), NEW n \in Range(q)
  PROVE  Reported(E, n, rotate(q))
<1> DEFINE L == Len(q)
           R == Range(q)
           IsFirst(i) == q[i] = Least(Range(q)) /\ \A j \in 1 .. i - 1 : q[j] # q[i]
           f == CHOOSE i \in DOMAIN q : IsFirst(i)
<1>1. /\ q \in Seq(Node) /\ L \in Nat /\ L > 1 /\ q[1] = m /\ q[L] = m /\ DOMAIN q = 1 .. L
      /\ \A i \in 1 .. L - 1 : q[i + 1] \in E[q[i]]
      /\ \A i, j \in 1 .. L - 1 : q[i] = q[j] => i = j
  BY DEF IsCycle
<1>0. L \in Nat /\ L > 1
  BY <1>1
<1>2. R = {q[i] : i \in 1 .. L} /\ R \subseteq Node
  BY <1>1 DEF Range
<1>3. \A v \in R : \E i \in 1 .. L - 1 : q[i] = v
  <2> SUFFICES ASSUME NEW i \in 1 .. L PROVE \E k \in 1 .. L - 1 : q[k] = q[i]
    BY <1>2
  <2>1. CASE i = L
    <3>1. 1 \in 1 .. L - 1
      BY <1>1
    <3>. QED BY <3>1, <2>1, <1>1
  <2>2. CASE i # L
    <3>1. i \in 1 .. L - 1
      BY ONLY <2>2, <1>0, i \in 1 .. L
    <3>. QED BY <3>1
  <2>. QED BY <2>1, <2>2
<1>4. f \in 1 .. L - 1 /\ q[f] = Least(R)
  <2>1. Least(R) \in R
    <3>1. R # {} /\ R \in SUBSET Nat
      BY <1>1, <1>2, NodeAssumption
    <3>. QED BY <3>1, LeastFacts
  <2>2. PICK k \in 1 .. L - 1 : q[k] = Least(R)
    BY <2>1, <1>3
  <2>3. \A j \in 1 .. k - 1 : q[j] # q[k]
    <3>1. \A j \in 1 .. k - 1 : j \in 1 .. L - 1 /\ j # k
      BY <1>1
    <3>. QED BY <3>1, <1>1
  <2>4. k \in DOMAIN q /\ IsFirst(k)
    BY <2>2, <2>3, <1>1
  <2> HIDE DEF IsFirst
  <2>5. f \in DOMAIN q /\ IsFirst(f)
    BY <2>4
  <2> USE DEF IsFirst
  <2> HIDE DEF f
  <2>6. f # L
    <3> SUFFICES ASSUME f = L PROVE FALSE
      OBVIOUS
    <3>1. 1 \in 1 .. f - 1 /\ q[1] = q[f]
      BY <1>0, <1>1
    <3>. QED BY <3>1, <2>5
  <2>. QED BY <2>5, <2>6, <1>1
<1> DEFINE r == SubSeq(q, f, L - 1) \o SubSeq(q, 1, f)
<1>5. rotate(q) = r
  BY DEF rotate
<1> HIDE DEF f, R
<1>6. /\ r \in Seq(Node) /\ Len(r) = L
      /\ \A i \in 1 .. L - f : r[i] = q[f + i - 1]
      /\ \A i \in L - f + 1 .. L : r[i] = q[i - (L - f)]
  <2> DEFINE a == SubSeq(q, f, L - 1)
             b == SubSeq(q, 1, f)
  <2>1. a \in Seq(Node) /\ Len(a) = L - f /\ \A i \in 1 .. L - f : a[i] = q[f + i - 1]
    BY <1>1, <1>4
  <2>2. b \in Seq(Node) /\ Len(b) = f /\ \A i \in 1 .. f : b[i] = q[i]
    BY <1>1, <1>4
  <2> HIDE DEF a, b
  <2>3. r = a \o b
    BY DEF a, b
  <2> HIDE DEF r
  <2>4. r \in Seq(Node) /\ Len(r) = L
    BY <2>1, <2>2, <2>3, <1>1, <1>4
  <2>5. \A i \in 1 .. L - f : r[i] = a[i]
    BY <2>1, <2>2, <2>3, <1>1, <1>4
  <2>6. ASSUME NEW i \in L - f + 1 .. L PROVE r[i] = b[i - (L - f)] /\ i - (L - f) \in 1 .. f
    <3>1. /\ i \in Len(a) + 1 .. Len(a) + Len(b) /\ i - Len(a) = i - (L - f)
          /\ i - (L - f) \in 1 .. f
      BY <1>0, <1>4, <2>1, <2>2
    <3>2. r[i] = b[i - Len(a)]
      BY <3>1, <2>1, <2>2, <2>3
    <3>. QED BY <3>1, <3>2
  <2>. QED BY <2>1, <2>2, <2>4, <2>5, <2>6
<1> HIDE DEF r
<1>7. r[1] = q[f] /\ r[L] = q[f]
  <2>1. 1 \in 1 .. L - f /\ f + 1 - 1 = f /\ L \in L - f + 1 .. L /\ L - (L - f) = f
    BY <1>1, <1>4
  <2>. QED BY <2>1, <1>6
<1>8. ASSUME NEW i \in 1 .. L - 1 PROVE r[i + 1] \in E[r[i]]
  <2>1. CASE i < L - f
    <3>1. /\ i \in 1 .. L - f /\ i + 1 \in 1 .. L - f /\ f + i - 1 \in 1 .. L - 1
          /\ f + (i + 1) - 1 = (f + i - 1) + 1
      BY <2>1, <1>1, <1>4
    <3>. QED BY <3>1, <1>6, <1>1
  <2>2. CASE i = L - f
    <3>1. /\ i \in 1 .. L - f /\ f + i - 1 = L - 1 /\ L - 1 \in 1 .. L - 1 /\ (L - 1) + 1 = L
          /\ i + 1 \in L - f + 1 .. L /\ (i + 1) - (L - f) = 1
      BY <2>2, <1>1, <1>4
    <3>. QED BY <3>1, <1>6, <1>1
  <2>3. CASE i > L - f
    <3>1. /\ i \in L - f + 1 .. L /\ i + 1 \in L - f + 1 .. L /\ i - (L - f) \in 1 .. L - 1
          /\ (i + 1) - (L - f) = (i - (L - f)) + 1
      BY <2>3, <1>1, <1>4
    <3>. QED BY <3>1, <1>6, <1>1
  <2>4. i < L - f \/ i = L - f \/ i > L - f
    <3>1. i \in Int /\ L \in Int /\ f \in Int
      BY <1>1, <1>4
    <3> HIDE DEF L, IsFirst
    <3>. QED BY <3>1
  <2>. QED BY <2>1, <2>2, <2>3, <2>4
<1>9. Range(r) = R
  <2>1. Range(r) = {r[i] : i \in 1 .. L}
    BY <1>6 DEF Range
  <2>2. ASSUME NEW i \in 1 .. L PROVE r[i] \in R
    <3>1. CASE i \in 1 .. L - f
      <4>1. f + i - 1 \in 1 .. L
        BY <3>1, <1>1, <1>4
      <4>. QED BY <4>1, <3>1, <1>6, <1>2
    <3>2. CASE i \in L - f + 1 .. L
      <4>1. i - (L - f) \in 1 .. L
        BY <3>2, <1>1, <1>4
      <4>. QED BY <4>1, <3>2, <1>6, <1>2
    <3>. QED BY <3>1, <3>2, <1>1, <1>4
  <2>3. ASSUME NEW v \in R PROVE \E i \in 1 .. L : r[i] = v
    <3>1. PICK k \in 1 .. L - 1 : q[k] = v
      BY <1>3
    <3>2. CASE k <= f
      <4>1. k + (L - f) \in L - f + 1 .. L /\ (k + (L - f)) - (L - f) = k /\ k + (L - f) \in 1 .. L
        BY <3>2, <1>1, <1>4
      <4>. QED BY <4>1, <3>1, <1>6
    <3>3. CASE k > f
      <4>1. k - f + 1 \in 1 .. L - f /\ f + (k - f + 1) - 1 = k /\ k - f + 1 \in 1 .. L
        BY <3>3, <1>1, <1>4
      <4>. QED BY <4>1, <3>1, <1>6
    <3>. QED BY <3>2, <3>3, <1>1, <1>4
  <2>. QED BY <2>1, <2>2, <2>3
<1>10. Cardinality(R) = L - 1
  <2> DEFINE g == [i \in 1 .. L - 1 |-> q[i]]
  <2>1. g \in Bijection(1 .. L - 1, R)
    <3>1. g \in [1 .. L - 1 -> R]
      BY <1>1, <1>2
    <3>2. \A i, j \in 1 .. L - 1 : g[i] = g[j] => i = j
      BY <1>1
    <3>3. \A v \in R : \E i \in 1 .. L - 1 : g[i] = v
      BY <1>3
    <3> HIDE DEF g
    <3>. QED BY <3>1, <3>2, <3>3 DEF Bijection, Injection, Surjection, IsInjective
  <2>2. ExistsBijection(1 .. L - 1, R)
    BY <2>1 DEF ExistsBijection
  <2>3. L - 1 \in Nat
    BY <1>1
  <2>. QED BY <2>2, <2>3, FS_CountingElements
<1>11. Reported(E, n, r)
  BY <1>1, <1>4, <1>6, <1>7, <1>8, <1>9, <1>10 DEF Reported, R
<1>. QED BY <1>5, <1>11
-----------------------------------------------------------------------------
(* The pass that revalidates the recorded members.                         *)

Cyclic(E) == {n \in Node : OnCycle(E, n)}

FailedMaps == UNION {[D -> Seq(Node)] : D \in SUBSET Node}

PassState == [failed : FailedMaps, checked : SUBSET Node]

LEMMA FailedMapFacts ==
  ASSUME NEW f
  PROVE  f \in FailedMaps <=> /\ f = [n \in DOMAIN f |-> f[n]] /\ DOMAIN f \subseteq Node
                              /\ \A n \in DOMAIN f : f[n] \in Seq(Node)
<1>1. ASSUME f \in FailedMaps
      PROVE  /\ f = [n \in DOMAIN f |-> f[n]] /\ DOMAIN f \subseteq Node
             /\ \A n \in DOMAIN f : f[n] \in Seq(Node)
  <2>1. PICK D \in SUBSET Node : f \in [D -> Seq(Node)]
    BY <1>1 DEF FailedMaps
  <2>. QED BY <2>1
<1>2. ASSUME f = [n \in DOMAIN f |-> f[n]], DOMAIN f \subseteq Node,
             \A n \in DOMAIN f : f[n] \in Seq(Node)
      PROVE  f \in FailedMaps
  <2>1. f \in [DOMAIN f -> Seq(Node)] /\ DOMAIN f \in SUBSET Node
    BY <1>2
  <2>. QED BY <2>1 DEF FailedMaps
<1>. QED BY <1>1, <1>2

\* The path that the search finds for a member and the resources on it.
LEMMA PathFacts ==
  ASSUME NEW E \in EdgeMaps, NEW v \in Cyclic(E)
  PROVE  LET path == findPath(E, v, v) IN
         /\ path # << >> /\ v \in Range(path) /\ Range(path) \subseteq Cyclic(E)
         /\ rotate(path) \in Seq(Node)
         /\ \A n \in Range(path) : Reported(E, n, rotate(path))
<1> DEFINE path == findPath(E, v, v)
<1>1. path # << >> /\ IsCycle(E, v, path) /\ v \in Node
  BY CyclesFound DEF Cyclic
<1> HIDE DEF path
<1>2. path \in Seq(Node) /\ 1 \in 1 .. Len(path) /\ path[1] = v
  BY <1>1 DEF IsCycle
<1>3. Range(path) = {path[i] : i \in 1 .. Len(path)}
  BY <1>2 DEF Range
<1>4. v \in Range(path)
  BY <1>2, <1>3
<1>5. Range(path) \subseteq Cyclic(E)
  BY <1>1, <1>3, AroundACycle DEF Cyclic
<1>6. \A n \in Range(path) : Reported(E, n, rotate(path))
  BY <1>1, RotateReports
<1>7. rotate(path) \in Seq(Node)
  BY <1>4, <1>6 DEF Reported
<1>. QED BY <1>1, <1>4, <1>5, <1>6, <1>7 DEF path

LEMMA VisitFacts ==
  ASSUME NEW E \in EdgeMaps, NEW acc \in PassState, NEW v \in Node
  PROVE  LET t == visit(E, acc, v)
             path == findPath(E, v, v) IN
         /\ t \in PassState
         /\ v \in acc.checked => t = acc
         /\ v \notin acc.checked /\ v \notin Cyclic(E) =>
                /\ t.checked = acc.checked /\ DOMAIN t.failed = DOMAIN acc.failed \ {v}
                /\ \A n \in DOMAIN acc.failed \ {v} : t.failed[n] = acc.failed[n]
         /\ v \notin acc.checked /\ v \in Cyclic(E) =>
                /\ t.checked = acc.checked \cup Range(path)
                /\ DOMAIN t.failed = DOMAIN acc.failed \cup (Range(path) \ acc.checked)
                /\ \A n \in DOMAIN t.failed :
                       t.failed[n] = IF n \in Range(path) \ acc.checked
                                     THEN rotate(path) ELSE acc.failed[n]
<1> DEFINE t == visit(E, acc, v)
           path == findPath(E, v, v)
           fresh == Range(path) \ acc.checked
           f == acc.failed
<1>1. f \in FailedMaps /\ acc.checked \subseteq Node /\ acc = [failed |-> f, checked |-> acc.checked]
  BY DEF PassState
<1>2. v \in Cyclic(E) <=> path # << >>
  BY CyclesFound DEF Cyclic
<1>3. DOMAIN f \subseteq Node /\ \A n \in DOMAIN f : f[n] \in Seq(Node)
  BY <1>1, FailedMapFacts
<1>4. CASE v \in acc.checked
  BY <1>4 DEF visit
<1>5. CASE v \notin acc.checked /\ v \notin Cyclic(E)
  <2> DEFINE g == [n \in DOMAIN f \ {v} |-> f[n]]
  <2>1. t = [acc EXCEPT !.failed = g]
    BY <1>2, <1>5 DEF visit
  <2>2. g \in FailedMaps
    BY <1>3, FailedMapFacts
  <2>3. t.failed = g /\ t.checked = acc.checked /\ t \in PassState
    BY <2>1, <2>2, <1>1 DEF PassState
  <2>. QED BY <2>3, <1>5
<1>6. CASE v \notin acc.checked /\ v \in Cyclic(E)
  <2> DEFINE g == [n \in DOMAIN f \cup fresh |-> IF n \in fresh THEN rotate(path) ELSE f[n]]
  <2>1. t = [failed |-> g, checked |-> acc.checked \cup fresh]
    BY <1>2, <1>6 DEF visit
  <2>2. rotate(path) \in Seq(Node) /\ Range(path) \subseteq Node
    BY <1>6, PathFacts DEF Cyclic
  <2> HIDE DEF path
  <2>3. g \in FailedMaps
    BY <2>2, <1>3, FailedMapFacts
  <2>4. t.failed = g /\ t.checked = acc.checked \cup fresh /\ t \in PassState
    BY <2>1, <2>2, <2>3, <1>1 DEF PassState
  <2>. QED BY <2>4, <1>6 DEF path
<1>. QED BY <1>4, <1>5, <1>6

LEMMA PassDef ==
  ASSUME NEW E \in EdgeMaps, NEW F \in FailedMaps
  PROVE  LET pass == revalidate(E, F) IN
         /\ pass \in [Nat -> PassState] /\ pass[0] = [failed |-> F, checked |-> {}]
         /\ \A k \in Nat : pass[k + 1] = IF k \in DOMAIN F THEN visit(E, pass[k], k) ELSE pass[k]
<1> DEFINE base == [failed |-> F, checked |-> {}]
           step(k, s) == IF k \in DOMAIN F THEN visit(E, s, k) ELSE s
           f == [k \in Nat |-> [s \in PassState |-> step(k, s)]]
           pass == revalidate(E, F)
<1>1. base \in PassState
  BY DEF PassState
<1>2. \A k \in Nat : \A s \in PassState : step(k, s) \in PassState
  BY VisitFacts, FailedMapFacts
<1> HIDE DEF base, step
<1>3. f \in [Nat -> [PassState -> PassState]]
  BY <1>2
<1> HIDE DEF f
<1>4. PICK g \in [Nat -> PassState] : g[0] = base /\ \A k \in Nat : g[k + 1] = f[k][g[k]]
  <2>1. CanIterate(PassState, base, f)
    BY <1>1, <1>3, Iterated
  <2>. QED BY <2>1 DEF CanIterate
<1>5. \A k \in Nat : g[k + 1] = step(k, g[k])
  BY <1>4 DEF f
<1>6. g = [k \in Nat |-> IF k = 0 THEN base ELSE step(k - 1, g[k - 1])]
  <2>1. \A k \in Nat : k # 0 => k - 1 \in Nat /\ (k - 1) + 1 = k
    OBVIOUS
  <2>2. \A k \in Nat : g[k] = IF k = 0 THEN base ELSE step(k - 1, g[k - 1])
    BY <2>1, <1>4, <1>5
  <2>. QED BY <2>2, <1>4
<1>7. pass = [k \in Nat |-> IF k = 0 THEN base ELSE step(k - 1, pass[k - 1])]
  BY <1>6 DEF revalidate, base, step
<1> HIDE DEF pass
<1>8. pass[0] = base /\ \A k \in Nat : pass[k + 1] = step(k, pass[k])
  <2>1. \A k \in Nat : k + 1 \in Nat /\ k + 1 # 0 /\ (k + 1) - 1 = k
    OBVIOUS
  <2>. QED BY <1>7, <2>1
<1> DEFINE P == {k \in Nat : pass[k] \in PassState}
<1>9. 0 \in P
  BY <1>8, <1>1
<1>10. \A k \in Nat : k \in P => k + 1 \in P
  BY <1>2, <1>8
<1> HIDE DEF P
<1>11. Nat \subseteq P
  BY <1>9, <1>10, NatSets
<1>12. pass \in [Nat -> PassState]
  BY <1>7, <1>11 DEF P
<1>. QED BY <1>8, <1>12 DEF pass, base, step

\* Half way through a pass over F that holds all members of cycles.
PassInv(E, F, k, s) ==
    /\ s \in PassState
    /\ s.checked \subseteq Cyclic(E)
    /\ Cyclic(E) \subseteq DOMAIN s.failed /\ DOMAIN s.failed \subseteq DOMAIN F
    /\ \A n \in s.checked : Reported(E, n, s.failed[n])
    /\ \A n \in DOMAIN s.failed : n < k => n \in s.checked

LEMMA PassHolds ==
  ASSUME NEW E \in EdgeMaps, NEW F \in FailedMaps, Cyclic(E) \subseteq DOMAIN F
  PROVE  \A k \in Nat : PassInv(E, F, k, revalidate(E, F)[k])
<1> DEFINE pass == revalidate(E, F)
           P == {k \in Nat : PassInv(E, F, k, pass[k])}
<1>1. /\ pass \in [Nat -> PassState] /\ pass[0] = [failed |-> F, checked |-> {}]
      /\ \A k \in Nat : pass[k + 1] = IF k \in DOMAIN F THEN visit(E, pass[k], k) ELSE pass[k]
  BY PassDef
<1>2. DOMAIN F \subseteq Node
  BY FailedMapFacts
<1> HIDE DEF pass
<1>3. 0 \in P
  <2>1. \A n \in Node : ~(n < 0)
    BY NodeAssumption
  <2>. QED BY <2>1, <1>1, <1>2 DEF PassInv
<1>4. ASSUME NEW k \in Nat, k \in P PROVE k + 1 \in P
  <2> DEFINE s == pass[k]
             t == pass[k + 1]
             path == findPath(E, k, k)
  <2>1. PassInv(E, F, k, s) /\ s \in PassState /\ t \in PassState
    BY <1>1, <1>4
  <2>2. t = IF k \in DOMAIN F THEN visit(E, s, k) ELSE s
    BY <1>1
  <2> HIDE DEF s, t, path
  <2>3. \A n \in Node : n < k + 1 => n < k \/ n = k
    BY NodeAssumption
  <2>4. DOMAIN s.failed \subseteq Node
    BY <2>1, <1>2 DEF PassInv
  <2>5. CASE k \notin DOMAIN F \/ k \in s.checked
    <3>1. t = s
      BY <2>1, <2>2, <2>5, <1>2, VisitFacts
    <3>. QED BY <3>1, <2>1, <2>3, <2>4, <2>5 DEF PassInv, t
  <2>6. CASE k \in DOMAIN F /\ k \notin s.checked /\ k \notin Cyclic(E)
    <3>1. /\ t.checked = s.checked /\ DOMAIN t.failed = DOMAIN s.failed \ {k}
          /\ \A n \in DOMAIN s.failed \ {k} : t.failed[n] = s.failed[n]
      BY <2>1, <2>2, <2>6, <1>2, VisitFacts
    <3>2. PassInv(E, F, k + 1, t)
      BY <3>1, <2>1, <2>3, <2>4, <2>6 DEF PassInv
    <3>. QED BY <3>2 DEF t
  <2>7. CASE k \in DOMAIN F /\ k \notin s.checked /\ k \in Cyclic(E)
    <3>1. /\ t.checked = s.checked \cup Range(path)
          /\ DOMAIN t.failed = DOMAIN s.failed \cup (Range(path) \ s.checked)
          /\ \A n \in DOMAIN t.failed :
                 t.failed[n] = IF n \in Range(path) \ s.checked THEN rotate(path) ELSE s.failed[n]
      BY <2>1, <2>2, <2>7, <1>2, VisitFacts DEF path
    <3>2. /\ k \in Range(path) /\ Range(path) \subseteq Cyclic(E)
          /\ \A n \in Range(path) : Reported(E, n, rotate(path))
      BY <2>7, PathFacts DEF path
    <3>3. DOMAIN t.failed = DOMAIN s.failed
      BY <3>1, <3>2, <2>1 DEF PassInv
    <3>4. \A n \in t.checked : Reported(E, n, t.failed[n])
      BY <3>1, <3>2, <3>3, <2>1 DEF PassInv
    <3>5. PassInv(E, F, k + 1, t)
      BY <3>1, <3>2, <3>3, <3>4, <2>1, <2>3, <2>4 DEF PassInv
    <3>. QED BY <3>5 DEF t
  <2>. QED BY <2>5, <2>6, <2>7
<1> HIDE DEF P
<1>5. Nat \subseteq P
  BY <1>3, <1>4, NatSets
<1>. QED BY <1>5 DEF P, pass

\* The recorded members become the members of cycles, with their paths.
LEMMA RevalidateFacts ==
  ASSUME NEW E \in EdgeMaps, NEW F \in FailedMaps, Cyclic(E) \subseteq DOMAIN F
  PROVE  /\ revalidateFailed(E, F) \in FailedMaps
         /\ DOMAIN revalidateFailed(E, F) = Cyclic(E)
         /\ revalidate(E, F)[Bound].checked = Cyclic(E)
         /\ \A n \in Cyclic(E) : Reported(E, n, revalidateFailed(E, F)[n])
<1> DEFINE s == revalidate(E, F)[Bound]
<1>1. PassInv(E, F, Bound, s) /\ revalidateFailed(E, F) = s.failed
  BY PassHolds, BoundFacts DEF revalidateFailed, Bound
<1> HIDE DEF s
<1>2. DOMAIN s.failed \subseteq Node /\ s.failed \in FailedMaps
  BY <1>1, FailedMapFacts DEF PassInv, PassState
<1>3. DOMAIN s.failed \subseteq s.checked
  BY <1>1, <1>2, BoundFacts DEF PassInv
<1>. QED BY <1>1, <1>2, <1>3 DEF PassInv, s

\* The result does not depend on what was recorded before.
LEMMA RevalidateForgets ==
  ASSUME NEW E \in EdgeMaps, NEW F \in FailedMaps, NEW G \in FailedMaps,
         Cyclic(E) \subseteq DOMAIN F, Cyclic(E) \subseteq DOMAIN G
  PROVE  revalidateFailed(E, F) = revalidateFailed(E, G)
<1> DEFINE a == revalidate(E, F)
           b == revalidate(E, G)
           P == {k \in Nat : /\ a[k].checked = b[k].checked
                             /\ \A n \in a[k].checked : a[k].failed[n] = b[k].failed[n]}
<1>1. /\ a \in [Nat -> PassState] /\ a[0] = [failed |-> F, checked |-> {}]
      /\ \A k \in Nat : a[k + 1] = IF k \in DOMAIN F THEN visit(E, a[k], k) ELSE a[k]
  BY PassDef
<1>2. /\ b \in [Nat -> PassState] /\ b[0] = [failed |-> G, checked |-> {}]
      /\ \A k \in Nat : b[k + 1] = IF k \in DOMAIN G THEN visit(E, b[k], k) ELSE b[k]
  BY PassDef
<1>3. (\A k \in Nat : PassInv(E, F, k, a[k])) /\ (\A k \in Nat : PassInv(E, G, k, b[k]))
  BY PassHolds
<1>4. DOMAIN F \subseteq Node /\ DOMAIN G \subseteq Node
  BY FailedMapFacts
<1> HIDE DEF a, b
<1>5. 0 \in P
  <2>1. a[0].checked = {} /\ b[0].checked = {}
    BY <1>1, <1>2
  <2>. QED BY <2>1
<1>6. ASSUME NEW k \in Nat, k \in P PROVE k + 1 \in P
  <2> DEFINE s == a[k]
             t == b[k]
             ss == a[k + 1]
             tt == b[k + 1]
             path == findPath(E, k, k)
  <2>1. /\ s \in PassState /\ t \in PassState /\ PassInv(E, F, k, s) /\ PassInv(E, G, k, t)
        /\ ss = IF k \in DOMAIN F THEN visit(E, s, k) ELSE s
        /\ tt = IF k \in DOMAIN G THEN visit(E, t, k) ELSE t
    BY <1>1, <1>2, <1>3
  <2>2. s.checked = t.checked /\ \A n \in s.checked : s.failed[n] = t.failed[n]
    BY <1>6
  <2> SUFFICES ss.checked = tt.checked /\ \A n \in ss.checked : ss.failed[n] = tt.failed[n]
    OBVIOUS
  <2> HIDE DEF s, t, ss, tt, path, P
  <2>3. CASE k \notin Cyclic(E)
    <3>1. k \notin s.checked
      BY <2>1, <2>3 DEF PassInv
    <3>2. s.checked \subseteq DOMAIN s.failed /\ s.checked \subseteq DOMAIN t.failed
      BY <2>1, <2>2 DEF PassInv
    <3>3. ss.checked = s.checked /\ \A n \in s.checked : ss.failed[n] = s.failed[n]
      BY <2>1, <2>3, <3>1, <3>2, <1>4, VisitFacts
    <3>4. tt.checked = t.checked /\ \A n \in s.checked : tt.failed[n] = t.failed[n]
      BY <2>1, <2>2, <2>3, <3>1, <3>2, <1>4, VisitFacts
    <3>. QED BY <3>3, <3>4, <2>2
  <2>4. CASE k \in s.checked
    <3>1. k \in Node
      BY <2>1, <2>4 DEF PassState
    <3>2. ss = s /\ tt = t
      BY <3>1, <2>1, <2>2, <2>4, VisitFacts
    <3>. QED BY <3>2, <2>2
  <2>5. CASE k \in Cyclic(E) /\ k \notin s.checked
    <3>1. k \in Node /\ ss = visit(E, s, k) /\ tt = visit(E, t, k)
      BY <2>1, <2>5, <1>4
    <3>2. /\ ss.checked = s.checked \cup Range(path)
          /\ DOMAIN ss.failed = DOMAIN s.failed \cup (Range(path) \ s.checked)
          /\ \A n \in DOMAIN ss.failed :
                 ss.failed[n] = IF n \in Range(path) \ s.checked THEN rotate(path) ELSE s.failed[n]
      BY <3>1, <2>1, <2>5, VisitFacts DEF path
    <3>3. /\ tt.checked = t.checked \cup Range(path)
          /\ DOMAIN tt.failed = DOMAIN t.failed \cup (Range(path) \ t.checked)
          /\ \A n \in DOMAIN tt.failed :
                 tt.failed[n] = IF n \in Range(path) \ t.checked THEN rotate(path) ELSE t.failed[n]
      BY <3>1, <2>1, <2>2, <2>5, VisitFacts DEF path
    <3>4. s.checked \subseteq DOMAIN s.failed /\ t.checked \subseteq DOMAIN t.failed
      BY <2>1 DEF PassInv
    <3>. QED BY <3>2, <3>3, <3>4, <2>2
  <2>. QED BY <2>3, <2>4, <2>5
<1> HIDE DEF P
<1>7. Bound \in P
  BY <1>5, <1>6, NatSets, BoundFacts
<1> DEFINE f == revalidateFailed(E, F)
           g == revalidateFailed(E, G)
<1>8. f = a[Bound].failed /\ g = b[Bound].failed
  BY DEF revalidateFailed, Bound, a, b
<1>9. f \in FailedMaps /\ g \in FailedMaps /\ DOMAIN f = DOMAIN g /\ a[Bound].checked = DOMAIN f
  BY RevalidateFacts DEF a
<1> HIDE DEF f, g
<1>10. \A n \in DOMAIN f : f[n] = g[n]
  BY <1>7, <1>8, <1>9 DEF P
<1>11. f = [n \in DOMAIN f |-> f[n]] /\ g = [n \in DOMAIN g |-> g[n]]
  BY <1>9, FailedMapFacts
<1>12. f = g
  BY <1>9, <1>10, <1>11
<1>. QED BY <1>12 DEF f, g

\* Nor on more of the edges than the cycles found.
LEMMA RevalidateAgrees ==
  ASSUME NEW E \in EdgeMaps, NEW D \in EdgeMaps, NEW F \in FailedMaps,
         \A n \in Node : findPath(E, n, n) = findPath(D, n, n)
  PROVE  revalidateFailed(E, F) = revalidateFailed(D, F)
<1> DEFINE a == revalidate(E, F)
           b == revalidate(D, F)
           P == {k \in Nat : a[k] = b[k]}
<1>1. /\ a[0] = [failed |-> F, checked |-> {}]
      /\ \A k \in Nat : a[k + 1] = IF k \in DOMAIN F THEN visit(E, a[k], k) ELSE a[k]
  BY PassDef
<1>2. /\ b[0] = [failed |-> F, checked |-> {}]
      /\ \A k \in Nat : b[k + 1] = IF k \in DOMAIN F THEN visit(D, b[k], k) ELSE b[k]
  BY PassDef
<1>3. \A n \in Node : \A acc : visit(E, acc, n) = visit(D, acc, n)
  BY DEF visit
<1>4. DOMAIN F \subseteq Node
  BY FailedMapFacts
<1> HIDE DEF a, b
<1>5. 0 \in P
  BY <1>1, <1>2
<1>6. \A k \in Nat : k \in P => k + 1 \in P
  BY <1>1, <1>2, <1>3, <1>4
<1> HIDE DEF P
<1>7. Bound \in P
  BY <1>5, <1>6, NatSets, BoundFacts
<1>. QED BY <1>7 DEF P, revalidateFailed, Bound, a, b
-----------------------------------------------------------------------------
(* ReplaceEdges keeps the failures up to date.                             *)

LEMMA SubgraphFacts ==
  ASSUME NEW E \in EdgeMaps, NEW S \in SUBSET Node
  PROVE  /\ Within(E, S) \in EdgeMaps /\ Reversed(Within(E, S)) \in EdgeMaps
         /\ \A a \in S : \A b \in E[a] \cap S :
                b \in Within(E, S)[a] /\ a \in Reversed(Within(E, S))[b]
<1>1. Within(E, S) \in EdgeMaps
  BY DEF Within, EdgeMaps
<1>2. \A a \in S : \A b \in E[a] \cap S : b \in Within(E, S)[a]
  BY DEF Within
<1>3. Reversed(Within(E, S)) \in EdgeMaps
  BY DEF Reversed, EdgeMaps
<1>4. ASSUME NEW a \in S, NEW b \in E[a] \cap S PROVE a \in Reversed(Within(E, S))[b]
  <2>1. a \in Node /\ b \in Node /\ b \in Within(E, S)[a]
    BY <1>2
  <2>. QED BY <2>1 DEF Reversed
<1>. QED BY <1>1, <1>2, <1>3, <1>4

\* A walk around a cycle of D that starts in what is reached from S without
\* passing through terminal nodes stays there.
LEMMA CycleInClosure ==
  ASSUME NEW D \in EdgeMaps, NEW m \in Node, NEW q, IsCycle(D, m, q),
         NEW S \in SUBSET Node, NEW k \in 1 .. Len(q), q[k] \in S
  PROVE  \A i \in 1 .. Len(q) : q[i] \in Inner(D) /\ q[i] \in Closure(Within(D, Inner(D)), S)
<1>1. /\ q \in Seq(Node) /\ Len(q) \in Nat /\ Len(q) > 1 /\ q[1] = q[Len(q)]
      /\ \A i \in 1 .. Len(q) - 1 : q[i + 1] \in D[q[i]]
      /\ \A i \in 1 .. Len(q) : q[i] \in Node
  BY DEF IsCycle
<1>2. \A i \in 1 .. Len(q) : q[i] \in Inner(D)
  <2>1. \A i \in 1 .. Len(q) - 1 : i \in 1 .. Len(q)
    BY <1>1
  <2>2. \A i \in 1 .. Len(q) - 1 : q[i] \in Inner(D)
    BY <2>1, <1>1 DEF Inner
  <2>3. q[1] \in Inner(D)
    BY <2>2, <1>1
  <2>4. \A i \in 1 .. Len(q) : i = Len(q) \/ i \in 1 .. Len(q) - 1
    BY <1>1
  <2>. QED BY <2>2, <2>3, <2>4, <1>1
<1> DEFINE W == Within(D, Inner(D))
           C == Closure(W, S)
<1>3. Inner(D) \in SUBSET Node
  BY DEF Inner
<1>4. W \in EdgeMaps
  BY <1>3, SubgraphFacts
<1>5. S \subseteq C /\ Closed(W, C)
  BY <1>4, ClosureFacts
<1>6. ASSUME NEW i \in 1 .. Len(q) - 1, q[i] \in C PROVE q[i + 1] \in C
  <2>1. i \in 1 .. Len(q) /\ i + 1 \in 1 .. Len(q)
    BY <1>1
  <2>2. q[i + 1] \in W[q[i]]
    BY <2>1, <1>1, <1>2, <1>3, SubgraphFacts
  <2> HIDE DEF W, C
  <2>. QED BY <2>2, <1>5, <1>6 DEF Closed
<1> HIDE DEF C
<1>7. \A i \in 1 .. Len(q) : q[i] \in C
  BY <1>1, <1>5, <1>6, CycleWalk
<1>. QED BY <1>2, <1>7 DEF C, W

\* A cycle through an edge that id did not have before is noticed, and all of
\* its members are marked.
LEMMA FreshCycle ==
  ASSUME NEW D \in EdgeMaps, NEW n \in Node, NEW old, NEW m \in Node, NEW q, IsCycle(D, m, q),
         NEW i \in 1 .. Len(q) - 1, q[i] = n, q[i + 1] \notin old
  PROVE  closesCycle(D, n, old) /\ \A j \in 1 .. Len(q) : q[j] \in cycleMembers(D, n)
<1>1. /\ q \in Seq(Node) /\ Len(q) \in Nat /\ Len(q) > 1 /\ q[1] = q[Len(q)]
      /\ \A j \in 1 .. Len(q) - 1 : q[j + 1] \in D[q[j]]
      /\ \A j \in 1 .. Len(q) : q[j] \in Node
      /\ i \in 1 .. Len(q) /\ i + 1 \in 1 .. Len(q)
  BY DEF IsCycle
<1>2. closesCycle(D, n, old)
  <2> DEFINE fresh == (D[n] \ old) \cap Inner(D)
             C == Closure(Within(D, Inner(D)), fresh)
  <2>1. fresh \in SUBSET Node
    BY DEF Inner
  <2>2. q[i + 1] \in Inner(D)
    <3>1. {q[i + 1]} \in SUBSET Node /\ q[i + 1] \in {q[i + 1]}
      BY <1>1
    <3>. QED BY <3>1, <1>1, CycleInClosure
  <2>3. q[i + 1] \in fresh
    BY <2>2, <1>1
  <2> HIDE DEF fresh
  <2>4. \A j \in 1 .. Len(q) : q[j] \in C
    BY <2>1, <2>3, <1>1, CycleInClosure
  <2> HIDE DEF C
  <2>5. PICK j \in 1 .. Len(q) - 1 : q[j + 1] = n
    <3>1. CASE i = 1
      <4>1. Len(q) - 1 \in 1 .. Len(q) - 1 /\ (Len(q) - 1) + 1 = Len(q)
        BY <1>1
      <4>. QED BY <4>1, <3>1, <1>1
    <3>2. CASE i # 1
      <4>1. i - 1 \in 1 .. Len(q) - 1 /\ (i - 1) + 1 = i
        BY <3>2, <1>1
      <4>. QED BY <4>1
    <3>. QED BY <3>1, <3>2
  <2>6. n \in D[q[j]] /\ q[j] \in C
    BY <2>4, <2>5, <1>1
  <2>. QED BY <2>6 DEF closesCycle, C, fresh
<1>3. \A j \in 1 .. Len(q) : q[j] \in cycleMembers(D, n)
  <2> DEFINE reach == Closure(Within(D, Inner(D)), {n})
             R == Reversed(Within(D, reach))
             M == Closure(R, {n})
             T == Node \ M
  <2>1. reach \in SUBSET Node
    BY SubgraphFacts, ClosureFacts DEF Inner
  <2>2. \A j \in 1 .. Len(q) : q[j] \in reach
    BY <1>1, CycleInClosure
  <2> HIDE DEF reach
  <2>3. R \in EdgeMaps
    BY <2>1, SubgraphFacts
  <2>4. n \in M /\ Closed(R, M)
    BY <2>3, ClosureFacts
  <2>5. ASSUME NEW j \in 1 .. Len(q) - 1, q[j] \in T PROVE q[j + 1] \in T
    <3>1. j \in 1 .. Len(q) /\ j + 1 \in 1 .. Len(q)
      BY <1>1
    <3>2. q[j] \in R[q[j + 1]]
      BY <3>1, <2>1, <2>2, <1>1, SubgraphFacts
    <3> HIDE DEF R, M
    <3>3. q[j + 1] \notin M
      BY <3>2, <2>4, <2>5 DEF Closed
    <3>. QED BY <3>1, <3>3, <1>1
  <2> HIDE DEF M, R
  <2>6. ASSUME NEW k \in 1 .. Len(q), q[k] \in T PROVE FALSE
    <3> HIDE DEF T
    <3>1. q[i] \in T
      BY <2>5, <2>6, <1>1, CycleWalk
    <3>. QED BY <3>1, <2>4 DEF T
  <2>7. \A j \in 1 .. Len(q) : q[j] \in M
    BY <2>6, <1>1
  <2>. QED BY <2>7 DEF M, R, reach, cycleMembers
<1>. QED BY <1>2, <1>3

LEMMA MembersType ==
  ASSUME NEW D \in EdgeMaps, NEW n \in Node
  PROVE  cycleMembers(D, n) \in SUBSET Node
<1> DEFINE reach == Closure(Within(D, Inner(D)), {n})
<1>1. reach \in SUBSET Node
  BY SubgraphFacts, ClosureFacts DEF Inner
<1> HIDE DEF reach
<1>2. Closure(Reversed(Within(D, reach)), {n}) \in SUBSET Node
  BY <1>1, SubgraphFacts, ClosureFacts
<1>. QED BY <1>2 DEF cycleMembers, reach

\* A cycle of the new edges is one of the old, or goes through a fresh edge.
LEMMA OldCycle ==
  ASSUME NEW E \in EdgeMaps, NEW n \in Node, NEW ds \in SUBSET Node, NEW m \in Node, NEW q,
         IsCycle([E EXCEPT ![n] = ds], m, q),
         \A i \in 1 .. Len(q) - 1 : q[i] = n => q[i + 1] \in E[n]
  PROVE  IsCycle(E, m, q)
<1>1. \A v \in Node : v # n => [E EXCEPT ![n] = ds][v] = E[v]
  BY DEF EdgeMaps
<1>2. q \in Seq(Node) /\ Len(q) \in Nat
  BY DEF IsCycle
<1>3. ASSUME NEW i \in 1 .. Len(q) - 1 PROVE q[i + 1] \in E[q[i]]
  <2>1. q[i] \in Node /\ q[i + 1] \in [E EXCEPT ![n] = ds][q[i]]
    BY <1>2 DEF IsCycle
  <2>. QED BY <2>1, <1>1
<1>. QED BY <1>3 DEF IsCycle

\* Nothing on a cycle after the replacement is left out.
LEMMA MarkedEnough ==
  ASSUME NEW E \in EdgeMaps, NEW n \in Node, NEW ds \in SUBSET Node,
         NEW D \in EdgeMaps, D = [E EXCEPT ![n] = ds], NEW m \in Cyclic(D)
  PROVE  \/ m \in Cyclic(E)
         \/ closesCycle(D, n, E[n]) /\ m \in cycleMembers(D, n)
<1> DEFINE q == findPath(D, m, m)
<1>1. IsCycle(D, m, q) /\ m \in Node
  BY CyclesFound DEF Cyclic
<1> HIDE DEF q
<1>2. 1 \in 1 .. Len(q) /\ q[1] = m
  BY <1>1 DEF IsCycle
<1>3. CASE \E i \in 1 .. Len(q) - 1 : q[i] = n /\ q[i + 1] \notin E[n]
  BY <1>1, <1>2, <1>3, FreshCycle
<1>4. CASE \A i \in 1 .. Len(q) - 1 : q[i] = n => q[i + 1] \in E[n]
  <2>1. IsCycle(E, m, q)
    BY <1>1, <1>4, OldCycle
  <2>2. OnCycle(E, m)
    BY <2>1, <1>1, <1>2, AroundACycle
  <2>. QED BY <2>2, <1>1 DEF Cyclic
<1>. QED BY <1>3, <1>4

\* What a graph built at once from E reports.
Diagnosis(E) == revalidateFailed(E, [n \in Cyclic(E) |-> << >>])

LEMMA DiagnosisFacts ==
  ASSUME NEW E \in EdgeMaps
  PROVE  /\ [n \in Cyclic(E) |-> << >>] \in FailedMaps
         /\ Diagnosis(E) \in FailedMaps /\ DOMAIN Diagnosis(E) = Cyclic(E)
         /\ \A n \in Cyclic(E) : Reported(E, n, Diagnosis(E)[n])
         /\ \A F \in FailedMaps : Cyclic(E) \subseteq DOMAIN F => revalidateFailed(E, F) = Diagnosis(E)
<1> DEFINE G == [n \in Cyclic(E) |-> << >>]
<1>1. DOMAIN G = Cyclic(E) /\ Cyclic(E) \subseteq Node /\ << >> \in Seq(Node)
  BY DEF Cyclic
<1>2. G \in FailedMaps
  BY <1>1, FailedMapFacts
<1> HIDE DEF G
<1>3. Diagnosis(E) = revalidateFailed(E, G)
  BY DEF Diagnosis, G
<1>4. \A F \in FailedMaps : Cyclic(E) \subseteq DOMAIN F => revalidateFailed(E, F) = Diagnosis(E)
  BY <1>1, <1>2, <1>3, RevalidateForgets
<1>5. /\ Diagnosis(E) \in FailedMaps /\ DOMAIN Diagnosis(E) = Cyclic(E)
      /\ \A n \in Cyclic(E) : Reported(E, n, Diagnosis(E)[n])
  BY <1>1, <1>2, <1>3, RevalidateFacts
<1>. QED BY <1>2, <1>4, <1>5 DEF G

\* Where edges were added and none of them closed a cycle, the cycles and the
\* reports are the same as before.
LEMMA SameDiagnosis ==
  ASSUME NEW E \in EdgeMaps, NEW n \in Node, NEW ds \in SUBSET Node,
         NEW D \in EdgeMaps, D = [E EXCEPT ![n] = ds],
         E[n] \subseteq ds, ~closesCycle(D, n, E[n])
  PROVE  Diagnosis(D) = Diagnosis(E)
<1>1. ASSUME NEW m \in Node
      PROVE  findPath(D, m, m) = findPath(E, m, m) /\ (OnCycle(D, m) <=> OnCycle(E, m))
  <2>1. ASSUME NEW q, IsCycle(D, m, q) PROVE IsCycle(E, m, q)
    <3>1. \A i \in 1 .. Len(q) - 1 : q[i] = n => q[i + 1] \in E[n]
      BY <2>1, FreshCycle
    <3>. QED BY <2>1, <3>1, OldCycle
  <2>2. ASSUME NEW q, IsCycle(E, m, q) PROVE IsCycle(D, m, q)
    <3>1. \A v \in Node : E[v] \subseteq D[v]
      BY DEF EdgeMaps
    <3>2. q \in Seq(Node) /\ Len(q) \in Nat /\ \A i \in 1 .. Len(q) - 1 : i \in 1 .. Len(q) /\ q[i] \in Node
      BY <2>2 DEF IsCycle
    <3>. QED BY <2>2, <3>1, <3>2 DEF IsCycle
  <2>3. OnCycle(D, m) <=> OnCycle(E, m)
    <3>1. ASSUME OnCycle(D, m) PROVE OnCycle(E, m)
      <4>1. Earliest(D, m, findPath(D, m, m))
        BY <3>1, CyclesFound
      <4> DEFINE q == findPath(D, m, m)
      <4>2. IsCycle(E, m, q)
        BY <4>1, <2>1 DEF Earliest
      <4> HIDE DEF q
      <4>3. 1 \in 1 .. Len(q) /\ q[1] = m
        BY <4>2 DEF IsCycle
      <4>. QED BY <4>2, <4>3, AroundACycle
    <3>2. ASSUME OnCycle(E, m) PROVE OnCycle(D, m)
      <4>1. Earliest(E, m, findPath(E, m, m))
        BY <3>2, CyclesFound
      <4> DEFINE q == findPath(E, m, m)
      <4>2. IsCycle(D, m, q)
        BY <4>1, <2>2 DEF Earliest
      <4> HIDE DEF q
      <4>3. 1 \in 1 .. Len(q) /\ q[1] = m
        BY <4>2 DEF IsCycle
      <4>. QED BY <4>2, <4>3, AroundACycle
    <3>. QED BY <3>1, <3>2
  <2>4. findPath(D, m, m) = findPath(E, m, m)
    <3>1. CASE OnCycle(D, m)
      BY <3>1, <2>1, <2>2, <2>3, CyclesFound, EarliestIsUnique
    <3>2. CASE ~OnCycle(D, m)
      BY <3>2, <2>3, CyclesFound
    <3>. QED BY <3>1, <3>2
  <2>. QED BY <2>3, <2>4
<1>2. Cyclic(D) = Cyclic(E)
  BY <1>1 DEF Cyclic
<1>3. revalidateFailed(D, [m \in Cyclic(D) |-> << >>]) = revalidateFailed(E, [m \in Cyclic(D) |-> << >>])
  BY <1>1, DiagnosisFacts, RevalidateAgrees
<1>. QED BY <1>2, <1>3 DEF Diagnosis

GraphInv == outEdges \in EdgeMaps /\ failed = Diagnosis(outEdges)

LEMMA ReplaceStep ==
  ASSUME GraphInv, NEW n \in Node, NEW ds \in SUBSET Node, ReplaceEdges(n, ds)
  PROVE  GraphInv' /\ outEdges' = [outEdges EXCEPT ![n] = ds]
<1> DEFINE E == outEdges
           D == outEdges'
           old == outEdges[n]
           found == closesCycle(D, n, old)
           members == IF found THEN cycleMembers(D, n) ELSE {}
           marked == [m \in DOMAIN failed \cup members |-> IF m \in members THEN << >> ELSE failed[m]]
<1>1. /\ E \in EdgeMaps /\ D = [E EXCEPT ![n] = ds] /\ failed = Diagnosis(E)
      /\ failed' = IF /\ ds # old
                      /\ DOMAIN marked # {}
                      /\ found \/ old \ ds # {}
                   THEN revalidateFailed(D, marked) ELSE failed
  BY DEF ReplaceEdges, GraphInv
<1>2. D \in EdgeMaps
  BY <1>1 DEF EdgeMaps
<1>3. failed \in FailedMaps /\ DOMAIN failed = Cyclic(E)
  BY <1>1, DiagnosisFacts
<1> SUFFICES failed' = Diagnosis(D)
  BY <1>1, <1>2 DEF GraphInv
<1>4. members \in SUBSET Node
  BY <1>2, MembersType
<1>5. marked \in FailedMaps /\ DOMAIN marked = Cyclic(E) \cup members
  <2>1. DOMAIN failed \subseteq Node /\ \A m \in DOMAIN failed : failed[m] \in Seq(Node)
    BY <1>3, FailedMapFacts
  <2>2. << >> \in Seq(Node)
    OBVIOUS
  <2> HIDE DEF members
  <2>. QED BY <2>1, <2>2, <1>3, <1>4, FailedMapFacts
<1>6. Cyclic(D) \subseteq DOMAIN marked
  <2> SUFFICES ASSUME NEW m \in Cyclic(D) PROVE m \in Cyclic(E) \cup members
    BY <1>5
  <2>. QED BY <1>1, <1>2, MarkedEnough
<1> HIDE DEF marked, members
<1>7. CASE ds # old /\ DOMAIN marked # {} /\ (found \/ old \ ds # {})
  BY <1>1, <1>2, <1>5, <1>6, <1>7, DiagnosisFacts
<1>8. CASE ds = old
  <2>1. D = E
    BY <1>1, <1>8 DEF EdgeMaps
  <2>. QED BY <2>1, <1>1, <1>8
<1>9. CASE DOMAIN marked = {}
  <2>1. failed' = failed /\ Cyclic(E) = {} /\ Cyclic(D) = {}
    BY <1>1, <1>5, <1>6, <1>9
  <2>2. DOMAIN Diagnosis(D) = {} /\ Diagnosis(D) \in FailedMaps
    BY <2>1, <1>2, DiagnosisFacts
  <2>3. Diagnosis(D) = [m \in {} |-> Diagnosis(D)[m]] /\ failed = [m \in {} |-> failed[m]]
    BY <2>1, <2>2, <1>3, FailedMapFacts
  <2>. QED BY <2>1, <2>3
<1>10. CASE ds # old /\ DOMAIN marked # {} /\ ~found /\ old \subseteq ds
  <2>1. failed' = Diagnosis(E)
    BY <1>1, <1>10
  <2>2. E[n] \subseteq ds /\ ~closesCycle(D, n, E[n])
    BY <1>10
  <2>. QED BY <2>1, <2>2, <1>1, <1>2, SameDiagnosis
<1>. QED BY <1>7, <1>8, <1>9, <1>10

LEMMA GraphInvImplies == GraphInv => FailedAreCycles /\ DiagnosticsAreStable
<1> SUFFICES ASSUME GraphInv PROVE FailedAreCycles /\ DiagnosticsAreStable
  OBVIOUS
<1>1. outEdges \in EdgeMaps /\ failed = Diagnosis(outEdges)
  BY DEF GraphInv
<1>2. DiagnosticsAreStable
  BY <1>1 DEF DiagnosticsAreStable, Diagnosis, Cyclic
<1>3. DOMAIN failed = Cyclic(outEdges) /\ \A n \in DOMAIN failed : Reported(outEdges, n, failed[n])
  BY <1>1, DiagnosisFacts
<1>4. FailedAreCycles
  BY <1>3 DEF FailedAreCycles, Cyclic, Reported
<1>. QED BY <1>2, <1>4

LEMMA GraphInit == Init => GraphInv
<1> SUFFICES ASSUME Init PROVE GraphInv
  OBVIOUS
<1>1. outEdges \in EdgeMaps /\ failed = << >> /\ \A n \in Node : outEdges[n] = {}
  BY DEF Init, EdgeMaps
<1>2. Cyclic(outEdges) = {}
  <2> SUFFICES ASSUME NEW n \in Node PROVE ~OnCycle(outEdges, n)
    BY DEF Cyclic
  <2>1. Closed(outEdges, {}) /\ outEdges[n] \subseteq {} /\ {} \in SUBSET Node
    BY <1>1 DEF Closed
  <2>. QED BY <2>1 DEF OnCycle, Closure
<1>3. Diagnosis(outEdges) \in FailedMaps /\ DOMAIN Diagnosis(outEdges) = {}
  BY <1>1, <1>2, DiagnosisFacts
<1>4. Diagnosis(outEdges) = [n \in {} |-> Diagnosis(outEdges)[n]]
  BY <1>3, FailedMapFacts
<1>5. Diagnosis(outEdges) = << >>
  BY <1>4
<1>. QED BY <1>1, <1>5 DEF GraphInv

(* After any sequence of calls of ReplaceEdges the graph knows exactly the *)
(* resources on cycles, each with a cycle through it, and reports what a   *)
(* graph built at once would (depgraph.go), for every set of resources and *)
(* every number of dependencies.                                           *)
THEOREM GraphKnowsItsCycles == Spec => [](FailedAreCycles /\ DiagnosticsAreStable)
<1>1. Init => GraphInv
  BY GraphInit
<1>2. GraphInv /\ [Next]_graph => GraphInv'
  <2> SUFFICES ASSUME GraphInv, [Next]_graph PROVE GraphInv'
    OBVIOUS
  <2>1. CASE Next
    <3>1. PICK n \in Node, ds \in Deps : ReplaceEdges(n, ds)
      BY <2>1 DEF Next
    <3>. QED BY <3>1, ReplaceStep DEF Deps
  <2>2. CASE UNCHANGED graph
    BY <2>2 DEF graph, GraphInv
  <2>. QED BY <2>1, <2>2
<1>. QED BY <1>1, <1>2, GraphInvImplies, PTL DEF Spec
-----------------------------------------------------------------------------
(* The listeners.  Whatever they interleave, each call of ReplaceEdges is  *)
(* one step, so the graph keeps its invariant.                             *)

Stages == {"idle", "lookup", "replace", "failures", "install", "writing"}

ListenersTyped ==
    /\ declared \in EdgeMaps
    /\ pc \in [Publisher -> Stages]
    /\ id \in [Publisher -> Node \cup {Least(Node)}]
    /\ \A p \in Publisher : pc[p] # "idle" => id[p] \in Node
    /\ deps \in [Publisher -> SUBSET Node]

ListenInv == GraphInv /\ ListenersTyped

\* What one step of the listeners is.
Steps(p) ==
    \/ Lookup(p) \/ Replace(p) \/ Failures(p) \/ replacePreflightFailures(p) \/ Return(p)
    \/ \E n \in Node : SetPreflight(p, n)
    \/ \E n \in Node, targets \in Deps : Publish(p, n, targets)

Rests == \/ \E n \in Executed : ReadPreflight(n) \/ WritePreflight(n)
         \/ UNCHANGED vars

LEMMA PreflightSteps ==
  ASSUME [PreflightNext]_vars
  PROVE  Rests \/ \E p \in Publisher : Steps(p)
<1>1. CASE UNCHANGED vars
  BY <1>1 DEF Rests
<1>2. CASE PreflightNext
  BY <1>2 DEF PreflightNext, Listen, Finished, Rests, Steps
<1>. QED BY <1>1, <1>2

LEMMA ListenInit == PreflightInit => ListenInv
<1> SUFFICES ASSUME PreflightInit PROVE ListenInv
  OBVIOUS
<1>1. declared \in EdgeMaps /\ outEdges = declared /\ failed = Canonical
  BY DEF PreflightInit, Deps, EdgeMaps
<1>2. GraphInv
  BY <1>1 DEF GraphInv, Diagnosis, Canonical, Cyclic
<1>3. ListenersTyped
  BY <1>1 DEF ListenersTyped, PreflightInit, Stages
<1>. QED BY <1>2, <1>3 DEF ListenInv

LEMMA PublishStep ==
  ASSUME ListenInv, NEW p \in Publisher, NEW n \in Node, NEW targets \in Deps, Publish(p, n, targets)
  PROVE  ListenInv' /\ UNCHANGED graph
<1>1. UNCHANGED graph /\ GraphInv'
  BY DEF ListenInv, GraphInv, Publish, graph
<1>2. targets \in SUBSET Node
  BY DEF Deps
<1>3. ListenersTyped'
  BY <1>2 DEF ListenInv, ListenersTyped, Publish, Goto, Stages, EdgeMaps
<1>. QED BY <1>1, <1>3 DEF ListenInv

LEMMA LookupStep ==
  ASSUME ListenInv, NEW p \in Publisher, Lookup(p)
  PROVE  ListenInv' /\ UNCHANGED graph
<1>1. UNCHANGED graph /\ GraphInv'
  BY DEF ListenInv, GraphInv, Lookup, graph
<1>2. declared[id[p]] \in SUBSET Node
  BY DEF ListenInv, ListenersTyped, EdgeMaps, Lookup, Goto
<1>3. ListenersTyped'
  BY <1>2 DEF ListenInv, ListenersTyped, Lookup, Goto, Stages
<1>. QED BY <1>1, <1>3 DEF ListenInv

LEMMA ReplacedStep ==
  ASSUME ListenInv, NEW p \in Publisher, Replace(p)
  PROVE  ListenInv' /\ outEdges' = [outEdges EXCEPT ![id[p]] = deps[p]]
<1>1. GraphInv /\ id[p] \in Node /\ deps[p] \in SUBSET Node /\ ReplaceEdges(id[p], deps[p])
  BY DEF ListenInv, ListenersTyped, Replace, Goto
<1>2. GraphInv' /\ outEdges' = [outEdges EXCEPT ![id[p]] = deps[p]]
  BY <1>1, ReplaceStep
<1>3. ListenersTyped'
  BY DEF ListenInv, ListenersTyped, Replace, Goto, Stages
<1>. QED BY <1>2, <1>3 DEF ListenInv

LEMMA RestStep ==
  ASSUME ListenInv, NEW p \in Publisher,
         Failures(p) \/ replacePreflightFailures(p) \/ Return(p) \/ \E n \in Node : SetPreflight(p, n)
  PROVE  ListenInv' /\ UNCHANGED <<graph, declared>>
<1>1. /\ UNCHANGED <<graph, declared, id, deps>>
      /\ pc' \in [Publisher -> Stages]
      /\ \A r \in Publisher : pc'[r] # "idle" => pc[r] # "idle"
  <2>1. CASE Failures(p)
    BY <2>1 DEF Failures, Goto, graph, ListenInv, ListenersTyped, Stages
  <2>2. CASE replacePreflightFailures(p)
    BY <2>2 DEF replacePreflightFailures, Goto, graph, ListenInv, ListenersTyped, Stages
  <2>3. CASE Return(p)
    BY <2>3 DEF Return, Goto, graph, ListenInv, ListenersTyped, Stages
  <2>4. CASE \E n \in Node : SetPreflight(p, n)
    BY <2>4 DEF SetPreflight, graph, ListenInv, ListenersTyped, Stages
  <2>. QED BY <2>1, <2>2, <2>3, <2>4
<1>2. GraphInv'
  BY <1>1 DEF ListenInv, GraphInv, graph
<1>3. ListenersTyped'
  BY <1>1 DEF ListenInv, ListenersTyped
<1>. QED BY <1>1, <1>2, <1>3 DEF ListenInv

LEMMA IdleStep ==
  ASSUME ListenInv, Rests
  PROVE  /\ ListenInv'
         /\ UNCHANGED <<graph, declared, pc, id, deps, snapshot, writes, preflightFailures>>
         /\ admission' = admission \/ \E n \in Executed : admission' = [admission EXCEPT ![n] = initialising[n]]
<1>1. /\ UNCHANGED <<graph, declared, pc, id, deps, snapshot, writes, preflightFailures>>
      /\ admission' = admission \/ \E n \in Executed : admission' = [admission EXCEPT ![n] = initialising[n]]
  BY DEF Rests, ReadPreflight, WritePreflight, vars, graph
<1>2. GraphInv'
  BY <1>1 DEF ListenInv, GraphInv, graph
<1>3. ListenersTyped'
  BY <1>1 DEF ListenInv, ListenersTyped
<1>. QED BY <1>1, <1>2, <1>3 DEF ListenInv

LEMMA ListenStep == ListenInv /\ [PreflightNext]_vars => ListenInv'
<1> SUFFICES ASSUME ListenInv, [PreflightNext]_vars PROVE ListenInv'
  OBVIOUS
<1>1. CASE Rests
  BY <1>1, IdleStep
<1>2. CASE \E p \in Publisher : Steps(p)
  <2>1. PICK p \in Publisher : Steps(p)
    BY <1>2
  <2>. QED BY <2>1, PublishStep, LookupStep, ReplacedStep, RestStep DEF Steps
<1>. QED BY <1>1, <1>2, PreflightSteps

(* The graph beneath the listeners of run.go keeps its promise too: for    *)
(* any number of goroutines that publish at the same time the graph knows  *)
(* exactly the cycles of its edges and reports what a graph built at once  *)
(* would.                                                                  *)
THEOREM GraphUnderListeners == PreflightSpec => [](FailedAreCycles /\ DiagnosticsAreStable)
<1>1. PreflightInit => ListenInv
  BY ListenInit
<1>2. ListenInv /\ [PreflightNext]_vars => ListenInv'
  BY ListenStep
<1>3. ListenInv => FailedAreCycles /\ DiagnosticsAreStable
  BY GraphInvImplies DEF ListenInv
<1>. QED BY <1>1, <1>2, <1>3, PTL DEF PreflightSpec
-----------------------------------------------------------------------------
(* Listeners that do not overlap.  Snapshot, map and store are then in     *)
(* step with the graph, each at its stage of the one listener under way.   *)
(* Where two overlap, an older snapshot can be installed last.             *)

Serial == \A p, q \in Publisher : pc[p] # "idle" /\ pc[q] # "idle" => p = q

Shapes == DOMAIN snapshot = Publisher /\ DOMAIN writes = Publisher /\ DOMAIN admission = Node

\* Only the edges of the object in hand may be behind its declaration.
EdgesInStep ==
    /\ \A n \in Node : \/ outEdges[n] = declared[n]
                       \/ \E p \in Publisher : pc[p] \in {"lookup", "replace"} /\ id[p] = n
    /\ \A p \in Publisher : pc[p] = "replace" => deps[p] = declared[id[p]]

MapInStep ==
    /\ \A p \in Publisher : pc[p] = "install" => snapshot[p] = messages(failed)
    /\ \/ preflightFailures = messages(failed)
       \/ \E p \in Publisher : pc[p] \in {"failures", "install"}

\* A store entry agrees with the map or its write is still to come.
StoreInStep ==
    /\ \A p \in Publisher : pc[p] = "writing" =>
          \A n \in DOMAIN writes[p] : writes[p][n] = message(preflightFailures, n)
    /\ \A n \in Node \ Executed :
          \/ admission[n] = message(preflightFailures, n)
          \/ \E p \in Publisher : pc[p] = "writing" /\ n \in DOMAIN writes[p]

SerialInv == ListenInv /\ Shapes /\ EdgesInStep /\ MapInStep /\ StoreInStep

LEMMA SerialInit == PreflightInit => SerialInv
<1> SUFFICES ASSUME PreflightInit PROVE SerialInv
  OBVIOUS
<1>1. ListenInv
  BY ListenInit
<1>2. Shapes /\ EdgesInStep
  BY DEF PreflightInit, Shapes, EdgesInStep
<1>3. MapInStep /\ StoreInStep
  BY DEF PreflightInit, MapInStep, StoreInStep
<1>. QED BY <1>1, <1>2, <1>3 DEF SerialInv

\* The listener under way is alone.
LEMMA Alone ==
  ASSUME Serial, NEW p \in Publisher, pc[p] # "idle", NEW q \in Publisher, q # p
  PROVE  pc[q] = "idle"
  BY DEF Serial

LEMMA SerialPublish ==
  ASSUME SerialInv, Serial', NEW p \in Publisher, NEW n \in Node, NEW targets \in Deps,
         Publish(p, n, targets)
  PROVE  SerialInv'
<1>1. ListenInv' /\ UNCHANGED graph
  BY PublishStep DEF SerialInv
<1>2. /\ UNCHANGED <<graph, outEdges, failed, deps, snapshot, writes, preflightFailures, admission>>
      /\ declared' = [declared EXCEPT ![n] = targets] /\ id' = [id EXCEPT ![p] = n]
      /\ pc' = [pc EXCEPT ![p] = "lookup"] /\ pc[p] = "idle"
      /\ declared \in EdgeMaps /\ pc \in [Publisher -> Stages] /\ DOMAIN id = Publisher
  BY <1>1 DEF Publish, Goto, SerialInv, ListenInv, ListenersTyped, graph
<1>3. \A q \in Publisher : pc[q] = "idle"
  BY <1>2 DEF Serial
<1>4. Shapes'
  BY <1>2 DEF SerialInv, Shapes
<1>5. EdgesInStep'
  <2>1. \A m \in Node : outEdges[m] = declared[m]
    BY <1>3 DEF SerialInv, EdgesInStep
  <2>2. \A m \in Node : m # n => declared'[m] = declared[m]
    BY <1>2 DEF EdgeMaps
  <2>3. pc'[p] = "lookup" /\ id'[p] = n
    BY <1>2
  <2>4. \A q \in Publisher : pc'[q] # "replace"
    BY <1>2, <1>3
  <2>. QED BY <2>1, <2>2, <2>3, <2>4, <1>2 DEF EdgesInStep
<1>6. MapInStep'
  <2>1. preflightFailures = messages(failed)
    BY <1>3 DEF SerialInv, MapInStep
  <2>2. \A q \in Publisher : pc'[q] # "install"
    BY <1>2, <1>3
  <2>. QED BY <2>1, <2>2, <1>2 DEF MapInStep, messages
<1>7. StoreInStep'
  <2>1. \A m \in Node \ Executed : admission[m] = message(preflightFailures, m)
    BY <1>3 DEF SerialInv, StoreInStep
  <2>2. \A q \in Publisher : pc'[q] # "writing"
    BY <1>2, <1>3
  <2>. QED BY <2>1, <2>2, <1>2 DEF StoreInStep, message
<1>. QED BY <1>1, <1>4, <1>5, <1>6, <1>7 DEF SerialInv

LEMMA SerialLookup ==
  ASSUME SerialInv, Serial, NEW p \in Publisher, Lookup(p)
  PROVE  SerialInv'
<1>1. ListenInv' /\ UNCHANGED graph
  BY LookupStep DEF SerialInv
<1>2. /\ UNCHANGED <<outEdges, failed, declared, id, snapshot, writes, preflightFailures, admission>>
      /\ deps' = [deps EXCEPT ![p] = declared[id[p]]]
      /\ pc' = [pc EXCEPT ![p] = "replace"] /\ pc[p] = "lookup"
      /\ pc \in [Publisher -> Stages] /\ DOMAIN deps = Publisher
  BY <1>1 DEF Lookup, Goto, SerialInv, ListenInv, ListenersTyped, graph
<1>3. \A q \in Publisher : q # p => pc[q] = "idle"
  BY <1>2, Alone
<1>4. Shapes'
  BY <1>2 DEF SerialInv, Shapes
<1>5. EdgesInStep'
  <2>1. \A q \in Publisher : pc'[q] = "replace" => q = p
    BY <1>2, <1>3
  <2>2. deps'[p] = declared[id[p]]
    BY <1>2
  <2>3. \A q \in Publisher : pc[q] \in {"lookup", "replace"} => pc'[q] \in {"lookup", "replace"}
    BY <1>2
  <2>. QED BY <2>1, <2>2, <2>3, <1>2 DEF SerialInv, EdgesInStep
<1>6. MapInStep'
  <2>1. preflightFailures = messages(failed)
    BY <1>2, <1>3 DEF SerialInv, MapInStep
  <2>2. \A q \in Publisher : pc'[q] # "install"
    BY <1>2, <1>3
  <2>. QED BY <2>1, <2>2, <1>2 DEF MapInStep, messages
<1>7. StoreInStep'
  <2>1. \A m \in Node \ Executed : admission[m] = message(preflightFailures, m)
    BY <1>2, <1>3 DEF SerialInv, StoreInStep
  <2>2. \A q \in Publisher : pc'[q] # "writing"
    BY <1>2, <1>3
  <2>. QED BY <2>1, <2>2, <1>2 DEF StoreInStep, message
<1>. QED BY <1>1, <1>4, <1>5, <1>6, <1>7 DEF SerialInv

LEMMA SerialReplace ==
  ASSUME SerialInv, Serial, NEW p \in Publisher, Replace(p)
  PROVE  SerialInv'
<1>1. ListenInv' /\ outEdges' = [outEdges EXCEPT ![id[p]] = deps[p]]
  BY ReplacedStep DEF SerialInv
<1>2. /\ UNCHANGED <<declared, id, deps, snapshot, writes, preflightFailures, admission>>
      /\ pc' = [pc EXCEPT ![p] = "failures"] /\ pc[p] = "replace"
      /\ pc \in [Publisher -> Stages] /\ outEdges \in EdgeMaps
  BY DEF Replace, Goto, SerialInv, ListenInv, ListenersTyped, GraphInv
<1>3. \A q \in Publisher : q # p => pc[q] = "idle"
  BY <1>2, Alone
<1>4. Shapes'
  BY <1>2 DEF SerialInv, Shapes
<1>5. EdgesInStep'
  <2>1. \A q \in Publisher : pc'[q] # "replace"
    BY <1>2, <1>3
  <2>2. ASSUME NEW m \in Node PROVE outEdges'[m] = declared[m]
    <3>1. CASE m = id[p]
      <4>1. outEdges'[m] = deps[p]
        BY <3>1, <1>1, <1>2 DEF EdgeMaps
      <4>. QED BY <4>1, <3>1, <1>2 DEF SerialInv, EdgesInStep
    <3>2. CASE m # id[p]
      <4>1. outEdges'[m] = outEdges[m]
        BY <3>2, <1>1, <1>2 DEF EdgeMaps
      <4>. QED BY <4>1, <3>2, <1>3 DEF SerialInv, EdgesInStep
    <3>. QED BY <3>1, <3>2
  <2>. QED BY <2>1, <2>2, <1>2 DEF EdgesInStep
<1>6. MapInStep'
  <2>1. pc'[p] = "failures" /\ \A q \in Publisher : pc'[q] # "install"
    BY <1>2, <1>3
  <2>. QED BY <2>1 DEF MapInStep
<1>7. StoreInStep'
  <2>1. \A m \in Node \ Executed : admission[m] = message(preflightFailures, m)
    BY <1>2, <1>3 DEF SerialInv, StoreInStep
  <2>2. \A q \in Publisher : pc'[q] # "writing"
    BY <1>2, <1>3
  <2>. QED BY <2>1, <2>2, <1>2 DEF StoreInStep, message
<1>. QED BY <1>1, <1>4, <1>5, <1>6, <1>7 DEF SerialInv

LEMMA SerialFailures ==
  ASSUME SerialInv, Serial, NEW p \in Publisher, Failures(p)
  PROVE  SerialInv'
<1>1. ListenInv' /\ UNCHANGED <<graph, declared>>
  BY RestStep DEF SerialInv
<1>2. /\ UNCHANGED <<outEdges, failed, declared, id, deps, writes, preflightFailures, admission>>
      /\ snapshot' = [snapshot EXCEPT ![p] = messages(failed)]
      /\ pc' = [pc EXCEPT ![p] = "install"] /\ pc[p] = "failures"
      /\ pc \in [Publisher -> Stages] /\ DOMAIN snapshot = Publisher
  BY <1>1 DEF Failures, Goto, SerialInv, ListenInv, ListenersTyped, Shapes, graph
<1>3. \A q \in Publisher : q # p => pc[q] = "idle"
  BY <1>2, Alone
<1>4. Shapes'
  BY <1>2 DEF SerialInv, Shapes
<1>5. EdgesInStep'
  <2>1. \A q \in Publisher : pc[q] \notin {"lookup", "replace"} /\ pc'[q] \notin {"lookup", "replace"}
    BY <1>2, <1>3
  <2>2. \A m \in Node : outEdges[m] = declared[m]
    BY <2>1 DEF SerialInv, EdgesInStep
  <2>. QED BY <2>1, <2>2, <1>2 DEF EdgesInStep
<1>6. MapInStep'
  <2>1. pc'[p] = "install" /\ \A q \in Publisher : pc'[q] = "install" => q = p
    BY <1>2, <1>3
  <2>2. snapshot'[p] = messages(failed)
    BY <1>2
  <2>. QED BY <2>1, <2>2, <1>2 DEF MapInStep, messages
<1>7. StoreInStep'
  <2>1. \A m \in Node \ Executed : admission[m] = message(preflightFailures, m)
    BY <1>2, <1>3 DEF SerialInv, StoreInStep
  <2>2. \A q \in Publisher : pc'[q] # "writing"
    BY <1>2, <1>3
  <2>. QED BY <2>1, <2>2, <1>2 DEF StoreInStep, message
<1>. QED BY <1>1, <1>4, <1>5, <1>6, <1>7 DEF SerialInv

LEMMA SerialInstall ==
  ASSUME SerialInv, Serial, NEW p \in Publisher, replacePreflightFailures(p)
  PROVE  SerialInv'
<1> DEFINE cleared == [n \in DOMAIN snapshot[p] \cup DOMAIN preflightFailures |-> message(snapshot[p], n)]
<1>1. ListenInv' /\ UNCHANGED <<graph, declared>>
  BY RestStep DEF SerialInv
<1>2. /\ UNCHANGED <<outEdges, failed, declared, id, deps, snapshot, admission>>
      /\ preflightFailures' = snapshot[p] /\ writes' = [writes EXCEPT ![p] = cleared]
      /\ pc' = [pc EXCEPT ![p] = "writing"] /\ pc[p] = "install"
      /\ pc \in [Publisher -> Stages] /\ DOMAIN writes = Publisher
  BY <1>1 DEF replacePreflightFailures, Goto, SerialInv, ListenInv, ListenersTyped, Shapes, graph
<1>3. \A q \in Publisher : q # p => pc[q] = "idle"
  BY <1>2, Alone
<1>4. Shapes'
  BY <1>2 DEF SerialInv, Shapes
<1>5. EdgesInStep'
  <2>1. \A q \in Publisher : pc[q] \notin {"lookup", "replace"} /\ pc'[q] \notin {"lookup", "replace"}
    BY <1>2, <1>3
  <2>2. \A m \in Node : outEdges[m] = declared[m]
    BY <2>1 DEF SerialInv, EdgesInStep
  <2>. QED BY <2>1, <2>2, <1>2 DEF EdgesInStep
<1>6. MapInStep'
  <2>1. \A q \in Publisher : pc'[q] # "install"
    BY <1>2, <1>3
  <2>2. snapshot[p] = messages(failed)
    BY <1>2 DEF SerialInv, MapInStep
  <2>. QED BY <2>1, <2>2, <1>2 DEF MapInStep, messages
<1>7. StoreInStep'
  <2>1. pc'[p] = "writing" /\ \A q \in Publisher : pc'[q] = "writing" => q = p
    BY <1>2, <1>3
  <2>2. writes'[p] = cleared /\ DOMAIN cleared = DOMAIN snapshot[p] \cup DOMAIN preflightFailures
    BY <1>2
  <2>3. \A n \in DOMAIN cleared : cleared[n] = message(preflightFailures', n)
    BY <1>2
  <2>4. \A m \in Node \ Executed : admission[m] = message(preflightFailures, m)
    BY <1>2, <1>3 DEF SerialInv, StoreInStep
  <2>5. \A m \in Node \ Executed : m \notin DOMAIN cleared => admission'[m] = message(preflightFailures', m)
    BY <2>2, <2>4, <1>2 DEF message
  <2> HIDE DEF cleared
  <2>6. (\A n \in DOMAIN writes[p] : writes[p][n] = message(preflightFailures, n))'
    BY <2>2, <2>3 DEF message
  <2>7. (\A m \in Node \ Executed : m \notin DOMAIN writes[p] => admission[m] = message(preflightFailures, m))'
    BY <2>2, <2>5 DEF message
  <2>. QED BY <2>1, <2>6, <2>7 DEF StoreInStep
<1>. QED BY <1>1, <1>4, <1>5, <1>6, <1>7 DEF SerialInv

LEMMA SerialWrite ==
  ASSUME SerialInv, Serial, NEW p \in Publisher, NEW n \in Node, SetPreflight(p, n)
  PROVE  SerialInv'
<1> DEFINE rest == [m \in DOMAIN writes[p] \ {n} |-> writes[p][m]]
<1>1. ListenInv' /\ UNCHANGED <<graph, declared>>
  BY RestStep DEF SerialInv
<1>2. /\ UNCHANGED <<outEdges, failed, declared, pc, id, deps, snapshot, preflightFailures>>
      /\ admission' = [admission EXCEPT ![n] = writes[p][n]]
      /\ writes' = [writes EXCEPT ![p] = rest] /\ n \in DOMAIN writes[p]
      /\ pc[p] = "writing" /\ DOMAIN writes = Publisher /\ DOMAIN admission = Node
  BY <1>1 DEF SetPreflight, SerialInv, Shapes, graph
<1>3. \A q \in Publisher : q # p => pc[q] = "idle"
  BY <1>2, Alone
<1>4. Shapes'
  BY <1>2 DEF SerialInv, Shapes
<1>5. EdgesInStep'
  BY <1>2 DEF SerialInv, EdgesInStep
<1>6. MapInStep'
  BY <1>2 DEF SerialInv, MapInStep, messages
<1>7. StoreInStep'
  <2>1. \A q \in Publisher : pc'[q] = "writing" => q = p
    BY <1>2, <1>3
  <2>2. writes'[p] = rest /\ DOMAIN rest = DOMAIN writes[p] \ {n} /\ \A m \in DOMAIN rest : rest[m] = writes[p][m]
    BY <1>2
  <2> HIDE DEF rest
  <2>3. \A m \in DOMAIN writes[p] : writes[p][m] = message(preflightFailures, m)
    BY <1>2 DEF SerialInv, StoreInStep
  <2>4. \A m \in Node \ Executed : m \notin DOMAIN writes[p] => admission[m] = message(preflightFailures, m)
    BY <1>2, <1>3 DEF SerialInv, StoreInStep
  <2>5. (\A m \in DOMAIN writes[p] : writes[p][m] = message(preflightFailures, m))'
    BY <2>2, <2>3, <1>2 DEF message
  <2>6. (\A m \in Node \ Executed : m \notin DOMAIN writes[p] => admission[m] = message(preflightFailures, m))'
    BY <2>2, <2>3, <2>4, <1>2 DEF message
  <2>. QED BY <2>1, <2>5, <2>6, <1>2 DEF StoreInStep
<1>. QED BY <1>1, <1>4, <1>5, <1>6, <1>7 DEF SerialInv

LEMMA SerialReturn ==
  ASSUME SerialInv, Serial, NEW p \in Publisher, Return(p)
  PROVE  SerialInv'
<1>1. ListenInv' /\ UNCHANGED <<graph, declared>>
  BY RestStep DEF SerialInv
<1>2. /\ UNCHANGED <<outEdges, failed, declared, id, deps, snapshot, writes, preflightFailures, admission>>
      /\ pc' = [pc EXCEPT ![p] = "idle"] /\ pc[p] = "writing" /\ DOMAIN writes[p] = {}
      /\ pc \in [Publisher -> Stages]
  BY <1>1 DEF Return, Goto, SerialInv, ListenInv, ListenersTyped, graph
<1>3. \A q \in Publisher : pc'[q] = "idle" /\ (q # p => pc[q] = "idle")
  BY <1>2, Alone
<1>4. Shapes'
  BY <1>2 DEF SerialInv, Shapes
<1>5. EdgesInStep'
  <2>1. \A m \in Node : outEdges[m] = declared[m]
    BY <1>2, <1>3 DEF SerialInv, EdgesInStep
  <2>. QED BY <2>1, <1>2, <1>3 DEF EdgesInStep
<1>6. MapInStep'
  <2>1. preflightFailures = messages(failed)
    BY <1>2, <1>3 DEF SerialInv, MapInStep
  <2>. QED BY <2>1, <1>2, <1>3 DEF MapInStep, messages
<1>7. StoreInStep'
  <2>1. \A m \in Node \ Executed : admission[m] = message(preflightFailures, m)
    BY <1>2, <1>3 DEF SerialInv, StoreInStep
  <2>. QED BY <2>1, <1>2, <1>3 DEF StoreInStep, message
<1>. QED BY <1>1, <1>4, <1>5, <1>6, <1>7 DEF SerialInv

LEMMA SerialRest ==
  ASSUME SerialInv, Rests
  PROVE  SerialInv'
<1>1. /\ ListenInv'
      /\ UNCHANGED <<outEdges, failed, declared, pc, id, deps, snapshot, writes, preflightFailures>>
      /\ admission' = admission \/ \E n \in Executed : admission' = [admission EXCEPT ![n] = initialising[n]]
  BY IdleStep DEF SerialInv, graph
<1>2. /\ DOMAIN admission = Node /\ DOMAIN admission' = Node
      /\ \A m \in Node \ Executed : admission'[m] = admission[m]
  BY <1>1 DEF SerialInv, Shapes
<1>3. Shapes' /\ EdgesInStep'
  BY <1>1, <1>2 DEF SerialInv, Shapes, EdgesInStep
<1>4. MapInStep'
  BY <1>1 DEF SerialInv, MapInStep, messages
<1>5. StoreInStep'
  BY <1>1, <1>2 DEF SerialInv, StoreInStep, message
<1>. QED BY <1>1, <1>3, <1>4, <1>5 DEF SerialInv

LEMMA SerialStep == SerialInv /\ Serial /\ Serial' /\ [PreflightNext]_vars => SerialInv'
<1> SUFFICES ASSUME SerialInv, Serial, Serial', [PreflightNext]_vars PROVE SerialInv'
  OBVIOUS
<1>1. CASE Rests
  BY <1>1, SerialRest
<1>2. CASE \E p \in Publisher : Steps(p)
  <2>1. PICK p \in Publisher : Steps(p)
    BY <1>2
  <2>. QED BY <2>1, SerialPublish, SerialLookup, SerialReplace, SerialFailures, SerialInstall,
              SerialReturn, SerialWrite DEF Steps
<1>. QED BY <1>1, <1>2, PreflightSteps

LEMMA SerialInvImplies == SerialInv => FailuresInstalled /\ FailuresPublished
<1> SUFFICES ASSUME SerialInv, NoListener
             PROVE  /\ preflightFailures = messages(failed)
                    /\ \A n \in Node \ Executed : admission[n] = message(messages(Canonical), n)
  BY DEF FailuresInstalled, FailuresPublished
<1>1. preflightFailures = messages(failed)
  BY DEF NoListener, SerialInv, MapInStep
<1>2. \A n \in Node \ Executed : admission[n] = message(preflightFailures, n)
  BY DEF NoListener, SerialInv, StoreInStep
<1>3. outEdges = declared
  <2>1. \A n \in Node : outEdges[n] = declared[n]
    BY DEF NoListener, SerialInv, EdgesInStep
  <2>. QED BY <2>1 DEF SerialInv, ListenInv, ListenersTyped, GraphInv, EdgeMaps
<1>4. failed = Canonical
  BY <1>3 DEF SerialInv, ListenInv, GraphInv, Diagnosis, Cyclic, Canonical
<1>. QED BY <1>1, <1>2, <1>4

(* As long as no two listeners overlap, the map of the orchestrator is     *)
(* that of the graph whenever they have returned (cycles.go,               *)
(* replacePreflightFailures): the run preflightrace is the overlap.        *)
THEOREM SerialListenersInstall == PreflightSpec /\ []Serial => []FailuresInstalled
<1>1. PreflightInit => SerialInv
  BY SerialInit
<1>2. SerialInv /\ Serial /\ Serial' /\ [PreflightNext]_vars => SerialInv'
  BY SerialStep
<1>3. SerialInv => FailuresInstalled
  BY SerialInvImplies
<1>. QED BY <1>1, <1>2, <1>3, PTL DEF PreflightSpec

(* And the store then reports what a search of the stored declarations     *)
(* would find, for every resource no Execution.Init writes beside the      *)
(* listener: nothing is missed, nothing stays behind.                      *)
THEOREM SerialListenersPublish == PreflightSpec /\ []Serial => []FailuresPublished
<1>1. PreflightInit => SerialInv
  BY SerialInit
<1>2. SerialInv /\ Serial /\ Serial' /\ [PreflightNext]_vars => SerialInv'
  BY SerialStep
<1>3. SerialInv => FailuresPublished
  BY SerialInvImplies
<1>. QED BY <1>1, <1>2, <1>3, PTL DEF PreflightSpec
=============================================================================
