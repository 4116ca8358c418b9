------------------------- MODULE PublicationProofs -------------------------
(***************************************************************************)
(* The store of pkg/store for any resources, any discovered ownership, any *)
(* inventories (circles of producers included) and any number of calls.    *)
(***************************************************************************)
EXTENDS Publication, FiniteSetTheorems, NaturalsInduction, TLAPS

-----------------------------------------------------------------------------
(* Reachability as a fixpoint: A is what stands on its own and P[q] what q *)
(* puts in force.                                                          *)

Least(A, P) ==
    {x \in Id : \A L \in SUBSET Id : A \subseteq L /\ (\A q \in L : P[q] \subseteq L) => x \in L}

LEMMA LeastIsClosed ==
  ASSUME NEW A \in SUBSET Id, NEW P \in [Id -> SUBSET Id]
  PROVE  /\ Least(A, P) \subseteq Id /\ A \subseteq Least(A, P)
         /\ \A q \in Least(A, P) : P[q] \subseteq Least(A, P)
<1>1. Least(A, P) \subseteq Id /\ A \subseteq Least(A, P)
  BY DEF Least
<1>2. ASSUME NEW q \in Least(A, P), NEW x \in P[q] PROVE x \in Least(A, P)
  <2>1. q \in Id /\ x \in Id
    BY <1>2 DEF Least
  <2>2. ASSUME NEW L \in SUBSET Id, A \subseteq L, \A r \in L : P[r] \subseteq L PROVE x \in L
    BY <1>2, <2>2 DEF Least
  <2>. QED BY <2>1, <2>2 DEF Least
<1>. QED BY <1>1, <1>2

LEMMA LeastIsLeast ==
  ASSUME NEW A, NEW P, NEW L \in SUBSET Id, A \subseteq L, \A q \in L : P[q] \subseteq L
  PROVE  Least(A, P) \subseteq L
  BY DEF Least

\* The least set within R that holds S and is closed.
Within(R, S, P) ==
    {x \in R : \A L \in SUBSET R : S \subseteq L /\ (\A q \in L : R \cap P[q] \subseteq L) => x \in L}

LEMMA WithinIsClosed ==
  ASSUME NEW R \in SUBSET Id, NEW S \in SUBSET R, NEW P \in [Id -> SUBSET Id]
  PROVE  /\ Within(R, S, P) \subseteq R /\ S \subseteq Within(R, S, P)
         /\ \A q \in Within(R, S, P) : R \cap P[q] \subseteq Within(R, S, P)
<1>1. Within(R, S, P) \subseteq R /\ S \subseteq Within(R, S, P)
  BY DEF Within
<1>2. ASSUME NEW q \in Within(R, S, P), NEW x \in R, x \in P[q] PROVE x \in Within(R, S, P)
  <2>2. ASSUME NEW L \in SUBSET R, S \subseteq L, \A r \in L : R \cap P[r] \subseteq L PROVE x \in L
    BY <1>2, <2>2 DEF Within
  <2>. QED BY <1>2, <2>2 DEF Within
<1>. QED BY <1>1, <1>2

LEMMA WithinIsLeast ==
  ASSUME NEW R, NEW S, NEW P, NEW L \in SUBSET R, S \subseteq L, \A q \in L : R \cap P[q] \subseteq L
  PROVE  Within(R, S, P) \subseteq L
  BY DEF Within

\* A change inside a region that is closed before and after it leaves what is
\* reachable outside alone; inside, what is reachable spreads from what stands
\* on its own or is put there by something outside.
Regional(A, P, B, Q, R, S) ==
    /\ A \in SUBSET Id /\ P \in [Id -> SUBSET Id] /\ B \in SUBSET Id /\ Q \in [Id -> SUBSET Id]
    /\ R \in SUBSET Id /\ S \in SUBSET R
    /\ \A q \in R : P[q] \subseteq R /\ Q[q] \subseteq R
    /\ A \ R = B \ R /\ \A q \in Id : P[q] \ R = Q[q] \ R
    /\ \A x \in R : x \in S <=> x \in B \/ \E q \in Least(A, P) \ R : x \in Q[q]

LEMMA RegionIsEnough ==
  ASSUME NEW A, NEW P, NEW B, NEW Q, NEW R, NEW S, Regional(A, P, B, Q, R, S)
  PROVE  /\ Least(B, Q) \ R = Least(A, P) \ R
         /\ Least(B, Q) \cap R = Within(R, S, Q)
<1> USE DEF Regional
<1> DEFINE old == Least(A, P)
           new == Least(B, Q)
           in  == Within(R, S, Q)
<1>1. /\ old \subseteq Id /\ A \subseteq old /\ \A q \in old : P[q] \subseteq old
      /\ new \subseteq Id /\ B \subseteq new /\ \A q \in new : Q[q] \subseteq new
      /\ in \subseteq R /\ S \subseteq in /\ \A q \in in : R \cap Q[q] \subseteq in
  BY LeastIsClosed, WithinIsClosed
<1>2. new \subseteq (old \ R) \cup in
  <2> DEFINE L == (old \ R) \cup in
  <2> HIDE DEF old, in
  <2>1. L \in SUBSET Id /\ B \subseteq L
    BY <1>1
  <2>2. ASSUME NEW q \in L, NEW x \in Q[q] PROVE x \in L
    <3>1. CASE q \in in
      BY <1>1, <3>1
    <3>2. CASE q \in old \ R /\ x \in R
      BY <1>1, <3>2 DEF old
    <3>3. CASE q \in old \ R /\ x \notin R
      BY <1>1, <3>3
    <3>. QED BY <3>1, <3>2, <3>3
  <2> HIDE DEF L
  <2>3. Least(B, Q) \subseteq L
    BY <2>1, <2>2, LeastIsLeast
  <2>. QED BY <2>3 DEF L
<1>3. old \subseteq new \cup R
  <2> DEFINE L == new \cup R
  <2> HIDE DEF new
  <2>1. L \in SUBSET Id /\ A \subseteq L
    BY <1>1
  <2>2. ASSUME NEW q \in L PROVE P[q] \subseteq L
    BY <1>1
  <2> HIDE DEF L
  <2>3. Least(A, P) \subseteq L
    BY <2>1, <2>2, LeastIsLeast
  <2>. QED BY <2>3 DEF L
<1>4. in \subseteq new
  <2> DEFINE L == new \cap R
  <2> HIDE DEF new, old
  <2>1. L \in SUBSET R /\ S \subseteq L
    BY <1>1, <1>3 DEF old
  <2>2. ASSUME NEW q \in L PROVE R \cap Q[q] \subseteq L
    BY <1>1
  <2> HIDE DEF L
  <2>3. Within(R, S, Q) \subseteq L
    BY <2>1, <2>2, WithinIsLeast
  <2>. QED BY <2>3 DEF L
<1> HIDE DEF old, new, in
<1>5. new \ R = old \ R /\ new \cap R = in
  BY <1>1, <1>2, <1>3, <1>4
<1>. QED BY <1>5 DEF old, new, in
-----------------------------------------------------------------------------
(* Sequences: numbers in their order, and elements picked from a sequence. *)

LEMMA NatSets ==
  ASSUME NEW S, 0 \in S, \A n \in Nat : n \in S => n + 1 \in S
  PROVE  Nat \subseteq S
<1> SUFFICES ASSUME Nat \ S # {} PROVE FALSE
  OBVIOUS
<1>1. PICK n \in Nat \ S : \A m \in Nat \ S : <<m, n>> \notin OpToRel(<, Nat)
  <2> DEFINE R == OpToRel(<, Nat)
             T == Nat \ S
  <2>1. IsWellFoundedOn(R, Nat) /\ T \subseteq Nat /\ T # {}
    BY NatLessThanWellFounded
  <2> HIDE DEF R, T
  <2>2. \E n \in T : \A m \in T : ~ (<<m, n>> \in R)
    BY <2>1, WFMin
  <2>. QED BY <2>2 DEF R, T
<1>2. \A m \in Nat \ S : ~(m < n)
  BY <1>1 DEF OpToRel
<1>3. n # 0 /\ n - 1 \in Nat /\ (n - 1) + 1 = n /\ n - 1 < n
  OBVIOUS
<1>4. n - 1 \in S
  BY <1>2, <1>3
<1>. QED BY <1>3, <1>4

Increasing(f, S) ==
    /\ f \in [1 .. Cardinality(S) -> S]
    /\ \A x \in S : \E i \in DOMAIN f : f[i] = x
    /\ \A i, j \in DOMAIN f : i < j => f[i] < f[j]

LEMMA LeastNumber ==
  ASSUME NEW S \in SUBSET Nat, S # {}
  PROVE  \E m \in S : \A n \in S : m <= n
<1> DEFINE R == OpToRel(<, Nat)
<1>1. IsWellFoundedOn(R, Nat)
  BY NatLessThanWellFounded
<1> HIDE DEF R
<1>2. PICK m \in S : \A n \in S : ~ (<<n, m>> \in R)
  BY <1>1, WFMin
<1>3. \A n \in S : ~(n < m)
  BY <1>2 DEF R, OpToRel
<1>4. \A n \in S : m <= n
  BY <1>3
<1>. QED BY <1>4

LEMMA OrderExists ==
  ASSUME NEW S \in SUBSET Nat, IsFiniteSet(S)
  PROVE  \E f : Increasing(f, S)
<1> DEFINE N == {n \in Nat : \A T \in SUBSET Nat :
                    IsFiniteSet(T) /\ Cardinality(T) = n => \E f : Increasing(f, T)}
<1>1. 0 \in N
  <2> SUFFICES ASSUME NEW T \in SUBSET Nat, IsFiniteSet(T), Cardinality(T) = 0
               PROVE  \E f : Increasing(f, T)
    OBVIOUS
  <2>1. T = {}
    BY FS_EmptySet
  <2>2. Increasing([i \in 1 .. 0 |-> 0], T)
    BY <2>1 DEF Increasing
  <2>. QED BY <2>2
<1>2. ASSUME NEW n \in Nat, n \in N PROVE n + 1 \in N
  <2> SUFFICES ASSUME NEW T \in SUBSET Nat, IsFiniteSet(T), Cardinality(T) = n + 1
               PROVE  \E f : Increasing(f, T)
    OBVIOUS
  <2>1. T # {}
    BY FS_EmptySet
  <2>2. PICK m \in T : \A x \in T : m <= x
    BY <2>1, LeastNumber
  <2> DEFINE U == T \ {m}
  <2>3. U \in SUBSET Nat /\ IsFiniteSet(U) /\ Cardinality(U) = n
    <3>1. IsFiniteSet(U) /\ Cardinality(U) = Cardinality(T) - 1
      BY FS_RemoveElement
    <3>2. U \in SUBSET Nat
      OBVIOUS
    <3> HIDE DEF U
    <3>. QED BY <3>1, <3>2
  <2>4. PICK g : Increasing(g, U)
    <3> HIDE DEF U
    <3>. QED BY <1>2, <2>3
  <2>5. /\ g \in [1 .. n -> U] /\ \A x \in U : \E i \in 1 .. n : g[i] = x
        /\ \A i, j \in 1 .. n : i < j => g[i] < g[j]
    BY <2>3, <2>4 DEF Increasing
  <2> DEFINE f == [i \in 1 .. n + 1 |-> IF i = 1 THEN m ELSE g[i - 1]]
  <2>6. f \in [1 .. n + 1 -> T] /\ DOMAIN f = 1 .. n + 1
    <3>1. \A i \in 1 .. n + 1 : i # 1 => i - 1 \in 1 .. n
      OBVIOUS
    <3>. QED BY <2>5, <3>1
  <2>7. ASSUME NEW x \in T PROVE \E i \in 1 .. n + 1 : f[i] = x
    <3>1. CASE x = m
      BY <3>1
    <3>2. CASE x # m
      <4>1. PICK i \in 1 .. n : g[i] = x
        BY <2>5, <3>2
      <4>2. i + 1 \in 1 .. n + 1 /\ i + 1 # 1 /\ (i + 1) - 1 = i
        OBVIOUS
      <4>. QED BY <4>1, <4>2
    <3>. QED BY <3>1, <3>2
  <2>8. ASSUME NEW i \in 1 .. n + 1, NEW j \in 1 .. n + 1, i < j PROVE f[i] < f[j]
    <3>1. j # 1 /\ j - 1 \in 1 .. n /\ f[j] = g[j - 1] /\ g[j - 1] \in U
      BY <2>5, <2>8
    <3>2. CASE i = 1
      <4>1. f[i] = m
        BY <3>2
      <4>2. m <= g[j - 1] /\ m # g[j - 1] /\ m \in Nat /\ g[j - 1] \in Nat
        BY <2>2, <3>1
      <4>3. m < g[j - 1]
        BY <4>2
      <4>. QED BY <3>1, <4>1, <4>3
    <3>3. CASE i # 1
      <4>1. i - 1 \in 1 .. n /\ i - 1 < j - 1
        <5> HIDE DEF f
        <5>. QED BY <2>8, <3>3
      <4>2. f[i] = g[i - 1]
        BY <3>3
      <4>3. g[i - 1] < g[j - 1]
        BY <2>5, <3>1, <4>1
      <4>. QED BY <3>1, <4>2, <4>3
    <3>. QED BY <3>2, <3>3
  <2> HIDE DEF f
  <2>9. Increasing(f, T)
    BY <2>6, <2>7, <2>8 DEF Increasing
  <2>. QED BY <2>9
<1> HIDE DEF N
<1>3. Nat \subseteq N
  BY <1>1, <1>2, NatSets
<1>4. Cardinality(S) \in Nat
  BY FS_CardinalityType
<1>5. Cardinality(S) \in N
  BY <1>3, <1>4
<1>. QED BY <1>5 DEF N

LEMMA InOrder ==
  ASSUME NEW S \in SUBSET Nat, IsFiniteSet(S)
  PROVE  Increasing(inOrder(S), S)
<1>1. PICK f : Increasing(f, S)
  BY OrderExists
<1>. QED BY <1>1 DEF Increasing, inOrder

\* What is picked from a sequence: elements of it that are in T, all of them, each
\* from a place of its own.
LEMMA Picked ==
  ASSUME NEW X, NEW s \in Seq(X), NEW T
  PROVE  /\ only(s, T) \in Seq(X)
         /\ \E at \in [DOMAIN only(s, T) -> DOMAIN s] :
               /\ \A i \in DOMAIN only(s, T) : only(s, T)[i] = s[at[i]] /\ only(s, T)[i] \in T
               /\ \A i, j \in DOMAIN only(s, T) : at[i] = at[j] => i = j
         /\ \A k \in DOMAIN s : s[k] \in T => \E i \in DOMAIN only(s, T) : only(s, T)[i] = s[k]
<1> DEFINE I == {k \in DOMAIN s : s[k] \in T}
           at == inOrder(I)
<1>1. I \in SUBSET Nat /\ IsFiniteSet(I)
  <2>1. DOMAIN s = 1 .. Len(s) /\ Len(s) \in Nat
    OBVIOUS
  <2>2. IsFiniteSet(1 .. Len(s)) /\ I \subseteq 1 .. Len(s)
    BY <2>1, FS_Interval
  <2>. QED BY <2>2, FS_Subset
<1>2. Increasing(at, I) /\ Cardinality(I) \in Nat
  BY <1>1, InOrder, FS_CardinalityType
<1>3. only(s, T) = [i \in DOMAIN at |-> s[at[i]]]
  BY DEF only
<1> HIDE DEF at
<1>4. DOMAIN at = 1 .. Cardinality(I) /\ at \in [1 .. Cardinality(I) -> I]
  BY <1>2 DEF Increasing
<1>5. only(s, T) \in Seq(X) /\ DOMAIN only(s, T) = DOMAIN at
  BY <1>2, <1>3, <1>4, SMTT(30)
<1>6. \A i, j \in DOMAIN at : at[i] = at[j] => i = j
  <2> SUFFICES ASSUME NEW i \in DOMAIN at, NEW j \in DOMAIN at, i # j PROVE at[i] # at[j]
    OBVIOUS
  <2>1. i \in Nat /\ j \in Nat /\ at[i] \in Nat /\ at[j] \in Nat
    BY <1>1, <1>2, <1>4
  <2>2. i < j \/ j < i
    BY <2>1
  <2>. QED BY <1>2, <2>1, <2>2 DEF Increasing
<1>7. at \in [DOMAIN only(s, T) -> DOMAIN s]
  BY <1>4, <1>5
<1>8. \A i \in DOMAIN only(s, T) : only(s, T)[i] = s[at[i]] /\ only(s, T)[i] \in T
  BY <1>3, <1>4, <1>5
<1>9. ASSUME NEW k \in DOMAIN s, s[k] \in T PROVE \E i \in DOMAIN only(s, T) : only(s, T)[i] = s[k]
  <2>1. PICK i \in DOMAIN at : at[i] = k
    BY <1>2, <1>9 DEF Increasing
  <2>. QED BY <1>5, <1>8, <2>1
<1>. QED BY <1>5, <1>6, <1>7, <1>8, <1>9
-----------------------------------------------------------------------------
(* A store, at rest or in the middle of a commit.                          *)

EntryType == [id : Id, content : Content, generation : Nat]
CellType == [static : Content \cup {None}, rooted : BOOLEAN, retired : BOOLEAN, hidden : BOOLEAN,
             generation : Nat]
SlotType == [exists : BOOLEAN, published : BOOLEAN, entries : Seq(EntryType), complete : BOOLEAN,
             failed : BOOLEAN, shadows : BOOLEAN, generation : Nat, visible : BOOLEAN,
             hidden : BOOLEAN]
HeadType == [generation : Nat, selected : Id \cup {None}, position : Nat]
StoreType == [cell : [Id -> CellType], slot : [Id -> SlotType], head : [Id -> HeadType],
              members : [Id -> SUBSET (Id \X Nat)]]

\* What is declared: only the Writable declarations, which nobody owns, change.
Declared(st) ==
    \A id \in Id : /\ st.cell[id].rooted => st.cell[id].static # None
                   /\ Owner[id] # None => st.cell[id].static = Authored[id] /\ ~st.cell[id].rooted

\* An inventory has one place for each resource and none for its own producer.
OnePlace(p, entries) ==
    /\ \A i, j \in DOMAIN entries : entries[i].id = entries[j].id => i = j
    /\ \A i \in DOMAIN entries : entries[i].id # p

Inventories(st) ==
    \A p \in Id : /\ OnePlace(p, st.slot[p].entries)
                  /\ p \in Owners \/ st.slot[p].published \/ st.slot[p].hidden => st.slot[p].exists
                  /\ DOMAIN st.slot[p].entries # {} => st.slot[p].published

\* The reverse memberships are those of the inventories.
Mirrored(st) ==
    \A id \in Id : \A p \in Id : \A i \in Nat :
        <<p, i>> \in st.members[id] <=>
            i \in DOMAIN st.slot[p].entries /\ st.slot[p].entries[i].id = id

Consistent(st) == st \in StoreType /\ Declared(st) /\ Inventories(st) /\ Mirrored(st)

\* In force from scratch, as Declarations has it.
Anchored(st) == {id \in Id : st.cell[id].static # None /\ (st.cell[id].rooted \/ Owner[id] \in {None, id})}
Puts(st) == [q \in Id |-> reached(st, q)]
Alive(st) == Least(Anchored(st), Puts(st))

Declarers(st, id) == {p \in Id : \E i \in DOMAIN st.slot[p].entries : st.slot[p].entries[i].id = id}

\* What cell and slot of id say, if L is what is in force.
Shows(st, L, id) ==
    /\ st.slot[id].exists => (st.slot[id].visible <=> id \in L)
    /\ id \in L => ~st.slot[id].hidden /\ ~st.cell[id].hidden
    /\ id \notin L /\ (\E f \in Id : Owner[f] = id /\ st.cell[f].static # None) => st.slot[id].hidden
    /\ id \notin L => st.cell[id].hidden \/ (st.cell[id].static = None /\ Declarers(st, id) \cap L = {})
    /\ id \in L /\ Declarers(st, id) \cap L = {} => ~st.cell[id].retired \/ st.cell[id].rooted

Shown(st, L) == \A id \in Id : Shows(st, L, id)

LEMMA AnchoredType == ASSUME NEW st \in StoreType PROVE Anchored(st) \in SUBSET Id
  BY DEF Anchored

LEMMA IdsType ==
  ASSUME NEW st \in StoreType, NEW q \in Id
  PROVE  Ids(st.slot[q].entries) \in SUBSET Id
<1>1. st.slot[q].entries \in Seq(EntryType)
  BY DEF StoreType, SlotType
<1>2. ASSUME NEW i \in DOMAIN st.slot[q].entries PROVE st.slot[q].entries[i] \in EntryType
  BY <1>1, <1>2
<1>3. \A e \in EntryType : e.id \in Id
  BY DEF EntryType
<1>. QED BY <1>2, <1>3 DEF Ids

LEMMA PutsType == ASSUME NEW st \in StoreType PROVE Puts(st) \in [Id -> SUBSET Id]
  BY IdsType DEF Puts, reached, coverage

LEMMA AliveClosed ==
  ASSUME NEW st \in StoreType
  PROVE  /\ Alive(st) \subseteq Id /\ Anchored(st) \subseteq Alive(st)
         /\ \A q \in Alive(st) : reached(st, q) \subseteq Alive(st)
<1>1. \A q \in Id : Puts(st)[q] = reached(st, q)
  BY DEF Puts
<1>2. /\ Alive(st) \subseteq Id /\ Anchored(st) \subseteq Alive(st)
      /\ \A q \in Alive(st) : Puts(st)[q] \subseteq Alive(st)
  BY AnchoredType, PutsType, LeastIsClosed DEF Alive
<1>. QED BY <1>1, <1>2

LEMMA OwnerType == \A id \in Id : Owner[id] \in Id \cup {None} /\ None \notin Id
  BY PublicationAssumption DEF None

\* The seeds of a region, if outside of it the store shows what is in force there.
LEMMA Seeds ==
  ASSUME NEW st, Consistent(st), NEW R \in SUBSET Id, NEW L \in SUBSET Id,
         \A id \in Id \ R : Shows(st, L, id), NEW x \in R
  PROVE  x \in seedReachability(st, R) <=> x \in Anchored(st) \/ \E q \in L \ R : x \in Puts(st)[q]
<1> DEFINE p == Owner[x]
<1>1. st \in StoreType /\ x \in Id /\ p \in Id \cup {None} /\ None \notin Id
  BY OwnerType DEF Consistent
<1>2. staticAnchor(st, x, R, {}) <=>
         x \in Anchored(st) \/ (/\ st.cell[x].static # None /\ p \in Id \ R /\ p \in L
                                /\ ~st.slot[p].shadows)
  <2>1. ASSUME st.cell[x].static # None, p \in Id \ R PROVE ~st.slot[p].hidden <=> p \in L
    BY <1>1, <2>1 DEF Shows
  <2>. QED BY <1>1, <2>1 DEF staticAnchor, Anchored
<1>3. (\E m \in st.members[x] : m[1] \notin R /\ st.slot[m[1]].visible) <=>
         \E q \in L \ R : x \in Ids(st.slot[q].entries)
  <2>1. ASSUME NEW m \in st.members[x], m[1] \notin R, st.slot[m[1]].visible
        PROVE  m[1] \in L \ R /\ x \in Ids(st.slot[m[1]].entries)
    <3>1. m = <<m[1], m[2]>> /\ m[1] \in Id /\ m[2] \in Nat
      BY <1>1, <2>1 DEF StoreType
    <3>2. m[2] \in DOMAIN st.slot[m[1]].entries /\ st.slot[m[1]].entries[m[2]].id = x
      BY <1>1, <2>1, <3>1 DEF Consistent, Mirrored
    <3>3. st.slot[m[1]].exists
      BY <3>1, <3>2 DEF Consistent, Inventories
    <3>4. m[1] \in L
      BY <2>1, <3>1, <3>3 DEF Shows
    <3>. QED BY <2>1, <3>2, <3>4 DEF Ids
  <2>2. ASSUME NEW q \in L \ R, x \in Ids(st.slot[q].entries)
        PROVE  \E m \in st.members[x] : m[1] \notin R /\ st.slot[m[1]].visible
    <3>1. PICK i \in DOMAIN st.slot[q].entries : st.slot[q].entries[i].id = x
      BY <2>2 DEF Ids
    <3>2. i \in Nat /\ q \in Id
      <4>1. st.slot[q].entries \in Seq(EntryType)
        BY <1>1 DEF StoreType, SlotType
      <4>. QED BY <3>1, <4>1
    <3>3. <<q, i>> \in st.members[x]
      BY <1>1, <3>1, <3>2 DEF Consistent, Mirrored
    <3>4. st.slot[q].exists /\ st.slot[q].visible
      BY <3>1, <3>2 DEF Consistent, Inventories, Shows
    <3>. QED BY <2>2, <3>3, <3>4
  <2>. QED BY <2>1, <2>2
<1>4. \A q \in L \ R : x \in Puts(st)[q] <=>
         x \in Ids(st.slot[q].entries) \/ (st.cell[x].static # None /\ p = q /\ ~st.slot[q].shadows)
  BY <1>1 DEF Puts, reached, coverage
<1>5. x \in seedReachability(st, R) <=>
         \/ staticAnchor(st, x, R, {})
         \/ \E m \in st.members[x] : m[1] \notin R /\ st.slot[m[1]].visible
  BY DEF seedReachability
<1>. QED BY <1>1, <1>2, <1>3, <1>4, <1>5
-----------------------------------------------------------------------------
(* One id of a region.                                                     *)

LEMMA NoPlace == \A i : i \notin DOMAIN << >>
  OBVIOUS

LEMMA EntryFacts ==
  ASSUME NEW st \in StoreType, NEW p \in Id, NEW i \in DOMAIN st.slot[p].entries
  PROVE  /\ st.slot[p].entries[i] \in EntryType /\ i \in Nat
         /\ st.slot[p].entries[i].id \in Id /\ st.slot[p].entries[i].content \in Content
         /\ st.slot[p].entries[i].generation \in Nat
<1>1. st.slot[p].entries \in Seq(EntryType)
  BY DEF StoreType, SlotType
<1>2. st.slot[p].entries[i] \in EntryType /\ i \in Nat
  BY <1>1
<1>3. \A e \in EntryType : e.id \in Id /\ e.content \in Content /\ e.generation \in Nat
  BY DEF EntryType
<1>. QED BY <1>2, <1>3

LEMMA StampType ==
  ASSUME NEW st \in StoreType, NEW id \in Id
  PROVE  stamp(st, id) \in Nat /\ current(st, id) \in Nat
<1>1. /\ st.cell[id].generation \in Nat /\ st.head[id].generation \in Nat
      /\ st.head[id].selected \in Id \cup {None}
  BY DEF StoreType, CellType, HeadType
<1>2. stamp(st, id) \in Nat
  <2>1. CASE st.head[id].selected = None
    BY <1>1, <2>1, NoPlace, Zenon DEF stamp
  <2>2. CASE st.head[id].selected # None
    <3>1. st.head[id].selected \in Id
      BY <1>1, <2>2
    <3>. QED BY <1>1, <2>2, <3>1, EntryFacts DEF stamp, larger
  <2>. QED BY <2>1, <2>2
<1>. QED BY <1>1, <1>2 DEF current, larger

LEMMA AdvanceFields ==
  ASSUME NEW st \in StoreType, NEW id \in Id
  PROVE  LET next == advance(st, id) IN
         /\ next \in StoreType /\ next.slot = st.slot /\ next.members = st.members
         /\ next.cell = [st.cell EXCEPT ![id].generation = current(st, id) + 1]
         /\ \A x \in Id : x # id => next.head[x] = st.head[x]
         /\ next.head[id].selected = st.head[id].selected
         /\ next.head[id].position = st.head[id].position
         /\ next.head[id].generation = IF registered(st, id) THEN current(st, id) + 1
                                       ELSE st.head[id].generation
<1> DEFINE g == current(st, id) + 1
           h == IF registered(st, id) THEN g ELSE st.head[id].generation
<1>1. g \in Nat /\ st.head[id].generation \in Nat
  BY StampType DEF StoreType, HeadType
<1>2. h \in Nat
  BY <1>1
<1>3. advance(st, id) = [st EXCEPT !.cell[id].generation = g, !.head[id].generation = h]
  BY DEF advance
<1> HIDE DEF g, h
<1>4. [st EXCEPT !.cell[id].generation = g, !.head[id].generation = h] \in StoreType
  <2>1. st.cell \in [Id -> CellType] /\ st.head \in [Id -> HeadType]
    BY DEF StoreType
  <2>2. [st.cell[id] EXCEPT !.generation = g] \in CellType
    BY <1>1, <2>1 DEF CellType
  <2>3. [st.head[id] EXCEPT !.generation = h] \in HeadType
    BY <1>2, <2>1 DEF HeadType
  <2>4. /\ [st.cell EXCEPT ![id].generation = g] \in [Id -> CellType]
        /\ [st.head EXCEPT ![id].generation = h] \in [Id -> HeadType]
    BY <2>1, <2>2, <2>3
  <2>. QED BY <2>4 DEF StoreType
<1>. QED BY <1>3, <1>4 DEF StoreType, CellType, HeadType, g, h

LEMMA GreatestNumber ==
  ASSUME NEW S \in SUBSET Nat, IsFiniteSet(S), S # {}
  PROVE  \E m \in S : \A n \in S : n <= m
<1> DEFINE f == inOrder(S)
           c == Cardinality(S)
<1>1. Increasing(f, S) /\ c \in Nat
  BY InOrder, FS_CardinalityType
<1> HIDE DEF f
<1>2. c # 0
  BY FS_EmptySet
<1>3. c \in 1 .. c /\ f[c] \in S
  BY <1>1, <1>2 DEF Increasing
<1>4. ASSUME NEW n \in S PROVE n <= f[c]
  <2>1. PICK i \in 1 .. c : f[i] = n
    BY <1>1 DEF Increasing
  <2>2. i = c \/ i < c
    BY <1>1, <2>1
  <2>3. DOMAIN f = 1 .. c
    BY <1>1 DEF Increasing
  <2>4. i < c => f[i] < f[c]
    BY <1>1, <1>3, <2>3 DEF Increasing
  <2>5. n \in Nat /\ f[c] \in Nat
    BY <1>3
  <2> HIDE DEF c
  <2>. QED BY <2>1, <2>2, <2>4, <2>5
<1>. QED BY <1>3, <1>4

Showing(st, id) == {p \in Declarers(st, id) : st.slot[p].visible}

LEMMA CaptureFacts ==
  ASSUME NEW st \in StoreType, Mirrored(st), NEW id \in Id
  PROVE  LET c == st.cell[id]
             v == capture(st, id)
         IN /\ v.content \in Content \cup {None} /\ v.owner \in Id \cup {None} /\ v.position \in Nat
            /\ c.hidden => v.content = None /\ v.owner = None
            /\ ~c.hidden /\ (c.rooted \/ Showing(st, id) = {}) =>
                  v.owner = None /\ v.content = IF c.retired /\ ~c.rooted THEN None ELSE c.static
            /\ ~c.hidden /\ ~c.rooted /\ Showing(st, id) # {} =>
                  /\ v.owner \in Showing(st, id) /\ \A q \in Showing(st, id) : q <= v.owner
                  /\ v.position \in DOMAIN st.slot[v.owner].entries
                  /\ st.slot[v.owner].entries[v.position].id = id
                  /\ v.content = st.slot[v.owner].entries[v.position].content
<1> DEFINE c == st.cell[id]
           v == capture(st, id)
           found == captureMembers(st, id)
           greatest(m) == m \in found /\ \A n \in found : n[1] <= m[1]
<1>1. c \in CellType /\ c.static \in Content \cup {None}
  BY DEF StoreType, CellType
<1>2. ASSUME NEW m \in found
      PROVE  /\ m = <<m[1], m[2]>> /\ m[1] \in Id /\ m[1] \in Showing(st, id)
             /\ m[2] \in DOMAIN st.slot[m[1]].entries /\ st.slot[m[1]].entries[m[2]].id = id
  <2>1. m \in st.members[id] /\ st.slot[m[1]].visible
    BY <1>2 DEF captureMembers
  <2>2. m = <<m[1], m[2]>> /\ m[1] \in Id /\ m[2] \in Nat
    BY <2>1 DEF StoreType
  <2>3. m[2] \in DOMAIN st.slot[m[1]].entries /\ st.slot[m[1]].entries[m[2]].id = id
    BY <2>1, <2>2 DEF Mirrored
  <2>. QED BY <2>1, <2>2, <2>3 DEF Showing, Declarers
<1>3. ASSUME NEW p \in Showing(st, id) PROVE \E m \in found : m[1] = p
  <2>1. PICK i \in DOMAIN st.slot[p].entries : st.slot[p].entries[i].id = id
    BY <1>3 DEF Showing, Declarers
  <2>2. p \in Id /\ i \in Nat /\ st.slot[p].visible
    BY <1>3, <2>1, EntryFacts DEF Showing, Declarers
  <2>3. <<p, i>> \in st.members[id]
    BY <2>1, <2>2 DEF Mirrored
  <2>. QED BY <2>2, <2>3 DEF captureMembers
<1>4. found # {} => \E m : greatest(m)
  <2> SUFFICES ASSUME found # {} PROVE \E m : greatest(m)
    OBVIOUS
  <2> DEFINE S == {m[1] : m \in found}
  <2>1. S \subseteq Id /\ Id \subseteq Nat /\ S # {} /\ IsFiniteSet(Id)
    BY <1>2, PublicationAssumption
  <2>2. IsFiniteSet(S)
    BY <2>1, FS_Subset
  <2>3. PICK x \in S : \A n \in S : n <= x
    BY <2>1, <2>2, GreatestNumber
  <2>4. PICK m \in found : m[1] = x
    BY <2>3
  <2>. QED BY <2>3, <2>4
<1>5. found = {} <=> Showing(st, id) = {}
  BY <1>2, <1>3
<1>6. CASE c.hidden
  <2>1. v = [content |-> None, owner |-> None, position |-> 0]
    BY <1>6 DEF capture
  <2>. QED BY <1>6, <2>1
<1>7. CASE ~c.hidden /\ (c.rooted \/ Showing(st, id) = {})
  <2>1. v = [content |-> IF c.retired /\ ~c.rooted THEN None ELSE c.static, owner |-> None,
             position |-> 0]
    BY <1>5, <1>7, Zenon DEF capture
  <2>. QED BY <1>1, <1>7, <2>1
<1>8. CASE ~c.hidden /\ ~c.rooted /\ Showing(st, id) # {}
  <2> DEFINE m == CHOOSE m \in found : \A n \in found : n[1] <= m[1]
  <2>1. greatest(m)
    BY <1>4, <1>5, <1>8
  <2>2. v = [content |-> st.slot[m[1]].entries[m[2]].content, owner |-> m[1], position |-> m[2]]
    BY <1>5, <1>8, Zenon DEF capture
  <2> HIDE DEF m
  <2>3. /\ m[1] \in Id /\ m[1] \in Showing(st, id) /\ m[2] \in DOMAIN st.slot[m[1]].entries
        /\ st.slot[m[1]].entries[m[2]].id = id
    BY <1>2, <2>1
  <2>4. st.slot[m[1]].entries[m[2]].content \in Content /\ m[2] \in Nat
    BY <2>3, EntryFacts
  <2>5. \A q \in Showing(st, id) : q <= m[1]
    BY <1>3, <2>1
  <2> HIDE DEF v, found
  <2>6. /\ v.content = st.slot[m[1]].entries[m[2]].content /\ v.owner = m[1] /\ v.position = m[2]
    BY <2>2
  <2>. QED BY <1>8, <2>3, <2>4, <2>5, <2>6 DEF v
<1>. QED BY <1>6, <1>7, <1>8

LEMMA SelectFields ==
  ASSUME NEW st \in StoreType, Mirrored(st), NEW id \in Id
  PROVE  LET next == selectRegionHead(st, id)
             v    == capture(st, id)
         IN /\ next \in StoreType /\ next.cell = st.cell /\ next.slot = st.slot
            /\ next.members = st.members
            /\ \A x \in Id : x # id => next.head[x] = st.head[x]
            /\ next.head[id].selected = v.owner
            /\ v.owner # None => next.head[id].position = v.position
            /\ next.head[id].generation \in {st.head[id].generation, current(st, id)}
            /\ next.head[id] # st.head[id] => next.head[id].generation = current(st, id)
<1> DEFINE v == capture(st, id)
           h == st.head[id]
           k == [generation |-> larger(st.cell[id].generation, stamp(st, id)), selected |-> v.owner,
                 position |-> IF v.owner = None THEN h.position ELSE v.position]
<1>1. v.owner \in Id \cup {None} /\ v.position \in Nat
  BY CaptureFacts
<1>2. st.head \in [Id -> HeadType] /\ h \in HeadType
  BY DEF StoreType
<1>3. current(st, id) \in Nat /\ current(st, id) = larger(st.cell[id].generation, stamp(st, id))
  BY StampType DEF current
<1>4. CASE h.selected # v.owner \/ (v.owner # None /\ h.position # v.position)
  <2>1. selectRegionHead(st, id) = [st EXCEPT !.head[id] = k]
    BY <1>4 DEF selectRegionHead
  <2> HIDE DEF v
  <2>2. k \in HeadType /\ k.generation = current(st, id) /\ k.selected = v.owner
        /\ (v.owner # None => k.position = v.position)
    BY <1>1, <1>2, <1>3 DEF HeadType
  <2> HIDE DEF k
  <2>. QED BY <1>2, <2>1, <2>2 DEF StoreType, v
<1>5. CASE ~(h.selected # v.owner \/ (v.owner # None /\ h.position # v.position))
  <2>1. selectRegionHead(st, id) = st
    BY <1>5 DEF selectRegionHead
  <2>. QED BY <1>5, <2>1
<1>. QED BY <1>4, <1>5

Known(st, before, id) == larger(st.cell[id].generation, current(before, id))

NewCell(st, before, R, live, id) ==
    [st.cell[id] EXCEPT !.generation = Known(st, before, id), !.hidden = id \notin live,
                        !.retired = ~staticAnchor(st, id, R, live)]

NewStore(st, before, R, live, id) == [st EXCEPT !.cell[id] = NewCell(st, before, R, live, id)]

Skips(st, before, id) ==
    Known(st, before, id) = 0 /\ st.cell[id].static = None /\ st.members[id] = {} /\ ~st.slot[id].exists

\* The cases in which publishRegionObject gives the object another generation.
Moves(st, before, R, live, direct, id) ==
    LET was == capture(before, id)
        now == capture(NewStore(st, before, R, live, id), id)
        c   == NewCell(st, before, R, live, id)
        old == before.cell[id]
    IN \/ id \in direct
       \/ was.owner # now.owner \/ was.content # now.content
       \/ (c.rooted # old.rooted /\ old.static = None)
       \/ c.retired # old.retired \/ c.hidden # old.hidden

LEMMA ObjectParts ==
  ASSUME NEW st \in StoreType, NEW before, NEW R, NEW live, NEW direct, NEW id \in Id
  PROVE  LET next == NewStore(st, before, R, live, id) IN
         publishRegionObject(st, before, R, live, direct, id) =
             IF Skips(st, before, id) THEN st
             ELSE selectRegionHead(IF Moves(st, before, R, live, direct, id)
                                   THEN advance(next, id) ELSE next, id)
<1>1. NewCell(st, before, R, live, id).static = st.cell[id].static
  BY DEF NewCell, StoreType, CellType
<1>. QED BY <1>1 DEF publishRegionObject, NewStore, NewCell, Known, Skips, Moves

LEMMA NewCellType ==
  ASSUME NEW st \in StoreType, NEW before \in StoreType, NEW R, NEW live, NEW id \in Id
  PROVE  LET c == NewCell(st, before, R, live, id) IN
         /\ c \in CellType /\ c.static = st.cell[id].static /\ c.rooted = st.cell[id].rooted
         /\ c.generation = Known(st, before, id)
         /\ c.hidden <=> id \notin live
         /\ c.retired <=> ~staticAnchor(st, id, R, live)
<1> DEFINE g == Known(st, before, id)
<1>1. g \in Nat
  BY StampType DEF Known, larger, StoreType, CellType
<1>2. PICK h \in BOOLEAN : h = (id \notin live)
  OBVIOUS
<1>3. staticAnchor(st, id, R, live) \in BOOLEAN
  BY DEF staticAnchor
<1>4. PICK r \in BOOLEAN : r = ~staticAnchor(st, id, R, live)
  BY <1>3
<1>5. NewCell(st, before, R, live, id) = [st.cell[id] EXCEPT !.generation = g, !.hidden = h, !.retired = r]
  BY <1>2, <1>4 DEF NewCell
<1> HIDE DEF g
<1>6. st.cell[id] \in CellType
  BY DEF StoreType
<1>. QED BY <1>1, <1>2, <1>4, <1>5, <1>6 DEF CellType, g

LEMMA MirroredSame ==
  ASSUME NEW st, NEW next, \A p \in Id : next.slot[p].entries = st.slot[p].entries,
         next.members = st.members, Mirrored(st)
  PROVE  Mirrored(next)
<1> SUFFICES ASSUME NEW id \in Id, NEW p \in Id, NEW i \in Nat
             PROVE  <<p, i>> \in next.members[id] <=>
                       i \in DOMAIN next.slot[p].entries /\ next.slot[p].entries[i].id = id
  BY DEF Mirrored
<1>1. <<p, i>> \in st.members[id] <=> i \in DOMAIN st.slot[p].entries /\ st.slot[p].entries[i].id = id
  BY DEF Mirrored
<1>. QED BY <1>1

LEMMA NewStoreType ==
  ASSUME NEW st \in StoreType, Mirrored(st), NEW before \in StoreType, NEW R, NEW live, NEW id \in Id
  PROVE  LET next == NewStore(st, before, R, live, id) IN
         /\ next \in StoreType /\ Mirrored(next)
         /\ next.slot = st.slot /\ next.members = st.members /\ next.head = st.head
         /\ next.cell[id] = NewCell(st, before, R, live, id)
<1>1. NewCell(st, before, R, live, id) \in CellType
  BY NewCellType
<1>2. /\ NewStore(st, before, R, live, id) \in StoreType
      /\ NewStore(st, before, R, live, id).slot = st.slot
      /\ NewStore(st, before, R, live, id).members = st.members
      /\ NewStore(st, before, R, live, id).head = st.head
      /\ NewStore(st, before, R, live, id).cell[id] = NewCell(st, before, R, live, id)
  BY <1>1 DEF NewStore, StoreType
<1>3. Mirrored(NewStore(st, before, R, live, id))
  BY <1>2, MirroredSame
<1>. QED BY <1>2, <1>3

\* The captured object does not depend on generations and heads.
LEMMA CaptureSame ==
  ASSUME NEW st, NEW next, NEW id \in Id, next.slot = st.slot, next.members = st.members,
         next.cell[id].static = st.cell[id].static, next.cell[id].rooted = st.cell[id].rooted,
         next.cell[id].retired = st.cell[id].retired, next.cell[id].hidden = st.cell[id].hidden
  PROVE  capture(next, id) = capture(st, id)
  BY DEF capture, captureMembers

LEMMA ObjectFields ==
  ASSUME NEW st \in StoreType, Mirrored(st), NEW before \in StoreType,
         NEW R, NEW live, NEW direct, NEW id \in Id
  PROVE  LET done == publishRegionObject(st, before, R, live, direct, id)
             c    == NewCell(st, before, R, live, id)
             next == NewStore(st, before, R, live, id)
             v    == capture(next, id)
         IN /\ done \in StoreType /\ done.slot = st.slot /\ done.members = st.members
            /\ Skips(st, before, id) => done = st
            /\ ~Skips(st, before, id) =>
                  /\ done.cell[id] = [c EXCEPT !.generation =
                        IF Moves(st, before, R, live, direct, id) THEN current(next, id) + 1 ELSE @]
                  /\ done.head[id].selected = v.owner
                  /\ v.owner # None => done.head[id].position = v.position
<1> DEFINE done == publishRegionObject(st, before, R, live, direct, id)
           c    == NewCell(st, before, R, live, id)
           next == NewStore(st, before, R, live, id)
           moves == Moves(st, before, R, live, direct, id)
           mid  == IF moves THEN advance(next, id) ELSE next
<1>1. /\ next \in StoreType /\ Mirrored(next) /\ next.slot = st.slot /\ next.members = st.members
      /\ next.head = st.head /\ next.cell[id] = c /\ c \in CellType
  BY NewStoreType, NewCellType
<1>2. done = IF Skips(st, before, id) THEN st ELSE selectRegionHead(mid, id)
  BY ObjectParts
<1> HIDE DEF next, c, done, moves
<1>3. /\ mid \in StoreType /\ mid.slot = st.slot /\ mid.members = st.members
      /\ mid.cell[id] = [c EXCEPT !.generation = IF moves THEN current(next, id) + 1 ELSE @]
  <2>1. CASE moves
    <3>1. /\ mid \in StoreType /\ mid.slot = next.slot /\ mid.members = next.members
          /\ mid.cell = [next.cell EXCEPT ![id].generation = current(next, id) + 1]
      BY <1>1, <2>1, AdvanceFields
    <3>. QED BY <1>1, <2>1, <3>1 DEF StoreType, CellType
  <2>2. CASE ~moves
    BY <1>1, <2>2 DEF CellType
  <2>. QED BY <2>1, <2>2
<1>4. capture(mid, id) = capture(next, id)
  <2>1. /\ mid.cell[id].static = c.static /\ mid.cell[id].rooted = c.rooted
        /\ mid.cell[id].retired = c.retired /\ mid.cell[id].hidden = c.hidden
    BY <1>1, <1>3 DEF CellType
  <2> HIDE DEF mid
  <2>2. /\ mid.slot = next.slot /\ mid.members = next.members
        /\ mid.cell[id].static = next.cell[id].static /\ mid.cell[id].rooted = next.cell[id].rooted
        /\ mid.cell[id].retired = next.cell[id].retired /\ mid.cell[id].hidden = next.cell[id].hidden
    BY <1>1, <1>3, <2>1
  <2>. QED BY <2>2, CaptureSame
<1>5. Mirrored(mid)
  <2> HIDE DEF mid
  <2>. QED BY <1>1, <1>3, MirroredSame
<1> HIDE DEF mid
<1>6. CASE Skips(st, before, id)
  BY <1>2, <1>6 DEF done
<1>7. CASE ~Skips(st, before, id)
  <2> DEFINE sel == selectRegionHead(mid, id)
             v   == capture(mid, id)
  <2>1. /\ sel \in StoreType /\ sel.cell = mid.cell /\ sel.slot = mid.slot
        /\ sel.members = mid.members /\ sel.head[id].selected = v.owner
        /\ v.owner # None => sel.head[id].position = v.position
    BY <1>3, <1>5, SelectFields
  <2>2. done = sel
    BY <1>2, <1>7
  <2> HIDE DEF sel
  <2>. QED BY <1>3, <1>4, <1>7, <2>1, <2>2 DEF done, c, next, moves
<1>. QED BY <1>6, <1>7
-----------------------------------------------------------------------------
(* A region.                                                               *)

VisibleStore(st, before, R, live) == [st EXCEPT !.slot = publishRegionVisibility(st, before, R, live)]

\* Producers of the region show what is live, and nothing else of them changes.
LEMMA VisibleFields ==
  ASSUME NEW st \in StoreType, NEW before, NEW R, NEW live
  PROVE  LET shown == VisibleStore(st, before, R, live) IN
         /\ shown \in StoreType /\ shown.cell = st.cell /\ shown.head = st.head
         /\ shown.members = st.members
         /\ \A p \in Id :
              /\ shown.slot[p].entries = st.slot[p].entries
              /\ shown.slot[p].exists = st.slot[p].exists
              /\ shown.slot[p].published = st.slot[p].published
              /\ shown.slot[p].shadows = st.slot[p].shadows
              /\ p \notin R \/ ~st.slot[p].exists => shown.slot[p] = st.slot[p]
              /\ p \in R /\ st.slot[p].exists =>
                    /\ shown.slot[p].visible <=> p \in live
                    /\ shown.slot[p].hidden <=> p \notin live
                    /\ shown.slot[p].generation =
                         IF /\ st.slot[p].published
                            /\ st.slot[p].visible # (p \in live) \/ st.slot[p].hidden = (p \in live)
                            /\ st.slot[p].generation = before.slot[p].generation
                         THEN st.slot[p].generation + 1 ELSE st.slot[p].generation
<1> DEFINE f == publishRegionVisibility(st, before, R, live)
<1>1. ASSUME NEW p \in Id
      PROVE  /\ f[p] \in SlotType
             /\ f[p].entries = st.slot[p].entries /\ f[p].exists = st.slot[p].exists
             /\ f[p].published = st.slot[p].published /\ f[p].shadows = st.slot[p].shadows
             /\ p \notin R \/ ~st.slot[p].exists => f[p] = st.slot[p]
             /\ p \in R /\ st.slot[p].exists =>
                   /\ f[p].visible <=> p \in live
                   /\ f[p].hidden <=> p \notin live
                   /\ f[p].generation =
                         IF /\ st.slot[p].published
                            /\ st.slot[p].visible # (p \in live) \/ st.slot[p].hidden = (p \in live)
                            /\ st.slot[p].generation = before.slot[p].generation
                         THEN st.slot[p].generation + 1 ELSE st.slot[p].generation
  <2> DEFINE s == st.slot[p]
             g == IF /\ s.published
                     /\ s.visible # (p \in live) \/ s.hidden = (p \in live)
                     /\ s.generation = before.slot[p].generation
                  THEN s.generation + 1 ELSE s.generation
  <2>1. s \in SlotType
    BY DEF StoreType
  <2>2. g \in Nat
    BY <2>1 DEF SlotType
  <2>3. PICK v \in BOOLEAN : v = (p \in live)
    BY (p \in live) \in BOOLEAN
  <2>4. PICK h \in BOOLEAN : h = (p \notin live)
    BY (p \notin live) \in BOOLEAN
  <2>5. CASE p \notin R \/ ~s.exists
    <3>1. f[p] = s
      BY <2>5 DEF publishRegionVisibility
    <3>. QED BY <2>1, <2>5, <3>1
  <2>6. CASE p \in R /\ s.exists
    <3>1. f[p] = [s EXCEPT !.visible = v, !.hidden = h, !.generation = g]
      BY <2>3, <2>4, <2>6 DEF publishRegionVisibility
    <3> HIDE DEF g, f
    <3>3. /\ f[p] \in SlotType /\ f[p].visible = v /\ f[p].hidden = h /\ f[p].generation = g
          /\ f[p].entries = s.entries /\ f[p].exists = s.exists /\ f[p].published = s.published
          /\ f[p].shadows = s.shadows
      BY <2>1, <2>2, <3>1 DEF SlotType
    <3>. QED BY <2>3, <2>4, <2>6, <3>3 DEF g
  <2>. QED BY <2>5, <2>6
<1>2. f = [p \in Id |-> f[p]]
  BY DEF publishRegionVisibility
<1> HIDE DEF f
<1>3. f \in [Id -> SlotType]
  BY <1>1, <1>2
<1>4. /\ VisibleStore(st, before, R, live) \in StoreType
      /\ VisibleStore(st, before, R, live).slot = f
      /\ VisibleStore(st, before, R, live).cell = st.cell
      /\ VisibleStore(st, before, R, live).head = st.head
      /\ VisibleStore(st, before, R, live).members = st.members
  BY <1>3 DEF VisibleStore, StoreType, f
<1>. QED BY <1>1, <1>4

LEMMA RegionParts ==
  ASSUME NEW st \in StoreType, Mirrored(st), NEW before \in StoreType, NEW R \in SUBSET Id, NEW direct
  PROVE  LET live  == propagateReachability(st, R)
             shown == VisibleStore(st, before, R, live)
             done(id) == publishRegionObject(shown, before, R, live, direct, id)
             after == reachability(st, before, R, direct)
         IN /\ after \in StoreType /\ after.slot = shown.slot /\ after.members = st.members
            /\ \A id \in Id : /\ after.cell[id] = IF id \in R THEN done(id).cell[id] ELSE st.cell[id]
                              /\ after.head[id] = IF id \in R THEN done(id).head[id] ELSE st.head[id]
<1> DEFINE live  == propagateReachability(st, R)
           shown == VisibleStore(st, before, R, live)
           done(id) == publishRegionObject(shown, before, R, live, direct, id)
           c == [id \in Id |-> IF id \in R THEN done(id).cell[id] ELSE st.cell[id]]
           h == [id \in Id |-> IF id \in R THEN done(id).head[id] ELSE st.head[id]]
           after == reachability(st, before, R, direct)
<1>1. /\ shown \in StoreType /\ shown.cell = st.cell /\ shown.head = st.head
      /\ shown.members = st.members /\ \A p \in Id : shown.slot[p].entries = st.slot[p].entries
  BY VisibleFields
<1> HIDE DEF live
<1>2. Mirrored(shown)
  <2> HIDE DEF shown
  <2>. QED BY <1>1, MirroredSame
<1>3. after = [shown EXCEPT !.cell = c, !.head = h]
  <2>1. \A id \in R : id \in Id
    OBVIOUS
  <2>. QED BY <1>1, <2>1 DEF reachability, live, VisibleStore
<1> HIDE DEF shown
<1>4. \A id \in Id : done(id) \in StoreType
  BY <1>1, <1>2, ObjectFields
<1> HIDE DEF done
<1>5. c \in [Id -> CellType] /\ h \in [Id -> HeadType]
  BY <1>4 DEF StoreType
<1>6. after \in StoreType /\ after.slot = shown.slot /\ after.members = st.members
      /\ after.cell = c /\ after.head = h
  <2> HIDE DEF c, h, after
  <2>. QED BY <1>1, <1>3, <1>5 DEF StoreType
<1>. QED BY <1>6 DEF live, shown, done

\* What is in force has a reason.
LEMMA AliveSupported ==
  ASSUME NEW st \in StoreType, NEW id \in Alive(st)
  PROVE  id \in Anchored(st) \/ \E q \in Alive(st) : id \in reached(st, q)
<1> SUFFICES ASSUME id \notin Anchored(st), \A q \in Alive(st) : id \notin reached(st, q) PROVE FALSE
  OBVIOUS
<1> DEFINE L == Alive(st) \ {id}
<1>1. L \in SUBSET Id /\ Anchored(st) \subseteq L
  BY AliveClosed
<1>2. \A q \in L : Puts(st)[q] \subseteq L
  BY AliveClosed DEF Puts
<1> HIDE DEF L
<1>3. Least(Anchored(st), Puts(st)) \subseteq L
  BY <1>1, <1>2, LeastIsLeast
<1>. QED BY <1>3 DEF Alive, L

LEMMA AliveSame ==
  ASSUME NEW st, NEW next,
         \A id \in Id : /\ next.cell[id].static = st.cell[id].static
                        /\ next.cell[id].rooted = st.cell[id].rooted
                        /\ Ids(next.slot[id].entries) = Ids(st.slot[id].entries)
                        /\ next.slot[id].shadows = st.slot[id].shadows
  PROVE  Alive(next) = Alive(st)
<1>1. Anchored(next) = Anchored(st)
  BY DEF Anchored
<1>2. ASSUME NEW q \in Id PROVE reached(next, q) = reached(st, q)
  <2>1. \A f \in coverage(q) : f \in Id
    BY DEF coverage
  <2>. QED BY <2>1 DEF reached
<1>3. Puts(next) = Puts(st)
  BY <1>2 DEF Puts
<1>. QED BY <1>1, <1>3 DEF Alive

\* The region worked out for a change is all that has to be worked out.
LEMMA RegionAlive ==
  ASSUME NEW before, Consistent(before), NEW st, Consistent(st), NEW R \in SUBSET Id,
         \A id \in Id \ R : Shows(st, Alive(before), id),
         \A q \in R : reached(before, q) \subseteq R /\ reached(st, q) \subseteq R,
         Anchored(before) \ R = Anchored(st) \ R,
         \A q \in Id : reached(before, q) \ R = reached(st, q) \ R
  PROVE  /\ Alive(st) \ R = Alive(before) \ R
         /\ Alive(st) \cap R = propagateReachability(st, R)
<1> DEFINE A == Anchored(before)
           P == Puts(before)
           B == Anchored(st)
           Q == Puts(st)
           S == seedReachability(st, R)
<1>1. before \in StoreType /\ st \in StoreType
  BY DEF Consistent
<1>2. /\ A \in SUBSET Id /\ B \in SUBSET Id /\ P \in [Id -> SUBSET Id] /\ Q \in [Id -> SUBSET Id]
      /\ \A q \in Id : P[q] = reached(before, q) /\ Q[q] = reached(st, q)
      /\ S \in SUBSET R
  <2>1. A \in SUBSET Id /\ B \in SUBSET Id /\ P \in [Id -> SUBSET Id] /\ Q \in [Id -> SUBSET Id]
    BY <1>1, AnchoredType, PutsType
  <2>2. \A q \in Id : P[q] = reached(before, q) /\ Q[q] = reached(st, q)
    BY DEF Puts
  <2>3. S \in SUBSET R
    BY DEF seedReachability
  <2>. QED BY <2>1, <2>2, <2>3
<1>3. Alive(before) \in SUBSET Id /\ Alive(before) = Least(A, P) /\ Alive(st) = Least(B, Q)
  BY <1>1, AliveClosed DEF Alive
<1>4. \A x \in R : x \in S <=> x \in B \/ \E q \in Alive(before) \ R : x \in Q[q]
  <2> SUFFICES ASSUME NEW x \in R
               PROVE  x \in S <=> x \in B \/ \E q \in Alive(before) \ R : x \in Q[q]
    OBVIOUS
  <2> HIDE DEF A, P
  <2>. QED BY <1>3, Seeds
<1>5. Within(R, S, Q) = propagateReachability(st, R)
  <2>1. \A L \in SUBSET R : \A q \in L : Q[q] = reached(st, q)
    BY <1>2
  <2>. QED BY <2>1 DEF Within, propagateReachability
<1>6. A \ R = B \ R /\ \A q \in R : P[q] \subseteq R /\ Q[q] \subseteq R
  BY <1>2
<1>7. \A q \in Id : P[q] \ R = Q[q] \ R
  BY <1>2
<1> HIDE DEF A, B, P, Q, S
<1>8. \A x \in R : x \in S <=> x \in B \/ \E q \in Least(A, P) \ R : x \in Q[q]
  BY <1>3, <1>4
<1>9. Least(B, Q) \ R = Least(A, P) \ R /\ Least(B, Q) \cap R = Within(R, S, Q)
  <2>1. Regional(A, P, B, Q, R, S)
    BY <1>2, <1>6, <1>7, <1>8 DEF Regional
  <2>. QED BY <2>1, RegionIsEnough
<1>. QED BY <1>3, <1>5, <1>9

\* What publishing a region does to its producers and cells.
LEMMA RegionFields ==
  ASSUME NEW st \in StoreType, Mirrored(st), NEW before \in StoreType, NEW R \in SUBSET Id, NEW direct
  PROVE  LET live  == propagateReachability(st, R)
             after == reachability(st, before, R, direct)
         IN /\ after \in StoreType /\ after.members = st.members
            /\ \A id \in Id :
                 /\ after.slot[id].entries = st.slot[id].entries
                 /\ after.slot[id].exists = st.slot[id].exists
                 /\ after.slot[id].published = st.slot[id].published
                 /\ after.slot[id].shadows = st.slot[id].shadows
                 /\ after.cell[id].static = st.cell[id].static
                 /\ after.cell[id].rooted = st.cell[id].rooted
                 /\ id \notin R => after.slot[id] = st.slot[id] /\ after.cell[id] = st.cell[id]
                 /\ ~st.slot[id].exists => after.slot[id] = st.slot[id]
                 /\ id \in R /\ st.slot[id].exists =>
                       (after.slot[id].visible <=> id \in live) /\ (after.slot[id].hidden <=> id \notin live)
                 /\ id \in R =>
                       \/ st.cell[id].static = None /\ st.members[id] = {} /\ ~st.slot[id].exists
                       \/ /\ after.cell[id].hidden <=> id \notin live
                          /\ after.cell[id].retired <=> ~staticAnchor(st, id, R, live)
<1> DEFINE live  == propagateReachability(st, R)
           shown == VisibleStore(st, before, R, live)
           done(id) == publishRegionObject(shown, before, R, live, direct, id)
           after == reachability(st, before, R, direct)
<1>1. /\ after \in StoreType /\ after.slot = shown.slot /\ after.members = st.members
      /\ \A id \in Id : after.cell[id] = IF id \in R THEN done(id).cell[id] ELSE st.cell[id]
  BY RegionParts
<1>2. /\ shown \in StoreType /\ shown.cell = st.cell /\ shown.members = st.members
      /\ \A p \in Id :
           /\ shown.slot[p].entries = st.slot[p].entries /\ shown.slot[p].exists = st.slot[p].exists
           /\ shown.slot[p].published = st.slot[p].published /\ shown.slot[p].shadows = st.slot[p].shadows
           /\ p \notin R \/ ~st.slot[p].exists => shown.slot[p] = st.slot[p]
           /\ p \in R /\ st.slot[p].exists =>
                 (shown.slot[p].visible <=> p \in live) /\ (shown.slot[p].hidden <=> p \notin live)
  BY VisibleFields
<1> HIDE DEF live, shown, after
<1>3. Mirrored(shown)
  BY <1>2, MirroredSame
<1>4. ASSUME NEW id \in Id PROVE staticAnchor(shown, id, R, live) <=> staticAnchor(st, id, R, live)
  <2>1. CASE Owner[id] \in Id
    BY <1>2, <2>1 DEF staticAnchor
  <2>2. CASE Owner[id] = None
    BY <1>2, <2>2 DEF staticAnchor
  <2>. QED BY <2>1, <2>2, OwnerType
<1>5. ASSUME NEW id \in R
      PROVE  /\ done(id).cell[id].static = st.cell[id].static
             /\ done(id).cell[id].rooted = st.cell[id].rooted
             /\ \/ st.cell[id].static = None /\ st.members[id] = {} /\ ~st.slot[id].exists
                \/ /\ done(id).cell[id].hidden <=> id \notin live
                   /\ done(id).cell[id].retired <=> ~staticAnchor(st, id, R, live)
  <2> DEFINE c == NewCell(shown, before, R, live, id)
             g == current(NewStore(shown, before, R, live, id), id) + 1
  <2>1. id \in Id
    OBVIOUS
  <2>2. /\ c \in CellType /\ c.static = st.cell[id].static /\ c.rooted = st.cell[id].rooted
        /\ c.hidden <=> id \notin live
        /\ c.retired <=> ~staticAnchor(st, id, R, live)
    BY <1>2, <1>4, <2>1, NewCellType
  <2>3. CASE Skips(shown, before, id)
    <3>1. done(id) = shown
      BY <1>2, <2>1, <2>3, ObjectParts
    <3>. QED BY <1>2, <2>1, <2>3, <3>1 DEF Skips
  <2>4. CASE ~Skips(shown, before, id)
    <3>1. done(id).cell[id] = [c EXCEPT !.generation = IF Moves(shown, before, R, live, direct, id)
                                                        THEN g ELSE @]
      BY <1>2, <1>3, <2>1, <2>4, ObjectFields
    <3> HIDE DEF c, g
    <3>2. /\ done(id).cell[id].static = c.static /\ done(id).cell[id].rooted = c.rooted
          /\ done(id).cell[id].hidden = c.hidden /\ done(id).cell[id].retired = c.retired
      BY <2>2, <3>1 DEF CellType
    <3>. QED BY <2>2, <3>2
  <2>. QED BY <2>3, <2>4
<1> HIDE DEF done
<1>. QED BY <1>1, <1>2, <1>5 DEF live, after

LEMMA DeclarersMembers ==
  ASSUME NEW st, Consistent(st), NEW id \in Id, NEW p \in Declarers(st, id)
  PROVE  st.members[id] # {} /\ id \in reached(st, p) /\ p \in Id
<1>1. PICK i \in DOMAIN st.slot[p].entries : st.slot[p].entries[i].id = id
  BY DEF Declarers
<1>2. p \in Id /\ i \in Nat
  BY <1>1, EntryFacts DEF Declarers, Consistent
<1>3. <<p, i>> \in st.members[id]
  BY <1>1, <1>2 DEF Consistent, Mirrored
<1>. QED BY <1>1, <1>2, <1>3 DEF reached, Ids

\* After a region has been published the whole store shows what is in force.
LEMMA RegionShown ==
  ASSUME NEW st, Consistent(st), NEW before \in StoreType, NEW R \in SUBSET Id, NEW direct, NEW L,
         \A q \in R : reached(st, q) \subseteq R,
         \A id \in Id \ R : Shows(st, L, id),
         Alive(st) \ R = L \ R, Alive(st) \cap R = propagateReachability(st, R)
  PROVE  LET after == reachability(st, before, R, direct) IN
         Consistent(after) /\ Alive(after) = Alive(st) /\ Shown(after, Alive(st))
<1> DEFINE live  == propagateReachability(st, R)
           after == reachability(st, before, R, direct)
           K     == Alive(st)
<1>0. st \in StoreType /\ Mirrored(st)
  BY DEF Consistent
<1>1. /\ after \in StoreType /\ after.members = st.members
      /\ \A id \in Id :
                 /\ after.slot[id].entries = st.slot[id].entries
                 /\ after.slot[id].exists = st.slot[id].exists
                 /\ after.slot[id].published = st.slot[id].published
                 /\ after.slot[id].shadows = st.slot[id].shadows
                 /\ after.cell[id].static = st.cell[id].static
                 /\ after.cell[id].rooted = st.cell[id].rooted
                 /\ id \notin R => after.slot[id] = st.slot[id] /\ after.cell[id] = st.cell[id]
                 /\ ~st.slot[id].exists => after.slot[id] = st.slot[id]
                 /\ id \in R /\ st.slot[id].exists =>
                       (after.slot[id].visible <=> id \in live) /\ (after.slot[id].hidden <=> id \notin live)
                 /\ id \in R =>
                       \/ st.cell[id].static = None /\ st.members[id] = {} /\ ~st.slot[id].exists
                       \/ /\ after.cell[id].hidden <=> id \notin live
                          /\ after.cell[id].retired <=> ~staticAnchor(st, id, R, live)
  BY <1>0, RegionFields
<1>2. K \subseteq Id /\ Anchored(st) \subseteq K /\ \A q \in K : reached(st, q) \subseteq K
  BY <1>0, AliveClosed
<1>3. K \ R = L \ R /\ K \cap R = live
  OBVIOUS
<1> HIDE DEF live, after
<1>4. Consistent(after)
  <2>1. Mirrored(after)
    BY <1>0, <1>1, MirroredSame
  <2>2. Declared(after)
    BY <1>1 DEF Consistent, Declared
  <2>3. Inventories(after)
    <3> SUFFICES ASSUME NEW p \in Id
                 PROVE  /\ OnePlace(p, after.slot[p].entries)
                        /\ p \in Owners \/ after.slot[p].published \/ after.slot[p].hidden
                              => after.slot[p].exists
                        /\ DOMAIN after.slot[p].entries # {} => after.slot[p].published
      BY DEF Inventories
    <3>1. after.slot[p].hidden => st.slot[p].hidden \/ st.slot[p].exists
      BY <1>1
    <3>. QED BY <1>1, <3>1 DEF Consistent, Inventories
  <2>. QED BY <1>1, <2>1, <2>2, <2>3 DEF Consistent
<1>5. Alive(after) = K
  <2>1. \A id \in Id : Ids(after.slot[id].entries) = Ids(st.slot[id].entries)
    BY <1>1
  <2>. QED BY <1>1, <2>1, AliveSame
<1>6. ASSUME NEW id \in Id PROVE Declarers(after, id) = Declarers(st, id)
  BY <1>1 DEF Declarers
<1>7. ASSUME NEW id \in Id PROVE Shows(after, K, id)
  <2>1. CASE id \notin R
    <3>1. Shows(st, L, id) /\ (id \in K <=> id \in L)
      BY <1>3, <2>1
    <3>2. \A p \in Declarers(st, id) : p \in K <=> p \in L
      BY <1>3, <2>1, DeclarersMembers
    <3> HIDE DEF K
    <3>. QED BY <1>1, <1>6, <2>1, <3>1, <3>2 DEF Shows
  <2>2. CASE id \in R
    <3>1. id \in K <=> id \in live
      BY <1>3, <2>2
    <3>2. st.cell[id].static = None /\ st.members[id] = {} => id \notin K /\ Declarers(st, id) = {}
      <4> SUFFICES ASSUME st.cell[id].static = None, st.members[id] = {}
                   PROVE  id \notin K /\ Declarers(st, id) = {}
        OBVIOUS
      <4>1. Declarers(st, id) = {}
        BY DeclarersMembers
      <4>2. \A q \in K : id \notin reached(st, q)
        BY <1>2, <4>1 DEF reached, Declarers, Ids
      <4>3. id \notin Anchored(st)
        BY DEF Anchored
      <4>. QED BY <1>0, <4>1, <4>2, <4>3, AliveSupported
    <3>3. id \in K => ~after.slot[id].hidden
      BY <1>1, <2>2, <3>1 DEF Consistent, Inventories
    <3>4. (\E f \in Id : Owner[f] = id /\ after.cell[f].static # None) => st.slot[id].exists
      BY OwnerType DEF Consistent, Inventories, Owners
    <3>5. id \in K /\ Declarers(st, id) \cap K = {} => staticAnchor(st, id, R, live)
      <4> SUFFICES ASSUME id \in K, Declarers(st, id) \cap K = {} PROVE staticAnchor(st, id, R, live)
        OBVIOUS
      <4>1. CASE id \in Anchored(st)
        BY <4>1 DEF Anchored, staticAnchor
      <4>2. CASE \E q \in K : id \in reached(st, q)
        <5>1. PICK q \in K : id \in reached(st, q)
          BY <4>2
        <5>2. id \notin Ids(st.slot[q].entries) /\ q \in Id
          BY <1>2, <5>1 DEF Ids, Declarers
        <5>3. Owner[id] = q /\ st.cell[id].static # None /\ ~st.slot[q].shadows
          BY <5>1, <5>2 DEF reached, coverage
        <5>4. q \notin R => ~st.slot[q].hidden
          BY <1>3, <5>1, <5>2 DEF Shows
        <5>5. q \in R => q \in live
          BY <1>3, <5>1
        <5>. QED BY <5>3, <5>4, <5>5 DEF staticAnchor
      <4>. QED BY <1>0, <4>1, <4>2, AliveSupported
    <3> HIDE DEF K
    <3>. QED BY <1>1, <1>6, <2>2, <3>1, <3>2, <3>3, <3>4, <3>5 DEF Shows
  <2>. QED BY <2>1, <2>2
<1>. QED BY <1>4, <1>5, <1>7 DEF Shown, after
-----------------------------------------------------------------------------
(* What is in force and what a reader gets.                                *)

\* The captured object of a store that shows what is in force.
LEMMA CaptureAlive ==
  ASSUME NEW st, Consistent(st), Shown(st, Alive(st)), NEW id \in Id
  PROVE  LET v  == capture(st, id)
             by == Declarers(st, id) \cap Alive(st)
         IN /\ v.content \in Content \cup {None}
            /\ v.content # None <=> id \in Alive(st)
            /\ id \in Alive(st) /\ (st.cell[id].rooted \/ by = {}) =>
                  v.content = st.cell[id].static /\ v.owner = None
            /\ id \in Alive(st) /\ ~st.cell[id].rooted /\ by # {} =>
                  /\ v.owner \in by /\ \A q \in by : q <= v.owner
                  /\ v.position \in DOMAIN st.slot[v.owner].entries
                  /\ st.slot[v.owner].entries[v.position].id = id
                  /\ v.content = st.slot[v.owner].entries[v.position].content
            /\ id \notin Alive(st) => v.owner = None
<1> DEFINE K  == Alive(st)
           by == Declarers(st, id) \cap K
           c  == st.cell[id]
           v  == capture(st, id)
<1>1. st \in StoreType /\ Mirrored(st) /\ Shows(st, K, id)
  BY DEF Consistent, Shown
<1>2. Showing(st, id) = by
  <2>1. ASSUME NEW p \in Declarers(st, id) PROVE st.slot[p].visible <=> p \in K
    <3>1. p \in Id /\ st.slot[p].exists
      BY DEF Declarers, Consistent, Inventories
    <3>. QED BY <3>1 DEF Shown, Shows
  <2>. QED BY <2>1 DEF Showing
<1>3. /\ v.content \in Content \cup {None}
      /\ c.hidden => v.content = None /\ v.owner = None
      /\ ~c.hidden /\ (c.rooted \/ by = {}) =>
            v.owner = None /\ v.content = IF c.retired /\ ~c.rooted THEN None ELSE c.static
      /\ ~c.hidden /\ ~c.rooted /\ by # {} =>
            /\ v.owner \in by /\ \A q \in by : q <= v.owner
            /\ v.position \in DOMAIN st.slot[v.owner].entries
            /\ st.slot[v.owner].entries[v.position].id = id
            /\ v.content = st.slot[v.owner].entries[v.position].content
  BY <1>1, <1>2, CaptureFacts
<1>4. /\ id \in K => ~c.hidden
      /\ id \notin K => c.hidden \/ (c.static = None /\ by = {})
      /\ id \in K /\ by = {} => ~c.retired \/ c.rooted
  BY <1>1 DEF Shows
<1>5. c.rooted => c.static # None
  BY DEF Consistent, Declared
<1>6. id \in K /\ by = {} => c.static # None
  <2> SUFFICES ASSUME id \in K, by = {} PROVE c.static # None
    OBVIOUS
  <2>1. CASE id \in Anchored(st)
    BY <2>1 DEF Anchored
  <2>2. CASE \E q \in K : id \in reached(st, q)
    <3>1. PICK q \in K : id \in reached(st, q)
      BY <2>2
    <3>2. q \in Id /\ q \notin Declarers(st, id)
      BY <1>1, AliveClosed
    <3>. QED BY <3>1, <3>2 DEF reached, Ids, Declarers
  <2>. QED BY <1>1, <2>1, <2>2, AliveSupported
<1>7. None \notin Content
  BY PublicationAssumption
<1>8. ASSUME id \in K, ~c.rooted, by # {} PROVE v.content # None
  <2>1. v.owner \in Id /\ v.position \in DOMAIN st.slot[v.owner].entries
        /\ v.content = st.slot[v.owner].entries[v.position].content
    BY <1>3, <1>4, <1>8 DEF Declarers
  <2>. QED BY <1>1, <1>7, <2>1, EntryFacts
<1> HIDE DEF K, by, c, v
<1>9. /\ v.content # None <=> id \in K
      /\ id \in K /\ (c.rooted \/ by = {}) => v.content = c.static /\ v.owner = None
      /\ id \in K /\ ~c.rooted /\ by # {} =>
            /\ v.owner \in by /\ \A q \in by : q <= v.owner
            /\ v.position \in DOMAIN st.slot[v.owner].entries
            /\ st.slot[v.owner].entries[v.position].id = id
            /\ v.content = st.slot[v.owner].entries[v.position].content
      /\ id \notin K => v.owner = None
  BY <1>3, <1>4, <1>5, <1>6, <1>8
<1>. QED BY <1>3, <1>9 DEF K, by, c, v

StaticOf(st) == [id \in Id |-> st.cell[id].static]
RootedOf(st) == {id \in Id : st.cell[id].rooted}
Carried(entries) ==
    [id \in Ids(entries) |-> entries[CHOOSE i \in DOMAIN entries : entries[i].id = id].content]
InventoryOf(st) == [p \in Id |-> Carried(st.slot[p].entries)]
SupersededOf(st) == {p \in Id : st.slot[p].shadows}
EffectiveOf(st) == [id \in Id |-> capture(st, id).content]

LEMMA LiveIsAlive ==
  ASSUME NEW st, Consistent(st)
  PROVE  Promise!Live(StaticOf(st), RootedOf(st), InventoryOf(st), SupersededOf(st)) = Alive(st)
<1> DEFINE s == StaticOf(st)
           r == RootedOf(st)
           inv == InventoryOf(st)
           sup == SupersededOf(st)
<1>1. st \in StoreType
  BY DEF Consistent
<1>2. Promise!Anchors(s, r) = Anchored(st)
  BY DEF Promise!Anchors, Anchored, StaticOf, RootedOf, None, Promise!None
<1>3. ASSUME NEW L \in SUBSET Id
      PROVE  Promise!Produced(s, inv, sup, L) \subseteq L <=> \A q \in L : Puts(st)[q] \subseteq L
  <2>1. ASSUME NEW p \in Id PROVE DOMAIN inv[p] = Ids(st.slot[p].entries)
    BY DEF InventoryOf, Carried
  <2>2. ASSUME NEW id \in Id, NEW p \in L
        PROVE  (id \in DOMAIN inv[p] \/ (s[id] # Promise!None /\ Owner[id] = p /\ p \notin sup))
                  <=> id \in Puts(st)[p]
    <3>1. p \in Id
      OBVIOUS
    <3>2. (p \in sup <=> st.slot[p].shadows) /\ s[id] = st.cell[id].static
      BY <3>1 DEF SupersededOf, StaticOf
    <3>. QED BY <2>1, <3>1, <3>2 DEF Puts, reached, coverage, None, Promise!None
  <2>3. Puts(st) \in [Id -> SUBSET Id]
    BY <1>1, PutsType
  <2> HIDE DEF s, inv, sup
  <2>. QED BY <2>2, <2>3 DEF Promise!Produced
<1>4. ASSUME NEW L \in SUBSET Id
      PROVE  Promise!Anchors(s, r) \cup Promise!Produced(s, inv, sup, L) \subseteq L
                <=> Anchored(st) \subseteq L /\ \A q \in L : Puts(st)[q] \subseteq L
  <2> HIDE DEF s, r, inv, sup
  <2>. QED BY <1>2, <1>3
<1> HIDE DEF s, r, inv, sup
<1>5. Promise!Live(s, r, inv, sup) = Least(Anchored(st), Puts(st))
  BY <1>4 DEF Promise!Live, Least
<1>. QED BY <1>5 DEF Alive, s, r, inv, sup

\* A place of an inventory is the place of its resource.
LEMMA InventoryAt ==
  ASSUME NEW st, Consistent(st), NEW p \in Id, NEW i \in DOMAIN st.slot[p].entries
  PROVE  LET id == st.slot[p].entries[i].id IN
         id \in DOMAIN InventoryOf(st)[p] /\ InventoryOf(st)[p][id] = st.slot[p].entries[i].content
<1> DEFINE e == st.slot[p].entries
           id == e[i].id
           k == CHOOSE j \in DOMAIN e : e[j].id = id
<1>1. \A j \in DOMAIN e : e[j].id = id => j = i
  BY DEF Consistent, Inventories, OnePlace
<1>2. k = i
  BY <1>1
<1>3. id \in Ids(e)
  BY DEF Ids
<1>. QED BY <1>2, <1>3 DEF InventoryOf, Carried

LEMMA ViewIs ==
  ASSUME NEW st, Consistent(st), Shown(st, Alive(st))
  PROVE  EffectiveOf(st) = Promise!View(StaticOf(st), RootedOf(st), InventoryOf(st), SupersededOf(st))
<1> DEFINE s == StaticOf(st)
           r == RootedOf(st)
           inv == InventoryOf(st)
           sup == SupersededOf(st)
           K == Alive(st)
           by(id) == {p \in K : id \in DOMAIN inv[p]}
           greatest(P) == CHOOSE p \in P : \A q \in P : q <= p
<1>1. Promise!Live(s, r, inv, sup) = K
  BY LiveIsAlive
<1>2. Promise!View(s, r, inv, sup) =
         [id \in Id |-> IF id \notin K THEN Promise!None
                        ELSE IF by(id) = {} \/ (id \in r /\ s[id] # Promise!None) THEN s[id]
                        ELSE inv[greatest(by(id))][id]]
  <2> HIDE DEF s, r, inv, sup
  <2>. QED BY <1>1 DEF Promise!View
<1>3. K \subseteq Id
  BY AliveClosed DEF Consistent
<1>4. ASSUME NEW id \in Id
      PROVE  capture(st, id).content =
                IF id \notin K THEN Promise!None
                ELSE IF by(id) = {} \/ (id \in r /\ s[id] # Promise!None) THEN s[id]
                ELSE inv[greatest(by(id))][id]
  <2> DEFINE v == capture(st, id)
             d == Declarers(st, id) \cap K
  <2>1. by(id) = d
    BY <1>3 DEF InventoryOf, Carried, Ids, Declarers
  <2>2. (id \in r <=> st.cell[id].rooted) /\ s[id] = st.cell[id].static
    BY DEF RootedOf, StaticOf
  <2>3. st.cell[id].rooted => st.cell[id].static # None
    BY DEF Consistent, Declared
  <2>4. /\ v.content # None <=> id \in K
        /\ id \in K /\ (st.cell[id].rooted \/ d = {}) => v.content = st.cell[id].static
        /\ id \in K /\ ~st.cell[id].rooted /\ d # {} =>
              /\ v.owner \in d /\ \A q \in d : q <= v.owner
              /\ v.position \in DOMAIN st.slot[v.owner].entries
              /\ st.slot[v.owner].entries[v.position].id = id
              /\ v.content = st.slot[v.owner].entries[v.position].content
    BY CaptureAlive
  <2>5. ASSUME id \in K, ~st.cell[id].rooted, d # {}
        PROVE  v.content = inv[greatest(d)][id]
    <3>1. v.owner \in d /\ v.owner \in Id /\ \A q \in d : q <= v.owner
      BY <1>3, <2>4, <2>5
    <3>2. \A q \in d : q \in Nat
      BY <1>3, PublicationAssumption
    <3> DEFINE g == greatest(d)
    <3>3. g \in d /\ \A q \in d : q <= g
      BY <3>1
    <3> HIDE DEF g, d
    <3>4. g = v.owner
      BY <3>1, <3>2, <3>3
    <3>5. inv[v.owner][id] = v.content
      BY <2>4, <2>5, <3>1, InventoryAt
    <3>. QED BY <3>4, <3>5 DEF g
  <2> HIDE DEF d, v, K, inv, s, r
  <2>. QED BY <2>1, <2>2, <2>3, <2>4, <2>5 DEF v, None, Promise!None
<1> HIDE DEF K, inv, s, r, sup, by
<1>5. EffectiveOf(st) = Promise!View(s, r, inv, sup)
  BY <1>2, <1>4 DEF EffectiveOf, by
<1>. QED BY <1>5 DEF s, r, inv, sup
-----------------------------------------------------------------------------
(* Proposals.                                                              *)

ChildType == [id : Id, content : Content]
Distinct(s) == \A i, j \in DOMAIN s : s[i].id = s[j].id => i = j

LEMMA PickedOnce ==
  ASSUME NEW X, NEW s \in Seq(X), NEW T, Distinct(s)
  PROVE  /\ only(s, T) \in Seq(X) /\ Distinct(only(s, T))
         /\ \A i \in DOMAIN only(s, T) : only(s, T)[i] \in T
         /\ \A i \in DOMAIN only(s, T) : \E k \in DOMAIN s : only(s, T)[i] = s[k]
<1>1. PICK at \in [DOMAIN only(s, T) -> DOMAIN s] :
         /\ \A i \in DOMAIN only(s, T) : only(s, T)[i] = s[at[i]] /\ only(s, T)[i] \in T
         /\ \A i, j \in DOMAIN only(s, T) : at[i] = at[j] => i = j
  BY Picked
<1>2. only(s, T) \in Seq(X)
  BY Picked
<1>3. ASSUME NEW i \in DOMAIN only(s, T), NEW j \in DOMAIN only(s, T), only(s, T)[i].id = only(s, T)[j].id
      PROVE  i = j
  <2>1. at[i] \in DOMAIN s /\ at[j] \in DOMAIN s /\ s[at[i]].id = s[at[j]].id
    BY <1>1, <1>3
  <2>. QED BY <1>1, <2>1 DEF Distinct
<1>. QED BY <1>1, <1>2, <1>3 DEF Distinct

LEMMA OutputType ==
  ASSUME NEW p \in Emitter, NEW next \in Outputs[p]
  PROVE  /\ p \in Id /\ next.children \in Seq(ChildType) /\ Distinct(next.children)
         /\ next.complete \in BOOLEAN /\ next.failed \in BOOLEAN /\ ~(next.complete /\ next.failed)
<1>1. p \in Id /\ Emits[p] \subseteq Id
  BY PublicationAssumption DEF Emitter
<1>2. PICK outcome \in {"complete", "partial", "failed"}, s \in Children(p) :
         next = [children |-> s, complete |-> outcome = "complete", failed |-> outcome = "failed"]
  BY DEF Outputs
<1>3. Distinct(s) /\ \E n \in 0 .. Cardinality(Emits[p]) : s \in [1 .. n -> [id : Emits[p], content : Content]]
  BY DEF Children, Distinct
<1>4. PICK n \in 0 .. Cardinality(Emits[p]) : s \in [1 .. n -> [id : Emits[p], content : Content]]
  BY <1>3
<1>5. n \in Nat
  <2>1. IsFiniteSet(Emits[p])
    BY <1>1, PublicationAssumption, FS_Subset
  <2>. QED BY <2>1, FS_CardinalityType
<1>6. [id : Emits[p], content : Content] \subseteq ChildType
  BY <1>1 DEF ChildType
<1>7. s \in Seq(ChildType)
  BY <1>4, <1>5, <1>6
<1>. QED BY <1>1, <1>2, <1>3, <1>7

\* A proposal has one place for each resource, and an entry that was there keeps
\* its stamp.
LEMMA Prepared ==
  ASSUME Consistent(Now), NEW p \in Emitter, NEW next \in Outputs[p], NEW usable
  PROVE  LET entries == prepareEmission(p, next, usable)
             prev    == slot[p].entries
         IN /\ entries \in Seq(EntryType) /\ OnePlace(p, entries)
            /\ \A i \in DOMAIN entries : \A j \in DOMAIN prev :
                  entries[i].id = prev[j].id => entries[i].generation = prev[j].generation
<1> DEFINE prev     == slot[p].entries
           children == compactAdmissions(p, next.children)
           T        == {e \in Range(prev) : e.id \in Ids(children) \/ (~next.complete /\ ~next.failed)}
           kept     == only(prev, T)
           said(e)  == IF e.id \in Ids(children)
                       THEN children[CHOOSE i \in DOMAIN children : children[i].id = e.id].content
                       ELSE e.content
           retained == [i \in DOMAIN kept |-> [kept[i] EXCEPT !.content = said(kept[i])]]
           base     == IF usable \/ ~next.complete THEN retained ELSE << >>
           U        == {e \in Range(children) : e.id \notin Ids(base)}
           fresh    == only(children, U)
           stampOf(id) == IF id \in Ids(prev)
                          THEN prev[CHOOSE i \in DOMAIN prev : prev[i].id = id].generation ELSE 0
           tail     == [i \in DOMAIN fresh |-> [id |-> fresh[i].id, content |-> fresh[i].content,
                                                generation |-> stampOf(fresh[i].id)]]
           entries  == prepareEmission(p, next, usable)
<1>0. p \in Id /\ next.children \in Seq(ChildType) /\ Distinct(next.children)
  BY OutputType
<1>1. entries = base \o tail
  BY DEF prepareEmission, retainPreviousEntries
<1>2. prev \in Seq(EntryType) /\ OnePlace(p, prev) /\ Distinct(prev)
  BY <1>0 DEF Consistent, StoreType, SlotType, Now, Inventories, OnePlace, Distinct
<1> HIDE DEF prev, entries
<1>3. /\ children \in Seq(ChildType) /\ Distinct(children)
      /\ \A i \in DOMAIN children : children[i] \in ChildType /\ children[i].id # p
                                    /\ children[i].id \in Id /\ children[i].content \in Content
  <2> DEFINE V == {e \in Range(next.children) : e.id # p}
  <2>1. children = only(next.children, V)
    BY DEF compactAdmissions
  <2> HIDE DEF V, children
  <2>2. /\ children \in Seq(ChildType) /\ Distinct(children)
        /\ \A i \in DOMAIN children : children[i] \in V
    BY <1>0, <2>1, PickedOnce
  <2>3. \A i \in DOMAIN children : children[i] \in ChildType
    BY <2>2
  <2>. QED BY <2>2, <2>3 DEF V, ChildType
<1> HIDE DEF children
<1>4. /\ kept \in Seq(EntryType) /\ Distinct(kept)
      /\ \A i \in DOMAIN kept : \E k \in DOMAIN prev : kept[i] = prev[k]
  <2> HIDE DEF T
  <2>. QED BY <1>2, PickedOnce
<1> HIDE DEF kept
<1>5. ASSUME NEW i \in DOMAIN kept PROVE said(kept[i]) \in Content
  <2>1. kept[i] \in EntryType /\ kept[i].content \in Content
    <3>1. kept[i] \in EntryType
      BY <1>4
    <3>. QED BY <3>1 DEF EntryType
  <2>2. CASE kept[i].id \in Ids(children)
    <3>1. \E k \in DOMAIN children : children[k].id = kept[i].id
      BY <2>2 DEF Ids
    <3>. QED BY <1>3, <2>2, <3>1
  <2>. QED BY <2>1, <2>2
<1> HIDE DEF said
<1>6. /\ retained \in Seq(EntryType) /\ DOMAIN retained = DOMAIN kept
      /\ \A i \in DOMAIN retained : retained[i].id = kept[i].id /\ retained[i].generation = kept[i].generation
  <2> DEFINE told(i) == [kept[i] EXCEPT !.content = said(kept[i])]
  <2>1. ASSUME NEW i \in DOMAIN kept
        PROVE  told(i) \in EntryType /\ told(i).id = kept[i].id /\ told(i).generation = kept[i].generation
    <3>1. kept[i] \in EntryType
      BY <1>4
    <3>. QED BY <1>5, <3>1 DEF EntryType
  <2>2. DOMAIN kept = 1 .. Len(kept) /\ Len(kept) \in Nat
    BY <1>4
  <2>3. retained = [i \in DOMAIN kept |-> told(i)]
    OBVIOUS
  <2> HIDE DEF told, retained
  <2>. QED BY <2>1, <2>2, <2>3
<1> HIDE DEF retained
<1>7. /\ base \in Seq(EntryType) /\ Distinct(base)
      /\ \A i \in DOMAIN base : \E k \in DOMAIN prev :
            base[i].id = prev[k].id /\ base[i].generation = prev[k].generation
  <2>1. CASE usable \/ ~next.complete
    <3>1. Distinct(retained)
      BY <1>4, <1>6 DEF Distinct
    <3>2. \A i \in DOMAIN retained : \E k \in DOMAIN prev :
              retained[i].id = prev[k].id /\ retained[i].generation = prev[k].generation
      BY <1>4, <1>6
    <3>. QED BY <1>6, <2>1, <3>1, <3>2
  <2>2. CASE ~(usable \/ ~next.complete)
    BY <2>2 DEF Distinct
  <2>. QED BY <2>1, <2>2
<1> HIDE DEF base
<1>8. /\ fresh \in Seq(ChildType) /\ Distinct(fresh)
      /\ \A i \in DOMAIN fresh : fresh[i].id \notin Ids(base) /\ fresh[i].id # p
                                 /\ fresh[i].id \in Id /\ fresh[i].content \in Content
  <2>1. /\ fresh \in Seq(ChildType) /\ Distinct(fresh) /\ \A i \in DOMAIN fresh : fresh[i] \in U
        /\ \A i \in DOMAIN fresh : \E k \in DOMAIN children : fresh[i] = children[k]
    <3> HIDE DEF U
    <3>. QED BY <1>3, PickedOnce
  <2> HIDE DEF fresh
  <2>. QED BY <1>3, <2>1
<1> HIDE DEF fresh
<1>9. ASSUME NEW id PROVE /\ stampOf(id) \in Nat
                          /\ \A j \in DOMAIN prev : prev[j].id = id => stampOf(id) = prev[j].generation
  <2> DEFINE k == CHOOSE i \in DOMAIN prev : prev[i].id = id
  <2>1. \A j \in DOMAIN prev : prev[j].id = id => id \in Ids(prev) /\ k = j
    BY <1>2 DEF Ids, Distinct
  <2>2. id \in Ids(prev) => k \in DOMAIN prev
    BY DEF Ids
  <2>3. \A i \in DOMAIN prev : prev[i].generation \in Nat
    <3>1. \A i \in DOMAIN prev : prev[i] \in EntryType
      BY <1>2
    <3>. QED BY <3>1 DEF EntryType
  <2>. QED BY <2>1, <2>2, <2>3
<1> HIDE DEF stampOf
<1>10. /\ tail \in Seq(EntryType) /\ DOMAIN tail = DOMAIN fresh
       /\ \A i \in DOMAIN tail : tail[i].id = fresh[i].id /\ tail[i].generation = stampOf(fresh[i].id)
  <2>1. ASSUME NEW i \in DOMAIN fresh
        PROVE  [id |-> fresh[i].id, content |-> fresh[i].content,
                generation |-> stampOf(fresh[i].id)] \in EntryType
    BY <1>8, <1>9 DEF EntryType
  <2>2. DOMAIN fresh = 1 .. Len(fresh) /\ Len(fresh) \in Nat
    BY <1>8
  <2>. QED BY <2>1, <2>2
<1> HIDE DEF tail
<1>11. entries \in Seq(EntryType)
  BY <1>1, <1>7, <1>10
<1>12. ASSUME NEW i \in DOMAIN entries
       PROVE  \/ i \in DOMAIN base /\ entries[i] = base[i]
              \/ i \notin DOMAIN base /\ i - Len(base) \in DOMAIN tail /\ entries[i] = tail[i - Len(base)]
  BY <1>1, <1>7, <1>10
<1>13. ASSUME NEW i \in DOMAIN entries, NEW j \in DOMAIN entries, entries[i].id = entries[j].id
       PROVE  i = j
  <2>0. i \in Nat /\ j \in Nat /\ Len(base) \in Nat
    BY <1>7, <1>11
  <2>1. \A m \in DOMAIN tail : tail[m].id \notin Ids(base)
    BY <1>8, <1>10
  <2>2. CASE i \in DOMAIN base /\ j \in DOMAIN base
    BY <1>7, <1>12, <1>13, <2>2 DEF Distinct
  <2>3. CASE i \in DOMAIN base /\ j \notin DOMAIN base
    BY <1>12, <1>13, <2>1, <2>3 DEF Ids
  <2>4. CASE i \notin DOMAIN base /\ j \in DOMAIN base
    BY <1>12, <1>13, <2>1, <2>4 DEF Ids
  <2>5. CASE i \notin DOMAIN base /\ j \notin DOMAIN base
    <3>1. i - Len(base) = j - Len(base)
      BY <1>8, <1>10, <1>12, <1>13, <2>5 DEF Distinct
    <3>. QED BY <2>0, <3>1
  <2>. QED BY <2>2, <2>3, <2>4, <2>5
<1>14. ASSUME NEW i \in DOMAIN entries PROVE entries[i].id # p
  <2>1. \A k \in DOMAIN prev : prev[k].id # p
    BY <1>2 DEF OnePlace
  <2>. QED BY <1>7, <1>8, <1>10, <1>12, <2>1, SMTT(30)
<1>15. ASSUME NEW i \in DOMAIN entries, NEW j \in DOMAIN prev, entries[i].id = prev[j].id
       PROVE  entries[i].generation = prev[j].generation
  <2>1. CASE i \in DOMAIN base
    BY <1>2, <1>7, <1>12, <1>15, <2>1 DEF Distinct
  <2>2. CASE i \notin DOMAIN base
    BY <1>9, <1>10, <1>12, <1>15, <2>2
  <2>. QED BY <2>1, <2>2
<1>. QED BY <1>11, <1>13, <1>14, <1>15 DEF OnePlace, entries, prev
-----------------------------------------------------------------------------
(* Writes.  Each one prepares a store, and a region if it has to.          *)

LEMMA RegionClosed ==
  ASSUME NEW st \in StoreType, NEW S \in SUBSET Id
  PROVE  LET R == expandRegion(st, S) IN
         /\ R \in SUBSET Id /\ S \subseteq R
         /\ \A q \in R : downstream(st, q) \subseteq R /\ reached(st, q) \subseteq R
                         /\ coverage(q) \subseteq R
<1> DEFINE P == [q \in Id |-> downstream(st, q)]
           R == expandRegion(st, S)
<1>1. P \in [Id -> SUBSET Id]
  BY IdsType DEF downstream, coverage
<1>2. R = Least(S, P)
  BY DEF expandRegion, Least
<1>3. R \subseteq Id /\ S \subseteq R /\ \A q \in R : P[q] \subseteq R
  BY <1>1, <1>2, LeastIsClosed
<1>4. \A q \in Id : reached(st, q) \subseteq downstream(st, q) /\ coverage(q) \subseteq downstream(st, q)
  BY DEF reached, downstream
<1> HIDE DEF R
<1>5. \A q \in R : downstream(st, q) \subseteq R
  BY <1>3
<1>6. \A q \in R : reached(st, q) \subseteq R /\ coverage(q) \subseteq R
  BY <1>3, <1>4, <1>5
<1>. QED BY <1>3, <1>5, <1>6 DEF R

\* What a write has prepared when it works out the region R.
Prepares(before, st, R) ==
    /\ Consistent(before) /\ Shown(before, Alive(before)) /\ Consistent(st) /\ R \in SUBSET Id
    /\ \A id \in Id \ R : Shows(st, Alive(before), id)
    /\ \A q \in R : reached(before, q) \subseteq R /\ reached(st, q) \subseteq R
    /\ Anchored(before) \ R = Anchored(st) \ R
    /\ \A q \in Id : reached(before, q) \ R = reached(st, q) \ R

\* The part of a store that Declarations speaks of.
SamePromise(st, next) ==
    /\ StaticOf(next) = StaticOf(st) /\ RootedOf(next) = RootedOf(st)
    /\ InventoryOf(next) = InventoryOf(st) /\ SupersededOf(next) = SupersededOf(st)

LEMMA RegionDone ==
  ASSUME NEW before, NEW st, NEW R, NEW direct, Prepares(before, st, R)
  PROVE  LET after == reachability(st, before, R, direct) IN
         /\ Consistent(after) /\ Shown(after, Alive(after)) /\ Alive(after) = Alive(st)
         /\ SamePromise(st, after)
<1> USE DEF Prepares
<1> DEFINE after == reachability(st, before, R, direct)
<1>1. Alive(st) \ R = Alive(before) \ R /\ Alive(st) \cap R = propagateReachability(st, R)
  BY RegionAlive
<1>2. st \in StoreType /\ before \in StoreType /\ Mirrored(st)
  BY DEF Consistent
<1>3. Consistent(after) /\ Alive(after) = Alive(st) /\ Shown(after, Alive(st))
  BY <1>1, <1>2, RegionShown
<1>4. \A id \in Id : /\ after.slot[id].entries = st.slot[id].entries
                     /\ after.slot[id].shadows = st.slot[id].shadows
                     /\ after.cell[id].static = st.cell[id].static
                     /\ after.cell[id].rooted = st.cell[id].rooted
  BY <1>2, RegionFields
<1> HIDE DEF after
<1>5. SamePromise(st, after)
  <2>1. InventoryOf(after) = InventoryOf(st)
    BY <1>4 DEF InventoryOf
  <2>. QED BY <1>4, <2>1 DEF SamePromise, StaticOf, RootedOf, SupersededOf
<1>. QED BY <1>3, <1>5 DEF after

\* A declaration that nobody owns comes, goes or becomes a root.
LEMMA StaticPrepares ==
  ASSUME NEW before, Consistent(before), Shown(before, Alive(before)),
         NEW id \in Id, Owner[id] = None, NEW c \in CellType, c.rooted => c.static # None,
         NEW R, R = expandRegion(before, {id})
  PROVE  Prepares(before, [before EXCEPT !.cell[id] = c], R)
<1> DEFINE st == [before EXCEPT !.cell[id] = c]
<1>1. before \in StoreType
  BY DEF Consistent
<1>2. /\ st \in StoreType /\ st.slot = before.slot /\ st.members = before.members
      /\ st.cell[id] = c /\ \A x \in Id : x # id => st.cell[x] = before.cell[x]
  BY <1>1 DEF StoreType
<1>3. R \in SUBSET Id /\ id \in R /\ \A q \in R : reached(before, q) \subseteq R
  BY <1>1, RegionClosed, ZenonT(40)
<1> HIDE DEF st
<1>4. Consistent(st)
  <2>1. Mirrored(st)
    BY <1>2, MirroredSame DEF Consistent
  <2>2. Declared(st)
    BY <1>2 DEF Consistent, Declared
  <2>3. Inventories(st)
    BY <1>2 DEF Consistent, Inventories
  <2>. QED BY <1>2, <2>1, <2>2, <2>3 DEF Consistent
<1>5. ASSUME NEW q \in Id PROVE reached(st, q) = reached(before, q)
  <2>1. \A f \in coverage(q) : f \in Id /\ f # id
    BY OwnerType DEF coverage
  <2>. QED BY <1>2, <2>1 DEF reached
<1>6. Anchored(before) \ R = Anchored(st) \ R
  BY <1>2, <1>3 DEF Anchored
<1>7. ASSUME NEW x \in Id \ R PROVE Shows(st, Alive(before), x)
  <2>1. Shows(before, Alive(before), x) /\ st.cell[x] = before.cell[x]
    BY <1>2, <1>3 DEF Shown
  <2>2. Declarers(st, x) = Declarers(before, x)
    BY <1>2 DEF Declarers
  <2>3. \A f \in Id : Owner[f] = x => st.cell[f] = before.cell[f]
    BY <1>2, OwnerType
  <2>. QED BY <1>2, <2>1, <2>2, <2>3 DEF Shows
<1>. QED BY <1>3, <1>4, <1>5, <1>6, <1>7 DEF Prepares, st

\* A declaration that stands alone and has no slot and no members.
Lone(st, id) == st.members[id] = {} /\ ~st.slot[id].exists

LEMMA LoneFacts ==
  ASSUME NEW st, Consistent(st), NEW id \in Id, Lone(st, id)
  PROVE  /\ Declarers(st, id) = {} /\ reached(st, id) = {} /\ coverage(id) = {}
         /\ DOMAIN st.slot[id].entries = {} /\ ~st.slot[id].hidden /\ ~st.slot[id].published
<1>1. Declarers(st, id) = {}
  BY DeclarersMembers DEF Lone
<1>2. DOMAIN st.slot[id].entries = {} /\ id \notin Owners /\ ~st.slot[id].hidden /\ ~st.slot[id].published
  BY DEF Consistent, Inventories, Lone
<1>3. coverage(id) = {}
  BY <1>2, OwnerType DEF coverage, Owners
<1>. QED BY <1>1, <1>2, <1>3 DEF reached, Ids

\* st has the same slots and members, and the same cells except that of id.
OnlyCell(before, st, id) ==
    /\ st \in StoreType /\ st.slot = before.slot /\ st.members = before.members
    /\ \A x \in Id : x # id => st.cell[x] = before.cell[x]

LEMMA OnlyCellFacts ==
  ASSUME NEW before, Consistent(before), NEW st, NEW id \in Id, Owner[id] = None,
         OnlyCell(before, st, id), st.cell[id].rooted => st.cell[id].static # None
  PROVE  /\ Consistent(st) /\ Anchored(before) \ {id} = Anchored(st) \ {id}
         /\ \A q \in Id : reached(st, q) = reached(before, q) /\ Declarers(st, q) = Declarers(before, q)
         /\ \A f \in Id : Owner[f] # None => st.cell[f] = before.cell[f]
<1> USE DEF OnlyCell
<1>1. \A f \in Id : Owner[f] # None => st.cell[f] = before.cell[f]
  OBVIOUS
<1>2. Consistent(st)
  <2>1. Mirrored(st)
    BY MirroredSame DEF Consistent
  <2>2. Declared(st)
    BY DEF Consistent, Declared
  <2>3. Inventories(st)
    BY DEF Consistent, Inventories
  <2>. QED BY <2>1, <2>2, <2>3 DEF Consistent
<1>3. ASSUME NEW q \in Id PROVE reached(st, q) = reached(before, q) /\ Declarers(st, q) = Declarers(before, q)
  <2>1. \A f \in coverage(q) : f \in Id /\ f # id
    BY OwnerType DEF coverage
  <2>. QED BY <2>1 DEF reached, Declarers
<1>4. Anchored(before) \ {id} = Anchored(st) \ {id}
  BY DEF Anchored
<1>. QED BY <1>1, <1>2, <1>3, <1>4

\* A direct write that no inventory can contradict.
LEMMA AdmitShown ==
  ASSUME NEW before, Consistent(before), Shown(before, Alive(before)), NEW st, NEW id \in Id,
         Owner[id] = None, OnlyCell(before, st, id), before.cell[id].rooted \/ Lone(before, id),
         ~before.cell[id].hidden,
         st.cell[id].static # None, st.cell[id].rooted = before.cell[id].rooted,
         ~st.cell[id].retired, ~st.cell[id].hidden
  PROVE  Consistent(st) /\ Shown(st, Alive(st)) /\ Alive(st) = Alive(before) \cup {id}
<1> DEFINE K == Alive(before)
           L == K \cup {id}
<1>0. before \in StoreType /\ st \in StoreType /\ st.slot = before.slot
  BY DEF Consistent, OnlyCell
<1>1. /\ Consistent(st) /\ Anchored(before) \ {id} = Anchored(st) \ {id}
      /\ \A q \in Id : reached(st, q) = reached(before, q) /\ Declarers(st, q) = Declarers(before, q)
      /\ \A f \in Id : Owner[f] # None => st.cell[f] = before.cell[f]
  BY OnlyCellFacts
<1>2. id \in Anchored(st)
  BY DEF Anchored
<1>3. K \subseteq Id /\ Anchored(before) \subseteq K /\ \A q \in K : reached(before, q) \subseteq K
  BY <1>0, AliveClosed
<1>4. id \in K \/ Lone(before, id)
  <2>1. before.cell[id].rooted => id \in Anchored(before)
    BY DEF Consistent, Declared, Anchored
  <2>. QED BY <1>3, <2>1
<1>5. ASSUME Lone(before, id)
      PROVE  reached(before, id) = {} /\ ~before.slot[id].exists /\ ~before.slot[id].hidden
             /\ \A x \in Id : id \notin Declarers(before, x)
  BY <1>5, LoneFacts DEF Lone, Declarers
<1>6. Alive(st) \subseteq L
  <2>1. L \in SUBSET Id /\ Anchored(st) \subseteq L
    BY <1>1, <1>3
  <2>2. \A q \in L : reached(before, q) \subseteq L
    BY <1>3, <1>4, <1>5
  <2> HIDE DEF L
  <2>3. \A q \in L : Puts(st)[q] \subseteq L
    BY <1>1, <2>1, <2>2 DEF Puts
  <2>. QED BY <2>1, <2>3, LeastIsLeast DEF Alive
<1>7. L \subseteq Alive(st)
  <2>1. Alive(st) \subseteq Id /\ Anchored(st) \subseteq Alive(st)
        /\ \A q \in Alive(st) : reached(st, q) \subseteq Alive(st)
    BY <1>0, AliveClosed
  <2> DEFINE M == Alive(st)
  <2>2. M \in SUBSET Id /\ Anchored(before) \subseteq M /\ id \in M
    BY <1>1, <1>2, <2>1
  <2>3. \A q \in M : Puts(before)[q] \subseteq M
    BY <1>1, <2>1 DEF Puts
  <2> HIDE DEF M
  <2>4. Least(Anchored(before), Puts(before)) \subseteq M
    BY <2>2, <2>3, LeastIsLeast
  <2>. QED BY <2>2, <2>4 DEF Alive, M
<1>8. Alive(st) = L
  BY <1>6, <1>7
<1> HIDE DEF K
<1>9. ASSUME NEW x \in Id PROVE Shows(st, L, x)
  <2>1. Shows(before, K, x) /\ Declarers(st, x) = Declarers(before, x)
    BY <1>1 DEF Shown, K
  <2>2. Declarers(st, x) \cap L = Declarers(before, x) \cap K
    BY <1>4, <1>5, <2>1
  <2>3. \A f \in Id : Owner[f] = x => st.cell[f] = before.cell[f]
    BY <1>1, OwnerType
  <2>4. CASE x = id
    <3>1. before.slot[id].exists => before.slot[id].visible
      BY <1>4, <1>5, <2>1, <2>4 DEF Shows
    <3>2. ~before.slot[id].hidden
      BY <1>4, <1>5, <2>1, <2>4 DEF Shows
    <3>. QED BY <1>0, <2>4, <3>1, <3>2 DEF Shows
  <2>5. CASE x # id
    <3>1. st.cell[x] = before.cell[x] /\ (x \in L <=> x \in K)
      BY <2>5 DEF OnlyCell
    <3> HIDE DEF L
    <3>. QED BY <1>0, <2>1, <2>2, <2>3, <3>1 DEF Shows
  <2>. QED BY <2>4, <2>5
<1>. QED BY <1>1, <1>8, <1>9 DEF Shown, K

\* A lone declaration goes.
LEMMA WithdrawShown ==
  ASSUME NEW before, Consistent(before), Shown(before, Alive(before)), NEW st, NEW id \in Id,
         Owner[id] = None, OnlyCell(before, st, id), Lone(before, id),
         st.cell[id].static = None, ~st.cell[id].rooted
  PROVE  Consistent(st) /\ Shown(st, Alive(st)) /\ Alive(st) = Alive(before) \ {id}
<1> DEFINE K == Alive(before)
           L == K \ {id}
<1>0. before \in StoreType /\ st \in StoreType /\ st.slot = before.slot
  BY DEF Consistent, OnlyCell
<1>1. /\ Consistent(st) /\ Anchored(before) \ {id} = Anchored(st) \ {id}
      /\ \A q \in Id : reached(st, q) = reached(before, q) /\ Declarers(st, q) = Declarers(before, q)
      /\ \A f \in Id : Owner[f] # None => st.cell[f] = before.cell[f]
  BY OnlyCellFacts
<1>2. id \notin Anchored(st)
  BY DEF Anchored
<1>3. /\ Declarers(before, id) = {} /\ reached(before, id) = {} /\ coverage(id) = {}
      /\ ~before.slot[id].exists /\ ~before.slot[id].hidden
      /\ \A x \in Id : id \notin Declarers(before, x)
  BY LoneFacts DEF Lone, Declarers
<1>4. \A q \in Id : id \notin reached(before, q)
  BY <1>3, OwnerType DEF reached, coverage, Declarers, Ids
<1>5. Alive(st) \subseteq L
  <2>1. L \in SUBSET Id /\ Anchored(st) \subseteq L /\ \A q \in L : reached(st, q) \subseteq L
    BY <1>0, <1>1, <1>2, <1>4, AliveClosed
  <2> HIDE DEF L
  <2>2. \A q \in L : Puts(st)[q] \subseteq L
    BY <2>1 DEF Puts
  <2>. QED BY <2>1, <2>2, LeastIsLeast DEF Alive
<1>6. L \subseteq Alive(st)
  <2> DEFINE M == Alive(st) \cup {id}
  <2>1. M \in SUBSET Id /\ Anchored(before) \subseteq M /\ \A q \in M : reached(before, q) \subseteq M
    BY <1>0, <1>1, <1>3, AliveClosed
  <2> HIDE DEF M
  <2>2. \A q \in M : Puts(before)[q] \subseteq M
    BY <2>1 DEF Puts
  <2>3. Least(Anchored(before), Puts(before)) \subseteq M
    BY <2>1, <2>2, LeastIsLeast
  <2>. QED BY <2>3 DEF Alive, M
<1>7. Alive(st) = L
  BY <1>5, <1>6
<1> HIDE DEF K
<1>8. ASSUME NEW x \in Id PROVE Shows(st, L, x)
  <2>1. Shows(before, K, x) /\ Declarers(st, x) = Declarers(before, x)
    BY <1>1 DEF Shown, K
  <2>2. Declarers(st, x) \cap L = Declarers(before, x) \cap K
    BY <1>3, <2>1
  <2>3. \A f \in Id : Owner[f] = x => st.cell[f] = before.cell[f]
    BY <1>1, OwnerType
  <2>4. CASE x = id
    <3>1. \A f \in Id : Owner[f] # id
      BY <1>3 DEF coverage
    <3>. QED BY <1>0, <1>3, <2>1, <2>4, <3>1 DEF Shows
  <2>5. CASE x # id
    <3>1. st.cell[x] = before.cell[x] /\ (x \in L <=> x \in K)
      BY <2>5 DEF OnlyCell
    <3> HIDE DEF L
    <3>. QED BY <1>0, <2>1, <2>2, <2>3, <3>1 DEF Shows
  <2>. QED BY <2>4, <2>5
<1>. QED BY <1>1, <1>7, <1>8 DEF Shown, K

Shadowing(p, next) == slot[p].shadows \/ next.complete \/ next.failed

Renewed(s, e, a, b, c) ==
    [s EXCEPT !.exists = TRUE, !.published = TRUE, !.entries = e, !.complete = a, !.failed = b,
              !.shadows = c, !.generation = @ + 1]

LEMMA RenewedFields ==
  ASSUME NEW s \in SlotType, NEW e \in Seq(EntryType), NEW a \in BOOLEAN, NEW b \in BOOLEAN, NEW c \in BOOLEAN
  PROVE  LET r == Renewed(s, e, a, b, c)
         IN /\ r \in SlotType /\ r.exists /\ r.published /\ r.entries = e /\ r.shadows = c
            /\ r.visible = s.visible /\ r.hidden = s.hidden /\ r.generation = s.generation + 1
<1> DEFINE E == Seq(EntryType)
<1> HIDE DEF E
<1>1. s.generation + 1 \in Nat
  BY DEF SlotType
<1>. QED BY <1>1, ZenonT(40) DEF SlotType, E, Renewed

LEMMA ProposalFields ==
  ASSUME Now \in StoreType, NEW p \in Emitter, NEW next \in Outputs[p], NEW entries \in Seq(EntryType)
  PROVE  LET s == proposal(p, next, entries) IN
         /\ s \in SlotType /\ s.exists /\ s.published /\ s.entries = entries
         /\ s.shadows <=> Shadowing(p, next)
         /\ s.visible = slot[p].visible /\ s.hidden = slot[p].hidden
         /\ s.generation = slot[p].generation + 1
<1>1. p \in Id /\ next.complete \in BOOLEAN /\ next.failed \in BOOLEAN
  BY OutputType
<1>2. slot[p] \in SlotType
  BY <1>1 DEF StoreType, Now
<1>3. Shadowing(p, next) \in BOOLEAN
  BY DEF Shadowing
<1>4. PICK sh \in BOOLEAN : sh = Shadowing(p, next)
  BY <1>3
<1>5. proposal(p, next, entries) =
         Renewed(slot[p], entries, next.complete, next.failed, sh)
  BY <1>4 DEF proposal, Shadowing, Renewed
<1> DEFINE r == Renewed(slot[p], entries, next.complete, next.failed, sh)
<1>6. /\ r \in SlotType /\ r.exists /\ r.published /\ r.entries = entries /\ r.shadows = sh
      /\ r.visible = slot[p].visible /\ r.hidden = slot[p].hidden /\ r.generation = slot[p].generation + 1
  BY <1>1, <1>2, <1>4, RenewedFields, SMTT(30)
<1> HIDE DEF r
<1>7. proposal(p, next, entries) = r
  BY <1>5 DEF r
<1>. QED BY <1>4, <1>6, <1>7

\* The store that commitReplacement works its region out for.
LEMMA ReplacedFields ==
  ASSUME Now \in StoreType, Mirrored(Now), NEW p \in Emitter, NEW next \in Outputs[p],
         NEW entries \in Seq(EntryType), NEW R
  PROVE  LET st   == replaced(p, next, entries, R)
             seen == IF slot[p].exists THEN slot[p].visible ELSE object(p) # None
         IN /\ st \in StoreType /\ st.members = publishMembers(p, entries, retireMembers(p, R))
            /\ \A q \in Id : q # p => st.slot[q] = slot[q] /\ st.cell[q] = cell[q] /\ st.head[q] = head[q]
            /\ st.slot[p].exists /\ st.slot[p].published /\ st.slot[p].entries = entries
            /\ st.slot[p].shadows <=> Shadowing(p, next)
            /\ st.slot[p].visible <=> seen
            /\ st.slot[p].hidden <=>
                  ~seen \/ IF slot[p].exists THEN slot[p].hidden ELSE cell[p].hidden
            /\ st.slot[p].generation = slot[p].generation + 1
            /\ st.cell[p].static = cell[p].static /\ st.cell[p].rooted = cell[p].rooted
            /\ st.cell[p].retired = cell[p].retired
            /\ st.cell[p].hidden <=> cell[p].hidden \/ ~seen
            /\ seen \/ cell[p].hidden => st.cell[p] = cell[p] /\ st.head[p] = head[p]
            /\ st.head[p].selected = head[p].selected /\ st.head[p].position = head[p].position
<1> DEFINE s    == proposal(p, next, entries)
           seen == IF slot[p].exists THEN slot[p].visible ELSE object(p) # None
           made == IF slot[p].exists THEN s
                   ELSE [s EXCEPT !.visible = object(p) # None, !.hidden = cell[p].hidden]
           base == [Now EXCEPT !.slot[p] = made]
           mm   == publishMembers(p, entries, retireMembers(p, R))
<1>0. p \in Id /\ cell[p] \in CellType /\ slot[p] \in SlotType
  BY OutputType DEF StoreType, Now
<1>1. /\ s \in SlotType /\ s.exists /\ s.published /\ s.entries = entries
      /\ s.shadows <=> Shadowing(p, next)
      /\ s.visible = slot[p].visible /\ s.hidden = slot[p].hidden /\ s.generation = slot[p].generation + 1
  BY ProposalFields
<1> HIDE DEF s
<1>2. /\ made \in SlotType /\ made.exists /\ made.published /\ made.entries = entries
      /\ made.shadows <=> Shadowing(p, next)
      /\ made.visible <=> seen
      /\ made.hidden <=> IF slot[p].exists THEN slot[p].hidden ELSE cell[p].hidden
      /\ made.generation = slot[p].generation + 1
  <2>1. PICK v \in BOOLEAN : v = (object(p) # None)
    BY (object(p) # None) \in BOOLEAN
  <2>2. cell[p].hidden \in BOOLEAN
    BY <1>0 DEF CellType
  <2>3. [s EXCEPT !.visible = object(p) # None, !.hidden = cell[p].hidden] =
           [s EXCEPT !.visible = v, !.hidden = cell[p].hidden]
    BY <2>1
  <2>4. CASE slot[p].exists
    BY <1>1, <2>4
  <2>5. CASE ~slot[p].exists
    BY <1>1, <2>1, <2>2, <2>3, <2>5 DEF SlotType
  <2>. QED BY <2>4, <2>5
<1> HIDE DEF made
<1>3. /\ base \in StoreType /\ base.cell = cell /\ base.head = head /\ base.members = members
      /\ base.slot[p] = made /\ \A q \in Id : q # p => base.slot[q] = slot[q]
  BY <1>0, <1>2 DEF StoreType, Now
<1> HIDE DEF base
<1>4. mm \in [Id -> SUBSET (Id \X Nat)]
  <2>1. \A i \in DOMAIN entries : i \in Nat
    OBVIOUS
  <2>2. members \in [Id -> SUBSET (Id \X Nat)]
    BY DEF StoreType, Now
  <2>. QED BY <1>0, <2>1, <2>2 DEF publishMembers, retireMembers
<1> DEFINE hid == hideProducer(base, p)
<1>5. /\ hid \in StoreType
      /\ \A q \in Id : q # p => hid.slot[q] = base.slot[q] /\ hid.cell[q] = cell[q] /\ hid.head[q] = head[q]
      /\ hid.slot[p].exists /\ hid.slot[p].published /\ hid.slot[p].entries = entries
      /\ hid.slot[p].shadows = made.shadows /\ hid.slot[p].visible = made.visible
      /\ hid.slot[p].hidden <=> ~made.visible \/ made.hidden
      /\ hid.slot[p].generation = made.generation
      /\ hid.cell[p].static = cell[p].static /\ hid.cell[p].rooted = cell[p].rooted
      /\ hid.cell[p].retired = cell[p].retired
      /\ hid.cell[p].hidden <=> cell[p].hidden \/ ~made.visible
      /\ made.visible \/ cell[p].hidden => hid.cell[p] = cell[p] /\ hid.head[p] = head[p]
      /\ hid.head[p].selected = head[p].selected /\ hid.head[p].position = head[p].position
  <2>1. CASE made.visible
    <3>1. hid = base
      BY <1>3, <2>1 DEF hideProducer
    <3>. QED BY <1>2, <1>3, <2>1, <3>1
  <2>2. CASE ~made.visible
    <3> DEFINE adv   == advance(base, p)
               known == IF cell[p].hidden THEN base ELSE [adv EXCEPT !.cell[p].hidden = TRUE]
    <3>1. hid = [known EXCEPT !.slot[p].hidden = TRUE]
      BY <1>3, <2>2 DEF hideProducer
    <3>2. /\ adv \in StoreType /\ adv.slot = base.slot
          /\ adv.cell = [base.cell EXCEPT ![p].generation = current(base, p) + 1]
          /\ \A x \in Id : x # p => adv.head[x] = base.head[x]
          /\ adv.head[p].selected = base.head[p].selected /\ adv.head[p].position = base.head[p].position
      BY <1>0, <1>3, AdvanceFields, ZenonT(40)
    <3> HIDE DEF adv
    <3>3. /\ known \in StoreType /\ known.slot = base.slot
          /\ \A q \in Id : q # p => known.cell[q] = cell[q] /\ known.head[q] = head[q]
          /\ known.cell[p].static = cell[p].static /\ known.cell[p].rooted = cell[p].rooted
          /\ known.cell[p].retired = cell[p].retired /\ known.cell[p].hidden
          /\ cell[p].hidden => known.cell[p] = cell[p] /\ known.head[p] = head[p]
          /\ known.head[p].selected = head[p].selected /\ known.head[p].position = head[p].position
      <4>1. CASE cell[p].hidden
        BY <1>3, <4>1
      <4>2. CASE ~cell[p].hidden
        <5>1. known = [adv EXCEPT !.cell[p].hidden = TRUE]
          BY <4>2
        <5>2. known \in StoreType /\ known.slot = adv.slot /\ known.head = adv.head
              /\ known.cell = [adv.cell EXCEPT ![p].hidden = TRUE]
          <6>1. adv.cell \in [Id -> CellType] /\ adv.cell[p] \in CellType
            BY <1>0, <3>2 DEF StoreType
          <6>2. [adv.cell[p] EXCEPT !.hidden = TRUE] \in CellType
            BY <6>1 DEF CellType
          <6>3. [adv.cell EXCEPT ![p].hidden = TRUE] \in [Id -> CellType]
            BY <6>1, <6>2
          <6>. QED BY <3>2, <5>1, <6>3 DEF StoreType
        <5> HIDE DEF known
        <5>3. /\ adv.cell \in [Id -> CellType]
              /\ adv.cell[p].static = cell[p].static /\ adv.cell[p].rooted = cell[p].rooted
              /\ adv.cell[p].retired = cell[p].retired
              /\ \A q \in Id : q # p => adv.cell[q] = cell[q]
          <6> DEFINE g == current(base, p) + 1
          <6>1. cell \in [Id -> CellType] /\ adv.cell \in [Id -> CellType]
            BY <1>3, <3>2 DEF StoreType
          <6>2. adv.cell = [cell EXCEPT ![p].generation = g]
            BY <1>3, <3>2
          <6> HIDE DEF g
          <6>3. adv.cell[p] = [cell[p] EXCEPT !.generation = g] /\ \A q \in Id : q # p => adv.cell[q] = cell[q]
            BY <1>0, <6>1, <6>2
          <6>. QED BY <1>0, <6>1, <6>3 DEF CellType
        <5>4. known.cell[p] = [adv.cell[p] EXCEPT !.hidden = TRUE] /\ adv.cell[p] \in CellType
          BY <1>0, <5>2, <5>3
        <5>5. /\ known.cell[p].static = cell[p].static /\ known.cell[p].rooted = cell[p].rooted
              /\ known.cell[p].retired = cell[p].retired /\ known.cell[p].hidden
          BY <5>3, <5>4 DEF CellType
        <5>6. \A q \in Id : q # p => known.cell[q] = cell[q] /\ known.head[q] = head[q]
          BY <1>3, <3>2, <5>2, <5>3
        <5>. QED BY <1>3, <3>2, <4>2, <5>2, <5>5, <5>6
      <4>. QED BY <4>1, <4>2
    <3> HIDE DEF known
    <3>4. known.slot[p] = made /\ made \in SlotType
      BY <1>2, <1>3, <3>3
    <3>5. [made EXCEPT !.hidden = TRUE] \in SlotType
      BY <1>2 DEF SlotType
    <3>6. /\ hid \in StoreType /\ hid.cell = known.cell /\ hid.head = known.head
          /\ hid.slot[p] = [made EXCEPT !.hidden = TRUE]
          /\ \A q \in Id : q # p => hid.slot[q] = base.slot[q]
      <4>1. known.slot \in [Id -> SlotType]
        BY <3>3 DEF StoreType
      <4>2. [known.slot EXCEPT ![p].hidden = TRUE] = [known.slot EXCEPT ![p] = [made EXCEPT !.hidden = TRUE]]
        BY <1>0, <3>4, <4>1
      <4>3. [known.slot EXCEPT ![p].hidden = TRUE] \in [Id -> SlotType]
        BY <1>0, <3>5, <4>1, <4>2
      <4>4. /\ hid \in StoreType /\ hid.cell = known.cell /\ hid.head = known.head
            /\ hid.slot = [known.slot EXCEPT ![p].hidden = TRUE]
        BY <3>1, <3>3, <4>3 DEF StoreType
      <4> DEFINE m == [made EXCEPT !.hidden = TRUE]
      <4>5. hid.slot = [known.slot EXCEPT ![p] = m]
        BY <4>2, <4>4
      <4> HIDE DEF m, hid
      <4>6. hid.slot[p] = m /\ \A q \in Id : q # p => hid.slot[q] = base.slot[q]
        BY <1>0, <3>3, <4>1, <4>5
      <4>. QED BY <4>4, <4>6 DEF m
    <3> HIDE DEF hid
    <3>. QED BY <1>2, <2>2, <3>3, <3>6 DEF SlotType
  <2>. QED BY <2>1, <2>2
<1>6. replaced(p, next, entries, R) = [hid EXCEPT !.members = mm]
  BY DEF replaced, base, made, s
<1> HIDE DEF hid, mm
<1>7. /\ [hid EXCEPT !.members = mm] \in StoreType
      /\ [hid EXCEPT !.members = mm].members = mm
      /\ [hid EXCEPT !.members = mm].cell = hid.cell /\ [hid EXCEPT !.members = mm].slot = hid.slot
      /\ [hid EXCEPT !.members = mm].head = hid.head
  BY <1>4, <1>5 DEF StoreType
<1> HIDE DEF seen
<1>. QED BY <1>2, <1>3, <1>5, <1>6, <1>7 DEF seen, mm
-----------------------------------------------------------------------------
(* The store at rest.                                                      *)

CallType == [pc : {"idle", "snapshot", "commit", "stamped"}, content : Content \cup {None},
             input : Nat, raced : BOOLEAN, generation : Nat, record : SlotType \cup {<< >>}]

TypeOK == /\ Now \in StoreType
          /\ call \in [Emitter -> CallType]
          /\ outbox \in [Goroutine -> Seq(Id)]
          /\ unheard \in SUBSET Id

\* The record that commitStable is about to store for p has the same members in the
\* same places, and changes nothing of what the producer supports.
SameMembers(r, s) ==
    /\ r.exists /\ r.published /\ s.exists /\ s.published
    /\ r.visible = s.visible /\ r.hidden = s.hidden /\ r.shadows = s.shadows
    /\ DOMAIN r.entries = DOMAIN s.entries
    /\ \A i \in DOMAIN s.entries : r.entries[i].id = s.entries[i].id

StampedInv ==
    \A p \in Emitter : call[p].pc = "stamped" => call[p].record \in SlotType
                                                 /\ SameMembers(call[p].record, slot[p])

StoreInv == TypeOK /\ Consistent(Now) /\ Shown(Now, Alive(Now)) /\ StampedInv

Covered(p, next) == IF Shadowing(p, next) THEN coverage(p) ELSE {}

LEMMA ReplacementPrepares ==
  ASSUME Consistent(Now), Shown(Now, Alive(Now)), NEW p \in Emitter, NEW next \in Outputs[p],
         NEW entries \in Seq(EntryType), OnePlace(p, entries),
         NEW R, R = expandRegion(Now, Ids(slot[p].entries) \cup Ids(entries) \cup Covered(p, next))
  PROVE  Prepares(Now, replaced(p, next, entries, R), R)
<1> DEFINE st   == replaced(p, next, entries, R)
           seen == IF slot[p].exists THEN slot[p].visible ELSE object(p) # None
           K    == Alive(Now)
<1>1. p \in Id /\ Now \in StoreType /\ Mirrored(Now) /\ Now.slot = slot /\ Now.cell = cell
      /\ Now.members = members
  BY OutputType DEF Consistent, Now
<1>2. Ids(slot[p].entries) \in SUBSET Id /\ Ids(entries) \in SUBSET Id /\ Covered(p, next) \in SUBSET Id
  <2>1. Ids(Now.slot[p].entries) \in SUBSET Id
    BY <1>1, IdsType
  <2>2. \A i \in DOMAIN entries : entries[i] \in EntryType
    OBVIOUS
  <2>3. Ids(entries) \in SUBSET Id
    BY <2>2 DEF Ids, EntryType
  <2>. QED BY <1>1, <2>1, <2>3 DEF Covered, coverage
<1>3. /\ R \in SUBSET Id /\ Ids(slot[p].entries) \subseteq R /\ Ids(entries) \subseteq R
      /\ Covered(p, next) \subseteq R
      /\ \A q \in R : reached(Now, q) \subseteq R /\ coverage(q) \subseteq R
  <2> DEFINE S == Ids(slot[p].entries) \cup Ids(entries) \cup Covered(p, next)
  <2>1. S \in SUBSET Id /\ R = expandRegion(Now, S)
    BY <1>2
  <2> HIDE DEF S
  <2>2. R \in SUBSET Id /\ S \subseteq R
        /\ \A q \in R : reached(Now, q) \subseteq R /\ coverage(q) \subseteq R
    BY <1>1, <2>1, RegionClosed
  <2>. QED BY <2>2 DEF S
<1>4. /\ st \in StoreType /\ st.members = publishMembers(p, entries, retireMembers(p, R))
      /\ \A q \in Id : q # p => st.slot[q] = slot[q] /\ st.cell[q] = cell[q]
      /\ st.slot[p].exists /\ st.slot[p].published /\ st.slot[p].entries = entries
      /\ st.slot[p].shadows <=> Shadowing(p, next)
      /\ st.slot[p].visible <=> seen
      /\ st.slot[p].hidden <=> ~seen \/ IF slot[p].exists THEN slot[p].hidden ELSE cell[p].hidden
      /\ st.cell[p].static = cell[p].static /\ st.cell[p].rooted = cell[p].rooted
      /\ st.cell[p].retired = cell[p].retired
      /\ st.cell[p].hidden <=> cell[p].hidden \/ ~seen
  BY <1>1, ReplacedFields
<1> HIDE DEF st
<1>5. seen <=> p \in K
  <2>1. Shows(Now, K, p)
    BY <1>1 DEF Shown
  <2>2. object(p) # None <=> p \in K
    BY <1>1, CaptureAlive DEF object
  <2>. QED BY <1>1, <2>1, <2>2 DEF Shows
<1> HIDE DEF seen
<1>6. \A x \in Id : st.cell[x].static = cell[x].static /\ st.cell[x].rooted = cell[x].rooted
  BY <1>4
<1>7. Mirrored(st)
  <2> SUFFICES ASSUME NEW id \in Id, NEW q \in Id, NEW i \in Nat
               PROVE  <<q, i>> \in st.members[id] <=>
                         i \in DOMAIN st.slot[q].entries /\ st.slot[q].entries[i].id = id
    BY DEF Mirrored
  <2>1. <<q, i>> \in members[id] <=> i \in DOMAIN slot[q].entries /\ slot[q].entries[i].id = id
    BY <1>1 DEF Mirrored
  <2>2. st.members[id] = {m \in members[id] : id \in R => m[1] # p}
                         \cup {<<p, j>> : j \in {k \in DOMAIN entries : entries[k].id = id}}
    BY <1>4 DEF publishMembers, retireMembers
  <2>3. CASE q # p
    BY <1>4, <2>1, <2>2, <2>3
  <2>4. CASE q = p /\ id \in R
    BY <1>4, <2>2, <2>4
  <2>5. CASE q = p /\ id \notin R
    <3>1. \A k \in DOMAIN entries : entries[k].id # id
      BY <1>3, <2>5 DEF Ids
    <3>2. \A k \in DOMAIN slot[p].entries : slot[p].entries[k].id # id
      BY <1>3, <2>5 DEF Ids
    <3>. QED BY <1>4, <2>1, <2>2, <2>5, <3>1, <3>2
  <2>. QED BY <2>3, <2>4, <2>5
<1>8. Consistent(st)
  <2>1. Declared(st)
    BY <1>1, <1>6 DEF Consistent, Declared
  <2>2. Inventories(st)
    <3> SUFFICES ASSUME NEW q \in Id
                 PROVE  /\ OnePlace(q, st.slot[q].entries)
                        /\ q \in Owners \/ st.slot[q].published \/ st.slot[q].hidden => st.slot[q].exists
                        /\ DOMAIN st.slot[q].entries # {} => st.slot[q].published
      BY DEF Inventories
    <3>1. CASE q = p
      BY <1>4, <3>1
    <3>2. CASE q # p
      BY <1>1, <1>4, <3>2 DEF Consistent, Inventories
    <3>. QED BY <3>1, <3>2
  <2>. QED BY <1>4, <1>7, <2>1, <2>2 DEF Consistent
<1>9. Anchored(Now) = Anchored(st)
  BY <1>1, <1>6 DEF Anchored
<1>10. ASSUME NEW q \in Id, q # p PROVE reached(st, q) = reached(Now, q)
  BY <1>1, <1>4, <1>6, <1>10 DEF reached, coverage
<1>11. reached(st, p) \subseteq Ids(entries) \cup coverage(p)
  BY <1>4 DEF reached
<1>12. \A q \in R : reached(st, q) \subseteq R
  BY <1>3, <1>10, <1>11
<1>13. reached(Now, p) \ R = reached(st, p) \ R
  <2> DEFINE C == {f \in coverage(p) : cell[f].static # None}
  <2>1. reached(st, p) = Ids(entries) \cup (IF Shadowing(p, next) THEN {} ELSE C)
    BY <1>4, <1>6 DEF reached, coverage
  <2>2. reached(Now, p) = Ids(slot[p].entries) \cup (IF slot[p].shadows THEN {} ELSE C)
    BY <1>1 DEF reached
  <2>3. CASE Shadowing(p, next)
    <3>1. C \subseteq R
      BY <1>3, <2>3 DEF Covered
    <3> HIDE DEF C
    <3>. QED BY <1>3, <2>1, <2>2, <3>1
  <2>4. CASE ~Shadowing(p, next)
    <3>1. ~slot[p].shadows
      BY <2>4 DEF Shadowing
    <3> HIDE DEF C
    <3>. QED BY <1>3, <2>1, <2>2, <2>4, <3>1
  <2>. QED BY <2>3, <2>4
<1>14. \A q \in Id : reached(Now, q) \ R = reached(st, q) \ R
  BY <1>10, <1>13
<1>15. ASSUME NEW x \in Id \ R PROVE Shows(st, K, x)
  <2>1. Shows(Now, K, x)
    BY DEF Shown
  <2>2. \A i \in DOMAIN entries : entries[i].id # x
    BY <1>3 DEF Ids
  <2>3. \A i \in DOMAIN slot[p].entries : slot[p].entries[i].id # x
    BY <1>3 DEF Ids
  <2>4. Declarers(st, x) = Declarers(Now, x)
    BY <1>1, <1>4, <2>2, <2>3 DEF Declarers
  <2> HIDE DEF K
  <2>5. CASE x # p
    <3>1. st.slot[x] = Now.slot[x] /\ st.cell[x] = Now.cell[x]
      BY <1>1, <1>4, <2>5
    <3>. QED BY <1>1, <1>6, <2>1, <2>4, <3>1 DEF Shows
  <2>6. CASE x = p
    <3>1. p \in K => ~cell[p].hidden /\ ~slot[p].hidden
      BY <1>1, <2>1, <2>6 DEF Shows
    <3>2. p \in K /\ Declarers(st, p) \cap K = {} => ~cell[p].retired \/ cell[p].rooted
      BY <1>1, <2>1, <2>4, <2>6 DEF Shows
    <3>. QED BY <1>4, <1>5, <2>6, <3>1, <3>2 DEF Shows
  <2>. QED BY <2>5, <2>6
<1>. QED BY <1>3, <1>8, <1>9, <1>12, <1>14, <1>15 DEF Prepares, st

\* Another record with the same members in the same places.
LEMMA StableShown ==
  ASSUME Consistent(Now), Shown(Now, Alive(Now)), NEW p \in Id, NEW r \in SlotType,
         SameMembers(r, slot[p]), NEW st, st = [Now EXCEPT !.slot[p] = r]
  PROVE  Consistent(st) /\ Alive(st) = Alive(Now) /\ Shown(st, Alive(st))
<1> DEFINE K == Alive(Now)
<1>1. /\ Now \in StoreType /\ Mirrored(Now) /\ Now.slot = slot /\ Now.cell = cell
      /\ Now.members = members /\ slot \in [Id -> SlotType]
  BY DEF Consistent, Now, StoreType
<1>2. /\ st \in StoreType /\ st.cell = cell /\ st.members = members /\ st.slot[p] = r
      /\ \A q \in Id : q # p => st.slot[q] = slot[q]
  BY <1>1 DEF StoreType
<1>3. /\ r.exists /\ r.published /\ slot[p].exists /\ slot[p].published
      /\ r.visible = slot[p].visible /\ r.hidden = slot[p].hidden /\ r.shadows = slot[p].shadows
      /\ DOMAIN r.entries = DOMAIN slot[p].entries
      /\ \A i \in DOMAIN slot[p].entries : r.entries[i].id = slot[p].entries[i].id
  BY DEF SameMembers
<1>4. \A q \in Id : /\ (st.slot[q].exists <=> slot[q].exists)
                    /\ (st.slot[q].published <=> slot[q].published)
                    /\ st.slot[q].visible = slot[q].visible /\ st.slot[q].hidden = slot[q].hidden
                    /\ st.slot[q].shadows = slot[q].shadows
                    /\ DOMAIN st.slot[q].entries = DOMAIN slot[q].entries
                    /\ \A i \in DOMAIN slot[q].entries : st.slot[q].entries[i].id = slot[q].entries[i].id
  BY <1>2, <1>3
<1>5. Consistent(st)
  <2>1. Mirrored(st)
    <3> SUFFICES ASSUME NEW id \in Id, NEW q \in Id, NEW i \in Nat
                 PROVE  <<q, i>> \in st.members[id] <=>
                           i \in DOMAIN st.slot[q].entries /\ st.slot[q].entries[i].id = id
      BY DEF Mirrored
    <3>1. <<q, i>> \in members[id] <=> i \in DOMAIN slot[q].entries /\ slot[q].entries[i].id = id
      BY <1>1 DEF Mirrored
    <3>. QED BY <1>2, <1>4, <3>1
  <2>2. Declared(st)
    BY <1>1, <1>2 DEF Consistent, Declared
  <2>3. Inventories(st)
    <3> SUFFICES ASSUME NEW q \in Id
                 PROVE  /\ OnePlace(q, st.slot[q].entries)
                        /\ q \in Owners \/ st.slot[q].published \/ st.slot[q].hidden => st.slot[q].exists
                        /\ DOMAIN st.slot[q].entries # {} => st.slot[q].published
      BY DEF Inventories
    <3>1. /\ OnePlace(q, slot[q].entries)
          /\ q \in Owners \/ slot[q].published \/ slot[q].hidden => slot[q].exists
          /\ DOMAIN slot[q].entries # {} => slot[q].published
      BY <1>1 DEF Consistent, Inventories
    <3>. QED BY <1>4, <3>1 DEF OnePlace
  <2>. QED BY <1>2, <2>1, <2>2, <2>3 DEF Consistent
<1>6. Alive(st) = K
  <2>1. \A q \in Id : Ids(st.slot[q].entries) = Ids(slot[q].entries)
    BY <1>4 DEF Ids
  <2>2. \A q \in Id : /\ st.cell[q].static = Now.cell[q].static /\ st.cell[q].rooted = Now.cell[q].rooted
                      /\ Ids(st.slot[q].entries) = Ids(Now.slot[q].entries)
                      /\ st.slot[q].shadows = Now.slot[q].shadows
    BY <1>1, <1>2, <1>4, <2>1
  <2>. QED BY <2>2, AliveSame
<1>7. ASSUME NEW x \in Id PROVE Shows(st, K, x)
  <2>1. Shows(Now, K, x)
    BY DEF Shown
  <2>2. Declarers(st, x) = Declarers(Now, x)
    BY <1>1, <1>4 DEF Declarers
  <2> HIDE DEF K
  <2>. QED BY <1>1, <1>2, <1>4, <2>1, <2>2 DEF Shows
<1>. QED BY <1>5, <1>6, <1>7 DEF Shown
-----------------------------------------------------------------------------
(* The actions keep the store good.                                        *)

GoodStore(st) == Consistent(st) /\ Shown(st, Alive(st))

LEMMA Installed ==
  ASSUME NEW st \in StoreType, Install(st)
  PROVE  Now' = st
<1>1. st = [cell |-> st.cell, slot |-> st.slot, head |-> st.head, members |-> st.members]
  BY DEF StoreType
<1>. QED BY <1>1 DEF Install, Now

LEMMA NowFields ==
  Now.cell = cell /\ Now.slot = slot /\ Now.head = head /\ Now.members = members
  BY DEF Now

\* A static declaration becomes c, and the roots become r.
Declares(id, c, r) ==
    /\ StaticOf(Now') = [StaticOf(Now) EXCEPT ![id] = c] /\ RootedOf(Now') = r
    /\ InventoryOf(Now') = InventoryOf(Now) /\ SupersededOf(Now') = SupersededOf(Now)

LEMMA DeclaresCell ==
  ASSUME NEW st, Now' = st, NEW id \in Id, Consistent(Now),
         st.slot = slot, \A x \in Id : x # id => st.cell[x] = cell[x]
  PROVE  Declares(id, st.cell[id].static,
                  IF st.cell[id].rooted THEN RootedOf(Now) \cup {id} ELSE RootedOf(Now) \ {id})
<1>1. StaticOf(st) = [StaticOf(Now) EXCEPT ![id] = st.cell[id].static]
  BY NowFields DEF StaticOf
<1>2. RootedOf(st) = IF st.cell[id].rooted THEN RootedOf(Now) \cup {id} ELSE RootedOf(Now) \ {id}
  BY NowFields DEF RootedOf
<1>3. InventoryOf(st) = InventoryOf(Now) /\ SupersededOf(st) = SupersededOf(Now)
  BY NowFields DEF InventoryOf, SupersededOf
<1>. QED BY <1>1, <1>2, <1>3 DEF Declares

LEMMA WritableFacts == ASSUME NEW id \in Writable PROVE id \in Id /\ Owner[id] = None
  BY PublicationAssumption

LEMMA AdmitStep ==
  ASSUME GoodStore(Now), NEW id \in Writable, NEW c \in Content, ~cell[id].hidden, ~needsRoot(id),
         admit(id, c)
  PROVE  /\ GoodStore(Now') /\ slot' = slot /\ members' = members
         /\ \A x \in Id : x # id => cell'[x] = cell[x] /\ head'[x] = head[x]
         /\ Declares(id, c, RootedOf(Now))
<1> DEFINE d  == [cell[id] EXCEPT !.static = c, !.retired = FALSE]
           st == [Now EXCEPT !.cell[id] = d]
           next == advance(st, id)
<1>1. id \in Id /\ Owner[id] = None /\ c # None /\ Consistent(Now) /\ Now \in StoreType
      /\ cell \in [Id -> CellType] /\ cell[id] \in CellType
  BY WritableFacts, PublicationAssumption DEF GoodStore, Consistent, StoreType, Now
<1>2. /\ d \in CellType /\ d.static = c /\ d.rooted = cell[id].rooted /\ ~d.retired /\ ~d.hidden
  BY <1>1 DEF CellType
<1>3. [Now EXCEPT !.cell[id].static = c, !.cell[id].retired = FALSE] = st
  BY <1>1 DEF Now, CellType
<1> HIDE DEF d
<1>4. /\ st \in StoreType /\ st.slot = slot /\ st.members = members /\ st.cell[id] = d /\ st.head = head
      /\ \A x \in Id : x # id => st.cell[x] = cell[x]
  BY <1>1, <1>2, NowFields DEF StoreType
<1> HIDE DEF st
<1> DEFINE g == current(st, id) + 1
<1>5. /\ next \in StoreType /\ next.slot = slot /\ next.members = members
      /\ next.cell = [st.cell EXCEPT ![id].generation = g]
      /\ \A x \in Id : x # id => next.head[x] = head[x]
  BY <1>1, <1>4, AdvanceFields, ZenonT(40)
<1>6. Install(next)
  BY <1>3 DEF admit
<1> HIDE DEF next, g
<1>7. Now' = next
  BY <1>5, <1>6, Installed
<1>8. next.cell[id] = [d EXCEPT !.generation = g] /\ \A x \in Id : x # id => next.cell[x] = cell[x]
  BY <1>1, <1>4, <1>5 DEF StoreType
<1>9. /\ next.cell[id].static = c /\ next.cell[id].rooted = cell[id].rooted
      /\ ~next.cell[id].retired /\ ~next.cell[id].hidden
  BY <1>2, <1>8 DEF CellType
<1>10. cell[id].rooted \/ Lone(Now, id)
  BY NowFields DEF needsRoot, Lone
<1>11. OnlyCell(Now, next, id)
  BY <1>5, <1>8, NowFields DEF OnlyCell
<1>12. Consistent(next) /\ Shown(next, Alive(next))
  BY <1>1, <1>9, <1>10, <1>11, AdmitShown, NowFields DEF GoodStore
<1>13. Declares(id, c, IF cell[id].rooted THEN RootedOf(Now) \cup {id} ELSE RootedOf(Now) \ {id})
  BY <1>1, <1>5, <1>7, <1>8, <1>9, DeclaresCell
<1>14. (IF cell[id].rooted THEN RootedOf(Now) \cup {id} ELSE RootedOf(Now) \ {id}) = RootedOf(Now)
  BY <1>1, NowFields DEF RootedOf
<1>15. slot' = slot /\ members' = members /\ cell' = next.cell /\ head' = next.head
  BY <1>5, <1>6 DEF Install
<1>. QED BY <1>5, <1>7, <1>8, <1>12, <1>13, <1>14, <1>15 DEF GoodStore

WithdrawnCell(id) == [cell[id] EXCEPT !.static = None, !.rooted = FALSE]
RootCell(id, c) == [cell[id] EXCEPT !.static = c, !.rooted = TRUE]

LEMMA CellStores ==
  ASSUME Consistent(Now), NEW id \in Id, NEW c \in Content
  PROVE  /\ WithdrawnCell(id) \in CellType /\ WithdrawnCell(id).static = None /\ ~WithdrawnCell(id).rooted
         /\ RootCell(id, c) \in CellType /\ RootCell(id, c).static = c /\ RootCell(id, c).rooted
         /\ RootCell(id, c).generation = cell[id].generation
         /\ WithdrawnCell(id).generation = cell[id].generation
         /\ withdrawn(id) = [Now EXCEPT !.cell[id] = WithdrawnCell(id)]
         /\ [Now EXCEPT !.cell[id].static = c, !.cell[id].rooted = TRUE] = [Now EXCEPT !.cell[id] = RootCell(id, c)]
<1>1. cell \in [Id -> CellType] /\ cell[id] \in CellType
  BY DEF Consistent, StoreType, Now
<1>2. /\ WithdrawnCell(id) \in CellType /\ WithdrawnCell(id).static = None /\ ~WithdrawnCell(id).rooted
      /\ RootCell(id, c) \in CellType /\ RootCell(id, c).static = c /\ RootCell(id, c).rooted
      /\ RootCell(id, c).generation = cell[id].generation
      /\ WithdrawnCell(id).generation = cell[id].generation
  BY <1>1 DEF CellType, WithdrawnCell, RootCell
<1>3. withdrawn(id) = [Now EXCEPT !.cell[id] = WithdrawnCell(id)]
  BY <1>1 DEF withdrawn, WithdrawnCell, Now, CellType
<1>4. [Now EXCEPT !.cell[id].static = c, !.cell[id].rooted = TRUE] = [Now EXCEPT !.cell[id] = RootCell(id, c)]
  BY <1>1 DEF RootCell, Now, CellType
<1>. QED BY <1>2, <1>3, <1>4

LEMMA RegionStep ==
  ASSUME NEW st, NEW R, NEW direct, Prepares(Now, st, R), Install(reachability(st, Now, R, direct))
  PROVE  /\ Now' = reachability(st, Now, R, direct) /\ GoodStore(Now')
         /\ StaticOf(Now') = StaticOf(st) /\ RootedOf(Now') = RootedOf(st)
         /\ InventoryOf(Now') = InventoryOf(st) /\ SupersededOf(Now') = SupersededOf(st)
<1> DEFINE after == reachability(st, Now, R, direct)
<1>1. Consistent(after) /\ Shown(after, Alive(after)) /\ SamePromise(st, after)
  BY RegionDone
<1>2. after \in StoreType
  BY <1>1 DEF Consistent
<1> HIDE DEF after
<1>3. Now' = after
  BY <1>2, Installed DEF after
<1>. QED BY <1>1, <1>3 DEF GoodStore, SamePromise, after

LEMMA CellRegionStep ==
  ASSUME GoodStore(Now), NEW id \in Id, Owner[id] = None, NEW d \in CellType, d.rooted => d.static # None,
         NEW direct,
         LET R == expandRegion(Now, {id})
         IN Install(reachability([Now EXCEPT !.cell[id] = d], Now, R, direct))
  PROVE  /\ Prepares(Now, [Now EXCEPT !.cell[id] = d], expandRegion(Now, {id}))
         /\ Now' = reachability([Now EXCEPT !.cell[id] = d], Now, expandRegion(Now, {id}), direct)
         /\ GoodStore(Now')
         /\ Declares(id, d.static, IF d.rooted THEN RootedOf(Now) \cup {id} ELSE RootedOf(Now) \ {id})
<1> DEFINE R  == expandRegion(Now, {id})
           st == [Now EXCEPT !.cell[id] = d]
<1>1. Consistent(Now) /\ Shown(Now, Alive(Now)) /\ Now \in StoreType
  BY DEF GoodStore, Consistent
<1>2. Prepares(Now, st, R)
  BY <1>1, StaticPrepares
<1>3. st.slot = Now.slot /\ st.cell[id] = d /\ \A x \in Id : x # id => st.cell[x] = Now.cell[x]
  BY <1>1 DEF StoreType
<1> HIDE DEF st, R
<1>4. Install(reachability(st, Now, R, direct))
  BY DEF st, R
<1>5. /\ Now' = reachability(st, Now, R, direct) /\ GoodStore(Now')
      /\ StaticOf(Now') = StaticOf(st) /\ RootedOf(Now') = RootedOf(st)
      /\ InventoryOf(Now') = InventoryOf(st) /\ SupersededOf(Now') = SupersededOf(st)
  BY <1>2, <1>4, RegionStep
<1>6. /\ StaticOf(st) = [StaticOf(Now) EXCEPT ![id] = d.static]
      /\ RootedOf(st) = IF d.rooted THEN RootedOf(Now) \cup {id} ELSE RootedOf(Now) \ {id}
      /\ InventoryOf(st) = InventoryOf(Now) /\ SupersededOf(st) = SupersededOf(Now)
  BY <1>3 DEF StaticOf, RootedOf, InventoryOf, SupersededOf
<1>. QED BY <1>2, <1>5, <1>6 DEF Declares, st, R

LEMMA AnchorStep ==
  ASSUME GoodStore(Now), NEW id \in Writable, NEW c \in Content, addAnchor(id, c)
  PROVE  /\ GoodStore(Now') /\ AllLocked /\ anchored(id, c) \in Content
         /\ Declares(id, anchored(id, c), RootedOf(Now) \cup {id})
         /\ \E direct : LET st    == [Now EXCEPT !.cell[id] = RootCell(id, anchored(id, c))]
                            R     == expandRegion(Now, {id})
                            after == reachability(st, Now, R, direct)
                        IN /\ Prepares(Now, st, R) /\ Now' = after
                           /\ cell[id].static = None => id \in direct
                           /\ outbox' = [outbox EXCEPT ![Writer] = publications(Now, after, R, direct)]
<1> DEFINE direct == IF object(id) # c \/ cell[id].static = None THEN {id} ELSE {}
           st    == [Now EXCEPT !.cell[id] = RootCell(id, anchored(id, c))]
           R     == expandRegion(Now, {id})
           after == reachability(st, Now, R, direct)
<1>1. id \in Id /\ Owner[id] = None /\ Consistent(Now)
  BY WritableFacts, PublicationAssumption DEF GoodStore
<1>2. anchored(id, c) \in Content /\ anchored(id, c) # None
  BY <1>1, PublicationAssumption DEF anchored, Consistent, StoreType, CellType, Now
<1>3. /\ RootCell(id, anchored(id, c)) \in CellType /\ RootCell(id, anchored(id, c)).static = anchored(id, c)
      /\ RootCell(id, anchored(id, c)).rooted
      /\ [Now EXCEPT !.cell[id].static = anchored(id, c), !.cell[id].rooted = TRUE] = st
  BY <1>1, <1>2, CellStores
<1>4. AllLocked /\ Install(after) /\ Send(Writer, publications(Now, after, R, direct))
  BY <1>3 DEF addAnchor
<1>5. /\ Prepares(Now, st, R) /\ Now' = after /\ GoodStore(Now')
      /\ Declares(id, anchored(id, c), RootedOf(Now) \cup {id})
  BY <1>1, <1>2, <1>3, <1>4, CellRegionStep
<1>6. outbox' = [outbox EXCEPT ![Writer] = publications(Now, after, R, direct)]
  BY <1>4 DEF Send
<1>7. cell[id].static = None => id \in direct
  OBVIOUS
<1> HIDE DEF direct
<1>. QED BY <1>2, <1>4, <1>5, <1>6, <1>7

LEMMA DeleteStep ==
  ASSUME GoodStore(Now), NEW id \in Writable, DeleteObject(id)
  PROVE  /\ GoodStore(Now')
         /\ Declares(id, None, RootedOf(Now) \ {id})
         /\ \/ /\ Lone(Now, id) /\ slot' = slot /\ members' = members /\ outbox' = outbox
               /\ \A x \in Id : x # id => cell'[x] = cell[x] /\ head'[x] = head[x]
               /\ Alive(Now') = Alive(Now) \ {id}
            \/ /\ AllLocked
               /\ LET st    == [Now EXCEPT !.cell[id] = WithdrawnCell(id)]
                      R     == expandRegion(Now, {id})
                      after == reachability(st, Now, R, {id})
                  IN /\ Prepares(Now, st, R) /\ Now' = after
                     /\ outbox' = [outbox EXCEPT ![Writer] = publications(Now, after, R, {id})]
<1> DEFINE st    == [Now EXCEPT !.cell[id] = WithdrawnCell(id)]
           R     == expandRegion(Now, {id})
           after == reachability(st, Now, R, {id})
<1>1. /\ id \in Id /\ Owner[id] = None /\ Consistent(Now) /\ Shown(Now, Alive(Now)) /\ Now \in StoreType
      /\ cell \in [Id -> CellType]
  BY WritableFacts DEF GoodStore, Consistent, StoreType, Now
<1>2. /\ WithdrawnCell(id) \in CellType /\ WithdrawnCell(id).static = None /\ ~WithdrawnCell(id).rooted
      /\ withdrawn(id) = st
  <2>1. cell[id].static \in Content
    BY <1>1 DEF DeleteObject, CellType
  <2>. QED BY <1>1, <2>1, CellStores
<1>3. CASE ~Lone(Now, id)
  <2>1. AllLocked /\ Install(after) /\ Send(Writer, publications(Now, after, R, {id}))
    BY <1>2, <1>3, NowFields DEF DeleteObject, Lone
  <2>2. /\ Prepares(Now, st, R) /\ Now' = after /\ GoodStore(Now')
        /\ Declares(id, None, RootedOf(Now) \ {id})
    BY <1>1, <1>2, <2>1, CellRegionStep
  <2>. QED BY <2>1, <2>2 DEF Send
<1>4. CASE Lone(Now, id)
  <2> DEFINE next == advance(st, id)
             g == current(st, id) + 1
  <2>1. Install(next) /\ outbox' = outbox
    BY <1>2, <1>4, NowFields DEF DeleteObject, Lone, deleteLocked
  <2>2. /\ st \in StoreType /\ st.slot = slot /\ st.members = members /\ st.head = head
        /\ st.cell = [cell EXCEPT ![id] = WithdrawnCell(id)]
    BY <1>1, <1>2, NowFields DEF StoreType
  <2> HIDE DEF st, R, after
  <2>3. /\ next \in StoreType /\ next.slot = slot /\ next.members = members
        /\ next.cell = [st.cell EXCEPT ![id].generation = g]
        /\ \A x \in Id : x # id => next.head[x] = head[x]
    <3>1. /\ next \in StoreType /\ next.slot = st.slot /\ next.members = st.members
          /\ next.cell = [st.cell EXCEPT ![id].generation = g]
          /\ \A x \in Id : x # id => next.head[x] = st.head[x]
      BY <1>1, <2>2, AdvanceFields
    <3> HIDE DEF next, g
    <3>. QED BY <2>2, <3>1
  <2> HIDE DEF next, g
  <2>4. Now' = next
    BY <2>1, <2>3, Installed
  <2>5. next.cell[id] = [WithdrawnCell(id) EXCEPT !.generation = g]
        /\ \A x \in Id : x # id => next.cell[x] = cell[x]
    BY <1>1, <2>2, <2>3
  <2>6. next.cell[id].static = None /\ ~next.cell[id].rooted
    BY <1>2, <2>5 DEF CellType
  <2>7. OnlyCell(Now, next, id)
    BY <2>3, <2>5, NowFields DEF OnlyCell
  <2>8. Consistent(next) /\ Shown(next, Alive(next)) /\ Alive(next) = Alive(Now) \ {id}
    BY <1>1, <1>4, <2>6, <2>7, WithdrawShown
  <2>9. Declares(id, None, RootedOf(Now) \ {id})
    <3>1. Declares(id, next.cell[id].static, IF next.cell[id].rooted THEN RootedOf(Now) \cup {id}
                                             ELSE RootedOf(Now) \ {id})
      BY <1>1, <2>3, <2>4, <2>5, DeclaresCell
    <3>. QED BY <2>6, <3>1
  <2>10. slot' = slot /\ members' = members /\ cell' = next.cell /\ head' = next.head
    BY <2>1, <2>3 DEF Install
  <2>. QED BY <1>4, <2>1, <2>3, <2>4, <2>5, <2>8, <2>9, <2>10 DEF GoodStore
<1>. QED BY <1>3, <1>4

\* The producer p publishes another inventory.
Publishes(p) ==
    /\ StaticOf(Now') = StaticOf(Now) /\ RootedOf(Now') = RootedOf(Now)
    /\ InventoryOf(Now') = [InventoryOf(Now) EXCEPT ![p] = InventoryOf(Now')[p]]
    /\ SupersededOf(Now') \in {SupersededOf(Now), SupersededOf(Now) \cup {p}}

LEMMA ReplaceStep ==
  ASSUME GoodStore(Now), NEW p \in Emitter, NEW next \in Outputs[p],
         NEW entries \in Seq(EntryType), OnePlace(p, entries), commitReplacement(p, next, entries)
  PROVE  /\ GoodStore(Now') /\ AllLocked /\ Publishes(p)
         /\ LET R     == expandRegion(Now, Ids(slot[p].entries) \cup Ids(entries) \cup Covered(p, next))
                st    == replaced(p, next, entries, R)
                direct == changedTargets(slot[p].entries, entries) \cup Covered(p, next)
                after == reachability(st, Now, R, direct)
            IN /\ Prepares(Now, st, R) /\ Now' = after
               /\ outbox' = [outbox EXCEPT ![p] = publications(Now, after, R, direct)]
<1> DEFINE direct == changedTargets(slot[p].entries, entries) \cup Covered(p, next)
           R     == expandRegion(Now, Ids(slot[p].entries) \cup Ids(entries) \cup Covered(p, next))
           st    == replaced(p, next, entries, R)
           after == reachability(st, Now, R, direct)
<1>1. p \in Id /\ Consistent(Now) /\ Shown(Now, Alive(Now)) /\ Now \in StoreType /\ Mirrored(Now)
  BY OutputType DEF GoodStore, Consistent
<1>2. AllLocked /\ Install(after) /\ outbox' = [outbox EXCEPT ![p] = publications(Now, after, R, direct)]
  BY DEF commitReplacement, Send, Covered, Shadowing
<1>3. Prepares(Now, st, R)
  BY <1>1, ReplacementPrepares
<1>4. /\ \A q \in Id : q # p => st.slot[q] = slot[q] /\ st.cell[q] = cell[q]
      /\ st.cell[p].static = cell[p].static /\ st.cell[p].rooted = cell[p].rooted
      /\ st.slot[p].shadows <=> Shadowing(p, next)
  BY <1>1, ReplacedFields
<1> HIDE DEF direct, R, st, after
<1>5. /\ Now' = after /\ GoodStore(Now')
      /\ StaticOf(Now') = StaticOf(st) /\ RootedOf(Now') = RootedOf(st)
      /\ InventoryOf(Now') = InventoryOf(st) /\ SupersededOf(Now') = SupersededOf(st)
  BY <1>2, <1>3, RegionStep DEF after
<1>6. StaticOf(st) = StaticOf(Now) /\ RootedOf(st) = RootedOf(Now)
  <2>1. \A q \in Id : st.cell[q].static = cell[q].static /\ st.cell[q].rooted = cell[q].rooted
    BY <1>4
  <2>. QED BY <2>1, NowFields DEF StaticOf, RootedOf
<1>7. InventoryOf(st) = [InventoryOf(Now) EXCEPT ![p] = InventoryOf(st)[p]]
  BY <1>1, <1>4, NowFields DEF InventoryOf
<1>8. SupersededOf(st) \in {SupersededOf(Now), SupersededOf(Now) \cup {p}}
  <2>1. slot[p].shadows => st.slot[p].shadows
    BY <1>4 DEF Shadowing
  <2>. QED BY <1>1, <1>4, <2>1, NowFields DEF SupersededOf
<1>9. Publishes(p)
  BY <1>5, <1>6, <1>7, <1>8 DEF Publishes
<1>. QED BY <1>2, <1>3, <1>5, <1>9 DEF after, st, R, direct

\* commitStable has stamped its entries.
LEMMA StampStep ==
  ASSUME GoodStore(Now), NEW p \in Emitter, NEW next \in Outputs[p],
         NEW entries \in Seq(EntryType), Stable(p, next, entries), stampStable(p, next, entries)
  PROVE  \E r \in SlotType :
            /\ call' = [call EXCEPT ![p].pc = "stamped", ![p].record = r]
            /\ SameMembers(r, slot[p])
            /\ \A i \in DOMAIN slot[p].entries :
                  /\ i \in DOMAIN entries /\ entries[i].id = slot[p].entries[i].id
                  /\ r.entries[i].content = entries[i].content
                  /\ r.entries[i].generation =
                        IF differs(p, entries[i]) /\ head[entries[i].id].selected = p
                        THEN stamp(Now, entries[i].id) + 1 ELSE entries[i].generation
<1> DEFINE prev == slot[p].entries
           g(e) == IF differs(p, e) /\ head[e.id].selected = p THEN stamp(Now, e.id) + 1 ELSE e.generation
           stamped(e) == IF differs(p, e) /\ head[e.id].selected = p
                         THEN [e EXCEPT !.generation = stamp(Now, e.id) + 1] ELSE e
           out == [i \in DOMAIN entries |-> stamped(entries[i])]
           r == proposal(p, next, out)
<1>1. p \in Id /\ Now \in StoreType /\ slot[p] \in SlotType /\ Consistent(Now)
  BY OutputType DEF GoodStore, Consistent, StoreType, Now
<1>2. ASSUME NEW e \in EntryType
      PROVE  /\ stamped(e) \in EntryType /\ stamped(e).id = e.id /\ stamped(e).content = e.content
             /\ stamped(e).generation = g(e)
  <2>1. e.id \in Id /\ e.generation \in Nat
    BY DEF EntryType
  <2>2. stamp(Now, e.id) + 1 \in Nat
    BY <1>1, <2>1, StampType
  <2> DEFINE n == stamp(Now, e.id) + 1
  <2>3. n \in Nat
    BY <2>2
  <2>4. CASE differs(p, e) /\ head[e.id].selected = p
    <3>1. stamped(e) = [e EXCEPT !.generation = n] /\ g(e) = n
      BY <2>4
    <3> HIDE DEF n, stamped, g
    <3>. QED BY <2>3, <3>1 DEF EntryType
  <2>5. CASE ~(differs(p, e) /\ head[e.id].selected = p)
    BY <2>5
  <2>. QED BY <2>4, <2>5
<1> HIDE DEF stamped, g
<1>3. DOMAIN entries = 1 .. Len(entries) /\ Len(entries) \in Nat /\ \A i \in DOMAIN entries : entries[i] \in EntryType
  OBVIOUS
<1>4. out \in Seq(EntryType) /\ DOMAIN out = DOMAIN entries
  BY <1>2, <1>3
<1>5. /\ r \in SlotType /\ r.exists /\ r.published /\ r.entries = out
      /\ r.shadows <=> Shadowing(p, next)
      /\ r.visible = slot[p].visible /\ r.hidden = slot[p].hidden
  BY <1>1, <1>4, ProposalFields
<1>6. call' = [call EXCEPT ![p].pc = "stamped", ![p].record = r]
  BY DEF stampStable, stamped
<1> HIDE DEF r
<1>7. /\ slot[p].published /\ DOMAIN entries = DOMAIN prev
      /\ \A i \in DOMAIN prev : entries[i].id = prev[i].id
      /\ next.complete \/ next.failed => slot[p].shadows
  <2> DEFINE A == [i \in DOMAIN entries |-> entries[i].id]
             B == [i \in DOMAIN prev |-> prev[i].id]
  <2>1. A = B /\ slot[p].published /\ (next.complete \/ next.failed => slot[p].shadows)
    BY DEF Stable
  <2>2. DOMAIN A = DOMAIN entries /\ DOMAIN B = DOMAIN prev
    OBVIOUS
  <2>3. DOMAIN entries = DOMAIN prev
    BY <2>1, <2>2
  <2>4. \A i \in DOMAIN prev : A[i] = entries[i].id /\ B[i] = prev[i].id
    BY <2>3
  <2>. QED BY <2>1, <2>3, <2>4
<1>8. r.shadows = slot[p].shadows
  <2>1. r.shadows \in BOOLEAN /\ slot[p].shadows \in BOOLEAN
    BY <1>1, <1>5 DEF SlotType
  <2>2. r.shadows <=> slot[p].shadows
    BY <1>5, <1>7 DEF Shadowing
  <2>. QED BY <2>1, <2>2
<1>9. slot[p].exists
  BY <1>1, <1>7, NowFields DEF Consistent, Inventories
<1>10. \A i \in DOMAIN prev : out[i] = stamped(entries[i]) /\ entries[i] \in EntryType
  BY <1>3, <1>7
<1>11. \A i \in DOMAIN prev : r.entries[i].id = prev[i].id
                              /\ r.entries[i].content = entries[i].content
                              /\ r.entries[i].generation = g(entries[i])
  BY <1>2, <1>5, <1>7, <1>10
<1>12. SameMembers(r, slot[p])
  BY <1>4, <1>5, <1>7, <1>8, <1>9, <1>11 DEF SameMembers
<1>. QED BY <1>5, <1>6, <1>7, <1>11, <1>12 DEF g

LEMMA StableStep ==
  ASSUME StoreInv, NEW p \in Emitter, commitStable(p)
  PROVE  /\ GoodStore(Now') /\ Publishes(p) /\ Alive(Now') = Alive(Now)
         /\ Now' = [Now EXCEPT !.slot[p] = call[p].record]
<1> DEFINE r  == call[p].record
           st == [Now EXCEPT !.slot[p] = r]
<1>1. p \in Id /\ r \in SlotType /\ SameMembers(r, slot[p]) /\ Consistent(Now) /\ Shown(Now, Alive(Now))
  BY PublicationAssumption DEF Emitter, StoreInv, StampedInv, commitStable
<1>2. Now' = st
  BY DEF commitStable, Now
<1>3. Consistent(st) /\ Alive(st) = Alive(Now) /\ Shown(st, Alive(st))
  BY <1>1, StableShown
<1>4. /\ st.cell = cell /\ st.slot[p] = r /\ \A q \in Id : q # p => st.slot[q] = slot[q]
  BY <1>1 DEF Now, Consistent, StoreType
<1> HIDE DEF st, r
<1>5. r.shadows = slot[p].shadows
  BY <1>1 DEF SameMembers
<1>6. Publishes(p)
  <2>1. StaticOf(st) = StaticOf(Now) /\ RootedOf(st) = RootedOf(Now)
    BY <1>4, NowFields DEF StaticOf, RootedOf
  <2>2. InventoryOf(st) = [InventoryOf(Now) EXCEPT ![p] = InventoryOf(st)[p]]
    BY <1>1, <1>4, NowFields DEF InventoryOf
  <2>3. SupersededOf(st) = SupersededOf(Now)
    BY <1>4, <1>5, NowFields DEF SupersededOf
  <2>. QED BY <1>2, <2>1, <2>2, <2>3 DEF Publishes
<1>. QED BY <1>2, <1>3, <1>6 DEF GoodStore, st, r
-----------------------------------------------------------------------------
(* Events.                                                                 *)

Tells(s, id) == \E i \in DOMAIN s : s[i] = id

LEMMA OrderedIds ==
  ASSUME NEW S \in SUBSET Id
  PROVE  inOrder(S) \in Seq(Id) /\ \A id \in S : Tells(inOrder(S), id)
<1>1. S \in SUBSET Nat /\ IsFiniteSet(S)
  BY PublicationAssumption, FS_Subset
<1>2. Increasing(inOrder(S), S) /\ Cardinality(S) \in Nat
  BY <1>1, InOrder, FS_CardinalityType
<1>3. inOrder(S) \in [1 .. Cardinality(S) -> S]
  BY <1>2 DEF Increasing
<1>4. inOrder(S) \in Seq(Id)
  BY <1>2, <1>3
<1>. QED BY <1>2, <1>4 DEF Increasing, Tells

\* Whatever has another object, and not none, is announced.
LEMMA PublicationsFacts ==
  ASSUME NEW before, NEW after, NEW R \in SUBSET Id, NEW direct
  PROVE  LET told == publications(before, after, R, direct) IN
         /\ told \in Seq(Id)
         /\ \A id \in R : /\ capture(after, id).content # capture(before, id).content
                          /\ capture(after, id).content # None
                          => Tells(told, id)
<1> DEFINE was(id) == capture(before, id).content
           now(id) == capture(after, id).content
           S == {id \in R : /\ id \in direct \/ was(id) # now(id)
                            /\ now(id) # None \/ visible(before, id) \/ ~after.cell[id].hidden
                            /\ was(id) = None \/ now(id) = None \/ was(id) # now(id)}
<1>1. publications(before, after, R, direct) = inOrder(S)
  BY DEF publications
<1>2. S \in SUBSET Id
  OBVIOUS
<1>3. \A id \in R : was(id) # now(id) /\ now(id) # None => id \in S
  OBVIOUS
<1> HIDE DEF S
<1>4. inOrder(S) \in Seq(Id) /\ \A id \in S : Tells(inOrder(S), id)
  BY <1>2, OrderedIds
<1>. QED BY <1>1, <1>3, <1>4

LEMMA StableEventsFacts ==
  ASSUME NEW p, NEW next, NEW entries \in Seq(EntryType), NEW usable
  PROVE  LET told == stableEvents(p, next, entries, usable) IN
         /\ told \in Seq(Id)
         /\ slot[p].visible =>
               \A i \in DOMAIN entries : differs(p, entries[i]) => Tells(told, entries[i].id)
<1> DEFINE T == {e \in Range(entries) : differs(p, e) \/ (next.complete /\ ~usable)}
           o == only(entries, T)
           f == [i \in DOMAIN o |-> o[i].id]
<1>1. stableEvents(p, next, entries, usable) = IF slot[p].visible THEN f ELSE << >>
  BY DEF stableEvents
<1>2. \A i \in DOMAIN entries : differs(p, entries[i]) => entries[i] \in T
  BY DEF Range
<1> HIDE DEF T
<1>3. o \in Seq(EntryType) /\ \A k \in DOMAIN entries : entries[k] \in T => \E i \in DOMAIN o : o[i] = entries[k]
  BY Picked
<1> HIDE DEF o
<1>4. DOMAIN o = 1 .. Len(o) /\ Len(o) \in Nat /\ \A i \in DOMAIN o : o[i].id \in Id
  <2>1. \A i \in DOMAIN o : o[i] \in EntryType
    BY <1>3
  <2>. QED BY <1>3, <2>1 DEF EntryType
<1>5. f \in Seq(Id) /\ DOMAIN f = DOMAIN o /\ \A i \in DOMAIN o : f[i] = o[i].id
  BY <1>4
<1> HIDE DEF f
<1>6. << >> \in Seq(Id)
  OBVIOUS
<1>7. ASSUME slot[p].visible, NEW i \in DOMAIN entries, differs(p, entries[i]) PROVE Tells(f, entries[i].id)
  BY <1>2, <1>3, <1>5, <1>7 DEF Tells
<1>. QED BY <1>1, <1>5, <1>6, <1>7
-----------------------------------------------------------------------------
(* The store is good in every state.                                       *)

LEMMA InitStore == Init => StoreInv
<1> SUFFICES ASSUME Init PROVE StoreInv
  OBVIOUS
<1> USE DEF Init
<1>1. Now \in StoreType
  <2>1. cell \in [Id -> CellType]
    BY PublicationAssumption DEF CellType
  <2>2. ASSUME NEW id \in Id PROVE slot[id] \in SlotType
    <3>1. PICK a \in BOOLEAN : a = (id \in Owners)
      BY (id \in Owners) \in BOOLEAN
    <3>2. PICK b \in BOOLEAN : b = (id \in Owners /\ Authored[id] # None)
      BY (id \in Owners /\ Authored[id] # None) \in BOOLEAN
    <3>3. << >> \in Seq(EntryType)
      OBVIOUS
    <3> DEFINE E == Seq(EntryType)
    <3> HIDE DEF E
    <3>. QED BY <3>1, <3>2, <3>3 DEF SlotType, E
  <2>3. slot \in [Id -> SlotType]
    BY <2>2
  <2>4. head \in [Id -> HeadType] /\ members \in [Id -> SUBSET (Id \X Nat)]
    BY DEF HeadType, None
  <2>. QED BY <2>1, <2>3, <2>4 DEF Now, StoreType
<1>2. \A id \in Id : /\ cell[id].static = Authored[id] /\ ~cell[id].rooted /\ ~cell[id].retired
                     /\ ~cell[id].hidden
                     /\ (slot[id].exists <=> id \in Owners) /\ slot[id].entries = << >>
                     /\ (slot[id].visible <=> id \in Owners /\ Authored[id] # None)
                     /\ ~slot[id].hidden /\ ~slot[id].published /\ ~slot[id].shadows
                     /\ members[id] = {}
  OBVIOUS
<1>3. Consistent(Now)
  <2>1. Declared(Now)
    BY <1>2, NowFields DEF Declared
  <2>2. Inventories(Now)
    BY <1>2, NowFields DEF Inventories, OnePlace
  <2>3. Mirrored(Now)
    BY <1>2, NowFields DEF Mirrored
  <2>. QED BY <1>1, <2>1, <2>2, <2>3 DEF Consistent
<1> DEFINE K == Alive(Now)
<1>4. /\ K \subseteq Id /\ Anchored(Now) \subseteq K /\ \A q \in K : reached(Now, q) \subseteq K
  BY <1>1, AliveClosed
<1>5. \A q \in Id : reached(Now, q) = {f \in Id : Owner[f] = q /\ Authored[f] # None}
  BY <1>2, NowFields DEF reached, coverage, Ids
<1>6. \A id \in Id : Authored[id] # None => id \in K
  <2>1. \A id \in Id : Authored[id] # None /\ Owner[id] \in {None, id} \cup K => id \in K
    <3> SUFFICES ASSUME NEW id \in Id, Authored[id] # None, Owner[id] \in {None, id} \cup K PROVE id \in K
      OBVIOUS
    <3>1. CASE Owner[id] \in {None, id}
      BY <1>2, <1>4, <3>1, NowFields DEF Anchored
    <3>2. CASE Owner[id] \in K
      BY <1>4, <1>5, <3>2
    <3>. QED BY <3>1, <3>2
  <2> HIDE DEF K
  <2>. QED BY <1>4, <2>1, DiscoveryAssumption
<1>7. \A id \in K : Authored[id] # None
  <2> SUFFICES ASSUME NEW id \in K PROVE Authored[id] # None
    OBVIOUS
  <2>1. id \in Anchored(Now) \/ \E q \in K : id \in reached(Now, q)
    BY <1>1, AliveSupported
  <2>. QED BY <1>2, <1>4, <1>5, <2>1, NowFields DEF Anchored
\* Nothing is discovered in the tree of a declaration that is not there.
<1>8. ASSUME NEW f \in Id, Authored[f] # None, Owner[f] \in Id PROVE Authored[Owner[f]] # None
  <2> SUFFICES ASSUME Authored[Owner[f]] = None PROVE FALSE
    OBVIOUS
  <2> DEFINE L == {id \in Id : Authored[id] # None} \ {f}
  <2>1. Owner[f] \notin {None, f} \cup L
    BY <1>8, OwnerType
  <2>2. L \in SUBSET Id /\ \A id \in Id : Authored[id] # None /\ Owner[id] \in {None, id} \cup L => id \in L
    BY <2>1
  <2>3. f \notin L
    OBVIOUS
  <2> HIDE DEF L
  <2>. QED BY <1>8, <2>2, <2>3, DiscoveryAssumption
<1> HIDE DEF K
<1>9. ASSUME NEW id \in Id PROVE Shows(Now, K, id)
  <2>1. Declarers(Now, id) = {}
    BY <1>2, NowFields DEF Declarers
  <2>2. id \in K <=> Authored[id] # None
    BY <1>6, <1>7
  <2>3. id \notin K => \A f \in Id : Owner[f] = id => Authored[f] = None
    BY <1>8, <2>2
  <2>. QED BY <1>2, <2>1, <2>2, <2>3, NowFields, ZenonT(60) DEF Shows
<1>10. TypeOK /\ StampedInv
  <2>1. Idle \in CallType
    BY DEF Idle, CallType
  <2>2. call \in [Emitter -> CallType] /\ \A p \in Emitter : call[p].pc = "idle"
    BY <2>1 DEF Idle
  <2>3. << >> \in Seq(Id)
    OBVIOUS
  <2>4. outbox \in [Goroutine -> Seq(Id)] /\ unheard \in SUBSET Id
    BY <2>3
  <2>. QED BY <1>1, <2>2, <2>4 DEF TypeOK, StampedInv
<1>. QED BY <1>3, <1>9, <1>10 DEF StoreInv, Shown, K

LEMMA EmitterFacts == Emitter \subseteq Id /\ Emitter \subseteq Goroutine /\ Writer \in Goroutine
  BY PublicationAssumption DEF Emitter, Goroutine

\* No call changes, and no slot of a call that has stamped its entries.
LEMMA StampsKept ==
  ASSUME StoreInv, call' = call, AllLocked \/ slot' = slot
  PROVE  StampedInv'
<1>1. CASE AllLocked
  BY <1>1 DEF StampedInv, AllLocked
<1>2. CASE slot' = slot
  BY <1>2 DEF StampedInv, StoreInv
<1>. QED BY <1>1, <1>2

\* One call changes, to one that has stamped nothing.
LEMMA OneCall ==
  ASSUME StoreInv, NEW p \in Emitter, NEW k \in CallType, k.pc # "stamped", call' = [call EXCEPT ![p] = k],
         AllLocked \/ \A q \in Emitter : q # p => slot'[q] = slot[q]
  PROVE  call' \in [Emitter -> CallType] /\ StampedInv'
<1>1. call \in [Emitter -> CallType] /\ StampedInv
  BY DEF StoreInv, TypeOK
<1>2. call' \in [Emitter -> CallType]
  BY <1>1
<1>3. ASSUME NEW q \in Emitter, call'[q].pc = "stamped"
      PROVE  call'[q].record \in SlotType /\ SameMembers(call'[q].record, slot'[q])
  <2>1. q # p /\ call'[q] = call[q]
    BY <1>1, <1>3
  <2>. QED BY <1>1, <1>3, <2>1 DEF StampedInv, AllLocked
<1>. QED BY <1>2, <1>3 DEF StampedInv

LEMMA IdleType == Idle \in CallType /\ Idle.pc = "idle"
  BY DEF Idle, CallType

LEMMA AddObjectStep ==
  ASSUME StoreInv, NEW id \in Writable, NEW c \in Content, AddObject(id, c)
  PROVE  /\ StoreInv'
         /\ \/ Now' = Now
            \/ \E a \in Content : Declares(id, a, RootedOf(Now)) \/ Declares(id, a, RootedOf(Now) \cup {id})
<1>1. /\ GoodStore(Now) /\ call' = call /\ Writer \in Goroutine /\ id \in Id
      /\ call \in [Emitter -> CallType] /\ outbox \in [Goroutine -> Seq(Id)]
  BY EmitterFacts, WritableFacts DEF AddObject, StoreInv, GoodStore, TypeOK
<1>2. unheard' \in SUBSET Id
  BY DEF AddObject, NoteChanges, StoreInv, TypeOK
<1>3. CASE UNCHANGED <<store, outbox>>
  <2>1. Now' = Now /\ slot' = slot /\ outbox' = outbox
    BY <1>3 DEF store, Now
  <2>. QED BY <1>1, <1>2, <2>1, StampsKept DEF StoreInv, TypeOK
<1>4. CASE ~cell[id].hidden /\ ~needsRoot(id) /\ admit(id, c)
  <2>1. GoodStore(Now') /\ slot' = slot /\ Declares(id, c, RootedOf(Now))
    BY <1>1, <1>4, AdmitStep
  <2>2. outbox' \in [Goroutine -> Seq(Id)]
    <3>1. outbox' = [outbox EXCEPT ![Writer] = <<id>>]
      BY <1>4 DEF admit, Send
    <3>. QED BY <1>1, <3>1
  <2>. QED BY <1>1, <1>2, <2>1, <2>2, StampsKept DEF StoreInv, TypeOK, GoodStore, Consistent
<1>5. CASE addAnchor(id, c)
  <2>1. PICK direct :
           LET st    == [Now EXCEPT !.cell[id] = RootCell(id, anchored(id, c))]
               R     == expandRegion(Now, {id})
               after == reachability(st, Now, R, direct)
           IN /\ Prepares(Now, st, R) /\ Now' = after
              /\ outbox' = [outbox EXCEPT ![Writer] = publications(Now, after, R, direct)]
    BY <1>1, <1>5, AnchorStep
  <2>2. /\ GoodStore(Now') /\ AllLocked /\ anchored(id, c) \in Content
        /\ Declares(id, anchored(id, c), RootedOf(Now) \cup {id})
    BY <1>1, <1>5, AnchorStep
  <2>3. outbox' \in [Goroutine -> Seq(Id)]
    <3> DEFINE R == expandRegion(Now, {id})
               told == publications(Now, Now', R, direct)
    <3>1. R \in SUBSET Id /\ outbox' = [outbox EXCEPT ![Writer] = told]
      BY <2>1 DEF Prepares
    <3> HIDE DEF R
    <3>2. told \in Seq(Id)
      BY <3>1, PublicationsFacts
    <3> HIDE DEF told
    <3>. QED BY <1>1, <3>1, <3>2
  <2>. QED BY <1>1, <1>2, <2>2, <2>3, StampsKept DEF StoreInv, TypeOK, GoodStore, Consistent
<1>. QED BY <1>3, <1>4, <1>5 DEF AddObject, commitObjectUpdate

LEMMA DeleteObjectStep ==
  ASSUME StoreInv, NEW id \in Writable, DeleteObject(id)
  PROVE  StoreInv' /\ Declares(id, None, RootedOf(Now) \ {id})
<1>1. /\ GoodStore(Now) /\ call' = call /\ Writer \in Goroutine /\ id \in Id
      /\ call \in [Emitter -> CallType] /\ outbox \in [Goroutine -> Seq(Id)]
  BY EmitterFacts, WritableFacts DEF DeleteObject, StoreInv, GoodStore, TypeOK
<1>2. unheard' \in SUBSET Id
  BY DEF DeleteObject, NoteChanges, StoreInv, TypeOK
<1> DEFINE R == expandRegion(Now, {id})
           told == publications(Now, Now', R, {id})
<1>3. /\ GoodStore(Now') /\ Declares(id, None, RootedOf(Now) \ {id})
      /\ \/ slot' = slot /\ outbox' = outbox
         \/ AllLocked /\ R \in SUBSET Id /\ outbox' = [outbox EXCEPT ![Writer] = told]
  BY <1>1, DeleteStep DEF Prepares
<1> HIDE DEF R
<1>4. R \in SUBSET Id => told \in Seq(Id)
  BY PublicationsFacts
<1> HIDE DEF told
<1>5. outbox' \in [Goroutine -> Seq(Id)]
  BY <1>1, <1>3, <1>4
<1>. QED BY <1>1, <1>2, <1>3, <1>5, StampsKept DEF StoreInv, TypeOK, GoodStore, Consistent

\* Only the heads move.
LEMMA HeadsOnly ==
  ASSUME GoodStore(Now), cell' = cell, slot' = slot, members' = members, head' \in [Id -> HeadType]
  PROVE  GoodStore(Now') /\ SamePromise(Now, Now') /\ \A id \in Id : capture(Now', id) = capture(Now, id)
<1> DEFINE st == Now'
<1>1. st.cell = Now.cell /\ st.slot = Now.slot /\ st.members = Now.members
  BY DEF Now
<1>2. Consistent(Now) /\ Shown(Now, Alive(Now)) /\ Now \in StoreType
  BY DEF GoodStore, Consistent
<1>3. st \in StoreType
  BY <1>2 DEF Now, StoreType
<1> HIDE DEF st
<1>4. Consistent(st)
  <2>1. Mirrored(st)
    BY <1>1, <1>2, MirroredSame DEF Consistent
  <2>2. Declared(st) /\ Inventories(st)
    BY <1>1, <1>2 DEF Consistent, Declared, Inventories
  <2>. QED BY <1>3, <2>1, <2>2 DEF Consistent
<1>5. Alive(st) = Alive(Now)
  BY <1>1, AliveSame
<1>6. ASSUME NEW id \in Id PROVE Shows(st, Alive(Now), id)
  <2>1. Shows(Now, Alive(Now), id) /\ Declarers(st, id) = Declarers(Now, id)
    BY <1>1, <1>2 DEF Shown, Declarers
  <2>. QED BY <1>1, <2>1 DEF Shows
<1>7. SamePromise(Now, st)
  BY <1>1 DEF SamePromise, StaticOf, RootedOf, InventoryOf, SupersededOf
<1>8. \A id \in Id : capture(st, id) = capture(Now, id)
  BY <1>1, CaptureSame
<1>. QED BY <1>4, <1>5, <1>6, <1>7, <1>8 DEF GoodStore, Shown, st

LEMMA ReconcileStep ==
  ASSUME StoreInv, NEW p \in Emitter, Reconcile(p)
  PROVE  /\ StoreInv' /\ SamePromise(Now, Now') /\ \A id \in Id : capture(Now', id) = capture(Now, id)
         /\ \E k \in CallType : k.pc = "snapshot" /\ call' = [call EXCEPT ![p] = k]
<1> DEFINE view  == capture(Now, p)
           input == IF view.owner = None THEN cell[p].generation
                    ELSE larger(cell[p].generation, slot[view.owner].entries[view.position].generation)
           stamping == \E q \in Emitter : call[q].pc = "stamped" /\ p \in Ids(call[q].record.entries)
           r == stamping /\ stamp(Now, p) < input
           k == [Idle EXCEPT !.pc = "snapshot", !.content = view.content, !.input = input, !.raced = r]
<1>1. /\ GoodStore(Now) /\ p \in Id /\ Now \in StoreType /\ Mirrored(Now)
      /\ head \in [Id -> HeadType] /\ head[p] \in HeadType
  BY EmitterFacts DEF StoreInv, GoodStore, Consistent, StoreType, Now
<1>2. view.content \in Content \cup {None} /\ input \in Nat
  <2>1. view.content \in Content \cup {None} /\ cell[p].generation \in Nat
    BY <1>1, CaptureFacts, NowFields DEF StoreType, CellType
  <2>2. view.owner # None => slot[view.owner].entries[view.position].generation \in Nat
    <3>1. view.owner # None => view.owner \in Id /\ view.position \in DOMAIN slot[view.owner].entries
      <4>1. /\ cell[p].hidden => view.owner = None
            /\ ~cell[p].hidden /\ (cell[p].rooted \/ Showing(Now, p) = {}) => view.owner = None
            /\ ~cell[p].hidden /\ ~cell[p].rooted /\ Showing(Now, p) # {} =>
                  view.owner \in Showing(Now, p) /\ view.position \in DOMAIN slot[view.owner].entries
        BY <1>1, CaptureFacts, NowFields
      <4> HIDE DEF view
      <4>. QED BY <4>1 DEF Showing, Declarers
    <3>. QED BY <1>1, <3>1, EntryFacts, NowFields
  <2> HIDE DEF view
  <2>. QED BY <2>1, <2>2 DEF larger
<1>3. /\ call' = [call EXCEPT ![p] = k]
      /\ head' = IF registered(Now, p) THEN head ELSE [head EXCEPT ![p].generation = input]
      /\ cell' = cell /\ slot' = slot /\ members' = members /\ outbox' = outbox /\ unheard' = unheard
  BY DEF Reconcile
<1> HIDE DEF view, input, stamping
<1>4. k \in CallType /\ k.pc = "snapshot"
  <2>1. r \in BOOLEAN
    OBVIOUS
  <2> HIDE DEF r
  <2>. QED BY <1>2, <2>1 DEF Idle, CallType, None
<1> HIDE DEF k
<1>5. head' \in [Id -> HeadType]
  <2>1. [head[p] EXCEPT !.generation = input] \in HeadType
    BY <1>1, <1>2 DEF HeadType
  <2>. QED BY <1>1, <1>3, <2>1
<1>6. call' \in [Emitter -> CallType] /\ StampedInv'
  BY <1>3, <1>4, OneCall
<1>7. GoodStore(Now') /\ SamePromise(Now, Now') /\ \A id \in Id : capture(Now', id) = capture(Now, id)
  BY <1>1, <1>3, <1>5, HeadsOnly
<1>8. StoreInv'
  BY <1>3, <1>6, <1>7 DEF StoreInv, TypeOK, GoodStore, Consistent
<1>. QED BY <1>3, <1>4, <1>7, <1>8

LEMMA SnapshotStep ==
  ASSUME StoreInv, NEW p \in Emitter, Snapshot(p)
  PROVE  StoreInv' /\ Now' = Now
<1> DEFINE k == [call[p] EXCEPT !.pc = "commit", !.generation = slot[p].generation]
<1>1. p \in Id /\ call \in [Emitter -> CallType] /\ call[p] \in CallType /\ slot[p].generation \in Nat
  BY EmitterFacts DEF StoreInv, TypeOK, StoreType, Now, SlotType
<1>2. k \in CallType /\ k.pc # "stamped"
  BY <1>1 DEF CallType
<1>3. call' = [call EXCEPT ![p] = k] /\ Now' = Now /\ slot' = slot /\ outbox' = outbox /\ unheard' = unheard
  BY <1>1 DEF Snapshot, store, Now, CallType
<1> HIDE DEF k
<1>4. call' \in [Emitter -> CallType] /\ StampedInv'
  BY <1>2, <1>3, OneCall
<1>. QED BY <1>3, <1>4 DEF StoreInv, TypeOK

LEMMA RejectStep ==
  ASSUME StoreInv, NEW p \in Emitter, Reject(p)
  PROVE  StoreInv' /\ Now' = Now
<1>1. call' = [call EXCEPT ![p] = Idle] /\ Now' = Now /\ slot' = slot /\ outbox' = outbox /\ unheard' = unheard
  BY DEF Reject, Return, store, Now
<1>2. call' \in [Emitter -> CallType] /\ StampedInv'
  BY <1>1, IdleType, OneCall
<1>. QED BY <1>1, <1>2 DEF StoreInv, TypeOK

LEMMA CommitStableStep ==
  ASSUME StoreInv, NEW p \in Emitter, commitStable(p)
  PROVE  StoreInv' /\ Publishes(p)
<1>1. GoodStore(Now') /\ Publishes(p)
  BY StableStep
<1>2. call' = [call EXCEPT ![p] = Idle] /\ outbox' = outbox /\ slot' = [slot EXCEPT ![p] = call[p].record]
  BY DEF commitStable, Return
<1>3. unheard' \in SUBSET Id
  BY DEF commitStable, NoteChanges, StoreInv, TypeOK
<1>4. \A q \in Emitter : q # p => slot'[q] = slot[q]
  BY <1>2, EmitterFacts DEF StoreInv, TypeOK, StoreType, Now
<1>5. call' \in [Emitter -> CallType] /\ StampedInv'
  BY <1>2, <1>4, IdleType, OneCall
<1>. QED BY <1>1, <1>2, <1>3, <1>5 DEF StoreInv, TypeOK, GoodStore, Consistent

LEMMA DispatchStep ==
  ASSUME StoreInv, NEW g \in Goroutine, Dispatch(g)
  PROVE  StoreInv' /\ Now' = Now
<1>1. /\ call' = call /\ slot' = slot /\ Now' = Now /\ outbox' = [outbox EXCEPT ![g] = Tail(@)]
      /\ outbox[g] # << >> /\ unheard' = unheard \ {Head(outbox[g])}
  BY DEF Dispatch, store, Now
<1>2. outbox \in [Goroutine -> Seq(Id)] /\ outbox[g] \in Seq(Id) /\ Tail(outbox[g]) \in Seq(Id)
  <2>1. outbox \in [Goroutine -> Seq(Id)] /\ outbox[g] \in Seq(Id)
    BY DEF StoreInv, TypeOK
  <2>. QED BY <1>1, <2>1
<1>3. outbox' \in [Goroutine -> Seq(Id)]
  BY <1>1, <1>2
<1>4. StampedInv'
  BY <1>1, StampsKept
<1>. QED BY <1>1, <1>3, <1>4 DEF StoreInv, TypeOK

LEMMA CommitStep ==
  ASSUME StoreInv, NEW p \in Emitter, NEW next \in Outputs[p], NEW usable, Commit(p, next, usable)
  PROVE  StoreInv' /\ (Now' = Now \/ Publishes(p))
<1> DEFINE entries == prepareEmission(p, next, usable)
<1>1. /\ GoodStore(Now) /\ Consistent(Now) /\ p \in Id /\ p \in Goroutine
      /\ call \in [Emitter -> CallType] /\ call[p] \in CallType /\ outbox \in [Goroutine -> Seq(Id)]
  BY EmitterFacts DEF StoreInv, GoodStore, TypeOK
<1>2. entries \in Seq(EntryType) /\ OnePlace(p, entries)
  BY <1>1, Prepared
<1>3. unheard' \in SUBSET Id
  BY DEF Commit, NoteChanges, StoreInv, TypeOK
<1>4. CASE Return(p) /\ UNCHANGED <<store, outbox>>
  <2>1. call' = [call EXCEPT ![p] = Idle] /\ Now' = Now /\ slot' = slot /\ outbox' = outbox
    BY <1>4 DEF Return, store, Now
  <2>2. call' \in [Emitter -> CallType] /\ StampedInv'
    BY <2>1, IdleType, OneCall
  <2>. QED BY <1>3, <2>1, <2>2 DEF StoreInv, TypeOK
<1>5. CASE /\ Stable(p, next, entries) /\ stampStable(p, next, entries)
           /\ Send(p, stableEvents(p, next, entries, usable)) /\ UNCHANGED store
  <2> DEFINE told == stableEvents(p, next, entries, usable)
  <2> HIDE DEF entries
  <2>1. Now' = Now /\ slot' = slot /\ outbox' = [outbox EXCEPT ![p] = told]
    BY <1>5 DEF store, Now, Send
  <2>2. told \in Seq(Id)
    BY <1>2, StableEventsFacts
  <2>3. PICK r \in SlotType : /\ call' = [call EXCEPT ![p].pc = "stamped", ![p].record = r]
                              /\ SameMembers(r, slot[p])
    BY <1>1, <1>2, <1>5, StampStep
  <2> HIDE DEF told
  <2>4. outbox' \in [Goroutine -> Seq(Id)]
    BY <1>1, <2>1, <2>2
  <2> DEFINE k == [call[p] EXCEPT !.pc = "stamped", !.record = r]
  <2>5. call' = [call EXCEPT ![p] = k] /\ k.record = r
    BY <1>1, <2>3 DEF CallType
  <2>6. k \in CallType
    BY <1>1 DEF CallType
  <2> HIDE DEF k
  <2>7. call' \in [Emitter -> CallType]
    BY <1>1, <2>5, <2>6
  <2>8. StampedInv'
    <3> SUFFICES ASSUME NEW q \in Emitter, call'[q].pc = "stamped"
                 PROVE  call'[q].record \in SlotType /\ SameMembers(call'[q].record, slot'[q])
      BY DEF StampedInv
    <3>1. CASE q = p
      BY <1>1, <2>1, <2>3, <2>5, <3>1
    <3>2. CASE q # p
      BY <1>1, <2>1, <2>5, <3>2 DEF StoreInv, StampedInv
    <3>. QED BY <3>1, <3>2
  <2>. QED BY <1>3, <2>1, <2>4, <2>7, <2>8 DEF StoreInv, TypeOK
<1>6. CASE commitReplacement(p, next, entries) /\ Return(p)
  <2> HIDE DEF entries
  <2> DEFINE R == expandRegion(Now, Ids(slot[p].entries) \cup Ids(entries) \cup Covered(p, next))
             direct == changedTargets(slot[p].entries, entries) \cup Covered(p, next)
             told == publications(Now, Now', R, direct)
  <2>1. /\ GoodStore(Now') /\ AllLocked /\ Publishes(p)
        /\ R \in SUBSET Id /\ outbox' = [outbox EXCEPT ![p] = told]
    BY <1>1, <1>2, <1>6, ReplaceStep DEF Prepares
  <2> HIDE DEF R, direct
  <2>2. told \in Seq(Id)
    BY <2>1, PublicationsFacts
  <2> HIDE DEF told
  <2>3. outbox' \in [Goroutine -> Seq(Id)]
    BY <1>1, <2>1, <2>2
  <2>4. call' = [call EXCEPT ![p] = Idle]
    BY <1>6 DEF Return
  <2>5. call' \in [Emitter -> CallType] /\ StampedInv'
    BY <2>1, <2>4, IdleType, OneCall
  <2>. QED BY <1>3, <2>1, <2>3, <2>5 DEF StoreInv, TypeOK, GoodStore, Consistent
<1>. QED BY <1>4, <1>5, <1>6 DEF Commit

\* What a step does to the part of the store that Declarations speaks of.
PromiseStep ==
    \/ SamePromise(Now, Now')
    \/ \E id \in Id : \E c \in Content : \E r \in {RootedOf(Now), RootedOf(Now) \cup {id}} : Declares(id, c, r)
    \/ \E id \in Id : Declares(id, None, RootedOf(Now) \ {id})
    \/ \E p \in Id : Publishes(p)

LEMMA NextStore ==
  ASSUME StoreInv, [Next]_vars
  PROVE  StoreInv' /\ PromiseStep
<1>0. Now' = Now => PromiseStep
  BY DEF PromiseStep, SamePromise
<1>1. CASE UNCHANGED vars
  <2>1. Now' = Now /\ call' = call /\ slot' = slot /\ outbox' = outbox /\ unheard' = unheard
    BY <1>1 DEF vars, Now
  <2>2. StampedInv'
    BY <2>1, StampsKept
  <2>. QED BY <1>0, <2>1, <2>2 DEF StoreInv, TypeOK
<1>2. ASSUME NEW id \in Writable, DeleteObject(id) PROVE StoreInv' /\ PromiseStep
  BY <1>2, DeleteObjectStep, WritableFacts DEF PromiseStep
<1>3. ASSUME NEW id \in Writable, NEW c \in Content, AddObject(id, c) PROVE StoreInv' /\ PromiseStep
  BY <1>0, <1>3, AddObjectStep, WritableFacts DEF PromiseStep
<1>4. ASSUME NEW p \in Emitter, Reconcile(p) PROVE StoreInv' /\ PromiseStep
  BY <1>4, ReconcileStep DEF PromiseStep
<1>5. ASSUME NEW p \in Emitter, Snapshot(p) \/ Reject(p) PROVE StoreInv' /\ PromiseStep
  BY <1>0, <1>5, SnapshotStep, RejectStep
<1>6. ASSUME NEW p \in Emitter, commitStable(p) PROVE StoreInv' /\ PromiseStep
  BY <1>6, CommitStableStep, EmitterFacts DEF PromiseStep
<1>7. ASSUME NEW p \in Emitter, NEW next \in Outputs[p], NEW usable, Commit(p, next, usable)
      PROVE  StoreInv' /\ PromiseStep
  BY <1>0, <1>7, CommitStep, EmitterFacts DEF PromiseStep
<1>8. ASSUME NEW g \in Goroutine, Dispatch(g) PROVE StoreInv' /\ PromiseStep
  BY <1>0, <1>8, DispatchStep
<1>. QED BY <1>1, <1>2, <1>3, <1>4, <1>5, <1>6, <1>7, <1>8 DEF Next

LEMMA StoreAlways == Spec => []StoreInv
  BY InitStore, NextStore, PTL DEF Spec

\* The mapping of the refinement in terms of Now.
LEMMA PromiseMap ==
  /\ [id \in Id |-> cell[id].static] = StaticOf(Now)
  /\ {id \in Id : cell[id].rooted} = RootedOf(Now)
  /\ [p \in Id |-> Inventory(p)] = InventoryOf(Now)
  /\ {p \in Id : slot[p].shadows} = SupersededOf(Now)
  /\ [id \in Id |-> object(id)] = EffectiveOf(Now)
  BY NowFields DEF StaticOf, RootedOf, InventoryOf, Inventory, Carried, SupersededOf, EffectiveOf, object

\* An inventory never has its own producer in it.
LEMMA InventoryRange ==
  ASSUME NEW st, Consistent(st), NEW p \in Id
  PROVE  /\ DOMAIN InventoryOf(st)[p] \subseteq Id \ {p}
         /\ \A id \in DOMAIN InventoryOf(st)[p] : InventoryOf(st)[p][id] \in Content
<1>1. DOMAIN InventoryOf(st)[p] = Ids(st.slot[p].entries)
  BY DEF InventoryOf, Carried
<1>2. st \in StoreType /\ OnePlace(p, st.slot[p].entries)
  BY DEF Consistent, Inventories
<1>3. ASSUME NEW id \in Ids(st.slot[p].entries)
      PROVE  id \in Id \ {p} /\ InventoryOf(st)[p][id] \in Content
  <2>1. PICK i \in DOMAIN st.slot[p].entries : st.slot[p].entries[i].id = id
    BY DEF Ids
  <2>2. st.slot[p].entries[i].id \in Id /\ st.slot[p].entries[i].content \in Content
    BY <1>2, <2>1, EntryFacts
  <2>3. InventoryOf(st)[p][id] = st.slot[p].entries[i].content
    BY <2>1, InventoryAt
  <2>. QED BY <1>2, <2>1, <2>2, <2>3 DEF OnePlace
<1>. QED BY <1>1, <1>3

LEMMA PromiseInit == Init => Promise!Init
<1> SUFFICES ASSUME Init PROVE Promise!Init
  OBVIOUS
<1>1. GoodStore(Now)
  BY InitStore DEF StoreInv, GoodStore
<1>2. [id \in Id |-> cell[id].static] \in [Id -> Content \cup {None}]
  BY PublicationAssumption DEF Init
<1>3. {id \in Id : cell[id].rooted} = {} /\ {p \in Id : slot[p].shadows} = {}
  BY DEF Init
<1>4. [p \in Id |-> Inventory(p)] = [p \in Id |-> [id \in {} |-> Promise!None]]
  <2>1. ASSUME NEW p \in Id PROVE Inventory(p) = [id \in {} |-> Promise!None]
    <3>1. Ids(slot[p].entries) = {}
      BY DEF Init, Ids
    <3>. QED BY <3>1 DEF Inventory
  <2>. QED BY <2>1
<1>5. [id \in Id |-> object(id)] =
         Promise!View([id \in Id |-> cell[id].static], {id \in Id : cell[id].rooted},
                      [p \in Id |-> Inventory(p)], {p \in Id : slot[p].shadows})
  BY <1>1, ViewIs, PromiseMap DEF GoodStore
<1>. QED BY <1>2, <1>3, <1>4, <1>5 DEF Promise!Init, None, Promise!None

LEMMA PromiseNext ==
  ASSUME StoreInv, StoreInv', PromiseStep
  PROVE  [Promise!Next]_<<[id \in Id |-> cell[id].static], {id \in Id : cell[id].rooted},
                          [p \in Id |-> Inventory(p)], {p \in Id : slot[p].shadows},
                          [id \in Id |-> object(id)]>>
<1> DEFINE s   == StaticOf(Now)
           r   == RootedOf(Now)
           inv == InventoryOf(Now)
           sup == SupersededOf(Now)
           e   == EffectiveOf(Now)
<1>1. /\ [id \in Id |-> cell[id].static] = s /\ {id \in Id : cell[id].rooted} = r
      /\ [p \in Id |-> Inventory(p)] = inv /\ {p \in Id : slot[p].shadows} = sup
      /\ [id \in Id |-> object(id)] = e
  BY PromiseMap
<1>2. /\ [id \in Id |-> cell'[id].static] = s' /\ {id \in Id : cell'[id].rooted} = r'
      /\ [p \in Id |-> Inventory(p)'] = inv' /\ {p \in Id : slot'[p].shadows} = sup'
      /\ [id \in Id |-> object(id)'] = e'
  <2>1. cell' = Now'.cell /\ slot' = Now'.slot
    BY DEF Now
  <2>2. [id \in Id |-> cell'[id].static] = s' /\ {id \in Id : cell'[id].rooted} = r'
    BY <2>1 DEF StaticOf, RootedOf
  <2>3. [p \in Id |-> Inventory(p)'] = inv' /\ {p \in Id : slot'[p].shadows} = sup'
    BY <2>1 DEF InventoryOf, Inventory, Carried, SupersededOf
  <2>4. [id \in Id |-> object(id)'] = e'
    BY DEF EffectiveOf, object
  <2>. QED BY <2>2, <2>3, <2>4
<1>3. e = Promise!View(s, r, inv, sup) /\ e' = Promise!View(s', r', inv', sup')
  <2>1. e = Promise!View(s, r, inv, sup)
    BY ViewIs DEF StoreInv
  <2>2. e' = Promise!View(s', r', inv', sup')
    BY ViewIs DEF StoreInv
  <2>. QED BY <2>1, <2>2
<1> HIDE DEF s, r, inv, sup, e
<1>4. CASE s' = s /\ r' = r /\ inv' = inv /\ sup' = sup
  <2>1. e' = e
    BY <1>3, <1>4
  <2>. QED BY <1>1, <1>2, <1>4, <2>1
<1>5. CASE ~(s' = s /\ r' = r /\ inv' = inv /\ sup' = sup)
  <2>1. ASSUME NEW id \in Id, NEW c \in Content, s' = [s EXCEPT ![id] = c],
               r' \in {r, r \cup {id}}, inv' = inv, sup' = sup
        PROVE  Promise!Declare(id)
    <3>1. s'[id] = c
      BY <2>1 DEF s, StaticOf
    <3>. QED BY <1>1, <1>2, <2>1, <3>1 DEF Promise!Declare
  <2>2. ASSUME NEW id \in Id, s' = [s EXCEPT ![id] = None], r' = r \ {id}, inv' = inv, sup' = sup
        PROVE  Promise!Withdraw(id)
    BY <1>1, <1>2, <2>2 DEF Promise!Withdraw, None, Promise!None
  <2>3. ASSUME NEW p \in Id, s' = s, r' = r, inv' = [inv EXCEPT ![p] = inv'[p]],
               sup' \in {sup, sup \cup {p}}
        PROVE  Promise!Emit(p)
    <3>1. DOMAIN inv'[p] \subseteq Id \ {p} /\ \A id \in DOMAIN inv'[p] : inv'[p][id] \in Content
      <4>1. Consistent(Now')
        BY DEF StoreInv
      <4>. QED BY <4>1, InventoryRange DEF inv
    <3>. QED BY <1>1, <1>2, <2>3, <3>1 DEF Promise!Emit
  <2>4. \E id \in Id : Promise!Declare(id) \/ Promise!Withdraw(id) \/ Promise!Emit(id)
    <3>1. CASE SamePromise(Now, Now')
      BY <1>5, <3>1 DEF SamePromise, s, r, inv, sup
    <3>2. ASSUME NEW id \in Id, NEW c \in Content, NEW q \in {r, r \cup {id}}, Declares(id, c, q)
          PROVE  Promise!Declare(id)
      BY <2>1, <3>2 DEF Declares, s, r, inv, sup
    <3>3. ASSUME NEW id \in Id, Declares(id, None, r \ {id}) PROVE Promise!Withdraw(id)
      BY <2>2, <3>3 DEF Declares, s, r, inv, sup
    <3>4. ASSUME NEW p \in Id, Publishes(p) PROVE Promise!Emit(p)
      BY <2>3, <3>4 DEF Publishes, s, r, inv, sup
    <3>. QED BY <3>1, <3>2, <3>3, <3>4 DEF PromiseStep, r
  <2>5. Promise!Next
    BY <1>1, <1>2, <1>3, <1>5, <2>4 DEF Promise!Next
  <2>. QED BY <2>5
<1>. QED BY <1>4, <1>5

(* For any resources, ownership, inventories and numbers of calls, the     *)
(* store implements Declarations: whatever a write looked at and under     *)
(* whatever locks it ran, every reader gets the object that a fresh        *)
(* evaluation of all declarations and inventories gives.                   *)
THEOREM Refines == Spec => KeepsPromise
<1>1. Init => Promise!Init
  BY PromiseInit
<1>2. StoreInv /\ StoreInv' /\ [Next]_vars =>
         [Promise!Next]_<<[id \in Id |-> cell[id].static], {id \in Id : cell[id].rooted},
                          [p \in Id |-> Inventory(p)], {p \in Id : slot[p].shadows},
                          [id \in Id |-> object(id)]>>
  BY NextStore, PromiseNext
<1>. QED BY <1>1, <1>2, StoreAlways, PTL DEF Spec, KeepsPromise, Promise!Spec

\* A declaration that no producer has a say in is in force when it is there.
LEMMA OwnWord ==
  ASSUME NEW st, GoodStore(st), NEW id \in Writable, st.cell[id].rooted \/ Lone(st, id)
  PROVE  capture(st, id).content = st.cell[id].static
<1>1. id \in Id /\ Owner[id] = None /\ Consistent(st) /\ Shown(st, Alive(st)) /\ st \in StoreType
  BY WritableFacts DEF GoodStore, Consistent
<1>2. st.cell[id].rooted \/ Declarers(st, id) = {}
  BY <1>1, LoneFacts
<1>3. id \in Alive(st) => capture(st, id).content = st.cell[id].static
  BY <1>1, <1>2, CaptureAlive
<1>4. CASE st.cell[id].static # None
  BY <1>1, <1>3, <1>4, AliveClosed DEF Anchored
<1>5. CASE st.cell[id].static = None
  BY <1>1, <1>3, <1>5, CaptureAlive
<1>. QED BY <1>4, <1>5

LEMMA AddStep ==
  ASSUME StoreInv, NEW id \in Writable, NEW c \in Content, AddObject(id, c)
  PROVE  object(id)' = IF Masks(id, c) THEN cell[id].static ELSE c
<1>1. GoodStore(Now) /\ id \in Id
  BY WritableFacts DEF StoreInv, GoodStore
<1>2. object(id) = capture(Now, id).content /\ object(id)' = capture(Now', id).content
  BY DEF object
<1>3. Now.cell = cell /\ Now'.cell = cell' /\ Now'.slot = slot' /\ Now'.members = members'
  BY DEF Now
<1>4. CASE cell[id].static = c /\ object(id) = c /\ UNCHANGED <<store, outbox>>
  <2>1. Now' = Now
    BY <1>4 DEF store, Now
  <2>. QED BY <1>2, <1>4, <2>1 DEF Masks
<1>5. CASE ~cell[id].hidden /\ ~needsRoot(id) /\ admit(id, c)
  <2>1. GoodStore(Now') /\ slot' = slot /\ members' = members /\ Declares(id, c, RootedOf(Now))
    BY <1>1, <1>5, AdmitStep
  <2>2. cell'[id].static = c /\ (cell'[id].rooted <=> cell[id].rooted)
    BY <1>1, <1>3, <2>1 DEF Declares, StaticOf, RootedOf
  <2>3. cell[id].rooted \/ Lone(Now, id)
    BY <1>5, NowFields DEF needsRoot, Lone
  <2>4. cell'[id].rooted \/ Lone(Now', id)
    BY <1>3, <2>1, <2>2, <2>3, NowFields DEF Lone
  <2>5. object(id) = cell[id].static
    BY <1>1, <1>2, <1>3, <2>3, OwnWord
  <2>6. object(id)' = c
    BY <1>2, <1>3, <2>1, <2>2, <2>4, OwnWord
  <2>. QED BY <2>5, <2>6 DEF Masks
<1>6. CASE addAnchor(id, c)
  <2>1. GoodStore(Now') /\ Declares(id, anchored(id, c), RootedOf(Now) \cup {id})
    BY <1>1, <1>6, AnchorStep
  <2>2. cell'[id].static = anchored(id, c) /\ cell'[id].rooted
    BY <1>1, <1>3, <2>1 DEF Declares, StaticOf, RootedOf
  <2>3. object(id)' = anchored(id, c)
    BY <1>2, <1>3, <2>1, <2>2, OwnWord
  <2>. QED BY <2>3 DEF anchored, Masks
<1>. QED BY <1>4, <1>5, <1>6 DEF AddObject, commitObjectUpdate

(* For any resources, producers and interleavings, AddObject puts what it  *)
(* is given in force, unless a producer's equal object stood over another  *)
(* static declaration, which then takes its place.                         *)
THEOREM AddedStands == Spec => AddedIsInForce
<1>1. StoreInv /\ [Next]_vars =>
         [\A id \in Writable, c \in Content :
             AddObject(id, c) => object(id)' = IF Masks(id, c) THEN cell[id].static ELSE c]_vars
  BY AddStep
<1>. QED BY <1>1, StoreAlways, PTL DEF Spec, AddedIsInForce
-----------------------------------------------------------------------------
(* What a commit does not touch.                                           *)

\* Outside its region a write changes no member, no slot of a member and no cell of
\* a resource that is in force.
Far(before, st, R) ==
    \A id \in Id \ R :
        /\ st.members[id] = before.members[id]
        /\ id \in Alive(before) => st.cell[id] = before.cell[id]
        /\ \A m \in before.members[id] : st.slot[m[1]] = before.slot[m[1]]

\* The same object from the same place.
SameCapture(v, w) ==
    /\ v.content = w.content /\ v.owner = w.owner
    /\ v.owner # None => v.position = w.position

LEMMA FarCapture ==
  ASSUME NEW before, NEW st, NEW R, NEW direct, Prepares(before, st, R), Far(before, st, R),
         NEW id \in Id \ R
  PROVE  SameCapture(capture(reachability(st, before, R, direct), id), capture(before, id))
<1> DEFINE after == reachability(st, before, R, direct)
<1>1. Consistent(after) /\ Shown(after, Alive(after)) /\ Alive(after) = Alive(st)
  BY RegionDone
<1>2. /\ Consistent(before) /\ Shown(before, Alive(before)) /\ Consistent(st) /\ R \in SUBSET Id
      /\ before \in StoreType /\ st \in StoreType /\ Mirrored(st) /\ Mirrored(before)
      /\ \A q \in R : reached(before, q) \subseteq R
  BY DEF Prepares, Consistent
<1>3. Alive(st) \ R = Alive(before) \ R
  BY RegionAlive DEF Prepares
<1>4. /\ after.members = st.members
      /\ \A x \in Id \ R : after.slot[x] = st.slot[x] /\ after.cell[x] = st.cell[x]
  <2>0. st \in StoreType /\ Mirrored(st) /\ before \in StoreType /\ R \in SUBSET Id
    BY <1>2
  <2>1. /\ after.members = st.members
        /\ \A x \in Id : x \notin R => after.slot[x] = st.slot[x] /\ after.cell[x] = st.cell[x]
    BY <2>0, RegionFields
  <2> HIDE DEF after
  <2>. QED BY <2>1
<1> HIDE DEF after
<1>5. CASE id \notin Alive(before)
  <2>1. id \notin Alive(after)
    BY <1>1, <1>3, <1>5
  <2>2. capture(before, id).content = None /\ capture(before, id).owner = None
    BY <1>2, <1>5, CaptureAlive
  <2>3. capture(after, id).content = None /\ capture(after, id).owner = None
    BY <1>1, <2>1, CaptureAlive
  <2>. QED BY <2>2, <2>3 DEF SameCapture, after
<1>6. CASE id \in Alive(before)
  <2>1. after.cell[id] = before.cell[id] /\ after.members[id] = before.members[id]
    BY <1>4, <1>6 DEF Far
  <2>2. ASSUME NEW m \in before.members[id] PROVE after.slot[m[1]] = before.slot[m[1]]
    <3>1. m = <<m[1], m[2]>> /\ m[1] \in Id /\ m[2] \in Nat
      BY <1>2, <2>2 DEF StoreType
    <3>2. id \in Ids(before.slot[m[1]].entries)
      BY <1>2, <2>2, <3>1 DEF Mirrored, Ids
    <3>3. m[1] \notin R
      BY <1>2, <3>2 DEF reached
    <3>. QED BY <1>4, <2>2, <3>1, <3>3 DEF Far
  <2>3. captureMembers(after, id) = captureMembers(before, id)
    BY <2>1, <2>2, ZenonT(20) DEF captureMembers
  <2>4. ASSUME captureMembers(before, id) # {}
        PROVE  LET m == CHOOSE m \in captureMembers(before, id) :
                            \A n \in captureMembers(before, id) : n[1] <= m[1]
               IN after.slot[m[1]] = before.slot[m[1]]
    <3> DEFINE found == captureMembers(before, id)
               greatest(m) == m \in found /\ \A n \in found : n[1] <= m[1]
               m == CHOOSE m \in found : \A n \in found : n[1] <= m[1]
    <3>1. \E k \in found : \A n \in found : n[1] <= k[1]
      <4>1. ASSUME NEW n \in found PROVE n[1] \in Id
        BY <1>2, <4>1 DEF captureMembers, StoreType
      <4> DEFINE S == {n[1] : n \in found}
      <4>2. S \in SUBSET Nat /\ IsFiniteSet(S) /\ S # {}
        <5>1. S \subseteq Id /\ S # {}
          BY <2>4, <4>1
        <5>. QED BY <5>1, PublicationAssumption, FS_Subset
      <4>3. PICK t \in S : \A n \in S : n <= t
        BY <4>2, GreatestNumber, Zenon
      <4>. QED BY <4>3
    <3>2. m \in found
      BY <3>1
    <3>. QED BY <2>2, <3>2 DEF captureMembers
  <2>5. capture(after, id) = capture(before, id)
    BY <2>1, <2>3, <2>4, Zenon DEF capture
  <2>. QED BY <2>5 DEF SameCapture, after
<1>. QED BY <1>5, <1>6

LEMMA CellFar ==
  ASSUME NEW before, NEW id \in Id, NEW d, NEW R, Prepares(before, [before EXCEPT !.cell[id] = d], R), id \in R
  PROVE  Far(before, [before EXCEPT !.cell[id] = d], R)
<1>1. before \in StoreType
  BY DEF Prepares, Consistent
<1>2. LET st == [before EXCEPT !.cell[id] = d]
      IN st.members = before.members /\ st.slot = before.slot /\ \A x \in Id : x # id => st.cell[x] = before.cell[x]
  BY <1>1 DEF StoreType
<1>. QED BY <1>2 DEF Far

LEMMA ReplaceFar ==
  ASSUME Consistent(Now), Shown(Now, Alive(Now)), NEW p \in Emitter, NEW next \in Outputs[p],
         NEW entries \in Seq(EntryType), NEW R \in SUBSET Id,
         Ids(slot[p].entries) \subseteq R, Ids(entries) \subseteq R
  PROVE  Far(Now, replaced(p, next, entries, R), R)
<1> DEFINE st == replaced(p, next, entries, R)
           seen == IF slot[p].exists THEN slot[p].visible ELSE object(p) # None
<1>1. p \in Id /\ Now \in StoreType /\ Mirrored(Now)
  BY OutputType DEF Consistent
<1>2. /\ st.members = publishMembers(p, entries, retireMembers(p, R))
      /\ \A q \in Id : q # p => st.slot[q] = slot[q] /\ st.cell[q] = cell[q]
      /\ seen \/ cell[p].hidden => st.cell[p] = cell[p]
  BY <1>1, ReplacedFields
<1> HIDE DEF st
<1>3. p \in Alive(Now) => seen
  <2>1. Shows(Now, Alive(Now), p)
    BY <1>1 DEF Shown
  <2>2. object(p) # None <=> p \in Alive(Now)
    BY <1>1, CaptureAlive DEF object
  <2>. QED BY <2>1, <2>2, NowFields DEF Shows
<1> HIDE DEF seen
<1>4. ASSUME NEW id \in Id \ R
      PROVE  /\ st.members[id] = members[id]
             /\ id \in Alive(Now) => st.cell[id] = cell[id]
             /\ \A m \in members[id] : st.slot[m[1]] = slot[m[1]]
  <2>1. \A i \in DOMAIN entries : entries[i].id # id
    BY DEF Ids
  <2>2. st.members[id] = members[id]
    BY <1>2, <2>1 DEF publishMembers, retireMembers
  <2>3. id \in Alive(Now) => st.cell[id] = cell[id]
    BY <1>2, <1>3
  <2>4. ASSUME NEW m \in members[id] PROVE st.slot[m[1]] = slot[m[1]]
    <3>1. m = <<m[1], m[2]>> /\ m[1] \in Id /\ m[2] \in Nat
      BY <1>1, <2>4, NowFields DEF StoreType
    <3>2. id \in Ids(slot[m[1]].entries)
      BY <1>1, <2>4, <3>1, NowFields DEF Mirrored, Ids
    <3>3. m[1] # p
      BY <3>2
    <3>. QED BY <1>2, <3>1, <3>3
  <2>. QED BY <2>2, <2>3, <2>4
<1>. QED BY <1>4, NowFields DEF Far, st
-----------------------------------------------------------------------------
(* Every change that leaves something to read is announced.                *)

Heard == \A id \in unheard : object(id) = None \/ \E g \in Goroutine : Tells(outbox[g], id)

\* An emitter has nothing to dispatch while it prepares, and everything that its
\* stamped record changes once it has stamped.
Outgoing ==
    /\ outbox \in [Goroutine -> Seq(Id)]
    /\ \A p \in Emitter : call[p].pc \in {"snapshot", "commit"} => outbox[p] = << >>
    /\ \A p \in Emitter : call[p].pc = "stamped" /\ slot[p].visible =>
          \A i \in DOMAIN slot[p].entries :
              slot[p].entries[i].content # call[p].record.entries[i].content
                  => Tells(outbox[p], slot[p].entries[i].id)

AnnounceInv == Heard /\ Outgoing

LEMMA NothingTold == \A id : ~Tells(<< >>, id)
  BY DEF Tells

\* What was announced stays so when an empty outbox is filled.
LEMMA HeardWith ==
  ASSUME Heard, Outgoing, unheard \in SUBSET Id, NEW g \in Goroutine, outbox[g] = << >>, NEW told,
         outbox' = [outbox EXCEPT ![g] = told], NoteChanges,
         \A id \in Id : object(id)' # object(id) => object(id)' = None \/ Tells(told, id)
  PROVE  Heard'
<1> SUFFICES ASSUME NEW id \in unheard'
             PROVE  object(id)' = None \/ \E h \in Goroutine : Tells(outbox'[h], id)
  BY DEF Heard
<1>0. outbox \in [Goroutine -> Seq(Id)]
  BY DEF Outgoing
<1>1. outbox'[g] = told /\ \A h \in Goroutine : h # g => outbox'[h] = outbox[h]
  BY <1>0
<1>2. CASE id \in Id /\ object(id)' # object(id)
  BY <1>1, <1>2
<1>3. CASE id \in unheard /\ object(id)' = object(id)
  <2>1. object(id) = None \/ \E h \in Goroutine : Tells(outbox[h], id)
    BY <1>3 DEF Heard
  <2>2. \A h \in Goroutine : Tells(outbox[h], id) => Tells(outbox'[h], id)
    BY <1>1, NothingTold
  <2>. QED BY <1>3, <2>1, <2>2
<1>4. id \in Id /\ (id \in unheard \/ object(id)' # object(id))
  BY DEF NoteChanges
<1>. QED BY <1>2, <1>3, <1>4

LEMMA HeardAnyway ==
  ASSUME Heard, outbox' = outbox,
         \A id \in unheard' : \/ object(id)' = None \/ (id \in unheard /\ object(id)' = object(id))
                              \/ \E g \in Goroutine : Tells(outbox[g], id)
  PROVE  Heard'
  BY DEF Heard

\* A region that has been published.
LEMMA RegionAnnounced ==
  ASSUME NEW before, NEW st, NEW R, NEW direct, Prepares(before, st, R), Far(before, st, R)
  PROVE  LET after == reachability(st, before, R, direct) IN
         \A id \in Id : capture(after, id).content # capture(before, id).content =>
             capture(after, id).content = None \/ Tells(publications(before, after, R, direct), id)
<1> DEFINE after == reachability(st, before, R, direct)
<1>1. R \in SUBSET Id
  BY DEF Prepares
<1>2. \A id \in Id \ R : capture(after, id).content = capture(before, id).content
  BY FarCapture DEF SameCapture
<1> HIDE DEF after
<1>3. \A id \in R : /\ capture(after, id).content # capture(before, id).content
                    /\ capture(after, id).content # None
                    => Tells(publications(before, after, R, direct), id)
  BY <1>1, PublicationsFacts
<1>. QED BY <1>2, <1>3 DEF after

LEMMA OutgoingKept ==
  ASSUME Outgoing, call' = call, outbox' \in [Goroutine -> Seq(Id)],
         \A p \in Emitter : outbox'[p] = outbox[p], AllLocked \/ slot' = slot
  PROVE  Outgoing'
<1>1. CASE AllLocked
  BY <1>1 DEF Outgoing, AllLocked
<1>2. CASE slot' = slot
  BY <1>2 DEF Outgoing
<1>. QED BY <1>1, <1>2

LEMMA OutgoingOne ==
  ASSUME Outgoing, call \in [Emitter -> CallType], NEW p \in Emitter, NEW k, call' = [call EXCEPT ![p] = k],
         k.pc # "stamped", k.pc \in {"snapshot", "commit"} => outbox'[p] = << >>,
         outbox' \in [Goroutine -> Seq(Id)], \A q \in Emitter : q # p => outbox'[q] = outbox[q],
         AllLocked \/ \A q \in Emitter : q # p => slot'[q] = slot[q]
  PROVE  Outgoing'
<1>1. call'[p] = k /\ \A q \in Emitter : q # p => call'[q] = call[q]
  OBVIOUS
<1>2. ASSUME NEW q \in Emitter, call'[q].pc \in {"snapshot", "commit"} PROVE outbox'[q] = << >>
  BY <1>1, <1>2 DEF Outgoing
<1>3. ASSUME NEW q \in Emitter, call'[q].pc = "stamped", slot'[q].visible, NEW i \in DOMAIN slot'[q].entries,
             slot'[q].entries[i].content # call'[q].record.entries[i].content
      PROVE  Tells(outbox'[q], slot'[q].entries[i].id)
  <2>1. q # p /\ call[q].pc = "stamped"
    BY <1>1, <1>3
  <2>2. slot'[q] = slot[q] /\ outbox'[q] = outbox[q] /\ call'[q] = call[q]
    BY <1>1, <2>1 DEF AllLocked
  <2>. QED BY <1>3, <2>1, <2>2 DEF Outgoing
<1>. QED BY <1>2, <1>3 DEF Outgoing

LEMMA WriterApart == \A p \in Emitter : p # Writer
  BY EmitterFacts, PublicationAssumption DEF Writer, None

LEMMA WriterAnnounces ==
  ASSUME StoreInv, AnnounceInv, outbox[Writer] = << >>, call' = call, NoteChanges,
         NEW told, told \in Seq(Id), outbox' = [outbox EXCEPT ![Writer] = told],
         \A id \in Id : object(id)' # object(id) => object(id)' = None \/ Tells(told, id),
         AllLocked \/ slot' = slot
  PROVE  AnnounceInv'
<1>1. outbox \in [Goroutine -> Seq(Id)] /\ Writer \in Goroutine /\ unheard \in SUBSET Id
  BY EmitterFacts DEF StoreInv, TypeOK
<1>2. Heard'
  BY <1>1, HeardWith DEF AnnounceInv
<1>3. outbox' \in [Goroutine -> Seq(Id)] /\ \A p \in Emitter : outbox'[p] = outbox[p]
  BY <1>1, WriterApart, EmitterFacts
<1>4. Outgoing'
  BY <1>3, OutgoingKept DEF AnnounceInv
<1>. QED BY <1>2, <1>4 DEF AnnounceInv

\* The slots and members are the same, and the cell of any other resource.
LEMMA OthersSame ==
  ASSUME slot' = slot, members' = members, NEW x \in Id, cell'[x] = cell[x]
  PROVE  capture(Now', x) = capture(Now, x)
  BY CaptureSame DEF Now

\* Nobody is told anything new and every object is the same.
LEMMA SameObjects ==
  ASSUME StoreInv, Heard, outbox' = outbox, NoteChanges, \A id \in Id : object(id)' = object(id)
  PROVE  Heard'
<1>1. \A id \in unheard' : id \in unheard /\ id \in Id
  BY DEF NoteChanges, StoreInv, TypeOK
<1>. QED BY <1>1, HeardAnyway

LEMMA ObjectPrime == \A id \in Id : object(id)' = capture(Now', id).content /\ object(id) = capture(Now, id).content
  BY DEF object

LEMMA AnnounceWrites ==
  ASSUME StoreInv, AnnounceInv, NEW id \in Writable,
         DeleteObject(id) \/ \E c \in Content : AddObject(id, c)
  PROVE  AnnounceInv'
<1>0. GoodStore(Now) /\ id \in Id /\ unheard \in SUBSET Id /\ outbox \in [Goroutine -> Seq(Id)]
  BY WritableFacts DEF StoreInv, GoodStore, TypeOK
<1>1. ASSUME NEW direct, NEW d, call' = call, outbox[Writer] = << >>, NoteChanges, AllLocked,
             Prepares(Now, [Now EXCEPT !.cell[id] = d], expandRegion(Now, {id})),
             Now' = reachability([Now EXCEPT !.cell[id] = d], Now, expandRegion(Now, {id}), direct),
             outbox' = [outbox EXCEPT ![Writer] = publications(Now, Now', expandRegion(Now, {id}), direct)]
      PROVE  AnnounceInv'
  <2> DEFINE R == expandRegion(Now, {id})
             st == [Now EXCEPT !.cell[id] = d]
             told == publications(Now, Now', R, direct)
  <2>1. id \in R /\ R \in SUBSET Id
    BY <1>0, <1>1, RegionClosed DEF GoodStore, Consistent
  <2>2. Far(Now, st, R)
    BY <1>0, <1>1, <2>1, CellFar
  <2> HIDE DEF R
  <2>3. told \in Seq(Id)
    BY <2>1, PublicationsFacts
  <2>4. \A x \in Id : capture(Now', x).content # capture(Now, x).content =>
            capture(Now', x).content = None \/ Tells(told, x)
    BY <1>1, <2>2, RegionAnnounced DEF R
  <2>5. \A x \in Id : object(x)' # object(x) => object(x)' = None \/ Tells(told, x)
    BY <2>4, ObjectPrime
  <2>6. outbox' = [outbox EXCEPT ![Writer] = told]
    BY <1>1 DEF R
  <2> HIDE DEF told
  <2>. QED BY <1>1, <2>3, <2>5, <2>6, WriterAnnounces
<1>2. CASE DeleteObject(id)
  <2>1. call' = call /\ outbox[Writer] = << >> /\ NoteChanges
    BY <1>2 DEF DeleteObject
  <2>2. \/ /\ Lone(Now, id) /\ slot' = slot /\ members' = members /\ outbox' = outbox
           /\ \A x \in Id : x # id => cell'[x] = cell[x] /\ head'[x] = head[x]
           /\ Alive(Now') = Alive(Now) \ {id}
        \/ /\ AllLocked
           /\ LET st    == [Now EXCEPT !.cell[id] = WithdrawnCell(id)]
                  R     == expandRegion(Now, {id})
                  after == reachability(st, Now, R, {id})
              IN /\ Prepares(Now, st, R) /\ Now' = after
                 /\ outbox' = [outbox EXCEPT ![Writer] = publications(Now, after, R, {id})]
    BY <1>0, <1>2, DeleteStep
  <2>3. CASE slot' = slot /\ members' = members /\ outbox' = outbox
             /\ (\A x \in Id : x # id => cell'[x] = cell[x]) /\ Alive(Now') = Alive(Now) \ {id}
    <3>1. \A x \in Id : x # id => object(x)' = object(x)
      BY <2>3, OthersSame, ObjectPrime
    <3>2. object(id)' = None
      <4>1. GoodStore(Now')
        BY <1>0, <1>2, DeleteStep
      <4>2. id \notin Alive(Now')
        BY <2>3
      <4>. QED BY <1>0, <4>1, <4>2, CaptureAlive, ObjectPrime DEF GoodStore
    <3>3. \A x \in unheard' : x \in Id /\ (x \in unheard \/ object(x)' # object(x))
      BY <1>0, <2>1 DEF NoteChanges
    <3>4. Heard'
      BY <2>3, <3>1, <3>2, <3>3, HeardAnyway DEF AnnounceInv
    <3>5. Outgoing'
      BY <1>0, <2>1, <2>3, OutgoingKept DEF AnnounceInv
    <3>. QED BY <3>4, <3>5 DEF AnnounceInv
  <2>4. CASE /\ AllLocked
             /\ LET st    == [Now EXCEPT !.cell[id] = WithdrawnCell(id)]
                    R     == expandRegion(Now, {id})
                    after == reachability(st, Now, R, {id})
                IN /\ Prepares(Now, st, R) /\ Now' = after
                   /\ outbox' = [outbox EXCEPT ![Writer] = publications(Now, after, R, {id})]
    BY <1>1, <2>1, <2>4
  <2>. QED BY <2>2, <2>3, <2>4
<1>3. ASSUME NEW c \in Content, AddObject(id, c) PROVE AnnounceInv'
  <2>1. call' = call /\ outbox[Writer] = << >> /\ NoteChanges
    BY <1>3 DEF AddObject
  <2>2. CASE UNCHANGED <<store, outbox>>
    <3>1. Now' = Now /\ slot' = slot /\ outbox' = outbox
      BY <2>2 DEF store, Now
    <3>2. Heard'
      BY <2>1, <3>1, SameObjects, ObjectPrime DEF AnnounceInv
    <3>3. Outgoing'
      BY <1>0, <2>1, <3>1, OutgoingKept DEF AnnounceInv
    <3>. QED BY <3>2, <3>3 DEF AnnounceInv
  <2>3. CASE ~cell[id].hidden /\ ~needsRoot(id) /\ admit(id, c)
    <3>1. slot' = slot /\ members' = members /\ \A x \in Id : x # id => cell'[x] = cell[x]
      BY <1>0, <2>3, AdmitStep
    <3>2. outbox' = [outbox EXCEPT ![Writer] = <<id>>] /\ <<id>> \in Seq(Id)
      BY <1>0, <2>3 DEF admit, Send
    <3>3. \A x \in Id : object(x)' # object(x) => Tells(<<id>>, x)
      <4>1. Tells(<<id>>, id)
        BY DEF Tells
      <4>. QED BY <3>1, <4>1, OthersSame, ObjectPrime
    <3>. QED BY <2>1, <3>1, <3>2, <3>3, WriterAnnounces
  <2>4. CASE addAnchor(id, c)
    <3>1. AllLocked
      BY <2>4 DEF addAnchor
    <3>2. PICK direct :
             LET st    == [Now EXCEPT !.cell[id] = RootCell(id, anchored(id, c))]
                 R     == expandRegion(Now, {id})
                 after == reachability(st, Now, R, direct)
             IN /\ Prepares(Now, st, R) /\ Now' = after
                /\ outbox' = [outbox EXCEPT ![Writer] = publications(Now, after, R, direct)]
      BY <1>0, <2>4, AnchorStep
    <3>. QED BY <1>1, <2>1, <3>1, <3>2
  <2>. QED BY <1>3, <2>2, <2>3, <2>4 DEF AddObject, commitObjectUpdate
<1>. QED BY <1>2, <1>3

\* A stable record moves the content of what its producer supplies, and nothing else.
LEMMA StableCapture ==
  ASSUME Consistent(Now), NEW p \in Id, NEW r \in SlotType, SameMembers(r, slot[p]),
         NEW st, st = [Now EXCEPT !.slot[p] = r], NEW id \in Id
  PROVE  LET v == capture(Now, id)
             w == capture(st, id)
         IN /\ w.owner = v.owner /\ w.position = v.position
            /\ v.owner # p => w.content = v.content
            /\ v.owner = p => /\ slot[p].visible /\ v.position \in DOMAIN slot[p].entries
                              /\ slot[p].entries[v.position].id = id
                              /\ v.content = slot[p].entries[v.position].content
                              /\ w.content = r.entries[v.position].content
<1> DEFINE v == capture(Now, id)
           w == capture(st, id)
           found == captureMembers(Now, id)
           chosen == CHOOSE m \in found : \A n \in found : n[1] <= m[1]
<1>1. Now \in StoreType /\ Mirrored(Now) /\ slot \in [Id -> SlotType]
  BY DEF Consistent, Now, StoreType
<1>2. /\ st.cell = cell /\ st.members = members /\ st.slot[p] = r
      /\ \A q \in Id : q # p => st.slot[q] = slot[q]
  BY <1>1 DEF Now, StoreType
<1>3. ASSUME NEW m \in members[id] PROVE m[1] \in Id
  BY <1>1, <1>3, NowFields DEF StoreType
<1>4. \A q \in Id : st.slot[q].visible = slot[q].visible
  BY <1>2 DEF SameMembers
<1>5. captureMembers(st, id) = found
  BY <1>2, <1>3, <1>4, NowFields DEF captureMembers
<1>6. /\ cell[id].hidden \/ cell[id].rooted \/ found = {} => v = w /\ v.owner = None
      /\ ~(cell[id].hidden \/ cell[id].rooted \/ found = {}) =>
            /\ v = [content |-> slot[chosen[1]].entries[chosen[2]].content,
                    owner |-> chosen[1], position |-> chosen[2]]
            /\ w = [content |-> st.slot[chosen[1]].entries[chosen[2]].content,
                    owner |-> chosen[1], position |-> chosen[2]]
  BY <1>2, <1>5, NowFields, Zenon DEF capture
<1> HIDE DEF w
<1>7. CASE cell[id].hidden \/ cell[id].rooted \/ found = {}
  <2>1. v = w /\ v.owner = None /\ p # None
    BY <1>6, <1>7, OwnerType
  <2>. QED BY <2>1 DEF w
<1>8. CASE ~(cell[id].hidden \/ cell[id].rooted \/ found = {})
  <2>1. Showing(Now, id) # {}
    <3>1. PICK m \in found : TRUE
      BY <1>8
    <3>2. m = <<m[1], m[2]>> /\ m[1] \in Id /\ m[2] \in Nat /\ m \in members[id] /\ slot[m[1]].visible
      BY <1>1, <3>1, NowFields DEF captureMembers, StoreType
    <3>3. m[2] \in DOMAIN slot[m[1]].entries /\ slot[m[1]].entries[m[2]].id = id
      BY <1>1, <3>2, NowFields DEF Mirrored
    <3>. QED BY <3>2, <3>3, NowFields DEF Showing, Declarers
  <2>2. /\ v.owner \in Showing(Now, id) /\ v.position \in DOMAIN slot[v.owner].entries
        /\ slot[v.owner].entries[v.position].id = id
    BY <1>1, <1>8, <2>1, CaptureFacts, NowFields
  <2>3. v.owner \in Id /\ slot[v.owner].visible
    BY <2>2, NowFields, ZenonT(20) DEF Showing, Declarers
  <2>4. /\ w.owner = v.owner /\ w.position = v.position
        /\ v.content = slot[v.owner].entries[v.position].content
        /\ w.content = st.slot[v.owner].entries[v.position].content
    BY <1>6, <1>8
  <2> HIDE DEF v
  <2>. QED BY <1>2, <2>2, <2>3, <2>4 DEF v, w
<1>. QED BY <1>7, <1>8

LEMMA AnnounceCalls ==
  ASSUME StoreInv, AnnounceInv, NEW p \in Emitter,
         Reconcile(p) \/ Snapshot(p) \/ Reject(p) \/ commitStable(p)
  PROVE  AnnounceInv'
<1>0. /\ p \in Id /\ p \in Goroutine /\ unheard \in SUBSET Id /\ outbox \in [Goroutine -> Seq(Id)]
      /\ call \in [Emitter -> CallType] /\ call[p] \in CallType
  BY EmitterFacts DEF StoreInv, TypeOK
<1>1. CASE Reconcile(p)
  <2>1. /\ \A id \in Id : capture(Now', id) = capture(Now, id)
        /\ \E k \in CallType : k.pc = "snapshot" /\ call' = [call EXCEPT ![p] = k]
    BY <1>1, ReconcileStep
  <2>2. outbox[p] = << >> /\ outbox' = outbox /\ unheard' = unheard /\ slot' = slot
    BY <1>1 DEF Reconcile
  <2>3. Outgoing'
    <3>1. PICK k \in CallType : k.pc = "snapshot" /\ call' = [call EXCEPT ![p] = k]
      BY <2>1
    <3>. QED BY <1>0, <2>2, <3>1, OutgoingOne DEF AnnounceInv
  <2>4. \A id \in Id : object(id)' = object(id)
    BY <2>1, ObjectPrime
  <2>5. Heard'
    BY <1>0, <2>2, <2>4, HeardAnyway DEF AnnounceInv
  <2>. QED BY <2>3, <2>5 DEF AnnounceInv
<1>2. CASE Snapshot(p) \/ Reject(p)
  <2>1. /\ Now' = Now /\ outbox' = outbox /\ unheard' = unheard /\ slot' = slot
        /\ call[p].pc \in {"snapshot", "commit"}
    BY <1>2 DEF Snapshot, Reject, store, Now
  <2>2. outbox[p] = << >>
    BY <2>1 DEF AnnounceInv, Outgoing
  <2>3. Outgoing'
    <3>1. CASE Snapshot(p)
      <4> DEFINE k == [call[p] EXCEPT !.pc = "commit", !.generation = slot[p].generation]
      <4>1. call' = [call EXCEPT ![p] = k] /\ k.pc # "stamped"
        BY <1>0, <3>1 DEF Snapshot, CallType
      <4> HIDE DEF k
      <4>. QED BY <1>0, <2>1, <2>2, <4>1, OutgoingOne DEF AnnounceInv
    <3>2. CASE Reject(p)
      <4>1. call' = [call EXCEPT ![p] = Idle] /\ Idle.pc # "stamped"
        BY <3>2, IdleType DEF Reject, Return
      <4>. QED BY <1>0, <2>1, <2>2, <4>1, OutgoingOne DEF AnnounceInv
    <3>. QED BY <1>2, <3>1, <3>2
  <2>4. Heard'
    BY <1>0, <2>1, HeardAnyway, ObjectPrime DEF AnnounceInv
  <2>. QED BY <2>3, <2>4 DEF AnnounceInv
<1>3. CASE commitStable(p)
  <2> DEFINE r == call[p].record
  <2>1. /\ Now' = [Now EXCEPT !.slot[p] = r] /\ call[p].pc = "stamped" /\ outbox' = outbox
        /\ call' = [call EXCEPT ![p] = Idle] /\ slot' = [slot EXCEPT ![p] = r] /\ NoteChanges
    BY <1>3, StableStep DEF commitStable, Return
  <2>2. r \in SlotType /\ SameMembers(r, slot[p]) /\ Consistent(Now)
    BY <2>1 DEF StoreInv, StampedInv
  <2>3. ASSUME NEW id \in Id, object(id)' # object(id) PROVE Tells(outbox[p], id)
    <3> DEFINE v == capture(Now, id)
               w == capture(Now', id)
    <3> HIDE DEF r
    <3>0. PICK st : st = [Now EXCEPT !.slot[p] = r] /\ st = Now'
      BY <2>1 DEF r
    <3>1. /\ v.owner # p => w.content = v.content
          /\ v.owner = p => /\ slot[p].visible /\ v.position \in DOMAIN slot[p].entries
                            /\ slot[p].entries[v.position].id = id
                            /\ v.content = slot[p].entries[v.position].content
                            /\ w.content = r.entries[v.position].content
      <4>1. p \in Id /\ r \in SlotType /\ SameMembers(r, slot[p]) /\ Consistent(Now)
        BY <1>0, <2>2
      <4>2. LET a == capture(Now, id)
                b == capture(st, id)
            IN /\ b.owner = a.owner /\ b.position = a.position
               /\ a.owner # p => b.content = a.content
               /\ a.owner = p => /\ slot[p].visible /\ a.position \in DOMAIN slot[p].entries
                                 /\ slot[p].entries[a.position].id = id
                                 /\ a.content = slot[p].entries[a.position].content
                                 /\ b.content = r.entries[a.position].content
        BY ONLY <3>0, <4>1, StableCapture, id \in Id
      <4>. QED BY <3>0, <4>2
    <3>2. w.content # v.content
      BY <2>3, ObjectPrime
    <3> HIDE DEF v, w
    <3>. QED BY <2>1, <3>1, <3>2 DEF AnnounceInv, Outgoing, r
  <2>4. Heard'
    <3>1. \A id \in unheard' : id \in Id /\ (id \in unheard \/ object(id)' # object(id))
      BY <1>0, <2>1 DEF NoteChanges
    <3>2. \A id \in unheard' : (id \in unheard /\ object(id)' = object(id)) \/ Tells(outbox[p], id)
      BY <2>3, <3>1
    <3>. QED BY <1>0, <2>1, <3>2, HeardAnyway DEF AnnounceInv
  <2>5. Outgoing'
    <3>1. \A q \in Emitter : q # p => slot'[q] = slot[q]
      BY <2>1, EmitterFacts DEF StoreInv, TypeOK, StoreType, Now
    <3>. QED BY <1>0, <2>1, <3>1, IdleType, OutgoingOne DEF AnnounceInv
  <2>. QED BY <2>4, <2>5 DEF AnnounceInv
<1>. QED BY <1>1, <1>2, <1>3

LEMMA AnnounceStamp ==
  ASSUME StoreInv, AnnounceInv, NEW p \in Emitter, NEW next \in Outputs[p], NEW usable,
         NEW entries \in Seq(EntryType), call[p].pc = "commit",
         Stable(p, next, entries), stampStable(p, next, entries),
         Send(p, stableEvents(p, next, entries, usable)), UNCHANGED store, NoteChanges
  PROVE  AnnounceInv'
<1> DEFINE told == stableEvents(p, next, entries, usable)
<1>0. /\ p \in Id /\ p \in Goroutine /\ unheard \in SUBSET Id /\ outbox \in [Goroutine -> Seq(Id)]
      /\ call \in [Emitter -> CallType] /\ call[p] \in CallType /\ GoodStore(Now)
  BY EmitterFacts DEF StoreInv, TypeOK, GoodStore
<1>1. Now' = Now /\ slot' = slot /\ outbox' = [outbox EXCEPT ![p] = told] /\ outbox[p] = << >>
  BY DEF store, Now, Send, AnnounceInv, Outgoing
<1>2. /\ told \in Seq(Id)
      /\ slot[p].visible => \A i \in DOMAIN entries : differs(p, entries[i]) => Tells(told, entries[i].id)
  BY StableEventsFacts
<1>3. PICK r \in SlotType :
         /\ call' = [call EXCEPT ![p].pc = "stamped", ![p].record = r]
         /\ \A i \in DOMAIN slot[p].entries :
               /\ i \in DOMAIN entries /\ entries[i].id = slot[p].entries[i].id
               /\ r.entries[i].content = entries[i].content
  BY <1>0, StampStep
<1> HIDE DEF told
<1>4. Heard'
  <2>1. \A id \in Id : object(id)' = object(id)
    BY <1>1, ObjectPrime
  <2>. QED BY <1>0, <1>1, <2>1, HeardWith DEF AnnounceInv
<1>5. /\ call'[p].pc = "stamped" /\ call'[p].record = r
      /\ \A q \in Emitter : q # p => call'[q] = call[q]
  BY <1>0, <1>3 DEF CallType
<1>6. outbox' \in [Goroutine -> Seq(Id)] /\ outbox'[p] = told /\ \A q \in Emitter : q # p => outbox'[q] = outbox[q]
  BY <1>0, <1>1, <1>2, EmitterFacts
<1>7. ASSUME NEW q \in Emitter, call'[q].pc \in {"snapshot", "commit"} PROVE outbox'[q] = << >>
  BY <1>5, <1>6, <1>7 DEF AnnounceInv, Outgoing
<1>8. ASSUME NEW q \in Emitter, call'[q].pc = "stamped", slot'[q].visible, NEW i \in DOMAIN slot'[q].entries,
             slot'[q].entries[i].content # call'[q].record.entries[i].content
      PROVE  Tells(outbox'[q], slot'[q].entries[i].id)
  <2>1. CASE q = p
    <3>1. /\ i \in DOMAIN slot[p].entries /\ i \in DOMAIN entries /\ entries[i].id = slot[p].entries[i].id
          /\ entries[i].content # slot[p].entries[i].content /\ slot[p].visible
      BY <1>1, <1>3, <1>5, <1>8, <2>1
    <3>2. differs(p, entries[i])
      BY <3>1 DEF differs
    <3>. QED BY <1>1, <1>2, <1>6, <2>1, <3>1, <3>2
  <2>2. CASE q # p
    BY <1>1, <1>5, <1>6, <1>8, <2>2 DEF AnnounceInv, Outgoing
  <2>. QED BY <2>1, <2>2
<1>9. Outgoing'
  BY <1>6, <1>7, <1>8 DEF Outgoing
<1>. QED BY <1>4, <1>9 DEF AnnounceInv

LEMMA AnnounceReplacement ==
  ASSUME StoreInv, AnnounceInv, NEW p \in Emitter, NEW next \in Outputs[p],
         NEW entries \in Seq(EntryType), OnePlace(p, entries), call[p].pc = "commit",
         commitReplacement(p, next, entries), Return(p), NoteChanges
  PROVE  AnnounceInv'
<1> DEFINE S == Ids(slot[p].entries) \cup Ids(entries) \cup Covered(p, next)
           R == expandRegion(Now, S)
           direct == changedTargets(slot[p].entries, entries) \cup Covered(p, next)
           st == replaced(p, next, entries, R)
           told == publications(Now, Now', R, direct)
<1>0. /\ p \in Id /\ p \in Goroutine /\ unheard \in SUBSET Id /\ outbox \in [Goroutine -> Seq(Id)]
      /\ call \in [Emitter -> CallType] /\ GoodStore(Now) /\ Consistent(Now) /\ Shown(Now, Alive(Now))
  BY EmitterFacts DEF StoreInv, TypeOK, GoodStore
<1>1. /\ AllLocked /\ Prepares(Now, st, R) /\ Now' = reachability(st, Now, R, direct)
      /\ outbox' = [outbox EXCEPT ![p] = told]
  BY <1>0, ReplaceStep
<1>2. R \in SUBSET Id
  BY <1>1 DEF Prepares
<1>3. Ids(slot[p].entries) \subseteq R /\ Ids(entries) \subseteq R
  <2> HIDE DEF S
  <2>1. \A id \in Id : id \in S => id \in R
    BY DEF expandRegion
  <2>2. Ids(slot[p].entries) \subseteq Id /\ Ids(entries) \subseteq Id
    <3>1. slot[p].entries \in Seq(EntryType)
      BY <1>0 DEF Consistent, StoreType, SlotType, Now
    <3>2. \A i \in DOMAIN slot[p].entries : slot[p].entries[i] \in EntryType
      BY <3>1
    <3>3. \A i \in DOMAIN entries : entries[i] \in EntryType
      OBVIOUS
    <3>. QED BY <3>2, <3>3 DEF Ids, EntryType
  <2>. QED BY <2>1, <2>2 DEF S
<1> HIDE DEF R
<1>4. Far(Now, st, R)
  BY <1>0, <1>2, <1>3, ReplaceFar
<1> HIDE DEF st, direct
<1>5. \A id \in Id : capture(Now', id).content # capture(Now, id).content =>
            capture(Now', id).content = None \/ Tells(told, id)
  BY <1>1, <1>4, RegionAnnounced
<1>6. told \in Seq(Id)
  BY <1>2, PublicationsFacts
<1> HIDE DEF told
<1>7. outbox[p] = << >>
  BY DEF AnnounceInv, Outgoing
<1>8. Heard'
  <2>1. \A id \in Id : object(id)' # object(id) => object(id)' = None \/ Tells(told, id)
    BY <1>5, ObjectPrime
  <2>. QED BY <1>0, <1>1, <1>7, <2>1, HeardWith DEF AnnounceInv
<1>9. Outgoing'
  <2>1. outbox' \in [Goroutine -> Seq(Id)] /\ \A q \in Emitter : q # p => outbox'[q] = outbox[q]
    BY <1>0, <1>1, <1>6, EmitterFacts
  <2>2. call' = [call EXCEPT ![p] = Idle] /\ Idle.pc = "idle"
    BY IdleType DEF Return
  <2>. QED BY <1>0, <1>1, <2>1, <2>2, OutgoingOne DEF AnnounceInv
<1>. QED BY <1>8, <1>9 DEF AnnounceInv

LEMMA AnnounceCommit ==
  ASSUME StoreInv, AnnounceInv, NEW p \in Emitter, NEW next \in Outputs[p], NEW usable, Commit(p, next, usable)
  PROVE  AnnounceInv'
<1> DEFINE entries == prepareEmission(p, next, usable)
<1>1. /\ Consistent(Now) /\ p \in Id /\ call \in [Emitter -> CallType] /\ outbox \in [Goroutine -> Seq(Id)]
  BY EmitterFacts DEF StoreInv, TypeOK
<1>2. entries \in Seq(EntryType) /\ OnePlace(p, entries)
  BY <1>1, Prepared
<1>3. call[p].pc = "commit" /\ NoteChanges
  BY DEF Commit
<1>4. CASE Return(p) /\ UNCHANGED <<store, outbox>>
  <2>1. call' = [call EXCEPT ![p] = Idle] /\ Now' = Now /\ slot' = slot /\ outbox' = outbox /\ Idle.pc = "idle"
    BY <1>4, IdleType DEF Return, store, Now
  <2>2. Heard'
    BY <1>3, <2>1, SameObjects, ObjectPrime DEF AnnounceInv
  <2>3. Outgoing'
    BY <1>1, <2>1, OutgoingOne DEF AnnounceInv
  <2>. QED BY <2>2, <2>3 DEF AnnounceInv
<1>5. CASE /\ Stable(p, next, entries) /\ stampStable(p, next, entries)
           /\ Send(p, stableEvents(p, next, entries, usable)) /\ UNCHANGED store
  <2> HIDE DEF entries
  <2>. QED BY <1>2, <1>3, <1>5, AnnounceStamp
<1>6. CASE commitReplacement(p, next, entries) /\ Return(p)
  <2> HIDE DEF entries
  <2>. QED BY <1>2, <1>3, <1>6, AnnounceReplacement
<1>. QED BY <1>4, <1>5, <1>6 DEF Commit

LEMMA AnnounceDispatch ==
  ASSUME StoreInv, AnnounceInv, NEW g \in Goroutine, Dispatch(g)
  PROVE  AnnounceInv'
<1>1. /\ call' = call /\ slot' = slot /\ Now' = Now /\ outbox' = [outbox EXCEPT ![g] = Tail(outbox[g])]
      /\ outbox[g] # << >> /\ unheard' = unheard \ {Head(outbox[g])}
      /\ g \in Emitter => call[g].pc # "stamped"
  BY DEF Dispatch, store, Now
<1>2. outbox \in [Goroutine -> Seq(Id)] /\ unheard \in SUBSET Id
  BY DEF StoreInv, TypeOK
<1>3. outbox[g] \in Seq(Id)
  BY <1>2
<1>4. ASSUME NEW id, Tells(outbox[g], id), id # Head(outbox[g]) PROVE Tells(Tail(outbox[g]), id)
  <2> DEFINE s == outbox[g]
  <2>1. PICK i \in DOMAIN s : s[i] = id
    BY <1>4 DEF Tells
  <2>2. s \in Seq(Id) /\ s # << >> /\ id # Head(s)
    BY <1>1, <1>3, <1>4
  <2> HIDE DEF s
  <2>3. i \in 1 .. Len(s) /\ i # 1 /\ Len(s) \in Nat
    BY <2>1, <2>2
  <2>4. i - 1 \in DOMAIN Tail(s) /\ Tail(s)[i - 1] = s[i]
    BY <2>2, <2>3
  <2>5. Tells(Tail(s), id)
    BY <2>1, <2>4 DEF Tells
  <2>. QED BY <2>5 DEF s
<1>5. Tail(outbox[g]) \in Seq(Id)
  BY <1>1, <1>3
<1>6. /\ outbox' \in [Goroutine -> Seq(Id)] /\ outbox'[g] = Tail(outbox[g])
      /\ \A h \in Goroutine : h # g => outbox'[h] = outbox[h]
  BY <1>1, <1>2, <1>5
<1>7. Heard'
  <2> SUFFICES ASSUME NEW id \in unheard'
               PROVE  object(id)' = None \/ \E h \in Goroutine : Tells(outbox'[h], id)
    BY DEF Heard
  <2>1. id \in unheard /\ id # Head(outbox[g]) /\ id \in Id
    BY <1>1, <1>2
  <2>2. object(id)' = object(id)
    BY <1>1, <2>1, ObjectPrime
  <2>3. object(id) = None \/ \E h \in Goroutine : Tells(outbox[h], id)
    BY <2>1 DEF AnnounceInv, Heard
  <2>4. \A h \in Goroutine : Tells(outbox[h], id) => Tells(outbox'[h], id)
    BY <1>4, <1>6, <2>1
  <2>. QED BY <2>2, <2>3, <2>4
<1>8. Outgoing'
  <2>1. ASSUME NEW q \in Emitter, call'[q].pc \in {"snapshot", "commit"} PROVE outbox'[q] = << >>
    <3>1. outbox[q] = << >> /\ q \in Goroutine
      BY <1>1, <2>1, EmitterFacts DEF AnnounceInv, Outgoing
    <3>. QED BY <1>1, <1>6, <3>1
  <2>2. ASSUME NEW q \in Emitter, call'[q].pc = "stamped" PROVE outbox'[q] = outbox[q]
    BY <1>1, <1>6, <2>2, EmitterFacts
  <2>. QED BY <1>1, <1>6, <2>1, <2>2 DEF AnnounceInv, Outgoing
<1>. QED BY <1>7, <1>8 DEF AnnounceInv

LEMMA AnnounceInit == Init => AnnounceInv
<1> SUFFICES ASSUME Init PROVE AnnounceInv
  OBVIOUS
<1>1. unheard = {} /\ outbox = [g \in Goroutine |-> << >>] /\ call = [p \in Emitter |-> Idle]
  BY DEF Init
<1>2. << >> \in Seq(Id)
  OBVIOUS
<1>3. outbox \in [Goroutine -> Seq(Id)]
  BY <1>1, <1>2
<1>4. \A p \in Emitter : call[p].pc = "idle"
  BY <1>1, IdleType
<1>. QED BY <1>1, <1>3, <1>4 DEF AnnounceInv, Heard, Outgoing

LEMMA AnnounceNext ==
  ASSUME StoreInv, AnnounceInv, [Next]_vars
  PROVE  AnnounceInv'
<1>1. CASE UNCHANGED vars
  <2>1. Now' = Now /\ call' = call /\ slot' = slot /\ outbox' = outbox /\ unheard' = unheard
    BY <1>1 DEF vars, Now
  <2>2. \A id \in unheard' : object(id)' = object(id)
    BY <2>1, ObjectPrime DEF StoreInv, TypeOK
  <2>3. Heard'
    BY <2>1, <2>2, HeardAnyway DEF AnnounceInv
  <2>. QED BY <2>1, <2>3 DEF AnnounceInv, Outgoing
<1>2. ASSUME NEW id \in Writable, DeleteObject(id) \/ \E c \in Content : AddObject(id, c) PROVE AnnounceInv'
  BY <1>2, AnnounceWrites
<1>3. ASSUME NEW p \in Emitter, Reconcile(p) \/ Snapshot(p) \/ Reject(p) \/ commitStable(p) PROVE AnnounceInv'
  BY <1>3, AnnounceCalls
<1>4. ASSUME NEW p \in Emitter, NEW next \in Outputs[p], NEW usable, Commit(p, next, usable) PROVE AnnounceInv'
  BY <1>4, AnnounceCommit
<1>5. ASSUME NEW g \in Goroutine, Dispatch(g) PROVE AnnounceInv'
  BY <1>5, AnnounceDispatch
<1>. QED BY <1>1, <1>2, <1>3, <1>4, <1>5 DEF Next

(* Nothing that is in force goes unannounced: when no commit is half way   *)
(* and every outbox is empty (dispatchPublications has run), the listeners *)
(* have been told of every resource whose object changed since they last   *)
(* read it, whichever producer's commit changed it; what they have not     *)
(* been told of is gone.                                                   *)
THEOREM AllAnnounced == Spec => []Announced
<1>1. AnnounceInv => Announced
  BY NothingTold DEF AnnounceInv, Heard, Announced
<1>. QED BY <1>1, StoreAlways, AnnounceInit, AnnounceNext, PTL DEF Spec
-----------------------------------------------------------------------------
(* Generations.  A head points at the place that supplies its resource, a  *)
(* producer that has published shows whether it is in force, and whatever  *)
(* is done to a producer's slot or to its declaration moves its stamp.     *)

HeadAt(st, id) ==
    LET v == capture(st, id)
    IN /\ st.head[id].selected = v.owner
       /\ v.owner # None => st.head[id].position = v.position /\ st.cell[id].generation >= 1

PublishedAt(st, L, p) == st.slot[p].published /\ p \notin L => st.slot[p].hidden /\ st.cell[p].hidden

\* The stamp of p does not go back, and moves if the generation of its slot does.
Steady(before, after, p) ==
    /\ current(after, p) >= current(before, p)
    /\ after.slot[p].generation = before.slot[p].generation \/ current(after, p) > current(before, p)

\* A write has prepared nothing for p that the region would not publish.
Undisturbed(before, st, R, p) ==
    /\ st.slot[p] = before.slot[p]
    /\ p \notin R => /\ st.cell[p] = before.cell[p] /\ st.head[p] = before.head[p]
                     /\ \A s \in Id : \/ st.slot[s].entries = before.slot[s].entries
                                      \/ p \notin Ids(before.slot[s].entries)

LEMMA CurrentFacts ==
  ASSUME NEW st \in StoreType, NEW id \in Id
  PROVE  /\ current(st, id) \in Nat /\ stamp(st, id) \in Nat /\ current(st, id) >= stamp(st, id)
         /\ current(st, id) >= st.cell[id].generation /\ st.cell[id].generation \in Nat
         /\ stamp(st, id) >= st.head[id].generation /\ st.head[id].generation \in Nat
<1>1. /\ st.cell[id].generation \in Nat /\ st.head[id].generation \in Nat
      /\ current(st, id) \in Nat /\ stamp(st, id) \in Nat
  BY StampType DEF StoreType, CellType, HeadType
<1>2. current(st, id) >= stamp(st, id) /\ current(st, id) >= st.cell[id].generation
  <2> DEFINE a == st.cell[id].generation
             b == stamp(st, id)
  <2>1. a \in Nat /\ b \in Nat /\ current(st, id) = larger(a, b)
    BY <1>1 DEF current
  <2> HIDE DEF a, b
  <2>2. larger(a, b) >= a /\ larger(a, b) >= b
    BY <2>1, SMTT(30) DEF larger
  <2>. QED BY <2>1, <2>2 DEF a, b
<1>3. stamp(st, id) >= st.head[id].generation
  <2> DEFINE h == st.head[id]
             entries == IF h.selected = None THEN << >> ELSE st.slot[h.selected].entries
  <2>1. CASE h.position \in DOMAIN entries /\ entries[h.position].id = id
    <3>1. stamp(st, id) = larger(h.generation, entries[h.position].generation)
      BY <2>1 DEF stamp
    <3>2. h.selected # None /\ h.selected \in Id
      BY <2>1, NoPlace, Zenon DEF StoreType, HeadType
    <3>3. entries[h.position].generation \in Nat
      BY <2>1, <3>2, EntryFacts, ZenonT(20)
    <3> HIDE DEF h, entries
    <3>4. h.generation \in Nat
      BY <1>1 DEF h
    <3>5. larger(h.generation, entries[h.position].generation) >= h.generation
      BY <3>3, <3>4 DEF larger
    <3>. QED BY <3>1, <3>5 DEF h
  <2>2. CASE ~(h.position \in DOMAIN entries /\ entries[h.position].id = id)
    <3>1. stamp(st, id) = h.generation
      BY <2>2 DEF stamp
    <3>. QED BY <1>1, <3>1
  <2>. QED BY <2>1, <2>2
<1>. QED BY <1>1, <1>2, <1>3

\* Where a head points, the stamp covers the place.
LEMMA StampCovers ==
  ASSUME NEW st \in StoreType, NEW id \in Id, st.head[id].selected # None,
         st.head[id].position \in DOMAIN st.slot[st.head[id].selected].entries,
         st.slot[st.head[id].selected].entries[st.head[id].position].id = id
  PROVE  LET e == st.slot[st.head[id].selected].entries[st.head[id].position] IN
         /\ stamp(st, id) >= e.generation
         /\ stamp(st, id) = larger(st.head[id].generation, e.generation)
         /\ e.generation \in Nat /\ st.head[id].generation \in Nat
<1> DEFINE h == st.head[id]
           e == st.slot[h.selected].entries[h.position]
<1>1. h.selected \in Id /\ h.generation \in Nat
  BY ZenonT(20) DEF StoreType, HeadType
<1>2. e.generation \in Nat
  BY <1>1, EntryFacts, ZenonT(20)
<1>3. stamp(st, id) = larger(h.generation, e.generation)
  BY DEF stamp
<1> HIDE DEF h, e
<1>4. larger(h.generation, e.generation) >= e.generation
  BY <1>1, <1>2 DEF larger
<1>. QED BY <1>1, <1>2, <1>3, <1>4, Zenon DEF h, e

LEMMA StampElse ==
  ASSUME NEW st, NEW id \in Id,
         st.head[id].selected = None
         \/ ~(/\ st.head[id].position \in DOMAIN st.slot[st.head[id].selected].entries
              /\ st.slot[st.head[id].selected].entries[st.head[id].position].id = id)
  PROVE  stamp(st, id) = st.head[id].generation
<1>1. CASE st.head[id].selected = None
  BY <1>1, NoPlace, Zenon DEF stamp
<1>2. CASE st.head[id].selected # None
  BY <1>2 DEF stamp
<1>. QED BY <1>1, <1>2

LEMMA CurrentGrows ==
  ASSUME NEW st \in StoreType, NEW next \in StoreType, NEW id \in Id,
         next.cell[id].generation >= st.cell[id].generation, next.head[id] = st.head[id],
         \A s \in Id : \A i \in DOMAIN st.slot[s].entries :
             s = st.head[id].selected /\ st.slot[s].entries[i].id = id =>
                 /\ i \in DOMAIN next.slot[s].entries /\ next.slot[s].entries[i].id = id
                 /\ next.slot[s].entries[i].generation >= st.slot[s].entries[i].generation
  PROVE  current(next, id) >= current(st, id) /\ stamp(next, id) >= stamp(st, id)
<1> DEFINE h == st.head[id]
           points == /\ h.selected # None /\ h.position \in DOMAIN st.slot[h.selected].entries
                     /\ st.slot[h.selected].entries[h.position].id = id
<1>1. /\ current(st, id) = larger(st.cell[id].generation, stamp(st, id))
      /\ current(next, id) = larger(next.cell[id].generation, stamp(next, id))
  BY DEF current
<1>2. /\ st.cell[id].generation \in Nat /\ next.cell[id].generation \in Nat
      /\ stamp(st, id) \in Nat /\ stamp(next, id) \in Nat
      /\ stamp(next, id) >= h.generation /\ h.generation \in Nat /\ h.selected \in Id \cup {None}
  <2>1. h.selected \in Id \cup {None}
    BY ZenonT(20) DEF StoreType, HeadType
  <2>. QED BY <2>1, CurrentFacts
<1>3. stamp(next, id) >= stamp(st, id)
  <2>1. CASE points
    <3> DEFINE a == st.slot[h.selected].entries[h.position]
               b == next.slot[h.selected].entries[h.position]
    <3>1. /\ h.position \in DOMAIN next.slot[h.selected].entries /\ b.id = id
          /\ b.generation >= a.generation
      BY <1>2, <2>1
    <3>2. stamp(st, id) = larger(h.generation, a.generation) /\ a.generation \in Nat
      BY <2>1, StampCovers, Zenon
    <3>3. stamp(next, id) = larger(h.generation, b.generation) /\ b.generation \in Nat
      BY <2>1, <3>1, StampCovers, Zenon
    <3> HIDE DEF h, a, b
    <3>. QED BY <1>2, <3>1, <3>2, <3>3, SMTT(30) DEF larger
  <2>2. CASE ~points
    <3>1. stamp(st, id) = h.generation
      BY <2>2, StampElse, Zenon
    <3>. QED BY <1>2, <3>1
  <2>. QED BY <2>1, <2>2
<1> HIDE DEF h
<1>. QED BY <1>1, <1>2, <1>3 DEF larger

\* What publishing a region does to the generation and the head of a resource in it.
LEMMA RegionObject ==
  ASSUME NEW st \in StoreType, Mirrored(st), NEW before \in StoreType, NEW R \in SUBSET Id, NEW direct,
         NEW id \in R
  PROVE  LET live  == propagateReachability(st, R)
             shown == VisibleStore(st, before, R, live)
             next  == NewStore(shown, before, R, live, id)
             after == reachability(st, before, R, direct)
             v     == capture(after, id)
             known == Known(shown, before, id)
             moves == Moves(shown, before, R, live, direct, id)
         IN /\ Skips(shown, before, id) =>
                  /\ after.cell[id] = st.cell[id] /\ after.head[id] = st.head[id]
                  /\ v.owner = None /\ v.content = None /\ known = 0
            /\ ~Skips(shown, before, id) =>
                  /\ after.head[id].selected = v.owner
                  /\ v.owner # None => after.head[id].position = v.position
                  /\ after.cell[id].generation = IF moves THEN current(next, id) + 1 ELSE known
                  /\ v.owner = capture(next, id).owner /\ v.content = capture(next, id).content
            /\ known \in Nat /\ known >= current(before, id) /\ current(next, id) >= known
            /\ current(next, id) \in Nat
<1> DEFINE live  == propagateReachability(st, R)
           shown == VisibleStore(st, before, R, live)
           next  == NewStore(shown, before, R, live, id)
           done  == publishRegionObject(shown, before, R, live, direct, id)
           after == reachability(st, before, R, direct)
           known == Known(shown, before, id)
           c     == NewCell(shown, before, R, live, id)
           w     == capture(next, id)
<1>0. id \in Id
  OBVIOUS
<1>1. /\ after \in StoreType /\ after.slot = shown.slot /\ after.members = st.members
      /\ after.cell[id] = done.cell[id] /\ after.head[id] = done.head[id]
  BY RegionParts
<1>2. /\ shown \in StoreType /\ shown.cell = st.cell /\ shown.head = st.head /\ shown.members = st.members
      /\ \A p \in Id : shown.slot[p].entries = st.slot[p].entries
  BY VisibleFields
<1> HIDE DEF live, after, shown
<1>3. Mirrored(shown)
  BY <1>2, MirroredSame
<1>4. /\ done \in StoreType /\ done.slot = shown.slot /\ done.members = shown.members
      /\ Skips(shown, before, id) => done = shown
      /\ ~Skips(shown, before, id) =>
            /\ done.cell[id] = [c EXCEPT !.generation =
                  IF Moves(shown, before, R, live, direct, id) THEN current(next, id) + 1 ELSE @]
            /\ done.head[id].selected = w.owner
            /\ w.owner # None => done.head[id].position = w.position
  BY <1>0, <1>2, <1>3, ObjectFields
<1>5. /\ c \in CellType /\ c.generation = known
  BY <1>0, <1>2, NewCellType
<1>6. /\ next \in StoreType /\ next.slot = shown.slot /\ next.members = shown.members /\ next.cell[id] = c
  BY <1>0, <1>2, <1>3, NewStoreType
<1> HIDE DEF done, next, c
<1>7. known \in Nat /\ known >= current(before, id) /\ current(next, id) >= known /\ current(next, id) \in Nat
  <2>1. current(before, id) \in Nat /\ shown.cell[id].generation \in Nat
    BY <1>0, <1>2, CurrentFacts
  <2>2. known \in Nat /\ known >= current(before, id)
    BY <2>1 DEF Known, larger
  <2>3. current(next, id) >= known /\ current(next, id) \in Nat
    BY <1>0, <1>5, <1>6, CurrentFacts
  <2>. QED BY <2>2, <2>3
<1>8. CASE Skips(shown, before, id)
  <2>1. after.cell[id] = st.cell[id] /\ after.head[id] = st.head[id] /\ after.members[id] = {} /\ known = 0
    BY <1>1, <1>2, <1>4, <1>8 DEF Skips
  <2>2. capture(after, id).owner = None /\ capture(after, id).content = None
    <3>1. st.cell[id].static = None
      BY <1>2, <1>8 DEF Skips
    <3>. QED BY <2>1, <3>1 DEF capture, captureMembers
  <2>. QED BY <1>7, <1>8, <2>1, <2>2 DEF live, shown, next, after
<1>9. CASE ~Skips(shown, before, id)
  <2> DEFINE moves == Moves(shown, before, R, live, direct, id)
             n == IF moves THEN current(next, id) + 1 ELSE c.generation
  <2>1. after.cell[id] = [c EXCEPT !.generation = n]
    BY <1>1, <1>4, <1>9
  <2>2. after.head[id].selected = w.owner /\ (w.owner # None => after.head[id].position = w.position)
    BY <1>1, <1>4, <1>9
  <2> HIDE DEF n
  <2>3. /\ after.cell[id].generation = n /\ after.cell[id].static = c.static
        /\ after.cell[id].rooted = c.rooted /\ after.cell[id].retired = c.retired
        /\ after.cell[id].hidden = c.hidden
    BY <1>5, <2>1 DEF CellType
  <2>4. capture(after, id) = w
    BY <1>0, <1>1, <1>2, <1>6, <2>3, CaptureSame
  <2> HIDE DEF w, moves
  <2>5. after.cell[id].generation = IF moves THEN current(next, id) + 1 ELSE known
    BY <1>5, <2>3 DEF n
  <2>. QED BY <1>7, <1>9, <2>2, <2>4, <2>5 DEF live, shown, next, after, w, moves
<1>. QED BY <1>8, <1>9

LEMMA RegionOutside ==
  ASSUME NEW st \in StoreType, Mirrored(st), NEW before \in StoreType, NEW R \in SUBSET Id, NEW direct,
         NEW id \in Id, id \notin R
  PROVE  LET after == reachability(st, before, R, direct) IN
         after.cell[id] = st.cell[id] /\ after.head[id] = st.head[id] /\ after.slot[id] = st.slot[id]
<1> DEFINE after == reachability(st, before, R, direct)
           live  == propagateReachability(st, R)
           done(x) == publishRegionObject(VisibleStore(st, before, R, live), before, R, live, direct, x)
<1>1. \A x \in Id : /\ after.cell[x] = IF x \in R THEN done(x).cell[x] ELSE st.cell[x]
                    /\ after.head[x] = IF x \in R THEN done(x).head[x] ELSE st.head[x]
  BY RegionParts
<1>2. \A x \in Id : x \notin R => after.slot[x] = st.slot[x]
  BY RegionFields
<1> HIDE DEF after, done
<1>. QED BY <1>1, <1>2 DEF after

LEMMA RegionFlags ==
  ASSUME NEW st \in StoreType, Mirrored(st), NEW before \in StoreType, NEW R \in SUBSET Id, NEW direct,
         NEW id \in Id
  PROVE  LET live  == propagateReachability(st, R)
             after == reachability(st, before, R, direct)
         IN /\ after.slot[id].published = st.slot[id].published
            /\ id \in R /\ st.slot[id].exists =>
                  (after.slot[id].hidden <=> id \notin live) /\ (after.cell[id].hidden <=> id \notin live)
<1> DEFINE live  == propagateReachability(st, R)
           after == reachability(st, before, R, direct)
<1>1. /\ after \in StoreType /\ after.members = st.members
      /\ \A x \in Id :
                 /\ after.slot[x].entries = st.slot[x].entries
                 /\ after.slot[x].exists = st.slot[x].exists
                 /\ after.slot[x].published = st.slot[x].published
                 /\ after.slot[x].shadows = st.slot[x].shadows
                 /\ after.cell[x].static = st.cell[x].static
                 /\ after.cell[x].rooted = st.cell[x].rooted
                 /\ x \notin R => after.slot[x] = st.slot[x] /\ after.cell[x] = st.cell[x]
                 /\ ~st.slot[x].exists => after.slot[x] = st.slot[x]
                 /\ x \in R /\ st.slot[x].exists =>
                       (after.slot[x].visible <=> x \in live) /\ (after.slot[x].hidden <=> x \notin live)
                 /\ x \in R =>
                       \/ st.cell[x].static = None /\ st.members[x] = {} /\ ~st.slot[x].exists
                       \/ /\ after.cell[x].hidden <=> x \notin live
                          /\ after.cell[x].retired <=> ~staticAnchor(st, x, R, live)
  BY RegionFields
<1> HIDE DEF after, live
<1>. QED BY <1>1 DEF after, live

LEMMA PublishedRegion ==
  ASSUME NEW before, NEW st, NEW R, NEW direct, Prepares(before, st, R),
         \A p \in Id \ R : PublishedAt(st, Alive(before), p)
  PROVE  LET after == reachability(st, before, R, direct) IN
         \A p \in Id : PublishedAt(after, Alive(after), p)
<1> USE DEF Prepares
<1> DEFINE after == reachability(st, before, R, direct)
           live  == propagateReachability(st, R)
<1>1. Alive(st) \ R = Alive(before) \ R /\ Alive(st) \cap R = live
  BY RegionAlive
<1>2. st \in StoreType /\ before \in StoreType /\ Mirrored(st) /\ Inventories(st)
  BY DEF Consistent
<1>3. Alive(after) = Alive(st)
  BY RegionDone
<1>4. \A id \in Id :
         /\ after.slot[id].published = st.slot[id].published
         /\ id \notin R => after.slot[id] = st.slot[id] /\ after.cell[id] = st.cell[id]
         /\ id \in R /\ st.slot[id].exists => (after.slot[id].hidden <=> id \notin live)
         /\ id \in R /\ st.slot[id].exists => (after.cell[id].hidden <=> id \notin live)
  BY <1>2, RegionFlags, RegionOutside
<1> HIDE DEF after, live
<1>5. ASSUME NEW p \in Id PROVE PublishedAt(after, Alive(after), p)
  <2>1. st.slot[p].published => st.slot[p].exists
    BY <1>2 DEF Inventories
  <2>2. CASE p \in R
    BY <1>1, <1>3, <1>4, <2>1, <2>2 DEF PublishedAt
  <2>3. CASE p \notin R
    BY <1>1, <1>3, <1>4, <2>3 DEF PublishedAt
  <2>. QED BY <2>2, <2>3
<1>. QED BY <1>5 DEF after

LEMMA HeadRegion ==
  ASSUME NEW before, NEW st, NEW R, NEW direct, Prepares(before, st, R), Far(before, st, R),
         \A id \in Id : HeadAt(before, id),
         \A id \in Id : st.head[id].selected = before.head[id].selected
                        /\ st.head[id].position = before.head[id].position,
         \A id \in Id \ R : st.cell[id] = before.cell[id] \/ st.cell[id].hidden
  PROVE  LET after == reachability(st, before, R, direct) IN \A id \in Id : HeadAt(after, id)
<1> DEFINE after == reachability(st, before, R, direct)
           live  == propagateReachability(st, R)
           shown == VisibleStore(st, before, R, live)
<1>1. st \in StoreType /\ before \in StoreType /\ Mirrored(st) /\ Mirrored(before) /\ R \in SUBSET Id
  BY DEF Prepares, Consistent
<1>2. ASSUME NEW id \in R PROVE HeadAt(after, id)
  <2> DEFINE next  == NewStore(shown, before, R, live, id)
             v     == capture(after, id)
             u     == capture(before, id)
             known == Known(shown, before, id)
             moves == Moves(shown, before, R, live, direct, id)
  <2>1. /\ Skips(shown, before, id) =>
               after.cell[id] = st.cell[id] /\ after.head[id] = st.head[id] /\ v.owner = None /\ known = 0
        /\ ~Skips(shown, before, id) =>
               /\ after.head[id].selected = v.owner
               /\ v.owner # None => after.head[id].position = v.position
               /\ after.cell[id].generation = IF moves THEN current(next, id) + 1 ELSE known
               /\ v.owner = capture(next, id).owner
        /\ known \in Nat /\ known >= current(before, id) /\ current(next, id) >= known
        /\ current(next, id) \in Nat
    BY <1>1, RegionObject
  <2>2. ~moves => u.owner = capture(next, id).owner
    BY DEF Moves
  <2>3. /\ before.head[id].selected = u.owner
        /\ u.owner # None => before.cell[id].generation >= 1
        /\ st.head[id].selected = before.head[id].selected
    BY <1>1 DEF HeadAt
  <2>4. current(before, id) >= before.cell[id].generation /\ current(before, id) \in Nat
        /\ before.cell[id].generation \in Nat
    BY <1>1, CurrentFacts
  <2> HIDE DEF v, u, known, moves, next, after, shown, live
  <2>5. CASE Skips(shown, before, id)
    <3>1. u.owner = None
      BY <2>1, <2>3, <2>4, <2>5
    <3>. QED BY <2>1, <2>3, <2>5, <3>1 DEF HeadAt, v
  <2>6. CASE ~Skips(shown, before, id)
    <3>1. v.owner # None => after.cell[id].generation >= 1
      BY <2>1, <2>2, <2>3, <2>4, <2>6
    <3>. QED BY <2>1, <2>6, <3>1 DEF HeadAt, v
  <2>. QED BY <2>5, <2>6
<1>3. ASSUME NEW id \in Id \ R PROVE HeadAt(after, id)
  <2> DEFINE v == capture(after, id)
             u == capture(before, id)
  <2>1. after.head[id] = st.head[id] /\ after.cell[id] = st.cell[id]
    BY <1>1, RegionOutside
  <2>3. v.owner = u.owner /\ (v.owner # None => v.position = u.position)
    BY FarCapture DEF SameCapture
  <2>4. after.cell[id].hidden => v.owner = None
    BY DEF capture
  <2>5. /\ before.head[id].selected = u.owner
        /\ u.owner # None => before.head[id].position = u.position /\ before.cell[id].generation >= 1
    BY DEF HeadAt
  <2> HIDE DEF after, u, v
  <2>. QED BY <2>1, <2>3, <2>4, <2>5 DEF HeadAt, v
<1>. QED BY <1>2, <1>3

LEMMA SteadyRegion ==
  ASSUME NEW before, NEW st, NEW R, NEW direct, Prepares(before, st, R), NEW p \in Id,
         PublishedAt(before, Alive(before), p), Undisturbed(before, st, R, p)
  PROVE  Steady(before, reachability(st, before, R, direct), p)
<1> USE DEF Prepares
<1> DEFINE after == reachability(st, before, R, direct)
           live  == propagateReachability(st, R)
           shown == VisibleStore(st, before, R, live)
           K     == Alive(before)
<1>1. st \in StoreType /\ before \in StoreType /\ Mirrored(st) /\ Inventories(before) /\ R \in SUBSET Id
  BY DEF Consistent
<1>2. after \in StoreType /\ after.slot = shown.slot
  BY <1>1, RegionParts
<1>3. /\ shown.slot[p].entries = st.slot[p].entries
      /\ p \notin R \/ ~st.slot[p].exists => shown.slot[p] = st.slot[p]
      /\ p \in R /\ st.slot[p].exists =>
            shown.slot[p].generation =
               IF /\ st.slot[p].published
                  /\ st.slot[p].visible # (p \in live) \/ st.slot[p].hidden = (p \in live)
                  /\ st.slot[p].generation = before.slot[p].generation
               THEN st.slot[p].generation + 1 ELSE st.slot[p].generation
      /\ shown \in StoreType /\ \A q \in Id : shown.slot[q].entries = st.slot[q].entries
  BY <1>1, VisibleFields
<1>4. st.slot[p] = before.slot[p] /\ before.slot[p] \in SlotType /\ before.cell[p] \in CellType
  BY <1>1 DEF Undisturbed, StoreType
<1>5. Shows(before, K, p) /\ (before.slot[p].published => before.slot[p].exists)
  BY <1>1 DEF Shown, Inventories
<1> HIDE DEF K
<1>6. CASE p \in R
  <2> DEFINE next  == NewStore(shown, before, R, live, p)
             known == Known(shown, before, p)
             moves == Moves(shown, before, R, live, direct, p)
  <2>1. /\ Skips(shown, before, p) => known = 0
        /\ ~Skips(shown, before, p) => after.cell[p].generation = IF moves THEN current(next, p) + 1 ELSE known
        /\ known \in Nat /\ known >= current(before, p) /\ current(next, p) >= known
        /\ current(next, p) \in Nat
    BY <1>1, <1>6, RegionObject
  <2>2. /\ current(after, p) >= after.cell[p].generation /\ current(after, p) \in Nat
        /\ current(before, p) \in Nat /\ after.cell[p].generation \in Nat
    BY <1>1, <1>2, CurrentFacts
  <2>3. ASSUME shown.slot[p].generation # before.slot[p].generation PROVE ~Skips(shown, before, p) /\ moves
    <3>1. /\ st.slot[p].exists /\ st.slot[p].published
          /\ st.slot[p].visible # (p \in live) \/ st.slot[p].hidden = (p \in live)
      BY <1>3, <1>4, <2>3
    <3>2. p \in live <=> p \notin K
      <4>1. before.slot[p].visible <=> p \in K
        BY <1>4, <1>5, <3>1 DEF Shows
      <4>2. before.slot[p].hidden <=> p \notin K
        BY <1>4, <1>5, <3>1 DEF Shows, PublishedAt, K
      <4>3. before.slot[p].visible \in BOOLEAN /\ before.slot[p].hidden \in BOOLEAN
        BY <1>4 DEF SlotType
      <4>. QED BY <1>4, <3>1, <4>1, <4>2, <4>3
    <3>3. before.cell[p].hidden <=> p \notin K
      BY <1>4, <1>5, <3>1 DEF Shows, PublishedAt, K
    <3>4. NewCell(shown, before, R, live, p).hidden <=> p \notin live
      BY <1>1, <1>3, NewCellType
    <3>5. NewCell(shown, before, R, live, p).hidden # before.cell[p].hidden
      BY <3>2, <3>3, <3>4
    <3>6. moves
      BY <3>5 DEF Moves
    <3>7. shown.slot[p].exists
      BY <1>1, <3>1, VisibleFields
    <3>. QED BY <3>6, <3>7 DEF Skips
  <2> HIDE DEF next, known, moves, after, shown, live
  <2>4. current(after, p) >= current(before, p)
    BY <2>1, <2>2
  <2>5. shown.slot[p].generation # before.slot[p].generation => current(after, p) > current(before, p)
    BY <2>1, <2>2, <2>3
  <2>. QED BY <1>2, <2>4, <2>5 DEF Steady, after
<1>7. CASE p \notin R
  <2>1. after.slot[p].generation = before.slot[p].generation
    BY <1>2, <1>3, <1>4, <1>7
  <2>2. after.cell[p] = before.cell[p] /\ after.head[p] = before.head[p]
    <3>1. after.cell[p] = st.cell[p] /\ after.head[p] = st.head[p]
      BY <1>1, <1>7, RegionOutside
    <3>. QED BY <1>7, <3>1 DEF Undisturbed
  <2>3. ASSUME NEW s \in Id, NEW i \in DOMAIN before.slot[s].entries, before.slot[s].entries[i].id = p
        PROVE  after.slot[s].entries = before.slot[s].entries /\ before.slot[s].entries[i].generation \in Nat
    <3>1. p \in Ids(before.slot[s].entries)
      BY <2>3 DEF Ids
    <3>2. st.slot[s].entries = before.slot[s].entries
      BY <1>7, <3>1 DEF Undisturbed
    <3>3. before.slot[s].entries[i].generation \in Nat
      BY <1>1, EntryFacts
    <3>. QED BY <1>2, <1>3, <3>2, <3>3
  <2>4. before.cell[p].generation \in Nat
    BY <1>4 DEF CellType
  <2> HIDE DEF after, shown, live
  <2>5. current(after, p) >= current(before, p)
    <3>1. after.cell[p].generation >= before.cell[p].generation
      BY <2>2, <2>4
    <3>2. \A s \in Id : \A i \in DOMAIN before.slot[s].entries :
             s = before.head[p].selected /\ before.slot[s].entries[i].id = p =>
                 /\ i \in DOMAIN after.slot[s].entries /\ after.slot[s].entries[i].id = p
                 /\ after.slot[s].entries[i].generation >= before.slot[s].entries[i].generation
      BY <2>3
    <3>. QED BY <1>1, <1>2, <2>2, <3>1, <3>2, CurrentGrows, ZenonT(20)
  <2>. QED BY <2>1, <2>5 DEF Steady, after
<1>. QED BY <1>6, <1>7

\* The record that is about to be stored for p has stamps no older than those it replaces.
RecordInv ==
    \A p \in Emitter : call[p].pc = "stamped" =>
        \A i \in DOMAIN slot[p].entries :
            call[p].record.entries[i].generation >= slot[p].entries[i].generation

\* The stamp a reconciliation captured is not ahead of its declaration, and is behind
\* it once its slot has moved since the snapshot.
InputInv ==
    \A p \in Emitter :
        /\ call[p].pc \in {"snapshot", "commit"} => call[p].input <= current(Now, p)
        /\ call[p].pc = "commit" =>
              slot[p].generation = call[p].generation \/ call[p].input < current(Now, p)

Placed(st) == \A id \in Id : HeadAt(st, id) /\ PublishedAt(st, Alive(st), id)

ReadInv == Placed(Now) /\ RecordInv /\ InputInv

LEMMA RecordKept ==
  ASSUME RecordInv,
         \A q \in Emitter : call'[q].pc = "stamped" => call'[q] = call[q] /\ slot'[q] = slot[q]
  PROVE  RecordInv'
  BY DEF RecordInv

LEMMA InputKept ==
  ASSUME StoreInv, StoreInv', InputInv,
         \A q \in Emitter : \/ call'[q].pc \notin {"snapshot", "commit"}
                            \/ call'[q] = call[q] /\ Steady(Now, Now', q)
                            \/ /\ call'[q].input <= current(Now', q)
                               /\ call'[q].pc = "commit" => slot'[q].generation = call'[q].generation
  PROVE  InputInv'
<1> SUFFICES ASSUME NEW q \in Emitter, call'[q].pc \in {"snapshot", "commit"}
             PROVE  /\ call'[q].input <= current(Now', q)
                    /\ call'[q].pc = "commit" =>
                          slot'[q].generation = call'[q].generation \/ call'[q].input < current(Now', q)
  BY DEF InputInv
<1> SUFFICES ASSUME call'[q] = call[q], Steady(Now, Now', q)
             PROVE  /\ call'[q].input <= current(Now', q)
                    /\ call'[q].pc = "commit" =>
                          slot'[q].generation = call'[q].generation \/ call'[q].input < current(Now', q)
  OBVIOUS
<1>1. call'[q] = call[q] /\ Steady(Now, Now', q)
  OBVIOUS
<1>2. q \in Id /\ call[q].input \in Nat /\ Now \in StoreType /\ Now' \in StoreType
  BY EmitterFacts DEF StoreInv, TypeOK, CallType
<1>3. current(Now, q) \in Nat /\ current(Now', q) \in Nat
  BY <1>2, CurrentFacts
<1>4. /\ current(Now', q) >= current(Now, q)
      /\ slot'[q].generation = slot[q].generation \/ current(Now', q) > current(Now, q)
  BY <1>1 DEF Steady, Now
<1>5. call[q].input <= current(Now, q)
  BY <1>1 DEF InputInv
<1>6. call[q].pc = "commit" => slot[q].generation = call[q].generation \/ call[q].input < current(Now, q)
  BY DEF InputInv
<1>7. call[q].input <= current(Now', q)
  BY <1>2, <1>3, <1>4, <1>5
<1>8. call[q].input < current(Now, q) => call[q].input < current(Now', q)
  BY <1>2, <1>3, <1>4
<1>9. current(Now', q) > current(Now, q) => call[q].input < current(Now', q)
  BY <1>2, <1>3, <1>5
<1>. QED BY <1>1, <1>4, <1>6, <1>7, <1>8, <1>9

\* The stamp of x is a matter of its cell, its head and the slots.
LEMMA CurrentSame ==
  ASSUME NEW st, NEW next, NEW x, next.slot = st.slot,
         next.cell[x].generation = st.cell[x].generation, next.head[x] = st.head[x]
  PROVE  current(next, x) = current(st, x)
  BY DEF current, stamp

\* One cell gets a new declaration and the next generation.
LEMMA Advanced ==
  ASSUME Now \in StoreType, NEW id \in Id, NEW d \in CellType, d.generation = cell[id].generation,
         NEW st, st = [Now EXCEPT !.cell[id] = d], Install(advance(st, id))
  PROVE  /\ Now' \in StoreType /\ slot' = slot /\ members' = members
         /\ \A x \in Id : x # id => cell'[x] = cell[x] /\ head'[x] = head[x]
         /\ head'[id].selected = head[id].selected /\ head'[id].position = head[id].position
         /\ cell'[id].generation = current(Now, id) + 1 /\ cell'[id].rooted = d.rooted
         /\ registered(Now, id) => head'[id].generation = current(Now, id) + 1
<1> DEFINE next == advance(st, id)
           g == current(st, id) + 1
<1>1. /\ st \in StoreType /\ st.slot = slot /\ st.members = members /\ st.head = head
      /\ st.cell[id] = d /\ \A x \in Id : x # id => st.cell[x] = cell[x]
  BY NowFields DEF StoreType
<1>2. current(st, id) = current(Now, id)
  <2>1. /\ st.slot = Now.slot /\ st.cell[id].generation = Now.cell[id].generation
        /\ st.head[id] = Now.head[id]
    BY <1>1, NowFields
  <2>. QED BY ONLY <2>1, CurrentSame
<1>3. /\ next \in StoreType /\ next.slot = st.slot /\ next.members = st.members
      /\ next.cell = [st.cell EXCEPT ![id].generation = g]
      /\ \A x \in Id : x # id => next.head[x] = st.head[x]
      /\ next.head[id].selected = st.head[id].selected
      /\ next.head[id].position = st.head[id].position
      /\ next.head[id].generation = IF registered(st, id) THEN g ELSE st.head[id].generation
  BY <1>1, AdvanceFields
<1> HIDE DEF next, g
<1>4. Now' = next
  BY <1>3, Installed DEF next
<1>5. cell' = next.cell /\ head' = next.head /\ slot' = next.slot /\ members' = next.members
  BY <1>4 DEF Now
<1>6. next.cell[id] = [d EXCEPT !.generation = g] /\ \A x \in Id : x # id => next.cell[x] = cell[x]
  BY <1>1, <1>3 DEF StoreType
<1>7. next.cell[id].generation = g /\ next.cell[id].rooted = d.rooted
  BY <1>6 DEF CellType
<1>8. \A x \in Id : x # id => next.head[x] = head[x]
  BY <1>1, <1>3
<1>9. next.slot = slot /\ next.members = members /\ next.head[id].selected = head[id].selected
      /\ next.head[id].position = head[id].position
  BY <1>1, <1>3
<1>10. registered(Now, id) => next.head[id].generation = g
  BY <1>1, <1>3, NowFields DEF registered
<1>. QED BY <1>10, <1>2, <1>3, <1>4, <1>5, <1>6, <1>7, <1>8, <1>9 DEF g

\* A direct write, where nobody else supplies the resource.
LEMMA DirectRead ==
  ASSUME StoreInv, StoreInv', ReadInv, NEW id \in Id, call' = call, slot' = slot, members' = members,
         \A x \in Id : x # id => cell'[x] = cell[x] /\ head'[x] = head[x],
         head'[id].selected = head[id].selected, cell'[id].generation = current(Now, id) + 1,
         (cell[id].rooted /\ cell'[id].rooted) \/ Lone(Now, id), ~slot[id].published \/ ~cell[id].hidden
  PROVE  ReadInv'
<1>1. /\ Consistent(Now) /\ Now \in StoreType /\ Mirrored(Now) /\ Shown(Now, Alive(Now)) /\ Inventories(Now)
      /\ Consistent(Now') /\ Now' \in StoreType /\ Mirrored(Now') /\ Shown(Now', Alive(Now'))
  BY DEF StoreInv, Consistent
<1>2. RecordInv'
  BY RecordKept DEF ReadInv
<1>3. \A x \in Id : Steady(Now, Now', x)
  <2>1. ASSUME NEW x \in Id, x # id PROVE current(Now', x) = current(Now, x)
    BY <2>1, CurrentSame DEF Now
  <2>2. current(Now', id) > current(Now, id)
    <3>1. current(Now', id) >= current(Now, id) + 1 /\ current(Now', id) \in Nat /\ current(Now, id) \in Nat
      BY <1>1, CurrentFacts DEF Now
    <3>. QED BY <3>1
  <2>3. \A x \in Id : current(Now, x) \in Nat /\ current(Now', x) \in Nat
    BY <1>1, CurrentFacts
  <2>. QED BY <2>1, <2>2, <2>3 DEF Steady, Now
<1>4. InputInv'
  BY <1>3, InputKept, EmitterFacts DEF ReadInv
<1>5. ASSUME NEW x \in Id PROVE PublishedAt(Now', Alive(Now'), x)
  <2> SUFFICES ASSUME slot[x].published, x \notin Alive(Now') PROVE slot[x].hidden /\ cell'[x].hidden
    BY DEF PublishedAt, Now
  <2>1. slot[x].exists
    BY <1>1 DEF Inventories, Now
  <2>2. (slot[x].visible <=> x \in Alive(Now)) /\ (slot[x].visible <=> x \in Alive(Now'))
    <3>1. Shows(Now, Alive(Now), x) /\ Shows(Now', Alive(Now'), x)
      BY <1>1 DEF Shown
    <3>2. Now.slot = slot /\ Now'.slot = slot
      BY DEF Now
    <3>. QED BY <2>1, <3>1, <3>2 DEF Shows
  <2>3. slot[x].hidden /\ cell[x].hidden
    BY <2>2, NowFields DEF ReadInv, Placed, PublishedAt
  <2>. QED BY <2>3
<1>6. ASSUME NEW x \in Id PROVE HeadAt(Now', x)
  <2>1. CASE x # id
    <3>1. capture(Now', x) = capture(Now, x)
      BY <2>1, OthersSame
    <3>2. HeadAt(Now, x)
      BY DEF ReadInv, Placed
    <3>. QED BY <2>1, <3>1, <3>2 DEF HeadAt, Now
  <2>2. CASE x = id
    <3>1. Lone(Now, id) => Showing(Now, id) = {} /\ Showing(Now', id) = {}
      <4>1. Lone(Now, id) => Lone(Now', id)
        BY DEF Lone, Now
      <4>. QED BY <1>1, <4>1, LoneFacts DEF Showing
    <3>2. capture(Now, id).owner = None
      BY <1>1, <3>1, CaptureFacts, NowFields
    <3>3. capture(Now', id).owner = None
      <4>1. Now'.cell[id].rooted = cell'[id].rooted
        BY DEF Now
      <4>. QED BY <1>1, <3>1, <4>1, CaptureFacts
    <3>4. Now'.head[id].selected = None
      BY <3>2 DEF ReadInv, Placed, HeadAt, Now
    <3>. QED BY <2>2, <3>3, <3>4 DEF HeadAt
  <2>. QED BY <2>1, <2>2
<1>. QED BY <1>2, <1>4, <1>5, <1>6 DEF ReadInv, Placed

\* A region is published, under every lock.
LEMMA RegionRead ==
  ASSUME StoreInv, StoreInv', ReadInv, AllLocked, NEW st, NEW R, NEW direct,
         Prepares(Now, st, R), Far(Now, st, R), Now' = reachability(st, Now, R, direct),
         \A id \in Id : st.head[id].selected = Now.head[id].selected
                        /\ st.head[id].position = Now.head[id].position,
         \A id \in Id \ R : st.cell[id] = Now.cell[id] \/ st.cell[id].hidden,
         \A p \in Id \ R : PublishedAt(st, Alive(Now), p),
         \A q \in Emitter : \/ call'[q].pc = "idle"
                            \/ call'[q] = call[q] /\ Undisturbed(Now, st, R, q)
  PROVE  ReadInv'
<1>1. \A id \in Id : HeadAt(Now, id) /\ PublishedAt(Now, Alive(Now), id)
  BY DEF ReadInv, Placed
<1>2. \A id \in Id : HeadAt(Now', id)
  BY <1>1, HeadRegion
<1>3. \A id \in Id : PublishedAt(Now', Alive(Now'), id)
  BY PublishedRegion
<1>4. ASSUME NEW q \in Emitter
      PROVE  call'[q].pc \notin {"snapshot", "commit"} \/ (call'[q] = call[q] /\ Steady(Now, Now', q))
  <2>1. q \in Id
    BY EmitterFacts
  <2>2. Undisturbed(Now, st, R, q) => Steady(Now, reachability(st, Now, R, direct), q)
    BY <1>1, <2>1, SteadyRegion
  <2>3. CASE call'[q].pc = "idle"
    BY <2>3
  <2>4. CASE call'[q] = call[q] /\ Undisturbed(Now, st, R, q)
    BY <2>2, <2>4, Zenon
  <2>. QED BY <2>3, <2>4
<1>5. InputInv'
  BY <1>4, InputKept DEF ReadInv
<1>6. RecordInv'
  BY RecordKept DEF ReadInv, AllLocked
<1>. QED BY <1>2, <1>3, <1>5, <1>6 DEF ReadInv, Placed

\* The cell of id, which is in the region, is all that was written before.
LEMMA CellRegionRead ==
  ASSUME StoreInv, StoreInv', ReadInv, AllLocked, NEW id \in Id, NEW d, NEW direct, call' = call,
         Prepares(Now, [Now EXCEPT !.cell[id] = d], expandRegion(Now, {id})),
         Now' = reachability([Now EXCEPT !.cell[id] = d], Now, expandRegion(Now, {id}), direct)
  PROVE  ReadInv'
<1> DEFINE R == expandRegion(Now, {id})
           st == [Now EXCEPT !.cell[id] = d]
<1>1. Now \in StoreType
  BY DEF StoreInv, Consistent
<1>2. id \in R /\ R \in SUBSET Id
  BY <1>1, RegionClosed
<1>3. Far(Now, st, R)
  BY <1>2, CellFar
<1>4. /\ st.slot = Now.slot /\ st.head = Now.head /\ \A x \in Id : x # id => st.cell[x] = Now.cell[x]
  BY <1>1 DEF StoreType
<1> HIDE DEF R, st
<1>5. \A x \in Id \ R : st.cell[x] = Now.cell[x] /\ PublishedAt(st, Alive(Now), x)
  BY <1>2, <1>4 DEF PublishedAt, ReadInv, Placed
<1>6. \A q \in Emitter : Undisturbed(Now, st, R, q)
  BY <1>4, <1>5, EmitterFacts DEF Undisturbed
<1>7. Prepares(Now, st, R) /\ Now' = reachability(st, Now, R, direct)
  BY DEF st, R
<1>. QED BY <1>3, <1>4, <1>5, <1>6, <1>7, RegionRead

LEMMA ReadWrites ==
  ASSUME StoreInv, StoreInv', ReadInv, NEW id \in Writable,
         DeleteObject(id) \/ \E c \in Content : AddObject(id, c)
  PROVE  ReadInv'
<1>0. /\ GoodStore(Now) /\ id \in Id /\ Now \in StoreType /\ Consistent(Now) /\ cell[id] \in CellType
      /\ cell \in [Id -> CellType]
  BY WritableFacts DEF StoreInv, GoodStore, Consistent, StoreType, Now
<1>1. CASE DeleteObject(id)
  <2>1. call' = call
    BY <1>1 DEF DeleteObject
  <2>2. /\ WithdrawnCell(id) \in CellType /\ WithdrawnCell(id).generation = cell[id].generation
        /\ withdrawn(id) = [Now EXCEPT !.cell[id] = WithdrawnCell(id)]
    <3>1. cell[id].static \in Content
      BY <1>0, <1>1 DEF DeleteObject, CellType
    <3>. QED BY <1>0, <3>1, CellStores
  <2>3. CASE Lone(Now, id)
    <3>1. Install(advance([Now EXCEPT !.cell[id] = WithdrawnCell(id)], id))
      BY <1>1, <2>2, <2>3, NowFields DEF DeleteObject, Lone, deleteLocked
    <3>2. PICK st : st = [Now EXCEPT !.cell[id] = WithdrawnCell(id)]
      OBVIOUS
    <3>3. Install(advance(st, id))
      BY <3>1, <3>2
    <3>4. /\ slot' = slot /\ members' = members
          /\ \A x \in Id : x # id => cell'[x] = cell[x] /\ head'[x] = head[x]
          /\ head'[id].selected = head[id].selected
          /\ cell'[id].generation = current(Now, id) + 1
      BY <1>0, <2>2, <3>2, <3>3, Advanced
    <3>5. ~slot[id].published
      BY <1>0, <2>3, LoneFacts, NowFields
    <3>. QED BY <1>0, <2>1, <2>3, <3>4, <3>5, DirectRead
  <2>4. CASE /\ AllLocked
             /\ LET st    == [Now EXCEPT !.cell[id] = WithdrawnCell(id)]
                    R     == expandRegion(Now, {id})
                    after == reachability(st, Now, R, {id})
                IN Prepares(Now, st, R) /\ Now' = after
    BY <1>0, <2>1, <2>4, CellRegionRead
  <2>5. \/ Lone(Now, id)
        \/ /\ AllLocked
           /\ LET st    == [Now EXCEPT !.cell[id] = WithdrawnCell(id)]
                  R     == expandRegion(Now, {id})
                  after == reachability(st, Now, R, {id})
              IN Prepares(Now, st, R) /\ Now' = after
    BY <1>0, <1>1, DeleteStep
  <2>. QED BY <2>3, <2>4, <2>5
<1>2. ASSUME NEW c \in Content, AddObject(id, c) PROVE ReadInv'
  <2>1. call' = call
    BY <1>2 DEF AddObject
  <2>2. CASE UNCHANGED <<store, outbox>>
    <3>1. Now' = Now /\ slot' = slot
      BY <2>2 DEF store, Now
    <3>. QED BY <2>1, <3>1 DEF ReadInv, RecordInv, InputInv
  <2>3. CASE ~cell[id].hidden /\ ~needsRoot(id) /\ admit(id, c)
    <3> DEFINE d == [cell[id] EXCEPT !.static = c, !.retired = FALSE]
    <3>1. d \in CellType /\ d.generation = cell[id].generation /\ d.rooted = cell[id].rooted
      BY <1>0 DEF CellType
    <3>2. [Now EXCEPT !.cell[id].static = c, !.cell[id].retired = FALSE] = [Now EXCEPT !.cell[id] = d]
      BY <1>0 DEF Now, CellType
    <3> HIDE DEF d
    <3>3. PICK st : st = [Now EXCEPT !.cell[id] = d]
      OBVIOUS
    <3>4. Install(advance(st, id))
      BY <2>3, <3>2, <3>3 DEF admit
    <3>5. /\ slot' = slot /\ members' = members
          /\ \A x \in Id : x # id => cell'[x] = cell[x] /\ head'[x] = head[x]
          /\ head'[id].selected = head[id].selected
          /\ cell'[id].generation = current(Now, id) + 1 /\ cell'[id].rooted = d.rooted
      BY <1>0, <3>1, <3>3, <3>4, Advanced
    <3>6. (cell[id].rooted /\ cell'[id].rooted) \/ Lone(Now, id)
      BY <2>3, <3>1, <3>5, NowFields DEF needsRoot, Lone
    <3>. QED BY <1>0, <2>1, <2>3, <3>5, <3>6, DirectRead
  <2>4. CASE addAnchor(id, c)
    <3>1. AllLocked
      BY <2>4 DEF addAnchor
    <3>2. PICK direct :
             LET st    == [Now EXCEPT !.cell[id] = RootCell(id, anchored(id, c))]
                 R     == expandRegion(Now, {id})
                 after == reachability(st, Now, R, direct)
             IN Prepares(Now, st, R) /\ Now' = after
      BY <1>0, <2>4, AnchorStep
    <3>. QED BY <1>0, <2>1, <3>1, <3>2, CellRegionRead
  <2>. QED BY <1>2, <2>2, <2>3, <2>4 DEF AddObject, commitObjectUpdate
<1>. QED BY <1>1, <1>2

LEMMA AliveNow == cell' = cell /\ slot' = slot => Alive(Now') = Alive(Now)
<1> SUFFICES ASSUME cell' = cell, slot' = slot PROVE Alive(Now') = Alive(Now)
  OBVIOUS
<1>1. Now'.cell = Now.cell /\ Now'.slot = Now.slot
  BY DEF Now
<1>. QED BY <1>1, AliveSame

\* What a reconciliation captures is not ahead of the stamp it leaves.
LEMMA ReadReconcile ==
  ASSUME StoreInv, StoreInv', ReadInv, NEW p \in Emitter, Reconcile(p)
  PROVE  ReadInv'
<1> DEFINE view  == capture(Now, p)
           e     == slot[view.owner].entries[view.position]
           input == IF view.owner = None THEN cell[p].generation
                    ELSE larger(cell[p].generation, e.generation)
<1>1. /\ p \in Id /\ Now \in StoreType /\ Mirrored(Now) /\ Now' \in StoreType
      /\ head \in [Id -> HeadType] /\ head[p] \in HeadType /\ call \in [Emitter -> CallType]
      /\ cell[p].generation \in Nat
  BY EmitterFacts DEF StoreInv, TypeOK, Consistent, StoreType, CellType, Now
<1>2. /\ head' = IF registered(Now, p) THEN head ELSE [head EXCEPT ![p].generation = input]
      /\ cell' = cell /\ slot' = slot /\ members' = members
  BY DEF Reconcile
<1>3. /\ call'[p].pc = "snapshot" /\ call'[p].input = input
      /\ \A q \in Emitter : q # p => call'[q] = call[q]
  BY <1>1 DEF Reconcile, Idle
<1>4. view.owner # None =>
         /\ view.owner \in Id /\ view.position \in DOMAIN slot[view.owner].entries
         /\ e.id = p /\ e.generation \in Nat
         /\ head[p].selected = view.owner /\ head[p].position = view.position
  <2>1. /\ cell[p].hidden => view.owner = None
        /\ ~cell[p].hidden /\ (cell[p].rooted \/ Showing(Now, p) = {}) => view.owner = None
        /\ ~cell[p].hidden /\ ~cell[p].rooted /\ Showing(Now, p) # {} =>
              /\ view.owner \in Showing(Now, p) /\ view.position \in DOMAIN slot[view.owner].entries
              /\ e.id = p
    BY <1>1, CaptureFacts, NowFields
  <2>2. view.owner # None => head[p].selected = view.owner /\ head[p].position = view.position
    <3>1. HeadAt(Now, p)
      BY <1>1 DEF ReadInv, Placed
    <3>. QED BY <3>1, NowFields DEF HeadAt
  <2>3. view.owner \in Id /\ view.position \in DOMAIN slot[view.owner].entries => e.generation \in Nat
    BY <1>1, EntryFacts, NowFields
  <2> HIDE DEF view, e
  <2>. QED BY <2>1, <2>2, <2>3 DEF Showing, Declarers
<1>5. input \in Nat /\ input <= current(Now', p)
  <2>1. /\ current(Now', p) >= cell[p].generation /\ current(Now', p) >= head'[p].generation
        /\ current(Now', p) \in Nat
    <3>1. /\ current(Now', p) \in Nat /\ stamp(Now', p) \in Nat /\ current(Now', p) >= stamp(Now', p)
          /\ current(Now', p) >= Now'.cell[p].generation
          /\ stamp(Now', p) >= Now'.head[p].generation /\ Now'.head[p].generation \in Nat
      BY <1>1, CurrentFacts
    <3>2. Now'.cell = cell /\ Now'.head = head'
      BY <1>2 DEF Now
    <3>. QED BY <3>1, <3>2
  <2>2. view.owner # None => current(Now', p) >= e.generation
    <3> SUFFICES ASSUME view.owner # None PROVE current(Now', p) >= e.generation
      OBVIOUS
    <3>1. Now'.slot = slot /\ Now'.head = head'
      BY <1>2 DEF Now
    <3>2. head'[p].selected = view.owner /\ head'[p].position = view.position
      <4> HIDE DEF view, input
      <4>. QED BY <1>1, <1>2, <1>4 DEF HeadType
    <3>3. stamp(Now', p) >= e.generation
      <4>1. /\ Now'.head[p].selected = view.owner /\ Now'.head[p].position = view.position
            /\ view.position \in DOMAIN Now'.slot[view.owner].entries
            /\ Now'.slot[view.owner].entries[view.position] = e /\ e.id = p
        BY <1>4, <3>1, <3>2
      <4> HIDE DEF view, e
      <4>. QED BY <1>1, <4>1, StampCovers, Zenon
    <3>4. stamp(Now', p) \in Nat /\ current(Now', p) >= stamp(Now', p)
      BY <1>1, CurrentFacts
    <3> HIDE DEF view, e
    <3>. QED BY <1>4, <2>1, <3>3, <3>4
  <2> HIDE DEF view, e
  <2>. QED BY <1>1, <1>4, <2>1, <2>2 DEF larger
<1> HIDE DEF view, e, input
<1>6. ASSUME NEW q \in Emitter, q # p PROVE Steady(Now, Now', q)
  <2>1. q \in Id /\ head'[q] = head[q]
    BY <1>1, <1>2, <1>6, EmitterFacts
  <2>2. current(Now', q) = current(Now, q) /\ current(Now, q) \in Nat
    <3>1. Now'.slot = Now.slot /\ Now'.cell = Now.cell /\ Now'.head[q] = Now.head[q]
      BY <1>2, <2>1 DEF Now
    <3>. QED BY <1>1, <2>1, <3>1, CurrentSame, CurrentFacts
  <2>. QED BY <1>2, <2>2 DEF Steady, Now
<1>7. InputInv'
  BY <1>3, <1>5, <1>6, InputKept DEF ReadInv
<1>8. RecordInv'
  BY <1>2, <1>3, RecordKept DEF ReadInv
<1>9. ASSUME NEW id \in Id PROVE HeadAt(Now', id) /\ PublishedAt(Now', Alive(Now'), id)
  <2>1. capture(Now', id) = capture(Now, id)
    BY ReconcileStep
  <2>2. head'[id].selected = head[id].selected /\ head'[id].position = head[id].position
    BY <1>1, <1>2 DEF HeadType
  <2>3. HeadAt(Now, id) /\ PublishedAt(Now, Alive(Now), id)
    BY DEF ReadInv, Placed
  <2>4. HeadAt(Now', id)
    BY <1>2, <2>1, <2>2, <2>3 DEF HeadAt, Now
  <2>5. Alive(Now') = Alive(Now) /\ Now'.slot = Now.slot /\ Now'.cell = Now.cell
    BY <1>2, AliveNow DEF Now
  <2>. QED BY <2>3, <2>4, <2>5 DEF PublishedAt
<1>. QED BY <1>7, <1>8, <1>9 DEF ReadInv, Placed

\* The store is the same, and one call is over.
LEMMA ReadReturns ==
  ASSUME StoreInv, StoreInv', ReadInv, NEW p \in Emitter, Now' = Now, Return(p)
  PROVE  ReadInv'
<1>1. slot' = slot /\ call \in [Emitter -> CallType]
  BY DEF Now, StoreInv, TypeOK
<1>2. call'[p].pc = "idle" /\ \A q \in Emitter : q # p => call'[q] = call[q]
  BY <1>1, IdleType DEF Return
<1>3. \A q \in Emitter : Steady(Now, Now', q)
  <2>1. \A q \in Id : current(Now, q) \in Nat
    BY CurrentFacts DEF StoreInv, TypeOK
  <2>. QED BY <2>1, EmitterFacts DEF Steady
<1>4. InputInv'
  BY <1>2, <1>3, InputKept DEF ReadInv
<1>5. RecordInv'
  BY <1>1, <1>2, RecordKept DEF ReadInv
<1>. QED BY <1>4, <1>5 DEF ReadInv

LEMMA ReadSnapshot ==
  ASSUME StoreInv, StoreInv', ReadInv, NEW p \in Emitter, Snapshot(p)
  PROVE  ReadInv'
<1>1. slot' = slot /\ Now' = Now /\ call \in [Emitter -> CallType] /\ call[p] \in CallType /\ call[p].pc = "snapshot"
  BY DEF Snapshot, store, Now, StoreInv, TypeOK
<1>2. /\ call'[p].pc = "commit" /\ call'[p].input = call[p].input /\ call'[p].generation = slot[p].generation
      /\ \A q \in Emitter : q # p => call'[q] = call[q]
  BY <1>1 DEF Snapshot, CallType
<1>3. \A q \in Emitter : Steady(Now, Now', q)
  <2>1. \A q \in Id : current(Now, q) \in Nat
    BY CurrentFacts DEF StoreInv, TypeOK
  <2>. QED BY <1>1, <2>1, EmitterFacts DEF Steady
<1>4. call'[p].input <= current(Now', p)
  BY <1>1, <1>2 DEF ReadInv, InputInv
<1>5. InputInv'
  BY <1>1, <1>2, <1>3, <1>4, InputKept DEF ReadInv
<1>6. RecordInv'
  BY <1>1, <1>2, RecordKept DEF ReadInv
<1>. QED BY <1>1, <1>5, <1>6 DEF ReadInv

\* The stamped record is stored: the stamps it gives are no older.
LEMMA ReadStable ==
  ASSUME StoreInv, StoreInv', ReadInv, NEW p \in Emitter, commitStable(p)
  PROVE  ReadInv'
<1> DEFINE r == call[p].record
<1>1. /\ Now' = [Now EXCEPT !.slot[p] = r] /\ call[p].pc = "stamped" /\ Alive(Now') = Alive(Now)
      /\ call' = [call EXCEPT ![p] = Idle] /\ slot' = [slot EXCEPT ![p] = r]
      /\ cell' = cell /\ head' = head
  BY StableStep DEF commitStable, Return
<1>2. /\ r \in SlotType /\ SameMembers(r, slot[p]) /\ Consistent(Now) /\ p \in Id
      /\ \A i \in DOMAIN slot[p].entries : r.entries[i].generation >= slot[p].entries[i].generation
  BY <1>1, EmitterFacts DEF StoreInv, StampedInv, ReadInv, RecordInv
<1>3. /\ Now \in StoreType /\ Now' \in StoreType /\ call \in [Emitter -> CallType]
      /\ slot \in [Id -> SlotType]
  BY DEF StoreInv, TypeOK, Now, StoreType
<1> HIDE DEF r
<1>4. slot'[p] = r /\ \A q \in Id : q # p => slot'[q] = slot[q]
  BY <1>1, <1>2, <1>3
<1>5. call'[p].pc = "idle" /\ \A q \in Emitter : q # p => call'[q] = call[q]
  BY <1>1, <1>3, IdleType
<1>6. RecordInv'
  BY <1>4, <1>5, RecordKept, EmitterFacts DEF ReadInv
<1>7. ASSUME NEW q \in Id, q # p PROVE Steady(Now, Now', q)
  <2>1. \A s \in Id : \A i \in DOMAIN slot[s].entries :
           /\ i \in DOMAIN slot'[s].entries /\ slot'[s].entries[i].id = slot[s].entries[i].id
           /\ slot'[s].entries[i].generation >= slot[s].entries[i].generation
    <3>1. ASSUME NEW s \in Id, s # p, NEW i \in DOMAIN slot[s].entries
          PROVE  slot[s].entries[i].generation \in Nat
      BY <1>3, EntryFacts, NowFields
    <3>2. ASSUME NEW s \in Id, s # p, NEW i \in DOMAIN slot[s].entries
          PROVE  /\ i \in DOMAIN slot'[s].entries /\ slot'[s].entries[i].id = slot[s].entries[i].id
                 /\ slot'[s].entries[i].generation >= slot[s].entries[i].generation
      BY <1>4, <3>1, <3>2
    <3>3. ASSUME NEW i \in DOMAIN slot[p].entries
          PROVE  /\ i \in DOMAIN slot'[p].entries /\ slot'[p].entries[i].id = slot[p].entries[i].id
                 /\ slot'[p].entries[i].generation >= slot[p].entries[i].generation
      BY <1>2, <1>4 DEF SameMembers
    <3>. QED BY <3>2, <3>3
  <2>2. current(Now', q) >= current(Now, q)
    <3>1. /\ Now.slot = slot /\ Now'.slot = slot' /\ Now'.head[q] = Now.head[q]
          /\ Now'.cell[q].generation = Now.cell[q].generation
      BY <1>1 DEF Now
    <3>2. Now.cell[q].generation \in Nat
      BY <1>3, CurrentFacts
    <3>3. /\ Now'.cell[q].generation >= Now.cell[q].generation /\ Now'.head[q] = Now.head[q]
          /\ \A s \in Id : \A i \in DOMAIN Now.slot[s].entries :
                s = Now.head[q].selected /\ Now.slot[s].entries[i].id = q =>
                    /\ i \in DOMAIN Now'.slot[s].entries /\ Now'.slot[s].entries[i].id = q
                    /\ Now'.slot[s].entries[i].generation >= Now.slot[s].entries[i].generation
      BY <2>1, <3>1, <3>2
    <3>. QED BY <1>3, <3>3, CurrentGrows
  <2>3. Now'.slot[q] = Now.slot[q]
    BY <1>4, <1>7 DEF Now
  <2>. QED BY <2>2, <2>3 DEF Steady
<1>8. InputInv'
  BY <1>5, <1>7, InputKept, EmitterFacts DEF ReadInv
<1>9. ASSUME NEW id \in Id PROVE HeadAt(Now', id) /\ PublishedAt(Now', Alive(Now'), id)
  <2>1. HeadAt(Now, id) /\ PublishedAt(Now, Alive(Now), id)
    BY DEF ReadInv, Placed
  <2>2. capture(Now', id).owner = capture(Now, id).owner /\ capture(Now', id).position = capture(Now, id).position
    <3>1. PICK st : st = [Now EXCEPT !.slot[p] = r] /\ st = Now'
      BY <1>1
    <3>2. LET a == capture(Now, id)
              b == capture(st, id)
          IN /\ b.owner = a.owner /\ b.position = a.position
             /\ a.owner # p => b.content = a.content
             /\ a.owner = p => /\ slot[p].visible /\ a.position \in DOMAIN slot[p].entries
                               /\ slot[p].entries[a.position].id = id
                               /\ a.content = slot[p].entries[a.position].content
                               /\ b.content = r.entries[a.position].content
      BY ONLY <1>2, <3>1, StableCapture, id \in Id
    <3>. QED BY <3>1, <3>2
  <2>3. Now'.head = Now.head /\ Now'.cell = Now.cell
    BY <1>1 DEF Now
  <2>4. HeadAt(Now', id)
    BY <2>1, <2>2, <2>3 DEF HeadAt
  <2>5. slot'[id].published = slot[id].published /\ slot'[id].hidden = slot[id].hidden
    <3>1. CASE id = p
      BY <1>2, <1>3, <1>4, <3>1 DEF SameMembers, SlotType
    <3>2. CASE id # p
      BY <1>4, <3>2
    <3>. QED BY <3>1, <3>2
  <2>6. PublishedAt(Now', Alive(Now'), id)
    BY <1>1, <2>1, <2>5 DEF PublishedAt, Now
  <2>. QED BY <2>4, <2>6
<1>. QED BY <1>6, <1>8, <1>9 DEF ReadInv, Placed

LEMMA ReadStamp ==
  ASSUME StoreInv, StoreInv', ReadInv, NEW p \in Emitter, NEW next \in Outputs[p], NEW usable,
         NEW entries, entries = prepareEmission(p, next, usable),
         Stable(p, next, entries), stampStable(p, next, entries), UNCHANGED store
  PROVE  ReadInv'
<1> DEFINE prev == slot[p].entries
<1>0. /\ p \in Id /\ call \in [Emitter -> CallType] /\ call[p] \in CallType /\ GoodStore(Now)
      /\ Consistent(Now) /\ Now \in StoreType /\ Mirrored(Now)
  BY EmitterFacts DEF StoreInv, TypeOK, GoodStore, Consistent
<1>1. Now' = Now /\ slot' = slot
  BY DEF store, Now
<1>2. /\ entries \in Seq(EntryType) /\ OnePlace(p, entries)
      /\ \A i \in DOMAIN entries : \A j \in DOMAIN prev :
            entries[i].id = prev[j].id => entries[i].generation = prev[j].generation
  BY <1>0, Prepared
<1>3. PICK r \in SlotType :
         /\ call' = [call EXCEPT ![p].pc = "stamped", ![p].record = r]
         /\ SameMembers(r, slot[p])
         /\ \A i \in DOMAIN slot[p].entries :
               /\ i \in DOMAIN entries /\ entries[i].id = slot[p].entries[i].id
               /\ r.entries[i].content = entries[i].content
               /\ r.entries[i].generation =
                     IF differs(p, entries[i]) /\ head[entries[i].id].selected = p
                     THEN stamp(Now, entries[i].id) + 1 ELSE entries[i].generation
  BY <1>0, <1>2, StampStep, SMTT(30)
<1>4. /\ call'[p].pc = "stamped" /\ call'[p].record = r
      /\ \A q \in Emitter : q # p => call'[q] = call[q]
  BY <1>0, <1>3 DEF CallType
<1>5. ASSUME NEW i \in DOMAIN prev PROVE r.entries[i].generation >= prev[i].generation
  <2> DEFINE id == prev[i].id
  <2>1. id \in Id /\ prev[i].generation \in Nat
    BY <1>0, EntryFacts, NowFields
  <2>2. entries[i].id = id /\ entries[i].generation = prev[i].generation
    BY <1>2, <1>3
  <2>3. CASE head[id].selected = p
    <3> DEFINE v == capture(Now, id)
    <3>1. v.owner = p /\ head[id].position = v.position
      <4>1. HeadAt(Now, id) /\ p # None
        BY <1>0, <2>1, OwnerType DEF ReadInv, Placed
      <4>. QED BY <2>3, <4>1, NowFields DEF HeadAt
    <3>2. v.position \in DOMAIN prev /\ prev[v.position].id = id
      <4>1. /\ cell[id].hidden => v.owner = None
            /\ ~cell[id].hidden /\ (cell[id].rooted \/ Showing(Now, id) = {}) => v.owner = None
            /\ ~cell[id].hidden /\ ~cell[id].rooted /\ Showing(Now, id) # {} =>
                  /\ v.position \in DOMAIN slot[v.owner].entries
                  /\ slot[v.owner].entries[v.position].id = id
        BY <1>0, <2>1, CaptureFacts, NowFields, Zenon
      <4>2. p # None
        BY <1>0, OwnerType
      <4> HIDE DEF v, id
      <4>. QED BY <3>1, <4>1, <4>2
    <3>3. v.position = i
      <4>1. OnePlace(p, prev)
        BY <1>0, NowFields DEF Consistent, Inventories
      <4> HIDE DEF v
      <4>. QED BY <3>2, <4>1 DEF OnePlace
    <3>4. stamp(Now, id) >= prev[i].generation
      <4>1. /\ Now.head[id].selected = p /\ Now.head[id].position = i
            /\ Now.slot[p].entries = prev /\ p # None
        BY <1>0, <2>3, <3>1, <3>3, NowFields, OwnerType
      <4> HIDE DEF v
      <4>. QED BY <1>0, <2>1, <4>1, StampCovers, Zenon
    <3>5. stamp(Now, id) \in Nat
      BY <1>0, <2>1, CurrentFacts
    <3>6. r.entries[i].generation \in {stamp(Now, id) + 1, prev[i].generation}
      BY <1>3, <2>2
    <3> HIDE DEF v, id
    <3>. QED BY <2>1, <3>4, <3>5, <3>6
  <2>4. CASE head[id].selected # p
    <3>1. r.entries[i].generation = prev[i].generation
      BY <1>3, <2>2, <2>4
    <3>. QED BY <2>1, <3>1
  <2>. QED BY <2>3, <2>4
<1>6. RecordInv'
  BY <1>1, <1>4, <1>5 DEF RecordInv, ReadInv
<1>7. \A q \in Emitter : Steady(Now, Now', q)
  <2>1. \A q \in Id : current(Now, q) \in Nat
    BY <1>0, CurrentFacts
  <2>. QED BY <1>1, <2>1, EmitterFacts DEF Steady
<1>8. InputInv'
  BY <1>4, <1>7, InputKept DEF ReadInv
<1>. QED BY <1>1, <1>6, <1>8 DEF ReadInv

LEMMA ReadReplacement ==
  ASSUME StoreInv, StoreInv', ReadInv, NEW p \in Emitter, NEW next \in Outputs[p],
         NEW entries \in Seq(EntryType), OnePlace(p, entries),
         commitReplacement(p, next, entries), Return(p)
  PROVE  ReadInv'
<1> DEFINE S == Ids(slot[p].entries) \cup Ids(entries) \cup Covered(p, next)
           R == expandRegion(Now, S)
           direct == changedTargets(slot[p].entries, entries) \cup Covered(p, next)
           st == replaced(p, next, entries, R)
           seen == IF slot[p].exists THEN slot[p].visible ELSE object(p) # None
<1>0. /\ p \in Id /\ call \in [Emitter -> CallType] /\ GoodStore(Now) /\ Consistent(Now)
      /\ Shown(Now, Alive(Now)) /\ Now \in StoreType /\ Mirrored(Now)
  BY EmitterFacts DEF StoreInv, TypeOK, GoodStore, Consistent
<1>1. AllLocked /\ Prepares(Now, st, R) /\ Now' = reachability(st, Now, R, direct)
  BY <1>0, ReplaceStep
<1>2. R \in SUBSET Id
  BY <1>1 DEF Prepares
<1>3. Ids(slot[p].entries) \subseteq R /\ Ids(entries) \subseteq R
  <2> HIDE DEF S
  <2>1. \A id \in Id : id \in S => id \in R
    BY DEF expandRegion
  <2>2. Ids(slot[p].entries) \subseteq Id /\ Ids(entries) \subseteq Id
    <3>1. slot[p].entries \in Seq(EntryType)
      BY <1>0 DEF Consistent, StoreType, SlotType, Now
    <3>2. \A i \in DOMAIN slot[p].entries : slot[p].entries[i] \in EntryType
      BY <3>1
    <3>3. \A i \in DOMAIN entries : entries[i] \in EntryType
      OBVIOUS
    <3>. QED BY <3>2, <3>3 DEF Ids, EntryType
  <2>. QED BY <2>1, <2>2 DEF S
<1> HIDE DEF R
<1>4. Far(Now, st, R)
  BY <1>0, <1>2, <1>3, ReplaceFar
<1>5. /\ \A q \in Id : q # p => st.slot[q] = slot[q] /\ st.cell[q] = cell[q] /\ st.head[q] = head[q]
      /\ st.slot[p].hidden <=> ~seen \/ IF slot[p].exists THEN slot[p].hidden ELSE cell[p].hidden
      /\ st.cell[p].hidden <=> cell[p].hidden \/ ~seen
      /\ seen \/ cell[p].hidden => st.cell[p] = cell[p] /\ st.head[p] = head[p]
      /\ st.head[p].selected = head[p].selected /\ st.head[p].position = head[p].position
  BY <1>0, ReplacedFields
<1>6. seen <=> p \in Alive(Now)
  <2>1. Shows(Now, Alive(Now), p)
    BY <1>0 DEF Shown
  <2>2. object(p) # None <=> p \in Alive(Now)
    BY <1>0, CaptureAlive DEF object
  <2>. QED BY <2>1, <2>2, NowFields DEF Shows
<1> HIDE DEF st, direct, seen
<1>7. \A id \in Id : st.head[id].selected = Now.head[id].selected /\ st.head[id].position = Now.head[id].position
  BY <1>5, NowFields
<1>8. \A id \in Id \ R : st.cell[id] = Now.cell[id] \/ st.cell[id].hidden
  BY <1>5, NowFields
<1>9. ASSUME NEW x \in Id \ R PROVE PublishedAt(st, Alive(Now), x)
  <2>1. CASE x = p
    BY <1>5, <1>6, <2>1 DEF PublishedAt
  <2>2. CASE x # p
    <3>1. PublishedAt(Now, Alive(Now), x)
      BY DEF ReadInv, Placed
    <3>. QED BY <1>5, <2>2, <3>1, NowFields DEF PublishedAt
  <2>. QED BY <2>1, <2>2
<1>10. call'[p].pc = "idle" /\ \A q \in Emitter : q # p => call'[q] = call[q]
  BY <1>0, IdleType DEF Return
<1>11. ASSUME NEW q \in Emitter, q # p PROVE Undisturbed(Now, st, R, q)
  <2>1. q \in Id
    BY EmitterFacts
  <2>2. ASSUME q \notin R, NEW s \in Id
        PROVE  st.slot[s].entries = slot[s].entries \/ q \notin Ids(slot[s].entries)
    BY <1>3, <1>5, <2>2
  <2>. QED BY <1>5, <1>11, <2>1, <2>2, NowFields DEF Undisturbed
<1>12. \A q \in Emitter : call'[q].pc = "idle" \/ (call'[q] = call[q] /\ Undisturbed(Now, st, R, q))
  BY <1>10, <1>11
<1>. QED BY <1>1, <1>4, <1>7, <1>8, <1>9, <1>12, RegionRead

LEMMA ReadCommit ==
  ASSUME StoreInv, StoreInv', ReadInv, NEW p \in Emitter, NEW next \in Outputs[p], NEW usable,
         Commit(p, next, usable)
  PROVE  ReadInv'
<1>1. PICK entries : entries = prepareEmission(p, next, usable)
  OBVIOUS
<1>2. entries \in Seq(EntryType) /\ OnePlace(p, entries)
  BY <1>1, Prepared DEF StoreInv
<1>3. CASE Return(p) /\ UNCHANGED <<store, outbox>>
  <2>1. Now' = Now
    BY <1>3 DEF store, Now
  <2>. QED BY <1>3, <2>1, ReadReturns
<1>4. CASE Stable(p, next, entries) /\ stampStable(p, next, entries) /\ UNCHANGED store
  BY <1>1, <1>4, ReadStamp
<1>5. CASE commitReplacement(p, next, entries) /\ Return(p)
  BY <1>2, <1>5, ReadReplacement
<1>. QED BY <1>1, <1>3, <1>4, <1>5 DEF Commit

LEMMA ReadInit == Init => ReadInv
<1> SUFFICES ASSUME Init PROVE ReadInv
  OBVIOUS
<1>1. /\ call = [p \in Emitter |-> Idle] /\ members = [id \in Id |-> {}]
      /\ head = [id \in Id |-> [generation |-> 0, selected |-> None, position |-> 0]]
      /\ \A id \in Id : ~slot[id].published
  BY DEF Init
<1>2. \A p \in Emitter : call[p].pc = "idle"
  BY <1>1, IdleType
<1>3. ASSUME NEW id \in Id PROVE HeadAt(Now, id) /\ PublishedAt(Now, Alive(Now), id)
  <2>1. captureMembers(Now, id) = {}
    BY <1>1, NowFields DEF captureMembers
  <2>2. capture(Now, id).owner = None
    BY <2>1 DEF capture
  <2>. QED BY <1>1, <2>2, NowFields DEF HeadAt, PublishedAt
<1>. QED BY <1>2, <1>3 DEF ReadInv, Placed, RecordInv, InputInv

LEMMA ReadNext ==
  ASSUME StoreInv, ReadInv, [Next]_vars
  PROVE  ReadInv'
<1>0. StoreInv'
  BY NextStore
<1>1. ASSUME Now' = Now, call' = call, slot' = slot PROVE ReadInv'
  BY <1>1 DEF ReadInv, RecordInv, InputInv
<1>2. CASE UNCHANGED vars
  <2>1. Now' = Now /\ call' = call /\ slot' = slot
    BY <1>2 DEF vars, Now
  <2>. QED BY <1>1, <2>1
<1>3. ASSUME NEW id \in Writable, DeleteObject(id) \/ \E c \in Content : AddObject(id, c) PROVE ReadInv'
  BY <1>0, <1>3, ReadWrites
<1>4. ASSUME NEW p \in Emitter, Reconcile(p) PROVE ReadInv'
  BY <1>0, <1>4, ReadReconcile
<1>5. ASSUME NEW p \in Emitter, Snapshot(p) PROVE ReadInv'
  BY <1>0, <1>5, ReadSnapshot
<1>6. ASSUME NEW p \in Emitter, Reject(p) PROVE ReadInv'
  <2>1. Now' = Now /\ Return(p)
    BY <1>6 DEF Reject, store, Now
  <2>. QED BY <1>0, <2>1, ReadReturns
<1>7. ASSUME NEW p \in Emitter, commitStable(p) PROVE ReadInv'
  BY <1>0, <1>7, ReadStable
<1>8. ASSUME NEW p \in Emitter, NEW next \in Outputs[p], NEW usable, Commit(p, next, usable) PROVE ReadInv'
  BY <1>0, <1>8, ReadCommit
<1>9. ASSUME NEW g \in Goroutine, Dispatch(g) PROVE ReadInv'
  <2>1. Now' = Now /\ call' = call /\ slot' = slot
    BY <1>9 DEF Dispatch, store, Now
  <2>. QED BY <1>1, <2>1
<1>. QED BY <1>2, <1>3, <1>4, <1>5, <1>6, <1>7, <1>8, <1>9 DEF Next

(* While the declaration that a reconciliation captured still carries the  *)
(* stamp it was captured with, the producer's slot is the one of the       *)
(* snapshot: neither another producer's replacement, nor a change of       *)
(* visibility far upstream, nor a direct write can have moved the slot's   *)
(* generation and left the stamp behind.  So RecordEmitted, whose commit   *)
(* checks both, never loops for a producer that reconciles one at a time.  *)
THEOREM ReadsKeepTheSlot == Spec => []ValidReadsKeepTheSlot
<1>1. StoreInv /\ ReadInv => ValidReadsKeepTheSlot
  <2> SUFFICES ASSUME StoreInv, ReadInv, NEW p \in Emitter, call[p].pc = "commit",
                      call[p].input = current(Now, p)
               PROVE  slot[p].generation = call[p].generation
    BY DEF ValidReadsKeepTheSlot
  <2>1. current(Now, p) \in Nat
    BY CurrentFacts, EmitterFacts DEF StoreInv, TypeOK
  <2>. QED BY <2>1 DEF ReadInv, InputInv
<1>. QED BY <1>1, StoreAlways, ReadInit, ReadNext, PTL DEF Spec
-----------------------------------------------------------------------------
(* Captures.  While somebody is registered on a head its stamp follows its *)
(* cell, and a record that is about to be stored will move the stamp of    *)
(* whatever it changes: of everything but a capture that raced with it.    *)

Dated(st) == \A id \in Id : st.cell[id].static # None => st.cell[id].generation >= 1

RegisteredInv == \A p \in Emitter : registered(Now, p) => stamp(Now, p) >= cell[p].generation

Raced(id) ==
    /\ id \in Emitter /\ call[id] # Idle /\ call[id].raced /\ ~slot[id].published
    /\ call[id].input = current(Now, id)

PendingInv ==
    \A s \in Emitter : call[s].pc = "stamped" =>
        \A i \in DOMAIN slot[s].entries :
            LET e == slot[s].entries[i]
                r == call[s].record.entries[i]
            IN r.content # e.content /\ head[e.id].selected = s
                   => r.generation > stamp(Now, e.id) \/ Raced(e.id)

ValidInv ==
    \A p \in Emitter : call[p] # Idle =>
        /\ call[p].input <= current(Now, p)
        /\ call[p].input = current(Now, p) /\ ~call[p].raced => call[p].content = object(p)

CaptureInv == Dated(Now) /\ RegisteredInv /\ PendingInv /\ ValidInv

\* A head that points somewhere points at a place of its resource.
LEMMA HeadEntry ==
  ASSUME NEW st, Consistent(st), NEW id \in Id, HeadAt(st, id), st.head[id].selected # None
  PROVE  /\ st.head[id].selected \in Id
         /\ st.head[id].position \in DOMAIN st.slot[st.head[id].selected].entries
         /\ st.slot[st.head[id].selected].entries[st.head[id].position].id = id
<1> DEFINE v == capture(st, id)
<1>1. /\ st.cell[id].hidden => v.owner = None
      /\ ~st.cell[id].hidden /\ (st.cell[id].rooted \/ Showing(st, id) = {}) => v.owner = None
      /\ ~st.cell[id].hidden /\ ~st.cell[id].rooted /\ Showing(st, id) # {} =>
            /\ v.owner \in Showing(st, id) /\ v.position \in DOMAIN st.slot[v.owner].entries
            /\ st.slot[v.owner].entries[v.position].id = id
  BY CaptureFacts DEF Consistent
<1>2. st.head[id].selected = v.owner /\ st.head[id].position = v.position
  BY DEF HeadAt
<1> HIDE DEF v
<1>. QED BY <1>1, <1>2 DEF Showing, Declarers

\* The head of a resource in a region follows its cell or stays where it was.
LEMMA ObjectStamp ==
  ASSUME NEW st \in StoreType, Mirrored(st), NEW before \in StoreType,
         NEW R, NEW live, NEW direct, NEW id \in Id, registered(st, id), ~Skips(st, before, id)
  PROVE  LET done == publishRegionObject(st, before, R, live, direct, id) IN
         \/ done.head[id].generation >= done.cell[id].generation
         \/ done.head[id] = st.head[id] /\ ~Moves(st, before, R, live, direct, id)
<1> DEFINE done == publishRegionObject(st, before, R, live, direct, id)
           next == NewStore(st, before, R, live, id)
           moves == Moves(st, before, R, live, direct, id)
           mid  == IF moves THEN advance(next, id) ELSE next
<1>1. /\ next \in StoreType /\ Mirrored(next) /\ next.slot = st.slot /\ next.members = st.members
      /\ next.head = st.head
  BY NewStoreType, NewCellType
<1>2. done = selectRegionHead(mid, id)
  BY ObjectParts
<1>3. registered(next, id)
  BY <1>1 DEF registered
<1> HIDE DEF next, done, moves
<1>4. /\ mid \in StoreType /\ mid.slot = st.slot /\ mid.members = st.members
      /\ moves => mid.head[id].generation >= mid.cell[id].generation
      /\ ~moves => mid.head = st.head
  <2>1. CASE moves
    <3> DEFINE g == current(next, id) + 1
    <3>1. /\ mid \in StoreType /\ mid.slot = next.slot /\ mid.members = next.members
          /\ mid.cell = [next.cell EXCEPT ![id].generation = g]
          /\ mid.head[id].generation = IF registered(next, id) THEN g ELSE next.head[id].generation
      BY <1>1, <2>1, AdvanceFields
    <3>2. g \in Nat
      BY <1>1, CurrentFacts
    <3> HIDE DEF g, mid
    <3>3. mid.cell[id].generation = g
      BY <1>1, <3>1 DEF StoreType, CellType
    <3>. QED BY <1>1, <1>3, <2>1, <3>1, <3>2, <3>3
  <2>2. CASE ~moves
    BY <1>1, <2>2
  <2>. QED BY <2>1, <2>2
<1> HIDE DEF mid
<1>5. Mirrored(mid)
  BY <1>1, <1>4, MirroredSame
<1>6. /\ done.cell = mid.cell
      /\ done.head[id] # mid.head[id] => done.head[id].generation = current(mid, id)
  BY <1>2, <1>4, <1>5, SelectFields
<1>7. current(mid, id) >= mid.cell[id].generation
  BY <1>4, CurrentFacts
<1>8. CASE done.head[id] # mid.head[id]
  BY <1>6, <1>7, <1>8 DEF done
<1>9. CASE done.head[id] = mid.head[id]
  BY <1>4, <1>6, <1>9 DEF done, moves
<1>. QED BY <1>8, <1>9

LEMMA RegionStamp ==
  ASSUME NEW st \in StoreType, Mirrored(st), NEW before \in StoreType, NEW R \in SUBSET Id, NEW direct,
         NEW id \in R, registered(st, id)
  PROVE  LET live  == propagateReachability(st, R)
             shown == VisibleStore(st, before, R, live)
             after == reachability(st, before, R, direct)
         IN \/ Skips(shown, before, id)
            \/ after.head[id].generation >= after.cell[id].generation
            \/ after.head[id] = st.head[id] /\ ~Moves(shown, before, R, live, direct, id)
<1> DEFINE live  == propagateReachability(st, R)
           shown == VisibleStore(st, before, R, live)
           done  == publishRegionObject(shown, before, R, live, direct, id)
           after == reachability(st, before, R, direct)
<1>0. id \in Id
  OBVIOUS
<1>1. /\ after.slot = shown.slot
      /\ after.cell[id] = done.cell[id] /\ after.head[id] = done.head[id]
  BY RegionParts
<1>2. /\ shown \in StoreType /\ shown.cell = st.cell /\ shown.head = st.head /\ shown.members = st.members
      /\ \A p \in Id : shown.slot[p].entries = st.slot[p].entries
  BY VisibleFields
<1>3. /\ after.slot[id].published = st.slot[id].published
      /\ id \in R /\ st.slot[id].exists =>
            (after.slot[id].hidden <=> id \notin live) /\ (after.cell[id].hidden <=> id \notin live)
  BY <1>0, RegionFlags
<1> HIDE DEF live, after, shown
<1>4. Mirrored(shown)
  BY <1>2, MirroredSame
<1>5. registered(shown, id)
  BY <1>1, <1>3 DEF registered
<1>6. ~Skips(shown, before, id) =>
         \/ done.head[id].generation >= done.cell[id].generation
         \/ done.head[id] = shown.head[id] /\ ~Moves(shown, before, R, live, direct, id)
  BY <1>0, <1>2, <1>4, <1>5, ObjectStamp
<1> HIDE DEF done
<1>. QED BY <1>1, <1>2, <1>6 DEF after, live, shown

\* What a write has prepared on the head of p.
Follows(before, st, p) ==
    /\ st.head[p].selected = before.head[p].selected /\ st.head[p].position = before.head[p].position
    /\ st.head[p].generation >= before.head[p].generation
    /\ \/ st.head[p].generation >= st.cell[p].generation
       \/ st.cell[p].generation = before.cell[p].generation

\* A place keeps its stamp.
KeepsStamps(before, st) ==
    \A s \in Id : \A i \in DOMAIN before.slot[s].entries :
        i \in DOMAIN st.slot[s].entries /\ st.slot[s].entries[i].id = before.slot[s].entries[i].id
            => st.slot[s].entries[i].generation >= before.slot[s].entries[i].generation

LEMMA StampStays ==
  ASSUME NEW before, NEW after, Consistent(before), Consistent(after), NEW p \in Id,
         HeadAt(before, p), HeadAt(after, p), KeepsStamps(before, after),
         after.head[p].selected = before.head[p].selected,
         after.head[p].position = before.head[p].position,
         after.head[p].generation >= before.head[p].generation
  PROVE  stamp(after, p) >= stamp(before, p)
<1>1. before \in StoreType /\ after \in StoreType
  BY DEF Consistent
<1>2. CASE before.head[p].selected = None
  BY <1>2, StampElse
<1>3. CASE before.head[p].selected # None
  <2> DEFINE s == before.head[p].selected
             i == before.head[p].position
             a == before.slot[s].entries[i]
             b == after.slot[s].entries[i]
  <2>1. s \in Id /\ i \in DOMAIN before.slot[s].entries /\ a.id = p
    BY <1>3, HeadEntry
  <2>2. i \in DOMAIN after.slot[s].entries /\ b.id = p
    <3>1. /\ after.head[p].position \in DOMAIN after.slot[after.head[p].selected].entries
          /\ after.slot[after.head[p].selected].entries[after.head[p].position].id = p
      <4>1. after.head[p].selected # None
        BY <1>3
      <4>. QED BY <4>1, HeadEntry
    <3>. QED BY <3>1, ZenonT(20)
  <2>3. b.generation >= a.generation
    BY <2>1, <2>2, Zenon DEF KeepsStamps
  <2>4. /\ stamp(before, p) = larger(before.head[p].generation, a.generation)
        /\ a.generation \in Nat /\ before.head[p].generation \in Nat
    BY <1>1, <1>3, <2>1, StampCovers, Zenon
  <2>5. /\ stamp(after, p) = larger(after.head[p].generation, b.generation)
        /\ b.generation \in Nat /\ after.head[p].generation \in Nat
    BY <1>1, <1>3, <2>2, StampCovers, Zenon
  <2> HIDE DEF s, i, a, b
  <2>. QED BY <2>3, <2>4, <2>5, SMTT(30) DEF larger
<1>. QED BY <1>2, <1>3

LEMMA RegisteredRegion ==
  ASSUME NEW before, NEW st, NEW R, NEW direct, Prepares(before, st, R), NEW p \in Id, registered(st, p),
         stamp(before, p) >= before.cell[p].generation, HeadAt(before, p),
         HeadAt(reachability(st, before, R, direct), p),
         Follows(before, st, p), KeepsStamps(before, st)
  PROVE  LET after == reachability(st, before, R, direct) IN stamp(after, p) >= after.cell[p].generation
<1> DEFINE after == reachability(st, before, R, direct)
           live  == propagateReachability(st, R)
           shown == VisibleStore(st, before, R, live)
           known == Known(shown, before, p)
           moves == Moves(shown, before, R, live, direct, p)
<1>1. st \in StoreType /\ before \in StoreType /\ Mirrored(st) /\ R \in SUBSET Id /\ Consistent(before)
  BY DEF Prepares, Consistent
<1>2. Consistent(after)
  BY RegionDone
<1>3. KeepsStamps(before, after)
  <2>1. after.slot = shown.slot
    BY <1>1, RegionParts
  <2>2. \A q \in Id : shown.slot[q].entries = st.slot[q].entries
    BY <1>1, VisibleFields
  <2> HIDE DEF after, shown
  <2>. QED BY <2>1, <2>2 DEF KeepsStamps
<1>4. after \in StoreType
  BY <1>2 DEF Consistent
<1>5. /\ stamp(after, p) \in Nat /\ stamp(before, p) \in Nat
      /\ stamp(after, p) >= after.head[p].generation /\ after.head[p].generation \in Nat
      /\ after.cell[p].generation \in Nat /\ before.cell[p].generation \in Nat
      /\ st.cell[p].generation \in Nat /\ st.head[p].generation \in Nat
      /\ current(before, p) = larger(before.cell[p].generation, stamp(before, p))
  BY <1>1, <1>4, CurrentFacts DEF current
<1>6. current(before, p) = stamp(before, p)
  BY <1>5 DEF larger
<1>7. HeadAt(after, p)
  OBVIOUS
<1> HIDE DEF after
<1>8. after.head[p] = st.head[p] => stamp(after, p) >= stamp(before, p)
  BY <1>1, <1>2, <1>3, <1>7, StampStays DEF Follows
<1>9. after.head[p] = st.head[p] => stamp(after, p) >= st.cell[p].generation
  BY <1>5, <1>8 DEF Follows
<1>10. CASE p \in R
  <2>1. /\ Skips(shown, before, p) => after.cell[p] = st.cell[p] /\ known = 0
        /\ ~Skips(shown, before, p) /\ ~moves => after.cell[p].generation = known
    BY <1>1, <1>10, RegionObject DEF after
  <2>2. \/ Skips(shown, before, p)
        \/ after.head[p].generation >= after.cell[p].generation
        \/ after.head[p] = st.head[p] /\ ~moves
    BY <1>1, <1>10, RegionStamp DEF after
  <2>3. shown.cell = st.cell
    BY <1>1, VisibleFields
  <2> HIDE DEF shown, moves
  <2>4. known = larger(st.cell[p].generation, stamp(before, p))
    BY <1>6, <2>3 DEF Known
  <2> HIDE DEF known
  <2>5. CASE Skips(shown, before, p)
    <3>1. st.cell[p].generation = 0
      BY <1>5, <2>1, <2>4, <2>5 DEF larger
    <3>. QED BY <1>5, <2>1, <2>5, <3>1 DEF after
  <2>6. CASE after.head[p].generation >= after.cell[p].generation
    BY <1>5, <2>6 DEF after
  <2>7. CASE ~Skips(shown, before, p) /\ after.head[p] = st.head[p] /\ ~moves
    BY <1>5, <1>8, <1>9, <2>1, <2>4, <2>7 DEF after, larger
  <2>. QED BY <2>2, <2>5, <2>6, <2>7
<1>11. CASE p \notin R
  <2>1. after.cell[p] = st.cell[p] /\ after.head[p] = st.head[p]
    BY <1>1, <1>11, RegionOutside DEF after
  <2>. QED BY <1>9, <2>1 DEF after
<1>. QED BY <1>10, <1>11

\* A reader of a resource sees another object only with another stamp.
LEMMA ContentRegion ==
  ASSUME NEW before, NEW st, NEW R, NEW direct, Prepares(before, st, R), Far(before, st, R), NEW p \in Id,
         Dated(before), HeadAt(before, p)
  PROVE  LET after == reachability(st, before, R, direct) IN
         capture(after, p).content # capture(before, p).content => current(after, p) > current(before, p)
<1> DEFINE after == reachability(st, before, R, direct)
           live  == propagateReachability(st, R)
           shown == VisibleStore(st, before, R, live)
           next  == NewStore(shown, before, R, live, p)
           v     == capture(after, p)
           u     == capture(before, p)
           known == Known(shown, before, p)
           moves == Moves(shown, before, R, live, direct, p)
<1>1. st \in StoreType /\ before \in StoreType /\ Mirrored(st) /\ Mirrored(before) /\ R \in SUBSET Id
  BY DEF Prepares, Consistent
<1>2. CASE p \notin R
  BY <1>2, FarCapture DEF SameCapture
<1>3. CASE p \in R
  <2>1. /\ Skips(shown, before, p) => v.content = None /\ known = 0
        /\ ~Skips(shown, before, p) =>
              /\ after.cell[p].generation = IF moves THEN current(next, p) + 1 ELSE known
              /\ v.content = capture(next, p).content
        /\ known \in Nat /\ known >= current(before, p) /\ current(next, p) >= known
        /\ current(next, p) \in Nat
    BY <1>1, <1>3, RegionObject
  <2>2. ~moves => u.content = capture(next, p).content
    BY DEF Moves
  <2>3. after \in StoreType
    BY <1>1, RegionParts
  <2>4. /\ current(before, p) >= before.cell[p].generation /\ current(before, p) \in Nat
        /\ before.cell[p].generation \in Nat
        /\ current(after, p) >= after.cell[p].generation /\ current(after, p) \in Nat
        /\ after.cell[p].generation \in Nat
    BY <1>1, <2>3, CurrentFacts
  <2>5. u.content # None => before.cell[p].generation >= 1
    <3>1. /\ before.cell[p].hidden => u.content = None
          /\ ~before.cell[p].hidden /\ (before.cell[p].rooted \/ Showing(before, p) = {}) =>
                u.content = IF before.cell[p].retired /\ ~before.cell[p].rooted THEN None ELSE before.cell[p].static
          /\ ~before.cell[p].hidden /\ ~before.cell[p].rooted /\ Showing(before, p) # {} =>
                u.owner \in Showing(before, p)
      BY <1>1, CaptureFacts
    <3>2. u.owner # None => before.cell[p].generation >= 1
      BY DEF HeadAt
    <3>3. before.cell[p].static # None => before.cell[p].generation >= 1
      BY DEF Dated
    <3>4. None \notin Id
      BY OwnerType
    <3> HIDE DEF u
    <3>. QED BY <3>1, <3>2, <3>3, <3>4 DEF Showing, Declarers
  <2> HIDE DEF v, u, known, moves, next, after, shown, live
  <2>6. CASE Skips(shown, before, p)
    <3>1. u.content = None
      BY <2>1, <2>4, <2>5, <2>6
    <3>. QED BY <2>1, <2>6, <3>1 DEF v, u, after
  <2>7. CASE ~Skips(shown, before, p)
    <3>1. v.content # u.content => moves
      BY <2>1, <2>2, <2>7
    <3>2. moves => current(after, p) > current(before, p)
      BY <2>1, <2>4, <2>7
    <3>. QED BY <3>1, <3>2 DEF v, u, after
  <2>. QED BY <2>6, <2>7
<1>. QED BY <1>2, <1>3

LEMMA DatedRegion ==
  ASSUME NEW before, NEW st, NEW R, NEW direct, Prepares(before, st, R),
         \A id \in Id : st.cell[id].static # None =>
             st.cell[id].generation >= 1 \/ (id \in direct /\ id \in R)
  PROVE  Dated(reachability(st, before, R, direct))
<1> DEFINE after == reachability(st, before, R, direct)
           live  == propagateReachability(st, R)
           shown == VisibleStore(st, before, R, live)
<1>1. st \in StoreType /\ before \in StoreType /\ Mirrored(st) /\ R \in SUBSET Id
  BY DEF Prepares, Consistent
<1>2. ASSUME NEW id \in Id, after.cell[id].static # None PROVE after.cell[id].generation >= 1
  <2>1. after.cell[id].static = st.cell[id].static
    <3>1. StaticOf(after) = StaticOf(st)
      BY RegionDone DEF SamePromise
    <3> HIDE DEF after
    <3>. QED BY <3>1 DEF StaticOf
  <2>2. CASE id \notin R
    BY <1>1, <1>2, <2>1, <2>2, RegionOutside
  <2>3. CASE id \in R
    <3> DEFINE next  == NewStore(shown, before, R, live, id)
               known == Known(shown, before, id)
               moves == Moves(shown, before, R, live, direct, id)
    <3>1. /\ Skips(shown, before, id) => after.cell[id] = st.cell[id]
          /\ ~Skips(shown, before, id) =>
                after.cell[id].generation = IF moves THEN current(next, id) + 1 ELSE known
          /\ known \in Nat /\ current(next, id) \in Nat
      BY <1>1, <2>3, RegionObject
    <3>2. shown.cell = st.cell
      BY <1>1, VisibleFields
    <3>3. Skips(shown, before, id) => st.cell[id].static = None
      BY <3>2 DEF Skips
    <3>4. st.cell[id].generation \in Nat /\ current(before, id) \in Nat
      BY <1>1, CurrentFacts
    <3>5. known >= st.cell[id].generation
      BY <3>2, <3>4 DEF Known, larger
    <3>6. id \in direct => moves
      BY DEF Moves
    <3> HIDE DEF known, moves, next, after, shown
    <3>. QED BY <1>2, <2>1, <3>1, <3>3, <3>4, <3>5, <3>6
  <2>. QED BY <2>2, <2>3
<1>. QED BY <1>2 DEF Dated

\* A region is published, under every lock.
LEMMA RegionCapture ==
  ASSUME StoreInv, StoreInv', ReadInv, ReadInv', CaptureInv, AllLocked, NEW st, NEW R, NEW direct,
         Prepares(Now, st, R), Far(Now, st, R), Now' = reachability(st, Now, R, direct),
         KeepsStamps(Now, st), \A q \in Emitter : Follows(Now, st, q),
         \A q \in Emitter : /\ st.slot[q].published => registered(Now, q)
                            /\ slot[q].published => st.slot[q].published,
         \A id \in Id : st.cell[id].static # None =>
             st.cell[id].generation >= 1 \/ (id \in direct /\ id \in R),
         \A q \in Emitter : \/ call'[q] = Idle
                            \/ call'[q] = call[q] /\ Undisturbed(Now, st, R, q)
  PROVE  CaptureInv'
<1> DEFINE after == reachability(st, Now, R, direct)
<1>0. /\ Now \in StoreType /\ Now' \in StoreType /\ st \in StoreType /\ Mirrored(st) /\ R \in SUBSET Id
      /\ Now' = after
  BY DEF StoreInv, TypeOK, Prepares, Consistent
<1>1. Dated(Now')
  BY DatedRegion
<1>2. PendingInv'
  BY IdleType DEF PendingInv, AllLocked
<1>3. ASSUME NEW q \in Emitter, registered(Now, q)' PROVE stamp(Now', q) >= Now'.cell[q].generation
  <2>1. q \in Id /\ HeadAt(Now, q) /\ HeadAt(Now', q)
    BY EmitterFacts DEF ReadInv, Placed
  <2>2. after.slot[q].published = st.slot[q].published
    <3> DEFINE live == propagateReachability(st, R)
    <3>1. /\ after.slot[q].published = st.slot[q].published
          /\ q \in R /\ st.slot[q].exists =>
                (after.slot[q].hidden <=> q \notin live) /\ (after.cell[q].hidden <=> q \notin live)
      BY <1>0, <2>1, RegionFlags
    <3>. QED BY <3>1
  <2>3. registered(Now, q)
    <3>1. call'[q] # Idle \/ Now'.slot[q].published
      BY <1>3 DEF registered
    <3>. QED BY <1>0, <2>2, <3>1 DEF registered
  <2>4. registered(st, q)
    BY <2>3, NowFields DEF registered
  <2>5. stamp(Now, q) >= Now.cell[q].generation
    BY <2>3, NowFields DEF CaptureInv, RegisteredInv
  <2>6. HeadAt(after, q)
    BY <1>0, <2>1
  <2> HIDE DEF after
  <2>7. stamp(after, q) >= after.cell[q].generation
    BY <2>1, <2>4, <2>5, <2>6, RegisteredRegion DEF after
  <2>. QED BY <1>0, <2>7
<1>4. RegisteredInv'
  <2>1. Now'.cell = cell'
    BY DEF Now
  <2>. QED BY <1>3, <2>1 DEF RegisteredInv
<1>5. ASSUME NEW q \in Emitter, call'[q] # Idle
      PROVE  /\ call'[q].input <= current(Now', q)
             /\ call'[q].input = current(Now', q) /\ ~call'[q].raced => call'[q].content = object(q)'
  <2>1. q \in Id /\ call'[q] = call[q] /\ call[q].input \in Nat /\ HeadAt(Now, q) /\ PublishedAt(Now, Alive(Now), q)
    <3>1. call'[q] = call[q]
      BY <1>5
    <3>. QED BY <3>1, EmitterFacts DEF StoreInv, TypeOK, CallType, ReadInv, Placed
  <2>2. Steady(Now, Now', q)
    <3>1. Undisturbed(Now, st, R, q)
      BY <1>5
    <3>2. Steady(Now, after, q)
      BY <2>1, <3>1, SteadyRegion
    <3> HIDE DEF after
    <3>. QED BY <1>0, <3>2
  <2>3. current(Now, q) \in Nat /\ current(Now', q) \in Nat /\ current(Now', q) >= current(Now, q)
    BY <1>0, <2>1, <2>2, CurrentFacts DEF Steady
  <2>4. capture(after, q).content # capture(Now, q).content => current(after, q) > current(Now, q)
    BY <2>1, ContentRegion DEF CaptureInv
  <2> HIDE DEF after
  <2>5. object(q)' # object(q) => current(Now', q) > current(Now, q)
    BY <1>0, <2>1, <2>4, ObjectPrime
  <2>6. /\ call[q].input <= current(Now, q)
        /\ call[q].input = current(Now, q) /\ ~call[q].raced => call[q].content = object(q)
    BY <1>5, <2>1 DEF CaptureInv, ValidInv
  <2>7. call[q].input <= current(Now', q)
    BY <2>1, <2>3, <2>6
  <2>8. call[q].input = current(Now', q) => call[q].input = current(Now, q) /\ object(q)' = object(q)
    BY <2>1, <2>3, <2>5, <2>6
  <2>. QED BY <2>1, <2>6, <2>7, <2>8
<1>6. ValidInv'
  BY <1>5 DEF ValidInv
<1>. QED BY <1>1, <1>2, <1>4, <1>6 DEF CaptureInv

LEMMA CellRegionCapture ==
  ASSUME StoreInv, StoreInv', ReadInv, ReadInv', CaptureInv, AllLocked, NEW id \in Id, NEW d, NEW direct,
         call' = call, d \in CellType, d.generation = cell[id].generation,
         d.static # None /\ cell[id].static = None => id \in direct,
         Prepares(Now, [Now EXCEPT !.cell[id] = d], expandRegion(Now, {id})),
         Now' = reachability([Now EXCEPT !.cell[id] = d], Now, expandRegion(Now, {id}), direct)
  PROVE  CaptureInv'
<1> DEFINE R == expandRegion(Now, {id})
           st == [Now EXCEPT !.cell[id] = d]
<1>1. Now \in StoreType
  BY DEF StoreInv, Consistent
<1>2. id \in R /\ R \in SUBSET Id
  BY <1>1, RegionClosed
<1>3. Far(Now, st, R)
  BY <1>2, CellFar
<1>4. /\ st.slot = Now.slot /\ st.head = Now.head /\ st.cell[id] = d
      /\ \A x \in Id : x # id => st.cell[x] = Now.cell[x]
  BY <1>1 DEF StoreType
<1> HIDE DEF R, st
<1>5. \A x \in Id \ R : st.cell[x] = Now.cell[x]
  BY <1>2, <1>4
<1>6. \A q \in Emitter : Undisturbed(Now, st, R, q)
  BY <1>4, <1>5, EmitterFacts DEF Undisturbed
<1>7. Prepares(Now, st, R) /\ Now' = reachability(st, Now, R, direct)
  BY DEF st, R
<1>8. KeepsStamps(Now, st)
  <2>1. \A s \in Id : \A i \in DOMAIN Now.slot[s].entries : Now.slot[s].entries[i].generation \in Nat
    BY <1>1, EntryFacts
  <2>. QED BY <1>4, <2>1 DEF KeepsStamps
<1>9. \A q \in Emitter : Follows(Now, st, q)
  <2>1. \A x \in Id : Now.head[x].generation \in Nat
    BY <1>1, CurrentFacts
  <2>2. \A x \in Id : st.cell[x].generation = Now.cell[x].generation
    BY <1>4, NowFields
  <2>. QED BY <1>4, <2>1, <2>2, EmitterFacts DEF Follows
<1>10. \A q \in Emitter : /\ st.slot[q].published => registered(Now, q)
                          /\ slot[q].published => st.slot[q].published
  BY <1>4, NowFields DEF registered
<1>11. ASSUME NEW x \in Id, st.cell[x].static # None
       PROVE  st.cell[x].generation >= 1 \/ (x \in direct /\ x \in R)
  <2>1. Now.cell[x].static # None => Now.cell[x].generation >= 1
    BY DEF CaptureInv, Dated
  <2>. QED BY <1>2, <1>4, <1>11, <2>1, NowFields
<1>. QED BY <1>3, <1>6, <1>7, <1>8, <1>9, <1>10, <1>11, RegionCapture

LEMMA StampSame ==
  ASSUME NEW st, NEW next, NEW x, next.slot = st.slot, next.head[x] = st.head[x]
  PROVE  stamp(next, x) = stamp(st, x)
  BY DEF stamp

\* A direct write, where nobody else supplies the resource.
LEMMA DirectCapture ==
  ASSUME StoreInv, StoreInv', ReadInv, CaptureInv, NEW id \in Id, call' = call, slot' = slot, members' = members,
         \A x \in Id : x # id => cell'[x] = cell[x] /\ head'[x] = head[x],
         head'[id].selected = head[id].selected, cell'[id].generation = current(Now, id) + 1,
         registered(Now, id) => head'[id].generation = current(Now, id) + 1,
         cell[id].rooted \/ Lone(Now, id)
  PROVE  CaptureInv'
<1>1. Consistent(Now) /\ Now \in StoreType /\ Mirrored(Now) /\ Now' \in StoreType
  BY DEF StoreInv, Consistent
<1>2. \A x \in Id : current(Now, x) \in Nat /\ current(Now', x) \in Nat
  BY <1>1, CurrentFacts
<1>3. ASSUME NEW x \in Id, x # id
      PROVE  current(Now', x) = current(Now, x) /\ stamp(Now', x) = stamp(Now, x) /\ object(x)' = object(x)
  <2>1. Now'.slot = Now.slot /\ Now'.cell[x] = Now.cell[x] /\ Now'.head[x] = Now.head[x]
    BY <1>3 DEF Now
  <2>2. object(x)' = object(x)
    BY <1>3, OthersSame, ObjectPrime
  <2>. QED BY <2>1, <2>2, CurrentSame, StampSame
<1>4. current(Now', id) > current(Now, id)
  <2>1. current(Now', id) >= current(Now, id) + 1
    BY <1>1, CurrentFacts DEF Now
  <2>. QED BY <1>2, <2>1
<1>5. Dated(Now')
  <2>1. cell'[id].generation >= 1
    BY <1>2
  <2>. QED BY <2>1 DEF Dated, CaptureInv, Now
<1>6. RegisteredInv'
  <2> SUFFICES ASSUME NEW q \in Emitter, registered(Now, q)' PROVE stamp(Now', q) >= cell'[q].generation
    BY DEF RegisteredInv
  <2>1. q \in Id /\ registered(Now, q)
    BY EmitterFacts DEF registered, Now
  <2>2. CASE q # id
    BY <1>3, <2>1, <2>2 DEF CaptureInv, RegisteredInv
  <2>3. CASE q = id
    <3>1. stamp(Now', q) >= Now'.head[q].generation
      BY <1>1, <2>1, CurrentFacts
    <3>2. Now'.head[q].generation = cell'[q].generation
      BY <2>1, <2>3 DEF Now
    <3>. QED BY <3>1, <3>2
  <2>. QED BY <2>2, <2>3
<1>7. head[id].selected = None
  <2>1. Lone(Now, id) => Showing(Now, id) = {}
    BY <1>1, LoneFacts DEF Showing
  <2>2. capture(Now, id).owner = None
    BY <1>1, <2>1, CaptureFacts, NowFields
  <2>3. HeadAt(Now, id)
    BY DEF ReadInv, Placed
  <2>. QED BY <2>2, <2>3, NowFields DEF HeadAt
<1>8. PendingInv'
  <2> SUFFICES ASSUME NEW s \in Emitter, call[s].pc = "stamped", NEW i \in DOMAIN slot[s].entries,
                      call[s].record.entries[i].content # slot[s].entries[i].content,
                      head'[slot[s].entries[i].id].selected = s
               PROVE  \/ call[s].record.entries[i].generation > stamp(Now', slot[s].entries[i].id)
                      \/ Raced(slot[s].entries[i].id)'
    BY DEF PendingInv
  <2> DEFINE x == slot[s].entries[i].id
  <2>1. s \in Id /\ s # None
    BY EmitterFacts, OwnerType
  <2>2. x \in Id
    BY <1>1, <2>1, EntryFacts, NowFields
  <2>3. x # id /\ head[x].selected = s
    BY <1>7, <2>1, <2>2
  <2>4. call[s].record.entries[i].generation > stamp(Now, x) \/ Raced(x)
    BY <2>3 DEF CaptureInv, PendingInv
  <2>5. Raced(x) => Raced(x)'
    BY <1>3, <2>2, <2>3 DEF Raced
  <2>. QED BY <1>3, <2>2, <2>3, <2>4, <2>5
<1>9. ValidInv'
  <2> SUFFICES ASSUME NEW q \in Emitter, call[q] # Idle
               PROVE  /\ call[q].input <= current(Now', q)
                      /\ call[q].input = current(Now', q) /\ ~call[q].raced => call[q].content = object(q)'
    BY DEF ValidInv
  <2>1. q \in Id /\ call[q].input \in Nat
    BY EmitterFacts DEF StoreInv, TypeOK, CallType
  <2>2. /\ call[q].input <= current(Now, q)
        /\ call[q].input = current(Now, q) /\ ~call[q].raced => call[q].content = object(q)
    BY DEF CaptureInv, ValidInv
  <2>3. CASE q # id
    BY <1>3, <2>1, <2>2, <2>3
  <2>4. CASE q = id
    <3>1. call[q].input < current(Now', q)
      BY <1>2, <1>4, <2>1, <2>2, <2>4
    <3>. QED BY <1>2, <2>1, <3>1
  <2>. QED BY <2>3, <2>4
<1>. QED BY <1>5, <1>6, <1>8, <1>9 DEF CaptureInv

LEMMA CaptureWrites ==
  ASSUME StoreInv, StoreInv', ReadInv, ReadInv', CaptureInv, NEW id \in Writable,
         DeleteObject(id) \/ \E c \in Content : AddObject(id, c)
  PROVE  CaptureInv'
<1>0. /\ GoodStore(Now) /\ id \in Id /\ Now \in StoreType /\ Consistent(Now) /\ cell[id] \in CellType
      /\ cell \in [Id -> CellType]
  BY WritableFacts DEF StoreInv, GoodStore, Consistent, StoreType, Now
<1>1. CASE DeleteObject(id)
  <2>1. call' = call
    BY <1>1 DEF DeleteObject
  <2>2. /\ WithdrawnCell(id) \in CellType /\ WithdrawnCell(id).generation = cell[id].generation
        /\ WithdrawnCell(id).static = None
        /\ withdrawn(id) = [Now EXCEPT !.cell[id] = WithdrawnCell(id)]
    <3>1. cell[id].static \in Content
      BY <1>0, <1>1 DEF DeleteObject, CellType
    <3>. QED BY <1>0, <3>1, CellStores
  <2>3. CASE Lone(Now, id)
    <3>1. Install(advance([Now EXCEPT !.cell[id] = WithdrawnCell(id)], id))
      BY <1>1, <2>2, <2>3, NowFields DEF DeleteObject, Lone, deleteLocked
    <3>2. PICK st : st = [Now EXCEPT !.cell[id] = WithdrawnCell(id)]
      OBVIOUS
    <3>3. Install(advance(st, id))
      BY <3>1, <3>2
    <3>4. /\ slot' = slot /\ members' = members
          /\ \A x \in Id : x # id => cell'[x] = cell[x] /\ head'[x] = head[x]
          /\ head'[id].selected = head[id].selected
          /\ cell'[id].generation = current(Now, id) + 1
          /\ registered(Now, id) => head'[id].generation = current(Now, id) + 1
      BY <1>0, <2>2, <3>2, <3>3, Advanced
    <3>. QED BY <1>0, <2>1, <2>3, <3>4, DirectCapture
  <2>4. CASE /\ AllLocked
             /\ LET st    == [Now EXCEPT !.cell[id] = WithdrawnCell(id)]
                    R     == expandRegion(Now, {id})
                    after == reachability(st, Now, R, {id})
                IN Prepares(Now, st, R) /\ Now' = after
    BY <1>0, <2>1, <2>2, <2>4, CellRegionCapture
  <2>5. \/ Lone(Now, id)
        \/ /\ AllLocked
           /\ LET st    == [Now EXCEPT !.cell[id] = WithdrawnCell(id)]
                  R     == expandRegion(Now, {id})
                  after == reachability(st, Now, R, {id})
              IN Prepares(Now, st, R) /\ Now' = after
    BY <1>0, <1>1, DeleteStep
  <2>. QED BY <2>3, <2>4, <2>5
<1>2. ASSUME NEW c \in Content, AddObject(id, c) PROVE CaptureInv'
  <2>1. call' = call
    BY <1>2 DEF AddObject
  <2>2. CASE UNCHANGED <<store, outbox>>
    <3>1. Now' = Now /\ slot' = slot /\ head' = head /\ cell' = cell
      BY <2>2 DEF store, Now
    <3>. QED BY <2>1, <3>1 DEF CaptureInv, RegisteredInv, PendingInv, ValidInv, Raced, registered, object
  <2>3. CASE ~cell[id].hidden /\ ~needsRoot(id) /\ admit(id, c)
    <3> DEFINE d == [cell[id] EXCEPT !.static = c, !.retired = FALSE]
    <3>1. d \in CellType /\ d.generation = cell[id].generation
      BY <1>0 DEF CellType
    <3>2. [Now EXCEPT !.cell[id].static = c, !.cell[id].retired = FALSE] = [Now EXCEPT !.cell[id] = d]
      BY <1>0 DEF Now, CellType
    <3> HIDE DEF d
    <3>3. PICK st : st = [Now EXCEPT !.cell[id] = d]
      OBVIOUS
    <3>4. Install(advance(st, id))
      BY <2>3, <3>2, <3>3 DEF admit
    <3>5. /\ slot' = slot /\ members' = members
          /\ \A x \in Id : x # id => cell'[x] = cell[x] /\ head'[x] = head[x]
          /\ head'[id].selected = head[id].selected
          /\ cell'[id].generation = current(Now, id) + 1
          /\ registered(Now, id) => head'[id].generation = current(Now, id) + 1
      BY <1>0, <3>1, <3>3, <3>4, Advanced
    <3>6. cell[id].rooted \/ Lone(Now, id)
      BY <2>3, NowFields DEF needsRoot, Lone
    <3>. QED BY <1>0, <2>1, <3>5, <3>6, DirectCapture
  <2>4. CASE addAnchor(id, c)
    <3>1. AllLocked
      BY <2>4 DEF addAnchor
    <3>2. PICK direct :
             LET st    == [Now EXCEPT !.cell[id] = RootCell(id, anchored(id, c))]
                 R     == expandRegion(Now, {id})
                 after == reachability(st, Now, R, direct)
             IN Prepares(Now, st, R) /\ Now' = after /\ (cell[id].static = None => id \in direct)
      BY <1>0, <2>4, AnchorStep
    <3>3. RootCell(id, anchored(id, c)) \in CellType /\ RootCell(id, anchored(id, c)).generation = cell[id].generation
      BY <1>0, <2>4, AnchorStep, CellStores
    <3>. QED BY <1>0, <2>1, <3>1, <3>2, <3>3, CellRegionCapture
  <2>. QED BY <1>2, <2>2, <2>3, <2>4 DEF AddObject, commitObjectUpdate
<1>. QED BY <1>1, <1>2

\* What Reconcile captures, in terms of the head.
LEMMA Captured ==
  ASSUME StoreInv, ReadInv, NEW p \in Emitter, Reconcile(p)
  PROVE  \E input \in Nat :
            /\ call'[p].pc = "snapshot" /\ call'[p].input = input /\ call'[p].content = object(p)
            /\ call'[p].raced = (/\ \E q \in Emitter : call[q].pc = "stamped" /\ p \in Ids(call[q].record.entries)
                                 /\ stamp(Now, p) < input)
            /\ \A q \in Emitter : q # p => call'[q] = call[q]
            /\ head' = IF registered(Now, p) THEN head ELSE [head EXCEPT ![p].generation = input]
            /\ input >= cell[p].generation
            /\ head[p].selected # None =>
                  LET e == slot[head[p].selected].entries[head[p].position]
                  IN e.generation \in Nat /\ input = larger(cell[p].generation, e.generation)
<1> DEFINE view  == capture(Now, p)
           e     == slot[view.owner].entries[view.position]
           input == IF view.owner = None THEN cell[p].generation
                    ELSE larger(cell[p].generation, e.generation)
           stamping == \E q \in Emitter : call[q].pc = "stamped" /\ p \in Ids(call[q].record.entries)
<1>1. /\ p \in Id /\ Now \in StoreType /\ Consistent(Now) /\ call \in [Emitter -> CallType]
      /\ cell[p].generation \in Nat
  BY EmitterFacts DEF StoreInv, TypeOK, Consistent, StoreType, CellType, Now
<1>2. head[p].selected = view.owner /\ (view.owner # None => head[p].position = view.position)
  <2>1. HeadAt(Now, p)
    BY <1>1 DEF ReadInv, Placed
  <2>. QED BY <2>1, NowFields DEF HeadAt
<1>3. view.owner # None => e.generation \in Nat
  <2> SUFFICES ASSUME view.owner # None PROVE e.generation \in Nat
    OBVIOUS
  <2>1. HeadAt(Now, p) /\ Now.head[p].selected # None
    BY <1>1, <1>2, NowFields DEF ReadInv, Placed
  <2>2. Now.head[p].selected \in Id /\ Now.head[p].position \in DOMAIN Now.slot[Now.head[p].selected].entries
    BY <1>1, <2>1, HeadEntry, ZenonT(20)
  <2>3. Now.slot[Now.head[p].selected].entries[Now.head[p].position].generation \in Nat
    BY <1>1, <2>2, EntryFacts
  <2>. QED BY <1>2, <2>3, NowFields
<1>4. /\ call' = [call EXCEPT ![p] =
                    [Idle EXCEPT !.pc = "snapshot", !.content = view.content, !.input = input,
                                 !.raced = stamping /\ stamp(Now, p) < input]]
      /\ head' = IF registered(Now, p) THEN head ELSE [head EXCEPT ![p].generation = input]
  BY DEF Reconcile
<1>5. view.content = object(p)
  BY DEF object
<1>6. head[p].selected # None => input = larger(cell[p].generation, slot[head[p].selected].entries[head[p].position].generation)
                                 /\ slot[head[p].selected].entries[head[p].position].generation \in Nat
  BY <1>2, <1>3
<1> HIDE DEF view, e
<1>7. input \in Nat /\ input >= cell[p].generation
  BY <1>1, <1>3 DEF larger
<1> HIDE DEF input, stamping
<1>8. PICK raced \in BOOLEAN : raced = (stamping /\ stamp(Now, p) < input)
  BY (stamping /\ stamp(Now, p) < input) \in BOOLEAN
<1>9. call' = [call EXCEPT ![p] = [Idle EXCEPT !.pc = "snapshot", !.content = view.content, !.input = input,
                                               !.raced = raced]]
  BY <1>4, <1>8
<1>10. /\ call'[p].pc = "snapshot" /\ call'[p].input = input /\ call'[p].content = view.content
       /\ call'[p].raced = raced /\ \A q \in Emitter : q # p => call'[q] = call[q]
  BY <1>1, <1>9 DEF Idle
<1>11. call'[p].raced = (stamping /\ stamp(Now, p) < input)
  BY <1>8, <1>10
<1>. QED BY <1>4, <1>5, <1>6, <1>7, <1>10, <1>11 DEF stamping

LEMMA CaptureReconcile ==
  ASSUME StoreInv, StoreInv', ReadInv, ReadInv', CaptureInv, NEW p \in Emitter, Reconcile(p)
  PROVE  CaptureInv'
<1>0. /\ p \in Id /\ Now \in StoreType /\ Consistent(Now) /\ Now' \in StoreType
      /\ head \in [Id -> HeadType] /\ head[p] \in HeadType
      /\ cell[p].generation \in Nat /\ StampedInv
  BY EmitterFacts DEF StoreInv, TypeOK, Consistent, StoreType, CellType, Now
<1>1. cell' = cell /\ slot' = slot /\ members' = members /\ call[p] = Idle
  BY DEF Reconcile
<1>2. PICK input \in Nat :
         /\ call'[p].pc = "snapshot" /\ call'[p].input = input /\ call'[p].content = object(p)
         /\ call'[p].raced = (/\ \E q \in Emitter : call[q].pc = "stamped" /\ p \in Ids(call[q].record.entries)
                              /\ stamp(Now, p) < input)
         /\ \A q \in Emitter : q # p => call'[q] = call[q]
         /\ head' = IF registered(Now, p) THEN head ELSE [head EXCEPT ![p].generation = input]
         /\ input >= cell[p].generation
         /\ head[p].selected # None =>
               LET e == slot[head[p].selected].entries[head[p].position]
               IN e.generation \in Nat /\ input = larger(cell[p].generation, e.generation)
  BY Captured
<1>3. \A id \in Id : object(id)' = object(id)
  BY ReconcileStep, ObjectPrime
<1>4. ASSUME NEW x \in Id, x # p \/ registered(Now, p)
      PROVE  stamp(Now', x) = stamp(Now, x) /\ current(Now', x) = current(Now, x)
  <2>1. head'[x] = head[x]
    BY <1>0, <1>2, <1>4
  <2>2. Now'.slot = Now.slot /\ Now'.cell[x] = Now.cell[x] /\ Now'.head[x] = Now.head[x]
    BY <1>1, <2>1 DEF Now
  <2>. QED BY <2>2, StampSame, CurrentSame
<1>5. ~registered(Now, p) => head'[p].generation = input /\ head'[p].selected = head[p].selected
                             /\ head'[p].position = head[p].position
  BY <1>0, <1>2 DEF HeadType
<1>6. \A x \in Id : head'[x].selected = head[x].selected
  BY <1>0, <1>2 DEF HeadType
<1>7. Dated(Now')
  BY <1>1 DEF CaptureInv, Dated, Now
<1>8. RegisteredInv'
  <2> SUFFICES ASSUME NEW q \in Emitter, registered(Now, q)' PROVE stamp(Now', q) >= cell'[q].generation
    BY DEF RegisteredInv
  <2>1. CASE q # p \/ registered(Now, p)
    <3>1. registered(Now, q)
      BY <1>1, <1>2, <2>1 DEF registered, Now
    <3>2. q \in Id
      BY EmitterFacts
    <3>. QED BY <1>1, <1>4, <2>1, <3>1, <3>2 DEF CaptureInv, RegisteredInv
  <2>2. CASE q = p /\ ~registered(Now, p)
    <3>1. stamp(Now', p) >= Now'.head[p].generation /\ stamp(Now', p) \in Nat
      BY <1>0, CurrentFacts
    <3>2. Now'.head[p].generation = input
      BY <1>5, <2>2 DEF Now
    <3>. QED BY <1>0, <1>1, <1>2, <2>2, <3>1, <3>2
  <2>. QED BY <2>1, <2>2
<1>9. PendingInv'
  <2> SUFFICES ASSUME NEW s \in Emitter, call'[s].pc = "stamped", NEW i \in DOMAIN slot[s].entries,
                      call'[s].record.entries[i].content # slot[s].entries[i].content,
                      head'[slot[s].entries[i].id].selected = s
               PROVE  \/ call'[s].record.entries[i].generation > stamp(Now', slot[s].entries[i].id)
                      \/ Raced(slot[s].entries[i].id)'
    BY <1>1 DEF PendingInv
  <2> DEFINE x == slot[s].entries[i].id
             g == call[s].record.entries[i].generation
  <2>1. s # p /\ call'[s] = call[s] /\ s \in Id /\ s # None
    BY <1>2, EmitterFacts, OwnerType
  <2>2. x \in Id
    BY <1>0, <2>1, EntryFacts, NowFields
  <2>3. head[x].selected = s
    BY <1>6, <2>2
  <2>4. g > stamp(Now, x) \/ Raced(x)
    BY <2>1, <2>3 DEF CaptureInv, PendingInv
  <2>5. CASE x # p
    <3>1. Raced(x) => Raced(x)'
      BY <1>1, <1>2, <1>4, <2>2, <2>5 DEF Raced
    <3>. QED BY <1>4, <2>1, <2>2, <2>4, <2>5, <3>1
  <2>6. CASE x = p
    <3>1. g > stamp(Now, p)
      BY <1>1, <2>4, <2>6 DEF Raced
    <3>2. CASE registered(Now, p)
      BY <1>0, <1>4, <2>1, <2>6, <3>1, <3>2
    <3>3. CASE ~registered(Now, p)
      <4> DEFINE e == slot[head[p].selected].entries[head[p].position]
      <4>1. stamp(Now', p) = input /\ current(Now', p) = input
        <5>1. Now'.head[p].selected = head[p].selected /\ Now'.head[p].position = head[p].position
              /\ Now'.head[p].generation = input /\ Now'.slot = slot /\ Now'.cell = cell
          BY <1>1, <1>5, <3>3 DEF Now
        <5>2. HeadAt(Now, p) /\ Now.head[p].selected # None
          BY <1>0, <2>1, <2>3, <2>6, NowFields, ZenonT(20) DEF ReadInv, Placed
        <5>3. head[p].position \in DOMAIN slot[head[p].selected].entries /\ e.id = p
          BY <1>0, <5>2, HeadEntry, NowFields
        <5>4. e.generation \in Nat /\ input = larger(cell[p].generation, e.generation)
          BY <1>2, <5>2, NowFields
        <5>5. stamp(Now', p) = larger(input, e.generation)
          <6>1. /\ Now'.head[p].selected # None
                /\ Now'.head[p].position \in DOMAIN Now'.slot[Now'.head[p].selected].entries
                /\ Now'.slot[Now'.head[p].selected].entries[Now'.head[p].position] = e
            BY <5>1, <5>2, <5>3, NowFields
          <6> HIDE DEF e
          <6>. QED BY <1>0, <5>1, <5>3, <6>1, StampCovers, Zenon
        <5> HIDE DEF e
        <5>6. stamp(Now', p) = input
          BY <1>0, <5>4, <5>5 DEF larger
        <5>7. current(Now', p) = larger(cell[p].generation, input)
          BY <5>1, <5>6 DEF current
        <5>. QED BY <1>0, <1>2, <5>6, <5>7 DEF larger
      <4>2. CASE stamp(Now, p) < input
        <5>1. p \in Ids(call[s].record.entries)
          <6>1. SameMembers(call[s].record, slot[s])
            BY <1>0, <2>1 DEF StampedInv
          <6>. QED BY <2>6, <6>1 DEF SameMembers, Ids
        <5>2. call'[p].raced
          BY <1>2, <2>1, <4>2, <5>1
        <5>3. ~slot[p].published
          BY <3>3, NowFields DEF registered
        <5>4. call'[p] # Idle
          BY <1>2, IdleType
        <5>. QED BY <1>1, <1>2, <2>6, <4>1, <5>2, <5>3, <5>4 DEF Raced
      <4>3. CASE ~(stamp(Now, p) < input)
        <5>1. stamp(Now, p) \in Nat
          BY <1>0, CurrentFacts
        <5>2. g \in Nat
          <6>1. call[s].record \in SlotType /\ SameMembers(call[s].record, slot[s])
            BY <1>0, <2>1 DEF StampedInv
          <6>2. call[s].record.entries \in Seq(EntryType) /\ i \in DOMAIN call[s].record.entries
            BY <6>1 DEF SameMembers, SlotType
          <6>3. call[s].record.entries[i] \in EntryType
            BY <6>2
          <6>. QED BY <6>3 DEF EntryType
        <5> HIDE DEF g
        <5>3. g > stamp(Now', p)
          BY <3>1, <4>1, <4>3, <5>1, <5>2
        <5>. QED BY <2>1, <2>6, <5>3 DEF g
      <4>. QED BY <4>2, <4>3
    <3>. QED BY <3>2, <3>3
  <2>. QED BY <2>5, <2>6
<1>10. ValidInv'
  <2> SUFFICES ASSUME NEW q \in Emitter, call'[q] # Idle
               PROVE  /\ call'[q].input <= current(Now', q)
                      /\ call'[q].input = current(Now', q) /\ ~call'[q].raced => call'[q].content = object(q)'
    BY DEF ValidInv
  <2>1. q \in Id
    BY EmitterFacts
  <2>2. CASE q # p
    BY <1>2, <1>3, <1>4, <2>1, <2>2 DEF CaptureInv, ValidInv
  <2>3. CASE q = p
    <3>1. call'[p].input <= current(Now', p)
      BY <1>2 DEF ReadInv, InputInv
    <3>. QED BY <1>2, <1>3, <2>1, <2>3, <3>1
  <2>. QED BY <2>2, <2>3
<1>. QED BY <1>7, <1>8, <1>9, <1>10 DEF CaptureInv

LEMMA CaptureSnapshot ==
  ASSUME StoreInv, CaptureInv, NEW p \in Emitter, Snapshot(p)
  PROVE  CaptureInv'
<1>1. /\ Now' = Now /\ slot' = slot /\ cell' = cell /\ head' = head
      /\ call \in [Emitter -> CallType] /\ call[p] \in CallType /\ call[p].pc = "snapshot"
  BY DEF Snapshot, store, Now, StoreInv, TypeOK
<1>2. /\ call'[p].pc = "commit" /\ call'[p].input = call[p].input /\ call'[p].content = call[p].content
      /\ call'[p].raced = call[p].raced /\ \A q \in Emitter : q # p => call'[q] = call[q]
  BY <1>1 DEF Snapshot, CallType
<1>3. call[p] # Idle /\ call'[p] # Idle
  BY <1>1, <1>2, IdleType
<1>4. \A q \in Emitter : /\ call'[q].input = call[q].input /\ call'[q].content = call[q].content
                         /\ call'[q].raced = call[q].raced /\ (call'[q] # Idle <=> call[q] # Idle)
  BY <1>2, <1>3
<1>5. \A id \in Id : object(id)' = object(id)
  BY <1>1, ObjectPrime
<1>7. RegisteredInv'
  BY <1>1, <1>4 DEF CaptureInv, RegisteredInv, registered
<1>8. PendingInv'
  <2> SUFFICES ASSUME NEW s \in Emitter, call'[s].pc = "stamped", NEW i \in DOMAIN slot[s].entries,
                      call'[s].record.entries[i].content # slot[s].entries[i].content,
                      head[slot[s].entries[i].id].selected = s
               PROVE  \/ call'[s].record.entries[i].generation > stamp(Now, slot[s].entries[i].id)
                      \/ Raced(slot[s].entries[i].id)'
    BY <1>1 DEF PendingInv
  <2> DEFINE x == slot[s].entries[i].id
  <2>1. call'[s] = call[s]
    BY <1>2
  <2>2. call[s].record.entries[i].generation > stamp(Now, x) \/ Raced(x)
    BY <2>1 DEF CaptureInv, PendingInv
  <2>3. Raced(x) => Raced(x)'
    BY <1>1, <1>4 DEF Raced
  <2> HIDE DEF x
  <2>. QED BY <2>1, <2>2, <2>3 DEF x
<1>9. ValidInv'
  BY <1>1, <1>4, <1>5, EmitterFacts DEF CaptureInv, ValidInv
<1>. QED BY <1>1, <1>7, <1>8, <1>9 DEF CaptureInv

\* The store is the same and one call is over that no record waits for.
LEMMA CaptureReturns ==
  ASSUME StoreInv, CaptureInv, NEW p \in Emitter, Now' = Now, Return(p), ~Raced(p)
  PROVE  CaptureInv'
<1>1. /\ slot' = slot /\ cell' = cell /\ head' = head /\ call \in [Emitter -> CallType]
  BY DEF Now, StoreInv, TypeOK
<1>2. call'[p] = Idle /\ call'[p].pc = "idle" /\ \A q \in Emitter : q # p => call'[q] = call[q]
  BY <1>1, IdleType DEF Return
<1>3. \A id \in Id : object(id)' = object(id)
  BY ObjectPrime
<1>5. RegisteredInv'
  BY <1>1, <1>2 DEF CaptureInv, RegisteredInv, registered
<1>6. PendingInv'
  <2> SUFFICES ASSUME NEW s \in Emitter, call'[s].pc = "stamped", NEW i \in DOMAIN slot[s].entries,
                      call'[s].record.entries[i].content # slot[s].entries[i].content,
                      head[slot[s].entries[i].id].selected = s
               PROVE  \/ call'[s].record.entries[i].generation > stamp(Now, slot[s].entries[i].id)
                      \/ Raced(slot[s].entries[i].id)'
    BY <1>1 DEF PendingInv
  <2> DEFINE x == slot[s].entries[i].id
  <2>1. call'[s] = call[s]
    BY <1>2
  <2>2. call[s].record.entries[i].generation > stamp(Now, x) \/ Raced(x)
    BY <2>1 DEF CaptureInv, PendingInv
  <2>3. Raced(x) => Raced(x)'
    BY <1>1, <1>2 DEF Raced
  <2> HIDE DEF x
  <2>. QED BY <2>1, <2>2, <2>3 DEF x
<1>7. ValidInv'
  BY <1>1, <1>2, <1>3, EmitterFacts DEF CaptureInv, ValidInv
<1>. QED BY <1>5, <1>6, <1>7 DEF CaptureInv

\* A record is stamped: where it differs it will move the stamp.
LEMMA CaptureStamp ==
  ASSUME StoreInv, CaptureInv, NEW p \in Emitter, NEW next \in Outputs[p],
         NEW entries \in Seq(EntryType), call[p].pc = "commit",
         Stable(p, next, entries), stampStable(p, next, entries), UNCHANGED store
  PROVE  CaptureInv'
<1>0. /\ p \in Id /\ call \in [Emitter -> CallType] /\ call[p] \in CallType /\ GoodStore(Now)
      /\ Now \in StoreType
  BY EmitterFacts DEF StoreInv, TypeOK, GoodStore, Consistent
<1>1. Now' = Now /\ slot' = slot /\ head' = head /\ cell' = cell /\ slot[p].published
  BY DEF store, Now, Stable
<1>2. PICK r \in SlotType :
         /\ call' = [call EXCEPT ![p].pc = "stamped", ![p].record = r]
         /\ SameMembers(r, slot[p])
         /\ \A i \in DOMAIN slot[p].entries :
               /\ i \in DOMAIN entries /\ entries[i].id = slot[p].entries[i].id
               /\ r.entries[i].content = entries[i].content
               /\ r.entries[i].generation =
                     IF differs(p, entries[i]) /\ head[entries[i].id].selected = p
                     THEN stamp(Now, entries[i].id) + 1 ELSE entries[i].generation
  BY <1>0, StampStep
<1>3. /\ call'[p].pc = "stamped" /\ call'[p].record = r /\ call'[p].input = call[p].input
      /\ call'[p].content = call[p].content /\ call'[p].raced = call[p].raced
      /\ \A q \in Emitter : q # p => call'[q] = call[q]
  BY <1>0, <1>2 DEF CallType
<1>4. call[p] # Idle /\ call'[p] # Idle
  BY <1>3, IdleType
<1>5. \A q \in Emitter : /\ call'[q].input = call[q].input /\ call'[q].content = call[q].content
                         /\ call'[q].raced = call[q].raced /\ (call'[q] # Idle <=> call[q] # Idle)
  BY <1>3, <1>4
<1>6. \A id \in Id : object(id)' = object(id)
  BY <1>1, ObjectPrime
<1>8. RegisteredInv'
  BY <1>1, <1>5 DEF CaptureInv, RegisteredInv, registered
<1>9. PendingInv'
  <2> SUFFICES ASSUME NEW s \in Emitter, call'[s].pc = "stamped", NEW i \in DOMAIN slot[s].entries,
                      call'[s].record.entries[i].content # slot[s].entries[i].content,
                      head[slot[s].entries[i].id].selected = s
               PROVE  \/ call'[s].record.entries[i].generation > stamp(Now, slot[s].entries[i].id)
                      \/ Raced(slot[s].entries[i].id)'
    BY <1>1 DEF PendingInv
  <2>1. CASE s # p
    <3> DEFINE x == slot[s].entries[i].id
    <3>1. call'[s] = call[s]
      BY <1>3, <2>1
    <3>2. call[s].record.entries[i].generation > stamp(Now, x) \/ Raced(x)
      BY <3>1 DEF CaptureInv, PendingInv
    <3>3. Raced(x) => Raced(x)'
      BY <1>1, <1>5 DEF Raced
    <3> HIDE DEF x
    <3>. QED BY <3>1, <3>2, <3>3 DEF x
  <2>2. CASE s = p
    <3> DEFINE x == slot[p].entries[i].id
    <3>1. /\ i \in DOMAIN slot[p].entries /\ entries[i].id = x
          /\ entries[i].content # slot[p].entries[i].content /\ head[x].selected = p
      BY <1>2, <1>3, <2>2
    <3>2. differs(p, entries[i])
      BY <3>1 DEF differs
    <3>3. x \in Id /\ stamp(Now, x) \in Nat
      <4>1. x \in Id
        BY <1>0, <3>1, EntryFacts, NowFields
      <4>. QED BY <1>0, <4>1, CurrentFacts
    <3>4. call'[p].record.entries[i].generation = stamp(Now, x) + 1
      BY <1>2, <1>3, <3>1, <3>2
    <3> HIDE DEF x
    <3>5. call'[p].record.entries[i].generation > stamp(Now, x)
      BY <3>3, <3>4
    <3>. QED BY <2>2, <3>5 DEF x
  <2>. QED BY <2>1, <2>2
<1>10. ValidInv'
  BY <1>1, <1>5, <1>6, EmitterFacts, ZenonT(20) DEF CaptureInv, ValidInv
<1>. QED BY <1>1, <1>8, <1>9, <1>10 DEF CaptureInv

LEMMA StampElsewhere ==
  ASSUME NEW st, NEW next, NEW x, next.head[x] = st.head[x],
         st.head[x].selected = None \/ next.slot[st.head[x].selected] = st.slot[st.head[x].selected]
  PROVE  stamp(next, x) = stamp(st, x)
  BY DEF stamp

\* The stamped record is stored: what it changes gets another stamp, unless a capture raced with it.
LEMMA CaptureStable ==
  ASSUME StoreInv, StoreInv', ReadInv, CaptureInv, NEW p \in Emitter, commitStable(p)
  PROVE  CaptureInv'
<1> DEFINE r == call[p].record
<1>1. /\ Now' = [Now EXCEPT !.slot[p] = r] /\ call[p].pc = "stamped"
      /\ call' = [call EXCEPT ![p] = Idle] /\ slot' = [slot EXCEPT ![p] = r]
      /\ cell' = cell /\ head' = head
  BY StableStep DEF commitStable, Return
<1>2. /\ r \in SlotType /\ SameMembers(r, slot[p]) /\ Consistent(Now) /\ p \in Id
      /\ \A i \in DOMAIN slot[p].entries : r.entries[i].generation >= slot[p].entries[i].generation
  BY <1>1, EmitterFacts DEF StoreInv, StampedInv, ReadInv, RecordInv
<1>3. /\ Now \in StoreType /\ Now' \in StoreType /\ call \in [Emitter -> CallType]
      /\ slot \in [Id -> SlotType] /\ head \in [Id -> HeadType]
  BY DEF StoreInv, TypeOK, Now, StoreType
<1>4. \A i \in DOMAIN slot[p].entries :
         LET e == slot[p].entries[i]
         IN r.entries[i].content # e.content /\ head[e.id].selected = p
                => r.entries[i].generation > stamp(Now, e.id) \/ Raced(e.id)
  BY <1>1 DEF CaptureInv, PendingInv
<1> HIDE DEF r
<1>5. slot'[p] = r /\ \A q \in Id : q # p => slot'[q] = slot[q]
  BY <1>1, <1>2, <1>3
<1>6. call'[p] = Idle /\ call'[p].pc = "idle" /\ \A q \in Emitter : q # p => call'[q] = call[q]
  BY <1>1, <1>3, IdleType
<1>7. \A s \in Id : \A i \in DOMAIN slot[s].entries :
         /\ i \in DOMAIN slot'[s].entries /\ slot'[s].entries[i].id = slot[s].entries[i].id
         /\ slot'[s].entries[i].generation >= slot[s].entries[i].generation
  <2>1. ASSUME NEW s \in Id, s # p, NEW i \in DOMAIN slot[s].entries
        PROVE  slot[s].entries[i].generation \in Nat
    BY <1>3, EntryFacts, NowFields
  <2>2. ASSUME NEW i \in DOMAIN slot[p].entries
        PROVE  /\ i \in DOMAIN slot'[p].entries /\ slot'[p].entries[i].id = slot[p].entries[i].id
               /\ slot'[p].entries[i].generation >= slot[p].entries[i].generation
    BY <1>2, <1>5 DEF SameMembers
  <2>. QED BY <1>5, <2>1, <2>2
<1>8. ASSUME NEW x \in Id
      PROVE  /\ current(Now', x) >= current(Now, x) /\ stamp(Now', x) >= stamp(Now, x)
             /\ current(Now, x) \in Nat /\ stamp(Now, x) \in Nat
             /\ current(Now', x) \in Nat /\ stamp(Now', x) \in Nat /\ current(Now', x) >= stamp(Now', x)
  <2>1. /\ Now.slot = slot /\ Now'.slot = slot' /\ Now'.head[x] = Now.head[x]
        /\ Now'.cell[x].generation = Now.cell[x].generation
    BY <1>1 DEF Now
  <2>2. Now.cell[x].generation \in Nat
    BY <1>3, CurrentFacts
  <2>3. /\ Now'.cell[x].generation >= Now.cell[x].generation /\ Now'.head[x] = Now.head[x]
        /\ \A s \in Id : \A i \in DOMAIN Now.slot[s].entries :
              s = Now.head[x].selected /\ Now.slot[s].entries[i].id = x =>
                  /\ i \in DOMAIN Now'.slot[s].entries /\ Now'.slot[s].entries[i].id = x
                  /\ Now'.slot[s].entries[i].generation >= Now.slot[s].entries[i].generation
    BY <1>7, <2>1, <2>2
  <2>4. current(Now', x) >= current(Now, x) /\ stamp(Now', x) >= stamp(Now, x)
    BY <1>3, <2>3, CurrentGrows
  <2>. QED BY <1>3, <2>4, CurrentFacts
<1>9. ASSUME NEW x \in Id, head[x].selected # p
      PROVE  stamp(Now', x) = stamp(Now, x) /\ current(Now', x) = current(Now, x)
  <2>1. head[x].selected \in Id \cup {None}
    BY <1>3 DEF HeadType
  <2>2. /\ Now'.head[x] = Now.head[x] /\ Now'.cell[x] = Now.cell[x]
        /\ Now.head[x].selected = None \/ Now'.slot[Now.head[x].selected] = Now.slot[Now.head[x].selected]
    BY <1>1, <1>5, <1>9, <2>1 DEF Now
  <2>3. stamp(Now', x) = stamp(Now, x)
    BY ONLY <2>2, StampElsewhere
  <2>. QED BY <2>2, <2>3 DEF current
<1>10. Dated(Now')
  BY <1>1 DEF CaptureInv, Dated, Now
<1>11. \A q \in Id : slot'[q].published = slot[q].published
  BY <1>2, <1>3, <1>5 DEF SameMembers, SlotType
<1>12. RegisteredInv'
  <2> SUFFICES ASSUME NEW q \in Emitter, registered(Now, q)' PROVE stamp(Now', q) >= cell'[q].generation
    BY DEF RegisteredInv
  <2>1. q \in Id /\ registered(Now, q)
    BY <1>6, <1>11, EmitterFacts DEF registered, Now
  <2>2. stamp(Now, q) >= cell[q].generation /\ cell[q].generation \in Nat
    BY <1>3, <2>1, CurrentFacts, NowFields DEF CaptureInv, RegisteredInv
  <2>. QED BY <1>1, <1>8, <2>1, <2>2
<1>13. PendingInv'
  <2> SUFFICES ASSUME NEW s \in Emitter, call'[s].pc = "stamped", NEW i \in DOMAIN slot'[s].entries,
                      call'[s].record.entries[i].content # slot'[s].entries[i].content,
                      head'[slot'[s].entries[i].id].selected = s
               PROVE  \/ call'[s].record.entries[i].generation > stamp(Now', slot'[s].entries[i].id)
                      \/ Raced(slot[s].entries[i].id)'
    BY DEF PendingInv
  <2> DEFINE x == slot[s].entries[i].id
  <2>1. s # p /\ call'[s] = call[s] /\ s \in Id /\ slot'[s] = slot[s]
    BY <1>5, <1>6, EmitterFacts
  <2>2. x \in Id
    BY <1>3, <2>1, EntryFacts, NowFields
  <2>3. head[x].selected = s
    BY <1>1, <2>1
  <2>4. call[s].record.entries[i].generation > stamp(Now, x) \/ Raced(x)
    BY <2>1, <2>3 DEF CaptureInv, PendingInv
  <2>5. stamp(Now', x) = stamp(Now, x) /\ current(Now', x) = current(Now, x)
    BY <1>9, <2>1, <2>2, <2>3
  <2>6. Raced(x) => Raced(x)'
    <3>1. Raced(x) => x # p
      BY <1>2 DEF Raced, SameMembers
    <3>2. x' = x
      BY <2>1
    <3>. QED BY <1>5, <1>6, <2>2, <2>5, <3>1, <3>2 DEF Raced
  <2>. QED BY <2>1, <2>4, <2>5, <2>6
<1>14. ValidInv'
  <2> SUFFICES ASSUME NEW q \in Emitter, call'[q] # Idle
               PROVE  /\ call'[q].input <= current(Now', q)
                      /\ call'[q].input = current(Now', q) /\ ~call'[q].raced => call'[q].content = object(q)'
    BY DEF ValidInv
  <2>1. q \in Id /\ q # p /\ call'[q] = call[q] /\ call[q].input \in Nat
    <3>1. q # p /\ call'[q] = call[q]
      BY <1>6
    <3>. QED BY <1>3, <3>1, EmitterFacts DEF CallType
  <2>2. /\ call[q].input <= current(Now, q)
        /\ call[q].input = current(Now, q) /\ ~call[q].raced => call[q].content = object(q)
    BY <2>1 DEF CaptureInv, ValidInv
  <2>3. call[q].input <= current(Now', q)
    BY <1>8, <2>1, <2>2
  <2>4. CASE object(q)' = object(q)
    BY <1>8, <2>1, <2>2, <2>3, <2>4
  <2>5. CASE object(q)' # object(q) /\ ~call[q].raced
    <3> DEFINE v == capture(Now, q)
               i == v.position
    <3>1. PICK st : st = [Now EXCEPT !.slot[p] = r] /\ st = Now'
      BY <1>1
    <3>2. LET a == capture(Now, q)
              b == capture(st, q)
          IN /\ b.owner = a.owner /\ b.position = a.position
             /\ a.owner # p => b.content = a.content
             /\ a.owner = p => /\ slot[p].visible /\ a.position \in DOMAIN slot[p].entries
                               /\ slot[p].entries[a.position].id = q
                               /\ a.content = slot[p].entries[a.position].content
                               /\ b.content = r.entries[a.position].content
      BY ONLY <1>2, <2>1, <3>1, StableCapture
    <3>3. capture(st, q).content # v.content
      BY <2>1, <2>5, <3>1, ObjectPrime
    <3>4. /\ v.owner = p /\ i \in DOMAIN slot[p].entries /\ slot[p].entries[i].id = q
          /\ r.entries[i].content # slot[p].entries[i].content
      BY <3>2, <3>3
    <3>5. head[q].selected = p /\ head[q].position = i /\ p # None
      <4>1. HeadAt(Now, q) /\ p # None
        BY <1>2, <2>1, OwnerType DEF ReadInv, Placed
      <4>. QED BY <3>4, <4>1, NowFields DEF HeadAt
    <3> HIDE DEF v, i
    <3>6. r.entries[i].generation > stamp(Now, q)
      <4>1. ~Raced(q)
        BY <2>5 DEF Raced
      <4>. QED BY <1>4, <3>4, <3>5, <4>1
    <3>7. stamp(Now', q) >= r.entries[i].generation /\ r.entries[i].generation \in Nat
      <4>1. /\ Now'.head[q].selected = p /\ Now'.head[q].position = i /\ Now'.slot[p] = r
        BY <1>1, <1>5, <3>5 DEF Now
      <4>2. i \in DOMAIN r.entries /\ r.entries[i].id = q
        BY <1>2, <3>4 DEF SameMembers
      <4>. QED BY <1>3, <2>1, <3>5, <4>1, <4>2, StampCovers, Zenon
    <3>8. current(Now, q) = stamp(Now, q)
      <4>1. registered(Now, q)
        BY <2>1 DEF registered
      <4>2. stamp(Now, q) >= cell[q].generation /\ cell[q].generation \in Nat
        BY <1>3, <2>1, <4>1, CurrentFacts, NowFields DEF CaptureInv, RegisteredInv
      <4>3. current(Now, q) = larger(cell[q].generation, stamp(Now, q))
        BY NowFields DEF current
      <4>. QED BY <1>8, <2>1, <4>2, <4>3 DEF larger
    <3>9. call[q].input # current(Now', q)
      BY <1>8, <2>1, <2>2, <3>6, <3>7, <3>8
    <3>. QED BY <2>1, <2>3, <3>9
  <2>. QED BY <2>1, <2>3, <2>4, <2>5
<1>. QED BY <1>10, <1>12, <1>13, <1>14 DEF CaptureInv

\* What a replacement prepares on its producer's head and cell.
LEMMA ReplacedStamps ==
  ASSUME Now \in StoreType, Mirrored(Now), NEW p \in Emitter, NEW next \in Outputs[p],
         NEW entries \in Seq(EntryType), NEW R
  PROVE  LET st == replaced(p, next, entries, R)
         IN /\ st.head[p].generation >= head[p].generation /\ st.cell[p].generation >= cell[p].generation
            /\ \/ st.head[p].generation >= st.cell[p].generation
               \/ st.cell[p].generation = cell[p].generation
<1> DEFINE s    == proposal(p, next, entries)
           seen == IF slot[p].exists THEN slot[p].visible ELSE object(p) # None
           made == IF slot[p].exists THEN s
                   ELSE [s EXCEPT !.visible = object(p) # None, !.hidden = cell[p].hidden]
           base == [Now EXCEPT !.slot[p] = made]
           st   == replaced(p, next, entries, R)
<1>0. p \in Id /\ cell[p] \in CellType /\ head[p] \in HeadType
  BY OutputType DEF StoreType, Now
<1>1. /\ s \in SlotType /\ s.published /\ s.visible = slot[p].visible
  BY ProposalFields
<1> HIDE DEF s
<1>2. made \in SlotType /\ made.published /\ (made.visible <=> seen)
  <2>1. PICK v \in BOOLEAN : v = (object(p) # None)
    BY (object(p) # None) \in BOOLEAN
  <2>2. cell[p].hidden \in BOOLEAN
    BY <1>0 DEF CellType
  <2>3. [s EXCEPT !.visible = object(p) # None, !.hidden = cell[p].hidden] =
           [s EXCEPT !.visible = v, !.hidden = cell[p].hidden]
    BY <2>1
  <2>4. CASE slot[p].exists
    BY <1>1, <2>4
  <2>5. CASE ~slot[p].exists
    BY <1>1, <2>1, <2>2, <2>3, <2>5 DEF SlotType
  <2>. QED BY <2>4, <2>5
<1>3. st = [hideProducer(base, p) EXCEPT !.members = publishMembers(p, entries, retireMembers(p, R))]
  BY DEF replaced, s
<1> HIDE DEF made
<1>4. /\ base \in StoreType /\ base.cell = cell /\ base.head = head /\ base.slot[p] = made
  BY <1>0, <1>2 DEF StoreType, Now
<1>5. seen \/ cell[p].hidden => st.cell[p] = cell[p] /\ st.head[p] = head[p]
  BY ReplacedFields
<1> HIDE DEF base, st, seen
<1>6. CASE seen \/ cell[p].hidden
  <2>1. cell[p].generation \in Nat /\ head[p].generation \in Nat
    BY <1>0 DEF CellType, HeadType
  <2>. QED BY <1>5, <1>6, <2>1 DEF st
<1>7. CASE ~(seen \/ cell[p].hidden)
  <2> DEFINE adv == advance(base, p)
             g   == current(base, p) + 1
  <2>1. hideProducer(base, p) = [[adv EXCEPT !.cell[p].hidden = TRUE] EXCEPT !.slot[p].hidden = TRUE]
    BY <1>2, <1>4, <1>7 DEF hideProducer
  <2>2. /\ adv \in StoreType /\ adv.cell = [base.cell EXCEPT ![p].generation = current(base, p) + 1]
        /\ adv.head[p].generation = IF registered(base, p) THEN current(base, p) + 1 ELSE base.head[p].generation
    BY <1>0, <1>4, AdvanceFields
  <2>3. registered(base, p)
    BY <1>2, <1>4 DEF registered
  <2>4. /\ current(base, p) \in Nat /\ current(base, p) >= cell[p].generation /\ cell[p].generation \in Nat
        /\ current(base, p) >= head[p].generation /\ head[p].generation \in Nat
    <3>1. /\ current(base, p) \in Nat /\ stamp(base, p) \in Nat /\ current(base, p) >= stamp(base, p)
          /\ current(base, p) >= base.cell[p].generation /\ base.cell[p].generation \in Nat
          /\ stamp(base, p) >= base.head[p].generation /\ base.head[p].generation \in Nat
      BY <1>0, <1>4, CurrentFacts
    <3>. QED BY <1>4, <3>1
  <2>5. adv.cell[p].generation = g /\ adv.head[p].generation = g /\ adv.cell[p] \in CellType
    <3>1. base.cell \in [Id -> CellType] /\ adv.cell \in [Id -> CellType]
      BY <1>4, <2>2 DEF StoreType
    <3> HIDE DEF adv
    <3>. QED BY <1>0, <2>2, <2>3, <3>1 DEF CellType
  <2> HIDE DEF adv
  <2>6. st.head = adv.head /\ st.cell[p] = [adv.cell[p] EXCEPT !.hidden = TRUE]
    <3>1. p \in DOMAIN adv.cell /\ adv \in StoreType
      BY <1>0, <2>2 DEF StoreType, adv
    <3>. QED BY <1>3, <2>1, <3>1 DEF StoreType
  <2>7. st.cell[p].generation = g /\ st.head[p].generation = g
    BY <2>5, <2>6 DEF CellType
  <2> HIDE DEF g
  <2>8. g \in Nat /\ g >= cell[p].generation /\ g >= head[p].generation
    BY <2>4 DEF g
  <2>. QED BY <2>7, <2>8 DEF st
<1>. QED BY <1>6, <1>7

LEMMA CaptureReplacement ==
  ASSUME StoreInv, StoreInv', ReadInv, ReadInv', CaptureInv, NEW p \in Emitter, NEW next \in Outputs[p],
         NEW entries \in Seq(EntryType), OnePlace(p, entries), call[p].pc = "commit",
         \A i \in DOMAIN entries : \A j \in DOMAIN slot[p].entries :
             entries[i].id = slot[p].entries[j].id => entries[i].generation = slot[p].entries[j].generation,
         commitReplacement(p, next, entries), Return(p)
  PROVE  CaptureInv'
<1> DEFINE S == Ids(slot[p].entries) \cup Ids(entries) \cup Covered(p, next)
           R == expandRegion(Now, S)
           direct == changedTargets(slot[p].entries, entries) \cup Covered(p, next)
           st == replaced(p, next, entries, R)
<1>0. /\ p \in Id /\ call \in [Emitter -> CallType] /\ GoodStore(Now) /\ Consistent(Now)
      /\ Shown(Now, Alive(Now)) /\ Now \in StoreType /\ Mirrored(Now)
  BY EmitterFacts DEF StoreInv, TypeOK, GoodStore, Consistent
<1>1. AllLocked /\ Prepares(Now, st, R) /\ Now' = reachability(st, Now, R, direct)
  BY <1>0, ReplaceStep
<1>2. R \in SUBSET Id
  BY <1>1 DEF Prepares
<1>3. Ids(slot[p].entries) \subseteq R /\ Ids(entries) \subseteq R
  <2> HIDE DEF S
  <2>1. \A id \in Id : id \in S => id \in R
    BY DEF expandRegion
  <2>2. Ids(slot[p].entries) \subseteq Id /\ Ids(entries) \subseteq Id
    <3>1. slot[p].entries \in Seq(EntryType)
      BY <1>0 DEF Consistent, StoreType, SlotType, Now
    <3>2. \A i \in DOMAIN slot[p].entries : slot[p].entries[i] \in EntryType
      BY <3>1
    <3>3. \A i \in DOMAIN entries : entries[i] \in EntryType
      OBVIOUS
    <3>. QED BY <3>2, <3>3 DEF Ids, EntryType
  <2>. QED BY <2>1, <2>2 DEF S
<1> HIDE DEF R
<1>4. Far(Now, st, R)
  BY <1>0, <1>2, <1>3, ReplaceFar
<1>5. /\ \A q \in Id : q # p => st.slot[q] = slot[q] /\ st.cell[q] = cell[q] /\ st.head[q] = head[q]
      /\ st.slot[p].published /\ st.slot[p].entries = entries /\ st.cell[p].static = cell[p].static
      /\ st.head[p].selected = head[p].selected /\ st.head[p].position = head[p].position
  BY <1>0, ReplacedFields
<1>6. /\ st.head[p].generation >= head[p].generation /\ st.cell[p].generation >= cell[p].generation
      /\ \/ st.head[p].generation >= st.cell[p].generation
         \/ st.cell[p].generation = cell[p].generation
  BY <1>0, ReplacedStamps
<1>7. st \in StoreType
  BY <1>1 DEF Prepares, Consistent
<1> HIDE DEF st, direct
<1>8. \A x \in Id : /\ cell[x].generation \in Nat /\ head[x].generation \in Nat
                    /\ st.cell[x].generation \in Nat /\ st.head[x].generation \in Nat
  BY <1>0, <1>7, CurrentFacts, NowFields
<1>9. KeepsStamps(Now, st)
  <2> SUFFICES ASSUME NEW s \in Id, NEW i \in DOMAIN slot[s].entries, i \in DOMAIN st.slot[s].entries,
                      st.slot[s].entries[i].id = slot[s].entries[i].id
               PROVE  st.slot[s].entries[i].generation >= slot[s].entries[i].generation
    BY NowFields DEF KeepsStamps
  <2>1. slot[s].entries[i].generation \in Nat
    BY <1>0, EntryFacts, NowFields
  <2>2. st.slot[s].entries[i].generation = slot[s].entries[i].generation
    <3>1. CASE s = p
      BY <1>5, <3>1
    <3>2. CASE s # p
      BY <1>5, <3>2
    <3>. QED BY <3>1, <3>2
  <2>. QED BY <2>1, <2>2
<1>10. \A q \in Emitter : Follows(Now, st, q)
  <2> SUFFICES ASSUME NEW q \in Emitter PROVE Follows(Now, st, q)
    OBVIOUS
  <2>1. q \in Id
    BY EmitterFacts
  <2>2. CASE q = p
    BY <1>5, <1>6, <2>2, NowFields DEF Follows
  <2>3. CASE q # p
    BY <1>5, <1>8, <2>1, <2>3, NowFields DEF Follows
  <2>. QED BY <2>2, <2>3
<1>11. \A q \in Emitter : /\ st.slot[q].published => registered(Now, q)
                          /\ slot[q].published => st.slot[q].published
  <2>1. call[p] # Idle
    BY IdleType
  <2>. QED BY <1>5, <2>1, EmitterFacts, NowFields DEF registered
<1>12. ASSUME NEW x \in Id, st.cell[x].static # None
       PROVE  st.cell[x].generation >= 1
  <2>1. cell[x].static # None => cell[x].generation >= 1
    BY NowFields DEF CaptureInv, Dated
  <2>2. CASE x = p
    BY <1>5, <1>6, <1>8, <1>12, <2>1, <2>2
  <2>3. CASE x # p
    BY <1>5, <1>12, <2>1, <2>3
  <2>. QED BY <2>2, <2>3
<1>13. call'[p] = Idle /\ \A q \in Emitter : q # p => call'[q] = call[q]
  BY <1>0 DEF Return
<1>14. ASSUME NEW q \in Emitter, q # p PROVE Undisturbed(Now, st, R, q)
  <2>1. q \in Id
    BY EmitterFacts
  <2>2. ASSUME q \notin R, NEW s \in Id
        PROVE  st.slot[s].entries = slot[s].entries \/ q \notin Ids(slot[s].entries)
    BY <1>3, <1>5, <2>2
  <2>. QED BY <1>5, <1>14, <2>1, <2>2, NowFields DEF Undisturbed
<1>15. \A q \in Emitter : call'[q] = Idle \/ (call'[q] = call[q] /\ Undisturbed(Now, st, R, q))
  BY <1>13, <1>14
<1>. QED BY <1>1, <1>4, <1>9, <1>10, <1>11, <1>12, <1>15, RegionCapture

LEMMA CaptureCommit ==
  ASSUME StoreInv, StoreInv', ReadInv, ReadInv', CaptureInv, NEW p \in Emitter, NEW next \in Outputs[p],
         NEW usable, Commit(p, next, usable)
  PROVE  CaptureInv'
<1>1. PICK entries : entries = prepareEmission(p, next, usable)
  OBVIOUS
<1>2. /\ entries \in Seq(EntryType) /\ OnePlace(p, entries) /\ call[p].pc = "commit"
      /\ \A i \in DOMAIN entries : \A j \in DOMAIN slot[p].entries :
            entries[i].id = slot[p].entries[j].id => entries[i].generation = slot[p].entries[j].generation
  BY <1>1, Prepared DEF StoreInv, Commit
<1>3. CASE Unchanged(p, next, entries) /\ Return(p) /\ UNCHANGED <<store, outbox>>
  <2>1. Now' = Now
    BY <1>3 DEF store, Now
  <2>2. ~Raced(p)
    BY <1>3 DEF Unchanged, Raced
  <2>. QED BY <1>3, <2>1, <2>2, CaptureReturns
<1>4. CASE Stable(p, next, entries) /\ stampStable(p, next, entries) /\ UNCHANGED store
  BY <1>2, <1>4, CaptureStamp
<1>5. CASE commitReplacement(p, next, entries) /\ Return(p)
  BY <1>2, <1>5, CaptureReplacement
<1>. QED BY <1>1, <1>3, <1>4, <1>5 DEF Commit

LEMMA CaptureInit == Init => CaptureInv
<1> SUFFICES ASSUME Init PROVE CaptureInv
  OBVIOUS
<1>1. /\ call = [p \in Emitter |-> Idle] /\ \A id \in Id : ~slot[id].published
      /\ \A id \in Id : cell[id].static # None => cell[id].generation >= 1
  BY DEF Init
<1>2. \A p \in Emitter : call[p] = Idle /\ call[p].pc = "idle"
  BY <1>1, IdleType
<1>. QED BY <1>1, <1>2, EmitterFacts, NowFields
         DEF CaptureInv, Dated, RegisteredInv, registered, PendingInv, ValidInv

LEMMA CaptureNext ==
  ASSUME StoreInv, ReadInv, CaptureInv, [Next]_vars
  PROVE  CaptureInv'
<1>0. StoreInv' /\ ReadInv'
  BY NextStore, ReadNext
<1>1. ASSUME Now' = Now, call' = call, slot' = slot, cell' = cell, head' = head PROVE CaptureInv'
  BY <1>1 DEF CaptureInv, RegisteredInv, PendingInv, ValidInv, Raced, registered, object
<1>2. CASE UNCHANGED vars
  <2>1. Now' = Now /\ call' = call /\ slot' = slot /\ cell' = cell /\ head' = head
    BY <1>2 DEF vars, Now
  <2>. QED BY <1>1, <2>1
<1>3. ASSUME NEW id \in Writable, DeleteObject(id) \/ \E c \in Content : AddObject(id, c) PROVE CaptureInv'
  BY <1>0, <1>3, CaptureWrites
<1>4. ASSUME NEW p \in Emitter, Reconcile(p) PROVE CaptureInv'
  BY <1>0, <1>4, CaptureReconcile
<1>5. ASSUME NEW p \in Emitter, Snapshot(p) PROVE CaptureInv'
  BY <1>5, CaptureSnapshot
<1>6. ASSUME NEW p \in Emitter, Reject(p) PROVE CaptureInv'
  <2>1. Now' = Now /\ Return(p) /\ ~Raced(p)
    BY <1>6 DEF Reject, store, Now, Raced
  <2>. QED BY <2>1, CaptureReturns
<1>7. ASSUME NEW p \in Emitter, commitStable(p) PROVE CaptureInv'
  BY <1>0, <1>7, CaptureStable
<1>8. ASSUME NEW p \in Emitter, NEW next \in Outputs[p], NEW usable, Commit(p, next, usable) PROVE CaptureInv'
  BY <1>0, <1>8, CaptureCommit
<1>9. ASSUME NEW g \in Goroutine, Dispatch(g) PROVE CaptureInv'
  <2>1. Now' = Now /\ call' = call /\ slot' = slot /\ cell' = cell /\ head' = head
    BY <1>9 DEF Dispatch, store, Now
  <2>. QED BY <1>1, <2>1
<1>. QED BY <1>2, <1>3, <1>4, <1>5, <1>6, <1>7, <1>8, <1>9 DEF Next

(* A reconciliation whose capture still carries the stamp of its           *)
(* declaration captured what is in force, and its output may be accepted,  *)
(* unless it is the first capture on a lagging head between the stamping   *)
(* and the storing of a stable record (commitStable).  Whatever else       *)
(* changes the declaration, a replacement anywhere upstream, a withdrawal, *)
(* a change of visibility or a direct write, moves the stamp with it.      *)
THEOREM StaleNeedsTheWindow == Spec => []StaleOnlyInWindow
<1>1. CaptureInv => StaleOnlyInWindow
  BY DEF CaptureInv, ValidInv, StaleOnlyInWindow, Stale
<1>. QED BY <1>1, StoreAlways, ReadInit, ReadNext, CaptureInit, CaptureNext, PTL DEF Spec
=============================================================================
