---------------------------- MODULE CacheProofs ----------------------------
(***************************************************************************)
(* pkg/source/cache for any number of users, payloads, attempts, calls and *)
(* sessions, any ages and backoffs, and a process that may die and a clock *)
(* that may be set back at any moment.                                     *)
(***************************************************************************)
EXTENDS Cache, FiniteSetTheorems, TLAPS

-----------------------------------------------------------------------------
(* internal/keylock on its own, for any goroutines and any keys.           *)

LEMMA TypeInit == Init => TypeOK
  BY DEF Init, TypeOK, NoChannel

LEMMA TypeStep == TypeOK /\ [Next]_vars => TypeOK'
<1> SUFFICES ASSUME TypeOK, [Next]_vars PROVE TypeOK'
  OBVIOUS
<1> USE DEF TypeOK, NoChannel
<1>1. ASSUME NEW p \in Proc, NEW k \in Key, Lookup(p, k) PROVE TypeOK'
  BY <1>1 DEF Lookup
<1>2. ASSUME NEW p \in Proc, Step(p) PROVE TypeOK'
  <2>1. CASE Check(p)
    BY <2>1 DEF Check
  <2>2. CASE Grant(p)
    BY <2>2 DEF Grant, NoChannel
  <2>3. CASE Abandon(p)
    BY <2>3 DEF Abandon
  <2>4. CASE Release(p)
    BY <2>4 DEF Release, NoChannel
  <2>5. CASE ReleaseRefused(p)
    BY <2>5 DEF ReleaseRefused
  <2>. QED BY <1>2, <2>1, <2>2, <2>3, <2>4, <2>5 DEF Step
<1>3. ASSUME NEW p \in Proc, CancelContext(p) PROVE TypeOK'
  BY <1>3 DEF CancelContext
<1>4. CASE UNCHANGED vars
  BY <1>4 DEF vars
<1>. QED BY <1>1, <1>2, <1>3, <1>4 DEF Next

(* Acquire and the release funcs keep the lock map well typed.             *)
THEOREM TypeCorrect == Spec => []TypeOK
  BY TypeInit, TypeStep, PTL DEF Spec
-----------------------------------------------------------------------------
(* Mutual exclusion alone is not inductive: Grant adds a holder, and only  *)
(* the token in a held key's channel keeps it from adding a second one.    *)
LockInv == TypeOK /\ MutualExclusion /\ NoLeakedLock

LEMMA LockStep == LockInv /\ [Next]_vars => LockInv'
<1> SUFFICES ASSUME LockInv, [Next]_vars PROVE MutualExclusion' /\ NoLeakedLock'
  BY TypeStep DEF LockInv
<1> USE DEF LockInv, TypeOK, MutualExclusion, NoLeakedLock
<1>1. ASSUME NEW p \in Proc, NEW k \in Key, Lookup(p, k)
      PROVE MutualExclusion' /\ NoLeakedLock'
  BY <1>1 DEF Lookup, NoChannel
<1>2. ASSUME NEW p \in Proc, Step(p) PROVE MutualExclusion' /\ NoLeakedLock'
  <2>1. CASE Check(p)
    BY <2>1 DEF Check
  <2>2. CASE Grant(p)
    BY <2>2 DEF Grant, NoChannel
  <2>3. CASE Abandon(p)
    BY <2>3 DEF Abandon
  <2>4. CASE Release(p)
    BY <2>4 DEF Release, NoChannel
  <2>5. CASE ReleaseRefused(p)
    BY <2>5 DEF ReleaseRefused
  <2>. QED BY <1>2, <2>1, <2>2, <2>3, <2>4, <2>5 DEF Step
<1>3. ASSUME NEW p \in Proc, CancelContext(p) PROVE MutualExclusion' /\ NoLeakedLock'
  BY <1>3 DEF CancelContext
<1>4. CASE UNCHANGED vars
  BY <1>4 DEF vars
<1>. QED BY <1>1, <1>2, <1>3, <1>4 DEF Next

LEMMA LockInvariant == Spec => []LockInv
<1>1. Init => LockInv
  BY TypeInit DEF Init, LockInv, MutualExclusion, NoLeakedLock, NoChannel
<1>. QED BY <1>1, LockStep, PTL DEF Spec

(* For any goroutines, keys and cancellations, at most one goroutine is    *)
(* inside a key's critical section (keylock.go: Acquire).                  *)
THEOREM Exclusive == Spec => []MutualExclusion
<1>1. LockInv => MutualExclusion
  BY DEF LockInv
<1>. QED BY <1>1, LockInvariant, PTL

(* No call, granted or refused, leaves a token that nobody will take back  *)
(* (keylock.go: the select of Acquire and its two release funcs).          *)
THEOREM NothingLeaked == Spec => []NoLeakedLock
<1>1. LockInv => NoLeakedLock
  BY DEF LockInv
<1>. QED BY <1>1, LockInvariant, PTL
-----------------------------------------------------------------------------
(* The cache.  First invariant: who shares the owner, and who holds the    *)
(* key's lock.                                                             *)

Sharers == {u \in Proc : session[u] \in Sharing}
Working == {"decide", "produce", "push", "tag"}

OwnerType ==
    /\ phase \in {"none", "opening", "open"} /\ refs \in Nat
    /\ flock \in {"free", "ours", "rival"}
    /\ session \in [Proc -> {"out", "opening", "waiting", "in", "refused"}]
    /\ stage \in [Proc -> {"idle", "lock", "backoff"} \cup Working]

\* One user at most opens; those who wait, or are in, share what it registered.
ShareInv ==
    /\ \A u \in Proc : /\ session[u] = "in" => phase = "open"
                       /\ session[u] = "opening" => phase = "opening"
                       /\ session[u] = "waiting" => phase # "none"
    /\ \A u, v \in Proc : session[u] = "opening" /\ session[v] = "opening" => u = v
    /\ flock = "ours" <=> phase = "open"

CountInv == refs = Cardinality(Sharers)

\* Where a call is in Acquire and where it is in the key's lock go together.
StageInv ==
    \A u \in Proc : /\ stage[u] # "idle" => session[u] = "in"
                    /\ stage[u] \in {"idle", "backoff"} => pc[u] = "idle"
                    /\ stage[u] = "lock" => pc[u] \in {"checking", "selecting", "refused"}
                    /\ stage[u] \in Working <=> pc[u] = "holding"
                    /\ pc[u] # "idle" => want[u] = ArchiveKey

OwnInv == OwnerType /\ ShareInv /\ CountInv /\ StageInv /\ LockInv
-----------------------------------------------------------------------------
LEMMA SharersFinite == IsFiniteSet(Sharers) /\ Cardinality(Sharers) \in Nat
<1>1. Sharers \in SUBSET Proc
  BY DEF Sharers
<1>2. IsFiniteSet(Sharers)
  BY <1>1, ProcAssumption, FS_Subset
<1>. QED BY <1>2, FS_CardinalityType

LEMMA SharerAdded ==
  ASSUME OwnInv, NEW u \in Proc, u \notin Sharers, Sharers' = Sharers \cup {u}, refs' = refs + 1
  PROVE  CountInv'
  BY SharersFinite, FS_AddElement DEF OwnInv, CountInv

LEMMA SharerGone ==
  ASSUME OwnInv, NEW u \in Proc, u \in Sharers, Sharers' = Sharers \ {u}, refs' = refs - 1
  PROVE  CountInv' /\ refs' \in Nat
<1>1. Cardinality(Sharers \ {u}) = Cardinality(Sharers) - 1
  BY SharersFinite, FS_RemoveElement
<1>2. IsFiniteSet(Sharers \ {u})
  BY SharersFinite, FS_RemoveElement
<1>3. Cardinality(Sharers \ {u}) \in Nat
  BY <1>2, FS_CardinalityType
<1>. QED BY <1>1, <1>3 DEF OwnInv, CountInv

\* The last share is the only one.
LEMMA LastShare ==
  ASSUME OwnInv, refs = 1, NEW u \in Sharers, NEW v \in Sharers
  PROVE  u = v
<1>1. PICK w : Sharers = {w}
  <2>0. IsFiniteSet(Sharers \ {u}) /\ Cardinality(Sharers \ {u}) = Cardinality(Sharers) - 1
    BY SharersFinite, FS_RemoveElement
  <2>1. IsFiniteSet(Sharers \ {u}) /\ Cardinality(Sharers \ {u}) = 0
    BY <2>0 DEF OwnInv, CountInv
  <2>2. Sharers \ {u} = {}
    BY <2>1, FS_EmptySet
  <2>3. Sharers = {u}
    BY <2>2
  <2>. QED BY <2>3
<1>. QED BY <1>1

\* A step that leaves the lock of the key alone.
LEMMA LockSame ==
  ASSUME LockInv, UNCHANGED keyVars, done' \subseteq Proc
  PROVE  LockInv'
  BY DEF LockInv, keyVars, TypeOK, MutualExclusion, NoLeakedLock

LEMMA ForgottenLock ==
  ASSUME LockInv, \A u \in Proc : pc'[u] = "idle", pc' \in [Proc -> {"idle"}], want' = want,
         locks' = [k \in Key |-> NoChannel], done' \subseteq Proc
  PROVE  LockInv'
  BY DEF LockInv, TypeOK, MutualExclusion, NoLeakedLock, NoChannel
-----------------------------------------------------------------------------
(* The owner's steps.                                                      *)

LEMMA OwnNew ==
  ASSUME OwnInv, NEW u \in Proc, New(u), UNCHANGED <<keyVars, stage>>
  PROVE  OwnInv'
<1> USE DEF OwnInv, OwnerType, ShareInv, New
<1>1. LockInv'
  BY LockSame DEF LockInv, TypeOK
<1>2. CountInv'
  <2>1. u \notin Sharers /\ Sharers' = Sharers \cup {u}
    BY DEF Sharers, Sharing
  <2>. QED BY <2>1, SharerAdded
<1>3. OwnerType' /\ ShareInv'
  OBVIOUS
<1>4. StageInv'
  BY DEF StageInv, keyVars
<1>. QED BY <1>1, <1>2, <1>3, <1>4

LEMMA OwnOpen ==
  ASSUME OwnInv, NEW u \in Proc, Open(u) \/ Opened(u) \/ Refused(u), UNCHANGED <<keyVars, stage>>
  PROVE  OwnInv'
<1> USE DEF OwnInv, OwnerType, ShareInv, Open, Opened, Refused, Leave
<1>1. LockInv'
  BY LockSame DEF LockInv, TypeOK
<1>2. CountInv'
  <2>1. Sharers' = Sharers /\ refs' = refs
    BY DEF Sharers, Sharing
  <2>. QED BY <2>1 DEF CountInv
<1>3. OwnerType' /\ ShareInv'
  OBVIOUS
<1>4. StageInv'
  BY DEF StageInv, keyVars, Working
<1>. QED BY <1>1, <1>2, <1>3, <1>4

LEMMA OwnOpenFails ==
  ASSUME OwnInv, NEW u \in Proc, OpenFails(u), UNCHANGED <<keyVars, stage>>
  PROVE  OwnInv'
<1> USE DEF OwnInv, OwnerType, ShareInv, OpenFails
<1>1. LockInv'
  BY LockSame DEF LockInv, TypeOK
<1>2. session' \in [Proc -> {"out", "refused"}]
  OBVIOUS
<1>3. CountInv'
  <2>1. Sharers' = {} /\ refs' = 0
    BY <1>2 DEF Sharers, Sharing
  <2>. QED BY <2>1, FS_EmptySet DEF CountInv
<1>4. OwnerType' /\ ShareInv'
  BY <1>2
<1>5. StageInv'
  BY DEF StageInv, keyVars, Working
<1>. QED BY <1>1, <1>3, <1>4, <1>5

LEMMA OwnWaitCancelled ==
  ASSUME OwnInv, NEW u \in Proc, WaitCancelled(u), UNCHANGED <<keyVars, stage>>
  PROVE  OwnInv'
<1> USE DEF OwnInv, OwnerType, ShareInv, WaitCancelled, Leave
<1>1. LockInv'
  BY LockSame DEF LockInv, TypeOK
<1>2. CountInv' /\ refs' \in Nat
  <2>1. u \in Sharers /\ Sharers' = Sharers \ {u}
    BY DEF Sharers, Sharing
  <2>. QED BY <2>1, SharerGone
<1>3. OwnerType' /\ ShareInv'
  BY <1>2
<1>4. StageInv'
  BY DEF StageInv, keyVars, Working
<1>. QED BY <1>1, <1>2, <1>3, <1>4

LEMMA OwnClose ==
  ASSUME OwnInv, NEW u \in Proc, Close(u), stage[u] = "idle", UNCHANGED stage,
         IF refs = 1 THEN locks' = [k \in Key |-> NoChannel] /\ UNCHANGED <<pc, want>>
         ELSE UNCHANGED keyVars
  PROVE  OwnInv'
<1> USE DEF OwnInv, OwnerType, Close, Leave
<1>1. u \in Sharers /\ Sharers' = Sharers \ {u}
  BY DEF Sharers, Sharing
<1>2. CountInv' /\ refs' \in Nat
  BY <1>1, SharerGone
<1>3. refs = 1 => \A v \in Proc : v # u => session[v] \in {"out", "refused"}
  BY <1>1, LastShare DEF Sharers, Sharing
<1>4. LockInv'
  <2>1. CASE refs = 1
    <3>1. \A v \in Proc : stage[v] = "idle" /\ pc[v] = "idle"
      BY <1>3, <2>1 DEF StageInv
    <3>. QED BY <2>1, <3>1, ForgottenLock DEF LockInv, TypeOK
  <2>2. CASE refs # 1
    BY <2>2, LockSame DEF LockInv, TypeOK
  <2>. QED BY <2>1, <2>2
<1>5. OwnerType'
  BY <1>2
<1>6. ShareInv'
  BY <1>3 DEF ShareInv
<1>7. StageInv'
  BY DEF StageInv, keyVars, Working
<1>. QED BY <1>2, <1>4, <1>5, <1>6, <1>7

LEMMA OwnCrash ==
  ASSUME OwnInv, Crash
  PROVE  OwnInv'
<1> USE DEF OwnInv, OwnerType, ShareInv, Crash
<1>1. LockInv'
  BY ForgottenLock
<1>2. CountInv'
  <2>1. Sharers' = {} /\ refs' = 0
    BY DEF Sharers, Sharing
  <2>. QED BY <2>1, FS_EmptySet DEF CountInv
<1>3. OwnerType' /\ ShareInv'
  OBVIOUS
<1>4. StageInv'
  BY DEF StageInv, Working
<1>. QED BY <1>1, <1>2, <1>3, <1>4

\* Steps of another process, and steps that only the clock or a context takes.
LEMMA OwnElsewhere ==
  ASSUME OwnInv, UNCHANGED <<keyVars, stage, phase, refs, session>>, done' \subseteq Proc,
         \/ flock' = flock
         \/ flock \in {"free", "rival"} /\ flock' \in {"free", "rival"}
  PROVE  OwnInv'
<1>1. LockInv'
  BY LockSame DEF OwnInv
<1>2. CountInv' /\ Sharers' = Sharers
  BY DEF OwnInv, CountInv, Sharers
<1>. QED BY <1>1, <1>2 DEF OwnInv, OwnerType, ShareInv, StageInv, keyVars
-----------------------------------------------------------------------------
(* The steps of a call of Acquire, as the lock and the stages see them.    *)

\* Steps of the lock itself keep LockInv.
LEMMA LockMoves ==
  ASSUME OwnInv, NEW u \in Proc,
         \/ \E k \in Key : Lookup(u, k)
         \/ Check(u) \/ Abandon(u) \/ Grant(u) \/ Release(u) \/ ReleaseRefused(u)
  PROVE  LockInv'
<1>1. Next
  BY DEF Next, Step
<1>. QED BY <1>1, LockStep DEF OwnInv

LEMMA OwnObserve ==
  ASSUME OwnInv, NEW u \in Proc, Observe(u), UNCHANGED ownerVars, session[u] = "in"
  PROVE  OwnInv'
<1>1. Lookup(u, ArchiveKey) /\ ArchiveKey \in Key
  BY KeyAssumption DEF Observe
<1>2. LockInv'
  BY <1>1, LockMoves
<1>3. OwnerType' /\ ShareInv' /\ CountInv'
  BY DEF OwnInv, OwnerType, ShareInv, CountInv, Sharers, ownerVars, Observe
<1>4. StageInv'
  BY <1>1 DEF OwnInv, OwnerType, LockInv, TypeOK, StageInv, Lookup, Observe, ownerVars, Working
<1>. QED BY <1>2, <1>3, <1>4 DEF OwnInv

LEMMA OwnQueue ==
  ASSUME OwnInv, NEW u \in Proc, Check(u) \/ Abandon(u), UNCHANGED <<ownerVars, stage>>,
         stage[u] = "lock"
  PROVE  OwnInv'
<1>1. LockInv'
  BY LockMoves
<1>2. OwnerType' /\ ShareInv' /\ CountInv'
  BY DEF OwnInv, OwnerType, ShareInv, CountInv, Sharers, ownerVars
<1>3. StageInv'
  BY DEF OwnInv, OwnerType, LockInv, TypeOK, StageInv, Check, Abandon, ownerVars, Working
<1>. QED BY <1>1, <1>2, <1>3 DEF OwnInv

LEMMA OwnGranted ==
  ASSUME OwnInv, NEW u \in Proc, Grant(u), UNCHANGED ownerVars, stage[u] = "lock",
         stage' = [stage EXCEPT ![u] = "decide"]
  PROVE  OwnInv'
<1>1. LockInv'
  BY LockMoves
<1>2. OwnerType' /\ ShareInv' /\ CountInv'
  BY DEF OwnInv, OwnerType, ShareInv, CountInv, Sharers, ownerVars, Working
<1>3. StageInv'
  BY DEF OwnInv, OwnerType, LockInv, TypeOK, StageInv, Grant, ownerVars, Working
<1>. QED BY <1>1, <1>2, <1>3 DEF OwnInv

\* A call that leaves the lock ends, or waits for its next attempt.
LEMMA OwnLeaves ==
  ASSUME OwnInv, NEW u \in Proc, Release(u) \/ ReleaseRefused(u), UNCHANGED ownerVars,
         NEW s \in {"idle", "backoff"}, stage' = [stage EXCEPT ![u] = s]
  PROVE  OwnInv'
<1>1. LockInv'
  BY LockMoves
<1>2. OwnerType' /\ ShareInv' /\ CountInv'
  BY DEF OwnInv, OwnerType, ShareInv, CountInv, Sharers, ownerVars, Working
<1>3. StageInv'
  BY DEF OwnInv, OwnerType, LockInv, TypeOK, StageInv, Release, ReleaseRefused, ownerVars, Working
<1>. QED BY <1>1, <1>2, <1>3 DEF OwnInv

\* A call that holds the lock goes on, or one that waits for its next attempt gives up.
LEMMA OwnGoesOn ==
  ASSUME OwnInv, NEW u \in Proc, UNCHANGED <<vars, ownerVars>>,
         NEW s, stage' = [stage EXCEPT ![u] = s],
         \/ stage[u] \in Working /\ s \in Working
         \/ stage[u] = "backoff" /\ s = "idle"
  PROVE  OwnInv'
<1>1. LockInv'
  BY LockSame DEF OwnInv, LockInv, TypeOK, vars, keyVars
<1>2. OwnerType' /\ ShareInv' /\ CountInv'
  BY DEF OwnInv, OwnerType, ShareInv, CountInv, Sharers, ownerVars, Working
<1>3. StageInv'
  BY DEF OwnInv, OwnerType, LockInv, TypeOK, StageInv, vars, ownerVars, Working
<1>. QED BY <1>1, <1>2, <1>3 DEF OwnInv

LEMMA OwnUser ==
  ASSUME OwnInv, NEW u \in Proc, User(u)
  PROVE  OwnInv'
<1>1. CASE NewCache(u)
  BY <1>1, OwnNew DEF NewCache, callVars
<1>2. CASE Opening(u)
  BY <1>2, OwnOpen, OwnOpenFails, OwnWaitCancelled DEF Opening, OpenStore, Inert, callVars
<1>3. CASE CloseCache(u)
  BY <1>3, OwnClose DEF CloseCache, Forgotten, callVars
<1>4. CASE Cancel(u)
  BY <1>4, OwnElsewhere DEF Cancel, CancelContext, callVars, ownerVars, keyVars, OwnInv, LockInv, TypeOK
<1>5. CASE Acquire(u)
  BY <1>5, OwnObserve DEF Acquire
<1>6. CASE Lookups(u)
  <2>1. CASE Retry(u)
    BY <2>1, OwnObserve DEF Retry, OwnInv, StageInv
  <2>2. CASE BackoffCancelled(u)
    BY <2>2, OwnGoesOn DEF BackoffCancelled, Over
  <2>3. CASE Queue(u)
    BY <2>3, OwnQueue DEF Queue, callVars
  <2>4. CASE Granted(u)
    BY <2>4, OwnGranted DEF Granted
  <2>5. CASE Denied(u)
    BY <2>5, OwnLeaves DEF Denied, Over
  <2>6. CASE \/ Share(u) \/ LoadFails(u) \/ Replay(u) \/ ReplayFails(u) \/ Reuse(u) \/ ReuseFails(u)
             \/ ProduceRefused(u)
    BY <2>6, OwnLeaves DEF Share, LoadFails, Replay, ReplayFails, Reuse, ReuseFails, ProduceRefused, Over, Deciding
  <2>7. CASE Produce(u)
    BY <2>7, OwnGoesOn DEF Produce, Deciding, Working
  <2>8. CASE publish(u)
    BY <2>8, OwnGoesOn DEF publish, Working
  <2>9. CASE tagPayload(u)
    BY <2>9, OwnLeaves DEF tagPayload, Over
  <2>. QED BY <1>6, <2>1, <2>2, <2>3, <2>4, <2>5, <2>6, <2>7, <2>8, <2>9 DEF Lookups
<1>7. CASE Producer(u)
  <2>1. CASE (\E b \in Blob : Produced(u, b)) \/ Unchanged(u)
    BY <2>1, OwnGoesOn DEF Produced, Unchanged, Working
  <2>2. ASSUME NEW class \in Class, failed(u, class) PROVE OwnInv'
    BY <2>2, OwnLeaves DEF failed, FailQuietly, FailRetryably, publishOutcome, FailFinally, Over
  <2>. QED BY <1>7, <2>1, <2>2 DEF Producer
<1>. QED BY <1>1, <1>2, <1>3, <1>4, <1>5, <1>6, <1>7 DEF User

LEMMA OwnStep == OwnInv /\ [CacheNext]_cacheVars => OwnInv'
<1> SUFFICES ASSUME OwnInv, [CacheNext]_cacheVars PROVE OwnInv'
  OBVIOUS
<1>1. CASE \E u \in Proc : User(u)
  BY <1>1, OwnUser
<1>2. CASE Crash
  BY <1>2, OwnCrash
<1>3. CASE Rival \/ Tick \/ Rollback \/ UNCHANGED cacheVars
  BY <1>3, OwnElsewhere DEF Rival, SweepLock, SweepUnlock, Sweep, Tick, Rollback, cacheVars, vars,
     keyVars, ownerVars, callVars, OwnInv, LockInv, TypeOK
<1>. QED BY <1>1, <1>2, <1>3 DEF CacheNext

LEMMA OwnInit == CacheInit => OwnInv
<1> SUFFICES ASSUME CacheInit PROVE OwnInv
  OBVIOUS
<1>1. Sharers = {}
  BY DEF CacheInit, OwnerInit, Sharers, Sharing
<1>2. CountInv
  BY <1>1, FS_EmptySet DEF CountInv, CacheInit, OwnerInit
<1>3. LockInv
  BY TypeInit DEF CacheInit, Init, LockInv, MutualExclusion, NoLeakedLock, NoChannel
<1>4. OwnerType /\ ShareInv /\ StageInv
  BY DEF CacheInit, Init, OwnerInit, OwnerType, ShareInv, StageInv, Working
<1>. QED BY <1>2, <1>3, <1>4 DEF OwnInv

LEMMA OwnInvariance == CacheSpec => []OwnInv
  BY OwnInit, OwnStep, PTL DEF CacheSpec

(* The lock file and the registered owner of a cache directory never       *)
(* disagree, whoever opens, waits, is cancelled, closes or dies, and the   *)
(* count of its shares is exact (owner.go: refs).                          *)
THEOREM OwnerShared == CacheSpec => []SharesHoldTheLock
<1>1. OwnInv => SharesHoldTheLock
  BY DEF OwnInv, ShareInv, CountInv, Sharers, SharesHoldTheLock
<1>. QED BY <1>1, OwnInvariance, PTL

(* Acquire of the cache keeps the exclusion of its keylock, although the   *)
(* lock map is dropped with its owner and by a crash (acquire.go: locks).  *)
THEOREM CacheExclusive == CacheSpec => [](MutualExclusion /\ NoLeakedLock)
<1>1. OwnInv => MutualExclusion /\ NoLeakedLock
  BY DEF OwnInv, LockInv
<1>. QED BY <1>1, OwnInvariance, PTL
-----------------------------------------------------------------------------
(* The backoff schedule.  A set that holds 0 and every successor holds Nat: *)
(* what a recursive function computes is proved with the set of its good    *)
(* arguments, and that it exists from its prefixes.                         *)

LEMMA NatSets ==
  ASSUME NEW S, 0 \in S, \A n \in Nat : n \in S => n + 1 \in S
  PROVE  Nat \subseteq S
<1> SUFFICES ASSUME Nat \ S # {} PROVE FALSE
  OBVIOUS
<1>1. PICK n \in Nat \ S : \A m \in Nat \ S : <<m, n>> \notin OpToRel(<, Nat)
  <2> DEFINE R == OpToRel(<, Nat)
             T == Nat \ S
  <2>1. IsWellFoundedOn(R, Nat) /\ T \subseteq Nat /\ T # {}
    BY NatLessThanWellFounded
  <2> HIDE DEF R, T
  <2>2. \E n \in T : \A m \in T : ~ (<<m, n>> \in R)
    BY <2>1, WFMin
  <2>. QED BY <2>2 DEF R, T
<1>2. \A m \in Nat \ S : ~(m < n)
  BY <1>1 DEF OpToRel
<1>3. n # 0 /\ n - 1 \in Nat /\ (n - 1) + 1 = n /\ n - 1 < n
  OBVIOUS
<1>4. n - 1 \in S
  BY <1>2, <1>3
<1>. QED BY <1>3, <1>4

FirstWait == IF MinWait < MaxWait THEN MinWait ELSE MaxWait
Doubled(d) == IF d >= MaxWait - d THEN MaxWait ELSE 2 * d
Prefix(g, n) == /\ g \in [0 .. n -> Nat] /\ g[0] = FirstWait
                /\ \A i \in 1 .. n : g[i] = Doubled(g[i - 1])

LEMMA PrefixExists == \A n \in Nat : \E g : Prefix(g, n)
<1> DEFINE S == {n \in Nat : \E g : Prefix(g, n)}
<1>1. 0 \in S
  <2>1. Prefix([i \in 0 .. 0 |-> FirstWait], 0)
    BY TimeAssumption DEF Prefix, FirstWait
  <2>. QED BY <2>1
<1>2. ASSUME NEW n \in Nat, n \in S PROVE n + 1 \in S
  <2>1. PICK g : Prefix(g, n)
    BY <1>2
  <2> DEFINE h == [i \in 0 .. n + 1 |-> IF i = n + 1 THEN Doubled(g[n]) ELSE g[i]]
  <2>2. Doubled(g[n]) \in Nat
    BY <2>1, TimeAssumption DEF Prefix, Doubled
  <2>3. h \in [0 .. n + 1 -> Nat]
    BY <2>1, <2>2 DEF Prefix
  <2>4. h[0] = FirstWait /\ \A i \in 1 .. n + 1 : h[i] = Doubled(h[i - 1])
    BY <2>1 DEF Prefix
  <2>5. Prefix(h, n + 1)
    BY <2>3, <2>4 DEF Prefix
  <2>. QED BY <2>5
<1> HIDE DEF S
<1>3. Nat \subseteq S
  BY <1>1, <1>2, NatSets
<1>. QED BY <1>3 DEF S

LEMMA PrefixUnique ==
  ASSUME NEW n \in Nat, NEW m \in Nat, n <= m, NEW g, NEW h, Prefix(g, n), Prefix(h, m)
  PROVE  g[n] = h[n]
<1> DEFINE S == {i \in Nat : i <= n => g[i] = h[i]}
<1>1. 0 \in S
  BY DEF Prefix
<1>2. ASSUME NEW i \in Nat, i \in S PROVE i + 1 \in S
  <2> SUFFICES ASSUME i + 1 <= n PROVE g[i + 1] = h[i + 1]
    OBVIOUS
  <2>1. g[i] = h[i] /\ i + 1 \in 1 .. n /\ i + 1 \in 1 .. m /\ (i + 1) - 1 = i
    BY <1>2
  <2>2. g[i + 1] = Doubled(g[i]) /\ h[i + 1] = Doubled(h[i])
    BY <2>1 DEF Prefix
  <2>. QED BY <2>1, <2>2
<1> HIDE DEF S
<1>3. n \in S
  BY <1>1, <1>2, NatSets
<1>. QED BY <1>3 DEF S

LEMMA BackoffDef ==
  /\ backoffSchedule \in [Nat -> Nat] /\ backoffSchedule[0] = FirstWait
  /\ \A n \in Nat : backoffSchedule[n + 1] = Doubled(backoffSchedule[n])
<1> DEFINE P(n) == CHOOSE g : Prefix(g, n)
           f == [n \in Nat |-> P(n)[n]]
<1>1. \A n \in Nat : Prefix(P(n), n)
  BY PrefixExists
<1> HIDE DEF P
<1>2. f[0] = FirstWait
  BY <1>1 DEF Prefix
<1>3. ASSUME NEW n \in Nat, n # 0 PROVE f[n] = Doubled(f[n - 1])
  <2>1. n - 1 \in Nat /\ n - 1 <= n /\ n \in 1 .. n
    BY <1>3
  <2>2. P(n - 1)[n - 1] = P(n)[n - 1]
    BY <2>1, <1>1, PrefixUnique
  <2>3. P(n)[n] = Doubled(P(n)[n - 1])
    BY <2>1, <1>1 DEF Prefix
  <2>. QED BY <2>1, <2>2, <2>3
<1>4. f \in [Nat -> Nat]
  BY <1>1 DEF Prefix
<1> HIDE DEF f
<1>5. f = [n \in Nat |-> IF n = 0 THEN FirstWait ELSE Doubled(f[n - 1])]
  BY <1>2, <1>3, <1>4
<1>6. backoffSchedule = [n \in Nat |-> IF n = 0 THEN FirstWait ELSE Doubled(backoffSchedule[n - 1])]
  BY <1>5 DEF backoffSchedule, FirstWait, Doubled
<1>7. backoffSchedule[0] = FirstWait
      /\ \A n \in Nat : backoffSchedule[n + 1] = Doubled(backoffSchedule[n])
  <2>1. \A n \in Nat : n + 1 \in Nat /\ n + 1 # 0 /\ (n + 1) - 1 = n
    OBVIOUS
  <2>. QED BY <1>6, <2>1
<1> DEFINE S == {n \in Nat : backoffSchedule[n] \in Nat}
<1>8. 0 \in S
  BY <1>7, TimeAssumption DEF FirstWait
<1>9. ASSUME NEW n \in Nat, n \in S PROVE n + 1 \in S
  <2>1. Doubled(backoffSchedule[n]) \in Nat
    BY <1>9, TimeAssumption DEF Doubled
  <2>. QED BY <2>1, <1>7
<1> HIDE DEF S
<1>10. Nat \subseteq S
  BY <1>8, <1>9, NatSets
<1>11. backoffSchedule \in [Nat -> Nat]
  BY <1>6, <1>10 DEF S
<1>. QED BY <1>7, <1>11

(* The backoff schedule of retries and of remembered failures never exceeds *)
(* its ceiling and never shrinks, for any two waits (retry.go).             *)
THEOREM BackoffBounded ==
  \A n \in Nat : /\ backoffSchedule[n] \in 0 .. MaxWait
                 /\ backoffSchedule[n] <= backoffSchedule[n + 1]
<1> DEFINE S == {n \in Nat : backoffSchedule[n] \in 0 .. MaxWait}
<1>1. 0 \in S
  BY BackoffDef, TimeAssumption DEF FirstWait
<1>2. ASSUME NEW n \in Nat, n \in S PROVE n + 1 \in S
  <2>1. Doubled(backoffSchedule[n]) \in 0 .. MaxWait
    BY <1>2, TimeAssumption DEF Doubled
  <2>. QED BY <2>1, BackoffDef
<1> HIDE DEF S
<1>3. Nat \subseteq S
  BY <1>1, <1>2, NatSets
<1>4. ASSUME NEW n \in Nat PROVE backoffSchedule[n] <= Doubled(backoffSchedule[n])
  <2>1. backoffSchedule[n] \in 0 .. MaxWait
    BY <1>3 DEF S
  <2>. QED BY <2>1, TimeAssumption DEF Doubled
<1>. QED BY <1>3, <1>4, BackoffDef DEF S
-----------------------------------------------------------------------------
(* Second invariant, on top of the first: what the index, the entry and    *)
(* the modification times say of one another.                              *)

BlobName == Blob \cup {Failure}
PayloadType == [kind : {"payload"}, blob : Blob, at : Int]
OutcomeType == [kind : {"outcome"}, completed : Nat, count : Nat \ {0}, lastGood : Blob \cup {NoBlob}]
Descriptor == {None} \cup PayloadType \cup OutcomeType
EntryType == [kind : {"entry"}, stored : Descriptor, resolved : Int, unloaded : BOOLEAN,
              touched : Int, seen : Int, invalid : BOOLEAN]

DataType ==
    /\ index \in Descriptor \cup {Torn}
    /\ mtime \in [BlobName -> Int]
    /\ entry \in {None} \cup EntryType
    /\ staged \in [Proc -> {None} \cup PayloadType]
    /\ now \in Nat
    /\ good \in Blob \cup {NoBlob}
    /\ used \in Int

\* The last good payload, as long as a tag leads to it.
Named == IF lost THEN NoBlob ELSE good
USE DEF Named

\* What an entry knows of the store.  The first part is LastGoodKept for an
\* entry that is still to be loaded; the second says that an entry that can
\* answer a call stores what the index names, so that touch dates the right
\* blob, and the third that a coalesced access is one that was written.
EntryGood(e) == LastGood(e.stored) = Named \/ (e.unloaded /\ e.stored = None)
EntryCurrent(e) ==
    /\ e.resolved # Never \/ HasOutcome(e) => e.stored = index
    /\ e.unloaded => e.touched = Never /\ ~HasOutcome(e)
EntryDated(e) == e.touched # Never => e.touched = mtime[BlobOf(e.stored)]

\* While the clock has not gone back no remembered failure is dropped.
EntryTimely(e) ==
    "rollback" \notin faults =>
        /\ ~e.invalid /\ e.seen <= now
        /\ index.kind = "outcome" => e.stored = index \/ e.unloaded

EntryOK(e) == e \in EntryType /\ EntryGood(e) /\ EntryCurrent(e) /\ EntryDated(e) /\ EntryTimely(e)

\* An entry that was loaded for this call says what the index says.
Known(e) ==
    /\ LastGood(e.stored) = Named
    /\ e.unloaded => e.resolved = Never
    /\ "rollback" \notin faults /\ index.kind = "outcome" => e.stored = index

\* The entries live as long as their owner is open; a call has one.
EntryInv ==
    /\ entry # None => phase = "open" /\ EntryOK(entry)
    /\ \A u \in Proc : stage[u] # "idle" => entry # None

IndexInv ==
    /\ LastGood(index) = Named
    /\ good # NoBlob => mtime[good] # Never
    /\ used # Never => mtime[BlobOf(index)] >= used - accessInterval
    /\ "rollback" \notin faults /\ index.kind = "outcome" => index.completed <= now

\* What the holder of the lock is about to publish.
WorkInv ==
    \A u \in Proc :
        /\ stage[u] \in {"produce", "push", "tag"} => Known(entry)
        /\ stage[u] \in {"push", "tag"} => staged[u] \in PayloadType
        /\ stage[u] = "tag" => mtime[staged[u].blob] # Never

DataInv == DataType /\ EntryInv /\ IndexInv /\ WorkInv /\ FailureHolds
-----------------------------------------------------------------------------
(* The operators on entries.                                               *)

LEMMA NewEntryType ==
  ASSUME NEW d \in Descriptor, NEW at \in Int
  PROVE  /\ NewEntry(d, at) \in EntryType
         /\ NewEntry(d, at).stored = d /\ NewEntry(d, at).resolved = at
         /\ ~NewEntry(d, at).unloaded /\ ~NewEntry(d, at).invalid
         /\ NewEntry(d, at).touched = Never /\ NewEntry(d, at).seen = Never
         /\ NewEntry(d, at) # None
  BY DEF NewEntry, EntryType, Never, None

LEMMA UnloadedType ==
  /\ Unloaded \in EntryType
  /\ Unloaded.stored = None /\ Unloaded.resolved = Never /\ Unloaded.unloaded
  /\ ~Unloaded.invalid /\ Unloaded.touched = Never /\ Unloaded.seen = Never /\ Unloaded # None
<1> DEFINE e == NewEntry(None, Never)
<1>1. e \in EntryType /\ e.stored = None /\ e.resolved = Never /\ e.touched = Never /\ e.seen = Never
      /\ ~e.invalid
  BY NewEntryType DEF Never, Descriptor
<1>2. Unloaded = [e EXCEPT !.unloaded = TRUE]
  BY DEF Unloaded
<1> HIDE DEF e
<1>3. Unloaded \in EntryType /\ Unloaded.unloaded = TRUE
  BY <1>1, <1>2 DEF EntryType
<1>4. Unloaded.kind = "entry"
  BY <1>3 DEF EntryType
<1>. QED BY <1>1, <1>2, <1>3, <1>4 DEF EntryType, None

LEMMA DeadlineType ==
  ASSUME NEW o \in OutcomeType
  PROVE  outcomeDeadline(o) \in Nat
<1>1. o.count - 1 \in Nat /\ o.completed \in Nat
  BY DEF OutcomeType
<1>. QED BY <1>1, BackoffDef DEF outcomeDeadline

LEMMA LoadedOK ==
  ASSUME DataType, IndexInv, EntryOK(entry), NEW u \in Proc
  PROVE  LET c == loadEntry(entry, MaxAge[u])
         IN  EntryOK(c) /\ Known(c)
<1> DEFINE c == loadEntry(entry, MaxAge[u])
           fr == fresh(index.at, MaxAge[u])
<1> SUFFICES EntryOK(c) /\ Known(c)
  OBVIOUS
<1> USE DEF DataType, IndexInv, EntryOK, Known
<1>1. CASE ~entry.unloaded
  <2>1. c = entry
    BY <1>1 DEF loadEntry
  <2>. QED BY <1>1, <2>1 DEF EntryGood, EntryTimely
<1>2. CASE entry.unloaded /\ index.kind = "outcome"
  <2>1. c = [entry EXCEPT !.stored = index, !.unloaded = FALSE]
    BY <1>2 DEF loadEntry
  <2>2. index \in Descriptor
    BY <1>2 DEF Torn
  <2>3. c \in EntryType /\ c.stored = index /\ c.unloaded = FALSE /\ c.resolved = entry.resolved
        /\ c.touched = entry.touched /\ c.invalid = entry.invalid /\ c.seen = entry.seen
    BY <2>1, <2>2 DEF EntryType
  <2> HIDE DEF c
  <2>. QED BY <1>2, <2>3 DEF EntryGood, EntryCurrent, EntryDated, EntryTimely, HasOutcome
<1>3. CASE entry.unloaded /\ index.kind = "payload"
  <2>1. c = [entry EXCEPT !.stored = index, !.resolved = IF fr THEN index.at ELSE @,
                         !.unloaded = ~fr /\ entry.resolved = Never]
    BY <1>3 DEF loadEntry
  <2>2. index \in PayloadType /\ index \in Descriptor /\ fr \in BOOLEAN
    BY <1>3 DEF Torn, None, Descriptor, OutcomeType, fresh
  <2>3. fr => index.at # Never
    BY DEF fresh
  <2> HIDE DEF fr
  <2>4. c \in EntryType /\ c.stored = index /\ c.unloaded = (~fr /\ entry.resolved = Never)
        /\ c.resolved = (IF fr THEN index.at ELSE entry.resolved)
        /\ c.touched = entry.touched /\ c.invalid = entry.invalid /\ c.seen = entry.seen
    BY <2>1, <2>2 DEF EntryType, PayloadType
  <2> HIDE DEF c
  <2>. QED BY <1>3, <2>3, <2>4 DEF EntryGood, EntryCurrent, EntryDated, EntryTimely, HasOutcome
<1>4. CASE entry.unloaded /\ index.kind \notin {"outcome", "payload"}
  <2>1. c = [entry EXCEPT !.unloaded = FALSE]
    BY <1>4 DEF loadEntry
  <2>2. c \in EntryType /\ c.stored = entry.stored /\ c.unloaded = FALSE /\ c.resolved = entry.resolved
        /\ c.touched = entry.touched /\ c.invalid = entry.invalid /\ c.seen = entry.seen
    BY <2>1 DEF EntryType
  <2>3. Named = NoBlob /\ LastGood(None) = NoBlob
    BY <1>4 DEF LastGood, None
  <2> HIDE DEF c
  <2>. QED BY <1>4, <2>2, <2>3 DEF EntryGood, EntryCurrent, EntryDated, EntryTimely, HasOutcome
<1>. QED BY <1>1, <1>2, <1>3, <1>4

LEMMA ObservedOK ==
  ASSUME DataType, IndexInv, NEW e, EntryOK(e)
  PROVE  /\ EntryOK(observe(e)) /\ observe(e).stored = e.stored
         /\ observe(e).unloaded = e.unloaded /\ observe(e).resolved = e.resolved
<1> USE DEF DataType, IndexInv, EntryOK
<1>1. CASE ~HasOutcome(e)
  BY <1>1 DEF observe
<1>2. CASE HasOutcome(e)
  <2> DEFINE inv == e.invalid \/ now < e.stored.completed \/ now < e.seen
             c == observe(e)
  <2> SUFFICES EntryOK(c) /\ c.stored = e.stored /\ c.unloaded = e.unloaded /\ c.resolved = e.resolved
    OBVIOUS
  <2>1. c = [e EXCEPT !.invalid = inv, !.seen = now]
    BY <1>2 DEF observe
  <2>2. inv \in BOOLEAN
    OBVIOUS
  <2>3. "rollback" \notin faults => ~inv
    <3>1. e.stored = index /\ index \in OutcomeType
      BY <1>2 DEF EntryCurrent, HasOutcome, Descriptor, PayloadType, None, Torn
    <3>. QED BY <1>2, <3>1 DEF EntryTimely, HasOutcome, EntryType, OutcomeType
  <2>4. PICK b \in BOOLEAN : /\ c = [e EXCEPT !.invalid = b, !.seen = now]
                             /\ "rollback" \notin faults => ~b
    BY <2>1, <2>2, <2>3, Zenon
  <2>5. now \in Int /\ e \in EntryType
    OBVIOUS
  <2> HIDE DEF inv, c
  <2>6. c \in EntryType /\ c.stored = e.stored /\ c.unloaded = e.unloaded /\ c.resolved = e.resolved
        /\ c.touched = e.touched /\ c.invalid = b /\ c.seen = now
    BY <2>4, <2>5 DEF EntryType
  <2>. QED BY <2>4, <2>6 DEF EntryGood, EntryCurrent, EntryDated, EntryTimely, HasOutcome
<1>. QED BY <1>1, <1>2

\* What acquireOnce decides on is as good as the entry, and says what the index says.
LEMMA CandidateOK ==
  ASSUME DataType, IndexInv, EntryOK(entry), NEW u \in Proc
  PROVE  EntryOK(Candidate(u)) /\ Known(Candidate(u))
<1> DEFINE c == loadEntry(entry, MaxAge[u])
<1>1. EntryOK(c) /\ Known(c)
  BY LoadedOK
<1>2. Candidate(u) = observe(c)
  BY DEF Candidate
<1> HIDE DEF c
<1>. QED BY <1>1, <1>2, ObservedOK DEF Known

\* A failure that published nothing keeps what the entry knew.
LEMMA RetainedOK ==
  ASSUME DataType, IndexInv, NEW e, EntryOK(e), Known(e)
  PROVE  EntryOK(Retained(e)) /\ Known(Retained(e))
<1> USE DEF DataType, IndexInv, EntryOK, Known
<1> DEFINE r == Retained(e)
<1> SUFFICES EntryOK(r) /\ Known(r)
  OBVIOUS
<1>0. Never \in Int /\ e.stored \in Descriptor
  BY DEF Never, EntryType
<1>1. CASE Due(e)
  <2> DEFINE n == NewEntry(e.stored, Never)
  <2>1. r = [n EXCEPT !.seen = e.seen]
    BY <1>1 DEF Retained
  <2>2. n \in EntryType /\ n.stored = e.stored /\ n.resolved = Never /\ ~n.unloaded /\ ~n.invalid
        /\ n.touched = Never
    BY <1>0, NewEntryType
  <2> HIDE DEF n
  <2>3. r \in EntryType /\ r.stored = e.stored /\ r.resolved = Never /\ ~r.unloaded /\ ~r.invalid
        /\ r.touched = Never /\ r.seen = e.seen
    BY <2>1, <2>2 DEF EntryType
  <2> HIDE DEF r
  <2>. QED BY <1>1, <2>3 DEF EntryGood, EntryCurrent, EntryDated, EntryTimely, HasOutcome, Due
<1>2. CASE ~HasOutcome(e)
  <2>1. r = NewEntry(e.stored, Never)
    BY <1>2 DEF Retained, Due
  <2>2. r \in EntryType /\ r.stored = e.stored /\ r.resolved = Never /\ ~r.unloaded /\ ~r.invalid
        /\ r.touched = Never /\ r.seen = Never
    BY <1>0, <2>1, NewEntryType
  <2>3. "rollback" \notin faults => index.kind # "outcome"
    BY <1>2 DEF HasOutcome
  <2> HIDE DEF r
  <2>. QED BY <1>2, <2>2, <2>3 DEF EntryGood, EntryCurrent, EntryDated, EntryTimely, HasOutcome, Never
<1>3. CASE HasOutcome(e) /\ ~Due(e)
  <2> DEFINE d == IF e.stored.lastGood = NoBlob THEN None ELSE Payload(e.stored.lastGood, Never)
  <2>1. e.stored \in OutcomeType
    BY <1>0, <1>3 DEF HasOutcome, Descriptor, PayloadType, None
  <2>2. d \in Descriptor /\ LastGood(d) = e.stored.lastGood /\ d.kind # "outcome"
    BY <2>1 DEF OutcomeType, Descriptor, PayloadType, Payload, LastGood, None, Never
  <2>3. LastGood(e.stored) = e.stored.lastGood
    BY <1>3 DEF HasOutcome, LastGood
  <2>4. r = NewEntry(d, Never)
    BY <1>3 DEF Retained
  <2> HIDE DEF d
  <2>5. r \in EntryType /\ r.stored = d /\ r.resolved = Never /\ ~r.unloaded /\ ~r.invalid
        /\ r.touched = Never /\ r.seen = Never
    BY <1>0, <2>2, <2>4, NewEntryType
  <2>6. "rollback" \in faults
    BY <1>3 DEF EntryTimely, Due
  <2> HIDE DEF r
  <2>. QED BY <2>2, <2>3, <2>5, <2>6 DEF EntryGood, EntryCurrent, EntryDated, EntryTimely, HasOutcome
<1>. QED BY <1>1, <1>2, <1>3 DEF Due

\* The lock of the one key has one holder.
LEMMA Alone ==
  ASSUME OwnInv, NEW u \in Proc, NEW v \in Proc, stage[u] \in Working, stage[v] \in Working
  PROVE  u = v
  BY DEF OwnInv, StageInv, LockInv, MutualExclusion, TypeOK, Working
-----------------------------------------------------------------------------
(* The steps of a call, as the data see them.                              *)

Data == <<storeVars, entry, now, faults>>

\* A call waits, is granted the lock, or ends, and changes nothing.
LEMMA DataQuiet ==
  ASSUME OwnInv, DataInv, UNCHANGED <<Data, ownerVars>>, NEW u \in Proc,
         NEW s \in {"idle", "lock", "backoff", "decide"}, stage' = [stage EXCEPT ![u] = s],
         s = "idle" \/ stage[u] # "idle",
         staged' = staged \/ staged' = [staged EXCEPT ![u] = None]
  PROVE  DataInv'
<1> USE DEF DataInv, OwnInv, OwnerType, Data, storeVars, ownerVars
<1>1. DataType'
  BY DEF DataType
<1>2. EntryInv' /\ IndexInv'
  BY DEF EntryInv, IndexInv, EntryOK, EntryGood, EntryCurrent, EntryDated, EntryTimely
<1>3. WorkInv'
  BY DEF WorkInv, Known, DataType
<1>4. FailureHolds'
  BY DEF FailureHolds
<1>. QED BY <1>1, <1>2, <1>3, <1>4

LEMMA DataObserve ==
  ASSUME OwnInv, DataInv, NEW u \in Proc, Observe(u), session[u] = "in",
         UNCHANGED <<storeVars, now, faults, ownerVars, staged>>,
         stage[u] \in {"idle", "backoff"}
  PROVE  DataInv'
<1> USE DEF DataInv, OwnInv, OwnerType, Observe, storeVars, ownerVars
<1>1. entry' \in EntryType /\ entry' # None
  BY UnloadedType DEF DataType
<1>2. DataType'
  BY <1>1 DEF DataType
<1>3. EntryOK(entry)' /\ phase = "open"
  <2>1. phase = "open"
    BY DEF ShareInv
  <2>2. CASE entry = None
    BY <1>1, <2>1, <2>2, UnloadedType DEF DataType, EntryOK, EntryGood, EntryCurrent, EntryDated,
       EntryTimely, HasOutcome, None, Never
  <2>3. CASE entry # None
    BY <2>1, <2>3 DEF EntryInv, EntryOK, EntryGood, EntryCurrent, EntryDated, EntryTimely
  <2>. QED BY <2>1, <2>2, <2>3
<1>4. EntryInv' /\ IndexInv'
  BY <1>1, <1>3 DEF EntryInv, IndexInv
<1>5. WorkInv'
  BY DEF WorkInv, EntryInv, Known, DataType
<1>6. FailureHolds'
  BY DEF FailureHolds
<1>. QED BY <1>2, <1>4, <1>5, <1>6

\* The holder of the lock replaces the entry, and ends or calls the producer.
LEMMA DataReplaced ==
  ASSUME OwnInv, DataInv, NEW u \in Proc, stage[u] \in Working,
         NEW e, EntryOK(e), entry' = e,
         UNCHANGED <<storeVars, now, faults, ownerVars>>,
         NEW s \in {"idle", "backoff", "produce"}, stage' = [stage EXCEPT ![u] = s],
         s = "produce" => Known(e),
         staged' = staged \/ staged' = [staged EXCEPT ![u] = None],
         s = "produce" /\ index.kind = "outcome" /\ "rollback" \notin faults
             => now >= outcomeDeadline(index)
  PROVE  DataInv'
<1> USE DEF DataInv, OwnInv, OwnerType, storeVars, ownerVars
<1>1. \A v \in Proc : v # u => stage[v] \notin Working
  BY Alone
<1>2. DataType' /\ e # None
  BY DEF DataType, EntryOK, EntryType, None
<1>3. EntryInv'
  <2>1. phase = "open"
    BY DEF EntryInv, Working
  <2>. QED BY <1>2, <2>1 DEF EntryInv, EntryOK, EntryGood, EntryCurrent, EntryDated, EntryTimely
<1>4. IndexInv'
  BY DEF IndexInv
<1>5. WorkInv'
  BY <1>1 DEF WorkInv, Known, Working
<1>6. FailureHolds'
  BY <1>1 DEF FailureHolds, Working
<1>. QED BY <1>2, <1>3, <1>4, <1>5, <1>6

\* A hit: the access is written, or coalesced with one that was.
LEMMA DataTouched ==
  ASSUME OwnInv, DataInv, NEW u \in Proc, stage[u] \in Working,
         NEW e, EntryOK(e), Known(e), e.stored = index, ~e.unloaded, touch(e),
         UNCHANGED <<now, faults, ownerVars>>,
         stage' = [stage EXCEPT ![u] = "idle"], staged' = [staged EXCEPT ![u] = None]
  PROVE  DataInv'
<1> USE DEF DataInv, OwnInv, OwnerType, ownerVars
<1> DEFINE b == BlobOf(index)
           t == IF Coalesced(e) THEN mtime[b] ELSE now
<1>0. index \in Descriptor /\ b \in BlobName /\ mtime \in [BlobName -> Int] /\ now \in Nat
      /\ e \in EntryType
  BY DEF DataType, EntryOK, EntryType, Descriptor, PayloadType, OutcomeType, BlobOf, BlobName, None
<1>1. Touched(e) = mtime[b]
  BY DEF Touched, EntryOK, EntryDated
<1>2. t \in Int /\ t >= now - accessInterval /\ (t = mtime[b] \/ t = now)
  BY <1>0, <1>1, TimeAssumption DEF Coalesced
<1>3. mtime' = [mtime EXCEPT ![b] = t] /\ entry' = [e EXCEPT !.touched = t]
  BY <1>0, <1>1 DEF touch
<1>4. used' = now /\ index' = index /\ good' = good /\ lost' = lost
  BY DEF touch
<1> HIDE DEF b, t
<1>5. /\ entry' \in EntryType /\ entry'.stored = index /\ entry'.resolved = e.resolved
      /\ entry'.unloaded = e.unloaded /\ entry'.touched = t /\ entry'.seen = e.seen
      /\ entry'.invalid = e.invalid
  BY <1>0, <1>2, <1>3 DEF EntryType
<1>6. mtime' \in [BlobName -> Int] /\ mtime'[b] = t
  BY <1>0, <1>2, <1>3
<1>7. \A v \in Proc : v # u => stage[v] \notin Working
  BY Alone
<1>8. DataType'
  BY <1>0, <1>4, <1>5, <1>6 DEF DataType
<1>9. EntryOK(entry)'
  <2>1. EntryDated(entry)'
    BY <1>4, <1>5, <1>6 DEF EntryDated, b
  <2>2. EntryGood(entry)' /\ EntryCurrent(entry)' /\ EntryTimely(entry)'
    BY <1>4, <1>5 DEF EntryOK, EntryGood, EntryCurrent, EntryTimely, HasOutcome, Known
  <2>. QED BY <1>5, <2>1, <2>2 DEF EntryOK
<1>10. EntryInv'
  <2>1. phase = "open" /\ entry' # None
    BY <1>5 DEF EntryInv, Working, EntryType, None
  <2>. QED BY <2>1, <1>9 DEF EntryInv
<1>11. IndexInv'
  <2>1. now # Never
    BY <1>0 DEF Never
  <2>2. good # NoBlob => mtime'[good] # Never
    BY <2>1, <1>0, <1>2, <1>3 DEF IndexInv, DataType, BlobName
  <2>3. mtime'[BlobOf(index)] >= now - accessInterval
    BY <1>2, <1>6 DEF b
  <2>. QED BY <1>4, <2>2, <2>3 DEF IndexInv
<1>12. WorkInv' /\ FailureHolds'
  BY <1>7 DEF WorkInv, FailureHolds, Working
<1>. QED BY <1>8, <1>10, <1>11, <1>12

\* The producer returns a payload, or names the one it was given.
LEMMA DataStaged ==
  ASSUME OwnInv, DataInv, NEW u \in Proc, stage[u] = "produce", UNCHANGED <<Data, ownerVars>>,
         NEW p \in PayloadType, staged' = [staged EXCEPT ![u] = p],
         NEW s \in {"push", "tag"}, stage' = [stage EXCEPT ![u] = s],
         s = "tag" => mtime[p.blob] # Never
  PROVE  DataInv'
<1> USE DEF DataInv, OwnInv, OwnerType, Data, storeVars, ownerVars
<1>1. DataType'
  BY DEF DataType
<1>2. EntryInv' /\ IndexInv'
  BY DEF EntryInv, IndexInv, EntryOK, EntryGood, EntryCurrent, EntryDated, EntryTimely
<1>3. WorkInv'
  BY DEF WorkInv, Known, DataType
<1>4. FailureHolds'
  BY DEF FailureHolds
<1>. QED BY <1>1, <1>2, <1>3, <1>4

LEMMA DataPublish ==
  ASSUME OwnInv, DataInv, NEW u \in Proc, publish(u)
  PROVE  DataInv'
<1> USE DEF DataInv, OwnInv, OwnerType, publish, ownerVars, clockVars
<1> DEFINE b == staged[u].blob
           t == IF mtime[b] = Never THEN now ELSE mtime[b]
<1>1. b \in Blob /\ b \in BlobName /\ staged[u] \in PayloadType
  BY DEF WorkInv, PayloadType, BlobName
<1>2. t \in Int /\ t # Never /\ (mtime[b] # Never => t = mtime[b]) /\ t >= mtime[b]
  BY <1>1 DEF DataType, Never
<1>3. mtime' = [mtime EXCEPT ![b] = t]
  OBVIOUS
<1> HIDE DEF b, t
<1>4. /\ mtime' \in [BlobName -> Int] /\ mtime'[b] = t
      /\ \A c \in BlobName : mtime'[c] >= mtime[c] /\ (mtime[c] # Never => mtime'[c] = mtime[c])
  <2>1. mtime \in [BlobName -> Int]
    BY DEF DataType
  <2>. QED BY ONLY <2>1, <1>1, <1>2, <1>3
<1>5. DataType'
  BY <1>4 DEF DataType
<1>6. EntryInv'
  <2>1. ASSUME entry # None PROVE EntryDated(entry)'
    <3>1. BlobOf(entry.stored) \in BlobName /\ EntryDated(entry)
      BY <2>1 DEF EntryInv, EntryOK, EntryType, Descriptor, PayloadType, OutcomeType, None, BlobOf, BlobName
    <3>. QED BY <3>1, <1>4 DEF EntryDated
  <2>. QED BY <2>1 DEF EntryInv, EntryOK, EntryGood, EntryCurrent, EntryTimely
<1>7. IndexInv'
  <2>1. BlobOf(index) \in BlobName
    BY DEF DataType, Descriptor, PayloadType, OutcomeType, None, Torn, BlobOf, BlobName
  <2>2. mtime'[BlobOf(index)] >= mtime[BlobOf(index)] /\ mtime[BlobOf(index)] \in Int
        /\ mtime'[BlobOf(index)] \in Int
    BY <2>1, <1>4 DEF DataType
  <2>3. used # Never => mtime'[BlobOf(index)] >= used - accessInterval
    BY <2>2, TimeAssumption DEF IndexInv, DataType
  <2>. QED BY <1>4, <2>3 DEF IndexInv, DataType, BlobName
<1>8. WorkInv'
  <2>1. ASSUME NEW v \in Proc, stage'[v] = "tag" PROVE mtime'[staged[v].blob] # Never
    <3>1. v = u
      BY <2>1, Alone DEF Working
    <3>. QED BY <3>1, <1>2, <1>4 DEF b
  <2>. QED BY <2>1 DEF WorkInv, Known
<1>9. FailureHolds'
  BY DEF FailureHolds
<1>. QED BY <1>5, <1>6, <1>7, <1>8, <1>9

LEMMA DataTagPayload ==
  ASSUME OwnInv, DataInv, NEW u \in Proc, tagPayload(u)
  PROVE  DataInv'
<1> USE DEF DataInv, OwnInv, OwnerType, tagPayload, Replace, Over, ownerVars, clockVars
<1> DEFINE p == staged[u]
<1>1. p \in PayloadType /\ p \in Descriptor /\ p.blob \in Blob /\ p.at \in Int
      /\ p.kind = "payload" /\ mtime[p.blob] # Never /\ LastGood(p) = p.blob
  BY DEF WorkInv, PayloadType, Descriptor, LastGood
<1>2. entry' = NewEntry(p, p.at) /\ index' = p /\ good' = p.blob /\ lost' = FALSE /\ used' = Never
      /\ mtime' = mtime /\ now' = now /\ faults' = faults
  OBVIOUS
<1> HIDE DEF p
<1>3. /\ entry' \in EntryType /\ entry'.stored = p /\ ~entry'.unloaded /\ ~entry'.invalid
      /\ entry'.touched = Never /\ entry'.seen = Never /\ entry' # None
  BY <1>1, <1>2, NewEntryType
<1>4. \A v \in Proc : v # u => stage[v] \notin Working
  BY Alone DEF Working
<1>5. DataType'
  BY <1>1, <1>2, <1>3 DEF DataType, Never
<1>6. EntryInv'
  <2>1. phase = "open"
    BY DEF EntryInv
  <2>2. EntryOK(entry)'
    BY <1>1, <1>2, <1>3 DEF EntryOK, EntryGood, EntryCurrent, EntryDated, EntryTimely, HasOutcome,
       DataType, Never
  <2>. QED BY <1>3, <2>1, <2>2 DEF EntryInv
<1>7. IndexInv'
  BY <1>1, <1>2 DEF IndexInv
<1>8. WorkInv' /\ FailureHolds'
  BY <1>4 DEF WorkInv, FailureHolds, Working
<1>. QED BY <1>5, <1>6, <1>7, <1>8

\* The last attempt failed, and its outcome takes the tag with what it leads to.
LEMMA DataOutcome ==
  ASSUME OwnInv, DataInv, NEW u \in Proc, NEW class, publishOutcome(u, class, TRUE),
         stage[u] \in {"produce", "push", "tag"}, UNCHANGED <<ownerVars, clockVars>>
  PROVE  DataInv'
<1> USE DEF DataInv, OwnInv, OwnerType, Over, ownerVars, clockVars
<1> DEFINE o == Outcome(now, nextOutcomeCount(Count(entry)), LastGood(entry.stored))
<1>1. entry \in EntryType /\ EntryOK(entry) /\ Known(entry)
  BY DEF EntryInv, EntryOK, WorkInv
<1>2. o \in OutcomeType /\ o.lastGood = Named /\ o.kind = "outcome" /\ o.completed = now
  <2>1. nextOutcomeCount(Count(entry)) \in Nat \ {0}
    <3>1. Count(entry) \in Nat
      BY <1>1 DEF Count, Due, HasOutcome, EntryType, Descriptor, PayloadType, OutcomeType, None
    <3>. QED BY <3>1, TimeAssumption DEF nextOutcomeCount
  <2>. QED BY <1>1, <2>1 DEF OutcomeType, Outcome, Known, DataType
<1>3. index' = o /\ mtime' = [mtime EXCEPT ![Failure] = now] /\ entry' = NewEntry(o, Never)
      /\ used' = Never /\ good' = good /\ lost' = lost
  BY DEF publishOutcome, Replace
<1>4. stage' = [stage EXCEPT ![u] = "idle"] /\ staged' = [staged EXCEPT ![u] = None]
  BY DEF publishOutcome
<1> HIDE DEF o
<1>5. o \in Descriptor /\ LastGood(o) = Named /\ Never \in Int
  BY <1>2 DEF Descriptor, LastGood, Never
<1>6. /\ entry' \in EntryType /\ entry'.stored = o /\ ~entry'.unloaded /\ ~entry'.invalid
      /\ entry'.resolved = Never /\ entry'.touched = Never /\ entry'.seen = Never /\ entry' # None
  BY <1>3, <1>5, NewEntryType
<1>7. \A v \in Proc : v # u => stage[v] \notin Working
  BY Alone DEF Working
<1>8. DataType'
  BY <1>3, <1>4, <1>5, <1>6 DEF DataType, BlobName
<1>9. EntryInv'
  <2>1. phase = "open"
    BY DEF EntryInv
  <2>2. EntryOK(entry)'
    BY <1>3, <1>5, <1>6 DEF EntryOK, EntryGood, EntryCurrent, EntryDated, EntryTimely, HasOutcome,
       DataType, Never
  <2>. QED BY <1>6, <2>1, <2>2 DEF EntryInv
<1>10. IndexInv'
  <2>1. good # NoBlob => mtime'[good] # Never
    BY <1>3 DEF IndexInv, DataType, BlobName, Never
  <2>. QED BY <1>2, <1>3, <1>5, <2>1 DEF IndexInv, DataType
<1>11. WorkInv' /\ FailureHolds'
  BY <1>4, <1>7 DEF WorkInv, FailureHolds, Working
<1>. QED BY <1>8, <1>9, <1>10, <1>11
-----------------------------------------------------------------------------
(* The owner's steps, Sweep, the crash and the clock.                      *)

\* Opening, waiting and leaving while entries stay with their owner.
LEMMA DataOwner ==
  ASSUME OwnInv, DataInv, UNCHANGED <<mtime, good, lost, used, entry, stage, staged, now, faults>>,
         index' = index \/ (index = Torn /\ index' = None),
         entry # None => phase' = "open"
  PROVE  DataInv'
<1> USE DEF DataInv
<1>1. CASE index' = index
  BY <1>1 DEF DataType, EntryInv, IndexInv, WorkInv, FailureHolds, EntryOK, EntryGood, EntryCurrent,
     EntryDated, EntryTimely, Known
<1>2. CASE index = Torn /\ index' = None
  <2>1. LastGood(None) = NoBlob /\ LastGood(Torn) = NoBlob /\ BlobOf(None) = BlobOf(Torn)
        /\ None.kind # "outcome" /\ Torn.kind # "outcome"
    BY DEF LastGood, BlobOf, None, Torn
  <2>2. DataType' /\ IndexInv' /\ FailureHolds'
    BY <1>2, <2>1 DEF DataType, IndexInv, FailureHolds, Descriptor
  <2>3. entry # None => entry.stored # Torn
    BY DEF EntryInv, EntryOK, EntryType, Descriptor, PayloadType, OutcomeType, None, Torn
  <2>4. EntryInv' /\ WorkInv'
    BY <1>2, <2>1, <2>3 DEF EntryInv, WorkInv, EntryOK, EntryGood, EntryCurrent, EntryDated,
       EntryTimely, Known
  <2>. QED BY <2>2, <2>4
<1>. QED BY <1>1, <1>2

LEMMA DataSweep ==
  ASSUME OwnInv, DataInv, Sweep
  PROVE  DataInv'
<1> USE DEF DataInv, OwnInv, OwnerType, Sweep, ownerVars, callVars, clockVars
<1>1. entry = None /\ \A u \in Proc : stage[u] = "idle"
  BY DEF ShareInv, EntryInv
<1>2. index' \in Descriptor /\ (index' = index \/ index' = None) /\ DOMAIN mtime = BlobName
  BY DEF DataType, Descriptor
<1>3. mtime' = [b \in BlobName |->
                   IF index' # None /\ b \in {BlobOf(index'), LastGood(index')} THEN mtime[b] ELSE Never]
  BY <1>2
<1>4. mtime' \in [BlobName -> Int]
  BY <1>3 DEF DataType, Never
<1>5. LastGood(None) = NoBlob
  BY DEF LastGood, None
<1>6. DataType'
  BY <1>2, <1>4 DEF DataType, Never
<1>7. EntryInv' /\ WorkInv' /\ FailureHolds'
  BY <1>1 DEF EntryInv, WorkInv, FailureHolds
<1>8. CASE index' = None
  BY <1>5, <1>6, <1>7, <1>8 DEF IndexInv, None
<1>9. CASE index' # None
  <2>1. /\ index' = index /\ used' = used /\ lost' = FALSE
        /\ good' = LastGood(index) /\ (good' # NoBlob => good' = good)
    BY <1>2, <1>9 DEF IndexInv
  <2>2. BlobOf(index) \in BlobName
    BY DEF DataType, Descriptor, PayloadType, OutcomeType, None, Torn, BlobOf, BlobName
  <2>3. mtime'[BlobOf(index)] = mtime[BlobOf(index)]
    BY <1>3, <1>9, <2>1, <2>2
  <2>4. good' # NoBlob => mtime'[good'] = mtime[good']
    BY <1>3, <1>9, <2>1 DEF DataType, BlobName
  <2>5. IndexInv'
    BY <2>1, <2>3, <2>4 DEF IndexInv
  <2>. QED BY <1>6, <1>7, <2>5
<1>. QED BY <1>8, <1>9

LEMMA DataCrash ==
  ASSUME OwnInv, DataInv, Crash
  PROVE  DataInv'
<1> USE DEF DataInv, Crash, Fault
<1>1. "rollback" \notin faults' => "rollback" \notin faults
  OBVIOUS
<1>2. DataType'
  BY DEF DataType, Never
<1>3. EntryInv' /\ WorkInv' /\ FailureHolds'
  BY DEF EntryInv, WorkInv, FailureHolds
<1>4. IndexInv'
  <2>1. CASE UNCHANGED <<index, lost, used>>
    BY <1>1, <2>1 DEF IndexInv
  <2>2. CASE index' = Torn /\ lost' = TRUE /\ used' = Never
    BY <2>2 DEF IndexInv, LastGood, Torn
  <2>. QED BY <2>1, <2>2
<1>. QED BY <1>2, <1>3, <1>4

LEMMA DataTick ==
  ASSUME OwnInv, DataInv, Tick
  PROVE  DataInv'
<1> USE DEF DataInv, Tick, vars, ownerVars, storeVars, callVars
<1>1. now' = now + 1 /\ now \in Nat /\ now' \in Nat
  BY DEF DataType
<1>2. DataType'
  BY <1>1 DEF DataType
<1>3. index.kind = "outcome" => index \in OutcomeType /\ outcomeDeadline(index) \in Nat
  BY DeadlineType DEF DataType, Descriptor, PayloadType, None, Torn
<1>4. IndexInv'
  BY <1>1, <1>3 DEF IndexInv, OutcomeType
<1>5. EntryInv'
  <2>1. entry # None => entry.seen \in Int
    BY DEF EntryInv, EntryOK, EntryType
  <2>. QED BY <1>1, <2>1 DEF EntryInv, EntryOK, EntryGood, EntryCurrent, EntryDated, EntryTimely
<1>6. WorkInv'
  BY DEF WorkInv, Known
<1>7. FailureHolds'
  BY <1>1, <1>3 DEF FailureHolds, outcomeDeadline
<1>. QED BY <1>2, <1>4, <1>5, <1>6, <1>7

LEMMA DataRollback ==
  ASSUME OwnInv, DataInv, Rollback
  PROVE  DataInv'
<1> USE DEF DataInv, Rollback, Fault, vars, ownerVars, storeVars, callVars
<1>1. "rollback" \in faults' /\ now' \in Nat
  BY DEF DataType
<1>2. DataType'
  BY <1>1 DEF DataType
<1>3. EntryInv' /\ IndexInv' /\ WorkInv' /\ FailureHolds'
  BY <1>1 DEF EntryInv, IndexInv, WorkInv, FailureHolds, EntryOK, EntryGood, EntryCurrent, EntryDated,
     EntryTimely, Known
<1>. QED BY <1>2, <1>3
-----------------------------------------------------------------------------
LEMMA DataInit == CacheInit => DataInv
<1> SUFFICES ASSUME CacheInit PROVE DataInv
  OBVIOUS
<1> USE DEF CacheInit
<1>1. DataType
  BY DEF DataType, Descriptor, BlobName, Never
<1>2. EntryInv /\ WorkInv /\ FailureHolds
  BY DEF EntryInv, WorkInv, FailureHolds
<1>3. IndexInv
  BY DEF IndexInv, LastGood, None
<1>. QED BY <1>1, <1>2, <1>3 DEF DataInv

\* The steps of acquireOnce that decide on the candidate.
LEMMA DataDecide ==
  ASSUME OwnInv, DataInv, NEW u \in Proc,
         \/ Share(u) \/ LoadFails(u) \/ Replay(u) \/ ReplayFails(u) \/ Reuse(u) \/ ReuseFails(u)
         \/ Produce(u) \/ ProduceRefused(u)
  PROVE  DataInv'
<1> DEFINE c == Candidate(u)
<1>0. stage[u] = "decide" /\ stage[u] \in Working /\ UNCHANGED <<ownerVars, clockVars>>
  BY DEF Share, LoadFails, Replay, ReplayFails, Reuse, ReuseFails, Produce, ProduceRefused, Deciding, Working
<1>1. EntryOK(c) /\ Known(c)
  BY <1>0, CandidateOK DEF DataInv, EntryInv
<1>2. UNCHANGED <<now, faults, ownerVars>>
  BY <1>0 DEF clockVars
<1>3. CASE Share(u)
  BY <1>2, <1>3, DataQuiet DEF Share, Over, Data
<1>4. CASE Replay(u) \/ Reuse(u)
  <2>1. c.stored = index /\ ~c.unloaded
    BY <1>1, <1>4 DEF Replay, Reuse, Reusable, Holds, fresh, EntryOK, EntryCurrent, Known
  <2>2. touch(c) /\ stage' = [stage EXCEPT ![u] = "idle"] /\ staged' = [staged EXCEPT ![u] = None]
    BY <1>4 DEF Replay, Reuse, Over
  <2> HIDE DEF c
  <2>. QED BY <1>0, <1>1, <1>2, <2>1, <2>2, DataTouched
<1>5. CASE ReplayFails(u) \/ ProduceRefused(u)
  <2>1. entry' = c /\ UNCHANGED storeVars /\ stage' = [stage EXCEPT ![u] = "idle"]
        /\ staged' = [staged EXCEPT ![u] = None]
    BY <1>5 DEF ReplayFails, ProduceRefused, Over
  <2> HIDE DEF c
  <2>. QED BY <1>0, <1>1, <1>2, <2>1, DataReplaced
<1>6. CASE ReuseFails(u)
  <2> DEFINE e == NewEntry(c.stored, Never)
  <2>1. entry' = e /\ UNCHANGED storeVars /\ stage' = [stage EXCEPT ![u] = "idle"]
        /\ staged' = [staged EXCEPT ![u] = None]
    BY <1>6 DEF ReuseFails, Replace, Over
  <2> HIDE DEF c
  <2>2. c.stored \in Descriptor /\ Never \in Int
    BY <1>1 DEF EntryOK, EntryType, Never
  <2>3. /\ e \in EntryType /\ e.stored = c.stored /\ ~e.unloaded /\ ~e.invalid
        /\ e.resolved = Never /\ e.touched = Never /\ e.seen = Never
    BY <2>2, NewEntryType
  <2> HIDE DEF e
  <2>4. EntryOK(e) /\ Known(e)
    BY <1>1, <2>3 DEF EntryOK, Known, EntryGood, EntryCurrent, EntryDated, EntryTimely, HasOutcome,
       DataInv, DataType, Never
  <2>. QED BY <1>0, <1>2, <2>1, <2>4, DataReplaced
<1>7. CASE Produce(u)
  <2>1. entry' = c /\ UNCHANGED storeVars /\ stage' = [stage EXCEPT ![u] = "produce"] /\ staged' = staged
    BY <1>7 DEF Produce
  <2>2. ~Holds(c)
    BY <1>7 DEF Produce, Miss
  <2> HIDE DEF c
  <2>3. ASSUME index.kind = "outcome", "rollback" \notin faults PROVE now >= outcomeDeadline(index)
    <3>1. c.stored = index /\ HasOutcome(c) /\ ~c.invalid
      BY <1>1, <2>3 DEF Known, EntryOK, EntryTimely, HasOutcome
    <3>2. index \in OutcomeType /\ now \in Nat
      BY <2>3 DEF DataInv, DataType, Descriptor, PayloadType, None, Torn
    <3>3. outcomeDeadline(index) \in Nat
      BY <3>2, DeadlineType
    <3>. QED BY <2>2, <3>1, <3>2, <3>3 DEF Holds
  <2>. QED BY <1>0, <1>1, <1>2, <2>1, <2>3, DataReplaced
<1>8. CASE LoadFails(u)
  <2> DEFINE restoring == index.kind = "payload" /\ fresh(index.at, MaxAge[u])
  <2>1. /\ UNCHANGED storeVars /\ stage' = [stage EXCEPT ![u] = "idle"]
        /\ staged' = [staged EXCEPT ![u] = None] /\ entry.unloaded
        /\ entry' = IF restoring THEN [entry EXCEPT !.stored = index, !.resolved = index.at] ELSE entry
    BY <1>8 DEF LoadFails, Over
  <2>2. EntryOK(entry) /\ DataType /\ IndexInv
    BY <1>0 DEF DataInv, EntryInv
  <2>3. CASE ~restoring
    BY <1>0, <1>2, <2>1, <2>2, <2>3, DataReplaced
  <2>4. CASE restoring
    <3> DEFINE e == [entry EXCEPT !.stored = index, !.resolved = index.at]
    <3>1. index \in PayloadType /\ index \in Descriptor
      BY <2>2, <2>4 DEF DataType, Torn, None, Descriptor, OutcomeType
    <3>2. /\ e \in EntryType /\ e.stored = index /\ e.unloaded = entry.unloaded /\ e.touched = entry.touched
          /\ e.invalid = entry.invalid /\ e.seen = entry.seen
      BY <2>2, <3>1 DEF EntryOK, EntryType, PayloadType
    <3> HIDE DEF e
    <3>3. EntryOK(e)
      BY <2>1, <2>2, <2>4, <3>2 DEF EntryOK, EntryGood, EntryCurrent, EntryDated, EntryTimely, HasOutcome,
         IndexInv
    <3>4. entry' = e
      BY <2>1, <2>4 DEF e
    <3>. QED BY <1>0, <1>2, <2>1, <3>3, <3>4, DataReplaced
  <2>. QED BY <2>3, <2>4
<1>. QED BY <1>3, <1>4, <1>5, <1>6, <1>7, <1>8

LEMMA DataFailed ==
  ASSUME OwnInv, DataInv, NEW u \in Proc, NEW class \in Class, failed(u, class)
  PROVE  DataInv'
<1>1. stage[u] \in {"produce", "push", "tag"} /\ stage[u] \in Working /\ UNCHANGED <<ownerVars, clockVars>>
  BY DEF failed, Working
<1>2. UNCHANGED <<now, faults, ownerVars>>
  BY <1>1 DEF clockVars
<1> DEFINE r == Retained(entry)
<1>3. EntryOK(r) /\ Known(r)
  BY <1>1, RetainedOK DEF DataInv, EntryInv, WorkInv
<1> HIDE DEF r
<1>4. CASE FailQuietly(u, class)
  BY <1>2, <1>4, DataQuiet DEF FailQuietly, Over, Data
<1>5. CASE FailRetryably(u, class)
  <2>1. entry' = r /\ UNCHANGED storeVars /\ stage' = [stage EXCEPT ![u] = "backoff"] /\ staged' = staged
    BY <1>5 DEF FailRetryably, Replace, r
  <2>. QED BY <1>1, <1>2, <1>3, <2>1, DataReplaced
<1>6. CASE FailFinally(u, class) \/ publishOutcome(u, class, FALSE)
  <2>1. entry' = r /\ UNCHANGED storeVars /\ stage' = [stage EXCEPT ![u] = "idle"]
        /\ staged' = [staged EXCEPT ![u] = None]
    BY <1>6 DEF FailFinally, publishOutcome, Replace, Over, storeVars, r
  <2>. QED BY <1>1, <1>2, <1>3, <2>1, DataReplaced
<1>7. CASE publishOutcome(u, class, TRUE)
  BY <1>1, <1>7, DataOutcome
<1>. QED BY <1>4, <1>5, <1>6, <1>7 DEF failed

LEMMA DataUser ==
  ASSUME OwnInv, DataInv, NEW u \in Proc, User(u)
  PROVE  DataInv'
<1>1. CASE NewCache(u)
  <2>1. entry # None => phase' = "open"
    BY <1>1 DEF NewCache, New, DataInv, EntryInv
  <2>. QED BY <1>1, <2>1, DataOwner DEF NewCache, storeVars, callVars
<1>2. CASE Opening(u)
  <2>1. entry # None => phase' = "open"
    BY <1>2 DEF Opening, OpenStore, Open, OpenFails, Opened, Refused, WaitCancelled, DataInv, EntryInv,
       OwnInv, ShareInv
  <2>. QED BY <1>2, <2>1, DataOwner DEF Opening, OpenStore, Inert, storeVars, callVars, clockVars
<1>3. CASE CloseCache(u)
  <2>1. CASE refs # 1
    <3>1. entry # None => phase' = "open"
      BY <1>3, <2>1 DEF CloseCache, Close, DataInv, EntryInv
    <3>. QED BY <1>3, <2>1, <3>1, DataOwner DEF CloseCache, storeVars, callVars, clockVars
  <2>2. CASE refs = 1
    <3>1. \A v \in Proc : stage[v] = "idle"
      <4>1. u \in Sharers
        BY <1>3 DEF CloseCache, Close, Sharers, Sharing
      <4>2. \A v \in Proc : v # u => session[v] # "in"
        BY <2>2, <4>1, LastShare DEF Sharers, Sharing
      <4>. QED BY <1>3, <4>2 DEF CloseCache, OwnInv, StageInv
    <3>. QED BY <1>3, <2>2, <3>1 DEF CloseCache, Forgotten, DataInv, DataType, EntryInv, IndexInv,
            WorkInv, FailureHolds, storeVars, clockVars
  <2>. QED BY <2>1, <2>2
<1>4. CASE Cancel(u)
  <2>1. "rollback" \notin faults' => "rollback" \notin faults
    BY <1>4 DEF Cancel, Fault
  <2>. QED BY <1>4, <2>1 DEF Cancel, DataInv, DataType, EntryInv, IndexInv, WorkInv, FailureHolds, EntryOK,
          EntryGood, EntryCurrent, EntryDated, EntryTimely, Known, ownerVars, storeVars, callVars,
          restVars
<1>5. CASE Acquire(u)
  BY <1>5, DataObserve DEF Acquire
<1>6. CASE Lookups(u)
  <2>1. CASE Retry(u)
    BY <2>1, DataObserve DEF Retry, clockVars, OwnInv, StageInv
  <2>2. CASE BackoffCancelled(u)
    BY <2>2, DataQuiet DEF BackoffCancelled, Over, Data, clockVars
  <2>3. CASE Queue(u)
    <3>1. stage' = [stage EXCEPT ![u] = "lock"] /\ stage[u] = "lock"
      BY <2>3 DEF Queue, callVars, OwnInv, OwnerType
    <3>. QED BY <2>3, <3>1, DataQuiet DEF Queue, Data, callVars, clockVars
  <2>4. CASE Granted(u)
    BY <2>4, DataQuiet DEF Granted, Data, clockVars
  <2>5. CASE Denied(u)
    BY <2>5, DataQuiet DEF Denied, Over, Data, clockVars
  <2>6. CASE publish(u)
    BY <2>6, DataPublish
  <2>7. CASE tagPayload(u)
    BY <2>7, DataTagPayload
  <2>. QED BY <1>6, <2>1, <2>2, <2>3, <2>4, <2>5, <2>6, <2>7, DataDecide DEF Lookups
<1>7. CASE Producer(u)
  <2>1. ASSUME NEW b \in Blob, Produced(u, b) PROVE DataInv'
    <3> DEFINE p == Payload(b, now)
    <3>1. p \in PayloadType
      BY DEF Payload, PayloadType, DataInv, DataType
    <3> HIDE DEF p
    <3>. QED BY <2>1, <3>1, DataStaged DEF Produced, Data, clockVars, p
  <2>2. CASE Unchanged(u)
    <3> DEFINE p == Payload(entry.stored.blob, now)
    <3>1. p \in PayloadType /\ mtime[p.blob] # Never
      <4>1. entry.stored \in PayloadType
        BY <2>2 DEF Unchanged, Previous, DataInv, EntryInv, EntryOK, EntryType, Descriptor, OutcomeType, None
      <4>. QED BY <2>2, <4>1 DEF Unchanged, Previous, Payload, PayloadType, DataInv, DataType
    <3> HIDE DEF p
    <3>. QED BY <2>2, <3>1, DataStaged DEF Unchanged, Data, clockVars, p
  <2>. QED BY <1>7, <2>1, <2>2, DataFailed DEF Producer
<1>. QED BY <1>1, <1>2, <1>3, <1>4, <1>5, <1>6, <1>7 DEF User

LEMMA DataStep == OwnInv /\ DataInv /\ [CacheNext]_cacheVars => DataInv'
<1> SUFFICES ASSUME OwnInv, DataInv, [CacheNext]_cacheVars PROVE DataInv'
  OBVIOUS
<1>1. CASE \E u \in Proc : User(u)
  BY <1>1, DataUser
<1>2. CASE Sweep
  BY <1>2, DataSweep
<1>3. CASE \/ UNCHANGED <<storeVars, callVars, clockVars>> /\ (SweepLock \/ SweepUnlock)
           \/ UNCHANGED cacheVars
  <2>1. UNCHANGED <<storeVars, entry, stage, staged, now, faults, phase>>
    BY <1>3 DEF SweepLock, SweepUnlock, cacheVars, callVars, clockVars, ownerVars
  <2>. QED BY <2>1, DataOwner DEF storeVars, DataInv, EntryInv
<1>4. CASE Crash
  BY <1>4, DataCrash
<1>5. CASE Tick
  BY <1>5, DataTick
<1>6. CASE Rollback
  BY <1>6, DataRollback
<1>. QED BY <1>1, <1>2, <1>3, <1>4, <1>5, <1>6 DEF CacheNext, Rival

LEMMA DataInvariance == CacheSpec => []DataInv
  BY DataInit, DataStep, OwnInvariance, PTL DEF CacheSpec
-----------------------------------------------------------------------------
(* Whatever fails, is cancelled or swept, and wherever the process dies,   *)
(* the index and the entry lead to the payload tagged last or, after a     *)
(* crash in the middle of a Tag and until the next payload is tagged, to   *)
(* none; the payload stays in the store until a Sweep finds it unnamed     *)
(* (acquire.go: attemptHistory.lastGood; owner.go: openStore).             *)
THEOREM LastGoodSurvives == CacheSpec => []LastGoodKept
<1>1. DataInv => LastGoodKept
  BY DEF DataInv, EntryInv, IndexInv, EntryOK, EntryGood, LastGoodKept
<1>. QED BY <1>1, DataInvariance, PTL

(* No producer runs before the deadline of the failure the index remembers *)
(* as long as the clock is not set back, for any backoffs (acquire.go:     *)
(* replayOutcome).                                                         *)
THEOREM FailureRemembered == CacheSpec => []FailureHolds
<1>1. DataInv => FailureHolds
  BY DEF DataInv
<1>. QED BY <1>1, DataInvariance, PTL

(* Sweep retires no generation that was used within SweepAge, for any age  *)
(* and any accessInterval, also when the clock was set back (gc.go).       *)
THEOREM SweepSpares == CacheSpec => SweepKeepsRecent
<1>1. ASSUME DataInv, Sweep, index # None, index' = None PROVE used = Never \/ now - used >= SweepAge
  <2>1. Retires
    BY <1>1 DEF Sweep
  <2>2. BlobOf(index) \in BlobName
    BY <1>1 DEF DataInv, DataType, Descriptor, PayloadType, OutcomeType, None, Torn, BlobOf, BlobName
  <2>3. mtime[BlobOf(index)] \in Int /\ now \in Nat /\ used \in Int
    BY <1>1, <2>2 DEF DataInv, DataType
  <2>. QED BY <1>1, <2>1, <2>3, TimeAssumption DEF Retires, DataInv, IndexInv
<1>2. DataInv => [Sweep /\ index # None /\ index' = None => used = Never \/ now - used >= SweepAge]_cacheVars
  BY <1>1
<1>. QED BY <1>2, DataInvariance, PTL DEF SweepKeepsRecent
=============================================================================
