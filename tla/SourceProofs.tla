---------------------------- MODULE SourceProofs ----------------------------
(***************************************************************************)
(* How sources get at their content.  First the gate, the workers and      *)
(* Close of HTTPInputs, for any finite number of callers and any keys;     *)
(* then the handles and the settlement of one source acquisition, through  *)
(* any number of dispatches, settlements, changes of its inputs and panics.*)
(***************************************************************************)
EXTENDS HTTPInputs, Acquisition, FiniteSetTheorems, TLAPS

Working == {"queued", "fetching", "settled", "leaving"}
Live == {r \in Caller : worker[r] \in Working}

Typed ==
    /\ workers \in {"nil", "open", "closed"}
    /\ closedBit \in BOOLEAN /\ count \in Nat /\ drains \in Nat
    /\ fetches \in [Key -> Caller \cup {None}]
    /\ closer \in {"idle", "gating", "ranging", "joining", "closed"}
    /\ pc \in [Caller -> {"idle", "loading", "starting", "admitting", "waiting", "served", "refused"}]
    /\ key \in [Caller -> Key]
    /\ rf \in [Caller -> Caller]
    /\ once \in [Caller -> {"new", "entered", "finished"}]
    /\ worker \in [Caller -> Working \cup {"none", "ended"}]

\* start.Do lets one caller of a remoteFetch through, before it has a worker.
OnceInv ==
    /\ \A c \in Caller : pc[c] = "admitting" => once[rf[c]] = "entered"
    /\ \A c, d \in Caller : pc[c] = "admitting" /\ pc[d] = "admitting" /\ rf[c] = rf[d] => c = d
    /\ \A r \in Caller : worker[r] # "none" => once[r] = "finished"

\* The low bits of state count the workers admitted and not gone.
CountInv == count = Cardinality(Live)

\* drain is closed by whoever sees the word closed and empty, and by nobody else.
DrainInv == drains = IF closedBit /\ count = 0 THEN 1 ELSE 0

\* How far Close has come, and what the two words it writes say of it.
CloserInv ==
    /\ closer # "idle" => workers = "closed"
    /\ closer \in {"idle", "gating"} => ~closedBit
    /\ closer \in {"ranging", "joining"} => closedBit
    /\ closer = "closed" /\ closedBit => count = 0

\* Without a gate nobody is past remoteWorkers, before Close and after it.
NoGateInv ==
    workers = "nil" \/ (closer = "closed" /\ ~closedBit)
        => \A c \in Caller : pc[c] \in {"idle", "refused"} /\ worker[c] = "none"

Inv == Typed /\ OnceInv /\ CountInv /\ DrainInv /\ CloserInv /\ NoGateInv
-----------------------------------------------------------------------------
(* count and the set it counts.                                            *)
LEMMA LiveFinite == IsFiniteSet(Live) /\ Cardinality(Live) \in Nat
<1>1. Live \in SUBSET Caller
  BY DEF Live
<1>2. IsFiniteSet(Live)
  BY <1>1, CallerAssumption, FS_Subset
<1>. QED BY <1>2, FS_CardinalityType

LEMMA OneMore ==
  ASSUME Typed, CountInv, NEW r \in Caller, worker[r] = "none",
         worker' = [worker EXCEPT ![r] = "queued"], count' = count + 1
  PROVE  CountInv'
<1>1. Live' = Live \cup {r} /\ r \notin Live
  BY DEF Live, Working, Typed
<1>2. Cardinality(Live \cup {r}) = Cardinality(Live) + 1
  BY <1>1, LiveFinite, FS_AddElement
<1>. QED BY <1>1, <1>2 DEF CountInv

LEMMA OneLess ==
  ASSUME Typed, CountInv, NEW r \in Caller, worker[r] = "leaving",
         worker' = [worker EXCEPT ![r] = "ended"], count' = count - 1
  PROVE  CountInv' /\ count' \in Nat
<1>1. Live' = Live \ {r} /\ r \in Live
  BY DEF Live, Working, Typed
<1>2. Cardinality(Live \ {r}) = Cardinality(Live) - 1
  BY <1>1, LiveFinite, FS_RemoveElement
<1>3. Cardinality(Live \ {r}) \in Nat
  BY LiveFinite, FS_RemoveElement, FS_CardinalityType
<1>. QED BY <1>1, <1>2, <1>3 DEF CountInv

LEMMA SameLive ==
  ASSUME Typed, CountInv, NEW r \in Caller, worker[r] \in Working,
         NEW w \in Working, worker' = [worker EXCEPT ![r] = w], count' = count
  PROVE  CountInv'
<1>1. Live' = Live
  BY DEF Live, Working, Typed
<1>. QED BY <1>1 DEF CountInv

LEMMA NoneLive == CountInv /\ count = 0 => \A r \in Caller : worker[r] \notin Working
<1>1. Cardinality(Live) = 0 => Live = {}
  BY LiveFinite, FS_EmptySet
<1>. QED BY <1>1 DEF CountInv, Live
-----------------------------------------------------------------------------
(* A step that leaves the gate, the workers and Close alone disturbs only  *)
(* the callers' part of the invariant.                                     *)
LEMMA Elsewhere ==
  ASSUME Inv, Typed', OnceInv', UNCHANGED <<gateVars, closer, worker>>,
         workers = "nil" \/ (closer = "closed" /\ ~closedBit)
             => \A c \in Caller : pc'[c] \in {"idle", "refused"}
  PROVE  Inv'
<1>1. CountInv' /\ DrainInv' /\ CloserInv'
  BY DEF Inv, CountInv, Live, DrainInv, CloserInv, gateVars
<1>2. NoGateInv'
  BY DEF Inv, NoGateInv, gateVars
<1>. QED BY <1>1, <1>2 DEF Inv

\* Nobody is past the gate when there is none.
LEMMA PastGate ==
  ASSUME Inv, NEW c \in Caller, pc[c] \notin {"idle", "refused"} \/ worker[c] # "none"
  PROVE  ~(workers = "nil" \/ (closer = "closed" /\ ~closedBit))
  BY DEF Inv, NoGateInv

LEMMA ForgetType ==
  ASSUME Typed, NEW r \in Caller, Forget(r)
  PROVE  fetches' \in [Key -> Caller \cup {None}]
  BY DEF Typed, Forget
-----------------------------------------------------------------------------
LEMMA InvInit == Init => Inv
<1> SUFFICES ASSUME Init PROVE Inv
  OBVIOUS
<1> USE DEF Init
<1>1. Typed
  <2>1. closedBit \in BOOLEAN
    BY Zenon
  <2>. QED BY <2>1 DEF Typed
<1>2. OnceInv /\ CloserInv /\ NoGateInv
  BY DEF OnceInv, CloserInv, NoGateInv
<1>3. Live = {}
  BY DEF Live, Working
<1>4. CountInv /\ DrainInv
  BY <1>3, FS_EmptySet DEF CountInv, DrainInv
<1>. QED BY <1>1, <1>2, <1>4 DEF Inv
-----------------------------------------------------------------------------
(* One lemma per action.                                                   *)
LEMMA LoadWorkersStep ==
  ASSUME Inv, NEW c \in Caller, LoadWorkers(c)
  PROVE  Inv'
<1> USE DEF Inv, Typed, LoadWorkers, Goto, fetchVars
<1>1. Typed'
  OBVIOUS
<1>2. OnceInv'
  BY DEF OnceInv
<1>3. CountInv' /\ DrainInv'
  BY DEF CountInv, Live, DrainInv
<1>4. CloserInv' /\ NoGateInv'
  BY DEF CloserInv, NoGateInv
<1>. QED BY <1>1, <1>2, <1>3, <1>4

LEMMA LoadOrStoreStep ==
  ASSUME Inv, NEW c \in Caller, LoadOrStore(c)
  PROVE  Inv'
<1> USE DEF LoadOrStore, Goto, fetchVars, gateVars
<1>1. Typed'
  BY DEF Inv, Typed
<1>2. OnceInv'
  BY DEF Inv, Typed, OnceInv
<1>3. ~(workers = "nil" \/ (closer = "closed" /\ ~closedBit))
  BY PastGate
<1>. QED BY <1>1, <1>2, <1>3, Elsewhere

LEMMA EnterOnceStep ==
  ASSUME Inv, NEW c \in Caller, EnterOnce(c)
  PROVE  Inv'
<1> USE DEF EnterOnce, Goto, gateVars
<1>1. Typed'
  BY DEF Inv, Typed
<1>2. OnceInv'
  BY DEF Inv, Typed, OnceInv
<1>3. ~(workers = "nil" \/ (closer = "closed" /\ ~closedBit))
  BY PastGate
<1>. QED BY <1>1, <1>2, <1>3, Elsewhere

\* SkipOnce, Serve and GiveUp: a caller that does not enter goes on.
LEMMA GoOnStep ==
  ASSUME Inv, NEW c \in Caller, SkipOnce(c) \/ Serve(c) \/ GiveUp(c)
  PROVE  Inv'
<1> USE DEF SkipOnce, Serve, GiveUp, Goto, fetchVars, gateVars
<1>1. Typed'
  BY DEF Inv, Typed
<1>2. OnceInv'
  BY DEF Inv, Typed, OnceInv
<1>3. ~(workers = "nil" \/ (closer = "closed" /\ ~closedBit))
  BY PastGate
<1>. QED BY <1>1, <1>2, <1>3, Elsewhere

LEMMA AdmitStep ==
  ASSUME Inv, NEW c \in Caller, Admit(c)
  PROVE  Inv'
<1> USE DEF Admit, Goto
<1>1. rf[c] \in Caller /\ worker[rf[c]] = "none"
  BY DEF Inv, Typed, OnceInv
<1>2. Typed'
  BY <1>1 DEF Inv, Typed, Working
<1>3. OnceInv'
  BY <1>1 DEF Inv, Typed, OnceInv
<1>4. CountInv'
  BY <1>1, OneMore DEF Inv
<1>5. DrainInv' /\ CloserInv'
  BY DEF Inv, Typed, DrainInv, CloserInv
<1>6. NoGateInv'
  BY PastGate DEF NoGateInv
<1>. QED BY <1>2, <1>3, <1>4, <1>5, <1>6 DEF Inv

LEMMA RefuseStep ==
  ASSUME Inv, NEW c \in Caller, Refuse(c)
  PROVE  Inv'
<1> USE DEF Refuse, Goto, gateVars
<1>1. rf[c] \in Caller
  BY DEF Inv, Typed
<1>2. Typed'
  BY <1>1, ForgetType DEF Inv, Typed
<1>3. OnceInv'
  BY <1>1 DEF Inv, Typed, OnceInv
<1>4. ~(workers = "nil" \/ (closer = "closed" /\ ~closedBit))
  BY PastGate
<1>. QED BY <1>2, <1>3, <1>4, Elsewhere

LEMMA CancelContextStep ==
  ASSUME Inv, NEW c \in Caller, CancelContext(c)
  PROVE  Inv'
<1> USE DEF CancelContext, gateVars, fetchVars
<1>1. Typed' /\ OnceInv'
  BY DEF Inv, Typed, OnceInv
<1>2. workers = "nil" \/ (closer = "closed" /\ ~closedBit)
          => \A d \in Caller : pc'[d] \in {"idle", "refused"}
  BY DEF Inv, NoGateInv
<1>. QED BY <1>1, <1>2, Elsewhere

\* The worker goes from one of its places to the next.
LEMMA MovesOn ==
  ASSUME Inv, NEW r \in Caller, worker[r] \in Working, NEW w \in Working,
         worker' = [worker EXCEPT ![r] = w], fetches' \in [Key -> Caller \cup {None}],
         UNCHANGED <<gateVars, closer, callVars, once>>
  PROVE  Inv'
<1> USE DEF gateVars, callVars
<1>1. Typed'
  BY DEF Inv, Typed
<1>2. OnceInv'
  BY DEF Inv, Typed, OnceInv, Working
<1>3. CountInv'
  BY SameLive DEF Inv
<1>4. DrainInv' /\ CloserInv'
  BY DEF Inv, DrainInv, CloserInv
<1>5. NoGateInv'
  BY PastGate DEF NoGateInv, Working
<1>. QED BY <1>1, <1>2, <1>3, <1>4, <1>5 DEF Inv

LEMMA WorkerSteps ==
  ASSUME Inv, NEW r \in Caller,
         StartWorker(r) \/ (\E kind : BlobReturns(r, kind)) \/ BlobPanics(r) \/ CloseDone(r)
  PROVE  Inv'
<1> USE DEF fetchVars, Working
<1>0. fetches \in [Key -> Caller \cup {None}]
  BY DEF Inv, Typed
<1>1. CASE StartWorker(r)
  BY <1>0, <1>1, ForgetType, MovesOn DEF StartWorker, Inv
<1>2. ASSUME NEW kind, BlobReturns(r, kind) PROVE Inv'
  BY <1>0, <1>2, ForgetType, MovesOn DEF BlobReturns, Inv
<1>3. CASE BlobPanics(r)
  BY <1>0, <1>3, MovesOn DEF BlobPanics
<1>4. CASE CloseDone(r)
  BY <1>0, <1>4, MovesOn DEF CloseDone
<1>. QED BY <1>1, <1>2, <1>3, <1>4

LEMMA LeaveStep ==
  ASSUME Inv, NEW r \in Caller, Leave(r)
  PROVE  Inv'
<1> USE DEF Leave, callVars, fetchVars
<1>1. CountInv' /\ count' \in Nat
  BY OneLess DEF Inv
<1>2. Typed'
  BY <1>1 DEF Inv, Typed
<1>3. OnceInv'
  BY DEF Inv, Typed, OnceInv
<1>4. DrainInv' /\ CloserInv'
  BY <1>1 DEF Inv, Typed, DrainInv, CloserInv
<1>5. NoGateInv'
  BY PastGate DEF NoGateInv
<1>. QED BY <1>1, <1>2, <1>3, <1>4, <1>5 DEF Inv

LEMMA SwapStep ==
  ASSUME Inv, Swap
  PROVE  Inv'
<1> USE DEF Inv, Swap, callVars, fetchVars
<1>1. Typed' /\ OnceInv'
  BY DEF Typed, OnceInv
<1>2. CountInv' /\ DrainInv'
  BY DEF CountInv, Live, DrainInv
<1>3. CloserInv' /\ NoGateInv'
  BY DEF Typed, CloserInv, NoGateInv
<1>. QED BY <1>1, <1>2, <1>3

LEMMA CloseGateStep ==
  ASSUME Inv, CloseGate
  PROVE  Inv'
<1> USE DEF Inv, CloseGate, callVars, fetchVars
<1>1. closedBit' \in BOOLEAN /\ closedBit'
  BY Zenon
<1>2. Typed' /\ OnceInv'
  BY <1>1 DEF Typed, OnceInv
<1>3. CountInv' /\ DrainInv'
  BY <1>1 DEF Typed, CloserInv, CountInv, Live, DrainInv
<1>4. CloserInv' /\ NoGateInv'
  BY <1>1 DEF CloserInv, NoGateInv
<1>. QED BY <1>2, <1>3, <1>4

LEMMA RangeStep ==
  ASSUME Inv, (\E k \in Key : CancelFetch(k)) \/ EndRange
  PROVE  Inv'
<1> USE DEF Inv, CancelFetch, EndRange, gateVars, callVars, fetchVars
<1>1. Typed' /\ OnceInv'
  BY DEF Typed, OnceInv
<1>2. CountInv' /\ DrainInv'
  BY DEF CountInv, Live, DrainInv
<1>3. CloserInv' /\ NoGateInv'
  BY DEF CloserInv, NoGateInv
<1>. QED BY <1>1, <1>2, <1>3

LEMMA JoinStep ==
  ASSUME Inv, Join
  PROVE  Inv'
<1> USE DEF Inv, Join, gateVars, callVars, fetchVars
<1>1. Typed' /\ OnceInv'
  BY DEF Typed, OnceInv
<1>2. CountInv' /\ DrainInv'
  BY DEF CountInv, Live, DrainInv
<1>3. closedBit /\ count = 0
  BY DEF CloserInv, DrainInv
<1>4. CloserInv' /\ NoGateInv'
  BY <1>3 DEF CloserInv, NoGateInv
<1>. QED BY <1>1, <1>2, <1>4

LEMMA InvUnchanged == Inv /\ UNCHANGED vars => Inv'
  BY DEF Inv, Typed, OnceInv, CountInv, Live, DrainInv, CloserInv, NoGateInv, vars, gateVars,
         callVars, fetchVars

LEMMA InvStep == Inv /\ [Next]_vars => Inv'
<1> SUFFICES ASSUME Inv, [Next]_vars PROVE Inv'
  OBVIOUS
<1>1. ASSUME NEW c \in Caller, LoadWorkers(c) \/ AcquireStep(c) \/ CancelContext(c) PROVE Inv'
  BY <1>1, LoadWorkersStep, LoadOrStoreStep, EnterOnceStep, GoOnStep, AdmitStep, RefuseStep,
     CancelContextStep DEF AcquireStep
<1>2. ASSUME NEW c \in Caller, WorkerStep(c) PROVE Inv'
  BY <1>2, WorkerSteps, LeaveStep DEF WorkerStep
<1>3. CASE Swap \/ CloseStep
  BY <1>3, SwapStep, CloseGateStep, RangeStep, JoinStep DEF CloseStep
<1>4. CASE Finished \/ UNCHANGED vars
  BY <1>4, InvUnchanged DEF Finished
<1>. QED BY <1>1, <1>2, <1>3, <1>4 DEF Next

LEMMA Invariance == Spec => []Inv
  BY InvInit, InvStep, PTL DEF Spec
-----------------------------------------------------------------------------
(* When Close has returned no worker runs, for any callers that raced it:  *)
(* either no gate was ever installed and nobody is past remoteWorkers, or  *)
(* the gate is closed and the workers it counted are gone                  *)
(* (httpinput.go: Close, admit, leave).                                    *)
THEOREM WorkersJoined == Spec => []CloseJoinsWorkers
<1>1. Inv => CloseJoinsWorkers
  BY NoneLive DEF Inv, Typed, CloserInv, NoGateInv, CloseJoinsWorkers, Working
<1>. QED BY <1>1, Invariance, PTL

(* drain is closed once, by Close or by the last worker behind it, and     *)
(* never while a worker is admitted (httpinput.go: leave, Close).          *)
THEOREM DrainClosedOnce == Spec => []DrainedOnce
<1>1. Inv => DrainedOnce
  BY DEF Inv, Typed, DrainInv, DrainedOnce
<1>. QED BY <1>1, Invariance, PTL
-----------------------------------------------------------------------------
(* Who is to wake whom.                                                    *)

Delivering == {"queued", "fetching", "settled"}

\* A once that was entered has its caller inside, one that is finished has
\* its result or a worker to deliver it, and only then is the result awaited.
WakeInv ==
    /\ done \in [Caller -> BOOLEAN]
    /\ \A r \in Caller : once[r] = "entered" => \E d \in Caller : rf[d] = r /\ pc[d] = "admitting"
    /\ \A r \in Caller : once[r] = "finished" => done[r] \/ worker[r] \in Delivering
    /\ \A c \in Caller : pc[c] = "waiting" => once[rf[c]] = "finished"

LEMMA WakeInit == Init => WakeInv
<1> SUFFICES ASSUME Init PROVE WakeInv
  OBVIOUS
<1>1. done \in [Caller -> BOOLEAN]
  BY Zenon DEF Init
<1>. QED BY <1>1 DEF Init, WakeInv

\* A worker goes on delivering or has closed done.
LEMMA WakeWorker ==
  ASSUME Inv, WakeInv, NEW r \in Caller, WorkerStep(r)
  PROVE  WakeInv'
<1>1. UNCHANGED <<pc, rf, once>> /\ worker[r] \in Delivering \cup {"leaving"}
  BY DEF WorkerStep, StartWorker, BlobReturns, BlobPanics, CloseDone, Leave, callVars, fetchVars, Delivering
<1>2. \A q \in Caller : q # r => worker'[q] = worker[q]
  BY DEF WorkerStep, StartWorker, BlobReturns, BlobPanics, CloseDone, Leave, Inv, Typed
<1>3. \/ UNCHANGED done /\ worker'[r] \in Delivering
      \/ done' = [done EXCEPT ![r] = TRUE]
      \/ UNCHANGED done /\ worker[r] = "leaving"
  BY DEF WorkerStep, StartWorker, BlobReturns, BlobPanics, CloseDone, Leave, fetchVars, Delivering, Inv, Typed
<1>4. done' \in [Caller -> BOOLEAN] /\ \A q \in Caller : done[q] => done'[q]
  BY <1>3 DEF WakeInv
<1>5. ASSUME once[r] = "finished" PROVE done'[r] \/ worker'[r] \in Delivering
  <2>1. CASE UNCHANGED done /\ worker[r] = "leaving"
    BY <2>1, <1>4, <1>5 DEF WakeInv, Delivering
  <2>2. CASE done' = [done EXCEPT ![r] = TRUE]
    BY <2>2, <1>4 DEF WakeInv
  <2>. QED BY <1>3, <2>1, <2>2
<1>. QED BY <1>1, <1>2, <1>4, <1>5 DEF WakeInv

LEMMA WakeAdmit ==
  ASSUME Inv, WakeInv, NEW c \in Caller, Admit(c) \/ Refuse(c)
  PROVE  WakeInv'
<1>1. /\ rf[c] \in Caller /\ pc[c] = "admitting" /\ once[rf[c]] = "entered" /\ worker[rf[c]] = "none"
      /\ pc \in [Caller -> {"idle", "loading", "starting", "admitting", "waiting", "served", "refused"}]
      /\ rf \in [Caller -> Caller] /\ DOMAIN once = Caller /\ DOMAIN worker = Caller
  BY DEF Admit, Refuse, Goto, Inv, Typed, OnceInv
<1>2. /\ pc' = [pc EXCEPT ![c] = "waiting"] /\ UNCHANGED rf
      /\ once' = [once EXCEPT ![rf[c]] = "finished"]
  BY DEF Admit, Refuse, Goto
<1>3. /\ done' \in [Caller -> BOOLEAN] /\ \A q \in Caller : q # rf[c] => done'[q] = done[q]
      /\ \A q \in Caller : q # rf[c] => worker'[q] = worker[q]
      /\ done'[rf[c]] \/ worker'[rf[c]] \in Delivering
  <2>1. CASE Admit(c)
    BY <2>1, <1>1 DEF Admit, WakeInv, Delivering
  <2>2. CASE Refuse(c)
    <3>1. done' \in [Caller -> BOOLEAN] /\ done'[rf[c]] /\ \A q \in Caller : q # rf[c] => done'[q] = done[q]
      BY <2>2, <1>1 DEF Refuse, WakeInv
    <3>. QED BY <3>1, <2>2 DEF Refuse
  <2>. QED BY <2>1, <2>2
<1>4. ASSUME NEW r \in Caller, once'[r] = "entered"
      PROVE  \E d \in Caller : rf'[d] = r /\ pc'[d] = "admitting"
  <2>1. r # rf[c] /\ once[r] = "entered"
    BY <1>1, <1>2, <1>4
  <2>2. PICK d \in Caller : rf[d] = r /\ pc[d] = "admitting"
    BY <2>1 DEF WakeInv
  <2>. QED BY <2>1, <2>2, <1>1, <1>2
<1>5. ASSUME NEW r \in Caller, once'[r] = "finished" PROVE done'[r] \/ worker'[r] \in Delivering
  BY <1>1, <1>2, <1>3, <1>5 DEF WakeInv
<1>6. ASSUME NEW d \in Caller, pc'[d] = "waiting" PROVE once'[rf'[d]] = "finished"
  BY <1>1, <1>2, <1>6 DEF WakeInv
<1>. QED BY <1>3, <1>4, <1>5, <1>6 DEF WakeInv

LEMMA WakeEnter ==
  ASSUME Inv, WakeInv, NEW c \in Caller, EnterOnce(c)
  PROVE  WakeInv'
<1>1. /\ rf[c] \in Caller /\ once[rf[c]] = "new" /\ once' = [once EXCEPT ![rf[c]] = "entered"]
      /\ pc[c] = "starting" /\ pc' = [pc EXCEPT ![c] = "admitting"] /\ UNCHANGED <<rf, done, worker>>
      /\ pc \in [Caller -> {"idle", "loading", "starting", "admitting", "waiting", "served", "refused"}]
      /\ rf \in [Caller -> Caller] /\ DOMAIN once = Caller
  BY DEF EnterOnce, Goto, Inv, Typed
<1>. QED BY <1>1 DEF WakeInv

LEMMA WakeCaller ==
  ASSUME Inv, WakeInv, NEW c \in Caller,
         LoadWorkers(c) \/ LoadOrStore(c) \/ SkipOnce(c) \/ Serve(c) \/ GiveUp(c) \/ CancelContext(c)
  PROVE  WakeInv'
<1>1. UNCHANGED <<once, done, worker>>
  BY DEF LoadWorkers, LoadOrStore, SkipOnce, Serve, GiveUp, CancelContext, fetchVars
<1>2. /\ \A d \in Caller : pc'[d] = "admitting" <=> pc[d] = "admitting"
      /\ \A d \in Caller : pc[d] = "admitting" => rf'[d] = rf[d]
  BY DEF LoadWorkers, LoadOrStore, SkipOnce, Serve, GiveUp, CancelContext, Goto, Inv, Typed
<1>3. ASSUME NEW d \in Caller, pc'[d] = "waiting" PROVE once[rf'[d]] = "finished"
  BY <1>3 DEF LoadWorkers, LoadOrStore, SkipOnce, Serve, GiveUp, CancelContext, Goto, Inv, Typed, WakeInv
<1>. QED BY <1>1, <1>2, <1>3 DEF WakeInv

LEMMA WakeStep == Inv /\ WakeInv /\ [Next]_vars => WakeInv'
<1> SUFFICES ASSUME Inv, WakeInv, [Next]_vars PROVE WakeInv'
  OBVIOUS
<1>1. ASSUME NEW c \in Caller, LoadWorkers(c) \/ AcquireStep(c) \/ CancelContext(c) PROVE WakeInv'
  BY <1>1, WakeCaller, WakeEnter, WakeAdmit DEF AcquireStep
<1>2. ASSUME NEW c \in Caller, WorkerStep(c) PROVE WakeInv'
  BY <1>2, WakeWorker
<1>3. CASE Swap \/ CloseStep \/ Finished \/ UNCHANGED vars
  <2>1. UNCHANGED <<pc, rf, once, done, worker>>
    BY <1>3 DEF Swap, CloseStep, CloseGate, CancelFetch, EndRange, Join, Finished, vars, callVars, fetchVars
  <2>. QED BY <2>1 DEF WakeInv
<1>. QED BY <1>1, <1>2, <1>3 DEF Next

(* Whoever waits has somebody left to wake it, for any number of callers   *)
(* of any keys and whatever Close, panics and cancellations do meanwhile   *)
(* (httpinput.go: start, acquire, wait, Close).                            *)
THEOREM NoLostWakeup == Spec => []NobodyForgotten
<1>1. Inv /\ WakeInv => NobodyForgotten
  <2> SUFFICES ASSUME Inv, WakeInv PROVE NobodyForgotten
    OBVIOUS
  <2>1. \A c \in Caller : rf[c] \in Caller
    BY DEF Inv, Typed
  <2>2. closer = "joining" /\ drains = 0 => \E r \in Caller : worker[r] \in Working
    <3> SUFFICES ASSUME closer = "joining", drains = 0, \A r \in Caller : worker[r] \notin Working
                 PROVE  FALSE
      OBVIOUS
    <3>1. Live = {}
      BY DEF Live
    <3>2. count = 0
      BY <3>1, FS_EmptySet DEF Inv, CountInv
    <3>. QED BY <3>2 DEF Inv, CloserInv, DrainInv
  <2>. QED BY <2>1, <2>2 DEF WakeInv, NobodyForgotten, Delivering, Working
<1>. QED BY <1>1, Invariance, WakeInit, WakeStep, PTL DEF Spec
-----------------------------------------------------------------------------
(* pkg/controllers/base/acquisition.go: Acquisition.                        *)

Places == Calling \cup {"none", "parked", "terminal", "stale"}

\* What the steps compare and count with.
AcquisitionTyped ==
    /\ stage \in Places /\ level \in {DrainNone, DrainCascade, DrainForce}
    /\ valid \in BOOLEAN /\ retained \in BOOLEAN /\ raced \in BOOLEAN /\ panicked \in BOOLEAN
    /\ handle \in {"none", "open", "closed"}
    /\ outstanding \in Int

\* Nothing is open where a new handle may take its place, and an execution
\* that the scheduler has given up retains nothing.
FreshInv ==
    /\ stage \in {"checkpoint", "fetch"} => handle = "none"
    /\ stage = "retry" => handle # "open"
    /\ stage = "none" => ~retained

\* pendingAcquisitionError.finish leaves a handle open only to who waits.
FinishInv == stage = "accept" /\ handle = "open" => result = "pending"

\* Where a closed handle has not been replaced yet, unless a Settle panicked.
ClosedInv ==
    handle = "closed" /\ ~panicked
        => /\ stage \in {"retry", "accept", "terminal", "stale"}
           /\ stage = "accept" => result # "pending" \/ ~valid

\* Nobody decides to wait at the last level.
LevelInv ==
    /\ stage \in {"checkpoint", "fetch"} => level = DrainNone
    /\ stage \in {"finish", "accept"} /\ result = "pending" => level # DrainForce

AcquisitionInv == /\ AcquisitionTyped /\ FreshInv /\ FinishInv /\ ClosedInv /\ LevelInv
       /\ LeaksOnlyInWindow /\ ForceDecides
-----------------------------------------------------------------------------
LEMMA AcquisitionInvInit == AcquisitionInit => AcquisitionInv
<1> SUFFICES ASSUME AcquisitionInit PROVE AcquisitionInv
  OBVIOUS
<1> USE DEF AcquisitionInit
<1>1. AcquisitionTyped
  <2>1. valid \in BOOLEAN /\ retained \in BOOLEAN /\ raced \in BOOLEAN /\ panicked \in BOOLEAN
    BY Zenon
  <2>. QED BY <2>1 DEF AcquisitionTyped, Places, DrainNone
<1>2. FreshInv /\ FinishInv /\ ClosedInv /\ LevelInv
  BY DEF FreshInv, FinishInv, ClosedInv, LevelInv
<1>3. LeaksOnlyInWindow /\ ForceDecides
  BY DEF LeaksOnlyInWindow, NoLeak, Held, ForceDecides
<1>. QED BY <1>1, <1>2, <1>3 DEF AcquisitionInv

LEMMA AcquisitionInvStep == AcquisitionInv /\ [AcquisitionNext]_acquisitionVars => AcquisitionInv'
<1> SUFFICES ASSUME AcquisitionInv, [AcquisitionNext]_acquisitionVars PROVE AcquisitionInv'
  OBVIOUS
<1> USE DEF AcquisitionInv, AcquisitionTyped, Places, Calling, FreshInv, FinishInv, ClosedInv,
            LevelInv, LeaksOnlyInWindow, NoLeak, Held, ForceDecides, DrainNone, DrainCascade, DrainForce,
            Continue, Give, close, Plain, Opened, MayBlock, prepVars
<1>1. CASE Select
  BY <1>1 DEF Select
<1>2. CASE Fetch
  BY <1>2 DEF Fetch, Classify
<1>3. CASE Settle
  BY <1>3 DEF Settle, SettleBody, Classify
<1>4. CASE Retry
  BY <1>4 DEF Retry
<1>5. CASE Advance
  BY <1>5 DEF Advance
<1>6. CASE Resolve
  BY <1>6 DEF Resolve
<1>7. CASE Recheck
  BY <1>7 DEF Recheck
<1>8. CASE Content
  BY <1>8 DEF Content
<1>9. CASE Complete
  BY <1>9 DEF Complete
<1>10. CASE finish
  BY <1>10 DEF finish
<1>11. CASE Accept
  BY <1>11 DEF Accept
<1>12. CASE Change
  <2>1. valid' \in BOOLEAN /\ ~valid'
    BY <1>12, Zenon DEF Change
  <2>2. AcquisitionTyped'
    BY <1>12, <2>1 DEF Change
  <2>3. FreshInv' /\ FinishInv' /\ ClosedInv' /\ LevelInv'
    BY <1>12, <2>1 DEF Change
  <2>4. LeaksOnlyInWindow' /\ ForceDecides'
    BY <1>12 DEF Change
  <2>. QED BY <2>2, <2>3, <2>4
<1>13. CASE Panic
  BY <1>13 DEF Panic
<1>14. CASE Retire
  <2>1. retained' \in BOOLEAN /\ ~retained'
    BY <1>14, Zenon DEF Retire
  <2>2. handle = "open" /\ ~raced => retained
    BY <1>14 DEF Retire
  <2>. QED BY <1>14, <2>1, <2>2 DEF Retire
<1>15. CASE ~raced /\ Dispatch
  BY <1>15 DEF Dispatch
<1>16. ASSUME NEW l \in {DrainCascade, DrainForce}, SettleExecution(l) PROVE AcquisitionInv'
  BY <1>16 DEF SettleExecution
<1>17. CASE UNCHANGED acquisitionVars
  BY <1>17 DEF acquisitionVars
<1>. QED
  BY <1>1, <1>2, <1>3, <1>4, <1>5, <1>6, <1>7, <1>8, <1>9, <1>10, <1>11, <1>12, <1>13, <1>14,
     <1>15, <1>16, <1>17 DEF AcquisitionNext, Step

LEMMA AcquisitionInvariance == AcquisitionSpec => []AcquisitionInv
  BY AcquisitionInvInit, AcquisitionInvStep, PTL DEF AcquisitionSpec
-----------------------------------------------------------------------------
(* Only a change between the two finish functions leaks a handle: as long  *)
(* as there was none, every handle that was opened and not closed is the   *)
(* one in the hands of a running call or of e.pending                      *)
(* (acquisition.go: finish; execution.go: finish, Retire).                 *)
THEOREM NoOtherLeak == AcquisitionSpec => []LeaksOnlyInWindow
<1>1. AcquisitionInv => LeaksOnlyInWindow
  BY DEF AcquisitionInv
<1>. QED BY <1>1, AcquisitionInvariance, PTL

(* A continuation never works on a handle that close has released, unless  *)
(* a Settle panicked (acquisition.go: advance).                            *)
THEOREM ClosedNeverUsed == AcquisitionSpec => []NoUseAfterClose
<1>1. AcquisitionInv => NoUseAfterClose
  BY DEF AcquisitionInv, ClosedInv, NoUseAfterClose
<1>. QED BY <1>1, AcquisitionInvariance, PTL

(* No acquisition stays parked at DrainForce (acquisition.go: Settle).     *)
THEOREM Decided == AcquisitionSpec => []ForceDecides
<1>1. AcquisitionInv => ForceDecides
  BY DEF AcquisitionInv
<1>. QED BY <1>1, AcquisitionInvariance, PTL
-----------------------------------------------------------------------------
(* Settle and advance call each other.  How far a call is from its end: a  *)
(* content fetch that misses a Secret leads back to Settle, and Settle to  *)
(* the content, but only as long as the machine credentials are unused.    *)

Awaits == missing # "none" /\ ~ambientConsumed

Remaining ==
    CASE stage = "checkpoint" -> 18
      [] stage = "fetch" -> 17
      [] stage = "settle" -> IF Awaits THEN 10 ELSE IF ambientConsumed THEN 9 ELSE 16
      [] stage = "retry" -> 9
      [] stage = "advance" -> IF ambientConsumed THEN 8 ELSE 15
      [] stage = "resolve" -> IF ambientConsumed THEN 7 ELSE 14
      [] stage = "recheck" -> IF ambientConsumed THEN 6 ELSE 13
      [] stage = "content" -> IF ambientConsumed THEN 5 ELSE 12
      [] stage = "complete" -> 3
      [] stage = "finish" -> 2
      [] stage = "accept" -> 1
      [] OTHER -> 0

\* The machine credentials are unused before the first fetch returns and used
\* once they are tried.
ConsumedInv ==
    /\ ambientConsumed \in BOOLEAN
    /\ stage \in {"checkpoint", "fetch"} => ~ambientConsumed
    /\ stage = "retry" => ambientConsumed

LEMMA ConsumedInit == AcquisitionInit => ConsumedInv
<1> SUFFICES ASSUME AcquisitionInit PROVE ConsumedInv
  OBVIOUS
<1>1. ambientConsumed \in BOOLEAN /\ ~ambientConsumed /\ stage = "none"
  BY Zenon DEF AcquisitionInit
<1>. QED BY <1>1 DEF ConsumedInv

LEMMA ConsumedStep == ConsumedInv /\ [AcquisitionNext]_acquisitionVars => ConsumedInv'
<1> SUFFICES ASSUME ConsumedInv, [AcquisitionNext]_acquisitionVars PROVE ConsumedInv'
  OBVIOUS
<1> USE DEF ConsumedInv, Continue, Give, prepVars
<1>1. CASE Settle
  <2>1. \/ UNCHANGED ambientConsumed /\ stage' \in {"finish", "advance"}
        \/ ambientConsumed' = TRUE /\ stage' = "retry"
    BY <1>1 DEF Settle, SettleBody, Classify
  <2>2. CASE UNCHANGED ambientConsumed /\ stage' \in {"finish", "advance"}
    BY <2>2
  <2>3. CASE ambientConsumed' = TRUE /\ stage' = "retry"
    <3>1. ambientConsumed' \in BOOLEAN /\ ambientConsumed'
      BY <2>3, Zenon
    <3>. QED BY <2>3, <3>1
  <2>. QED BY <2>1, <2>2, <2>3
<1>2. CASE ~raced /\ Dispatch
  <2>1. ambientConsumed' \in BOOLEAN /\ ~ambientConsumed'
    BY <1>2, Zenon DEF Dispatch
  <2>. QED BY <1>2, <2>1 DEF Dispatch
<1>3. CASE Select \/ Fetch \/ Retry \/ Advance \/ Resolve
  <2>1. UNCHANGED ambientConsumed
    BY <1>3 DEF Select, Fetch, Retry, Advance, Resolve
  <2>2. stage' # "retry" /\ (stage' \in {"checkpoint", "fetch"} => stage = "checkpoint")
    BY <1>3 DEF Select, Fetch, Classify, Retry, Advance, Resolve
  <2>. QED BY <2>1, <2>2
<1>4. CASE Recheck \/ Content \/ Complete \/ finish \/ Accept
  <2>1. UNCHANGED ambientConsumed
    BY <1>4 DEF Recheck, Content, Complete, finish, Accept
  <2>2. stage' \notin {"retry", "checkpoint", "fetch"}
    BY <1>4 DEF Recheck, Content, Complete, finish, Accept
  <2>. QED BY <2>1, <2>2
<1>5. CASE Change \/ UNCHANGED acquisitionVars
  <2>1. UNCHANGED <<ambientConsumed, stage>>
    BY <1>5 DEF Change, acquisitionVars
  <2>. QED BY <2>1
<1>6. CASE Panic \/ Retire \/ \E l \in {DrainCascade, DrainForce} : SettleExecution(l)
  <2>1. UNCHANGED ambientConsumed /\ stage' \notin {"retry", "checkpoint", "fetch"}
    BY <1>6 DEF Panic, Retire, SettleExecution
  <2>. QED BY <2>1
<1>. QED BY <1>1, <1>2, <1>3, <1>4, <1>5, <1>6 DEF AcquisitionNext, Step

LEMMA StepShortens == ConsumedInv /\ Step => Remaining' < Remaining /\ Remaining' \in 0 .. 18
<1> SUFFICES ASSUME ConsumedInv, Step PROVE Remaining' < Remaining /\ Remaining' \in 0 .. 18
  OBVIOUS
<1> USE DEF Continue, Give, prepVars, Remaining, Awaits
<1>1. CASE Select
  BY <1>1 DEF Select, ConsumedInv
<1>2. CASE Fetch
  BY <1>2 DEF Fetch, Classify, ConsumedInv
<1>3. CASE Settle
  <2>1. \/ UNCHANGED ambientConsumed /\ stage' = "finish"
        \/ ~Awaits /\ UNCHANGED ambientConsumed /\ stage' = "advance"
        \/ Awaits /\ ambientConsumed' = TRUE /\ stage' = "retry"
    BY <1>3 DEF Settle, SettleBody, Classify
  <2>2. stage = "settle"
    BY <1>3 DEF Settle, SettleBody
  <2>. QED BY <2>1, <2>2
<1>4. CASE Retry
  BY <1>4 DEF Retry, ConsumedInv
<1>5. CASE Advance
  BY <1>5 DEF Advance
<1>6. CASE Resolve
  BY <1>6 DEF Resolve
<1>7. CASE Recheck
  BY <1>7 DEF Recheck
<1>8. CASE Content
  BY <1>8 DEF Content
<1>9. CASE Complete
  BY <1>9 DEF Complete
<1>10. CASE finish
  BY <1>10 DEF finish
<1>11. CASE Accept
  BY <1>11 DEF Accept
<1>. QED BY <1>1, <1>2, <1>3, <1>4, <1>5, <1>6, <1>7, <1>8, <1>9, <1>10, <1>11 DEF Step

\* What others do meanwhile never sends a call back.
LEMMA OthersKeep ==
  ASSUME stage \in Calling, [AcquisitionNext]_acquisitionVars, ~Step
  PROVE  Remaining' = Remaining \/ Remaining' = 0
<1>1. CASE Change \/ UNCHANGED acquisitionVars
  <2>1. UNCHANGED <<stage, missing, ambientConsumed>>
    BY <1>1 DEF Change, acquisitionVars, prepVars
  <2>. QED BY <2>1 DEF Remaining, Awaits
<1>2. CASE Panic
  <2>1. stage' \in {"parked", "none"}
    BY <1>2 DEF Panic, Continue
  <2>. QED BY <2>1 DEF Remaining
<1>3. ~Retire /\ ~Dispatch /\ ~\E l \in {DrainCascade, DrainForce} : SettleExecution(l)
  BY DEF Retire, Dispatch, SettleExecution, Calling
<1>. QED BY <1>1, <1>2, <1>3 DEF AcquisitionNext

(* Every step that a call of Acquire or Settle takes brings it nearer to   *)
(* its end, and nothing that happens meanwhile sends it back: the mutual   *)
(* recursion of Settle and advance returns after eighteen steps at most    *)
(* (acquisition.go: Settle, advance).  With the fairness of                *)
(* FairAcquisition this is AcquireReturns.                                 *)
THEOREM CallsShorten ==
  AcquisitionSpec => [][/\ Step => Remaining' < Remaining /\ Remaining' >= 0
                        /\ stage \in Calling => Remaining' <= Remaining]_acquisitionVars
<1>1. ASSUME ConsumedInv, [AcquisitionNext]_acquisitionVars
      PROVE  [/\ Step => Remaining' < Remaining /\ Remaining' >= 0
              /\ stage \in Calling => Remaining' <= Remaining]_acquisitionVars
  <2>1. Remaining \in 0 .. 18
    BY DEF Remaining
  <2>2. CASE Step
    BY <1>1, <2>1, <2>2, StepShortens
  <2>3. CASE ~Step
    BY <1>1, <2>1, <2>3, OthersKeep
  <2>. QED BY <2>2, <2>3
<1>. QED BY <1>1, ConsumedInit, ConsumedStep, PTL DEF AcquisitionSpec
=============================================================================
