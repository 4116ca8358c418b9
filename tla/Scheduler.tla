----------------------------- MODULE Scheduler -----------------------------
(***************************************************************************)
(* pkg/schedule: drives the reconciliation of a set of declarations to a   *)
(* fixpoint.  One goroutine executes Run; every dispatched declaration has *)
(* a goroutine of the task service; all of them meet at Scheduler.mu, and  *)
(* every action below is one region that holds mu, or one call made        *)
(* outside it.                                                             *)
(*                                                                         *)
(* The Dispatcher behind the scheduler is nondeterministic here.  Of an    *)
(* assessment the scheduler sees whether it is valid and whether it is     *)
(* Blocked (it tells Terminal and DependencyFailed apart nowhere); of the  *)
(* store, that a publication makes some assessments invalid, and that      *)
(* Sweep names the owner of each invalid assessment exactly once.          *)
(***************************************************************************)
EXTENDS Integers, FiniteSets

CONSTANTS NodeID,           \* declarations; their order is NamedResource.Compare
          Seeds,            \* the declarations passed to Seed
          MaxRedispatches,  \* maxRedispatches, 32 in the code
          MaxPublications,  \* bound: the publications of one run
          MaxPanics,        \* bound: the panics of one run
          MaxEvents,        \* bound: publications, panics and cancellation together
          Cancellable       \* whether the caller's context may end during the run

NoNode == -1

ASSUME NodeIDAssumption == NodeID \subseteq Nat /\ IsFiniteSet(NodeID)
ASSUME SeedsAssumption == Seeds \subseteq NodeID
ASSUME BoundAssumption ==
    /\ MaxRedispatches \in Nat /\ MaxPublications \in Nat /\ MaxPanics \in Nat /\ MaxEvents \in Nat
    /\ Cancellable \in BOOLEAN

DrainNone == 0
DrainCascade == 1
DrainForce == 2
DrainLevel == {DrainNone, DrainCascade, DrainForce}

VARIABLES
    state, kept, redispatches, progressed, recheck,  \* nodes: kept is node.assessment
    runq, inFlight, err, stopped, published,         \* Scheduler; runq counts the entries of each id
    pc, level, quiescent, due, changed, swept, settling,  \* the locals of Run
    task, drain, fresh, seen, arriving,              \* the task of each node
    ctxDone, notified, failures, publications        \* the context, the task service, the bound

nodeVars == <<state, kept, redispatches, progressed, recheck>>
schedVars == <<runq, inFlight, err, stopped, published>>
runVars == <<pc, level, quiescent, due, changed, swept, settling>>
taskVars == <<task, drain, fresh, seen, arriving>>
Events == publications + failures + (IF ctxDone THEN 1 ELSE 0)

envVars == <<ctxDone, notified, failures, publications>>
vars == <<nodeVars, schedVars, runVars, taskVars, envVars>>

\* An assessment is live from the start of its capture until Retire.
Assessment == [live : BOOLEAN, valid : BOOLEAN, delivered : BOOLEAN,
               blocked : BOOLEAN, progressed : BOOLEAN]

Nil == [live |-> FALSE, valid |-> TRUE, delivered |-> FALSE,
        blocked |-> FALSE, progressed |-> TRUE]

\* What a Dispatch starts from: a capture that has read nothing yet.
Capture == [live |-> TRUE, valid |-> TRUE, delivered |-> FALSE,
            blocked |-> FALSE, progressed |-> TRUE]

Stale(a) == a.live /\ ~a.valid /\ ~a.delivered

Parked == {n \in NodeID : state[n] = "parked"}
Pending == {n \in NodeID : Stale(kept[n]) \/ Stale(fresh[n])}

\* The context of the tasks is done: by the caller, or by Run's own cancel().
runCtxDone == ctxDone \/ pc \in {"joining", "done"}

\* The assessment a node's task completes with.
Current(n) == IF drain[n] = DrainNone THEN fresh[n] ELSE kept[n]

Init ==
    /\ state = [n \in NodeID |-> IF n \in Seeds THEN "runnable" ELSE "absent"]
    /\ kept = [n \in NodeID |-> Nil]
    /\ redispatches = [n \in NodeID |-> 0]
    /\ progressed = [n \in NodeID |-> FALSE]
    /\ recheck = [n \in NodeID |-> FALSE]
    /\ runq = [n \in NodeID |-> IF n \in Seeds THEN 1 ELSE 0]
    /\ inFlight = 0
    /\ err = "none"
    /\ stopped = FALSE
    /\ published = FALSE
    /\ pc = "start"
    /\ level = DrainNone
    /\ quiescent = FALSE
    /\ due = {}
    /\ changed = {}
    /\ swept = FALSE
    /\ settling = {}
    /\ task = [n \in NodeID |-> "none"]
    /\ drain = [n \in NodeID |-> DrainNone]
    /\ fresh = [n \in NodeID |-> Nil]
    /\ seen = [n \in NodeID |-> TRUE]
    /\ arriving = [n \in NodeID |-> NoNode]
    /\ ctxDone = FALSE
    /\ notified = FALSE
    /\ failures = 0
    /\ publications = 0
-----------------------------------------------------------------------------
Least(n, S) == n \in S /\ \A m \in S : n <= m

\* cond.Broadcast
Broadcast == pc' = IF pc = "waiting" THEN "loop" ELSE pc

Invalidated(f, S) ==
    [n \in NodeID |-> IF n \in S /\ f[n].live THEN [f[n] EXCEPT !.valid = FALSE] ELSE f[n]]

\* A commit of the store: it may make any captured input stale.
Commit(S, T) ==
    /\ publications < MaxPublications /\ Events < MaxEvents
    /\ publications' = publications + 1
    /\ kept' = Invalidated(kept, S)
    /\ fresh' = Invalidated(fresh, T)

\* The listeners of a commit: OnArrival(a, TRUE) for a runnable declaration,
\* otherwise OnArrival(_, FALSE) or OnPublication, which do the same.
OnArrival(a) ==
    /\ published' = TRUE
    /\ IF a # NoNode /\ err = "none" /\ ~stopped /\ state[a] = "absent"
       THEN /\ state' = [state EXCEPT ![a] = "runnable"]
            /\ runq' = [runq EXCEPT ![a] = @ + 1]
       ELSE UNCHANGED <<state, runq>>

\* Mutant: a node that is already runnable is queued again.
requeueTwice(n, st, p, charge) ==
    IF err # "none"
    THEN state' = st /\ UNCHANGED <<runq, redispatches, err>>
    ELSE /\ state' = [st EXCEPT ![n] = "runnable"]
         /\ runq' = [runq EXCEPT ![n] = @ + 1]
         /\ UNCHANGED <<redispatches, err>>

\* st and p are the node's state and progressed flag as the caller has set them.
requeueLocked(n, st, p, charge) ==
    IF st[n] = "runnable" \/ err # "none"
    THEN state' = st /\ UNCHANGED <<runq, redispatches, err>>
    ELSE IF charge /\ p /\ redispatches[n] >= MaxRedispatches
    THEN state' = st /\ err' = "limit" /\ UNCHANGED <<runq, redispatches>>
    ELSE /\ state' = [st EXCEPT ![n] = "runnable"]
         /\ runq' = [runq EXCEPT ![n] = @ + 1]
         /\ redispatches' = [redispatches EXCEPT ![n] = IF charge /\ p THEN @ + 1 ELSE @]
         /\ UNCHANGED err

\* tasks.Go at drain level d; DrainNone is a Dispatch, the others a Settle.
Launch(n, d) ==
    /\ state' = [state EXCEPT ![n] = "running"]
    /\ inFlight' = inFlight + 1
    /\ task' = [task EXCEPT ![n] = "queued"]
    /\ drain' = [drain EXCEPT ![n] = d]
-----------------------------------------------------------------------------
(* Run                                                                     *)

Start ==
    /\ pc = "start"
    /\ pc' = "loop"
    /\ err' = IF ctxDone THEN "cancelled" ELSE err
    /\ UNCHANGED <<nodeVars, runq, inFlight, stopped, published, level, quiescent,
                   due, changed, swept, settling, taskVars, envVars>>

dispatchNextLocked(n) ==
    /\ pc = "loop" /\ err = "none"
    /\ Least(n, {m \in NodeID : runq[m] > 0})
    /\ level' = DrainNone
    /\ runq' = [runq EXCEPT ![n] = @ - 1]
    /\ Launch(n, DrainNone)
    /\ UNCHANGED <<kept, redispatches, progressed, recheck, err, stopped, published,
                   pc, quiescent, due, changed, swept, settling, fresh, seen, arriving, envVars>>

Wait ==
    /\ pc = "loop" /\ err = "none"
    /\ \A n \in NodeID : runq[n] = 0
    /\ inFlight # 0 /\ ~published
    /\ pc' = "waiting"
    /\ UNCHANGED <<nodeVars, schedVars, level, quiescent, due, changed, swept, settling,
                   taskVars, envVars>>

\* Mutant: an empty queue is taken for quiescence.
BeginSweepEager ==
    /\ pc = "loop" /\ err = "none"
    /\ \A n \in NodeID : runq[n] = 0
    /\ inFlight = 0 \/ published
    /\ quiescent' = TRUE
    /\ published' = FALSE
    /\ due' = Pending
    /\ changed' = {}
    /\ swept' = FALSE
    /\ pc' = "sweeping"
    /\ UNCHANGED <<nodeVars, runq, inFlight, err, stopped, level, settling, taskVars, envVars>>

\* Run unlocks mu and calls Dispatcher.Sweep, which starts with store.Sweep.
BeginSweep ==
    /\ pc = "loop" /\ err = "none"
    /\ \A n \in NodeID : runq[n] = 0
    /\ inFlight = 0 \/ published
    /\ quiescent' = (inFlight = 0)
    /\ published' = FALSE
    /\ due' = Pending
    /\ changed' = {}
    /\ swept' = FALSE
    /\ pc' = "sweeping"
    /\ UNCHANGED <<nodeVars, runq, inFlight, err, stopped, level, settling, taskVars, envVars>>

\* store.Sweep yields an owner with a stale registration, and marks it delivered.
Deliver(n) ==
    /\ pc \in {"sweeping", "resweeping"}
    /\ n \in Pending
    /\ kept' = [kept EXCEPT ![n].delivered = @ \/ Stale(kept[n])]
    /\ fresh' = [fresh EXCEPT ![n].delivered = @ \/ Stale(fresh[n])]
    /\ due' = due \ {n}
    /\ changed' = changed \cup {n}
    /\ swept' = TRUE
    /\ UNCHANGED <<state, redispatches, progressed, recheck, schedVars, pc, level, quiescent,
                   settling, task, drain, seen, arriving, envVars>>

\* Every registration that was stale when store.Sweep began is delivered or
\* retired; only a quiescent sweep that found nothing goes on to admissions.
EndStoreSweep ==
    /\ pc \in {"sweeping", "resweeping"}
    /\ due \cap Pending = {}
    /\ pc' = IF pc = "sweeping" /\ quiescent /\ ~swept /\ ~ctxDone THEN "admitting" ELSE "invalidating"
    /\ due' = {}
    /\ UNCHANGED <<nodeVars, schedVars, level, quiescent, changed, swept, settling,
                   taskVars, envVars>>

\* admitRawRoots, admitEntry and classifyCompleted publish, on Run's goroutine.
Admit(S, a) ==
    /\ pc = "admitting"
    /\ Commit(S, {})
    /\ OnArrival(a)
    /\ UNCHANGED <<redispatches, progressed, recheck, inFlight, err, stopped, runVars,
                   task, drain, seen, arriving, ctxDone, notified, failures>>

\* The store.Sweep that ends a quiescent sweep, whatever was admitted.
Resweep ==
    /\ pc = "admitting"
    /\ due' = Pending
    /\ pc' = "resweeping"
    /\ UNCHANGED <<nodeVars, schedVars, level, quiescent, changed, swept, settling,
                   taskVars, envVars>>

\* Mutant: a node that is running when its change is delivered is skipped.
invalidateSkipsRunning(n) ==
    /\ pc = "invalidating"
    /\ n \in changed
    /\ changed' = changed \ {n}
    /\ IF state[n] # "running" /\ kept[n].live /\ ~kept[n].valid
       THEN requeueLocked(n, state, progressed[n], state[n] # "parked")
       ELSE UNCHANGED <<state, runq, redispatches, err>>
    /\ UNCHANGED <<kept, progressed, recheck, inFlight, stopped, published, pc, level, quiescent,
                   due, swept, settling, taskVars, envVars>>

\* Mutant: only parked nodes are dispatched again, a terminal one is final.
invalidateParkedOnly(n) ==
    /\ pc = "invalidating"
    /\ n \in changed
    /\ changed' = changed \ {n}
    /\ IF state[n] = "running"
       THEN recheck' = [recheck EXCEPT ![n] = TRUE] /\ UNCHANGED <<state, runq, redispatches, err>>
       ELSE /\ IF state[n] = "parked" /\ kept[n].live /\ ~kept[n].valid
               THEN requeueLocked(n, state, progressed[n], FALSE)
               ELSE UNCHANGED <<state, runq, redispatches, err>>
            /\ UNCHANGED recheck
    /\ UNCHANGED <<kept, progressed, inFlight, stopped, published, pc, level, quiescent,
                   due, swept, settling, taskVars, envVars>>

\* One iteration of invalidate.  Between its two locked regions the state of
\* a node that is not running changes only on this goroutine.
invalidate(n) ==
    /\ pc = "invalidating"
    /\ n \in changed
    /\ changed' = changed \ {n}
    /\ IF state[n] = "running"
       THEN recheck' = [recheck EXCEPT ![n] = TRUE] /\ UNCHANGED <<state, runq, redispatches, err>>
       ELSE /\ IF kept[n].live /\ ~kept[n].valid
               THEN requeueLocked(n, state, progressed[n], state[n] # "parked")
               ELSE UNCHANGED <<state, runq, redispatches, err>>
            /\ UNCHANGED recheck
    /\ UNCHANGED <<kept, progressed, inFlight, stopped, published, pc, level, quiescent,
                   due, swept, settling, taskVars, envVars>>

\* Mutant: work in flight does not keep the boundary open.
BoundaryOpenIgnoresWork ==
    \/ swept \/ published \/ err # "none"
    \/ \E n \in NodeID : runq[n] > 0

\* Anything that moved during the sweep keeps the loop going.
BoundaryOpen ==
    \/ ~quiescent \/ swept \/ published \/ err # "none"
    \/ \E n \in NodeID : runq[n] > 0

\* The locals of one iteration go out of scope.
EndIteration == quiescent' = FALSE /\ swept' = FALSE /\ UNCHANGED <<due, changed>>

Resume ==
    /\ pc = "invalidating" /\ changed = {}
    /\ BoundaryOpen
    /\ pc' = "loop"
    /\ EndIteration
    /\ UNCHANGED <<nodeVars, schedVars, level, settling,
                   taskVars, envVars>>

\* No node is parked: break, s.stopped = true, cancel().
Converge ==
    /\ pc = "invalidating" /\ changed = {}
    /\ ~BoundaryOpen
    /\ Parked = {}
    /\ stopped' = TRUE
    /\ pc' = "joining"
    /\ EndIteration
    /\ UNCHANGED <<nodeVars, runq, inFlight, err, published, level, settling, taskVars, envVars>>

\* Nodes are parked although the last level was tried.
Unresolved ==
    /\ pc = "invalidating" /\ changed = {}
    /\ ~BoundaryOpen
    /\ Parked # {} /\ level = DrainForce
    /\ err' = "unresolved"
    /\ stopped' = TRUE
    /\ pc' = "joining"
    /\ EndIteration
    /\ UNCHANGED <<nodeVars, runq, inFlight, published, level, settling, taskVars, envVars>>

Escalate ==
    /\ pc = "invalidating" /\ changed = {}
    /\ ~BoundaryOpen
    /\ Parked # {} /\ level # DrainForce
    /\ level' = level + 1
    /\ settling' = Parked
    /\ pc' = "settling"
    /\ EndIteration
    /\ UNCHANGED <<nodeVars, schedVars, taskVars, envVars>>

\* Mutant: the task settles at the first level, whatever the level reached.
settleAtCascade(n) ==
    /\ pc = "settling" /\ err = "none"
    /\ Least(n, settling)
    /\ settling' = settling \ {n}
    /\ Launch(n, DrainCascade)
    /\ UNCHANGED <<kept, redispatches, progressed, recheck, runq, err, stopped, published,
                   pc, level, quiescent, due, changed, swept, fresh, seen, arriving, envVars>>

settleLocked(n) ==
    /\ pc = "settling" /\ err = "none"
    /\ Least(n, settling)
    /\ settling' = settling \ {n}
    /\ Launch(n, level)
    /\ UNCHANGED <<kept, redispatches, progressed, recheck, runq, err, stopped, published,
                   pc, level, quiescent, due, changed, swept, fresh, seen, arriving, envVars>>

EndSettle ==
    /\ pc = "settling"
    /\ settling = {} \/ err # "none"
    /\ settling' = {}
    /\ pc' = "loop"
    /\ UNCHANGED <<nodeVars, schedVars, level, quiescent, due, changed, swept, taskVars, envVars>>

\* The loop's condition fails: s.stopped = true, cancel().
Stop ==
    /\ pc = "loop" /\ err # "none"
    /\ stopped' = TRUE
    /\ pc' = "joining"
    /\ UNCHANGED <<nodeVars, runq, inFlight, err, published, level, quiescent, due, changed,
                   swept, settling, taskVars, envVars>>

\* BlockTillDone, Close, the last Sweep, and the error Run returns.
Return ==
    /\ pc = "joining"
    /\ \A n \in NodeID : task[n] = "none"
    /\ kept' = [n \in NodeID |-> [kept[n] EXCEPT !.delivered = @ \/ Stale(kept[n])]]
    /\ err' = IF err = "none" /\ ctxDone THEN "cancelled" ELSE err
    /\ pc' = "done"
    /\ UNCHANGED <<state, redispatches, progressed, recheck, runq, inFlight, stopped, published,
                   level, quiescent, due, changed, swept, settling, taskVars, envVars>>
-----------------------------------------------------------------------------
(* The tasks                                                               *)

EndTask(n) ==
    /\ task' = [task EXCEPT ![n] = "none"]
    /\ drain' = [drain EXCEPT ![n] = DrainNone]
    /\ seen' = [seen EXCEPT ![n] = TRUE]

\* Service.Go gives up waiting for a slot: the body, and complete, never run.
Drop(n) ==
    /\ task[n] = "queued"
    /\ runCtxDone
    /\ EndTask(n)
    /\ UNCHANGED <<nodeVars, schedVars, runVars, fresh, arriving, envVars>>

\* The body starts.  Dispatch captures into a new assessment; Settle returns
\* at once when its assessment is no longer valid.
StartBody(n) ==
    /\ task[n] = "queued"
    /\ IF drain[n] = DrainNone
       THEN /\ fresh' = [fresh EXCEPT ![n] = Capture]
            /\ task' = [task EXCEPT ![n] = "executing"]
       ELSE /\ task' = [task EXCEPT ![n] = IF kept[n].valid THEN "executing" ELSE "returned"]
            /\ UNCHANGED fresh
    /\ UNCHANGED <<nodeVars, schedVars, runVars, drain, seen, arriving, envVars>>

\* The body commits to the store; the listeners run after the commit.
Publish(n, S, T, a) ==
    /\ task[n] = "executing"
    /\ Commit(S, T)
    /\ arriving' = [arriving EXCEPT ![n] = a]
    /\ task' = [task EXCEPT ![n] = "notifying"]
    /\ UNCHANGED <<state, redispatches, progressed, recheck, schedVars, runVars, drain, seen,
                   ctxDone, notified, failures>>

Notify(n) ==
    /\ task[n] = "notifying"
    /\ OnArrival(arriving[n])
    /\ Broadcast
    /\ task' = [task EXCEPT ![n] = "executing"]
    /\ arriving' = [arriving EXCEPT ![n] = NoNode]
    /\ UNCHANGED <<kept, redispatches, progressed, recheck, inFlight, err, stopped, level,
                   quiescent, due, changed, swept, settling, drain, fresh, seen, envVars>>

\* Dispatch returns its assessment, or none for a declaration no controller owns.
ReturnDispatch(n, owned, blocked, prog) ==
    /\ task[n] = "executing" /\ drain[n] = DrainNone
    /\ fresh' = [fresh EXCEPT ![n] =
                    IF owned THEN [@ EXCEPT !.blocked = blocked, !.progressed = prog] ELSE Nil]
    /\ task' = [task EXCEPT ![n] = "returned"]
    /\ UNCHANGED <<nodeVars, schedVars, runVars, drain, seen, arriving, envVars>>

\* Settle returns.  At DrainForce classifyAbsent, classifyPresent and
\* Acquire.Settle decide every gate of a valid capture; a stale one is left.
ReturnSettle(n, blocked, prog) ==
    /\ task[n] = "executing" /\ drain[n] # DrainNone
    /\ blocked => drain[n] # DrainForce \/ ~kept[n].valid
    /\ kept' = [kept EXCEPT ![n] = [@ EXCEPT !.blocked = blocked, !.progressed = prog]]
    /\ task' = [task EXCEPT ![n] = "returned"]
    /\ UNCHANGED <<state, redispatches, progressed, recheck, schedVars, runVars, drain, fresh,
                   seen, arriving, envVars>>

\* The body panics: Dispatch retires its capture and returns no assessment,
\* Settle leaves the assessment as it was.  complete is deferred and still runs.
Panic(n) ==
    /\ task[n] = "executing"
    /\ failures < MaxPanics /\ Events < MaxEvents
    /\ failures' = failures + 1
    /\ fresh' = [fresh EXCEPT ![n] = Nil]
    /\ task' = [task EXCEPT ![n] = "returned"]
    /\ UNCHANGED <<nodeVars, schedVars, runVars, drain, seen, arriving, ctxDone, notified,
                   publications>>

\* complete before it locks mu: a replaced assessment retires, the result is read.
Assess(n) ==
    /\ task[n] = "returned"
    /\ kept' = IF drain[n] = DrainNone THEN [kept EXCEPT ![n] = Nil] ELSE kept
    /\ seen' = [seen EXCEPT ![n] = Current(n).valid]
    /\ task' = [task EXCEPT ![n] = "completing"]
    /\ UNCHANGED <<state, redispatches, progressed, recheck, schedVars, runVars, drain, fresh,
                   arriving, envVars>>

\* A sweep named the node while it ran: unlock, and read Valid once more.
Recheck(n) ==
    /\ task[n] = "completing"
    /\ recheck[n] /\ seen[n] /\ Current(n).live
    /\ recheck' = [recheck EXCEPT ![n] = FALSE]
    /\ task' = [task EXCEPT ![n] = "rechecking"]
    /\ UNCHANGED <<state, kept, redispatches, progressed, schedVars, runVars, drain, fresh, seen,
                   arriving, envVars>>

Revalidate(n) ==
    /\ task[n] = "rechecking"
    /\ seen' = [seen EXCEPT ![n] = Current(n).valid]
    /\ task' = [task EXCEPT ![n] = "completing"]
    /\ UNCHANGED <<nodeVars, schedVars, runVars, drain, fresh, arriving, envVars>>

\* complete under mu.
complete(n) ==
    /\ task[n] = "completing"
    /\ ~(recheck[n] /\ seen[n] /\ Current(n).live)
    /\ recheck' = [recheck EXCEPT ![n] = FALSE]
    /\ kept' = [kept EXCEPT ![n] = Current(n)]
    /\ fresh' = [fresh EXCEPT ![n] = Nil]
    /\ progressed' = [progressed EXCEPT ![n] = Current(n).progressed]
    /\ inFlight' = inFlight - 1
    /\ LET st == [state EXCEPT ![n] = IF Current(n).blocked THEN "parked" ELSE "terminal"]
       IN  IF seen[n]
           THEN state' = st /\ UNCHANGED <<runq, redispatches, err>>
           ELSE requeueLocked(n, st, Current(n).progressed, ~Current(n).blocked)
    /\ Broadcast
    /\ EndTask(n)
    /\ UNCHANGED <<stopped, published, level, quiescent, due, changed, swept, settling, arriving,
                   envVars>>
-----------------------------------------------------------------------------
(* The caller's context                                                    *)

Cancel ==
    /\ Cancellable /\ ~ctxDone /\ pc # "done" /\ Events < MaxEvents
    /\ ctxDone' = TRUE
    /\ UNCHANGED <<nodeVars, schedVars, runVars, taskVars, notified, failures, publications>>

\* Mutant: the error is set and the waiter is not woken.
notifyWithoutBroadcast ==
    /\ ctxDone /\ ~notified /\ pc \notin {"start", "done"}
    /\ notified' = TRUE
    /\ err' = IF err = "none" THEN "cancelled" ELSE err
    /\ UNCHANGED <<nodeVars, runq, inFlight, stopped, published, runVars, taskVars, ctxDone,
                   failures, publications>>

\* context.AfterFunc, registered by Run, runs on a goroutine of its own.
notifyCancellation ==
    /\ ctxDone /\ ~notified /\ pc \notin {"start", "done"}
    /\ notified' = TRUE
    /\ err' = IF err = "none" THEN "cancelled" ELSE err
    /\ Broadcast
    /\ UNCHANGED <<nodeVars, runq, inFlight, stopped, published, level, quiescent, due, changed,
                   swept, settling, taskVars, ctxDone, failures, publications>>

Done == pc = "done" /\ UNCHANGED vars
-----------------------------------------------------------------------------
RunStep ==
    \/ Start \/ Wait \/ BeginSweep \/ EndStoreSweep \/ Resweep
    \/ Resume \/ Converge \/ Unresolved \/ Escalate \/ EndSettle \/ Stop \/ Return
    \/ \E n \in NodeID :
          dispatchNextLocked(n) \/ Deliver(n) \/ invalidate(n) \/ settleLocked(n)

TaskStep(n) ==
    \/ Drop(n) \/ StartBody(n) \/ Notify(n) \/ Assess(n) \/ Recheck(n) \/ Revalidate(n) \/ complete(n)
    \/ \E owned, blocked, prog \in BOOLEAN : ReturnDispatch(n, owned, blocked, prog)
    \/ \E blocked, prog \in BOOLEAN : ReturnSettle(n, blocked, prog)

\* What may happen and need not.
Readers(f) == {n \in NodeID : f[n].live /\ f[n].valid}
Arrival == {n \in NodeID : state[n] = "absent"} \cup {NoNode}

Disturbance ==
    \/ Cancel
    \/ \E S \in SUBSET Readers(kept), a \in Arrival : Admit(S, a)
    \/ \E n \in NodeID :
          \/ Panic(n)
          \/ \E S \in SUBSET Readers(kept), T \in SUBSET Readers(fresh), a \in Arrival :
                Publish(n, S, T, a)

Next == RunStep \/ notifyCancellation \/ (\E n \in NodeID : TaskStep(n)) \/ Disturbance \/ Done

Spec == Init /\ [][Next]_vars

\* As long as some goroutine can run, one does, and every Dispatch and Settle returns.
Fairness == WF_vars(RunStep \/ notifyCancellation \/ \E n \in NodeID : TaskStep(n))

FairSpec == Spec /\ Fairness
-----------------------------------------------------------------------------
TypeOK ==
    /\ state \in [NodeID -> {"absent", "runnable", "running", "parked", "terminal"}]
    /\ kept \in [NodeID -> Assessment]
    /\ redispatches \in [NodeID -> 0 .. MaxRedispatches]
    /\ progressed \in [NodeID -> BOOLEAN]
    /\ recheck \in [NodeID -> BOOLEAN]
    /\ runq \in [NodeID -> Nat]
    /\ inFlight \in Nat
    /\ err \in {"none", "cancelled", "limit", "unresolved"}
    /\ stopped \in BOOLEAN
    /\ published \in BOOLEAN
    /\ pc \in {"start", "loop", "waiting", "sweeping", "admitting", "resweeping",
               "invalidating", "settling", "joining", "done"}
    /\ level \in DrainLevel
    /\ quiescent \in BOOLEAN
    /\ due \subseteq NodeID
    /\ changed \subseteq NodeID
    /\ swept \in BOOLEAN
    /\ settling \subseteq NodeID
    /\ task \in [NodeID -> {"none", "queued", "executing", "notifying", "returned",
                           "completing", "rechecking"}]
    /\ drain \in [NodeID -> DrainLevel]
    /\ fresh \in [NodeID -> Assessment]
    /\ seen \in [NodeID -> BOOLEAN]
    /\ arriving \in [NodeID -> NodeID \cup {NoNode}]
    /\ ctxDone \in BOOLEAN
    /\ notified \in BOOLEAN
    /\ failures \in 0 .. MaxPanics
    /\ publications \in 0 .. MaxPublications

(* The queue and the counter Run decides on never drift from the nodes:    *)
(* a node is queued exactly once while it is runnable and never otherwise, *)
(* whichever of OnArrival, invalidate and complete queued it, and inFlight *)
(* counts the nodes whose completion is still owed.                        *)
Accounting ==
    /\ \A n \in NodeID : runq[n] = IF state[n] = "runnable" THEN 1 ELSE 0
    /\ inFlight = Cardinality({n \in NodeID : state[n] = "running"})

(* Dispatcher.Sweep(_, true), which classifies and admits as if the run    *)
(* were over, never overlaps a task that could still publish.              *)
QuiescentSweep ==
    quiescent /\ pc \in {"sweeping", "admitting", "resweeping", "invalidating"}
        => \A n \in NodeID : task[n] = "none"

(* An invalidation is never lost: once no task owns the node any more, an  *)
(* invalid assessment is still to be delivered, is in the list invalidate  *)
(* is working on, or has its node queued; only a failed run forgets it.    *)
NoLostInvalidation ==
    \A n \in NodeID :
        state[n] \in {"parked", "terminal"} /\ kept[n].live /\ ~kept[n].valid
            => ~kept[n].delivered \/ n \in changed \/ err # "none"

(* When Run returns nil the fixpoint is real: every declaration that       *)
(* arrived has completed, none is parked, and no retained assessment has   *)
(* read an input that changed since.                                       *)
FixpointSound ==
    pc = "done" /\ err = "none"
        => \A n \in NodeID :
              /\ state[n] \in {"absent", "terminal"}
              /\ kept[n].live => kept[n].valid /\ ~kept[n].blocked

(* Run never sleeps through a signal: while it waits on cond there is no   *)
(* error, publication or queued node it should act on, and a task or the   *)
(* cancellation callback is left that will broadcast, also when tasks were *)
(* dropped and their completion will never come.                           *)
NoMissedWakeup ==
    pc = "waiting" =>
        /\ err = "none" /\ ~published /\ \A n \in NodeID : runq[n] = 0
        /\ (\E n \in NodeID : task[n] # "none") \/ (ctxDone /\ ~notified)

(* The drain level rises only at a settled boundary: nothing runs, nothing *)
(* is queued, and every parked assessment that the higher level will judge *)
(* is judged on inputs that are current.                                   *)
EscalatesWhenSettled ==
    [][level' > level =>
          \A n \in NodeID : /\ state[n] \in {"absent", "parked", "terminal"}
                            /\ kept[n].live => kept[n].valid]_vars

(* The error "unresolved assessment after structural classification" is    *)
(* never an artefact of scheduling: it takes a body that panicked.         *)
UnresolvedOnlyAfterPanic == err = "unresolved" => failures > 0

(* Run returns: no wake-up of cond.Wait is missed, a cancelled run is not  *)
(* left waiting for tasks that were dropped, and the drain levels end.     *)
Terminates == <>(pc = "done")
=============================================================================
