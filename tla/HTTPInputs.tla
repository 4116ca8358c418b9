----------------------------- MODULE HTTPInputs -----------------------------
(***************************************************************************)
(* pkg/source/httpinput.go: one run's shared HTTP acquisitions.  Callers   *)
(* of one key share a remoteFetch, whose worker outlives any of them;      *)
(* Close shuts the admission gate, cancels the workers and joins them.     *)
(* Every caller calls Acquire once, so its candidate remoteFetch carries   *)
(* its name.                                                               *)
(***************************************************************************)
EXTENDS Integers, FiniteSets

CONSTANTS Caller, Key, None

ASSUME CallerAssumption == IsFiniteSet(Caller) /\ None \notin Caller

VARIABLES
    workers,   \* HTTPInputs.workers: nil, the open gate, or closedRemoteWorkers
    closedBit, count, drains,  \* remoteWorkers: state's two parts, the closes of drain
    fetches,   \* remoteFetches: the remoteFetch stored for each key
    closer, ranging,           \* the body of closeOnce.Do, and the keys Range has still to visit
    pc, key, rf, ctxDone,      \* each caller of Acquire
    once, cancel, cancelled, done, outcome,  \* each remoteFetch; cancel: the func is stored
    worker     \* the task that acquires for a remoteFetch

gateVars == <<workers, closedBit, count, drains>>
callVars == <<pc, key, rf, ctxDone>>
fetchVars == <<once, cancel, cancelled, done, outcome>>
vars == <<gateVars, fetches, closer, ranging, callVars, fetchVars, worker>>

Init ==
    /\ workers = "nil" /\ closedBit = FALSE /\ count = 0 /\ drains = 0
    /\ fetches = [k \in Key |-> None]
    /\ closer = "idle" /\ ranging = {}
    /\ pc = [c \in Caller |-> "idle"]
    /\ key \in [Caller -> Key]
    /\ rf = [c \in Caller |-> c]
    /\ ctxDone = [c \in Caller |-> FALSE]
    /\ once = [c \in Caller |-> "new"]
    /\ cancel = [c \in Caller |-> FALSE]
    /\ cancelled = [c \in Caller |-> FALSE]
    /\ done = [c \in Caller |-> FALSE]
    /\ outcome = [c \in Caller |-> "none"]
    /\ worker = [c \in Caller |-> "none"]

Goto(c, from, to) == pc[c] = from /\ pc' = [pc EXCEPT ![c] = to]

\* CompareAndDelete(key, r)
Forget(r) == fetches' = [fetches EXCEPT ![key[r]] = IF @ = r THEN None ELSE @]
-----------------------------------------------------------------------------
(* Mutants: plausible mistakes around the gate and the map.                *)

\* admit does not look at the closed bit.
AdmitAlways(c) ==
    /\ Goto(c, "admitting", "waiting")
    /\ once' = [once EXCEPT ![rf[c]] = "finished"]
    /\ count' = count + 1
    /\ worker' = [worker EXCEPT ![rf[c]] = "queued"]
    /\ UNCHANGED <<workers, closedBit, drains, fetches, closer, ranging, key, rf, ctxDone, cancel,
                   cancelled, done, outcome>>

\* The last worker closes drain although the gate is open.
LeaveAlwaysDrains(r) ==
    /\ worker[r] = "leaving"
    /\ worker' = [worker EXCEPT ![r] = "ended"]
    /\ count' = count - 1
    /\ drains' = IF count' = 0 THEN drains + 1 ELSE drains
    /\ UNCHANGED <<workers, closedBit, fetches, closer, ranging, callVars, fetchVars>>

\* A caller refused at the gate leaves its followers waiting.
RefuseSilently(c) ==
    /\ closedBit
    /\ Goto(c, "admitting", "refused")
    /\ once' = [once EXCEPT ![rf[c]] = "finished"]
    /\ outcome' = [outcome EXCEPT ![rf[c]] = "closed"]
    /\ UNCHANGED <<gateVars, fetches, closer, ranging, key, rf, ctxDone, cancel, cancelled, done, worker>>
-----------------------------------------------------------------------------
(* Acquire                                                                 *)

\* ctx.Err() and remoteWorkers(), whose CompareAndSwap installs the one gate.
LoadWorkers(c) ==
    /\ Goto(c, "idle", IF ctxDone[c] \/ workers = "closed" THEN "refused" ELSE "loading")
    /\ workers' = IF ~ctxDone[c] /\ workers = "nil" THEN "open" ELSE workers
    /\ UNCHANGED <<closedBit, count, drains, fetches, closer, ranging, key, rf, ctxDone, fetchVars, worker>>

LoadOrStore(c) ==
    LET found == fetches[key[c]] IN
    /\ Goto(c, "loading", "starting")
    /\ rf' = [rf EXCEPT ![c] = IF found = None THEN c ELSE found]
    /\ fetches' = [fetches EXCEPT ![key[c]] = IF found = None THEN c ELSE found]
    /\ UNCHANGED <<gateVars, closer, ranging, key, ctxDone, fetchVars, worker>>

\* start.Do: the first caller enters and stores the cancel func.
EnterOnce(c) ==
    /\ once[rf[c]] = "new"
    /\ once' = [once EXCEPT ![rf[c]] = "entered"]
    /\ cancel' = [cancel EXCEPT ![rf[c]] = TRUE]
    /\ Goto(c, "starting", "admitting")
    /\ UNCHANGED <<gateVars, fetches, closer, ranging, key, rf, ctxDone, cancelled, done, outcome, worker>>

\* start.Do: any other caller returns once the first one has.
SkipOnce(c) ==
    /\ once[rf[c]] = "finished"
    /\ Goto(c, "starting", "waiting")
    /\ UNCHANGED <<gateVars, fetches, closer, ranging, key, rf, ctxDone, fetchVars, worker>>

\* admit succeeds and the worker is submitted; its context is never dropped.
Admit(c) ==
    /\ ~closedBit
    /\ Goto(c, "admitting", "waiting")
    /\ once' = [once EXCEPT ![rf[c]] = "finished"]
    /\ count' = count + 1
    /\ worker' = [worker EXCEPT ![rf[c]] = "queued"]
    /\ UNCHANGED <<workers, closedBit, drains, fetches, closer, ranging, key, rf, ctxDone, cancel,
                   cancelled, done, outcome>>

\* admit fails: the remoteFetch is forgotten and its followers get fs.ErrClosed.
Refuse(c) ==
    /\ closedBit
    /\ Goto(c, "admitting", "waiting")
    /\ once' = [once EXCEPT ![rf[c]] = "finished"]
    /\ cancelled' = [cancelled EXCEPT ![rf[c]] = TRUE]
    /\ cancel' = [cancel EXCEPT ![rf[c]] = FALSE]
    /\ outcome' = [outcome EXCEPT ![rf[c]] = "closed"]
    /\ Forget(rf[c])
    /\ done' = [done EXCEPT ![rf[c]] = TRUE]
    /\ UNCHANGED <<gateVars, closer, ranging, key, rf, ctxDone, worker>>

\* wait's select: the shared result, or the caller's own cancellation.
Serve(c) ==
    /\ done[rf[c]]
    /\ Goto(c, "waiting", "served")
    /\ UNCHANGED <<gateVars, fetches, closer, ranging, key, rf, ctxDone, fetchVars, worker>>

GiveUp(c) ==
    /\ ctxDone[c]
    /\ Goto(c, "waiting", "refused")
    /\ UNCHANGED <<gateVars, fetches, closer, ranging, key, rf, ctxDone, fetchVars, worker>>

CancelContext(c) ==
    /\ ~ctxDone[c] /\ pc[c] \notin {"served", "refused"}
    /\ ctxDone' = [ctxDone EXCEPT ![c] = TRUE]
    /\ UNCHANGED <<gateVars, fetches, closer, ranging, pc, key, rf, fetchVars, worker>>
-----------------------------------------------------------------------------
(* The worker: remoteFetch.acquire and the two deferred functions          *)

\* The worker's context may be done before its body starts.
StartWorker(r) ==
    /\ worker[r] = "queued"
    /\ IF cancelled[r]
       THEN /\ outcome' = [outcome EXCEPT ![r] = "transient"]
            /\ Forget(r)
            /\ worker' = [worker EXCEPT ![r] = "settled"]
       ELSE /\ worker' = [worker EXCEPT ![r] = "fetching"]
            /\ UNCHANGED <<outcome, fetches>>
    /\ UNCHANGED <<gateVars, closer, ranging, callVars, once, cancel, cancelled, done>>

\* owner.Blob returns; only content and definitive client errors are kept.
BlobReturns(r, kind) ==
    /\ worker[r] = "fetching"
    /\ outcome' = [outcome EXCEPT ![r] = kind]
    /\ IF kind = "transient" THEN Forget(r) ELSE UNCHANGED fetches
    /\ worker' = [worker EXCEPT ![r] = "settled"]
    /\ UNCHANGED <<gateVars, closer, ranging, callVars, once, cancel, cancelled, done>>

\* owner.Blob panics: the deferred functions run all the same, but the remoteFetch
\* keeps its place in the map with neither content nor an error.
BlobPanics(r) ==
    /\ worker[r] = "fetching"
    /\ worker' = [worker EXCEPT ![r] = "settled"]
    /\ UNCHANGED <<gateVars, fetches, closer, ranging, callVars, fetchVars>>

\* cancel(), cancel.Store(nil), close(done)
CloseDone(r) ==
    /\ worker[r] = "settled"
    /\ cancelled' = [cancelled EXCEPT ![r] = TRUE]
    /\ cancel' = [cancel EXCEPT ![r] = FALSE]
    /\ done' = [done EXCEPT ![r] = TRUE]
    /\ worker' = [worker EXCEPT ![r] = "leaving"]
    /\ UNCHANGED <<gateVars, fetches, closer, ranging, callVars, once, outcome>>

\* state.Add(-1): the last worker behind a closed gate closes drain.
Leave(r) ==
    /\ worker[r] = "leaving"
    /\ worker' = [worker EXCEPT ![r] = "ended"]
    /\ count' = count - 1
    /\ drains' = IF closedBit /\ count' = 0 THEN drains + 1 ELSE drains
    /\ UNCHANGED <<workers, closedBit, fetches, closer, ranging, callVars, fetchVars>>
-----------------------------------------------------------------------------
(* Close; closeOnce makes every other caller wait for this one             *)

\* workers.Swap: without a gate there was never a worker.
Swap ==
    /\ closer = "idle"
    /\ workers' = "closed"
    /\ closer' = IF workers = "nil" THEN "closed" ELSE "gating"
    /\ UNCHANGED <<closedBit, count, drains, fetches, ranging, callVars, fetchVars, worker>>

\* state.Or(remoteClosed) returns zero when no worker is admitted.
CloseGate ==
    /\ closer = "gating"
    /\ closedBit' = TRUE
    /\ drains' = IF count = 0 THEN drains + 1 ELSE drains
    /\ ranging' = Key
    /\ closer' = "ranging"
    /\ UNCHANGED <<workers, count, fetches, callVars, fetchVars, worker>>

\* Range cancels the worker of each remoteFetch it meets.
CancelFetch(k) ==
    /\ closer = "ranging"
    /\ k \in ranging
    /\ ranging' = ranging \ {k}
    /\ cancelled' = [r \in Caller |-> cancelled[r] \/ (fetches[k] = r /\ cancel[r])]
    /\ UNCHANGED <<gateVars, fetches, closer, callVars, once, cancel, done, outcome, worker>>

EndRange ==
    /\ closer = "ranging" /\ ranging = {}
    /\ closer' = "joining"
    /\ UNCHANGED <<gateVars, fetches, ranging, callVars, fetchVars, worker>>

\* <-workers.drain, remoteFetches.Clear()
Join ==
    /\ closer = "joining" /\ drains > 0
    /\ fetches' = [k \in Key |-> None]
    /\ closer' = "closed"
    /\ UNCHANGED <<gateVars, ranging, callVars, fetchVars, worker>>

AcquireStep(c) ==
    LoadOrStore(c) \/ EnterOnce(c) \/ SkipOnce(c) \/ Admit(c) \/ Refuse(c) \/ Serve(c) \/ GiveUp(c)

WorkerStep(r) ==
    \/ StartWorker(r) \/ BlobPanics(r) \/ CloseDone(r) \/ Leave(r)
    \/ \E kind \in {"content", "client", "transient"} : BlobReturns(r, kind)

CloseStep == CloseGate \/ (\E k \in Key : CancelFetch(k)) \/ EndRange \/ Join

Finished ==
    /\ closer = "closed" /\ \A c \in Caller : pc[c] \in {"served", "refused"}
    /\ UNCHANGED vars

Next ==
    \/ \E c \in Caller : LoadWorkers(c) \/ AcquireStep(c) \/ CancelContext(c) \/ WorkerStep(c)
    \/ Swap \/ CloseStep
    \/ Finished

Spec == Init /\ [][Next]_vars

\* Goroutines run, a queued worker gets a slot, and owner.Blob returns.
Fairness ==
    /\ \A c \in Caller : WF_vars(AcquireStep(c)) /\ WF_vars(WorkerStep(c))
    /\ WF_vars(CloseStep)

FairSpec == Spec /\ Fairness
-----------------------------------------------------------------------------
(* Close joins: once it returns no worker runs and none will ever start,   *)
(* not even for a caller that had passed remoteWorkers before the swap, so *)
(* backing storage may be released.                                        *)
CloseJoinsWorkers == closer = "closed" => \A r \in Caller : worker[r] \in {"none", "ended"}

(* The channel drain is closed at most once (a second close would panic)   *)
(* and never before the gate is: the closed bit and the count share one    *)
(* word, so exactly one of Close and the last worker sees it drained.      *)
DrainedOnce == drains <= 1 /\ (drains = 1 => closedBit /\ count = 0)

(* Whoever waits has somebody left to wake it: behind start.Do the caller  *)
(* that entered it, for a shared result the worker that will close done,   *)
(* and for drain a worker that is still counted.  A refusal, a panic or a  *)
(* cancellation never leaves a follower, or Close, behind.                 *)
NobodyForgotten ==
    /\ \A c \in Caller : pc[c] = "starting" /\ once[rf[c]] = "entered" =>
          \E d \in Caller : rf[d] = rf[c] /\ pc[d] = "admitting"
    /\ \A c \in Caller : pc[c] = "waiting" /\ ~done[rf[c]] =>
          worker[rf[c]] \in {"queued", "fetching", "settled"}
    /\ closer = "joining" /\ drains = 0 =>
          \E r \in Caller : worker[r] \in {"queued", "fetching", "settled", "leaving"}

(* Nobody waits for ever: each Acquire that got past the gate returns, and *)
(* so does Close, whatever races them and even when owner.Blob panics.     *)
EverybodyReturns ==
    /\ \A c \in Caller : pc[c] = "loading" ~> pc[c] \in {"served", "refused"}
    /\ closer = "gating" ~> closer = "closed"
=============================================================================
