# A TLA+ model of flate

flate renders a Flux repository without a cluster. It loads declarations
(Kustomizations, HelmReleases, ResourceSets and their sources) into a store, lets one
controller per kind reconcile them concurrently until nothing changes any more, and
prints, tests or diffs the result. This directory models the part of the program that
makes such a run correct: the scheduler and its fixpoint, the captured reads that tell
a stale result from a current one, the publication of what producers emit and the
declarations that come into force by it, the gates and conditions through which resources
wait for each other, the cache on disk that runs share, and the concurrent helpers underneath.

`PROJECT.json` is the machine-readable index: components, runs, mutants, the map from
definitions to source lines, findings, hazards and theorems.

## 1. Inventory of the system

| Component | State | Operations | Interacts with |
|---|---|---|---|
| keylock (`internal/keylock`) | a channel of capacity one per key | Acquire, release func | source cache, fetchers |
| task service (`pkg/task`) | a semaphore, a WaitGroup and a panic counter per service | Go, YieldSlot, BlockTillDone, Fork, Failures | scheduler, HTTP inputs, fetchers |
| scheduler (`pkg/schedule`) | node states, run queue, in-flight counter, drain level, retained assessments | Run, OnArrival, OnPublication, complete, invalidate, settle | store events call it; it calls the dispatcher (controllers) and Sweep (store) |
| read registration (`pkg/store/registration.go`) | generations of authorities, registration heads and chains, the shard's pending list | capture and activate, advance, queue, Sweep, Valid, Retire | every execution reads through it; writers advance; the scheduler sweeps |
| status conditions (`pkg/store/status.go`) | the Ready condition of each resource, with the dependencies a failure is due to | UpdateStatus, UpdateFailure, ReportProgress | executions write; gates of others read |
| store publication (`pkg/store`) | one cell per resource (static declaration, root, visibility), one slot per producer with its inventory, reverse memberships, listeners | AddObject, DeleteObject, RecordEmitted (commitStable, commitReplacement), reachability, events | executions publish through it; scheduler and preflight listen |
| dependency gates (`pkg/depwait`) | none | Waiter.Classify, Available | called by executions on captured reads |
| execution lifecycle (`pkg/controllers/base`) | captured reads, pending error, resume function, `recovering` | Init, Dispatch, Settle, Require, Emit, finish, Retire | scheduler, store, gates |
| source acquisition (`pkg/controllers/base/acquisition.go`) | the pending acquisition with its prepared handle | Acquire, Settle, advance, complete, finish, close | fetchers, secrets, execution |
| kind controllers (`pkg/controllers/*`) | per execution only | reconcile callbacks | execution, render engines |
| HTTP input sharing (`pkg/source/httpinput.go`) | a gate word, a drain channel, a map of shared fetches | Acquire, worker, Close | task service, cache |
| source cache (`pkg/source/cache`) | one owner per directory with its shares and a file lock; entries in memory; on disk an index of tags, payloads and failure outcomes with their times | New, Close, Acquire with retries, Sweep | keylock, fetchers (producers), other processes |
| source fetchers (`pkg/source/git`, `oci`, `bucket`, `helmchart`) | per call | Fetch | cache, network, disk |
| dependency graph (`pkg/orchestrator/depgraph.go`) | edges, failed cycle members with their paths | ReplaceEdges, Failures | preflight |
| preflight (`pkg/orchestrator/cycles.go`) | the failures by resource, the store's preflight message | listener on added objects, replacePreflightFailures, SetPreflight | graph, store, Execution.Init |
| sweep and admission (`pkg/orchestrator`) | entries, trees, completed nodes | Sweep, admitRawRoots, admitEntry | scheduler, store |
| bootstrap, results, selection, change, loader, discovery, manifest, render engines, values, diff, command line | set up before the run or pure functions of their input | | |

What is hard to get right, and is what the properties are about:

* **Invalidation.** A resource is reconciled from captured reads. A change of any of them,
  at any moment (while the execution runs, between its check and its publication, while the
  sweep has the chain detached, before the reader has registered) must make it run again, and
  must be delivered exactly through one narrow path: `shard.queue`, `Store.Sweep`,
  `Scheduler.invalidate`. A change lost there is a wrong result that no test sees.
* **The fixpoint.** `Run` decides under its lock that the run has converged, from a sweep it
  made without the lock. Drain levels (None, Cascade, Force) turn waiting into failing, so
  that rising too early reports failures that did not exist.
* **Reactions to reactions.** An execution publishes its own condition, which others have
  captured and react to. Failures travel around cycles, successes have to replace failures,
  and all of it has to come to rest.
* **Incremental visibility.** What is in force follows from static declarations and from
  inventories of producers that are themselves declared, possibly in circles. The store never
  works this out afresh: it looks at one region, under one lock or all of them, and announces
  the result after the locks are gone.
* **Memory across runs.** The cache remembers payloads and failures on disk, in entries and in
  access times, each with its own idea of the present; processes come and go, crash, set the
  clock back and sweep.
* **Ownership under failure.** Slots, locks, handles and channels have to survive panics,
  cancellation and calls that end early.

For each component, the properties that make it correct are listed with its run in section 4.

## 2. Modules

Each component has a module, an `MC...` module with the values of its small instance, and a
`.cfg` per run; `...Proofs` modules hold the theorems. Mutants (an operator that changes one
definition as a plausible bug would, commented "A mutant") stand beside what they mutate and
are not part of any specification.

| Module | Models | State and actions |
|---|---|---|
| `KeyLock` | `internal/keylock` | one action per critical section or select branch of Acquire; the release func; cancellation by the context |
| `TaskService` | `pkg/task` | a service and its fork over one semaphore; Go, AcquireSlot, YieldSlot and its return, panic, recover, Done, BlockTillDone |
| `Scheduler` | `pkg/schedule`, `dagDispatcher.Sweep`, the contract of Dispatch and Settle | every critical section of Run, OnArrival, complete and invalidate is an action; what the dispatcher finds (valid, stale, blocked, panic) is nondeterministic |
| `Registration` | `pkg/store/registration.go` for one shard | one action per critical section or atomic operation of capture, activate, advance, Sweep, Valid and Retire |
| `Readiness` | `depwait.Waiter.Classify`, `Execution.classify/Dispatch/Settle/finish`, `Store.setCondition`, the source and Kustomization reconciles | one action per step of an execution between which others can publish; the scheduler reduced to its effect |
| `Acquisition` | `controllers/base/acquisition.go` | the whole life of one pending acquisition: dispatch, settlement, retry, completion, retirement, panics |
| `HTTPInputs` | `pkg/source/httpinput.go` | callers, the shared fetch, its worker and Close, one action per atomic operation |
| `Declarations` | what `pkg/store` promises | abstract: static declarations, inventories and, as a function of them, the declaration in force for each resource |
| `Publication` | `pkg/store/publication*.go`, `membership.go`, `emission_prepare.go`, AddObject, DeleteObject, event dispatch | cells, slots, heads and memberships; RecordEmitted is one action per lock taken (capture, snapshot, commit, and the two halves of commitStable); implements `Declarations` |
| `CacheOwner` | `cache/owner.go`, the lock of `cache/gc.go` | extends `KeyLock`; New, open, Close, cancelled waits, the lock file and another process that wants it |
| `Cache` | `cache/acquire*.go`, `retry.go`, `outcome.go`, `publication.go`, `gc.go` | extends `CacheOwner`; an Acquire is one action per wait, disk write or decision under the key's lock; Sweep, crash, clock |
| `DependencyGraph` | `orchestrator/depgraph.go` | ReplaceEdges as one action; the breadth-first marking as least closed sets, the depth-first search and the pass over the recorded members iteration by iteration |
| `Preflight` | `orchestrator/cycles.go`, its listener, `Execution.Init` | extends `DependencyGraph`; one action per lock taken between the publication and SetPreflight |

Composition: `Preflight` extends `DependencyGraph`; `Cache` extends `CacheOwner`, which
extends `KeyLock`: the users of the cache are the lock's goroutines, and their contexts the
lock's. `Publication` instantiates `Declarations` under a refinement mapping (static
declarations and roots from the cells, inventories and superseded coverage from the slots,
the declaration in force from `capture`). It uses the contract that `Registration` proves, a
registered reader is invalid as soon as its authority moved, in the form of two numbers: the
generation a reconciliation captured and the head's current one. `Readiness` relies on what `Scheduler`
and `Registration` promise (an assessment whose inputs moved runs again; the level rises only
when nothing runs and everything retained is valid) and gives back what `Scheduler` assumes of
its dispatcher: its `ReturnSettle` lets no node stay blocked at DrainForce, which is
`GatesDecide` of `Readiness`.

### Abstractions, module by module

* `Scheduler`: the dispatcher, the store and the controllers behind it are nondeterministic
  within their contract: a publication may make any retained or running assessment stale, and a
  sweep delivers each stale one once. Timing, logging and metrics are left out.
* `Registration`: one shard; the borrowed heads, the ordinary and consumed flags, the
  producer and reconciliation facets, the `accepted` flag, a yield that stops a sweep early and
  Relink's branch without the lock are left out. `captured` is a history variable. The first write
  of an authority is an admission, which stamps whoever saw nothing. SetPreflight and
  SetIncluded(false) also advance a cell of generation zero, without that stamp (capture.go:623, 655);
  their callers name resources that have arrived, and the model has no such first write.
* `Readiness`: the scheduler is its effect on executions. A dispatch takes the drain level back to
  DrainNone and reconciles there, whatever level had been reached (schedule.go:220, 297); when everything
  is settled and something is parked the level rises by one and every parked execution settles at that
  level (places `cascading`, `forcing`), which it keeps although a dispatch beside it resets the run's.
  A reaction to a settlement thus climbs through the levels again. The
  references of a resource are fixed, its declaration may change. An artifact
  gate is a gate on a source (a Kustomization's sourceRef is a gate in both stages, so that one
  judgement stands for both). The readyExpr that `evaluateReadyExpr` evaluates is one that asks for the
  Ready status. "skip" is a source whose
  Secret is missing and may be skipped; the arrival of the Secret is a change to "good". Left out:
  ArtifactOnly, ChartSource and Materializer gates, missing CRDs, existence promotion,
  changed-only admission, suspension, preflight failures, data waits, panics, withdrawals of
  declarations, and the texts of primary failures (of dependency failures, `text` is how deeply
  they nest). `prior != e.initial` in finish never holds here, because only an execution writes
  its own resource's condition. References are cyclic in the model because preflight rejects
  only cycles within one kind.
* `Acquisition`: cancellation is a failed Fetch; Retire comes before the next Dispatch; the
  reuse loop of `source.ReconcileNode` is another Dispatch; after a leak nothing more is
  dispatched. `NoUseAfterClose` and `ForceDecides` do not speak of a task that panics.
* `HTTPInputs`: `owner.Blob` is one nondeterministic result: content, a client error, a
  failure that a retry could cure, or a panic.
* `Publication`: an object is its content; there is one source, so that all bindings are equal,
  and `manifest.Equal` and `reconcileEqual` are equality. A direct write of what is already in force
  makes a root of the static declaration that is there, which may be another one (`anchored`,
  store.go:745). Supplied references, classified
  admission, bootstrap seeds and retained heads, dynamic targets, generated children, payloads,
  documents and fingerprints, facets other than the object (conditions, artifacts, buckets),
  AddObjects and the flush of AddListener are left out. `usable` (whether the reads of the previous output are valid) is
  nondeterministic. `unheard` and `raced` are history variables. The retry of RecordEmitted has no action
  because it never happens for a producer that reconciles once at a time: that is
  `ValidReadsKeepTheSlot`.
* `CacheOwner`, `Cache`: one directory, one archive key, one process and a Sweep in another; the
  producer returns a payload, `Unchanged`, or an error of one of four classes. Of an entry that was
  replaced while a call waited, only what `waveCandidate` reads of it is kept. Times are in units of
  the shortest backoff. Crash keeps what was written; a tag being written may be torn, and the next owner
  drops a torn index with every tag in it (owner.go:180), which the history variable `lost` records until
  the next payload is tagged. An outcome that cannot be read and a fresh payload that cannot be restored
  end the call (`LoadFails`). The ORAS store (push, tag, GC) and the
  file lock are external. Left out: Blob with its validators, observers, lookup-only and render
  modes, `storeSnapshot`, Git generations, history records, memory-only caches, and a Tag that fails
  after it changed the index in memory.
* `DependencyGraph`, `Preflight`: dependencies are same-kind dependsOn references. The store is
  the set of declarations. `FailuresPublished` says nothing of a resource whose Execution.Init
  runs beside the listener.

## 3. Findings

* **A stale capture that stays valid** (`stalecapture`, `CaptureIsCurrent`). `commitStable` gives
  the entries it changes the generation `stamp() + 1` and stores the record afterwards.
  `nextGeneration` leaves a head's own stamp behind while nobody is registered on it, so that this
  number may be one the cell already has. A producer whose first capture falls between the two steps
  reads the old declaration under that number; when the record is stored nothing moves for it, and
  what it renders from the old declaration is accepted. `StaleOnlyInWindow` shows that no other order of
  commits, captures, withdrawals and direct writes has this effect.
* **An old snapshot of the cycle failures replaces a newer one** (`preflightrace`,
  `FailuresInstalled`). `syncPreflightFailures` takes its snapshot under the graph's mutex and
  installs it under another; two publishing goroutines can install in the other order.
* **A skip is never lifted** (`lateskip`, `SkipIsLifted`). `finish(nil)` leaves a Ready condition
  with outcome Skipped as it is. A source skipped at DrainCascade for a missing Secret that a
  render resumed at that level then emits is acquired, its artifact is stored, and yet it stays
  Skipped, and its consumers are skipped with it. The same lines keep a Kustomization that was
  skipped and then replays a stored output Skipped, and a source Failed whose failure was
  published but whose assessment was refused because its reads moved in between, if nothing of
  it was accepted before. `StatusIsVerdict` therefore leaves out a success that finds a Skipped
  condition, or a source's Failed one, in its way.

More observations, which no run states:

* `pendingAcquisitionError.finish` (acquisition.go:134) and `Execution.finish`
  (execution.go:288) each read `Valid`. If an input changes between the two on a first dispatch,
  the handle stays open and nobody refers to it (source.go:54: "Close MUST run after consumption
  or discard, including preparation failures"). `LeaksOnlyInWindow` shows that there is no other
  leak.
* The stamp of a head without readers lags, and the first registration brings it up to date only
  while the head is not detached (registration.go:211). A reader that registers during a sweep may
  thus find itself invalid although nothing moved (registration.go:310: "Valid reports whether every
  consumed authority still has its original stamp"). It costs a redispatch, never a stale result.
* AddObject of an object that equals what a producer put in force over a different static
  declaration makes a root of the older, static one (store.go:746): the object that was in force and was
  added is replaced by the other, and listeners are told so (store.go:353: "AddObject inserts a
  manifest. Equal content with unchanged authority is a no-op."). `AddedIsInForce` shows that this is
  the only case in which readers do not get what was added.
* A crash while Tag rewrites the index loses every tag, because openStore drops an index that it cannot read
  (owner.go:180). `LastGoodKept` shows that the loss ends with the next payload, that no older generation is
  taken for the lost one, and that no failure, cancellation or other crash has this effect.
* A panic in the exchange of an HTTP input leaves the finished `remoteFetch` in the map with neither
  content nor error (httpinput.go:147-152): everybody returns, later callers with nothing.
* A production that comes out identical or `Unchanged` never moves the payload's time
  (publication.go of the cache; a test asserts it), so that `cache gc` may retire an entry that is
  revalidated every day, although the README of flate says "It retires named tags by payload last-use".
  `SweepKeepsRecent` speaks of acquisitions that were served from the cache.
* A cancelled wait in `New` that returns the last share tears nothing down (owner.go:64): the lock
  file stays held until the next user of the process closes. `SharesHoldTheLock` shows that the
  next user finds and shares that owner.
* Waiters in `New` get the opener's error, its cancellation included, although their own
  contexts are live (owner.go:70).

## 4. Runs

All runs finish within about three minutes with two workers. Deadlock is checked in every run but
three: `publication`, `stalecapture` and `cache` stop when their calls are used up. In the others, where the
program may end, the specification has an explicit final step that stutters.

| Run | Bounds | Distinct states | What it shows |
|---|---|---|---|
| `scheduler` | 2 declarations (one arrives during the run), publications, a panic and a cancellation within 2 events, 1 redispatch each | 1,232,354 | `Accounting`, `NoLostInvalidation`, `FixpointSound`, `QuiescentSweep`, `UnresolvedOnlyAfterPanic`, `NoMissedWakeup`, `EscalatesWhenSettled`, `Terminates` |
| `registration` | 2 ReadSets, 1 authority, 4 generations | 312,202 | `StaleIsInvalid`, `NoLostChange` |
| `publication` | 3 resources in a chain of discovered output, 2 producers, children in any order, 3 emissions, 1 direct write | 682,287 | `KeepsPromise` (implements `Declarations`), `AddedIsInForce`, `Announced`, `ValidReadsKeepTheSlot`, `StaleOnlyInWindow` |
| `stalecapture` | 3 resources, 2 producers, 4 emissions | violation | `CaptureIsCurrent` |
| `readiness` | 3 resources (1 source), up to 2 references each, 1 change of a declaration | 911,346 | `StatusIsVerdict`, `GatesDecide`, `Converges` |
| `lateskip` | the same | violation | `SkipIsLifted` |
| `preflight` | 3 resources, up to 2 dependencies each, 1 publisher, an Init beside it | 547,419 | `FailedAreCycles` (the incremental search agrees with a full one, and its paths are cycles), `DiagnosticsAreStable`, `FailuresInstalled`, `FailuresPublished` |
| `preflightrace` | 2 resources, 2 publishers | violation | `FailuresInstalled` |
| `acquisition` | 1 resource | 3,844 | `LeaksOnlyInWindow`, `NoUseAfterClose`, `ForceDecides`, `AcquireReturns` |
| `cache` | 2 users with different policies, 1 key, 2 payloads, 2 sessions, 3 acquisitions, times up to 3, one of crash, cancellation and clock rollback | 1,009,361 | `MutualExclusion`, `NoLeakedLock`, `SharesHoldTheLock`, `LastGoodKept`, `FailureHolds`, `SweepKeepsRecent`, `CancelledCallReturns` |
| `httpinputs` | 2 callers, 2 keys, Close, panics | 132,628 | `CloseJoinsWorkers`, `DrainedOnce`, `NobodyForgotten`, `EverybodyReturns` |
| `task` | 2 tasks, a service and its fork, 1 slot | 9,472 | `SlotsConserved` also through panics in YieldSlot; `JoinSeesAll`; `EveryTaskEnds` although bodies wait for tasks behind them |

Why the bounds are enough for what the runs ask:

* `scheduler`: two declarations are what an interleaving of a task with another's publication
  needs; the second publication falls into the window that the reaction to the first opens; one
  redispatch reaches the budget. The theorems of `SchedulerProofs` hold for every bound.
* `registration`: a second reader is needed to keep a head linked while the first retires; four
  generations let the authority appear, move before, during and after a sweep. Proved for
  every bound.
* `readiness`: three resources give a cycle of two with an outsider and a chain of two gates behind a source;
  `Init` ranges over every set of references and every declaration, so that the one change
  covers repair, breakage, arrival and a second thought of every kind. The two invariants
  were found to hold with two changes (6.5 million states) and with three changes over single
  references (14.0 million states); with `Converges` those instances are too large to keep as runs.
* `publication`: 2 is discovered output of 1 and 3 of 2; both 1 and 2 may emit 3, and 2 may
  emit 1, its own ancestor. That gives shared content, a circle of producers without a root, the loss
  of a region two steps below a write, and a visibility change of a producer that is committing.
  Three emissions are two racing ones after one that set the scene.
* `cache`: one user is content with any age and tries once, the other wants fresh content and
  tries twice, so that each meets entries the other made. The access interval is longer than the
  age Sweep retires at, the deadline of a second failure falls within the clock, and the counter
  reaches its limit. With two faults and three sessions the safety properties were found to hold as well (7.0 million
  states).
* `preflight`: with three resources there are two overlapping cycles, and every edge relation
  within the bound is reached by every history of declarations.
* `httpinputs`, `task`: two callers for one key with a third party (Close, the fork) are enough
  for each pairwise race; nothing in the code depends on more.

Every property has a mutant in `PROJECT.json`: a change of one mapped definition, of the kind a
careless edit of the code would make, under which TLC finds the property violated.

### Fairness

* `Cache`: weak fairness of each user's own steps inside Acquire (queueing, deciding, writing,
  tagging, the timer of a backoff) and, once its context is done, of giving up in New and of
  the producer's return. A producer that is not cancelled need not return and a lock file held
  elsewhere need not be released, so that a user is promised nothing but to return when cancelled.
* `TaskService`: weak fairness of a task's steps; strong fairness of taking a slot and of the end
  of a body, because Go's channels queue their senders in order and a body is assumed to return.
* `Scheduler`: weak fairness of the steps of Run, the tasks and the cancellation callback taken
  together: as long as one of them can run, one does. Which one is left open. The task
  service gives every task a slot (`EveryTaskEnds`) and drops it only after a cancellation.
* `HTTPInputs`: goroutines run, and `owner.Blob` returns: the exchange ends by itself or because
  Close cancels its context.
* `Acquisition`: the task runs and callbacks return.
* `Readiness`: every execution takes its next step and the scheduler runs. No step that is a
  choice of the environment (a change of a declaration) is fair on its own.

No liveness property rests on strong fairness of anything but the channel operations above.

## 5. Proofs

Eight modules hold theorems that `tlapm` checks, for every value of the constants that the named
`ASSUME`s admit: identifiers are natural numbers in the order of `NamedResource.Compare`, the
sets of nodes, tasks, callers, processes and resources are finite, bounds are natural numbers,
model values differ (`NodeIDAssumption`, `TaskAssumption`, `CallerAssumption`, `ProcAssumption`,
`KeyAssumption`, `TimeAssumption`, `PublicationAssumption` and so on). One assumption is about the
input: `DiscoveryAssumption` says that the owners of an authored declaration lead back to one that
stands alone. A circle of discovered ownership without such an anchor is outside the model:
bootstrap would show it until the first region touches it.

* **`SchedulerProofs`** (`TypeCorrect`, `AccountingHolds`, `QuiescentHolds`, `NothingLost`,
  `Fixpoint`, `Escalation`, `UnresolvedNeedsPanic`, `NeverSleepsThrough`), from twelve
  conjuncts. The queue and the in-flight counter agree with
  the node states (`QueueInv`, `FlightInv`); only a running node has a task (`OwnerInv`); the
  locals of one iteration have a meaning only in it (`ScopeInv`); a quiescent sweep has no task
  beside it (`QuiescentInv`), so that at its end nothing stale is undelivered (`PendingInv`). The core is `RecheckInv`: a task
  that has read Valid and waits for the lock finds `recheck` set, or its id on the list being
  worked on, if a sweep delivered in between. `TerminalInv` and `SettledInv` carry this to the
  point where Run returns nil, which is `FixpointSound`.
  `UnresolvedNeedsPanic` rests on `ForceInv` as well: only a live capture can be invalid (`CapturedInv`), a
  task above DrainNone runs at the level of the run (`LevelInv`), a Settle at DrainForce leaves nothing
  blocked that is valid (`DecidedInv`), and a node parked there is still to be settled or is invalid and
  will be dispatched again (`ForcedInv`).
  `NeverSleepsThrough` adds `WaitingInv`: a node in flight has a task unless its context was done before
  the body started, and a cancellation that was notified has left an error, with which Run does not wait.
* **`RegistrationProofs`** (`TypeCorrect`, `StaleNeverValid`, `ChangeNeverLost`), from eleven
  conjuncts: a chain is detached exactly while the sweep works on it, what is linked from a head is
  registered on it, a registration that shows its head's stamp has seen the current generation
  (`StaleInv`), a head marked pending is on some list (`PendInv`), and a moved registration
  that was not delivered is on a pending head or still ahead in the sweep's chain with a cutoff
  that reveals the change (`LostInv`).
* **`ReadinessProofs`** (`TypeCorrect`, `ForceDecidesGates`, `VerdictHolds`). `GateInv` adds to
  `GatesDecide` that an execution renders only when its gates passed, that nothing settles at
  DrainCascade any more while the run is at DrainForce (`CascadeIsOver`; a dispatch takes it back to
  DrainNone), and that at DrainForce nothing that finishes is blocked; the lemma `ForceUnblocks` is about `Waiter.Classify` alone.
  `VerdictInv` says of each execution that, as long as its reads are valid, its outcome is the one
  the store calls for, and that from `publishing` on its condition reports it. Two lemmas carry
  it: a gate that has decided says the same at every later level (`DecidedAtForce`), and an
  execution that is still valid after a step has gates that say what they said before
  (`ValidStands`).
* **`SourceProofs`**, for `HTTPInputs` and `Acquisition`. `WorkersJoined` and `DrainClosedOnce`: the count in
  the gate word is the number of workers admitted and not gone (`CountInv`), the drain channel has been
  closed exactly when the word is closed and empty (`DrainInv`), `start.Do` admits one worker per fetch
  (`OnceInv`), what the two words say is how far Close has come (`CloserInv`), and without a gate nobody is
  past it (`NoGateInv`). `NoLostWakeup`: a `sync.Once` that was entered has its caller inside, and one that
  is finished has closed `done` or has a worker that will (`WakeInv`). Then `NoOtherLeak`, `ClosedNeverUsed`,
  `Decided`: nothing is open where a new handle may take its place (`FreshInv`); `finish` leaves a handle
  open only to who waits (`FinishInv`), which leaves the window of `LeaksOnlyInWindow` as the only way out;
  a closed handle is behind every call that could use it, unless a Settle panicked (`ClosedInv`); nobody
  decides to wait at DrainForce (`LevelInv`). `CallsShorten` is the argument behind `AcquireReturns`: the
  measure `Remaining` falls with every step of a call, because advance leads back to Settle only as long as
  the machine credentials are unused, and Settle then uses them (`ConsumedInv`).
* **`TaskServiceProofs`** (`SlotsNeverLeak`, `JoinIsFinal`). A panic is noted only on the way out of a
  body (`PanicInv`); the WaitGroup's counter and the failure counter are the numbers of tasks that are
  active and that recorded a panic (`GroupInv`, `FailureInv`); nobody submits to a service that was
  joined, because the bodies that could are gone (`JoinInv`).
* **`CacheProofs`**, for `KeyLock` on its own (`TypeCorrect`, `Exclusive`, `NothingLeaked`, any number of
  keys and goroutines) from `LockInv == TypeOK /\ MutualExclusion /\ NoLeakedLock`: exclusion alone is not
  inductive, for a second send blocks only because the channel is full exactly while somebody holds
  the key. Then for the cache (`OwnerShared`, `CacheExclusive`), from `OwnInv`: one user at
  most opens, and those who wait or are in share what it registered (`ShareInv`), the counter is the
  number of sharers (`CountInv`), and where a call is in Acquire and where it is in the key's lock go
  together (`StageInv`); and (`LastGoodSurvives`, `FailureRemembered`, `SweepSpares`) from
  `DataInv`: entries live as long as their owner is open (`EntryInv`), the index on disk leads to the
  last good payload, which is there, or, if a crash tore it since that payload was tagged, to none, and its access time lags by one interval at most (`IndexInv`), and
  who holds the key's lock knows the index and publishes a payload that was pushed (`WorkInv`). `BackoffBounded` is about the recursive function
  of `retry.go`. Three overlapping alternatives in `Cache` came to light in these proofs and were
  made disjoint, as the code's are.
* **`PublicationProofs`** (`Refines`, `AddedStands`, `AllAnnounced`, `ReadsKeepTheSlot`, `StaleNeedsTheWindow`), in four layers.
  1. `StoreInv`: the store is consistent (memberships mirror inventories, an inventory names a
     resource once), and every cell and slot shows what is in force: `Alive`, the least set that holds what
     is anchored and what a member of it puts in force. The heart is that a region is enough
     (`RegionIsEnough`): outside of what is downstream of a change nothing comes into force or loses it, and
     inside, the anchors and the visible producers at its border determine the rest, circles
     included. From this, `Refines`: every commit is a step of `Declarations`, or of nothing; and
     `AddedStands`: after a direct write the resource is rooted and alive, so that its static declaration
     is in force, and that is what was added unless it was masked.
  2. `AnnounceInv`: what changed and is still in force is in some outbox (`Heard`); an emitter in
     the middle of a call has an empty one, or, between stamping and storing, one that names
     everything its record is about to change (`Outgoing`).
  3. `ReadInv`: a head points at the place that supplies its resource, and a published producer
     that is not in force is hidden (`Placed`); a record about to be stored has no older stamps than
     those it replaces (`RecordInv`); a captured stamp is not ahead of its declaration and is
     behind it once the slot has moved (`InputInv`).
  4. `CaptureInv`: what is declared has a generation (`Dated`); the stamp of a head with a live registration follows its cell
     (`RegisteredInv`); a record about to be stored gives whatever it changes a greater
     stamp than it has, unless a capture raced with it (`PendingInv`); a capture with the current stamp that
     did not race is the object in force (`ValidInv`).

* **`PreflightProofs`** (`GraphKnowsItsCycles`, `GraphUnderListeners`, `SerialListenersInstall`,
  `SerialListenersPublish`), in four layers.
  1. The search. `SearchInv` says of the depth-first search that what is on its stack is a path, that
     nothing it has left behind leads to the target except through the stack, and that every smaller
     choice at each place of the stack was a dead end; a measure of edges and nodes not yet tried falls
     with each iteration (`WorkShrinks`), so that it has ended within `Iterations`. From this, `CyclesFound`:
     `findPath(E, n, n)` is empty exactly when n is on no cycle, and otherwise the earliest cycle in the order of
     `NamedResource.Compare`, of which there is one (`EarliestIsUnique`).
  2. The pass. Whatever was recorded before, as long as it covers all cyclic resources, `revalidateFailed`
     keeps exactly those and gives each a path that depends on the edges alone (`RevalidateForgets`).
  3. The update. A cycle that a replacement creates goes through a fresh edge, is noticed by `closesCycle`,
     and all its members are in `cycleMembers` (`FreshCycle`, `MarkedEnough`); where none was noticed and no edge
     was removed the earliest cycles are the old ones, so that skipping the pass changes nothing
     (`SameDiagnosis`). Hence `GraphInv`: `failed` is what a graph built at once from the edges would report. It
     holds beneath any number of listeners, because ReplaceEdges is one critical section.
  4. The listeners, under the hypothesis `[]Serial` that no two are under way at once (what the run `preflight`
     checks with one publisher). `SerialInv` says how far edges, snapshot, map and store may lag at each stage. The
     hypothesis is needed: `preflightrace` is the counterexample without it.

The backoff, a recursive function, the search, the pass and `inOrder` need an
induction whose library theorem takes an operator, which the
provers cannot instantiate. `NatSets` replaces it: a set that holds 0 and every successor holds every
natural number, from a least counterexample. The store's worklists are stated as the least closed sets
they compute, which need no induction at all.

What TLC can evaluate of an inductive invariant (not membership in an infinite set) was checked on the
instance of its run before it was proved.

Only model-checked, and why: the liveness properties (`Terminates`, `Converges`, `AcquireReturns`,
`EverybodyReturns`, `EveryTaskEnds`, `CancelledCallReturns`), which are outside the prover's reach. For three of
them a theorem states the safety half: `NeverSleepsThrough`, `NoLostWakeup` and `CallsShorten`. Every other
property of a passing run is the statement of a theorem.

## 6. What is not modelled

Listed with its reason in `PROJECT.json` under `components`: data waits and CEL, the fetchers'
network and archive I/O, baselines, selection and change detection, entry admission and
source trees, the loader, discovery, manifest types, the render engines, the remaining kind
controllers, values, diff and the command line.

## 7. Plan

Done: KeyLock, Scheduler, TaskService, HTTPInputs, DependencyGraph, Preflight, Registration,
Acquisition, Readiness, Publication with its abstract specification Declarations, CacheOwner and
Cache, in that order, with the proofs of section 5.

Next, most important first:

1. `Scheduler` shown to implement the three scheduler actions of `Readiness`.
2. Withdrawals and hidden cells in `Readiness`; data waits (`depwait.Available`, `AwaitData`),
   suspension and changed-only admission.
3. Supplied references, bootstrap seeds and generated children in `Publication`.
4. `Baseline`: lazily built baselines shared between goroutines.
5. Selection and change detection as operators checked against reference definitions.
