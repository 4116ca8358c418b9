------------------------------- MODULE Cache -------------------------------
(***************************************************************************)
(* pkg/source/cache: Acquire of one archive key by the users of a cache    *)
(* directory (module CacheOwner), serialised by the cache's KeyMap (module *)
(* KeyLock).  The store's index names, per key, either a payload or a      *)
(* negative outcome that retains the last good payload; it survives the    *)
(* process, the entries do not.  An entry that was replaced in c.entries   *)
(* changes no more, so of an entry a call observed before it waited for    *)
(* the lock the model keeps what waveCandidate reads of it.  The clock is  *)
(* in units of the shortest backoff.  MaxTime, MaxFaults, MaxCalls and     *)
(* MaxSessions bound the behaviours.                                       *)
(***************************************************************************)
EXTENDS CacheOwner

CONSTANTS
    ArchiveKey,      \* the key of Acquire's calls
    Blob,            \* payload digests a producer may come up with
    Attempts,        \* Policy.Retry.Attempts of each user
    MaxAge,          \* Policy.MaxAge of each user
    SweepAge,        \* SweepOpts.MaxAge
    accessInterval,  \* how long an access is coalesced with the last one
    MinWait, MaxWait,  \* the default backoffs
    MaxCount,        \* math.MaxUint32
    MaxTime, MaxFaults, MaxCalls, MaxSessions

ASSUME KeyAssumption == ArchiveKey \in Key
\* Durations are not negative.
ASSUME TimeAssumption ==
    /\ SweepAge \in Int /\ accessInterval \in Nat
    /\ MinWait \in Nat /\ MaxWait \in Nat /\ MaxCount \in Nat \ {0}

VARIABLES
    index,     \* what the key's tag names: None, a payload, a failure, or Torn
    mtime,     \* the modification time of every blob of the store
    entry,     \* c.entries[key]
    observed,  \* the wave of the entry each call loaded before it waited
    stage,     \* where each call of Acquire is
    attempt,   \* the loop counter of each call's acquire
    staged,    \* the payload a call has produced
    now,
    faults,    \* history: which of crash, rollback and cancel have happened
    calls, sessions,  \* history: how many calls of Acquire and of New there were
    good,      \* history: the payload of the last generation that was tagged
    lost,      \* history: since then a crash tore the index that named it
    used       \* history: when an acquisition last used the tagged generation

storeVars == <<index, mtime, good, lost, used>>
callVars == <<entry, observed, stage, attempt, staged>>
clockVars == <<now, faults, calls, sessions>>
restVars == <<now, calls, sessions>>
keyVars == <<locks, pc, want>>
cacheVars == <<vars, ownerVars, storeVars, callVars, clockVars>>

Forever == -1
Never == -1            \* the zero time.Time
None == [kind |-> "none"]
Torn == [kind |-> "torn"]
Failure == "failure"   \* the blob of an outcome's manifest
NoBlob == "noblob"

Payload(b, at) == [kind |-> "payload", blob |-> b, at |-> at]
Outcome(t, n, last) == [kind |-> "outcome", completed |-> t, count |-> n, lastGood |-> last]

\* The blob a descriptor names, and the last good payload it leads to.
BlobOf(d) == IF d.kind = "payload" THEN d.blob ELSE Failure
LastGood(d) == CASE d.kind = "payload" -> d.blob
                 [] d.kind = "outcome" -> d.lastGood
                 [] OTHER -> NoBlob

NewEntry(d, at) == [kind |-> "entry", stored |-> d, resolved |-> at, unloaded |-> FALSE,
                    touched |-> Never, seen |-> Never, invalid |-> FALSE]
Unloaded == [NewEntry(None, Never) EXCEPT !.unloaded = TRUE]

\* waveResult and waveErr of an observed entry; Current is still in c.entries.
Current == "current"
NoWave == "nil"
Shared == "result"
SharedError == "error"

CacheInit ==
    /\ Init /\ OwnerInit
    /\ index = None /\ mtime = [b \in Blob \cup {Failure} |-> Never]
    /\ entry = None
    /\ observed = [u \in Proc |-> NoWave]
    /\ stage = [u \in Proc |-> "idle"]
    /\ attempt = [u \in Proc |-> 0]
    /\ staged = [u \in Proc |-> None]
    /\ now = 0 /\ faults = {} /\ calls = 0 /\ sessions = 0
    /\ good = NoBlob /\ lost = FALSE /\ used = Never
-----------------------------------------------------------------------------
fresh(at, maxAge) == at # Never /\ (maxAge = Forever \/ (maxAge > 0 /\ now - at < maxAge))
-----------------------------------------------------------------------------
(* Mutants: plausible mistakes in the acquisition, its memory and Sweep.   *)

\* An outcome read back from the store is taken for a missing generation.
loadPayloadOnly(e, maxAge) ==
    IF ~e.unloaded THEN e
    ELSE IF index.kind = "payload" /\ fresh(index.at, maxAge)
    THEN NewEntry(index, index.at)
    ELSE NewEntry(None, Never)

\* A failure that published nothing forgets the last good generation.
RetainsNothing(e) == NewEntry(None, Never)

\* The cutoff leaves no room for coalesced accesses.
RetiresWithoutGrace == SweepAge > 0 /\ mtime[BlobOf(index)] <= now - SweepAge
-----------------------------------------------------------------------------

\* backoffSchedule: the delay doubles up to the ceiling.
backoffSchedule[n \in Nat] ==
    IF n = 0 THEN IF MinWait < MaxWait THEN MinWait ELSE MaxWait
    ELSE LET delay == backoffSchedule[n - 1]
         IN IF delay >= MaxWait - delay THEN MaxWait ELSE 2 * delay

outcomeDeadline(o) == o.completed + backoffSchedule[o.count - 1]
nextOutcomeCount(n) == IF n = MaxCount THEN n ELSE n + 1

\* restoreCandidate and loadEntry, under the caller's own MaxAge.
loadEntry(e, maxAge) ==
    CASE ~e.unloaded -> e
      [] e.unloaded /\ index.kind = "outcome" -> [e EXCEPT !.stored = index, !.unloaded = FALSE]
      [] e.unloaded /\ index.kind = "payload" ->
            [e EXCEPT !.stored = index,
                      !.resolved = IF fresh(index.at, maxAge) THEN index.at ELSE @,
                      !.unloaded = ~fresh(index.at, maxAge) /\ e.resolved = Never]
      [] OTHER -> [e EXCEPT !.unloaded = FALSE]

HasOutcome(e) == e.stored.kind = "outcome"

\* outcome.observe: a clock behind the completion or an earlier observation
\* invalidates the outcome for good.
observe(e) ==
    IF HasOutcome(e)
      THEN [e EXCEPT !.invalid = @ \/ now < e.stored.completed \/ now < e.seen, !.seen = now]
      ELSE e

Candidate(u) == observe(loadEntry(entry, MaxAge[u]))
Holds(e) == HasOutcome(e) /\ ~e.invalid /\ now < outcomeDeadline(e.stored)

\* touch: the access is written unless the last one is recent.
Touched(e) == IF e.touched = Never THEN mtime[BlobOf(e.stored)] ELSE e.touched
Coalesced(e) == now - Touched(e) < accessInterval
touch(e) ==
    /\ entry' = [e EXCEPT !.touched = IF Coalesced(e) THEN Touched(e) ELSE now]
    /\ mtime' = IF Coalesced(e) THEN mtime ELSE [mtime EXCEPT ![BlobOf(e.stored)] = now]
    /\ used' = now
    /\ UNCHANGED <<index, good, lost>>

\* attemptHistory
Due(e) == HasOutcome(e) /\ ~e.invalid
AttemptsLeft(u) == IF Due(entry) THEN 1 ELSE Attempts[u] - attempt[u] + 1
Count(e) == IF Due(e) THEN e.stored.count ELSE 0

\* What of the previous entry a failure that published nothing retains: a
\* layer of an outcome's manifest has lost its annotations.
Retained(e) ==
    CASE Due(e) -> [NewEntry(e.stored, Never) EXCEPT !.seen = e.seen]
      [] HasOutcome(e) /\ ~Due(e) -> NewEntry(IF e.stored.lastGood = NoBlob THEN None
                                               ELSE Payload(e.stored.lastGood, Never), Never)
      [] OTHER -> NewEntry(e.stored, Never)

\* c.entries.Store by u: those who observed the entry it replaces keep its wave.
Replace(u, e, wave) ==
    /\ entry' = e
    /\ observed' = [v \in Proc |-> CASE v = u -> NoWave
                                     [] v # u /\ observed[v] = Current -> wave
                                     [] OTHER -> observed[v]]

\* Previous: a complete payload, never the layer of an outcome.
Previous(e) ==
    /\ e.stored.kind = "payload" /\ e.stored.at # Never
    /\ mtime[e.stored.blob] # Never
-----------------------------------------------------------------------------
(* One call of Acquire: acquire's loop around acquireOnce.                 *)

\* acquireCandidate up to c.locks.Acquire: load the entry, then queue.
Observe(u) ==
    /\ entry' = IF entry = None THEN Unloaded ELSE entry
    /\ observed' = [observed EXCEPT ![u] = Current]
    /\ stage' = [stage EXCEPT ![u] = "lock"]
    /\ Lookup(u, ArchiveKey)

Acquire(u) ==
    /\ session[u] = "in" /\ stage[u] = "idle"
    /\ calls < MaxCalls /\ calls' = calls + 1
    /\ Observe(u)
    /\ attempt' = [attempt EXCEPT ![u] = 1]
    /\ UNCHANGED <<ownerVars, storeVars, now, faults, sessions, staged>>

\* The next iteration, once the backoff timer has fired.
Retry(u) ==
    /\ stage[u] = "backoff" /\ u \notin done
    /\ Observe(u)
    /\ attempt' = [attempt EXCEPT ![u] = @ + 1]
    /\ UNCHANGED <<ownerVars, storeVars, clockVars, staged>>

\* The call of u is over.
Over(u) ==
    /\ stage' = [stage EXCEPT ![u] = "idle"]
    /\ attempt' = [attempt EXCEPT ![u] = 0]
    /\ staged' = [staged EXCEPT ![u] = None]

Forget(u) == observed' = [observed EXCEPT ![u] = NoWave]

BackoffCancelled(u) ==
    /\ stage[u] = "backoff" /\ u \in done
    /\ Over(u) /\ Forget(u)
    /\ UNCHANGED <<vars, ownerVars, storeVars, clockVars, entry>>

\* c.locks.Acquire waits, and grants or refuses.
Queue(u) ==
    /\ stage[u] = "lock" /\ (Check(u) \/ Abandon(u))
    /\ UNCHANGED <<ownerVars, storeVars, callVars, clockVars>>

Granted(u) ==
    /\ stage[u] = "lock" /\ Grant(u)
    /\ stage' = [stage EXCEPT ![u] = "decide"]
    /\ UNCHANGED <<ownerVars, storeVars, clockVars, entry, observed, attempt, staged>>

Denied(u) ==
    /\ ReleaseRefused(u)
    /\ Over(u) /\ Forget(u)
    /\ UNCHANGED <<ownerVars, storeVars, clockVars, entry>>

Deciding(u) == stage[u] = "decide" /\ UNCHANGED <<ownerVars, clockVars>>
Waved(u) == observed[u] \in {Shared, SharedError}

\* waveCandidate: the result or the error of whoever produced meanwhile.
Share(u) ==
    /\ Deciding(u) /\ Waved(u)
    /\ Release(u) /\ Over(u) /\ Forget(u)
    /\ UNCHANGED <<storeVars, entry>>

\* restoreCandidate fails: an outcome that cannot be read, or a fresh payload that
\* cannot be restored, ends the call, and the next one loads the entry again.
LoadFails(u) ==
    LET restoring == index.kind = "payload" /\ fresh(index.at, MaxAge[u])
    IN /\ Deciding(u) /\ ~Waved(u) /\ entry.unloaded
       /\ restoring \/ index.kind = "outcome"
       /\ entry' = IF restoring THEN [entry EXCEPT !.stored = index, !.resolved = index.at] ELSE entry
       /\ Release(u) /\ Over(u) /\ Forget(u)
       /\ UNCHANGED storeVars

\* replayOutcome: the remembered failure answers until its deadline.
Replay(u) ==
    /\ Deciding(u) /\ ~Waved(u)
    /\ Holds(Candidate(u))
    /\ touch(Candidate(u))
    /\ Release(u) /\ Over(u) /\ Forget(u)

\* replayOutcome whose touch fails.
ReplayFails(u) ==
    /\ Deciding(u) /\ ~Waved(u)
    /\ Holds(Candidate(u))
    /\ entry' = Candidate(u)
    /\ Release(u) /\ Over(u) /\ Forget(u)
    /\ UNCHANGED storeVars

Reusable(u) == ~Holds(Candidate(u)) /\ fresh(Candidate(u).resolved, MaxAge[u])

\* freshCandidate
Reuse(u) ==
    /\ Deciding(u) /\ ~Waved(u)
    /\ Reusable(u)
    /\ touch(Candidate(u))
    /\ Release(u) /\ Over(u) /\ Forget(u)

\* freshCandidate whose touch fails: the entry loses its freshness.
ReuseFails(u) ==
    /\ Deciding(u) /\ ~Waved(u)
    /\ Reusable(u)
    /\ Replace(u, NewEntry(Candidate(u).stored, Never), NoWave)
    /\ Release(u) /\ Over(u)
    /\ UNCHANGED storeVars

Miss(u) == ~Waved(u) /\ ~Holds(Candidate(u)) /\ ~Reusable(u)

\* attempt and fill up to the producer.
Produce(u) ==
    /\ Deciding(u) /\ Miss(u) /\ u \notin done
    /\ entry' = Candidate(u)
    /\ stage' = [stage EXCEPT ![u] = "produce"]
    /\ UNCHANGED <<vars, storeVars, observed, attempt, staged>>

\* attempt finds its context done.
ProduceRefused(u) ==
    /\ Deciding(u) /\ Miss(u) /\ u \in done
    /\ entry' = Candidate(u)
    /\ Release(u) /\ Over(u) /\ Forget(u)
    /\ UNCHANGED storeVars

\* The producer wrote a payload; it is resolved before it is persisted.
Produced(u, b) ==
    /\ stage[u] = "produce" /\ u \notin done
    /\ staged' = [staged EXCEPT ![u] = Payload(b, now)]
    /\ stage' = [stage EXCEPT ![u] = "push"]
    /\ UNCHANGED <<vars, ownerVars, storeVars, clockVars, entry, observed, attempt>>

\* The producer validated the previous payload; nothing is pushed.
Unchanged(u) ==
    /\ stage[u] = "produce" /\ u \notin done /\ Previous(entry)
    /\ staged' = [staged EXCEPT ![u] = Payload(entry.stored.blob, now)]
    /\ stage' = [stage EXCEPT ![u] = "tag"]
    /\ UNCHANGED <<vars, ownerVars, storeVars, clockVars, entry, observed, attempt>>

\* publish: a payload the store has already keeps its modification time.
publish(u) ==
    /\ stage[u] = "push"
    /\ mtime' = [mtime EXCEPT ![staged[u].blob] = IF @ = Never THEN now ELSE @]
    /\ stage' = [stage EXCEPT ![u] = "tag"]
    /\ UNCHANGED <<vars, ownerVars, clockVars, index, good, lost, used, entry, observed, attempt, staged>>

\* tagPayload, and attempt's waveResult and c.entries.Store.
tagPayload(u) ==
    /\ stage[u] = "tag"
    /\ index' = staged[u]
    /\ good' = staged[u].blob /\ lost' = FALSE /\ used' = Never
    /\ Replace(u, NewEntry(staged[u], staged[u].at), Shared)
    /\ Release(u) /\ Over(u)
    /\ UNCHANGED <<ownerVars, clockVars, mtime>>
-----------------------------------------------------------------------------
(* attemptHistory.failed.  A producer's failure is transient (retryable),  *)
(* or the remote's refusal, or the deadline of Policy.Timeout; a cache     *)
(* failure is one of the disk.                                             *)

\* The caller's cancellation, and the deadline of a due attempt, retain the
\* previous entry.
FailQuietly(u, class) ==
    /\ u \in done \/ (Due(entry) /\ class = "deadline")
    /\ Release(u) /\ Over(u) /\ Forget(u)
    /\ UNCHANGED <<storeVars, entry>>

Speaks(u, class) == u \notin done /\ ~(Due(entry) /\ class = "deadline")

\* A retryable failure with attempts left changes nobody else's call.
FailRetryably(u, class) ==
    /\ Speaks(u, class) /\ class = "transient" /\ AttemptsLeft(u) > 1
    /\ Replace(u, Retained(entry), NoWave)
    /\ Release(u)
    /\ stage' = [stage EXCEPT ![u] = "backoff"]
    /\ UNCHANGED <<storeVars, attempt, staged>>

\* The last attempt is terminal, and remembered with its count; a store that
\* refuses the outcome leaves the previous one.
publishOutcome(u, class, saved) ==
    /\ Speaks(u, class) /\ class = "transient" /\ AttemptsLeft(u) <= 1
    /\ LET o == Outcome(now, nextOutcomeCount(Count(entry)), LastGood(entry.stored))
       IN /\ index' = IF saved THEN o ELSE index
          /\ mtime' = IF saved THEN [mtime EXCEPT ![Failure] = now] ELSE mtime
          /\ Replace(u, IF saved THEN NewEntry(o, Never) ELSE Retained(entry),
                     IF Due(entry) THEN SharedError ELSE NoWave)
    /\ used' = IF saved THEN Never ELSE used
    /\ Release(u) /\ Over(u)
    /\ UNCHANGED <<good, lost>>

\* Every other failure is shared with those who wait, except a deadline's.
FailFinally(u, class) ==
    /\ Speaks(u, class) /\ class # "transient"
    /\ Replace(u, Retained(entry),
               IF Due(entry) \/ class # "deadline" THEN SharedError ELSE NoWave)
    /\ Release(u) /\ Over(u)
    /\ UNCHANGED storeVars

failed(u, class) ==
    /\ stage[u] = "produce" \/ (stage[u] \in {"push", "tag"} /\ class \in {"disk", "deadline"})
    /\ \/ FailQuietly(u, class)
       \/ FailRetryably(u, class)
       \/ \E saved \in BOOLEAN : publishOutcome(u, class, saved)
       \/ FailFinally(u, class)
    /\ UNCHANGED <<ownerVars, clockVars>>

Class == {"transient", "refusal", "deadline", "disk"}
-----------------------------------------------------------------------------
(* The owner's steps with what they do to the store and the memory.        *)

Fault(f) ==
    /\ f \notin faults /\ Cardinality(faults) < MaxFaults
    /\ faults' = faults \cup {f}

Inert == UNCHANGED <<keyVars, storeVars, callVars, clockVars>>

\* A Cache that nobody can reach any more: its locks and entries are gone.
Forgotten ==
    /\ locks' = [k \in Key |-> NoChannel] /\ entry' = None
    /\ UNCHANGED <<pc, want, observed, stage, attempt, staged>>

NewCache(u) ==
    /\ New(u)
    /\ sessions < MaxSessions /\ sessions' = sessions + 1
    /\ UNCHANGED <<keyVars, storeVars, callVars, now, faults, calls>>

\* openStore rebuilds an unreadable index.
OpenStore(u) ==
    /\ Open(u)
    /\ index' = IF index = Torn THEN None ELSE index
    /\ UNCHANGED <<keyVars, mtime, good, lost, used, callVars, clockVars>>

CloseCache(u) ==
    /\ stage[u] = "idle" /\ Close(u)
    /\ IF refs = 1 THEN Forgotten ELSE UNCHANGED <<keyVars, callVars>>
    /\ UNCHANGED <<storeVars, clockVars>>

Retires == SweepAge > 0 /\ mtime[BlobOf(index)] <= now - SweepAge - accessInterval

\* sweepSelection.apply: untag what was not used, then collect the blobs
\* that no tag reaches.
Sweep ==
    /\ flock = "rival" /\ index # Torn
    /\ index' = IF index # None /\ Retires THEN None ELSE index
    /\ mtime' = [b \in DOMAIN mtime |->
                   IF index' # None /\ b \in {BlobOf(index'), LastGood(index')} THEN mtime[b] ELSE Never]
    /\ good' = IF index' = None \/ lost THEN NoBlob ELSE good
    /\ lost' = FALSE
    /\ used' = IF index' = None THEN Never ELSE used
    /\ UNCHANGED <<vars, ownerVars, callVars, clockVars>>

\* The process dies, at any moment; the Tag of a payload, or of the outcome
\* of a producer that had returned, may have been writing the index.
Crash ==
    /\ Fault("crash")
    /\ \E u \in Proc : session[u] # "out"
    /\ \/ UNCHANGED <<index, lost, used>>
       \/ /\ \E u \in Proc : stage[u] \in {"produce", "tag"}
          /\ index' = Torn /\ lost' = TRUE /\ used' = Never
    /\ phase' = "none" /\ refs' = 0
    /\ flock' = IF flock = "ours" THEN "free" ELSE flock
    /\ session' = [u \in Proc |-> "out"] /\ done' = {}
    /\ locks' = [k \in Key |-> NoChannel] /\ pc' = [u \in Proc |-> "idle"]
    /\ entry' = None
    /\ observed' = [u \in Proc |-> NoWave]
    /\ stage' = [u \in Proc |-> "idle"]
    /\ attempt' = [u \in Proc |-> 0]
    /\ staged' = [u \in Proc |-> None]
    /\ UNCHANGED <<want, mtime, good, now, calls, sessions>>

Tick ==
    /\ now < MaxTime /\ now' = now + 1
    /\ UNCHANGED <<vars, ownerVars, storeVars, callVars, faults, calls, sessions>>

\* The wall clock is set back.
Rollback ==
    /\ Fault("rollback")
    /\ now > 0 /\ now' = now - 1
    /\ UNCHANGED <<vars, ownerVars, storeVars, callVars, calls, sessions>>

Cancel(u) ==
    /\ session[u] # "out" /\ CancelContext(u)
    /\ Fault("cancel")
    /\ UNCHANGED <<ownerVars, storeVars, callVars, restVars>>

Opening(u) ==
    \/ OpenStore(u)
    \/ Inert /\ (OpenFails(u) \/ Opened(u) \/ Refused(u) \/ WaitCancelled(u))

Lookups(u) ==
    \/ Queue(u) \/ Granted(u) \/ Denied(u)
    \/ Share(u) \/ LoadFails(u) \/ Replay(u) \/ ReplayFails(u) \/ Reuse(u) \/ ReuseFails(u)
    \/ Produce(u) \/ ProduceRefused(u)
    \/ publish(u) \/ tagPayload(u) \/ Retry(u) \/ BackoffCancelled(u)

Producer(u) ==
    \/ \E b \in Blob : Produced(u, b)
    \/ Unchanged(u)
    \/ \E class \in Class : failed(u, class)

User(u) ==
    \/ NewCache(u)
    \/ Opening(u) \/ Acquire(u) \/ Lookups(u) \/ Producer(u) \/ Cancel(u)
    \/ CloseCache(u)

Rival ==
    \/ UNCHANGED vars /\ UNCHANGED <<storeVars, callVars, clockVars>> /\ (SweepLock \/ SweepUnlock)
    \/ Sweep

CacheNext == (\E u \in Proc : User(u)) \/ Rival \/ Crash \/ Tick \/ Rollback

\* A user that waits inside the cache keeps running, and a producer returns
\* once its context is done; whether a producer returns at all otherwise, a
\* run starts, and a lock held elsewhere is released is not the cache's.
Cancelled(u) ==
    /\ u \in done
    /\ \/ Inert /\ (OpenFails(u) \/ WaitCancelled(u))
       \/ \E class \in Class : failed(u, class)

CacheFairness == \A u \in Proc : WF_cacheVars(Lookups(u) \/ Cancelled(u))

CacheSpec == CacheInit /\ [][CacheNext]_cacheVars /\ CacheFairness
-----------------------------------------------------------------------------
(* No failure, cancellation or restart loses the last complete generation: *)
(* what the index and a loaded entry name leads to the payload that was    *)
(* tagged last (attemptHistory.lastGood).  One thing does: a crash in the  *)
(* middle of a Tag, of a payload or of an outcome that carries the last    *)
(* good one on, tears the index, and openStore drops it with every tag     *)
(* (owner.go 180).  Then nothing is named until the next payload is        *)
(* tagged, never an older generation, and the payload itself stays in the  *)
(* store until a Sweep, as it does as long as it is named.                 *)
LastGoodKept ==
    /\ LastGood(index) = IF lost THEN NoBlob ELSE good
    /\ good # NoBlob => mtime[good] # Never
    /\ entry # None /\ ~entry.unloaded => LastGood(entry.stored) = LastGood(index)

(* A remembered failure suppresses production until its deadline, through  *)
(* restarts and for every caller, unless the clock went back (replay).     *)
FailureHolds ==
    \A u \in Proc :
        stage[u] = "produce" /\ index.kind = "outcome" /\ "rollback" \notin faults
            => now >= outcomeDeadline(index)

(* Sweep retires nothing that an acquisition used within SweepAge, however *)
(* many accesses touch coalesced and whichever entry coalesced them.       *)
SweepKeepsRecent ==
    [][Sweep /\ index # None /\ index' = None => used = Never \/ now - used >= SweepAge]_cacheVars

Blocked(u) == session[u] \in {"opening", "waiting"} \/ stage[u] # "idle"

(* A user whose context fires comes back from New and from Acquire, while  *)
(* the owner opens, the lock file or the key is held, or a retry waits.    *)
CancelledCallReturns == \A u \in Proc : (u \in done /\ Blocked(u)) ~> ~Blocked(u)
=============================================================================
