---------------------------- MODULE CacheOwner ----------------------------
(***************************************************************************)
(* pkg/source/cache/owner.go: who may use one cache directory.  The users  *)
(* of a process share one owner, counted in refs; the owner holds a file   *)
(* lock that keeps other processes, and Sweep, away.  A user is a run: it  *)
(* calls New, acquires through the Cache, and calls Close.  Its context is *)
(* the one its acquisitions use (KeyLock's done).  An owner that failed to *)
(* open is out of the registry, so that only its waiters still know it.    *)
(***************************************************************************)
EXTENDS KeyLock, FiniteSets

VARIABLES phase,    \* owners.stores[root]: none, or its owner before and after close(ready)
          refs,     \* owner.refs
          session,  \* where each user is between New and Close
          flock     \* who holds the lock file

ASSUME ProcAssumption == IsFiniteSet(Proc)

ownerVars == <<phase, refs, session, flock>>

Sharing == {"opening", "waiting", "in"}

OwnerInit ==
    /\ phase = "none" /\ refs = 0 /\ flock = "free"
    /\ session = [u \in Proc |-> "out"]

\* A user leaves; its next New has another context.
Leave(u) ==
    /\ session' = [session EXCEPT ![u] = "out"]
    /\ done' = done \ {u}
-----------------------------------------------------------------------------
\* A mutant: a cancelled wait keeps its share.
WaitCancelledKeepsShare(u) ==
    /\ session[u] = "waiting" /\ u \in done
    /\ Leave(u)
    /\ UNCHANGED <<phase, refs, flock>>
-----------------------------------------------------------------------------
\* New under owners.mu: share the registered owner, or register one.
New(u) ==
    /\ session[u] = "out"
    /\ refs' = refs + 1
    /\ session' = [session EXCEPT ![u] = IF phase = "none" THEN "opening" ELSE "waiting"]
    /\ phase' = IF phase = "none" THEN "opening" ELSE phase
    /\ UNCHANGED <<flock, done>>

\* open: TryLock, then TryLockContext until the lock file is free.
Open(u) ==
    /\ session[u] = "opening" /\ flock = "free"
    /\ flock' = "ours" /\ phase' = "open"
    /\ session' = [session EXCEPT ![u] = "in"]
    /\ UNCHANGED <<refs, done>>

\* open fails, because the opener's context is done or the store is
\* unreadable: its waiters get its error, and the next New starts afresh.
OpenFails(u) ==
    /\ session[u] = "opening"
    /\ u \in done \/ flock = "free"
    /\ phase' = "none" /\ refs' = 0
    /\ session' = [v \in Proc |-> CASE v = u -> "out"
                                    [] session[v] = "waiting" -> "refused"
                                    [] OTHER -> session[v]]
    /\ done' = done \ {u}
    /\ UNCHANGED flock

\* <-o.ready of an owner that opened.
Opened(u) ==
    /\ session[u] = "waiting" /\ phase = "open"
    /\ session' = [session EXCEPT ![u] = "in"]
    /\ UNCHANGED <<phase, refs, flock, done>>

\* <-o.ready of an owner that failed.
Refused(u) ==
    /\ session[u] = "refused"
    /\ Leave(u)
    /\ UNCHANGED <<phase, refs, flock>>

\* ctx.Done() while waiting, also when ready is closed too: the share goes
\* back, and a share that was the last one tears nothing down.
WaitCancelled(u) ==
    /\ session[u] = "waiting" /\ u \in done
    /\ Leave(u)
    /\ refs' = refs - 1
    /\ UNCHANGED <<phase, flock>>

\* Close: the last share unregisters the owner and releases the lock.
Close(u) ==
    /\ session[u] = "in"
    /\ Leave(u)
    /\ refs' = refs - 1
    /\ phase' = IF refs = 1 THEN "none" ELSE phase
    /\ flock' = IF refs = 1 THEN "free" ELSE flock

\* Sweep in another process: TryLock, and the deferred lock.Close.
SweepLock ==
    /\ flock = "free" /\ flock' = "rival"
    /\ UNCHANGED <<phase, refs, session>>

SweepUnlock ==
    /\ flock = "rival" /\ flock' = "free"
    /\ UNCHANGED <<phase, refs, session>>
-----------------------------------------------------------------------------
(* Whoever New gave the Cache to shares the registered owner, which holds  *)
(* the lock file until its last share is returned; and a lock file that is *)
(* held belongs to a registered owner, so that a lock left behind by a     *)
(* cancelled wait is found and released by the next user (owner.go: refs). *)
SharesHoldTheLock ==
    /\ \A u \in Proc : session[u] = "in" => phase = "open"
    /\ flock = "ours" <=> phase = "open"
    /\ refs = Cardinality({u \in Proc : session[u] \in Sharing})
=============================================================================
