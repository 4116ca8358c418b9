------------------------------ MODULE KeyLock ------------------------------
(***************************************************************************)
(* internal/keylock: a process-wide map of mutual-exclusion locks, one per *)
(* key, whose Acquire gives up when the caller's context is done.  A lock  *)
(* is a channel of capacity one: an empty channel is a free lock, a full   *)
(* channel is a held one.                                                  *)
(***************************************************************************)
EXTENDS Integers

CONSTANTS Proc,  \* the goroutines that call Acquire
          Key    \* the values of KeyMap's type parameter K

VARIABLES locks,  \* KeyMap.locks: the tokens in each key's channel, or NoChannel
          pc,     \* where each goroutine is in Acquire and its release func
          want,   \* the key of each goroutine's current call
          done    \* the goroutines whose context is done

vars == <<locks, pc, want, done>>

NoChannel == -1   \* the key is not in the map yet

TypeOK ==
    /\ locks \in [Key -> {0, 1, NoChannel}]
    /\ pc \in [Proc -> {"idle", "checking", "selecting", "holding", "refused"}]
    /\ want \in [Proc -> Key]
    /\ done \subseteq Proc

Init ==
    /\ locks = [k \in Key |-> NoChannel]
    /\ pc = [p \in Proc |-> "idle"]
    /\ want \in [Proc -> Key]
    /\ done = {}
-----------------------------------------------------------------------------
(* Mutants: plausible mistakes in Acquire.                                 *)

\* The channel has room for two tokens.
GrantTwo(p) ==
    /\ pc[p] = "selecting"
    /\ locks[want[p]] < 2
    /\ locks' = [locks EXCEPT ![want[p]] = @ + 1]
    /\ pc' = [pc EXCEPT ![p] = "holding"]
    /\ UNCHANGED <<want, done>>

\* A call that gives up has sent its token all the same.
AbandonSends(p) ==
    /\ pc[p] = "selecting"
    /\ p \in done
    /\ locks' = [locks EXCEPT ![want[p]] = 1]
    /\ pc' = [pc EXCEPT ![p] = "refused"]
    /\ UNCHANGED <<want, done>>

\* The wait is a plain send, not a select: it never looks at the context.
AbandonNever(p) ==
    /\ pc[p] = "selecting"
    /\ FALSE
    /\ UNCHANGED vars
-----------------------------------------------------------------------------
\* Acquire under m.mu: the key has a channel from here on.
Lookup(p, k) ==
    /\ pc[p] = "idle"
    /\ want' = [want EXCEPT ![p] = k]
    /\ locks' = [locks EXCEPT ![k] = IF @ = NoChannel THEN 0 ELSE @]
    /\ pc' = [pc EXCEPT ![p] = "checking"]
    /\ UNCHANGED done

\* ctx.Err(): a call whose context is already done leaves the channel alone.
Check(p) ==
    /\ pc[p] = "checking"
    /\ pc' = [pc EXCEPT ![p] = IF p \in done THEN "refused" ELSE "selecting"]
    /\ UNCHANGED <<locks, want, done>>

\* select, first branch: the send succeeds while the channel of one is empty.
Grant(p) ==
    /\ pc[p] = "selecting"
    /\ locks[want[p]] = 0
    /\ locks' = [locks EXCEPT ![want[p]] = @ + 1]
    /\ pc' = [pc EXCEPT ![p] = "holding"]
    /\ UNCHANGED <<want, done>>

\* select, second branch: the context fired while the call waited.
Abandon(p) ==
    /\ pc[p] = "selecting"
    /\ p \in done
    /\ pc' = [pc EXCEPT ![p] = "refused"]
    /\ UNCHANGED <<locks, want, done>>

\* The release func of a granted call receives its token back.
Release(p) ==
    /\ pc[p] = "holding"
    /\ locks[want[p]] > 0
    /\ locks' = [locks EXCEPT ![want[p]] = @ - 1]
    /\ pc' = [pc EXCEPT ![p] = "idle"]
    /\ UNCHANGED <<want, done>>

\* noop, the release func of a refused call.
ReleaseRefused(p) ==
    /\ pc[p] = "refused"
    /\ pc' = [pc EXCEPT ![p] = "idle"]
    /\ UNCHANGED <<locks, want, done>>

\* The caller's context fires, at any moment.
CancelContext(p) ==
    /\ p \notin done
    /\ done' = done \cup {p}
    /\ UNCHANGED <<locks, pc, want>>

Step(p) == Check(p) \/ Grant(p) \/ Abandon(p) \/ Release(p) \/ ReleaseRefused(p)

Next == \E p \in Proc :
    \/ \E k \in Key : Lookup(p, k)
    \/ Step(p)
    \/ CancelContext(p)

Spec == Init /\ [][Next]_vars
-----------------------------------------------------------------------------
(* At most one goroutine is between a successful Acquire(key) and its      *)
(* release, whatever contexts fire while others wait on the same channel.  *)
MutualExclusion ==
    \A p, q \in Proc :
        pc[p] = "holding" /\ pc[q] = "holding" /\ want[p] = want[q] => p = q

(* A channel holds a token exactly while a caller holds its key: a refused *)
(* call left nothing behind, no key becomes unobtainable, and a release    *)
(* finds the token that its own Grant sent and nobody else's.              *)
NoLeakedLock ==
    \A k \in Key : locks[k] = 1 <=> \E p \in Proc : pc[p] = "holding" /\ want[p] = k
=============================================================================
