---------------------------- MODULE TaskService ----------------------------
(***************************************************************************)
(* pkg/task: goroutines whose bodies share a bounded number of slots.  The *)
(* channel sem holds one token per occupied slot.  A body may submit more  *)
(* tasks, and gives its slot up with YieldSlot while it waits for them; a  *)
(* forked service shares sem and keeps its own WaitGroup and failures.     *)
(***************************************************************************)
EXTENDS Integers, FiniteSets

CONSTANTS Task,      \* the goroutines Go may launch
          Service,   \* the services that share one sem: one and its forks
          Workers    \* NewBounded's argument; 0 leaves the bodies unbounded

ASSUME WorkersAssumption == Workers \in Nat
ASSUME TaskAssumption == IsFiniteSet(Task)

VARIABLES pc,        \* where each goroutine is
          service,   \* the service each task was submitted to
          parent,    \* the task whose body submitted it, or the task itself
          panicking, \* the tasks that unwind a panic
          done,      \* the tasks whose context is done
          sem,       \* the tokens in Service.sem
          wgActive,  \* each service's WaitGroup
          failures,  \* each service's panic counter
          joined     \* the services whose BlockTillDone has returned

vars == <<pc, service, parent, panicking, done, sem, wgActive, failures, joined>>

Init ==
    /\ pc = [t \in Task |-> "new"]
    /\ service \in [Task -> Service]
    /\ parent = [t \in Task |-> t]
    /\ panicking = {}
    /\ done = {}
    /\ sem = 0
    /\ wgActive = [s \in Service |-> 0]
    /\ failures = [s \in Service |-> 0]
    /\ joined = {}

Bounded == Workers > 0

At(t, from, to) == pc[t] = from /\ pc' = [pc EXCEPT ![t] = to]

\* s.sem <- struct{}{} and <-s.sem; without a bound there is no channel.
Send == IF Bounded THEN sem < Workers /\ sem' = sem + 1 ELSE UNCHANGED sem
Receive == IF Bounded THEN sem > 0 /\ sem' = sem - 1 ELSE UNCHANGED sem
-----------------------------------------------------------------------------
(* Mutants: plausible mistakes in Go and YieldSlot.                        *)

\* The slot is kept while the body waits.
YieldKeepsSlot(t) ==
    /\ At(t, "body", "yielding")
    /\ UNCHANGED <<service, parent, panicking, done, sem, wgActive, failures, joined>>

\* A panic inside fn skips the re-acquire: it is not deferred.
YieldPanicLosesSlot(t) ==
    /\ At(t, "yielding", "unwinding")
    /\ panicking' = panicking \cup {t}
    /\ UNCHANGED <<service, parent, done, sem, wgActive, failures, joined>>

\* The WaitGroup is counted down before the panic is recorded.
DoneBeforeRecover(t) ==
    /\ At(t, "released", "recorded")
    /\ wgActive' = [wgActive EXCEPT ![service[t]] = @ - 1]
    /\ UNCHANGED <<service, parent, panicking, done, sem, failures, joined>>
-----------------------------------------------------------------------------
\* Go: from outside before BlockTillDone returns, or from an active body.
Go(t, by) ==
    /\ \/ by = t /\ service[t] \notin joined
       \/ by # t /\ pc[by] = "body" /\ service[t] = service[by]
    /\ At(t, "new", "queued")
    /\ wgActive' = [wgActive EXCEPT ![service[t]] = @ + 1]
    /\ parent' = [parent EXCEPT ![t] = by]
    /\ UNCHANGED <<service, panicking, done, sem, failures, joined>>

\* select, first branch: a slot is free.
AcquireSlot(t) ==
    /\ At(t, "queued", "body")
    /\ Send
    /\ UNCHANGED <<service, parent, panicking, done, wgActive, failures, joined>>

\* select, second branch: the context is done first and the body never runs.
Drop(t) ==
    /\ Bounded
    /\ t \in done
    /\ At(t, "queued", "released")
    /\ UNCHANGED <<service, parent, panicking, done, sem, wgActive, failures, joined>>

YieldSlot(t) ==
    /\ At(t, "body", "yielding")
    /\ Receive
    /\ UNCHANGED <<service, parent, panicking, done, wgActive, failures, joined>>

\* fn, a wait for the tasks the body submitted, returns.
YieldReturn(t) ==
    /\ \A u \in Task \ {t} : parent[u] = t => pc[u] = "ended"
    /\ At(t, "yielding", "reacquiring")
    /\ UNCHANGED <<service, parent, panicking, done, sem, wgActive, failures, joined>>

YieldPanic(t) ==
    /\ At(t, "yielding", "reacquiring")
    /\ panicking' = panicking \cup {t}
    /\ UNCHANGED <<service, parent, done, sem, wgActive, failures, joined>>

\* The deferred send takes a slot again, also on the way out of a panic.
Reacquire(t) ==
    /\ At(t, "reacquiring", IF t \in panicking THEN "unwinding" ELSE "body")
    /\ Send
    /\ UNCHANGED <<service, parent, panicking, done, wgActive, failures, joined>>

\* fn(ctx) returns or panics.
BodyEnds(t) ==
    /\ At(t, "body", "unwinding")
    /\ panicking' \in {panicking, panicking \cup {t}}
    /\ UNCHANGED <<service, parent, done, sem, wgActive, failures, joined>>

\* The deferred calls of Go, last in first out: the slot, recover, Done.
ReleaseSlot(t) ==
    /\ At(t, "unwinding", "released")
    /\ Receive
    /\ UNCHANGED <<service, parent, panicking, done, wgActive, failures, joined>>

Recover(t) ==
    /\ At(t, "released", "recorded")
    /\ failures' = [failures EXCEPT ![service[t]] = IF t \in panicking THEN @ + 1 ELSE @]
    /\ UNCHANGED <<service, parent, panicking, done, sem, wgActive, joined>>

Done(t) ==
    /\ At(t, "recorded", "ended")
    /\ wgActive' = [wgActive EXCEPT ![service[t]] = @ - 1]
    /\ UNCHANGED <<service, parent, panicking, done, sem, failures, joined>>

BlockTillDone(s) ==
    /\ s \notin joined
    /\ wgActive[s] = 0
    /\ joined' = joined \cup {s}
    /\ UNCHANGED <<pc, service, parent, panicking, done, sem, wgActive, failures>>

\* The service looks at the context only while the task waits for its slot.
CancelContext(t) ==
    /\ t \notin done /\ pc[t] \in {"new", "queued"}
    /\ done' = done \cup {t}
    /\ UNCHANGED <<pc, service, parent, panicking, sem, wgActive, failures, joined>>

\* What a launched goroutine goes on to do by itself.
Step(t) ==
    \/ AcquireSlot(t) \/ Drop(t) \/ YieldReturn(t) \/ Reacquire(t)
    \/ BodyEnds(t) \/ ReleaseSlot(t) \/ Recover(t) \/ Done(t)

Finished == joined = Service /\ UNCHANGED vars

Next ==
    \/ \E t \in Task :
          Step(t) \/ YieldSlot(t) \/ YieldPanic(t) \/ CancelContext(t) \/ \E by \in Task : Go(t, by)
    \/ \E s \in Service : BlockTillDone(s)
    \/ Finished

Spec == Init /\ [][Next]_vars

\* Goroutines run, and a body does not yield for ever.  The Go runtime serves
\* the senders of a channel in order, so a waiter is not overtaken for ever.
Fairness ==
    /\ \A t \in Task : /\ WF_vars(Step(t)) /\ SF_vars(BodyEnds(t))
                       /\ SF_vars(AcquireSlot(t)) /\ SF_vars(Reacquire(t))
    /\ \A s \in Service : WF_vars(BlockTillDone(s))

FairSpec == Spec /\ Fairness
-----------------------------------------------------------------------------
Holding == {t \in Task : pc[t] \in {"body", "unwinding"}}

(* The tokens in sem are exactly the slots held: whatever panics, yields   *)
(* and cancellations interleave, no slot leaks, none is returned twice,    *)
(* and at most Workers bodies execute.                                     *)
SlotsConserved == Bounded => sem = Cardinality(Holding) /\ sem <= Workers

(* BlockTillDone returns late enough: every task of the service has ended  *)
(* and its panic is counted, so Failures() read afterwards is final, and   *)
(* the panics of a fork are not mixed into another service's.              *)
JoinSeesAll ==
    \A s \in joined :
        /\ \A t \in Task : service[t] = s => pc[t] \in {"new", "ended"}
        /\ failures[s] = Cardinality({t \in panicking : service[t] = s})

(* Go's promise that callers never block is kept to the end: every         *)
(* submitted task ends, also when all slots are held by bodies that wait   *)
(* for tasks still queued behind them.                                     *)
EveryTaskEnds == \A t \in Task : pc[t] = "queued" ~> pc[t] = "ended"
=============================================================================
