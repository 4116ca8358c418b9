------------------------- MODULE TaskServiceProofs -------------------------
(***************************************************************************)
(* The slots and the joins of pkg/task for any finite number of tasks, any *)
(* forks and any number of workers.                                        *)
(***************************************************************************)
EXTENDS TaskService, FiniteSetTheorems, TLAPS

Running == {"queued", "body", "yielding", "reacquiring", "unwinding", "released", "recorded"}

\* The tasks a service's WaitGroup counts, and those whose panic is recorded.
Active(s) == {t \in Task : service[t] = s /\ pc[t] \in Running}
Recorded(s) == {t \in Task : service[t] = s /\ t \in panicking /\ pc[t] \in {"recorded", "ended"}}

Typed ==
    /\ pc \in [Task -> Running \cup {"new", "ended"}]
    /\ service \in [Task -> Service]
    /\ panicking \subseteq Task
    /\ sem \in Int
    /\ wgActive \in [Service -> Int]
    /\ failures \in [Service -> Int]
    /\ joined \subseteq Service

\* A panic is noted once the body is on its way out.
PanicInv ==
    \A t \in panicking : pc[t] \in {"reacquiring", "unwinding", "released", "recorded", "ended"}

GroupInv == \A s \in Service : wgActive[s] = Cardinality(Active(s))
FailureInv == \A s \in Service : failures[s] = Cardinality(Recorded(s))

\* Nobody submits to a service that was joined: its bodies, who could, are gone.
JoinInv == \A s \in joined : \A t \in Task : service[t] = s => pc[t] \in {"new", "ended"}

Inv == Typed /\ PanicInv /\ SlotsConserved /\ GroupInv /\ FailureInv /\ JoinInv
-----------------------------------------------------------------------------
LEMMA SubsetFinite ==
  ASSUME NEW S \in SUBSET Task
  PROVE  IsFiniteSet(S) /\ Cardinality(S) \in Nat
  BY TaskAssumption, FS_Subset, FS_CardinalityType

LEMMA Plus ==
  ASSUME NEW S \in SUBSET Task, NEW t \in Task, t \notin S
  PROVE  Cardinality(S \cup {t}) = Cardinality(S) + 1
  BY SubsetFinite, FS_AddElement

LEMMA Minus ==
  ASSUME NEW S \in SUBSET Task, NEW t \in Task, t \in S
  PROVE  Cardinality(S \ {t}) = Cardinality(S) - 1
  BY SubsetFinite, FS_RemoveElement

LEMMA Sets == /\ Holding \in SUBSET Task
              /\ \A s : Active(s) \in SUBSET Task /\ Recorded(s) \in SUBSET Task
  BY DEF Holding, Active, Recorded
-----------------------------------------------------------------------------
(* The slots: a send comes with a task that begins to hold one, a receive  *)
(* with a task that ceases to.                                             *)
LEMMA SlotTaken ==
  ASSUME Typed, SlotsConserved, NEW t \in Task, pc[t] \notin {"body", "unwinding"},
         NEW to \in {"body", "unwinding"}, pc' = [pc EXCEPT ![t] = to], Send
  PROVE  SlotsConserved' /\ sem' \in Int
<1>1. Holding' = Holding \cup {t} /\ t \notin Holding
  BY DEF Typed, Holding
<1>2. Cardinality(Holding') = Cardinality(Holding) + 1
  BY <1>1, Sets, Plus
<1>. QED BY <1>2, WorkersAssumption DEF Typed, SlotsConserved, Send, Bounded

LEMMA SlotGivenBack ==
  ASSUME Typed, SlotsConserved, NEW t \in Task, pc[t] \in {"body", "unwinding"},
         NEW to, to \notin {"body", "unwinding"}, pc' = [pc EXCEPT ![t] = to], Receive
  PROVE  SlotsConserved' /\ sem' \in Int
<1>1. Holding' = Holding \ {t} /\ t \in Holding
  BY DEF Typed, Holding
<1>2. Cardinality(Holding') = Cardinality(Holding) - 1
  BY <1>1, Sets, Minus
<1>. QED BY <1>2, WorkersAssumption DEF Typed, SlotsConserved, Receive, Bounded

LEMMA SlotKept ==
  ASSUME Typed, SlotsConserved, NEW t \in Task, NEW to,
         pc[t] \in {"body", "unwinding"} <=> to \in {"body", "unwinding"},
         pc' = [pc EXCEPT ![t] = to], UNCHANGED sem
  PROVE  SlotsConserved' /\ sem' \in Int
<1>1. Holding' = Holding
  BY DEF Typed, Holding
<1>. QED BY <1>1 DEF Typed, SlotsConserved, Bounded
-----------------------------------------------------------------------------
(* The groups: a task that goes from one of its places to the next one     *)
(* leaves every WaitGroup and every failure counter right.                 *)
LEMMA SameGroup ==
  ASSUME Typed, GroupInv, NEW t \in Task, pc[t] \in Running,
         NEW to \in Running, pc' = [pc EXCEPT ![t] = to], UNCHANGED <<service, wgActive>>
  PROVE  GroupInv'
<1>1. \A s \in Service : Active(s)' = Active(s)
  BY DEF Typed, Active
<1>. QED BY <1>1 DEF GroupInv

LEMMA SameFailures ==
  ASSUME Typed, PanicInv, FailureInv, NEW t \in Task, NEW to,
         pc[t] \notin {"recorded", "ended"}, to \notin {"recorded", "ended"},
         pc' = [pc EXCEPT ![t] = to], panicking' \in {panicking, panicking \cup {t}},
         UNCHANGED <<service, failures>>
  PROVE  FailureInv'
<1>1. \A s \in Service : Recorded(s)' = Recorded(s)
  BY DEF Typed, Recorded
<1>. QED BY <1>1 DEF FailureInv

LEMMA StillJoined ==
  ASSUME Typed, JoinInv, NEW t \in Task, pc[t] \in Running, NEW to,
         pc' = [pc EXCEPT ![t] = to], UNCHANGED <<service, joined>>
  PROVE  JoinInv'
  BY DEF Typed, JoinInv, Running

LEMMA MovesOn ==
  ASSUME Inv, NEW t \in Task, NEW from \in Running \ {"recorded"}, NEW to \in Running \ {"recorded"},
         At(t, from, to), SlotsConserved' /\ sem' \in Int, PanicInv',
         panicking' \in {panicking, panicking \cup {t}},
         UNCHANGED <<service, wgActive, failures, joined>>
  PROVE  Inv'
<1>1. Typed'
  BY DEF Inv, Typed, At
<1>2. GroupInv'
  BY SameGroup DEF Inv, At
<1>3. FailureInv'
  BY SameFailures DEF Inv, At, Running
<1>4. JoinInv'
  BY StillJoined DEF Inv, At
<1>. QED BY <1>1, <1>2, <1>3, <1>4 DEF Inv
-----------------------------------------------------------------------------
LEMMA InvInit == Init => Inv
<1> SUFFICES ASSUME Init PROVE Inv
  OBVIOUS
<1> USE DEF Init
<1>1. Typed /\ PanicInv /\ JoinInv
  BY DEF Typed, PanicInv, JoinInv
<1>2. Holding = {} /\ \A s \in Service : Active(s) = {} /\ Recorded(s) = {}
  BY DEF Holding, Active, Recorded, Running
<1>3. SlotsConserved /\ GroupInv /\ FailureInv
  BY <1>2, FS_EmptySet, WorkersAssumption DEF SlotsConserved, GroupInv, FailureInv
<1>. QED BY <1>1, <1>3 DEF Inv

\* Submission is refused after the join, from outside and from within.
LEMMA GoStep ==
  ASSUME Inv, NEW t \in Task, NEW by \in Task, Go(t, by)
  PROVE  Inv'
<1> USE DEF Go, At
<1>1. Typed' /\ PanicInv'
  BY DEF Inv, Typed, PanicInv, Running
<1>2. SlotsConserved'
  BY SlotKept DEF Inv
<1>3. GroupInv'
  <2>1. /\ Active(service[t])' = Active(service[t]) \cup {t} /\ t \notin Active(service[t])
        /\ \A s \in Service \ {service[t]} : Active(s)' = Active(s)
    BY DEF Inv, Typed, Active, Running
  <2>2. Cardinality(Active(service[t])') = Cardinality(Active(service[t])) + 1
    BY <2>1, Sets, Plus
  <2>. QED BY <2>1, <2>2 DEF Inv, Typed, GroupInv
<1>4. FailureInv'
  BY SameFailures DEF Inv
<1>5. service[t] \notin joined
  BY DEF Inv, JoinInv
<1>6. JoinInv'
  BY <1>5 DEF Inv, Typed, JoinInv
<1>. QED BY <1>1, <1>2, <1>3, <1>4, <1>6 DEF Inv

LEMMA AcquireSlotStep ==
  ASSUME Inv, NEW t \in Task, AcquireSlot(t)
  PROVE  Inv'
<1>1. SlotsConserved' /\ sem' \in Int
  BY SlotTaken DEF Inv, AcquireSlot, At
<1>2. PanicInv'
  BY DEF Inv, Typed, PanicInv, AcquireSlot, At
<1>. QED BY <1>1, <1>2, MovesOn DEF AcquireSlot, Running

LEMMA DropStep ==
  ASSUME Inv, NEW t \in Task, Drop(t)
  PROVE  Inv'
<1>1. SlotsConserved' /\ sem' \in Int
  BY SlotKept DEF Inv, Drop, At
<1>2. PanicInv'
  BY DEF Inv, Typed, PanicInv, Drop, At
<1>. QED BY <1>1, <1>2, MovesOn DEF Drop, Running

LEMMA YieldSlotStep ==
  ASSUME Inv, NEW t \in Task, YieldSlot(t)
  PROVE  Inv'
<1>1. SlotsConserved' /\ sem' \in Int
  BY SlotGivenBack DEF Inv, YieldSlot, At
<1>2. PanicInv'
  BY DEF Inv, Typed, PanicInv, YieldSlot, At
<1>. QED BY <1>1, <1>2, MovesOn DEF YieldSlot, Running

LEMMA YieldEndsStep ==
  ASSUME Inv, NEW t \in Task, YieldReturn(t) \/ YieldPanic(t)
  PROVE  Inv'
<1> USE DEF YieldReturn, YieldPanic
<1>1. SlotsConserved' /\ sem' \in Int
  BY SlotKept DEF Inv, At
<1>2. PanicInv'
  BY DEF Inv, Typed, PanicInv, At
<1>. QED BY <1>1, <1>2, MovesOn DEF Running

LEMMA ReacquireStep ==
  ASSUME Inv, NEW t \in Task, Reacquire(t)
  PROVE  Inv'
<1> DEFINE to == IF t \in panicking THEN "unwinding" ELSE "body"
<1>0. to \in {"body", "unwinding"} /\ At(t, "reacquiring", to)
  BY DEF Reacquire
<1>1. SlotsConserved' /\ sem' \in Int
  <2>. HIDE DEF to
  <2>. QED BY <1>0, SlotTaken DEF Inv, Reacquire, At
<1>2. PanicInv'
  BY DEF Inv, Typed, PanicInv, Reacquire, At
<1>. HIDE DEF to
<1>. QED BY <1>0, <1>1, <1>2, MovesOn DEF Reacquire, Running

LEMMA BodyEndsStep ==
  ASSUME Inv, NEW t \in Task, BodyEnds(t)
  PROVE  Inv'
<1>1. SlotsConserved' /\ sem' \in Int
  BY SlotKept DEF Inv, BodyEnds, At
<1>2. PanicInv'
  BY DEF Inv, Typed, PanicInv, BodyEnds, At
<1>. QED BY <1>1, <1>2, MovesOn DEF BodyEnds, Running

LEMMA ReleaseSlotStep ==
  ASSUME Inv, NEW t \in Task, ReleaseSlot(t)
  PROVE  Inv'
<1>1. SlotsConserved' /\ sem' \in Int
  BY SlotGivenBack DEF Inv, ReleaseSlot, At
<1>2. PanicInv'
  BY DEF Inv, Typed, PanicInv, ReleaseSlot, At
<1>. QED BY <1>1, <1>2, MovesOn DEF ReleaseSlot, Running

LEMMA RecoverStep ==
  ASSUME Inv, NEW t \in Task, Recover(t)
  PROVE  Inv'
<1> USE DEF Recover, At
<1>1. Typed' /\ PanicInv'
  BY DEF Inv, Typed, PanicInv, Running
<1>2. SlotsConserved'
  BY SlotKept DEF Inv
<1>3. GroupInv'
  BY SameGroup DEF Inv, Running
<1>4. FailureInv'
  <2>1. CASE t \notin panicking
    <3>1. \A s \in Service : Recorded(s)' = Recorded(s)
      BY <2>1 DEF Inv, Typed, Recorded
    <3>. QED BY <2>1, <3>1 DEF Inv, Typed, FailureInv
  <2>2. CASE t \in panicking
    <3>1. /\ Recorded(service[t])' = Recorded(service[t]) \cup {t}
          /\ t \notin Recorded(service[t])
          /\ \A s \in Service \ {service[t]} : Recorded(s)' = Recorded(s)
      BY <2>2 DEF Inv, Typed, Recorded
    <3>2. Cardinality(Recorded(service[t])') = Cardinality(Recorded(service[t])) + 1
      BY <3>1, Sets, Plus
    <3>. QED BY <2>2, <3>1, <3>2 DEF Inv, Typed, FailureInv
  <2>. QED BY <2>1, <2>2
<1>5. JoinInv'
  BY StillJoined DEF Inv, Running
<1>. QED BY <1>1, <1>2, <1>3, <1>4, <1>5 DEF Inv

LEMMA DoneStep ==
  ASSUME Inv, NEW t \in Task, Done(t)
  PROVE  Inv'
<1> USE DEF Done, At
<1>1. Typed' /\ PanicInv'
  BY DEF Inv, Typed, PanicInv
<1>2. SlotsConserved'
  BY SlotKept DEF Inv
<1>3. GroupInv'
  <2>1. /\ Active(service[t])' = Active(service[t]) \ {t} /\ t \in Active(service[t])
        /\ \A s \in Service \ {service[t]} : Active(s)' = Active(s)
    BY DEF Inv, Typed, Active, Running
  <2>2. Cardinality(Active(service[t])') = Cardinality(Active(service[t])) - 1
    BY <2>1, Sets, Minus
  <2>. QED BY <2>1, <2>2 DEF Inv, Typed, GroupInv
<1>4. FailureInv'
  <2>1. \A s \in Service : Recorded(s)' = Recorded(s)
    BY DEF Inv, Typed, Recorded
  <2>. QED BY <2>1 DEF Inv, FailureInv
<1>5. JoinInv'
  BY StillJoined DEF Inv, Running
<1>. QED BY <1>1, <1>2, <1>3, <1>4, <1>5 DEF Inv

\* The WaitGroup is at zero only when every task it counts has ended.
LEMMA BlockTillDoneStep ==
  ASSUME Inv, NEW s \in Service, BlockTillDone(s)
  PROVE  Inv'
<1> USE DEF BlockTillDone
<1>1. Typed' /\ PanicInv'
  BY DEF Inv, Typed, PanicInv
<1>2. SlotsConserved' /\ GroupInv' /\ FailureInv'
  BY DEF Inv, SlotsConserved, Holding, GroupInv, Active, FailureInv, Recorded
<1>3. Active(s) = {}
  <2>1. Cardinality(Active(s)) = 0 /\ IsFiniteSet(Active(s))
    BY Sets, SubsetFinite DEF Inv, GroupInv
  <2>. QED BY <2>1, FS_EmptySet
<1>4. JoinInv'
  BY <1>3 DEF Inv, Typed, JoinInv, Active
<1>. QED BY <1>1, <1>2, <1>4 DEF Inv

LEMMA InvUnchanged ==
  ASSUME Inv, UNCHANGED <<pc, service, panicking, sem, wgActive, failures, joined>>
  PROVE  Inv'
  BY DEF Inv, Typed, PanicInv, SlotsConserved, Holding, GroupInv, Active, FailureInv, Recorded,
         JoinInv

LEMMA InvStep == Inv /\ [Next]_vars => Inv'
<1> SUFFICES ASSUME Inv, [Next]_vars PROVE Inv'
  OBVIOUS
<1>1. ASSUME NEW t \in Task, Step(t) PROVE Inv'
  BY <1>1, AcquireSlotStep, DropStep, YieldEndsStep, ReacquireStep, BodyEndsStep, ReleaseSlotStep,
     RecoverStep, DoneStep DEF Step
<1>2. ASSUME NEW t \in Task, YieldSlot(t) \/ YieldPanic(t) PROVE Inv'
  BY <1>2, YieldSlotStep, YieldEndsStep
<1>3. ASSUME NEW t \in Task, NEW by \in Task, Go(t, by) PROVE Inv'
  BY <1>3, GoStep
<1>4. ASSUME NEW t \in Task, CancelContext(t) PROVE Inv'
  BY <1>4, InvUnchanged DEF CancelContext
<1>5. ASSUME NEW s \in Service, BlockTillDone(s) PROVE Inv'
  BY <1>5, BlockTillDoneStep
<1>6. CASE Finished \/ UNCHANGED vars
  BY <1>6, InvUnchanged DEF Finished, vars
<1>. QED BY <1>1, <1>2, <1>3, <1>4, <1>5, <1>6 DEF Next

LEMMA Invariance == Spec => []Inv
  BY InvInit, InvStep, PTL DEF Spec
-----------------------------------------------------------------------------
(* No slot leaks and none is returned twice, for any number of workers,    *)
(* through panics, yields and cancellations (task.go: Go, YieldSlot).      *)
THEOREM SlotsNeverLeak == Spec => []SlotsConserved
<1>1. Inv => SlotsConserved
  BY DEF Inv
<1>. QED BY <1>1, Invariance, PTL

(* A join is final: whoever BlockTillDone lets go finds every task of the  *)
(* service ended and every panic counted (task.go: Go, BlockTillDone).     *)
THEOREM JoinIsFinal == Spec => []JoinSeesAll
<1>1. Inv => JoinSeesAll
  <2> SUFFICES ASSUME Inv, NEW s \in joined
               PROVE  /\ \A t \in Task : service[t] = s => pc[t] \in {"new", "ended"}
                      /\ failures[s] = Cardinality({t \in panicking : service[t] = s})
    BY DEF JoinSeesAll
  <2>1. Recorded(s) = {t \in panicking : service[t] = s}
    BY DEF Inv, Typed, PanicInv, JoinInv, Recorded
  <2>. QED BY <2>1 DEF Inv, Typed, JoinInv, FailureInv
<1>. QED BY <1>1, Invariance, PTL
=============================================================================
