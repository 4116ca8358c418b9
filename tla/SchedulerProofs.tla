-------------------------- MODULE SchedulerProofs --------------------------
(***************************************************************************)
(* The scheduler of pkg/schedule for any finite set of declarations, any   *)
(* redispatch budget, and any number of publications and panics.           *)
(***************************************************************************)
EXTENDS Scheduler, FiniteSetTheorems, TLAPS

Running == {n \in NodeID : state[n] = "running"}

\* runq and inFlight agree with the states of the nodes (Accounting, in two parts).
QueueInv == \A n \in NodeID : runq[n] = IF state[n] = "runnable" THEN 1 ELSE 0
FlightInv == inFlight = Cardinality(Running)

\* A task belongs to a running node, and what Run is about to settle is parked.
OwnerInv ==
    /\ \A n \in NodeID : task[n] # "none" => state[n] = "running"
    /\ \A n \in settling : state[n] = "parked"

\* Where the locals of one iteration of Run's loop have their meaning.
SweepPhase == {"sweeping", "admitting", "resweeping", "invalidating"}
ScopeInv ==
    /\ changed # {} => swept /\ pc \in {"sweeping", "resweeping", "invalidating"}
    /\ quiescent => pc \in SweepPhase
    /\ settling # {} => pc = "settling"

\* A quiescent sweep has no running node beside it.
QuiescentInv == quiescent => \A n \in NodeID : state[n] # "running"

\* Only an invalid assessment is ever delivered.
DeliveredInv ==
    \A n \in NodeID : /\ kept[n].delivered => ~kept[n].valid
                      /\ fresh[n].delivered => ~fresh[n].valid

\* NoLostInvalidation for a node whose task has read Valid already and now
\* waits for mu: recheck, or the list being worked on, remembers the delivery.
RecheckInv ==
    \A n \in NodeID :
        /\ task[n] = "completing" /\ seen[n]
        /\ Current(n).live /\ ~Current(n).valid /\ Current(n).delivered
        => recheck[n] \/ n \in changed

\* A quiescent store sweep has all that is stale on its list, and ends with nothing stale.
PendingInv ==
    quiescent => /\ pc \in {"sweeping", "resweeping"} => Pending \subseteq due
                 /\ pc = "invalidating" => Pending = {}

\* A node that is terminal was not left Blocked, one that never arrived retains nothing.
TerminalInv ==
    \A n \in NodeID : /\ state[n] = "terminal" => ~kept[n].blocked
                      /\ state[n] = "absent" => ~kept[n].live

\* FixpointSound from the moment Run leaves its loop.
SettledInv ==
    pc \in {"joining", "done"} /\ err = "none"
        => \A n \in NodeID : /\ state[n] \in {"absent", "terminal"}
                             /\ kept[n].live => kept[n].valid

Inv ==
    /\ TypeOK /\ QueueInv /\ FlightInv /\ OwnerInv /\ ScopeInv /\ QuiescentInv
    /\ DeliveredInv /\ RecheckInv /\ NoLostInvalidation /\ PendingInv /\ TerminalInv /\ SettledInv
-----------------------------------------------------------------------------
(* inFlight and the set it counts.                                         *)
LEMMA RunningFinite == IsFiniteSet(Running) /\ Cardinality(Running) \in Nat
<1>1. Running \in SUBSET NodeID
  BY DEF Running
<1>2. IsFiniteSet(Running)
  BY <1>1, NodeIDAssumption, FS_Subset
<1>. QED BY <1>2, FS_CardinalityType

LEMMA OneMore ==
  ASSUME TypeOK, FlightInv, NEW n \in NodeID, state[n] # "running",
         state' = [state EXCEPT ![n] = "running"], inFlight' = inFlight + 1
  PROVE  FlightInv'
<1>1. Running' = Running \cup {n} /\ n \notin Running
  BY DEF Running, TypeOK
<1>2. Cardinality(Running \cup {n}) = Cardinality(Running) + 1
  BY <1>1, RunningFinite, FS_AddElement
<1>. QED BY <1>1, <1>2 DEF FlightInv

LEMMA OneLess ==
  ASSUME TypeOK, FlightInv, NEW n \in NodeID, state[n] = "running",
         NEW s, s # "running", state' = [state EXCEPT ![n] = s], inFlight' = inFlight - 1
  PROVE  FlightInv' /\ inFlight' \in Nat
<1>1. Running' = Running \ {n} /\ n \in Running
  BY DEF Running, TypeOK
<1>2. Cardinality(Running \ {n}) = Cardinality(Running) - 1
  BY <1>1, RunningFinite, FS_RemoveElement
<1>3. Cardinality(Running \ {n}) \in Nat
  BY RunningFinite, FS_RemoveElement, FS_CardinalityType
<1>. QED BY <1>1, <1>2, <1>3 DEF FlightInv

LEMMA SameRunning ==
  ASSUME TypeOK, FlightInv, NEW n \in NodeID, state[n] # "running",
         NEW s, s # "running", state' = [state EXCEPT ![n] = s], inFlight' = inFlight
  PROVE  FlightInv'
<1>1. Running' = Running
  BY DEF Running, TypeOK
<1>. QED BY <1>1 DEF FlightInv

LEMMA InvalidatedType ==
  ASSUME NEW f \in [NodeID -> Assessment], NEW S
  PROVE  Invalidated(f, S) \in [NodeID -> Assessment]
  BY DEF Invalidated, Assessment
-----------------------------------------------------------------------------
(* One lemma per action: it preserves every part of Inv.                   *)
LEMMA StartStep ==
  ASSUME Inv, Start
  PROVE  Inv'
<1> USE NodeIDAssumption, BoundAssumption DEF Inv, TypeOK, Start, nodeVars, schedVars, runVars,
        taskVars, envVars
<1>1. TypeOK'
  OBVIOUS
<1>2. FlightInv'
  BY DEF FlightInv, Running
<1>3. (QueueInv /\ OwnerInv /\ ScopeInv /\ QuiescentInv)'
  BY DEF QueueInv, OwnerInv, ScopeInv, QuiescentInv, SweepPhase
<1>4. (DeliveredInv /\ RecheckInv /\ NoLostInvalidation /\ PendingInv)'
  BY DEF DeliveredInv, RecheckInv, NoLostInvalidation, PendingInv, Pending, Current, Stale,
         Assessment
<1>5. (TerminalInv /\ SettledInv)'
  BY DEF TerminalInv, SettledInv
<1>. QED BY <1>1, <1>2, <1>3, <1>4, <1>5

LEMMA dispatchNextLockedStep ==
  ASSUME Inv, NEW n \in NodeID, dispatchNextLocked(n)
  PROVE  Inv'
<1> USE NodeIDAssumption, BoundAssumption DEF Inv, TypeOK, dispatchNextLocked, Launch, Least,
        nodeVars, schedVars, runVars, taskVars, envVars
<1>1. TypeOK'
  BY DEF DrainLevel, DrainNone, DrainForce
<1>2. FlightInv'
  <2>1. state[n] # "running"
    BY DEF QueueInv
  <2>. QED BY <2>1, OneMore
<1>3. (QueueInv /\ OwnerInv /\ ScopeInv /\ QuiescentInv)'
  BY DEF QueueInv, OwnerInv, ScopeInv, QuiescentInv, SweepPhase, DrainNone, DrainForce
<1>4. (DeliveredInv /\ RecheckInv /\ NoLostInvalidation /\ PendingInv)'
  BY DEF DeliveredInv, RecheckInv, NoLostInvalidation, PendingInv, Pending, Current, Stale,
         DrainNone, DrainForce, Assessment
<1>5. (TerminalInv /\ SettledInv)'
  BY DEF TerminalInv, SettledInv, DrainNone, DrainForce
<1>. QED BY <1>1, <1>2, <1>3, <1>4, <1>5

LEMMA WaitStep ==
  ASSUME Inv, Wait
  PROVE  Inv'
<1> USE NodeIDAssumption, BoundAssumption DEF Inv, TypeOK, Wait, nodeVars, schedVars, runVars,
        taskVars, envVars
<1>1. TypeOK'
  OBVIOUS
<1>2. FlightInv'
  BY DEF FlightInv, Running
<1>3. (QueueInv /\ OwnerInv /\ ScopeInv /\ QuiescentInv)'
  BY DEF QueueInv, OwnerInv, ScopeInv, QuiescentInv, SweepPhase
<1>4. (DeliveredInv /\ RecheckInv /\ NoLostInvalidation /\ PendingInv)'
  BY DEF DeliveredInv, RecheckInv, NoLostInvalidation, PendingInv, Pending, Current, Stale,
         Assessment
<1>5. (TerminalInv /\ SettledInv)'
  BY DEF TerminalInv, SettledInv
<1>. QED BY <1>1, <1>2, <1>3, <1>4, <1>5

LEMMA BeginSweepStep ==
  ASSUME Inv, BeginSweep
  PROVE  Inv'
<1> USE NodeIDAssumption, BoundAssumption DEF Inv, TypeOK, BeginSweep, nodeVars, schedVars,
        runVars, taskVars, envVars
<1>1. TypeOK'
  BY DEF Pending, Stale, Assessment
<1>2. FlightInv'
  BY DEF FlightInv, Running
<1>3. (QueueInv /\ OwnerInv /\ ScopeInv)'
  BY DEF QueueInv, OwnerInv, ScopeInv, SweepPhase, Pending, Stale, Assessment
<1>4. QuiescentInv'
  <2>1. inFlight = 0 => Running = {}
    BY RunningFinite, FS_EmptySet DEF FlightInv
  <2>. QED BY <2>1 DEF QuiescentInv, Running
<1>5. (DeliveredInv /\ RecheckInv /\ NoLostInvalidation)'
  BY DEF DeliveredInv, RecheckInv, NoLostInvalidation, ScopeInv, Current, Pending, Stale,
         Assessment
<1>6. PendingInv'
  BY DEF PendingInv, Pending, Stale, Assessment
<1>7. (TerminalInv /\ SettledInv)'
  BY DEF TerminalInv, SettledInv, Pending, Stale, Assessment
<1>. QED BY <1>1, <1>2, <1>3, <1>4, <1>5, <1>6, <1>7

LEMMA DeliveredType ==
  ASSUME NEW f \in [NodeID -> Assessment], NEW n \in NodeID, NEW b \in BOOLEAN
  PROVE  [f EXCEPT ![n].delivered = b] \in [NodeID -> Assessment]
  BY DEF Assessment

LEMMA DeliverStep ==
  ASSUME Inv, NEW n \in NodeID, Deliver(n)
  PROVE  Inv'
<1> USE NodeIDAssumption, BoundAssumption DEF Inv, TypeOK, Deliver, nodeVars, schedVars,
        runVars, taskVars, envVars
<1>1. TypeOK'
  <2>1. (kept[n].delivered \/ Stale(kept[n])) \in BOOLEAN
        /\ (fresh[n].delivered \/ Stale(fresh[n])) \in BOOLEAN
    BY Zenon DEF Assessment
  <2>2. kept' \in [NodeID -> Assessment]
    BY <2>1, DeliveredType
  <2>3. fresh' \in [NodeID -> Assessment]
    BY <2>1, DeliveredType
  <2>. QED BY <2>2, <2>3
<1>2. FlightInv'
  BY DEF FlightInv, Running
<1>3. (QueueInv /\ OwnerInv /\ ScopeInv /\ QuiescentInv)'
  BY DEF QueueInv, OwnerInv, ScopeInv, QuiescentInv, SweepPhase, Stale, Pending, Assessment
<1>4. (DeliveredInv /\ RecheckInv /\ NoLostInvalidation /\ PendingInv)'
  BY DEF DeliveredInv, RecheckInv, NoLostInvalidation, PendingInv, Pending, Current, Stale,
         Assessment
<1>5. (TerminalInv /\ SettledInv)'
  BY DEF TerminalInv, SettledInv, Stale, Pending, Assessment
<1>. QED BY <1>1, <1>2, <1>3, <1>4, <1>5

LEMMA EndStoreSweepStep ==
  ASSUME Inv, EndStoreSweep
  PROVE  Inv'
<1> USE NodeIDAssumption, BoundAssumption DEF Inv, TypeOK, EndStoreSweep, nodeVars, schedVars,
        runVars, taskVars, envVars
<1>1. TypeOK'
  BY DEF Pending, Stale, Assessment
<1>2. FlightInv'
  BY DEF FlightInv, Running
<1>3. (QueueInv /\ OwnerInv /\ ScopeInv /\ QuiescentInv)'
  BY DEF QueueInv, OwnerInv, ScopeInv, QuiescentInv, SweepPhase, Pending, Stale, Assessment
<1>4. (DeliveredInv /\ RecheckInv /\ NoLostInvalidation /\ PendingInv)'
  BY DEF DeliveredInv, RecheckInv, NoLostInvalidation, PendingInv, Pending, Current, Stale,
         Assessment
<1>5. (TerminalInv /\ SettledInv)'
  BY DEF TerminalInv, SettledInv, Pending, Stale, Assessment
<1>. QED BY <1>1, <1>2, <1>3, <1>4, <1>5

LEMMA AdmitStep ==
  ASSUME Inv, NEW S \in SUBSET NodeID, NEW a \in Arrival, Admit(S, a)
  PROVE  Inv'
<1> USE NodeIDAssumption, BoundAssumption DEF Inv, TypeOK, Admit, OnArrival, Commit,
        Invalidated, nodeVars, schedVars, runVars, taskVars, envVars
<1>1. TypeOK'
  <2>1. kept' \in [NodeID -> Assessment] /\ fresh' \in [NodeID -> Assessment]
    BY InvalidatedType
  <2>. QED BY <2>1 DEF DrainLevel, DrainNone, DrainCascade, DrainForce, Arrival, NoNode
<1>2. FlightInv'
  BY DEF FlightInv, Running, Arrival, NoNode
<1>3. (QueueInv /\ OwnerInv /\ ScopeInv /\ QuiescentInv)'
  BY DEF QueueInv, OwnerInv, ScopeInv, QuiescentInv, SweepPhase, NoNode
<1>4. (DeliveredInv /\ RecheckInv /\ NoLostInvalidation /\ PendingInv)'
  BY DEF DeliveredInv, RecheckInv, NoLostInvalidation, PendingInv, Pending, Current, Stale,
         NoNode, Assessment
<1>5. (TerminalInv /\ SettledInv)'
  BY DEF TerminalInv, SettledInv, NoNode
<1>. QED BY <1>1, <1>2, <1>3, <1>4, <1>5

LEMMA ResweepStep ==
  ASSUME Inv, Resweep
  PROVE  Inv'
<1> USE NodeIDAssumption, BoundAssumption DEF Inv, TypeOK, Resweep, nodeVars, schedVars,
        runVars, taskVars, envVars
<1>1. TypeOK'
  BY DEF Pending, Stale, Assessment
<1>2. FlightInv'
  BY DEF FlightInv, Running
<1>3. (QueueInv /\ OwnerInv /\ ScopeInv /\ QuiescentInv)'
  BY DEF QueueInv, OwnerInv, ScopeInv, QuiescentInv, SweepPhase, Pending, Stale, Assessment
<1>4. (DeliveredInv /\ RecheckInv /\ NoLostInvalidation /\ PendingInv)'
  BY DEF DeliveredInv, RecheckInv, NoLostInvalidation, PendingInv, Pending, Current, Stale,
         Assessment
<1>5. (TerminalInv /\ SettledInv)'
  BY DEF TerminalInv, SettledInv, Pending, Stale, Assessment
<1>. QED BY <1>1, <1>2, <1>3, <1>4, <1>5

LEMMA invalidateStep ==
  ASSUME Inv, NEW n \in NodeID, invalidate(n)
  PROVE  Inv'
<1> USE NodeIDAssumption, BoundAssumption DEF Inv, TypeOK, invalidate, requeueLocked, nodeVars,
        schedVars, runVars, taskVars, envVars
<1>1. TypeOK'
  <2>1. redispatches' \in [NodeID -> 0 .. MaxRedispatches]
    OBVIOUS
  <2>2. state' \in [NodeID -> {"absent", "runnable", "running", "parked", "terminal"}]
    OBVIOUS
  <2>3. runq' \in [NodeID -> Nat] /\ err' \in {"none", "cancelled", "limit", "unresolved"}
    OBVIOUS
  <2>4. recheck' \in [NodeID -> BOOLEAN] /\ changed' \subseteq NodeID
    OBVIOUS
  <2>. QED BY <2>1, <2>2, <2>3, <2>4
<1>2. FlightInv'
  BY DEF FlightInv, Running
<1>3. (QueueInv /\ OwnerInv /\ ScopeInv /\ QuiescentInv)'
  BY DEF QueueInv, OwnerInv, ScopeInv, QuiescentInv, SweepPhase
<1>4. DeliveredInv'
  BY DEF DeliveredInv
<1>5. RecheckInv'
  BY DEF RecheckInv, OwnerInv, ScopeInv, Current, Assessment
<1>6. NoLostInvalidation'
  BY DEF NoLostInvalidation, OwnerInv, ScopeInv
<1>7. PendingInv'
  BY DEF PendingInv, OwnerInv, ScopeInv, Pending, Stale, Assessment
<1>8. (TerminalInv /\ SettledInv)'
  BY DEF TerminalInv, SettledInv
<1>. QED BY <1>1, <1>2, <1>3, <1>4, <1>5, <1>6, <1>7, <1>8

LEMMA ResumeStep ==
  ASSUME Inv, Resume
  PROVE  Inv'
<1> USE NodeIDAssumption, BoundAssumption DEF Inv, TypeOK, Resume, EndIteration, BoundaryOpen,
        nodeVars, schedVars, runVars, taskVars, envVars
<1>1. TypeOK'
  OBVIOUS
<1>2. FlightInv'
  BY DEF FlightInv, Running
<1>3. (QueueInv /\ OwnerInv /\ ScopeInv /\ QuiescentInv)'
  BY DEF QueueInv, OwnerInv, ScopeInv, QuiescentInv, SweepPhase
<1>4. (DeliveredInv /\ RecheckInv /\ NoLostInvalidation /\ PendingInv)'
  BY DEF DeliveredInv, RecheckInv, NoLostInvalidation, PendingInv, Pending, Current, Stale,
         Assessment
<1>5. (TerminalInv /\ SettledInv)'
  BY DEF TerminalInv, SettledInv
<1>. QED BY <1>1, <1>2, <1>3, <1>4, <1>5

LEMMA ConvergeStep ==
  ASSUME Inv, Converge
  PROVE  Inv'
<1> USE NodeIDAssumption, BoundAssumption DEF Inv, TypeOK, Converge, EndIteration, BoundaryOpen,
        nodeVars, schedVars, runVars, taskVars, envVars
<1>1. TypeOK'
  BY DEF Parked, Stale, Pending, Assessment
<1>2. FlightInv'
  BY DEF FlightInv, Running
<1>3. (QueueInv /\ OwnerInv /\ ScopeInv /\ QuiescentInv)'
  BY DEF QueueInv, OwnerInv, ScopeInv, QuiescentInv, SweepPhase, Parked, Stale, Pending,
         Assessment
<1>4. (DeliveredInv /\ RecheckInv /\ NoLostInvalidation /\ PendingInv)'
  BY DEF DeliveredInv, RecheckInv, NoLostInvalidation, PendingInv, Pending, Current, Stale,
         Parked, Assessment
<1>5. TerminalInv'
  BY DEF TerminalInv, Parked, Stale, Pending, Assessment
<1>6. SettledInv'
  <2>1. quiescent /\ Pending = {} /\ changed = {} /\ err = "none"
    BY DEF PendingInv
  <2>2. ASSUME NEW n \in NodeID PROVE state[n] \in {"absent", "terminal"}
    BY <2>1 DEF QueueInv, QuiescentInv, Parked
  <2>3. ASSUME NEW n \in NodeID, kept[n].live PROVE kept[n].valid
    BY <2>1, <2>2, <2>3 DEF NoLostInvalidation, TerminalInv, Pending, Stale
  <2>. QED BY <2>2, <2>3 DEF SettledInv
<1>. QED BY <1>1, <1>2, <1>3, <1>4, <1>5, <1>6

LEMMA UnresolvedStep ==
  ASSUME Inv, Unresolved
  PROVE  Inv'
<1> USE NodeIDAssumption, BoundAssumption DEF Inv, TypeOK, Unresolved, EndIteration,
        BoundaryOpen, nodeVars, schedVars, runVars, taskVars, envVars
<1>1. TypeOK'
  BY DEF DrainLevel, Parked, DrainForce, DrainNone, Stale, Pending, Assessment
<1>2. FlightInv'
  BY DEF FlightInv, Running
<1>3. (QueueInv /\ OwnerInv /\ ScopeInv /\ QuiescentInv)'
  BY DEF QueueInv, OwnerInv, ScopeInv, QuiescentInv, SweepPhase, Parked, DrainForce, DrainNone,
         Stale, Pending, Assessment
<1>4. (DeliveredInv /\ RecheckInv /\ NoLostInvalidation /\ PendingInv)'
  BY DEF DeliveredInv, RecheckInv, NoLostInvalidation, PendingInv, Pending, Current, Stale,
         Parked, DrainForce, DrainNone, Assessment
<1>5. (TerminalInv /\ SettledInv)'
  BY DEF TerminalInv, SettledInv, Parked, DrainForce, DrainNone, Stale, Pending, Assessment
<1>. QED BY <1>1, <1>2, <1>3, <1>4, <1>5

LEMMA EscalateStep ==
  ASSUME Inv, Escalate
  PROVE  Inv'
<1> USE NodeIDAssumption, BoundAssumption DEF Inv, TypeOK, Escalate, EndIteration, BoundaryOpen,
        nodeVars, schedVars, runVars, taskVars, envVars
<1>1. TypeOK'
  <2>1. level' \in DrainLevel
    BY DEF DrainLevel, DrainNone, DrainCascade, DrainForce
  <2>. QED BY <2>1 DEF Parked
<1>2. FlightInv'
  BY DEF FlightInv, Running
<1>3. (QueueInv /\ OwnerInv /\ ScopeInv /\ QuiescentInv)'
  BY DEF QueueInv, OwnerInv, ScopeInv, QuiescentInv, SweepPhase, Parked, DrainForce, DrainNone,
         Stale, Pending, Assessment
<1>4. (DeliveredInv /\ RecheckInv /\ NoLostInvalidation /\ PendingInv)'
  BY DEF DeliveredInv, RecheckInv, NoLostInvalidation, PendingInv, Pending, Current, Stale,
         Parked, DrainForce, DrainNone, Assessment
<1>5. (TerminalInv /\ SettledInv)'
  BY DEF TerminalInv, SettledInv, Parked, DrainForce, DrainNone, Stale, Pending, Assessment
<1>. QED BY <1>1, <1>2, <1>3, <1>4, <1>5

LEMMA settleLockedStep ==
  ASSUME Inv, NEW n \in NodeID, settleLocked(n)
  PROVE  Inv'
<1> USE NodeIDAssumption, BoundAssumption DEF Inv, TypeOK, settleLocked, Launch, Least,
        nodeVars, schedVars, runVars, taskVars, envVars
<1>1. TypeOK'
  OBVIOUS
<1>2. FlightInv'
  <2>1. state[n] # "running"
    BY DEF OwnerInv
  <2>. QED BY <2>1, OneMore
<1>3. (QueueInv /\ OwnerInv /\ ScopeInv /\ QuiescentInv)'
  BY DEF QueueInv, OwnerInv, ScopeInv, QuiescentInv, SweepPhase
<1>4. (DeliveredInv /\ RecheckInv /\ NoLostInvalidation /\ PendingInv)'
  BY DEF DeliveredInv, RecheckInv, NoLostInvalidation, PendingInv, Pending, Current, Stale,
         Assessment
<1>5. (TerminalInv /\ SettledInv)'
  BY DEF TerminalInv, SettledInv
<1>. QED BY <1>1, <1>2, <1>3, <1>4, <1>5

LEMMA EndSettleStep ==
  ASSUME Inv, EndSettle
  PROVE  Inv'
<1> USE NodeIDAssumption, BoundAssumption DEF Inv, TypeOK, EndSettle, nodeVars, schedVars,
        runVars, taskVars, envVars
<1>1. TypeOK'
  OBVIOUS
<1>2. FlightInv'
  BY DEF FlightInv, Running
<1>3. (QueueInv /\ OwnerInv /\ ScopeInv /\ QuiescentInv)'
  BY DEF QueueInv, OwnerInv, ScopeInv, QuiescentInv, SweepPhase
<1>4. (DeliveredInv /\ RecheckInv /\ NoLostInvalidation /\ PendingInv)'
  BY DEF DeliveredInv, RecheckInv, NoLostInvalidation, PendingInv, Pending, Current, Stale,
         Assessment
<1>5. (TerminalInv /\ SettledInv)'
  BY DEF TerminalInv, SettledInv
<1>. QED BY <1>1, <1>2, <1>3, <1>4, <1>5

LEMMA StopStep ==
  ASSUME Inv, Stop
  PROVE  Inv'
<1> USE NodeIDAssumption, BoundAssumption DEF Inv, TypeOK, Stop, nodeVars, schedVars, runVars,
        taskVars, envVars
<1>1. TypeOK'
  OBVIOUS
<1>2. FlightInv'
  BY DEF FlightInv, Running
<1>3. (QueueInv /\ OwnerInv /\ ScopeInv /\ QuiescentInv)'
  BY DEF QueueInv, OwnerInv, ScopeInv, QuiescentInv, SweepPhase
<1>4. (DeliveredInv /\ RecheckInv /\ NoLostInvalidation /\ PendingInv)'
  BY DEF DeliveredInv, RecheckInv, NoLostInvalidation, PendingInv, Pending, Current, Stale,
         Assessment
<1>5. (TerminalInv /\ SettledInv)'
  BY DEF TerminalInv, SettledInv
<1>. QED BY <1>1, <1>2, <1>3, <1>4, <1>5

LEMMA ReturnStep ==
  ASSUME Inv, Return
  PROVE  Inv'
<1> USE NodeIDAssumption, BoundAssumption DEF Inv, TypeOK, Return, nodeVars, schedVars, runVars,
        taskVars, envVars
<1>1. TypeOK'
  <2>1. ASSUME NEW n \in NodeID
        PROVE  [kept[n] EXCEPT !.delivered = kept[n].delivered \/ Stale(kept[n])] \in Assessment
    <3>1. kept[n] \in Assessment
      OBVIOUS
    <3>2. (kept[n].delivered \/ Stale(kept[n])) \in BOOLEAN
      OBVIOUS
    <3>. QED BY <3>1, <3>2 DEF Assessment
  <2>. QED BY <2>1
<1>2. FlightInv'
  BY DEF FlightInv, Running
<1>3. (QueueInv /\ OwnerInv /\ ScopeInv /\ QuiescentInv)'
  BY DEF QueueInv, OwnerInv, ScopeInv, QuiescentInv, SweepPhase, Stale, Assessment
<1>4. DeliveredInv'
  BY DEF DeliveredInv, Stale, Assessment
<1>5. RecheckInv'
  BY DEF RecheckInv, Current, Stale, Assessment
<1>6. NoLostInvalidation'
  BY DEF NoLostInvalidation, SettledInv, Stale, Assessment
<1>7. PendingInv'
  BY DEF PendingInv, ScopeInv, SweepPhase, Pending, Stale, Assessment
<1>8. TerminalInv'
  <2>1. ASSUME NEW n \in NodeID
        PROVE  kept'[n].blocked = kept[n].blocked /\ kept'[n].live = kept[n].live
    BY DEF Assessment
  <2>. QED BY <2>1 DEF TerminalInv
<1>9. SettledInv'
  BY DEF SettledInv, Stale, Assessment
<1>. QED BY <1>1, <1>2, <1>3, <1>4, <1>5, <1>6, <1>7, <1>8, <1>9

LEMMA DropStep ==
  ASSUME Inv, NEW n \in NodeID, Drop(n)
  PROVE  Inv'
<1> USE NodeIDAssumption, BoundAssumption DEF Inv, TypeOK, Drop, EndTask, nodeVars, schedVars,
        runVars, taskVars, envVars
<1>1. TypeOK'
  BY DEF DrainLevel, DrainNone, DrainForce
<1>2. FlightInv'
  BY DEF FlightInv, Running
<1>3. (QueueInv /\ OwnerInv /\ ScopeInv /\ QuiescentInv)'
  BY DEF QueueInv, OwnerInv, ScopeInv, QuiescentInv, SweepPhase, DrainNone, DrainForce
<1>4. (DeliveredInv /\ RecheckInv /\ NoLostInvalidation /\ PendingInv)'
  BY DEF DeliveredInv, RecheckInv, NoLostInvalidation, PendingInv, Pending, Current, Stale,
         DrainNone, DrainForce, Assessment
<1>5. (TerminalInv /\ SettledInv)'
  BY DEF TerminalInv, SettledInv, DrainNone, DrainForce
<1>. QED BY <1>1, <1>2, <1>3, <1>4, <1>5

LEMMA StartBodyStep ==
  ASSUME Inv, NEW n \in NodeID, StartBody(n)
  PROVE  Inv'
<1> USE NodeIDAssumption, BoundAssumption DEF Inv, TypeOK, StartBody, nodeVars, schedVars,
        runVars, taskVars, envVars
<1>1. TypeOK'
  <2>1. Capture \in Assessment
    BY DEF Assessment, Capture
  <2>. QED BY <2>1
<1>2. FlightInv'
  BY DEF FlightInv, Running
<1>3. (QueueInv /\ OwnerInv /\ ScopeInv /\ QuiescentInv)'
  BY DEF QueueInv, OwnerInv, ScopeInv, QuiescentInv, SweepPhase, Capture, DrainNone, DrainForce,
         Assessment
<1>4. DeliveredInv'
  BY DEF DeliveredInv, Capture, DrainNone, DrainForce, Assessment
<1>5. RecheckInv'
  BY DEF RecheckInv, Current, Capture, DrainNone, DrainForce, Assessment
<1>6. NoLostInvalidation'
  BY DEF NoLostInvalidation, OwnerInv, Capture, DrainNone, DrainForce, Assessment
<1>7. PendingInv'
  BY DEF PendingInv, QuiescentInv, OwnerInv, Pending, Stale, Capture, DrainNone, DrainForce,
         Assessment
<1>8. (TerminalInv /\ SettledInv)'
  BY DEF TerminalInv, SettledInv, Capture, DrainNone, DrainForce, Assessment
<1>. QED BY <1>1, <1>2, <1>3, <1>4, <1>5, <1>6, <1>7, <1>8

LEMMA PublishStep ==
  ASSUME Inv, NEW n \in NodeID, NEW S \in SUBSET NodeID, NEW T \in SUBSET NodeID, NEW a \in Arrival, Publish(n, S, T, a)
  PROVE  Inv'
<1> USE NodeIDAssumption, BoundAssumption DEF Inv, TypeOK, Publish, Commit, Invalidated,
        nodeVars, schedVars, runVars, taskVars, envVars
<1>1. TypeOK'
  <2>1. kept' \in [NodeID -> Assessment] /\ fresh' \in [NodeID -> Assessment]
    BY InvalidatedType
  <2>. QED BY <2>1 DEF DrainLevel, DrainNone, DrainCascade, DrainForce, Arrival, NoNode
<1>2. FlightInv'
  BY DEF FlightInv, Running
<1>3. (QueueInv /\ OwnerInv /\ ScopeInv /\ QuiescentInv)'
  BY DEF QueueInv, OwnerInv, ScopeInv, QuiescentInv, SweepPhase
<1>4. DeliveredInv'
  BY DEF DeliveredInv
<1>5. RecheckInv'
  BY DEF RecheckInv, DeliveredInv, Current, Assessment
<1>6. NoLostInvalidation'
  BY DEF NoLostInvalidation, DeliveredInv
<1>7. PendingInv'
  BY DEF PendingInv, QuiescentInv, OwnerInv, Pending, Stale, Assessment
<1>8. TerminalInv'
  BY DEF TerminalInv
<1>9. SettledInv'
  BY DEF SettledInv, OwnerInv
<1>. QED BY <1>1, <1>2, <1>3, <1>4, <1>5, <1>6, <1>7, <1>8, <1>9

LEMMA NotifyStep ==
  ASSUME Inv, NEW n \in NodeID, Notify(n)
  PROVE  Inv'
<1> USE NodeIDAssumption, BoundAssumption DEF Inv, TypeOK, Notify, OnArrival, Broadcast,
        nodeVars, schedVars, runVars, taskVars, envVars
<1>1. TypeOK'
  BY DEF NoNode
<1>2. FlightInv'
  BY DEF FlightInv, Running, Arrival, NoNode
<1>3. (QueueInv /\ OwnerInv /\ ScopeInv /\ QuiescentInv)'
  BY DEF QueueInv, OwnerInv, ScopeInv, QuiescentInv, SweepPhase, NoNode
<1>4. (DeliveredInv /\ RecheckInv /\ NoLostInvalidation /\ PendingInv)'
  BY DEF DeliveredInv, RecheckInv, NoLostInvalidation, PendingInv, Pending, Current, Stale,
         NoNode, Assessment
<1>5. TerminalInv'
  BY DEF TerminalInv, NoNode
<1>6. SettledInv'
  BY DEF SettledInv, OwnerInv, Arrival, NoNode
<1>. QED BY <1>1, <1>2, <1>3, <1>4, <1>5, <1>6

LEMMA ReturnDispatchStep ==
  ASSUME Inv, NEW n \in NodeID, NEW o \in BOOLEAN, NEW b \in BOOLEAN, NEW p \in BOOLEAN, ReturnDispatch(n, o, b, p)
  PROVE  Inv'
<1> USE NodeIDAssumption, BoundAssumption DEF Inv, TypeOK, ReturnDispatch, nodeVars, schedVars,
        runVars, taskVars, envVars
<1>1. TypeOK'
  <2>1. fresh' \in [NodeID -> Assessment]
    BY DEF Assessment, Nil
  <2>. QED BY <2>1
<1>2. FlightInv'
  BY DEF FlightInv, Running
<1>3. (QueueInv /\ OwnerInv /\ ScopeInv /\ QuiescentInv)'
  BY DEF QueueInv, OwnerInv, ScopeInv, QuiescentInv, SweepPhase, Nil, DrainNone, DrainForce,
         Assessment
<1>4. (DeliveredInv /\ RecheckInv /\ NoLostInvalidation /\ PendingInv)'
  BY DEF DeliveredInv, RecheckInv, NoLostInvalidation, PendingInv, Pending, Current, Stale, Nil,
         DrainNone, DrainForce, Assessment
<1>5. (TerminalInv /\ SettledInv)'
  BY DEF TerminalInv, SettledInv, Nil, DrainNone, DrainForce, Assessment
<1>. QED BY <1>1, <1>2, <1>3, <1>4, <1>5

\* What Settle writes into an assessment leaves it one.
LEMMA ReturnedType ==
  ASSUME NEW f \in [NodeID -> Assessment], NEW n \in NodeID, NEW b \in BOOLEAN, NEW p \in BOOLEAN
  PROVE  [f EXCEPT ![n] = [@ EXCEPT !.blocked = b, !.progressed = p]] \in [NodeID -> Assessment]
<1>1. [f[n] EXCEPT !.blocked = b, !.progressed = p] \in Assessment
  BY DEF Assessment
<1>. QED BY <1>1

LEMMA ReturnSettleStep ==
  ASSUME Inv, NEW n \in NodeID, NEW b \in BOOLEAN, NEW p \in BOOLEAN, ReturnSettle(n, b, p)
  PROVE  Inv'
<1> USE NodeIDAssumption, BoundAssumption DEF Inv, TypeOK, ReturnSettle, nodeVars, schedVars,
        runVars, taskVars, envVars
<1>1. TypeOK'
  <2>1. kept' \in [NodeID -> Assessment]
    BY ReturnedType
  <2>. QED BY <2>1
<1>2. FlightInv'
  BY DEF FlightInv, Running
<1>3. (QueueInv /\ OwnerInv /\ ScopeInv /\ QuiescentInv)'
  BY DEF QueueInv, OwnerInv, ScopeInv, QuiescentInv, SweepPhase, DrainNone, DrainForce
<1>4. (DeliveredInv /\ RecheckInv /\ NoLostInvalidation /\ PendingInv)'
  BY DEF DeliveredInv, RecheckInv, NoLostInvalidation, PendingInv, OwnerInv, QuiescentInv,
         Pending, Current, Stale, DrainNone, DrainForce, Assessment
<1>5. TerminalInv'
  BY DEF TerminalInv, OwnerInv, DrainNone, DrainForce
<1>6. SettledInv'
  BY DEF SettledInv, OwnerInv, DrainNone, DrainForce
<1>. QED BY <1>1, <1>2, <1>3, <1>4, <1>5, <1>6

LEMMA PanicStep ==
  ASSUME Inv, NEW n \in NodeID, Panic(n)
  PROVE  Inv'
<1> USE NodeIDAssumption, BoundAssumption DEF Inv, TypeOK, Panic, nodeVars, schedVars, runVars,
        taskVars, envVars
<1>1. TypeOK'
  BY DEF Nil, Assessment
<1>2. FlightInv'
  BY DEF FlightInv, Running
<1>3. (QueueInv /\ OwnerInv /\ ScopeInv /\ QuiescentInv)'
  BY DEF QueueInv, OwnerInv, ScopeInv, QuiescentInv, SweepPhase, Nil, Assessment
<1>4. (DeliveredInv /\ RecheckInv /\ NoLostInvalidation /\ PendingInv)'
  BY DEF DeliveredInv, RecheckInv, NoLostInvalidation, PendingInv, Pending, Current, Stale, Nil,
         Assessment
<1>5. (TerminalInv /\ SettledInv)'
  BY DEF TerminalInv, SettledInv, Nil, Assessment
<1>. QED BY <1>1, <1>2, <1>3, <1>4, <1>5

LEMMA AssessStep ==
  ASSUME Inv, NEW n \in NodeID, Assess(n)
  PROVE  Inv'
<1> USE NodeIDAssumption, BoundAssumption DEF Inv, TypeOK, Assess, nodeVars, schedVars, runVars,
        taskVars, envVars
<1>1. TypeOK'
  BY DEF DrainLevel, Current, Nil, DrainNone, DrainForce, Assessment
<1>2. FlightInv'
  BY DEF FlightInv, Running
<1>3. (QueueInv /\ OwnerInv /\ ScopeInv /\ QuiescentInv)'
  BY DEF QueueInv, OwnerInv, ScopeInv, QuiescentInv, SweepPhase, Current, Nil, DrainNone,
         DrainForce, Assessment
<1>4. (DeliveredInv /\ RecheckInv /\ NoLostInvalidation /\ PendingInv)'
  BY DEF DeliveredInv, RecheckInv, NoLostInvalidation, PendingInv, Pending, Current, Stale, Nil,
         DrainNone, DrainForce, Assessment
<1>5. (TerminalInv /\ SettledInv)'
  BY DEF TerminalInv, SettledInv, Current, Nil, DrainNone, DrainForce, Assessment
<1>. QED BY <1>1, <1>2, <1>3, <1>4, <1>5

LEMMA RecheckStep ==
  ASSUME Inv, NEW n \in NodeID, Recheck(n)
  PROVE  Inv'
<1> USE NodeIDAssumption, BoundAssumption DEF Inv, TypeOK, Recheck, nodeVars, schedVars,
        runVars, taskVars, envVars
<1>1. TypeOK'
  BY DEF DrainLevel, Current, DrainNone, DrainForce, Assessment
<1>2. FlightInv'
  BY DEF FlightInv, Running
<1>3. (QueueInv /\ OwnerInv /\ ScopeInv /\ QuiescentInv)'
  BY DEF QueueInv, OwnerInv, ScopeInv, QuiescentInv, SweepPhase, Current, DrainNone, DrainForce,
         Assessment
<1>4. (DeliveredInv /\ RecheckInv /\ NoLostInvalidation /\ PendingInv)'
  BY DEF DeliveredInv, RecheckInv, NoLostInvalidation, PendingInv, Pending, Current, Stale,
         Assessment
<1>5. (TerminalInv /\ SettledInv)'
  BY DEF TerminalInv, SettledInv, Current, DrainNone, DrainForce, Assessment
<1>. QED BY <1>1, <1>2, <1>3, <1>4, <1>5

LEMMA RevalidateStep ==
  ASSUME Inv, NEW n \in NodeID, Revalidate(n)
  PROVE  Inv'
<1> USE NodeIDAssumption, BoundAssumption DEF Inv, TypeOK, Revalidate, nodeVars, schedVars,
        runVars, taskVars, envVars
<1>1. TypeOK'
  BY DEF DrainLevel, Current, DrainNone, DrainForce, Assessment
<1>2. FlightInv'
  BY DEF FlightInv, Running
<1>3. (QueueInv /\ OwnerInv /\ ScopeInv /\ QuiescentInv)'
  BY DEF QueueInv, OwnerInv, ScopeInv, QuiescentInv, SweepPhase, Current, DrainNone, DrainForce,
         Assessment
<1>4. (DeliveredInv /\ RecheckInv /\ NoLostInvalidation /\ PendingInv)'
  BY DEF DeliveredInv, RecheckInv, NoLostInvalidation, PendingInv, Pending, Current, Stale,
         Assessment
<1>5. (TerminalInv /\ SettledInv)'
  BY DEF TerminalInv, SettledInv, Current, DrainNone, DrainForce, Assessment
<1>. QED BY <1>1, <1>2, <1>3, <1>4, <1>5

LEMMA completeStep ==
  ASSUME Inv, NEW n \in NodeID, complete(n)
  PROVE  Inv'
<1> USE NodeIDAssumption, BoundAssumption DEF Inv, TypeOK, complete, requeueLocked, EndTask,
        Broadcast, nodeVars, schedVars, runVars, taskVars, envVars
<1>1. FlightInv' /\ inFlight' \in Nat
  <2>1. state[n] = "running"
    BY DEF OwnerInv
  <2>2. PICK s \in {"parked", "terminal", "runnable"} : state' = [state EXCEPT ![n] = s]
    BY DEF Current, Assessment
  <2>. QED BY <2>1, <2>2, OneLess
<1>2. TypeOK'
  <2>1. inFlight' \in Nat
    BY <1>1
  <2>2. Current(n) \in Assessment
    BY DEF Current
  <2>3. kept' \in [NodeID -> Assessment] /\ fresh' \in [NodeID -> Assessment]
    BY <2>2 DEF Assessment, Nil
  <2>4. progressed' \in [NodeID -> BOOLEAN] /\ redispatches' \in [NodeID -> 0 .. MaxRedispatches]
    BY <2>2 DEF Assessment
  <2>5. state' \in [NodeID -> {"absent", "runnable", "running", "parked", "terminal"}]
    OBVIOUS
  <2>6. runq' \in [NodeID -> Nat] /\ err' \in {"none", "cancelled", "limit", "unresolved"}
    OBVIOUS
  <2>. QED BY <2>1, <2>3, <2>4, <2>5, <2>6 DEF DrainLevel, DrainNone, DrainCascade, DrainForce
<1>3. (QueueInv /\ OwnerInv /\ ScopeInv /\ QuiescentInv)'
  BY DEF QueueInv, OwnerInv, ScopeInv, QuiescentInv, SweepPhase, Current, Nil, DrainNone,
         DrainForce, Assessment
<1>4. DeliveredInv'
  BY DEF DeliveredInv, Current, Nil, DrainNone, DrainForce, Assessment
<1>5. RecheckInv'
  BY DEF RecheckInv, OwnerInv, Current, Nil, DrainNone, DrainForce, Assessment
<1>6. NoLostInvalidation'
  BY DEF NoLostInvalidation, RecheckInv, OwnerInv, Current, Nil, DrainNone, DrainForce,
         Assessment
<1>7. PendingInv'
  BY DEF PendingInv, QuiescentInv, OwnerInv, Pending, Stale, Current, Nil, DrainNone,
         DrainForce, Assessment
<1>8. TerminalInv'
  BY DEF TerminalInv, Current, Nil, DrainNone, DrainForce, Assessment
<1>9. SettledInv'
  BY DEF SettledInv, OwnerInv, Current, Nil, DrainNone, DrainForce, Assessment
<1>. QED BY <1>1, <1>2, <1>3, <1>4, <1>5, <1>6, <1>7, <1>8, <1>9

LEMMA CancelStep ==
  ASSUME Inv, Cancel
  PROVE  Inv'
<1> USE NodeIDAssumption, BoundAssumption DEF Inv, TypeOK, Cancel, nodeVars, schedVars, runVars,
        taskVars, envVars
<1>1. TypeOK'
  OBVIOUS
<1>2. FlightInv'
  BY DEF FlightInv, Running
<1>3. (QueueInv /\ OwnerInv /\ ScopeInv /\ QuiescentInv)'
  BY DEF QueueInv, OwnerInv, ScopeInv, QuiescentInv, SweepPhase
<1>4. (DeliveredInv /\ RecheckInv /\ NoLostInvalidation /\ PendingInv)'
  BY DEF DeliveredInv, RecheckInv, NoLostInvalidation, PendingInv, Pending, Current, Stale,
         Assessment
<1>5. (TerminalInv /\ SettledInv)'
  BY DEF TerminalInv, SettledInv
<1>. QED BY <1>1, <1>2, <1>3, <1>4, <1>5

LEMMA notifyCancellationStep ==
  ASSUME Inv, notifyCancellation
  PROVE  Inv'
<1> USE NodeIDAssumption, BoundAssumption DEF Inv, TypeOK, notifyCancellation, Broadcast,
        nodeVars, schedVars, runVars, taskVars, envVars
<1>1. TypeOK'
  OBVIOUS
<1>2. FlightInv'
  BY DEF FlightInv, Running
<1>3. (QueueInv /\ OwnerInv /\ ScopeInv /\ QuiescentInv)'
  BY DEF QueueInv, OwnerInv, ScopeInv, QuiescentInv, SweepPhase
<1>4. (DeliveredInv /\ RecheckInv /\ NoLostInvalidation /\ PendingInv)'
  BY DEF DeliveredInv, RecheckInv, NoLostInvalidation, PendingInv, Pending, Current, Stale,
         Assessment
<1>5. (TerminalInv /\ SettledInv)'
  BY DEF TerminalInv, SettledInv
<1>. QED BY <1>1, <1>2, <1>3, <1>4, <1>5

-----------------------------------------------------------------------------
LEMMA InvInit == Init => Inv
<1> SUFFICES ASSUME Init PROVE Inv
  OBVIOUS
<1> USE NodeIDAssumption, SeedsAssumption, BoundAssumption DEF Init
<1>1. TypeOK
  <2>1. Nil \in Assessment
    BY DEF Nil, Assessment
  <2>2. 0 \in 0 .. MaxRedispatches /\ 0 \in 0 .. MaxPanics /\ 0 \in 0 .. MaxPublications
    OBVIOUS
  <2>3. state \in [NodeID -> {"absent", "runnable", "running", "parked", "terminal"}]
    OBVIOUS
  <2>4. runq \in [NodeID -> Nat]
    OBVIOUS
  <2>5. DrainNone \in DrainLevel
    BY DEF DrainLevel
  <2>. QED BY <2>1, <2>2, <2>3, <2>4, <2>5 DEF TypeOK
<1>2. Running = {}
  BY DEF Running
<1>3. FlightInv
  BY <1>2, FS_EmptySet DEF FlightInv
<1>4. QueueInv /\ OwnerInv /\ ScopeInv /\ QuiescentInv
  BY DEF QueueInv, OwnerInv, ScopeInv, QuiescentInv
<1>5. DeliveredInv /\ RecheckInv /\ NoLostInvalidation /\ PendingInv
  BY DEF DeliveredInv, RecheckInv, NoLostInvalidation, PendingInv, Nil
<1>6. TerminalInv /\ SettledInv
  BY DEF TerminalInv, SettledInv, Nil
<1>. QED BY <1>1, <1>3, <1>4, <1>5, <1>6 DEF Inv

LEMMA InvUnchanged == Inv /\ UNCHANGED vars => Inv'
  BY DEF Inv, TypeOK, QueueInv, FlightInv, Running, OwnerInv, ScopeInv, QuiescentInv, DeliveredInv,
         RecheckInv, Current, NoLostInvalidation, PendingInv, Pending, Stale, TerminalInv, SettledInv,
         vars, nodeVars, schedVars, runVars, taskVars, envVars

LEMMA InvStep == Inv /\ [Next]_vars => Inv'
<1> SUFFICES ASSUME Inv, [Next]_vars PROVE Inv'
  OBVIOUS
<1>1. CASE RunStep
  BY <1>1, StartStep, dispatchNextLockedStep, WaitStep, BeginSweepStep, DeliverStep,
     EndStoreSweepStep, ResweepStep, invalidateStep, ResumeStep, ConvergeStep, UnresolvedStep,
     EscalateStep, settleLockedStep, EndSettleStep, StopStep, ReturnStep DEF RunStep
<1>2. ASSUME NEW n \in NodeID, TaskStep(n) PROVE Inv'
  BY <1>2, DropStep, StartBodyStep, NotifyStep, ReturnDispatchStep, ReturnSettleStep, AssessStep,
     RecheckStep, RevalidateStep, completeStep DEF TaskStep
<1>3. CASE Disturbance
  BY <1>3, CancelStep, AdmitStep, PanicStep, PublishStep DEF Disturbance, Readers
<1>4. CASE notifyCancellation
  BY <1>4, notifyCancellationStep
<1>5. CASE Done \/ UNCHANGED vars
  BY <1>5, InvUnchanged DEF Done
<1>. QED BY <1>1, <1>2, <1>3, <1>4, <1>5 DEF Next

LEMMA Invariance == Spec => []Inv
  BY InvInit, InvStep, PTL DEF Spec
-----------------------------------------------------------------------------
(* Every field of the scheduler keeps its type, for any declarations: in   *)
(* particular no declaration is charged more redispatches than its budget. *)
THEOREM TypeCorrect == Spec => []TypeOK
<1>1. Inv => TypeOK
  BY DEF Inv
<1>. QED BY <1>1, Invariance, PTL

(* The run queue holds each runnable node once and inFlight counts the     *)
(* running ones, whatever OnArrival, invalidate and complete interleave.   *)
THEOREM AccountingHolds == Spec => []Accounting
<1>1. Inv => Accounting
  BY DEF Inv, Accounting, QueueInv, FlightInv, Running
<1>. QED BY <1>1, Invariance, PTL

(* No task of the run overlaps a quiescent Sweep.                          *)
THEOREM QuiescentHolds == Spec => []QuiescentSweep
<1>1. Inv => QuiescentSweep
  BY DEF Inv, QuiescentSweep, QuiescentInv, OwnerInv
<1>. QED BY <1>1, Invariance, PTL

(* No delivered invalidation is forgotten between Sweep and complete.      *)
THEOREM NothingLost == Spec => []NoLostInvalidation
<1>1. Inv => NoLostInvalidation
  BY DEF Inv
<1>. QED BY <1>1, Invariance, PTL

(* A nil error from Run means a fixpoint of the declarations that arrived. *)
THEOREM Fixpoint == Spec => []FixpointSound
<1>1. Inv => FixpointSound
  <2> SUFFICES ASSUME Inv, pc = "done", err = "none", NEW n \in NodeID
               PROVE  /\ state[n] \in {"absent", "terminal"}
                      /\ kept[n].live => kept[n].valid /\ ~kept[n].blocked
    BY DEF FixpointSound
  <2>. QED BY DEF Inv, SettledInv, TerminalInv
<1>. QED BY <1>1, Invariance, PTL

(* Run raises the drain level only when every retained assessment is valid *)
(* and no declaration is runnable or running.                              *)
THEOREM Escalation == Spec => EscalatesWhenSettled
<1>1. Inv /\ [Next]_vars
        => (level' > level =>
               \A n \in NodeID : /\ state[n] \in {"absent", "parked", "terminal"}
                                 /\ kept[n].live => kept[n].valid)
  <2> SUFFICES ASSUME Inv, [Next]_vars, level' > level, NEW n \in NodeID
               PROVE  /\ state[n] \in {"absent", "parked", "terminal"}
                      /\ kept[n].live => kept[n].valid
    OBVIOUS
  <2> USE DEF Inv, TypeOK
  <2>1. Escalate
    <3>1. level' = level \/ level' = DrainNone \/ Escalate
      BY DEF Next, RunStep, TaskStep, Disturbance, Done, Start, dispatchNextLocked, Wait,
           BeginSweep, Deliver, EndStoreSweep, Resweep, invalidate, Resume, Converge, Unresolved,
           settleLocked, EndSettle, Stop, Return, Drop, StartBody, Notify, ReturnDispatch,
           ReturnSettle, Assess, Recheck, Revalidate, complete, Cancel, Admit, Panic, Publish,
           notifyCancellation, vars, runVars
    <3>. QED BY <3>1 DEF DrainLevel, DrainNone, DrainCascade, DrainForce
  <2>2. quiescent /\ Pending = {} /\ changed = {} /\ err = "none"
    BY <2>1 DEF Escalate, BoundaryOpen, PendingInv
  <2>3. state[n] \in {"absent", "parked", "terminal"}
    BY <2>1, <2>2 DEF Escalate, BoundaryOpen, QueueInv, QuiescentInv
  <2>4. kept[n].live => kept[n].valid
    BY <2>2, <2>3 DEF NoLostInvalidation, TerminalInv, Pending, Stale
  <2>. QED BY <2>3, <2>4
<1>. QED BY <1>1, Invariance, PTL DEF Spec, EscalatesWhenSettled
-----------------------------------------------------------------------------
(* A second invariant, on top of the first: why nothing valid stays parked *)
(* at DrainForce unless a body panicked.                                   *)

\* Only a capture that is live can be invalid.
CapturedInv == \A n \in NodeID : /\ kept[n].live \/ kept[n].valid
                                 /\ fresh[n].live \/ fresh[n].valid

\* Once the level has risen every task that runs was launched at that level.
LevelInv == level # DrainNone => \A n \in NodeID : task[n] # "none" => drain[n] = level

\* A Settle at DrainForce that has returned left nothing blocked that is valid.
AfterBody == {"returned", "completing", "rechecking"}
DecidedInv ==
    failures = 0 =>
        \A n \in NodeID : task[n] \in AfterBody /\ drain[n] = DrainForce /\ kept[n].blocked
                              => ~kept[n].valid

\* At DrainForce a parked node is still to be settled, or is to be dispatched again.
ForcedInv ==
    failures = 0 /\ err = "none" /\ level = DrainForce =>
        \A n \in NodeID : state[n] = "parked" => n \in settling \/ ~kept[n].valid

ForceInv == CapturedInv /\ LevelInv /\ DecidedInv /\ ForcedInv /\ UnresolvedOnlyAfterPanic

LEMMA ForceInit == Init => ForceInv
  BY DEF Init, ForceInv, CapturedInv, LevelInv, DecidedInv, ForcedInv, UnresolvedOnlyAfterPanic, Nil,
         DrainNone, DrainForce

\* The steps of Run.
LEMMA ForceRun ==
  ASSUME Inv, ForceInv, RunStep
  PROVE  ForceInv'
<1> USE DEF Inv, TypeOK, ForceInv, CapturedInv, LevelInv, DecidedInv, ForcedInv,
        UnresolvedOnlyAfterPanic, DrainNone, DrainCascade, DrainForce, nodeVars, schedVars, runVars,
        taskVars, envVars
<1>1. CASE Start \/ Wait \/ BeginSweep \/ EndStoreSweep \/ Resweep \/ Resume \/ Converge \/ Stop
  BY <1>1 DEF Start, Wait, BeginSweep, EndStoreSweep, Resweep, Resume, Converge, Stop, EndIteration
<1>2. CASE Unresolved
  <2>1. PICK n \in NodeID : state[n] = "parked"
    BY <1>2 DEF Unresolved, Parked
  <2>2. quiescent /\ Pending = {} /\ changed = {} /\ settling = {} /\ err = "none"
    BY <1>2 DEF Unresolved, BoundaryOpen, PendingInv, ScopeInv
  <2>3. kept[n].valid
    BY <2>1, <2>2 DEF NoLostInvalidation, Pending, Stale
  <2>4. failures > 0
    BY <1>2, <2>1, <2>2, <2>3 DEF Unresolved
  <2>. QED BY <1>2, <2>4 DEF Unresolved
<1>3. CASE Escalate
  <2>1. \A n \in NodeID : task[n] = "none"
    BY <1>3 DEF Escalate, BoundaryOpen, QuiescentInv, OwnerInv
  <2>. QED BY <1>3, <2>1 DEF Escalate, Parked, DrainLevel
<1>4. CASE EndSettle
  BY <1>4 DEF EndSettle
<1>5. CASE Return
  <2>1. \A n \in NodeID : /\ kept'[n].live = kept[n].live /\ kept'[n].valid = kept[n].valid
                          /\ kept'[n].blocked = kept[n].blocked
    BY <1>5 DEF Return, Assessment
  <2>. QED BY <1>5, <2>1 DEF Return
<1>6. ASSUME NEW n \in NodeID, dispatchNextLocked(n) PROVE ForceInv'
  BY <1>6 DEF dispatchNextLocked, Launch, AfterBody
<1>7. ASSUME NEW n \in NodeID, Deliver(n) PROVE ForceInv'
  <2>1. \A m \in NodeID : /\ kept'[m].live = kept[m].live /\ kept'[m].valid = kept[m].valid
                          /\ kept'[m].blocked = kept[m].blocked
                          /\ fresh'[m].live = fresh[m].live /\ fresh'[m].valid = fresh[m].valid
    BY <1>7 DEF Deliver, Assessment
  <2>. QED BY <1>7, <2>1 DEF Deliver
<1>8. ASSUME NEW n \in NodeID, invalidate(n) PROVE ForceInv'
  BY <1>8 DEF invalidate, requeueLocked
<1>9. ASSUME NEW n \in NodeID, settleLocked(n) PROVE ForceInv'
  BY <1>9 DEF settleLocked, Launch, AfterBody
<1>. QED BY <1>1, <1>2, <1>3, <1>4, <1>5, <1>6, <1>7, <1>8, <1>9 DEF RunStep

\* The steps of a task.
LEMMA ForceTask ==
  ASSUME Inv, ForceInv, NEW n \in NodeID, TaskStep(n)
  PROVE  ForceInv'
<1> USE DEF Inv, TypeOK, ForceInv, CapturedInv, LevelInv, DecidedInv, ForcedInv, AfterBody,
        UnresolvedOnlyAfterPanic, DrainNone, DrainCascade, DrainForce, nodeVars, schedVars, runVars,
        taskVars, envVars
<1>1. CASE Drop(n)
  BY <1>1 DEF Drop, EndTask
<1>2. CASE StartBody(n)
  BY <1>2 DEF StartBody, Capture
<1>3. CASE Notify(n)
  BY <1>3, NodeIDAssumption DEF Notify, OnArrival, NoNode
<1>4. CASE Assess(n)
  BY <1>4 DEF Assess, Nil, OwnerInv
<1>5. CASE Recheck(n) \/ Revalidate(n)
  BY <1>5 DEF Recheck, Revalidate
<1>6. CASE complete(n)
  <2>1. CASE drain[n] = DrainNone
    BY <1>6, <2>1 DEF complete, requeueLocked, EndTask, Current, Nil, OwnerInv
  <2>2. CASE drain[n] # DrainNone
    BY <1>6, <2>2 DEF complete, requeueLocked, EndTask, Current, Nil, OwnerInv
  <2>. QED BY <2>1, <2>2
<1>7. ASSUME NEW owned \in BOOLEAN, NEW blocked \in BOOLEAN, NEW prog \in BOOLEAN,
             ReturnDispatch(n, owned, blocked, prog)
      PROVE ForceInv'
  <2>1. \A m \in NodeID : fresh'[m].live \/ fresh'[m].valid
    BY <1>7 DEF ReturnDispatch, Nil, Assessment
  <2>. QED BY <1>7, <2>1 DEF ReturnDispatch
<1>8. ASSUME NEW blocked \in BOOLEAN, NEW prog \in BOOLEAN, ReturnSettle(n, blocked, prog)
      PROVE ForceInv'
  <2>1. \A m \in NodeID : /\ kept'[m].live = kept[m].live /\ kept'[m].valid = kept[m].valid
                          /\ m # n => kept'[m] = kept[m]
    BY <1>8 DEF ReturnSettle, Assessment
  <2>2. kept'[n].blocked = blocked
    BY <1>8 DEF ReturnSettle, Assessment
  <2>. QED BY <1>8, <2>1, <2>2 DEF ReturnSettle
<1>. QED BY <1>1, <1>2, <1>3, <1>4, <1>5, <1>6, <1>7, <1>8 DEF TaskStep

\* A commit leaves every capture as it is, or makes it invalid.
LEMMA InvalidatedFields ==
  ASSUME NEW f \in [NodeID -> Assessment], NEW S, NEW n \in NodeID
  PROVE  LET g == Invalidated(f, S)
         IN  /\ g[n].live = f[n].live /\ g[n].blocked = f[n].blocked
             /\ g[n] = f[n] \/ (g[n].live /\ ~g[n].valid)
  BY DEF Invalidated, Assessment

LEMMA ForceDisturbance ==
  ASSUME Inv, ForceInv, Disturbance
  PROVE  ForceInv'
<1> USE DEF Inv, TypeOK, ForceInv, CapturedInv, LevelInv, DecidedInv, ForcedInv, AfterBody,
        UnresolvedOnlyAfterPanic, DrainNone, DrainCascade, DrainForce, nodeVars, schedVars, runVars,
        taskVars, envVars
<1>1. CASE Cancel
  BY <1>1 DEF Cancel
<1>2. ASSUME NEW S \in SUBSET NodeID, NEW a \in Arrival, Admit(S, a) PROVE ForceInv'
  <2>1. \A m \in NodeID :
           /\ kept'[m] = kept[m] \/ (kept'[m].live /\ ~kept'[m].valid)
           /\ kept'[m].blocked = kept[m].blocked
           /\ fresh'[m] = fresh[m] \/ (fresh'[m].live /\ ~fresh'[m].valid)
    BY <1>2, InvalidatedFields DEF Admit, Commit
  <2>. QED BY <1>2, <2>1 DEF Admit, Commit, OnArrival, NoNode, Arrival
<1>3. ASSUME NEW n \in NodeID, Panic(n) PROVE ForceInv'
  <2>1. failures' > 0
    BY <1>3, BoundAssumption DEF Panic
  <2>. QED BY <1>3, <2>1 DEF Panic, Nil
<1>4. ASSUME NEW n \in NodeID, NEW S \in SUBSET NodeID, NEW T \in SUBSET NodeID, NEW a \in Arrival,
             Publish(n, S, T, a)
      PROVE ForceInv'
  <2>1. \A m \in NodeID :
           /\ kept'[m] = kept[m] \/ (kept'[m].live /\ ~kept'[m].valid)
           /\ kept'[m].blocked = kept[m].blocked
           /\ fresh'[m] = fresh[m] \/ (fresh'[m].live /\ ~fresh'[m].valid)
    BY <1>4, InvalidatedFields DEF Publish, Commit
  <2>. QED BY <1>4, <2>1 DEF Publish, Commit
<1>. QED BY <1>1, <1>2, <1>3, <1>4 DEF Disturbance, Readers

LEMMA ForceStep == Inv /\ ForceInv /\ [Next]_vars => ForceInv'
<1> SUFFICES ASSUME Inv, ForceInv, [Next]_vars PROVE ForceInv'
  OBVIOUS
<1>1. CASE RunStep
  BY <1>1, ForceRun
<1>2. CASE \E n \in NodeID : TaskStep(n)
  BY <1>2, ForceTask
<1>3. CASE Disturbance
  BY <1>3, ForceDisturbance
<1>4. CASE notifyCancellation
  BY <1>4 DEF notifyCancellation, Inv, TypeOK, ForceInv, CapturedInv, LevelInv, DecidedInv, ForcedInv,
     UnresolvedOnlyAfterPanic, nodeVars, taskVars
<1>5. CASE Done \/ UNCHANGED vars
  BY <1>5 DEF Done, ForceInv, CapturedInv, LevelInv, DecidedInv, ForcedInv, UnresolvedOnlyAfterPanic,
     vars, nodeVars, schedVars, runVars, taskVars, envVars
<1>. QED BY <1>1, <1>2, <1>3, <1>4, <1>5 DEF Next

(* Run reports "unresolved assessment after structural classification"    *)
(* only after a Dispatch or Settle panicked: escalation, redispatch and    *)
(* cancellation never leave a valid assessment parked at DrainForce.       *)
THEOREM UnresolvedNeedsPanic == Spec => []UnresolvedOnlyAfterPanic
<1>1. ForceInv => UnresolvedOnlyAfterPanic
  BY DEF ForceInv
<1>2. Spec => []ForceInv
  BY ForceInit, ForceStep, Invariance, PTL DEF Spec
<1>. QED BY <1>1, <1>2, PTL
-----------------------------------------------------------------------------
(* cond.Wait and those who broadcast.                                      *)

\* Run waits for a node in flight and for nothing else; a node in flight has
\* a task, unless the context was done before its body started.
WaitingInv ==
    /\ pc = "waiting" => /\ err = "none" /\ ~published /\ inFlight # 0
                         /\ \A n \in NodeID : runq[n] = 0
    /\ \A n \in NodeID : state[n] = "running" => task[n] # "none" \/ runCtxDone
    /\ notified => err # "none"

LEMMA WaitingInit == Init => WaitingInv
  BY DEF Init, WaitingInv

\* Run itself is not waiting while it takes a step.
LEMMA WaitingRun ==
  ASSUME Inv, WaitingInv, RunStep
  PROVE  WaitingInv'
<1> USE DEF WaitingInv, Inv, TypeOK, nodeVars, schedVars, runVars, taskVars, envVars, runCtxDone
<1>1. CASE Start
  BY <1>1 DEF Start
<1>2. CASE Wait
  BY <1>2 DEF Wait
<1>3. CASE BeginSweep
  BY <1>3 DEF BeginSweep
<1>4. CASE EndStoreSweep \/ Resweep
  BY <1>4 DEF EndStoreSweep, Resweep
<1>5. CASE Resume \/ Escalate
  BY <1>5 DEF Resume, Escalate, EndIteration
<1>6. CASE Converge \/ Unresolved
  BY <1>6 DEF Converge, Unresolved, EndIteration
<1>7. CASE EndSettle \/ Stop
  BY <1>7 DEF EndSettle, Stop
<1>8. CASE Return
  BY <1>8 DEF Return
<1>9. ASSUME NEW n \in NodeID, dispatchNextLocked(n) PROVE WaitingInv'
  BY <1>9 DEF dispatchNextLocked, Launch
<1>10. ASSUME NEW n \in NodeID, settleLocked(n) PROVE WaitingInv'
  BY <1>10 DEF settleLocked, Launch
<1>11. ASSUME NEW n \in NodeID, Deliver(n) PROVE WaitingInv'
  BY <1>11 DEF Deliver
<1>12. ASSUME NEW n \in NodeID, invalidate(n) PROVE WaitingInv'
  BY <1>12 DEF invalidate, requeueLocked
<1>. QED BY <1>1, <1>2, <1>3, <1>4, <1>5, <1>6, <1>7, <1>8, <1>9, <1>10, <1>11, <1>12 DEF RunStep

LEMMA WaitingTask ==
  ASSUME Inv, WaitingInv, NEW n \in NodeID, TaskStep(n)
  PROVE  WaitingInv'
<1> USE DEF WaitingInv, Inv, TypeOK, nodeVars, schedVars, runVars, taskVars, envVars, runCtxDone
<1>1. CASE Drop(n)
  BY <1>1 DEF Drop, EndTask
<1>2. CASE StartBody(n)
  BY <1>2 DEF StartBody
<1>3. CASE Notify(n)
  <2>1. pc' # "waiting" /\ (pc \in {"joining", "done"} => pc' = pc)
    BY <1>3 DEF Notify, Broadcast
  <2>2. \A m \in NodeID : state'[m] = "running" => state[m] = "running"
    BY <1>3 DEF Notify, OnArrival
  <2>3. \A m \in NodeID : task[m] # "none" => task'[m] # "none"
    BY <1>3 DEF Notify
  <2>4. UNCHANGED <<err, notified, ctxDone>>
    BY <1>3 DEF Notify
  <2>. QED BY <2>1, <2>2, <2>3, <2>4
<1>4. CASE Assess(n) \/ Recheck(n) \/ Revalidate(n)
  BY <1>4 DEF Assess, Recheck, Revalidate
<1>5. CASE complete(n)
  <2>1. pc' # "waiting" /\ (pc \in {"joining", "done"} => pc' = pc)
    BY <1>5 DEF complete, Broadcast
  <2>2. \A m \in NodeID : state'[m] = "running" => state[m] = "running" /\ m # n
    BY <1>5 DEF complete, requeueLocked
  <2>3. \A m \in NodeID : m # n => task'[m] = task[m]
    BY <1>5 DEF complete, EndTask
  <2>4. UNCHANGED <<notified, ctxDone>> /\ (err # "none" => err' # "none")
    BY <1>5 DEF complete, requeueLocked
  <2>. QED BY <2>1, <2>2, <2>3, <2>4
<1>6. CASE \E owned, blocked, prog \in BOOLEAN : ReturnDispatch(n, owned, blocked, prog)
  BY <1>6 DEF ReturnDispatch
<1>7. CASE \E blocked, prog \in BOOLEAN : ReturnSettle(n, blocked, prog)
  BY <1>7 DEF ReturnSettle
<1>. QED BY <1>1, <1>2, <1>3, <1>4, <1>5, <1>6, <1>7 DEF TaskStep

LEMMA WaitingStep == Inv /\ WaitingInv /\ [Next]_vars => WaitingInv'
<1> SUFFICES ASSUME Inv, WaitingInv, [Next]_vars PROVE WaitingInv'
  OBVIOUS
<1>1. CASE RunStep
  BY <1>1, WaitingRun
<1>2. CASE \E n \in NodeID : TaskStep(n)
  BY <1>2, WaitingTask
<1>3. CASE Cancel
  <2>1. ctxDone' /\ UNCHANGED <<nodeVars, schedVars, runVars, taskVars, notified>>
    BY <1>3, Zenon DEF Cancel
  <2>. QED BY <2>1 DEF WaitingInv, nodeVars, schedVars, runVars, taskVars, runCtxDone
<1>4. ASSUME NEW S, NEW a, Admit(S, a) PROVE WaitingInv'
  <2>1. pc = "admitting" /\ UNCHANGED <<pc, task, ctxDone, err, notified>>
    BY <1>4 DEF Admit, runVars
  <2>2. \A m \in NodeID : state'[m] = "running" => state[m] = "running"
    BY <1>4 DEF Admit, OnArrival, Inv, TypeOK
  <2>. QED BY <2>1, <2>2 DEF WaitingInv, runCtxDone
<1>5. ASSUME NEW n \in NodeID, Panic(n) \/ \E S, T, a : Publish(n, S, T, a) PROVE WaitingInv'
  <2>1. UNCHANGED <<pc, err, published, inFlight, runq, state, ctxDone, notified>>
    BY <1>5 DEF Panic, Publish, Commit, nodeVars, schedVars, runVars
  <2>2. \A m \in NodeID : task[m] # "none" => task'[m] # "none"
    BY <1>5 DEF Panic, Publish, Inv, TypeOK
  <2>. QED BY <2>1, <2>2 DEF WaitingInv, runCtxDone
<1>6. CASE notifyCancellation
  <2>1. /\ pc' # "waiting" /\ (pc \in {"joining", "done"} => pc' = pc)
        /\ err' # "none" /\ UNCHANGED <<state, task, ctxDone>>
    BY <1>6 DEF notifyCancellation, Broadcast, nodeVars, taskVars
  <2>. QED BY <2>1 DEF WaitingInv, runCtxDone
<1>7. CASE Done \/ UNCHANGED vars
  BY <1>7 DEF Done, WaitingInv, vars, nodeVars, schedVars, runVars, taskVars, envVars, runCtxDone
<1>. QED BY <1>1, <1>2, <1>3, <1>4, <1>5, <1>6, <1>7 DEF Next, Disturbance

(* While Run waits on cond there is nothing it has missed and somebody is  *)
(* left to broadcast: a task that will complete, or, where the tasks were  *)
(* dropped, the cancellation callback (schedule.go: Run, complete,         *)
(* OnArrival, notifyCancellation).                                         *)
THEOREM NeverSleepsThrough == Spec => []NoMissedWakeup
<1>1. Inv /\ WaitingInv => NoMissedWakeup
  <2> SUFFICES ASSUME Inv, WaitingInv, pc = "waiting"
               PROVE  (\E n \in NodeID : task[n] # "none") \/ (ctxDone /\ ~notified)
    BY DEF NoMissedWakeup, WaitingInv
  <2>1. Running # {}
    <3>1. inFlight = Cardinality(Running) /\ inFlight # 0
      BY DEF Inv, FlightInv, WaitingInv
    <3>. QED BY <3>1, FS_EmptySet
  <2>2. PICK n \in NodeID : state[n] = "running"
    BY <2>1 DEF Running
  <2>3. task[n] # "none" \/ ctxDone
    BY <2>2 DEF WaitingInv, runCtxDone
  <2>4. ~notified
    BY DEF WaitingInv
  <2>. QED BY <2>3, <2>4
<1>. QED BY <1>1, Invariance, WaitingInit, WaitingStep, PTL DEF Spec
=============================================================================
