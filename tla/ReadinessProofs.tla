-------------------------- MODULE ReadinessProofs --------------------------
(* The gates decide: for any resources and any references between them, no *)
(* execution is left waiting at the last drain level.                      *)
EXTENDS Readiness, TLAPS

LEMMA LargestIsNat == ASSUME NEW S \in SUBSET Nat PROVE Largest(S) \in Nat
  BY DEF Largest

LEMMA NestingIsNat == ASSUME TypeOK, NEW F \in SUBSET Node PROVE Nesting(F) \in Nat
<1> DEFINE T == {cond[m].text : m \in {k \in F : cond[k].failure # {}}}
<1>1. T \in SUBSET Nat
  BY DEF TypeOK, Condition
<1>2. Largest(T) \in Nat
  BY <1>1, LargestIsNat
<1>. QED BY <1>2 DEF Nesting

LEMMA OutcomeIsResult ==
    ASSUME NEW k \in {"ok", "blocked", "skipped", "failed", "dependency", "changed"}
    PROVE  Outcome(k) \in Result /\ Outcome(k).kind = k
  BY DEF Outcome, Result

LEMMA PlainIsCondition ==
    ASSUME NEW s \in {"none", "Pending", "Ready", "Skipped", "Failed"} PROVE Plain(s) \in Condition
  BY DEF Plain, Condition

(* Execution.classify returns an outcome, and never waits when every gate  *)
(* has decided.                                                            *)
LEMMA ClassifyIsResult ==
    ASSUME TypeOK, NEW n \in Node, NEW l
    PROVE  classify(n, l) \in Result
<1> DEFINE failed == Saying(n, l, {"failed"})
<1>1. failed \in SUBSET Node
  BY DEF TypeOK, Gate, Saying
<1>2. Nesting(failed) \in Nat
  BY <1>1, NestingIsNat
<1>3. [kind |-> "dependency", on |-> failed, text |-> Nesting(failed)] \in Result
  BY <1>1, <1>2 DEF Result
<1>4. /\ Outcome("blocked") \in Result /\ Outcome("skipped") \in Result
      /\ Outcome("failed") \in Result /\ Outcome("ok") \in Result
  BY OutcomeIsResult
<1>. QED BY <1>3, <1>4 DEF classify

(* No gate is blocked at the last level, so classify does not block.       *)
LEMMA ForceUnblocks ==
    ASSUME TypeOK, NEW n \in Node
    PROVE  classify(n, DrainForce).kind # "blocked"
<1>1. ASSUME NEW g \in Gate PROVE Classify(g, DrainForce) # "blocked"
  BY DEF Classify, classifyAbsent, classifyPresent, artifactReady, DrainForce, DrainCascade
<1>2. Saying(n, DrainForce, {"blocked"}) = {}
  BY <1>1 DEF Saying, TypeOK
<1>3. /\ Outcome("skipped").kind # "blocked" /\ Outcome("failed").kind # "blocked"
      /\ Outcome("ok").kind # "blocked"
  BY DEF Outcome
<1>. QED BY <1>2, <1>3 DEF classify

LEMMA SetConditionType ==
    ASSUME TypeOK, NEW n \in Node, NEW new \in Condition, setCondition(n, new)
    PROVE  cond' \in [Node -> Condition]
  BY DEF setCondition, TypeOK

LEMMA SetPendingType ==
    ASSUME TypeOK, NEW n \in Node, SetPendingUnlessReady(n)
    PROVE  cond' \in [Node -> Condition]
<1>1. Plain("Pending") \in Condition
  BY PlainIsCondition
<1>. QED BY <1>1, SetConditionType DEF SetPendingUnlessReady, TypeOK

LEMMA ApplyingType ==
    ASSUME TypeOK, NEW n \in Node, ReportApplying(n) PROVE cond' \in [Node -> Condition]
<1>1. Applying \in Condition
  BY DEF Applying, Condition
<1>. QED BY <1>1 DEF ReportApplying, TypeOK

LEMMA InvalidateType ==
    ASSUME NEW S, Invalidate(S) PROVE valid' \in [Node -> BOOLEAN]
  BY DEF Invalidate

(* What one reconcile at level l leaves behind: its own outcome and place, *)
(* and nothing of the others.                                              *)
Reconciled(n, l) ==
    /\ cond' \in [Node -> Condition]
    /\ \E r \in Result : /\ result' = [result EXCEPT ![n] = r]
                         /\ l = DrainForce => r.kind # "blocked"
                         /\ \/ pc' = [pc EXCEPT ![n] = "rendering"] /\ r.kind = "ok"
                            \/ pc' = [pc EXCEPT ![n] = "finishing"]

LEMMA ReconcileEffect ==
    ASSUME TypeOK, NEW n \in Node, NEW l \in DrainNone .. DrainForce, reconcile(n, l) PROVE Reconciled(n, l)
<1> USE DEF Decide, Goto
<1>1. CASE n \in Source
  <2>1. reconcileSource(n, l)
    BY <1>1 DEF reconcile
  <2>2. /\ Plain("Pending") \in Condition
        /\ cond \in [Node -> Condition]
    BY PlainIsCondition DEF TypeOK
  <2>3. CASE object[n] = "skip" /\ l = DrainNone
    <3>1. Outcome("blocked") \in Result /\ l # DrainForce
      BY <2>3, OutcomeIsResult DEF DrainNone, DrainForce
    <3>2. setCondition(n, Plain("Pending"))
      BY <2>1, <2>3 DEF reconcileSource
    <3>3. cond' \in [Node -> Condition]
      BY <2>2, <3>2, SetConditionType
    <3>. QED BY <2>1, <2>3, <3>1, <3>3 DEF reconcileSource, Reconciled
  <2>4. CASE object[n] = "skip" /\ l # DrainNone
    <3>1. Outcome("skipped") \in Result /\ Outcome("skipped").kind = "skipped"
      BY OutcomeIsResult
    <3>. QED BY <2>1, <2>2, <2>4, <3>1 DEF reconcileSource, Reconciled
  <2>5. CASE object[n] # "skip"
    <3>1. Outcome("ok") \in Result /\ Outcome("ok").kind = "ok"
      BY OutcomeIsResult
    <3>2. cond' \in [Node -> Condition]
      BY <2>1, <2>2, <2>5, SetPendingType DEF reconcileSource
    <3>. QED BY <2>1, <2>5, <3>1, <3>2 DEF reconcileSource, Reconciled
  <2>. QED BY <2>3, <2>4, <2>5
<1>2. CASE n \notin Source
  <2>1. reconcileKustomization(n, l)
    BY <1>2 DEF reconcile
  <2>2. cond' \in [Node -> Condition]
    BY <2>1, SetPendingType DEF reconcileKustomization, TypeOK
  <2>3. classify(n, l) \in Result
    BY ClassifyIsResult
  <2>4. l = DrainForce => classify(n, l).kind # "blocked"
    BY ForceUnblocks
  <2>. QED BY <2>1, <2>2, <2>3, <2>4 DEF reconcileKustomization, Reconciled
<1>. QED BY <1>1, <1>2

(* An execution that lost its inputs stays so until it is queued again.    *)
LEMMA StaysInvalid ==
    ASSUME NEW S, Invalidate(S), NEW m \in Node, m \notin S, pc[m] \notin {"none", "runnable"}, ~valid[m]
    PROVE  ~valid'[m]
  BY DEF Invalidate

(* What holds between the steps of an execution: it renders only once its  *)
(* gates let it, and at the last level it has nothing left to wait for:    *)
(* no Settle of the level before it is under way then.                     *)
GatePassed == \A n \in Node : pc[n] \in {"rendering", "emitting"} => result[n].kind = "ok"
NothingToWaitFor ==
    level = DrainForce => \A n \in Node : pc[n] = "finishing" => result[n].kind # "blocked"

CascadeIsOver == level = DrainForce => \A n \in Node : pc[n] # "cascading"

GateInv == TypeOK /\ GatePassed /\ NothingToWaitFor /\ CascadeIsOver /\ GatesDecide

LEMMA GateInit == ASSUME Init PROVE GateInv
<1>1. Plain("none") \in Condition /\ Outcome("ok") \in Result
  BY PlainIsCondition, OutcomeIsResult
<1>2. TypeOK
  BY <1>1, BoundAssumption DEF Init, TypeOK, GatesOf, Verdict, Places, DrainNone, DrainForce
<1>3. level # DrainForce
  BY DEF Init, DrainNone, DrainForce
<1>4. GatePassed
  BY DEF Init, GatePassed
<1>. QED BY <1>2, <1>3, <1>4 DEF GateInv, NothingToWaitFor, CascadeIsOver, GatesDecide

(* The two steps that reconcile.                                           *)
LEMMA ReconcileKeeps ==
    ASSUME GateInv, NEW n \in Node, pc[n] \in {"runnable", "cascading", "forcing"},
           NEW l \in DrainNone .. DrainForce, reconcile(n, l), level' \in {level, DrainNone},
           level' = DrainForce => l = DrainForce,
           NEW S, Invalidate(S), n \in S \/ S = {}, S \subseteq {n},
           UNCHANGED <<gates, object, content, accepted, rendered, changes>>,
           recovering' \in [Node -> BOOLEAN]
    PROVE  GateInv'
<1>0. DrainNone \in DrainNone .. DrainForce /\ DrainNone # DrainForce
  BY DEF DrainNone, DrainForce
<1>1. Reconciled(n, l)
  BY ReconcileEffect DEF GateInv
<1>2. valid' \in [Node -> BOOLEAN]
  BY InvalidateType
<1>3. PICK r \in Result : /\ result' = [result EXCEPT ![n] = r]
                          /\ l = DrainForce => r.kind # "blocked"
                          /\ \/ pc' = [pc EXCEPT ![n] = "rendering"] /\ r.kind = "ok"
                             \/ pc' = [pc EXCEPT ![n] = "finishing"]
  BY <1>1 DEF Reconciled
<1>4. TypeOK'
  BY <1>0, <1>1, <1>2, <1>3 DEF Reconciled, GateInv, TypeOK, Places
<1>5. GatePassed' /\ NothingToWaitFor' /\ CascadeIsOver'
  BY <1>0, <1>3 DEF GateInv, TypeOK, GatePassed, NothingToWaitFor, CascadeIsOver
<1>6. GatesDecide'
  <2>1. SUFFICES ASSUME level = DrainForce, NEW m \in Node, pc'[m] = "parked" PROVE ~valid'[m]
    BY <1>0 DEF GatesDecide, Parked
  <2>2. m # n /\ pc[m] = "parked"
    BY <1>3, <2>1 DEF GateInv, TypeOK
  <2>3. ~valid[m]
    BY <2>1, <2>2 DEF GateInv, GatesDecide, Parked
  <2>. QED BY <2>2, <2>3, StaysInvalid
<1>. QED BY <1>4, <1>5, <1>6 DEF GateInv

(* Any other step of an execution: the others keep their place and their   *)
(* outcome, except that an emission may queue a resource it declares.      *)
LEMMA OtherKeeps ==
    ASSUME GateInv, NEW n \in Node, TypeOK', level' = level,
           \A m \in Node \ {n} : pc'[m] = pc[m] \/ pc'[m] = "runnable",
           \A m \in Node \ {n} : result'[m] = result[m],
           \A m \in Node \ {n} : pc[m] = "parked" /\ ~valid[m] => ~valid'[m],
           pc'[n] \in {"rendering", "emitting"} => result'[n].kind = "ok",
           pc'[n] = "finishing" => result'[n].kind # "blocked", pc'[n] # "cascading",
           level = DrainForce /\ pc'[n] = "parked" => ~valid'[n]
    PROVE  GateInv'
<1>1. GatePassed'
  BY DEF GateInv, GatePassed
<1>2. NothingToWaitFor' /\ CascadeIsOver'
  BY DEF GateInv, NothingToWaitFor, CascadeIsOver
<1>3. GatesDecide'
  <2>1. SUFFICES ASSUME level = DrainForce, NEW m \in Node, pc'[m] = "parked" PROVE ~valid'[m]
    BY DEF GatesDecide, Parked
  <2>2. CASE m = n
    BY <2>1, <2>2
  <2>3. CASE m # n
    <3>1. pc[m] = "parked"
      BY <2>1, <2>3
    <3>2. ~valid[m]
      BY <2>1, <3>1 DEF GateInv, GatesDecide, Parked
    <3>. QED BY <2>3, <3>1, <3>2
  <2>. QED BY <2>2, <2>3
<1>. QED BY <1>1, <1>2, <1>3 DEF GateInv

LEMMA StepKeeps == ASSUME GateInv, NEW n \in Node, Step(n) PROVE GateInv'
<1>0. TypeOK
  BY DEF GateInv
<1> USE DEF At, Goto, Decide
<1>1. CASE Dispatch(n)
  <2>1. /\ pc[n] = "runnable" /\ reconcile(n, DrainNone) /\ Invalidate({n}) /\ level' = DrainNone
        /\ UNCHANGED <<gates, object, content, accepted, rendered, changes>>
    BY <1>1 DEF Dispatch
  <2>2. recovering' \in [Node -> BOOLEAN]
    BY <1>0, <1>1 DEF Dispatch, ReplacesInvalid, TypeOK
  <2>3. DrainNone \in DrainNone .. DrainForce /\ DrainNone # DrainForce
    BY DEF DrainNone, DrainForce
  <2>. QED BY <2>1, <2>2, <2>3, ReconcileKeeps
<1>2. ASSUME NEW l \in {DrainCascade, DrainForce}, Settle(n, l) PROVE GateInv'
  <2>1. /\ pc[n] \in {"cascading", "forcing"} /\ Invalidate({})
        /\ UNCHANGED <<gates, object, content, level, accepted, recovering, rendered, changes>>
        /\ pc[n] = SettlesAt(l)
    BY <1>2 DEF Settle, SettlesAt
  <2>0. l \in DrainNone .. DrainForce /\ (level' = DrainForce => l = DrainForce)
    BY <2>1 DEF SettlesAt, GateInv, CascadeIsOver, DrainNone, DrainCascade, DrainForce
  <2>2. CASE valid[n]
    <3>1. reconcile(n, l)
      BY <1>2, <2>2 DEF Settle
    <3>2. recovering' \in [Node -> BOOLEAN]
      BY <1>0, <2>1 DEF TypeOK
    <3>. QED BY <2>0, <2>1, <3>1, <3>2, ReconcileKeeps
  <2>3. CASE ~valid[n]
    <3>1. pc' = [pc EXCEPT ![n] = "parked"] /\ UNCHANGED <<result, cond>>
      BY <1>2, <2>3 DEF Settle
    <3>2. TypeOK'
      BY <1>0, <2>1, <3>1, InvalidateType DEF TypeOK, Places
    <3>3. \A m \in Node : pc[m] \in {"parked", "cascading", "forcing"} /\ ~valid[m] => ~valid'[m]
      BY <2>1, StaysInvalid
    <3>. QED BY <1>0, <2>1, <2>3, <3>1, <3>2, <3>3, OtherKeeps DEF TypeOK
  <2>. QED BY <2>2, <2>3
<1>3. CASE InputsChanged(n)
  <2>1. Outcome("changed") \in Result /\ Outcome("changed").kind = "changed"
    BY OutcomeIsResult
  <2>2. TypeOK'
    BY <1>0, <1>3, <2>1 DEF InputsChanged, TypeOK, Places
  <2>. QED BY <1>0, <1>3, <2>1, <2>2, OtherKeeps DEF InputsChanged, TypeOK
<1>4. CASE RenderFails(n)
  <2>1. Outcome("failed") \in Result /\ Outcome("failed").kind = "failed"
    BY OutcomeIsResult
  <2>2. TypeOK'
    BY <1>0, <1>4, <2>1 DEF RenderFails, TypeOK, Places
  <2>. QED BY <1>0, <1>4, <2>1, <2>2, OtherKeeps DEF RenderFails, TypeOK
<1>5. CASE completeFetch(n) \/ admitRender(n) \/ Replay(n)
  <2>1. pc[n] = "rendering" /\ Invalidate({}) /\ UNCHANGED <<gates, object, level, result, accepted, rendered, changes>>
    BY <1>5 DEF completeFetch, admitRender, Replay
  <2>2. pc' = [pc EXCEPT ![n] = "finishing"] \/ pc' = [pc EXCEPT ![n] = "emitting"]
    BY <1>5 DEF completeFetch, admitRender, Replay
  <2>3. result[n].kind = "ok"
    BY <2>1 DEF GateInv, GatePassed
  <2>4. Plain("Pending") \in Condition
    BY PlainIsCondition
  <2>5. cond' \in [Node -> Condition]
    <3>1. CASE completeFetch(n)
      BY <1>0, <3>1 DEF completeFetch, TypeOK
    <3>2. CASE admitRender(n)
      BY <1>0, <2>4, <3>2, SetConditionType DEF admitRender, TypeOK
    <3>3. CASE Replay(n)
      BY <1>0, <3>3, ApplyingType DEF Replay
    <3>. QED BY <1>5, <3>1, <3>2, <3>3
  <2>6. content' \in [Node -> {"none", "current", "stale"}] /\ recovering' \in [Node -> BOOLEAN]
    BY <1>0, <1>5 DEF completeFetch, admitRender, Replay, TypeOK
  <2>7. TypeOK'
    BY <1>0, <2>1, <2>2, <2>5, <2>6, InvalidateType DEF TypeOK, Places
  <2>8. \A m \in Node : pc[m] = "parked" /\ ~valid[m] => ~valid'[m]
    BY <2>1, StaysInvalid
  <2>. QED BY <1>0, <2>1, <2>2, <2>3, <2>7, <2>8, OtherKeeps DEF TypeOK
<1>6. CASE Emit(n)
  <2>1. pc[n] = "emitting" /\ Invalidate({}) /\ UNCHANGED <<gates, level, result, accepted>>
    BY <1>6 DEF Emit
  <2>2. result[n].kind = "ok"
    BY <2>1 DEF GateInv, GatePassed
  <2>3. /\ object' \in [Node -> {"none", "good", "bad", "skip"}]
        /\ content' \in [Node -> {"none", "current", "stale"}]
        /\ changes' \in 0 .. MaxChanges
        /\ pc' \in [Node -> Places]
        /\ pc'[n] = "finishing"
        /\ \A m \in Node \ {n} : pc'[m] = pc[m] \/ pc'[m] = "runnable"
    <3>1. CASE UNCHANGED <<object, content, changes>> /\ Goto(n, "finishing")
      BY <1>0, <3>1 DEF TypeOK, Places
    <3>2. CASE ~(UNCHANGED <<object, content, changes>> /\ Goto(n, "finishing"))
      <4>1. PICK m \in Node, v \in {"good", "bad", "skip"} :
               /\ object' = [object EXCEPT ![m] = v]
               /\ content' = [content EXCEPT ![m] = IF @ = "current" THEN "stale" ELSE @]
               /\ pc' = [pc EXCEPT ![m] = IF @ = "none" THEN "runnable" ELSE @, ![n] = "finishing"]
        BY <1>6, <3>2 DEF Emit
      <4>2. changes < MaxChanges /\ changes' = changes + 1
        BY <1>6, <3>2 DEF Emit
      <4>3. changes' \in 0 .. MaxChanges
        BY <1>0, <4>2, BoundAssumption DEF TypeOK
      <4>. QED BY <1>0, <4>1, <4>3 DEF TypeOK, Places
    <3>. QED BY <3>1, <3>2
  <2>4. cond' \in [Node -> Condition]
    BY <1>0, <1>6, ApplyingType DEF Emit
  <2>5. valid' \in [Node -> BOOLEAN]
    BY <2>1, InvalidateType
  <2>6. recovering' \in [Node -> BOOLEAN] /\ rendered' \in [Node -> BOOLEAN]
    BY <1>0, <1>6, <2>5 DEF Emit, TypeOK
  <2>7. TypeOK'
    BY <1>0, <2>1, <2>3, <2>4, <2>5, <2>6 DEF TypeOK
  <2>8. \A m \in Node : pc[m] = "parked" /\ ~valid[m] => ~valid'[m]
    BY <2>1, StaysInvalid
  <2>. QED BY <2>1, <2>2, <2>3, <2>7, <2>8, OtherKeeps
<1>7. CASE Finish(n)
  <2>1. TypeOK'
    BY <1>0, <1>7 DEF Finish, TypeOK, Places
  <2>2. level = DrainForce => result[n].kind # "blocked"
    BY <1>7 DEF Finish, GateInv, NothingToWaitFor
  <2>. QED BY <1>0, <1>7, <2>1, <2>2, OtherKeeps DEF Finish, TypeOK
<1>8. CASE Publish(n)
  <2>1. /\ pc[n] = "publishing" /\ pc' = [pc EXCEPT ![n] = "accepting"] /\ Invalidate({})
        /\ UNCHANGED <<gates, object, level, result, accepted, recovering, rendered, changes>>
    BY <1>8 DEF Publish
  <2>2. content' \in [Node -> {"none", "current", "stale"}]
    BY <1>0, <1>8 DEF Publish, finishSuccess, finishFailure, TypeOK
  <2>3. Plain("Ready") \in Condition /\ Plain("Skipped") \in Condition
    BY PlainIsCondition
  <2>4. [status |-> "Failed", failure |-> result[n].on, text |-> result[n].text] \in Condition
    BY <1>0 DEF TypeOK, Condition, Result
  <2>5. cond' \in [Node -> Condition]
    BY <1>0, <1>8, <2>3, <2>4, SetConditionType DEF Publish, finishSuccess, finishFailure, TypeOK
  <2>6. TypeOK'
    BY <1>0, <2>1, <2>2, <2>5, InvalidateType DEF TypeOK, Places
  <2>7. \A m \in Node : pc[m] = "parked" /\ ~valid[m] => ~valid'[m]
    BY <2>1, StaysInvalid
  <2>. QED BY <1>0, <2>1, <2>6, <2>7, OtherKeeps DEF TypeOK
<1>9. CASE Accept(n)
  <2>1. TypeOK'
    BY <1>0, <1>9 DEF Accept, TypeOK, Places
  <2>. QED BY <1>0, <1>9, <2>1, OtherKeeps DEF Accept, TypeOK
<1>10. CASE Requeue(n)
  <2>1. TypeOK'
    BY <1>0, <1>10 DEF Requeue, TypeOK, Places
  <2>. QED BY <1>0, <1>10, <2>1, OtherKeeps DEF Requeue, TypeOK
<1>. QED BY <1>1, <1>2, <1>3, <1>4, <1>5, <1>6, <1>7, <1>8, <1>9, <1>10 DEF Step, DrainCascade, DrainForce

LEMMA EscalateKeeps == ASSUME GateInv, Escalate PROVE GateInv'
<1>0. TypeOK
  BY DEF GateInv
<1>1. TypeOK'
  BY <1>0 DEF Escalate, TypeOK, Places, SettlesAt, DrainNone, DrainForce
<1>2. \A n \in Node : pc'[n] \in {"none", SettlesAt(level'), "terminal"}
  BY <1>0 DEF Escalate, Settled, Parked, TypeOK
<1>3. level' = DrainForce => SettlesAt(level') = "forcing"
  BY DEF SettlesAt, DrainCascade, DrainForce
<1>4. SettlesAt(level') \in {"cascading", "forcing"}
  BY DEF SettlesAt
<1>. QED BY <1>1, <1>2, <1>3, <1>4
         DEF GateInv, GatePassed, NothingToWaitFor, CascadeIsOver, GatesDecide, Parked

LEMMA GateSafe == Spec => []GateInv
<1>1. Init => GateInv
  BY GateInit
<1>2. GateInv /\ [Next]_vars => GateInv'
  <2>1. CASE Next
    BY <2>1, StepKeeps, EscalateKeeps DEF Next, vars, execVars, GateInv, TypeOK, GatePassed,
       NothingToWaitFor, CascadeIsOver, GatesDecide, Parked
  <2>2. CASE UNCHANGED vars
    BY <2>2 DEF vars, execVars, GateInv, TypeOK, GatePassed, NothingToWaitFor, CascadeIsOver,
       GatesDecide, Parked
  <2>. QED BY <2>1, <2>2
<1>. QED BY <1>1, <1>2, PTL DEF Spec

(* Every variable keeps its type: conditions, outcomes and places are      *)
(* never ones that Execution.finish or the scheduler does not know.        *)
THEOREM TypeCorrect == Spec => []TypeOK
  BY GateSafe, PTL DEF GateInv

(* Nothing valid is parked at DrainForce, however many resources there are *)
(* and however they wait for each other: Waiter.Classify decides every     *)
(* gate there, so the scheduler ends its run with no unresolved resource.  *)
THEOREM ForceDecidesGates == Spec => []GatesDecide
  BY GateSafe, PTL DEF GateInv
-----------------------------------------------------------------------------
(***************************************************************************)
(* The verdict: what an execution has come to is what the gates and the    *)
(* declaration call for as long as its reads are valid, and its condition  *)
(* says it once it is published.                                           *)
(***************************************************************************)

\* What the gates of a resource say at the last level.
DecidedKind(n) == classify(n, DrainForce).kind
DecidedOn(n) == classify(n, DrainForce).on

\* What reconciling it comes to, from the store as it is.
TruthKind(n) ==
    IF object[n] = "skip" THEN "skipped"
    ELSE IF DecidedKind(n) # "ok" THEN DecidedKind(n)
    ELSE IF object[n] = "good" THEN "ok" ELSE "failed"
TruthOn(n) == IF object[n] = "skip" THEN {} ELSE DecidedOn(n)

StaticInv ==
    \A n \in Node : /\ n \in Source => gates[n] = {}
                    /\ \A g \in gates[n] : g.on # n
                    /\ object[n] = "skip" => n \in Source

\* The condition of a resource reports the outcome of its execution.
Reported(n) ==
    /\ result[n].kind = "ok" => \/ cond[n].status = "Ready" /\ cond[n].failure = {}
                                \/ cond[n].status = "Skipped"
                                \/ n \in Source /\ cond[n].status = "Failed"
    /\ result[n].kind = "skipped" => cond[n].status = "Skipped" /\ cond[n].failure = {}
    /\ result[n].kind \notin {"ok", "skipped"} => cond[n].status = "Failed" /\ cond[n].failure = result[n].on

VerdictOf(n) ==
    /\ object[n] = "none" <=> pc[n] = "none"
    /\ pc[n] = "none" => cond[n] = Plain("none")
    /\ pc[n] \in {"rendering", "emitting"} =>
          /\ result[n].kind = "ok" /\ result[n].on = {}
          /\ valid[n] => object[n] # "skip" /\ DecidedKind(n) = "ok"
    /\ pc[n] = "emitting" => cond[n].status = "Pending"
    /\ pc[n] \in {"finishing", "publishing", "accepting", "terminal"} /\ valid[n] /\ result[n].kind # "blocked" =>
          result[n].kind = TruthKind(n) /\ result[n].on = TruthOn(n)
    /\ pc[n] \in {"publishing", "accepting", "terminal"} => result[n].kind # "blocked"
    /\ pc[n] \in {"finishing", "publishing"} /\ result[n].kind = "ok" /\ n \notin Source =>
          cond[n].status # "Failed" \/ recovering[n]
    /\ pc[n] \in {"accepting", "terminal"} /\ valid[n] => Reported(n)

VerdictInv == StaticInv /\ \A n \in Node : VerdictOf(n)

(* What a gate that has decided says does not depend on the level.         *)
LEMMA DecidedAtForce ==
    ASSUME NEW g \in Gate, NEW l \in DrainNone .. DrainForce, Classify(g, l) # "blocked"
    PROVE  Classify(g, DrainForce) = Classify(g, l)
  BY DEF Classify, classifyAbsent, classifyPresent, artifactReady, DrainNone, DrainCascade, DrainForce

LEMMA DecidedEarly ==
    ASSUME TypeOK, NEW n \in Node, NEW l \in DrainNone .. DrainForce, classify(n, l).kind # "blocked"
    PROVE  classify(n, l).kind = DecidedKind(n) /\ classify(n, l).on = DecidedOn(n)
<1>1. Saying(n, l, {"blocked"}) = {}
  BY DEF classify, Outcome
<1>2. ASSUME NEW g \in gates[n] PROVE Classify(g, DrainForce) = Classify(g, l) /\ Classify(g, l) # "blocked"
  <2>1. g \in Gate
    BY DEF TypeOK
  <2>2. Classify(g, l) # "blocked"
    BY <1>1 DEF Saying
  <2>. QED BY <2>1, <2>2, DecidedAtForce
<1>3. /\ Saying(n, DrainForce, {"blocked"}) = {}
      /\ Saying(n, DrainForce, {"skipped", "missing"}) = Saying(n, l, {"skipped", "missing"})
      /\ Saying(n, DrainForce, {"skipped"}) = Saying(n, l, {"skipped"})
      /\ Saying(n, DrainForce, {"failed"}) = Saying(n, l, {"failed"})
  BY <1>2 DEF Saying
<1>. QED BY <1>1, <1>3 DEF classify, DecidedKind, DecidedOn

(* The gates of a resource say the same while nothing they are on moves.   *)
LEMMA DecisionStands ==
    ASSUME NEW n \in Node, gates' = gates,
           \A g \in gates[n] : /\ object'[g.on] = object[g.on]
                               /\ cond'[g.on] = cond[g.on]
                               /\ content'[g.on] = content[g.on]
    PROVE  DecidedKind(n)' = DecidedKind(n) /\ DecidedOn(n)' = DecidedOn(n)
<1>1. ASSUME NEW g \in gates[n] PROVE Classify(g, DrainForce)' = Classify(g, DrainForce)
  BY DEF Classify, classifyAbsent, classifyPresent, artifactReady, Expression
<1>2. /\ Saying(n, DrainForce, {"blocked"})' = Saying(n, DrainForce, {"blocked"})
      /\ Saying(n, DrainForce, {"skipped", "missing"})' = Saying(n, DrainForce, {"skipped", "missing"})
      /\ Saying(n, DrainForce, {"skipped"})' = Saying(n, DrainForce, {"skipped"})
      /\ Saying(n, DrainForce, {"failed"})' = Saying(n, DrainForce, {"failed"})
  BY <1>1 DEF Saying
<1>. QED BY <1>2 DEF classify, DecidedKind, DecidedOn, Outcome

LEMMA PassedIsPlain == ASSUME NEW n, NEW l, classify(n, l).kind = "ok" PROVE classify(n, l).on = {}
  BY DEF classify, Outcome

LEMMA NoGatesPass ==
    ASSUME NEW n, gates[n] = {} PROVE DecidedKind(n) = "ok" /\ DecidedOn(n) = {}
<1>1. \A t : Saying(n, DrainForce, t) = {}
  BY DEF Saying
<1>. QED BY <1>1 DEF classify, DecidedKind, DecidedOn, Outcome

(* An execution whose reads are still valid after a step had valid reads   *)
(* before it, and its gates and declaration say what they said.            *)
LEMMA ValidStands ==
    ASSUME NEW S, Invalidate(S), NEW m \in Node, m \notin S, pc[m] \notin {"none", "runnable"}, valid'[m],
           gates' = gates
    PROVE  /\ valid[m] /\ object'[m] = object[m]
           /\ DecidedKind(m)' = DecidedKind(m) /\ DecidedOn(m)' = DecidedOn(m)
<1>1. valid[m] /\ object'[m] = object[m]
  BY DEF Invalidate
<1>2. \A g \in gates[m] : /\ object'[g.on] = object[g.on]
                          /\ cond'[g.on] = cond[g.on]
                          /\ content'[g.on] = content[g.on]
  BY DEF Invalidate
<1>. QED BY <1>1, <1>2, DecisionStands

(* The step of another execution leaves the verdict of this one alone.     *)
LEMMA VerdictStands ==
    ASSUME NEW m \in Node, VerdictOf(m),
           pc'[m] = pc[m], result'[m] = result[m], cond'[m] = cond[m], recovering'[m] = recovering[m],
           object'[m] = "none" <=> object[m] = "none",
           pc[m] \notin {"none", "runnable"} /\ valid'[m] =>
               /\ valid[m] /\ object'[m] = object[m]
               /\ DecidedKind(m)' = DecidedKind(m) /\ DecidedOn(m)' = DecidedOn(m)
    PROVE  VerdictOf(m)'
  BY DEF VerdictOf, TruthKind, TruthOn, Reported

(* A reconcile that does not block comes to what the store calls for.      *)
LEMMA ReconcileVerdict ==
    ASSUME TypeOK, VerdictInv, NEW n \in Node, pc[n] \in {"runnable", "cascading", "forcing"},
           NEW l \in DrainNone .. DrainForce, reconcile(n, l),
           gates' = gates, object' = object, content' = content
    PROVE  /\ VerdictOf(n)'
           /\ \A m \in Node \ {n} : pc'[m] = pc[m] /\ result'[m] = result[m] /\ cond'[m] = cond[m]
<1> USE DEF Decide, Goto
<1>0. object[n] # "none" /\ (n \in Source => gates[n] = {}) /\ (object[n] = "skip" => n \in Source)
  BY DEF VerdictInv, VerdictOf, StaticInv
<1>1. \A m \in Node \ {n} : cond'[m] = cond[m]
  BY DEF reconcile, reconcileSource, reconcileKustomization, SetPendingUnlessReady, setCondition, TypeOK
<1>2. \A m \in Node \ {n} : pc'[m] = pc[m] /\ result'[m] = result[m]
  BY DEF reconcile, reconcileSource, reconcileKustomization, TypeOK
<1>3. DecidedKind(n)' = DecidedKind(n) /\ DecidedOn(n)' = DecidedOn(n)
  <2>1. \A g \in gates[n] : g.on \in Node \ {n}
    BY DEF VerdictInv, StaticInv, TypeOK, Gate
  <2>. QED BY <1>1, <2>1, DecisionStands
<1>4. VerdictOf(n)'
  <2>1. CASE n \in Source
    <3>1. reconcileSource(n, l) /\ DecidedKind(n) = "ok" /\ DecidedOn(n) = {}
      BY <1>0, <2>1, NoGatesPass DEF reconcile
    <3>2. CASE object[n] = "skip"
      <4>1. pc'[n] = "finishing" /\ (result'[n].kind = "blocked" \/ (result'[n].kind = "skipped" /\ result'[n].on = {}))
        BY <3>1, <3>2 DEF reconcileSource, Outcome, TypeOK
      <4>. QED BY <1>0, <3>2, <4>1 DEF VerdictOf, TruthKind, TruthOn
    <3>3. CASE object[n] # "skip"
      <4>1. pc'[n] = "rendering" /\ result'[n].kind = "ok" /\ result'[n].on = {}
        BY <3>1, <3>3 DEF reconcileSource, Outcome, TypeOK
      <4>. QED BY <1>0, <1>3, <3>1, <3>3, <4>1 DEF VerdictOf
    <3>. QED BY <3>2, <3>3
  <2>2. CASE n \notin Source
    <3>1. object[n] # "skip" /\ result'[n] = classify(n, l)
      BY <1>0, <2>2 DEF reconcile, reconcileKustomization, TypeOK
    <3>2. pc'[n] = IF classify(n, l).kind = "ok" THEN "rendering" ELSE "finishing"
      BY <2>2 DEF reconcile, reconcileKustomization, TypeOK
    <3>3. classify(n, l).kind # "blocked" =>
             classify(n, l).kind = DecidedKind(n) /\ classify(n, l).on = DecidedOn(n)
      BY DecidedEarly
    <3>4. CASE classify(n, l).kind = "ok"
      BY <1>0, <1>3, <3>1, <3>2, <3>3, <3>4, PassedIsPlain DEF VerdictOf
    <3>5. CASE classify(n, l).kind # "ok"
      BY <1>0, <1>3, <3>1, <3>2, <3>3, <3>5 DEF VerdictOf, TruthKind, TruthOn
    <3>. QED BY <3>4, <3>5
  <2>. QED BY <2>1, <2>2
<1>. QED BY <1>1, <1>2, <1>4

(* The steps that publish: the verdict of the resource itself is shown     *)
(* step by step, the others keep theirs.                                   *)
LEMMA OthersStand ==
    ASSUME VerdictInv, NEW n \in Node, VerdictOf(n)', NEW S, S \subseteq {n}, Invalidate(S),
           UNCHANGED <<gates, object>>,
           \A m \in Node \ {n} : /\ pc'[m] = pc[m] /\ result'[m] = result[m]
                                  /\ cond'[m] = cond[m] /\ recovering'[m] = recovering[m]
    PROVE  VerdictInv'
<1>1. StaticInv'
  BY DEF VerdictInv, StaticInv
<1>2. ASSUME NEW m \in Node, m # n PROVE VerdictOf(m)'
  <2>1. pc[m] \notin {"none", "runnable"} /\ valid'[m] =>
           /\ valid[m] /\ object'[m] = object[m]
           /\ DecidedKind(m)' = DecidedKind(m) /\ DecidedOn(m)' = DecidedOn(m)
    BY <1>2, ValidStands
  <2>. QED BY <1>2, <2>1, VerdictStands DEF VerdictInv
<1>. QED BY <1>1, <1>2 DEF VerdictInv

(* The steps that only move their own execution along.                     *)
LEMMA QuietStep ==
    ASSUME VerdictInv, NEW n \in Node, VerdictOf(n)', UNCHANGED <<gates, object, cond, content, recovering>>,
           \A m \in Node \ {n} : pc'[m] = pc[m] /\ result'[m] = result[m] /\ valid'[m] = valid[m]
    PROVE  VerdictInv'
<1>1. StaticInv'
  BY DEF VerdictInv, StaticInv
<1>2. ASSUME NEW m \in Node, m # n PROVE VerdictOf(m)'
  <2>1. DecidedKind(m)' = DecidedKind(m) /\ DecidedOn(m)' = DecidedOn(m)
    BY DecisionStands
  <2>. QED BY <1>2, <2>1, VerdictStands DEF VerdictInv
<1>. QED BY <1>1, <1>2 DEF VerdictInv

LEMMA VerdictStep == ASSUME TypeOK, VerdictInv, NEW n \in Node, Step(n) PROVE VerdictInv'
<1>0. VerdictOf(n) /\ (object[n] = "skip" => n \in Source)
  BY DEF VerdictInv, StaticInv
<1> USE DEF At, Goto, Decide
<1>1. CASE Dispatch(n)
  <2>1. /\ pc[n] = "runnable" /\ reconcile(n, DrainNone) /\ Invalidate({n})
        /\ UNCHANGED <<gates, object, content>>
        /\ \A m \in Node \ {n} : recovering'[m] = recovering[m]
    BY <1>1 DEF Dispatch, TypeOK
  <2>2. /\ VerdictOf(n)'
        /\ \A m \in Node \ {n} : pc'[m] = pc[m] /\ result'[m] = result[m] /\ cond'[m] = cond[m]
    <3>1. DrainNone \in DrainNone .. DrainForce
      BY DEF DrainNone, DrainForce
    <3>. QED BY <2>1, <3>1, ReconcileVerdict
  <2>. QED BY <2>1, <2>2, OthersStand
<1>2. ASSUME NEW l \in {DrainCascade, DrainForce}, Settle(n, l) PROVE VerdictInv'
  <2>1. /\ pc[n] \in {"cascading", "forcing"} /\ Invalidate({})
        /\ UNCHANGED <<gates, object, content, recovering>>
        /\ l \in DrainNone .. DrainForce
    BY <1>2 DEF Settle, SettlesAt, DrainNone, DrainCascade, DrainForce
  <2>2. /\ VerdictOf(n)'
        /\ \A m \in Node \ {n} : pc'[m] = pc[m] /\ result'[m] = result[m] /\ cond'[m] = cond[m]
    <3>1. CASE valid[n]
      BY <1>2, <2>1, <3>1, ReconcileVerdict DEF Settle
    <3>2. CASE ~valid[n]
      <4>1. pc' = [pc EXCEPT ![n] = "parked"] /\ UNCHANGED <<result, cond>>
        BY <1>2, <3>2 DEF Settle
      <4>2. pc'[n] = "parked" /\ \A m \in Node \ {n} : pc'[m] = pc[m]
        BY <4>1 DEF TypeOK
      <4>3. VerdictOf(n)'
        BY <1>0, <2>1, <4>2 DEF VerdictOf
      <4>. QED BY <4>1, <4>2, <4>3
    <3>. QED BY <3>1, <3>2
  <2>. QED BY <2>1, <2>2, OthersStand
<1>3. CASE InputsChanged(n)
  <2>1. /\ pc'[n] = "finishing" /\ ~valid'[n] /\ result'[n].kind = "changed"
        /\ object[n] # "none"
    BY <1>0, <1>3 DEF InputsChanged, VerdictOf, Outcome, TypeOK
  <2>2. VerdictOf(n)'
    BY <1>3, <2>1 DEF InputsChanged, VerdictOf
  <2>. QED BY <1>3, <2>2, QuietStep DEF InputsChanged, TypeOK
<1>4. CASE RenderFails(n)
  <2>1. pc'[n] = "finishing" /\ result'[n].kind = "failed" /\ result'[n].on = {} /\ object'[n] = "bad"
    BY <1>4 DEF RenderFails, Outcome, TypeOK
  <2>2. DecidedKind(n) = "ok" /\ DecidedOn(n) = {}
    BY <1>0, <1>4, PassedIsPlain DEF RenderFails, VerdictOf, DecidedKind, DecidedOn
  <2>3. DecidedKind(n)' = DecidedKind(n) /\ DecidedOn(n)' = DecidedOn(n)
    BY <1>4, DecisionStands DEF RenderFails
  <2>4. VerdictOf(n)'
    BY <2>1, <2>2, <2>3 DEF VerdictOf, TruthKind, TruthOn
  <2>. QED BY <1>4, <2>4, QuietStep DEF RenderFails, TypeOK
<1>5. CASE completeFetch(n) \/ admitRender(n) \/ Replay(n)
  <2>1. /\ pc[n] = "rendering" /\ valid[n] /\ Invalidate({})
        /\ UNCHANGED <<gates, object, result>>
    BY <1>5 DEF completeFetch, admitRender, Replay
  <2>2. \A m \in Node \ {n} : pc'[m] = pc[m] /\ cond'[m] = cond[m] /\ recovering'[m] = recovering[m]
    BY <1>5 DEF completeFetch, admitRender, Replay, setCondition, ReportApplying, TypeOK
  <2>3. /\ result[n].kind = "ok" /\ result[n].on = {} /\ object[n] \notin {"skip", "none"}
        /\ DecidedKind(n) = "ok" /\ DecidedOn(n) = {}
    BY <1>0, <2>1, PassedIsPlain DEF VerdictOf, DecidedKind, DecidedOn
  <2>4. valid'[n] => DecidedKind(n)' = DecidedKind(n) /\ DecidedOn(n)' = DecidedOn(n)
    BY <2>1, ValidStands
  <2>5. CASE completeFetch(n)
    <3>1. pc'[n] = "finishing" /\ object[n] = "good" /\ n \in Source
      BY <2>5 DEF completeFetch, TypeOK
    <3>2. VerdictOf(n)'
      BY <2>1, <2>3, <2>4, <3>1 DEF VerdictOf, TruthKind, TruthOn
    <3>. QED BY <2>1, <2>2, <3>2, OthersStand
  <2>6. CASE admitRender(n)
    <3>1. pc'[n] = "emitting" /\ cond'[n].status = "Pending"
      BY <2>6 DEF admitRender, setCondition, retainsFailure, Plain, TypeOK
    <3>2. VerdictOf(n)'
      BY <2>1, <2>3, <2>4, <3>1 DEF VerdictOf
    <3>. QED BY <2>1, <2>2, <3>2, OthersStand
  <2>7. CASE Replay(n)
    <3>1. pc'[n] = "finishing" /\ object[n] = "good" /\ recovering'[n]
      BY <2>7 DEF Replay, TypeOK
    <3>2. VerdictOf(n)'
      BY <2>1, <2>3, <2>4, <3>1 DEF VerdictOf, TruthKind, TruthOn
    <3>. QED BY <2>1, <2>2, <3>2, OthersStand
  <2>. QED BY <1>5, <2>5, <2>6, <2>7
<1>6. CASE Emit(n)
  <2>1. /\ pc[n] = "emitting" /\ valid[n] /\ object[n] = "good" /\ Invalidate({})
        /\ UNCHANGED <<gates, result>>
    BY <1>6 DEF Emit
  <2>2. \A k \in Node \ {n} : cond'[k] = cond[k] /\ recovering'[k] = recovering[k]
    BY <1>6 DEF Emit, ReportApplying, TypeOK
  <2>3. cond'[n].status = "Pending"
    <3>1. cond[n].status = "Pending"
      BY <1>0, <2>1 DEF VerdictOf
    <3>. QED BY <1>6, <3>1 DEF Emit, ReportApplying, Applying, TypeOK
  <2>4. /\ pc'[n] = "finishing"
        /\ \A k \in Node : object'[k] = object[k] \/ (object'[k] \in Verdict(k) /\ object'[k] # "none")
        /\ \A k \in Node \ {n} :
              \/ pc'[k] = pc[k] /\ (object'[k] = "none" <=> object[k] = "none")
              \/ pc'[k] = "runnable" /\ object'[k] # "none"
    <3>1. CASE UNCHANGED <<object, content, changes>> /\ Goto(n, "finishing")
      BY <3>1 DEF TypeOK
    <3>2. CASE ~(UNCHANGED <<object, content, changes>> /\ Goto(n, "finishing"))
      <4>1. PICK m \in Node, v \in {"good", "bad", "skip"} :
               /\ v \in Verdict(m) \ {object[m]}
               /\ object' = [object EXCEPT ![m] = v]
               /\ pc' = [pc EXCEPT ![m] = IF @ = "none" THEN "runnable" ELSE @, ![n] = "finishing"]
        BY <1>6, <3>2 DEF Emit
      <4>2. object[m] = "none" <=> pc[m] = "none"
        BY DEF VerdictInv, VerdictOf
      <4>. QED BY <4>1, <4>2 DEF TypeOK
    <3>. QED BY <3>1, <3>2
  <2>5. StaticInv'
    <3>1. \A k \in Node : object'[k] = "skip" => k \in Source
      BY <2>4 DEF VerdictInv, StaticInv, Verdict
    <3>. QED BY <2>1, <3>1 DEF VerdictInv, StaticInv
  <2>6. VerdictOf(n)'
    <3>1. result[n].kind = "ok" /\ result[n].on = {} /\ DecidedKind(n) = "ok" /\ DecidedOn(n) = {}
      BY <1>0, <2>1, PassedIsPlain DEF VerdictOf, DecidedKind, DecidedOn
    <3>2. valid'[n] => /\ object'[n] = object[n]
                       /\ DecidedKind(n)' = DecidedKind(n) /\ DecidedOn(n)' = DecidedOn(n)
      BY <2>1, ValidStands
    <3>3. object'[n] # "none"
      BY <2>1, <2>4
    <3>. QED BY <2>1, <2>3, <2>4, <3>1, <3>2, <3>3 DEF VerdictOf, TruthKind, TruthOn
  <2>7. ASSUME NEW k \in Node, k # n PROVE VerdictOf(k)'
    <3>1. CASE pc'[k] = "runnable" /\ object'[k] # "none"
      BY <3>1 DEF VerdictOf
    <3>2. CASE pc'[k] = pc[k] /\ (object'[k] = "none" <=> object[k] = "none")
      <4>1. pc[k] \notin {"none", "runnable"} /\ valid'[k] =>
               /\ valid[k] /\ object'[k] = object[k]
               /\ DecidedKind(k)' = DecidedKind(k) /\ DecidedOn(k)' = DecidedOn(k)
        BY <2>1, ValidStands
      <4>. QED BY <2>1, <2>2, <2>7, <3>2, <4>1, VerdictStands DEF VerdictInv
    <3>. QED BY <2>4, <2>7, <3>1, <3>2
  <2>. QED BY <2>5, <2>6, <2>7 DEF VerdictInv
<1>7. CASE Finish(n)
  <2>1. /\ pc[n] = "finishing"
        /\ pc'[n] = IF result[n].kind = "blocked" THEN "parked" ELSE IF valid[n] THEN "publishing" ELSE "terminal"
        /\ UNCHANGED <<gates, object, cond, content, result, valid, recovering>>
        /\ \A m \in Node \ {n} : pc'[m] = pc[m]
    BY <1>7 DEF Finish, TypeOK
  <2>2. DecidedKind(n)' = DecidedKind(n) /\ DecidedOn(n)' = DecidedOn(n)
    BY <2>1, DecisionStands
  <2>3. VerdictOf(n)'
    BY <1>0, <2>1, <2>2 DEF VerdictOf, TruthKind, TruthOn, Reported
  <2>. QED BY <2>1, <2>3, QuietStep
<1>8. CASE Publish(n)
  <2>1. /\ pc[n] = "publishing" /\ pc'[n] = "accepting" /\ Invalidate({})
        /\ UNCHANGED <<gates, object, result, recovering>>
    BY <1>8 DEF Publish, TypeOK
  <2>2. \A m \in Node \ {n} : pc'[m] = pc[m] /\ cond'[m] = cond[m]
    BY <1>8 DEF Publish, finishSuccess, finishFailure, setCondition, TypeOK
  <2>3. valid'[n] => valid[n] /\ DecidedKind(n)' = DecidedKind(n) /\ DecidedOn(n)' = DecidedOn(n)
    BY <2>1, ValidStands
  <2>4. result[n].kind # "blocked"
    BY <1>0, <2>1 DEF VerdictOf
  <2>5. Reported(n)'
    <3>1. CASE result[n].kind = "ok"
      <4>1. n \in Source \/ cond[n].status # "Failed" \/ recovering[n]
        BY <1>0, <2>1, <3>1 DEF VerdictOf
      <4>2. CASE cond[n].status = "Skipped" \/ (cond[n].status = "Failed" /\ ~recovering[n])
        BY <1>8, <2>1, <3>1, <4>1, <4>2 DEF Publish, finishSuccess, Reported
      <4>3. CASE ~(cond[n].status = "Skipped" \/ (cond[n].status = "Failed" /\ ~recovering[n]))
        <5>1. cond'[n] = Plain("Ready")
          BY <1>8, <3>1, <4>3 DEF Publish, finishSuccess, setCondition, retainsFailure, Plain, TypeOK
        <5>. QED BY <2>1, <3>1, <5>1 DEF Reported, Plain
      <4>. QED BY <4>2, <4>3
    <3>2. CASE result[n].kind = "skipped"
      <4>1. cond'[n] = Plain("Skipped")
        BY <1>8, <3>2 DEF Publish, finishFailure, setCondition, retainsFailure, Plain, TypeOK
      <4>. QED BY <2>1, <3>2, <4>1 DEF Reported, Plain
    <3>3. CASE result[n].kind \notin {"ok", "skipped"}
      <4>1. setCondition(n, [status |-> "Failed", failure |-> result[n].on, text |-> result[n].text])
        BY <1>8, <3>3 DEF Publish, finishFailure
      <4>2. cond'[n].status = "Failed" /\ cond'[n].failure = result[n].on
        BY <4>1 DEF setCondition, retainsFailure, TypeOK
      <4>. QED BY <2>1, <3>3, <4>2 DEF Reported
    <3>. QED BY <3>1, <3>2, <3>3
  <2>6. VerdictOf(n)'
    BY <1>0, <2>1, <2>3, <2>4, <2>5 DEF VerdictOf, TruthKind, TruthOn
  <2>. QED BY <2>1, <2>2, <2>6, OthersStand
<1>9. CASE Accept(n)
  <2>1. /\ pc[n] = "accepting" /\ pc'[n] = "terminal"
        /\ UNCHANGED <<gates, object, cond, content, result, valid, recovering>>
        /\ \A m \in Node \ {n} : pc'[m] = pc[m]
    BY <1>9 DEF Accept, TypeOK
  <2>2. DecidedKind(n)' = DecidedKind(n) /\ DecidedOn(n)' = DecidedOn(n)
    BY <2>1, DecisionStands
  <2>3. VerdictOf(n)'
    BY <1>0, <2>1, <2>2 DEF VerdictOf, TruthKind, TruthOn, Reported
  <2>. QED BY <2>1, <2>3, QuietStep
<1>10. CASE Requeue(n)
  <2>1. /\ pc[n] # "none" /\ pc'[n] = "runnable" /\ \A m \in Node \ {n} : pc'[m] = pc[m] /\ valid'[m] = valid[m]
        /\ UNCHANGED <<gates, object, cond, content, result, recovering>>
    BY <1>10 DEF Requeue, TypeOK
  <2>2. VerdictOf(n)'
    BY <1>0, <2>1 DEF VerdictOf
  <2>. QED BY <2>1, <2>2, QuietStep
<1>. QED BY <1>1, <1>2, <1>3, <1>4, <1>5, <1>6, <1>7, <1>8, <1>9, <1>10 DEF Step, DrainCascade, DrainForce

LEMMA VerdictEscalates == ASSUME TypeOK, VerdictInv, Escalate PROVE VerdictInv'
<1>1. UNCHANGED <<gates, object, cond, content, result, valid, recovering>>
  BY DEF Escalate
<1>2. StaticInv'
  BY <1>1 DEF VerdictInv, StaticInv
<1>3. ASSUME NEW n \in Node PROVE VerdictOf(n)'
  <2>1. DecidedKind(n)' = DecidedKind(n) /\ DecidedOn(n)' = DecidedOn(n)
    BY <1>1, DecisionStands
  <2>2. VerdictOf(n)
    BY DEF VerdictInv
  <2>3. CASE pc[n] = "parked"
    <3>1. pc'[n] \in {"cascading", "forcing"}
      BY <2>3 DEF Escalate, Parked, SettlesAt, TypeOK
    <3>. QED BY <1>1, <2>2, <2>3, <3>1 DEF VerdictOf
  <2>4. CASE pc[n] # "parked"
    <3>1. pc'[n] = pc[n]
      BY <2>4 DEF Escalate, Parked, TypeOK
    <3>. QED BY <1>1, <2>1, <2>2, <3>1, VerdictStands
  <2>. QED BY <2>3, <2>4
<1>. QED BY <1>2, <1>3 DEF VerdictInv

LEMMA VerdictUnchanged == ASSUME VerdictInv, UNCHANGED vars PROVE VerdictInv'
<1>1. UNCHANGED <<gates, object, cond, content, pc, result, valid, recovering>>
  BY DEF vars, execVars
<1>2. StaticInv'
  BY <1>1 DEF VerdictInv, StaticInv
<1>3. ASSUME NEW n \in Node PROVE VerdictOf(n)'
  <2>1. DecidedKind(n)' = DecidedKind(n) /\ DecidedOn(n)' = DecidedOn(n)
    BY <1>1, DecisionStands
  <2>. QED BY <1>1, <2>1, VerdictStands DEF VerdictInv
<1>. QED BY <1>2, <1>3 DEF VerdictInv

LEMMA VerdictInit == ASSUME Init PROVE VerdictInv
<1>1. StaticInv
  BY DEF Init, StaticInv, GatesOf, Verdict
<1>2. ASSUME NEW n \in Node PROVE VerdictOf(n)
  BY DEF Init, VerdictOf
<1>. QED BY <1>1, <1>2 DEF VerdictInv

LEMMA VerdictGives == ASSUME TypeOK, VerdictInv PROVE StatusIsVerdict
<1>1. SUFFICES ASSUME Converged, NEW n \in Node
               PROVE  \/ Agrees(n)
                      \/ /\ Due(n).status = "Ready"
                         /\ cond[n].status = "Skipped" \/ (n \in Source /\ cond[n].status = "Failed")
  BY DEF StatusIsVerdict
<1>2. VerdictOf(n)
  BY DEF VerdictInv
<1>3. CASE object[n] = "none"
  BY <1>2, <1>3 DEF VerdictOf, Agrees, Due
<1>4. CASE object[n] # "none"
  <2>1. pc[n] = "terminal" /\ valid[n]
    BY <1>1, <1>2, <1>4 DEF Converged, Settled, Parked, VerdictOf
  <2>2. /\ result[n].kind # "blocked" /\ Reported(n)
        /\ result[n].kind = TruthKind(n) /\ result[n].on = TruthOn(n)
    BY <1>2, <2>1 DEF VerdictOf
  <2>3. DecidedKind(n) \in {"ok", "skipped", "failed", "dependency"}
        /\ (DecidedKind(n) # "dependency" => DecidedOn(n) = {})
    BY <2>2, ForceUnblocks DEF DecidedKind, DecidedOn, classify, Outcome
  <2>4. CASE object[n] = "skip"
    BY <1>4, <2>2, <2>4 DEF TruthKind, TruthOn, Reported, Agrees, Due, Plain
  <2>5. CASE object[n] # "skip"
    BY <1>4, <2>2, <2>3, <2>5 DEF TruthKind, TruthOn, DecidedKind, DecidedOn, Reported, Agrees, Due, Plain
  <2>. QED BY <2>4, <2>5
<1>. QED BY <1>3, <1>4

(* Whatever the resources, the references between them and the order of    *)
(* their executions: when the run converges, each Ready condition is the   *)
(* one that the gates and the declaration call for, judged against the     *)
(* final store, except for a success that finds a condition in its way     *)
(* (Execution.finish).                                                     *)
THEOREM VerdictHolds == Spec => []StatusIsVerdict
<1>1. Init => VerdictInv
  BY VerdictInit
<1>2. TypeOK /\ VerdictInv /\ [Next]_vars => VerdictInv'
  BY VerdictStep, VerdictEscalates, VerdictUnchanged DEF Next
<1>3. TypeOK /\ VerdictInv => StatusIsVerdict
  BY VerdictGives
<1>. QED BY <1>1, <1>2, <1>3, TypeCorrect, PTL DEF Spec
=============================================================================
