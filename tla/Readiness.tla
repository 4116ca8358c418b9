----------------------------- MODULE Readiness -----------------------------
(***************************************************************************)
(* How the Ready conditions of a run come about: the gates an execution    *)
(* classifies from its captured reads (pkg/depwait, Execution.classify),   *)
(* what its reconcile publishes, and how Execution.finish and the store    *)
(* turn the outcome into a condition that other executions have captured   *)
(* and react to.  A resource is a source, which acquires content, or a     *)
(* Kustomization, which waits for others, renders and emits declarations.  *)
(* Of the scheduler (module Scheduler) only its effect is kept: an         *)
(* assessment that is not valid is dispatched again, at DrainNone, which   *)
(* takes the drain level back to DrainNone, and when nothing runs and      *)
(* every assessment is valid the level rises and the parked executions are *)
(* settled at it.                                                          *)
(***************************************************************************)
EXTENDS Integers, FiniteSets

CONSTANTS Node,        \* the resources, in the order of NamedResource.Compare
          Source,      \* the ones that acquire content; the others render
          MaxGates,    \* bound: references a Kustomization declares
          MaxChanges   \* bound: declarations that emissions add or change

ASSUME NodeAssumption == Node \subseteq Nat /\ IsFiniteSet(Node) /\ Source \subseteq Node
ASSUME BoundAssumption == MaxGates \in Nat /\ MaxChanges \in Nat

VARIABLES gates,       \* the references each resource declares
          object,      \* its declaration: absent, or what reconciling it comes to
          cond,        \* its Ready condition
          content,     \* the artifact of a source, current or made from stale reads
          level,       \* the drain level of Scheduler.Run
          pc,          \* where its execution is
          result,      \* the outcome the execution has come to
          valid,       \* Reads.Valid of the execution
          accepted,    \* an assessment of it was accepted
          recovering,  \* Execution.recovering
          rendered,    \* an output with a fingerprint to replay is accepted
          changes      \* declarations changed so far

execVars == <<pc, result, accepted, recovering, rendered>>
vars == <<gates, object, cond, content, level, execVars, valid, changes>>

\* The largest of a set of numbers, 0 when there is none.
Largest(S) == IF \E x \in S : \A y \in S : y <= x THEN CHOOSE x \in S : \A y \in S : y <= x ELSE 0
Least(S) == CHOOSE x \in S : \A y \in S : x <= y

DrainNone == 0
DrainCascade == 1
DrainForce == 2

\* readyExpr: the reference has a CEL expression to wait for.
Gate == [on : Node, readyExpr : BOOLEAN]

Condition == [status : {"none", "Pending", "Ready", "Skipped", "Failed"}, failure : SUBSET Node, text : Nat]

\* The condition with the given status that no dependency failure explains.
Plain(s) == [status |-> s, failure |-> {}, text |-> 0]

\* ApplyingStatus: its message tells it from the other pending conditions.
Applying == [status |-> "Pending", failure |-> {}, text |-> 1]

Result == [kind : {"ok", "blocked", "skipped", "failed", "dependency", "changed"}, on : SUBSET Node,
           text : Nat]

Outcome(k) == [kind |-> k, on |-> {}, text |-> 0]

\* The place of an execution whose Settle the scheduler has started at level l.
SettlesAt(l) == IF l = DrainCascade THEN "cascading" ELSE "forcing"

Places == {"none", "runnable", "rendering", "emitting", "finishing", "publishing", "accepting", "parked",
           "cascading", "forcing", "terminal"}

TypeOK ==
    /\ gates \in [Node -> SUBSET Gate]
    /\ object \in [Node -> {"none", "good", "bad", "skip"}]
    /\ cond \in [Node -> Condition]
    /\ content \in [Node -> {"none", "current", "stale"}]
    /\ level \in DrainNone .. DrainForce
    /\ pc \in [Node -> Places]
    /\ result \in [Node -> Result]
    /\ valid \in [Node -> BOOLEAN]
    /\ accepted \in [Node -> BOOLEAN]
    /\ recovering \in [Node -> BOOLEAN]
    /\ rendered \in [Node -> BOOLEAN]
    /\ changes \in 0 .. MaxChanges

\* What the declaration of a resource may come to: "skip" is a source whose
\* Secret is missing and may be skipped.
Verdict(n) == IF n \in Source THEN {"good", "bad", "skip"} ELSE {"good", "bad"}

\* Kustomizations wait for others, not for themselves; a sourceRef has no readyExpr.
GatesOf(n) ==
    {G \in SUBSET Gate : /\ Cardinality(G) <= MaxGates
                         /\ G # {} => n \notin Source
                         /\ \A g \in G : g.on # n /\ (g.on \in Source => ~g.readyExpr)
                         /\ \A g, h \in G : g.on = h.on => g = h}

Init ==
    /\ gates \in {G \in [Node -> SUBSET Gate] : \A n \in Node : G[n] \in GatesOf(n)}
    /\ object \in {o \in [Node -> {"none", "good", "bad", "skip"}] :
                      \A n \in Node : o[n] \in Verdict(n) \cup {"none"}}
    /\ pc = [n \in Node |-> IF object[n] = "none" THEN "none" ELSE "runnable"]
    /\ cond = [n \in Node |-> Plain("none")]
    /\ content = [n \in Node |-> "none"]
    /\ level = DrainNone
    /\ result = [n \in Node |-> Outcome("ok")]
    /\ valid = [n \in Node |-> TRUE]
    /\ accepted = [n \in Node |-> FALSE]
    /\ recovering = [n \in Node |-> FALSE]
    /\ rendered = [n \in Node |-> FALSE]
    /\ changes = 0
-----------------------------------------------------------------------------
(* Waiter.Classify: what one gate says of the resource it is on            *)

\* evaluateReadyExpr, for an expression that asks for the Ready status.
Expression(m) == cond[m].status = "Ready"

artifactReady(m, l) ==
    IF m \notin Source THEN "ready"
    ELSE IF cond[m].status = "Skipped" THEN "skipped"
    ELSE IF content[m] # "none" THEN "ready"
    ELSE IF l >= DrainCascade THEN "missing" ELSE "blocked"

classifyAbsent(l) == IF l < DrainCascade THEN "blocked" ELSE "failed"

\* A mutant: a resource that never becomes ready is waited for at every level.
classifyPatiently(g, l) ==
    IF ~g.readyExpr /\ cond[g.on].status \in {"Ready", "Skipped"} THEN artifactReady(g.on, l)
    ELSE IF cond[g.on].status = "Failed" THEN "failed"
    ELSE IF g.readyExpr /\ l >= DrainCascade THEN "failed" ELSE "blocked"

classifyPresent(g, l) ==
    IF ~g.readyExpr /\ cond[g.on].status \in {"Ready", "Skipped"} THEN artifactReady(g.on, l)
    ELSE IF cond[g.on].status = "Failed" THEN "failed"
    ELSE IF l >= (IF g.readyExpr THEN DrainCascade ELSE DrainForce) THEN "failed" ELSE "blocked"

Classify(g, l) ==
    IF object[g.on] = "none" THEN classifyAbsent(l)
    ELSE IF g.readyExpr /\ Expression(g.on) THEN artifactReady(g.on, l)
    ELSE classifyPresent(g, l)

\* How deep the diagnostic of a failure on F nests the ones it quotes.
Nesting(F) ==
    1 + Largest({cond[m].text : m \in {k \in F : cond[k].failure # {}}})

\* The resources whose gate says one of the given things.
Saying(n, l, s) == {g.on : g \in {h \in gates[n] : Classify(h, l) \in s}}

\* Execution.classify: a blocked gate outranks an error, an error a failure.
classify(n, l) ==
    LET causes == Saying(n, l, {"skipped", "missing"})
        failed == Saying(n, l, {"failed"})
    IN  IF Saying(n, l, {"blocked"}) # {} THEN Outcome("blocked")
        ELSE IF causes # {} THEN
            IF Least(causes) \in Saying(n, l, {"skipped"}) THEN Outcome("skipped") ELSE Outcome("failed")
        ELSE IF failed # {} THEN [kind |-> "dependency", on |-> failed, text |-> Nesting(failed)]
        ELSE Outcome("ok")
-----------------------------------------------------------------------------
(* The store                                                               *)

\* An unchanged set of blockers keeps its first diagnostic.
retainsFailure(old, new) ==
    new.failure # {} /\ new.failure = old.failure /\ new.status = old.status

setCondition(n, new) ==
    cond' = [cond EXCEPT ![n] = IF retainsFailure(@, new) THEN @ ELSE new]

\* The first status of a resource; a later one is left as it is.
SetPendingUnlessReady(n) ==
    IF cond[n].status = "none" THEN setCondition(n, Plain("Pending")) ELSE UNCHANGED cond

\* A mutant: a new condition does not move the authority readers captured.
InvalidateObjects(fresh) ==
    valid' = [n \in Node |->
                 \/ n \in fresh
                 \/ pc[n] \in {"none", "runnable"}
                 \/ /\ valid[n]
                    /\ object'[n] = object[n]
                    /\ \A g \in gates[n] : object'[g.on] = object[g.on]]

\* The executions that captured what a step has moved are no longer valid,
\* except for the fresh ones, whose capture comes after it.
Invalidate(fresh) ==
    valid' = [n \in Node |->
                 \/ n \in fresh
                 \/ pc[n] \in {"none", "runnable"}
                 \/ /\ valid[n]
                    /\ object'[n] = object[n]
                    /\ \A g \in gates[n] : /\ object'[g.on] = object[g.on]
                                           /\ cond'[g.on] = cond[g.on]
                                           /\ content'[g.on] = content[g.on]]
-----------------------------------------------------------------------------
(* One execution                                                           *)

At(n, place) == pc[n] = place
Goto(n, place) == pc' = [pc EXCEPT ![n] = place]
Decide(n, r) == result' = [result EXCEPT ![n] = r]

\* The reconcile of a source up to its fetch: a missing Secret blocks while
\* a render may still provide it, and is settled at the first boundary.
reconcileSource(n, l) ==
    \/ /\ object[n] = "skip" /\ l = DrainNone
       /\ Decide(n, Outcome("blocked")) /\ setCondition(n, Plain("Pending")) /\ Goto(n, "finishing")
    \/ /\ object[n] = "skip" /\ l # DrainNone
       /\ Decide(n, Outcome("skipped")) /\ UNCHANGED cond /\ Goto(n, "finishing")
    \/ /\ object[n] # "skip"
       /\ Decide(n, Outcome("ok")) /\ Goto(n, "rendering")
       /\ IF content[n] = "current" THEN UNCHANGED cond ELSE SetPendingUnlessReady(n)

\* The reconcile of a Kustomization up to its render.
reconcileKustomization(n, l) ==
    LET r == classify(n, l) IN
    /\ Decide(n, r)
    /\ IF gates[n] = {} THEN UNCHANGED cond ELSE SetPendingUnlessReady(n)
    /\ Goto(n, IF r.kind = "ok" THEN "rendering" ELSE "finishing")

reconcile(n, l) == IF n \in Source THEN reconcileSource(n, l) ELSE reconcileKustomization(n, l)

\* Only what is no longer valid is dispatched again, so that an assessment
\* accepted before is a stale one.
ReplacesInvalid(n) == accepted[n]

\* dispatchNextLocked and Execution.Dispatch: work in the run queue takes the
\* scheduler back to DrainNone, where every dispatch reconciles.
Dispatch(n) ==
    /\ At(n, "runnable")
    /\ recovering' = [recovering EXCEPT ![n] = \/ cond[n].failure # {}
                                               \/ cond[n].status = "Failed" /\ ReplacesInvalid(n)]
    /\ level' = DrainNone
    /\ reconcile(n, DrainNone)
    /\ UNCHANGED <<gates, object, content, accepted, rendered, changes>>
    /\ Invalidate({n})

\* Execution.Settle reconciles again from the reads it holds, at the level it
\* was started with.
Settle(n, l) ==
    /\ At(n, SettlesAt(l))
    /\ IF valid[n] THEN reconcile(n, l) ELSE Goto(n, "parked") /\ UNCHANGED <<result, cond>>
    /\ UNCHANGED <<gates, object, content, level, accepted, recovering, rendered, changes>>
    /\ Invalidate({})

\* Checkpoint fails: the execution ends without publishing.
InputsChanged(n) ==
    /\ pc[n] \in {"rendering", "emitting"} /\ ~valid[n]
    /\ Decide(n, Outcome("changed")) /\ Goto(n, "finishing")
    /\ UNCHANGED <<gates, object, cond, content, level, valid, accepted, recovering, rendered, changes>>

\* The fetch or the render fails, or what was rendered cannot be shaped.
RenderFails(n) ==
    /\ pc[n] \in {"rendering", "emitting"} /\ valid[n] /\ object[n] = "bad"
    /\ Decide(n, Outcome("failed")) /\ Goto(n, "finishing")
    /\ UNCHANGED <<gates, object, cond, content, level, valid, accepted, recovering, rendered, changes>>

\* completeFetch stores the artifact with the reads it was made from.
completeFetch(n) ==
    /\ At(n, "rendering") /\ valid[n] /\ n \in Source /\ object[n] = "good"
    /\ content' = [content EXCEPT ![n] = "current"]
    /\ Goto(n, "finishing")
    /\ UNCHANGED <<gates, object, cond, level, result, accepted, recovering, rendered, changes>>
    /\ Invalidate({})

\* A render that is not a replay is reported as pending whatever was before.
admitRender(n) ==
    /\ At(n, "rendering") /\ valid[n] /\ n \notin Source
    /\ IF cond[n].status = "Pending" THEN UNCHANGED cond ELSE setCondition(n, Plain("Pending"))
    /\ Goto(n, "emitting")
    /\ UNCHANGED <<gates, object, content, level, result, accepted, recovering, rendered, changes>>
    /\ Invalidate({})

\* A complete emission of a pending resource counts the objects it applies.
ReportApplying(n) ==
    cond' = [cond EXCEPT ![n] = IF @.status = "Pending" THEN Applying ELSE @]

\* FingerprintDedup: an output accepted before is emitted again.
Replay(n) ==
    /\ At(n, "rendering") /\ valid[n] /\ n \notin Source /\ object[n] = "good" /\ rendered[n]
    /\ recovering' = [recovering EXCEPT ![n] = TRUE]
    /\ ReportApplying(n)
    /\ Goto(n, "finishing")
    /\ UNCHANGED <<gates, object, content, level, result, accepted, rendered, changes>>
    /\ Invalidate({})

\* Execution.Emit publishes the declarations it rendered, at most one of them
\* new or changed; a complete emission that is still valid is a recovery.
Emit(n) ==
    /\ At(n, "emitting") /\ valid[n] /\ object[n] = "good"
    /\ \/ UNCHANGED <<object, content, changes>> /\ Goto(n, "finishing")
       \/ /\ changes < MaxChanges
          /\ \E m \in Node, v \in {"good", "bad", "skip"} :
                /\ v \in Verdict(m) \ {object[m]}
                /\ object' = [object EXCEPT ![m] = v]
                /\ content' = [content EXCEPT ![m] = IF @ = "current" THEN "stale" ELSE @]
                /\ pc' = [pc EXCEPT ![m] = IF @ = "none" THEN "runnable" ELSE @, ![n] = "finishing"]
          /\ changes' = changes + 1
    /\ ReportApplying(n)
    /\ UNCHANGED <<gates, level, result, accepted>>
    /\ Invalidate({})
    /\ recovering' = [recovering EXCEPT ![n] = @ \/ valid'[n]]
    /\ rendered' = [rendered EXCEPT ![n] = TRUE]
-----------------------------------------------------------------------------
(* Execution.finish                                                        *)

\* An execution whose inputs moved publishes nothing; a blocked one is
\* accepted as it is.
Finish(n) ==
    /\ At(n, "finishing")
    /\ Goto(n, IF result[n].kind = "blocked" THEN "parked" ELSE IF valid[n] THEN "publishing" ELSE "terminal")
    /\ accepted' = [accepted EXCEPT ![n] = @ \/ (valid[n] /\ result[n].kind = "blocked")]
    /\ UNCHANGED <<gates, object, cond, content, level, result, valid, recovering, rendered, changes>>

\* A success is reported unless a condition is in its way: a failure this
\* execution does not recover from, or a Ready one with another outcome.
finishSuccess(n) ==
    /\ IF cond[n].status = "Skipped" \/ (cond[n].status = "Failed" /\ ~recovering[n])
       THEN UNCHANGED cond
       ELSE setCondition(n, Plain("Ready"))
    /\ UNCHANGED content

\* A failure withdraws an artifact that is skipped or stale.
finishFailure(n) ==
    /\ content' = [content EXCEPT ![n] = IF result[n].kind = "skipped" \/ @ = "stale" THEN "none" ELSE @]
    /\ setCondition(n, IF result[n].kind = "skipped" THEN Plain("Skipped")
                       ELSE [status |-> "Failed", failure |-> result[n].on, text |-> result[n].text])

Publish(n) ==
    /\ At(n, "publishing")
    /\ IF result[n].kind = "ok" THEN finishSuccess(n) ELSE finishFailure(n)
    /\ Goto(n, "accepting")
    /\ UNCHANGED <<gates, object, level, result, accepted, recovering, rendered, changes>>
    /\ Invalidate({})

\* ReadSet.Accept refuses reads that moved since.
Accept(n) ==
    /\ At(n, "accepting")
    /\ accepted' = [accepted EXCEPT ![n] = @ \/ valid[n]]
    /\ Goto(n, "terminal")
    /\ UNCHANGED <<gates, object, cond, content, level, result, valid, recovering, rendered, changes>>
-----------------------------------------------------------------------------
(* The scheduler                                                           *)

\* A mutant: what waits is left to the next level even when its inputs move.
RequeueTerminal(n) ==
    /\ pc[n] = "terminal" /\ ~valid[n]
    /\ Goto(n, "runnable")
    /\ UNCHANGED <<gates, object, cond, content, level, result, accepted, recovering, rendered, changes>>
    /\ valid' = [valid EXCEPT ![n] = TRUE]

Requeue(n) ==
    /\ pc[n] \in {"parked", "terminal"} /\ ~valid[n]
    /\ Goto(n, "runnable")
    /\ UNCHANGED <<gates, object, cond, content, level, result, accepted, recovering, rendered, changes>>
    /\ valid' = [valid EXCEPT ![n] = TRUE]

Settled == \A n \in Node : pc[n] = "none" \/ (pc[n] \in {"parked", "terminal"} /\ valid[n])

Parked == {n \in Node : pc[n] = "parked"}

Escalate ==
    /\ Settled /\ Parked # {} /\ level < DrainForce
    /\ level' = level + 1
    /\ pc' = [n \in Node |-> IF n \in Parked THEN SettlesAt(level') ELSE pc[n]]
    /\ UNCHANGED <<gates, object, cond, content, result, valid, accepted, recovering, rendered, changes>>

Converged == Settled /\ Parked = {}

Step(n) ==
    \/ Dispatch(n) \/ Settle(n, DrainCascade) \/ Settle(n, DrainForce)
    \/ InputsChanged(n) \/ RenderFails(n) \/ completeFetch(n) \/ admitRender(n)
    \/ Replay(n) \/ Emit(n) \/ Finish(n) \/ Publish(n) \/ Accept(n) \/ Requeue(n)

Next == (\E n \in Node : Step(n)) \/ Escalate \/ (Converged /\ UNCHANGED vars)

Spec == Init /\ [][Next]_vars

\* Every queued execution gets a worker, and the scheduler runs.
FairSpec == Spec /\ WF_vars(Escalate) /\ \A n \in Node : WF_vars(Step(n))
-----------------------------------------------------------------------------
\* The condition that the final declarations and conditions call for.
Due(n) ==
    LET r == classify(n, DrainForce) IN
    IF object[n] = "none" THEN Plain("none")
    ELSE IF object[n] = "skip" \/ r.kind = "skipped" THEN Plain("Skipped")
    ELSE IF r.kind = "dependency" THEN [status |-> "Failed", failure |-> r.on, text |-> r.text]
    ELSE Plain(IF object[n] = "good" /\ r.kind = "ok" THEN "Ready" ELSE "Failed")

Agrees(n) == cond[n].status = Due(n).status /\ cond[n].failure = Due(n).failure

(* When the run converges, the condition of every resource is the one its  *)
(* gates and its declaration call for, judged against the final store:     *)
(* whatever order things happened in, no failure outlives its cause, no    *)
(* Ready outlives its inputs, and a dependency failure names exactly the   *)
(* gates that fail.  Left out is a success that finds a condition in its   *)
(* way: see finishSuccess and SkipIsLifted.                                *)
StatusIsVerdict ==
    Converged => \A n \in Node :
        \/ Agrees(n)
        \/ /\ Due(n).status = "Ready"
           /\ cond[n].status = "Skipped" \/ (n \in Source /\ cond[n].status = "Failed")

(* A source that was skipped for a missing Secret and is acquired after    *)
(* the Secret arrived is not reported as skipped any more, or the          *)
(* resources that need its content would be skipped with it                *)
(* (controller_owns_excludes_foreign_kind_internal_test.go 131 and 137:    *)
(* "source must finish after the Secret arrives", "want Ready without a    *)
(* skip").                                                                 *)
SkipIsLifted ==
    Converged => \A n \in Source : object[n] = "good" => cond[n].status # "Skipped"

(* The gates decide at the last level: what is parked at DrainForce, until *)
(* a dispatch takes the level back, only waits to run again on inputs that *)
(* moved.  The scheduler's run ends without unresolved resources because   *)
(* of it.                                                                  *)
GatesDecide == level = DrainForce => \A n \in Parked : ~valid[n]

(* The conditions settle: the reactions of executions to each other's      *)
(* conditions come to an end, although every redispatch starts at          *)
(* DrainNone again, may park and has to climb through the levels anew, and *)
(* without help from the redispatch budget.                                *)
Converges == <>Converged
=============================================================================
