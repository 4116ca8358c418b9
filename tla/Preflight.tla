----------------------------- MODULE Preflight -----------------------------
(***************************************************************************)
(* pkg/orchestrator/cycles.go and Execution.Init: how the cycles that      *)
(* DependencyGraph finds become structural admission failures.  The        *)
(* EventObjectAdded listener of run.go runs on every publishing goroutine: *)
(* it replaces the edges, takes a snapshot of the failures, installs it in *)
(* preflightFailures and copies it to the store, one lock at a time.  Each *)
(* Execution copies its own entry to the store once more.                  *)
(* A message is the path it prints; << >> is the empty string, and <<n>>   *)
(* is the message of the entry binding that failed for producer n.         *)
(***************************************************************************)
EXTENDS DependencyGraph

CONSTANTS Publisher,       \* the goroutines that publish objects
          EntryFailed,     \* {} or the producer whose entry binding failed
          Executed,        \* the resources the scheduler dispatches
          MaxPublications  \* bound: how many objects are published

ASSUME PreflightAssumption == EntryFailed \subseteq Node /\ Executed \subseteq Node

VARIABLES declared,   \* the same-kind dependsOn of each reconcilable stored object
          pc, id, deps, snapshot,  \* each publisher's listener
          writes,     \* the SetPreflight calls each listener has still to make
          preflightFailures,       \* Orchestrator.preflightFailures
          admission,  \* objectCell.preflight in the store
          initialising,  \* what each Execution.Init in progress has read
          published

vars == <<graph, declared, pc, id, deps, snapshot, writes, preflightFailures, admission,
          initialising, published>>

Idle == <<0>>   \* no Execution.Init is in progress

messages(F) == [n \in DOMAIN F \cup EntryFailed |-> IF n \in DOMAIN F THEN F[n] ELSE <<n>>]

message(F, n) == IF n \in DOMAIN F THEN F[n] ELSE << >>

\* What a graph built at once from the stored declarations reports.
Canonical == revalidateFailed(declared, [n \in {m \in Node : OnCycle(declared, m)} |-> << >>])

\* The state failDependsOnCycles leaves when bootstrap completes.
PreflightInit ==
    /\ declared \in [Node -> Deps]
    /\ outEdges = declared
    /\ failed = Canonical
    /\ preflightFailures = messages(failed)
    /\ admission = [n \in Node |-> message(preflightFailures, n)]
    /\ pc = [p \in Publisher |-> "idle"]
    /\ id \in [Publisher -> {Least(Node)}]
    /\ deps = [p \in Publisher |-> {}]
    /\ snapshot = [p \in Publisher |-> << >>]
    /\ writes = [p \in Publisher |-> << >>]
    /\ initialising = [n \in Node |-> Idle]
    /\ published = 0

Goto(p, from, to) == pc[p] = from /\ pc' = [pc EXCEPT ![p] = to]

\* A declaration is published and its event dispatched without the lock.
Publish(p, n, targets) ==
    /\ Goto(p, "idle", "lookup")
    /\ published < MaxPublications
    /\ published' = published + 1
    /\ declared' = [declared EXCEPT ![n] = targets]
    /\ id' = [id EXCEPT ![p] = n]
    /\ UNCHANGED <<graph, deps, snapshot, writes, preflightFailures, admission, initialising>>

Lookup(p) ==
    /\ Goto(p, "lookup", "replace")
    /\ deps' = [deps EXCEPT ![p] = declared[id[p]]]
    /\ UNCHANGED <<graph, declared, id, snapshot, writes, preflightFailures, admission, initialising,
                   published>>

Replace(p) ==
    /\ Goto(p, "replace", "failures")
    /\ ReplaceEdges(id[p], deps[p])
    /\ UNCHANGED <<declared, id, deps, snapshot, writes, preflightFailures, admission, initialising,
                   published>>

Failures(p) ==
    /\ Goto(p, "failures", "install")
    /\ snapshot' = [snapshot EXCEPT ![p] = messages(failed)]
    /\ UNCHANGED <<graph, declared, id, deps, writes, preflightFailures, admission, initialising, published>>

\* A mutant: the new failures join the old ones.
mergePreflightFailures(p) ==
    /\ Goto(p, "install", "writing")
    /\ preflightFailures' = [n \in DOMAIN preflightFailures \cup DOMAIN snapshot[p] |->
                                IF n \in DOMAIN snapshot[p] THEN snapshot[p][n] ELSE preflightFailures[n]]
    /\ writes' = [writes EXCEPT ![p] = snapshot[p]]
    /\ UNCHANGED <<graph, declared, id, deps, snapshot, admission, initialising, published>>

\* A mutant: the resources that left the map are not cleared in the store.
replaceWithoutCleared(p) ==
    /\ Goto(p, "install", "writing")
    /\ preflightFailures' = snapshot[p]
    /\ writes' = [writes EXCEPT ![p] = snapshot[p]]
    /\ UNCHANGED <<graph, declared, id, deps, snapshot, admission, initialising, published>>

\* The map is replaced under preflightMu; what left it is to be cleared.
replacePreflightFailures(p) ==
    /\ Goto(p, "install", "writing")
    /\ preflightFailures' = snapshot[p]
    /\ writes' = [writes EXCEPT ![p] =
                     [n \in DOMAIN snapshot[p] \cup DOMAIN preflightFailures |-> message(snapshot[p], n)]]
    /\ UNCHANGED <<graph, declared, id, deps, snapshot, admission, initialising, published>>

\* Store.SetPreflight for one failure, in map order, or then for a cleared id.
SetPreflight(p, n) ==
    /\ pc[p] = "writing"
    /\ n \in DOMAIN writes[p]
    /\ writes[p][n] = << >> => \A m \in DOMAIN writes[p] : writes[p][m] = << >>
    /\ admission' = [admission EXCEPT ![n] = writes[p][n]]
    /\ writes' = [writes EXCEPT ![p] = [m \in DOMAIN @ \ {n} |-> @[m]]]
    /\ UNCHANGED <<graph, declared, pc, id, deps, snapshot, preflightFailures, initialising, published>>

\* The listener returns, and the next one admits the object to the scheduler.
Return(p) ==
    /\ DOMAIN writes[p] = {}
    /\ Goto(p, "writing", "idle")
    /\ UNCHANGED <<graph, declared, id, deps, snapshot, writes, preflightFailures, admission, initialising,
                   published>>

\* Execution.Init reads preflightFailures and then writes the store.
ReadPreflight(n) ==
    /\ initialising[n] = Idle
    /\ initialising' = [initialising EXCEPT ![n] = message(preflightFailures, n)]
    /\ UNCHANGED <<graph, declared, pc, id, deps, snapshot, writes, preflightFailures, admission, published>>

WritePreflight(n) ==
    /\ initialising[n] # Idle
    /\ admission' = [admission EXCEPT ![n] = initialising[n]]
    /\ initialising' = [initialising EXCEPT ![n] = Idle]
    /\ UNCHANGED <<graph, declared, pc, id, deps, snapshot, writes, preflightFailures, published>>

Listen(p) ==
    \/ Lookup(p) \/ Replace(p) \/ Failures(p) \/ replacePreflightFailures(p) \/ Return(p)
    \/ \E n \in Node : SetPreflight(p, n)

Finished ==
    /\ published = MaxPublications /\ \A p \in Publisher : pc[p] = "idle"
    /\ UNCHANGED vars

PreflightNext ==
    \/ \E p \in Publisher : Listen(p) \/ \E n \in Node, targets \in Deps : Publish(p, n, targets)
    \/ \E n \in Executed : ReadPreflight(n) \/ WritePreflight(n)
    \/ Finished

PreflightSpec == PreflightInit /\ [][PreflightNext]_vars
-----------------------------------------------------------------------------
NoListener == \A p \in Publisher : pc[p] = "idle"

(* Once every listener has returned, the failures the orchestrator holds   *)
(* are the cycles of the graph: the objects have been admitted by then and *)
(* no later event will correct them (run.go 172: "Cycle failures MUST      *)
(* publish before scheduler admission of emitted objects").                *)
FailuresInstalled == NoListener => preflightFailures = messages(failed)

(* The store then reports, for every resource, what a search of the stored *)
(* declarations themselves would find: no publication missed the graph,    *)
(* each failure was written and each one that left the map was cleared.  A *)
(* resource whose Execution.Init runs beside the listener is left out: its *)
(* write may come last.                                                    *)
FailuresPublished ==
    NoListener => \A n \in Node \ Executed : admission[n] = message(messages(Canonical), n)
=============================================================================
