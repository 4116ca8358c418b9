-------------------------- MODULE DependencyGraph --------------------------
(***************************************************************************)
(* pkg/orchestrator/depgraph.go: the dependsOn edges of Kustomizations and *)
(* HelmReleases, and the resources known to be on a cycle with the path    *)
(* reported for each.  ReplaceEdges maintains both incrementally under     *)
(* dependencyGraph.mu, so one call is one step.                            *)
(***************************************************************************)
EXTENDS Naturals, FiniteSets, Sequences, SequencesExt

\* The resources.  NamedResource.Compare is the order of the numbers.
CONSTANTS Node,
          MaxDeps    \* bound: how many targets one dependsOn lists

ASSUME NodeAssumption == Node \subseteq Nat /\ IsFiniteSet(Node)

VARIABLES outEdges,  \* dependencyGraph.outEdges; {} where the map has no entry
          failed     \* dependencyGraph.failed: cycle members and their paths

graph == <<outEdges, failed>>

Init ==
    /\ outEdges = [n \in Node |-> {}]
    /\ failed = << >>
-----------------------------------------------------------------------------
(* Traversals of an edge map E.                                            *)

Least(S) == CHOOSE m \in S : \A n \in S : m <= n

\* A node without out-edges is on no cycle; every traversal stops before it.
Inner(E) == {n \in Node : E[n] # {}}

\* What a breadth-first queue that starts with S visits: the least set that
\* holds S and, with a node, its targets.
Closed(E, T) == \A n \in T : E[n] \subseteq T

Closure(E, S) == {n \in Node : \A T \in SUBSET Node : S \subseteq T /\ Closed(E, T) => n \in T}

Within(E, S) == [n \in Node |-> IF n \in S THEN E[n] \cap S ELSE {}]

Reversed(E) == [n \in Node |-> {m \in Node : n \in E[m]}]

\* Does an edge of id that old did not have lead back to id?
closesCycle(E, id, old) ==
    LET fresh == (E[id] \ old) \cap Inner(E)
    IN \/ id \in fresh
       \/ \E q \in Closure(Within(E, Inner(E)), fresh) : id \in E[q]

\* A mutant: only the resource whose edges changed is recorded.
markOnlyTheSource(E, id) == {id}

\* The nodes reachable from id that reach id.
cycleMembers(E, id) ==
    LET reachable == Closure(Within(E, Inner(E)), {id})
    IN Closure(Reversed(Within(E, reachable)), {id})

\* One iteration of the depth-first search in NamedResource order.  A node has
\* one frame on the stack at most: s.todo holds the children it has still to try.
iterate(s, start, target) ==
    LET top   == Last(s.stack)
        next  == Least(s.todo[top])
        tried == [s EXCEPT !.todo[top] = @ \ {next}]
    IN CASE s.path # << >> \/ s.stack = << >> -> s
         [] OTHER ->
              CASE s.todo[top] = {} -> [s EXCEPT !.stack = Front(@)]
                [] s.todo[top] # {} /\ next = target -> [s EXCEPT !.path = Append(s.stack, target)]
                [] s.todo[top] # {} /\ next # target /\ next \in s.visited \cup {start} -> tried
                [] OTHER -> [tried EXCEPT !.stack = Append(@, next), !.visited = @ \cup {next}]

\* The search after each number of iterations.
search(E, start, target) ==
    LET loop[k \in Nat] ==
            IF k = 0 THEN [stack |-> <<start>>, todo |-> E, visited |-> {}, path |-> << >>]
            ELSE iterate(loop[k - 1], start, target)
    IN loop

\* Every node is popped once at most, and every edge tried once at most.
Iterations == Cardinality(Node) * (Cardinality(Node) + 1)

findPath(E, start, target) == search(E, start, target)[Iterations].path

\* A mutant: the path is left where the search happened to start.
unrotated(path) == path

\* The closed path, rotated to begin and end with its least member.
rotate(path) ==
    LET first == CHOOSE i \in DOMAIN path : /\ path[i] = Least(Range(path))
                                            /\ \A j \in 1 .. i - 1 : path[j] # path[i]
    IN SubSeq(path, first, Len(path) - 1) \o SubSeq(path, 1, first)
-----------------------------------------------------------------------------
\* A mutant: a recorded path survives as long as its resource is on some cycle.
keepOldPaths(E, F) ==
    LET cyclic == {n \in DOMAIN F : findPath(E, n, n) # << >>}
    IN [n \in cyclic |-> IF F[n] = << >> THEN rotate(findPath(E, n, n)) ELSE F[n]]
-----------------------------------------------------------------------------
\* A recorded member without a cycle is dropped; the first member of a cycle
\* found gives its path to every member not yet checked.
visit(E, acc, id) ==
    LET path  == findPath(E, id, id)
        fresh == Range(path) \ acc.checked
    IN CASE id \in acc.checked -> acc
         [] id \notin acc.checked /\ path = << >> ->
                [acc EXCEPT !.failed = [n \in DOMAIN @ \ {id} |-> @[n]]]
         [] OTHER ->
                [failed  |-> [n \in DOMAIN acc.failed \cup fresh |->
                                 IF n \in fresh THEN rotate(path) ELSE acc.failed[n]],
                 checked |-> acc.checked \cup fresh]

\* The pass over the recorded members in order, after the members below k.
revalidate(E, F) ==
    LET pass[k \in Nat] ==
            IF k = 0 THEN [failed |-> F, checked |-> {}]
            ELSE IF k - 1 \in DOMAIN F THEN visit(E, pass[k - 1], k - 1) ELSE pass[k - 1]
    IN pass

revalidateFailed(E, F) == revalidate(E, F)[1 + Max({0} \cup Node)].failed

ReplaceEdges(id, deps) ==
    LET old     == outEdges[id]
        found   == closesCycle(outEdges', id, old)
        members == IF found THEN cycleMembers(outEdges', id) ELSE {}
        marked  == [n \in DOMAIN failed \cup members |->
                       IF n \in members THEN << >> ELSE failed[n]]
    IN /\ outEdges' = [outEdges EXCEPT ![id] = deps]
       /\ failed' = IF /\ deps # old
                       /\ DOMAIN marked # {}
                       /\ found \/ old \ deps # {}
                    THEN revalidateFailed(outEdges', marked)
                    ELSE failed

Deps == {deps \in SUBSET Node : Cardinality(deps) <= MaxDeps}

Next == \E id \in Node, deps \in Deps : ReplaceEdges(id, deps)

Spec == Init /\ [][Next]_graph
-----------------------------------------------------------------------------
\* n is on a cycle of E: a non-empty path leads from n to n.
OnCycle(E, n) == n \in Closure(E, E[n])

\* After any sequence of edge replacements the incremental set is exactly the
\* set of resources on a cycle, as a full search of the graph would find it
\* (depgraph.go 12-15: detection "runs incrementally on edge updates"), and the
\* path recorded for each is a cycle of the present edges: it starts and ends
\* with its least member, takes one edge per step, repeats nothing else and
\* contains its resource.
FailedAreCycles ==
    /\ DOMAIN failed = {n \in Node : OnCycle(outEdges, n)}
    /\ \A n \in DOMAIN failed :
           LET p == failed[n]
           IN /\ Len(p) > 1
              /\ n \in Range(p)
              /\ p[1] = p[Len(p)]
              /\ p[1] = Least(Range(p))
              /\ \A i \in 1 .. Len(p) - 1 : p[i + 1] \in outEdges[p[i]]
              /\ Cardinality(Range(p)) = Len(p) - 1

\* The diagnostics depend on the edges alone, never on the order in which the
\* resources arrived: failed is what a graph built at once would report
\* (depgraph.go 210: "Sorted roots and minimal rotations stabilize messages").
DiagnosticsAreStable ==
    failed = revalidateFailed(outEdges,
                 [n \in {m \in Node : OnCycle(outEdges, m)} |-> << >>])
=============================================================================
