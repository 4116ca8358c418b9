---------------------------- MODULE Publication ----------------------------
(***************************************************************************)
(* pkg/store: static declarations, the inventories producers publish, and  *)
(* the one declaration in force for each resource.  RecordEmitted prepares *)
(* a proposal outside the locks and commits it under one shard's lock when *)
(* the membership is the same (commitStable) or under every lock           *)
(* (commitReplacement), and tries again when its producer's slot moved in  *)
(* between.  A replacement works out visibility for the affected region    *)
(* only.  Events are dispatched after the locks are released.              *)
(* An object is its content, reconcileEqual and manifest.Equal are =; one  *)
(* source, so every binding is the same.  Supplied references, classified  *)
(* admission, bootstrap seeds, dynamic targets, generated children,        *)
(* payloads and the facets other than the object are left out.             *)
(***************************************************************************)
EXTENDS Naturals, FiniteSets, Sequences, SequencesExt

CONSTANTS Id, Content, Owner,
          Authored,      \* the static declarations the loader found: a function from Id
          Emits,         \* the producers that reconcile, and what each may emit: a function
          Writable,      \* the ids that AddObject and DeleteObject name during the run
          MaxEmissions,  \* bound: calls of RecordEmitted
          MaxWrites      \* bound: calls of AddObject and DeleteObject

None == 0

ASSUME PublicationAssumption ==
    /\ Id \subseteq Nat \ {None} /\ IsFiniteSet(Id) /\ Content \subseteq Nat \ {None}
    /\ Owner \in [Id -> Id \cup {None}]
    /\ Authored \in [Id -> Content \cup {None}]
    /\ DOMAIN Emits \subseteq Id /\ \A p \in DOMAIN Emits : Emits[p] \subseteq Id
    \* Entry sources and entry producers have no discovery record.
    /\ Writable \subseteq {id \in Id : Owner[id] = None}

\* Discovery starts from declarations that stand alone: the owners of an authored
\* one lead back to such a declaration.
ASSUME DiscoveryAssumption ==
    \A L \in SUBSET Id :
        (\A id \in Id : Authored[id] # None /\ Owner[id] \in {None, id} \cup L => id \in L)
            => \A id \in Id : Authored[id] # None => id \in L

VARIABLES cell,     \* objectCell of each id
          slot,     \* producerSlot of each id with its current Emission
          head,     \* registrationHead of each id's object: stamp, selected slot, position
          members,  \* shard.members: <<slot, position>> pairs
          call,     \* each emitter's RecordEmitted
          outbox,   \* the events each goroutine has still to dispatch
          unheard,  \* history: the ids that changed since a listener last ran for them
          emissions, writes

store == <<cell, slot, head, members>>
vars == <<cell, slot, head, members, call, outbox, unheard, emissions, writes>>

Emitter == DOMAIN Emits
Writer == None      \* the goroutine that adds and deletes objects
Goroutine == Emitter \cup {Writer}
larger(a, b) == IF a >= b THEN a ELSE b

\* A call of RecordEmitted: the declaration its reconciliation captured, the slot's
\* generation at the snapshot and, inside commitStable, the record to store.  raced:
\* the capture fell between a stamping and its store, with a lagging head.
Idle == [pc |-> "idle", content |-> None, input |-> 0, raced |-> FALSE, generation |-> 0,
         record |-> << >>]

\* The numbers of S in increasing order, and the elements of s that are in T, in
\* theirs.  (SelectSeq and SortSeq in a form that can be reasoned about.)
inOrder(S) ==
    CHOOSE f \in [1 .. Cardinality(S) -> S] :
        /\ \A x \in S : \E i \in DOMAIN f : f[i] = x
        /\ \A i, j \in DOMAIN f : i < j => f[i] < f[j]
only(s, T) == LET at == inOrder({i \in DOMAIN s : s[i] \in T}) IN [i \in DOMAIN at |-> s[at[i]]]

coverage(p) == {id \in Id : Owner[id] = p}
Ids(entries) == {entries[i].id : i \in DOMAIN entries}
-----------------------------------------------------------------------------
(* Reads.  st is the store in the middle of a commit.                      *)

Now == [cell |-> cell, slot |-> slot, head |-> head, members |-> members]

stamp(st, id) ==
    LET h       == st.head[id]
        entries == IF h.selected = None THEN << >> ELSE st.slot[h.selected].entries
    IN IF h.position \in DOMAIN entries /\ entries[h.position].id = id
       THEN larger(h.generation, entries[h.position].generation) ELSE h.generation

current(st, id) == larger(st.cell[id].generation, stamp(st, id))

captureMembers(st, id) == {m \in st.members[id] : st.slot[m[1]].visible}

\* The representative: its content, the slot that supplies it and where.
capture(st, id) ==
    LET c      == st.cell[id]
        found  == captureMembers(st, id)
        chosen == CHOOSE m \in found : \A n \in found : n[1] <= m[1]
        plain(content) == [content |-> content, owner |-> None, position |-> 0]
    IN IF c.hidden THEN plain(None)
       ELSE IF c.rooted \/ found = {} THEN plain(IF c.retired /\ ~c.rooted THEN None ELSE c.static)
       ELSE [content |-> st.slot[chosen[1]].entries[chosen[2]].content,
             owner |-> chosen[1], position |-> chosen[2]]

object(id) == capture(Now, id).content
-----------------------------------------------------------------------------
(* Reachability.                                                           *)

downstream(st, id) == Ids(st.slot[id].entries) \cup coverage(id)

\* The region of a change: what the worklist reaches from S, downstream through
\* inventories and coverage, is the least set that holds S and is closed.
expandRegion(st, S) ==
    {id \in Id : \A R \in SUBSET Id :
                    S \subseteq R /\ (\A q \in R : downstream(st, q) \subseteq R) => id \in R}

staticAnchor(st, id, R, live) ==
    LET c == st.cell[id]
        p == Owner[id]
    IN /\ c.static # None
       /\ \/ c.rooted \/ p \in {None, id}
          \/ /\ IF p \in R THEN p \in live ELSE ~st.slot[p].hidden
             /\ ~st.slot[p].shadows

\* A mutant: a producer outside the region does not hold anything in it.
seedAnchorsOnly(st, R) == {id \in R : staticAnchor(st, id, R, {})}

seedReachability(st, R) ==
    {id \in R : \/ staticAnchor(st, id, R, {})
                \/ \E m \in st.members[id] : m[1] \notin R /\ st.slot[m[1]].visible}

\* What a live producer puts in force.
reached(st, q) ==
    Ids(st.slot[q].entries) \cup {f \in coverage(q) : st.cell[f].static # None /\ ~st.slot[q].shadows}

\* The second worklist: the least set that holds the seeds and is closed within R.
propagateReachability(st, R) ==
    LET seeds == seedReachability(st, R)
    IN {id \in R : \A L \in SUBSET R :
                      seeds \subseteq L /\ (\A q \in L : R \cap reached(st, q) \subseteq L) => id \in L}

publishRegionVisibility(st, before, R, live) ==
    [p \in Id |->
        LET s == st.slot[p]
            moved == s.visible # (p \in live) \/ s.hidden = (p \in live)
        IN IF p \notin R \/ ~s.exists THEN s
           ELSE [s EXCEPT !.visible = p \in live, !.hidden = p \notin live,
                          !.generation = IF s.published /\ moved /\ @ = before.slot[p].generation
                                         THEN @ + 1 ELSE @]]

\* A live registration on an object's head: the attempt in flight or the
\* accepted record of the producer that is declared by it.
registered(st, id) == id \in Emitter /\ (call[id] # Idle \/ st.slot[id].published)

\* advanceLocked: the head's own stamp follows only while somebody is registered.
advance(st, id) ==
    LET next == current(st, id) + 1
    IN [st EXCEPT !.cell[id].generation = next,
                  !.head[id].generation = IF registered(st, id) THEN next ELSE @]

selectRegionHead(st, id) ==
    LET view == capture(st, id)
        h    == st.head[id]
    IN IF h.selected # view.owner \/ (view.owner # None /\ h.position # view.position)
       THEN [st EXCEPT !.head[id] =
               [generation |-> larger(st.cell[id].generation, stamp(st, id)), selected |-> view.owner,
                position |-> IF view.owner = None THEN h.position ELSE view.position]]
       ELSE st

\* A mutant: a cell that only becomes hidden or visible keeps its generation.
publishOnlyContent(st, before, R, live, direct, id) ==
    LET known == larger(st.cell[id].generation, current(before, id))
        next  == [st EXCEPT !.cell[id].generation = known, !.cell[id].hidden = id \notin live,
                            !.cell[id].retired = ~staticAnchor(st, id, R, live)]
    IN IF known = 0 /\ st.cell[id].static = None /\ st.members[id] = {} /\ ~st.slot[id].exists THEN st
       ELSE selectRegionHead(IF id \in direct THEN advance(next, id) ELSE next, id)

\* One id of the region: its visibility, its generation and its head.
publishRegionObject(st, before, R, live, direct, id) ==
    LET old   == before.cell[id]
        known == larger(st.cell[id].generation, current(before, id))
        c     == [st.cell[id] EXCEPT !.generation = known, !.hidden = id \notin live,
                                     !.retired = ~staticAnchor(st, id, R, live)]
        next  == [st EXCEPT !.cell[id] = c]
        was   == capture(before, id)
        now   == capture(next, id)
        moves == \/ id \in direct
                 \/ was.owner # now.owner \/ was.content # now.content
                 \/ (c.rooted # old.rooted /\ old.static = None)
                 \/ c.retired # old.retired \/ c.hidden # old.hidden
    IN IF known = 0 /\ c.static = None /\ st.members[id] = {} /\ ~st.slot[id].exists THEN st
       ELSE selectRegionHead(IF moves THEN advance(next, id) ELSE next, id)

\* The region is published: visibility first, then every cell and its head, none of
\* which looks at another's.
reachability(st, before, R, direct) ==
    LET live  == propagateReachability(st, R)
        shown == [st EXCEPT !.slot = publishRegionVisibility(st, before, R, live)]
        done  == [id \in R |-> publishRegionObject(shown, before, R, live, direct, id)]
    IN [shown EXCEPT !.cell = [id \in Id |-> IF id \in R THEN done[id].cell[id] ELSE @[id]],
                     !.head = [id \in Id |-> IF id \in R THEN done[id].head[id] ELSE @[id]]]

\* captureRegionState: what the region looked like before the commit.
visible(before, id) ==
    ~before.cell[id].hidden /\ (before.cell[id].static # None \/ before.members[id] # {})

\* A mutant: only the resources the commit names are announced.
publishDirect(before, after, R, direct) ==
    inOrder({id \in R \cap direct : capture(before, id).content # capture(after, id).content})

\* dispatchPublications: in id order, without those that leave a reader nothing new.
publications(before, after, R, direct) ==
    LET was(id) == capture(before, id).content
        now(id) == capture(after, id).content
        fires(id) == /\ id \in direct \/ was(id) # now(id)
                     /\ now(id) # None \/ visible(before, id) \/ ~after.cell[id].hidden
                     /\ was(id) = None \/ now(id) = None \/ was(id) # now(id)
    IN inOrder({id \in R : fires(id)})
-----------------------------------------------------------------------------
Install(st) ==
    /\ cell' = st.cell /\ slot' = st.slot /\ head' = st.head /\ members' = st.members

\* No shard is locked by a commitStable: lockAll gets through.
AllLocked == \A p \in Emitter : call[p].pc # "stamped"

Send(g, events) == outbox' = [outbox EXCEPT ![g] = events]

NoteChanges == unheard' = unheard \cup {id \in Id : object(id)' # object(id)}

\* admitLocked: a direct write that no inventory can contradict.
admit(id, c) ==
    /\ Install(advance([Now EXCEPT !.cell[id].static = c, !.cell[id].retired = FALSE], id))
    /\ Send(Writer, <<id>>)

\* The declaration an anchor is made of: the static one already there when the
\* object in force, perhaps a producer's, equals the one that is added.
anchored(id, c) == IF object(id) = c /\ cell[id].static # None THEN cell[id].static ELSE c

\* A mutant: the declaration is stored, but producers go on speaking for it.
addUnrooted(id, c) ==
    LET R      == expandRegion(Now, {id})
        after  == reachability([Now EXCEPT !.cell[id].static = anchored(id, c)], Now, R, {id})
    IN AllLocked /\ Install(after) /\ Send(Writer, publications(Now, after, R, {id}))

\* addAnchor: the declaration becomes a root, under every lock.
addAnchor(id, c) ==
    LET R      == expandRegion(Now, {id})
        direct == IF object(id) # c \/ cell[id].static = None THEN {id} ELSE {}
        st     == [Now EXCEPT !.cell[id].static = anchored(id, c), !.cell[id].rooted = TRUE]
        after  == reachability(st, Now, R, direct)
    IN AllLocked /\ Install(after) /\ Send(Writer, publications(Now, after, R, direct))

needsRoot(id) == ~cell[id].rooted /\ (members[id] # {} \/ slot[id].exists)

commitObjectUpdate(id, c) == IF cell[id].hidden \/ needsRoot(id) THEN addAnchor(id, c) ELSE admit(id, c)

\* The snapshot is checked again under the lock that commits it and taken anew
\* when it is out of date, so the call takes effect at its commit.
AddObject(id, c) ==
    /\ writes < MaxWrites /\ outbox[Writer] = << >>
    /\ writes' = writes + 1
    /\ IF /\ cell[id].static = c /\ object(id) = c
          /\ ~cell[id].hidden /\ ~cell[id].retired /\ ~needsRoot(id)
       THEN UNCHANGED <<store, outbox>>
       ELSE commitObjectUpdate(id, c)
    /\ NoteChanges
    /\ UNCHANGED <<call, emissions>>

withdrawn(id) == [Now EXCEPT !.cell[id].static = None, !.cell[id].rooted = FALSE]

deleteLocked(id) == Install(advance(withdrawn(id), id)) /\ UNCHANGED outbox

DeleteObject(id) ==
    LET R     == expandRegion(Now, {id})
        after == reachability(withdrawn(id), Now, R, {id})
    IN /\ writes < MaxWrites /\ outbox[Writer] = << >>
       /\ cell[id].static # None
       /\ writes' = writes + 1
       /\ IF members[id] = {} /\ ~slot[id].exists
          THEN deleteLocked(id)
          ELSE AllLocked /\ Install(after) /\ Send(Writer, publications(Now, after, R, {id}))
       /\ NoteChanges
       /\ UNCHANGED <<call, emissions>>
-----------------------------------------------------------------------------
(* RecordEmitted.  What a reconciliation emits is chosen when it commits:  *)
(* nothing before depends on it, and a retry emits the same again.         *)

\* A reconciliation captures its declaration, registers and renders it.  The first
\* registration brings the head's stamp up to date.
Reconcile(p) ==
    LET view  == capture(Now, p)
        input == IF view.owner = None THEN cell[p].generation
                 ELSE larger(cell[p].generation, slot[view.owner].entries[view.position].generation)
        stamping == \E q \in Emitter : call[q].pc = "stamped" /\ p \in Ids(call[q].record.entries)
    IN /\ call[p] = Idle /\ outbox[p] = << >>
       /\ view.content # None
       /\ emissions < MaxEmissions
       /\ emissions' = emissions + 1
       /\ call' = [call EXCEPT ![p] =
                      [Idle EXCEPT !.pc = "snapshot", !.content = view.content, !.input = input,
                                   !.raced = stamping /\ stamp(Now, p) < input]]
       /\ head' = IF registered(Now, p) THEN head ELSE [head EXCEPT ![p].generation = input]
       /\ UNCHANGED <<cell, slot, members, outbox, unheard, writes>>

\* snapshotEmission.  The proposal is prepared from the record read here.
Snapshot(p) ==
    /\ call[p].pc = "snapshot"
    /\ call' = [call EXCEPT ![p].pc = "commit", ![p].generation = slot[p].generation]
    /\ UNCHANGED <<store, outbox, unheard, emissions, writes>>

\* A producer does not declare itself.
compactAdmissions(p, children) == only(children, {e \in Range(children) : e.id # p})

\* Entries keep the places they had; only a partial emission keeps old ones.
retainPreviousEntries(prev, next, children) ==
    LET kept == only(prev, {e \in Range(prev) : \/ e.id \in Ids(children)
                                                \/ ~next.complete /\ ~next.failed})
        content(e) == IF e.id \in Ids(children)
                      THEN children[CHOOSE i \in DOMAIN children : children[i].id = e.id].content
                      ELSE e.content
    IN [i \in DOMAIN kept |-> [kept[i] EXCEPT !.content = content(kept[i])]]

\* A complete emission keeps no places of a record whose output reads are
\* invalid, usablePreviousEmission, but the stamps of its entries all the same.
prepareEmission(p, next, usable) ==
    LET prev     == slot[p].entries
        children == compactAdmissions(p, next.children)
        base     == IF usable \/ ~next.complete
                    THEN retainPreviousEntries(prev, next, children) ELSE << >>
        fresh    == only(children, {e \in Range(children) : e.id \notin Ids(base)})
        stampOf(id) == IF id \in Ids(prev)
                       THEN prev[CHOOSE i \in DOMAIN prev : prev[i].id = id].generation ELSE 0
    IN base \o [i \in DOMAIN fresh |-> [id |-> fresh[i].id, content |-> fresh[i].content,
                                         generation |-> stampOf(fresh[i].id)]]

\* The resources whose declaration by p is new, gone or different.
changedTargets(prev, entries) ==
    LET pair(acc, e) == IF acc.next \in DOMAIN entries /\ entries[acc.next].id = e.id
                        THEN [next |-> acc.next + 1,
                              same |-> acc.same \cup
                                  (IF entries[acc.next].content = e.content THEN {e.id} ELSE {})]
                        ELSE acc
    IN (Ids(prev) \cup Ids(entries)) \ FoldLeft(pair, [next |-> 1, same |-> {}], prev).same

Unchanged(p, next, entries) ==
    LET s == slot[p]
    IN /\ s.published /\ ~s.failed /\ ~next.failed
       /\ entries = s.entries
       /\ next.complete => s.complete /\ s.shadows

Stable(p, next, entries) ==
    LET s == slot[p]
    IN /\ s.published
       /\ [i \in DOMAIN entries |-> entries[i].id] = [i \in DOMAIN s.entries |-> s.entries[i].id]
       /\ next.complete \/ next.failed => s.shadows

proposal(p, next, entries) ==
    [slot[p] EXCEPT !.exists = TRUE, !.published = TRUE, !.entries = entries,
                    !.complete = next.complete, !.failed = next.failed,
                    !.shadows = @ \/ next.complete \/ next.failed,
                    !.generation = @ + 1]

differs(p, e) == \E i \in DOMAIN slot[p].entries :
                     slot[p].entries[i].id = e.id /\ slot[p].entries[i].content # e.content

\* A mutant: the record is stored with the stamps its entries had.
stampNothing(p, next, entries) ==
    call' = [call EXCEPT ![p].pc = "stamped", ![p].record = proposal(p, next, entries)]

\* Same members in the same places.  Only this producer's shard is locked: first
\* the entries in force are stamped, then the record is stored.
stampStable(p, next, entries) ==
    LET stamped(e) == IF differs(p, e) /\ head[e.id].selected = p
                      THEN [e EXCEPT !.generation = stamp(Now, e.id) + 1] ELSE e
        record == proposal(p, next, [i \in DOMAIN entries |-> stamped(entries[i])])
    IN call' = [call EXCEPT ![p].pc = "stamped", ![p].record = record]

\* Every entry of a record that could not keep its places counts as changed.
stableEvents(p, next, entries, usable) ==
    LET told == only(entries, {e \in Range(entries) : differs(p, e) \/ (next.complete /\ ~usable)})
    IN IF slot[p].visible THEN [i \in DOMAIN told |-> told[i].id] ELSE << >>

retireMembers(p, R) == [id \in Id |-> {m \in members[id] : id \in R => m[1] # p}]

publishMembers(p, entries, retained) ==
    [id \in Id |-> retained[id] \cup {<<p, i>> : i \in {j \in DOMAIN entries : entries[j].id = id}}]

\* A producer that is not declared itself has an inventory nobody sees.
hideProducer(st, p) ==
    LET known == IF st.cell[p].hidden THEN st ELSE [advance(st, p) EXCEPT !.cell[p].hidden = TRUE]
    IN IF st.slot[p].visible THEN st ELSE [known EXCEPT !.slot[p].hidden = TRUE]

replaced(p, next, entries, R) ==
    LET s    == proposal(p, next, entries)
        made == IF slot[p].exists THEN s
                ELSE [s EXCEPT !.visible = object(p) # None, !.hidden = cell[p].hidden]
    IN [hideProducer([Now EXCEPT !.slot[p] = made], p) EXCEPT
           !.members = publishMembers(p, entries, retireMembers(p, R))]

commitReplacement(p, next, entries) ==
    LET prev   == slot[p].entries
        shadows == slot[p].shadows \/ next.complete \/ next.failed
        covered == IF shadows THEN coverage(p) ELSE {}
        direct == changedTargets(prev, entries) \cup covered
        R      == expandRegion(Now, Ids(prev) \cup Ids(entries) \cup covered)
        after  == reachability(replaced(p, next, entries, R), Now, R, direct)
    IN AllLocked /\ Install(after) /\ Send(p, publications(Now, after, R, direct))

Return(p) == call' = [call EXCEPT ![p] = Idle]

\* The reads no longer hold: the producer's own declaration has moved on.
Reject(p) ==
    /\ call[p].pc \in {"snapshot", "commit"}
    /\ call[p].input # current(Now, p)
    /\ Return(p)
    /\ UNCHANGED <<store, outbox, unheard, emissions, writes>>

Commit(p, next, usable) ==
    LET entries == prepareEmission(p, next, usable)
    IN /\ call[p].pc = "commit"
       /\ call[p].input = current(Now, p)
       /\ slot[p].generation = call[p].generation
       /\ \/ Unchanged(p, next, entries) /\ Return(p) /\ UNCHANGED <<store, outbox>>
          \/ /\ ~Unchanged(p, next, entries) /\ Stable(p, next, entries)
             /\ stampStable(p, next, entries)
             /\ Send(p, stableEvents(p, next, entries, usable))
             /\ UNCHANGED store
          \/ ~Stable(p, next, entries) /\ commitReplacement(p, next, entries) /\ Return(p)
       /\ NoteChanges
       /\ UNCHANGED <<emissions, writes>>

commitStable(p) ==
    /\ call[p].pc = "stamped"
    /\ slot' = [slot EXCEPT ![p] = call[p].record]
    /\ Return(p)
    /\ UNCHANGED <<cell, head, members, outbox, emissions, writes>>
    /\ NoteChanges

\* eventDispatch.run, without any lock: the scheduler and the dependency graph
\* read the store again for the id they are told.
Dispatch(g) ==
    /\ outbox[g] # << >>
    /\ g \in Emitter => call[g].pc # "stamped"
    /\ outbox' = [outbox EXCEPT ![g] = Tail(@)]
    /\ unheard' = unheard \ {Head(outbox[g])}
    /\ UNCHANGED <<store, call, emissions, writes>>
-----------------------------------------------------------------------------
Owners == {Owner[id] : id \in Id} \ {None}

\* Bootstrap is over: SetDiscoveryIndex has given every contributor a slot,
\* the scheduler knows the declarations in force.
Init ==
    /\ cell = [id \in Id |->
                  [static |-> Authored[id], rooted |-> FALSE, retired |-> FALSE, hidden |-> FALSE,
                   generation |-> IF Authored[id] = None THEN 0 ELSE 1]]
    /\ slot = [id \in Id |->
                  [exists |-> id \in Owners, published |-> FALSE, entries |-> << >>,
                   complete |-> FALSE, failed |-> FALSE, shadows |-> FALSE, generation |-> 0,
                   visible |-> id \in Owners /\ Authored[id] # None, hidden |-> FALSE]]
    /\ head = [id \in Id |-> [generation |-> 0, selected |-> None, position |-> 0]]
    /\ members = [id \in Id |-> {}]
    /\ call = [p \in Emitter |-> Idle]
    /\ outbox = [g \in Goroutine |-> << >>]
    /\ unheard = {}
    /\ emissions = 0 /\ writes = 0

\* What a render of p may yield: each resource once, in the order of the documents.
Children(p) ==
    {s \in UNION {[1 .. n -> [id : Emits[p], content : Content]] : n \in 0 .. Cardinality(Emits[p])} :
        \A i, j \in DOMAIN s : s[i].id = s[j].id => i = j}

\* What a reconciliation of each producer may emit.
Outputs ==
    [p \in Emitter |->
        {[children |-> s, complete |-> outcome = "complete", failed |-> outcome = "failed"] :
         outcome \in {"complete", "partial", "failed"}, s \in Children(p)}]

\* The previous record's reads matter to a complete emission only.
Usable(next) == {TRUE, ~next.complete}

Next ==
    \/ \E id \in Writable : DeleteObject(id) \/ \E c \in Content : AddObject(id, c)
    \/ \E p \in Emitter : Reconcile(p) \/ Snapshot(p) \/ Reject(p) \/ commitStable(p)
    \/ \E p \in Emitter : \E next \in Outputs[p] : \E usable \in Usable(next) : Commit(p, next, usable)
    \/ \E g \in Goroutine : Dispatch(g)

Spec == Init /\ [][Next]_vars
-----------------------------------------------------------------------------
Inventory(p) ==
    [id \in Ids(slot[p].entries) |->
        slot[p].entries[CHOOSE i \in DOMAIN slot[p].entries : slot[p].entries[i].id = id].content]

Promise == INSTANCE Declarations WITH
    static     <- [id \in Id |-> cell[id].static],
    rooted     <- {id \in Id : cell[id].rooted},
    inventory  <- [p \in Id |-> Inventory(p)],
    superseded <- {p \in Id : slot[p].shadows},
    effective  <- [id \in Id |-> object(id)]

(* The store implements Declarations: after every write, under whatever    *)
(* locks it happened, the object each reader gets is the one a fresh       *)
(* evaluation of all static declarations and inventories gives, although   *)
(* the code looked at one region only and may meet cycles of producers     *)
(* that declare each other (publication.go 10: "The greatest producer       *)
(* identity supplies shared content").                                     *)
KeepsPromise == Promise!Spec

\* A producer's object is in force and another declaration waits beneath it.
Masks(id, c) == object(id) = c /\ cell[id].static \notin {None, c}

(* AddObject puts what it is given in force, whatever producers declare    *)
(* and however the resource was hidden (store.go 353: "AddObject inserts a *)
(* manifest"), but in one case: given what a producer already put in force *)
(* over a different static declaration, it roots that older declaration    *)
(* (store.go 746), which takes the place of the object that was in force   *)
(* and was added.                                                          *)
AddedIsInForce ==
    [][\A id \in Writable, c \in Content :
          AddObject(id, c) => object(id)' = IF Masks(id, c) THEN cell[id].static ELSE c]_vars

(* Reads that are valid keep the slot: while a reconciliation's own        *)
(* declaration is unmoved nobody else has touched its producer's record,   *)
(* so the retry loop of RecordEmitted ends at once for a producer that     *)
(* reconciles one at a time.                                               *)
ValidReadsKeepTheSlot ==
    \A p \in Emitter : call[p].pc = "commit" /\ call[p].input = current(Now, p)
                           => slot[p].generation = call[p].generation

(* A declaration in force is never one that the listeners, the scheduler   *)
(* and the dependency graph, have not read: whichever commit changed it,   *)
(* its own or that of a producer far upstream, announces it, after the     *)
(* change is there to read.                                                *)
Announced ==
    (AllLocked /\ \A g \in Goroutine : outbox[g] = << >>)
        => \A id \in unheard : object(id) = None

Stale(p) == call[p] # Idle /\ call[p].input = current(Now, p) /\ call[p].content # object(p)

(* Valid is right: a reconciliation whose capture still carries the stamp  *)
(* of its declaration's head captured what is in force, so that its output *)
(* may be accepted (emission_input_authority_internal_test.go 293 calls    *)
(* the opposite "stale inventory accepted").                               *)
CaptureIsCurrent == \A p \in Emitter : ~Stale(p)

(* Nothing but a first capture between the stamping and the storing of a   *)
(* stable record, on a head whose own stamp lags behind its cell, can be   *)
(* stale and valid: not a replacement, a withdrawal, a change of           *)
(* visibility or a direct write.                                           *)
StaleOnlyInWindow == \A p \in Emitter : Stale(p) => call[p].raced
=============================================================================
