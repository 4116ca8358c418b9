---------------------------- MODULE Registration ----------------------------
(***************************************************************************)
(* pkg/store/registration.go: how an execution learns that an input it     *)
(* read has changed.  Every authority (one facet of one resource) carries  *)
(* a generation.  A ReadSet registers on the head of each authority it     *)
(* reads, or on the shard's absence head while the authority has never     *)
(* been written; a writer that advances the authority queues the head, and *)
(* Sweep visits the queued heads and delivers each changed ReadSet once.   *)
(* Writers and sweepHead hold the shard's lock, readers its read lock;     *)
(* visiting a detached chain and Retire hold neither.                      *)
(* The first write of an authority is an admission: SetPreflight and       *)
(* SetIncluded, which may advance a cell that was never admitted, are      *)
(* called for declared resources and are modelled for those only.          *)
(***************************************************************************)
EXTENDS Naturals, FiniteSets

CONSTANTS Reader,         \* the ReadSets, one execution each
          Authority,      \* the authorities of one shard
          Absence,        \* shard.absence
          None,
          MaxGeneration   \* bound: how often one authority advances

ASSUME RegistrationAssumption ==
    /\ Absence \notin Authority /\ None \notin Authority \cup {Absence}
    /\ MaxGeneration \in Nat

Head == Authority \cup {Absence}
Cell == Reader \X Authority   \* the registration of one facet in one ReadSet

VARIABLES
    generation,  \* authority.generation; its links exist from the first write on
    stamp,       \* registrationHead.generation
    first,       \* the registrations linked from registrationHead.first
    pending,     \* registrationHead.pending
    queued,      \* the heads linked from shard.pending
    detached,    \* registrationHead.detached
    watch,       \* absence.watch
    phase,       \* of each registration; late: captured, but moved before it registered
    cellGen,     \* registration.generation
    cellHead,    \* registration.head
    invalid, delivered, retired,  \* ReadSet flags
    retiring,    \* the heads each Retire has still to queue
    pushing,     \* the heads a Retire marked pending and has not pushed yet
    sweeping,    \* is Sweep running?
    batch,       \* the heads Sweep took from shard.pending
    current, chain, cutoff, live, \* sweepHead and sweepRegistrations
    captured     \* history: the generation whose value the reader saw

headVars == <<generation, stamp, first, pending, queued, detached, watch>>
cellVars == <<phase, cellGen, cellHead, captured>>
flagVars == <<invalid, delivered, retired, retiring, pushing>>
sweepVars == <<sweeping, batch, current, chain, cutoff, live>>
vars == <<headVars, cellVars, flagVars, sweepVars>>

TypeOK ==
    /\ generation \in [Authority -> 0 .. MaxGeneration]
    /\ stamp \in [Head -> Nat]
    /\ first \in [Head -> SUBSET Cell]
    /\ pending \in [Head -> BOOLEAN]
    /\ queued \subseteq Head
    /\ detached \in [Head -> BOOLEAN]
    /\ watch \subseteq Cell
    /\ phase \in [Cell -> {"unread", "captured", "registered", "late"}]
    /\ cellGen \in [Cell -> Nat]
    /\ cellHead \in [Cell -> Head \cup {None}]
    /\ captured \in [Cell -> Nat]
    /\ invalid \in [Reader -> BOOLEAN]
    /\ delivered \in [Reader -> BOOLEAN]
    /\ retired \in [Reader -> BOOLEAN]
    /\ retiring \in [Reader -> SUBSET Head]
    /\ pushing \in [Reader -> SUBSET Head]
    /\ sweeping \in BOOLEAN
    /\ batch \subseteq Head
    /\ current \in Head \cup {None}
    /\ chain \subseteq Cell
    /\ cutoff \in Nat
    /\ live \subseteq Cell

Init ==
    /\ generation = [a \in Authority |-> 0]
    /\ stamp = [h \in Head |-> 0]
    /\ first = [h \in Head |-> {}]
    /\ pending = [h \in Head |-> FALSE]
    /\ queued = {}
    /\ detached = [h \in Head |-> FALSE]
    /\ watch = {}
    /\ phase = [c \in Cell |-> "unread"]
    /\ cellGen = [c \in Cell |-> 0]
    /\ cellHead = [c \in Cell |-> None]
    /\ captured = [c \in Cell |-> 0]
    /\ invalid = [r \in Reader |-> FALSE]
    /\ delivered = [r \in Reader |-> FALSE]
    /\ retired = [r \in Reader |-> FALSE]
    /\ retiring = [r \in Reader |-> {}]
    /\ pushing = [r \in Reader |-> {}]
    /\ sweeping = FALSE
    /\ batch = {}
    /\ current = None
    /\ chain = {}
    /\ cutoff = 0
    /\ live = {}
-----------------------------------------------------------------------------
(* Readers                                                                 *)

\* registration.current
Current(c) ==
    \/ cellHead[c] = None
    \/ cellHead[c] = Absence /\ cellGen[c] = 0
    \/ cellHead[c] \in Authority /\ stamp[cellHead[c]] = cellGen[c]

\* What Valid returns.
Valid(r) == ~invalid[r] /\ \A a \in Authority : Current(<<r, a>>)

\* A getter copies a value and its generation and lets go of the read lock.
Capture(r, a) ==
    LET c == <<r, a>> IN
    /\ ~retired[r]
    /\ phase[c] = "unread"
    /\ phase' = [phase EXCEPT ![c] = "captured"]
    /\ cellGen' = [cellGen EXCEPT ![c] = generation[a]]
    /\ captured' = [captured EXCEPT ![c] = generation[a]]
    /\ UNCHANGED <<headVars, cellHead, flagVars, sweepVars>>

\* A mutant: the generation is not compared with the one captured.
activateUnchecked(r, a) ==
    LET c == <<r, a>>
        h == IF generation[a] = 0 THEN Absence ELSE a
    IN /\ phase[c] = "captured"
       /\ phase' = [phase EXCEPT ![c] = "registered"]
       /\ cellHead' = [cellHead EXCEPT ![c] = h]
       /\ cellGen' = [cellGen EXCEPT ![c] = generation[a]]
       /\ stamp' = IF h = a /\ first[a] = {} /\ ~detached[a]
                   THEN [stamp EXCEPT ![a] = generation[a]] ELSE stamp
       /\ first' = [first EXCEPT ![h] = @ \cup {c}]
       /\ UNCHANGED <<generation, pending, queued, detached, watch, captured, flagVars, sweepVars>>

\* activate, under the read lock.  The first registration of a head brings
\* its stamp up to date: nobody kept it while nobody was linked.
activate(r, a) ==
    LET c == <<r, a>>
        h == IF generation[a] = 0 THEN Absence ELSE a
    IN /\ phase[c] = "captured"
       /\ phase' = [phase EXCEPT ![c] = IF generation[a] = cellGen[c] THEN "registered" ELSE "late"]
       /\ invalid' = [invalid EXCEPT ![r] = @ \/ generation[a] # cellGen[c]]
       /\ cellHead' = [cellHead EXCEPT ![c] = h]
       /\ cellGen' = [cellGen EXCEPT ![c] = IF h = Absence THEN 0 ELSE @]
       /\ stamp' = IF h = a /\ first[a] = {} /\ ~detached[a]
                   THEN [stamp EXCEPT ![a] = generation[a]] ELSE stamp
       /\ first' = [first EXCEPT ![h] = @ \cup {c}]
       /\ UNCHANGED <<generation, pending, queued, detached, watch, captured, delivered, retired,
                      retiring, pushing, sweepVars>>

\* Valid makes a failed check permanent.
Validate(r) ==
    /\ ~Valid(r) /\ ~invalid[r]
    /\ invalid' = [invalid EXCEPT ![r] = TRUE]
    /\ UNCHANGED <<headVars, cellVars, delivered, retired, retiring, pushing, sweepVars>>

\* Retire takes no lock: it queues the heads of its registrations one by one.
Retire(r) ==
    /\ ~retired[r]
    /\ \A a \in Authority : phase[<<r, a>>] # "captured"
    /\ retired' = [retired EXCEPT ![r] = TRUE]
    /\ retiring' = [retiring EXCEPT ![r] = {cellHead[<<r, a>>] : a \in Authority} \ {None}]
    /\ UNCHANGED <<headVars, cellVars, invalid, delivered, pushing, sweepVars>>

Linked(h) == first[h] # {} \/ detached[h]

RetireQueue(r, h) ==
    /\ h \in retiring[r]
    /\ retiring' = [retiring EXCEPT ![r] = @ \ {h}]
    /\ IF Linked(h) /\ ~pending[h]
       THEN /\ pending' = [pending EXCEPT ![h] = TRUE]
            /\ pushing' = [pushing EXCEPT ![r] = @ \cup {h}]
       ELSE UNCHANGED <<pending, pushing>>
    /\ UNCHANGED <<generation, stamp, first, queued, detached, watch, cellVars, invalid, delivered,
                   retired, sweepVars>>

RetirePush(r, h) ==
    /\ h \in pushing[r]
    /\ pushing' = [pushing EXCEPT ![r] = @ \ {h}]
    /\ queued' = queued \cup {h}
    /\ UNCHANGED <<generation, stamp, first, pending, detached, watch, cellVars, invalid, delivered,
                   retired, retiring, sweepVars>>
-----------------------------------------------------------------------------
(* Writers, under the shard's lock                                         *)

\* queue for every head of H that has registrations, in one critical section.
Queue(H) ==
    LET new == {h \in H : Linked(h) /\ ~pending[h]} IN
    /\ pending' = [h \in Head |-> pending[h] \/ h \in new]
    /\ queued' = queued \cup new

\* A mutant: nothing is queued while the sweep holds the chain.
AdvanceAttached(a) ==
    /\ generation[a] > 0 /\ generation[a] < MaxGeneration
    /\ generation' = [generation EXCEPT ![a] = @ + 1]
    /\ stamp' = IF Linked(a) THEN [stamp EXCEPT ![a] = generation[a] + 1] ELSE stamp
    /\ Queue({h \in {a} : ~detached[h]})
    /\ UNCHANGED <<first, detached, watch, cellVars, flagVars, sweepVars>>

\* The first write: admitAbsenceLocked stamps the registrations that saw
\* nothing with the absence head's next generation, and the head is created.
Admit(a) ==
    LET absent  == first[Absence] \cup watch
        next    == stamp[Absence] + 1
        matched == {c \in absent : c[2] = a /\ cellGen[c] = 0}
    IN /\ generation[a] = 0 /\ MaxGeneration > 0
       /\ generation' = [generation EXCEPT ![a] = 1]
       /\ stamp' = IF absent # {} THEN [stamp EXCEPT ![Absence] = next] ELSE stamp
       /\ cellGen' = [c \in Cell |-> IF c \in matched THEN next ELSE cellGen[c]]
       /\ Queue(IF matched # {} THEN {Absence} ELSE {})
       /\ UNCHANGED <<first, detached, watch, phase, cellHead, captured, flagVars, sweepVars>>

\* advanceLocked: the stamp follows only while a registration may look at it.
Advance(a) ==
    /\ generation[a] > 0 /\ generation[a] < MaxGeneration
    /\ generation' = [generation EXCEPT ![a] = @ + 1]
    /\ stamp' = IF Linked(a) THEN [stamp EXCEPT ![a] = generation[a] + 1] ELSE stamp
    /\ Queue({a})
    /\ UNCHANGED <<first, detached, watch, cellVars, flagVars, sweepVars>>
-----------------------------------------------------------------------------
(* Sweep                                                                   *)

SweepBegin ==
    /\ ~sweeping
    /\ sweeping' = TRUE
    /\ batch' = queued
    /\ queued' = {}
    /\ UNCHANGED <<generation, stamp, first, pending, detached, watch, cellVars, flagVars, current,
                   chain, cutoff, live>>

\* sweepHead's first critical section.
Detach(h) ==
    /\ current = None /\ h \in batch
    /\ batch' = batch \ {h}
    /\ current' = h
    /\ detached' = [detached EXCEPT ![h] = TRUE]
    /\ chain' = first[h]
    /\ first' = [first EXCEPT ![h] = {}]
    /\ cutoff' = stamp[h]
    /\ watch' = IF h = Absence THEN first[h] ELSE watch
    /\ pending' = [pending EXCEPT ![h] = FALSE]
    /\ live' = {}
    /\ UNCHANGED <<generation, stamp, queued, cellVars, flagVars, sweeping>>

Changed(c) ==
    IF cellHead[c] = Absence THEN cellGen[c] # 0 /\ cellGen[c] <= cutoff ELSE cellGen[c] # cutoff

\* One turn of sweepRegistrations, without a lock; the sweep's consumers
\* never stop it, so a change is delivered at once.
Visit(c) ==
    LET r == c[1] IN
    /\ current # None /\ c \in chain
    /\ chain' = chain \ {c}
    /\ live' = IF retired[r] THEN live ELSE live \cup {c}
    /\ LET deliver == ~retired[r] /\ Changed(c) /\ ~delivered[r]
       IN /\ invalid' = [invalid EXCEPT ![r] = @ \/ deliver]
          /\ delivered' = [delivered EXCEPT ![r] = @ \/ deliver]
    /\ UNCHANGED <<headVars, cellVars, retired, retiring, pushing, sweeping, batch, current, cutoff>>

\* sweepHead's end: what is still live goes in front of what was linked since.
Relink ==
    /\ current # None /\ chain = {}
    /\ first' = [first EXCEPT ![current] = @ \cup live]
    /\ watch' = IF current = Absence THEN {} ELSE watch
    /\ detached' = [detached EXCEPT ![current] = FALSE]
    /\ current' = None
    /\ live' = {}
    /\ UNCHANGED <<generation, stamp, pending, queued, cellVars, flagVars, sweeping, batch, chain, cutoff>>

SweepEnd ==
    /\ sweeping /\ current = None /\ batch = {}
    /\ sweeping' = FALSE
    /\ UNCHANGED <<headVars, cellVars, flagVars, batch, current, chain, cutoff, live>>

Next ==
    \/ \E r \in Reader :
          \/ \E a \in Authority : Capture(r, a) \/ activate(r, a)
          \/ Validate(r) \/ Retire(r)
          \/ \E h \in Head : RetireQueue(r, h) \/ RetirePush(r, h)
    \/ \E a \in Authority : Admit(a) \/ Advance(a)
    \/ SweepBegin \/ SweepEnd \/ Relink
    \/ \E h \in Head : Detach(h)
    \/ \E c \in Cell : Visit(c)

Spec == Init /\ [][Next]_vars
-----------------------------------------------------------------------------
\* The authority has moved since the reader captured it.
Moved(c) == phase[c] \in {"registered", "late"} /\ generation[c[2]] # captured[c]

(* A live ReadSet that registered on an authority which has moved since it *)
(* was captured is not Valid, in every interleaving of writers, readers    *)
(* and the sweep: nothing is published from stale inputs.                  *)
StaleIsInvalid == \A c \in Cell : Moved(c) /\ ~retired[c[1]] => ~Valid(c[1])

(* No change is lost: with no sweep under way, a live ReadSet that was     *)
(* registered before its input moved has been delivered, or the head it is *)
(* linked from is on the shard's list (or about to be pushed), so that the *)
(* next sweep visits it.                                                   *)
NoLostChange ==
    ~sweeping => \A c \in Cell :
        Moved(c) /\ phase[c] = "registered" /\ ~retired[c[1]] =>
            \/ delivered[c[1]]
            \/ /\ c \in first[cellHead[c]]
               /\ cellHead[c] \in queued \cup UNION {pushing[r] : r \in Reader}
=============================================================================
