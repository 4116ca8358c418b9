---------------------------- MODULE Declarations ----------------------------
(***************************************************************************)
(* What pkg/store promises its readers: the declarations in force follow   *)
(* from the static declarations and from the inventories the producers     *)
(* have published, as if they were worked out afresh after every write.    *)
(* Publication shows that the incremental, sharded store keeps it.         *)
(***************************************************************************)
EXTENDS Naturals

CONSTANTS Id,       \* the resources, positive numbers in Compare order
          Content,  \* what a declaration says: positive numbers
          Owner     \* whose discovered output each static declaration is

None == 0      \* no declaration; also the owner of an independent one

VARIABLES static,     \* the declarations read from files or added directly
          rooted,     \* those of them that no producer can take away
          inventory,  \* what each producer has emitted: a function to Content
          superseded, \* the producers whose own output replaced their discovered one
          effective   \* the declaration in force for each resource, or None

-----------------------------------------------------------------------------
\* In force without any producer.
Anchors(s, r) == {id \in Id : s[id] # None /\ (id \in r \/ Owner[id] \in {None, id})}

\* Put in force by the producers of L.
Produced(s, inv, sup, L) ==
    {id \in Id : \E p \in L : \/ id \in DOMAIN inv[p]
                              \/ s[id] # None /\ Owner[id] = p /\ p \notin sup}

\* The least set that holds the anchors and what its own members produce.
Live(s, r, inv, sup) ==
    LET closed == {L \in SUBSET Id : Anchors(s, r) \cup Produced(s, inv, sup, L) \subseteq L}
    IN {id \in Id : \A L \in closed : id \in L}

\* A root speaks for itself; then "the greatest producer identity supplies
\* shared content"; then the static declaration.
View(s, r, inv, sup) ==
    LET live  == Live(s, r, inv, sup)
        by(id) == {p \in live : id \in DOMAIN inv[p]}
        greatest(P) == CHOOSE p \in P : \A q \in P : q <= p
    IN [id \in Id |-> IF id \notin live THEN None
                      ELSE IF by(id) = {} \/ (id \in r /\ s[id] # None) THEN s[id]
                      ELSE inv[greatest(by(id))][id]]
-----------------------------------------------------------------------------
Init ==
    /\ static \in [Id -> Content \cup {None}]
    /\ rooted = {}
    /\ inventory = [p \in Id |-> [id \in {} |-> None]]
    /\ superseded = {}
    /\ effective = View(static, rooted, inventory, superseded)

\* A declaration is added or changed, as a root or not.
Declare(id) ==
    /\ static'[id] \in Content
    /\ static' = [static EXCEPT ![id] = static'[id]]
    /\ rooted' \in {rooted, rooted \cup {id}}
    /\ UNCHANGED <<inventory, superseded>>

Withdraw(id) ==
    /\ static' = [static EXCEPT ![id] = None]
    /\ rooted' = rooted \ {id}
    /\ UNCHANGED <<inventory, superseded>>

\* A producer publishes another inventory, never with itself in it.
Emit(p) ==
    /\ DOMAIN inventory'[p] \subseteq Id \ {p}
    /\ \A id \in DOMAIN inventory'[p] : inventory'[p][id] \in Content
    /\ inventory' = [inventory EXCEPT ![p] = inventory'[p]]
    /\ superseded' \in {superseded, superseded \cup {p}}
    /\ UNCHANGED <<static, rooted>>

Next ==
    /\ <<static, rooted, inventory, superseded>>' # <<static, rooted, inventory, superseded>>
    /\ \E id \in Id : Declare(id) \/ Withdraw(id) \/ Emit(id)
    /\ effective' = View(static', rooted', inventory', superseded')

Spec == Init /\ [][Next]_<<static, rooted, inventory, superseded, effective>>
=============================================================================
