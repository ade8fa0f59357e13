---------------------------- MODULE GrantLedger ----------------------------
(***************************************************************************)
(* What the scheduler promises of its grants, without threads, heartbeats, *)
(* clocks or vectors: a ledger.  A servant offers a number of slots, and   *)
(* may change its mind.  A grant is issued only where a slot is free, under*)
(* a number that is never used again; it may die (become a zombie) but     *)
(* never comes back to life; and it is closed only when it is returned,    *)
(* after it has died, or together with its servant.                        *)
(***************************************************************************)
EXTENDS Naturals, FiniteSets

CONSTANTS
    Servants,   \* those that may register
    Slots       \* the numbers of slots they may offer

VARIABLES
    capacity,   \* registered servant -> the slots it offers
    ledger,     \* open grant -> its servant, and whether it has died
    issued      \* the grants issued so far: the next grant's number

vars == <<capacity, ledger, issued>>

Open(s) == {id \in DOMAIN ledger : ledger[id].servant = s}

Dead == {id \in DOMAIN ledger : ledger[id].zombie}

Closed(ids) == [id \in DOMAIN ledger \ ids |-> ledger[id]]

\* A servant registers, or changes its offer, be it below what it has open.
Offer(s, n) ==
    /\ capacity' = [t \in DOMAIN capacity \cup {s} |->
                      IF t = s THEN n ELSE capacity[t]]
    /\ UNCHANGED <<ledger, issued>>

Issue(s) ==
    /\ s \in DOMAIN capacity
    /\ Cardinality(Open(s)) < capacity[s]
    /\ ledger' = [id \in DOMAIN ledger \cup {issued} |->
                    IF id = issued THEN [servant |-> s, zombie |-> FALSE]
                                   ELSE ledger[id]]
    /\ issued' = issued + 1
    /\ UNCHANGED capacity

\* The holder of a grant returns it, in time or late.
Return(id) ==
    /\ ledger' = Closed({id})
    /\ UNCHANGED <<capacity, issued>>

\* Some dead grants of one servant are closed.
Bury(s, ids) ==
    /\ ids \subseteq Open(s) \cap Dead
    /\ ledger' = Closed(ids)
    /\ UNCHANGED <<capacity, issued>>

\* Some servants leave, each with all its grants, and some other grants die.
Sweep(gone) ==
    /\ capacity' = [s \in DOMAIN capacity \ gone |-> capacity[s]]
    /\ DOMAIN ledger' = {id \in DOMAIN ledger : ledger[id].servant \notin gone}
    /\ \A id \in DOMAIN ledger' :
          \/ ledger'[id] = ledger[id]
          \/ ledger'[id] = [servant |-> ledger[id].servant, zombie |-> TRUE]
    /\ UNCHANGED issued

Init ==
    /\ capacity = [s \in {} |-> 0]
    /\ ledger = [id \in {} |-> {}]
    /\ issued = 0

Next ==
    \/ \E gone \in SUBSET DOMAIN capacity : Sweep(gone)
    \/ \E s \in Servants : Issue(s) \/ \E n \in Slots : Offer(s, n)
    \/ \E id \in DOMAIN ledger : Return(id)
    \/ \E s \in DOMAIN capacity : \E ids \in SUBSET Dead : Bury(s, ids)

Spec == Init /\ [][Next]_vars
=============================================================================
