----------------------------- MODULE FencedLease -----------------------------
(***************************************************************************)
(* What a claim with a fencing token promises, whatever the tables behind  *)
(* it look like.  A resource has an epoch that only grows, at most one     *)
(* owner, and the epoch under which its content was last changed.          *)
(***************************************************************************)
EXTENDS Naturals

CONSTANTS
    Resource,
    Client,
    Team,       \* the group of clients that may hand ownership to each other
    TeamOf,
    Nobody      \* "no owner", not a client

VARIABLES
    epoch,      \* epoch[r]: how many times ownership of r has been granted
    owner,      \* owner[r]: the client that may act on r now, or Nobody
    applied     \* applied[r]: the epoch of the last accepted change of r

vars == <<epoch, owner, applied>>

Init ==
    /\ epoch = [r \in Resource |-> 0]
    /\ owner = [r \in Resource |-> Nobody]
    /\ applied = [r \in Resource |-> 0]

\* Ownership goes to a client only from nobody or from within its team, and
\* always under a new epoch.
Grant(r, c) ==
    /\ \/ owner[r] = Nobody
       \/ owner[r] # c /\ TeamOf[owner[r]] = TeamOf[c]
    /\ epoch' = [epoch EXCEPT ![r] = @ + 1]
    /\ owner' = [owner EXCEPT ![r] = c]
    /\ UNCHANGED applied

\* Ownership of any set of resources lapses: leases end together.
Lapse(R) ==
    /\ owner' = [r \in Resource |-> IF r \in R THEN Nobody ELSE owner[r]]
    /\ UNCHANGED <<epoch, applied>>

\* A change is accepted only while the resource is owned, under its epoch; it
\* may end the ownership.
Apply(r) ==
    /\ owner[r] # Nobody
    /\ applied' = [applied EXCEPT ![r] = epoch[r]]
    /\ owner' \in {owner, [owner EXCEPT ![r] = Nobody]}
    /\ UNCHANGED epoch

Next ==
    \/ \E r \in Resource, c \in Client : Grant(r, c)
    \/ \E R \in SUBSET Resource : Lapse(R)
    \/ \E r \in Resource : Apply(r)

Spec == Init /\ [][Next]_vars
=============================================================================
