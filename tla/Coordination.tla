---------------------------- MODULE Coordination ----------------------------
(***************************************************************************)
(* Claims, fences, fenced task writes and gates of one tila project, for   *)
(* tasks that are not enrolled in the managed queue (module ManagedQueue   *)
(* has those).  The project database is single-threaded: every operation   *)
(* below runs in one transaction and is one action; an operation that      *)
(* throws or answers "no" changes nothing and is not an action.  A client  *)
(* may present any fence, so that a request held up in the network, or a   *)
(* fence read from another session's claim, is among the inputs.           *)
(***************************************************************************)
EXTENDS Leases, FiniteSets

CONSTANTS
    Name,           \* the resource names clients use
    Entity,         \* the names that are task ids (created or not)
    TypedName,      \* TypedName[e]: the canonical "<type>:<id>" name of a task
    Existing,       \* the tasks that exist before the behaviour begins
    Lifecycle,      \* the tasks whose type declares a lifecycle
    Gate,           \* gate ids
    NoGate,         \* "there is no gate row"
    Mortal,         \* the sessions that may crash; a crash only silences one
    MaxFence        \* bound: no resource is granted more often than this

ASSUME NameAssumption ==
    /\ Entity \subseteq Name
    /\ Existing \subseteq Entity /\ Lifecycle \subseteq Entity
    /\ TypedName \in [Entity -> Name \ Entity]
    /\ \A d, e \in Entity : TypedName[d] = TypedName[e] => d = e
ASSUME MortalAssumption == Mortal \subseteq Participant
ASSUME MaxFenceAssumption == MaxFence \in Nat

VARIABLES
    fences,     \* fences[n]: current_fence of row n, 0 when there is no row
    claims,     \* claims[n]: the claim row of n, or NoClaim
    work,       \* work[e]: lifecycle of task e, "absent" before its creation
    archived,   \* the archived tasks
    gates,      \* gates[g]: the gate row, or NoGate
    journal,    \* the claim.acquired rows: which fence went to which session
    written,    \* written[e]: the fence of the last fenced write of e, 0 for none
    running     \* the client sessions that have not crashed

vars == <<fences, claims, work, archived, gates, journal, written, running>>

table == <<work, archived, gates, written>>

\* The lifecycle field of a task, by class: "open" work may be dispatched,
\* "working" is under way, "terminal" is over.  Every class but "absent" can be
\* written by a patch; "content" stands for a patch that leaves the field alone.
WorkState == {"absent", "open", "working", "terminal"}
Patch == {"content", "open", "working", "terminal"}

GateRow == [resource: Name, left: 0..MaxTtl, timed: BOOLEAN,
            status: {"pending", "resolved", "cancelled", "timed_out"}]

TypeOK ==
    /\ fences \in [Name -> Nat]
    /\ claims \in [Name -> Claim \cup {NoClaim}]
    /\ work \in [Entity -> WorkState]
    /\ archived \subseteq Entity
    /\ gates \in [Gate -> GateRow \cup {NoGate}]
    /\ journal \subseteq [resource: Name, fence: Nat \ {0}, holder: Participant]
    /\ written \in [Entity -> Nat]
    /\ running \subseteq Participant

-----------------------------------------------------------------------------
(* Names.                                                                  *)

Created(e) == work[e] # "absent"

\* A bare task id stands for the typed name once the task exists; every other
\* name, the id of a task still to be created included, stands for itself.
Canonical(n) == IF n \in Entity /\ Created(n) THEN TypedName[n] ELSE n

NamesEntity(n) == \E e \in Entity : Created(e) /\ Canonical(n) = TypedName[e]

-----------------------------------------------------------------------------
(* Fences and gates, as the guards of the writes read them.                *)

\* Mutants of FenceHolds: any issued fence will do, and nobody needs to hold the task.
FenceHolds_AnyIssued(n, f) ==
    /\ fences[Canonical(n)] >= f
    /\ NamesEntity(n) => Live(claims[Canonical(n)])
FenceHolds_Unclaimed(n, f) == fences[Canonical(n)] > 0 /\ fences[Canonical(n)] = f

\* The fence row exists, carries exactly this fence, and for a task there is a
\* live claim.  Who holds that claim is not compared with the caller.
FenceHolds(n, f) ==
    /\ fences[Canonical(n)] > 0
    /\ fences[Canonical(n)] = f
    /\ NamesEntity(n) => Live(claims[Canonical(n)])

TimedOut(row) == row.timed /\ row.left = 0

Unresolved(row, n) == row # NoGate /\ row.resource = n /\ row.status = "pending"

\* Some gate on one of these names is pending and has not timed out.
GateBlocked(G, N) ==
    \E g \in Gate, n \in N : Unresolved(G[g], n) /\ ~TimedOut(G[g])

\* Mutant of GatesSettled: the check only reads.
GatesSettled_ReadOnly(G, N) == G

\* A gate check also settles the timer gates it finds expired.
GatesSettled(G, N) ==
    [g \in Gate |->
        IF \E n \in N : Unresolved(G[g], n) /\ TimedOut(G[g])
        THEN [G[g] EXCEPT !.status = "timed_out"] ELSE G[g]]

-----------------------------------------------------------------------------
Init ==
    /\ fences = [n \in Name |-> 0]
    /\ claims = [n \in Name |-> NoClaim]
    /\ work = [e \in Entity |-> IF e \in Existing THEN "open" ELSE "absent"]
    /\ archived = {}
    /\ gates = [g \in Gate |-> NoGate]
    /\ journal = {}
    /\ written = [e \in Entity |-> 0]
    /\ running = Participant

\* Re-acquiring one's own live claim extends it and keeps its fence and mode.
AcquireHeld(p, n, ttl) ==
    LET r == Canonical(n) IN
    /\ Live(claims[r]) /\ HeldBy(claims[r], p)
    /\ claims' = [claims EXCEPT ![r] = Renewed(@, ttl)]
    /\ UNCHANGED <<fences, journal, running, table>>

\* Mutants of AcquireNew: the fence of an ended claim is used again, and the row
\* of an expired claim is kept when the fence is bumped.
AcquireNew_ReusesFence(p, n, mode, ttl) ==
    LET r == Canonical(n)
        f == IF fences[r] = 0 THEN 1 ELSE fences[r]
    IN
    /\ ~Live(claims[r])
    /\ f <= MaxFence
    /\ fences' = [fences EXCEPT ![r] = f]
    /\ claims' = [claims EXCEPT ![r] =
                    [holder |-> p, mode |-> mode, fence |-> f, left |-> ttl]]
    /\ journal' = journal \cup {[resource |-> r, fence |-> f, holder |-> p]}
    /\ UNCHANGED <<running, table>>
AcquireNew_KeepsRow(p, n, mode, ttl) ==
    LET r == Canonical(n)
        f == fences[r] + 1
    IN
    /\ ~Live(claims[r])
    /\ f <= MaxFence
    /\ fences' = [fences EXCEPT ![r] = f]
    /\ claims' = [claims EXCEPT ![r] = IF @ # NoClaim THEN Renewed(@, ttl)
                    ELSE [holder |-> p, mode |-> mode, fence |-> f, left |-> ttl]]
    /\ journal' = journal \cup {[resource |-> r, fence |-> f, holder |-> p]}
    /\ UNCHANGED <<running, table>>

\* Every other successful acquire bumps the fence and replaces the claim row.
AcquireNew(p, n, mode, ttl) ==
    LET r == Canonical(n)
        f == fences[r] + 1
    IN
    /\ ~(Live(claims[r]) /\ HeldBy(claims[r], p))
    /\ ~Refuses(claims[r], p, mode)
    /\ f <= MaxFence
    /\ fences' = [fences EXCEPT ![r] = f]
    /\ claims' = [claims EXCEPT ![r] =
                    [holder |-> p, mode |-> mode, fence |-> f, left |-> ttl]]
    /\ journal' = journal \cup {[resource |-> r, fence |-> f, holder |-> p]}
    /\ UNCHANGED <<running, table>>

Acquire(p, n, mode, ttl) == AcquireHeld(p, n, ttl) \/ AcquireNew(p, n, mode, ttl)

Renew(p, n, f, ttl) ==
    LET r == Canonical(n) IN
    /\ Live(claims[r]) /\ HeldBy(claims[r], p)
    /\ fences[r] > 0 /\ fences[r] = f
    /\ claims' = [claims EXCEPT ![r] = Renewed(@, ttl)]
    /\ UNCHANGED <<fences, journal, running, table>>

\* Releasing an expired row that no sweep has deleted still works; the fence
\* stays, so it remains the current fence of an unclaimed resource.
MayRelease(p, n, f) ==
    LET r == Canonical(n) IN
    HeldBy(claims[r], p) /\ fences[r] > 0 /\ fences[r] = f

Release(p, n, f) ==
    /\ MayRelease(p, n, f)
    /\ claims' = [claims EXCEPT ![Canonical(n)] = NoClaim]
    /\ UNCHANGED <<fences, journal, running, table>>

\* A task starts in any state its schema allows, a terminal one included: what
\* creation checks is the shape of the data, never a gate, although one may be
\* pending on the bare id already.  Without the field a task is no work to be
\* dispatched, like "working".
CreateEntity(e, state) ==
    /\ ~Created(e)
    /\ state \in WorkState \ {"absent"}
    /\ work' = [work EXCEPT ![e] = state]
    /\ UNCHANGED <<fences, claims, archived, gates, journal, written, running>>

\* The names whose gates a terminal update looks at: the id, and the typed name
\* too when the type declares a lifecycle.
UpdateGateNames(e) == {e} \cup (IF e \in Lifecycle THEN {TypedName[e]} ELSE {})

\* Only a patch to a terminal value looks at gates.
MayUpdate(e, f, patch) ==
    /\ Created(e)
    /\ FenceHolds(e, f)
    /\ patch = "terminal" => ~GateBlocked(gates, UpdateGateNames(e))

UpdateEntity(e, f, patch) ==
    /\ MayUpdate(e, f, patch)
    /\ gates' = IF patch = "terminal"
                THEN GatesSettled(gates, UpdateGateNames(e)) ELSE gates
    /\ work' = [work EXCEPT ![e] = IF patch = "content" THEN @ ELSE patch]
    /\ written' = [written EXCEPT ![e] = f]
    /\ UNCHANGED <<fences, claims, archived, journal, running>>

MayArchive(e, f) == Created(e) /\ FenceHolds(e, f) /\ ~GateBlocked(gates, {e})

ArchiveEntity(e, f) ==
    /\ MayArchive(e, f)
    /\ gates' = GatesSettled(gates, {e})
    /\ claims' = [claims EXCEPT ![TypedName[e]] = NoClaim]
    /\ archived' = archived \cup {e}
    /\ written' = [written EXCEPT ![e] = f]
    /\ UNCHANGED <<fences, work, journal, running>>

CreateGate(g, n, f, timed, timeout) ==
    /\ gates[g] = NoGate
    /\ FenceHolds(n, f)
    /\ gates' = [gates EXCEPT ![g] =
                    [resource |-> n, left |-> timeout, timed |-> timed,
                     status |-> "pending"]]
    /\ UNCHANGED <<fences, claims, work, archived, journal, written, running>>

\* Resolving and cancelling need a permission, never a fence.
SettleGate(g, status) ==
    /\ gates[g] # NoGate /\ gates[g].status = "pending"
    /\ gates' = [gates EXCEPT ![g].status = status]
    /\ UNCHANGED <<fences, claims, work, archived, journal, written, running>>

\* Listing gates settles every expired timer gate of the project.
ListGates ==
    /\ gates' = GatesSettled(gates, Name)
    /\ gates' # gates
    /\ UNCHANGED <<fences, claims, work, archived, journal, written, running>>

Sweep ==
    /\ claims' = [n \in Name |-> IF Live(claims[n]) THEN claims[n] ELSE NoClaim]
    /\ claims' # claims
    /\ UNCHANGED <<fences, journal, running, table>>

\* A client session dies and sends nothing more; no row is touched.
Crash(p) ==
    /\ p \in Mortal
    /\ running' = running \ {p}
    /\ UNCHANGED <<fences, claims, journal, table>>

GateAged(g) ==
    IF gates[g] # NoGate /\ gates[g].left > 0
    THEN [gates[g] EXCEPT !.left = @ - 1] ELSE gates[g]

Tick ==
    /\ claims' = [n \in Name |-> Aged(claims[n])]
    /\ gates' = [g \in Gate |-> GateAged(g)]
    /\ UNCHANGED <<fences, work, archived, journal, written, running>>

ClaimRequest(p) ==
    \E n \in Name :
        \/ \E mode \in Mode, ttl \in Ttl : Acquire(p, n, mode, ttl)
        \/ \E f \in 1..MaxFence, ttl \in Ttl : Renew(p, n, f, ttl)
        \/ \E f \in 1..MaxFence : Release(p, n, f)

EntityRequest ==
    \E e \in Entity :
        \/ \E state \in WorkState : CreateEntity(e, state)
        \/ \E f \in 1..MaxFence, patch \in Patch :
                UpdateEntity(e, f, patch)
        \/ \E f \in 1..MaxFence : ArchiveEntity(e, f)

GateRequest ==
    \/ \E g \in Gate, n \in Name, f \in 1..MaxFence :
          \/ \E timeout \in Ttl : CreateGate(g, n, f, TRUE, timeout)
          \/ CreateGate(g, n, f, FALSE, 0)
    \/ \E g \in Gate, status \in {"resolved", "cancelled"} : SettleGate(g, status)
    \/ ListGates

Next ==
    \/ \E p \in running : ClaimRequest(p) \/ Crash(p)
    \/ running # {} /\ (EntityRequest \/ GateRequest)
    \/ Sweep
    \/ Tick

\* Time passes; nothing else is promised.  Clients and the daily sweep may stop.
Fairness == WF_vars(Tick)

Spec == Init /\ [][Next]_vars
FairSpec == Spec /\ Fairness

-----------------------------------------------------------------------------
(* Properties.                                                             *)

\* A claim row always carries the current fence of its resource, also while it
\* lies expired: whoever bumps a fence (acquireInTransaction) replaces the row
\* in the same transaction, so a live claim never guards a dead fence.
ClaimHoldsCurrentFence ==
    \A n \in Name : claims[n] # NoClaim => claims[n].fence = fences[n]

\* No fence of a resource is ever issued to two sessions, over any sequence of
\* acquires, takeovers, expiries, releases and archives: a fence identifies
\* one tenure (acquireInTransaction, release, archive).
OneHolderPerFence ==
    \A i, j \in journal :
        i.resource = j.resource /\ i.fence = j.fence => i.holder = j.holder

\* Every accepted task write carries a fence that was really issued for the
\* task: a made-up fence, higher than any issued, is refused
\* (assertFence's strict equality, docs/01-DECISIONS.md section 2).
WritesAreAccountable ==
    \A e \in Entity : written[e] > 0 =>
        \E i \in journal : i.resource = TypedName[e] /\ i.fence = written[e]

\* Once a write of a later tenure is accepted, no write of an earlier one is:
\* a session that lost its claim cannot overwrite its successor, however long
\* its request was delayed (updateInTransaction, archive).
WritesFollowFences == [][\A e \in Entity : written'[e] >= written[e]]_vars

\* While a claim is live it passes to another session only between two owner
\* claims of one principal; an exclusive claim never does
\* (acquireInTransaction's conflict rules, sweep, archive).
LiveClaimStaysPut ==
    [][\A n \in Name :
        Live(claims[n]) /\ claims'[n] # NoClaim
        /\ claims'[n].holder # claims[n].holder
            => /\ claims[n].mode = "owner" /\ claims'[n].mode = "owner"
               /\ PrincipalOf[claims[n].holder] = PrincipalOf[claims'[n].holder]]_vars

\* A task that exists becomes terminal or is archived.
Finishes(e) ==
    \/ work[e] \notin {"absent", "terminal"} /\ work'[e] = "terminal"
    \/ e \notin archived /\ e \in archived'

\* An existing task that finishes or is archived leaves no gate on its id
\* undecided, one from before its creation included: a pending one blocks it, an
\* expired timer gate is settled by the same transaction, not left for a later
\* reader (checkPendingGates).  A task that is created finished passes no check
\* and may stand beside a pending gate from its first moment (create).
FinishedWorkHasNoOpenGate ==
    [][\A e \in Entity, g \in Gate : Finishes(e) => ~Unresolved(gates'[g], e)]_vars

\* Crashed clients self-recover within the lease: the claim of a dead session
\* stops being live although it never releases, no sweep runs and other sessions
\* go on as they like (the read-time expiry test, docs/01-DECISIONS.md section 2).
CrashedHolderYields ==
    \A p \in Participant, n \in Name :
        p \notin running ~> ~(Live(claims[n]) /\ HeldBy(claims[n], p))

\* The tables implement the abstract lease: the fence is the epoch, the holder
\* of a live claim the owner, an accepted write an applied change.
Lease == INSTANCE FencedLease WITH
    Resource <- Name, Client <- Participant, Team <- Principal,
    TeamOf <- PrincipalOf, Nobody <- NoClaim,
    epoch <- fences,
    owner <- [n \in Name |-> IF Live(claims[n]) THEN claims[n].holder ELSE NoClaim],
    applied <- [n \in Name |-> IF \E e \in Entity : TypedName[e] = n
                               THEN written[CHOOSE e \in Entity : TypedName[e] = n]
                               ELSE 0]

ImplementsFencedLease == Lease!Spec

-----------------------------------------------------------------------------
(* A statement of the documentation that this code does not keep.          *)

\* Archiving is terminal and always checks gates (the comment in entity-ops.ts
\* archive): a task is not archived while a gate on it, under either of its
\* names, is pending and has not timed out.
ArchiveChecksEveryGate ==
    [][\A e \in Entity :
        e \notin archived /\ e \in archived'
            => ~GateBlocked(gates, {e, TypedName[e]})]_vars
=============================================================================
