---------------------------- MODULE ClientWrites ----------------------------
(***************************************************************************)
(* The task writes clients make without a fence of their own.  update()    *)
(* and archive() of a backend are several requests: acquire an exclusive   *)
(* claim, write under the fence the answer carries, release.  Between two  *)
(* of them other sessions act and the lease runs.  Two backends offer the  *)
(* same calls: the SDK's RemoteBackend over HTTP, and EmbeddedProject on a *)
(* local database file shared by the processes of one machine.             *)
(***************************************************************************)
EXTENDS Coordination

CONSTANTS
    Local,      \* the sessions whose backend is EmbeddedProject
    NoCall      \* "this session has no call in progress"

ASSUME LocalAssumption == Local \subseteq Participant

VARIABLE call   \* call[p]: where session p is in update() or archive()

allVars == <<vars, call>>

\* call[p] is NoCall or one of these.
Call == [step: {"update", "archive", "release"}, task: Entity, fence: 0..MaxFence]

CallsInit == Init /\ call = [p \in Participant |-> NoCall]

Goto(p, c) == call' = [call EXCEPT ![p] = c]

\* The lease update() and archive() ask for: 30 seconds, the longest here.
CallTtl == MaxTtl

\* Mutant of Begin: no backend looks at the refusal.
Begin_Anyway(p, e, kind) ==
    /\ call[p] = NoCall
    /\ \/ /\ Acquire(p, e, "exclusive", CallTtl)
          /\ Goto(p, [step |-> kind, task |-> e, fence |-> fences'[Canonical(e)]])
       \/ /\ Refuses(claims[Canonical(e)], p, "exclusive")
          /\ Goto(p, [step |-> kind, task |-> e, fence |-> claims[Canonical(e)].fence])
          /\ UNCHANGED vars

\* The first request of a call.  The remote one is an HTTP request that answers
\* 409 when the claim is refused, which ends the call.  The embedded one goes on
\* with the fence in the answer, whether or not it says "acquired".
Begin(p, e, kind) ==
    /\ call[p] = NoCall
    /\ p \in Local => Created(e)
    /\ \/ /\ Acquire(p, e, "exclusive", CallTtl)
          /\ Goto(p, [step |-> kind, task |-> e, fence |-> fences'[Canonical(e)]])
       \/ /\ p \in Local
          /\ Refuses(claims[Canonical(e)], p, "exclusive")
          /\ Goto(p, [step |-> kind, task |-> e, fence |-> claims[Canonical(e)].fence])
          /\ UNCHANGED vars

\* The write of update().  When it throws, the remote call still releases and
\* the embedded one is over.
Write(p, patch) ==
    /\ call[p] # NoCall /\ call[p].step = "update"
    /\ \/ /\ UpdateEntity(call[p].task, call[p].fence, patch)
          /\ Goto(p, [call[p] EXCEPT !.step = "release"])
       \/ /\ ~MayUpdate(call[p].task, call[p].fence, patch)
          /\ Goto(p, IF p \in Local THEN NoCall ELSE [call[p] EXCEPT !.step = "release"])
          /\ UNCHANGED vars

\* The best-effort release: an error is swallowed.
EndCall(p) ==
    /\ call[p] # NoCall /\ call[p].step = "release"
    /\ \/ Release(p, call[p].task, call[p].fence)
       \/ ~MayRelease(p, call[p].task, call[p].fence) /\ UNCHANGED vars
    /\ Goto(p, NoCall)

\* The write of archive(), which deletes the claim itself when it succeeds.
Archive(p) ==
    /\ call[p] # NoCall /\ call[p].step = "archive"
    /\ \/ ArchiveEntity(call[p].task, call[p].fence)
       \/ ~MayArchive(call[p].task, call[p].fence) /\ UNCHANGED vars
    /\ Goto(p, NoCall)

\* A session may also hold a claim for longer, as "tila task claim" does.
Hold(p) ==
    /\ call[p] = NoCall
    /\ \E e \in Entity, ttl \in Ttl :
          \/ Acquire(p, e, "exclusive", ttl)
          \/ Renew(p, e, fences[Canonical(e)], ttl)
          \/ Release(p, e, fences[Canonical(e)])
    /\ UNCHANGED call

Background ==
    /\ (\E e \in Entity, state \in WorkState : CreateEntity(e, state)) \/ Sweep \/ Tick
    /\ UNCHANGED call

CallsNext ==
    \/ \E p \in Participant :
          \/ \E e \in Entity, kind \in {"update", "archive"} : Begin(p, e, kind)
          \/ \E patch \in Patch : Write(p, patch)
          \/ EndCall(p) \/ Archive(p) \/ Hold(p)
    \/ Background

CallsSpec == CallsInit /\ [][CallsNext]_allVars

\* A call never changes a task while another session holds a live exclusive
\* claim on it, whatever happened between the call's own requests: either the
\* acquire was refused, or the lease ran out and the fence has moved on
\* ("any different participant conflicts", docs/01-DECISIONS.md section 2;
\* update and archive of both backends).
CallsRespectForeignClaims ==
    [][\A p \in Participant :
        (/\ call[p] # NoCall /\ call'[p] # call[p]
         /\ <<work, archived, written>>' # <<work, archived, written>>)
            => LET c == claims[Canonical(call[p].task)] IN
               ~(Live(c) /\ c.mode = "exclusive" /\ ~HeldBy(c, p))]_allVars
=============================================================================
