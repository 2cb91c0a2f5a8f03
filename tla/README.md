# TLA+ verification of tila

tila keeps the shared state of a project that several coding agents and people
work on at once: tasks, exclusive claims with fencing tokens, gates, a managed
queue that dispatches tasks to executions, questions, artifacts, records,
signals and a journal.  One project is one SQLite database, inside a Cloudflare
Durable Object (`packages/worker`) or a local file (`packages/backend-embedded`);
every operation is a function of `packages/ops-sqlite` that runs in one
transaction.  Paths below are relative to the repository.

What can go wrong lies between transactions: a request delayed past its lease, a
command that arrives after expiry or recovery, a crashed worker, a sequence of
operations nobody tried.  And it lies between stores: the database and R2, the
database and D1, the server and the host's connector each hold a part of one
fact, and whoever moves it from one to the other can die on the way.  That is
what these modules check and prove.

## Inventory

Sources are in `packages/ops-sqlite/src` unless another package is named.

| Component | State | Operations | Interacts with | Hard part | Correct means |
|---|---|---|---|---|---|
| Claims and fences (`coordination-ops`, `fence-ops`) | claim row and `current_fence` per resource name, `claim.acquired` journal rows | acquire, renew, release; fence check | every fenced write; the sweep | requests delayed past expiry, takeovers inside a principal, expired rows still present, bare and typed names | a fence is one tenure; an old tenure never overwrites a later one; a live exclusive claim is never displaced; a dead holder yields |
| Tasks (`entity-ops`, `managed-work`) | lifecycle field, archived flag, data | create, update, archive | claims, gates, queue | the checks of one write span four tables | writes are accountable to a grant; terminal writes respect gates and managed results |
| Gates (`gate-ops`) | resource, status, timer | create, resolve, cancel, list, the check of terminal writes | tasks, queue readiness | lazy time-outs by whoever reads first | finished work leaves no undecided gate |
| Sweep (`sweep-ops`, `worker/src/lib/sweep`) | none of its own | daily cron | claims, attempts, signals, receipts | races with late commands; one transaction for everything | nothing depends on when it runs |
| Managed queue (`queue-ops`, `queue-internals`) | policy, entries, reservations | configure, enroll, edit, withdraw, claim-next | attempts, readiness, claims | capacity counted by several commands | one unfinished enrollment and execution per task; limits respected when capacity is taken |
| Attempts (`attempt-ops`) | attempt rows, reservations | reserve, accept, started, heartbeat, finish, expiry, automatic retry | claims, tasks, questions, gates | expiry against late results; authority spread over three rows | attempt, claim and fence agree; a slot is evidence of execution; results are permanent |
| Attempt recovery (`attempt-recovery-ops`) | the same | cancellation, suspension, resume, four observations, rebind, retry, forced recovery, session replacement | the same | operators acting on executions whose fate is unknown | no second execution, no lost or rewritten result |
| Attempt corrections (`attempt-correction-ops`) | a link to a follow-up task | record | attempts | none | the link names a finished attempt |
| Questions (`question-ops`, `question-state-ops`) | question, fence and validity | ask, answer, cancel, escalate, supersede | attempts | an answer that outlives the tenure that asked | an answer binds only the tenure that asked |
| Task calls of the clients (`sdk/src/backends/remote`, `backend-embedded`) | a call in progress | update, archive as acquire, write, release | claims, tasks | other sessions and expiry between the requests | a call never writes under another session's claim |
| Readiness (`ready-ops`) | dependency edges, statuses | ready, blocked | queue | cycles, legacy edges, two algorithms for one question | both algorithms agree |
| Idempotency receipts (`do-idempotency-ops`, `queue-internals`, `worker/src/middleware/idempotency`, `worker/src/d1/idempotency-store`) | receipts in the database, answers in D1 | replay, conflict, store, prune | every write with a key | duplicated requests, a crash between two stores, pruning against late retries | one effect per key; an answer is the caller's own |
| Transfer, restore, recovery (`project-transfer-ops`, `queue-backup-ops`, `project-recovery-ops`, `worker/src/do/routes/transfer-routes`, `sdk/src/backup`) | transfer lock, chunk receipts, saved fences, archives | begin, promote, prepare, rows, finalize, retarget, abort | everything | clients that die and are replaced while still running; old fences after a restore | no grant of before the restore is good after it; no half-restored project opens; every restore ends |
| Records (`record-ops`, `worker/src/routes/records`) | current value, revisions, search document and fence of a key; canonical snapshots in R2 | create, put, set, patch, archive, unarchive, stamp | claims, R2 | R2 and the hash of a merged patch are awaited around the transaction | no update is lost; the tables and R2 tell one story |
| Journal and archive (`journal-ops`, `journal-archive-ops`, `worker/src/lib/journal-archive`, `admin-ops`) | events, watermark, R2 objects | append, read, write, confirm | everything | overlapping cycles; a crash between R2 and the database | no event is deleted before it is stored, or overwritten after |
| Agent bindings (`agent-binding-ops`) | binding, epoch, run | attach, renew, release, expire, archive | dispatch | stale epochs | one consumer of a mailbox |
| Conversations and dispatch (`conversation-ops`, `conversation-state-ops`) | messages, deliveries, outbox, wake attempts | publish, fetch, acknowledge, resume, lease a wake, report | bindings, connector | late reports, leases that run out, budgets | a report quiets nothing newer; waiting mail wakes the session |
| Connector (`connector/src/connector`) | ledger of registrations and pending wakes | register, tick, reconcile, unregister | dispatch, native sessions | death between the wake and the ledger | a native wake is not repeated, and not waited for in vain |
| Artifact revisions (`artifact-version-ops`, `artifact-lifecycle-ops`, `worker/src/lib/artifact-version-service`, `worker/src/do/routes/artifact-version-routes`) | operations, revisions, lifecycle queue; bytes, commit records and lifecycle records in R2 | reserve, accept, publish, delete, expire, destroy, drain, recover | claims, records | two stores, three actors that die anywhere, a lost database | what is available has its bytes, what is published can be rebuilt, what is retired stays retired |
| Artifact uploads (`artifact-ops`, `worker/src/lib/artifact-service`, `worker/src/routes/artifacts`) | pointers, bytes in R2 | upload, delete, reconcile | sweep | compensation of a registration that may have succeeded | no pointer without bytes |
| Signals (`signal-ops`) | one delivery per recipient | send, acknowledge | sweep | little | one acknowledgement each |
| Executor (`sdk/src/queue-executor`, `claim-handle`) | the wrapper's view of an attempt | one step: read, inspect, renew, call, inspect, read, report | queue, native runtime | everything moves between its awaits; it dies and is restarted | capacity is given back only for what is true of the execution; cancelled work that rests is disposed of |
| Schema, constraints, templates, relationships, catalogue, search, migrations | documents and derived indexes | validation, queries, reindexing | tasks | mostly data | out of scope |
| Worker HTTP layer, client lifecycle, CLI, MCP server, UI | connections, credentials | transport and presentation | all | I/O | out of scope |

The file `PROJECT.json` has the same inventory with its status, and the list of
hazards, each at the line where it bites.

## Modules

| Module | Models | Built on |
|---|---|---|
| `Leases` | the rules of a claim row: live, held, refused, renewed, aged | |
| `FencedLease` | the abstract promise: epoch, owner, applied changes | |
| `Coordination` | claims, fences, gates, unmanaged tasks, sweep, crashes and time | `Leases` |
| `CoordinationProofs` | theorems about `Coordination` and `ClientWrites` | `Coordination`, `ClientWrites` |
| `ClientWrites` | `update()` and `archive()` of both client backends, request by request | `Coordination` |
| `AttemptRows` | queue rows and the helpers every attempt command is composed of | `Coordination` |
| `ManagedQueue` | queue, attempt, recovery and question commands beside the unmanaged requests | `AttemptRows` |
| `Receipts` | one write sent again and again over the two stores of receipts | |
| `JournalArchive` | archive cycles of the sweep and of the administrator | |
| `ArtifactRevisions` | revisions of one lineage: writes, deletion, retention, destruction, rebuilding | |
| `Uploads` | uploads, deletion and reconciliation of one content key | |
| `Dispatch` | one agent's mailbox, its bindings, its wake leases and the host's connector | |
| `Restore` | replacing a project with an archive, with clients that die | |
| `Records` | writes of one keyed record, await by await, over the tables and R2 | |
| `Readiness` | the two walks over the dependency graph, one loop iteration a step | |
| `Executor` | one worker's executor and the runtime it drives | `ManagedQueue` |
| `AttemptProofs` | how the rows of the queue agree, and what the helpers of an attempt command do to them and to the claims beneath | `AttemptRows` |
| `QueueProofs` | theorems about `ManagedQueue` | `ManagedQueue`, `AttemptProofs`, `CoordinationProofs` |
| `ExecutorProofs` | theorems about `Executor` | `Executor`, `QueueProofs` |
| `KeyedWriteProofs` | theorems about `Receipts` and `Records`: writes that are sent again, and writes that overlap | `Receipts`, `Records` |
| `ArchiveProofs` | theorems about `JournalArchive` and `Restore` | `JournalArchive`, `Restore` |
| `RevisionsProofs`, `DispatchProofs` | theorems about `ArtifactRevisions` and `Dispatch` | `ArtifactRevisions`; `Dispatch` |
| `MCCoordination`, `MCClientWrites`, `MCManagedQueue`, `MCExecutor` | instances for TLC | |
| `MCQueueRules`, `MCStores`, `MCProgress` | instances that check several questions in one run, one `subject` at a time: it is chosen at the start, and the state of the others does not move | |

### How state and actions correspond to the code

* *One transaction is one action.*  A Durable Object runs one request's database
  work at a time, and the embedded backend's transactions take the SQLite lock.
  An operation that throws rolls back; it is not an action.  Where the code uses
  several transactions (`execute` in `attempt-ops.ts` expires first and commits,
  whatever the command does; the client calls) the model has several actions.
* *Commands built from helpers.*  `finishInTransaction`, `refence`, `revoke`,
  `transitionTask` and the others each read what the one before wrote.
  `AttemptRows` therefore has them as functions from database contents to
  database contents (`Finished`, `Refenced`, `Revoked`, `Transitioned`), and a
  command of `ManagedQueue` commits the composition.  What would make a helper
  throw is its `May...` predicate, a conjunct of the command.
* *Time.*  The code stores `expires_at` and compares with `Date.now()`.  The
  model stores what is left of it.  `left > 0` is `expires_at > now`; a row with
  `left = 0` is an expired row that nothing has deleted yet, which the code tells
  apart from no row.  `Tick` takes one unit off every row.  Nothing forces a
  command to run before a tick, so every operation may come arbitrarily late.
* *Fences are inputs.*  `Renew`, `Release`, `UpdateEntity`, `ArchiveEntity` and
  `CreateGate` take any fence, so delayed, repeated and made-up requests need no
  message queue: a request that is still on its way is one that has not acted.
  Who sends a write is not an input because `assertFence` does not look at it.
* *Names.*  `Canonical` is `resolveEntityReference`: a bare id means
  `<type>:<id>` once the task exists, and itself before.  So a claim taken under a
  bare id before the creation stays on that id, beside any claim on the task; the two
  rows are two resources, and the properties hold of each.
* *Creation.*  `CreateEntity` creates a task in any lifecycle class, terminal
  included, as the schema check of `create` lets it, and looks at no gate and no
  claim; the review of artifacts that some statuses require is left out.
* *Data.*  The lifecycle field is one of the classes the checks tell apart
  (open, working, terminal); a patch that leaves it alone is `"content"`.
  Documents, tags, search text, schemas and wording are left out.  A patch of a
  managed task without a fence edits its content only and changes nothing here.
* *Order of dispatch.*  Which ready entry claim-next prefers is left open, so
  that the properties hold for every priority and capability rule.
* *Stale revisions.*  A command with an outdated expected revision is refused and
  therefore absent; a command with the current one is the action.
* *Two stores.*  A step that writes R2, D1, the ledger file or a native session is
  an action of its own between the transactions before and after it, and every
  actor that has such steps can die between any two of them (`Fail`,
  `AbandonBatch`, `WriterDies`, `DrainDies`, `UploadDies`, `ConnectorDies`,
  `ClientDies`).  What it held in memory is gone; what it wrote stays.
* *Receipts.*  A key belongs to one route.  `UsesAnswers` and `UsesReceipts` say
  which stores that route has: both (tasks, records), only the receipt (claims,
  agents, rooms), a command receipt that is never pruned (queue), or only D1
  (gates and the other routes that forward no key).  `age` is the clock; a client
  stops retrying after `RetryHorizon`, and a request under way is over after
  `Flight`.
* *Archive.*  A cycle reads the oldest events, writes one object per month and
  confirms.  The clock never runs backwards here, so the old events are a prefix.
* *Revisions.*  The ledger row and the pointer of a revision are one row.  The
  writer's request, the Durable Object's alarm and the sweep are `writers` and
  `drains`; `LoseDatabase` happens at most once, and `RecoverFacts` and
  `ReconcileCommit` are what the reconcile route does for each commit record.
* *Dispatch.*  A run has at most one binding and stands for it.  Leases and
  back-offs end when the clock says so, that is at any time.  The connector's
  variables follow `tick` and `reconcile` from one server call or ledger write to
  the next.  `nudges` counts the native wakes that may have reached the session
  for a delivery it has not fetched.
* *Restore.*  Two chunks, one of fences and claims and one of unfinished work,
  stand for all tables.  `archives["given"]` is any state a running project can
  have been exported in.  `spent` is the highest fence a tenure of the
  destination, or of the archive restored into it, may still hold.  `finalize`
  reads the tables in one go (`CheckDigest`), awaits their digest and opens the
  project in a transaction of its own (`OpenRestored`), which asks again for the
  session alone; whatever other clients of the session send in between is handled.
* *Records.*  A value is a function of its fields and stands for its hash; a patch
  sets some of them, and 0 is a field the value lacks.  `at` is the await a call
  stands at, `seen` the revision and fence its author last learned.  `backend` is
  hosted with revisions, hosted with snapshots in R2, or embedded: the first two
  read row and fence in one transaction, the last in two (`ReadRow`, `ReadFence`),
  which is why the half of `NoUpdateIsLost` about what an author read is about the
  hosted ones.  `EditEnds` is a refusal, a failure of R2 and a death alike.
* *Readiness.*  `search` and `walk` are the local variables of the two functions;
  every action is one iteration of one of their loops, so stacks, low-links and
  colours can be compared with the code line by line.  A task's row, its type's
  lifecycle and its archived flag enter as its kind, which is what the checks tell
  apart.
* *Executor.*  `loop` is the program counter of `advance` with the row it last read;
  an attempt that still has that row stands for a command with the current
  revision, since every change of a row raises it.  `native` is the durable record
  that the adapter's contract asks of the runtime (`queue-executor.ts:38`).
  `Operators` may send every command of the queue at every await; they may be wrong
  about the execution, the executor may not.  `Ends` is a refused command or a
  return without one; the retry after a refusal is the next `Poll`.
* *History.*  `journal` of `Coordination` (the `claim.acquired` rows) and `written` (the fence of
  the last accepted write, an `entity.updated` or `entity.archived` event) exist
  in the code as journal rows; no guard reads them.

## What is checked

The first three runs check deadlock: time can always pass.  In `stores`, `progress`,
`uploads`, `restore`, `opened` and `cancelled` a system whose requests are all answered, whose
numbers are used up or whose time bound is reached has nothing left to do.

| Run | Question | Instance | Distinct states |
|---|---|---|---|
| `claims` | fences, tenures, writes and takeovers; refinement of `FencedLease` | one task, created during the run; three sessions, two of one principal; leases of 1 tick; 3 grants per name | 327,808 |
| `attempts` | exclusive, accounted-for, permanent executions under every command | one task, one entry, two attempts, two sessions, one of them maintainer; 5 fences | 271,654 |
| `rules` | limits that change; questions and their tenures; lifecycle writes of attempts, and gates that time settles; what an executor reports | two tasks and two entries with one session; one attempt, one question, two native sessions, 4 fences; one task, created during the run, one gate on either name; one executor beside a second session, 3 fences | 402,764 |
| `stores` | receipts; journal archive; revisions; mailbox; restore; records: safety of each; readiness: do the two walks agree | three requests, two bodies, one key of each kind of route, time to 3; five events in three months, two cycles; two operations, two contents, two revisions, one lifecycle pass, one loss of the database; two runs and two deliveries, three epochs; one task, two clients, three grants; two authors, two fields, three revisions, one claim, all three backends; graphs of three tasks of five kinds | 1,813,867 |
| `progress` | dead sessions' claims; the requests of `update()` and `archive()` over HTTP; dead workers; waiting mail; restores that end | one task and one mortal session of two, 2 grants and leases of 1 tick; two sessions of two principals, leases up to 2 ticks, 3 grants; one mortal worker; one session, two deliveries; one client, archives without unfinished work | 81,644 |
| `archive`, `local`, `expiry`, `uploads`, `restore`, `opened`, `cancelled` | the findings below | as small as shows them | violated |

**Bounds.**  `MaxTtl` is the longest lease; with 1 tick a lease is live or
expired, which is all a guard distinguishes, and 2 ticks let two leases end in
either order.  `MaxFence` limits how often a name is granted: three tenures are
enough for a first, a second that supersedes it and a third that might confuse
the two.  `MaxGrant` does the same for attempts: five fences cover two attempts,
each refenced, with a retirement between.  Two attempts are one retry; there is
only one entry in `attempts` because entries of different tasks share nothing
but capacity, which `rules` checks with two tasks, and the second entry of a
task needs the first to be finished.  The subject `capacity` of `rules` leaves
out requests beside the queue and cancellations: neither takes capacity; only the
second of its entries may be retried automatically.  It
switches between a policy of one execution without a work-in-progress limit and one of
two executions with one task in progress, so that each finds the other's limit
exceeded.  In its subject about gates the task is created by the run, in any state
and perhaps after its gate, whose author has claimed the bare id for that once and
no longer than until the creation (`OneNewTask`); the other subjects begin by
creating their tasks open.  Symmetry is used only in `claims` (the two sessions
of one principal) and `rules` (the two tasks with their typed names), which have no
liveness property.

Three requests are a first, a retry of it and one that overtakes both, of either
body; `ReceiptTtl` is the sum of `RetryHorizon` and `Flight`, the tightest values
the assumption allows.  Five events in pairs of a month give batches inside a
month, across two and again over events that are already stored.  Two revisions
and two operations give a head and a predecessor, a duplicate, a restore and a
writer that is taken over; one lifecycle pass suffices because two differ from one
that dies and starts again only in work that is idempotent.  With two runs the
mailbox has one delivery, and with two deliveries one run (`OneDelivery`,
`OneSession`): the first is about who consumes, the second about what a report
may quiet.  `OneSession` holds back attachments and publications, never the
connector.  Of requests, operations, bodies and contents that are alike `MCStores`
takes one order.

Two authors with a field each (`EditorAndOwner`) are enough for one write to undo
another, and three revisions for a stamp that comes late by one.  Three tasks give
self-edges, cycles of two and three, and two components with edges between them
in every arrangement, with at most one self-edge and one task without a row or a
status, since the walks treat each such task by itself; "failed" and "closed" are left out of the instance because as
prerequisites they are treated as "working" and "vacant", and are never asked
about.  The executor gets two tenures, the second after a resumption or a recovery, and a
third fence that only ends the attempt; it has one native session,
since a replaced session is a command of its own and left out.

`ReceiptsAssumption` says that receipts outlive the retries of a client: the code
keeps them seven days (`DO_IDEMPOTENCY_TTL_MS`) and the SDK retries within
seconds.  Nothing enforces it, so it is an assumption about callers.

**Fairness.**  `WF(Tick)` and `WF(QueueTick)`: time passes.  `WF(QueueSweep)`: the
daily cron of `packages/worker/wrangler.toml` runs again and again.  No client is
ever assumed to act, so liveness cannot rest on a well-behaved worker:
`CrashedHolderYields` needs time alone (the expiry test at read time), and
`DeadReservationsYield` needs time and the sweep.

`DispatchFairness`: the connector keeps taking steps, as its timer makes it do,
its leases and back-offs run out, and after finitely many deaths it stays up; a
process that dies at every tick delivers nothing.  The session is never assumed to
fetch.  `RestoreFairness`: a client that runs continues with its next request, an
operator resumes or rolls back an interrupted import, and clients stop dying in
the end.  Both are stated with `<>[][...]`, so that any number of deaths comes
before.

`ExecutorFairness`, of the run `cancelled`: the wrapper keeps stepping and stays up in
the end, time passes, and the runtime launches what it was told to launch and
obeys a cancellation.  Nobody else is assumed to act, in particular no operator
repairs what the executor leaves.

**The properties**, by what could be wrong:

* fences: `OneHolderPerFence`, `ClaimHoldsCurrentFence`, `WritesFollowFences`,
  and all of them at once `ImplementsFencedLease`;
* takeovers: `LiveClaimStaysPut`; crashed sessions: `CrashedHolderYields`;
* gates: `FinishedWorkHasNoOpenGate`, for hand-made and for managed writes that
  finish or archive an existing task, gates older than the task included.  A task
  that is created finished passes no gate check and may stand beside a pending gate
  on its id: the property excludes it, because the code does not promise it;
* client calls: `CallsRespectForeignClaims`; requests sent again:
  `WritesCommitOnce`, `AnswersMatchRequests`;
* history: `NoEventIsLost`, `WatermarkSplitsHistory`;
* revisions: `AvailableRevisionsHaveContent`, `RevisionsAreRecoverable`,
  `RetiredStaysRetired`; uploads: `CompensationLeavesCleanState`;
* records: `NoUpdateIsLost`, `TablesAgree`; readiness: `WalksAgree`;
* mailboxes: `TheMailboxHasOneConsumer`, `WakesAreNotRepeated`,
  `ReportsQuietNothingNewer`, `WaitingMailWakesTheSession`;
* restores: `OldGrantsStayDead`, `ResumedImportsAreWhole`,
  `RestoredProjectsAreWhole` (violated), `RestoresFinish`;
* executions: `OneExecutionPerTask`, `SuccessorsComeLater`, `GrantsFollowClaims`,
  `ResultsArePermanent`, `TerminalOnlyWithResult`;
* capacity: `SlotsFollowExecution`, `StartedWorkKeepsItsPlace`,
  `GrantsRespectLimits`; dead workers: `DeadReservationsYield`;
* executors: `ReportsAreTrue`, `CancelledSuspensionEnds`;
* questions: `OpenQuestionsStand`, `AnswersNeverRevive`.

Definitions named `X_...` next to `X` are wrong versions of `X`, each a plausible
slip in the code; with it in place the property it is paired with in
`PROJECT.json` fails, which shows that the property watches that code.

## What is proved

Each theorem holds for every value of the constants, the bounds among them.

### Coordination

`CoordinationProofs` holds for every set of sessions, principals, names, tasks and
gates and for every bound, from the named assumptions of `Leases` and
`Coordination` (typed constants, typed names that are no task ids and differ for
different tasks, "no row" values that are no rows).

| Theorem | Property |
|---|---|
| `TypeCorrect` | `TypeOK` |
| `LedgerHolds` | `Ledger`, the inductive invariant |
| `ClaimsHoldTheirFence` | `ClaimHoldsCurrentFence` |
| `FencesIdentifyTenures` | `OneHolderPerFence` |
| `WritesCarryIssuedFences` | `WritesAreAccountable` |
| `WritesNeverGoBack` | `WritesFollowFences` |
| `LiveClaimsStay` | `LiveClaimStaysPut` |
| `FinishedTasksHaveNoGate` | `FinishedWorkHasNoOpenGate` |
| `TablesImplementLease` | `ImplementsFencedLease` |

*The argument.*  `OneHolderPerFence` is not inductive: it says nothing of the fence
row a new grant is computed from.  `GrantsAreBehind` adds that no journalled fence
exceeds the current one, so `current + 1` is new.  `CurrentFenceIsGranted` adds
that the current fence itself was issued, which makes an accepted write
accountable, because the fence check is an equality with it.  `WritesAreBehind`
adds that a task's last write is not above its current fence, from which
`WritesFollowFences` follows at the next write.  These, with the type invariant,
`ClaimHoldsCurrentFence`, `OneHolderPerFence` and `WritesAreAccountable`, form
`Ledger`.  Its proof sorts the operations into those that leave fences, journal
and writes alone (`QuietStep`), those that accept a write (`WriteStep`) and the
one that grants (`GrantStep`).

*The refinement.*  `Lease` maps the epoch to the fence, the owner to the holder of
a live claim and the applied epoch to `written` under the typed name.  A new grant
is `Grant`; releases, ticks and sweeps are `Lapse` of the resources whose live
claim ends (possibly none); updates and archives are `Apply`; everything else,
renewals included, stutters.  `Grant` needs that a live claim passes only inside
a principal, and `Apply` that the presented fence is the current one and the task
is claimed.

### Client calls

| Theorem | Property |
|---|---|
| `CallsHold` | `CallsInv`, the inductive invariant |
| `CallsObeyCoordination` | `CallsSpec => Spec` |
| `RemoteCallsRespectClaims` | `CallsRespectForeignClaims` |

`CoordinationProofs` goes on with the calls of the backends.  Each request of a call
is a request of `Coordination`, so `CallsSpec` implements `Spec` and the theorems above
hold beside any calls.  A call writes with a fence that `acquire` answered some
requests ago; meanwhile its claim may have expired and gone to others.
`ClaimsAreGranted` says that the holder in a claim row was granted the row's fence, and
`CallsAreGranted` that the session of a call was granted the fence the call remembers.
At the write the fence check makes that fence the current one, so the row under it, if there is
one, was granted to the same session, which is `OneHolderPerFence` again.

All three assume a session (`Participant # {}`); with none there are no calls.
`RemoteCallsRespectClaims` has two more hypotheses, and each is a finding where it
fails.  `Local = {}`: the embedded backend uses the fence of a refused acquire (`local`).
`Existing = Entity`, the tasks exist before the calls: a call begun on a
task that is not there yet acquires its bare id, remembers a fence of that name, and
may write the task that is created next under the number of another's claim, since the
bare id now means another resource.

### Journal archive (`ArchiveProofs`)

| Theorem | Property |
|---|---|
| `ArchiveHolds` | `ArchiveInv`, the inductive invariant |
| `TableFollowsWatermark` | `WatermarkSplitsHistory` |
| `EventsAreKept` | `NoEventIsLost` |

`ArchiveProofs` assumes here typed constants (`JournalAssumption`) and nothing of the
number of cycles.  `NoEventIsLost` is not inductive: a confirmation deletes events
because of objects an earlier step wrote, and a later step could have overwritten
them.  `ArchiveInv` says where a cycle stands (`CyclesReadIntervals`: what it read
is an interval of history that begins no later than the first event above the
watermark; `WrittenIsStored`: what it has written and what lies below the watermark
is in R2) and what an object is (`ObjectsAreSegments`: its name, the month and the
first and last event, determines its rows).  The last is why two cycles that
overlap cannot destroy each other's work: writing a name again writes the same
rows or, when the batch has the same end and begins earlier, a different name.
`ArchivableIsInterval` shows that the row limit takes a prefix of the table;
`ObjectsGrow` that a write of an object loses no row.

### Restore (`ArchiveProofs`)

| Theorem | Property |
|---|---|
| `RestoreHolds` | `RestoreInv`, the inductive invariant |
| `RestoreKillsOldGrants` | `OldGrantsStayDead` |
| `ImportIsWhole` | `ResumedImportsAreWhole` |

These hold for any tasks and clients.  `OldGrantsStayDead` speaks of open
projects only.  `FencesAreKept` says what carries it through a locked one: until the
tables are cleared, what tenures may hold lies below the larger of the tables'
fences and the saved ones; once they are cleared, below the saved ones alone.  A
preparation moves from the first to the second because it saves the larger of the
two, also after a rollback; finalizing raises every fence above both.
`ClientsImport` says that clients replace tables only under an import lock.

`ImportIsWhole` is about a check that is used after an await: the tables must still
be the archive's when they are opened.  `ClientsFit` says that while nobody rolled
back, every client works on the same archive, on tables that were prepared once, and
that the tables a client has verified are still those of the archive.  Another
client could undo that with a chunk that was never sent; `OnlyChunksAreLoaded` says
that a section without a receipt is as empty as the preparation left it, so a chunk
that is missing from verified tables has no rows to insert.  `ChunksFit` says that
an import begins without receipts.  Under a rollback none of this holds, which is
the finding `opened`.

### Records (`KeyedWriteProofs`)

| Theorem | Property |
|---|---|
| `RecordsInvariant` | `RecordsInv`, the inductive invariant |
| `RecordTablesAgree` | `TablesAgree` |
| `UpdatesAreKept` | `NoUpdateIsLost` |

These hold for any authors, fields, data and bounds, from
`RecordsAssumption` (no row and no value are not rows and values).  Every
transaction and every claim on the name raises the fence, and a call commits only
with the current one; so `BasesAreCurrent`, "as long as the fence learned is the
fence of the name, what was read after it is what the tables hold", is kept by
every step of every author, and at the commit it says that the base of the merge
is the value replaced.  `EditsAreWhole` says what a call holds at each await: where
it stands decides which of its value, version and snapshot exist, from which
`TablesAgree` follows at `StampArtifacts`, the step that touches a revision long
after the transaction that wrote it.  In the embedded backend the record is read
before its fence, so for that backend both
say only what a patch merges into.

### Managed queue

`QueueProofs` holds for every set of sessions, tasks, entries, attempts, questions
and policies and for every bound.  It uses the assumptions of `Leases` and
`Coordination` and those of `AttemptRows`: typed constants, identifiers that are
positive numbers, a policy that is enabled only with a slot, `NoRowAssumption` (no
row is not a row), and that starting an attempt does not map to a terminal status,
which the configuration schema refuses (`packages/schemas/src/config.ts:192`).

| Theorem | Property |
|---|---|
| `TheRowsAgree` | `QueueInv`, the inductive invariant |
| `QueueIsTyped` | `QueueTypeOK` |
| `TasksRunOnceAtATime` | `OneExecutionPerTask` |
| `SlotsAreEvidence` | `SlotsFollowExecution` |
| `LeasesAgreeWithClaims` | `GrantsFollowClaims` |
| `StartedWorkIsNotEvicted` | `StartedWorkKeepsItsPlace` |
| `AttemptsSucceedEachOther` | `SuccessorsComeLater` |
| `QuestionsEndWithTheirTenure` | `OpenQuestionsStand` |
| `ResultsStand` | `ResultsArePermanent` |
| `TasksEndWithResults` | `TerminalOnlyWithResult` |
| `LimitsHold` | `GrantsRespectLimits` |
| `AnswersStaySpent` | `AnswersNeverRevive` |
| `QueueKeepsOrder` | `InOrder`, `QueueInv` with the claims beneath |
| `QueueClaimsHoldTheirFence` | `ClaimHoldsCurrentFence` |
| `QueueFencesIdentifyTenures` | `OneHolderPerFence` |
| `QueueWritesNeverGoBack` | `WritesFollowFences` |
| `QueueFinishesPastNoGate` | `FinishedWorkHasNoOpenGate` |

*The invariant.*  None of these properties is inductive alone, because a command
reads one table and writes five: finishing an attempt needs that its entry is the
one the capacity row names, taking a slot needs that no other attempt of the task
holds one, a fresh fence helps only if the old attempt's is behind it.  `RowsAgree`
is what the tables promise each other.  `AttemptsFit`: an attempt that is not over
has an admitted entry of its task, and its predecessor is an attempt of the same
entry with a lower fence.  `OneAtATime`: one unfinished entry and one unfinished
attempt per task, and no admitted entry without one.  `PlacesFit`: capacity rows
belong to unfinished entries, their slot is held exactly in the states `Holding`,
and started work has its row.  `ClaimsFit`: an executing attempt has the current
fence of its task and its claim is `GrantOf` it; any other attempt is behind the
fence.  `FencesFit`: fences tell the attempts of an entry apart and put them in
order.  `TasksExist`: only tasks that exist are enrolled, so a creation, in whatever
state, meets no enrollment.  `QuestionsFit`: an open question has the fence of an attempt that still
stands.  `RowsAreFew`: finitely many rows, which the limits count.
`ExecutionsHaveClaims` is apart, because inside one transaction it does not hold:
the sweep deletes expired claims before it expires the attempts that had them.
`QueueInv` is both at the end of every transaction, with the types of the rest.

*Commands.*  `AttemptProofs` says once what a command on attempt `a` may do:
`RowsMoved(s, d, a)` is that only rows of `a`, its entry, its task and its claim
differ (`Touches`), and that afterwards claim (`ClaimMoved`), place (`PlaceMoved`),
questions and task (`EndsTogether`) fit the attempt's new state.  `MovedRowsAgree`
proves that this keeps `RowsAgree`; each helper (`Revoked`, `Refenced`,
`Superseded`, `Transitioned`, `Finished`, the expiry) has a lemma for what it
returns, and each command of `ManagedQueue` has one that it moves rows so.  The
action properties are carried along in `Keeps(s, d)`: results are kept, lost answers
stay lost, managed tasks end with a result, limits are respected.  Four kinds of step
are not commands on an unfinished attempt and have lemmas of their own: requests
beside the queue (`Beside`: whatever `Coordination` does touches no claim or fence
of an execution, because a live exclusive claim and a managed task refuse it),
entries that are enrolled, withdrawn or retried (`EntryTurned`), a new attempt
(`Begins`), and time (`TimePasses`: claim and attempt run out together).

*The expiry of many.*  `expireInTransaction` and the sweep expire a set of attempts
one after the other; in the model this is a fold.  `ExpiryInduction` shows by
well-founded induction on the size of the set, for this step, that what one expiry
preserves the fold preserves, and `AllExpiredRows` that after it no expired attempt is
executing and nothing else has changed.  Without that, `ExecutionsHaveClaims` after a
sweep would be a matter of the bound.

*The claims beneath.*  The theorems of `Coordination` about fences, writes and gates do
not carry over to the queue by refinement, because its commands are not requests of
`Coordination`: one of them may revoke a grant, take another, write the task and give
the claim back.  The four properties are therefore proved of `QueueSpec` too.
`Books(s)` is what fences, claim rows, grants and writes promise each other in any
contents, inside a transaction as well as between two.  `Carries(s, d)` says that a part
of a transaction from `s` to `d` ends in such books, takes no write back, opens no gate and finishes
no task that still has one.  It composes (`CarriesAgain`), each helper has it, and the
fold of expiries has it by the same induction as above (`AllExpiredCarries`), which is what
`FinishedWorkHasNoOpenGate` needs when one expiry finishes several attempts.  Two
properties of `Coordination` are false here and are not claimed: an operator's `Rebind`
moves a live claim to another principal, against `LiveClaimStaysPut`, and `Revoked`
raises a fence that nobody is granted, so not every current fence is in the journal.

### Executor

| Theorem | Property |
|---|---|
| `ExecutorHolds` | `ExecutorInv`, the inductive invariant |
| `ExecutorObeysQueue` | `ExecutorSpec => QueueSpec` |
| `ReportsHold` | `ReportsAreTrue` |

`ExecutorProofs` assumes a native session to report (`Session # {}`).  By `ExecutorObeysQueue`
the executor and the runtime beside their operators are one more user of the queue, and what is
proved of `QueueSpec` holds of them.  `ReportsAreTrue` compares a command with the
runtime's record at the moment the command commits, awaits after it was
decided from an inspection.  `LoopStands` says what of an inspection stays true through them:
a stopped execution stays stopped, a suspended one is started by nobody else, and an absent one
stays absent until the call itself has asked for a launch, after which it no longer relies on
absence.  `NativeIsLater` says that the runtime knows only attempts that were
accepted; with the fact that no step of anybody makes an attempt a reservation again
(`ReservationsAreFirst`, from `QueueInv`), an attempt that is cancelled while it is a
reservation has never been launched.

### Receipts (`KeyedWriteProofs`)

| Theorem | Property |
|---|---|
| `ReceiptsAreKept` | `ReceiptsInv`, the inductive invariant |
| `KeysCommitOnce` | `WritesCommitOnce` |
| `AnswersAreOnesOwn` | `AnswersMatchRequests` |

These hold for any requests, keys, bodies and times that satisfy
`ReceiptsAssumption` (receipts outlive the retries, see above) and
`NoReceiptAssumption` (no receipt is not a receipt).  `WritesCommitOnce` says
nothing of why a second request finds the first one's write.
`CommittedKeysAreKnown` does: a key whose write has committed has its receipt, or
the receipt was pruned and the key is over (`KeyIsOver`: its client has given up and
no request of it is under way).  For that the ages must be known:
`RequestsAreTimely` says that a request under way was sent within its key's retries
and at most `Flight` ago, `ReceiptsAreDated` that a receipt is no older than its key.
`ResultsMatch` says of every store and every waiting request that the result in it
is that of a write with the same key and body.

### Dispatch

| Theorem | Property |
|---|---|
| `TheLedgerLeads` | `DispatchInv`, the inductive invariant |
| `OneRunConsumes` | `TheMailboxHasOneConsumer` |
| `RecoveryRepeatsNoWake` | `WakesAreNotRepeated` |
| `ReportsRespectNews` | `ReportsQuietNothingNewer` |

`DispatchProofs` holds for any runs, deliveries, epochs and tokens.  A wake may have
reached the session before anything records it, so `WakesAreNotRepeated` rests on the order
ledger, wake, report.  `LedgerLeads` says what the ledger holds at each await of the
connector, in particular that nothing was woken before the token is in it;
`WokenMailIsKnown` that while a woken delivery is unfetched the ledger names the wake, the
server counts the delivery among its unfetched ones, and the outcome is not
`deferred`, the only one after which another lease is asked for.
`DeliveriesAreCounted` says that no delivery is newer than the outbox, from which
`ReportsQuietNothingNewer` follows at a report.

### Artifact revisions

| Theorem | Property |
|---|---|
| `RevisionsHold` | `RevisionsInv`, the inductive invariant |
| `ContentIsKept` | `AvailableRevisionsHaveContent` |
| `RetirementIsKept` | `RetiredStaysRetired` |
| `RecordsAreKept` | `RevisionsAreRecoverable` |

`RevisionsProofs` holds for any operations, contents, passes and numbers of revisions, from typed
constants and `NoRowsAssumption`.  What the database says is
backed by R2 in three steps: a row has its commit record, a commit record has its
bytes or a tombstone (`RowsAreBacked`), and the tombstone is in the row as soon as the row
exists (`RebuildIsOrdered`).  They survive writers and passes that die because each store is
written in one order: bytes before the operation is accepted (`BytesComeFirst`), the
commit record before the row, the tombstone before the bytes go (`FactsAreRows`).
`CommitsAreUnique` is why the second writer of an operation that was taken over
cannot leave a number with two contents, and `OneWriteAtATime` why a new reservation
meets neither a row nor a record of its number.  After a loss of the database the
invariant says how far the rebuilding has come: what is still to do has a commit
record, and no row before its lifecycle records are read.

### Only model-checked

* Liveness (`CrashedHolderYields`, `DeadReservationsYield`,
  `WaitingMailWakesTheSession`, `RestoresFinish`, `CancelledSuspensionEnds`): out of
  reach of the provers, which know neither fairness nor `ENABLED`.
* `WalksAgree`: what the two recursive walks compute, an induction over the graph.
* `Uploads`: its only properties are violated, see the findings.

Every other invariant and action property of the passing runs is a theorem.

## Findings

* **`local`**: `EmbeddedProject.update` and `archive` use the fence in the answer
  to `acquire` without looking at `acquired`
  (`packages/backend-embedded/src/embedded-project.ts:313`).  A refused acquire
  returns the fence of the claim that refused it, so the write succeeds under
  another session's live exclusive claim.  The HTTP backend stops at the 409;
  the same property holds in `progress`.
* **`archive`**: `archive` looks for gates under the bare id only
  (`packages/ops-sqlite/src/entity-ops.ts:1028`), and a gate created under
  `<type>:<id>` does not stop it.
* **`expiry`**: the expiry of a reservation whose cancellation was requested
  finishes the attempt, and the lifecycle write of that outcome throws while a
  gate on the task is pending (`packages/ops-sqlite/src/attempt-ops.ts:450`).
  The expiry of every other attempt, the command that came with it and the sweep
  are rolled back with it, until somebody settles the gate.  `DeadReservationsYield`
  is therefore checked without gates.
* **`uploads`**: an upload that got no answer to its registration twice deletes the
  bytes (`packages/worker/src/lib/artifact-service.ts:149`).  If a try was
  committed and only its answer was lost, or the same content was registered
  before, a live pointer is left without bytes until a reconciliation finds it,
  where `docs/02-ARCHITECTURE.md:865` promises "No blob in R2, no pointer row —
  clean state".
* **`restore`**: a rollback prepares the tables again, and the check that nothing
  is unfinished (`packages/ops-sqlite/src/queue-backup-ops.ts:132`) now reads the
  rows the interrupted import has loaded.  When the archive has unfinished work,
  which `docs/05-OPERATIONS.md:3616` allows, rollback is refused, the lock does not
  expire, and a resume no longer matches the retargeted digest.  `progress` checks
  `RestoresFinish` for archives without unfinished work and with one client; a
  second client that is still sending chunks of the other archive can stop a
  rollback in the same way, because retargeting to the same digest keeps the
  chunks.
* **`opened`**: `finalize` awaits the digest of the tables, and the transaction after
  it (`packages/worker/src/do/routes/transfer-routes.ts:237`) asks only whether the
  session is still the lock's.  A rollback keeps the session: when it retargets the
  lock and clears the tables during the await, the first client's transaction opens
  the cleared project and deletes the lock, where `docs/05-OPERATIONS.md:1088` keeps
  the project hidden "until finalize, resume, or rollback verifies the semantic
  digest".  Clients that all resume the import cannot do this to each other
  (`ResumedImportsAreWhole`).
* **`cancelled`**: the executor asks for a resume grant as soon as an attempt is
  `resume_pending` and returns the refusal
  (`packages/sdk/src/queue-executor.ts:218`).  When a cancellation is requested after
  the resumption, `claimResume` refuses the grant because of it
  (`packages/ops-sqlite/src/attempt-recovery-ops.ts:342`) and the request does not
  take the attempt back to `suspended`; no later step inspects the runtime or asks it
  to cancel, and the suspended execution stays until somebody reconciles or forces
  recovery by hand.  `docs/02-ARCHITECTURE.md:3653` says that "finishing or
  cancelling safely suspended work does not require a new external execution slot".

## Not modelled, and the plan

In this order; each item names the modules, what they would promise and the
theorems worth having.

1. **Proofs**: that the grants of a managed task implement a lease like `FencedLease` whose
   lapses may skip an epoch, as `Revoked` does, and whose owner an operator may replace.
2. **Restore** with blobs, D1 rows and agents' epochs, and the operator's recovery
   context of a project whose database is gone.
3. **Executor**: sessions that the provider replaces, and the claim handle's renewals;
   **Questions**: escalation and corrections; **Dispatch**: rooms, threads and reply
   chains.

Left out for good: presence, signals, attempt corrections, migrations, search, schemas, constraints, templates,
summaries, the HTTP layer, credentials, the lifecycle processes, CLI, MCP server, UI,
bench and scripts.  They carry no authority, or are I/O and data without
interleavings of interest.  They are also most of the repository's lines, so the
modules stand for a small share of it: its transactional core, and the protocols
between its stores.
