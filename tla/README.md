# A TLA+ development of DAGrail

DAGrail executes a directed graph of work items for several human and LLM
roles. Its whole state is an append-only journal of commands; everything else
(projection, checkpoints, views) is derived from it. Several processes use one
project at once: command-line calls, a daemon, MCP servers and hooks. This
directory models the parts where that can go wrong, checks small instances with
TLC and proves the safety properties of every modelled component with TLAPS.

## The system and its parts

| part | state it keeps | operations | hard because |
|---|---|---|---|
| Command journal (`internal/journal`) | segment files, retirement sidecar, writer lock | open, append once, establish, retire, read, snapshot, restore | several writers; crash or power loss between rename and sync; retries |
| External effects (`service/effects.go`) | effect records, observation lock | prepare, dispatch, reconcile, observe | a call that cannot be undone, unknown results, lost leases |
| Incidents (`service/incidents.go`) | status, budget, circuit | progress, trip, disposition, resolve, supersede | driven by receipts and by roles at once |
| Node lifecycle (`service/actions.go`, `resources.go`, `decisions.go`, `evidence.go`) | nodes, attempts, resources | start, checkpoint, wait, submit, complete, close resource | long legal sequences, retries, capacity |
| Frontier (`domain/types.go`) | none (computed) | ready, blocked, unreachable | skips propagate, predicates, capacity |
| Automatic settlement (`service/automatic.go`) | none | complete joins, skip unreachable nodes | runs after the command that enabled it, in every process |
| Graph changes (`service/graphchange.go`) | graph revision | preview, apply, patch operations | changes the graph under running nodes |
| Role leases (`service/actions.go`) | leases | bind, renew, take over, transfer, release | time passes between check and use |
| Projection, checkpoints, state cache (`internal/projection`, `service.load`) | SQLite cursor, sealed checkpoint, cached snapshot | sync, rebuild, seal, restore | derived state ahead of or behind the journal |
| Project authority (`internal/project`, `service/operations.go`, `recovery.go`) | claims, locators, lineage | init, retire, rotate, relocate | sagas over several directories with crashes |
| Controller daemon (`internal/controller`) | socket, election lock, idle timer | elect, serve, shut down | start-up races, shutdown during requests |
| Explorer (`internal/ui`, `ui/web/app.ts`) | the server's cached snapshot; the page's map, selection, layout worker and timer | load, expand, select, refresh, poll | answers in any order, replaced loads, handlers that suspend |
| CLI, MCP, hooks, harnesses, install, release tooling | mostly none | translate requests, publish bundles | install publishes and rolls back |

Every write of the service has the same shape: load the journal, decide, and
`AppendOnce` with an idempotency key and the head that was loaded. The journal
refuses the append when the head has moved and answers a known key from what is
there. The other parts rest on these two facts.


## Modules

| module | models | role |
|---|---|---|
| `CommandLog` | what the journal promises: one append-only log with fences and unique keys | abstract specification |
| `Journal` | `internal/journal/journal.go`: the segment files, the writer lock, retirement, restore | detailed specification, implements `CommandLog` |
| `JournalProofs` | the inductive invariant and the theorems about `Journal` | TLAPS |
| `JournalRefinement` | `Journal` implements `CommandLog` | TLAPS |
| `EffectPromise` | what `service/effects.go` promises of an effect: one object, in use by one exchange with the adapter at a time | abstract specification |
| `Effects` | `service/effects.go`, `incidents.go` and the owner role around one effect node | component, implements `EffectPromise` |
| `EffectsProofs` | its inductive invariant and its theorems | TLAPS |
| `EffectsRefinement` | `Effects` implements `EffectPromise` | TLAPS |
| `NodePromise` | what the commands, graph changes and settlements promise together: a node starts, ends or is skipped in one step, on the frontier of that step | abstract specification |
| `Lifecycle` | `service/actions.go`, `resources.go`, `graphchange.go`, `automatic.go` and the frontier of `domain/types.go` | component, implements `NodePromise` |
| `LifecycleProofs` | its inductive invariant, the refinement and its theorems | TLAPS |
| `RolePromise` | what the role commands promise together: a lease is taken, renewed, transferred or given back in one step, on the leases of that step | abstract specification |
| `Roles` | the role commands of `service/actions.go` and the rules of `lifecycle_validation.go` for their events | component, implements `RolePromise` |
| `RolesProofs` | its inductive invariant, the refinement and its theorems | TLAPS |
| `Projection` | `service.load` and its cache, `internal/projection`, the daemon's project lock, offline rebuild and restore | component |
| `ProjectionProofs` | its inductive invariant and its theorems | TLAPS |
| `Explorer` | the page `ui/web/app.ts`, the endpoints of `ui/api.go` it calls and `ui/cache.go` | composition of page, server and journal head |
| `ExplorerProofs` | its inductive invariant and its theorems | TLAPS |
| `MCJournal`, `MCEffects`, `MCLifecycle`, `MCRoles`, `MCProjection`, `MCExplorer` | symmetry sets and the graphs of the small instances | model checking |

Operators named in comments as mutants (`AppendOnAnyHead`, `ReadyUnmetered`, ...)
are wrong variants of the definition below them. They are used by no
specification; replacing the definition by its mutant makes TLC report the
property that `PROJECT.json` pairs it with.

### Journal

A variable per piece of persistent state (`disk`, `durable`, `sidecar`,
`backup`), the lock, and per process its program counter, handle capability,
the head its caller loaded (`view`) and the segment being written (`work`).
`OpenFor`, `ReadAll`, `AppendNew`, `AppendReplay`, `EstablishAuthority`,
`RetireAuthority`, `RestoreSegments` are the store's methods up to the temporary
file; `Publish` (rename), `SyncDirectory`, `WriteSidecar`, `FinishRetirement`,
`RestorePublish` and `RestoreSync` are the file operations that follow while the
lock is held. `Fault` (every injected or real I/O error), `Crash` and `PowerLoss`
may come between any two of them.

Abstractions and assumptions:

- A segment is its hash, its predecessor's hash, its key and its request digest,
  and `expect`, the head its caller decided on. A hash covers a fresh command id
  and a timestamp, so hashes are fresh numbers.
- A power loss keeps what was in a synced directory and takes unsynced entries,
  the newest first (ordered metadata).
- Reading is one step, because it happens under the shared lock. The claim of an
  established authority is taken to be valid exactly when the journal starts with
  the fence; the claim files themselves are not modelled.
- The recovery and rehearsal handles are left out. The reader's limit
  `MaxSegmentCount` is kept: `Readable` guards every read, and no append looks at
  it, as in the code.

### Effects

One effect node, its attempts, two sessions. `effect[a]` is the record of the
attempt's effect, `lock[a]` its observation lock, `job[p]` where a process is in
`applyEffectAction` or `ReconcileEffectContext`. Each step between two loads,
appends or adapter calls is an action. `fresh` abstracts the head a process has
loaded: it is true until somebody else commits, and an append needs it
(`HeadIs`). The adapter is external: it answers any receipt of `Receipts`, fails
or says nothing (`Abandon`), and `calls` counts what it was asked.

The owner role may lose its lease by time, release, transfer or takeover at any
point (`Expire`, `ReleaseRole`, `TransferRole`, `BindRole`), lose a capability by
a graph change (`UpdateRole`), and the node may be superseded under its effect
(`SupersedeNode`). An incident's counters stop at the budget, since they are only
compared with it; `updateIncident` is one step because it waits for the lock and
loads again; `incident.manage` is never withdrawn; waiting attempts and
updates of the node's definition between two attempts are left to `Lifecycle`, so
here its retry budget is one constant.

`EffectPromise` has none of the processes, locks, leases, keys and heads. It is
what `CONTEXT.md` (invariants 36 and 37) and the comment in `updateIncident` ask
for: dispatch, reconcile and incident changes are one stream per effect. The
refinement mapping takes as the exchange of an effect what the process with its
observation lock is doing (`Exchange`), and of an incident its status and what it
has spent of its budget (`Circuit`, `Spent`).

### Lifecycle

The nodes of a graph with their status (a finished node shows its outcome
class), the edges, each node's attempts and resource leases, and for every
process its place in `settleAutomatic` (`job`). A command that a role gives is
one step: its action reference or change token is bound to the head it was
offered at, so whatever it read still holds when it is appended. What comes after
it is not one step: `Command` leaves the process in the settlement loop, where
`LoadFrontier`, `SkipNode`, `CompleteNode`, `ReplaySettlement`, `LoseRace` and
`AbandonSettlement` interleave with everything the other processes do.

- A predicate is the set of outcome classes that satisfy it; a skipped source
  satisfies none. There is one kind of resource.
- A node's definition is its kind, what it needs of the resource, its retry budget
  and the node it supersedes; `Definitions` are those a node may ever be given, by
  the import, `AddNode`, `UpdateNode` or `SupersedeNode`. Its title, role, inputs,
  outcomes, parent, lane and group change nothing the model keeps.
- A lease records the quantity its attempt was started with, and the capacity in
  use is counted from the leases.
- The loop takes the first unreachable and the first ready automatic node in
  sorted order; the model takes any.
- A patch of several operations is a sequence of single ones, each of which must
  leave a valid graph. Lanes, groups and contracts change nothing the model keeps
  (`OtherCommand`), nor do checkpoints, evidence and decision records.
- The receipts failed and unknown of a resource are one (`unconfirmed`), the code
  treats them alike. An attempt's incident is only open or resolved: a trip or a
  disposition of it changes nothing else.
- An idempotency key of a settlement is the graph revision and the node; the
  revision is the content of the graph, as in `graphRevision`.
- The amount of the resource in use is counted unit by unit, as the number of
  pairs of a holder and a unit it needs, and not by a sum over the nodes: the
  two are equal, and the first can be reasoned about with cardinalities.
- `ImportGraph` starts with the graph of the instance (`FirstNodes`,
  `FirstEdges`); roles, leases and
  capabilities are in `Effects` and `Roles`.

`NodePromise` has no processes, heads, jobs, keys or leases. It sees the statuses,
the graph, the number of attempts (`number`) and which nodes hold capacity
(`Holding`), and its frontier is written down once more, from those alone. In it
a settlement is one step that looks at the frontier and changes the node; in the
code it is a load, a decision and an append with everything else in between. A
node's definition and its incoming edges change only while it is planned
(`Update`, `Rewire`).

### Roles

The latest lease of every role (`leases`), who has `role.control` (`control`),
the remembered keys with their request and event (`commands`), the head and the
clock. A command of a process in `Callers` is three steps: `Decide` loads the
state and applies the guards of `bindRole`, `transferRole` or `ReleaseRole`,
`AppendOnce` commits on the head of the decision, confirms a key that another
process has committed, or is refused, and `Reload` makes the answer. `Replay` is
the call that finds its key already in the state it loads. Between any two of
them other processes run whole commands (`Prompt`), the clock moves (`Tick`), a
graph change gives or takes the capability (`UpdateRole`) and a process dies
(`Crash`).

- The harness travels with its session; reasons and their limits are left out.
- A takeover is a bind with a stricter guard. The `role.renew` action is a
  renewal whose reference is also bound to a head, so `renew` covers it.
- The clock never goes back. A clock that is set back could bind a lease before
  the one it replaces, which the import of that history would refuse.
- A bind is answered with the role's present lease, on its first call and on a
  retry, which may by then be another session's; renewals and transfers that are
  repeated are answered from their own segment (`Answer`, `Replay`). The
  documents promise exact receipts for the latter and for oversized answers.
- The removal of a role by a graph change is not modelled.

`RolePromise` has the leases, the capability, the clock and the keys that are used
(`Used`), and none of the processes. Its guards read the leases of the moment of
the change; those of `Roles` read the leases of an earlier one.

`Accepts` is translated from the validator of imported histories and not from
the commands: it is what another part of the program demands of the same events.

### Projection

The journal is the sequence of its files' hashes (`Journal` has the steps of a
write), and a state is stood for by the hashes of the segments it was reduced
from. `rows` is the SQLite projection, `sealed` the checkpoint beside it, `cache`
with `mutex` the daemon's shared snapshot, `plock` and `wlock` the two file
locks. A call goes through the steps of its command: `load()` in `LoadShared`,
`LoadLocks`, `ReadCheckpoint`, `VerifyCheckpoint`, `RestoreCheckpoint`,
`ReadSnapshot` (the journal is read and the writer lock given back) and
`ReduceSnapshot` (the result is reduced and the check stamped; the mutex is given
back), or `LoadAuthority` offline, then `AppendOnce` or `RestoreBackup`,
`Sync` and `SealCheckpoint` under one hold of the projection lock, and
`RebuildProjection`, `RebuildDrops`, `RebuildFills`. Each step that takes or gives
back a lock, or reads a file outside of one, is an action of its own.

- A loaded segment is `full` if it was read from its file, and not if it came
  from the checkpoint, which stores sequence, hash and schema only.
- The checkpoint may be refused at any time for what is not modelled: its secret,
  its HMAC, a WAL file beside a read-only projection, other providers.
- The settlement inside an opening is in `Lifecycle`; the validation of the
  authority against the project's claim is not modelled.
- `since` is no state of the program: it is what was in the journal when a load
  began, for `LoadIsJournal`.
- An offline command starts only when no daemon answers; a daemon may start while
  it runs, as in the code.
- A backup's missing segment is a fresh hash.

### Explorer

The page is one thread of event handlers that suspend at every fetch and at the
layout worker's answer; each stretch between two awaits is one action. `req` has
the request of every kind the page can have under way, `load` the load that
`state.controller` belongs to, `workers` the layout workers whose promises still
wait (`current` is false for one whose load was replaced), `cont` the continuation
of a load that ended, which runs before any other handler. `canvas` remembers the
snapshot and the expansion the node layer and the edge layer were drawn from.
The server is `snapshotFor` (`Serve`), `populate` (`ReplayReads`, `Populate`,
`PopulateFails`) and the head endpoint, which reads the journal and the cache at
two moments (`InspectHead`, `CompareHead`).

- A snapshot is the head it was reduced from; groups are flat; a paginated
  request is one exchange.
- A poll that finds the page busy, hidden or in use arms its timer again and is
  no step. One head request is outstanding at a time; in the code a select change or
  a finished load re-arms the timer during a slow one (`app.ts:133`), and then there
  can be two. Search, audit views, zoom, theme and drawing are left out.

## What is checked

| run | instance | result |
|---|---|---|
| `journal_store` | 2 processes, 1 key, 4 writes, 1 power loss, limit 3 segments | the seven invariants hold, `Journal` implements `CommandLog`, the writer lock is given back |
| `journal_retry` | as above, with 3 writes and no limit in reach | `AckedSurvives` is violated (finding 1) |
| `effects_saga` | 2 processes, 1 reconcile key, 2 attempts | dispatch at most once, after its record, by the session with the lease; adapter calls never overlap; success is confirmed |
| `effects_circuit` | 2 processes, 2 reconcile keys, 1 attempt, budget 2 | only a confirmation resolves an incident; the circuit holds; `Effects` implements `EffectPromise`; the lock is given back unless an adapter call never ends |
| `effects_admission` | as above | `ObservationAdmitted` is violated (finding 2) |
| `effects_capability` | as above | `DispatchIsCapable` is violated (finding 3) |
| `lifecycle_nodes` | 2 processes, a task and a decision that compete for one unit of a resource, a join; the task has retry budget 1 or 0, the decision 0, and a graph change may make it a join or the task's repair; 2 attempts, 2 graph changes | `Lifecycle` implements `NodePromise`, and see below |
| `lifecycle_live` | 2 processes, a task, its repair and a chain of two joins, 1 graph change | the loop ends; what a failed settlement left is settled later |
| `roles_leases` | a controller role and a worker role, 3 sessions, 1 process in steps beside whole commands of others, 1 reused key, 4 commands, lease times 1 and 2 | `Roles` implements `RolePromise`; receipts are exact |
| `projection_cache` | 2 requests, 1 offline process, 3 segments, 1 power loss | loads are the journal; the cursor goes forward; some call can always go on |
| `projection_history` | as above, 2 segments | `LoadedIsComplete` is violated (finding 4) |
| `explorer_page` | a node in a group and a global node, 2 heads, 2 events among appends, faults and user inputs | the canvas is the latest load, the inspector the last pick, the page is given back, the poll goes on |

`lifecycle_nodes` shows that a node which started or was completed did so on
satisfied predicates and no later change takes that away (`StartedOnInputs`), a
skip stays justified (`SkipIsJustified`), the capacity is neither exceeded nor
leaked (`CapacityRespected`, `NoOrphanLease`, `ReleasedByConfirmation`). A start is
one step on the present head, so `CapacityRespected` is about the guard of a start
over retries, closures and graph changes; that of two racing starts one is refused
is the head comparison of the append (`DecidedOnHead` in `journal_store`).
`RetriesBounded` says that a node never has more attempts than one more than the
largest retry budget it may declare. It does not say "than it declares now", which
is false: see the behaviours below. `PromiseSpec` says
that nobody can tell the concurrent settlement loops from one that looks and
commits in one step; a settlement that the reducer would reject (`ReducerAccepts`,
proved) is no step of the promise.

`PromiseSpec` in `roles_leases` says the same of role commands, whose decision may
be stale when they append, be repeated under its key or be overtaken by the clock.
`HistoryRevalidates`, which is proved, relates two parts of the code that were
written apart: what the commands decide, and what the validator of imported
histories demands of an event on the state it is applied to.

`LoadIsJournal` says that a load is a prefix of the present journal, whichever of
the four sources (cache, another load's check, checkpoint, replay) it came from,
and that it misses nothing the journal had when the load began. One case is
excepted, because the code does not keep it: a query that begins while another
load has read the journal and is still reducing may share that result, and then
has at least what the other has read (`Sharable`). A command shares nothing. `SomeCallGoesOn`
is deadlock freedom over the mutex and the two locks, which a rebuild and a load
take in different orders: `Free` spells out what a call waits for, and the
property says that it is exactly what enables the call's next step, and that the
calls under way are never all waiting (`NoWaitCycle`).

`CanvasIsLatest` and `DetailIsLastPicked` are about answers out of order;
`BusySettles` about loads whose worker was terminated, so that their promise never
settles: the busy flag must be cleared by the load that replaced them.

### Bounds

Two processes give every race of the code: a compare-and-swap has one winner,
and a lock one holder. Four writes are an establishment fence, a command and a
retirement, one of them written again after a loss or a restore, or a fourth
segment, which is past the limit of three and makes the journal unreadable. One power loss is enough because it kills every process
and a second one meets the same kinds of state. `MaxAttempts` is 2
in `lifecycle_nodes`, which is above what the decision's budget of 0 allows, so
that the budget, and not the bound, stops its retry, and is what the task's budget
of 1 allows, which a graph change may lower to 0 between the two attempts; `AttemptBudget` is 2 as in the code. Two graph changes allow a
removal followed by a re-addition, and a supersession followed by a change under
the replacement. `MaxSegmentCount` is far smaller than the constant of the code,
`MaxWrites`, `MaxLosses`, `MaxAttempts` and `MaxChanges` are bounds of the model
only. Four commands of `Roles` are two binds, a transfer and one that comes
between its decision and its append, and the clock reaches the expiry of the
shorter lease. Three segments of `Projection` give a cursor behind, level with and
ahead of a load. Two events of `Explorer` are a load
and the one that replaces it, or two picks, with every order of answers and
another page beside them; the three invariants of the page also hold with three
events, where the liveness properties take too long. Processes, sessions, requests
and keys are symmetric in the runs without liveness.

### Fairness

- `Journal!FairSpec`: a process inside the writer lock continues. Its remaining
  steps are file operations that wait for nobody; errors and death release the
  lock as well.
- `Effects!FairSpec`: a call under the observation lock continues or gives up
  while it is not in the adapter (`AtAdapter`); those steps are local. Nothing is
  assumed of an adapter call, because nothing bounds it: a daemon's dispatch runs
  with `context.Background()` (`effects.go:169`), the Git adapter starts its
  command without a context (`effects/git.go:241`), and the daemon's outbox and
  shutdown wait for jobs without a limit. `EffectLockReleased` therefore says that
  the lock comes back or its holder is in the adapter for ever.
- `Lifecycle!FairSpec`: the settlement loop of a process continues; an append
  that finds another head fails and ends it (`LoseRace`).
- `Lifecycle!RepairSpec` adds, for `UnsettledIsRepaired` only, that the project is
  opened again and again (every command-line call opens it) and that a process
  which infinitely often reaches its append does not lose the race or fail every
  time. Without the second part two processes may defeat each other for ever;
  the code retries neither and promises no more.

- `Explorer!FairSpec`: the server answers what it was asked and a replay ends,
  the page takes up what has arrived, a live worker lays out, an armed timer
  fires. Users, writers and other pages may stop, and nothing is assumed of a
  terminated worker. An idle page with automatic refresh off may rest, so
  deadlock is not checked there.
- `Roles` and `Projection` have safety properties only and assume no fairness.

## What is proved

`JournalProofs` proves for every set of processes, keys and intents, every limit
and every number of writes and power losses:

- `TypeCorrect`: `TypeOK`;
- `ChainNeverBreaks`, `KeysCommitOnce`, `DecisionsAreFresh`, `RetirementIsFinal`:
  the shape of the journal;
- `SidecarIsFenced` and `CreatedIsDurable`: what a power loss cannot undo.

All rest on `StoreInvariant`, `Spec => []IInv`. `IInv` is `TypeOK` with three
parts. `LockInv` ties the program counters to the lock. `WorkInv` says what a
process inside a write may rely on: a staged draft is chained to the present
head, its key is unused and there is no retirement (nobody else could write since
it was taken, by `LockInv`); a process that writes the sidecar has a durable
fence behind it; a restore is at a prefix of its backup. `StoreInv` has the shape
of `disk` and also of `backup`, because a restore copies one into the other, and
that one hash names one segment, because a restore compares hashes only. The four
shape invariants are proved together: that a retirement is last needs that keys
are unique, and that a draft extends the chain needs the head it was decided on.
The only assumption is `JournalConstants` (the process that holds no lock and the
two fence keys are not in the other sets, bounds are natural numbers), which TLC
evaluates in the journal's runs.

`JournalRefinement` proves `StoreImplementsLog`, `Spec => LogSpec`: under `LogOf`,
which keeps a segment's key and intent, the rename of an append or of a restore
is a commit, a directory sync is a sync, a power loss loses an unsynced tail, and
every other step is invisible. That the commits are legal (fresh key, not retired,
the fence first) follows from `IInv`. Two consequences are stated for a caller:
`SyncedIsForever`, that no step of any kind changes or removes a segment that a
directory sync has covered, and `AnswersNeverDisagree`, that the calls which created
the segment of a key or confirmed it with a sync of their own never name two
different segments, which needs both that a created segment survives and that a key
is committed once. Replayed answers, which finding 1 is about, are not in it.

`EffectsProofs` proves `SagaTypeOK`, `EffectDispatchedOnce`,
`AdapterCallsExclude`, `SuccessStaysConfirmed`, `IncidentsResolvedByConfirmation`,
`DispatchedBySession`, `BudgetAlwaysTrips` and `CircuitAlwaysHolds` from
`SagaInvariant`. Its `IInv` adds to `TypeOK` the shape of the node and of each
attempt's effect and, per process, `JobInv`. Two ways of ownership make it
inductive: only the process with the observation lock changes an effect, so what
it read of the effect still holds when it appends; a process that decided without
the lock, or on the owner's lease, is bound to the head it loaded, and every
commit of another makes that head stale, which is what `Stale` does to its job.
The action properties follow from a lemma that says which actions may change an
effect's status, its incident or its call count (`WhoChanges`).

`EffectsRefinement` proves `SagaKeepsPromise`, `Spec => PromiseSpec`, as
`JournalRefinement` does for the journal. An exchange begins with the dispatched
or the reconciling command, goes from question to receipt with the adapter call,
and ends with the observation or with nothing; roles, the node, the preparation
and the admission of a call are invisible. Two things had to be added to `IInv`
(`AskedInv`): a request that is retried finds its `/begin` command, so its effect
is on record already although the retry records nothing, and so is the effect of
every receipt. That the lock belongs to whoever is in the exchange makes the
management of an incident wait for it (`ManageRefines`). The promise also keeps
the incident's budget: receipts and reports spend it, the last failure trips the
circuit, and only a role's retry gives it back (`ObservedJudges`).
`ConfirmationIsFinal` is read off the promise: a confirmed effect stays confirmed,
the adapter is not told to act on it again and its incident stays closed. The one
step that could act is the answer to a dispatch, and that effect is on record as
dispatched (`DispatchOnRecord`).

`LifecycleProofs` proves `LifecycleTypeOK`, `StartsStayJustified`,
`SkipsStayJustified`, `CapacityNeverExceeded`, `LeasesStayReachable`,
`CapacityReturnsByConfirmation`, `RetriesStayBounded`, `SettlementsAreAccepted`,
`NodesKeepPromise`, `OutcomesStand` and `SettlementsAreNew` from `LifecycleInvariant`, for every finite set of nodes and every set of
possible edges and definitions. The run's invariants are inductive together with
three facts:

- `BudgetInv`: a node that is planned or absent has had no more attempts than the
  largest budget it may declare, because `MayRetry` counts the attempts before the
  node is planned again; an update or a removal changes the definition and keeps
  the attempts;
- `GraphInv`: exactly the nodes of the graph have a definition, with a retry budget
  they may declare, and an active lease holds what the definition of its node says, since the
  definition of a node that has started is frozen;
- `JobInv`: while its head is fresh, a process in the settlement loop holds a node
  of which the frontier still says what it said. A commit makes the other
  processes stale (`CommitJobs`), and a stale one cannot append.

That starts and skips stay justified rests on an order nobody wrote down in one
place: a node leaves "planned" only on finished sources, a finished node changes
only by being superseded (the invariants say so of its dependents), and edges into a
node change only while it is planned. The capacity argument is
`UnitsInUse`: what is in use is the cardinality of the held units, a start adds
exactly its need and records it as the quantity of the lease, and a close or a confirmed release removes only what its node
held. A node that holds capacity can be neither finished nor superseded.

`NodesKeepPromise`, `Spec => PromiseSpec`, is proved action by action. A command is
one step of the promise; a settlement is one when it is appended, because the head
of its decision is still the present one and `JobInv` then gives the frontier of
this step, not of the load; loads, lost races, replays and deaths are invisible.
`OutcomesStand` follows from the promise alone: a recorded outcome is never replaced
or planned again. `SettlementsAreNew` follows from that in turn. The idempotency
key of a settlement is made of the graph revision and the node, and graph changes
can bring an old revision back; but the node of a spent key has its outcome for
good, so a settlement decided on the present head is never answered as a replay.
(Callers are assumed not to choose keys that begin with `skip/` or `auto/`.)

`RolesProofs` proves `RolesTypeOK`, `AnswersAreExact`,
`CommittedHistoryRevalidates`, `RolesKeepPromise` and `RolesAreKept` from
`LeaseInvariant`. `Accepts`, the import's rule
for an event, reads the leases and the event's own times but not the clock; and
what makes it true, the leases and the capability, changes only with the head. So
the event a process has decided on is accepted for as long as its head is the
present one (`CallerInv`), however far the clock has moved, and an append on
another head is refused. The third part, `LeaseInv`, says that no lease begins in
the future: here the assumption that the clock does not go back is used, and
without it the theorem is false.

`RolesKeepPromise`, `Spec => PromiseSpec`, needs more of a decision than that its
event is acceptable (`DecidedInv`): it grants from an instant that is not before the
lease it replaces, and the promise judges the step at that instant, at which that
lease had run out, is renewed by its own session or is handed over by a controller,
however much later the append comes.
`RolesAreKept` follows: a session loses an active role only once its lease has run
out or by the decision of another role, a controller with a live lease.

`ProjectionProofs` proves `DerivedTypeOK`, `LoadsAreJournal`,
`CursorNeverGoesBack` and `LocksNeverCycle` from `DerivedInvariant`. `CacheInv` says
that the cached segments are a prefix of the journal; `CallInv` says the same of
what a call has in its hands, which it may rely on while it owns the mutex or a
lock, and that what a finished check left for the calls that wait has what each of
them must not miss. A load between its read and its stamp (`ReadSnapshot`,
`ReduceSnapshot`) has in its hands what every query that began since may be
answered with, and `ActorInv` says why no command is among those calls: beside a
command no other request runs. A checkpoint is believed
only after the prefix was compared with the files, and is restored only into an
empty cache, under the mutex; a power loss, which shortens the journal, ends every
process and with them every cached prefix.

`LockInvariant` says where the holder of each of the three locks is (`HoldInv`), and
that only the commands that write come to an append (`Shape`). From it
`LocksNeverCycle`, `Spec => []NoWaitCycle`: the holder of the projection lock is
filling or sealing and waits for nobody, that of the writer lock waits at most for
the projection lock, that of the cache mutex at most for either; if no lock is
held, every call is free. `StepIsFree` proves that a waiting call has no step; that
a free one has one is TLC's part of `SomeCallGoesOn`.

`ExplorerProofs` proves `PageTypeOK`, `CanvasStaysLatest` and
`DetailStaysLastPicked` from `PageInvariant`. `RequestInv` ties what is in
flight to the load that asked for it, `LayoutInv` says that at most one worker is current, that it
lays out the expansion the page shows, and that no worker is current while a
load is under way: the expansion changes only with a load, and a load makes every
worker stale. `DetailInv` says that a detail is in flight only for a node that was
picked, so that an answer to an earlier pick never reaches the inspector.

Together these state every safety invariant, every action property and all four
refinements of the passing runs, but for half of `SomeCallGoesOn`, for all values of
the constants. The assumptions are
those each module names (`EffectsConstants`, `LifecycleConstants`,
`RolesConstants` with `NoCommandIsNone`, `ProjectionConstants`,
`ExplorerConstants`), and TLC evaluates them in the runs. They say that markers
such as `NoProc` are not members of the sets they are used beside and that bounds
are natural numbers, and two things more. `LifecycleConstants` takes the nodes to
be finite and, as the validation of every graph requires (`domain/types.go:400`), no
definition to need more than the capacity; `Explorer`'s nodes are not named like its other request slots.
Each `IInv` was first checked by TLC on the instance of the component's run.

Only model-checked:

- the liveness properties `LockReleased`, `EffectLockReleased`,
  `SettleTerminates`, `UnsettledIsRepaired`, `BusySettles` and `PollKeepsRunning`,
  because the prover does not handle fairness;
- the half of `SomeCallGoesOn` that is stated with `ENABLED` (the other is
  `LocksNeverCycle`);
- the findings below, which are counterexamples.

## Findings

1. `journal_retry`. The exact retry of an append through an open handle is
   answered from the visible file without syncing the directory, while
   `docs/recovery.md` says that a retry reconfirms the namespace entries. A power
   loss can then take an acknowledged segment. Opening a handle does sync, so a
   command-line call per retry is not affected; a long-lived process is.
2. `effects_admission`. `CONTEXT.md` says each observation consumes one
   admission. A reconcile retried with its key finds its `/begin` command, records
   no new admission, asks the adapter and records an observation.
3. `effects_capability`. `CONTEXT.md` says every mutation rechecks the lease and
   the capability. Between the prepared and the dispatched command only the lease
   is rechecked.

4. `projection_history`. `docs/operations.md` says that `history` returns command
   metadata, and ADR 0022 that a restart may make a query slower but change
   nothing. A restarted daemon restores its prefix from the checkpoint, which has
   no commands and events, and keeps it in every later load: history lists empty
   kinds, and receipts that are looked up in the segments are not found.

Behaviours the models have that no run calls wrong, because the documents leave
room or because they need an unlikely fault:

- The append past `MaxSegmentCount` succeeds and makes the journal unreadable.
- A load stamps its check after it has reduced what it read (`service.go:454` and
  `459` or `482`). An offline append or restore in between is missed by a query that
  starts after it and waits for that load, until the next load, although the comment
  at `service.go:432` says that there is no window in which an external append is
  silently ignored.
- A node that a retry has planned again may be given a smaller retry budget by
  `updateNode` and still start: `node.start` does not look at the budget
  (`actions.go:1198`), so it then has more attempts than it declares.
- An adapter call that never ends keeps its effect's observation lock.
- When a power loss takes a segment that the projection has applied, `Sync` is
  silent while the cursor is ahead and then, level with the next append, reports a
  conflict at every opening. `projection rebuild` opens the project too, so the
  step that `docs/recovery.md` names cannot run; removing the database can.
- The Explorer's head poll compares the journal with the server's cache
  (`ui/api.go:432`). Once another page has refreshed that cache, an idle page is
  told that nothing changed and stays behind (`docs/ui.md:93` says the poll
  advances it).
- Collapsing a group while one of its nodes is selected keeps the node as focus
  (`app.ts:88`); the server expands its ancestors again, the edge index does not
  match and the load fails, so the canvas keeps the expanded group.
- An address with `node=` selects the node but never opens the inspector
  (`app.ts:107`, `app.ts:148`), and a detail that arrives after the inspector was
  closed opens it again (`app.ts:98`, `app.ts:142`).
- A receipt that loses the race of its observation is dropped and asked for again
  by the next reconcile (`effects.go:367`), and a confirmed effect may be completed
  with a retryable outcome (`actions.go:1318`).

## Not modelled, and why

`PROJECT.json` lists every component with its state. Left out for good: views and
queries (read-only), command-line parsing, rendering, layout of groups, Git and
harness adapters (external), signing and release tooling.

The program is written in Go; its JavaScript is the Explorer. Of the JavaScript
in the repository, `ui/static/layout-worker.js` (6317 of about 6600 lines) is the
vendored ELK layout engine, compiled from Java, and `ui/static/app.js` is the
bundle made from `app.ts`: third-party and generated code that the Explorer model
treats as "the worker answers, fails or is terminated". The fixture server and the
build scripts belong to tests and packaging. A measure over JavaScript lines
therefore stays at a few per cent whatever is modelled; the mapped code is
almost all Go.

## Plan

What would extend this development, in this order:

1. A promise for `Projection`: a load as a read of the journal at one moment, with
   its refinement; `LoadIsJournal` is its safety half.
2. `Authority`: claims, locators and lineage over several directories;
   establishment, rotation, relocation, adoption with a crash between any two
   writes. Composes two instances of the promise of `CommandLog`. Invariant: at
   most one authority accepts commands, and a retry finishes the saga.
3. `Controller`: discovery, election, takeover and idle shutdown of the daemon.
4. `Install`: publishing and rolling back a bundle.
5. The rest of the lifecycle import and its proof ledger.
