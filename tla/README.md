# Verification of the TianGong agent harness

TianGong is an agent system in TypeScript. Its core is `packages/gibraltar`, a
durable harness: conversations, the tasks that work in them, and the documents
they share live in a storage that survives the process, and everything that runs
must be able to stop at any commit and go on in another process. This directory
models that core in TLA+, with the replication of state in `packages/chord` that
shows it to clients, checks it with TLC and proves its main safety results with
TLAPS. Paths below are relative to `src/packages/gibraltar/src/` unless they
start with `packages/`.

## Inventory

### The parts and their state

| Part | State | Operations | Correct when |
|---|---|---|---|
| Session (`session/session.ts`, `transaction.ts`) | tables of conversations, entries, tasks, submissions; documents; one mutation line; document cache | `commit`, reads, `snapshot`, watches, close | commits run one at a time; a commit is whole or nothing; an uncertain commit stops the Session; listeners see every commit once, in order |
| Scheduler (`harness/scheduler.ts`) | task records (durable); invocations, worklists, ownership index (memory) | reserve, step, commit, wait, abort, cascade, finalize, open, resume, join, close | work ends bottom-up; no wakeup, mark or held outcome is lost; waits are acyclic; recovery abandons what it must |
| Submissions and inbox (`harness/submissions.ts`, `inbox.ts`) | submission records, `tg.inbox` | admit, boundary, withdraw | each submission is placed in order, settles once, and never waits for ever |
| Run control (`harness/live.ts`) | `tg.live`: run, partial, slots, compactions | start, hand over, end a run | a conversation is busy exactly while a generation owns its run |
| Generation (`harness/generation.ts`) | checkpoint of the task; stream in memory | prepare, request, retry, poll, tools, abort | requests send what they read; partials and inputs are settled by whoever ends the run |
| Compaction (`harness/compaction.ts`) | checkpoint | select, summarize, retry, place, abort | a summary covers what its cut removes, however late it lands |
| Tool calls (`harness/tool.ts`) | checkpoint, slots, nested calls | intent, execute, recover, settle | a call runs once unless it is safe to replay |
| Context, prompt (`harness/context.ts`, `prompt.ts`) | none | pure reads of entries | the model sees the active range, its sections and its tools |
| Observation (`session/observation.ts`) | queues of frames | watch, drain, overflow | a slow reader gets the latest state |
| Storage (`storage/`) | tables in memory or SQLite | commit, scan | atomic commits, ascending ids |
| Code mode, tools, environments (`codemode/`, `tools/`, `env/`, `packages/codemode`, `packages/env`) | processes, files | run code, edit, execute | outside the model |
| chord state (`packages/chord/src/connection.ts`, `remote.ts`) | feeds and holds of a provider, slots and windows of each link, a consumer's binding | hold, unit, snapshot, operations, reset, error, resync, acknowledge, lose a link | a view reads values the object had, in order, and at rest its current state, unless the last snapshot or reset of it failed |
| chord objects (`packages/chord`, the rest) | objects, cells, code versions | calls, delta encoding, reload | outside the model |
| Providers, MCP (`packages/ai`, `packages/mcp`) | none durable | request, stream | outside the model |
| Guard and server (`packages/sec-guard`, `packages/sec-server`) | grants, pending approvals | decide, ask, reply, close | an approval resolves once |
| Application (`packages/sec-agent`, `packages/tui`, `packages/telemetry`) | screen, plans | - | outside the model |

### How they interact

Hosts call the harness. Every write is a callback that runs alone on the Session's
mutation line and becomes one storage commit. When the commit is durable the
Session calls its internal listeners on the line; the scheduler's listener
(`#observe`) updates its worklists and asks, by microtasks, for passes that are
commits of their own: reconcile (marks, withdrawals, held outcomes) and reserve
(start invocations). Handlers run off the line. They read, wait for models, hooks
and tools, and commit again; between two commits of one handler any commit of
anyone else may come.

### What is hard

The hazards are listed line by line in `PROJECT.json`. In short: reads before a
commit that relies on them; marks, ends and new work that cross each other below
an owner; passes that are asked for while one is queued; a crash between a decision
and what follows from it; summaries and partials that land late; records and inbox
items that must agree though several commits write each.

## Modules

| Module | What it is |
|---|---|
| `TaskScheduler.tla` | the scheduler with the owner checks of transactions |
| `MCScheduler.tla` | its definitions of task definitions for TLC; four configurations |
| `TaskScheduler_proofs.tla` | its types, ownership, ends, restarts, versions and waits, and that it forgets nothing it must come back to |
| `Submissions.tla` | abstract: what a conversation promises to those who submit |
| `Conversation.tla` | inbox, submissions, run control, generation, compactions |
| `MCConversation.tla` | its instance for TLC; three configurations |
| `Subsequences.tla` | what stays of a list when items leave it, for inboxes and for senders |
| `Subsequences_proofs.tla` | lemmas about lists gone through item by item: places, selections, folds |
| `Conversation_proofs.tla` | its runs, partials, owners and reads |
| `Inbox_proofs.tla` | its types, inbox, transcript and summaries, and that it implements `Submissions` |
| `Journal.tla` | abstract: what a Session promises to those who commit |
| `SessionLine.tla` | the mutation line, settlement, failure, close, the document cache, a watch |
| `SessionLine_proofs.tla` | that it implements `Journal`, its types, that snapshots are current and that its watch has no gap |
| `ToolCall.tla` | a tool call, its recovery and its nested calls |
| `MCToolCall.tla` | its instance for TLC |
| `ToolCall_proofs.tla` | the theorems about it |
| `StateStream.tla` | state of a held object, from its provider through a relay to a consumer |
| `StateStream_proofs.tla` | its types, and that at rest a view sees the object as it is |
| `StateReplica_proofs.tla` | that what a view reads follows the object's values |

Definitions keep the names of the code where TLA+ allows (`Observe` is `#observe`,
`OwnedLive` is `#ownedLive`). `PROJECT.json` maps each to its lines. Operators named
`Bug_...` stand before the definition they would replace: each is a plausible
mistake in that code and is used to show that a property can fail.

### TaskScheduler

`task` (records by id) and `convOwner` (owner edge of a conversation) are durable;
`registry` belongs to the extensions; all else is memory: `inv` is `#invocations`,
`runnable`, `finalizeChecks`, `failFastChecks`, `abandoned` and `failedMigrations`
are the sets of the same names, `reconcile`, `reconciles`, `dirty`, `reserving` say
which pass is asked for and which is queued on the line.

One commit with its `#observe` is one action. A pass is two: the microtask that
takes its checks (`ReconcileBegin`, `DrainBegin`) and the commit that runs later
(`ReconcileCommit`, `AbandonPass`, `ReservePass`), so that any commit may come
between. A handler's commit (`Progress`, `Finish`, `Wait`) may create a task with it.
What happens between two phases is `StepEnd`, `StepFault`, `StepHandOver`,
`StepContinue`; a handler that returned has nothing to do but wait for its step, so
returning and stepping are one action. `#cascadePending` is kept with `reconcile`:
the code sets it only together with a request for a pass or reads it in one that
runs anyway, and a cascade without a cancelled owner marks nothing.

The code loads ownership edges lazily (`#below`, `#unloaded`, `#loadScopes`); the
model uses the tree those edges describe. That the index equals the tree is left for
a refinement (see the plan). A record carries its chain of owners (`owners`), which
the code walks, so that an ancestor is a membership test and no recursion is needed.

### Conversation and Submissions

The transcript is four numbers: `last` entry, `tail` (newest one the model sees),
`head` (start of the active range), `covers` (how far back the model's context
reaches through summaries). `covers` and the `base` fields are history variables,
for `ContextReachesBack` alone. `local` is what a handler read off the line and
holds until its commit: a transcript read, a selected cut, a stream, a partial on
its way. A restart forgets `local` and nothing else.

Tool calls are one action, `ToolEnds`: the result entry and the end, with a control
(terminate, hand off) chosen when the round ends. Which entries `selectCut` may
choose is left open, strictly after the start of the active range. Retry counts,
back-off times, usage and presentation fields are left out; a retry may come at any
attempt. Calls that change nothing (a known request id, a refused busy input) are no
steps. Handlers that were underway when an owner elsewhere was cancelled may still
commit; that they start no new phase is checked in `TaskScheduler`. `InBounds` keeps
the transcript short, but never blocks an abort handler or a fault, which append
what they owe beyond it.

`Conversation` implements `Submissions` with the status of a record as its stage and
the inbox as the queue (`KeepsPromise`): inputs of a mode leave oldest first, those
of a run settle together and once, queued writes leave at the next boundary, nobody
queues in an idle conversation, and nobody overtakes items an idle conversation still
has.

### SessionLine and Journal

Every other module makes a commit one action. This one shows what that rests on.
`line` is the promise chain `#tail`: jobs in the order they were enqueued, the
running one first. A commit is `Commit` (the call), `CommitBegins`, `TxDoc` (the
callback acquires a document), `CallbackReturns` or `CallbackThrows`, then
`StorageCommits` (the batch is durable and nobody knows), and `Publishes`,
`StorageThrows`, `ListenerThrows` or `AdoptFails`. Adoption, publication and the
inline sweep are one action: no `await` lies between them. Readers of cached
documents, guarded calls past the line, watches and `fail` need no place on the
line and come in between.

One document address stands for all: a commit's documents settle together. `n`
counts its states, `ver` is the version it is stored in and `as` the version a value
was made for; a migration changes `ver` and not `n`. `Swept` lets any document that
nobody watches go whenever a sweep may run, so no clock is needed. Why a watch ended
(its `WatchEnd`) is left out.

`SessionLine` implements `Journal` (`KeepsJournal`): whose commit has its turn is read
from the statuses of the requests, what is durable from `effect`. `Journal` lets the
next commit begin only when everything durable has been heard, so a commit whose
listeners were skipped would not refine it.

### ToolCall

`rec` holds the task records of one model-issued call (`Caller`) and of the nested
calls it makes; `index` is the caller's `NestedCallDoc`, by key; `slots` is what
`tg.live` lists below it. `inv`, `memo` and `adm` belong to an invocation and are
lost in a crash. The scheduler is reduced to what these handlers meet (marks, the
cascade below a cancelled caller, the gate of commits, held outcomes, faults), by the
rules of `TaskScheduler`. `Intent` and `Execute` are two actions, since a crash
between them is the hazard; each invocation asks for the tool's replay policy anew,
because extensions change. What the caller's tool does is left open: it calls
`executeTool` with any keys at any time and returns at any time. Nested tools include
one that ends only when cancelled (`Endless`) and one that ends only when the others
did (`Leaning`). Nested calls that nest further repeat the caller's part one level
down and are not instantiated.

### StateStream

A member's value is a place in a stream, `[s, n]`: the `s`-th snapshot or reset of the
provider and the member's `n`-th change. An operation carries the place it leads to
and applies to the one before; on any other value the replica is `Torn`. So the model
needs no values, and shows what the encoding of deltas relies on. Provider and relay
are two ends that send: `out` are frames on their way, `processed` those the peer has
not acknowledged, `order` lists what waits, oldest first, and `slots` says what each
of it holds: together they are the code's map of pending slots. `Flush` and `SendUnit` are run within
the action that causes them, as in the code.

A snapshot or reset may be an error frame (`Error`). Only in dev mode is a write
validated (`cell.ts:110`), so a change may leave a value that fails its schema
(`invalid`); `#snapshot` then makes an error of every snapshot, reset and lazy reset of
it until a good value is written (`Snapshot`, in units, in `Change` and in `Resend`).
A value may also fail to unpack where it comes, in `ConsumerReceives`. The constant
`Failures` says whether any of this happens: one more choice at each change and each
frame. An error travels as a value does: in a slot it replaces what waited, it is sent
at once where a listed snapshot would be, and a relay that awaits a reset takes it for
one, so that the operations of the new stream follow it. The consumer's `StateError`
has both branches of `RemoteBinding.state`: a binding that wants state and is not
hydrated ends, and what still comes for it is ignored; the Connection goes on holding,
since `gone` clears `hold` before `close` would release it. Any other binding reports
the error and keeps what it has, and the operations that come next reach that value:
the replica may be `Torn`.

Three records of the consumer are not in the code, and no guard reads them. `overlap`
is computed anew whenever a view asks for state: whether a frame or a request was on
its way, or anything waited at the relay or at the consumer. `left` has the members
with a value that came while no view wanted state, or that was there when one asked.
`failed`, of the members in effect and of the shape that waits, has those whose last
snapshot or reset was an error. The properties are about what is in none of them.

## Runs

A run takes between a few seconds and a minute and a half with two workers. Deadlock is not
checked: a system all of whose tasks ended, with its bounds used up, rightly stops;
`NoLostWakeup` and the liveness properties say what must not stop.

| Run | Question | Bounds and why they suffice |
|---|---|---|
| `SchedulerWaits` | do tasks end bottom-up, is a freed holder always found, are waits acyclic and never forgotten? | 3 tasks, a second conversation that a task owns (`OthersAreOwned`) and wait sets on one and on two tasks: chains of three, siblings, an owner edge through a conversation, both policies, cycles through waits and ownership; beside a second conversation only `failFast` waits (`AllSettledInOne`) |
| `SchedulerRestart` | does recovery lose or wrongly run anything? | 2 tasks, one crash or close, one request, background, abandon, work created by handlers, a definition that goes and comes back |
| `SchedulerRegistry` | do definition changes lose a wakeup or a version? | 1 task, 4 definitions: same version, newer with and without migration, none |
| `SchedulerLive` | does cancelled work end? | 2 tasks, one request, one crash |
| `ConversationRuns` | do records, inbox, run, generation and heads agree? Is the promise kept? | 3 submissions of all kinds, 3 tasks, both queue modes, one abort |
| `ConversationCompactions` | are lists, reads and history right under compactions? | 3 submissions with resets, 3 tasks: two compactions beside a generation, one restart among the first two submissions and three entries (`RestartIsEarly`) |
| `ConversationPartials` | are partials and queued inputs kept, and do aborted runs and cancelled owners come to rest? | 2 inputs, 3 tasks, two aborts, one restart, a cancelled owner |
| `SessionLine` | is a Session's promise kept when Storage, listeners or adoption fail? Are reads and watches right beside the line? | 2 commits, a reader, a watch with room for one frame, 2 versions, one queued sweep: every pair of jobs meets, and a queue overflows |
| `ToolCall` | do unsafe tools run once, and do nested calls leave with their caller? | 2 nested calls with one restart, abort or fault; one nested call with a restart and one of the others (`OneUpsetForTwo`): a rerun makes a key again, one call waits for another |
| `StateStream` | does a replica follow, and is it current at rest, whatever fails? | 2 members, windows of one frame and room for one waiting operation, values that fail their schema or do not unpack, 3 changes, reshapes, wishes or lost links: enough to wait, coalesce, drop, fail, resync and hold again; 2.0 million states |
| `StateStreamMethodOnly` | is a method-only view ready once its object is live? | as above, no failures, 2 events; violated, see Findings |
| `StateStreamResubscribes` | does the same hold when state is given up and asked for at once? | 1 member, no failures, 4 events; violated, see Findings |

What they say beyond a single commit: `HeldOutcomeIsChecked`, `CascadeComes`,
`FailFastComes` and `NoLostWakeup` relate durable records to the worklists in memory
and to the passes on their way, which is where a lost microtask or a missed walk
would show. `PreparedTailHolds` states the assumption written in `prepare` of
`generation.ts`, that nobody else writes to a busy conversation. `WaitGraphIsAcyclic`
is the invariant in the comment at `scheduler.ts:1477`. `ContextReachesBack` holds
while only resets and summaries are heads: an application may cut where it likes, so
that run has no `cut` drafts. `WatchIsGapless` relates the frames a watch holds to the
documents it never reads. `UnsafeRunsOnce` spans every restart of a call and every
rerun of its caller; `RestIsCurrent` compares the two ends of a chain of buffers, each
of which may have forgotten something on the way.

Bounds that matter: `MaxReconciles = 1` lets one reconcile pass be queued while the
next is asked for. More than one queued at a time is possible in the code only when
the line is long; the second pass takes its own checks, as the first does. In
`StateStream` a queue of frames on a link is not bounded by itself, only through the
events that fill it.

`RestIsCurrent` has two exceptions, both of an error the consumer was told. A binding
that ended shows nothing. A member whose last snapshot or reset failed may be stale for
ever: the code keeps its old value (`remote.ts:266`). And a shape may wait for ever: when
a hydrated binding lost its link and holds again, a failed snapshot of the new unit is
only reported, so the shape goes on waiting and the reference stays `loading` until that
value is written anew. The second disjunct admits this wait, for a member whose error
came, and no other.

`ReplicaFollows` leaves out what an error left behind until the next good snapshot or
reset of that member; it does not compare the value of before the error with the one
after it. Members of `left` are out as well, because the code really shows them: values
that come while nobody wants state are kept (`remote.ts:286`), and if a view asks again
and a shape without listed members comes before the provider has heard, `#apply` hydrates
with them until the new unit is here.

## Findings

Two runs show where the code and its documents disagree, both in the replication of
state.

`StateStreamMethodOnly`: the guide says of a method-only reference that it is "ready
once its object is live" (`packages/chord/docs/guide.md:420`). A binding with such a
view and one that wants state receives a shape and waits for its snapshots. If the
second view goes now, `#syncState` (`remote.ts:176`) empties `#pending.missing` and
nothing applies the shape: the provider sends no new one on `unsub`, and a snapshot
that still arrives is for no missing member. The first view stays `loading`.

`StateStreamResubscribes`: when state is given up, a relay drops what waits, a reset
among it, and clears `awaiting` (`connection.ts:214`), before the provider has heard.
Operations that follow the dropped reset are then forwarded. A consumer that asked for
state again, and was hydrated by the unit sent earlier, applies them to a value they
were not made for, against `connection.ts:145` ("downstream ops are ignored until
their reset arrives") and `packages/chord/docs/spec.md:287` ("Frames of one
subscription stay in order"). `ReplicaFollows` says what holds otherwise: for a view
that asked for state when nothing of an earlier wish was on its way, or waited at the
relay or the consumer, whatever its predecessors did: asking again at rest starts the
property anew. Operations that wait at the relay count as well: they are
forwarded before the relay hears of the second wish and reach the values of a shape
that is still pending, which a run with more events than `StateStream` has shows
(a lost link, two reshapes, two wishes and three changes).

## Fairness

`SchedulerLive` assumes weak fairness of `Open`, `Resume` and `Join` (the host opens and
resumes its session, and closing waits for handlers), of the passes (microtasks run,
and the line is first in, first out) and of `Step` (a handler returns in the end; an
abort signal and `runtime.signal` are what the code gives it for that). Handlers need
not commit anything and definitions need not come back. `ConversationPartials` assumes
weak fairness of `Reconcile`, a microtask's commit, and of each task's abort handler.
`SessionLine` assumes it of the job at the head of the line (callbacks settle and
Storage answers, by success or by error), of `Joined` (handlers return when a Session
closes, which is `SchedulerLive`'s matter) and of a read underway. `ToolCall` assumes
that something that can go on does (`Progress`): passes, commits of handlers, and tools
that have what they wait for; an `Endless` tool returns only when it is cancelled.
`StateStream` needs none: its properties are about steps and about rest. No fairness is
assumed of hosts or of answers of models.

## Proofs

`TaskScheduler_proofs.tla` proves every safety property of the scheduler, for every value
of the constants that satisfies the three assumptions in `TaskScheduler.tla` (bounds are
numbers, data sets have the right elements, definitions have versions):

* `TypeCorrect`: `Spec => []TypeOK`.
* `TasksEndBottomUp`: `Spec => EndsBottomUp`. Each action that writes a terminal state
  does so only where `OwnedLive` of the resulting records is empty.
* `OutcomesStand`: `Spec => OutcomeStands`, action by action from the guards.
* `OwnersOutliveChildren`: `Spec => []OwnerOutlivesChild`.
* `AbortHandlersAreAlone`: `Spec => []AbortHandlerIsAlone`.
* `AbandonedTasksNeverRun`: `Spec => []AbandonedNeverRuns`.
* `AbandonedTasksWait`: `Spec => AbandonedWaitsForDefinition`.
* `VersionsNeverGoBack`: `Spec => VersionNeverGoesBack`.
* `WaitGraphStaysAcyclic`: `Spec => []WaitGraphIsAcyclic`.
* `HeldOutcomesAreChecked`: `Spec => []HeldOutcomeIsChecked`.
* `CascadesCome`: `Spec => []CascadeComes`.
* `FailFastChecksCome`: `Spec => []FailFastComes`.
* `RunningTasksAreInvoked`: `Spec => []RunningIsInvoked`.
* `NoWakeupIsLost`: `Spec => []NoLostWakeup`.

`OwnerOutlivesChild` alone is not inductive. Whether an owner may end is decided by
`OwnedLive`, a walk down the tree that stops at background tasks, so a state with a
child missing from its owner's walk would satisfy the invariant and break it in one
step. The strengthening `Tree` says what creation guarantees: `owners` of a record is
the closed chain of its owner, a child is never background, and only tasks that exist
own anything. With it, a live child is always in its owner's walk, so an owner that
ends has none. `AbortHandlerIsAlone` adds that a marked owner gets no new child
(`OwnersValid`) and that `WaitingOn` was empty when the handler was reserved.

`WaitGraphIsAcyclic` is about what can be reached along edges, a recursion in the code.
`WaitReach` is defined as the least set closed under the edges (`ReachIsClosed`,
`ReachIsLeast`), so a cycle is excluded by naming one closed set that leaves a task out,
and a commit that adds edges of a task is safe by the check the code makes before it.

The worklist invariants relate records to sets in memory and passes to come. They follow
from what the listener hears: every commit goes through `Observe`, and `HolderHeard`,
`CascadeHeard` and `FailFastHeard` say what it adds to the worklists for each kind of
change. The end of a task wakes only the nearest live owner above it; that a nearest one
exists, and that it is the one the invariant speaks of, is shown with the library's
theorem that `<` is well-founded on `Nat` (`LeastNatural`, `NearestExists`).
`NoLostWakeup` needs `IdleAreListed`, that a task which waits for nothing and has no
invocation is a candidate while a session is open, and sorts the steps in three: those
that change no record and end no invocation (`Rests`), those the listener hears of and
that ask for another pass if they change anything (`Wakes`), and the reservation pass
itself, which takes every candidate it does not have to leave. `RunningIsInvoked` needs `Paused`, that nobody is invoked before scheduling is
enabled.

`Conversation_proofs.tla` and `Inbox_proofs.tla` prove every safety property of the
conversation, for every value of the constants that satisfies the two assumptions in
`Conversation.tla`. The first has four theorems:

* `BusyIsTheGeneration`: `Spec => []RunIsTheGeneration`.
* `StatusListsCompactions`: `Spec => []ListedIsLive`.
* `PartialsAreOfTheRequest`: `Spec => []PartialIsTheRequests`.
* `PreparedTailsHold`: `Spec => []PreparedTailHolds`.

The first two rest on `RunsInv`: the run names the only live generation, and `listed`
is the set of live compactions. A boundary enters these proofs only through the users
it placed, so they hold whatever a boundary picks. A commit either keeps kinds and
statuses (`SameKindsKeep`), ends a task (`EndKeeps`), creates tasks with unused ids
(`NewTasksKeep`) or starts a generation where none is left (`NewGenerationKeeps`), and
each action is a chain of these. The third needs more: a partial on its way to its
commit lives in the memory of a handler, so `PartialInv` adds that a generation whose
handler streams or flushes is in its request, and that a task that does not exist yet
holds nothing (or a new generation could inherit a flush). The step that could break
it, a commit that leaves the request, is possible only once no flush is under way
(`NoFlush`). A flush of a generation that ended never lands: it is no longer live.

`PreparedTailHolds` is false of a conversation in which a tool or a blocking compaction
could run beside a generation that prepares: both append. `OwnersInv` says that live
work is owned by the run's generation or by nobody, and that tools always have an owner;
`ReadInv` that nothing is live below a generation that holds a read. So whatever else is
live then has no owner (`ReaderIsAlone`), and what is left to write are submissions and
background summaries, which a busy conversation queues, and notes, which the model does
not see.

`Inbox_proofs.tla` adds nine:

* `ConversationTypes`: `Spec => []TypeOK`.
* `InboxIsTheQueue`: `Spec => []InboxListsQueued`.
* `NoInputIsStranded`: `Spec => []PlacedIsInRun`.
* `CancelledQueueIsDrained`: `Spec => []CancelledQueueDrains`.
* `HeadOnlyAdvances`: `Spec => HeadNeverMovesBack`.
* `SummariesReachBack`: `"cut" \notin Drafts => (Spec => ContextReachesBack)`.
* `ResetCutsRun`: `Spec => ResetEndsRun`.
* `PartialBecomesEntry`: `Spec => PartialIsKept`.
* `ConversationKeepsPromise`: `Spec => KeepsPromise`, the refinement of `Submissions`.

They share one inductive invariant, `ConversationInv`, and one argument. What a
boundary or a withdrawal does to a list of any length is stated once, as lemmas about
`ItemsAt` and `PlaceItems`. Both are recursive functions over the places of the list;
where a property is to hold after every place, the lemmas (`Selection`, `Placement`)
take the sets of good results, place by place, and argue from the least place that
is not good (`LeastPlace`), since the library's induction theorems cannot be used.
`PlaceItemsIs` and `BoundaryIs` then say what a boundary does without saying how: who
is placed, who settles, what stays in the inbox, and that the log only moves on.

Every step of the system falls into two classifications. `SubsStep` sorts what it does
to submissions, inbox and run into nine classes (admit settled, queued, behind others,
placed; withdraw; a run fails, ends, goes on; nothing), and each class keeps `SubsInv`
and is a step of `Submissions` (`SettledIsPromised` to `GoesOnIsPromised`). `LogStep`
says what it may do to the transcript. `HostStep`, `GenerationLog`, `CompactionLog` and
`EndsLog` place each action in both.

* `SubsInv` is `InboxListsQueued`, `PlacedIsInRun` and what they lean on: a queued item
  fits the type of its record, ids are minted without gaps (so an appended item is the
  newest), and a run without a task has no inputs.
* `LogInv`: a queued head is at most the last entry, so placing it never moves the head
  past the transcript, and (`BasesFit`) a queued summary that is not stale covers as far
  as the model reaches now.
* `PinsInv` says the same of a summary that is still being made. A compaction keeps its
  cut and base in a handler's memory, then in its checkpoint (`Pin`), while boundaries
  and other compactions move the head on. A cut that is still in the active range has
  the base the transcript has now; a cut behind it is stale when it lands, and dropped.
  A blocking compaction does not check for that, so `PinsInv` also says that there is at
  most one, and that its cut is in the range: nothing else moves the head while a
  generation waits for it (`NoneWait`, and the last part of `LogStep`).
* `TypedInv` and `BookInv` type the tasks, the handlers' memory and the flags.
  `CancelledQueueDrains` is inductive with `SubsInv`: a queued input is either new, and
  `Observe` hears of it, or was there before (`QueuedStays`).

`SummariesReachBack` needs its hypothesis: a host that submits a head of its own choice
(`cut`) takes from the model what lies before it, as it asked for. `BasesFit` and the
last conjunct of `Pinned` are claimed only then; all else holds with such hosts too.

`ToolCall_proofs.tla` proves, for every value of the constants that satisfies
`BoundsAssumption` of `ToolCall.tla`:

* `TypeCorrect`: `Spec => []TypeOK`.
* `UnsafeToolsRunOnce`: `Spec => []UnsafeRunsOnce`.
* `NestedCallsLeave`: `Spec => []NestedLeaveWithCaller`.

`UnsafeRunsOnce` counts executions and says nothing of how they come about, so it is
not inductive. `RunsByIntent` adds that an execution that is about to begin has a
durable intent, that the invocation goes by the policy stored there, and that one which
goes by `unsafe` is the first; a rerun needs a stored `safe`, which an unsafe execution
excludes. `NestedLeaveWithCaller` needs two parts. `SlotsFollowNote`: slots exist only
after the memo that a call makes nested calls is durable, the memo of an attempt is
durable while it admits, admissions are over once the invocation lists what it owns,
and the list was made with the memo's value; so the settlement that may skip the
removal of slots is one that has none. `NestedByKey`: every nested call is the one its
key names in the caller's document, is never held, and ends with its result or by the
scheduler.

`SessionLine_proofs.tla` proves, for every value of the constants that satisfies
`NumbersAssumption`:

* `SessionKeepsJournal`: `Spec => KeepsJournal`, the refinement of `Journal`.
* `SessionTyped`: `Spec => []TypeOK`.
* `SnapshotsAreCurrent`: `Spec => ReadsAreCurrent`.
* `WatchHasNoGap`: `Spec => []WatchIsGapless`.

The refinement rests on the line. `LineInv` says that who waits has a job on it, that
who is in turn has the first one, and that nothing but sweeps comes behind the job of
`close`; so one commit is in turn at a time, and the journal closes with nobody asking.
`EffectInv` ties what Storage holds to the statuses of the requests: while the Session
has not failed, everything durable has been heard but for the one in turn. A step is
mapped by what it does to the statuses: `QuietStutters`, `FailureIsFail`,
`AnsweredIsDone`, `LostIsLose`, `RefusedIsRefuse` name the cases. Snapshots need `Core`:
while the Session is healthy, a cached document is the state published last (`Known`)
of the incarnation in Storage, though Storage may already be one state ahead, and what
a commit staged fits the stored document. The watch needs `WatchInv`: what is pending
is a chain that ends where publication is, and the watched document is still there
unless the retirement is pending. That a full queue may be replaced by its newest
frame, and that a delivery moves the head of the chain, are lemmas about queues
(`PushKeepsChain`, `DeliveryKeepsChain`) that speak of no state.

`StateStream_proofs.tla` and `StateReplica_proofs.tla`, which extends it, prove every
safety property of the replication of state, for every window, capacity, number of
events and set of variants that satisfies `BoundsAssumption` and `MembersAssumption` of
`StateStream.tla`:

* `TypesHold`: `Spec => []TypeOK`.
* `RestCurrent`: `Spec => []RestIsCurrent`.
* `ReplicaIsFollowed`: `Spec => ReplicaFollows`.

They hold whether or not values fail (`Failures`), and with the exceptions that the
properties state and Runs explains. Neither property is inductive: both are about what a consumer has, and what it will
have depends on two queues of frames, two sets of slots, and the requests that travel
the other way. Both invariants therefore fold what is on its way into what comes of
it. `Fold` goes through a queue of any length; that a set of results is kept, frame by
frame (`FoldStays`), or that a set for each place is reached (`FoldSteps`), is shown in
`Subsequences_proofs` from a least place that fails.

`IInv` (theorem `Invariant`) is the one for rest. `Agree` folds the requests: they lead from
the hold that the provider serves to the one the relay has, then to the hold and wish
of the consumer, and no request meets an end that does not expect it. `ShapeFirst` says
that no state comes before the first shape of its hold. `ProvOK`, `RelayOK` and `ConsOK`
keep the slots, the window and the waiting shape in order: whatever waits has an
acknowledgement coming. `Current` is the heart: when nothing but `resync` is asked for,
what is on its way, applied frame by frame and slot by slot to what is known at the
other end, adds up to the object's value of every member (`TellsValues`) and to its
shape (`TellsShape`), unless the slot sends nothing until asked (`lazy`) or the member
is asked for again. What an error makes of a value is `Failed`, which no operation
changes and only a snapshot or reset ends; it adds up to anything, so that an error on
its way claims nothing of the member, and everything of the others. At rest there is
nothing to add, and the consumer has the object's values, but for those it was told
have failed (`failed`).

`FInv` goes beside `IInv` and holds while requests are on their way, too. `HadFits`
says that the values a view has are the object's, and that one that waits for its shape
is not older than the one before it. `Lines` says that all that is on its way applies:
with the value that the frames find (`Had`), first the relay's frames and slots
(`Through`), then the provider's (`Tracks`), no operation meets a value it was not made
for. Slots are dropped, sent again and awaited in the middle of this, so what was
claimed of a value must survive its loss: `Bears(v, w)` says that all that fits `v` fits
`w`, and holds when `w` is an absence at no later place (`Absent`). Operations on nothing
are ignored and only a newer snapshot ends the absence. An error makes such an absence,
at the place of the value it came instead of: what the code keeps showing is then in
`failed`, and what is seen (`Shown`) or waits for its shape (`Ahead`) is nothing until
something newer comes. A reset that fails begins a stream all the same, whose operations
find nothing. Frames of a hold that ended cannot be
taken for ones of the next (`OldFrames`, from `Agree`). `NoUnsub` excludes a stream that
ends below a view that reads it; it and `Lines` are claimed while a view wants state,
`overlap` is false and no error ended the binding (`Following`), as `ReplicaFollows` is:
what happens otherwise is the finding above. When a view asks at rest, `Lines` has to
hold at once, whatever was before: nothing is on its way then, and what the consumer
has is in `left`.

Only model-checked: all liveness, which is beyond the prover.

## Plan

Done: the scheduler, the conversation, the Session line with its documents and
watches, tool calls, the replication of state; twelve runs, thirty-seven theorems, among
them every safety property that a passing run checks, and both refinements. Next, in
this order:

1. `OwnershipIndex`: `#below`, `#settled`, `#unloaded` and `#sweep` as a refinement of
   the tree `TaskScheduler` uses.
2. `Context`: the active range and the replay of sections and tools as operators,
   against a reference definition; forks, which copy a prefix of it.
3. Calls and reload of `packages/chord`: votes of children, generations of a link,
   calls that race a lost link.
4. The output windows of `packages/env`.

## Not modelled

Provider adapters, environments, code mode, MCP, terminal and web applications and
telemetry: input and output, parsing and layout, with little state the core depends
on. `scripts/legacy` is the application's former terminal agent and is not part of the
harness. The approval queue of the server and the guard's grants are a map and a few
sets that every operation reads and writes in one turn of the event loop: nothing can
come between, and a test reaches all of it. Events, views, usage and the task graph are derived from commits. In `TaskScheduler`,
sleep timers and memos touch no task record, and idle waits are read by hosts only.
