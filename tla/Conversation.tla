---------------------------- MODULE Conversation ----------------------------
(***************************************************************************)
(* One conversation of the gibraltar harness: the submissions it admits    *)
(* (harness/submissions.ts), the inbox they wait in and its boundaries     *)
(* (harness/inbox.ts), run control (harness/live.ts), the generation that  *)
(* answers a run (harness/generation.ts) and compactions                   *)
(* (harness/compaction.ts).                                                *)
(*                                                                         *)
(* Every commit is one action.  What a handler reads off the Session line  *)
(* before its commit is kept in `local`, which a restart forgets.  Tasks   *)
(* follow the rules of TaskScheduler: a marked task commits only in its    *)
(* abort handler, and nobody runs while work it owns is live.              *)
(*                                                                         *)
(* The transcript is four numbers: the newest entry, the newest one the    *)
(* model sees, the start of the active range, and (for the properties) how *)
(* far back the model's context reaches through its summaries.             *)
(***************************************************************************)
EXTENDS Integers, Sequences, FiniteSets, Subsequences

CONSTANTS
  MaxSubs,      \* bound: submission ids are 1 .. MaxSubs, minted in order
  MaxTasks,     \* bound: task ids are 1 .. MaxTasks, minted in order
  MaxEntries,   \* bound: entries that submissions, runs and summaries append
  MaxAborts,    \* bound: aborts by hosts
  MaxCrashes,   \* bound: restarts of the process
  Drafts,       \* what hosts submit, a subset of AllDrafts
  QueueModes,   \* queue modes the settings may have at a boundary
  Calls,        \* numbers of tool calls a response may make
  Reasons,      \* reasons to compact, a subset of {"manual", "threshold", "overflow"}
  Owned         \* whether a task elsewhere owns the conversation

AllDrafts ==
  {"steer", "followUp", "reject",      \* inputs, by whenBusy
   "note", "context", "reset", "cut"}  \* writes: display-only, model, head "self", head id

Subs == 1..MaxSubs
Tasks == 1..MaxTasks
NoTask == 0
NoHead == 0
Self == -1

ASSUME BoundsAssumption ==
  /\ MaxSubs \in Nat \ {0} /\ MaxTasks \in Nat \ {0} /\ MaxEntries \in Nat
  /\ MaxAborts \in Nat /\ MaxCrashes \in Nat
ASSUME DataAssumption ==
  /\ Drafts \subseteq AllDrafts /\ Owned \in BOOLEAN
  /\ QueueModes \subseteq {"one-at-a-time", "all"} /\ QueueModes # {}
  /\ Calls \subseteq {1, 2} /\ Reasons \subseteq {"manual", "threshold", "overflow"}

VARIABLES
  log,         \* the transcript: [last, tail, head, covers]
  sub,         \* submission records, by id
  inbox,       \* tg.inbox: the queued submissions with their drafts
  run,         \* tg.live.run: the task that settles the inputs, and the inputs
  partial,     \* tg.live.generation.message: a partial response is committed
  listed,      \* tg.live.compactions
  task,        \* task records of the conversation, by id
  local,       \* what the running handler of a task holds in memory
  ownerIntent, \* the owner of the conversation has cancellation intent
  cascade,     \* #cascadePending: a reconcile pass with a cascade is coming
  aborts,      \* aborts by hosts so far
  crashes      \* restarts so far

live == <<run, partial, listed>>
budget == <<aborts, crashes>>
vars == <<log, sub, inbox, live, task, local, ownerIntent, cascade, budget>>

Log == [last : Nat, tail : Nat, head : Nat, covers : Nat]

Submission ==
  [type : {"none", "input", "write"},
   status : {"none", "queued", "placed", "done", "unanswered"},
   reason : {"none", "aborted", "stale", "reset", "model_error", "no_model", "fault"},
   entry : Nat]
NoSub == [type |-> "none", status |-> "none", reason |-> "none", entry |-> 0]

Item ==
  [id : Subs, mode : {"steer", "followUp", "write"}, head : Nat \cup {Self},
   model : BOOLEAN, base : Nat]

TaskRecord ==
  [kind : {"none", "generation", "tool", "compaction"},
   status : {"absent", "live", "completed", "ended"}, owner : Tasks \cup {NoTask},
   background : BOOLEAN, marked : BOOLEAN,
   phase : {"none", "prepare", "request", "retry", "poll", "tools", "select", "summarize"},
   compacted : {"no", "overflow", "threshold", "yes"},
   pending : 0..1, cut : Nat, base : Nat, placed : BOOLEAN]
Absent ==
  [kind |-> "none", status |-> "absent", owner |-> NoTask, background |-> FALSE,
   marked |-> FALSE, phase |-> "none", compacted |-> "no", pending |-> 0, cut |-> 0,
   base |-> 0, placed |-> FALSE]

\* What a handler holds between two commits: a read of the transcript, or a
\* stream with or without a partial on its way to a commit.
Local == [at : {"none", "read", "stream", "flush"}, tail : Nat, base : Nat]
NoLocal == [at |-> "none", tail |-> 0, base |-> 0]

----------------------------------------------------------------------------
(* Entries and submissions.                                                *)

\* An entry the model does not see, and one it sees.
Shown(l) == [last |-> l.last + 1, tail |-> l.tail, head |-> l.head, covers |-> l.covers]
Visible(l) == [l EXCEPT !.last = @ + 1, !.tail = l.last + 1]
\* Bug: the head of a reset is not resolved to its entry.
Bug_MarkerAsIs(l, head, base) == [Visible(l) EXCEPT !.head = head, !.covers = base]
\* A head marker covers the history back to `base` with its summary.
Marker(l, head, base) ==
  [Visible(l) EXCEPT !.head = IF head = Self THEN l.last + 1 ELSE head,
                     !.covers = IF head = Self THEN l.last + 1 ELSE base]
\* Bug: a partial is cleared without an entry.
Bug_DropsPartial(l) == l
WithPartial(l) == IF partial THEN Visible(l) ELSE l

IsSettled(r) == r.status \in {"done", "unanswered"}
\* applySubmissionChange: a settled record stays.
Settle(r, status, reason) ==
  IF IsSettled(r) THEN r ELSE [r EXCEPT !.status = status, !.reason = reason]
Place(r, entry) ==
  [r EXCEPT !.status = IF r.type = "input" THEN "placed" ELSE "done", !.entry = entry]

Busy == run.task # NoTask

\* Cuts a selection may choose: strictly after the start of the active range.
\* Which entries qualify (messages and token counts) is left open.
Cuts(l) == (IF l.head = NoHead THEN 2 ELSE l.head + 1)..l.tail

----------------------------------------------------------------------------
(* The inbox.                                                              *)

HasQueuedReset == \E i \in DOMAIN inbox : inbox[i].head = Self

\* Bug: no cut is too old.
Bug_NeverStale(l, item) == FALSE
\* isStale: a head before the active range would bring back history.
Stale(l, item) == item.head > 0 /\ item.head < l.head

WriteEntry(l, item) ==
  CASE item.head # NoHead -> Marker(l, item.head, item.base)
    [] item.head = NoHead /\ item.model -> Visible(l)
    [] OTHER -> Shown(l)

\* b is a boundary underway: log, submissions, and the users it placed.
PlaceWrite(b, item) ==
  IF Stale(b.log, item)
  THEN [b EXCEPT !.sub[item.id] = Settle(@, "unanswered", "stale")]
  ELSE [b EXCEPT !.log = WriteEntry(@, item), !.sub[item.id] = Place(@, b.log.last + 1)]
PlaceUser(b, item) ==
  [b EXCEPT !.log = Visible(@), !.sub[item.id] = Place(@, b.log.last + 1),
            !.users = @ \cup {item.id}]
\* The items at the places K are placed one after the other.
PlaceItems(b, items, K) ==
  LET upTo[i \in 0..Len(items)] ==
        IF i = 0 THEN b
        ELSE IF i \notin K THEN upTo[i - 1]
        ELSE IF items[i].mode = "write" THEN PlaceWrite(upTo[i - 1], items[i])
        ELSE PlaceUser(upTo[i - 1], items[i])
  IN upTo[Len(items)]

\* Bug: one at a time takes the newest item.
Bug_PicksNewest(items, mode, queueMode) ==
  {i \in DOMAIN items :
     /\ items[i].mode = mode
     /\ \/ queueMode = "all"
        \/ \A j \in DOMAIN items : j > i => items[j].mode # mode}
\* pick(): the first item of a mode, or all of them.
Picked(items, mode, queueMode) ==
  {i \in DOMAIN items :
     /\ items[i].mode = mode
     /\ \/ queueMode = "all"
        \/ \A j \in DOMAIN items : j < i => items[j].mode # mode}

UserPicks(items, at, modes) ==
  Picked(items, "steer", modes.steer) \cup
  (IF at = "final" \/ \E i \in DOMAIN items : items[i].head = Self
   THEN Picked(items, "followUp", modes.followUp) ELSE {})

\* applyBoundary: all writes in id order, then the users it selects.
Boundary(l, s, items, at, modes) ==
  LET users == UserPicks(items, at, modes)
      writes == {i \in DOMAIN items : items[i].mode = "write"}
      start == [log |-> l, sub |-> s, users |-> {}]
      placed == PlaceItems(PlaceItems(start, items, writes), items, users)
  IN [log |-> placed.log, sub |-> placed.sub, users |-> placed.users,
      inbox |-> ItemsAt(items, DOMAIN items \ (users \cup writes)),
      reset |-> \E i \in DOMAIN items : items[i].head = Self]

Modes == [steer : QueueModes, followUp : QueueModes]

----------------------------------------------------------------------------
(* Tasks.                                                                  *)

Live(T, t) == T[t].status = "live"
OwnedLive(T, t) == {u \in Tasks : T[u].owner = t /\ Live(T, u)}
Compactions(T) == {t \in Tasks : T[t].kind = "compaction" /\ Live(T, t)}

\* The next unused ids, as many as S needs.
NextIds(T, n) ==
  {S \in SUBSET {t \in Tasks : T[t].status = "absent"} :
     /\ Cardinality(S) = n
     /\ \A t \in Tasks, u \in S : T[t].status = "absent" /\ t < u => t \in S}

Generation == [Absent EXCEPT !.kind = "generation", !.status = "live", !.phase = "prepare"]
Tool(g) == [Absent EXCEPT !.kind = "tool", !.status = "live", !.owner = g]
\* createCompaction: owned by the generation that waits for it, or by the
\* conversation, and then in the background unless it is manual.
Compaction(owner, reason) ==
  [Absent EXCEPT !.kind = "compaction", !.status = "live", !.phase = "select",
                 !.owner = owner, !.background = (owner = NoTask /\ reason # "manual")]
WithTasks(T, S, r) == [t \in Tasks |-> IF t \in S THEN r ELSE T[t]]
Terminated(T, t, status) ==
  [T EXCEPT ![t] = [Absent EXCEPT !.kind = T[t].kind, !.status = status, !.owner = T[t].owner,
                                  !.background = T[t].background, !.marked = T[t].marked,
                                  !.placed = T[t].placed]]

\* #gated: a handler commits only while its task runs unmarked, and it runs
\* only once what it owns, and so waits for, has ended.
Gated(t, kind) ==
  /\ task[t].kind = kind /\ Live(task, t) /\ ~task[t].marked
  /\ OwnedLive(task, t) = {}
Holds(t, at) == local[t].at = at
\* A handler moves on: what it read is gone, a partial on its way is not.
Forget(t) == local' = [local EXCEPT ![t] = IF @.at = "flush" THEN @ ELSE NoLocal]
Remember(t, r) == local' = [local EXCEPT ![t] = r]

NewlyMarked == \E t \in Tasks : task'[t].marked /\ ~task[t].marked /\ Live(task', t)
NewWork == \E t \in Tasks : Live(task', t) /\ ~Live(task, t) /\ ~task'[t].background
NewQueuedInput ==
  \E s \in Subs : sub'[s].type = "input" /\ sub'[s].status = "queued" /\ sub[s].status = "none"

\* Bug: a queued input below a cancelled owner does not ask for a cascade.
Bug_ObserveTasks == cascade' = (cascade \/ NewlyMarked \/ (ownerIntent /\ NewWork))

\* #observe: new marks and, below a cancelled owner, new work and queued inputs
\* ask for a cascade.
Observe == cascade' = (cascade \/ NewlyMarked \/ (ownerIntent /\ (NewWork \/ NewQueuedInput)))

InBounds == log'.last <= MaxEntries

----------------------------------------------------------------------------
(* Runs (live.ts endRun, generation.ts startRun and handOver).             *)

NoRun == [task |-> NoTask, inputs |-> {}]

\* Bug: the run is removed, its inputs are not settled.
Bug_EndRunOnly(s, g, status, reason) == s
\* endRun settles the inputs of the run that g owns.
EndRun(s, g, status, reason) ==
  [x \in Subs |-> IF run.task = g /\ x \in run.inputs THEN Settle(s[x], status, reason) ELSE s[x]]
RunAfter(g) == IF run.task = g THEN NoRun ELSE run

\* startRun: a new generation takes the placed inputs; none without users.
StartRun(T, users, rest) ==
  IF users = {} THEN run' = rest /\ task' = T
  ELSE \E S \in NextIds(T, 1) : \E g \in S :
         /\ task' = WithTasks(T, S, Generation)
         /\ run' = [task |-> g, inputs |-> users]

----------------------------------------------------------------------------
(* Admission (admitSubmission).  A known request id returns its submission *)
(* without a write, and a busy conversation refuses a "reject" input: such *)
(* calls change nothing and are no steps.                                  *)

NextSub(s) == sub[s].status = "none" /\ \A r \in Subs : r < s => sub[r].status # "none"
TypeOf(draft) == IF draft \in {"steer", "followUp", "reject"} THEN "input" ELSE "write"
ModeOf(draft) ==
  CASE TypeOf(draft) = "write" -> "write"
    [] draft = "steer" -> "steer"
    [] OTHER -> "followUp"
HeadsOf(draft) ==
  CASE draft = "reset" -> {Self} [] draft = "cut" -> 1..log.last [] OTHER -> {NoHead}

NewItem(s, draft, head) ==
  [id |-> s, mode |-> ModeOf(draft), head |-> head, model |-> draft # "note",
   base |-> IF head > 0 THEN head ELSE 0]
NewSub(type, status, reason, entry) ==
  [type |-> type, status |-> status, reason |-> reason, entry |-> entry]

\* A display-only write is appended at once, busy or not, unless it would land
\* before a queued reset.
AdmitNote(s, item) ==
  /\ item.mode = "write" /\ ~item.model /\ item.head = NoHead /\ ~HasQueuedReset
  /\ log' = Shown(log)
  /\ sub' = [sub EXCEPT ![s] = NewSub("write", "done", "none", log.last + 1)]
  /\ UNCHANGED <<inbox, run>>
IsNote(item) == item.mode = "write" /\ ~item.model /\ item.head = NoHead

\* Bug: a conversation without a listed partial is taken for idle.
Bug_AdmitsIdle(item) ==
  ~(IsNote(item) /\ ~HasQueuedReset) /\ ~partial
AdmitsIdle(item) == ~(IsNote(item) /\ ~HasQueuedReset) /\ ~Busy

\* A busy conversation queues the rest.
AdmitBusy(s, item, type) ==
  /\ Busy /\ ~(IsNote(item) /\ ~HasQueuedReset)
  /\ sub' = [sub EXCEPT ![s] = NewSub(type, "queued", "none", 0)]
  /\ inbox' = Append(inbox, item)
  /\ UNCHANGED <<log, run>>

\* An idle one with waiting items queues it behind them and runs a final
\* boundary; one with an empty inbox places it.  T: the tasks of the commit.
AdmitBehind(s, item, type, T) ==
  /\ AdmitsIdle(item) /\ inbox # <<>>
  /\ \E modes \in Modes :
       LET queued == [sub EXCEPT ![s] = NewSub(type, "queued", "none", 0)]
           b == Boundary(log, queued, Append(inbox, item), "final", modes) IN
       /\ log' = b.log /\ sub' = b.sub /\ inbox' = b.inbox
       /\ StartRun(T, b.users, run)

AdmitWrite(s, item, T) ==
  /\ AdmitsIdle(item) /\ inbox = <<>> /\ item.mode = "write"
  /\ sub' = [sub EXCEPT ![s] = IF Stale(log, item)
                               THEN NewSub("write", "unanswered", "stale", 0)
                               ELSE NewSub("write", "done", "none", log.last + 1)]
  /\ log' = IF Stale(log, item) THEN log ELSE WriteEntry(log, item)
  /\ task' = T
  /\ UNCHANGED <<inbox, run>>

AdmitInput(s, item) ==
  /\ AdmitsIdle(item) /\ inbox = <<>> /\ item.mode # "write"
  /\ log' = Visible(log)
  /\ sub' = [sub EXCEPT ![s] = NewSub("input", "placed", "none", log.last + 1)]
  /\ StartRun(task, {s}, run)
  /\ UNCHANGED inbox

Submit ==
  /\ \E s \in Subs, draft \in Drafts : NextSub(s) /\ \E head \in HeadsOf(draft) :
       LET item == NewItem(s, draft, head) IN
       \/ AdmitNote(s, item) /\ UNCHANGED task
       \/ AdmitBusy(s, item, TypeOf(draft)) /\ draft # "reject" /\ UNCHANGED task
       \/ AdmitBehind(s, item, TypeOf(draft), task)
       \/ AdmitWrite(s, item, task)
       \/ AdmitInput(s, item)
  /\ Observe /\ InBounds
  /\ UNCHANGED <<partial, listed, local, ownerIntent, budget>>

\* Submission.abort(): only a queued submission is withdrawn.
AbortSubmission(s) ==
  /\ sub[s].status = "queued" /\ aborts < MaxAborts /\ aborts' = aborts + 1
  /\ sub' = [sub EXCEPT ![s] = Settle(@, "unanswered", "aborted")]
  /\ inbox' = Without(inbox, {s})
  /\ UNCHANGED <<log, live, task, local, ownerIntent, cascade, crashes>>

----------------------------------------------------------------------------
(* Aborts and the cascade (scheduler.ts abortConversation, #reconcile).    *)

MarkAll(S) == task' = [t \in Tasks |-> [task[t] EXCEPT !.marked = @ \/ (t \in S /\ Live(task, t))]]

\* withdrawQueuedInputs: writes stay for a later boundary.
QueuedInputs == {s \in Subs : \E i \in DOMAIN inbox : inbox[i].id = s /\ inbox[i].mode # "write"}
\* Bug: the items leave the inbox, their submissions stay queued.
Bug_WithdrawItemsOnly ==
  /\ inbox' = Without(inbox, QueuedInputs)
  /\ UNCHANGED sub
Withdraw ==
  /\ sub' = [s \in Subs |-> IF s \in QueuedInputs THEN Settle(sub[s], "unanswered", "aborted")
                            ELSE sub[s]]
  /\ inbox' = Without(inbox, QueuedInputs)

\* Conversation.abort(): mark what an ordinary walk reaches, with `background`
\* all of it, and withdraw the queued inputs.
AbortConversation(background) ==
  /\ aborts < MaxAborts /\ aborts' = aborts + 1
  /\ MarkAll({t \in Tasks : background \/ ~task[t].background})
  /\ Withdraw
  /\ Observe
  /\ UNCHANGED <<log, live, local, ownerIntent, crashes>>

\* abortTask(): marks one task; its inputs and the inbox are left alone.
AbortTask(t) ==
  /\ Live(task, t) /\ ~task[t].marked
  /\ aborts < MaxAborts /\ aborts' = aborts + 1
  /\ MarkAll({t})
  /\ Observe
  /\ UNCHANGED <<log, sub, inbox, live, local, ownerIntent, crashes>>

\* The owner of the conversation, a task elsewhere, is cancelled, and ends once
\* no foreground work is live below it.
OwnerCancelled ==
  /\ Owned /\ ~ownerIntent /\ aborts < MaxAborts /\ aborts' = aborts + 1
  /\ ownerIntent' = TRUE /\ cascade' = TRUE
  /\ UNCHANGED <<log, sub, inbox, live, task, local, crashes>>
OwnerEnds ==
  /\ ownerIntent /\ \A t \in Tasks : Live(task, t) => task[t].background
  /\ ownerIntent' = FALSE
  /\ UNCHANGED <<log, sub, inbox, live, task, local, cascade, budget>>

\* #reconcile with a cascade: mark the live work below cancelled tasks, and
\* below a cancelled owner withdraw the queued inputs.
Reconcile ==
  /\ cascade /\ cascade' = FALSE
  /\ MarkAll({t \in Tasks :
       \/ task[t].owner # NoTask /\ Live(task, task[t].owner) /\ task[task[t].owner].marked
       \/ ownerIntent /\ ~task[t].background})
  /\ IF ownerIntent THEN Withdraw ELSE UNCHANGED <<sub, inbox>>
  /\ UNCHANGED <<log, live, local, ownerIntent, budget>>

\* A restart: handlers start over from their checkpoints, and open() asks for
\* a cascade.
Crash ==
  /\ crashes < MaxCrashes /\ crashes' = crashes + 1
  /\ local' = [t \in Tasks |-> NoLocal]
  /\ cascade' = TRUE
  /\ UNCHANGED <<log, sub, inbox, live, task, ownerIntent, aborts>>

----------------------------------------------------------------------------
(* The generation.  Its phases and the commits that end them.              *)

Phase(g, p) == Gated(g, "generation") /\ task[g].phase = p
CompactionOf(g) == {c \in Tasks : task[c].owner = g /\ task[c].kind = "compaction"}

\* prepare checks the compaction the generation waited for: after an overflow
\* it must have placed a summary, after a threshold it must not have failed.
CompactionFits(g) ==
  \A c \in CompactionOf(g) :
    CASE task[g].compacted = "overflow" -> task[c].status = "completed" /\ task[c].placed
      [] task[g].compacted = "threshold" -> task[c].status = "completed"
      [] OTHER -> TRUE

\* The run fails: inputs settle unanswered, the inbox is left alone.
RunFails(g, l, reason) ==
  /\ log' = l
  /\ sub' = EndRun(sub, g, "unanswered", reason)
  /\ run' = RunAfter(g) /\ partial' = FALSE
  /\ task' = Terminated(task, g, "ended")
  /\ Forget(g) /\ Observe
  /\ UNCHANGED <<inbox, listed, ownerIntent, budget>>

\* The commit moves the checkpoint on and leaves the run as it is.
MovesOn(g, r) ==
  /\ task' = [task EXCEPT ![g] = r]
  /\ Forget(g) /\ Observe /\ InBounds
  /\ UNCHANGED <<sub, inbox, run, listed, ownerIntent, budget>>

NoModel(g) ==
  /\ \/ Phase(g, "prepare") /\ Holds(g, "none")
     \/ Phase(g, "request") /\ Holds(g, "stream") /\ ~partial
     \/ Phase(g, "poll")
  /\ RunFails(g, log, "no_model")

PrepareRejects(g) ==
  /\ Phase(g, "prepare") /\ Holds(g, "none") /\ ~CompactionFits(g)
  /\ RunFails(g, log, "model_error")

\* The read of the context, with the agent, its sections and its plan.
PrepareRead(g) ==
  /\ Phase(g, "prepare") /\ Holds(g, "none") /\ CompactionFits(g)
  /\ Remember(g, [at |-> "read", tail |-> log.tail, base |-> 0])
  /\ UNCHANGED <<log, sub, inbox, live, task, ownerIntent, cascade, budget>>

\* A blocking compaction: the generation owns it and waits for it.
Blocks(g, compacted, l) ==
  /\ \E S \in NextIds(task, 1) :
       /\ task' = [WithTasks(task, S, Compaction(g, compacted)) EXCEPT
                     ![g].phase = "prepare", ![g].compacted = compacted]
       /\ listed' = listed \cup S
  /\ log' = l /\ partial' = FALSE
  /\ Forget(g) /\ Observe /\ InBounds
  /\ UNCHANGED <<sub, inbox, run, ownerIntent, budget>>

PrepareBlocks(g) ==
  /\ Phase(g, "prepare") /\ Holds(g, "read") /\ task[g].compacted = "no"
  /\ Cuts(log) # {} /\ "threshold" \in Reasons
  /\ Blocks(g, "threshold", log)

\* The system entries the request needs, and a background compaction when the
\* context is large and none is listed.
PrepareCommit(g) ==
  /\ Phase(g, "prepare") /\ Holds(g, "read")
  /\ log' \in {log, Visible(log)}
  /\ LET r == [task[g] EXCEPT !.phase = "request",
                              !.compacted = IF @ = "no" THEN "no" ELSE "yes"] IN
     \/ MovesOn(g, r) /\ UNCHANGED partial
     \/ /\ "threshold" \in Reasons /\ task[g].compacted = "no" /\ Cuts(log) # {}
        /\ listed = {}
        /\ \E S \in NextIds(task, 1) :
             /\ task' = [WithTasks(task, S, Compaction(NoTask, "threshold")) EXCEPT ![g] = r]
             /\ listed' = S
        /\ Forget(g) /\ Observe /\ InBounds
        /\ UNCHANGED <<sub, inbox, run, partial, ownerIntent, budget>>

\* The request: a partial left by a crash becomes an entry, then it streams.
RequestBegin(g) ==
  /\ Phase(g, "request") /\ Holds(g, "none")
  /\ log' = WithPartial(log) /\ partial' = FALSE
  /\ Remember(g, [NoLocal EXCEPT !.at = "stream"])
  /\ UNCHANGED <<sub, inbox, run, listed, task, ownerIntent, cascade, budget>>

\* The throttle starts to write a partial, and its commit lands.
FlushBegin(g) ==
  /\ Phase(g, "request") /\ Holds(g, "stream")
  /\ Remember(g, [NoLocal EXCEPT !.at = "flush"])
  /\ UNCHANGED <<log, sub, inbox, live, task, ownerIntent, cascade, budget>>
FlushCommit(g) ==
  /\ Gated(g, "generation") /\ Holds(g, "flush")
  /\ partial' = TRUE
  /\ Remember(g, [NoLocal EXCEPT !.at = "stream"])
  /\ UNCHANGED <<log, sub, inbox, run, listed, task, ownerIntent, cascade, budget>>

\* Bug: the response is classified while a partial is on its way.
Bug_RespondsAtOnce(g) ==
  \/ Phase(g, "request") /\ (Holds(g, "stream") \/ Holds(g, "flush"))
  \/ Phase(g, "poll")
\* A response is classified once no partial is on its way.
Responds(g) ==
  \/ Phase(g, "request") /\ Holds(g, "stream")
  \/ Phase(g, "poll")

\* A deferred response shows no partial.
Deferred(g) ==
  /\ Responds(g) /\ ~partial
  /\ log' = log /\ partial' = FALSE
  /\ MovesOn(g, [task[g] EXCEPT !.phase = "poll"])

Overflows(g) ==
  /\ Responds(g) /\ task[g].compacted = "no" /\ "overflow" \in Reasons /\ Cuts(log) # {}
  /\ Blocks(g, "overflow", Visible(log))

Retry(g) ==
  /\ Responds(g)
  /\ log' = Visible(log) /\ partial' = FALSE
  /\ MovesOn(g, [task[g] EXCEPT !.phase = "retry"])
RetryDue(g) ==
  /\ Phase(g, "retry")
  /\ UNCHANGED <<log, partial>>
  /\ MovesOn(g, [task[g] EXCEPT !.phase = "prepare"])

ModelError(g) ==
  /\ Responds(g)
  /\ RunFails(g, Visible(log), "model_error") /\ InBounds

\* The run succeeded at a boundary b: its inputs settle, and placed users start
\* the next run.
RunEnds(g, b, status, reason) ==
  /\ log' = b.log /\ inbox' = b.inbox
  /\ sub' = EndRun(b.sub, g, status, reason)
  /\ StartRun(Terminated(task, g, "completed"), b.users, RunAfter(g))

\* Bug: the run stays with the generation that ended.
Bug_KeepsRun(g, b) ==
  /\ log' = b.log /\ inbox' = b.inbox /\ sub' = b.sub
  /\ \E S \in NextIds(task, 1) :
       task' = WithTasks(Terminated(task, g, "completed"), S, Generation)
  /\ run' = [run EXCEPT !.inputs = @ \cup b.users]
\* handOver: the inputs, and those a boundary added, move to a new generation.
HandsOver(g, b) ==
  /\ log' = b.log /\ inbox' = b.inbox /\ sub' = b.sub
  /\ \E S \in NextIds(task, 1) : \E h \in S :
       /\ task' = WithTasks(Terminated(task, g, "completed"), S, Generation)
       /\ run' = IF run.task = g THEN [task |-> h, inputs |-> run.inputs \cup b.users] ELSE run

\* The rest of a commit that ends a generation.
EndsGeneration(g) ==
  /\ partial' = FALSE
  /\ Forget(g) /\ Observe /\ InBounds
  /\ UNCHANGED <<listed, ownerIntent, budget>>

\* answer(): with a continuation of an onYield hook only when the boundary
\* placed no user and no reset.
Answer(g, continuation) ==
  /\ Responds(g)
  /\ \E modes \in Modes :
       LET b == Boundary(Visible(log), sub, inbox, "final", modes) IN
       IF continuation /\ b.users = {} /\ ~b.reset
       THEN HandsOver(g, [b EXCEPT !.log = Visible(@)])
       ELSE RunEnds(g, b, "done", "none")
  /\ EndsGeneration(g)

\* startToolRound: one tool task per call, or one and the rest pending in a
\* sequential round.  A round all of whose calls are unavailable has no task.
StartRound(g) ==
  /\ Responds(g)
  /\ \E n \in Calls, started \in 0..2 : \E S \in NextIds(task, started) :
       /\ started \in {0, 1, n} /\ started <= n
       /\ log' = IF started = 0 THEN Visible(Visible(log)) ELSE Visible(log)
       /\ task' = [WithTasks(task, S, Tool(g)) EXCEPT
                     ![g].phase = "tools", ![g].pending = IF started = 0 THEN 0 ELSE n - started]
  /\ partial' = FALSE
  /\ Forget(g) /\ Observe /\ InBounds
  /\ UNCHANGED <<sub, inbox, run, listed, ownerIntent, budget>>

NextCall(g) ==
  /\ Phase(g, "tools") /\ task[g].pending > 0
  /\ \E S \in NextIds(task, 1) :
       task' = [WithTasks(task, S, Tool(g)) EXCEPT ![g].pending = @ - 1]
  /\ Observe
  /\ UNCHANGED <<log, sub, inbox, live, local, ownerIntent, budget>>

Tools(g) == {t \in Tasks : task[t].kind = "tool" /\ task[t].owner = g}
Completed(S) == {t \in S : task[t].status = "completed"}

\* finishToolRound: `ending` is what the tools' controls ask for.
\* Bug: a queued reset does not end the run.
Bug_RoundEndsPlain(ending, b) == ending # "continue"
RoundEnds(ending, b) == ending # "continue" \/ b.reset

FinishRound(g, ending) ==
  /\ Phase(g, "tools") /\ task[g].pending = 0
  /\ ending = "terminate" => Tools(g) # {} /\ Completed(Tools(g)) = Tools(g)
  /\ ending = "handoff" => Completed(Tools(g)) # {}
  /\ \E modes \in Modes :
       LET start == IF ending = "handoff" THEN Marker(log, Self, 0) ELSE log
           b == Boundary(start, sub, inbox, IF ending = "continue" THEN "postTools" ELSE "final",
                         modes) IN
       IF RoundEnds(ending, b)
       THEN RunEnds(g, b, IF ending = "continue" THEN "unanswered" ELSE "done",
                    IF ending = "continue" THEN "reset" ELSE "none")
       ELSE HandsOver(g, b)
  /\ EndsGeneration(g)

----------------------------------------------------------------------------
(* Tool calls, as far as their round sees them: a result entry and an end. *)

ToolEnds(t, status) ==
  /\ Gated(t, "tool")
  /\ log' = Visible(log) /\ InBounds
  /\ task' = Terminated(task, t, status)
  /\ Observe
  /\ UNCHANGED <<sub, inbox, live, local, ownerIntent, budget>>

----------------------------------------------------------------------------
(* Compactions.                                                            *)

\* Conversation.compact().
Compact ==
  /\ "manual" \in Reasons
  /\ \E S \in NextIds(task, 1) :
       /\ task' = WithTasks(task, S, Compaction(NoTask, "manual"))
       /\ listed' = listed \cup S
  /\ Observe
  /\ UNCHANGED <<log, sub, inbox, run, partial, local, ownerIntent, budget>>

Selecting(c) == Gated(c, "compaction") /\ task[c].phase = "select"

\* select reads the context and chooses a cut; hooks may take their time.
SelectRead(c) ==
  /\ Selecting(c) /\ Holds(c, "none")
  /\ \E cut \in Cuts(log) : Remember(c, [at |-> "read", tail |-> cut, base |-> log.covers])
  /\ UNCHANGED <<log, sub, inbox, live, task, ownerIntent, cascade, budget>>

SelectCommit(c) ==
  /\ Selecting(c) /\ Holds(c, "read")
  /\ task' = [task EXCEPT ![c].phase = "summarize", ![c].cut = local[c].tail,
                          ![c].base = local[c].base]
  /\ Forget(c) /\ Observe
  /\ UNCHANGED <<log, sub, inbox, live, ownerIntent, budget>>

\* A commit that ends a compaction removes its status.
EndsCompaction(c, T) ==
  /\ task' = T /\ listed' = listed \ {c}
  /\ Forget(c) /\ Observe
  /\ UNCHANGED <<ownerIntent, budget, partial>>

\* Nothing to compact, a hook declined, or the model is missing or failed.
CompactionEnds(c, status) ==
  /\ Gated(c, "compaction")
  /\ status = "completed" => task[c].phase = "select"
  /\ EndsCompaction(c, Terminated(task, c, status))
  /\ UNCHANGED <<log, sub, inbox, run>>

\* The summarize and retry phases repeat the pinned request.
Backoff(c) ==
  /\ Gated(c, "compaction") /\ task[c].phase \in {"summarize", "retry"}
  /\ task' = [task EXCEPT ![c].phase = IF @ = "retry" THEN "summarize" ELSE "retry"]
  /\ Observe
  /\ UNCHANGED <<log, sub, inbox, live, local, ownerIntent, budget>>

\* The summary is there: from the model, or from a hook right after select.
Summary(c) ==
  CASE task[c].phase = "summarize" -> [cut |-> task[c].cut, base |-> task[c].base]
    [] OTHER -> [cut |-> local[c].tail, base |-> local[c].base]
HasSummary(c) ==
  /\ Gated(c, "compaction")
  /\ task[c].phase = "summarize" \/ (task[c].phase = "select" /\ Holds(c, "read"))

\* placeSummary: a blocking compaction appends, any other is admitted.
PlaceBlocking(c) ==
  /\ HasSummary(c) /\ task[c].owner # NoTask
  /\ log' = Marker(log, Summary(c).cut, Summary(c).base) /\ InBounds
  /\ EndsCompaction(c, [Terminated(task, c, "completed") EXCEPT ![c].placed = TRUE])
  /\ UNCHANGED <<sub, inbox, run>>

PlaceSummary(c) ==
  /\ HasSummary(c) /\ task[c].owner = NoTask
  /\ LET T == Terminated(task, c, "completed") IN
     /\ \E s \in Subs : NextSub(s) /\
          LET item == [id |-> s, mode |-> "write", head |-> Summary(c).cut, model |-> TRUE,
                       base |-> Summary(c).base] IN
          \/ AdmitBusy(s, item, "write") /\ task' = T
          \/ AdmitBehind(s, item, "write", T)
          \/ AdmitWrite(s, item, T)
     /\ listed' = listed \ {c}
     /\ Forget(c) /\ Observe /\ InBounds
     /\ UNCHANGED <<ownerIntent, budget, partial>>

----------------------------------------------------------------------------
(* Ends the abort handlers and the scheduler write.                        *)

\* Bug: an ended compaction stays listed.
Bug_EndedListed(t, reason, l) ==
  /\ log' = l
  /\ partial' = IF task[t].kind = "generation" THEN FALSE ELSE partial
  /\ sub' = EndRun(sub, t, "unanswered", reason)
  /\ run' = RunAfter(t)
  /\ task' = Terminated(task, t, "ended")
  /\ listed' = listed
  /\ Forget(t) /\ Observe
  /\ UNCHANGED <<inbox, ownerIntent, budget>>
Ended(t, reason, l) ==
  /\ log' = l
  /\ partial' = IF task[t].kind = "generation" THEN FALSE ELSE partial
  /\ sub' = EndRun(sub, t, "unanswered", reason)
  /\ run' = RunAfter(t)
  /\ task' = Terminated(task, t, "ended")
  /\ listed' = listed \ {t}
  /\ Forget(t) /\ Observe
  /\ UNCHANGED <<inbox, ownerIntent, budget>>

\* Abort handlers, bottom-up.  The generation keeps its partial, and owes a
\* result to the calls it never started.
AbortLog(t) ==
  LET kept == IF task[t].kind = "generation" THEN WithPartial(log) ELSE log IN
  IF task[t].kind = "tool" \/ (task[t].phase = "tools" /\ task[t].pending > 0)
  THEN Visible(kept) ELSE kept

AbortHandler(t) ==
  /\ Live(task, t) /\ task[t].marked /\ OwnedLive(task, t) = {}
  /\ Ended(t, "aborted", AbortLog(t))

\* settleSchedulerOutcome: a handler failed, or, marked, no definition takes
\* the task.  The run ends and keeps its partial; a tool leaves no result.
SchedulerEnds(t) ==
  /\ Live(task, t) /\ OwnedLive(task, t) = {}
  /\ Ended(t, "fault", IF run.task = t THEN WithPartial(log) ELSE log)

----------------------------------------------------------------------------
Init ==
  /\ log = [last |-> 0, tail |-> 0, head |-> NoHead, covers |-> 0]
  /\ sub = [s \in Subs |-> NoSub] /\ inbox = <<>>
  /\ run = NoRun /\ partial = FALSE /\ listed = {}
  /\ task = [t \in Tasks |-> Absent] /\ local = [t \in Tasks |-> NoLocal]
  /\ ownerIntent = FALSE /\ cascade = FALSE /\ aborts = 0 /\ crashes = 0

Host ==
  \/ Submit \/ Compact
  \/ \E s \in Subs : AbortSubmission(s)
  \/ \E background \in BOOLEAN : AbortConversation(background)
  \/ \E t \in Tasks : AbortTask(t)
  \/ OwnerCancelled \/ OwnerEnds \/ Crash

GenerationStep(g) ==
  \/ NoModel(g) \/ PrepareRejects(g) \/ PrepareRead(g) \/ PrepareBlocks(g) \/ PrepareCommit(g)
  \/ RequestBegin(g) \/ FlushBegin(g) \/ FlushCommit(g)
  \/ Deferred(g) \/ Overflows(g) \/ Retry(g) \/ RetryDue(g) \/ ModelError(g)
  \/ \E continuation \in BOOLEAN : Answer(g, continuation)
  \/ StartRound(g) \/ NextCall(g)
  \/ \E ending \in {"terminate", "handoff", "continue"} : FinishRound(g, ending)

CompactionStep(c) ==
  \/ SelectRead(c) \/ SelectCommit(c) \/ Backoff(c) \/ PlaceBlocking(c) \/ PlaceSummary(c)
  \/ \E status \in {"completed", "ended"} : CompactionEnds(c, status)

Next ==
  \/ Host \/ Reconcile
  \/ \E t \in Tasks :
       \/ GenerationStep(t) \/ CompactionStep(t)
       \/ \E status \in {"completed", "ended"} : ToolEnds(t, status)
       \/ AbortHandler(t) \/ SchedulerEnds(t)

Spec == Init /\ [][Next]_vars

\* Reconcile passes come, and abort handlers run and return.
Fairness == WF_vars(Reconcile) /\ \A t \in Tasks : WF_vars(AbortHandler(t))
FairSpec == Spec /\ Fairness

----------------------------------------------------------------------------
(* Safety.                                                                 *)

TypeOK ==
  /\ log \in Log
  /\ sub \in [Subs -> Submission] /\ inbox \in Seq(Item)
  /\ run \in [task : Tasks \cup {NoTask}, inputs : SUBSET Subs]
  /\ partial \in BOOLEAN /\ listed \subseteq Tasks
  /\ task \in [Tasks -> TaskRecord] /\ local \in [Tasks -> Local]
  /\ ownerIntent \in BOOLEAN /\ cascade \in BOOLEAN
  /\ aborts \in 0..MaxAborts /\ crashes \in 0..MaxCrashes

\* The inbox lists exactly the queued submissions, in id order: none is lost
\* and none left behind by boundaries, withdrawals and cascades (inbox.ts
\* applyBoundary, removeInboxItem, withdrawQueuedInputs).
InboxListsQueued ==
  /\ {inbox[i].id : i \in DOMAIN inbox} = {s \in Subs : sub[s].status = "queued"}
  /\ \A i, j \in DOMAIN inbox : i < j => inbox[i].id < inbox[j].id

\* Every placed input is an input of the run, and every input of the run is
\* placed: whatever ends, hands over or restarts a run, no input is left without
\* a task that settles it, and none is settled while its run goes on
\* (live.ts endRun, generation.ts handOver, startRun).
PlacedIsInRun == run.inputs = {s \in Subs : sub[s].status = "placed"}

\* The conversation is busy exactly while a generation is live, and that one
\* owns the run ("present exactly while busy", live.ts LiveState).
RunIsTheGeneration ==
  {t \in Tasks : task[t].kind = "generation" /\ Live(task, t)} = {run.task} \ {NoTask}

\* tg.live lists exactly the live compactions, also when the scheduler decides
\* their outcome (live.ts settleSchedulerOutcome).
ListedIsLive == listed = Compactions(task)

\* "Only the Harness writes to a busy conversation, so the transcript read here
\* is still the tail at the commit" (generation.ts prepare).
PreparedTailHolds ==
  \A g \in Tasks : Phase(g, "prepare") /\ Holds(g, "read") => local[g].tail = log.tail

\* A committed partial belongs to the request of the run's generation: none
\* lands after the response was classified (generation.ts streamResponse).
PartialIsTheRequests ==
  partial => Busy /\ task[run.task].phase = "request"

\* A queued input below a cancelled owner has a cascade coming that withdraws
\* it, even when it was queued after the cascade (scheduler.ts #observe).
CancelledQueueDrains ==
  ownerIntent /\ QueuedInputs # {} => cascade

----------------------------------------------------------------------------
(* Action properties.                                                      *)

\* The active range never moves back: no write, summary or boundary brings
\* back history that a head cut (inbox.ts isStale).
HeadNeverMovesBack == [][log'.head >= log.head]_vars

\* Only a reset shortens the history the model knows: a summary that lands
\* covers everything before its cut back to the same reset, whatever other
\* summaries landed since it was selected (compaction.ts placeSummary).
ContextReachesBack == [][log'.covers = log.covers \/ log'.covers > log.last]_vars

\* A reset ends the run it cuts: no input placed before it stays in a run after
\* it (generation.ts finishToolRound, answer).
ResetEndsRun == [][log'.head > log.last => run.inputs \cap run'.inputs = {}]_vars

\* A partial the host has seen becomes an entry or is replaced by the response.
PartialIsKept == [][partial /\ ~partial' => log'.tail > log.tail]_vars

----------------------------------------------------------------------------
(* Refinement: the abstract Submissions, with a record's status as its     *)
(* stage and the inbox as its queue.                                       *)

Promise == INSTANCE Submissions WITH
  stage <- [s \in Subs |-> sub[s].status],
  queue <- [i \in DOMAIN inbox |-> [id |-> inbox[i].id, mode |-> inbox[i].mode]]

\* The conversation keeps what Submissions promises: inputs of one mode are
\* placed oldest first, those of a run settle together and once, writes leave
\* at the next boundary, and nothing queues while idle (spec.md section 6).
KeepsPromise == Promise!Spec

----------------------------------------------------------------------------
(* Liveness.                                                               *)

\* An abort of the run's generation settles every input the run has then.
AbortSettlesInputs ==
  \A s \in Subs :
    (s \in run.inputs /\ task[run.task].marked) ~> IsSettled(sub[s])

\* Below a cancelled owner the conversation falls idle with no queued input.
CancelledFallsIdle ==
  ownerIntent ~> (~ownerIntent \/ (~Busy /\ QueuedInputs = {}))
=============================================================================
