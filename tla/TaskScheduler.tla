---------------------------- MODULE TaskScheduler ----------------------------
(***************************************************************************)
(* The durable task scheduler of the gibraltar harness                     *)
(* (packages/gibraltar/src/harness/scheduler.ts, with the owner checks of  *)
(* session/transaction.ts).                                                *)
(*                                                                         *)
(* Every commit runs alone on the Session's mutation line, so a commit,    *)
(* with the commit listener #observe that follows it, is one action.       *)
(* Handlers run off the line: between two commits of one handler any other *)
(* commit may come.  `task` and `convOwner` are durable; every other       *)
(* variable but `registry` is memory that a crash loses.                   *)
(***************************************************************************)
EXTENDS Integers, Sequences, FiniteSets

CONSTANTS
  MaxTasks,      \* bound: task ids are 1 .. MaxTasks, minted in order
  MaxConvs,      \* bound: conversation ids are 1 .. MaxConvs, 1 is the root
  Kinds,         \* task kinds
  Defs,          \* definitions a kind can be registered with
  NoDef,         \* no definition registered
  Checkpoints,   \* values of a checkpoint
  BackgroundChoices, AbandonChoices,  \* flags a new task may be given
  HandlerOutcomes, \* outcomes handlers commit, of {"completed", "failed", "aborted"}
  Registrable,   \* what extensions register or, with NoDef, unregister while it runs
  Policies,      \* wait policies in use, a subset of {"allSettled", "failFast"}
  WaitSets,      \* the sets of tasks a handler may wait on
  CreateLives,   \* when hosts create work, a subset of {"open", "enabled"}
  HandlersCreate,\* whether handlers create work in their commits
  MaxRequests,   \* bound: abort requests by hosts
  MaxCrashes,    \* bound: restarts of the process
  MaxReconciles  \* bound: reconcile commits queued on the line at once

Tasks == 1..MaxTasks
Convs == 1..MaxConvs
NoTask == 0
Unborn == -1                         \* a conversation that does not exist yet
FirstCheckpoint == CHOOSE c \in Checkpoints : TRUE

ASSUME BoundsAssumption ==
  /\ MaxTasks \in Nat \ {0} /\ MaxConvs \in Nat \ {0}
  /\ MaxCrashes \in Nat /\ MaxRequests \in Nat /\ MaxReconciles \in Nat \ {0}
ASSUME DataAssumption ==
  /\ Checkpoints # {} /\ Kinds # {}
  /\ Policies \subseteq {"allSettled", "failFast"}
  /\ WaitSets \subseteq SUBSET Tasks
  /\ HandlerOutcomes \subseteq {"completed", "failed", "aborted"}
  /\ CreateLives \subseteq {"open", "enabled"} /\ HandlersCreate \in BOOLEAN
  /\ BackgroundChoices \subseteq BOOLEAN /\ AbandonChoices \subseteq BOOLEAN
ASSUME DefsAssumption ==
  /\ Defs \subseteq [name : STRING, version : Nat, migrates : BOOLEAN]
  /\ NoDef \notin Defs /\ Registrable \subseteq Defs \cup {NoDef}

VARIABLES
  task,            \* durable task records, by id
  convOwner,       \* durable owner edge of every conversation
  registry,        \* the definition each kind is registered with
  life,            \* "down", "open" (paused), "enabled" or "closing"
  inv,             \* #invocations
  runnable,        \* #runnable
  finalizeChecks,  \* #finalizeChecks
  failFastChecks,  \* #failFastChecks
  abandoned,       \* #abandoned
  failedMigrations,\* #failedMigrations
  reconcile,       \* #reconcileScheduled (and #cascadePending, which implies it)
  reconciles,      \* reconcile passes queued on the line: the checks each took
  dirty,           \* #dirty
  reserving,       \* a reservation commit is queued on the line
  crashes,         \* restarts so far
  requests,        \* abort requests by hosts so far
  fresh            \* history: tasks created since the last open

durable == <<task, convOwner>>
wakeups == <<runnable, finalizeChecks, failFastChecks, reconcile, fresh>>
passes == <<reconciles, reserving, abandoned>>
memory == <<life, inv, wakeups, passes, failedMigrations, dirty>>
budget == <<crashes, requests>>
vars == <<durable, registry, memory, budget>>

Statuses == {"absent", "pending", "running", "waiting", "completing", "terminal"}
Outcomes == {"none", "completed", "failed", "aborted", "faulted", "orphaned"}
Marks == {"no", "restart", "request"}

TaskRecord ==
  [status : Statuses, conv : Convs, owner : Tasks \cup {NoTask},
   owners : SUBSET Tasks, background : BOOLEAN, abandonOnRestart : BOOLEAN, kind : Kinds,
   version : Nat, abort : Marks, checkpoint : Checkpoints,
   on : SUBSET Tasks, policy : {"allSettled", "failFast"}, outcome : Outcomes]

Absent ==
  [status |-> "absent", conv |-> 1, owner |-> NoTask, owners |-> {},
   background |-> FALSE, abandonOnRestart |-> FALSE, kind |-> CHOOSE k \in Kinds : TRUE,
   version |-> 0, abort |-> "no", checkpoint |-> FirstCheckpoint,
   on |-> {}, policy |-> "allSettled", outcome |-> "none"]

Invocation ==
  [mode : {"none", "run", "abort"}, at : {"step", "handler"},
   seen : Checkpoints, def : Defs \cup {NoDef}]

NoInvocation == [mode |-> "none", at |-> "step", seen |-> FirstCheckpoint, def |-> NoDef]

----------------------------------------------------------------------------
(* Records.  T is a map of task records: the committed ones, or the        *)
(* candidates of the commit underway (an overlay).                         *)

Exists(r) == r.status # "absent"
Live(r) == r.status \notin {"absent", "terminal"}
Marked(r) == r.abort # "no"
FailedOutcome(r) == r.status \in {"completing", "terminal"} /\ r.outcome # "completed"
CancellationIntent(r) == Live(r) /\ (Marked(r) \/ FailedOutcome(r))

\* withState: a record keeps its wait only while it waits.
Running(r, c) == [r EXCEPT !.status = "running", !.checkpoint = c, !.on = {}, !.policy = "allSettled"]
Pending(r) == [r EXCEPT !.status = "pending"]
Waiting(r, c, on, policy) ==
  [r EXCEPT !.status = "waiting", !.checkpoint = c, !.on = on, !.policy = policy]
Completing(r, o) ==
  [r EXCEPT !.status = "completing", !.outcome = o, !.checkpoint = FirstCheckpoint,
            !.on = {}, !.policy = "allSettled"]
\* Bug: status and outcome swapped.
Bug_TerminalSwapped(r, o) ==
  [r EXCEPT !.status = o, !.outcome = "none", !.checkpoint = FirstCheckpoint,
            !.on = {}, !.policy = "allSettled"]
Terminal(r, o) ==
  [r EXCEPT !.status = "terminal", !.outcome = o, !.checkpoint = FirstCheckpoint,
            !.on = {}, !.policy = "allSettled"]
WithAbortMark(r, reason) == [r EXCEPT !.abort = reason]

\* A request replaces a restart mark; a restart mark replaces nothing.
Replaces(reason, r) == r.abort = "no" \/ (r.abort = "restart" /\ reason = "request")

----------------------------------------------------------------------------
(* Ownership.  The node above a task is its owner task, or its             *)
(* conversation and then that conversation's owner.  Owners and place never *)
(* change, so a record carries its whole chain of owners from the start.   *)

ParentOf(r) == IF r.owner # NoTask THEN r.owner ELSE convOwner[r.conv]
OwnerChain(T, r) ==
  IF ParentOf(r) = NoTask THEN {} ELSE {ParentOf(r)} \cup T[ParentOf(r)].owners

\* #walkDown: what a walk down from t reaches.  It reaches background tasks
\* but does not enter them.
Below(T, t) ==
  {u \in Tasks : /\ t \in T[u].owners
                 /\ \A b \in T[u].owners : T[b].background => t \notin T[b].owners}

\* The walk down from conversation c; with `cross` it enters background tasks.
Members(T, c) == {u \in Tasks : Exists(T[u]) /\ T[u].owner = NoTask /\ T[u].conv = c}
BelowConversation(T, c, cross) ==
  Members(T, c) \cup
  {u \in Tasks : \E m \in Members(T, c) :
     IF cross THEN m \in T[u].owners ELSE ~T[m].background /\ u \in Below(T, m)}

\* #ownedLive: the live foreground work below t.
OwnedLive(T, t) == {u \in Below(T, t) : Live(T[u]) /\ ~T[u].background}

\* Of the tasks in S that have u below them, the nearest one.
Nearest(T, S) == {a \in S : S \cap Below(T, a) = {}}

\* #nearestLiveAbove: the live task that u's end may free, if any.
NearestLiveAbove(T, u) ==
  IF T[u].background THEN {}
  ELSE Nearest(T, {a \in Tasks : Live(T[a]) /\ u \in Below(T, a)})

\* #cancellingOwner: the nearest owner whose cancellation intent reaches u.
CancellingOwner(T, u) ==
  Nearest(T, {a \in Tasks : CancellationIntent(T[a]) /\ u \in Below(T, a)})
BelowCancelled(T, u) ==
  \E a \in Tasks : CancellationIntent(T[a]) /\ u \in Below(T, a)

\* Bug: abort does not wait for the work below.
Bug_WaitingOnTopDown(T, t) ==
  IF ~Marked(T[t]) /\ T[t].status = "waiting" THEN {u \in T[t].on : Live(T[u])} ELSE {}

\* #waitingOn: what the task waits for before its next invocation.
WaitingOn(T, t) ==
  CASE Marked(T[t]) -> OwnedLive(T, t)
    [] ~Marked(T[t]) /\ T[t].status = "waiting" -> {u \in T[t].on : Live(T[u])}
    [] OTHER -> {}

\* The wait-for graph of #waitCycle: u cannot settle before these.
WaitEdges(T, u) ==
  IF ~Live(T[u]) THEN {}
  ELSE (IF T[u].status = "waiting" /\ ~Marked(T[u]) THEN T[u].on ELSE {})
         \cup OwnedLive(T, u)

\* Everything the wait-for graph reaches from the tasks in S.
WaitReach(T, S) ==
  LET edges == [u \in Tasks |-> WaitEdges(T, u)] IN
  {v \in Tasks : \A Z \in SUBSET Tasks :
     (S \subseteq Z /\ \A u \in Z : edges[u] \subseteq Z) => v \in Z}

\* Bug: no outcome is held.
Bug_SettledAtOnce(T, t, o) == [T EXCEPT ![t] = Terminal(@, o)]

\* #terminate and #commitState: an outcome is held while owned work is live.
Settled(T, t, o) ==
  [T EXCEPT ![t] = IF OwnedLive(T, t) # {} THEN Completing(@, o) ELSE Terminal(@, o)]

----------------------------------------------------------------------------
(* Definitions (#resolve, #fit, canReserve).                               *)

\* What the registry offers a record: nothing, a definition of its version,
\* or a newer one that must migrate it.
\* Bug: an older definition is taken too.
Bug_FitsOlder(r, d) == d # NoDef /\ d.version <= r.version
Fits(r, d) == d # NoDef /\ d.version = r.version
Migrates(r, d, failed) == d # NoDef /\ d.version > r.version /\ failed # d
CanReserve(r, d) ==
  d # NoDef /\ (d.version = r.version \/ (d.version > r.version /\ d.migrates))

\* A migration runs extension code: a definition without one always fails,
\* any other may throw.  #resolve remembers the definition that failed.
Migrating(t) ==
  Live(task[t]) /\ Migrates(task[t], registry[task[t].kind], failedMigrations[t])
ThrownChoices(S) ==
  {X \in SUBSET {t \in S : Migrating(t)} :
     \A t \in S : Migrating(t) /\ ~registry[task[t].kind].migrates => t \in X}
Ready(t, thrown) == Fits(task[t], registry[task[t].kind]) \/ (Migrating(t) /\ t \notin thrown)
Resolved(thrown) ==
  failedMigrations' = [t \in Tasks |->
    CASE task'[t].status = "terminal" -> NoDef
      [] task'[t].status # "terminal" /\ t \in thrown -> registry[task[t].kind]
      [] OTHER -> failedMigrations[t]]

----------------------------------------------------------------------------
(* The commit listener #observe with #track and #release: what every       *)
(* commit does to the scheduler's sets.                                    *)

Changed == {t \in Tasks : task'[t] # task[t]}
Ended == {t \in Changed : task'[t].status = "terminal"}
Created == {t \in Changed : task[t].status = "absent"}
NewlyFailed == {t \in Changed : FailedOutcome(task'[t]) /\ ~FailedOutcome(task[t])}
Decided(r) == r.status \in {"completing", "terminal"}

\* Bug: the end of work frees nobody.
Bug_FreedNobody == {}

\* The holders that the tasks ended by this commit may free.
Freed == UNION {NearestLiveAbove(task', t) : t \in Ended}
WaitersOf(S) == {w \in Tasks : task'[w].status = "waiting" /\ task'[w].on \cap S # {}}

\* Bug: a wait that starts after a member failed is not checked.
Bug_NoFailFastWaits == {}

NewFailFastWaits ==
  {w \in Changed : /\ task'[w].status = "waiting" /\ task'[w].policy = "failFast"
                   /\ task[w].status # "waiting"}
FailFastWaitersOf(S) == {w \in WaitersOf(S) : task'[w].policy = "failFast"}

\* Bug: a new mark does not start a cascade.
Bug_CascadeOnUpgrade ==
  \E t \in Changed \ Ended : task[t].abort = "restart" /\ task'[t].abort = "request"

\* New marks, upgraded marks and new work that a cascade has to follow.
CascadeDue ==
  \E t \in Changed \ Ended :
    \/ Marked(task'[t]) /\ ~Marked(task[t])
    \/ task[t].abort = "restart" /\ task'[t].abort = "request"
    \/ /\ t \in Created /\ ~task'[t].background /\ ~Marked(task'[t])
       /\ BelowCancelled(task', t)

ReconcileDue ==
  \/ Ended # {}
  \/ \E t \in Changed : task'[t].status = "completing" /\ task[t].status # "completing"
  \/ NewFailFastWaits # {}
  \/ FailFastWaitersOf(NewlyFailed) # {}
  \/ CascadeDue

\* The first three arguments are #runnable, #finalizeChecks and
\* #failFastChecks as the commit's callback left them; `due` is whether the
\* callback asked for a reconcile pass.
Observe(run, final, failFast, due) ==
  /\ runnable' =
       (run \ {t \in Changed : Decided(task'[t])})
         \cup {t \in Changed : ~Decided(task'[t])}
         \cup {a \in Freed : Marked(task'[a]) /\ ~Decided(task'[a])}
         \cup WaitersOf(Ended)
  /\ finalizeChecks' =
       (final \cup {t \in Changed \cup Freed : task'[t].status = "completing"}) \ Ended
  /\ failFastChecks' =
       (failFast \ Ended) \cup NewFailFastWaits \cup FailFastWaitersOf(NewlyFailed)
  /\ reconcile' = (reconcile \/ due \/ ReconcileDue)
  /\ fresh' = fresh \cup Created

Kick(end) == dirty' = (dirty \/ end \/ Changed # {})

\* The commit of a host, or of a handler that goes on: no scheduler pass.
Commit ==
  /\ Observe(runnable, finalizeChecks, failFastChecks, FALSE)
  /\ Kick(FALSE)
  /\ UNCHANGED <<registry, life, inv, passes, crashes>>

----------------------------------------------------------------------------
(* Creating work (tx.createTask, tx.createConversation).                   *)

InSession == life \in {"open", "enabled"}

NextIds(T) == {t \in Tasks : ~Exists(T[t]) /\ \A u \in Tasks : u < t => Exists(T[u])}

\* A child task is never background and lives in its owner's conversation.
TaskOptions ==
  [conv : Convs, owner : Tasks \cup {NoTask}, background : BackgroundChoices \cup {FALSE},
   abandonOnRestart : AbandonChoices, kind : Kinds, def : Defs]
Creatable(T) ==
  {x \in TaskOptions :
     /\ convOwner[x.conv] # Unborn
     /\ IF x.owner = NoTask THEN x.background \in BackgroundChoices
        ELSE Exists(T[x.owner]) /\ ~x.background /\ x.conv = T[x.owner].conv}

NewTask(T, x) ==
  [status |-> "pending", conv |-> x.conv, owner |-> x.owner, owners |-> OwnerChain(T, x),
   background |-> x.background, abandonOnRestart |-> x.abandonOnRestart,
   kind |-> x.kind, version |-> x.def.version, abort |-> "no",
   checkpoint |-> FirstCheckpoint, on |-> {}, policy |-> "allSettled",
   outcome |-> "none"]

\* The candidates a commit may stage: nothing new, or one new task.
Staged(T) ==
  {T} \cup {[T EXCEPT ![p[1]] = NewTask(T, p[2])] : p \in NextIds(T) \X Creatable(T)}

\* #validateOwners, on the owner's final candidate in the commit.
TakesWork(r) == Live(r) /\ r.status # "completing" /\ ~Marked(r)
OwnersValid(T) ==
  \A t \in Tasks : ~Exists(task[t]) /\ Exists(T[t]) /\ T[t].owner # NoTask
                     => TakesWork(T[T[t].owner])

CreateTask ==
  /\ life \in CreateLives
  /\ \E S \in Staged(task) \ {task} : OwnersValid(S) /\ task' = S
  /\ UNCHANGED <<convOwner, failedMigrations, requests>>
  /\ Commit

CreateConversation ==
  /\ life \in CreateLives \cup {l \in {"enabled"} : HandlersCreate}
  /\ \E c \in Convs, o \in {NoTask} \cup {u \in Tasks : TakesWork(task[u])} :
       /\ convOwner[c] = Unborn /\ \A b \in Convs : b < c => convOwner[b] # Unborn
       /\ convOwner' = [convOwner EXCEPT ![c] = o]
  /\ UNCHANGED <<task, registry, memory, budget>>

----------------------------------------------------------------------------
(* Requests to abort.                                                      *)

\* abort(): orphan what no definition can take, otherwise mark.  With
\* keepRestart, an owner's own cleanup, a restart mark stays.
Abort(u, keepRestart) ==
  LET resolves == /\ inv[u].mode = "none" /\ task[u].status # "completing"
                  /\ OwnedLive(task, u) = {} IN
  /\ Live(task[u])
  /\ ~(keepRestart /\ task[u].abort = "restart")
  /\ \E thrown \in ThrownChoices(IF resolves THEN {u} ELSE {}) :
       /\ task' = IF resolves /\ ~Ready(u, thrown)
                  THEN Settled(task, u, "orphaned")
                  ELSE [task EXCEPT ![u] = WithAbortMark(@, "request")]
       /\ Resolved(thrown)
  /\ UNCHANGED convOwner
  /\ Commit

Request == /\ InSession /\ requests < MaxRequests
           /\ requests' = requests + 1

HostAbort(u) == Request /\ Abort(u, FALSE)

\* Conversation.abort(): every live task an ordinary walk from c reaches; with
\* `background` the walk crosses background tasks and marks them too.
AbortConversation(c, background) ==
  LET reached == {u \in BelowConversation(task, c, background) :
                    Live(task[u]) /\ (background \/ ~task[u].background)} IN
  /\ Request /\ convOwner[c] # Unborn
  /\ task' = [u \in Tasks |-> IF u \in reached THEN WithAbortMark(task[u], "request")
                              ELSE task[u]]
  /\ UNCHANGED <<convOwner, failedMigrations>>
  /\ Commit

----------------------------------------------------------------------------
(* Reconciliation (#scheduleReconcile, #reconcile, #finalize): one commit  *)
(* that applies what the committed records imply.                          *)

\* The microtask takes the checks and queues its commit on the line.
ReconcileBegin ==
  /\ InSession /\ reconcile /\ Len(reconciles) < MaxReconciles
  /\ reconcile' = FALSE
  /\ reconciles' = Append(reconciles, failFastChecks)
  /\ failFastChecks' = {}
  /\ UNCHANGED <<durable, registry, life, inv, runnable, finalizeChecks, fresh,
                 reserving, abandoned, failedMigrations, dirty, budget>>

\* Only an owner abandoned after a restart, and nothing else, passes its
\* restart reason on; any other intent marks as a request.
PassesRestart(r) == r.abort = "restart" /\ ~FailedOutcome(r)

\* Bug: only running work is marked.
Bug_CascadeRunning(restart) ==
  {u \in Tasks :
     /\ task[u].status = "running" /\ ~task[u].background
     /\ \E o \in CancellingOwner(task, u) : PassesRestart(task[o]) = restart}

\* The live foreground work below owners whose reason is, or is not, restart.
Cascade(restart) ==
  {u \in Tasks :
     /\ Live(task[u]) /\ ~task[u].background
     /\ \E o \in CancellingOwner(task, u) : PassesRestart(task[o]) = restart}

\* The other live members of a failFast wait one member of which failed.
FailFastMarks(checks) ==
  UNION {{u \in task[w].on : Live(task[u]) /\ ~FailedOutcome(task[u])} :
           w \in {v \in checks : /\ task[v].status = "waiting"
                                 /\ \E m \in task[v].on : FailedOutcome(task[m])}}

\* Collected first, so that a request wins over a restart mark.
WithMarks(asked, passed) ==
  [u \in Tasks |->
     CASE u \in asked /\ Replaces("request", task[u]) -> WithAbortMark(task[u], "request")
       [] u \in passed \ asked /\ Replaces("restart", task[u])
            -> WithAbortMark(task[u], "restart")
       [] OTHER -> task[u]]

\* Bug: the worklist ends holders without looking below them.
Bug_FinalizedEarly(T, checks, F) ==
  F = {t \in Tasks : T[t].status = "completing" /\ t \in checks}

\* #finalize: a worklist of holders; ending one may free the holder above it.
\* F is what the worklist ends: each has no live work but what F ends too.
Finalized(T, checks, F) ==
  F = {t \in Tasks :
         /\ T[t].status = "completing"
         /\ OwnedLive(T, t) \subseteq F
         /\ t \in checks \/ \E u \in F : t \in NearestLiveAbove(T, u)}

ReconcileCommit ==
  /\ InSession /\ Len(reconciles) > 0
  /\ LET marked == WithMarks(Cascade(FALSE) \cup FailFastMarks(Head(reconciles)),
                             Cascade(TRUE)) IN
     \E F \in SUBSET Tasks :
       /\ Finalized(marked, finalizeChecks, F)
       /\ task' = [t \in Tasks |-> IF t \in F THEN Terminal(marked[t], marked[t].outcome)
                                   ELSE marked[t]]
  /\ reconciles' = Tail(reconciles)
  /\ Observe(runnable, {}, failFastChecks, FALSE)
  /\ Kick(FALSE)
  /\ Resolved({})
  /\ UNCHANGED <<convOwner, registry, life, inv, reserving, abandoned, budget>>

----------------------------------------------------------------------------
(* Reservation (#kick, #drain, #reserve).                                  *)

DrainBegin ==
  /\ life = "enabled" /\ dirty /\ ~reserving
  /\ dirty' = FALSE /\ reserving' = TRUE
  /\ UNCHANGED <<durable, registry, life, inv, wakeups, reconciles, abandoned,
                 failedMigrations, budget>>

\* The first pass after open only marks the abandoned tasks.
AbandonPass ==
  /\ life = "enabled" /\ reserving /\ abandoned # {}
  /\ task' = [t \in Tasks |->
                IF t \in abandoned /\ Live(task[t]) /\ ~Marked(task[t])
                THEN WithAbortMark(task[t], "restart") ELSE task[t]]
  /\ abandoned' = {} /\ reserving' = FALSE
  /\ Observe(runnable, finalizeChecks, failFastChecks, FALSE)
  /\ Kick(TRUE)
  /\ UNCHANGED <<convOwner, registry, life, inv, reconciles, failedMigrations, budget>>

\* Candidates whose wait is over; the other runnable tasks leave the set and
\* return when what they wait for ends.
Candidates ==
  {t \in runnable : /\ Live(task[t]) /\ task[t].status # "completing"
                    /\ inv[t].mode = "none"
                    /\ WaitingOn(task, t) = {}}

\* Work below a cancelled owner waits for its mark instead of running.
HeldBack ==
  {t \in Candidates : /\ ~Marked(task[t]) /\ ~task[t].background
                      /\ BelowCancelled(task, t)}

NewInvocation(t) ==
  IF Marked(task[t])
  THEN [NoInvocation EXCEPT !.mode = "abort", !.at = "handler"]
  ELSE [NoInvocation EXCEPT !.mode = "run", !.def = registry[task[t].kind]]

\* Bug: an abandoned task is orphaned as any marked one.
Bug_OrphanableMarked(r) == Marked(r)

\* An abandoned task waits for its definition, so its handler can clean up.
Orphanable(r) == r.abort = "request"

ReservePass ==
  /\ life = "enabled" /\ reserving /\ abandoned = {}
  /\ \E thrown \in ThrownChoices(Candidates \ HeldBack) :
       LET reserved == {t \in Candidates \ HeldBack : Ready(t, thrown)}
           orphaned == {t \in Candidates \ HeldBack :
                          ~Ready(t, thrown) /\ Orphanable(task[t])} IN
       /\ task' = [t \in Tasks |->
            CASE t \in reserved -> [Running(task[t], task[t].checkpoint)
                                      EXCEPT !.version = registry[task[t].kind].version]
              [] t \in orphaned -> Terminal(task[t], "orphaned")
              [] OTHER -> task[t]]
       /\ inv' = [t \in Tasks |-> IF t \in reserved THEN NewInvocation(t) ELSE inv[t]]
       /\ Observe(Candidates \ reserved, finalizeChecks, failFastChecks, HeldBack # {})
       /\ Resolved(thrown)
  /\ reserving' = FALSE
  /\ Kick(FALSE)
  /\ UNCHANGED <<convOwner, registry, life, reconciles, abandoned, budget>>

----------------------------------------------------------------------------
(* Invocations.  A step between two phases decides on the line whether the *)
(* invocation goes on (#run, #step, #decide).  A handler that returned     *)
(* waits only for its step, so returning and stepping are one action:      *)
(* `how` is "first" for the step before the first phase.                   *)

AtStep(t, mode, how) ==
  /\ life = "enabled" /\ inv[t].mode = mode
  /\ inv[t].at = IF how = "first" THEN "step" ELSE "handler"

\* #end, with the kick of #start: the task is a candidate again.
End(t) ==
  /\ inv' = [inv EXCEPT ![t] = NoInvocation]
  /\ Kick(TRUE)
\* Bug: the end of an invocation does not make its task a candidate.
Bug_ReleasedNever(t) == runnable
Released(t) == IF Live(task[t]) THEN runnable \cup {t} ELSE runnable

StopsBelow(t) == ~task[t].background /\ BelowCancelled(task, t)

\* Rules 1 and 3, and the rule on cancelled owners: end without a write.
StepEnd(t) ==
  /\ \E how \in {"first", "returned"} : AtStep(t, "run", how)
  /\ task[t].status # "running" \/ Marked(task[t]) \/ StopsBelow(t)
  /\ UNCHANGED task
  /\ End(t)
  /\ Observe(Released(t), finalizeChecks, failFastChecks,
             task[t].status = "running" /\ ~Marked(task[t]))
  /\ UNCHANGED <<convOwner, registry, life, passes, failedMigrations, budget>>

GoesOn(t, how) ==
  /\ AtStep(t, "run", how) /\ task[t].status = "running"
  /\ ~Marked(task[t]) /\ ~StopsBelow(t)

\* An outcome the scheduler decides, on a task whose invocation just ended.
Fault(t) ==
  /\ task' = Settled(task, t, "faulted")
  /\ End(t)
  /\ Observe(Released(t), finalizeChecks, failFastChecks, FALSE)
  /\ Resolved({})
  /\ UNCHANGED <<convOwner, registry, life, passes, budget>>

Progressed(t) == task[t].checkpoint # inv[t].seen

\* Rules 4 and 6: an uncaught error, or no durable progress.
StepFault(t) ==
  /\ GoesOn(t, "failed") \/ (GoesOn(t, "returned") /\ ~Progressed(t))
  /\ Fault(t)

Replaced(t) ==
  LET d == registry[task[t].kind] IN d # inv[t].def /\ CanReserve(task[t], d)

\* Rule 5: a replacement definition that can take the task takes over.
StepHandOver(t) ==
  /\ GoesOn(t, "returned") /\ Progressed(t) /\ Replaced(t)
  /\ task' = [task EXCEPT ![t] = Pending(@)]
  /\ End(t)
  /\ Observe(Released(t), finalizeChecks, failFastChecks, FALSE)
  /\ UNCHANGED <<convOwner, registry, life, passes, failedMigrations, budget>>

StepContinue(t) ==
  /\ GoesOn(t, "first") \/ (GoesOn(t, "returned") /\ Progressed(t) /\ ~Replaced(t))
  /\ inv' = [inv EXCEPT ![t].at = "handler", ![t].seen = task[t].checkpoint]
  /\ UNCHANGED <<durable, registry, life, wakeups, passes, failedMigrations, dirty,
                 budget>>

\* #runAbort after its handler: no outcome yet is a fault.
AbortStep(t) ==
  /\ AtStep(t, "abort", "returned")
  /\ \/ task[t].status = "running" /\ Fault(t)
     \/ /\ task[t].status # "running"
        /\ UNCHANGED task
        /\ End(t)
        /\ Observe(Released(t), finalizeChecks, failFastChecks, FALSE)
        /\ UNCHANGED <<convOwner, registry, life, passes, failedMigrations, budget>>

----------------------------------------------------------------------------
(* Handlers: what a phase or abort handler may do through its runtime.     *)

\* Bug: the commit does not reread its task.
Bug_GatedOnce(t) == life = "enabled" /\ inv[t].mode # "none" /\ inv[t].at = "handler"

\* #gated: a runtime commit rereads its task on the line.
Gated(t) ==
  /\ life = "enabled" /\ inv[t].mode # "none" /\ inv[t].at = "handler"
  /\ task[t].status = "running"
  /\ inv[t].mode = "run" => ~Marked(task[t])

HandlerCommit(T) ==
  /\ OwnersValid(T)
  /\ task' = T
  /\ Resolved({})
  /\ UNCHANGED <<convOwner, requests>>
  /\ Commit

\* What the commit of a handler may stage besides its task's next state.
HandlerStaged == IF HandlersCreate THEN Staged(task) ELSE {task}

Progress(t) ==
  /\ Gated(t)
  /\ \E S \in HandlerStaged, c \in Checkpoints :
       HandlerCommit([S EXCEPT ![t] = Running(@, c)])

Finish(t) ==
  /\ Gated(t)
  /\ \E S \in HandlerStaged, o \in HandlerOutcomes : HandlerCommit(Settled(S, t, o))

\* Bug: only a wait on oneself is refused.
Bug_WaitOnOthers(T, t, on, policy) ==
  /\ inv[t].mode = "run" /\ t \notin on
  /\ \A u \in on : Exists(T[u]) /\ (policy = "failFast" => T[u].owner = t)

\* #validateWait: waits name existing tasks, failFast ones only children, and
\* none may close a cycle in the wait-for graph.
WaitValid(T, t, on, policy) ==
  /\ inv[t].mode = "run"
  /\ \A u \in on : Exists(T[u]) /\ (policy = "failFast" => T[u].owner = t)
  /\ t \notin WaitReach(T, {u \in on : Live(T[u]) /\ T[u].owner # t})

Wait(t) ==
  /\ Gated(t)
  /\ \E S \in HandlerStaged, c \in Checkpoints, on \in WaitSets, policy \in Policies :
       /\ WaitValid(S, t, on, policy)
       /\ HandlerCommit([S EXCEPT ![t] = Waiting(@, c, on, policy)])

\* runtime.abortOwned(): an owner's own cleanup of one of its children.
AbortOwned(t) ==
  /\ life = "enabled" /\ inv[t].mode # "none" /\ inv[t].at = "handler"
  /\ \E u \in Tasks : task[u].owner = t /\ Abort(u, TRUE)
  /\ UNCHANGED requests

----------------------------------------------------------------------------
(* The life of the process.                                                *)

Forget ==
  /\ inv' = [t \in Tasks |-> NoInvocation]
  /\ failedMigrations' = [t \in Tasks |-> NoDef]
  /\ reconciles' = <<>> /\ reserving' = FALSE /\ fresh' = {}

\* Bugs: running tasks stay so after a restart; only running ones are abandoned.
Bug_RecoveredNot(r) == r
Bug_AbandonedRunning(r) == r.status = "running" /\ r.abandonOnRestart

\* open(): survivors of a crash go back to pending, in one commit.
Recovered(r) == IF r.status = "running" THEN Pending(r) ELSE r
Abandoned(r) == Live(r) /\ r.abandonOnRestart

Open ==
  /\ life = "down" /\ life' = "open"
  /\ task' = [t \in Tasks |-> Recovered(task[t])]
  /\ runnable' = {t \in Tasks : Live(task[t]) /\ task[t].status # "completing"}
  /\ finalizeChecks' = {t \in Tasks : task[t].status = "completing"}
  /\ failFastChecks' = {t \in Tasks : task[t].status = "waiting" /\ task[t].policy = "failFast"}
  /\ abandoned' = {t \in Tasks : Abandoned(task[t])}
  /\ reconcile' = TRUE
  /\ dirty' = (Changed # {})
  /\ Forget
  /\ UNCHANGED <<convOwner, registry, budget>>

Resume ==
  /\ life = "open" /\ life' = "enabled"
  /\ dirty' = TRUE
  /\ UNCHANGED <<durable, registry, inv, wakeups, passes, failedMigrations, budget>>

Down ==
  /\ life' = "down"
  /\ runnable' = {} /\ finalizeChecks' = {} /\ failFastChecks' = {} /\ abandoned' = {}
  /\ reconcile' = FALSE /\ dirty' = FALSE
  /\ Forget
  /\ UNCHANGED <<durable, registry>>

\* The process dies, or the Session fails: memory is gone.
Crash ==
  /\ life # "down" /\ crashes < MaxCrashes
  /\ crashes' = crashes + 1 /\ UNCHANGED requests
  /\ Down

\* close(): #seal, after which no step writes; then join() waits for every
\* invocation to end.
Close ==
  /\ InSession /\ crashes < MaxCrashes
  /\ crashes' = crashes + 1 /\ UNCHANGED requests
  /\ life' = "closing"
  /\ UNCHANGED <<durable, registry, inv, wakeups, passes, failedMigrations, dirty>>

Join ==
  /\ life = "closing"
  /\ Down
  /\ UNCHANGED budget

\* Bug: the scheduler does not subscribe to the registry.
Bug_RegisterUnheard ==
  /\ \E k \in Kinds, d \in Registrable :
       d # registry[k] /\ registry' = [registry EXCEPT ![k] = d]
  /\ UNCHANGED <<durable, life, inv, wakeups, passes, dirty, failedMigrations, budget>>

\* Extensions come, go and are replaced.
Register ==
  /\ \E k \in Kinds, d \in Registrable :
       d # registry[k] /\ registry' = [registry EXCEPT ![k] = d]
  /\ dirty' = (dirty \/ InSession)
  /\ UNCHANGED <<durable, life, inv, wakeups, passes, failedMigrations, budget>>

----------------------------------------------------------------------------
Init ==
  /\ task = [t \in Tasks |-> Absent]
  /\ convOwner = [c \in Convs |-> IF c = 1 THEN NoTask ELSE Unborn]
  /\ registry \in [Kinds -> Defs]
  /\ life = "down"
  /\ inv = [t \in Tasks |-> NoInvocation]
  /\ runnable = {} /\ finalizeChecks = {} /\ failFastChecks = {} /\ abandoned = {}
  /\ failedMigrations = [t \in Tasks |-> NoDef]
  /\ reconcile = FALSE /\ reconciles = <<>> /\ dirty = FALSE /\ reserving = FALSE
  /\ crashes = 0 /\ requests = 0 /\ fresh = {}

Host ==
  \/ CreateTask \/ CreateConversation \/ Register
  \/ \E u \in Tasks : HostAbort(u)
  \/ \E c \in Convs, b \in BackgroundChoices : AbortConversation(c, b)

Handler(t) == Progress(t) \/ Finish(t) \/ Wait(t) \/ AbortOwned(t)

Passes == ReconcileBegin \/ ReconcileCommit \/ DrainBegin \/ AbandonPass \/ ReservePass

Step(t) == StepEnd(t) \/ StepFault(t) \/ StepHandOver(t) \/ StepContinue(t) \/ AbortStep(t)

Process == Open \/ Resume \/ Crash \/ Close \/ Join

Next ==
  \/ Host \/ Passes \/ Process
  \/ \E t \in Tasks : Handler(t) \/ Step(t)

Spec == Init /\ [][Next]_vars

\* The fair specification: the scheduler's microtasks and commits run, a
\* handler returns in the end, and the host opens and resumes the session.
Fairness ==
  /\ WF_vars(Open) /\ WF_vars(Resume) /\ WF_vars(Join)
  /\ WF_vars(ReconcileBegin) /\ WF_vars(ReconcileCommit)
  /\ WF_vars(DrainBegin) /\ WF_vars(AbandonPass) /\ WF_vars(ReservePass)
  /\ \A t \in Tasks : WF_vars(Step(t))

FairSpec == Spec /\ Fairness

----------------------------------------------------------------------------
(* Safety.                                                                 *)

\* Every variable holds values of its type.
TypeOK ==
  /\ task \in [Tasks -> TaskRecord]
  /\ convOwner \in [Convs -> Tasks \cup {NoTask, Unborn}]
  /\ registry \in [Kinds -> Defs \cup {NoDef}]
  /\ life \in {"down", "open", "enabled", "closing"}
  /\ inv \in [Tasks -> Invocation]
  /\ runnable \subseteq Tasks /\ finalizeChecks \subseteq Tasks
  /\ failFastChecks \subseteq Tasks /\ abandoned \subseteq Tasks /\ fresh \subseteq Tasks
  /\ failedMigrations \in [Tasks -> Defs \cup {NoDef}]
  /\ reconciles \in Seq(SUBSET Tasks)
  /\ reconcile \in BOOLEAN /\ dirty \in BOOLEAN /\ reserving \in BOOLEAN
  /\ crashes \in 0..MaxCrashes /\ requests \in 0..MaxRequests

\* A live child task always has a live owner: no owner ends, is finalized or
\* orphaned while a task it owns is live, and none takes work once it ended
\* (transaction.ts #validateOwners with scheduler.ts #terminate, #finalize).
OwnerOutlivesChild ==
  \A u \in Tasks : Live(task[u]) /\ task[u].owner # NoTask => Live(task[task[u].owner])

\* Abort runs bottom-up: while an abort handler runs, no child of its task is
\* live, and none appears (scheduler.ts #waitingOn, transaction.ts
\* #validateOwners on abort-marked owners).
AbortHandlerIsAlone ==
  \A t, u \in Tasks : inv[t].mode = "abort" /\ Live(task[u]) => task[u].owner # t

\* While scheduling is enabled, a task left `running` without an invocation is
\* one whose abort is coming: every other end of an invocation wrote its state
\* (scheduler.ts #decide, #end).
RunningIsInvoked ==
  \A t \in Tasks :
    life = "enabled" /\ task[t].status = "running" /\ inv[t].mode = "none"
      => Marked(task[t]) \/ StopsBelow(t)

\* "Invariant: the wait-for graph is acyclic" (scheduler.ts:1477).
WaitGraphIsAcyclic ==
  \A t \in Tasks : t \notin WaitReach(task, WaitEdges(task, t))

\* A reconcile pass is due or queued.
ReconcileComes == reconcile \/ reconciles # <<>>

\* No held outcome is forgotten: a `completing` task whose foreground work has
\* all ended is on the worklist of a pass that comes (scheduler.ts #finalize,
\* #release, #track).
HeldOutcomeIsChecked ==
  InSession => \A t \in Tasks :
    task[t].status = "completing" /\ OwnedLive(task, t) = {}
      => t \in finalizeChecks /\ ReconcileComes

\* No cascade is forgotten: unmarked foreground work below an owner with
\* cancellation intent has a reconcile pass coming that marks it, also after a
\* crash between the owner's mark and its cascade (scheduler.ts #observe).
CascadeComes ==
  InSession => \A u \in Tasks :
    Live(task[u]) /\ ~Marked(task[u]) /\ StopsBelow(u) => ReconcileComes

\* No failFast check is forgotten: while a failFast wait has a failed member
\* and an unmarked live one, a pass that checks the wait comes (scheduler.ts
\* #observe, #reconcile).
FailFastComes ==
  InSession => \A w \in Tasks :
    /\ task[w].status = "waiting" /\ task[w].policy = "failFast"
    /\ \E m \in task[w].on : FailedOutcome(task[m])
    /\ \E m \in task[w].on : Live(task[m]) /\ ~FailedOutcome(task[m]) /\ ~Marked(task[m])
    => \/ w \in failFastChecks /\ reconcile
       \/ \E i \in 1..Len(reconciles) : w \in reconciles[i]

\* No wakeup is lost: a task that waits for nothing and has no invocation is a
\* candidate, and a reservation pass comes, unless the last pass left it
\* because no definition takes it or an owner's cascade is coming (scheduler.ts
\* #runnable, #kick, #drain, #end).
NoLostWakeup ==
  life = "enabled" => \A t \in Tasks :
    /\ Live(task[t]) /\ task[t].status # "completing"
    /\ inv[t].mode = "none" /\ WaitingOn(task, t) = {}
    => /\ t \in runnable
       /\ \/ dirty \/ reserving
          \/ ~Ready(t, {}) /\ task[t].abort # "request"
          \/ ~Marked(task[t]) /\ StopsBelow(t)

\* A task created with abandonOnRestart never runs a phase in a later process:
\* the first reservation pass after open only marks (scheduler.ts #reserve).
AbandonedNeverRuns ==
  \A t \in Tasks : task[t].abandonOnRestart /\ t \notin fresh => inv[t].mode # "run"

----------------------------------------------------------------------------
(* Action properties.                                                      *)

\* A task ends only when no live foreground work is left below it, whatever
\* ends it and whatever the same commit creates or ends.
EndsBottomUp ==
  [][\A t \in Tasks : Live(task[t]) /\ task'[t].status = "terminal"
       => OwnedLive(task', t) = {}]_vars

\* A decided outcome stands: a held outcome is the one the terminal record
\* has, across crashes, aborts and failures below, and a terminal record never
\* changes again.
OutcomeStands ==
  [][\A t \in Tasks :
       /\ task[t].status = "completing" =>
            Decided(task'[t]) /\ task'[t].outcome = task[t].outcome
       /\ task[t].status = "terminal" => task'[t] = task[t]]_vars

\* A task abandoned after a restart waits for its definition: only a request by
\* a host orphans it, or one that reached it from an owner and replaced its
\* mark (scheduler.ts #reserve, abort() with keepRestart).
AbandonedWaitsForDefinition ==
  [][\A t \in Tasks :
       /\ task[t].abort = "restart" /\ Live(task[t]) /\ task'[t].outcome = "orphaned"
       => requests' # requests]_vars

\* A stored task is never taken by a definition older than its record, whatever
\* is registered, replaced or migrated meanwhile (scheduler.ts #fit, #resolve).
VersionNeverGoesBack ==
  [][\A t \in Tasks : Exists(task[t]) =>
       /\ task'[t].version >= task[t].version
       /\ inv'[t].mode = "run" => inv'[t].def.version = task'[t].version]_vars

----------------------------------------------------------------------------
(* Liveness.                                                               *)

\* A requested abort settles the task, and so does a failed outcome that is
\* held: the cascade ends all foreground work below, with its definition or as
\* orphaned, also when the process crashes in between.
CancelledSettles ==
  \A t \in Tasks :
    (task[t].abort = "request" \/ (task[t].status = "completing" /\ FailedOutcome(task[t])))
      ~> (task[t].status = "terminal")
=============================================================================
