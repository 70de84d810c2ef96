------------------------ MODULE TaskScheduler_proofs ------------------------
(* Theorems about TaskScheduler, for every value of its constants: tasks end  *)
(* from the bottom up, and the scheduler never runs an abandoned task, orphans *)
(* it on its own, takes a task with an older definition, lets the wait-for    *)
(* graph close a cycle or forgets what it must come back to.                  *)
EXTENDS TaskScheduler, TLAPS, WellFoundedInduction

USE DEF Tasks, Convs, NoTask, Unborn

-----------------------------------------------------------------------------
(* The record operators.                                                    *)

LEMMA ChoicesTyped ==
  /\ FirstCheckpoint \in Checkpoints
  /\ (CHOOSE k \in Kinds : TRUE) \in Kinds
  BY DataAssumption DEF FirstCheckpoint

\* Every record operator maps records to records.
LEMMA RunningTyped ==
  ASSUME NEW r \in TaskRecord, NEW c \in Checkpoints
  PROVE  Running(r, c) \in TaskRecord
  BY DEF Running, TaskRecord, Statuses

LEMMA PendingTyped ==
  ASSUME NEW r \in TaskRecord PROVE Pending(r) \in TaskRecord
  BY DEF Pending, TaskRecord, Statuses

LEMMA WaitingTyped ==
  ASSUME NEW r \in TaskRecord, NEW c \in Checkpoints, NEW on \in SUBSET Tasks,
         NEW policy \in {"allSettled", "failFast"}
  PROVE  Waiting(r, c, on, policy) \in TaskRecord
  BY DEF Waiting, TaskRecord, Statuses

LEMMA CompletingTyped ==
  ASSUME NEW r \in TaskRecord, NEW o \in Outcomes
  PROVE  Completing(r, o) \in TaskRecord
  BY ChoicesTyped DEF Completing, TaskRecord, Statuses

LEMMA TerminalTyped ==
  ASSUME NEW r \in TaskRecord, NEW o \in Outcomes
  PROVE  Terminal(r, o) \in TaskRecord
  BY ChoicesTyped DEF Terminal, TaskRecord, Statuses

LEMMA MarkTyped ==
  ASSUME NEW r \in TaskRecord, NEW m \in Marks
  PROVE  WithAbortMark(r, m) \in TaskRecord
  BY DEF WithAbortMark, TaskRecord

TaskMap == [Tasks -> TaskRecord]

LEMMA SettledTyped ==
  ASSUME NEW T \in TaskMap, NEW t \in Tasks, NEW o \in Outcomes
  PROVE  Settled(T, t, o) \in TaskMap
  <1>1. T[t] \in TaskRecord
    BY DEF TaskMap
  <1>2. Completing(T[t], o) \in TaskRecord /\ Terminal(T[t], o) \in TaskRecord
    BY <1>1, CompletingTyped, TerminalTyped
  <1> QED BY <1>2 DEF Settled, TaskMap

-----------------------------------------------------------------------------
(* Creating work.                                                           *)

\* A new task is a record, and its owner exists.
LEMMA NewTaskTyped ==
  ASSUME TypeOK, NEW x \in Creatable(task)
  PROVE  /\ NewTask(task, x) \in TaskRecord
         /\ x.owner # NoTask => x.owner \in Tasks /\ Exists(task[x.owner]) /\ ~x.background
         /\ x.owner = NoTask => ParentOf(x) \in Tasks \cup {NoTask}
  <1>1. x.def.version \in Nat
    BY DefsAssumption DEF Creatable, TaskOptions
  <1>2. x \in TaskOptions /\ convOwner[x.conv] \in Tasks \cup {NoTask}
    BY DEF Creatable, TaskOptions, TypeOK
  <1>3. ParentOf(x) \in Tasks \cup {NoTask}
    BY <1>2 DEF ParentOf, TaskOptions
  <1>4. OwnerChain(task, x) \in SUBSET Tasks
    BY <1>3 DEF OwnerChain, TypeOK, TaskRecord
  <1>5. NewTask(task, x) \in TaskRecord
    BY <1>1, <1>2, <1>4, ChoicesTyped, DataAssumption
    DEF NewTask, TaskOptions, TaskRecord, Statuses, Marks, Outcomes
  <1>6. x.owner # NoTask => x.owner \in Tasks /\ Exists(task[x.owner]) /\ ~x.background
    BY <1>2 DEF Creatable, TaskOptions
  <1> QED BY <1>3, <1>5, <1>6

\* What a commit stages: the committed tasks and at most one new one.
LEMMA StagedAddsOne ==
  ASSUME TypeOK, NEW S \in Staged(task)
  PROVE  \/ S = task
         \/ \E i \in NextIds(task), x \in Creatable(task) :
              S = [task EXCEPT ![i] = NewTask(task, x)]
  BY DEF Staged

LEMMA StagedTyped ==
  ASSUME TypeOK, NEW S \in Staged(task)
  PROVE  S \in TaskMap
  <1>1. CASE S = task
    BY <1>1 DEF TypeOK, TaskMap
  <1>2. CASE \E i \in NextIds(task), x \in Creatable(task) :
               S = [task EXCEPT ![i] = NewTask(task, x)]
    BY <1>2, NewTaskTyped, ZenonT(40) DEF TypeOK, TaskMap
  <1> QED BY <1>1, <1>2, StagedAddsOne

-----------------------------------------------------------------------------
(* Typing of what the actions have in common.                               *)

\* The commit listener keeps the scheduler's sets sets of tasks.
LEMMA ObserveTyped ==
  ASSUME TypeOK, NEW run \in SUBSET Tasks, NEW final \in SUBSET Tasks,
         NEW failFast \in SUBSET Tasks, NEW due \in BOOLEAN,
         Observe(run, final, failFast, due)
  PROVE  /\ runnable' \in SUBSET Tasks /\ finalizeChecks' \in SUBSET Tasks
         /\ failFastChecks' \in SUBSET Tasks /\ fresh' \in SUBSET Tasks
         /\ reconcile' \in BOOLEAN
  <1>1. /\ Changed \subseteq Tasks /\ Ended \subseteq Tasks /\ Created \subseteq Tasks
        /\ NewlyFailed \subseteq Tasks
    BY DEF Changed, Ended, Created, NewlyFailed
  <1>2. \A S : WaitersOf(S) \subseteq Tasks /\ FailFastWaitersOf(S) \subseteq Tasks
    BY DEF WaitersOf, FailFastWaitersOf
  <1>3. NewFailFastWaits \subseteq Tasks
    BY <1>1 DEF NewFailFastWaits
  <1>4. \A t : NearestLiveAbove(task', t) \subseteq Tasks
    BY DEF NearestLiveAbove, Nearest
  <1>5. Freed \subseteq Tasks
    BY <1>4 DEF Freed
  <1>6. runnable' \in SUBSET Tasks
    BY <1>1, <1>2, <1>5 DEF Observe
  <1>7. finalizeChecks' \in SUBSET Tasks
    BY <1>1, <1>5 DEF Observe
  <1>8. failFastChecks' \in SUBSET Tasks
    BY <1>1, <1>2, <1>3 DEF Observe
  <1>9. fresh' \in SUBSET Tasks
    BY <1>1 DEF Observe, TypeOK
  <1>10. reconcile' \in BOOLEAN
    BY DEF Observe, TypeOK
  <1> QED BY <1>6, <1>7, <1>8, <1>9, <1>10

LEMMA KickTyped ==
  ASSUME TypeOK, NEW end \in BOOLEAN, Kick(end) PROVE dirty' \in BOOLEAN
  BY DEF Kick, TypeOK

LEMMA NoInvocationTyped == NoInvocation \in Invocation
  BY ChoicesTyped DEF NoInvocation, Invocation

LEMMA ResolvedTyped ==
  ASSUME TypeOK, NEW thrown, thrown \subseteq Tasks, Resolved(thrown)
  PROVE  failedMigrations' \in [Tasks -> Defs \cup {NoDef}]
  <1>1. \A t \in Tasks : task[t].kind \in Kinds
    BY DEF TypeOK, TaskRecord
  <1> QED BY <1>1 DEF Resolved, TypeOK

\* The commit of a host or of a handler that goes on.
LEMMA CommitTyped ==
  ASSUME TypeOK, Commit, task' \in TaskMap,
         convOwner' \in [Convs -> Tasks \cup {NoTask, Unborn}],
         failedMigrations' \in [Tasks -> Defs \cup {NoDef}], requests' \in 0..MaxRequests
  PROVE  TypeOK'
  <1>1. /\ runnable' \in SUBSET Tasks /\ finalizeChecks' \in SUBSET Tasks
        /\ failFastChecks' \in SUBSET Tasks /\ fresh' \in SUBSET Tasks
        /\ reconcile' \in BOOLEAN
    BY ObserveTyped DEF Commit, TypeOK
  <1>2. dirty' \in BOOLEAN
    BY KickTyped DEF Commit
  <1> QED BY <1>1, <1>2 DEF Commit, passes, TypeOK, TaskMap

LEMMA AbortTyped ==
  ASSUME TypeOK, NEW u \in Tasks, NEW keepRestart \in BOOLEAN, Abort(u, keepRestart),
         requests' \in 0..MaxRequests
  PROVE  TypeOK'
  <1>1. PICK thrown \in SUBSET Tasks :
          /\ \/ task' = Settled(task, u, "orphaned")
             \/ task' = [task EXCEPT ![u] = WithAbortMark(@, "request")]
          /\ Resolved(thrown)
    BY DEF Abort, ThrownChoices
  <1>2. task \in TaskMap
    BY DEF TypeOK, TaskMap
  <1>3. Settled(task, u, "orphaned") \in TaskMap
    BY <1>2, SettledTyped DEF Outcomes
  <1>4. WithAbortMark(task[u], "request") \in TaskRecord
    BY <1>2, MarkTyped DEF TaskMap, Marks
  <1>5. task' \in TaskMap
    BY <1>1, <1>2, <1>3, <1>4 DEF TaskMap
  <1>6. failedMigrations' \in [Tasks -> Defs \cup {NoDef}]
    BY <1>1, ResolvedTyped
  <1> QED BY <1>5, <1>6, CommitTyped DEF Abort, TypeOK

-----------------------------------------------------------------------------
(* Type correctness, action by action.                                      *)

LEMMA InitTyped == Init => TypeOK
  <1>1. Absent \in TaskRecord
    BY ChoicesTyped, BoundsAssumption DEF Absent, TaskRecord, Statuses, Marks, Outcomes
  <1>2. NoInvocation \in Invocation
    BY NoInvocationTyped
  <1>3. <<>> \in Seq(SUBSET Tasks)
    OBVIOUS
  <1>4. 0 \in 0..MaxCrashes /\ 0 \in 0..MaxRequests
    BY BoundsAssumption
  <1>5. ASSUME Init PROVE /\ task \in [Tasks -> TaskRecord]
                          /\ inv \in [Tasks -> Invocation]
                          /\ registry \in [Kinds -> Defs \cup {NoDef}]
    BY <1>1, <1>2, <1>5 DEF Init
  <1> QED BY <1>3, <1>4, <1>5 DEF Init, TypeOK

LEMMA HostTyped == TypeOK /\ Host => TypeOK'
  <1> SUFFICES ASSUME TypeOK, Host PROVE TypeOK'
    OBVIOUS
  <1>1. CASE CreateTask
    <2>1. task' \in TaskMap
      BY <1>1, StagedTyped DEF CreateTask
    <2> QED BY <1>1, <2>1, CommitTyped DEF CreateTask, TypeOK
  <1>2. CASE CreateConversation
    BY <1>2 DEF CreateConversation, TypeOK, memory, wakeups, passes, budget
  <1>3. CASE Register
    <2>1. registry' \in [Kinds -> Defs \cup {NoDef}]
      BY <1>3, DefsAssumption DEF Register, TypeOK
    <2> QED BY <1>3, <2>1 DEF Register, TypeOK, durable, wakeups, passes, budget
  <1>4. ASSUME Request PROVE requests' \in 0..MaxRequests
    BY <1>4, BoundsAssumption DEF Request, TypeOK
  <1>5. ASSUME NEW u \in Tasks, HostAbort(u) PROVE TypeOK'
    BY <1>4, <1>5, AbortTyped DEF HostAbort
  <1>6. ASSUME NEW c \in Convs, NEW b \in BackgroundChoices, AbortConversation(c, b)
        PROVE  TypeOK'
    <2>1. \A u \in Tasks : WithAbortMark(task[u], "request") \in TaskRecord
      BY MarkTyped DEF TypeOK, Marks
    <2>2. task' \in TaskMap
      BY <1>6, <2>1 DEF AbortConversation, TypeOK, TaskMap
    <2> QED BY <1>4, <1>6, <2>2, CommitTyped DEF AbortConversation, TypeOK
  <1> QED BY <1>1, <1>2, <1>3, <1>5, <1>6 DEF Host

LEMMA HandlerTyped ==
  ASSUME TypeOK, NEW t \in Tasks, Handler(t) PROVE TypeOK'
  <1>1. ASSUME NEW S \in HandlerStaged PROVE S \in TaskMap /\ S[t] \in TaskRecord
    BY <1>1, StagedTyped DEF HandlerStaged, TypeOK, TaskMap
  <1>2. ASSUME NEW T \in TaskMap, HandlerCommit(T) PROVE TypeOK'
    <2>1. failedMigrations' \in [Tasks -> Defs \cup {NoDef}]
      BY <1>2, ResolvedTyped DEF HandlerCommit
    <2> QED BY <1>2, <2>1, CommitTyped DEF HandlerCommit, TypeOK
  <1>3. CASE Progress(t)
    <2>1. PICK S \in HandlerStaged, c \in Checkpoints :
            HandlerCommit([S EXCEPT ![t] = Running(@, c)])
      BY <1>3 DEF Progress
    <2>2. [S EXCEPT ![t] = Running(@, c)] \in TaskMap
      BY <1>1, RunningTyped DEF TaskMap
    <2> QED BY <1>2, <2>1, <2>2
  <1>4. CASE Finish(t)
    <2>1. PICK S \in HandlerStaged, o \in HandlerOutcomes : HandlerCommit(Settled(S, t, o))
      BY <1>4 DEF Finish
    <2>2. Settled(S, t, o) \in TaskMap
      BY <1>1, SettledTyped, DataAssumption DEF Outcomes
    <2> QED BY <1>2, <2>1, <2>2
  <1>5. CASE Wait(t)
    <2>1. PICK S \in HandlerStaged, c \in Checkpoints, on \in WaitSets, policy \in Policies :
            HandlerCommit([S EXCEPT ![t] = Waiting(@, c, on, policy)])
      BY <1>5 DEF Wait
    <2>2. on \in SUBSET Tasks /\ policy \in {"allSettled", "failFast"}
      BY DataAssumption
    <2>3. [S EXCEPT ![t] = Waiting(@, c, on, policy)] \in TaskMap
      BY <1>1, <2>2, WaitingTyped DEF TaskMap
    <2> QED BY <1>2, <2>1, <2>3
  <1>6. CASE AbortOwned(t)
    BY <1>6, AbortTyped DEF AbortOwned, TypeOK
  <1> QED BY <1>3, <1>4, <1>5, <1>6 DEF Handler

LEMMA StepTyped ==
  ASSUME TypeOK, NEW t \in Tasks, Step(t) PROVE TypeOK'
  <1>1. Released(t) \in SUBSET Tasks
    BY DEF Released, TypeOK
  <1>2. ASSUME NEW due \in BOOLEAN,
               Observe(Released(t), finalizeChecks, failFastChecks, due)
        PROVE  /\ runnable' \in SUBSET Tasks /\ finalizeChecks' \in SUBSET Tasks
               /\ failFastChecks' \in SUBSET Tasks /\ fresh' \in SUBSET Tasks
               /\ reconcile' \in BOOLEAN
    BY <1>1, <1>2, ObserveTyped, ZenonT(40) DEF TypeOK
  <1>3. ASSUME End(t) PROVE inv' \in [Tasks -> Invocation] /\ dirty' \in BOOLEAN
    BY <1>3, KickTyped, NoInvocationTyped DEF End, TypeOK
  <1>4. ASSUME Fault(t) PROVE TypeOK'
    <2>1. task' \in TaskMap
      BY <1>4, SettledTyped DEF Fault, TypeOK, TaskMap, Outcomes
    <2>2. failedMigrations' \in [Tasks -> Defs \cup {NoDef}]
      BY <1>4, ResolvedTyped DEF Fault
    <2> QED BY <1>2, <1>3, <1>4, <2>1, <2>2 DEF Fault, passes, budget, TypeOK, TaskMap
  <1>5. CASE StepEnd(t)
    <2>1. /\ Observe(Released(t), finalizeChecks, failFastChecks,
                     task[t].status = "running" /\ ~Marked(task[t]))
          /\ End(t)
      BY <1>5 DEF StepEnd
    <2>2. (task[t].status = "running" /\ ~Marked(task[t])) \in BOOLEAN
      OBVIOUS
    <2> QED BY <1>2, <1>3, <1>5, <2>1, <2>2 DEF StepEnd, passes, budget, TypeOK
  <1>6. CASE StepFault(t)
    BY <1>4, <1>6 DEF StepFault
  <1>7. CASE StepHandOver(t)
    <2>1. task' \in TaskMap
      BY <1>7, PendingTyped DEF StepHandOver, TypeOK, TaskMap
    <2> QED BY <1>2, <1>3, <1>7, <2>1 DEF StepHandOver, passes, budget, TypeOK, TaskMap
  <1>8. CASE StepContinue(t)
    <2>1. task[t].checkpoint \in Checkpoints
      BY DEF TypeOK, TaskRecord
    <2>2. inv' \in [Tasks -> Invocation]
      BY <1>8, <2>1, ZenonT(40) DEF StepContinue, TypeOK, Invocation
    <2> QED BY <1>8, <2>2 DEF StepContinue, durable, wakeups, passes, budget, TypeOK
  <1>9. CASE AbortStep(t)
    BY <1>2, <1>3, <1>4, <1>9 DEF AbortStep, passes, budget, TypeOK
  <1> QED BY <1>5, <1>6, <1>7, <1>8, <1>9 DEF Step

\* What a task that is ready has registered has a version.
LEMMA ReadyVersion ==
  ASSUME TypeOK, NEW t \in Tasks, NEW thrown, Ready(t, thrown)
  PROVE  registry[task[t].kind] \in Defs /\ registry[task[t].kind].version \in Nat
  <1>1. registry[task[t].kind] \in Defs \cup {NoDef}
    BY DEF TypeOK, TaskRecord
  <1>2. registry[task[t].kind] # NoDef
    BY DEF Ready, Fits, Migrating, Migrates
  <1> QED BY <1>1, <1>2, DefsAssumption

LEMMA PassesTyped == TypeOK /\ Passes => TypeOK'
  <1> SUFFICES ASSUME TypeOK, Passes PROVE TypeOK'
    OBVIOUS
  <1>1. \A t \in Tasks : task[t] \in TaskRecord
    BY DEF TypeOK
  <1>2. ASSUME NEW m \in Marks, NEW t \in Tasks PROVE WithAbortMark(task[t], m) \in TaskRecord
    BY <1>1, MarkTyped
  <1>3. CASE ReconcileBegin
    <2>1. reconciles' \in Seq(SUBSET Tasks)
      BY <1>3 DEF ReconcileBegin, TypeOK
    <2> QED BY <1>3, <2>1 DEF ReconcileBegin, durable, budget, TypeOK
  <1>4. CASE ReconcileCommit
    <2> DEFINE marked == WithMarks(Cascade(FALSE) \cup FailFastMarks(Head(reconciles)),
                                   Cascade(TRUE))
    <2>1. PICK F \in SUBSET Tasks :
            task' = [t \in Tasks |-> IF t \in F THEN Terminal(marked[t], marked[t].outcome)
                                     ELSE marked[t]]
      BY <1>4 DEF ReconcileCommit
    <2>2. marked \in TaskMap
      BY <1>1, <1>2 DEF WithMarks, TaskMap, Marks
    <2>3. ASSUME NEW t \in Tasks
          PROVE  marked[t] \in TaskRecord /\ Terminal(marked[t], marked[t].outcome) \in TaskRecord
      <3> HIDE DEF marked
      <3>1. marked[t] \in TaskRecord
        BY <2>2 DEF TaskMap
      <3>2. marked[t].outcome \in Outcomes
        BY <3>1 DEF TaskRecord
      <3> QED BY <3>1, <3>2, TerminalTyped
    <2>4. task' \in [Tasks -> TaskRecord]
      <3> HIDE DEF marked
      <3> QED BY <2>1, <2>3
    <2>5. reconciles' \in Seq(SUBSET Tasks)
      BY <1>4 DEF ReconcileCommit, TypeOK
    <2>6. /\ runnable' \in SUBSET Tasks /\ finalizeChecks' \in SUBSET Tasks
          /\ failFastChecks' \in SUBSET Tasks /\ fresh' \in SUBSET Tasks
          /\ reconcile' \in BOOLEAN
      <3>1. Observe(runnable, {}, failFastChecks, FALSE)
        BY <1>4 DEF ReconcileCommit
      <3> QED BY <3>1, ObserveTyped DEF TypeOK
    <2>7. dirty' \in BOOLEAN
      BY <1>4, KickTyped DEF ReconcileCommit
    <2>8. failedMigrations' \in [Tasks -> Defs \cup {NoDef}]
      BY <1>4, ResolvedTyped DEF ReconcileCommit
    <2>9. UNCHANGED <<convOwner, registry, life, inv, reserving, abandoned, budget>>
      BY <1>4 DEF ReconcileCommit
    <2> QED BY <2>4, <2>5, <2>6, <2>7, <2>8, <2>9 DEF budget, TypeOK
  <1>5. CASE DrainBegin
    BY <1>5 DEF DrainBegin, durable, wakeups, budget, TypeOK
  <1>6. CASE AbandonPass
    <2>1. task' \in [Tasks -> TaskRecord]
      BY <1>1, <1>2, <1>6 DEF AbandonPass, Marks
    <2>2. Observe(runnable, finalizeChecks, failFastChecks, FALSE) /\ Kick(TRUE)
      BY <1>6 DEF AbandonPass
    <2>3. /\ runnable' \in SUBSET Tasks /\ finalizeChecks' \in SUBSET Tasks
          /\ failFastChecks' \in SUBSET Tasks /\ fresh' \in SUBSET Tasks
          /\ reconcile' \in BOOLEAN
      BY <2>2, ObserveTyped DEF TypeOK
    <2> QED BY <1>6, <2>1, <2>2, <2>3, KickTyped DEF AbandonPass, budget, TypeOK
  <1>7. CASE ReservePass
    <2>1. PICK thrown \in SUBSET Tasks, reserved \in SUBSET Tasks, orphaned \in SUBSET Tasks :
            /\ \A t \in reserved : Ready(t, thrown)
            /\ task' = [t \in Tasks |->
                 CASE t \in reserved -> [Running(task[t], task[t].checkpoint)
                                           EXCEPT !.version = registry[task[t].kind].version]
                   [] t \in orphaned -> Terminal(task[t], "orphaned")
                   [] OTHER -> task[t]]
            /\ inv' = [t \in Tasks |-> IF t \in reserved THEN NewInvocation(t) ELSE inv[t]]
            /\ Observe(Candidates \ reserved, finalizeChecks, failFastChecks, HeldBack # {})
            /\ Resolved(thrown)
      <3>1. PICK thrown \in ThrownChoices(Candidates \ HeldBack) :
              LET reserved == {t \in Candidates \ HeldBack : Ready(t, thrown)}
                  orphaned == {t \in Candidates \ HeldBack :
                                 ~Ready(t, thrown) /\ Orphanable(task[t])} IN
              /\ task' = [t \in Tasks |->
                   CASE t \in reserved -> [Running(task[t], task[t].checkpoint)
                                             EXCEPT !.version = registry[task[t].kind].version]
                     [] t \in orphaned -> Terminal(task[t], "orphaned")
                     [] OTHER -> task[t]]
              /\ inv' = [t \in Tasks |-> IF t \in reserved THEN NewInvocation(t) ELSE inv[t]]
              /\ Observe(Candidates \ reserved, finalizeChecks, failFastChecks, HeldBack # {})
              /\ Resolved(thrown)
        BY <1>7 DEF ReservePass
      <3>2. Candidates \in SUBSET Tasks
        BY DEF Candidates, TypeOK
      <3>3. thrown \in SUBSET Tasks
        BY <3>1, <3>2 DEF ThrownChoices
      <3>4. /\ {t \in Candidates \ HeldBack : Ready(t, thrown)} \in SUBSET Tasks
            /\ {t \in Candidates \ HeldBack :
                  ~Ready(t, thrown) /\ Orphanable(task[t])} \in SUBSET Tasks
        BY <3>2
      <3> QED BY <3>1, <3>3, <3>4
    <2>2. ASSUME NEW t \in reserved
          PROVE  [Running(task[t], task[t].checkpoint)
                    EXCEPT !.version = registry[task[t].kind].version] \in TaskRecord
      <3>1. registry[task[t].kind].version \in Nat
        BY <2>1, ReadyVersion
      <3>2. Running(task[t], task[t].checkpoint) \in TaskRecord
        BY <1>1, RunningTyped DEF TaskRecord
      <3> QED BY <3>1, <3>2 DEF TaskRecord
    <2>3. \A t \in Tasks : Terminal(task[t], "orphaned") \in TaskRecord
      BY <1>1, TerminalTyped DEF Outcomes
    <2>4. task' \in [Tasks -> TaskRecord]
      BY <1>1, <2>1, <2>2, <2>3
    <2>5. ASSUME NEW t \in reserved PROVE NewInvocation(t) \in Invocation
      BY <2>1, ReadyVersion, NoInvocationTyped DEF NewInvocation, Invocation
    <2>6. inv' \in [Tasks -> Invocation]
      BY <2>1, <2>5 DEF TypeOK
    <2>7. /\ runnable' \in SUBSET Tasks /\ finalizeChecks' \in SUBSET Tasks
          /\ failFastChecks' \in SUBSET Tasks /\ fresh' \in SUBSET Tasks
          /\ reconcile' \in BOOLEAN
      <3>1. Candidates \ reserved \in SUBSET Tasks
        BY DEF Candidates, TypeOK
      <3>2. (HeldBack # {}) \in BOOLEAN
        OBVIOUS
      <3> QED BY <2>1, <3>1, <3>2, ObserveTyped DEF TypeOK
    <2>8. failedMigrations' \in [Tasks -> Defs \cup {NoDef}]
      BY <2>1, ResolvedTyped
    <2>9. dirty' \in BOOLEAN
      BY <1>7, KickTyped DEF ReservePass
    <2> QED BY <1>7, <2>4, <2>6, <2>7, <2>8, <2>9 DEF ReservePass, budget, TypeOK
  <1> QED BY <1>3, <1>4, <1>5, <1>6, <1>7 DEF Passes

LEMMA ProcessTyped == TypeOK /\ Process => TypeOK'
  <1> SUFFICES ASSUME TypeOK, Process PROVE TypeOK'
    OBVIOUS
  <1>1. ASSUME Forget
        PROVE  /\ inv' \in [Tasks -> Invocation] /\ reserving' \in BOOLEAN
               /\ failedMigrations' \in [Tasks -> Defs \cup {NoDef}]
               /\ reconciles' \in Seq(SUBSET Tasks) /\ fresh' \subseteq Tasks
    <2>1. <<>> \in Seq(SUBSET Tasks)
      OBVIOUS
    <2> QED BY <1>1, <2>1, NoInvocationTyped DEF Forget
  <1>2. CASE Open
    <2>1. \A t \in Tasks : Recovered(task[t]) \in TaskRecord
      BY PendingTyped DEF Recovered, TypeOK
    <2>2. task' \in [Tasks -> TaskRecord]
      BY <1>2, <2>1 DEF Open
    <2>3. /\ runnable' \subseteq Tasks /\ finalizeChecks' \subseteq Tasks
          /\ failFastChecks' \subseteq Tasks /\ abandoned' \subseteq Tasks
          /\ reconcile' \in BOOLEAN /\ dirty' \in BOOLEAN
      BY <1>2 DEF Open
    <2> QED BY <1>1, <1>2, <2>2, <2>3 DEF Open, budget, TypeOK
  <1>3. CASE Resume
    BY <1>3 DEF Resume, durable, wakeups, passes, budget, TypeOK
  <1>4. crashes < MaxCrashes => crashes + 1 \in 0..MaxCrashes
    BY BoundsAssumption DEF TypeOK
  <1>5. CASE Crash
    BY <1>1, <1>4, <1>5 DEF Crash, Down, durable, TypeOK
  <1>6. CASE Close
    BY <1>4, <1>6 DEF Close, durable, wakeups, passes, TypeOK
  <1>7. CASE Join
    BY <1>1, <1>7 DEF Join, Down, durable, budget, TypeOK
  <1> QED BY <1>2, <1>3, <1>5, <1>6, <1>7 DEF Process

LEMMA NextTyped == TypeOK /\ [Next]_vars => TypeOK'
  <1> SUFFICES ASSUME TypeOK, [Next]_vars PROVE TypeOK'
    OBVIOUS
  <1>1. CASE UNCHANGED vars
    BY <1>1 DEF vars, durable, memory, wakeups, passes, budget, TypeOK
  <1>2. CASE Next
    BY <1>2, HostTyped, HandlerTyped, StepTyped, PassesTyped, ProcessTyped DEF Next
  <1> QED BY <1>1, <1>2

\* Every reachable state of the scheduler, with any number of tasks, kinds and
\* definitions, has its type.
THEOREM TypeCorrect == Spec => []TypeOK
  <1>1. Init => TypeOK
    BY InitTyped
  <1>2. TypeOK /\ [Next]_vars => TypeOK'
    BY NextTyped
  <1> QED BY <1>1, <1>2, PTL DEF Spec

-----------------------------------------------------------------------------
(* What every step keeps of a record: its place in the ownership tree, its  *)
(* mark and its outcome.                                                    *)

Kept(r, r2) ==
  /\ r2.owner = r.owner /\ r2.owners = r.owners /\ r2.background = r.background
  /\ Exists(r2) <=> Exists(r)
  /\ Live(r2) => Live(r)
  /\ Marked(r) => Marked(r2)
  /\ r.status = "completing" => Decided(r2) /\ r2.outcome = r.outcome
  /\ r.status = "terminal" \/ ~Exists(r) => r2 = r

AllKept(T, T2) == \A u \in Tasks : Kept(T[u], T2[u])

LEMMA KeptReflexive ==
  ASSUME NEW r PROVE Kept(r, r)
  BY DEF Kept, Decided

LEMMA KeptTransitive ==
  ASSUME NEW r \in TaskRecord, NEW r2 \in TaskRecord, NEW r3 \in TaskRecord,
         Kept(r, r2), Kept(r2, r3)
  PROVE  Kept(r, r3)
  BY DEF Kept, Decided

LEMMA RunningKept ==
  ASSUME NEW r \in TaskRecord, NEW c \in Checkpoints, Live(r), r.status # "completing"
  PROVE  Kept(r, Running(r, c))
  BY DEF Kept, Running, Exists, Live, Marked, TaskRecord

LEMMA PendingKept ==
  ASSUME NEW r \in TaskRecord, Live(r), r.status # "completing"
  PROVE  Kept(r, Pending(r))
  BY DEF Kept, Pending, Exists, Live, Marked, TaskRecord

LEMMA WaitingKept ==
  ASSUME NEW r \in TaskRecord, NEW c \in Checkpoints, NEW on \in SUBSET Tasks,
         NEW policy \in {"allSettled", "failFast"}, Live(r), r.status # "completing"
  PROVE  Kept(r, Waiting(r, c, on, policy))
  BY DEF Kept, Waiting, Exists, Live, Marked, TaskRecord

LEMMA CompletingKept ==
  ASSUME NEW r \in TaskRecord, NEW o \in Outcomes, Live(r), r.status # "completing"
  PROVE  Kept(r, Completing(r, o))
  BY DEF Kept, Completing, Exists, Live, Marked, TaskRecord

LEMMA TerminalKept ==
  ASSUME NEW r \in TaskRecord, NEW o \in Outcomes, Live(r), r.status = "completing" => o = r.outcome
  PROVE  Kept(r, Terminal(r, o))
  BY DEF Kept, Terminal, Decided, Exists, Live, Marked, TaskRecord

LEMMA MarkKept ==
  ASSUME NEW r \in TaskRecord, NEW m \in {"restart", "request"}, Live(r)
  PROVE  Kept(r, WithAbortMark(r, m))
  BY DEF Kept, WithAbortMark, Decided, Exists, Live, Marked, TaskRecord

\* A step over tasks that all stay in place can only shrink the live work below.
LEMMA OwnedLiveShrinks ==
  ASSUME NEW T \in TaskMap, NEW T2, AllKept(T, T2), NEW t \in Tasks
  PROVE  OwnedLive(T2, t) \subseteq OwnedLive(T, t)
  <1>1. \A u \in Tasks : T[u].owners \subseteq Tasks
    BY DEF TaskMap, TaskRecord
  <1>2. \A u \in Tasks : T2[u].owners = T[u].owners /\ T2[u].background = T[u].background
    BY DEF AllKept, Kept
  <1>3. Below(T2, t) = Below(T, t)
    BY <1>1, <1>2 DEF Below
  <1>4. \A u \in Tasks : Live(T2[u]) => Live(T[u])
    BY DEF AllKept, Kept
  <1>5. Below(T, t) \subseteq Tasks
    BY DEF Below
  <1> QED BY <1>2, <1>3, <1>4, <1>5 DEF OwnedLive

\* #terminate: a decided outcome is held while owned work is live.
LEMMA SettledKept ==
  ASSUME NEW T \in TaskMap, NEW t \in Tasks, NEW o \in Outcomes,
         Live(T[t]), T[t].status # "completing"
  PROVE  /\ AllKept(T, Settled(T, t, o))
         /\ Settled(T, t, o)[t].status = "terminal" => OwnedLive(Settled(T, t, o), t) = {}
         /\ \A u \in Tasks \ {t} : Settled(T, t, o)[u] = T[u]
  <1>1. T[t] \in TaskRecord
    BY DEF TaskMap
  <1>2. Kept(T[t], Completing(T[t], o)) /\ Kept(T[t], Terminal(T[t], o))
    BY <1>1, CompletingKept, TerminalKept
  <1>3. Completing(T[t], o).status = "completing"
    BY <1>1 DEF Completing, TaskRecord
  <1>4. /\ Settled(T, t, o)[t] = IF OwnedLive(T, t) # {} THEN Completing(T[t], o)
                                 ELSE Terminal(T[t], o)
        /\ \A u \in Tasks \ {t} : Settled(T, t, o)[u] = T[u]
    BY DEF Settled, TaskMap
  <1>5. AllKept(T, Settled(T, t, o))
    BY <1>2, <1>4, KeptReflexive DEF AllKept
  <1>6. Settled(T, t, o)[t].status = "terminal" => OwnedLive(T, t) = {}
    BY <1>3, <1>4
  <1> QED BY <1>4, <1>5, <1>6, OwnedLiveShrinks

-----------------------------------------------------------------------------
(* The shape of a step: it may add one task, and it keeps what is there.    *)

Shape == \E S \in Staged(task) : AllKept(S, task') /\ OwnersValid(task')

\* A task ends with no live work below it (the action of EndsBottomUp).
EndsStep ==
  \A t \in Tasks : Live(task[t]) /\ task'[t].status = "terminal" => OwnedLive(task', t) = {}

\* A step that creates nothing.
LEMMA KeepingShape ==
  ASSUME TypeOK, AllKept(task, task') PROVE Shape
  <1>1. task \in Staged(task)
    BY DEF Staged
  <1>2. OwnersValid(task')
    BY DEF OwnersValid, AllKept, Kept
  <1> QED BY <1>1, <1>2 DEF Shape

\* A step that marks some live tasks, or does nothing, ends none.
LEMMA MarkingShape ==
  ASSUME TypeOK,
         \A u \in Tasks : \/ task'[u] = task[u]
                          \/ /\ Live(task[u])
                             /\ \E m \in {"restart", "request"} : task'[u] = WithAbortMark(task[u], m)
  PROVE  AllKept(task, task') /\ EndsStep
  <1>1. \A u \in Tasks : task[u] \in TaskRecord
    BY DEF TypeOK
  <1>2. AllKept(task, task')
    BY <1>1, KeptReflexive, MarkKept DEF AllKept
  <1>3. \A u \in Tasks : task'[u].status = task[u].status
    BY <1>1 DEF WithAbortMark, TaskRecord
  <1> QED BY <1>2, <1>3 DEF EndsStep, Live

LEMMA StagedKept ==
  ASSUME TypeOK, NEW S \in Staged(task)
  PROVE  /\ \A u \in Tasks : Exists(task[u]) => S[u] = task[u]
         /\ \A u \in Tasks : ~Exists(task[u]) /\ S[u].status # task[u].status
                               => S[u].status = "pending"
  <1>1. CASE S = task
    BY <1>1
  <1>2. CASE \E i \in NextIds(task), x \in Creatable(task) :
               S = [task EXCEPT ![i] = NewTask(task, x)]
    <2>1. PICK i \in NextIds(task), x \in Creatable(task) :
            S = [task EXCEPT ![i] = NewTask(task, x)]
      BY <1>2
    <2>2. i \in Tasks /\ ~Exists(task[i])
      BY DEF NextIds
    <2>3. S[i] = NewTask(task, x) /\ \A u \in Tasks \ {i} : S[u] = task[u]
      BY <2>1, <2>2 DEF TypeOK
    <2>4. NewTask(task, x).status = "pending"
      BY DEF NewTask
    <2> QED BY <2>2, <2>3, <2>4
  <1> QED BY <1>1, <1>2, StagedAddsOne

LEMMA AbortShape ==
  ASSUME TypeOK, NEW u \in Tasks, NEW keepRestart \in BOOLEAN, Abort(u, keepRestart)
  PROVE  Shape /\ EndsStep
  <1>1. /\ Live(task[u])
        /\ \/ task[u].status # "completing" /\ task' = Settled(task, u, "orphaned")
           \/ task' = [task EXCEPT ![u] = WithAbortMark(@, "request")]
    BY DEF Abort
  <1>2. task \in TaskMap
    BY DEF TypeOK, TaskMap
  <1>3. CASE task[u].status # "completing" /\ task' = Settled(task, u, "orphaned")
    <2>1. "orphaned" \in Outcomes
      BY DEF Outcomes
    <2>2. /\ AllKept(task, task')
          /\ task'[u].status = "terminal" => OwnedLive(task', u) = {}
          /\ \A v \in Tasks \ {u} : task'[v] = task[v]
      BY <1>1, <1>2, <1>3, <2>1, SettledKept
    <2> QED BY <2>2, KeepingShape DEF EndsStep, Live
  <1>4. CASE task' = [task EXCEPT ![u] = WithAbortMark(@, "request")]
    BY <1>1, <1>2, <1>4, MarkingShape, KeepingShape DEF TaskMap
  <1> QED BY <1>1, <1>3, <1>4

LEMMA UnchangedShape ==
  ASSUME TypeOK, UNCHANGED task PROVE Shape /\ EndsStep
  BY MarkingShape, KeepingShape

LEMMA HostShape == TypeOK /\ Host => Shape /\ EndsStep
  <1> SUFFICES ASSUME TypeOK, Host PROVE Shape /\ EndsStep
    OBVIOUS
  <1>1. CASE CreateTask
    <2>1. task' \in Staged(task) /\ OwnersValid(task')
      BY <1>1 DEF CreateTask
    <2>2. AllKept(task', task')
      BY KeptReflexive DEF AllKept
    <2>3. EndsStep
      BY <2>1, StagedKept DEF EndsStep, Live, Exists
    <2> QED BY <2>1, <2>2, <2>3 DEF Shape
  <1>2. CASE CreateConversation \/ Register
    BY <1>2, UnchangedShape DEF CreateConversation, Register, durable
  <1>3. CASE \E u \in Tasks : HostAbort(u)
    BY <1>3, AbortShape DEF HostAbort
  <1>4. CASE \E c \in Convs, b \in BackgroundChoices : AbortConversation(c, b)
    BY <1>4, MarkingShape, KeepingShape DEF AbortConversation
  <1> QED BY <1>2, <1>1, <1>3, <1>4 DEF Host

LEMMA HandlerShape ==
  ASSUME TypeOK, NEW t \in Tasks, Handler(t) PROVE Shape /\ EndsStep
  <1>1. ASSUME NEW S \in HandlerStaged
        PROVE  S \in Staged(task) /\ S \in TaskMap /\ S[t] \in TaskRecord
    <2>1. S \in Staged(task)
      BY <1>1 DEF HandlerStaged, Staged
    <2> QED BY <2>1, StagedTyped DEF TaskMap
  <1>2. ASSUME Gated(t), NEW S \in HandlerStaged
        PROVE  S[t] = task[t] /\ Live(S[t]) /\ S[t].status = "running"
    <2>1. task[t].status = "running"
      BY <1>2 DEF Gated
    <2> QED BY <1>1, <1>2, <2>1, StagedKept DEF Exists, Live
  \* A commit whose only next state is its own task's.
  <1>3. ASSUME NEW S \in HandlerStaged, NEW r, Kept(S[t], r), r.status # "terminal",
               HandlerCommit([S EXCEPT ![t] = r])
        PROVE  Shape /\ EndsStep
    <2>1. task'[t] = r /\ \A u \in Tasks \ {t} : task'[u] = S[u]
      BY <1>1, <1>3 DEF HandlerCommit, TaskMap
    <2>2. AllKept(S, task')
      BY <1>3, <2>1, KeptReflexive DEF AllKept
    <2>3. \A u \in Tasks : Live(task[u]) => S[u] = task[u]
      BY <1>1, StagedKept DEF Live, Exists
    <2>4. EndsStep
      BY <1>3, <2>1, <2>3 DEF EndsStep, Live
    <2> QED BY <1>1, <1>3, <2>2, <2>4 DEF HandlerCommit, Shape
  <1>4. CASE Progress(t)
    <2>1. PICK S \in HandlerStaged, c \in Checkpoints :
            HandlerCommit([S EXCEPT ![t] = Running(S[t], c)])
      BY <1>4 DEF Progress
    <2>2. Gated(t)
      BY <1>4 DEF Progress
    <2>3. Kept(S[t], Running(S[t], c)) /\ Running(S[t], c).status # "terminal"
      BY <1>1, <1>2, <2>2, RunningKept DEF Running, TaskRecord
    <2> QED BY <1>3, <2>1, <2>3
  <1>5. CASE Finish(t)
    <2>1. PICK S \in HandlerStaged, o \in HandlerOutcomes : HandlerCommit(Settled(S, t, o))
      BY <1>5 DEF Finish
    <2>2. Gated(t) /\ o \in Outcomes
      BY <1>5, DataAssumption DEF Finish, Outcomes
    <2>3. task' = Settled(S, t, o) /\ OwnersValid(task')
      BY <2>1 DEF HandlerCommit
    <2>4. /\ AllKept(S, task')
          /\ task'[t].status = "terminal" => OwnedLive(task', t) = {}
          /\ \A u \in Tasks \ {t} : task'[u] = S[u]
      BY <1>1, <1>2, <2>2, <2>3, SettledKept
    <2>5. \A u \in Tasks : Live(task[u]) => S[u] = task[u]
      BY <1>1, StagedKept DEF Live, Exists
    <2>6. EndsStep
      BY <2>4, <2>5 DEF EndsStep, Live
    <2> QED BY <1>1, <2>3, <2>4, <2>6 DEF Shape
  <1>6. CASE Wait(t)
    <2>1. PICK S \in HandlerStaged, c \in Checkpoints, on \in WaitSets, policy \in Policies :
            HandlerCommit([S EXCEPT ![t] = Waiting(S[t], c, on, policy)])
      BY <1>6 DEF Wait
    <2>2. Gated(t) /\ on \in SUBSET Tasks /\ policy \in {"allSettled", "failFast"}
      BY <1>6, DataAssumption DEF Wait
    <2>3. Kept(S[t], Waiting(S[t], c, on, policy))
      BY <1>1, <1>2, <2>2, WaitingKept
    <2>4. Waiting(S[t], c, on, policy).status # "terminal"
      BY <1>1 DEF Waiting, TaskRecord
    <2> QED BY <1>3, <2>1, <2>3, <2>4
  <1>7. CASE AbortOwned(t)
    BY <1>7, AbortShape DEF AbortOwned
  <1> QED BY <1>4, <1>5, <1>6, <1>7 DEF Handler

LEMMA StepShape ==
  ASSUME TypeOK, NEW t \in Tasks, Step(t) PROVE Shape /\ EndsStep
  <1>1. task \in TaskMap /\ task[t] \in TaskRecord
    BY DEF TypeOK, TaskMap
  <1>2. ASSUME Fault(t), task[t].status = "running" PROVE Shape /\ EndsStep
    <2>1. Live(task[t]) /\ "faulted" \in Outcomes
      BY <1>2 DEF Live, Outcomes
    <2>2. task' = Settled(task, t, "faulted")
      BY <1>2 DEF Fault
    <2>3. /\ AllKept(task, task')
          /\ task'[t].status = "terminal" => OwnedLive(task', t) = {}
          /\ \A u \in Tasks \ {t} : task'[u] = task[u]
      BY <1>1, <1>2, <2>1, <2>2, SettledKept
    <2> QED BY <2>3, KeepingShape DEF EndsStep, Live
  <1>3. CASE StepEnd(t) \/ StepContinue(t)
    BY <1>3, UnchangedShape DEF StepEnd, StepContinue, durable
  <1>4. CASE StepFault(t)
    BY <1>2, <1>4 DEF StepFault, GoesOn
  <1>5. CASE StepHandOver(t)
    <2>1. task[t].status = "running" /\ task' = [task EXCEPT ![t] = Pending(@)]
      BY <1>5 DEF StepHandOver, GoesOn
    <2>2. task'[t] = Pending(task[t]) /\ \A u \in Tasks \ {t} : task'[u] = task[u]
      BY <1>1, <2>1 DEF TaskMap
    <2>3. AllKept(task, task')
      BY <1>1, <2>1, <2>2, KeptReflexive, PendingKept DEF AllKept, Live
    <2>4. Pending(task[t]).status = "pending"
      BY <1>1 DEF Pending, TaskRecord
    <2> QED BY <2>2, <2>3, <2>4, KeepingShape DEF EndsStep, Live
  <1>6. CASE AbortStep(t)
    BY <1>2, <1>6, UnchangedShape DEF AbortStep
  <1> QED BY <1>3, <1>4, <1>5, <1>6 DEF Step

\* The marks of a reconcile pass fall on live tasks only.
LEMMA CascadeMarksKept ==
  ASSUME TypeOK, NEW checks, NEW marked,
         marked = WithMarks(Cascade(FALSE) \cup FailFastMarks(checks), Cascade(TRUE))
  PROVE  /\ marked \in TaskMap /\ AllKept(task, marked)
         /\ \A u \in Tasks : marked[u].status = task[u].status
  <1>1. \A u \in Cascade(FALSE) \cup FailFastMarks(checks) \cup Cascade(TRUE) : Live(task[u])
    BY DEF Cascade, FailFastMarks
  <1>2. \A u \in Tasks : \/ marked[u] = task[u]
                         \/ /\ Live(task[u])
                            /\ \E m \in {"restart", "request"} :
                                 marked[u] = WithAbortMark(task[u], m)
    BY <1>1 DEF WithMarks
  <1>3. \A u \in Tasks : task[u] \in TaskRecord
    BY DEF TypeOK
  <1>4. AllKept(task, marked)
    BY <1>2, <1>3, KeptReflexive, MarkKept DEF AllKept
  <1>5. \A u \in Tasks : marked[u].status = task[u].status
    BY <1>2, <1>3 DEF WithAbortMark, TaskRecord
  <1>6. \A u \in Tasks : marked[u] \in TaskRecord
    BY <1>2, <1>3, MarkTyped DEF Marks
  <1>7. marked = [u \in Tasks |-> marked[u]]
    BY DEF WithMarks
  <1>8. marked \in TaskMap
    BY <1>6, <1>7 DEF TaskMap
  <1> QED BY <1>4, <1>5, <1>8

LEMMA PassesShape == TypeOK /\ Passes => Shape /\ EndsStep
  <1> SUFFICES ASSUME TypeOK, Passes PROVE Shape /\ EndsStep
    OBVIOUS
  <1>1. \A t \in Tasks : task[t] \in TaskRecord
    BY DEF TypeOK
  <1>2. CASE ReconcileBegin \/ DrainBegin
    BY <1>2, UnchangedShape DEF ReconcileBegin, DrainBegin, durable
  <1>3. CASE ReconcileCommit
    <2> DEFINE marked == WithMarks(Cascade(FALSE) \cup FailFastMarks(Head(reconciles)),
                                   Cascade(TRUE))
    <2>1. PICK F \in SUBSET Tasks :
            /\ Finalized(marked, finalizeChecks, F)
            /\ task' = [t \in Tasks |-> IF t \in F THEN Terminal(marked[t], marked[t].outcome)
                                        ELSE marked[t]]
      BY <1>3 DEF ReconcileCommit
    <2>2. /\ marked \in TaskMap /\ AllKept(task, marked)
          /\ \A u \in Tasks : marked[u].status = task[u].status
      BY CascadeMarksKept
    <2> HIDE DEF marked
    <2>3. \A t \in F : marked[t].status = "completing" /\ OwnedLive(marked, t) \subseteq F
      BY <2>1 DEF Finalized
    <2>4. \A t \in Tasks : marked[t] \in TaskRecord /\ marked[t].outcome \in Outcomes
      BY <2>2 DEF TaskMap, TaskRecord
    <2>5. ASSUME NEW t \in Tasks PROVE Kept(marked[t], task'[t])
      <3>1. CASE t \in F
        BY <2>1, <2>3, <2>4, <3>1, TerminalKept DEF Live
      <3>2. CASE t \notin F
        BY <2>1, <3>2, KeptReflexive
      <3> QED BY <3>1, <3>2
    <2>6. AllKept(marked, task')
      BY <2>5 DEF AllKept
    <2>7. \A t \in Tasks : task'[t] \in TaskRecord
      BY <2>1, <2>4, TerminalTyped
    <2>8. AllKept(task, task')
      BY <1>1, <2>2, <2>4, <2>6, <2>7, KeptTransitive DEF AllKept
    <2>9. ASSUME NEW t \in Tasks, Live(task[t]), task'[t].status = "terminal"
          PROVE  OwnedLive(task', t) = {}
      <3>1. t \in F
        BY <2>1, <2>2, <2>9 DEF Live
      <3>2. OwnedLive(task', t) \subseteq F
        BY <2>2, <2>3, <2>6, <3>1, OwnedLiveShrinks
      <3>3. ASSUME NEW u \in F PROVE ~Live(task'[u])
        <4>1. task'[u] = Terminal(marked[u], marked[u].outcome)
          BY <2>1
        <4>2. Terminal(marked[u], marked[u].outcome).status = "terminal"
          BY <2>4 DEF Terminal, TaskRecord
        <4> QED BY <4>1, <4>2 DEF Live
      <3> QED BY <3>2, <3>3 DEF OwnedLive
    <2> QED BY <2>8, <2>9, KeepingShape DEF EndsStep
  <1>4. CASE AbandonPass
    BY <1>4, MarkingShape, KeepingShape DEF AbandonPass
  <1>5. CASE ReservePass
    <2>1. PICK reserved \in SUBSET Candidates, orphaned \in SUBSET Candidates :
            /\ reserved \cap orphaned = {}
            /\ \A t \in orphaned : Orphanable(task[t])
            /\ task' = [t \in Tasks |->
                 CASE t \in reserved -> [Running(task[t], task[t].checkpoint)
                                           EXCEPT !.version = registry[task[t].kind].version]
                   [] t \in orphaned -> Terminal(task[t], "orphaned")
                   [] OTHER -> task[t]]
      <3>1. PICK thrown \in ThrownChoices(Candidates \ HeldBack) :
              LET reserved == {t \in Candidates \ HeldBack : Ready(t, thrown)}
                  orphaned == {t \in Candidates \ HeldBack :
                                 ~Ready(t, thrown) /\ Orphanable(task[t])} IN
              task' = [t \in Tasks |->
                   CASE t \in reserved -> [Running(task[t], task[t].checkpoint)
                                             EXCEPT !.version = registry[task[t].kind].version]
                     [] t \in orphaned -> Terminal(task[t], "orphaned")
                     [] OTHER -> task[t]]
        BY <1>5 DEF ReservePass
      <3>2. /\ {t \in Candidates \ HeldBack : Ready(t, thrown)} \in SUBSET Candidates
            /\ {t \in Candidates \ HeldBack :
                  ~Ready(t, thrown) /\ Orphanable(task[t])} \in SUBSET Candidates
        OBVIOUS
      <3> QED BY <3>1, <3>2
    <2>2. \A t \in Candidates : /\ t \in Tasks /\ Live(task[t]) /\ task[t].status # "completing"
                                /\ WaitingOn(task, t) = {}
      BY DEF Candidates, TypeOK
    <2>3. ASSUME NEW t \in reserved
          PROVE  Kept(task[t], task'[t]) /\ task'[t].status = "running"
      <3>1. task[t] \in TaskRecord /\ task[t].checkpoint \in Checkpoints
        BY <1>1, <2>2 DEF TaskRecord
      <3>2. Kept(task[t], Running(task[t], task[t].checkpoint))
        BY <2>2, <3>1, RunningKept
      <3>3. task'[t] = [Running(task[t], task[t].checkpoint)
                          EXCEPT !.version = registry[task[t].kind].version]
        BY <2>1, <2>2
      <3> QED BY <3>1, <3>2, <3>3, <2>2 DEF Kept, Running, Exists, Live, Marked, TaskRecord
    <2>4. ASSUME NEW t \in orphaned, t \notin reserved
          PROVE  Kept(task[t], task'[t]) /\ OwnedLive(task, t) = {}
      <3>1. task'[t] = Terminal(task[t], "orphaned") /\ Orphanable(task[t])
        BY <2>1, <2>2, <2>4
      <3>2. Kept(task[t], task'[t])
        BY <1>1, <2>2, <3>1, TerminalKept DEF Outcomes
      <3>3. Marked(task[t])
        BY <3>1 DEF Orphanable, Marked
      <3> QED BY <2>2, <3>2, <3>3 DEF WaitingOn
    <2>5. ASSUME NEW t \in Tasks, t \notin reserved, t \notin orphaned PROVE task'[t] = task[t]
      BY <2>1, <2>5
    <2>6. AllKept(task, task')
      BY <2>3, <2>4, <2>5, KeptReflexive DEF AllKept
    <2>7. ASSUME NEW t \in Tasks, Live(task[t]), task'[t].status = "terminal"
          PROVE  OwnedLive(task', t) = {}
      <3>1. OwnedLive(task, t) = {}
        BY <2>3, <2>4, <2>5, <2>7 DEF Live
      <3>2. task \in TaskMap
        BY DEF TypeOK, TaskMap
      <3> QED BY <2>6, <3>1, <3>2, OwnedLiveShrinks
    <2> QED BY <2>6, <2>7, KeepingShape DEF EndsStep
  <1> QED BY <1>2, <1>3, <1>4, <1>5 DEF Passes

LEMMA ProcessShape == TypeOK /\ Process => Shape /\ EndsStep
  <1> SUFFICES ASSUME TypeOK, Process PROVE Shape /\ EndsStep
    OBVIOUS
  <1>1. CASE Open
    <2>1. \A t \in Tasks : task[t] \in TaskRecord
      BY DEF TypeOK
    <2>2. ASSUME NEW t \in Tasks
          PROVE  /\ Kept(task[t], task'[t])
                 /\ task'[t].status = "terminal" => task[t].status = "terminal"
      <3>1. task'[t] = Recovered(task[t])
        BY <1>1 DEF Open
      <3>2. task[t].status = "running" =>
              Kept(task[t], Pending(task[t])) /\ Pending(task[t]).status = "pending"
        BY <2>1, PendingKept DEF Live, Pending, TaskRecord
      <3> QED BY <3>1, <3>2, KeptReflexive DEF Recovered
    <2> QED BY <2>2, KeepingShape DEF AllKept, EndsStep, Live
  <1>2. CASE Resume \/ Crash \/ Close \/ Join
    BY <1>2, UnchangedShape DEF Resume, Crash, Close, Join, Down, durable
  <1> QED BY <1>1, <1>2 DEF Process

\* Every step of the scheduler has the shape, and ends tasks bottom-up.
LEMMA NextShape == TypeOK /\ [Next]_vars => Shape /\ EndsStep
  <1> SUFFICES ASSUME TypeOK, [Next]_vars PROVE Shape /\ EndsStep
    OBVIOUS
  <1>1. CASE UNCHANGED vars
    BY <1>1, UnchangedShape DEF vars, durable
  <1>2. CASE Next
    BY <1>2, HostShape, HandlerShape, StepShape, PassesShape, ProcessShape DEF Next
  <1> QED BY <1>1, <1>2

\* A task ends only when no live foreground work is left below it, whatever
\* ends it and whatever the same commit creates or ends (scheduler.ts
\* #terminate, #commitState, #finalize, #reserve, abort()).
THEOREM TasksEndBottomUp == Spec => EndsBottomUp
  <1>1. TypeOK /\ [Next]_vars => EndsStep
    BY NextShape
  <1>2. TypeOK /\ [Next]_vars =>
          [\A t \in Tasks : Live(task[t]) /\ task'[t].status = "terminal"
             => OwnedLive(task', t) = {}]_vars
    BY <1>1 DEF EndsStep
  <1> QED BY <1>2, TypeCorrect, PTL DEF Spec, EndsBottomUp

\* A decided outcome stands (scheduler.ts #terminate, #finalize, #gated).
THEOREM OutcomesStand == Spec => OutcomeStands
  <1>1. ASSUME TypeOK, [Next]_vars, NEW t \in Tasks
        PROVE  /\ task[t].status = "completing" =>
                    Decided(task'[t]) /\ task'[t].outcome = task[t].outcome
               /\ task[t].status = "terminal" => task'[t] = task[t]
    <2>1. PICK S \in Staged(task) : AllKept(S, task')
      BY <1>1, NextShape DEF Shape
    <2>2. Exists(task[t]) => Kept(task[t], task'[t])
      BY <1>1, <2>1, StagedKept DEF AllKept
    <2> QED BY <2>2 DEF Kept, Exists
  <1>2. TypeOK /\ [Next]_vars =>
          [\A t \in Tasks :
             /\ task[t].status = "completing" =>
                  Decided(task'[t]) /\ task'[t].outcome = task[t].outcome
             /\ task[t].status = "terminal" => task'[t] = task[t]]_vars
    BY <1>1
  <1> QED BY <1>2, TypeCorrect, PTL DEF Spec, OutcomeStands

-----------------------------------------------------------------------------
(* The ownership tree.  Ids are minted in order and owners exist before      *)
(* what they own, so chains of owners are acyclic and a child's chain is its *)
(* owner and its owner's chain.                                              *)

TreeOf(T, C) ==
  /\ \A t, u \in Tasks : Exists(T[t]) /\ u < t => Exists(T[u])
  /\ \A c \in Convs : C[c] \in Tasks => Exists(T[C[c]])
  /\ \A u \in Tasks : ~Exists(T[u]) => T[u].owner = NoTask /\ T[u].owners = {} /\ ~Marked(T[u])
  /\ \A u \in Tasks : \A a \in T[u].owners : a < u
  /\ \A u \in Tasks : T[u].owner # NoTask =>
       /\ Exists(T[T[u].owner]) /\ ~T[u].background
       /\ T[u].owners = {T[u].owner} \cup T[T[u].owner].owners

Tree == TreeOf(task, convOwner)

\* A walk down from a task reaches every child it owns.
LEMMA ChildIsBelow ==
  ASSUME NEW T \in TaskMap, NEW C, TreeOf(T, C), NEW u \in Tasks, T[u].owner # NoTask
  PROVE  T[u].owner \in Tasks /\ u \in Below(T, T[u].owner) /\ ~T[u].background
  <1> DEFINE o == T[u].owner
  <1>1. o \in Tasks
    BY DEF TaskMap, TaskRecord
  <1>2. T[u].owners = {o} \cup T[o].owners /\ ~T[u].background
    BY DEF TreeOf
  <1>3. \A v \in Tasks : T[v].owners \subseteq Tasks /\ \A a \in T[v].owners : a < v
    BY DEF TreeOf, TaskMap, TaskRecord
  <1>4. ASSUME NEW b \in T[u].owners PROVE o \notin T[b].owners
    <2>1. b \in Tasks /\ (b = o \/ b < o)
      BY <1>1, <1>2, <1>3
    <2>2. ~(o < b)
      BY <1>1, <2>1
    <2> QED BY <1>3, <2>1, <2>2
  <1> QED BY <1>1, <1>2, <1>4 DEF Below

LEMMA StagedTree ==
  ASSUME TypeOK, Tree, NEW S \in Staged(task) PROVE TreeOf(S, convOwner)
  <1>1. CASE S = task
    BY <1>1 DEF Tree
  <1>2. CASE \E i \in NextIds(task), x \in Creatable(task) :
               S = [task EXCEPT ![i] = NewTask(task, x)]
    <2>1. PICK i \in NextIds(task), x \in Creatable(task) :
            S = [task EXCEPT ![i] = NewTask(task, x)]
      BY <1>2
    <2>2. i \in Tasks /\ ~Exists(task[i]) /\ \A u \in Tasks : u < i => Exists(task[u])
      BY <2>1 DEF NextIds
    <2>3. S[i] = NewTask(task, x) /\ \A u \in Tasks \ {i} : S[u] = task[u]
      BY <2>1, <2>2 DEF TypeOK
    <2>4. /\ Exists(S[i]) /\ S[i].owner = x.owner /\ S[i].background = x.background
          /\ S[i].owners = OwnerChain(task, x) /\ ~Marked(S[i])
      BY <2>3 DEF NewTask, Exists, Marked
    <2>5. \A u \in Tasks : Exists(task[u]) => S[u] = task[u]
      BY <2>2, <2>3
    <2>6. \A u \in Tasks : Exists(task[u]) => u < i
      BY <2>2 DEF Tree, TreeOf
    \* The owner of the new task, or of its conversation, exists.
    <2>7. /\ ParentOf(x) \in Tasks \cup {NoTask}
          /\ ParentOf(x) # NoTask => Exists(task[ParentOf(x)])
      BY NewTaskTyped DEF ParentOf, Creatable, TaskOptions, Tree, TreeOf
    <2>8. \A a \in S[i].owners : a < i
      <3>1. CASE ParentOf(x) = NoTask
        BY <2>4, <3>1 DEF OwnerChain
      <3>2. CASE ParentOf(x) # NoTask
        <4>1. ParentOf(x) \in Tasks /\ ParentOf(x) < i
          BY <2>6, <2>7, <3>2
        <4>2. \A a \in task[ParentOf(x)].owners : a \in Tasks /\ a < ParentOf(x)
          BY <4>1 DEF Tree, TreeOf, TypeOK, TaskRecord
        <4>3. S[i].owners = {ParentOf(x)} \cup task[ParentOf(x)].owners
          BY <2>4, <3>2 DEF OwnerChain
        <4> QED BY <2>2, <4>1, <4>2, <4>3
      <3> QED BY <3>1, <3>2
    <2>9. S[i].owner # NoTask =>
            /\ S[i].owner \in Tasks /\ Exists(task[S[i].owner]) /\ ~S[i].background
            /\ S[i].owners = {S[i].owner} \cup task[S[i].owner].owners
      BY <2>4, NewTaskTyped DEF OwnerChain, ParentOf
    <2>10. \A t, u \in Tasks : Exists(S[t]) /\ u < t => Exists(S[u])
      BY <2>2, <2>3, <2>4, <2>5 DEF Tree, TreeOf
    <2>11. \A c \in Convs : convOwner[c] \in Tasks => Exists(S[convOwner[c]])
      BY <2>5 DEF Tree, TreeOf
    <2>12. \A u \in Tasks : ~Exists(S[u]) =>
             S[u].owner = NoTask /\ S[u].owners = {} /\ ~Marked(S[u])
      BY <2>3, <2>4 DEF Tree, TreeOf
    <2>13. \A u \in Tasks : \A a \in S[u].owners : a < u
      BY <2>3, <2>8 DEF Tree, TreeOf
    <2>14. ASSUME NEW u \in Tasks, S[u].owner # NoTask
           PROVE  /\ Exists(S[S[u].owner]) /\ ~S[u].background
                  /\ S[u].owners = {S[u].owner} \cup S[S[u].owner].owners
      <3>1. CASE u = i
        BY <2>5, <2>9, <2>14, <3>1
      <3>2. CASE u # i
        <4>1. S[u] = task[u] /\ task[u].owner \in Tasks
          BY <2>3, <2>14, <3>2 DEF TypeOK, TaskRecord
        <4> QED BY <2>5, <2>14, <4>1 DEF Tree, TreeOf
      <3> QED BY <3>1, <3>2
    <2> QED BY <2>10, <2>11, <2>12, <2>13, <2>14 DEF TreeOf
  <1> QED BY <1>1, <1>2, StagedAddsOne

\* A conversation gets the owner of its creation, or none.
ConvShape ==
  \A c \in Convs : \/ convOwner'[c] = convOwner[c]
                   \/ convOwner'[c] \in Tasks => Exists(task[convOwner'[c]])

LEMMA NextConvShape == TypeOK /\ [Next]_vars => ConvShape
  <1> SUFFICES ASSUME TypeOK, [Next]_vars PROVE ConvShape
    OBVIOUS
  <1>1. CASE CreateConversation
    BY <1>1 DEF CreateConversation, ConvShape, TakesWork, Live, Exists, TypeOK
  <1>2. CASE convOwner' = convOwner
    BY <1>2 DEF ConvShape
  <1>3. Host => CreateConversation \/ convOwner' = convOwner
    BY DEF Host, CreateTask, Register, HostAbort, Abort, AbortConversation, durable
  <1>4. Passes => convOwner' = convOwner
    BY DEF Passes, ReconcileBegin, ReconcileCommit, DrainBegin, AbandonPass, ReservePass,
           durable
  <1>5. Process => convOwner' = convOwner
    BY DEF Process, Open, Resume, Crash, Close, Join, Down, durable
  <1>6. \A t \in Tasks : Handler(t) => convOwner' = convOwner
    BY DEF Handler, Progress, Finish, Wait, AbortOwned, HandlerCommit, Abort
  <1>7. \A t \in Tasks : Step(t) => convOwner' = convOwner
    BY DEF Step, StepEnd, StepFault, StepHandOver, StepContinue, AbortStep, Fault, durable
  <1>8. UNCHANGED vars => convOwner' = convOwner
    BY DEF vars, durable
  <1> QED BY <1>1, <1>2, <1>3, <1>4, <1>5, <1>6, <1>7, <1>8 DEF Next

LEMMA NextTree == TypeOK /\ Tree /\ [Next]_vars => Tree'
  <1> SUFFICES ASSUME TypeOK, Tree, [Next]_vars PROVE TreeOf(task', convOwner')
    BY DEF Tree
  <1>1. PICK S \in Staged(task) : AllKept(S, task')
    BY NextShape DEF Shape
  <1>2. TreeOf(S, convOwner)
    BY StagedTree
  <1>3. ASSUME NEW u \in Tasks
        PROVE  /\ task'[u].owner = S[u].owner /\ task'[u].owners = S[u].owners
               /\ task'[u].background = S[u].background
               /\ Exists(task'[u]) <=> Exists(S[u])
    BY <1>1 DEF AllKept, Kept
  <1>4. \A u \in Tasks : ~Exists(task'[u]) => task'[u] = S[u]
    BY <1>1 DEF AllKept, Kept
  <1>5. \A u \in Tasks : Exists(task[u]) => Exists(task'[u])
    BY <1>3, StagedKept
  <1>6. \A c \in Convs : convOwner'[c] \in Tasks => Exists(task'[convOwner'[c]])
    BY <1>2, <1>3, <1>5, NextConvShape DEF ConvShape, TreeOf
  <1>7. \A u \in Tasks : S[u].owner # NoTask => S[u].owner \in Tasks
    BY StagedTyped DEF TaskMap, TaskRecord
  <1>8. ASSUME NEW u \in Tasks, task'[u].owner # NoTask
        PROVE  /\ Exists(task'[task'[u].owner]) /\ ~task'[u].background
               /\ task'[u].owners = {task'[u].owner} \cup task'[task'[u].owner].owners
    BY <1>2, <1>3, <1>7, <1>8 DEF TreeOf
  <1> QED BY <1>2, <1>3, <1>4, <1>6, <1>8 DEF TreeOf

\* A live child task always has a live owner: no owner ends, is finalized or
\* orphaned while a task it owns is live, and none takes work once it ended
\* (transaction.ts #validateOwners with scheduler.ts #terminate, #finalize).
\* The tree makes it inductive: a live child is live work below its owner, and
\* no step ends a task that has some.
THEOREM OwnersOutliveChildren == Spec => []OwnerOutlivesChild
  <1> DEFINE IInv == Tree /\ OwnerOutlivesChild
  <1>1. Init => IInv
    BY BoundsAssumption
    DEF Init, Tree, TreeOf, OwnerOutlivesChild, Absent, Exists, Live, Marked
  <1>2. TypeOK /\ TypeOK' /\ IInv /\ [Next]_vars => IInv'
    <2> SUFFICES ASSUME TypeOK, TypeOK', Tree, OwnerOutlivesChild, [Next]_vars
                 PROVE  Tree' /\ OwnerOutlivesChild'
      OBVIOUS
    <2>1. Tree'
      BY NextTree
    <2>2. PICK S \in Staged(task) : AllKept(S, task') /\ OwnersValid(task')
      BY NextShape DEF Shape
    <2>3. EndsStep
      BY NextShape
    <2>4. ASSUME NEW u \in Tasks, Live(task'[u]), task'[u].owner # NoTask
          PROVE  Live(task'[task'[u].owner])
      <3> DEFINE o == task'[u].owner
      <3>1. task' \in TaskMap
        BY DEF TypeOK, TaskMap
      <3>2. o \in Tasks /\ u \in OwnedLive(task', o) /\ Exists(task'[o])
        BY <2>1, <2>4, <3>1, ChildIsBelow DEF Tree, TreeOf, OwnedLive
      <3>3. CASE Exists(task[u])
        <4>1. Kept(task[u], task'[u])
          BY <2>2, <3>3, StagedKept DEF AllKept
        <4>2. Live(task[u]) /\ task[u].owner = o
          BY <2>4, <4>1 DEF Kept
        <4>3. Live(task[o])
          BY <2>4, <4>2 DEF OwnerOutlivesChild
        <4>4. task'[o].status # "terminal"
          BY <2>3, <3>2, <4>3 DEF EndsStep
        <4> QED BY <3>2, <4>4 DEF Live, Exists
      <3>4. CASE ~Exists(task[u])
        BY <2>2, <2>4, <3>4 DEF OwnersValid, TakesWork, Live, Exists
      <3> QED BY <3>3, <3>4
    <2> QED BY <2>1, <2>4 DEF OwnerOutlivesChild
  <1>3. IInv => OwnerOutlivesChild
    OBVIOUS
  <1> QED BY <1>1, <1>2, <1>3, TypeCorrect, PTL DEF Spec

-----------------------------------------------------------------------------
(* Abort handlers.                                                          *)

\* Only the reservation of a marked task with nothing live below starts one.
LEMMA AbortInvocations ==
  ASSUME TypeOK, [Next]_vars, NEW t \in Tasks, inv'[t].mode = "abort"
  PROVE  inv[t].mode = "abort" \/ (Marked(task[t]) /\ OwnedLive(task, t) = {})
  <1>1. CASE inv' = inv
    BY <1>1
  <1>2. ASSUME Forget PROVE FALSE
    BY <1>2 DEF Forget, NoInvocation
  <1>3. ASSUME NEW u \in Tasks, End(u) PROVE inv[t].mode = "abort"
    BY <1>3 DEF End, NoInvocation, TypeOK
  <1>4. CASE ReservePass
    <2>1. \E reserved \in SUBSET Candidates :
            inv' = [v \in Tasks |-> IF v \in reserved THEN NewInvocation(v) ELSE inv[v]]
      <3>1. PICK thrown \in ThrownChoices(Candidates \ HeldBack) :
              LET reserved == {v \in Candidates \ HeldBack : Ready(v, thrown)} IN
              inv' = [v \in Tasks |-> IF v \in reserved THEN NewInvocation(v) ELSE inv[v]]
        BY <1>4 DEF ReservePass
      <3>2. {v \in Candidates \ HeldBack : Ready(v, thrown)} \in SUBSET Candidates
        OBVIOUS
      <3> QED BY <3>1, <3>2
    <2>2. CASE inv'[t] = inv[t]
      BY <2>2
    <2>3. CASE t \in Candidates /\ inv'[t] = NewInvocation(t)
      <3>1. Marked(task[t])
        BY <2>3 DEF NewInvocation, NoInvocation
      <3> QED BY <2>3, <3>1 DEF Candidates, WaitingOn
    <2> QED BY <2>1, <2>2, <2>3
  <1>5. ASSUME NEW u \in Tasks, StepContinue(u) PROVE inv[t].mode = "abort"
    BY <1>5 DEF StepContinue, TypeOK, Invocation
  <1>6. Host => inv' = inv
    BY DEF Host, CreateTask, CreateConversation, Register, HostAbort, Abort,
           AbortConversation, Commit, memory
  <1>7. Passes => inv' = inv \/ ReservePass
    BY DEF Passes, ReconcileBegin, ReconcileCommit, DrainBegin, AbandonPass
  <1>8. Process => inv' = inv \/ Forget
    BY DEF Process, Open, Resume, Crash, Close, Join, Down
  <1>9. \A u \in Tasks : Handler(u) => inv' = inv
    BY DEF Handler, Progress, Finish, Wait, AbortOwned, HandlerCommit, Abort, Commit
  <1>10. \A u \in Tasks : Step(u) => End(u) \/ StepContinue(u)
    BY DEF Step, StepEnd, StepFault, StepHandOver, AbortStep, Fault
  <1>11. UNCHANGED vars => inv' = inv
    BY DEF vars, memory
  <1> QED BY <1>1, <1>2, <1>3, <1>4, <1>5, <1>6, <1>7, <1>8, <1>9, <1>10, <1>11 DEF Next

\* Abort runs bottom-up: while an abort handler runs, no child of its task is
\* live, and none appears (scheduler.ts #waitingOn, transaction.ts
\* #validateOwners on abort-marked owners).
THEOREM AbortHandlersAreAlone == Spec => []AbortHandlerIsAlone
  <1> DEFINE AbortMarked == \A t \in Tasks : inv[t].mode = "abort" => Marked(task[t])
  <1> DEFINE IInv == Tree /\ AbortMarked /\ AbortHandlerIsAlone
  <1>1. Init => IInv
    BY BoundsAssumption
    DEF Init, Tree, TreeOf, AbortHandlerIsAlone, Absent, Exists, Live, Marked, NoInvocation
  <1>2. TypeOK /\ TypeOK' /\ IInv /\ [Next]_vars => IInv'
    <2> SUFFICES ASSUME TypeOK, TypeOK', Tree, AbortMarked, AbortHandlerIsAlone, [Next]_vars
                 PROVE  Tree' /\ AbortMarked' /\ AbortHandlerIsAlone'
      OBVIOUS
    <2>1. Tree'
      BY NextTree
    <2>2. PICK S \in Staged(task) : AllKept(S, task') /\ OwnersValid(task')
      BY NextShape DEF Shape
    <2>3. ASSUME NEW t \in Tasks, Marked(task[t]) PROVE Marked(task'[t])
      <3>1. Exists(task[t])
        BY <2>3 DEF Tree, TreeOf
      <3> QED BY <2>2, <2>3, <3>1, StagedKept DEF AllKept, Kept
    <2>4. AbortMarked'
      BY <2>3, AbortInvocations
    <2>5. ASSUME NEW t \in Tasks, NEW u \in Tasks, inv'[t].mode = "abort",
                 Live(task'[u]), task'[u].owner = t
          PROVE  FALSE
      <3>1. task \in TaskMap
        BY DEF TypeOK, TaskMap
      <3>2. CASE Exists(task[u])
        <4>1. Live(task[u]) /\ task[u].owner = t
          BY <2>2, <2>5, <3>2, StagedKept DEF AllKept, Kept
        <4>2. u \in OwnedLive(task, t)
          BY <3>1, <4>1, ChildIsBelow DEF Tree, OwnedLive
        <4> QED BY <2>5, <4>1, <4>2, AbortInvocations DEF AbortHandlerIsAlone
      <3>3. CASE ~Exists(task[u])
        <4>1. Exists(task'[u]) /\ task'[u].owner # NoTask
          BY <2>5 DEF Live, Exists
        <4>2. ~Marked(task'[t])
          BY <2>2, <2>5, <3>3, <4>1 DEF OwnersValid, TakesWork
        <4> QED BY <2>4, <2>5, <4>2
      <3> QED BY <3>2, <3>3
    <2> QED BY <2>1, <2>4, <2>5 DEF AbortHandlerIsAlone
  <1>3. IInv => AbortHandlerIsAlone
    OBVIOUS
  <1> QED BY <1>1, <1>2, <1>3, TypeCorrect, PTL DEF Spec

-----------------------------------------------------------------------------
(* What a step does to the record of one task.                              *)

\* The fields a task is created with and keeps, but for a migration's version.
Same(r, r2) == r2.abandonOnRestart = r.abandonOnRestart /\ r2.version = r.version

LEMMA RunningFields ==
  ASSUME NEW r \in TaskRecord, NEW c \in Checkpoints
  PROVE  LET s == Running(r, c) IN
         Same(r, s) /\ s.status = "running" /\ s.outcome = r.outcome
  BY DEF Same, Running, TaskRecord

LEMMA PendingFields ==
  ASSUME NEW r \in TaskRecord
  PROVE  LET s == Pending(r) IN
         Same(r, s) /\ s.status = "pending" /\ s.outcome = r.outcome
  BY DEF Same, Pending, TaskRecord

LEMMA WaitingFields ==
  ASSUME NEW r \in TaskRecord, NEW c \in Checkpoints, NEW on \in SUBSET Tasks,
         NEW policy \in {"allSettled", "failFast"}
  PROVE  LET s == Waiting(r, c, on, policy) IN
         /\ Same(r, s) /\ s.status = "waiting" /\ s.outcome = r.outcome
         /\ s.on = on /\ s.policy = policy
  BY DEF Same, Waiting, TaskRecord

LEMMA MarkFields ==
  ASSUME NEW r \in TaskRecord, NEW m
  PROVE  LET s == WithAbortMark(r, m) IN
         /\ Same(r, s) /\ s.status = r.status /\ s.outcome = r.outcome /\ s.abort = m
         /\ s.on = r.on /\ s.policy = r.policy
  BY DEF Same, WithAbortMark, TaskRecord

LEMMA TerminalFields ==
  ASSUME NEW r \in TaskRecord, NEW o
  PROVE  LET s == Terminal(r, o) IN Same(r, s) /\ s.status = "terminal" /\ s.outcome = o
  BY DEF Same, Terminal, TaskRecord

LEMMA CompletingFields ==
  ASSUME NEW r \in TaskRecord, NEW o
  PROVE  LET s == Completing(r, o) IN Same(r, s) /\ s.status = "completing" /\ s.outcome = o
  BY DEF Same, Completing, TaskRecord

LEMMA SettledFields ==
  ASSUME NEW T \in TaskMap, NEW t \in Tasks, NEW o
  PROVE  LET s == Settled(T, t, o)[t] IN
         /\ Same(T[t], s) /\ s.outcome = o
         /\ \/ s.status = "terminal"
            \/ s.status = "completing" /\ OwnedLive(T, t) # {}
         /\ \A u \in Tasks \ {t} : Settled(T, t, o)[u] = T[u]
  <1>1. T[t] \in TaskRecord
    BY DEF TaskMap
  <1>2. /\ Settled(T, t, o)[t] = IF OwnedLive(T, t) # {} THEN Completing(T[t], o)
                                 ELSE Terminal(T[t], o)
        /\ \A u \in Tasks \ {t} : Settled(T, t, o)[u] = T[u]
    BY DEF Settled, TaskMap
  <1> QED BY <1>1, <1>2, TerminalFields, CompletingFields

\* How the record of an existing task may change in one step.  Only a
\* reservation raises a version, and it takes a task that no invocation has;
\* only an abort request or a reservation orphans; only its own handler makes a
\* task wait; and a task starts to run with an invocation.
Moves(t) ==
  /\ task'[t].abandonOnRestart = task[t].abandonOnRestart
  /\ \/ task'[t].version = task[t].version
     \/ inv[t].mode = "none" /\ task'[t].version > task[t].version
  /\ \/ task'[t].outcome = task[t].outcome
     \/ task'[t].outcome # "orphaned"
     \/ /\ task'[t].status = "terminal"
        /\ requests' # requests \/ task[t].abort # "restart"
  /\ task'[t].status = "waiting" =>
       \/ /\ task[t].status = "waiting"
          /\ task'[t].on = task[t].on /\ task'[t].policy = task[t].policy
       \/ Wait(t)
  /\ task'[t].status = "running" => task[t].status = "running" \/ inv'[t].mode # "none"

LEMMA StillMoves ==
  ASSUME NEW t, task'[t] = task[t] PROVE Moves(t)
  BY DEF Moves

LEMMA MarkMoves ==
  ASSUME TypeOK, NEW t \in Tasks, NEW m, task'[t] = WithAbortMark(task[t], m)
  PROVE  Moves(t)
  <1>1. task[t] \in TaskRecord
    BY DEF TypeOK
  <1> QED BY <1>1, MarkFields DEF Moves, Same

\* An abort request, by a host or by the owner's own cleanup.
LEMMA AbortMoves ==
  ASSUME TypeOK, NEW u \in Tasks, NEW keepRestart \in BOOLEAN, Abort(u, keepRestart),
         keepRestart \/ requests' # requests, NEW t \in Tasks
  PROVE  Moves(t)
  <1>1. task \in TaskMap
    BY DEF TypeOK, TaskMap
  <1>2. CASE task' = [task EXCEPT ![u] = WithAbortMark(@, "request")]
    <2>1. task'[t] = task[t] \/ (t = u /\ task'[t] = WithAbortMark(task[t], "request"))
      BY <1>1, <1>2 DEF TaskMap
    <2> QED BY <2>1, StillMoves, MarkMoves
  <1>3. CASE OwnedLive(task, u) = {} /\ task' = Settled(task, u, "orphaned")
    <2>1. requests' # requests \/ task[u].abort # "restart"
      BY DEF Abort
    <2>2. /\ Same(task[u], task'[u]) /\ task'[u].status = "terminal"
          /\ \A v \in Tasks \ {u} : task'[v] = task[v]
      BY <1>1, <1>3, SettledFields
    <2>3. CASE t = u
      BY <2>1, <2>2, <2>3 DEF Moves, Same
    <2> QED BY <2>2, <2>3, StillMoves
  <1> QED BY <1>2, <1>3 DEF Abort

LEMMA HostMoves ==
  ASSUME TypeOK, Host, NEW t \in Tasks, Exists(task[t]) PROVE Moves(t)
  <1>1. CASE CreateTask
    <2>1. task' \in Staged(task)
      BY <1>1 DEF CreateTask
    <2> QED BY <2>1, StagedKept, StillMoves
  <1>2. CASE CreateConversation \/ Register
    BY <1>2, StillMoves DEF CreateConversation, Register, durable
  <1>3. ASSUME Request PROVE requests' # requests
    BY <1>3 DEF Request, TypeOK
  <1>4. CASE \E u \in Tasks : HostAbort(u)
    BY <1>3, <1>4, AbortMoves DEF HostAbort
  <1>5. CASE \E c \in Convs, b \in BackgroundChoices : AbortConversation(c, b)
    BY <1>5, StillMoves, MarkMoves DEF AbortConversation
  <1> QED BY <1>1, <1>2, <1>4, <1>5 DEF Host

LEMMA HandlerMoves ==
  ASSUME TypeOK, NEW h \in Tasks, Handler(h), NEW t \in Tasks, Exists(task[t]) PROVE Moves(t)
  <1>1. ASSUME NEW S \in HandlerStaged
        PROVE  S \in TaskMap /\ S[t] = task[t] /\ S[h] \in TaskRecord
    <2>1. S \in Staged(task)
      BY <1>1 DEF HandlerStaged, Staged
    <2> QED BY <2>1, StagedTyped, StagedKept DEF TaskMap
  <1>2. ASSUME Gated(h) PROVE inv[h].mode # "none" /\ task[h].status = "running"
    BY <1>2 DEF Gated
  \* A commit that only moves the handler's own task.
  <1>3. ASSUME NEW S \in HandlerStaged, NEW r, HandlerCommit([S EXCEPT ![h] = r])
        PROVE  IF t = h THEN task'[t] = r ELSE task'[t] = task[t]
    BY <1>1, <1>3 DEF HandlerCommit, TaskMap
  <1>4. CASE Progress(h)
    <2>1. PICK S \in HandlerStaged, c \in Checkpoints :
            HandlerCommit([S EXCEPT ![h] = Running(S[h], c)])
      BY <1>4 DEF Progress
    <2>2. CASE t = h
      BY <1>1, <1>2, <1>3, <1>4, <2>1, <2>2, RunningFields DEF Moves, Same, Progress
    <2> QED BY <1>3, <2>1, <2>2, StillMoves
  <1>5. CASE Finish(h)
    <2>1. PICK S \in HandlerStaged, o \in HandlerOutcomes : HandlerCommit(Settled(S, h, o))
      BY <1>5 DEF Finish
    <2>2. task' = Settled(S, h, o) /\ S \in TaskMap /\ S[t] = task[t] /\ o # "orphaned"
      BY <1>1, <2>1, DataAssumption DEF HandlerCommit
    <2>3. CASE t = h
      BY <2>2, <2>3, SettledFields DEF Moves, Same
    <2>4. CASE t # h
      BY <2>2, <2>4, SettledFields, StillMoves
    <2> QED BY <2>3, <2>4
  <1>6. CASE Wait(h)
    <2>1. PICK S \in HandlerStaged, c \in Checkpoints, on \in WaitSets, policy \in Policies :
            HandlerCommit([S EXCEPT ![h] = Waiting(S[h], c, on, policy)])
      BY <1>6 DEF Wait
    <2>2. on \in SUBSET Tasks /\ policy \in {"allSettled", "failFast"}
      BY DataAssumption
    <2>3. CASE t = h
      <3>1. task'[t] = Waiting(task[t], c, on, policy) /\ task[t] \in TaskRecord
        BY <1>1, <1>3, <2>1, <2>3
      <3> QED BY <1>6, <2>2, <2>3, <3>1, WaitingFields DEF Moves, Same
    <2> QED BY <1>3, <2>1, <2>3, StillMoves
  <1>7. CASE AbortOwned(h)
    BY <1>7, AbortMoves DEF AbortOwned
  <1> QED BY <1>4, <1>5, <1>6, <1>7 DEF Handler

LEMMA StepMoves ==
  ASSUME TypeOK, NEW h \in Tasks, Step(h), NEW t \in Tasks PROVE Moves(t)
  <1>1. task \in TaskMap /\ task[h] \in TaskRecord
    BY DEF TypeOK, TaskMap
  <1>2. ASSUME Fault(h) PROVE Moves(t)
    <2>1. task' = Settled(task, h, "faulted")
      BY <1>2 DEF Fault
    <2>2. CASE t = h
      BY <1>1, <2>1, <2>2, SettledFields DEF Moves, Same
    <2> QED BY <1>1, <2>1, <2>2, SettledFields, StillMoves
  <1>3. CASE StepEnd(h) \/ StepContinue(h)
    BY <1>3, StillMoves DEF StepEnd, StepContinue, durable
  <1>4. CASE StepHandOver(h)
    <2>1. task'[t] = IF t = h THEN Pending(task[h]) ELSE task[t]
      BY <1>1, <1>4 DEF StepHandOver, TaskMap
    <2> QED BY <1>1, <2>1, PendingFields, StillMoves DEF Moves, Same
  <1> QED BY <1>2, <1>3, <1>4, StillMoves DEF Step, StepFault, AbortStep

\* What a reservation pass does to each task.
LEMMA ReserveActs ==
  ASSUME TypeOK, ReservePass, NEW t \in Tasks
  PROVE  \/ task'[t] = task[t] /\ inv'[t] = inv[t]
         \/ /\ t \in Candidates \ HeldBack
            /\ task'[t] = [Running(task[t], task[t].checkpoint)
                             EXCEPT !.version = registry[task[t].kind].version]
            /\ \E thrown : Ready(t, thrown)
            /\ inv'[t] = NewInvocation(t)
         \/ /\ t \in Candidates \ HeldBack /\ Orphanable(task[t])
            /\ task'[t] = Terminal(task[t], "orphaned")
            /\ inv'[t] = inv[t]
  <1>1. PICK thrown \in ThrownChoices(Candidates \ HeldBack) :
          LET reserved == {v \in Candidates \ HeldBack : Ready(v, thrown)}
              orphaned == {v \in Candidates \ HeldBack :
                             ~Ready(v, thrown) /\ Orphanable(task[v])} IN
          /\ task' = [v \in Tasks |->
               CASE v \in reserved -> [Running(task[v], task[v].checkpoint)
                                         EXCEPT !.version = registry[task[v].kind].version]
                 [] v \in orphaned -> Terminal(task[v], "orphaned")
                 [] OTHER -> task[v]]
          /\ inv' = [v \in Tasks |-> IF v \in reserved THEN NewInvocation(v) ELSE inv[v]]
    BY DEF ReservePass
  <1>2. CASE t \in Candidates \ HeldBack /\ Ready(t, thrown)
    BY <1>1, <1>2
  <1>3. CASE t \in Candidates \ HeldBack /\ ~Ready(t, thrown) /\ Orphanable(task[t])
    BY <1>1, <1>3
  <1>4. CASE ~(t \in Candidates \ HeldBack /\ (Ready(t, thrown) \/ Orphanable(task[t])))
    BY <1>1, <1>4
  <1> QED BY <1>2, <1>3, <1>4

\* What a reservation takes runs with a version that is not older.
LEMMA ReservedVersion ==
  ASSUME TypeOK, NEW t \in Tasks, NEW thrown, Ready(t, thrown)
  PROVE  /\ registry[task[t].kind].version \in Nat
         /\ registry[task[t].kind].version >= task[t].version
  <1>1. registry[task[t].kind].version \in Nat /\ task[t].version \in Nat
    BY ReadyVersion DEF TypeOK, TaskRecord
  <1> QED BY <1>1 DEF Ready, Fits, Migrating, Migrates

LEMMA PassesMoves ==
  ASSUME TypeOK, Passes, NEW t \in Tasks PROVE Moves(t)
  <1>1. task[t] \in TaskRecord /\ task[t].checkpoint \in Checkpoints /\ task[t].version \in Nat
    BY DEF TypeOK, TaskRecord
  <1>2. CASE ReconcileBegin \/ DrainBegin
    BY <1>2, StillMoves DEF ReconcileBegin, DrainBegin, durable
  <1>3. CASE ReconcileCommit
    <2> DEFINE marked == WithMarks(Cascade(FALSE) \cup FailFastMarks(Head(reconciles)),
                                   Cascade(TRUE))
    <2>1. PICK F \in SUBSET Tasks :
            task' = [u \in Tasks |-> IF u \in F THEN Terminal(marked[u], marked[u].outcome)
                                     ELSE marked[u]]
      BY <1>3 DEF ReconcileCommit
    <2>2. \/ marked[t] = task[t]
          \/ \E m \in {"restart", "request"} : marked[t] = WithAbortMark(task[t], m)
      BY DEF WithMarks
    <2>3. marked[t] \in TaskRecord
      BY CascadeMarksKept DEF TaskMap
    <2> HIDE DEF marked
    <2>4. Same(task[t], marked[t]) /\ marked[t].outcome = task[t].outcome
      BY <1>1, <2>2, MarkFields DEF Same
    <2>5. CASE t \in F
      <3>1. task'[t] = Terminal(marked[t], marked[t].outcome)
        BY <2>1, <2>5
      <3> QED BY <2>3, <2>4, <3>1, TerminalFields DEF Moves, Same
    <2>6. CASE t \notin F
      BY <2>1, <2>2, <2>6, StillMoves, MarkMoves
    <2> QED BY <2>5, <2>6
  <1>4. CASE AbandonPass
    BY <1>4, StillMoves, MarkMoves DEF AbandonPass
  <1>5. CASE ReservePass
    <2>1. CASE task'[t] = task[t]
      BY <2>1, StillMoves
    <2>2. CASE /\ t \in Candidates
               /\ task'[t] = [Running(task[t], task[t].checkpoint)
                                EXCEPT !.version = registry[task[t].kind].version]
               /\ \E thrown : Ready(t, thrown)
               /\ inv'[t] = NewInvocation(t)
      <3>1. Running(task[t], task[t].checkpoint) \in TaskRecord
        BY <1>1, RunningTyped
      <3>2. /\ task'[t].abandonOnRestart = task[t].abandonOnRestart
            /\ task'[t].status = "running" /\ task'[t].outcome = task[t].outcome
            /\ task'[t].version = registry[task[t].kind].version
        BY <1>1, <2>2, <3>1, RunningFields DEF Same, TaskRecord
      <3>3. inv[t].mode = "none" /\ inv'[t].mode # "none"
        BY <2>2 DEF Candidates, NewInvocation, NoInvocation
      <3>4. task'[t].version = task[t].version \/ task'[t].version > task[t].version
        BY <1>1, <2>2, <3>2, ReservedVersion
      <3> QED BY <3>2, <3>3, <3>4 DEF Moves
    <2>3. CASE Orphanable(task[t]) /\ task'[t] = Terminal(task[t], "orphaned")
      BY <1>1, <2>3, TerminalFields DEF Moves, Same, Orphanable
    <2> QED BY <1>5, <2>1, <2>2, <2>3, ReserveActs
  <1> QED BY <1>2, <1>3, <1>4, <1>5 DEF Passes

LEMMA ProcessMoves ==
  ASSUME TypeOK, Process, NEW t \in Tasks PROVE Moves(t)
  <1>1. task[t] \in TaskRecord
    BY DEF TypeOK
  <1>2. CASE Open
    <2>1. task'[t] = IF task[t].status = "running" THEN Pending(task[t]) ELSE task[t]
      BY <1>2 DEF Open, Recovered
    <2> QED BY <1>1, <2>1, PendingFields, StillMoves DEF Moves, Same
  <1>3. CASE Resume \/ Crash \/ Close \/ Join
    BY <1>3, StillMoves DEF Resume, Crash, Close, Join, Down, durable
  <1> QED BY <1>2, <1>3 DEF Process

LEMMA NextMoves ==
  ASSUME TypeOK, [Next]_vars, NEW t \in Tasks, Exists(task[t]) PROVE Moves(t)
  <1>1. CASE UNCHANGED vars
    BY <1>1, StillMoves DEF vars, durable
  <1>2. CASE Next
    BY <1>2, HostMoves, HandlerMoves, StepMoves, PassesMoves, ProcessMoves DEF Next
  <1> QED BY <1>1, <1>2

\* A task that is not there yet stays so, or the commit of a host or of a
\* handler creates it.
Born(t) ==
  \/ task'[t] = task[t]
  \/ Commit /\ \E x \in Creatable(task) : task'[t] = NewTask(task, x)

LEMMA NewTaskFields ==
  ASSUME NEW x
  PROVE  LET r == NewTask(task, x) IN
         r.status = "pending" /\ r.outcome = "none" /\ r.abort = "no" /\ r.on = {}
  BY DEF NewTask

LEMMA StagedBirths ==
  ASSUME TypeOK, Commit, NEW S \in Staged(task), NEW t \in Tasks, task'[t] = S[t] PROVE Born(t)
  <1>1. CASE S = task
    BY <1>1 DEF Born
  <1>2. CASE \E i \in NextIds(task), x \in Creatable(task) :
               S = [task EXCEPT ![i] = NewTask(task, x)]
    BY <1>2 DEF Born, TypeOK
  <1> QED BY <1>1, <1>2, StagedAddsOne

LEMMA HandlerBirths ==
  ASSUME TypeOK, NEW h \in Tasks, Handler(h), NEW t \in Tasks, ~Exists(task[t]) PROVE Born(t)
  <1>1. ASSUME NEW S \in HandlerStaged PROVE S \in Staged(task) /\ S \in TaskMap
    <2>1. S \in Staged(task)
      BY <1>1 DEF HandlerStaged, Staged
    <2> QED BY <2>1, StagedTyped
  <1>2. ASSUME Gated(h) PROVE t # h
    BY <1>2 DEF Gated, Exists
  <1>3. ASSUME Gated(h), NEW S \in HandlerStaged, NEW r, HandlerCommit([S EXCEPT ![h] = r])
        PROVE  Born(t)
    <2>1. Commit /\ task'[t] = S[t]
      BY <1>1, <1>2, <1>3 DEF HandlerCommit, TaskMap
    <2> QED BY <1>1, <1>3, <2>1, StagedBirths
  <1>4. CASE Progress(h)
    BY <1>3, <1>4 DEF Progress
  <1>5. CASE Finish(h)
    <2>1. PICK S \in HandlerStaged, o \in HandlerOutcomes : HandlerCommit(Settled(S, h, o))
      BY <1>5 DEF Finish
    <2>2. HandlerCommit([S EXCEPT ![h] = Settled(S, h, o)[h]])
      BY <1>1, <2>1 DEF Settled, TaskMap
    <2> QED BY <1>3, <1>5, <2>2 DEF Finish
  <1>6. CASE Wait(h)
    BY <1>3, <1>6 DEF Wait
  <1>7. CASE AbortOwned(h)
    BY <1>7 DEF AbortOwned, Abort, Settled, Live, Exists, Born, TypeOK
  <1> QED BY <1>4, <1>5, <1>6, <1>7 DEF Handler

LEMMA NextBirths ==
  ASSUME TypeOK, [Next]_vars, NEW t \in Tasks, ~Exists(task[t]) PROVE Born(t)
  <1>1. CASE UNCHANGED vars
    BY <1>1 DEF vars, durable, Born
  <1>2. CASE Host
    <2>1. CASE CreateTask
      BY <2>1, StagedBirths DEF CreateTask
    <2>2. CASE CreateConversation \/ Register
      BY <2>2 DEF CreateConversation, Register, durable, Born
    <2>3. CASE \E u \in Tasks : HostAbort(u)
      BY <2>3 DEF HostAbort, Abort, Settled, Live, Exists, Born, TypeOK
    <2>4. CASE \E c \in Convs, b \in BackgroundChoices : AbortConversation(c, b)
      BY <2>4 DEF AbortConversation, Live, Exists, Born
    <2> QED BY <1>2, <2>1, <2>2, <2>3, <2>4 DEF Host
  <1>3. CASE Passes
    <2>1. CASE ReconcileCommit
      <3> DEFINE marked == WithMarks(Cascade(FALSE) \cup FailFastMarks(Head(reconciles)),
                                     Cascade(TRUE))
      <3>1. PICK F \in SUBSET Tasks :
              /\ Finalized(marked, finalizeChecks, F)
              /\ task' = [u \in Tasks |-> IF u \in F THEN Terminal(marked[u], marked[u].outcome)
                                          ELSE marked[u]]
        BY <2>1 DEF ReconcileCommit
      <3>2. marked[t] = task[t]
        BY CascadeMarksKept, ZenonT(40) DEF AllKept, Kept
      <3> HIDE DEF marked
      <3>3. t \notin F
        BY <3>1, <3>2 DEF Finalized, Exists
      <3> QED BY <3>1, <3>2, <3>3 DEF Born
    <2>2. CASE ReconcileBegin \/ DrainBegin
      BY <2>2 DEF ReconcileBegin, DrainBegin, durable, Born
    <2>3. CASE AbandonPass
      BY <2>3 DEF AbandonPass, Live, Exists, Born
    <2>4. CASE ReservePass
      BY <2>4, ReserveActs DEF Candidates, Live, Exists, Born
    <2> QED BY <1>3, <2>1, <2>2, <2>3, <2>4 DEF Passes
  <1>4. CASE Process
    <2>1. CASE Open
      BY <2>1 DEF Open, Recovered, Exists, Born
    <2>2. CASE Resume \/ Crash \/ Close \/ Join
      BY <2>2 DEF Resume, Crash, Close, Join, Down, durable, Born
    <2> QED BY <1>4, <2>1, <2>2 DEF Process
  <1>5. ASSUME NEW h \in Tasks, Step(h) PROVE Born(t)
    <2>1. CASE task' = task
      BY <2>1 DEF Born
    <2>2. CASE task[h].status = "running" /\ Fault(h)
      BY <2>2 DEF Fault, Settled, Exists, Born, TypeOK
    <2>3. CASE StepHandOver(h)
      BY <2>3 DEF StepHandOver, GoesOn, Exists, Born, TypeOK
    <2> QED BY <1>5, <2>1, <2>2, <2>3
        DEF Step, StepEnd, StepFault, StepContinue, AbortStep, GoesOn, durable
  <1> QED BY <1>1, <1>2, <1>3, <1>4, <1>5, HandlerBirths DEF Next

-----------------------------------------------------------------------------
(* What a step does to the memory of the scheduler.                         *)

\* Only a reservation starts an invocation.
LEMMA NextInvocations ==
  ASSUME TypeOK, [Next]_vars, NEW t \in Tasks
  PROVE  \/ inv'[t].mode = inv[t].mode /\ inv'[t].def = inv[t].def
         \/ inv'[t].mode = "none"
         \/ ReservePass /\ inv'[t] = NewInvocation(t) /\ inv'[t] # inv[t]
  <1>1. CASE inv' = inv
    BY <1>1
  <1>2. ASSUME Forget PROVE inv'[t].mode = "none"
    BY <1>2 DEF Forget, NoInvocation
  <1>3. ASSUME NEW u \in Tasks, End(u) PROVE inv'[t] = inv[t] \/ inv'[t].mode = "none"
    BY <1>3 DEF End, NoInvocation, TypeOK
  <1>4. ASSUME NEW u \in Tasks, StepContinue(u)
        PROVE  inv'[t].mode = inv[t].mode /\ inv'[t].def = inv[t].def
    BY <1>4 DEF StepContinue, TypeOK, Invocation
  <1>5. ReservePass => inv'[t] = inv[t] \/ inv'[t] = NewInvocation(t)
    BY ReserveActs
  <1>6. Host => inv' = inv
    BY DEF Host, CreateTask, CreateConversation, Register, HostAbort, Abort,
           AbortConversation, Commit, memory
  <1>7. Passes => inv' = inv \/ ReservePass
    BY DEF Passes, ReconcileBegin, ReconcileCommit, DrainBegin, AbandonPass
  <1>8. Process => inv' = inv \/ Forget
    BY DEF Process, Open, Resume, Crash, Close, Join, Down
  <1>9. \A u \in Tasks : Handler(u) => inv' = inv
    BY ZenonT(40) DEF Handler, Progress, Finish, Wait, AbortOwned, HandlerCommit, Abort, Commit
  <1>10. \A u \in Tasks : Step(u) => End(u) \/ StepContinue(u)
    BY DEF Step, StepEnd, StepFault, StepHandOver, AbortStep, Fault
  <1>11. UNCHANGED vars => inv' = inv
    BY DEF vars, memory
  <1> QED BY <1>1, <1>2, <1>3, <1>4, <1>5, <1>6, <1>7, <1>8, <1>9, <1>10, <1>11 DEF Next

\* The process forgets only when it opens or goes down; until then no task of
\* this process is forgotten, and only the first pass takes the abandoned ones.
LEMMA NextMemory ==
  ASSUME TypeOK, [Next]_vars
  PROVE  \/ Forget /\ (life' = "down" \/ Open)
         \/ /\ (life' = "down") <=> (life = "down")
            /\ fresh \subseteq fresh'
            /\ abandoned' = abandoned \/ AbandonPass
  <1> DEFINE Goes == /\ (life' = "down") <=> (life = "down")
                     /\ fresh \subseteq fresh'
                     /\ abandoned' = abandoned \/ AbandonPass
  <1>1. Host => Goes
    BY DEF Host, CreateTask, CreateConversation, Register, HostAbort, Abort,
           AbortConversation, Commit, Observe, memory, wakeups, passes
  <1>2. Passes => Goes
    BY DEF Passes, ReconcileBegin, ReconcileCommit, DrainBegin, AbandonPass, ReservePass,
           Observe, wakeups
  <1>3. ASSUME Process PROVE Goes \/ (Forget /\ (life' = "down" \/ Open))
    <2>1. CASE Open \/ Crash \/ Join
      BY <2>1 DEF Open, Crash, Join, Down
    <2>2. Resume => Goes
      BY DEF Resume, wakeups, passes
    <2>3. Close => Goes
      BY DEF Close, wakeups, passes, InSession
    <2> HIDE DEF Goes
    <2> QED BY <1>3, <2>1, <2>2, <2>3 DEF Process
  <1>4. \A u \in Tasks : Handler(u) => Goes
    BY ZenonT(40) DEF Handler, Progress, Finish, Wait, AbortOwned, HandlerCommit, Abort,
                      Commit, Observe, passes
  <1>5. \A u \in Tasks : Step(u) => Goes
    BY DEF Step, StepEnd, StepFault, StepHandOver, StepContinue, AbortStep, Fault, Observe,
           passes, wakeups
  <1>6. UNCHANGED vars => Goes
    BY DEF vars, memory, wakeups, passes
  <1>7. Goes \/ (Forget /\ (life' = "down" \/ Open))
    <2> HIDE DEF Goes
    <2>1. CASE Next
      BY <2>1, <1>1, <1>2, <1>3, <1>4, <1>5 DEF Next
    <2> QED BY <2>1, <1>6
  <1> QED BY <1>7

-----------------------------------------------------------------------------
(* Abandoned tasks.                                                         *)

\* A live task created in an earlier process with abandonOnRestart is marked, or
\* waits for the first reservation pass, which only marks.
AbandonedAreKnown ==
  /\ \A t \in Tasks : ~Exists(task[t]) => ~task[t].abandonOnRestart
  /\ life = "down" => \A t \in Tasks : inv[t].mode = "none"
  /\ life # "down" =>
       \A t \in Tasks : Live(task[t]) /\ task[t].abandonOnRestart /\ t \notin fresh
                          => t \in abandoned \/ Marked(task[t])

LEMMA NextAbandoned ==
  ASSUME TypeOK, AbandonedAreKnown, AbandonedNeverRuns, [Next]_vars
  PROVE  AbandonedAreKnown' /\ AbandonedNeverRuns'
  <1>1. ASSUME NEW t \in Tasks, ~Exists(task[t])
        PROVE  task'[t].abandonOnRestart => t \in fresh' /\ Exists(task'[t])
    <2>1. CASE task'[t] = task[t]
      BY <1>1, <2>1 DEF AbandonedAreKnown
    <2>2. CASE Commit /\ task'[t].status = "pending"
      <3>1. t \in Created /\ Exists(task'[t])
        BY <1>1, <2>2 DEF Created, Changed, Exists
      <3> QED BY <2>2, <3>1 DEF Commit, Observe
    <2>3. Born(t)
      BY <1>1, NextBirths
    <2> QED BY <2>1, <2>2, <2>3, NewTaskFields DEF Born
  <1>2. ASSUME NEW t \in Tasks, Exists(task[t])
        PROVE  /\ task'[t].abandonOnRestart = task[t].abandonOnRestart
               /\ Kept(task[t], task'[t])
    <2>1. PICK S \in Staged(task) : AllKept(S, task')
      BY NextShape DEF Shape
    <2> QED BY <1>2, <2>1, StagedKept, NextMoves DEF AllKept, Moves
  <1>3. \A t \in Tasks : ~Exists(task'[t]) => ~task'[t].abandonOnRestart
    BY <1>1, <1>2 DEF Kept, AbandonedAreKnown
  <1>4. CASE Forget /\ (life' = "down" \/ Open)
    <2>1. \A t \in Tasks : inv'[t].mode = "none"
      BY <1>4 DEF Forget, NoInvocation
    <2>2. CASE Open
      <3>1. \A t \in Tasks : Live(task'[t]) => Live(task[t])
        BY <2>2 DEF Open, Recovered, Live
      <3>2. \A t \in Tasks : Live(task'[t]) /\ task'[t].abandonOnRestart => t \in abandoned'
        BY <1>2, <2>2, <3>1 DEF Open, Abandoned, Live, Exists
      <3> QED BY <1>3, <2>1, <3>2 DEF AbandonedAreKnown, AbandonedNeverRuns
    <2> QED BY <1>3, <1>4, <2>1, <2>2 DEF AbandonedAreKnown, AbandonedNeverRuns
  <1>5. CASE /\ (life' = "down") <=> (life = "down")
             /\ fresh \subseteq fresh'
             /\ abandoned' = abandoned \/ AbandonPass
    <2>1. ASSUME NEW t \in Tasks, task'[t].abandonOnRestart, t \notin fresh'
          PROVE  /\ Exists(task[t]) /\ task[t].abandonOnRestart /\ t \notin fresh
                 /\ Kept(task[t], task'[t]) /\ inv[t].mode # "run"
      BY <1>1, <1>2, <1>5, <2>1 DEF AbandonedNeverRuns
    <2>2. ASSUME NEW t \in Tasks, task'[t].abandonOnRestart, t \notin fresh',
                 Live(task'[t]), life' # "down"
          PROVE  t \in abandoned' \/ Marked(task'[t])
      <3>1. Live(task[t]) /\ (t \in abandoned \/ Marked(task[t]))
        BY <1>5, <2>1, <2>2 DEF Kept, AbandonedAreKnown
      <3>2. CASE Marked(task[t])
        BY <2>1, <2>2, <3>2 DEF Kept
      <3>3. CASE t \in abandoned /\ ~Marked(task[t]) /\ AbandonPass
        <4>1. task'[t] = WithAbortMark(task[t], "restart") /\ task[t] \in TaskRecord
          BY <3>1, <3>3 DEF AbandonPass, TypeOK
        <4> QED BY <4>1, MarkFields DEF Marked
      <3> QED BY <1>5, <3>1, <3>2, <3>3
    <2>3. ASSUME NEW t \in Tasks, task'[t].abandonOnRestart, t \notin fresh', inv'[t].mode = "run"
          PROVE  FALSE
      <3>1. ReservePass /\ inv'[t] = NewInvocation(t) /\ inv'[t] # inv[t]
        BY <2>1, <2>3, NextInvocations
      <3>2. ~Marked(task[t])
        BY <2>3, <3>1 DEF NewInvocation, NoInvocation
      <3>3. t \in Candidates
        BY <3>1, ReserveActs
      <3>4. abandoned = {} /\ life # "down" /\ Live(task[t])
        BY <3>1, <3>3 DEF ReservePass, Candidates
      <3> QED BY <2>1, <2>3, <3>2, <3>4 DEF AbandonedAreKnown
    <2>4. ASSUME life' = "down", NEW t \in Tasks PROVE inv'[t].mode = "none"
      <3>1. ~ReservePass
        BY <1>5, <2>4 DEF ReservePass
      <3> QED BY <1>5, <2>4, <3>1, NextInvocations DEF AbandonedAreKnown
    <2> QED BY <1>3, <2>2, <2>3, <2>4 DEF AbandonedAreKnown, AbandonedNeverRuns
  <1> QED BY <1>4, <1>5, NextMemory

\* A task created with abandonOnRestart never runs a phase in a later process:
\* the first reservation pass after open only marks (scheduler.ts #reserve).
THEOREM AbandonedTasksNeverRun == Spec => []AbandonedNeverRuns
  <1>1. Init => AbandonedAreKnown /\ AbandonedNeverRuns
    BY DEF Init, AbandonedAreKnown, AbandonedNeverRuns, Absent, Exists, NoInvocation
  <1>2. /\ TypeOK /\ AbandonedAreKnown /\ AbandonedNeverRuns /\ [Next]_vars
        => AbandonedAreKnown' /\ AbandonedNeverRuns'
    BY NextAbandoned
  <1> QED BY <1>1, <1>2, TypeCorrect, PTL DEF Spec

\* Orphaned is only said of what has ended.
OrphansHaveEnded == \A t \in Tasks : task[t].outcome = "orphaned" => task[t].status = "terminal"

\* A task abandoned after a restart waits for its definition: only a request by
\* a host orphans it, or one that reached it from an owner and replaced its
\* mark (scheduler.ts #reserve, abort() with keepRestart).
THEOREM AbandonedTasksWait == Spec => AbandonedWaitsForDefinition
  <1>1. Init => OrphansHaveEnded
    BY DEF Init, OrphansHaveEnded, Absent
  <1>2. ASSUME TypeOK, OrphansHaveEnded, [Next]_vars, NEW t \in Tasks, task'[t].outcome = "orphaned"
        PROVE  /\ task'[t].status = "terminal"
               /\ task[t].abort = "restart" /\ Live(task[t]) => requests' # requests
    <2>1. CASE ~Exists(task[t])
      <3>1. Born(t)
        BY <1>2, <2>1, NextBirths
      <3> QED BY <1>2, <2>1, <3>1, NewTaskFields DEF Born, OrphansHaveEnded, Live, Exists
    <2>2. CASE Exists(task[t]) /\ task[t].outcome = "orphaned"
      <3>1. task[t].status = "terminal"
        BY <1>2, <2>2 DEF OrphansHaveEnded
      <3>2. PICK S \in Staged(task) : AllKept(S, task')
        BY <1>2, NextShape DEF Shape
      <3>3. task'[t] = task[t]
        BY <1>2, <2>2, <3>1, <3>2, StagedKept DEF AllKept, Kept
      <3> QED BY <3>1, <3>3 DEF Live
    <2>3. CASE Exists(task[t]) /\ task[t].outcome # "orphaned"
      BY <1>2, <2>3, NextMoves DEF Moves
    <2> QED BY <2>1, <2>2, <2>3
  <1>3. TypeOK /\ OrphansHaveEnded /\ [Next]_vars => OrphansHaveEnded'
    BY <1>2 DEF OrphansHaveEnded
  <1>4. TypeOK /\ OrphansHaveEnded /\ [Next]_vars =>
          [\A t \in Tasks :
             /\ task[t].abort = "restart" /\ Live(task[t]) /\ task'[t].outcome = "orphaned"
             => requests' # requests]_vars
    BY <1>2
  <1> QED BY <1>1, <1>3, <1>4, TypeCorrect, PTL DEF Spec, AbandonedWaitsForDefinition

-----------------------------------------------------------------------------
(* Definitions.                                                             *)

\* A running handler belongs to the version its task has.
RunsItsVersion ==
  \A t \in Tasks : inv[t].mode = "run" =>
    Exists(task[t]) /\ inv[t].def.version = task[t].version

LEMMA NextVersions ==
  ASSUME TypeOK, RunsItsVersion, [Next]_vars
  PROVE  /\ RunsItsVersion'
         /\ \A t \in Tasks : Exists(task[t]) => task'[t].version >= task[t].version
  <1>1. ASSUME NEW t \in Tasks, Exists(task[t]) PROVE task'[t].version >= task[t].version
    <2>1. task[t].version \in Nat /\ task'[t].version \in Nat
      BY NextTyped DEF TypeOK, TaskRecord
    <2> QED BY <1>1, <2>1, NextMoves DEF Moves
  <1>2. ASSUME NEW t \in Tasks, inv'[t].mode = "run"
        PROVE  Exists(task'[t]) /\ inv'[t].def.version = task'[t].version
    <2>1. PICK S \in Staged(task) : AllKept(S, task')
      BY NextShape DEF Shape
    <2>2. Exists(task[t]) => Exists(task'[t])
      BY <2>1, StagedKept DEF AllKept, Kept
    <2>3. CASE inv'[t].mode = inv[t].mode /\ inv'[t].def = inv[t].def
      BY <1>2, <2>2, <2>3, NextMoves DEF RunsItsVersion, Moves
    <2>4. CASE ReservePass /\ inv'[t] = NewInvocation(t) /\ inv'[t] # inv[t]
      <3>1. /\ task'[t] = [Running(task[t], task[t].checkpoint)
                             EXCEPT !.version = registry[task[t].kind].version]
            /\ t \in Candidates
        BY <2>4, ReserveActs
      <3>2. task'[t].version = registry[task[t].kind].version
        <4>1. Running(task[t], task[t].checkpoint) \in TaskRecord
          BY RunningTyped DEF TypeOK, TaskRecord
        <4> QED BY <3>1, <4>1 DEF TaskRecord
      <3>3. inv'[t].def = registry[task[t].kind]
        BY <1>2, <2>4 DEF NewInvocation, NoInvocation
      <3> QED BY <2>2, <3>1, <3>2, <3>3 DEF Candidates, Live, Exists
    <2> QED BY <1>2, <2>3, <2>4, NextInvocations
  <1> QED BY <1>1, <1>2 DEF RunsItsVersion

\* A stored task is never taken by a definition older than its record, whatever
\* is registered, replaced or migrated meanwhile (scheduler.ts #fit, #resolve).
THEOREM VersionsNeverGoBack == Spec => VersionNeverGoesBack
  <1>1. Init => RunsItsVersion
    BY DEF Init, RunsItsVersion, NoInvocation
  <1>2. TypeOK /\ RunsItsVersion /\ [Next]_vars => RunsItsVersion'
    BY NextVersions
  <1>3. TypeOK /\ RunsItsVersion /\ [Next]_vars =>
          [\A t \in Tasks : Exists(task[t]) =>
             /\ task'[t].version >= task[t].version
             /\ inv'[t].mode = "run" => inv'[t].def.version = task'[t].version]_vars
    BY NextVersions DEF RunsItsVersion
  <1> QED BY <1>1, <1>2, <1>3, TypeCorrect, PTL DEF Spec, VersionNeverGoesBack

-----------------------------------------------------------------------------
(* The wait-for graph.                                                      *)

ClosedIn(T, Z) == Z \subseteq Tasks /\ \A u \in Z : WaitEdges(T, u) \subseteq Z
Acyclic(T) == \A t \in Tasks : t \notin WaitReach(T, WaitEdges(T, t))

LEMMA EdgesAreTasks ==
  ASSUME NEW T \in TaskMap, NEW t \in Tasks PROVE WaitEdges(T, t) \subseteq Tasks
  BY DEF WaitEdges, OwnedLive, Below, TaskMap, TaskRecord

\* WaitReach is the least closed set around what it starts from.
LEMMA ReachIsClosed ==
  ASSUME NEW T \in TaskMap, NEW S \in SUBSET Tasks
  PROVE  S \subseteq WaitReach(T, S) /\ ClosedIn(T, WaitReach(T, S))
  <1> DEFINE edges == [u \in Tasks |-> WaitEdges(T, u)]
  <1>1. WaitReach(T, S) = {v \in Tasks : \A Z \in SUBSET Tasks :
          (S \subseteq Z /\ \A u \in Z : edges[u] \subseteq Z) => v \in Z}
    BY DEF WaitReach
  <1>2. \A u \in Tasks : edges[u] = WaitEdges(T, u) /\ edges[u] \subseteq Tasks
    BY EdgesAreTasks
  <1> HIDE DEF edges
  <1>3. S \subseteq WaitReach(T, S)
    BY <1>1
  <1>4. ASSUME NEW u \in WaitReach(T, S), NEW v \in edges[u] PROVE v \in WaitReach(T, S)
    BY <1>1, <1>2
  <1> QED BY <1>1, <1>2, <1>3, <1>4 DEF ClosedIn

LEMMA ReachIsLeast ==
  ASSUME NEW T, NEW S, NEW Z, ClosedIn(T, Z), S \subseteq Z
  PROVE  WaitReach(T, S) \subseteq Z
  BY DEF WaitReach, ClosedIn

\* A closed set around what t waits for, without t, shows t on no cycle.
LEMMA NoCycleAt ==
  ASSUME NEW T, NEW t \in Tasks, NEW Z, ClosedIn(T, Z), WaitEdges(T, t) \subseteq Z, t \notin Z
  PROVE  t \notin WaitReach(T, WaitEdges(T, t))
  BY ReachIsLeast

\* A graph that loses edges stays acyclic.
LEMMA AcyclicShrinks ==
  ASSUME NEW T \in TaskMap, NEW T2, Acyclic(T),
         \A u \in Tasks : WaitEdges(T2, u) \subseteq WaitEdges(T, u)
  PROVE  Acyclic(T2)
  <1> SUFFICES ASSUME NEW t \in Tasks PROVE t \notin WaitReach(T2, WaitEdges(T2, t))
    BY DEF Acyclic
  <1> DEFINE Z == WaitReach(T, WaitEdges(T, t))
  <1>1. WaitEdges(T, t) \subseteq Z /\ ClosedIn(T, Z) /\ t \notin Z
    BY EdgesAreTasks, ReachIsClosed DEF Acyclic
  <1> HIDE DEF Z
  <1>2. ClosedIn(T2, Z) /\ WaitEdges(T2, t) \subseteq Z
    BY <1>1 DEF ClosedIn
  <1> QED BY <1>1, <1>2, NoCycleAt

\* So does one that gets a task which waits for nothing.
LEMMA AcyclicGrows ==
  ASSUME NEW T \in TaskMap, NEW T2, Acyclic(T), NEW i \in Tasks, WaitEdges(T2, i) = {},
         \A u \in Tasks \ {i} : WaitEdges(T2, u) \subseteq WaitEdges(T, u) \cup {i}
  PROVE  Acyclic(T2)
  <1> SUFFICES ASSUME NEW t \in Tasks PROVE t \notin WaitReach(T2, WaitEdges(T2, t))
    BY DEF Acyclic
  <1>1. CASE t = i
    <2>1. ClosedIn(T2, {})
      BY DEF ClosedIn
    <2> QED BY <1>1, <2>1, NoCycleAt
  <1>2. CASE t # i
    <2> DEFINE R == WaitReach(T, WaitEdges(T, t))
    <2>1. WaitEdges(T, t) \subseteq R /\ ClosedIn(T, R) /\ t \notin R
      BY EdgesAreTasks, ReachIsClosed DEF Acyclic
    <2> HIDE DEF R
    <2>2. ClosedIn(T2, R \cup {i}) /\ WaitEdges(T2, t) \subseteq R \cup {i}
      BY <1>2, <2>1 DEF ClosedIn
    <2> QED BY <1>2, <2>1, <2>2, NoCycleAt
  <1> QED BY <1>1, <1>2

\* And so does one in which t gets new edges, to tasks from which t is not
\* reached: the check of #validateWait.
LEMMA AcyclicWaits ==
  ASSUME NEW T \in TaskMap, NEW T2, Acyclic(T), NEW t \in Tasks, NEW on \in SUBSET Tasks,
         t \notin WaitReach(T, on),
         \A u \in Tasks \ {t} : WaitEdges(T2, u) \subseteq WaitEdges(T, u),
         WaitEdges(T2, t) \subseteq WaitEdges(T, t) \cup on
  PROVE  Acyclic(T2)
  <1> SUFFICES ASSUME NEW x \in Tasks PROVE x \notin WaitReach(T2, WaitEdges(T2, x))
    BY DEF Acyclic
  <1> DEFINE R == WaitReach(T, WaitEdges(T, x))
             N == WaitReach(T, on)
  <1>1. WaitEdges(T, x) \subseteq R /\ ClosedIn(T, R) /\ x \notin R
    BY EdgesAreTasks, ReachIsClosed DEF Acyclic
  <1>2. on \subseteq N /\ ClosedIn(T, N) /\ t \notin N
    BY ReachIsClosed
  <1>3. x \in N => R \subseteq N
    BY <1>2, ReachIsLeast DEF ClosedIn
  <1> HIDE DEF R, N
  <1>4. CASE x # t /\ t \notin R
    <2>1. ClosedIn(T2, R) /\ WaitEdges(T2, x) \subseteq R
      BY <1>1, <1>4 DEF ClosedIn
    <2> QED BY <1>1, <2>1, NoCycleAt
  <1>5. CASE x = t \/ t \in R
    <2>1. x \notin N
      BY <1>2, <1>3, <1>5
    <2>2. ClosedIn(T2, R \cup N)
      <3>1. ASSUME NEW u \in R \cup N PROVE WaitEdges(T2, u) \subseteq R \cup N
        BY <1>1, <1>2, <3>1 DEF ClosedIn
      <3> QED BY <1>1, <1>2, <3>1 DEF ClosedIn
    <2>3. WaitEdges(T2, x) \subseteq R \cup N
      BY <1>1, <1>2
    <2> QED BY <1>1, <2>1, <2>2, <2>3, NoCycleAt
  <1> QED BY <1>4, <1>5

\* A record that does not start to wait keeps its edges or loses some.
LEMMA EdgesShrink ==
  ASSUME NEW T \in TaskMap, NEW T2, AllKept(T, T2), NEW u \in Tasks,
         T2[u].status = "waiting" => T[u].status = "waiting" /\ T2[u].on = T[u].on
  PROVE  WaitEdges(T2, u) \subseteq WaitEdges(T, u)
  <1>1. OwnedLive(T2, u) \subseteq OwnedLive(T, u)
    BY OwnedLiveShrinks
  <1>2. (Live(T2[u]) => Live(T[u])) /\ (Marked(T[u]) => Marked(T2[u]))
    BY DEF AllKept, Kept
  <1> QED BY <1>1, <1>2 DEF WaitEdges

\* Creating a task adds one that owns nothing and waits for nothing.
LEMMA StagedAcyclic ==
  ASSUME TypeOK, Tree, Acyclic(task), NEW S \in Staged(task) PROVE Acyclic(S)
  <1>1. CASE S = task
    BY <1>1
  <1>2. CASE \E i \in NextIds(task), x \in Creatable(task) :
               S = [task EXCEPT ![i] = NewTask(task, x)]
    <2>1. PICK i \in NextIds(task), x \in Creatable(task) :
            S = [task EXCEPT ![i] = NewTask(task, x)]
      BY <1>2
    <2>2. i \in Tasks /\ ~Exists(task[i])
      BY <2>1 DEF NextIds
    <2>3. S[i].status = "pending" /\ \A u \in Tasks \ {i} : S[u] = task[u]
      BY <2>1, <2>2, NewTaskFields DEF TypeOK
    <2>4. ASSUME NEW u \in Tasks PROVE i \notin S[u].owners
      <3>1. TreeOf(S, convOwner)
        BY StagedTree
      <3>2. CASE u = i
        BY <3>1, <3>2 DEF TreeOf
      <3>3. CASE u # i /\ ~Exists(task[u])
        BY <2>3, <3>1, <3>3 DEF TreeOf
      <3>4. CASE u # i /\ Exists(task[u])
        BY <2>2, <2>3, <3>1, <3>4 DEF TreeOf, Tree
      <3> QED BY <3>2, <3>3, <3>4
    <2>5. WaitEdges(S, i) = {}
      BY <2>3, <2>4 DEF WaitEdges, OwnedLive, Below
    <2>6. ASSUME NEW u \in Tasks \ {i}
          PROVE  WaitEdges(S, u) \subseteq WaitEdges(task, u) \cup {i}
      <3>1. ASSUME NEW v \in OwnedLive(S, u), v # i PROVE v \in OwnedLive(task, u)
        <4>1. v \in Tasks /\ S[v] = task[v] /\ task[v].owners \subseteq Tasks
          BY <2>3, <3>1 DEF OwnedLive, Below, TypeOK, TaskRecord
        <4>2. \A b \in task[v].owners : S[b] = task[b]
          BY <2>3, <2>4, <4>1
        <4> QED BY <3>1, <4>1, <4>2 DEF OwnedLive, Below
      <3>2. S[u] = task[u]
        BY <2>3
      <3> QED BY <3>1, <3>2 DEF WaitEdges
    <2>7. task \in TaskMap
      BY DEF TypeOK, TaskMap
    <2> QED BY <2>2, <2>5, <2>6, <2>7, AcyclicGrows
  <1> QED BY <1>1, <1>2, StagedAddsOne

\* A wait that passes #validateWait closes no cycle: its live members that t
\* does not own do not reach t, those it owns are below it, and the others wait
\* for nothing.
LEMMA WaitAcyclic ==
  ASSUME TypeOK, Tree, Acyclic(task), NEW t \in Tasks, Wait(t) PROVE Acyclic(task')
  <1>1. PICK S \in Staged(task), c \in Checkpoints, on \in SUBSET Tasks,
             policy \in {"allSettled", "failFast"} :
          /\ WaitValid(S, t, on, policy)
          /\ task' = [S EXCEPT ![t] = Waiting(S[t], c, on, policy)]
    <2>1. PICK S \in HandlerStaged, c \in Checkpoints, on \in WaitSets, policy \in Policies :
            /\ WaitValid(S, t, on, policy)
            /\ HandlerCommit([S EXCEPT ![t] = Waiting(S[t], c, on, policy)])
      BY DEF Wait
    <2>2. S \in Staged(task)
      BY <2>1 DEF HandlerStaged, Staged
    <2>3. on \in SUBSET Tasks /\ policy \in {"allSettled", "failFast"}
      BY DataAssumption
    <2>4. task' = [S EXCEPT ![t] = Waiting(S[t], c, on, policy)]
      BY <2>1 DEF HandlerCommit
    <2> QED BY <2>1, <2>2, <2>3, <2>4
  <1>2. S \in TaskMap /\ S[t] \in TaskRecord /\ TreeOf(S, convOwner) /\ Acyclic(S)
    BY StagedTyped, StagedTree, StagedAcyclic DEF TaskMap
  <1>3. S[t].status = "running" /\ Live(S[t])
    <2>1. task[t].status = "running"
      BY DEF Wait, Gated
    <2> QED BY <2>1, StagedKept DEF Exists, Live
  <1>4. task'[t] = Waiting(S[t], c, on, policy) /\ \A u \in Tasks \ {t} : task'[u] = S[u]
    BY <1>1, <1>2 DEF TaskMap
  <1>5. AllKept(S, task')
    BY <1>2, <1>3, <1>4, WaitingKept, KeptReflexive DEF AllKept
  <1>6. \A u \in Tasks \ {t} : WaitEdges(task', u) \subseteq WaitEdges(S, u)
    BY <1>2, <1>4, <1>5, EdgesShrink
  <1>7. WaitEdges(task', t) \subseteq WaitEdges(S, t) \cup on
    <2>1. task'[t].on = on
      BY <1>2, <1>4, WaitingFields
    <2>2. OwnedLive(task', t) \subseteq OwnedLive(S, t)
      BY <1>2, <1>5, OwnedLiveShrinks
    <2> QED BY <1>3, <2>1, <2>2 DEF WaitEdges
  <1>8. t \notin WaitReach(S, on)
    <2> DEFINE others == {u \in on : Live(S[u]) /\ S[u].owner # t}
               R == WaitReach(S, WaitEdges(S, t))
               N == WaitReach(S, others)
               dead == {u \in on : ~Live(S[u])}
    <2>1. others \subseteq N /\ ClosedIn(S, N) /\ t \notin N
      BY <1>1, <1>2, ReachIsClosed DEF WaitValid
    <2>2. WaitEdges(S, t) \subseteq R /\ ClosedIn(S, R) /\ t \notin R
      BY <1>2, EdgesAreTasks, ReachIsClosed DEF Acyclic
    <2>3. ASSUME NEW u \in on, Live(S[u]), S[u].owner = t PROVE u \in WaitEdges(S, t)
      <3>1. S[u].owner # NoTask /\ u \in Tasks
        BY <2>3
      <3>2. u \in Below(S, t) /\ ~S[u].background
        BY <1>2, <2>3, <3>1, ChildIsBelow
      <3> QED BY <1>3, <2>3, <3>1, <3>2 DEF WaitEdges, OwnedLive
    <2> HIDE DEF R, N
    <2>4. on \subseteq R \cup N \cup dead /\ t \notin R \cup N \cup dead
      BY <1>3, <2>1, <2>2, <2>3
    <2>5. ClosedIn(S, R \cup N \cup dead)
      <3>1. \A u \in dead : WaitEdges(S, u) = {}
        BY DEF WaitEdges
      <3> QED BY <2>1, <2>2, <3>1 DEF ClosedIn
    <2> QED BY <2>4, <2>5, ReachIsLeast
  <1> QED BY <1>2, <1>6, <1>7, <1>8, AcyclicWaits

LEMMA NextAcyclic ==
  ASSUME TypeOK, Tree, Acyclic(task), [Next]_vars PROVE Acyclic(task')
  <1>1. CASE \E t \in Tasks : Wait(t)
    BY <1>1, WaitAcyclic
  <1>2. CASE ~\E t \in Tasks : Wait(t)
    <2>1. PICK S \in Staged(task) : AllKept(S, task')
      BY NextShape DEF Shape
    <2>2. S \in TaskMap /\ Acyclic(S)
      BY StagedTyped, StagedAcyclic
    <2>3. ASSUME NEW u \in Tasks, task'[u].status = "waiting"
          PROVE  S[u].status = "waiting" /\ task'[u].on = S[u].on
      <3>1. Exists(task[u])
        <4>1. SUFFICES ASSUME ~Exists(task[u]) PROVE FALSE
          OBVIOUS
        <4>2. Born(u)
          BY <4>1, NextBirths
        <4> QED BY <2>3, <4>1, <4>2, NewTaskFields DEF Born, Exists
      <3> QED BY <1>2, <2>3, <3>1, StagedKept, NextMoves DEF Moves
    <2>4. \A u \in Tasks : WaitEdges(task', u) \subseteq WaitEdges(S, u)
      BY <2>1, <2>2, <2>3, EdgesShrink
    <2> QED BY <2>2, <2>4, AcyclicShrinks
  <1> QED BY <1>1, <1>2

\* "Invariant: the wait-for graph is acyclic" (scheduler.ts:1477), whatever
\* handlers wait on and create, and whatever ends, is marked or recovered.
THEOREM WaitGraphStaysAcyclic == Spec => []WaitGraphIsAcyclic
  <1>1. Init => Tree /\ Acyclic(task)
    <2> SUFFICES ASSUME Init PROVE Tree /\ Acyclic(task)
      OBVIOUS
    <2>1. Tree
      BY BoundsAssumption DEF Init, Tree, TreeOf, Absent, Exists, Marked
    <2>2. \A t \in Tasks : WaitEdges(task, t) = {}
      BY DEF Init, WaitEdges, Absent, Live
    <2>3. ClosedIn(task, {})
      BY DEF ClosedIn
    <2> QED BY <2>1, <2>2, <2>3, NoCycleAt DEF Acyclic
  <1>2. TypeOK /\ Tree /\ Acyclic(task) /\ [Next]_vars => Tree' /\ Acyclic(task)'
    BY NextTree, NextAcyclic
  <1>3. Acyclic(task) => WaitGraphIsAcyclic
    BY DEF Acyclic, WaitGraphIsAcyclic
  <1> QED BY <1>1, <1>2, <1>3, TypeCorrect, PTL DEF Spec

-----------------------------------------------------------------------------
(* The nearest of some owners.                                              *)

\* A set of naturals has a least member.
LEMMA LeastNatural ==
  ASSUME NEW S \in SUBSET Nat, S # {}
  PROVE  \E x \in S : \A y \in S : x <= y
  <1> DEFINE R == OpToRel(<, Nat)
  <1>1. IsWellFoundedOn(R, Nat)
    BY NatLessThanWellFounded
  <1>2. \A x, y \in Nat : x < y => <<x, y>> \in R
    BY DEF OpToRel
  <1> HIDE DEF R
  <1>3. PICK x \in S : \A y \in S : ~ (<<y, x>> \in R)
    BY <1>1, WFMin
  <1>4. ASSUME NEW y \in S PROVE x <= y
    <2>1. ~(<<y, x>> \in R)
      BY <1>3
    <2>2. ~(y < x)
      BY <1>2, <2>1
    <2> QED BY <2>2
  <1> QED BY <1>4

\* A set of tasks has a last one.
LEMMA LastTask ==
  ASSUME NEW S \in SUBSET Tasks, S # {}
  PROVE  \E x \in S : \A y \in S : y <= x
  <1> DEFINE D == {MaxTasks - x : x \in S}
  <1>1. \A x \in S : MaxTasks - x \in Nat
    BY BoundsAssumption
  <1>2. D \in SUBSET Nat /\ D # {}
    BY <1>1, Zenon
  <1>3. PICK d \in D : \A e \in D : d <= e
    BY <1>2, LeastNatural
  <1>4. PICK x \in S : d = MaxTasks - x
    BY <1>3, Zenon
  <1>5. ASSUME NEW y \in S PROVE y <= x
    <2>1. MaxTasks - y \in D
      BY Zenon
    <2>2. MaxTasks - x <= MaxTasks - y
      BY <1>3, <1>4, <2>1, Zenon
    <2> QED BY <2>2, BoundsAssumption
  <1> QED BY <1>5

\* Of some tasks, one has none of the others below it.
LEMMA NearestExists ==
  ASSUME NEW T, \A u \in Tasks : \A a \in T[u].owners : a < u, NEW S \in SUBSET Tasks, S # {}
  PROVE  Nearest(T, S) # {}
  <1>1. PICK a \in S : \A b \in S : b <= a
    BY LastTask
  <1>2. \A b \in Below(T, a) : b \in Tasks /\ a < b
    BY DEF Below
  <1>3. ASSUME NEW b \in S, b \in Below(T, a) PROVE FALSE
    <2>1. b <= a /\ a < b /\ a \in Int /\ b \in Int
      BY <1>1, <1>2, <1>3
    <2> QED BY <2>1
  <1> QED BY <1>3 DEF Nearest

-----------------------------------------------------------------------------
(* What a step keeps of the tree.                                           *)

\* What a step keeps of every task that exists.
LEMMA NextKeeps ==
  ASSUME TypeOK, [Next]_vars, NEW t \in Tasks, Exists(task[t])
  PROVE  Kept(task[t], task'[t])
  <1>1. PICK S \in Staged(task) : AllKept(S, task')
    BY NextShape DEF Shape
  <1> QED BY <1>1, StagedKept DEF AllKept

\* The owners of a task that exists do, and stay its owners.
LEMMA OwnersExist ==
  ASSUME TypeOK, Tree, NEW u \in Tasks, Exists(task[u]), NEW b \in task[u].owners
  PROVE  b \in Tasks /\ Exists(task[b])
  <1>1. b \in Tasks
    BY DEF TypeOK, TaskRecord
  <1> QED BY <1>1 DEF Tree, TreeOf

LEMMA BelowStays ==
  ASSUME TypeOK, Tree, [Next]_vars, NEW u \in Tasks, Exists(task[u]), NEW t \in Tasks
  PROVE  /\ u \in Below(task', t) <=> u \in Below(task, t)
         /\ u \in Below(task, t) => Exists(task[t])
  <1>1. \A b \in Tasks : Exists(task[b]) =>
          task'[b].owners = task[b].owners /\ task'[b].background = task[b].background
    BY NextKeeps DEF Kept
  <1>2. \A b \in task[u].owners : b \in Tasks /\ Exists(task[b])
    BY OwnersExist
  <1> QED BY <1>1, <1>2 DEF Below

\* A task that was live is terminal when it is live no more.
LEMMA NotLiveEnded ==
  ASSUME TypeOK, [Next]_vars, NEW u \in Tasks, Live(task[u]), ~Live(task'[u])
  PROVE  u \in Ended
  <1>1. Exists(task[u]) /\ task[u].status # "terminal"
    BY DEF Live, Exists
  <1>2. Exists(task'[u])
    BY <1>1, NextKeeps DEF Kept
  <1> QED BY <1>1, <1>2 DEF Ended, Changed, Live, Exists

\* A task whose last live work below ends is freed by it.
LEMMA LastEndFrees ==
  ASSUME TypeOK, Tree, [Next]_vars, NEW t \in Tasks, Live(task'[t]),
         OwnedLive(task, t) # {}, OwnedLive(task', t) = {}
  PROVE  t \in Freed /\ Ended # {}
  <1>1. PICK u \in Tasks : u \in Below(task, t) /\ Live(task[u]) /\ ~task[u].background
    BY DEF OwnedLive, Below
  <1>2. Exists(task[u])
    BY <1>1 DEF Live, Exists
  <1>3. u \in Below(task', t) /\ ~task'[u].background
    BY <1>1, <1>2, BelowStays, NextKeeps DEF Kept
  <1>4. ~Live(task'[u])
    BY <1>3 DEF OwnedLive
  <1>5. u \in Ended
    BY <1>1, <1>4, NotLiveEnded
  <1> DEFINE S == {a \in Tasks : Live(task'[a]) /\ u \in Below(task', a)}
  <1>6. t \in S
    BY <1>3
  <1>7. ASSUME NEW a \in S, a \in Below(task', t) PROVE FALSE
    <2>1. ~task'[a].background
      BY <1>3, <1>7 DEF Below
    <2> QED BY <1>7, <2>1 DEF OwnedLive
  <1>8. t \in NearestLiveAbove(task', u)
    BY <1>3, <1>6, <1>7 DEF NearestLiveAbove, Nearest
  <1> QED BY <1>5, <1>8 DEF Freed

-----------------------------------------------------------------------------
(* The commit listener hears of every commit.                               *)

Quiet == UNCHANGED <<task, finalizeChecks, failFastChecks, reconcile, reconciles>>
Heard ==
  /\ reconciles' = reconciles
  /\ \E due \in BOOLEAN : \E run : Observe(run, finalizeChecks, failFastChecks, due)

LEMMA NextListens ==
  ASSUME TypeOK, [Next]_vars, InSession'
  PROVE  Open \/ (InSession /\ (Quiet \/ Heard \/ ReconcileBegin \/ ReconcileCommit))
  <1> DEFINE Goes == Open \/ (InSession /\ (Quiet \/ Heard \/ ReconcileBegin \/ ReconcileCommit))
  <1>1. ASSUME Commit PROVE Goes
    <2>1. InSession /\ reconciles' = reconciles
      BY <1>1 DEF Commit, InSession, passes
    <2>2. FALSE \in BOOLEAN /\ Observe(runnable, finalizeChecks, failFastChecks, FALSE)
      BY <1>1 DEF Commit
    <2> QED BY <2>1, <2>2 DEF Heard
  <1>2. Host => Goes
    <2>1. Register => Goes
      BY DEF Register, InSession, Quiet, durable, wakeups, passes
    <2>2. CreateConversation => Goes
      BY DEF CreateConversation, InSession, Quiet, memory, wakeups, passes
    <2> HIDE DEF Goes
    <2> QED BY <1>1, <2>1, <2>2 DEF Host, CreateTask, HostAbort, Abort, AbortConversation
  <1>3. Passes => Goes
    <2>1. ReconcileBegin \/ ReconcileCommit => Goes
      BY DEF ReconcileBegin, ReconcileCommit
    <2>2. DrainBegin => Goes
      BY DEF DrainBegin, InSession, Quiet, durable, wakeups
    <2>3. AbandonPass => Goes
      BY DEF AbandonPass, InSession, Heard
    <2>4. ASSUME ReservePass PROVE Goes
      <3>1. \E run : Observe(run, finalizeChecks, failFastChecks, HeldBack # {})
        BY <2>4 DEF ReservePass
      <3>2. (HeldBack # {}) \in BOOLEAN
        OBVIOUS
      <3>3. InSession /\ reconciles' = reconciles
        BY <2>4 DEF ReservePass, InSession
      <3> QED BY <3>1, <3>2, <3>3 DEF Heard
    <2> HIDE DEF Goes
    <2> QED BY <2>1, <2>2, <2>3, <2>4 DEF Passes
  <1>4. Process => Goes
    <2>1. Resume => Goes
      BY DEF Resume, InSession, Quiet, durable, wakeups, passes
    <2>2. ~Crash /\ ~Close /\ ~Join
      BY DEF Crash, Close, Join, Down, InSession
    <2> QED BY <2>1, <2>2 DEF Process
  <1>5. ASSUME NEW t \in Tasks, Handler(t) PROVE Goes
    <2> HIDE DEF Goes
    <2> QED BY <1>1, <1>5 DEF Handler, Progress, Finish, Wait, HandlerCommit, AbortOwned, Abort
  <1>6. ASSUME NEW t \in Tasks, Step(t) PROVE Goes
    <2>1. ASSUME NEW run, NEW due \in BOOLEAN, Observe(run, finalizeChecks, failFastChecks, due),
                 UNCHANGED <<life, passes>>, life = "enabled"
          PROVE  Goes
      BY <2>1 DEF Heard, InSession, passes
    <2>2. FALSE \in BOOLEAN /\ (task[t].status = "running" /\ ~Marked(task[t])) \in BOOLEAN
      OBVIOUS
    <2>3. StepEnd(t) => Goes
      <3> HIDE DEF Goes
      <3> QED BY <2>1, <2>2 DEF StepEnd, AtStep
    <2>4. life = "enabled" /\ Fault(t) => Goes
      <3> HIDE DEF Goes
      <3> QED BY <2>1, <2>2 DEF Fault
    <2>5. StepHandOver(t) => Goes
      <3> HIDE DEF Goes
      <3> QED BY <2>1, <2>2 DEF StepHandOver, GoesOn, AtStep
    <2>6. StepContinue(t) => Goes
      BY DEF StepContinue, GoesOn, AtStep, InSession, Quiet, durable, wakeups, passes
    <2>7. AbortStep(t) => Goes
      <3> HIDE DEF Goes
      <3> QED BY <2>1, <2>2, <2>4 DEF AbortStep, AtStep
    <2>8. StepFault(t) => Goes
      <3> HIDE DEF Goes
      <3> QED BY <2>4 DEF StepFault, GoesOn, AtStep
    <2> HIDE DEF Goes
    <2> QED BY <1>6, <2>3, <2>5, <2>6, <2>7, <2>8 DEF Step
  <1>7. UNCHANGED vars => Goes
    BY DEF vars, durable, memory, wakeups, passes, InSession, Quiet
  <1>8. Goes
    <2> HIDE DEF Goes
    <2>1. CASE Next
      BY <1>2, <1>3, <1>4, <1>5, <1>6, <2>1 DEF Next
    <2> QED BY <1>7, <2>1
  <1> QED BY <1>8

\* A pass that is due, or queued, comes; the pass of a queued one is its commit.
LEMMA PassStillComes ==
  ASSUME TypeOK, ReconcileComes, Quiet \/ Heard \/ ReconcileBegin PROVE ReconcileComes'
  <1>1. CASE Quiet
    BY <1>1 DEF Quiet, ReconcileComes
  <1>2. CASE Heard
    BY <1>2 DEF Heard, Observe, ReconcileComes
  <1>3. CASE ReconcileBegin
    BY <1>3 DEF ReconcileBegin, ReconcileComes, TypeOK
  <1> QED BY <1>1, <1>2, <1>3

\* What is due after a commit makes a pass come.
LEMMA DueComes ==
  ASSUME NEW run, NEW final, NEW failFast, NEW due \in BOOLEAN,
         Observe(run, final, failFast, due), ReconcileDue
  PROVE  reconcile' /\ ReconcileComes'
  BY DEF Observe, ReconcileComes

\* What a reconcile commit does.
LEMMA ReconcileActs ==
  ASSUME TypeOK, ReconcileCommit
  PROVE  \E marked \in TaskMap, F \in SUBSET Tasks :
           /\ marked = WithMarks(Cascade(FALSE) \cup FailFastMarks(Head(reconciles)),
                                 Cascade(TRUE))
           /\ AllKept(task, marked) /\ \A u \in Tasks : marked[u].status = task[u].status
           /\ Finalized(marked, finalizeChecks, F)
           /\ \A u \in F : task'[u].status = "terminal"
           /\ \A u \in Tasks \ F : task'[u] = marked[u]
           /\ Observe(runnable, {}, failFastChecks, FALSE)
           /\ reconciles # <<>> /\ reconciles' = Tail(reconciles)
  <1> DEFINE marked == WithMarks(Cascade(FALSE) \cup FailFastMarks(Head(reconciles)),
                                 Cascade(TRUE))
  <1>1. PICK F \in SUBSET Tasks :
          /\ Finalized(marked, finalizeChecks, F)
          /\ task' = [t \in Tasks |-> IF t \in F THEN Terminal(marked[t], marked[t].outcome)
                                      ELSE marked[t]]
    BY DEF ReconcileCommit
  <1>2. /\ marked \in TaskMap /\ AllKept(task, marked)
        /\ \A u \in Tasks : marked[u].status = task[u].status
    BY CascadeMarksKept
  <1>3. /\ Observe(runnable, {}, failFastChecks, FALSE)
        /\ reconciles # <<>> /\ reconciles' = Tail(reconciles)
    <2>1. /\ Observe(runnable, {}, failFastChecks, FALSE)
          /\ Len(reconciles) > 0 /\ reconciles' = Tail(reconciles)
      BY DEF ReconcileCommit
    <2>2. reconciles # <<>>
      BY <2>1
    <2> QED BY <2>1, <2>2
  <1>4. marked = WithMarks(Cascade(FALSE) \cup FailFastMarks(Head(reconciles)), Cascade(TRUE))
    OBVIOUS
  <1> HIDE DEF marked
  <1>5. \A u \in Tasks \ F : task'[u] = marked[u]
    BY <1>1
  <1>6. \A u \in F : task'[u].status = "terminal"
    <2>1. \A u \in F : marked[u] \in TaskRecord
      BY <1>2 DEF TaskMap
    <2> QED BY <1>1, <2>1, TerminalFields
  <1> QED BY <1>1, <1>2, <1>3, <1>4, <1>5, <1>6

-----------------------------------------------------------------------------
(* Held outcomes.                                                           *)

\* A commit puts on the worklist every holder whose work it ended, and every new
\* one.
LEMMA HolderHeard ==
  ASSUME TypeOK, Tree, [Next]_vars, NEW run, NEW final, NEW failFast, NEW due \in BOOLEAN,
         Observe(run, final, failFast, due), NEW t \in Tasks,
         task'[t].status = "completing", OwnedLive(task', t) = {}
  PROVE  \/ task[t].status = "completing" /\ OwnedLive(task, t) = {}
         \/ t \in finalizeChecks' /\ ReconcileComes'
  <1>1. Live(task'[t]) /\ t \notin Ended
    BY DEF Live, Ended
  <1>2. CASE task[t].status # "completing"
    <2>1. t \in Changed /\ ReconcileDue
      BY <1>2 DEF Changed, ReconcileDue
    <2>2. t \in finalizeChecks'
      BY <1>1, <2>1 DEF Observe
    <2> QED BY <2>1, <2>2, DueComes
  <1>3. CASE OwnedLive(task, t) # {}
    <2>1. t \in Freed /\ ReconcileDue
      BY <1>1, <1>3, LastEndFrees DEF ReconcileDue
    <2>2. t \in finalizeChecks'
      BY <1>1, <2>1 DEF Observe
    <2> QED BY <2>1, <2>2, DueComes
  <1> QED BY <1>2, <1>3

LEMMA NextHeld ==
  ASSUME TypeOK, Tree, HeldOutcomeIsChecked, [Next]_vars
  PROVE  HeldOutcomeIsChecked'
  <1> SUFFICES ASSUME InSession', NEW t \in Tasks,
                      task'[t].status = "completing", OwnedLive(task', t) = {}
               PROVE  t \in finalizeChecks' /\ ReconcileComes'
    BY DEF HeldOutcomeIsChecked
  <1>1. CASE Open
    <2>1. task'[t] = Recovered(task[t]) /\ reconcile'
          /\ finalizeChecks' = {u \in Tasks : task[u].status = "completing"}
      BY <1>1 DEF Open
    <2>2. task[t].status = "completing"
      BY <2>1, PendingFields DEF Recovered, TypeOK
    <2> QED BY <2>1, <2>2 DEF ReconcileComes
  <1>2. ASSUME InSession, task[t].status = "completing", OwnedLive(task, t) = {}
        PROVE  t \in finalizeChecks /\ ReconcileComes
    BY <1>2 DEF HeldOutcomeIsChecked
  <1>3. CASE InSession /\ Quiet
    <2>1. task' = task /\ finalizeChecks' = finalizeChecks
      BY <1>3 DEF Quiet
    <2> QED BY <1>2, <1>3, <2>1, PassStillComes
  <1>4. CASE InSession /\ ReconcileBegin
    <2>1. task' = task /\ finalizeChecks' = finalizeChecks
      BY <1>4 DEF ReconcileBegin, durable
    <2> QED BY <1>2, <1>4, <2>1, PassStillComes
  <1>5. CASE InSession /\ Heard
    <2>1. PICK due \in BOOLEAN : \E run : Observe(run, finalizeChecks, failFastChecks, due)
      BY <1>5 DEF Heard
    <2>2. PICK run : Observe(run, finalizeChecks, failFastChecks, due)
      BY <2>1
    <2>3. CASE task[t].status = "completing" /\ OwnedLive(task, t) = {}
      <3>1. t \in finalizeChecks'
        BY <1>2, <1>5, <2>2, <2>3 DEF Observe, Ended
      <3> QED BY <1>2, <1>5, <2>3, <3>1, PassStillComes
    <2> QED BY <2>2, <2>3, HolderHeard
  <1>6. CASE InSession /\ ReconcileCommit
    <2>1. PICK marked \in TaskMap, F \in SUBSET Tasks :
            /\ AllKept(task, marked) /\ \A u \in Tasks : marked[u].status = task[u].status
            /\ Finalized(marked, finalizeChecks, F)
            /\ \A u \in F : task'[u].status = "terminal"
            /\ Observe(runnable, {}, failFastChecks, FALSE)
      BY <1>6, ReconcileActs
    <2>2. CASE task[t].status = "completing" /\ OwnedLive(task, t) = {}
      <3>1. task \in TaskMap
        BY DEF TypeOK, TaskMap
      <3>2. OwnedLive(marked, t) = {}
        BY <2>1, <2>2, <3>1, OwnedLiveShrinks
      <3>3. t \in F
        BY <1>2, <1>6, <2>1, <2>2, <3>2 DEF Finalized
      <3>4. task'[t].status = "terminal"
        BY <2>1, <3>3
      <3> QED BY <3>4
    <2> QED BY <2>1, <2>2, HolderHeard
  <1> QED BY <1>1, <1>3, <1>4, <1>5, <1>6, NextListens

\* No held outcome is forgotten: a `completing` task whose foreground work has
\* all ended is on the worklist of a pass that comes (scheduler.ts #finalize,
\* #release, #track).
THEOREM HeldOutcomesAreChecked == Spec => []HeldOutcomeIsChecked
  <1>1. Init => Tree /\ HeldOutcomeIsChecked
    BY BoundsAssumption
    DEF Init, Tree, TreeOf, HeldOutcomeIsChecked, Absent, Exists, Marked
  <1>2. TypeOK /\ Tree /\ HeldOutcomeIsChecked /\ [Next]_vars
        => Tree' /\ HeldOutcomeIsChecked'
    BY NextTree, NextHeld
  <1> QED BY <1>1, <1>2, TypeCorrect, PTL DEF Spec

-----------------------------------------------------------------------------
(* Cascades.                                                                *)

\* A live task below some intent has a nearest one, so a pass marks it.
LEMMA CascadeMarks ==
  ASSUME TypeOK, Tree, ReconcileCommit, NEW u \in Tasks, Live(task[u]), ~Marked(task[u]),
         StopsBelow(u)
  PROVE  Live(task'[u]) => Marked(task'[u])
  <1>1. PICK marked \in TaskMap, F \in SUBSET Tasks :
          /\ marked = WithMarks(Cascade(FALSE) \cup FailFastMarks(Head(reconciles)),
                                Cascade(TRUE))
          /\ \A v \in F : task'[v].status = "terminal"
          /\ \A v \in Tasks \ F : task'[v] = marked[v]
    BY ReconcileActs
  <1>2. CancellingOwner(task, u) # {}
    <2>1. {a \in Tasks : CancellationIntent(task[a]) /\ u \in Below(task, a)} # {}
      BY DEF StopsBelow, BelowCancelled
    <2> QED BY <2>1, NearestExists DEF CancellingOwner, Tree, TreeOf
  <1>3. u \in Cascade(FALSE) \cup Cascade(TRUE)
    <2>1. PICK o \in CancellingOwner(task, u) : TRUE
      BY <1>2
    <2>2. PassesRestart(task[o]) = TRUE \/ PassesRestart(task[o]) = FALSE
      BY DEF PassesRestart
    <2> QED BY <2>1, <2>2 DEF Cascade, StopsBelow
  <1>4. task[u] \in TaskRecord
    BY DEF TypeOK
  <1>5. Marked(marked[u])
    <2>1. Replaces("request", task[u]) /\ Replaces("restart", task[u])
      BY DEF Replaces, Marked
    <2>2. \/ marked[u] = WithAbortMark(task[u], "request")
          \/ marked[u] = WithAbortMark(task[u], "restart")
      BY <1>1, <1>3, <2>1 DEF WithMarks
    <2> QED BY <1>4, <2>2, MarkFields DEF Marked
  <1>6. CASE u \in F
    BY <1>1, <1>6 DEF Live
  <1>7. CASE u \notin F
    BY <1>1, <1>5, <1>7
  <1> QED BY <1>6, <1>7

\* A commit that brings unmarked work below an intent makes a pass come.
LEMMA CascadeHeard ==
  ASSUME TypeOK, Tree, [Next]_vars, NEW run, NEW final, NEW failFast, NEW due \in BOOLEAN,
         Observe(run, final, failFast, due), NEW u \in Tasks,
         Live(task'[u]), ~Marked(task'[u]), StopsBelow(u)'
  PROVE  \/ Live(task[u]) /\ ~Marked(task[u]) /\ StopsBelow(u)
         \/ ReconcileComes'
  <1>1. PICK a \in Tasks : CancellationIntent(task'[a]) /\ u \in Below(task', a)
    BY DEF StopsBelow, BelowCancelled
  <1>2. ~task'[u].background
    BY DEF StopsBelow
  <1>3. CASE ~Exists(task[u])
    <2>1. u \in Created /\ u \notin Ended
      BY <1>3 DEF Created, Changed, Ended, Live, Exists
    <2>2. BelowCancelled(task', u)
      BY <1>1 DEF BelowCancelled
    <2>3. ReconcileDue
      BY <1>2, <2>1, <2>2 DEF ReconcileDue, CascadeDue, Created
    <2> QED BY <2>3, DueComes
  <1>4. CASE Exists(task[u])
    <2>1. Kept(task[u], task'[u]) /\ u \in Below(task, a) /\ Exists(task[a])
      BY <1>1, <1>4, BelowStays, NextKeeps
    <2>2. Kept(task[a], task'[a])
      BY <2>1, NextKeeps
    <2>3. CASE CancellationIntent(task[a])
      BY <1>2, <2>1, <2>3 DEF Kept, StopsBelow, BelowCancelled
    <2>4. CASE ~CancellationIntent(task[a])
      <3>1. Live(task[a]) /\ ~Marked(task[a]) /\ ~FailedOutcome(task[a])
        BY <1>1, <2>2, <2>4 DEF CancellationIntent, Kept
      <3>2. a \notin Ended /\ Live(task'[a])
        BY <1>1 DEF Ended, CancellationIntent, Live
      <3>3. CASE Marked(task'[a])
        <4>1. a \in Changed
          BY <3>1, <3>3 DEF Changed
        <4> QED BY <3>1, <3>2, <3>3, <4>1, DueComes DEF ReconcileDue, CascadeDue
      <3>4. CASE FailedOutcome(task'[a])
        <4>1. task'[a].status = "completing" /\ task[a].status # "completing"
          BY <2>2, <3>1, <3>2, <3>4 DEF FailedOutcome, Live, Kept
        <4> QED BY <4>1, DueComes DEF ReconcileDue, Changed
      <3> QED BY <1>1, <3>3, <3>4 DEF CancellationIntent
    <2> QED BY <2>3, <2>4
  <1> QED BY <1>3, <1>4

LEMMA NextCascade ==
  ASSUME TypeOK, Tree, CascadeComes, [Next]_vars PROVE CascadeComes'
  <1> SUFFICES ASSUME InSession', NEW u \in Tasks,
                      Live(task'[u]), ~Marked(task'[u]), StopsBelow(u)'
               PROVE  ReconcileComes'
    BY DEF CascadeComes
  <1>1. CASE Open
    BY <1>1 DEF Open, ReconcileComes
  <1>2. ASSUME InSession, Live(task[u]), ~Marked(task[u]), StopsBelow(u) PROVE ReconcileComes
    BY <1>2 DEF CascadeComes
  <1>3. CASE InSession /\ (Quiet \/ ReconcileBegin)
    <2>1. task' = task
      BY <1>3 DEF Quiet, ReconcileBegin, durable
    <2>2. Live(task[u]) /\ ~Marked(task[u]) /\ StopsBelow(u)
      BY <2>1 DEF StopsBelow
    <2> QED BY <1>2, <1>3, <2>2, PassStillComes
  <1>4. CASE InSession /\ Heard
    <2>1. PICK due \in BOOLEAN : \E run : Observe(run, finalizeChecks, failFastChecks, due)
      BY <1>4 DEF Heard
    <2> QED BY <1>2, <1>4, <2>1, CascadeHeard, PassStillComes
  <1>5. CASE InSession /\ ReconcileCommit
    <2>1. Observe(runnable, {}, failFastChecks, FALSE)
      BY <1>5 DEF ReconcileCommit
    <2> QED BY <1>5, <2>1, CascadeHeard, CascadeMarks
  <1> QED BY <1>1, <1>3, <1>4, <1>5, NextListens

\* No cascade is forgotten: unmarked foreground work below an owner with
\* cancellation intent has a reconcile pass coming that marks it, also after a
\* crash between the owner's mark and its cascade (scheduler.ts #observe).
THEOREM CascadesCome == Spec => []CascadeComes
  <1>1. Init => Tree /\ CascadeComes
    BY BoundsAssumption
    DEF Init, Tree, TreeOf, CascadeComes, Absent, Exists, Live, Marked
  <1>2. TypeOK /\ Tree /\ CascadeComes /\ [Next]_vars => Tree' /\ CascadeComes'
    BY NextTree, NextCascade
  <1> QED BY <1>1, <1>2, TypeCorrect, PTL DEF Spec

-----------------------------------------------------------------------------
(* failFast checks.                                                         *)

\* Waits name tasks that exist.
WaitsExist ==
  \A w \in Tasks : task[w].status = "waiting" => \A m \in task[w].on : m \in Tasks /\ Exists(task[m])

LEMMA NextWaitsExist ==
  ASSUME TypeOK, WaitsExist, [Next]_vars PROVE WaitsExist'
  <1> SUFFICES ASSUME NEW w \in Tasks, task'[w].status = "waiting", NEW m \in task'[w].on
               PROVE  m \in Tasks /\ Exists(task'[m])
    BY DEF WaitsExist
  <1>1. Exists(task[w])
    <2>1. SUFFICES ASSUME ~Exists(task[w]) PROVE FALSE
      OBVIOUS
    <2>2. Born(w)
      BY <2>1, NextBirths
    <2> QED BY <2>1, <2>2, NewTaskFields DEF Born, Exists
  <1>2. CASE task[w].status = "waiting" /\ task'[w].on = task[w].on
    <2>1. m \in Tasks /\ Exists(task[m])
      BY <1>2 DEF WaitsExist
    <2> QED BY <2>1, NextKeeps DEF Kept
  <1>3. CASE Wait(w)
    <2>1. PICK S \in HandlerStaged, c \in Checkpoints, on \in WaitSets, policy \in Policies :
            /\ WaitValid(S, w, on, policy)
            /\ HandlerCommit([S EXCEPT ![w] = Waiting(S[w], c, on, policy)])
      BY <1>3 DEF Wait
    <2>2. S \in TaskMap /\ S[w] \in TaskRecord
      <3>1. S \in Staged(task)
        BY <2>1 DEF HandlerStaged, Staged
      <3> QED BY <3>1, StagedTyped DEF TaskMap
    <2>3. on \in SUBSET Tasks /\ policy \in {"allSettled", "failFast"}
      BY DataAssumption
    <2>4. task'[w] = Waiting(S[w], c, on, policy) /\ \A u \in Tasks \ {w} : task'[u] = S[u]
      BY <2>1, <2>2 DEF HandlerCommit, TaskMap
    <2>5. m \in on
      BY <2>2, <2>3, <2>4, WaitingFields
    <2>6. CASE m = w
      BY <2>6 DEF Exists
    <2>7. CASE m # w
      <3>1. m \in Tasks /\ Exists(S[m])
        BY <2>1, <2>3, <2>5 DEF WaitValid
      <3> QED BY <2>4, <2>7, <3>1
    <2> QED BY <2>6, <2>7
  <1> QED BY <1>1, <1>2, <1>3, NextMoves DEF Moves

\* A failFast wait that has a failed member and a live one nobody marked.
FailFastDue(w) ==
  /\ task[w].status = "waiting" /\ task[w].policy = "failFast"
  /\ \E m \in task[w].on : FailedOutcome(task[m])
  /\ \E m \in task[w].on : Live(task[m]) /\ ~FailedOutcome(task[m]) /\ ~Marked(task[m])

FailFastChecked(w) ==
  \/ w \in failFastChecks /\ reconcile
  \/ \E i \in 1..Len(reconciles) : w \in reconciles[i]

\* A commit that makes a check due puts the wait on the list of a pass.
LEMMA FailFastHeard ==
  ASSUME TypeOK, WaitsExist, [Next]_vars, NEW run, NEW final, NEW failFast, NEW due \in BOOLEAN,
         Observe(run, final, failFast, due), NEW w \in Tasks, FailFastDue(w)'
  PROVE  \/ FailFastDue(w)
         \/ w \in failFastChecks' /\ reconcile'
  <1>1. Exists(task[w])
    <2>1. SUFFICES ASSUME ~Exists(task[w]) PROVE FALSE
      OBVIOUS
    <2>2. Born(w)
      BY <2>1, NextBirths
    <2> QED BY <2>1, <2>2, NewTaskFields DEF Born, Exists, FailFastDue
  <1>2. CASE task[w].status # "waiting"
    <2>1. w \in NewFailFastWaits
      BY <1>2 DEF NewFailFastWaits, FailFastDue, Changed
    <2>2. ReconcileDue
      BY <2>1 DEF ReconcileDue
    <2> QED BY <2>1, <2>2, DueComes DEF Observe
  <1>3. CASE task[w].status = "waiting"
    <2>1. task'[w].on = task[w].on /\ task'[w].policy = task[w].policy
      <3>1. ~Wait(w) \/ task[w].status = "running"
        BY DEF Wait, Gated
      <3> QED BY <1>1, <1>3, <3>1, NextMoves DEF Moves, FailFastDue
    <2>2. \A m \in task[w].on : m \in Tasks /\ Exists(task[m]) /\ Kept(task[m], task'[m])
      BY <1>3, NextKeeps DEF WaitsExist
    <2>3. PICK m \in task[w].on : FailedOutcome(task'[m])
      BY <2>1 DEF FailFastDue
    <2>4. CASE FailedOutcome(task[m])
      <3>1. PICK v \in task[w].on : Live(task'[v]) /\ ~FailedOutcome(task'[v]) /\ ~Marked(task'[v])
        BY <2>1 DEF FailFastDue
      <3>2. Live(task[v]) /\ ~FailedOutcome(task[v]) /\ ~Marked(task[v])
        BY <2>2, <3>1 DEF Kept, FailedOutcome, Decided, Live
      <3> QED BY <1>3, <2>1, <2>4, <3>2 DEF FailFastDue
    <2>5. CASE ~FailedOutcome(task[m])
      <3>1. m \in NewlyFailed
        BY <2>2, <2>3, <2>5 DEF NewlyFailed, Changed
      <3>2. w \in FailFastWaitersOf(NewlyFailed)
        BY <2>1, <3>1 DEF FailFastWaitersOf, WaitersOf, FailFastDue
      <3>3. ReconcileDue
        BY <3>2 DEF ReconcileDue
      <3> QED BY <3>2, <3>3, DueComes DEF Observe
    <2> QED BY <2>4, <2>5
  <1> QED BY <1>2, <1>3

\* The pass that takes a check marks every other live member of the wait.
LEMMA FailFastMarksAll ==
  ASSUME TypeOK, WaitsExist, [Next]_vars, ReconcileCommit, NEW w \in Head(reconciles), w \in Tasks,
         FailFastDue(w)
  PROVE  ~FailFastDue(w)'
  <1> SUFFICES ASSUME FailFastDue(w)' PROVE FALSE
    OBVIOUS
  <1>1. task'[w].on = task[w].on
    <2>1. ~Wait(w) /\ Exists(task[w])
      BY DEF Wait, Gated, FailFastDue, Exists
    <2> QED BY <2>1, NextMoves DEF Moves, FailFastDue
  <1>2. PICK v \in task[w].on : Live(task'[v]) /\ ~FailedOutcome(task'[v]) /\ ~Marked(task'[v])
    BY <1>1 DEF FailFastDue
  <1>3. v \in Tasks /\ Exists(task[v]) /\ Kept(task[v], task'[v])
    BY NextKeeps DEF WaitsExist, FailFastDue
  <1>4. Live(task[v]) /\ ~FailedOutcome(task[v]) /\ ~Marked(task[v])
    BY <1>2, <1>3 DEF Kept, FailedOutcome, Decided, Live
  <1>5. v \in FailFastMarks(Head(reconciles))
    BY <1>4 DEF FailFastMarks, FailFastDue
  <1>6. PICK marked \in TaskMap, F \in SUBSET Tasks :
          /\ marked = WithMarks(Cascade(FALSE) \cup FailFastMarks(Head(reconciles)),
                                Cascade(TRUE))
          /\ \A u \in F : task'[u].status = "terminal"
          /\ \A u \in Tasks \ F : task'[u] = marked[u]
    BY ReconcileActs
  <1>7. marked[v] = WithAbortMark(task[v], "request")
    BY <1>3, <1>4, <1>5, <1>6 DEF WithMarks, Replaces, Marked
  <1>8. v \notin F
    BY <1>2, <1>6 DEF Live
  <1>9. task'[v] = WithAbortMark(task[v], "request") /\ task[v] \in TaskRecord
    BY <1>3, <1>6, <1>7, <1>8 DEF TypeOK
  <1> QED BY <1>2, <1>9, MarkFields DEF Marked

LEMMA NextFailFast ==
  ASSUME TypeOK, WaitsExist, FailFastComes, [Next]_vars PROVE FailFastComes'
  <1> SUFFICES ASSUME InSession', NEW w \in Tasks, FailFastDue(w)' PROVE FailFastChecked(w)'
    BY DEF FailFastComes, FailFastDue, FailFastChecked
  <1>1. CASE Open
    <2>1. task'[w] = Recovered(task[w]) /\ reconcile'
          /\ failFastChecks' = {u \in Tasks : /\ task[u].status = "waiting"
                                              /\ task[u].policy = "failFast"}
      BY <1>1 DEF Open
    <2>2. task'[w] = task[w]
      BY <2>1, PendingFields DEF Recovered, FailFastDue, TypeOK
    <2> QED BY <2>1, <2>2 DEF FailFastDue, FailFastChecked
  <1>2. ASSUME InSession, FailFastDue(w) PROVE FailFastChecked(w)
    BY <1>2 DEF FailFastComes, FailFastDue, FailFastChecked
  <1>3. CASE InSession /\ Quiet
    <2>1. FailFastDue(w) /\ UNCHANGED <<failFastChecks, reconcile, reconciles>>
      BY <1>3 DEF Quiet, FailFastDue
    <2> QED BY <1>2, <1>3, <2>1 DEF FailFastChecked
  <1>4. CASE InSession /\ ReconcileBegin
    <2>1. FailFastDue(w)
      BY <1>4 DEF ReconcileBegin, durable, FailFastDue
    <2>2. reconciles' = Append(reconciles, failFastChecks) /\ reconciles \in Seq(SUBSET Tasks)
          /\ failFastChecks \in SUBSET Tasks
      BY <1>4 DEF ReconcileBegin, TypeOK
    <2>3. CASE w \in failFastChecks
      <3>1. /\ Len(reconciles') = Len(reconciles) + 1
            /\ reconciles'[Len(reconciles')] = failFastChecks /\ Len(reconciles) \in Nat
        BY <2>2
      <3> QED BY <2>3, <3>1 DEF FailFastChecked
    <2>4. CASE \E i \in 1..Len(reconciles) : w \in reconciles[i]
      <3>1. PICK i \in 1..Len(reconciles) : w \in reconciles[i]
        BY <2>4
      <3>2. i \in 1..Len(reconciles') /\ reconciles'[i] = reconciles[i]
        BY <2>2
      <3> QED BY <3>1, <3>2 DEF FailFastChecked
    <2> QED BY <1>2, <1>4, <2>1, <2>3, <2>4 DEF FailFastChecked
  <1>5. CASE InSession /\ Heard
    <2>1. PICK due \in BOOLEAN : \E run : Observe(run, finalizeChecks, failFastChecks, due)
      BY <1>5 DEF Heard
    <2>2. PICK run : Observe(run, finalizeChecks, failFastChecks, due)
      BY <2>1
    <2>3. CASE FailFastDue(w)
      <3>1. w \notin Ended
        BY DEF Ended, FailFastDue
      <3>2. w \in failFastChecks /\ reconcile => w \in failFastChecks' /\ reconcile'
        BY <2>2, <3>1 DEF Observe
      <3> QED BY <1>2, <1>5, <2>3, <3>2 DEF FailFastChecked, Heard
    <2> QED BY <2>2, <2>3, FailFastHeard DEF FailFastChecked
  <1>6. CASE InSession /\ ReconcileCommit
    <2>1. /\ Observe(runnable, {}, failFastChecks, FALSE)
          /\ reconciles # <<>> /\ reconciles' = Tail(reconciles)
      BY <1>6, ReconcileActs
    <2>2. CASE FailFastDue(w)
      <3>1. w \notin Ended /\ w \notin Head(reconciles)
        BY <1>6, <2>2, FailFastMarksAll DEF Ended, FailFastDue
      <3>2. w \in failFastChecks /\ reconcile => w \in failFastChecks' /\ reconcile'
        BY <2>1, <3>1 DEF Observe
      <3>3. ASSUME NEW i \in 1..Len(reconciles), w \in reconciles[i]
            PROVE  \E j \in 1..Len(reconciles') : w \in reconciles'[j]
        <4>1. reconciles \in Seq(SUBSET Tasks)
          BY DEF TypeOK
        <4>2. i # 1
          BY <2>1, <3>1, <3>3, <4>1
        <4>3. i - 1 \in 1..Len(reconciles') /\ reconciles'[i - 1] = reconciles[i]
          BY <2>1, <4>1, <4>2
        <4> QED BY <3>3, <4>3
      <3> QED BY <1>2, <1>6, <2>2, <3>2, <3>3 DEF FailFastChecked
    <2> QED BY <2>1, <2>2, FailFastHeard DEF FailFastChecked
  <1> QED BY <1>1, <1>3, <1>4, <1>5, <1>6, NextListens

\* No failFast check is forgotten: while a failFast wait has a failed member
\* and an unmarked live one, a pass that checks the wait comes (scheduler.ts
\* #observe, #reconcile).
THEOREM FailFastChecksCome == Spec => []FailFastComes
  <1>1. Init => WaitsExist /\ FailFastComes
    BY DEF Init, WaitsExist, FailFastComes, InSession, Absent
  <1>2. TypeOK /\ WaitsExist /\ FailFastComes /\ [Next]_vars => WaitsExist' /\ FailFastComes'
    BY NextWaitsExist, NextFailFast
  <1> QED BY <1>1, <1>2, TypeCorrect, PTL DEF Spec

-----------------------------------------------------------------------------
(* Tasks left running.                                                      *)

\* Nothing runs before scheduling is enabled.
Paused ==
  /\ life \in {"down", "open"} => \A t \in Tasks : inv[t].mode = "none"
  /\ life = "open" => \A t \in Tasks : task[t].status # "running"

\* What an owner's cancellation reaches stays so while it is live: the owner
\* cannot end before.
LEMMA StopsStays ==
  ASSUME TypeOK, Tree, [Next]_vars, NEW u \in Tasks, Live(task[u]), Live(task'[u]), StopsBelow(u)
  PROVE  StopsBelow(u)'
  <1>1. PICK a \in Tasks : CancellationIntent(task[a]) /\ u \in Below(task, a)
    BY DEF StopsBelow, BelowCancelled
  <1>2. Exists(task[u]) /\ Kept(task[u], task'[u])
    BY NextKeeps DEF Live, Exists
  <1>3. u \in Below(task', a) /\ Live(task[a]) /\ Kept(task[a], task'[a])
    BY <1>1, <1>2, BelowStays, NextKeeps DEF CancellationIntent
  <1>4. ~task'[u].background
    BY <1>2 DEF Kept, StopsBelow
  <1>5. Live(task'[a])
    <2>1. u \in OwnedLive(task', a)
      BY <1>3, <1>4 DEF OwnedLive
    <2>2. task'[a].status # "terminal"
      BY <1>3, <2>1, NextShape DEF EndsStep
    <2> QED BY <1>3, <2>2 DEF Kept, Live, Exists
  <1>6. CancellationIntent(task'[a])
    BY <1>1, <1>3, <1>5 DEF CancellationIntent, Kept, FailedOutcome, Decided, Live
  <1> QED BY <1>3, <1>4, <1>6 DEF StopsBelow, BelowCancelled

\* An invocation ends in a step of its own, or with the process.
LEMMA InvocationEnds ==
  ASSUME TypeOK, [Next]_vars, NEW t \in Tasks, inv[t].mode # "none", inv'[t].mode = "none"
  PROVE  (Forget /\ (life' = "down" \/ Open)) \/ (Step(t) /\ ~StepContinue(t))
  <1>1. inv' # inv
    OBVIOUS
  <1>2. ASSUME NEW u \in Tasks, Step(u), u # t PROVE FALSE
    <2>1. End(u) \/ StepContinue(u)
      BY <1>2 DEF Step, StepEnd, StepFault, StepHandOver, AbortStep, Fault
    <2> QED BY <1>2, <2>1 DEF End, StepContinue, TypeOK
  <1>3. ~StepContinue(t)
    BY DEF StepContinue, TypeOK, Invocation
  <1>4. ~ReservePass
    <2>1. NewInvocation(t).mode # "none"
      BY DEF NewInvocation, NoInvocation
    <2> QED BY <2>1, ReserveActs
  <1>5. Host => inv' = inv
    BY DEF Host, CreateTask, CreateConversation, Register, HostAbort, Abort,
           AbortConversation, Commit, memory
  <1>6. Passes => inv' = inv \/ ReservePass
    BY DEF Passes, ReconcileBegin, ReconcileCommit, DrainBegin, AbandonPass
  <1>7. Process => inv' = inv \/ (Forget /\ (life' = "down" \/ Open))
    BY DEF Process, Open, Resume, Crash, Close, Join, Down
  <1>8. \A u \in Tasks : Handler(u) => inv' = inv
    BY DEF Handler, Progress, Finish, Wait, AbortOwned, HandlerCommit, Abort, Commit
  <1>9. UNCHANGED vars => inv' = inv
    BY DEF vars, memory
  <1> QED BY <1>1, <1>2, <1>3, <1>4, <1>5, <1>6, <1>7, <1>8, <1>9 DEF Next

\* What the end of an invocation leaves running is to be aborted.
LEMMA EndLeaves ==
  ASSUME TypeOK, NEW t \in Tasks, Step(t), ~StepContinue(t), task'[t].status = "running"
  PROVE  task' = task /\ (Marked(task[t]) \/ StopsBelow(t))
  <1>1. task \in TaskMap /\ task[t] \in TaskRecord
    BY DEF TypeOK, TaskMap
  <1>2. ~Fault(t)
    <2>1. Settled(task, t, "faulted")[t].status \in {"terminal", "completing"}
      BY <1>1, SettledFields
    <2>2. Fault(t) => task' = Settled(task, t, "faulted")
      BY DEF Fault
    <2> QED BY <2>1, <2>2
  <1>3. ~StepHandOver(t)
    <2>1. StepHandOver(t) => task'[t] = Pending(task[t])
      BY <1>1 DEF StepHandOver, TaskMap
    <2> QED BY <1>1, <2>1, PendingFields
  <1>4. CASE StepEnd(t)
    BY <1>4 DEF StepEnd
  <1>5. CASE AbortStep(t)
    BY <1>2, <1>5 DEF AbortStep
  <1> QED BY <1>2, <1>3, <1>4, <1>5 DEF Step, StepFault

LEMMA NextPaused ==
  ASSUME TypeOK, Paused, [Next]_vars PROVE Paused'
  <1>1. CASE Forget /\ (life' = "down" \/ Open)
    <2>1. \A t \in Tasks : inv'[t].mode = "none"
      BY <1>1 DEF Forget, NoInvocation
    <2>2. Open => \A t \in Tasks : task'[t].status # "running"
      BY PendingFields DEF Open, Recovered, TypeOK
    <2> QED BY <1>1, <2>1, <2>2 DEF Paused
  <1>2. CASE ~(Forget /\ (life' = "down" \/ Open))
    <2>1. life' \in {"down", "open"} => life' = life
      <3>1. Host => life' = life
        BY DEF Host, CreateTask, CreateConversation, Register, HostAbort, Abort,
               AbortConversation, Commit, memory
      <3>2. Passes => life' = life
        BY DEF Passes, ReconcileBegin, ReconcileCommit, DrainBegin, AbandonPass, ReservePass
      <3>3. Process => life' \notin {"down", "open"}
        BY <1>2 DEF Process, Open, Resume, Crash, Close, Join, Down
      <3>4. \A u \in Tasks : Handler(u) => life' = life
        BY DEF Handler, Progress, Finish, Wait, AbortOwned, HandlerCommit, Abort, Commit
      <3>5. \A u \in Tasks : Step(u) => life' = life
        BY DEF Step, StepEnd, StepFault, StepHandOver, StepContinue, AbortStep, Fault
      <3>6. UNCHANGED vars => life' = life
        BY DEF vars, memory
      <3> QED BY <3>1, <3>2, <3>3, <3>4, <3>5, <3>6 DEF Next
    <2>2. ASSUME life' \in {"down", "open"}, NEW t \in Tasks
          PROVE  /\ inv'[t].mode = "none"
                 /\ life' = "open" => task'[t].status # "running"
      <3>1. inv[t].mode = "none" /\ life = life' /\ ~ReservePass
        BY <2>1, <2>2 DEF Paused, ReservePass
      <3>2. inv'[t].mode = "none"
        BY <3>1, NextInvocations
      <3>3. CASE Exists(task[t])
        BY <3>1, <3>2, <3>3, NextMoves DEF Moves, Paused
      <3>4. CASE ~Exists(task[t])
        <4>1. Born(t)
          BY <3>4, NextBirths
        <4> QED BY <3>2, <3>4, <4>1, NewTaskFields DEF Born, Exists
      <3> QED BY <3>2, <3>3, <3>4
    <2> QED BY <2>2 DEF Paused
  <1> QED BY <1>1, <1>2

LEMMA NextRunning ==
  ASSUME TypeOK, Tree, Paused, RunningIsInvoked, [Next]_vars PROVE RunningIsInvoked'
  <1> SUFFICES ASSUME NEW t \in Tasks, life' = "enabled", task'[t].status = "running",
                      inv'[t].mode = "none"
               PROVE  Marked(task'[t]) \/ StopsBelow(t)'
    BY DEF RunningIsInvoked
  <1>1. Exists(task[t])
    <2>1. SUFFICES ASSUME ~Exists(task[t]) PROVE FALSE
      OBVIOUS
    <2>2. Born(t)
      BY <2>1, NextBirths
    <2> QED BY <2>1, <2>2, NewTaskFields DEF Born, Exists
  <1>2. task[t].status = "running" /\ Kept(task[t], task'[t])
    BY <1>1, NextMoves, NextKeeps DEF Moves
  <1>3. Live(task[t]) /\ Live(task'[t])
    BY <1>2 DEF Live
  <1>4. SUFFICES Marked(task[t]) \/ StopsBelow(t)
    BY <1>2, <1>3, StopsStays DEF Kept
  <1>5. CASE inv[t].mode = "none"
    <2>1. life = "enabled"
      <3>1. life # "open"
        BY <1>2 DEF Paused
      <3>2. Open \/ InSession
        BY NextListens DEF InSession
      <3>3. ~Open
        BY DEF Open
      <3> QED BY <3>1, <3>2, <3>3 DEF InSession
    <2> QED BY <1>2, <1>5, <2>1 DEF RunningIsInvoked
  <1>6. CASE inv[t].mode # "none"
    <2>1. life' # "down" /\ ~Open
      BY DEF Open
    <2>2. Step(t) /\ ~StepContinue(t)
      BY <1>6, <2>1, InvocationEnds
    <2> QED BY <2>2, EndLeaves
  <1> QED BY <1>5, <1>6

\* While scheduling is enabled, a task left `running` without an invocation is
\* one whose abort is coming: every other end of an invocation wrote its state
\* (scheduler.ts #decide, #end).
THEOREM RunningTasksAreInvoked == Spec => []RunningIsInvoked
  <1> DEFINE IInv == Tree /\ Paused /\ RunningIsInvoked
  <1>1. Init => IInv
    <2>1. Init => Paused /\ RunningIsInvoked
      BY DEF Init, Paused, RunningIsInvoked, NoInvocation, Absent
    <2>2. Init => Tree
      BY BoundsAssumption DEF Init, Tree, TreeOf, Absent, Exists, Marked
    <2> QED BY <2>1, <2>2
  <1>2. IInv /\ TypeOK /\ [Next]_vars => IInv'
    BY NextTree, NextPaused, NextRunning
  <1>3. IInv => RunningIsInvoked
    OBVIOUS
  <1> QED BY <1>1, <1>2, <1>3, TypeCorrect, PTL DEF Spec

-----------------------------------------------------------------------------
(* Wakeups.                                                                 *)

\* A task that only waits for a reservation.
Waitless(t) ==
  Live(task[t]) /\ task[t].status # "completing" /\ WaitingOn(task, t) = {}
Idle(t) == Waitless(t) /\ inv[t].mode = "none"

\* What a reservation pass may leave behind.
Skippable(t) ==
  \/ ~Ready(t, {}) /\ task[t].abort # "request"
  \/ ~Marked(task[t]) /\ StopsBelow(t)

\* Idle tasks are candidates, also while scheduling is paused.
IdleAreListed == InSession => \A t \in Tasks : Idle(t) => t \in runnable

\* A commit lists every task it makes wait for nothing more.
LEMMA WakeHeard ==
  ASSUME TypeOK, Tree, [Next]_vars, NEW run, NEW final, NEW failFast, NEW due,
         Observe(run, final, failFast, due), NEW t \in Tasks, Waitless(t)'
  PROVE  \/ t \in runnable' /\ Changed # {}
         \/ task'[t] = task[t] /\ Waitless(t) /\ (t \in run => t \in runnable')
  <1>1. ~Decided(task'[t]) /\ Live(task'[t]) /\ task'[t].status # "completing"
    BY DEF Waitless, Decided, Live
  <1>2. CASE task'[t] # task[t]
    <2>1. t \in Changed
      BY <1>2 DEF Changed
    <2> QED BY <1>1, <2>1 DEF Observe
  <1>3. CASE task'[t] = task[t] /\ WaitingOn(task, t) = {}
    <2>1. t \in run => t \in runnable'
      BY <1>1 DEF Observe
    <2> QED BY <1>1, <1>3, <2>1 DEF Waitless
  <1>4. CASE task'[t] = task[t] /\ WaitingOn(task, t) # {}
    <2>1. WaitingOn(task', t) = {}
      BY DEF Waitless
    <2>2. CASE Marked(task[t])
      <3>1. OwnedLive(task, t) # {} /\ OwnedLive(task', t) = {}
        BY <1>4, <2>1, <2>2 DEF WaitingOn
      <3>2. t \in Freed /\ Ended # {}
        BY <1>1, <3>1, LastEndFrees
      <3> QED BY <1>1, <1>4, <2>2, <3>2 DEF Observe, Ended
    <2>3. CASE ~Marked(task[t])
      <3>1. task[t].status = "waiting"
        BY <1>4, <2>3 DEF WaitingOn
      <3>2. PICK u \in task[t].on : Live(task[u]) /\ ~Live(task'[u])
        BY <1>4, <2>1, <2>3, <3>1 DEF WaitingOn
      <3>3. u \in Tasks
        BY DEF TypeOK, TaskRecord
      <3>4. u \in Ended
        BY <3>2, <3>3, NotLiveEnded
      <3>5. t \in WaitersOf(Ended)
        BY <1>4, <3>1, <3>2, <3>4 DEF WaitersOf
      <3> QED BY <3>4, <3>5 DEF Observe, Ended
    <2> QED BY <2>2, <2>3
  <1> QED BY <1>2, <1>3, <1>4

\* The memory of failed migrations stays as it was for every live task.
Remembered == \A t \in Tasks : Live(task'[t]) => failedMigrations'[t] = failedMigrations[t]

\* A step that the scheduler's sets do not hear of.
Rests ==
  /\ UNCHANGED <<task, runnable>>
  /\ \A t \in Tasks : inv'[t].mode = inv[t].mode
  /\ \/ dirty' \/ reserving'
     \/ UNCHANGED <<life, registry, failedMigrations, dirty, reserving>>

\* A commit, or the end of an invocation: the listener hears of it.
Wakes ==
  \E run, final, failFast, due :
    /\ Observe(run, final, failFast, due)
    /\ \A t \in Tasks :
         \/ inv'[t] = inv[t] /\ (t \in runnable => t \in run)
         \/ Live(task[t]) => t \in run
    /\ Changed # {} => dirty'
    /\ dirty' \/ (UNCHANGED <<life, registry, inv, reserving, dirty>> /\ Remembered)

LEMMA ResolvedRemembers ==
  ASSUME TypeOK, NEW thrown, Resolved(thrown), \A t \in thrown : ~Live(task'[t])
  PROVE  Remembered
  BY DEF Remembered, Resolved, Live

LEMMA AbortRemembers ==
  ASSUME TypeOK, NEW u \in Tasks, NEW keepRestart \in BOOLEAN, Abort(u, keepRestart)
  PROVE  Remembered
  <1> DEFINE resolves == /\ inv[u].mode = "none" /\ task[u].status # "completing"
                         /\ OwnedLive(task, u) = {}
  <1>1. PICK thrown \in ThrownChoices(IF resolves THEN {u} ELSE {}) :
          /\ task' = IF resolves /\ ~Ready(u, thrown)
                     THEN Settled(task, u, "orphaned")
                     ELSE [task EXCEPT ![u] = WithAbortMark(@, "request")]
          /\ Resolved(thrown)
    BY DEF Abort
  <1>2. ASSUME NEW t \in thrown PROVE ~Live(task'[t])
    <2>1. t = u /\ resolves /\ Migrating(u)
      BY <1>1 DEF ThrownChoices
    <2>2. ~Fits(task[u], registry[task[u].kind])
      <3>1. registry[task[u].kind] \in Defs \cup {NoDef} /\ task[u].version \in Nat
        BY DEF TypeOK, TaskRecord
      <3> QED BY <2>1, <3>1, DefsAssumption DEF Migrating, Migrates, Fits
    <2>3. ~Ready(u, thrown)
      BY <1>2, <2>1, <2>2 DEF Ready
    <2>4. task \in TaskMap
      BY DEF TypeOK, TaskMap
    <2>5. Settled(task, u, "orphaned")[u].status = "terminal"
      BY <2>1, <2>4, SettledFields
    <2> QED BY <1>1, <2>1, <2>3, <2>5 DEF Live
  <1> QED BY <1>1, <1>2, ResolvedRemembers

LEMMA NextWakes ==
  ASSUME TypeOK, [Next]_vars, InSession'
  PROVE  Open \/ (InSession /\ (Rests \/ Wakes \/ ReservePass))
  <1> DEFINE Goes == Open \/ (InSession /\ (Rests \/ Wakes \/ ReservePass))
  <1>1. ASSUME Commit, Remembered PROVE Goes
    <2>1. /\ Observe(runnable, finalizeChecks, failFastChecks, FALSE)
          /\ dirty' = (dirty \/ Changed # {})
          /\ UNCHANGED <<life, registry, inv, reserving>>
      BY <1>1 DEF Commit, Kick, passes
    <2>2. InSession
      BY <2>1 DEF InSession
    <2>3. dirty' \/ dirty' = dirty
      BY <2>1 DEF TypeOK
    <2>4. Wakes
      BY <1>1, <2>1, <2>3 DEF Wakes
    <2> QED BY <2>2, <2>4
  <1>2. Host => Goes
    <2>1. Register => Goes
      BY DEF Register, InSession, Rests, durable, wakeups, passes
    <2>2. CreateConversation => Goes
      BY DEF CreateConversation, InSession, Rests, memory, wakeups, passes
    <2>3. CreateTask \/ (\E c \in Convs, b \in BackgroundChoices : AbortConversation(c, b)) => Goes
      <3>1. failedMigrations' = failedMigrations => Remembered
        BY DEF Remembered
      <3> HIDE DEF Goes
      <3> QED BY <1>1, <3>1 DEF CreateTask, AbortConversation
    <2>4. (\E u \in Tasks : HostAbort(u)) => Goes
      <3> HIDE DEF Goes
      <3>1. ASSUME NEW u \in Tasks, HostAbort(u) PROVE Commit /\ Remembered
        BY <3>1, AbortRemembers DEF HostAbort, Abort
      <3> QED BY <1>1, <3>1
    <2> HIDE DEF Goes
    <2> QED BY <2>1, <2>2, <2>3, <2>4 DEF Host
  <1>3. Passes => Goes
    <2>1. ReconcileBegin => Goes
      BY DEF ReconcileBegin, InSession, Rests, durable
    <2>2. DrainBegin => Goes
      BY DEF DrainBegin, InSession, Rests, durable, wakeups
    <2>3. AbandonPass => Goes
      <3>1. AbandonPass => dirty' /\ inv' = inv /\ life = "enabled"
        BY DEF AbandonPass, Kick
      <3>2. AbandonPass => Observe(runnable, finalizeChecks, failFastChecks, FALSE)
        BY DEF AbandonPass
      <3> QED BY <3>1, <3>2 DEF Wakes, InSession
    <2>4. ASSUME ReconcileCommit PROVE Goes
      <3>1. /\ Observe(runnable, {}, failFastChecks, FALSE)
            /\ dirty' = (dirty \/ Changed # {})
            /\ UNCHANGED <<life, registry, inv, reserving>> /\ InSession
        BY <2>4 DEF ReconcileCommit, Kick
      <3>2. dirty' \/ dirty' = dirty
        BY <3>1 DEF TypeOK
      <3>3. Remembered
        BY <2>4, ResolvedRemembers DEF ReconcileCommit
      <3> QED BY <3>1, <3>2, <3>3 DEF Wakes
    <2>5. ReservePass => Goes
      BY DEF ReservePass, InSession
    <2> HIDE DEF Goes
    <2> QED BY <2>1, <2>2, <2>3, <2>4, <2>5 DEF Passes
  <1>4. Process => Goes
    <2>1. Resume => Goes
      BY DEF Resume, InSession, Rests, durable, wakeups, passes
    <2>2. ~Crash /\ ~Close /\ ~Join
      BY DEF Crash, Close, Join, Down, InSession
    <2> QED BY <2>1, <2>2 DEF Process
  <1>5. ASSUME NEW t \in Tasks, Handler(t) PROVE Goes
    <2>1. ASSUME NEW T, HandlerCommit(T) PROVE Commit /\ Remembered
      BY <2>1, ResolvedRemembers DEF HandlerCommit
    <2>2. AbortOwned(t) => Commit /\ Remembered
      BY AbortRemembers DEF AbortOwned, Abort
    <2> HIDE DEF Goes
    <2> QED BY <1>1, <1>5, <2>1, <2>2 DEF Handler, Progress, Finish, Wait
  <1>6. ASSUME NEW t \in Tasks, Step(t) PROVE Goes
    <2>1. ASSUME life = "enabled", End(t),
                 NEW due, Observe(Released(t), finalizeChecks, failFastChecks, due)
          PROVE  Goes
      <3>1. dirty'
        BY <2>1 DEF End, Kick
      <3>2. \A u \in Tasks \ {t} : inv'[u] = inv[u]
        BY <2>1 DEF End, TypeOK
      <3>3. /\ \A u \in runnable : u \in Released(t)
            /\ Live(task[t]) => t \in Released(t)
        BY DEF Released
      <3>4. Wakes
        BY <2>1, <3>1, <3>2, <3>3 DEF Wakes
      <3> QED BY <2>1, <3>4 DEF InSession
    <2>2. StepContinue(t) => Goes
      <3>1. StepContinue(t) => \A u \in Tasks : inv'[u].mode = inv[u].mode
        BY DEF StepContinue, TypeOK, Invocation
      <3> QED BY <3>1 DEF StepContinue, GoesOn, AtStep, InSession, Rests, durable, wakeups, passes
    <2> HIDE DEF Goes
    <2>3. StepEnd(t) => Goes
      BY <2>1 DEF StepEnd, AtStep
    <2>4. life = "enabled" /\ Fault(t) => Goes
      BY <2>1 DEF Fault
    <2>5. StepHandOver(t) => Goes
      BY <2>1 DEF StepHandOver, GoesOn, AtStep
    <2>6. AbortStep(t) => Goes
      BY <2>1, <2>4 DEF AbortStep, AtStep
    <2>7. StepFault(t) => Goes
      BY <2>4 DEF StepFault, GoesOn, AtStep
    <2> QED BY <1>6, <2>2, <2>3, <2>5, <2>6, <2>7 DEF Step
  <1>7. UNCHANGED vars => Goes
    BY DEF vars, durable, memory, wakeups, passes, InSession, Rests
  <1>8. Goes
    <2> HIDE DEF Goes
    <2>1. CASE Next
      BY <1>2, <1>3, <1>4, <1>5, <1>6, <2>1 DEF Next
    <2> QED BY <1>7, <2>1
  <1> QED BY <1>8

\* What a reservation pass leaves of an idle task is listed, and skippable.
LEMMA ReserveLeaves ==
  ASSUME TypeOK, Tree, [Next]_vars, IdleAreListed, ReservePass, NEW t \in Tasks, Idle(t)'
  PROVE  t \in runnable' /\ (dirty' \/ Skippable(t)')
  <1>1. PICK thrown \in ThrownChoices(Candidates \ HeldBack) :
          LET reserved == {u \in Candidates \ HeldBack : Ready(u, thrown)}
              orphaned == {u \in Candidates \ HeldBack :
                             ~Ready(u, thrown) /\ Orphanable(task[u])} IN
          /\ task' = [u \in Tasks |->
               CASE u \in reserved -> [Running(task[u], task[u].checkpoint)
                                         EXCEPT !.version = registry[task[u].kind].version]
                 [] u \in orphaned -> Terminal(task[u], "orphaned")
                 [] OTHER -> task[u]]
          /\ inv' = [u \in Tasks |-> IF u \in reserved THEN NewInvocation(u) ELSE inv[u]]
          /\ Observe(Candidates \ reserved, finalizeChecks, failFastChecks, HeldBack # {})
          /\ Resolved(thrown)
    BY DEF ReservePass
  <1> DEFINE reserved == {u \in Candidates \ HeldBack : Ready(u, thrown)}
             orphaned == {u \in Candidates \ HeldBack : ~Ready(u, thrown) /\ Orphanable(task[u])}
  <1>2. dirty' = (dirty \/ Changed # {}) /\ registry' = registry /\ InSession
    BY DEF ReservePass, Kick, InSession
  <1>3. t \notin reserved /\ inv[t].mode = "none"
    <2>1. NewInvocation(t).mode # "none"
      BY DEF NewInvocation, NoInvocation
    <2> QED BY <1>1, <2>1 DEF Idle
  <1>4. CASE t \in runnable' /\ Changed # {}
    BY <1>2, <1>4
  <1>5. CASE task'[t] = task[t] /\ Waitless(t) /\ (t \in Candidates \ reserved => t \in runnable')
    <2>1. t \in Candidates
      BY <1>2, <1>3, <1>5 DEF IdleAreListed, Idle, Waitless, Candidates
    <2>2. SUFFICES ASSUME Changed = {} PROVE Skippable(t)'
      BY <1>2, <1>3, <1>5, <2>1
    <2>3. \A u \in Tasks : task'[u] = task[u]
      BY <2>2 DEF Changed
    <2>4. task' = task
      BY <1>1, <2>3 DEF TypeOK
    <2>5. CASE t \in HeldBack
      BY <2>4, <2>5 DEF HeldBack, Skippable, StopsBelow
    <2>6. CASE t \notin HeldBack
      <3>1. ~Ready(t, thrown)
        BY <1>3, <2>1, <2>6
      <3>2. t \notin orphaned
        <4>1. t \in orphaned => task'[t] = Terminal(task[t], "orphaned")
          BY <1>1
        <4>2. task[t] \in TaskRecord
          BY DEF TypeOK
        <4>3. task'[t].status # "terminal"
          BY DEF Idle, Waitless, Live
        <4> QED BY <4>1, <4>2, <4>3, TerminalFields
      <3>3. task[t].abort # "request"
        BY <2>1, <2>6, <3>1, <3>2 DEF Orphanable
      <3>4. ~Ready(t, {})'
        <4>1. failedMigrations'[t] = IF t \in thrown THEN registry[task[t].kind]
                                     ELSE failedMigrations[t]
          BY <1>1, <1>5 DEF Resolved, Waitless, Live
        <4>2. t \in thrown \/ ~Migrating(t)
          BY <3>1 DEF Ready
        <4>3. ~Migrating(t)'
          BY <1>2, <2>4, <4>1, <4>2 DEF Migrating, Migrates
        <4> QED BY <1>2, <2>4, <3>1, <4>3 DEF Ready
      <3> QED BY <2>4, <3>3, <3>4 DEF Skippable
    <2> QED BY <2>5, <2>6
  <1>6. \/ t \in runnable' /\ Changed # {}
        \/ task'[t] = task[t] /\ Waitless(t) /\ (t \in Candidates \ reserved => t \in runnable')
    <2>1. Observe(Candidates \ reserved, finalizeChecks, failFastChecks, HeldBack # {})
      BY <1>1
    <2>2. Waitless(t)'
      BY DEF Idle
    <2> HIDE DEF reserved
    <2> QED BY <2>1, <2>2, WakeHeard
  <1> QED BY <1>4, <1>5, <1>6

LEMMA NextIdle ==
  ASSUME TypeOK, Tree, IdleAreListed, [Next]_vars PROVE IdleAreListed'
  <1> SUFFICES ASSUME InSession', NEW t \in Tasks, Idle(t)' PROVE t \in runnable'
    BY DEF IdleAreListed
  <1>1. CASE Open
    <2>1. task'[t] = Recovered(task[t])
          /\ runnable' = {u \in Tasks : Live(task[u]) /\ task[u].status # "completing"}
      BY <1>1 DEF Open
    <2>2. Live(task[t]) /\ task[t].status # "completing"
      BY <2>1 DEF Recovered, Idle, Waitless, Live
    <2> QED BY <2>1, <2>2
  <1>2. CASE InSession /\ Rests
    <2>1. Idle(t) /\ runnable' = runnable
      BY <1>2 DEF Rests, Idle, Waitless
    <2> QED BY <1>2, <2>1 DEF IdleAreListed
  <1>3. CASE InSession /\ Wakes
    <2>1. PICK run, final, failFast, due :
            /\ Observe(run, final, failFast, due)
            /\ \/ inv'[t] = inv[t] /\ (t \in runnable => t \in run)
               \/ Live(task[t]) => t \in run
      BY <1>3 DEF Wakes
    <2>2. \/ t \in runnable'
          \/ Waitless(t) /\ (t \in run => t \in runnable')
      BY <2>1, WakeHeard DEF Idle
    <2>3. CASE Waitless(t) /\ (t \in run => t \in runnable')
      <3>1. inv'[t] = inv[t] => t \in runnable
        BY <1>3, <2>3 DEF IdleAreListed, Idle
      <3> QED BY <2>1, <2>3, <3>1 DEF Waitless
    <2> QED BY <2>2, <2>3
  <1>4. CASE ReservePass
    BY <1>4, ReserveLeaves
  <1> QED BY <1>1, <1>2, <1>3, <1>4, NextWakes

LEMMA NextWakeup ==
  ASSUME TypeOK, Tree, IdleAreListed, NoLostWakeup, [Next]_vars PROVE NoLostWakeup'
  <1> SUFFICES ASSUME life' = "enabled", NEW t \in Tasks, Idle(t)'
               PROVE  dirty' \/ reserving' \/ Skippable(t)'
    BY NextIdle DEF IdleAreListed, InSession, NoLostWakeup, Idle, Waitless, Skippable
  <1>1. InSession' /\ ~Open
    BY DEF Open, InSession
  <1>2. ASSUME life = "enabled", Idle(t) PROVE dirty \/ reserving \/ Skippable(t)
    BY <1>2 DEF NoLostWakeup, Idle, Waitless, Skippable
  <1>3. CASE Rests
    <2>1. Idle(t) /\ task' = task
      BY <1>3 DEF Rests, Idle, Waitless
    <2>2. CASE UNCHANGED <<life, registry, failedMigrations, dirty, reserving>>
      BY <1>2, <2>1, <2>2 DEF Skippable, StopsBelow, Ready, Migrating
    <2> QED BY <1>3, <2>2 DEF Rests
  <1>4. CASE Wakes
    <2>1. CASE dirty'
      BY <2>1
    <2>2. CASE ~dirty'
      <3>1. UNCHANGED <<life, registry, inv, reserving, dirty>> /\ Remembered /\ Changed = {}
        BY <1>4, <2>2 DEF Wakes
      <3>2. task' = task
        <4>1. \A u \in Tasks : task'[u] = task[u]
          BY <3>1 DEF Changed
        <4>2. TypeOK'
          BY NextTyped
        <4>3. task \in TaskMap /\ task' \in TaskMap
          BY <4>2 DEF TypeOK, TaskMap
        <4>4. task = [u \in Tasks |-> task[u]] /\ task' = [u \in Tasks |-> task'[u]]
          BY <4>3 DEF TaskMap
        <4> QED BY <4>1, <4>4, Zenon
      <3>3. Idle(t) /\ failedMigrations'[t] = failedMigrations[t]
        BY <3>1, <3>2 DEF Idle, Waitless, Remembered
      <3>4. Skippable(t) => Skippable(t)'
        BY <3>1, <3>2, <3>3 DEF Skippable, StopsBelow, Ready, Migrating
      <3> QED BY <1>2, <3>1, <3>3, <3>4
    <2> QED BY <2>1, <2>2
  <1>5. CASE ReservePass
    BY <1>5, ReserveLeaves
  <1> QED BY <1>1, <1>3, <1>4, <1>5, NextWakes

\* No wakeup is lost: a task that waits for nothing and has no invocation is a
\* candidate, and a reservation pass comes, unless the last pass left it
\* because no definition takes it or an owner's cascade is coming (scheduler.ts
\* #runnable, #kick, #drain, #end).
THEOREM NoWakeupIsLost == Spec => []NoLostWakeup
  <1> DEFINE IInv == Tree /\ IdleAreListed /\ NoLostWakeup
  <1>1. Init => IInv
    <2>1. Init => Tree
      BY BoundsAssumption DEF Init, Tree, TreeOf, Absent, Exists, Marked
    <2>2. Init => IdleAreListed /\ NoLostWakeup
      BY DEF Init, IdleAreListed, NoLostWakeup, InSession
    <2> QED BY <2>1, <2>2
  <1>2. IInv /\ TypeOK /\ [Next]_vars => IInv'
    BY NextTree, NextIdle, NextWakeup
  <1>3. IInv => NoLostWakeup
    OBVIOUS
  <1> QED BY <1>1, <1>2, <1>3, TypeCorrect, PTL DEF Spec

=============================================================================
