------------------------ MODULE Conversation_proofs ------------------------
(* Theorems about Conversation, for every value of its constants. *)
EXTENDS Conversation, FiniteSetTheorems, TLAPS

USE DEF Tasks, NoTask

-----------------------------------------------------------------------------
(* Records.  The fields of a task record are all that the steps need to      *)
(* know of its type.                                                         *)

IsRecord(r) ==
  DOMAIN r = {"kind", "status", "owner", "background", "marked", "phase", "compacted",
              "pending", "cut", "base", "placed"}

Shaped(T) == DOMAIN T = Tasks /\ \A t \in Tasks : IsRecord(T[t])

LEMMA NewRecords ==
  /\ IsRecord(Absent) /\ IsRecord(Generation)
  /\ Generation.kind = "generation" /\ Generation.status = "live" /\ Generation.phase = "prepare"
  /\ \A g : IsRecord(Tool(g)) /\ Tool(g).kind = "tool"
  /\ \A o, reason :
       /\ IsRecord(Compaction(o, reason))
       /\ Compaction(o, reason).kind = "compaction" /\ Compaction(o, reason).status = "live"
  <1>1. IsRecord(Absent)
    BY DEF IsRecord, Absent
  <1>2. /\ IsRecord(Generation)
        /\ Generation.kind = "generation" /\ Generation.status = "live"
        /\ Generation.phase = "prepare"
    BY DEF IsRecord, Absent, Generation
  <1>3. ASSUME NEW g PROVE IsRecord(Tool(g)) /\ Tool(g).kind = "tool"
    BY DEF IsRecord, Absent, Tool
  <1>4. ASSUME NEW o, NEW reason
        PROVE  /\ IsRecord(Compaction(o, reason))
               /\ Compaction(o, reason).kind = "compaction"
               /\ Compaction(o, reason).status = "live"
    BY DEF IsRecord, Absent, Compaction
  <1> QED BY <1>1, <1>2, <1>3, <1>4

LEMMA TerminatedRecord ==
  ASSUME NEW T, Shaped(T), NEW t \in Tasks, NEW status
  PROVE  /\ Shaped(Terminated(T, t, status))
         /\ Terminated(T, t, status)[t].kind = T[t].kind
         /\ Terminated(T, t, status)[t].status = status
         /\ \A u \in Tasks \ {t} : Terminated(T, t, status)[u] = T[u]
  BY DEF Shaped, IsRecord, Terminated, Absent

LEMMA WithTasksRecord ==
  ASSUME NEW T, Shaped(T), NEW S \in SUBSET Tasks, NEW r, IsRecord(r)
  PROVE  /\ Shaped(WithTasks(T, S, r))
         /\ \A t \in S : WithTasks(T, S, r)[t] = r
         /\ \A t \in Tasks \ S : WithTasks(T, S, r)[t] = T[t]
  BY DEF Shaped, WithTasks

LEMMA NextIdsFresh ==
  ASSUME NEW T, NEW n, NEW S \in NextIds(T, n)
  PROVE  S \in SUBSET Tasks /\ \A t \in S : T[t].status = "absent"
  BY DEF NextIds

LEMMA NextIdIsOne ==
  ASSUME NEW T, NEW S \in NextIds(T, 1)
  PROVE  \E g \in Tasks : S = {g} /\ T[g].status = "absent"
  <1>1. S \in SUBSET Tasks /\ Cardinality(S) = 1
    BY DEF NextIds
  <1>2. IsFiniteSet(S)
    <2>1. MaxTasks \in Nat
      BY BoundsAssumption
    <2>2. IsFiniteSet(Tasks)
      BY <2>1, FS_Interval
    <2> QED BY <1>1, <2>2, FS_Subset
  <1>3. PICK g : S = {g}
    BY <1>1, <1>2, FS_Singleton
  <1> QED BY <1>1, <1>3, NextIdsFresh

-----------------------------------------------------------------------------
(* Runs, generations and compactions.  GenerationIs(T, r): r is the only     *)
(* live generation among the tasks T, or there is none and r is NoTask.      *)

GenerationIs(T, r) ==
  /\ r \in Tasks \cup {NoTask}
  /\ \A t \in Tasks : (T[t].kind = "generation" /\ T[t].status = "live") <=> t = r

RunsInv ==
  /\ Shaped(task)
  /\ GenerationIs(task, run.task)
  /\ listed = Compactions(task)

\* Every task has the kind and the status it had.
SameKinds(T, U) ==
  \A t \in Tasks : U[t].kind = T[t].kind /\ U[t].status = T[t].status

LEMMA SameKindsKeep ==
  ASSUME NEW T, NEW U, SameKinds(T, U), NEW r
  PROVE  /\ GenerationIs(T, r) <=> GenerationIs(U, r)
         /\ Compactions(U) = Compactions(T)
  BY DEF SameKinds, GenerationIs, Compactions, Live

\* A commit that moves the checkpoint of one task on.
LEMMA MoveKeeps ==
  ASSUME NEW T, Shaped(T), NEW g \in Tasks, NEW r, IsRecord(r),
         r.kind = T[g].kind, r.status = T[g].status
  PROVE  Shaped([T EXCEPT ![g] = r]) /\ SameKinds(T, [T EXCEPT ![g] = r])
  BY DEF Shaped, SameKinds

LEMMA MarkAllKeeps ==
  ASSUME Shaped(task), NEW S, MarkAll(S)
  PROVE  Shaped(task') /\ SameKinds(task, task') /\ \A t \in Tasks : task'[t].phase = task[t].phase
  BY DEF Shaped, IsRecord, SameKinds, MarkAll

\* The end of task g.
LEMMA EndKeeps ==
  ASSUME NEW T, Shaped(T), NEW g \in Tasks, NEW status, status # "live", NEW r,
         GenerationIs(T, r)
  PROVE  /\ Shaped(Terminated(T, g, status))
         /\ GenerationIs(Terminated(T, g, status), IF r = g THEN NoTask ELSE r)
         /\ Compactions(Terminated(T, g, status)) = Compactions(T) \ {g}
  BY TerminatedRecord DEF GenerationIs, Compactions, Live

\* New tasks that are no generations.
LEMMA NewTasksKeep ==
  ASSUME NEW T, Shaped(T), NEW n, NEW S \in NextIds(T, n), NEW r, IsRecord(r),
         r.kind # "generation", NEW g, GenerationIs(T, g)
  PROVE  /\ Shaped(WithTasks(T, S, r))
         /\ GenerationIs(WithTasks(T, S, r), g)
         /\ r.kind # "compaction" => Compactions(WithTasks(T, S, r)) = Compactions(T)
         /\ r.kind = "compaction" /\ r.status = "live"
              => Compactions(WithTasks(T, S, r)) = Compactions(T) \cup S
  <1> DEFINE U == WithTasks(T, S, r)
  <1>1. S \in SUBSET Tasks /\ \A t \in S : T[t].status = "absent"
    BY NextIdsFresh
  <1>2. Shaped(U) /\ (\A t \in S : U[t] = r) /\ (\A t \in Tasks \ S : U[t] = T[t])
    BY <1>1, WithTasksRecord
  <1> HIDE DEF U
  <1>3. GenerationIs(U, g)
    BY <1>1, <1>2 DEF GenerationIs
  <1>4. ASSUME r.kind # "compaction" PROVE Compactions(U) = Compactions(T)
    BY <1>1, <1>2, <1>4 DEF Compactions, Live
  <1>5. ASSUME r.kind = "compaction", r.status = "live"
        PROVE  Compactions(U) = Compactions(T) \cup S
    BY <1>1, <1>2, <1>5 DEF Compactions, Live
  <1> QED BY <1>2, <1>3, <1>4, <1>5 DEF U

\* A new generation where there is none.
LEMMA NewGenerationKeeps ==
  ASSUME NEW T, Shaped(T), GenerationIs(T, NoTask), NEW S \in NextIds(T, 1), NEW g \in S
  PROVE  /\ Shaped(WithTasks(T, S, Generation))
         /\ GenerationIs(WithTasks(T, S, Generation), g)
         /\ Compactions(WithTasks(T, S, Generation)) = Compactions(T)
  <1>1. S = {g} /\ g \in Tasks /\ T[g].status = "absent"
    BY NextIdIsOne
  <1> DEFINE U == WithTasks(T, S, Generation)
  <1>2. /\ Shaped(U) /\ U[g].kind = "generation" /\ U[g].status = "live"
        /\ \A t \in Tasks \ {g} : U[t] = T[t]
    <2>1. S \in SUBSET Tasks /\ IsRecord(Generation)
      BY <1>1, NewRecords
    <2>2. /\ Shaped(U) /\ \A t \in S : U[t] = Generation
          /\ \A t \in Tasks \ S : U[t] = T[t]
      BY <2>1, WithTasksRecord
    <2> QED BY <1>1, <2>2, NewRecords
  <1> HIDE DEF U
  <1>3. GenerationIs(U, g)
    BY <1>1, <1>2 DEF GenerationIs
  <1>4. Compactions(U) = Compactions(T)
    BY <1>1, <1>2 DEF Compactions, Live
  <1> QED BY <1>2, <1>3, <1>4 DEF U

LEMMA StartRunKeeps ==
  ASSUME NEW T, Shaped(T), GenerationIs(T, NoTask), NEW users, NEW rest, rest.task = NoTask,
         StartRun(T, users, rest)
  PROVE  Shaped(task') /\ GenerationIs(task', run'.task) /\ Compactions(task') = Compactions(T)
  <1>1. CASE users = {}
    BY <1>1 DEF StartRun
  <1>2. CASE users # {}
    <2>1. PICK S \in NextIds(T, 1) : \E g \in S :
            task' = WithTasks(T, S, Generation) /\ run' = [task |-> g, inputs |-> users]
      BY <1>2 DEF StartRun
    <2>2. PICK g \in S :
            task' = WithTasks(T, S, Generation) /\ run' = [task |-> g, inputs |-> users]
      BY <2>1
    <2> QED BY <2>2, NewGenerationKeeps
  <1> QED BY <1>1, <1>2

\* Only an idle conversation starts a run when it admits.
LEMMA AdmitBehindKeeps ==
  ASSUME NEW T, Shaped(T), GenerationIs(T, run.task), NEW s, NEW item, NEW type,
         AdmitBehind(s, item, type, T)
  PROVE  Shaped(task') /\ GenerationIs(task', run'.task) /\ Compactions(task') = Compactions(T)
  <1>1. run.task = NoTask
    BY DEF AdmitBehind, AdmitsIdle, Busy
  <1>2. \E users : StartRun(T, users, run)
    BY DEF AdmitBehind
  <1> QED BY <1>1, <1>2, StartRunKeeps

\* The other ways to admit a submission leave tasks and run alone.
LEMMA AdmitKeeps ==
  ASSUME NEW T, Shaped(T), GenerationIs(T, run.task), NEW s, NEW item, NEW type,
         \/ AdmitBusy(s, item, type) /\ task' = T
         \/ AdmitBehind(s, item, type, T)
         \/ AdmitWrite(s, item, T)
  PROVE  Shaped(task') /\ GenerationIs(task', run'.task) /\ Compactions(task') = Compactions(T)
  <1>1. CASE AdmitBusy(s, item, type) /\ task' = T
    BY <1>1 DEF AdmitBusy
  <1>2. CASE AdmitBehind(s, item, type, T)
    BY <1>2, AdmitBehindKeeps
  <1>3. CASE AdmitWrite(s, item, T)
    BY <1>3 DEF AdmitWrite
  <1> QED BY <1>1, <1>2, <1>3

LEMMA SubmitKeeps == RunsInv /\ Submit => RunsInv'
  <1> SUFFICES ASSUME RunsInv, Submit PROVE RunsInv'
    OBVIOUS
  <1>1. listed' = listed
    BY DEF Submit
  <1>2. PICK s, draft, item :
          \/ AdmitNote(s, item) /\ UNCHANGED task
          \/ AdmitBusy(s, item, TypeOf(draft)) /\ task' = task
          \/ AdmitBehind(s, item, TypeOf(draft), task)
          \/ AdmitWrite(s, item, task)
          \/ AdmitInput(s, item)
    BY DEF Submit
  <1>3. CASE AdmitNote(s, item) /\ UNCHANGED task
    BY <1>1, <1>3 DEF AdmitNote, RunsInv
  <1>4. CASE AdmitInput(s, item)
    <2>1. run.task = NoTask /\ StartRun(task, {s}, run)
      BY <1>4 DEF AdmitInput, AdmitsIdle, Busy
    <2> QED BY <1>1, <2>1, StartRunKeeps DEF RunsInv
  <1> QED BY <1>1, <1>2, <1>3, <1>4, AdmitKeeps DEF RunsInv

LEMMA HostKeeps == RunsInv /\ Host => RunsInv'
  <1> SUFFICES ASSUME RunsInv, Host PROVE RunsInv'
    OBVIOUS
  <1>1. CASE Submit
    BY <1>1, SubmitKeeps
  <1>2. CASE Compact
    <2>1. PICK S \in NextIds(task, 1) :
            /\ task' = WithTasks(task, S, Compaction(NoTask, "manual"))
            /\ listed' = listed \cup S
      BY <1>2 DEF Compact
    <2>2. run' = run
      BY <1>2 DEF Compact
    <2> QED BY <2>1, <2>2, NewRecords, NewTasksKeep DEF RunsInv
  <1>3. CASE UNCHANGED <<task, live>>
    BY <1>3 DEF live, RunsInv
  <1>4. CASE \E S : MarkAll(S) /\ UNCHANGED live
    BY <1>4, MarkAllKeeps, SameKindsKeep DEF live, RunsInv
  <1>5. ASSUME NEW b \in BOOLEAN, AbortConversation(b) PROVE \E S : MarkAll(S) /\ UNCHANGED live
    BY <1>5 DEF AbortConversation
  <1>6. ASSUME NEW t \in Tasks, AbortTask(t) PROVE \E S : MarkAll(S) /\ UNCHANGED live
    BY <1>6 DEF AbortTask
  <1>7. ASSUME NEW s \in Subs, AbortSubmission(s) PROVE UNCHANGED <<task, live>>
    BY <1>7 DEF AbortSubmission
  <1>8. OwnerCancelled \/ OwnerEnds \/ Crash => UNCHANGED <<task, live>>
    BY DEF OwnerCancelled, OwnerEnds, Crash
  <1> HIDE DEF RunsInv
  <1> QED BY <1>1, <1>2, <1>3, <1>4, <1>5, <1>6, <1>7, <1>8 DEF Host

LEMMA ReconcileKeeps == RunsInv /\ Reconcile => RunsInv'
  BY MarkAllKeeps, SameKindsKeep DEF Reconcile, live, RunsInv

-----------------------------------------------------------------------------
(* Steps of the generation.                                                  *)

LEMMA GatedIsRun ==
  ASSUME RunsInv, NEW g \in Tasks, Gated(g, "generation")
  PROVE  /\ task[g].kind = "generation" /\ task[g].status = "live"
         /\ run.task = g /\ RunAfter(g) = NoRun /\ g \notin listed
         /\ IsRecord(task[g])
  <1>1. task[g].kind = "generation" /\ task[g].status = "live"
    BY DEF Gated, Live
  <1>2. run.task = g /\ IsRecord(task[g])
    BY <1>1 DEF RunsInv, GenerationIs, Shaped
  <1>3. g \notin listed
    BY <1>1 DEF RunsInv, Compactions
  <1> QED BY <1>1, <1>2, <1>3 DEF RunAfter

\* A generation that ends leaves no live one.
LEMMA GenerationEnds ==
  ASSUME RunsInv, NEW g \in Tasks, Gated(g, "generation"), NEW status, status # "live"
  PROVE  /\ Shaped(Terminated(task, g, status))
         /\ GenerationIs(Terminated(task, g, status), NoTask)
         /\ Compactions(Terminated(task, g, status)) = listed
  <1>1. run.task = g /\ g \notin listed
    BY GatedIsRun
  <1> QED BY <1>1, EndKeeps DEF RunsInv

LEMMA RunFailsKeeps ==
  ASSUME RunsInv, NEW g \in Tasks, Gated(g, "generation"), NEW l, NEW reason,
         RunFails(g, l, reason)
  PROVE  RunsInv'
  <1>1. task' = Terminated(task, g, "ended") /\ run' = NoRun /\ listed' = listed
    BY GatedIsRun DEF RunFails
  <1> QED BY <1>1, GenerationEnds DEF RunsInv, NoRun

LEMMA MovesOnKeeps ==
  ASSUME RunsInv, NEW g \in Tasks, Gated(g, "generation"), NEW r, IsRecord(r),
         r.kind = "generation", r.status = "live", MovesOn(g, r)
  PROVE  RunsInv'
  <1>1. task' = [task EXCEPT ![g] = r] /\ run' = run /\ listed' = listed
    BY DEF MovesOn
  <1>2. Shaped(task') /\ SameKinds(task, task')
    BY <1>1, GatedIsRun, MoveKeeps DEF RunsInv
  <1> QED BY <1>1, <1>2, SameKindsKeep DEF RunsInv

\* A commit that edits the checkpoint of one task.
LEMMA EditKeeps ==
  ASSUME NEW T, Shaped(T), NEW g \in Tasks, NEW phase, NEW x
  PROVE  /\ LET U == [T EXCEPT ![g].phase = phase, ![g].compacted = x]
            IN  Shaped(U) /\ SameKinds(T, U)
         /\ LET U == [T EXCEPT ![g].phase = phase, ![g].pending = x]
            IN  Shaped(U) /\ SameKinds(T, U)
         /\ LET U == [T EXCEPT ![g].pending = @ - 1]
            IN  Shaped(U) /\ SameKinds(T, U)
  <1>1. LET U == [T EXCEPT ![g].phase = phase, ![g].compacted = x]
        IN  Shaped(U) /\ SameKinds(T, U)
    BY DEF Shaped, IsRecord, SameKinds
  <1>2. LET U == [T EXCEPT ![g].phase = phase, ![g].pending = x]
        IN  Shaped(U) /\ SameKinds(T, U)
    BY DEF Shaped, IsRecord, SameKinds
  <1>3. LET U == [T EXCEPT ![g].pending = @ - 1]
        IN  Shaped(U) /\ SameKinds(T, U)
    BY DEF Shaped, IsRecord, SameKinds
  <1> QED BY <1>1, <1>2, <1>3

\* New compactions or tools beside a generation that stays live.
LEMMA BesideKeeps ==
  ASSUME RunsInv, NEW n, NEW S \in NextIds(task, n),
         NEW new, IsRecord(new), new.kind # "generation",
         Shaped(task'), SameKinds(WithTasks(task, S, new), task'), run' = run,
         \/ new.kind = "compaction" /\ new.status = "live" /\ listed' = listed \cup S
         \/ new.kind # "compaction" /\ listed' = listed
  PROVE  RunsInv'
  <1> DEFINE U == WithTasks(task, S, new)
  <1>1. Shaped(task) /\ GenerationIs(task, run.task) /\ Compactions(task) = listed
    BY DEF RunsInv
  <1>2. GenerationIs(U, run.task)
    BY <1>1, NewTasksKeep
  <1>3. new.kind # "compaction" => Compactions(U) = listed
    BY <1>1, NewTasksKeep
  <1>4. new.kind = "compaction" /\ new.status = "live" => Compactions(U) = listed \cup S
    BY <1>1, NewTasksKeep
  <1>5. SameKinds(U, task')
    OBVIOUS
  <1> HIDE DEF U
  <1>6. GenerationIs(task', run'.task) /\ Compactions(task') = Compactions(U)
    BY <1>2, <1>5, SameKindsKeep
  <1> QED BY <1>3, <1>4, <1>6 DEF RunsInv

\* The tasks of a commit that creates some are shaped.
LEMMA BesideShape ==
  ASSUME RunsInv, NEW n, NEW S \in NextIds(task, n), NEW new, IsRecord(new)
  PROVE  Shaped(WithTasks(task, S, new))
  BY NextIdsFresh, WithTasksRecord DEF RunsInv

LEMMA BlocksKeeps ==
  ASSUME RunsInv, NEW g \in Tasks, NEW compacted, NEW l, Blocks(g, compacted, l)
  PROVE  RunsInv'
  <1>1. PICK S \in NextIds(task, 1) :
          /\ task' = [WithTasks(task, S, Compaction(g, compacted)) EXCEPT
                        ![g].phase = "prepare", ![g].compacted = compacted]
          /\ listed' = listed \cup S
    BY DEF Blocks
  <1>2. run' = run
    BY DEF Blocks
  <1>3. /\ IsRecord(Compaction(g, compacted))
        /\ Compaction(g, compacted).kind = "compaction"
        /\ Compaction(g, compacted).status = "live"
    BY NewRecords
  <1> DEFINE U == WithTasks(task, S, Compaction(g, compacted))
  <1>4. Shaped(U)
    BY <1>3, BesideShape
  <1>5. Shaped(task') /\ SameKinds(U, task')
    <2> HIDE DEF U
    <2>1. LET V == [U EXCEPT ![g].phase = "prepare", ![g].compacted = compacted]
          IN  Shaped(V) /\ SameKinds(U, V)
      BY <1>4, EditKeeps
    <2>2. task' = [U EXCEPT ![g].phase = "prepare", ![g].compacted = compacted]
      BY <1>1 DEF U
    <2> QED BY <2>1, <2>2
  <1> QED BY <1>1, <1>2, <1>3, <1>5, BesideKeeps

LEMMA PrepareCommitKeeps ==
  ASSUME RunsInv, NEW g \in Tasks, PrepareCommit(g)
  PROVE  RunsInv'
  <1>1. Gated(g, "generation")
    BY DEF PrepareCommit, Phase
  <1> DEFINE r == [task[g] EXCEPT !.phase = "request",
                                  !.compacted = IF @ = "no" THEN "no" ELSE "yes"]
  <1>2. IsRecord(r) /\ r.kind = "generation" /\ r.status = "live"
    BY <1>1, GatedIsRun DEF IsRecord
  <1>3. \/ MovesOn(g, r)
        \/ /\ listed = {} /\ run' = run
           /\ \E S \in NextIds(task, 1) :
                /\ task' = [WithTasks(task, S, Compaction(NoTask, "threshold")) EXCEPT ![g] = r]
                /\ listed' = S
    BY DEF PrepareCommit
  <1> HIDE DEF r
  <1>4. CASE MovesOn(g, r)
    BY <1>1, <1>2, <1>4, MovesOnKeeps
  <1>5. CASE /\ listed = {} /\ run' = run
             /\ \E S \in NextIds(task, 1) :
                  /\ task' = [WithTasks(task, S, Compaction(NoTask, "threshold")) EXCEPT ![g] = r]
                  /\ listed' = S
    <2>1. PICK S \in NextIds(task, 1) :
            /\ task' = [WithTasks(task, S, Compaction(NoTask, "threshold")) EXCEPT ![g] = r]
            /\ listed' = listed \cup S
      BY <1>5
    <2>2. /\ IsRecord(Compaction(NoTask, "threshold"))
          /\ Compaction(NoTask, "threshold").kind = "compaction"
          /\ Compaction(NoTask, "threshold").status = "live"
      BY NewRecords
    <2> DEFINE U == WithTasks(task, S, Compaction(NoTask, "threshold"))
    <2>3. Shaped(U) /\ U[g].kind = "generation" /\ U[g].status = "live"
      <3>1. Shaped(U)
        BY <2>2, BesideShape
      <3>2. U[g] = task[g]
        BY <1>1, GatedIsRun, NextIdsFresh DEF WithTasks
      <3> QED BY <1>1, <3>1, <3>2, GatedIsRun
    <2>4. Shaped(task') /\ SameKinds(U, task')
      <3> HIDE DEF U
      <3>1. Shaped([U EXCEPT ![g] = r]) /\ SameKinds(U, [U EXCEPT ![g] = r])
        BY <1>2, <2>3, MoveKeeps
      <3>2. task' = [U EXCEPT ![g] = r]
        BY <2>1 DEF U
      <3> QED BY <3>1, <3>2
    <2> QED BY <1>5, <2>1, <2>2, <2>4, BesideKeeps
  <1> QED BY <1>3, <1>4, <1>5

LEMMA RoundKeeps ==
  ASSUME RunsInv, NEW g \in Tasks, StartRound(g) \/ NextCall(g)
  PROVE  RunsInv'
  <1>1. run' = run /\ listed' = listed
    BY DEF StartRound, NextCall, live
  <1>2. IsRecord(Tool(g)) /\ Tool(g).kind = "tool"
    BY NewRecords
  <1>3. CASE StartRound(g)
    <2>1. PICK n \in Calls, started \in 0..2 : \E S \in NextIds(task, started) :
            task' = [WithTasks(task, S, Tool(g)) EXCEPT
                       ![g].phase = "tools",
                       ![g].pending = IF started = 0 THEN 0 ELSE n - started]
      BY <1>3 DEF StartRound
    <2>2. PICK S \in NextIds(task, started) :
            task' = [WithTasks(task, S, Tool(g)) EXCEPT
                       ![g].phase = "tools",
                       ![g].pending = IF started = 0 THEN 0 ELSE n - started]
      BY <2>1
    <2> DEFINE U == WithTasks(task, S, Tool(g))
               x == IF started = 0 THEN 0 ELSE n - started
    <2>3. Shaped(U)
      BY <1>2, BesideShape
    <2>4. task' = [U EXCEPT ![g].phase = "tools", ![g].pending = x]
      BY <2>2
    <2>5. Shaped(task') /\ SameKinds(U, task')
      <3> HIDE DEF U, x
      <3>1. LET V == [U EXCEPT ![g].phase = "tools", ![g].pending = x]
            IN  Shaped(V) /\ SameKinds(U, V)
        BY <2>3, EditKeeps
      <3> QED BY <2>4, <3>1
    <2> QED BY <1>1, <1>2, <2>5, BesideKeeps
  <1>4. CASE NextCall(g)
    <2>1. PICK S \in NextIds(task, 1) :
            task' = [WithTasks(task, S, Tool(g)) EXCEPT ![g].pending = @ - 1]
      BY <1>4 DEF NextCall
    <2> DEFINE U == WithTasks(task, S, Tool(g))
    <2>2. Shaped(U)
      BY <1>2, BesideShape
    <2>3. task' = [U EXCEPT ![g].pending = @ - 1]
      BY <2>1
    <2>4. Shaped(task') /\ SameKinds(U, task')
      <3> HIDE DEF U
      <3>1. LET V == [U EXCEPT ![g].pending = @ - 1] IN Shaped(V) /\ SameKinds(U, V)
        BY <2>2, EditKeeps
      <3> QED BY <2>3, <3>1
    <2> QED BY <1>1, <1>2, <2>4, BesideKeeps
  <1> QED BY <1>3, <1>4

\* The end of a successful generation, with or without a successor.
LEMMA SucceedsKeeps ==
  ASSUME RunsInv, NEW g \in Tasks, Gated(g, "generation"), NEW b, listed' = listed,
         (\E status, reason : RunEnds(g, b, status, reason)) \/ HandsOver(g, b)
  PROVE  RunsInv'
  <1> DEFINE T == Terminated(task, g, "completed")
  <1>1. Shaped(T) /\ GenerationIs(T, NoTask) /\ Compactions(T) = listed
    BY GenerationEnds
  <1>2. CASE \E status, reason : RunEnds(g, b, status, reason)
    <2>1. StartRun(T, b.users, NoRun)
      BY <1>2, GatedIsRun DEF RunEnds
    <2>2. NoRun.task = NoTask
      BY DEF NoRun
    <2> HIDE DEF T
    <2> QED BY <1>1, <2>1, <2>2, StartRunKeeps DEF RunsInv
  <1>3. CASE HandsOver(g, b)
    <2>1. PICK S \in NextIds(task, 1) : \E h \in S :
            task' = WithTasks(T, S, Generation) /\ run'.task = h
      BY <1>3, GatedIsRun DEF HandsOver
    <2>2. PICK h \in S : task' = WithTasks(T, S, Generation) /\ run'.task = h
      BY <2>1
    <2>3. S \in NextIds(T, 1)
      <3>1. \A t \in Tasks : T[t].status = "absent" <=> task[t].status = "absent"
        BY TerminatedRecord, GatedIsRun DEF RunsInv
      <3> HIDE DEF T
      <3> QED BY <3>1 DEF NextIds
    <2> HIDE DEF T
    <2> QED BY <1>1, <2>2, <2>3, NewGenerationKeeps DEF RunsInv
  <1> QED BY <1>2, <1>3

LEMMA GenerationStepKeeps ==
  ASSUME RunsInv, NEW g \in Tasks, GenerationStep(g)
  PROVE  RunsInv'
  <1>1. CASE NoModel(g) \/ PrepareRejects(g) \/ ModelError(g)
    <2>1. Gated(g, "generation")
      BY <1>1 DEF NoModel, PrepareRejects, ModelError, Responds, Phase
    <2>2. \E l, reason : RunFails(g, l, reason)
      BY <1>1 DEF NoModel, PrepareRejects, ModelError
    <2> QED BY <2>1, <2>2, RunFailsKeeps
  <1>2. CASE PrepareRead(g) \/ RequestBegin(g) \/ FlushBegin(g) \/ FlushCommit(g)
    <2>1. UNCHANGED <<task, run, listed>>
      BY <1>2 DEF PrepareRead, RequestBegin, FlushBegin, FlushCommit, live
    <2> QED BY <2>1 DEF RunsInv
  <1>3. CASE PrepareBlocks(g) \/ Overflows(g)
    <2>1. \E compacted, l : Blocks(g, compacted, l)
      BY <1>3 DEF PrepareBlocks, Overflows
    <2> QED BY <2>1, BlocksKeeps
  <1>4. CASE PrepareCommit(g)
    BY <1>4, PrepareCommitKeeps
  <1>5. CASE Deferred(g) \/ Retry(g) \/ RetryDue(g)
    <2>1. Gated(g, "generation")
      BY <1>5 DEF Deferred, Retry, RetryDue, Responds, Phase
    <2>2. PICK phase : MovesOn(g, [task[g] EXCEPT !.phase = phase])
      BY <1>5 DEF Deferred, Retry, RetryDue
    <2> DEFINE r == [task[g] EXCEPT !.phase = phase]
    <2>3. IsRecord(r) /\ r.kind = "generation" /\ r.status = "live"
      BY <2>1, GatedIsRun DEF IsRecord
    <2> HIDE DEF r
    <2> QED BY <2>1, <2>2, <2>3, MovesOnKeeps DEF r
  <1>6. ASSUME NEW continuation \in BOOLEAN, Answer(g, continuation) PROVE RunsInv'
    <2>1. Gated(g, "generation") /\ listed' = listed
      BY <1>6 DEF Answer, Responds, Phase, EndsGeneration
    <2>2. \E b : (\E status, reason : RunEnds(g, b, status, reason)) \/ HandsOver(g, b)
      BY <1>6 DEF Answer
    <2> QED BY <2>1, <2>2, SucceedsKeeps
  <1>7. CASE StartRound(g) \/ NextCall(g)
    BY <1>7, RoundKeeps
  <1>8. ASSUME NEW ending, FinishRound(g, ending) PROVE RunsInv'
    <2>1. Gated(g, "generation") /\ listed' = listed
      BY <1>8 DEF FinishRound, Phase, EndsGeneration
    <2>2. \E b : (\E status, reason : RunEnds(g, b, status, reason)) \/ HandsOver(g, b)
      BY <1>8 DEF FinishRound
    <2> QED BY <2>1, <2>2, SucceedsKeeps
  <1> QED BY <1>1, <1>2, <1>3, <1>4, <1>5, <1>6, <1>7, <1>8 DEF GenerationStep

-----------------------------------------------------------------------------
(* Steps of compactions and tools, and the ends of marked or failed tasks.   *)

\* A commit that ends a task other than the generation.
LEMMA OtherEnds ==
  ASSUME RunsInv, NEW t \in Tasks, task[t].kind # "generation", NEW status, status # "live"
  PROVE  /\ Shaped(Terminated(task, t, status))
         /\ GenerationIs(Terminated(task, t, status), run.task)
         /\ Compactions(Terminated(task, t, status)) = listed \ {t}
  <1>1. run.task # t
    BY DEF RunsInv, GenerationIs
  <1>2. Shaped(task) /\ GenerationIs(task, run.task) /\ Compactions(task) = listed
    BY DEF RunsInv
  <1>3. GenerationIs(Terminated(task, t, status), IF run.task = t THEN NoTask ELSE run.task)
    BY <1>2, EndKeeps
  <1>4. /\ Shaped(Terminated(task, t, status))
        /\ Compactions(Terminated(task, t, status)) = Compactions(task) \ {t}
    BY <1>2, EndKeeps
  <1> QED BY <1>1, <1>2, <1>3, <1>4

LEMMA CompactionStepKeeps ==
  ASSUME RunsInv, NEW c \in Tasks, CompactionStep(c)
  PROVE  RunsInv'
  <1>1. CASE SelectRead(c)
    BY <1>1 DEF SelectRead, live, RunsInv
  <1>2. CASE SelectCommit(c) \/ Backoff(c)
    <2>1. run' = run /\ listed' = listed
      BY <1>2 DEF SelectCommit, Backoff, live
    <2>2. Shaped(task') /\ SameKinds(task, task')
      <3>1. Shaped(task)
        BY DEF RunsInv
      <3>2. CASE SelectCommit(c)
        BY <3>1, <3>2 DEF SelectCommit, Shaped, IsRecord, SameKinds
      <3>3. CASE Backoff(c)
        BY <3>1, <3>3 DEF Backoff, Shaped, IsRecord, SameKinds
      <3> QED BY <1>2, <3>2, <3>3
    <2> QED BY <2>1, <2>2, SameKindsKeep DEF RunsInv
  <1>3. ASSUME NEW status \in {"completed", "ended"}, CompactionEnds(c, status)
        PROVE  RunsInv'
    <2>1. /\ task[c].kind = "compaction" /\ run' = run
          /\ task' = Terminated(task, c, status) /\ listed' = listed \ {c}
      BY <1>3 DEF CompactionEnds, Gated, EndsCompaction
    <2> QED BY <2>1, OtherEnds DEF RunsInv
  <1>4. CASE PlaceBlocking(c)
    <2> DEFINE T == Terminated(task, c, "completed")
    <2>1. /\ task[c].kind = "compaction" /\ run' = run
          /\ task' = [T EXCEPT ![c].placed = TRUE] /\ listed' = listed \ {c}
      BY <1>4 DEF PlaceBlocking, HasSummary, Gated, EndsCompaction
    <2>2. Shaped(T) /\ GenerationIs(T, run.task) /\ Compactions(T) = listed \ {c}
      BY <2>1, OtherEnds
    <2> HIDE DEF T
    <2>3. Shaped(task') /\ SameKinds(T, task')
      BY <2>1, <2>2 DEF Shaped, IsRecord, SameKinds
    <2>4. GenerationIs(task', run.task) /\ Compactions(task') = Compactions(T)
      BY <2>2, <2>3, SameKindsKeep
    <2> QED BY <2>1, <2>2, <2>3, <2>4 DEF RunsInv
  <1>5. CASE PlaceSummary(c)
    <2> DEFINE T == Terminated(task, c, "completed")
    <2>1. task[c].kind = "compaction" /\ listed' = listed \ {c}
      BY <1>5 DEF PlaceSummary, HasSummary, Gated
    <2>2. Shaped(T) /\ GenerationIs(T, run.task) /\ Compactions(T) = listed \ {c}
      BY <2>1, OtherEnds
    <2>3. \E s, item : \/ AdmitBusy(s, item, "write") /\ task' = T
                       \/ AdmitBehind(s, item, "write", T)
                       \/ AdmitWrite(s, item, T)
      BY <1>5 DEF PlaceSummary
    <2> HIDE DEF T
    <2> QED BY <2>1, <2>2, <2>3, AdmitKeeps DEF RunsInv
  <1> QED BY <1>1, <1>2, <1>3, <1>4, <1>5 DEF CompactionStep

LEMMA ToolEndsKeeps ==
  ASSUME RunsInv, NEW t \in Tasks, NEW status \in {"completed", "ended"}, ToolEnds(t, status)
  PROVE  RunsInv'
  <1>1. /\ task[t].kind = "tool" /\ run' = run /\ listed' = listed
        /\ task' = Terminated(task, t, status)
    BY DEF ToolEnds, Gated, live
  <1>2. t \notin listed
    BY <1>1 DEF RunsInv, Compactions
  <1> QED BY <1>1, <1>2, OtherEnds DEF RunsInv

LEMMA EndedKeeps ==
  ASSUME RunsInv, NEW t \in Tasks, AbortHandler(t) \/ SchedulerEnds(t)
  PROVE  RunsInv'
  <1>1. /\ task' = Terminated(task, t, "ended") /\ run' = RunAfter(t)
        /\ listed' = listed \ {t}
    BY DEF AbortHandler, SchedulerEnds, Ended
  <1>2. Shaped(task) /\ GenerationIs(task, run.task) /\ Compactions(task) = listed
    BY DEF RunsInv
  <1>3. GenerationIs(task', IF run.task = t THEN NoTask ELSE run.task)
    BY <1>1, <1>2, EndKeeps
  <1>4. Shaped(task') /\ Compactions(task') = listed \ {t}
    BY <1>1, <1>2, EndKeeps
  <1>5. run'.task = IF run.task = t THEN NoTask ELSE run.task
    BY <1>1 DEF RunAfter, NoRun
  <1> QED BY <1>1, <1>3, <1>4, <1>5 DEF RunsInv

-----------------------------------------------------------------------------
(* The invariant and the theorems.                                           *)

LEMMA RunsInvInit == Init => RunsInv
  BY NewRecords DEF Init, RunsInv, Shaped, GenerationIs, Compactions, Live, NoRun, Absent

LEMMA RunsInvStep == RunsInv /\ [Next]_vars => RunsInv'
  <1> SUFFICES ASSUME RunsInv, [Next]_vars PROVE RunsInv'
    OBVIOUS
  <1>1. CASE UNCHANGED vars
    BY <1>1 DEF vars, live, RunsInv
  <1>2. CASE Host
    BY <1>2, HostKeeps
  <1>3. CASE Reconcile
    BY <1>3, ReconcileKeeps
  <1>4. ASSUME NEW t \in Tasks, GenerationStep(t) PROVE RunsInv'
    BY <1>4, GenerationStepKeeps
  <1>5. ASSUME NEW t \in Tasks, CompactionStep(t) PROVE RunsInv'
    BY <1>5, CompactionStepKeeps
  <1>6. ASSUME NEW t \in Tasks, NEW status \in {"completed", "ended"}, ToolEnds(t, status)
        PROVE  RunsInv'
    BY <1>6, ToolEndsKeeps
  <1>7. ASSUME NEW t \in Tasks, AbortHandler(t) \/ SchedulerEnds(t) PROVE RunsInv'
    BY <1>7, EndedKeeps
  <1> HIDE DEF RunsInv
  <1> QED BY <1>1, <1>2, <1>3, <1>4, <1>5, <1>6, <1>7 DEF Next

LEMMA RunsInvHolds == Spec => []RunsInv
  BY RunsInvInit, RunsInvStep, PTL DEF Spec

\* tg.live names the live generation and only that one: no admission, boundary,
\* hand-over, abort or fault leaves the conversation busy without a generation,
\* or two generations in it (live.ts LiveState, endRun; generation.ts startRun).
THEOREM BusyIsTheGeneration == Spec => []RunIsTheGeneration
  <1>1. RunsInv => RunIsTheGeneration
    BY DEF RunsInv, GenerationIs, RunIsTheGeneration, Live
  <1> QED BY <1>1, RunsInvHolds, PTL

\* Hosts see exactly the live compactions, whichever commit created or ended
\* them (compaction.ts createCompaction, live.ts settleSchedulerOutcome).
THEOREM StatusListsCompactions == Spec => []ListedIsLive
  <1>1. RunsInv => ListedIsLive
    BY DEF RunsInv, ListedIsLive
  <1> QED BY <1>1, RunsInvHolds, PTL

-----------------------------------------------------------------------------
(* Partial responses.  A partial on its way to a commit holds its generation *)
(* in the request, and a task that does not exist yet holds nothing.         *)

LiveGeneration(T, t) == T[t].kind = "generation" /\ T[t].status = "live"
Streams(t) == local[t].at \in {"stream", "flush"}

PartialInv ==
  /\ DOMAIN local = Tasks
  /\ \A t \in Tasks : task[t].status = "absent" => local[t].at = "none"
  /\ \A t \in Tasks : LiveGeneration(task, t) /\ Streams(t) => task[t].phase = "request"
  /\ PartialIsTheRequests

\* No live generation outside G changes its phase between the tasks T and U.
PhasesKeep(T, U, G) ==
  \A t \in Tasks :
    /\ U[t].status = "absent" => T[t].status = "absent"
    /\ LiveGeneration(U, t) =>
         \/ T[t].status = "absent" \/ t \in G
         \/ LiveGeneration(T, t) /\ U[t].phase = T[t].phase

\* Handlers keep what they hold, or forget it, or read; those in G forget it.
LocalsKeep(G) ==
  /\ DOMAIN local' = Tasks
  /\ \A t \in Tasks : \/ local'[t].at = local[t].at /\ t \notin G
                      \/ local'[t].at = "none"
                      \/ local'[t].at = "read" /\ task[t].status = "live"

LEMMA CalmKeeps ==
  ASSUME RunsInv, RunsInv', PartialInv, NEW G, PhasesKeep(task, task', G), LocalsKeep(G),
         partial' => partial /\ run'.task = run.task /\ run.task \notin G
  PROVE  PartialInv'
  <1>1. DOMAIN local' = Tasks
    BY DEF LocalsKeep
  <1>2. ASSUME NEW t \in Tasks, task'[t].status = "absent" PROVE local'[t].at = "none"
    BY <1>2 DEF PhasesKeep, LocalsKeep, PartialInv
  <1>3. ASSUME NEW t \in Tasks, LiveGeneration(task', t), local'[t].at \in {"stream", "flush"}
        PROVE  task'[t].phase = "request"
    <2>1. local'[t].at = local[t].at /\ t \notin G
      BY <1>3 DEF LocalsKeep
    <2>2. task[t].status # "absent"
      BY <1>3, <2>1 DEF PartialInv
    <2>3. LiveGeneration(task, t) /\ task'[t].phase = task[t].phase
      BY <1>3, <2>1, <2>2 DEF PhasesKeep
    <2> QED BY <1>3, <2>1, <2>3 DEF PartialInv, Streams
  <1>4. PartialIsTheRequests'
    <2> SUFFICES ASSUME partial' PROVE run'.task # NoTask /\ task'[run'.task].phase = "request"
      BY DEF PartialIsTheRequests, Busy
    <2>1. run'.task = run.task /\ run.task # NoTask /\ task[run.task].phase = "request"
      BY DEF PartialInv, PartialIsTheRequests, Busy
    <2>2. /\ run.task \in Tasks /\ LiveGeneration(task, run.task)
          /\ LiveGeneration(task', run.task)
      BY <2>1 DEF RunsInv, GenerationIs, LiveGeneration
    <2>3. task'[run.task].phase = task[run.task].phase
      BY <2>2 DEF PhasesKeep, LiveGeneration
    <2> QED BY <2>1, <2>3
  <1> QED BY <1>1, <1>2, <1>3, <1>4 DEF PartialInv, Streams

LEMMA EndKeepsPhases ==
  ASSUME NEW T, Shaped(T), NEW t \in Tasks, NEW status \in {"completed", "ended"}
  PROVE  PhasesKeep(T, Terminated(T, t, status), {})
  <1>1. /\ Terminated(T, t, status)[t].status = status
        /\ \A u \in Tasks \ {t} : Terminated(T, t, status)[u] = T[u]
    BY TerminatedRecord
  <1> QED BY <1>1 DEF PhasesKeep, LiveGeneration

LEMMA NewTasksKeepPhases ==
  ASSUME NEW T, Shaped(T), NEW n, NEW S \in NextIds(T, n), NEW r, r.status # "absent"
  PROVE  PhasesKeep(T, WithTasks(T, S, r), {})
  BY NextIdsFresh DEF WithTasks, PhasesKeep, LiveGeneration

LEMMA PhasesChain ==
  ASSUME NEW T, NEW U, NEW V, NEW G, PhasesKeep(T, U, {}), PhasesKeep(U, V, G)
  PROVE  PhasesKeep(T, V, G)
  BY DEF PhasesKeep, LiveGeneration

LEMMA NewStatuses ==
  /\ Generation.status = "live"
  /\ \A g : Tool(g).status = "live"
  /\ \A o, reason : Compaction(o, reason).status = "live"
  BY DEF Generation, Tool, Compaction, Absent

LEMMA StartRunKeepsPhases ==
  ASSUME NEW T, Shaped(T), NEW users, NEW rest, StartRun(T, users, rest)
  PROVE  PhasesKeep(T, task', {})
  <1>1. CASE task' = T
    BY <1>1 DEF PhasesKeep
  <1>2. CASE \E S \in NextIds(T, 1) : task' = WithTasks(T, S, Generation)
    BY <1>2, NewTasksKeepPhases, NewStatuses
  <1> QED BY <1>1, <1>2 DEF StartRun

\* An admission keeps the phases, and while busy the run.
LEMMA AdmitKeepsPhases ==
  ASSUME NEW T, Shaped(T), NEW s, NEW item, NEW type,
         \/ AdmitBusy(s, item, type) /\ task' = T
         \/ AdmitBehind(s, item, type, T)
         \/ AdmitWrite(s, item, T)
  PROVE  PhasesKeep(T, task', {}) /\ (Busy => run' = run)
  <1>1. CASE AdmitBusy(s, item, type) /\ task' = T
    BY <1>1 DEF AdmitBusy, PhasesKeep
  <1>2. CASE AdmitBehind(s, item, type, T)
    <2>1. ~Busy /\ \E users : StartRun(T, users, run)
      BY <1>2 DEF AdmitBehind, AdmitsIdle
    <2> QED BY <2>1, StartRunKeepsPhases
  <1>3. CASE AdmitWrite(s, item, T)
    BY <1>3 DEF AdmitWrite, PhasesKeep
  <1> QED BY <1>1, <1>2, <1>3

LEMMA SameKeepsPhases ==
  ASSUME NEW T, NEW U, SameKinds(T, U), \A t \in Tasks : U[t].phase = T[t].phase
  PROVE  PhasesKeep(T, U, {})
  BY DEF SameKinds, PhasesKeep, LiveGeneration

LEMMA HostKeepsPartial ==
  ASSUME RunsInv, RunsInv', PartialInv, Host \/ Reconcile
  PROVE  PartialInv'
  <1>1. Shaped(task) /\ DOMAIN local = Tasks /\ (partial => Busy)
    BY DEF RunsInv, PartialInv, PartialIsTheRequests
  <1>2. local' = local => LocalsKeep({})
    BY <1>1 DEF LocalsKeep
  <1>3. CASE Submit
    <2>1. PICK s, draft, item :
            \/ AdmitNote(s, item) /\ UNCHANGED task
            \/ AdmitBusy(s, item, TypeOf(draft)) /\ task' = task
            \/ AdmitBehind(s, item, TypeOf(draft), task)
            \/ AdmitWrite(s, item, task)
            \/ AdmitInput(s, item)
      BY <1>3 DEF Submit
    <2>2. PhasesKeep(task, task', {}) /\ (Busy => run' = run)
      <3>1. CASE AdmitNote(s, item) /\ UNCHANGED task
        BY <3>1 DEF AdmitNote, PhasesKeep
      <3>2. CASE AdmitInput(s, item)
        <4>1. ~Busy /\ StartRun(task, {s}, run)
          BY <3>2 DEF AdmitInput, AdmitsIdle
        <4> QED BY <1>1, <4>1, StartRunKeepsPhases
      <3> QED BY <1>1, <2>1, <3>1, <3>2, AdmitKeepsPhases
    <2>3. partial' = partial /\ local' = local
      BY <1>3 DEF Submit
    <2> QED BY <1>1, <1>2, <2>2, <2>3, CalmKeeps
  <1>4. CASE Compact
    <2>1. PICK S \in NextIds(task, 1) :
            task' = WithTasks(task, S, Compaction(NoTask, "manual"))
      BY <1>4 DEF Compact
    <2>2. PhasesKeep(task, task', {})
      BY <1>1, <2>1, NewTasksKeepPhases, NewStatuses
    <2>3. partial' = partial /\ run' = run /\ local' = local
      BY <1>4 DEF Compact
    <2> QED BY <1>2, <2>2, <2>3, CalmKeeps
  <1>5. CASE UNCHANGED <<task, live>> /\ LocalsKeep({})
    <2>1. PhasesKeep(task, task', {})
      BY <1>5 DEF PhasesKeep
    <2> QED BY <1>5, <2>1, CalmKeeps DEF live
  <1>6. CASE \E S : MarkAll(S) /\ UNCHANGED <<live, local>>
    <2>1. PhasesKeep(task, task', {})
      BY <1>1, <1>6, MarkAllKeeps, SameKeepsPhases
    <2> QED BY <1>2, <1>6, <2>1, CalmKeeps DEF live
  <1>7. ASSUME NEW s \in Subs, AbortSubmission(s) PROVE UNCHANGED <<task, live, local>>
    BY <1>7 DEF AbortSubmission
  <1>8. ASSUME NEW b \in BOOLEAN, AbortConversation(b)
        PROVE  \E S : MarkAll(S) /\ UNCHANGED <<live, local>>
    BY <1>8 DEF AbortConversation
  <1>9. ASSUME NEW t \in Tasks, AbortTask(t)
        PROVE  \E S : MarkAll(S) /\ UNCHANGED <<live, local>>
    BY <1>9 DEF AbortTask
  <1>10. OwnerCancelled \/ OwnerEnds => UNCHANGED <<task, live, local>>
    BY DEF OwnerCancelled, OwnerEnds
  <1>11. Crash => UNCHANGED <<task, live>> /\ LocalsKeep({})
    BY DEF Crash, LocalsKeep, NoLocal
  <1>12. Reconcile => \E S : MarkAll(S) /\ UNCHANGED <<live, local>>
    BY DEF Reconcile
  <1> HIDE DEF RunsInv, PartialInv
  <1> QED BY <1>2, <1>3, <1>4, <1>5, <1>6, <1>7, <1>8, <1>9, <1>10, <1>11, <1>12 DEF Host

\* What a commit that moves task t on forgets.
LEMMA ForgetKeeps ==
  ASSUME PartialInv, NEW t \in Tasks, Forget(t)
  PROVE  LocalsKeep({}) /\ (local[t].at # "flush" => LocalsKeep({t}))
  BY DEF PartialInv, Forget, LocalsKeep, NoLocal

\* A response is classified, and any other phase is left, with no partial on
\* its way.
LEMMA NoFlush ==
  ASSUME PartialInv, NEW g \in Tasks, NEW p, p # "request",
         Responds(g) \/ Phase(g, p)
  PROVE  local[g].at # "flush"
  BY DEF PartialInv, Responds, Phase, Gated, Holds, Live, LiveGeneration, Streams

\* Outside the request there is no partial.
LEMMA NoPartial ==
  ASSUME RunsInv, PartialInv, NEW g \in Tasks, NEW p, p # "request", Phase(g, p)
  PROVE  ~partial
  <1>1. run.task = g
    BY GatedIsRun DEF Phase
  <1> QED BY <1>1 DEF PartialInv, PartialIsTheRequests, Phase

\* A commit that moves a generation on, or ends it, with no partial left.
LEMMA MovedKeeps ==
  ASSUME RunsInv, RunsInv', PartialInv, NEW g \in Tasks, PhasesKeep(task, task', {g}),
         Forget(g), local[g].at # "flush", ~partial'
  PROVE  PartialInv'
  BY ForgetKeeps, CalmKeeps

LEMMA EndedKeepsPartial ==
  ASSUME RunsInv, RunsInv', PartialInv, NEW g \in Tasks, PhasesKeep(task, task', {}),
         Forget(g), ~partial'
  PROVE  PartialInv'
  BY ForgetKeeps, CalmKeeps

\* A record put in the place of task g's.
LEMMA PutKeepsPhases ==
  ASSUME NEW T, Shaped(T), NEW g \in Tasks, NEW r, r.status # "absent"
  PROVE  PhasesKeep(T, [T EXCEPT ![g] = r], {g})
  BY DEF Shaped, PhasesKeep, LiveGeneration

LEMMA SucceedsKeepsPhases ==
  ASSUME RunsInv, NEW g \in Tasks, NEW b,
         (\E status, reason : RunEnds(g, b, status, reason)) \/ HandsOver(g, b)
  PROVE  PhasesKeep(task, task', {})
  <1> DEFINE T == Terminated(task, g, "completed")
  <1>1. Shaped(T) /\ PhasesKeep(task, T, {})
    BY TerminatedRecord, EndKeepsPhases DEF RunsInv
  <1>2. CASE \E status, reason : RunEnds(g, b, status, reason)
    <2>1. StartRun(T, b.users, RunAfter(g))
      BY <1>2 DEF RunEnds
    <2> HIDE DEF T
    <2>2. PhasesKeep(T, task', {})
      BY <1>1, <2>1, StartRunKeepsPhases
    <2> QED BY <1>1, <2>2, PhasesChain
  <1>3. CASE HandsOver(g, b)
    <2>1. PICK S \in NextIds(task, 1) : task' = WithTasks(T, S, Generation)
      BY <1>3 DEF HandsOver
    <2>2. \A t \in S : task[t].status = "absent"
      BY NextIdsFresh
    <2> HIDE DEF T
    <2> QED BY <1>1, <2>1, <2>2, NewStatuses DEF PhasesKeep, LiveGeneration, WithTasks
  <1> QED BY <1>2, <1>3

\* Fields edited in the record of task g.
LEMMA EditKeepsPhases ==
  ASSUME NEW T, Shaped(T), NEW g \in Tasks, NEW phase, NEW x
  PROVE  /\ PhasesKeep(T, [T EXCEPT ![g].phase = phase, ![g].compacted = x], {g})
         /\ PhasesKeep(T, [T EXCEPT ![g].phase = phase, ![g].pending = x], {g})
         /\ PhasesKeep(T, [T EXCEPT ![g].pending = @ - 1], {})
  <1>1. PhasesKeep(T, [T EXCEPT ![g].phase = phase, ![g].compacted = x], {g})
    BY DEF Shaped, IsRecord, PhasesKeep, LiveGeneration
  <1>2. PhasesKeep(T, [T EXCEPT ![g].phase = phase, ![g].pending = x], {g})
    BY DEF Shaped, IsRecord, PhasesKeep, LiveGeneration
  <1>3. PhasesKeep(T, [T EXCEPT ![g].pending = @ - 1], {})
    BY DEF Shaped, IsRecord, PhasesKeep, LiveGeneration
  <1> QED BY <1>1, <1>2, <1>3

\* New tasks beside the generation.
LEMMA BesidePhases ==
  ASSUME RunsInv, NEW n, NEW S \in NextIds(task, n), NEW new, IsRecord(new),
         new.status # "absent"
  PROVE  /\ Shaped(WithTasks(task, S, new))
         /\ PhasesKeep(task, WithTasks(task, S, new), {})
  BY BesideShape, NewTasksKeepPhases DEF RunsInv

LEMMA BlocksKeepsPhases ==
  ASSUME RunsInv, NEW g \in Tasks, NEW compacted, NEW l, Blocks(g, compacted, l)
  PROVE  PhasesKeep(task, task', {g})
  <1>1. PICK S \in NextIds(task, 1) :
          task' = [WithTasks(task, S, Compaction(g, compacted)) EXCEPT
                     ![g].phase = "prepare", ![g].compacted = compacted]
    BY DEF Blocks
  <1> DEFINE U == WithTasks(task, S, Compaction(g, compacted))
  <1>2. Shaped(U) /\ PhasesKeep(task, U, {})
    BY BesidePhases, NewRecords, NewStatuses
  <1>3. task' = [U EXCEPT ![g].phase = "prepare", ![g].compacted = compacted]
    BY <1>1
  <1> HIDE DEF U
  <1>4. PhasesKeep(U, task', {g})
    BY <1>2, <1>3, EditKeepsPhases
  <1> QED BY <1>2, <1>4, PhasesChain

LEMMA PrepareCommitKeepsPhases ==
  ASSUME RunsInv, NEW g \in Tasks, PrepareCommit(g)
  PROVE  PhasesKeep(task, task', {g})
  <1> DEFINE r == [task[g] EXCEPT !.phase = "request",
                                  !.compacted = IF @ = "no" THEN "no" ELSE "yes"]
  <1>1. r.status # "absent"
    BY GatedIsRun DEF IsRecord, PrepareCommit, Phase
  <1>2. \/ MovesOn(g, r)
        \/ \E S \in NextIds(task, 1) :
             task' = [WithTasks(task, S, Compaction(NoTask, "threshold")) EXCEPT ![g] = r]
    BY DEF PrepareCommit
  <1> HIDE DEF r
  <1>3. CASE MovesOn(g, r)
    BY <1>1, <1>3, PutKeepsPhases DEF MovesOn, RunsInv
  <1>4. ASSUME NEW S \in NextIds(task, 1),
               task' = [WithTasks(task, S, Compaction(NoTask, "threshold")) EXCEPT ![g] = r]
        PROVE  PhasesKeep(task, task', {g})
    <2> DEFINE U == WithTasks(task, S, Compaction(NoTask, "threshold"))
    <2>1. Shaped(U) /\ PhasesKeep(task, U, {})
      BY BesidePhases, NewRecords, NewStatuses
    <2>2. task' = [U EXCEPT ![g] = r]
      BY <1>4
    <2> HIDE DEF U
    <2>3. PhasesKeep(U, task', {g})
      BY <1>1, <2>1, <2>2, PutKeepsPhases
    <2> QED BY <2>1, <2>3, PhasesChain
  <1> QED BY <1>2, <1>3, <1>4

LEMMA StartRoundKeepsPhases ==
  ASSUME RunsInv, NEW g \in Tasks, StartRound(g)
  PROVE  PhasesKeep(task, task', {g})
  <1>1. PICK n \in Calls, started \in 0..2 : \E S \in NextIds(task, started) :
          task' = [WithTasks(task, S, Tool(g)) EXCEPT
                     ![g].phase = "tools",
                     ![g].pending = IF started = 0 THEN 0 ELSE n - started]
    BY DEF StartRound
  <1>2. PICK S \in NextIds(task, started) :
          task' = [WithTasks(task, S, Tool(g)) EXCEPT
                     ![g].phase = "tools",
                     ![g].pending = IF started = 0 THEN 0 ELSE n - started]
    BY <1>1
  <1> DEFINE U == WithTasks(task, S, Tool(g))
             x == IF started = 0 THEN 0 ELSE n - started
  <1>3. Shaped(U) /\ PhasesKeep(task, U, {})
    BY BesidePhases, NewRecords, NewStatuses
  <1>4. task' = [U EXCEPT ![g].phase = "tools", ![g].pending = x]
    BY <1>2
  <1> HIDE DEF U, x
  <1>5. PhasesKeep(U, task', {g})
    BY <1>3, <1>4, EditKeepsPhases
  <1> QED BY <1>3, <1>5, PhasesChain

LEMMA NextCallKeepsPhases ==
  ASSUME RunsInv, NEW g \in Tasks, NextCall(g)
  PROVE  PhasesKeep(task, task', {})
  <1>1. PICK S \in NextIds(task, 1) :
          task' = [WithTasks(task, S, Tool(g)) EXCEPT ![g].pending = @ - 1]
    BY DEF NextCall
  <1> DEFINE U == WithTasks(task, S, Tool(g))
  <1>2. Shaped(U) /\ PhasesKeep(task, U, {})
    BY BesidePhases, NewRecords, NewStatuses
  <1>3. task' = [U EXCEPT ![g].pending = @ - 1]
    BY <1>1
  <1> HIDE DEF U
  <1>4. PhasesKeep(U, task', {})
    BY <1>2, <1>3, EditKeepsPhases
  <1> QED BY <1>2, <1>4, PhasesChain

\* Steps of the request: what the handler holds changes, and only there.
LEMMA StreamKeeps ==
  ASSUME RunsInv, PartialInv, NEW g \in Tasks, Phase(g, "request"), NEW r, Remember(g, r),
         task' = task, run' = run
  PROVE  PartialInv'
  <1>1. run.task = g /\ task[g].status = "live" /\ task[g].phase = "request" /\ g # NoTask
    BY GatedIsRun, BoundsAssumption DEF Phase
  <1>2. /\ DOMAIN local' = Tasks
        /\ \A t \in Tasks \ {g} : local'[t] = local[t]
    BY DEF PartialInv, Remember
  <1>3. PartialIsTheRequests'
    BY <1>1 DEF PartialIsTheRequests, Busy
  <1> QED BY <1>1, <1>2, <1>3 DEF PartialInv, Streams, LiveGeneration

LEMMA ReadKeeps ==
  ASSUME RunsInv, RunsInv', PartialInv, NEW t \in Tasks, task[t].status = "live",
         NEW r, r.at = "read", Remember(t, r), UNCHANGED <<task, live>>
  PROVE  PartialInv'
  <1>1. LocalsKeep({})
    BY DEF PartialInv, Remember, LocalsKeep
  <1>2. PhasesKeep(task, task', {})
    BY DEF PhasesKeep
  <1> QED BY <1>1, <1>2, CalmKeeps DEF live

LEMMA GenerationStepKeepsPartial ==
  ASSUME RunsInv, RunsInv', PartialInv, NEW g \in Tasks, GenerationStep(g)
  PROVE  PartialInv'
  <1>1. CASE NoModel(g) \/ PrepareRejects(g) \/ ModelError(g)
    <2>1. \E l, reason : RunFails(g, l, reason)
      BY <1>1 DEF NoModel, PrepareRejects, ModelError
    <2>2. task' = Terminated(task, g, "ended") /\ ~partial' /\ Forget(g)
      BY <2>1 DEF RunFails
    <2>3. PhasesKeep(task, task', {})
      BY <2>2, EndKeepsPhases DEF RunsInv
    <2> QED BY <2>2, <2>3, EndedKeepsPartial
  <1>2. CASE PrepareRead(g)
    BY <1>2, ReadKeeps DEF PrepareRead, Phase, Gated, Live
  <1>3. CASE RequestBegin(g) \/ FlushBegin(g)
    <2>1. /\ Phase(g, "request") /\ \E r : Remember(g, r)
          /\ task' = task /\ run' = run
      BY <1>3 DEF RequestBegin, FlushBegin, live
    <2> QED BY <2>1, StreamKeeps
  <1>4. CASE FlushCommit(g)
    <2>1. Gated(g, "generation") /\ local[g].at = "flush"
      BY <1>4 DEF FlushCommit, Holds
    <2>2. Phase(g, "request")
      BY <2>1, GatedIsRun DEF PartialInv, Streams, LiveGeneration, Phase
    <2>3. (\E r : Remember(g, r)) /\ task' = task /\ run' = run
      BY <1>4 DEF FlushCommit
    <2> QED BY <2>2, <2>3, StreamKeeps
  <1>5. CASE PrepareBlocks(g) \/ Overflows(g)
    <2>1. PICK compacted, l : Blocks(g, compacted, l)
      BY <1>5 DEF PrepareBlocks, Overflows
    <2>2. Responds(g) \/ Phase(g, "prepare")
      BY <1>5 DEF PrepareBlocks, Overflows
    <2>3. local[g].at # "flush"
      BY <2>2, NoFlush
    <2>4. PhasesKeep(task, task', {g})
      BY <2>1, BlocksKeepsPhases
    <2>5. Forget(g) /\ ~partial'
      BY <2>1 DEF Blocks
    <2> QED BY <2>3, <2>4, <2>5, MovedKeeps
  <1>6. CASE PrepareCommit(g)
    <2>1. Phase(g, "prepare") /\ Forget(g) /\ partial' = partial
      BY <1>6 DEF PrepareCommit, MovesOn
    <2>2. ~partial /\ local[g].at # "flush"
      BY <2>1, NoFlush, NoPartial
    <2>3. PhasesKeep(task, task', {g})
      BY <1>6, PrepareCommitKeepsPhases
    <2> QED BY <2>1, <2>2, <2>3, MovedKeeps
  <1>7. CASE Deferred(g) \/ Retry(g) \/ RetryDue(g)
    <2>1. PICK phase : MovesOn(g, [task[g] EXCEPT !.phase = phase])
      BY <1>7 DEF Deferred, Retry, RetryDue
    <2>2. Responds(g) \/ Phase(g, "retry")
      BY <1>7 DEF Deferred, Retry, RetryDue
    <2>3. local[g].at # "flush"
      BY <2>2, NoFlush
    <2>4. ~partial'
      <3>1. CASE RetryDue(g)
        BY <3>1, NoPartial DEF RetryDue
      <3>2. CASE Deferred(g) \/ Retry(g)
        BY <3>2 DEF Deferred, Retry
      <3> QED BY <1>7, <3>1, <3>2
    <2>5. Gated(g, "generation")
      BY <2>2 DEF Responds, Phase
    <2> DEFINE r == [task[g] EXCEPT !.phase = phase]
    <2>6. r.status # "absent"
      BY <2>5, GatedIsRun DEF IsRecord
    <2>7. task' = [task EXCEPT ![g] = r] /\ Forget(g)
      BY <2>1 DEF MovesOn
    <2> HIDE DEF r
    <2>8. PhasesKeep(task, task', {g})
      BY <2>6, <2>7, PutKeepsPhases DEF RunsInv
    <2> QED BY <2>3, <2>4, <2>7, <2>8, MovedKeeps
  <1>8. ASSUME NEW continuation \in BOOLEAN, Answer(g, continuation) PROVE PartialInv'
    <2>1. \E b : (\E status, reason : RunEnds(g, b, status, reason)) \/ HandsOver(g, b)
      BY <1>8 DEF Answer
    <2>2. PhasesKeep(task, task', {})
      BY <2>1, SucceedsKeepsPhases
    <2>3. Forget(g) /\ ~partial'
      BY <1>8 DEF Answer, EndsGeneration
    <2> QED BY <2>2, <2>3, EndedKeepsPartial
  <1>9. CASE StartRound(g)
    <2>1. Responds(g) /\ Forget(g) /\ ~partial'
      BY <1>9 DEF StartRound
    <2>2. local[g].at # "flush"
      BY <2>1 DEF Responds, Phase, PartialInv, Gated, Holds, Live, LiveGeneration, Streams
    <2>3. PhasesKeep(task, task', {g})
      BY <1>9, StartRoundKeepsPhases
    <2> QED BY <2>1, <2>2, <2>3, MovedKeeps
  <1>10. CASE NextCall(g)
    <2>1. run' = run /\ partial' = partial /\ local' = local
      BY <1>10 DEF NextCall, live
    <2>2. LocalsKeep({})
      BY <2>1 DEF LocalsKeep, PartialInv
    <2>3. PhasesKeep(task, task', {})
      BY <1>10, NextCallKeepsPhases
    <2> QED BY <2>1, <2>2, <2>3, CalmKeeps
  <1>11. ASSUME NEW ending, FinishRound(g, ending) PROVE PartialInv'
    <2>1. \E b : (\E status, reason : RunEnds(g, b, status, reason)) \/ HandsOver(g, b)
      BY <1>11 DEF FinishRound
    <2>2. PhasesKeep(task, task', {})
      BY <2>1, SucceedsKeepsPhases
    <2>3. Forget(g) /\ ~partial'
      BY <1>11 DEF FinishRound, EndsGeneration
    <2> QED BY <2>2, <2>3, EndedKeepsPartial
  <1> QED BY <1>1, <1>2, <1>3, <1>4, <1>5, <1>6, <1>7, <1>8, <1>9, <1>10, <1>11
          DEF GenerationStep

LEMMA CompactionStepKeepsPartial ==
  ASSUME RunsInv, RunsInv', PartialInv, NEW c \in Tasks, CompactionStep(c)
  PROVE  PartialInv'
  <1>1. Shaped(task) /\ (partial => Busy)
    BY DEF RunsInv, PartialInv, PartialIsTheRequests
  <1>2. CASE SelectRead(c)
    BY <1>2, ReadKeeps DEF SelectRead, Selecting, Gated, Live
  <1>3. CASE SelectCommit(c)
    <2>1. /\ task[c].kind = "compaction" /\ Forget(c)
          /\ partial' = partial /\ run' = run
      BY <1>3 DEF SelectCommit, Selecting, Gated, live
    <2>2. PhasesKeep(task, task', {})
      BY <1>1, <1>3, <2>1 DEF SelectCommit, Shaped, IsRecord, PhasesKeep, LiveGeneration
    <2> QED BY <2>1, <2>2, ForgetKeeps, CalmKeeps
  <1>4. CASE Backoff(c)
    <2>1. /\ task[c].kind = "compaction" /\ local' = local
          /\ partial' = partial /\ run' = run
      BY <1>4 DEF Backoff, Gated, live
    <2>2. PhasesKeep(task, task', {})
      BY <1>1, <1>4, <2>1 DEF Backoff, Shaped, IsRecord, PhasesKeep, LiveGeneration
    <2>3. LocalsKeep({})
      BY <2>1 DEF LocalsKeep, PartialInv
    <2> QED BY <2>1, <2>2, <2>3, CalmKeeps
  <1>5. ASSUME NEW status \in {"completed", "ended"}, CompactionEnds(c, status)
        PROVE  PartialInv'
    <2>1. /\ task' = Terminated(task, c, status) /\ Forget(c)
          /\ partial' = partial /\ run' = run
      BY <1>5 DEF CompactionEnds, EndsCompaction
    <2>2. PhasesKeep(task, task', {})
      BY <1>1, <2>1, EndKeepsPhases
    <2> QED BY <2>1, <2>2, ForgetKeeps, CalmKeeps
  <1>6. CASE PlaceBlocking(c)
    <2> DEFINE T == Terminated(task, c, "completed")
    <2>1. /\ task' = [T EXCEPT ![c].placed = TRUE] /\ Forget(c)
          /\ partial' = partial /\ run' = run
      BY <1>6 DEF PlaceBlocking, EndsCompaction
    <2>2. Shaped(T) /\ PhasesKeep(task, T, {})
      BY <1>1, TerminatedRecord, EndKeepsPhases
    <2> HIDE DEF T
    <2>3. PhasesKeep(T, task', {})
      BY <2>1, <2>2 DEF Shaped, IsRecord, PhasesKeep, LiveGeneration
    <2>4. PhasesKeep(task, task', {})
      BY <2>2, <2>3, PhasesChain
    <2> QED BY <2>1, <2>4, ForgetKeeps, CalmKeeps
  <1>7. CASE PlaceSummary(c)
    <2> DEFINE T == Terminated(task, c, "completed")
    <2>1. Forget(c) /\ partial' = partial
      BY <1>7 DEF PlaceSummary
    <2>2. Shaped(T) /\ PhasesKeep(task, T, {})
      BY <1>1, TerminatedRecord, EndKeepsPhases
    <2>3. \E s, item : \/ AdmitBusy(s, item, "write") /\ task' = T
                       \/ AdmitBehind(s, item, "write", T)
                       \/ AdmitWrite(s, item, T)
      BY <1>7 DEF PlaceSummary
    <2> HIDE DEF T
    <2>4. PhasesKeep(T, task', {}) /\ (Busy => run' = run)
      BY <2>2, <2>3, AdmitKeepsPhases
    <2>5. PhasesKeep(task, task', {})
      BY <2>2, <2>4, PhasesChain
    <2> QED BY <1>1, <2>1, <2>4, <2>5, ForgetKeeps, CalmKeeps
  <1> QED BY <1>2, <1>3, <1>4, <1>5, <1>6, <1>7 DEF CompactionStep

LEMMA EndsKeepPartial ==
  ASSUME RunsInv, RunsInv', PartialInv, NEW t \in Tasks,
         \/ \E status \in {"completed", "ended"} : ToolEnds(t, status)
         \/ AbortHandler(t) \/ SchedulerEnds(t)
  PROVE  PartialInv'
  <1>1. CASE \E status \in {"completed", "ended"} : ToolEnds(t, status)
    <2>1. PICK status \in {"completed", "ended"} : ToolEnds(t, status)
      BY <1>1
    <2>2. /\ task' = Terminated(task, t, status) /\ local' = local
          /\ partial' = partial /\ run' = run
      BY <2>1 DEF ToolEnds, live
    <2>3. PhasesKeep(task, task', {})
      BY <2>2, EndKeepsPhases DEF RunsInv
    <2>4. LocalsKeep({})
      BY <2>2 DEF LocalsKeep, PartialInv
    <2> QED BY <2>2, <2>3, <2>4, CalmKeeps
  <1>2. CASE AbortHandler(t) \/ SchedulerEnds(t)
    <2>1. /\ task' = Terminated(task, t, "ended") /\ run' = RunAfter(t) /\ Forget(t)
          /\ partial' = IF task[t].kind = "generation" THEN FALSE ELSE partial
      BY <1>2 DEF AbortHandler, SchedulerEnds, Ended
    <2>2. PhasesKeep(task, task', {})
      BY <2>1, EndKeepsPhases DEF RunsInv
    <2>3. partial' => partial /\ run' = run
      <3>1. run.task = t => task[t].kind = "generation"
        BY DEF RunsInv, GenerationIs
      <3> QED BY <2>1, <3>1 DEF RunAfter
    <2> QED BY <2>1, <2>2, <2>3, ForgetKeeps, CalmKeeps
  <1> QED BY <1>1, <1>2

LEMMA PartialInvInit == Init => PartialInv
  BY DEF Init, PartialInv, PartialIsTheRequests, LiveGeneration, Absent, NoLocal

LEMMA PartialInvStep == RunsInv /\ RunsInv' /\ PartialInv /\ [Next]_vars => PartialInv'
  <1> SUFFICES ASSUME RunsInv, RunsInv', PartialInv, [Next]_vars PROVE PartialInv'
    OBVIOUS
  <1>1. CASE UNCHANGED vars
    BY <1>1 DEF vars, live, PartialInv, PartialIsTheRequests, Busy, Streams, LiveGeneration
  <1>2. CASE Host \/ Reconcile
    BY <1>2, HostKeepsPartial
  <1>3. ASSUME NEW t \in Tasks, GenerationStep(t) PROVE PartialInv'
    BY <1>3, GenerationStepKeepsPartial
  <1>4. ASSUME NEW t \in Tasks, CompactionStep(t) PROVE PartialInv'
    BY <1>4, CompactionStepKeepsPartial
  <1>5. ASSUME NEW t \in Tasks,
               \/ \E status \in {"completed", "ended"} : ToolEnds(t, status)
               \/ AbortHandler(t) \/ SchedulerEnds(t)
        PROVE  PartialInv'
    BY <1>5, EndsKeepPartial
  <1> HIDE DEF RunsInv, PartialInv
  <1> QED BY <1>1, <1>2, <1>3, <1>4, <1>5 DEF Next

\* No partial lands after its response was classified, whatever the throttle
\* had under way: a committed partial is of the request of the run's generation
\* (generation.ts streamResponse).
THEOREM PartialsAreOfTheRequest == Spec => []PartialIsTheRequests
  <1>1. PartialInv => PartialIsTheRequests
    BY DEF PartialInv
  <1>2. Spec => []PartialInv
    BY PartialInvInit, PartialInvStep, RunsInvHolds, PTL DEF Spec
  <1> QED BY <1>1, <1>2, PTL

-----------------------------------------------------------------------------
(* Prepared requests.  While a generation prepares with a read transcript in *)
(* hand, nothing it owns is live, and all other work has no owner.           *)

Reading(g) ==
  LiveGeneration(task, g) /\ task[g].phase = "prepare" /\ local[g].at = "read"

\* Only a generation runs tools.
Toolless(r) == r.kind # "generation" => r.phase # "tools"

OwnersInv ==
  \A t \in Tasks : Live(task, t) =>
    /\ Toolless(task[t])
    /\ task[t].kind = "tool" => task[t].owner # NoTask
    /\ task[t].owner # NoTask => task[t].owner = run.task

ReadInv ==
  \A g \in Tasks : Reading(g) => OwnedLive(task, g) = {} /\ local[g].tail = log.tail

\* A task of a new kind: nobody owns it, or one of G does.
NewBelow(r, G) ==
  Toolless(r) /\ r.owner \in G \cup {NoTask} /\ (r.owner = NoTask => r.kind # "tool")

\* Between the tasks T and U a live task keeps its owner, and new ones are
\* owned by G or by nobody.
Inherit(T, U, G) ==
  \A t \in Tasks : Live(U, t) =>
    \/ /\ Live(T, t) /\ U[t].owner = T[t].owner /\ U[t].kind = T[t].kind
       /\ Toolless(T[t]) => Toolless(U[t])
    \/ NewBelow(U[t], G)

LEMMA InheritChain ==
  ASSUME NEW T, NEW U, NEW V, NEW G, Inherit(T, U, G), Inherit(U, V, G)
  PROVE  Inherit(T, V, G)
  BY DEF Inherit, NewBelow

LEMMA EndInherits ==
  ASSUME NEW T, Shaped(T), NEW t \in Tasks, NEW status, status # "live", NEW G
  PROVE  Inherit(T, Terminated(T, t, status), G)
  BY TerminatedRecord DEF Inherit, Live

LEMMA NewInherits ==
  ASSUME NEW T, Shaped(T), NEW n, NEW S \in NextIds(T, n), NEW G, NEW r, NewBelow(r, G)
  PROVE  Inherit(T, WithTasks(T, S, r), G)
  BY DEF Inherit, WithTasks, Live

LEMMA NewOwners ==
  /\ \A G : NewBelow(Generation, G)
  /\ \A reason, G : NewBelow(Compaction(NoTask, reason), G)
  /\ \A g, G : g \in G /\ g # NoTask => NewBelow(Tool(g), G)
  /\ \A g, G, reason : g \in G => NewBelow(Compaction(g, reason), G)
  BY DEF NewBelow, Toolless, Generation, Compaction, Tool, Absent

\* What is written in the place of a generation's record.
LEMMA PutInherits ==
  ASSUME NEW T, NEW U, NEW g \in Tasks, T[g].kind = "generation", T[g].status = "live", NEW G,
         U[g].kind = "generation", U[g].owner = T[g].owner,
         \A t \in Tasks \ {g} : U[t] = T[t]
  PROVE  Inherit(T, U, G)
  BY DEF Inherit, Live, Toolless

LEMMA StartRunInherits ==
  ASSUME NEW T, Shaped(T), NEW users, NEW rest, StartRun(T, users, rest), NEW G
  PROVE  Inherit(T, task', G)
  <1>1. CASE task' = T
    BY <1>1 DEF Inherit
  <1>2. CASE \E S \in NextIds(T, 1) : task' = WithTasks(T, S, Generation)
    BY <1>2, NewInherits, NewOwners
  <1> QED BY <1>1, <1>2 DEF StartRun

LEMMA AdmitInherits ==
  ASSUME NEW T, Shaped(T), NEW s, NEW item, NEW type, NEW G,
         \/ AdmitBusy(s, item, type) /\ task' = T
         \/ AdmitBehind(s, item, type, T)
         \/ AdmitWrite(s, item, T)
  PROVE  Inherit(T, task', G) /\ (Busy => log' = log)
  <1>1. CASE AdmitBusy(s, item, type) /\ task' = T
    BY <1>1 DEF AdmitBusy, Inherit
  <1>2. CASE AdmitBehind(s, item, type, T)
    <2>1. ~Busy /\ \E users : StartRun(T, users, run)
      BY <1>2 DEF AdmitBehind, AdmitsIdle
    <2> QED BY <2>1, StartRunInherits
  <1>3. CASE AdmitWrite(s, item, T)
    BY <1>3 DEF AdmitWrite, AdmitsIdle, Inherit
  <1> QED BY <1>1, <1>2, <1>3

\* While one reads, all that is live has no owner.
LEMMA ReaderIsAlone ==
  ASSUME RunsInv, OwnersInv, ReadInv, NEW g \in Tasks, Reading(g)
  PROVE  /\ run.task = g /\ Busy
         /\ \A t \in Tasks : Live(task, t) =>
              task[t].owner = NoTask /\ task[t].kind # "tool" /\ Toolless(task[t])
  <1>1. run.task = g /\ Busy
    BY DEF Reading, LiveGeneration, RunsInv, GenerationIs, Busy
  <1>2. ASSUME NEW t \in Tasks, Live(task, t), task[t].owner # NoTask PROVE FALSE
    BY <1>1, <1>2 DEF OwnersInv, ReadInv, OwnedLive
  <1> QED BY <1>1, <1>2 DEF OwnersInv

\* A generation that ends has no live work, what it owns stays its own, and who
\* still reads has the transcript it read.
PreparedKeeps ==
  \E G \in SUBSET Tasks :
    /\ Inherit(task, task', G) /\ \A g \in G : g = run'.task
    /\ run.task = NoTask \/ run'.task = run.task \/ OwnedLive(task, run.task) = {}
    /\ \A g \in Tasks : Reading(g)' =>
         \/ PrepareRead(g)
         \/ Reading(g) /\ g \notin G /\ local'[g] = local[g] /\ log'.tail = log.tail

LEMMA PreparedStep ==
  ASSUME RunsInv, RunsInv', PartialInv, OwnersInv, ReadInv, PreparedKeeps
  PROVE  OwnersInv' /\ ReadInv'
  <1>1. PICK G \in SUBSET Tasks :
          /\ Inherit(task, task', G) /\ \A g \in G : g = run'.task
          /\ run.task = NoTask \/ run'.task = run.task \/ OwnedLive(task, run.task) = {}
          /\ \A g \in Tasks : Reading(g)' =>
               \/ PrepareRead(g)
               \/ Reading(g) /\ g \notin G /\ local'[g] = local[g] /\ log'.tail = log.tail
    BY DEF PreparedKeeps
  <1>2. ASSUME NEW t \in Tasks, Live(task', t)
        PROVE  /\ Toolless(task'[t])
               /\ task'[t].kind = "tool" => task'[t].owner # NoTask
               /\ task'[t].owner # NoTask => task'[t].owner = run'.task
    <2>1. CASE NewBelow(task'[t], G)
      BY <1>1, <2>1 DEF NewBelow
    <2>2. CASE /\ Live(task, t) /\ task'[t].owner = task[t].owner /\ task'[t].kind = task[t].kind
               /\ Toolless(task[t]) => Toolless(task'[t])
      <3>1. /\ Toolless(task[t]) /\ (task[t].kind = "tool" => task[t].owner # NoTask)
            /\ task[t].owner # NoTask => task[t].owner = run.task
        BY <2>2 DEF OwnersInv
      <3>2. task[t].owner # NoTask => run'.task = run.task
        BY <1>1, <2>2, <3>1 DEF OwnedLive
      <3> QED BY <2>2, <3>1, <3>2
    <2> QED BY <1>1, <1>2, <2>1, <2>2 DEF Inherit
  <1>3. ASSUME NEW g \in Tasks, Reading(g)'
        PROVE  OwnedLive(task', g) = {} /\ local'[g].tail = log'.tail
    <2>1. CASE PrepareRead(g)
      <3>1. /\ OwnedLive(task, g) = {} /\ task' = task /\ log' = log
            /\ local' = [local EXCEPT ![g] = [at |-> "read", tail |-> log.tail, base |-> 0]]
        BY <2>1 DEF PrepareRead, Phase, Gated, Remember
      <3> QED BY <3>1 DEF PartialInv
    <2>2. CASE Reading(g) /\ g \notin G /\ local'[g] = local[g] /\ log'.tail = log.tail
      <3>1. OwnedLive(task, g) = {} /\ local[g].tail = log.tail
        BY <2>2 DEF ReadInv
      <3>2. g # NoTask
        BY BoundsAssumption
      <3>3. ASSUME NEW t \in Tasks, Live(task', t), task'[t].owner = g PROVE FALSE
        BY <1>1, <2>2, <3>1, <3>2, <3>3 DEF Inherit, NewBelow, OwnedLive
      <3> QED BY <2>2, <3>1, <3>3 DEF OwnedLive
    <2> QED BY <1>1, <1>3, <2>1, <2>2
  <1> QED BY <1>2, <1>3 DEF OwnersInv, ReadInv


\* A commit of anything but the generation that reads.
LEMMA OthersPrepare ==
  ASSUME Inherit(task, task', {}),
         run.task = NoTask \/ run'.task = run.task \/ OwnedLive(task, run.task) = {},
         \A g \in Tasks : Reading(g)' =>
           Reading(g) /\ local'[g] = local[g] /\ log'.tail = log.tail
  PROVE  PreparedKeeps
  BY DEF PreparedKeeps

\* A commit of the generation, after which nobody reads but who just read.
LEMMA GenerationPrepares ==
  ASSUME RunsInv, NEW g \in Tasks, Gated(g, "generation"), NEW G \in SUBSET {g},
         Inherit(task, task', G), G = {} \/ run'.task = g,
         \A x \in Tasks : Reading(x)' => PrepareRead(x)
  PROVE  PreparedKeeps
  <1>1. run.task = g /\ OwnedLive(task, g) = {}
    BY GatedIsRun DEF Gated
  <1>2. G \in SUBSET Tasks /\ \A x \in G : x = run'.task
    OBVIOUS
  <1> QED BY <1>1, <1>2 DEF PreparedKeeps

\* Who reads after a commit that lets the handler of task t move on read before.
LEMMA ReaderWasReading ==
  ASSUME PartialInv, PhasesKeep(task, task', {}), NEW t \in Tasks,
         Forget(t) \/ local' = local, NEW g \in Tasks, Reading(g)'
  PROVE  Reading(g) /\ local'[g] = local[g]
  <1>1. local'[g].at = "read" /\ LiveGeneration(task', g) /\ task'[g].phase = "prepare"
    BY DEF Reading
  <1>2. local'[g] = local[g]
    <2>1. ASSUME Forget(t) PROVE (g # t => local'[g] = local[g]) /\ local'[t].at # "read"
      BY <2>1 DEF Forget, PartialInv, NoLocal
    <2> QED BY <1>1, <2>1
  <1>3. task[g].status # "absent"
    BY <1>1, <1>2 DEF PartialInv
  <1>4. LiveGeneration(task, g) /\ task'[g].phase = task[g].phase
    BY <1>1, <1>3 DEF PhasesKeep
  <1> QED BY <1>1, <1>2, <1>4 DEF Reading

\* The generation moved on, or holds something else: nobody reads.
LEMMA NobodyReads ==
  ASSUME RunsInv, PartialInv, NEW g \in Tasks, Gated(g, "generation"),
         PhasesKeep(task, task', {g}),
         Forget(g) \/ \E r : r.at # "read" /\ Remember(g, r)
  PROVE  \A x \in Tasks : ~Reading(x)'
  <1> SUFFICES ASSUME NEW x \in Tasks, Reading(x)' PROVE FALSE
    OBVIOUS
  <1>1. local'[x].at = "read" /\ LiveGeneration(task', x)
    BY DEF Reading
  <1>2. x # g /\ local'[x] = local[x]
    <2>1. ASSUME Forget(g)
          PROVE  (x # g => local'[x] = local[x]) /\ local'[g].at # "read"
      BY <2>1 DEF Forget, PartialInv, NoLocal
    <2>2. ASSUME NEW r, r.at # "read", Remember(g, r)
          PROVE  (x # g => local'[x] = local[x]) /\ local'[g].at # "read"
      BY <2>2 DEF Remember, PartialInv
    <2> QED BY <1>1, <2>1, <2>2
  <1>3. task[x].status # "absent"
    BY <1>1, <1>2 DEF PartialInv
  <1>4. LiveGeneration(task, x)
    BY <1>1, <1>2, <1>3 DEF PhasesKeep
  <1>5. x = run.task
    BY <1>4 DEF RunsInv, GenerationIs, LiveGeneration
  <1> QED BY <1>2, <1>5, GatedIsRun

\* New tasks leave the generation g as it is.
LEMMA BesideStays ==
  ASSUME RunsInv, NEW g \in Tasks, Gated(g, "generation"), NEW n, NEW S \in NextIds(task, n),
         NEW new, IsRecord(new)
  PROVE  /\ Shaped(WithTasks(task, S, new))
         /\ WithTasks(task, S, new)[g] = task[g]
         /\ IsRecord(task[g]) /\ task[g].kind = "generation" /\ task[g].status = "live"
  <1>1. task[g].status = "live" /\ IsRecord(task[g]) /\ task[g].kind = "generation"
    BY GatedIsRun
  <1>2. g \notin S
    BY <1>1, NextIdsFresh
  <1>3. WithTasks(task, S, new)[g] = task[g]
    BY <1>2 DEF WithTasks
  <1> QED BY <1>1, <1>3, BesideShape

\* New tasks beside the generation g, whose record is put in place.
LEMMA BesideInherits ==
  ASSUME RunsInv, NEW g \in Tasks, Gated(g, "generation"), NEW n, NEW S \in NextIds(task, n),
         NEW new, IsRecord(new), NEW G, NewBelow(new, G), NEW U,
         U[g].kind = "generation", U[g].owner = task[g].owner,
         \A t \in Tasks \ {g} : U[t] = WithTasks(task, S, new)[t]
  PROVE  Inherit(task, U, G)
  <1> DEFINE T == WithTasks(task, S, new)
  <1>1. Shaped(task)
    BY DEF RunsInv
  <1>2. T[g] = task[g] /\ task[g].kind = "generation" /\ task[g].status = "live"
    BY BesideStays
  <1>3. Inherit(task, T, G)
    BY <1>1, NewInherits
  <1> HIDE DEF T
  <1>4. Inherit(T, U, G)
    BY <1>1, <1>2, PutInherits DEF T
  <1> QED BY <1>3, <1>4, InheritChain

-----------------------------------------------------------------------------
(* The generation keeps what it prepared.                                    *)

LEMMA BlocksPrepares ==
  ASSUME RunsInv, PartialInv, NEW g \in Tasks, Gated(g, "generation"), NEW compacted, NEW l,
         Blocks(g, compacted, l)
  PROVE  PreparedKeeps
  <1>1. PICK S \in NextIds(task, 1) :
          task' = [WithTasks(task, S, Compaction(g, compacted)) EXCEPT
                     ![g].phase = "prepare", ![g].compacted = compacted]
    BY DEF Blocks
  <1> DEFINE new == Compaction(g, compacted)
             T == WithTasks(task, S, new)
  <1>2. IsRecord(new) /\ NewBelow(new, {g})
    BY NewRecords, NewOwners
  <1>3. Shaped(T) /\ T[g] = task[g] /\ IsRecord(task[g]) /\ task[g].kind = "generation"
    BY <1>2, BesideStays
  <1>4. /\ task'[g].kind = "generation" /\ task'[g].owner = task[g].owner
        /\ \A t \in Tasks \ {g} : task'[t] = T[t]
    BY <1>1, <1>3 DEF Shaped, IsRecord
  <1>5. Inherit(task, task', {g})
    BY <1>2, <1>4, BesideInherits
  <1>6. \A x \in Tasks : ~Reading(x)'
    BY BlocksKeepsPhases, NobodyReads DEF Blocks
  <1>7. run'.task = g
    BY GatedIsRun DEF Blocks
  <1> QED BY <1>5, <1>6, <1>7, GenerationPrepares

LEMMA MovesOnPrepares ==
  ASSUME RunsInv, PartialInv, NEW g \in Tasks, Gated(g, "generation"), NEW r, IsRecord(r),
         r.kind = "generation", r.status = "live", r.owner = task[g].owner, MovesOn(g, r)
  PROVE  PreparedKeeps
  <1>1. task' = [task EXCEPT ![g] = r] /\ Forget(g)
    BY DEF MovesOn
  <1>2. task[g].kind = "generation" /\ task[g].status = "live" /\ Shaped(task)
    BY GatedIsRun DEF RunsInv
  <1>3. task'[g] = r /\ \A t \in Tasks \ {g} : task'[t] = task[t]
    BY <1>1, <1>2 DEF Shaped
  <1>4. Inherit(task, task', {})
    BY <1>2, <1>3, PutInherits
  <1>5. PhasesKeep(task, task', {g})
    BY <1>1, <1>2, PutKeepsPhases
  <1>6. \A x \in Tasks : ~Reading(x)'
    BY <1>1, <1>5, NobodyReads
  <1> QED BY <1>4, <1>6, GenerationPrepares

LEMMA PrepareCommitPrepares ==
  ASSUME RunsInv, PartialInv, NEW g \in Tasks, PrepareCommit(g)
  PROVE  PreparedKeeps
  <1> DEFINE r == [task[g] EXCEPT !.phase = "request",
                                  !.compacted = IF @ = "no" THEN "no" ELSE "yes"]
  <1>1. Gated(g, "generation")
    BY DEF PrepareCommit, Phase
  <1>2. IsRecord(r) /\ r.kind = "generation" /\ r.status = "live" /\ r.owner = task[g].owner
    BY <1>1, GatedIsRun DEF IsRecord
  <1>3. \/ MovesOn(g, r)
        \/ \E S \in NextIds(task, 1) :
             /\ task' = [WithTasks(task, S, Compaction(NoTask, "threshold")) EXCEPT ![g] = r]
             /\ Forget(g)
    BY DEF PrepareCommit
  <1> HIDE DEF r
  <1>4. CASE MovesOn(g, r)
    BY <1>1, <1>2, <1>4, MovesOnPrepares
  <1>5. ASSUME NEW S \in NextIds(task, 1), Forget(g),
               task' = [WithTasks(task, S, Compaction(NoTask, "threshold")) EXCEPT ![g] = r]
        PROVE  PreparedKeeps
    <2> DEFINE new == Compaction(NoTask, "threshold")
               T == WithTasks(task, S, new)
    <2>1. IsRecord(new) /\ NewBelow(new, {})
      BY NewRecords, NewOwners
    <2>2. DOMAIN T = Tasks
      BY DEF WithTasks
    <2>3. task'[g] = r /\ \A t \in Tasks \ {g} : task'[t] = T[t]
      BY <1>5, <2>2
    <2>4. Inherit(task, task', {})
      BY <1>1, <1>2, <2>1, <2>3, BesideInherits
    <2>5. \A x \in Tasks : ~Reading(x)'
      BY <1>1, <1>5, PrepareCommitKeepsPhases, NobodyReads
    <2> QED BY <1>1, <2>4, <2>5, GenerationPrepares
  <1> QED BY <1>3, <1>4, <1>5

LEMMA StartRoundPrepares ==
  ASSUME RunsInv, PartialInv, NEW g \in Tasks, StartRound(g)
  PROVE  PreparedKeeps
  <1>1. Gated(g, "generation") /\ Forget(g) /\ run' = run
    BY DEF StartRound, Responds, Phase
  <1>2. PICK n \in Calls, started \in 0..2 : \E S \in NextIds(task, started) :
          task' = [WithTasks(task, S, Tool(g)) EXCEPT
                     ![g].phase = "tools",
                     ![g].pending = IF started = 0 THEN 0 ELSE n - started]
    BY DEF StartRound
  <1>3. PICK S \in NextIds(task, started) :
          task' = [WithTasks(task, S, Tool(g)) EXCEPT
                     ![g].phase = "tools",
                     ![g].pending = IF started = 0 THEN 0 ELSE n - started]
    BY <1>2
  <1> DEFINE new == Tool(g)
             T == WithTasks(task, S, new)
  <1>4. IsRecord(new) /\ NewBelow(new, {g})
    BY NewRecords, NewOwners, BoundsAssumption DEF Tasks, NoTask
  <1>5. Shaped(T) /\ T[g] = task[g] /\ IsRecord(task[g]) /\ task[g].kind = "generation"
    BY <1>1, <1>4, BesideStays
  <1>6. /\ task'[g].kind = "generation" /\ task'[g].owner = task[g].owner
        /\ \A t \in Tasks \ {g} : task'[t] = T[t]
    BY <1>3, <1>5 DEF Shaped, IsRecord
  <1>7. Inherit(task, task', {g})
    BY <1>1, <1>4, <1>6, BesideInherits
  <1>8. \A x \in Tasks : ~Reading(x)'
    BY <1>1, StartRoundKeepsPhases, NobodyReads
  <1> QED BY <1>1, <1>7, <1>8, GatedIsRun, GenerationPrepares

\* The next call of a round starts: the generation is past its request.
LEMMA NextCallPrepares ==
  ASSUME RunsInv, PartialInv, NEW g \in Tasks, NextCall(g)
  PROVE  PreparedKeeps
  <1>1. Gated(g, "generation") /\ task[g].phase = "tools" /\ run' = run /\ local' = local
    BY DEF NextCall, Phase, live
  <1>2. PICK S \in NextIds(task, 1) :
          task' = [WithTasks(task, S, Tool(g)) EXCEPT ![g].pending = @ - 1]
    BY DEF NextCall
  <1> DEFINE new == Tool(g)
             T == WithTasks(task, S, new)
  <1>3. IsRecord(new) /\ NewBelow(new, {g})
    BY NewRecords, NewOwners, BoundsAssumption DEF Tasks, NoTask
  <1>4. Shaped(T) /\ T[g] = task[g] /\ IsRecord(task[g]) /\ task[g].kind = "generation"
    BY <1>1, <1>3, BesideStays
  <1>5. /\ task'[g].kind = "generation" /\ task'[g].owner = task[g].owner
        /\ \A t \in Tasks \ {g} : task'[t] = T[t]
    BY <1>2, <1>4 DEF Shaped, IsRecord
  <1>6. Inherit(task, task', {g})
    BY <1>1, <1>3, <1>5, BesideInherits
  <1>7. ASSUME NEW x \in Tasks, Reading(x)' PROVE FALSE
    <2>1. Reading(x)
      BY <1>1, <1>7, NextCallKeepsPhases, ReaderWasReading
    <2>2. x = g
      BY <1>1, <2>1, GatedIsRun DEF Reading, LiveGeneration, RunsInv, GenerationIs
    <2> QED BY <1>1, <2>1, <2>2 DEF Reading
  <1> QED BY <1>1, <1>6, <1>7, GatedIsRun, GenerationPrepares

\* A run that ends at a boundary, or moves to a new generation.
LEMMA SucceedsPrepares ==
  ASSUME RunsInv, PartialInv, NEW g \in Tasks, Gated(g, "generation"), Forget(g), NEW b,
         (\E status, reason : RunEnds(g, b, status, reason)) \/ HandsOver(g, b)
  PROVE  PreparedKeeps
  <1> DEFINE T == Terminated(task, g, "completed")
  <1>1. Shaped(T) /\ Inherit(task, T, {})
    BY TerminatedRecord, EndInherits DEF RunsInv
  <1>2. Inherit(task, task', {})
    <2>1. CASE \E status, reason : RunEnds(g, b, status, reason)
      <3>1. StartRun(T, b.users, RunAfter(g))
        BY <2>1 DEF RunEnds
      <3> HIDE DEF T
      <3> QED BY <1>1, <3>1, StartRunInherits, InheritChain
    <2>2. CASE HandsOver(g, b)
      <3>1. PICK S \in NextIds(task, 1) : task' = WithTasks(T, S, Generation)
        BY <2>2 DEF HandsOver
      <3>2. NewBelow(Generation, {})
        BY NewOwners
      <3> HIDE DEF T
      <3>3. Inherit(T, task', {})
        BY <3>1, <3>2 DEF Inherit, WithTasks, Live
      <3> QED BY <1>1, <3>3, InheritChain
    <2> QED BY <2>1, <2>2
  <1>3. PhasesKeep(task, task', {g})
    BY SucceedsKeepsPhases DEF PhasesKeep
  <1>4. \A x \in Tasks : ~Reading(x)'
    BY <1>3, NobodyReads
  <1> QED BY <1>2, <1>4, GenerationPrepares

LEMMA GenerationStepPrepares ==
  ASSUME RunsInv, PartialInv, NEW g \in Tasks, GenerationStep(g)
  PROVE  PreparedKeeps
  <1>1. CASE NoModel(g) \/ PrepareRejects(g) \/ ModelError(g)
    <2>1. Gated(g, "generation") /\ \E l, reason : RunFails(g, l, reason)
      BY <1>1 DEF NoModel, PrepareRejects, ModelError, Responds, Phase
    <2>2. task' = Terminated(task, g, "ended") /\ Forget(g)
      BY <2>1 DEF RunFails
    <2>3. Inherit(task, task', {})
      BY <2>2, EndInherits DEF RunsInv
    <2>4. PhasesKeep(task, task', {g})
      BY <2>2, EndKeepsPhases DEF RunsInv, PhasesKeep
    <2> QED BY <2>1, <2>2, <2>3, <2>4, NobodyReads, GenerationPrepares
  <1>2. CASE PrepareRead(g)
    <2>1. /\ Gated(g, "generation") /\ task' = task
          /\ \E r : Remember(g, r)
      BY <1>2 DEF PrepareRead, Phase
    <2>2. Inherit(task, task', {})
      BY <2>1 DEF Inherit
    <2>3. ASSUME NEW x \in Tasks, Reading(x)' PROVE x = g
      BY <2>1, <2>3, GatedIsRun DEF Reading, LiveGeneration, RunsInv, GenerationIs
    <2> QED BY <1>2, <2>1, <2>2, <2>3, GenerationPrepares
  <1>3. CASE RequestBegin(g) \/ FlushBegin(g) \/ FlushCommit(g)
    <2>1. /\ Gated(g, "generation") /\ task' = task
          /\ \E r : r.at # "read" /\ Remember(g, r)
      BY <1>3 DEF RequestBegin, FlushBegin, FlushCommit, Phase, NoLocal
    <2>2. Inherit(task, task', {}) /\ PhasesKeep(task, task', {g})
      BY <2>1 DEF Inherit, PhasesKeep
    <2> QED BY <2>1, <2>2, NobodyReads, GenerationPrepares
  <1>4. CASE PrepareBlocks(g) \/ Overflows(g)
    <2>1. Gated(g, "generation") /\ \E compacted, l : Blocks(g, compacted, l)
      BY <1>4 DEF PrepareBlocks, Overflows, Responds, Phase
    <2> QED BY <2>1, BlocksPrepares
  <1>5. CASE PrepareCommit(g)
    BY <1>5, PrepareCommitPrepares
  <1>6. CASE Deferred(g) \/ Retry(g) \/ RetryDue(g)
    <2>1. Gated(g, "generation")
      BY <1>6 DEF Deferred, Retry, RetryDue, Responds, Phase
    <2>2. PICK phase : MovesOn(g, [task[g] EXCEPT !.phase = phase])
      BY <1>6 DEF Deferred, Retry, RetryDue
    <2> DEFINE r == [task[g] EXCEPT !.phase = phase]
    <2>3. IsRecord(r) /\ r.kind = "generation" /\ r.status = "live" /\ r.owner = task[g].owner
      BY <2>1, GatedIsRun DEF IsRecord
    <2>4. MovesOn(g, r)
      BY <2>2
    <2> HIDE DEF r
    <2> QED BY <2>1, <2>3, <2>4, MovesOnPrepares
  <1>7. ASSUME NEW continuation \in BOOLEAN, Answer(g, continuation) PROVE PreparedKeeps
    <2>1. Gated(g, "generation") /\ Forget(g)
      BY <1>7 DEF Answer, Responds, Phase, EndsGeneration
    <2>2. \E b : (\E status, reason : RunEnds(g, b, status, reason)) \/ HandsOver(g, b)
      BY <1>7 DEF Answer
    <2> QED BY <2>1, <2>2, SucceedsPrepares
  <1>8. CASE StartRound(g) \/ NextCall(g)
    BY <1>8, StartRoundPrepares, NextCallPrepares
  <1>9. ASSUME NEW ending, FinishRound(g, ending) PROVE PreparedKeeps
    <2>1. Gated(g, "generation") /\ Forget(g)
      BY <1>9 DEF FinishRound, Phase, EndsGeneration
    <2>2. \E b : (\E status, reason : RunEnds(g, b, status, reason)) \/ HandsOver(g, b)
      BY <1>9 DEF FinishRound
    <2> QED BY <2>1, <2>2, SucceedsPrepares
  <1> QED BY <1>1, <1>2, <1>3, <1>4, <1>5, <1>6, <1>7, <1>8, <1>9 DEF GenerationStep

-----------------------------------------------------------------------------
(* Nobody else writes while it prepares.                                     *)

LEMMA CompactionStepPrepares ==
  ASSUME RunsInv, PartialInv, OwnersInv, ReadInv, NEW c \in Tasks, CompactionStep(c)
  PROVE  PreparedKeeps
  <1>1. Shaped(task) /\ task[c].kind = "compaction" /\ Live(task, c)
    BY DEF RunsInv, CompactionStep, SelectRead, SelectCommit, Selecting, Backoff, PlaceBlocking,
           PlaceSummary, HasSummary, CompactionEnds, Gated
  <1>2. CASE SelectRead(c)
    <2>1. /\ task' = task /\ log' = log /\ run' = run
          /\ \E r : Remember(c, r)
      BY <1>2 DEF SelectRead, live
    <2>2. ASSUME NEW g \in Tasks, Reading(g)' PROVE Reading(g) /\ local'[g] = local[g]
      <3>1. LiveGeneration(task, g) /\ task[g].phase = "prepare"
        BY <2>1, <2>2 DEF Reading, LiveGeneration
      <3>2. local'[g] = local[g]
        BY <1>1, <2>1, <3>1 DEF Remember, LiveGeneration, PartialInv
      <3> QED BY <2>2, <3>1, <3>2 DEF Reading
    <2>3. Inherit(task, task', {})
      BY <2>1 DEF Inherit
    <2> QED BY <2>1, <2>2, <2>3, OthersPrepare
  <1>3. CASE SelectCommit(c) \/ Backoff(c)
    <2>1. /\ log' = log /\ run' = run /\ (Forget(c) \/ local' = local)
          /\ DOMAIN task' = Tasks /\ \A t \in Tasks \ {c} : task'[t] = task[t]
          /\ task'[c].kind = "compaction" /\ task'[c].owner = task[c].owner
          /\ task'[c].status = task[c].status /\ task'[c].phase # "tools"
      <3>1. CASE SelectCommit(c)
        BY <1>1, <3>1 DEF SelectCommit, live, Shaped, IsRecord
      <3>2. CASE Backoff(c)
        BY <1>1, <3>2 DEF Backoff, live, Shaped, IsRecord
      <3> QED BY <1>3, <3>1, <3>2
    <2>2. Inherit(task, task', {})
      BY <1>1, <2>1 DEF Inherit, Live, Toolless
    <2>3. PhasesKeep(task, task', {})
      BY <1>1, <2>1 DEF PhasesKeep, LiveGeneration
    <2> QED BY <2>1, <2>2, <2>3, ReaderWasReading, OthersPrepare
  <1>4. ASSUME NEW status \in {"completed", "ended"}, CompactionEnds(c, status)
        PROVE  PreparedKeeps
    <2>1. task' = Terminated(task, c, status) /\ log' = log /\ run' = run /\ Forget(c)
      BY <1>4 DEF CompactionEnds, EndsCompaction
    <2>2. Inherit(task, task', {}) /\ PhasesKeep(task, task', {})
      BY <1>1, <2>1, EndInherits, EndKeepsPhases
    <2> QED BY <2>1, <2>2, ReaderWasReading, OthersPrepare
  <1>5. CASE PlaceBlocking(c)
    <2> DEFINE T == Terminated(task, c, "completed")
    <2>1. /\ task' = [T EXCEPT ![c].placed = TRUE] /\ run' = run
          /\ Forget(c) /\ task[c].owner # NoTask
      BY <1>5 DEF PlaceBlocking, EndsCompaction
    <2>2. Shaped(T) /\ Inherit(task, T, {}) /\ PhasesKeep(task, T, {})
      BY <1>1, TerminatedRecord, EndInherits, EndKeepsPhases
    <2> HIDE DEF T
    <2>3. Inherit(T, task', {}) /\ PhasesKeep(T, task', {})
      BY <2>1, <2>2 DEF Shaped, IsRecord, PhasesKeep, LiveGeneration, Inherit, Live, Toolless
    <2>4. Inherit(task, task', {}) /\ PhasesKeep(task, task', {})
      BY <2>2, <2>3, InheritChain, PhasesChain
    <2>5. ASSUME NEW g \in Tasks, Reading(g)' PROVE FALSE
      BY <1>1, <2>1, <2>4, <2>5, ReaderWasReading, ReaderIsAlone
    <2> QED BY <2>1, <2>4, <2>5, OthersPrepare
  <1>6. CASE PlaceSummary(c)
    <2> DEFINE T == Terminated(task, c, "completed")
    <2>1. Shaped(T) /\ Inherit(task, T, {}) /\ PhasesKeep(task, T, {})
      BY <1>1, TerminatedRecord, EndInherits, EndKeepsPhases
    <2>2. Forget(c) /\ \E s, item : \/ AdmitBusy(s, item, "write") /\ task' = T
                                    \/ AdmitBehind(s, item, "write", T)
                                    \/ AdmitWrite(s, item, T)
      BY <1>6 DEF PlaceSummary
    <2> HIDE DEF T
    <2>3. /\ Inherit(T, task', {}) /\ PhasesKeep(T, task', {})
          /\ Busy => run' = run /\ log' = log
      BY <2>1, <2>2, AdmitInherits, AdmitKeepsPhases
    <2>4. Inherit(task, task', {}) /\ PhasesKeep(task, task', {})
      BY <2>1, <2>3, InheritChain, PhasesChain
    <2>5. ASSUME NEW g \in Tasks, Reading(g)'
          PROVE  Reading(g) /\ local'[g] = local[g] /\ log' = log
      <3>1. Reading(g) /\ local'[g] = local[g]
        BY <2>2, <2>4, <2>5, ReaderWasReading
      <3> QED BY <2>3, <3>1, ReaderIsAlone
    <2>6. run.task = NoTask \/ run'.task = run.task
      BY <2>3 DEF Busy
    <2> QED BY <2>4, <2>5, <2>6, OthersPrepare
  <1> QED BY <1>2, <1>3, <1>4, <1>5, <1>6 DEF CompactionStep

LEMMA EndsPrepare ==
  ASSUME RunsInv, PartialInv, OwnersInv, ReadInv, NEW t \in Tasks,
         \/ \E status \in {"completed", "ended"} : ToolEnds(t, status)
         \/ AbortHandler(t) \/ SchedulerEnds(t)
  PROVE  PreparedKeeps
  <1>1. PICK status \in {"completed", "ended"} :
          task' = Terminated(task, t, status)
    BY DEF ToolEnds, AbortHandler, SchedulerEnds, Ended
  <1>2. /\ Live(task, t) /\ OwnedLive(task, t) = {} /\ (Forget(t) \/ local' = local)
        /\ run' = run \/ run' = RunAfter(t)
    BY DEF ToolEnds, Gated, AbortHandler, SchedulerEnds, Ended, live
  <1>3. Inherit(task, task', {}) /\ PhasesKeep(task, task', {})
    BY <1>1, EndInherits, EndKeepsPhases DEF RunsInv
  <1>4. run'.task = run.task \/ OwnedLive(task, run.task) = {}
    BY <1>2 DEF RunAfter
  <1>5. ASSUME NEW g \in Tasks, Reading(g)'
        PROVE  Reading(g) /\ local'[g] = local[g] /\ log' = log
    <2>1. Reading(g) /\ local'[g] = local[g]
      BY <1>2, <1>3, <1>5, ReaderWasReading
    <2>2. run.task = g /\ task[t].kind # "tool" /\ Toolless(task[t])
      BY <1>2, <2>1, ReaderIsAlone
    <2>3. t # g
      BY <1>1, <1>5, TerminatedRecord DEF Reading, LiveGeneration, RunsInv
    <2>4. task[t].kind # "generation"
      BY <1>2, <2>2, <2>3 DEF Live, RunsInv, GenerationIs
    <2>5. AbortHandler(t) \/ SchedulerEnds(t)
      BY <2>2 DEF ToolEnds, Gated
    <2> QED BY <2>1, <2>2, <2>3, <2>4, <2>5
            DEF AbortHandler, AbortLog, SchedulerEnds, Ended, Toolless
  <1> QED BY <1>3, <1>4, <1>5, OthersPrepare

LEMMA SubmitPrepares ==
  ASSUME RunsInv, PartialInv, OwnersInv, ReadInv, Submit
  PROVE  PreparedKeeps
  <1>1. PICK s, draft, item :
          \/ AdmitNote(s, item) /\ UNCHANGED task
          \/ AdmitBusy(s, item, TypeOf(draft)) /\ task' = task
          \/ AdmitBehind(s, item, TypeOf(draft), task)
          \/ AdmitWrite(s, item, task)
          \/ AdmitInput(s, item)
    BY DEF Submit
  <1>2. Shaped(task) /\ local' = local
    BY DEF RunsInv, Submit
  <1>3. /\ Inherit(task, task', {}) /\ PhasesKeep(task, task', {})
        /\ Busy => run' = run /\ log'.tail = log.tail
    <2>1. CASE AdmitNote(s, item) /\ UNCHANGED task
      BY <2>1 DEF AdmitNote, Shown, PhasesKeep, Inherit
    <2>2. CASE AdmitInput(s, item)
      <3>1. ~Busy /\ StartRun(task, {s}, run)
        BY <2>2 DEF AdmitInput, AdmitsIdle
      <3> QED BY <1>2, <3>1, StartRunKeepsPhases, StartRunInherits
    <2> QED BY <1>1, <1>2, <2>1, <2>2, AdmitKeepsPhases, AdmitInherits
  <1>4. ASSUME NEW g \in Tasks, Reading(g)'
        PROVE  Reading(g) /\ local'[g] = local[g] /\ log'.tail = log.tail
    <2>1. Reading(g) /\ local'[g] = local[g]
      BY <1>2, <1>3, <1>4, ReaderWasReading
    <2> QED BY <1>3, <2>1, ReaderIsAlone
  <1>5. run.task = NoTask \/ run'.task = run.task
    BY <1>3 DEF Busy
  <1> QED BY <1>3, <1>4, <1>5, OthersPrepare

LEMMA HostPrepares ==
  ASSUME RunsInv, PartialInv, OwnersInv, ReadInv, Host \/ Reconcile \/ UNCHANGED vars
  PROVE  PreparedKeeps
  <1>1. Shaped(task)
    BY DEF RunsInv
  <1>2. CASE Submit
    BY <1>2, SubmitPrepares
  <1>3. CASE Compact
    <2>1. PICK S \in NextIds(task, 1) :
            task' = WithTasks(task, S, Compaction(NoTask, "manual"))
      BY <1>3 DEF Compact
    <2>2. Inherit(task, task', {}) /\ PhasesKeep(task, task', {})
      BY <1>1, <2>1, NewInherits, NewOwners, NewTasksKeepPhases, NewStatuses
    <2>3. log' = log /\ run' = run /\ local' = local
      BY <1>3 DEF Compact
    <2> QED BY <1>1, <2>2, <2>3, ReaderWasReading, OthersPrepare
  <1>4. CASE UNCHANGED <<log, task, live>> /\ (local' = local \/ Crash)
    <2>1. Inherit(task, task', {}) /\ run' = run
      BY <1>4 DEF Inherit, live
    <2>2. ASSUME NEW g \in Tasks, Reading(g)' PROVE Reading(g) /\ local'[g] = local[g]
      <3>1. ~Crash
        <4>1. Crash => local'[g].at = "none"
          BY DEF Crash, NoLocal
        <4>2. local'[g].at = "read"
          BY <2>2 DEF Reading
        <4> QED BY <4>1, <4>2
      <3> QED BY <1>4, <2>2, <3>1 DEF Reading, LiveGeneration
    <2> QED BY <1>4, <2>1, <2>2, OthersPrepare
  <1>5. CASE \E S : MarkAll(S) /\ UNCHANGED <<log, live, local>>
    <2>1. \A t \in Tasks : /\ task'[t].kind = task[t].kind /\ task'[t].status = task[t].status
                           /\ task'[t].phase = task[t].phase /\ task'[t].owner = task[t].owner
      BY <1>1, <1>5 DEF MarkAll, Shaped, IsRecord
    <2>2. Inherit(task, task', {}) /\ run' = run /\ local' = local
      BY <1>5, <2>1 DEF Inherit, Live, Toolless, live
    <2>3. ASSUME NEW g \in Tasks, Reading(g)' PROVE Reading(g)
      BY <2>1, <2>2, <2>3 DEF Reading, LiveGeneration
    <2> QED BY <1>5, <2>2, <2>3, OthersPrepare
  <1>6. ASSUME NEW s \in Subs, AbortSubmission(s)
        PROVE  UNCHANGED <<log, task, live, local>>
    BY <1>6 DEF AbortSubmission
  <1>7. ASSUME NEW b \in BOOLEAN, AbortConversation(b)
        PROVE  \E S : MarkAll(S) /\ UNCHANGED <<log, live, local>>
    BY <1>7 DEF AbortConversation
  <1>8. ASSUME NEW t \in Tasks, AbortTask(t)
        PROVE  \E S : MarkAll(S) /\ UNCHANGED <<log, live, local>>
    BY <1>8 DEF AbortTask
  <1>9. OwnerCancelled \/ OwnerEnds \/ UNCHANGED vars => UNCHANGED <<log, task, live, local>>
    BY DEF OwnerCancelled, OwnerEnds, vars
  <1>10. Crash => UNCHANGED <<log, task, live>>
    BY DEF Crash
  <1>11. Reconcile => \E S : MarkAll(S) /\ UNCHANGED <<log, live, local>>
    BY DEF Reconcile
  <1> HIDE DEF RunsInv, PartialInv, OwnersInv, ReadInv
  <1> QED BY <1>2, <1>3, <1>4, <1>5, <1>6, <1>7, <1>8, <1>9, <1>10, <1>11 DEF Host

LEMMA PreparedInvInit == Init => OwnersInv /\ ReadInv
  BY DEF Init, OwnersInv, ReadInv, Reading, LiveGeneration, Live, Absent

LEMMA PreparedInvStep ==
  ASSUME RunsInv, RunsInv', PartialInv, OwnersInv, ReadInv, [Next]_vars
  PROVE  OwnersInv' /\ ReadInv'
  <1>1. ASSUME NEW t \in Tasks, GenerationStep(t) PROVE PreparedKeeps
    BY <1>1, GenerationStepPrepares
  <1>2. ASSUME NEW t \in Tasks, CompactionStep(t) PROVE PreparedKeeps
    BY <1>2, CompactionStepPrepares
  <1>3. ASSUME NEW t \in Tasks,
               \/ \E status \in {"completed", "ended"} : ToolEnds(t, status)
               \/ AbortHandler(t) \/ SchedulerEnds(t)
        PROVE  PreparedKeeps
    BY <1>3, EndsPrepare
  <1> HIDE DEF RunsInv, PartialInv, OwnersInv, ReadInv, PreparedKeeps
  <1>4. PreparedKeeps
    BY <1>1, <1>2, <1>3, HostPrepares DEF Next
  <1> QED BY <1>4, PreparedStep

\* "Only the Harness writes to a busy conversation, so the transcript read here
\* is still the tail at the commit" (generation.ts prepare): no submission,
\* summary, abort handler or fault moves the tail between read and commit.
THEOREM PreparedTailsHold == Spec => []PreparedTailHolds
  <1>1. ReadInv => PreparedTailHolds
    BY DEF ReadInv, PreparedTailHolds, Reading, LiveGeneration, Phase, Gated, Holds, Live
  <1>2. RunsInv /\ RunsInv' /\ PartialInv /\ OwnersInv /\ ReadInv /\ [Next]_vars
          => OwnersInv' /\ ReadInv'
    BY PreparedInvStep
  <1>3. RunsInv /\ RunsInv' /\ PartialInv /\ [Next]_vars => PartialInv'
    BY PartialInvStep
  <1>4. Spec => [](PartialInv /\ OwnersInv /\ ReadInv)
    BY <1>2, <1>3, PartialInvInit, PreparedInvInit, RunsInvHolds, PTL DEF Spec
  <1> QED BY <1>1, <1>4, PTL

=============================================================================
