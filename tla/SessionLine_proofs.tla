-------------------------- MODULE SessionLine_proofs --------------------------
(* That SessionLine implements Journal, that its snapshots are current and *)
(* that its watch has no gap, for every value of its constants.            *)
EXTENDS SessionLine, TLAPS

-----------------------------------------------------------------------------
(* Lines of jobs.                                                           *)

LEMMA JobsDiffer ==
  /\ \A r \in Requests : /\ CommitJob(r) \in Jobs /\ CommitJob(r) # CloseJob
                         /\ CommitJob(r) # SweepJob /\ CommitJob(r) # WatchJob
                         /\ \A p \in Requests : CommitJob(p) = CommitJob(r) => p = r
                         /\ \A d \in Readers : CommitJob(r) # ReadJob(d)
  /\ \A d \in Readers : /\ ReadJob(d) \in Jobs
                        /\ ReadJob(d) # CloseJob /\ ReadJob(d) # SweepJob
  /\ {WatchJob, SweepJob, CloseJob} \subseteq Jobs
  /\ WatchJob # CloseJob /\ WatchJob # SweepJob /\ SweepJob # CloseJob
  BY DEF CommitJob, ReadJob, WatchJob, SweepJob, CloseJob, Jobs

LEMMA LeavingFacts ==
  ASSUME NEW l \in Seq(Jobs), l # <<>>
  PROVE  /\ Tail(l) \in Seq(Jobs) /\ Len(l) \in Nat \ {0} /\ Head(l) = l[1]
         /\ Len(Tail(l)) = Len(l) - 1
         /\ \A i \in 1..Len(Tail(l)) : Tail(l)[i] = l[i + 1]
  OBVIOUS

LEMMA EnteringFacts ==
  ASSUME NEW l \in Seq(Jobs), NEW job \in Jobs
  PROVE  /\ Append(l, job) \in Seq(Jobs) /\ Len(l) \in Nat
         /\ Len(Append(l, job)) = Len(l) + 1 /\ Append(l, job) # <<>>
         /\ Append(l, job)[Len(l) + 1] = job
         /\ \A i \in 1..Len(l) : Append(l, job)[i] = l[i]
         /\ l # <<>> => Head(Append(l, job)) = Head(l)
  OBVIOUS

\* Who waits has a job on the line, and who is in turn has the first one.
JobsFit(l, q) ==
  \A r \in Requests :
    /\ q[r] \in InTurn => l # <<>> /\ Head(l) = CommitJob(r)
    /\ q[r] = "queued" => \E i \in 1..Len(l) : l[i] = CommitJob(r)

\* Nothing but sweeps is enqueued behind the job of close().
CloseIsLast(l) ==
  \A i, j \in 1..Len(l) : i < j /\ l[i] = CloseJob => l[j] = SweepJob

PhaseFits(l, p) ==
  /\ p \in {"open", "closing"} => \A i \in 1..Len(l) : l[i] # CloseJob
  /\ p = "draining" => l # <<>> /\ Head(l) = CloseJob
  /\ p = "closed" => \A i \in 1..Len(l) : l[i] = SweepJob

Fits(l, q, p) == l \in Seq(Jobs) /\ JobsFit(l, q) /\ CloseIsLast(l) /\ PhaseFits(l, p)

\* A failure or a call of close() seals admission.
Seals(p, p2) == p2 = p \/ (p = "open" /\ p2 = "closing")

LEMMA FitsWhenSealed ==
  ASSUME NEW l, NEW q, NEW p, NEW p2, Fits(l, q, p), Seals(p, p2)
  PROVE  Fits(l, q, p2)
  BY DEF Fits, PhaseFits, Seals

\* The running job leaves the line, and whoever it answered is owed nothing.
LEMMA FitsWhenLeft ==
  ASSUME NEW l, NEW q, NEW p, NEW q2, NEW p2,
         Fits(l, q, p), Seals(p, p2), l # <<>>, Head(l) # CloseJob,
         \A r \in Requests : q2[r] \in InTurn \cup {"queued"} =>
                               q2[r] = q[r] /\ Head(l) # CommitJob(r)
  PROVE  Fits(Tail(l), q2, p2)
<1>1. /\ l \in Seq(Jobs) /\ JobsFit(l, q) /\ CloseIsLast(l) /\ PhaseFits(l, p)
  BY DEF Fits
<1>2. /\ Tail(l) \in Seq(Jobs) /\ Len(l) \in Nat \ {0} /\ Head(l) = l[1]
      /\ Len(Tail(l)) = Len(l) - 1
      /\ \A i \in 1..Len(Tail(l)) : Tail(l)[i] = l[i + 1]
  BY <1>1, LeavingFacts
<1>3. \A i \in 1..Len(Tail(l)) : i + 1 \in 1..Len(l)
  BY <1>2
<1>4. JobsFit(Tail(l), q2)
  <2> SUFFICES ASSUME NEW r \in Requests
               PROVE  /\ q2[r] \notin InTurn
                      /\ q2[r] = "queued" => \E i \in 1..Len(Tail(l)) : Tail(l)[i] = CommitJob(r)
    BY DEF JobsFit
  <2>1. q2[r] \notin InTurn
    BY <1>1 DEF JobsFit
  <2>2. ASSUME q2[r] = "queued"
        PROVE  \E i \in 1..Len(Tail(l)) : Tail(l)[i] = CommitJob(r)
    <3>1. PICK i \in 1..Len(l) : l[i] = CommitJob(r)
      BY <1>1, <2>2 DEF JobsFit
    <3>2. i # 1
      BY <3>1, <1>2, <2>2
    <3>3. i - 1 \in 1..Len(Tail(l)) /\ Tail(l)[i - 1] = l[i]
      BY <3>2, <1>2
    <3> QED BY <3>1, <3>3
  <2> QED BY <2>1, <2>2
<1>5. CloseIsLast(Tail(l))
  <2> SUFFICES ASSUME NEW i \in 1..Len(Tail(l)), NEW j \in 1..Len(Tail(l)),
                      i < j, Tail(l)[i] = CloseJob
               PROVE  Tail(l)[j] = SweepJob
    BY DEF CloseIsLast
  <2>1. i + 1 \in 1..Len(l) /\ j + 1 \in 1..Len(l) /\ i + 1 < j + 1
    BY <1>2
  <2>2. l[i + 1] = CloseJob
    BY <1>2
  <2>3. l[j + 1] = SweepJob
    BY <2>1, <2>2, <1>1 DEF CloseIsLast
  <2> QED BY <2>3, <1>2
<1>6. PhaseFits(Tail(l), p2)
  BY <1>1, <1>2, <1>3 DEF PhaseFits, Seals
<1> QED BY <1>2, <1>4, <1>5, <1>6 DEF Fits

\* A job enters the line: while the Session is open any, else a sweep, or the one
\* job of close() when its turn has come.
LEMMA FitsWhenEntered ==
  ASSUME NEW l, NEW q, NEW p, NEW q2, NEW p2, NEW job \in Jobs,
         Fits(l, q, p),
         \/ job # CloseJob /\ p2 = p /\ (job = SweepJob \/ p = "open")
         \/ job = CloseJob /\ p = "closing" /\ p2 = "queued",
         \A r \in Requests : q2[r] = q[r] \/ (q2[r] = "queued" /\ job = CommitJob(r))
  PROVE  Fits(Append(l, job), q2, p2)
<1> DEFINE m == Append(l, job)
<1>1. /\ l \in Seq(Jobs) /\ JobsFit(l, q) /\ CloseIsLast(l) /\ PhaseFits(l, p)
  BY DEF Fits
<1>2. /\ m \in Seq(Jobs) /\ Len(l) \in Nat /\ Len(m) = Len(l) + 1 /\ m # <<>>
      /\ m[Len(l) + 1] = job
      /\ \A i \in 1..Len(l) : m[i] = l[i]
      /\ l # <<>> => Head(m) = Head(l)
  BY <1>1, EnteringFacts
<1> HIDE DEF m
<1>3. \A i \in 1..Len(m) : i \in 1..Len(l) \/ i = Len(l) + 1
  BY <1>2
<1>4. JobsFit(m, q2)
  <2> SUFFICES ASSUME NEW r \in Requests
               PROVE  /\ q2[r] \in InTurn => m # <<>> /\ Head(m) = CommitJob(r)
                      /\ q2[r] = "queued" => \E i \in 1..Len(m) : m[i] = CommitJob(r)
    BY DEF JobsFit
  <2>1. q2[r] \in InTurn => m # <<>> /\ Head(m) = CommitJob(r)
    BY <1>1, <1>2 DEF JobsFit, InTurn
  <2>2. CASE q2[r] = "queued" /\ job = CommitJob(r)
    <3>1. Len(l) + 1 \in 1..Len(m)
      BY <1>2
    <3> QED BY <3>1, <1>2, <2>1, <2>2
  <2>3. CASE q2[r] = q[r]
    <3>1. \A i \in 1..Len(l) : i \in 1..Len(m)
      BY <1>2
    <3> QED BY <3>1, <1>1, <1>2, <2>1, <2>3 DEF JobsFit
  <2> QED BY <2>2, <2>3
<1>5. CloseIsLast(m)
  <2> SUFFICES ASSUME NEW i \in 1..Len(m), NEW j \in 1..Len(m), i < j, m[i] = CloseJob
               PROVE  m[j] = SweepJob
    BY DEF CloseIsLast
  <2>1. i \in 1..Len(l) /\ l[i] = CloseJob
    BY <1>2
  <2>2. p \notin {"open", "closing"}
    BY <2>1, <1>1 DEF PhaseFits
  <2>3. job = SweepJob
    BY <2>2
  <2>4. CASE j \in 1..Len(l)
    BY <2>1, <2>4, <1>1, <1>2 DEF CloseIsLast
  <2>5. CASE j = Len(l) + 1
    BY <2>5, <2>3, <1>2
  <2> QED BY <2>4, <2>5, <1>3
<1>6. PhaseFits(m, p2)
  BY <1>1, <1>2, <1>3 DEF PhaseFits
<1> QED BY <1>2, <1>4, <1>5, <1>6 DEF Fits, m

-----------------------------------------------------------------------------
(* The invariant.                                                           *)

LineInv ==
  /\ req \in [Requests -> Statuses]
  /\ failed \in BOOLEAN /\ scan \in BOOLEAN
  /\ phase \in {"open", "closing", "queued", "draining", "closed"}
  /\ Fits(line, req, phase)
  /\ phase = "closed" => ~scan

\* What Storage holds, what was answered, and what was heard.
EffectInv ==
  /\ effect \subseteq Requests /\ heard \subseteq effect
  /\ \A r \in effect : req[r] \in {"stored", "done", "lost"}
  /\ \A r \in Requests : req[r] = "stored" => r \in effect
  /\ ~failed => \A r \in effect \ heard : req[r] = "stored"

Inv == LineInv /\ EffectInv

-----------------------------------------------------------------------------
(* Kinds of steps keep the invariant.                                       *)

\* A step beside the line.
LEMMA BesideKeepsInv ==
  ASSUME Inv, line' = line, req' = req, effect' = effect, heard' = heard,
         Seals(phase, phase'), scan' \in BOOLEAN, phase' = "closed" => ~scan',
         failed' \in {failed, TRUE}
  PROVE  Inv'
<1>1. Fits(line', req', phase')
  BY FitsWhenSealed DEF Inv, LineInv
<1>2. phase' \in {"open", "closing", "queued", "draining", "closed"}
  BY DEF Inv, LineInv, Seals
<1>3. LineInv'
  BY <1>1, <1>2 DEF Inv, LineInv
<1>4. EffectInv'
  BY DEF Inv, LineInv, EffectInv
<1> QED BY <1>3, <1>4 DEF Inv

\* A job of a reader, the watch or a sweep ends.
LEMMA LeavingKeepsInv ==
  ASSUME Inv, NEW job \in {ReadJob(d) : d \in Readers} \cup {WatchJob, SweepJob},
         Runs(job), line' = Tail(line), req' = req, effect' = effect, heard' = heard,
         Seals(phase, phase'), scan' = scan, failed' \in {failed, TRUE}
  PROVE  Inv'
<1>1. job # CloseJob /\ \A r \in Requests : job # CommitJob(r)
  BY JobsDiffer
<1>2. line # <<>> /\ Head(line) = job
  BY DEF Runs
<1>3. \A r \in Requests : req'[r] \in InTurn \cup {"queued"} =>
                             req'[r] = req[r] /\ Head(line) # CommitJob(r)
  BY <1>1, <1>2
<1>4. Fits(line', req', phase')
  BY <1>1, <1>2, <1>3, FitsWhenLeft DEF Inv, LineInv
<1>5. /\ phase' \in {"open", "closing", "queued", "draining", "closed"}
      /\ phase' = "closed" => phase = "closed"
  BY DEF Inv, LineInv, Seals
<1>6. LineInv'
  BY <1>4, <1>5 DEF Inv, LineInv
<1>7. EffectInv'
  BY DEF Inv, LineInv, EffectInv
<1> QED BY <1>6, <1>7 DEF Inv

\* A call other than a commit, or a sweep, enters the line.
LEMMA EnteringKeepsInv ==
  ASSUME Inv, NEW job \in {ReadJob(d) : d \in Readers} \cup {WatchJob, SweepJob},
         Enqueue(job), job = SweepJob \/ phase = "open",
         req' = req, effect' = effect, heard' = heard,
         phase' = phase, scan' = scan, failed' = failed
  PROVE  Inv'
<1>1. job \in Jobs /\ job # CloseJob
  BY JobsDiffer
<1>2. Fits(Append(line, job), req', phase')
  BY <1>1, FitsWhenEntered DEF Inv, LineInv
<1>3. LineInv'
  BY <1>2 DEF Inv, LineInv, Enqueue
<1>4. EffectInv'
  BY DEF Inv, LineInv, EffectInv
<1> QED BY <1>3, <1>4 DEF Inv

\* The running commit is answered.
LEMMA AnswerKeepsInv ==
  ASSUME Inv, NEW r \in Requests, NEW status \in {"done", "empty", "refused", "lost"},
         Runs(CommitJob(r)), Answer(r, status),
         effect' = effect, heard' \in {heard, heard \cup {r}},
         Seals(phase, phase'), scan' = scan, failed' \in {failed, TRUE},
         r \in effect => status \in {"done", "lost"},
         heard' # heard => r \in effect,
         ~failed' => (r \in effect => r \in heard')
  PROVE  Inv'
<1>1. line # <<>> /\ Head(line) = CommitJob(r) /\ Head(line) # CloseJob
  BY JobsDiffer DEF Runs
<1>2. /\ line' = Tail(line) /\ req' \in [Requests -> Statuses] /\ req'[r] = status
      /\ \A p \in Requests : p # r => req'[p] = req[p]
  BY DEF Inv, LineInv, Answer, Statuses
<1>3. \A p \in Requests : req'[p] \in InTurn \cup {"queued"} =>
                             req'[p] = req[p] /\ Head(line) # CommitJob(p)
  <2> SUFFICES ASSUME NEW p \in Requests, req'[p] \in InTurn \cup {"queued"}
               PROVE  req'[p] = req[p] /\ Head(line) # CommitJob(p)
    OBVIOUS
  <2>1. p # r
    BY <1>2 DEF InTurn
  <2> QED BY <2>1, <1>1, <1>2, JobsDiffer
<1>4. Fits(line', req', phase')
  BY <1>1, <1>2, <1>3, FitsWhenLeft DEF Inv, LineInv
<1>5. /\ phase' \in {"open", "closing", "queued", "draining", "closed"}
      /\ phase' = "closed" => phase = "closed"
  BY DEF Inv, LineInv, Seals
<1>6. LineInv'
  BY <1>2, <1>4, <1>5 DEF Inv, LineInv
<1>7. EffectInv'
  BY <1>2 DEF Inv, LineInv, EffectInv
<1> QED BY <1>6, <1>7 DEF Inv

\* The running commit goes on, to a status between its start and its answer.
LEMMA TurnKeepsInv ==
  ASSUME Inv, NEW r \in Requests, NEW status \in InTurn,
         Runs(CommitJob(r)), line' = line, req' = [req EXCEPT ![r] = status],
         heard' = heard, phase' = phase, scan' = scan, failed' = failed,
         \/ status # "stored" /\ effect' = effect /\ r \notin effect
         \/ status = "stored" /\ effect' = effect \cup {r}
  PROVE  Inv'
<1>1. /\ req' \in [Requests -> Statuses] /\ req'[r] = status
      /\ \A p \in Requests : p # r => req'[p] = req[p]
  BY DEF Inv, LineInv, InTurn, Statuses
<1>2. JobsFit(line, req')
  BY <1>1 DEF Inv, LineInv, Fits, JobsFit, Runs, InTurn
<1>3. Fits(line', req', phase')
  BY <1>2 DEF Inv, LineInv, Fits
<1>4. LineInv'
  BY <1>1, <1>3 DEF Inv, LineInv
<1>5. EffectInv'
  BY <1>1 DEF Inv, LineInv, EffectInv
<1> QED BY <1>4, <1>5 DEF Inv

-----------------------------------------------------------------------------
(* What the invariant says of a running job.                                *)

\* Whatever but a sweep runs, the Session is not closed.
LEMMA WorkIsBeforeClose ==
  ASSUME Inv, NEW job, Runs(job), job # SweepJob
  PROVE  phase # "closed"
<1>1. line \in Seq(Jobs) /\ line # <<>> /\ Head(line) = job /\ PhaseFits(line, phase)
  BY DEF Inv, LineInv, Fits, Runs
<1>2. Head(line) = line[1] /\ 1 \in 1..Len(line)
  BY <1>1, LeavingFacts
<1> QED BY <1>1, <1>2 DEF PhaseFits

LEMMA InTurnRuns ==
  ASSUME Inv, NEW r \in Requests, req[r] \in InTurn
  PROVE  Runs(CommitJob(r)) /\ phase # "closed"
<1>1. Runs(CommitJob(r))
  BY DEF Inv, LineInv, Fits, JobsFit, Runs
<1> QED BY <1>1, JobsDiffer, WorkIsBeforeClose

\* Only the request whose job runs can have its turn.
LEMMA OneInTurn ==
  ASSUME Inv, NEW r \in Requests, Runs(CommitJob(r)), NEW p \in Requests, req[p] \in InTurn
  PROVE  p = r
  BY InTurnRuns, JobsDiffer DEF Runs

LEMMA TurnOfRunning ==
  ASSUME Inv, NEW r \in Requests, Runs(CommitJob(r))
  PROVE  Turn = IF req[r] \in InTurn THEN r ELSE Nobody
<1>1. \A p \in Requests : req[p] \in InTurn => p = r
  BY OneInTurn
<1> QED BY <1>1 DEF Turn

LEMMA NobodyIsNoRequest == \A r \in Requests : r # Nobody
  BY DEF Requests, Nobody

-----------------------------------------------------------------------------
(* What kinds of steps are for the journal.                                 *)

LEMMA QuietStutters ==
  ASSUME req' = req, effect' = effect, heard' = heard, failed' = failed,
         phase' = "closed" <=> phase = "closed"
  PROVE  UNCHANGED J!journal
<1>1. Stage' = Stage
  BY DEF Stage
<1>2. Turn' = Turn
  BY DEF Turn
<1>3. Alive' = Alive
  BY DEF Alive
<1> QED BY <1>1, <1>2, <1>3 DEF J!journal

LEMMA FailureIsFail ==
  ASSUME ~failed, phase # "closed", failed' = TRUE,
         req' = req, effect' = effect, heard' = heard
  PROVE  J!Fail
<1>1. Stage' = Stage
  BY DEF Stage
<1>2. Turn' = Turn
  BY DEF Turn
<1>3. Alive = "open" /\ Alive' = "failed"
  BY DEF Alive
<1> QED BY <1>1, <1>2, <1>3 DEF J!Fail

\* An answer ends the turn of whom it answers.
LEMMA AnswerMaps ==
  ASSUME Inv, NEW r \in Requests, NEW status \in {"done", "empty", "refused", "lost"},
         Runs(CommitJob(r)), req[r] \in InTurn \cup {"queued"}, Answer(r, status)
  PROVE  /\ Stage[r] = "asked" /\ Stage' = [Stage EXCEPT ![r] = status]
         /\ Turn' = Nobody
         /\ Turn' = IF Turn = r THEN Nobody ELSE Turn
         /\ req[r] \in InTurn => Turn = r
<1>1. /\ req \in [Requests -> Statuses] /\ req' = [req EXCEPT ![r] = status]
      /\ req'[r] = status /\ \A p \in Requests : p # r => req'[p] = req[p]
  BY DEF Inv, LineInv, Answer
<1>2. Stage[r] = "asked"
  BY DEF Stage
<1>3. Stage' = [Stage EXCEPT ![r] = status]
  BY <1>1 DEF Stage, InTurn
<1>4. \A p \in Requests : req'[p] \notin InTurn
  BY <1>1, OneInTurn DEF InTurn
<1>5. Turn' = Nobody
  BY <1>4 DEF Turn
<1>6. Turn = IF req[r] \in InTurn THEN r ELSE Nobody
  BY TurnOfRunning
<1> QED BY <1>2, <1>3, <1>5, <1>6, NobodyIsNoRequest

\* A commit that goes on keeps its turn.
LEMMA SteadyTurn ==
  ASSUME Inv, NEW r \in Requests, req[r] \in InTurn, NEW status \in InTurn,
         req' = [req EXCEPT ![r] = status]
  PROVE  Stage' = Stage /\ Turn' = Turn
<1>1. /\ req'[r] = status /\ \A p \in Requests : p # r => req'[p] = req[p]
  BY DEF Inv, LineInv
<1>2. Stage' = Stage
  BY <1>1 DEF Stage, InTurn
<1>3. \A p \in Requests : req[p] \in InTurn => p = r
  BY InTurnRuns, OneInTurn
<1>4. \A p \in Requests : req'[p] \in InTurn => p = r
  BY <1>1, <1>3
<1>5. Turn = r
  BY <1>3 DEF Turn
<1>6. Turn' = r
  BY <1>1, <1>4 DEF Turn
<1> QED BY <1>2, <1>5, <1>6

\* A commit is lost: the Session failed, or fails.
LEMMA LostIsLose ==
  ASSUME Inv, NEW r \in Requests, Runs(CommitJob(r)), req[r] \in InTurn \cup {"queued"},
         Answer(r, "lost"), failed' = TRUE, effect' = effect, heard' = heard
  PROVE  J!Lose(r)
<1>1. /\ Stage[r] = "asked" /\ Stage' = [Stage EXCEPT ![r] = "lost"]
      /\ Turn' = IF Turn = r THEN Nobody ELSE Turn
  BY AnswerMaps
<1>2. Alive \in {"open", "failed"} /\ Alive' = "failed"
  BY JobsDiffer, WorkIsBeforeClose DEF Alive
<1> QED BY <1>1, <1>2 DEF J!Lose

LEMMA RefusedIsRefuse ==
  ASSUME Inv, NEW r \in Requests, Runs(CommitJob(r)), req[r] \in InTurn \cup {"queued"},
         Answer(r, "refused"), ~failed, failed' = failed, phase' = phase,
         r \notin effect, effect' = effect, heard' = heard
  PROVE  J!Refuse(r)
<1>1. /\ Stage[r] = "asked" /\ Stage' = [Stage EXCEPT ![r] = "refused"]
      /\ Turn' = IF Turn = r THEN Nobody ELSE Turn
  BY AnswerMaps
<1>2. Alive = "open" /\ Alive' = Alive
  BY JobsDiffer, WorkIsBeforeClose DEF Alive
<1> QED BY <1>1, <1>2 DEF J!Refuse

\* A commit whose effect is durable is answered "done".
LEMMA AnsweredIsDone ==
  ASSUME Inv, NEW r \in Requests, req[r] = "stored", ~failed,
         Answer(r, "done"), effect' = effect,
         \/ heard' = heard \cup {r} /\ failed' = failed /\ phase' = phase
         \/ heard' = heard /\ failed' = TRUE
  PROVE  J!Done(r)
<1>1. req[r] \in InTurn /\ Runs(CommitJob(r)) /\ phase # "closed"
  BY InTurnRuns DEF InTurn
<1>2. Turn = r /\ Turn' = Nobody /\ Stage' = [Stage EXCEPT ![r] = "done"]
  BY <1>1, AnswerMaps
<1>3. r \in effect
  BY DEF Inv, EffectInv
<1>4. Alive = "open"
  BY <1>1 DEF Alive
<1>5. \/ heard' = heard \cup {r} /\ Alive' = "open"
      \/ heard' = heard /\ Alive' = "failed"
  BY <1>1 DEF Alive
<1> QED BY <1>2, <1>3, <1>4, <1>5 DEF J!Done

-----------------------------------------------------------------------------
(* Steps.                                                                   *)

\* What each step does: it keeps the invariant, and is a step of the journal or none.
Sound == Inv' /\ [J!Next]_(J!journal)

\* A step that neither answers, nor fails, nor closes.
LEMMA QuietBeside ==
  ASSUME Inv, line' = line, req' = req, effect' = effect, heard' = heard,
         phase' = phase \/ (phase = "open" /\ phase' = "closing"),
         scan' = scan \/ scan' = FALSE \/ (scan' = TRUE /\ phase # "closed"),
         failed' = failed
  PROVE  Sound
<1>1. Seals(phase, phase') /\ (phase' = "closed" <=> phase = "closed")
  BY DEF Seals
<1>4. scan' \in BOOLEAN /\ (phase' = "closed" => ~scan')
  <2>1. phase' = "closed" => phase = "closed"
    BY <1>1
  <2>2. scan \in BOOLEAN /\ (phase = "closed" => ~scan)
    BY DEF Inv, LineInv
  <2>3. CASE scan' = scan
    BY <2>1, <2>2, <2>3
  <2>4. CASE scan' = FALSE
    BY <2>4
  <2>5. CASE scan' = TRUE /\ phase # "closed"
    BY <2>1, <2>5
  <2> QED BY <2>3, <2>4, <2>5
<1>2. Inv'
  BY <1>1, <1>4, BesideKeepsInv
<1>3. UNCHANGED J!journal
  BY <1>1, QuietStutters
<1> QED BY <1>2, <1>3 DEF Sound

\* A failure beside the line.
LEMMA FailingBeside ==
  ASSUME Inv, ~failed, phase # "closed", NEW w, FailsWith(w),
         line' = line, req' = req, effect' = effect, heard' = heard, scan' \in {scan, FALSE}
  PROVE  Sound
<1>1. /\ failed' = TRUE /\ Seals(phase, phase') /\ phase' # "closed" /\ scan' \in BOOLEAN
  BY DEF FailsWith, Seals, Inv, LineInv
<1>2. Inv'
  BY <1>1, BesideKeepsInv
<1>3. J!Fail
  BY <1>1, FailureIsFail
<1> QED BY <1>2, <1>3 DEF Sound, J!Next

\* A job other than a commit leaves the line, or fails.
LEMMA QuietLeaving ==
  ASSUME Inv, NEW job \in {ReadJob(d) : d \in Readers} \cup {WatchJob, SweepJob},
         Runs(job), line' = Tail(line), req' = req, effect' = effect, heard' = heard,
         phase' = phase, scan' = scan, failed' = failed
  PROVE  Sound
<1>1. Inv'
  BY LeavingKeepsInv DEF Seals
<1>2. UNCHANGED J!journal
  BY QuietStutters
<1> QED BY <1>1, <1>2 DEF Sound

LEMMA FailingLeaving ==
  ASSUME Inv, ~failed, NEW job \in {ReadJob(d) : d \in Readers} \cup {WatchJob},
         Runs(job), NEW w, FailsWith(w), line' = Tail(line), req' = req,
         effect' = effect, heard' = heard, scan' = scan
  PROVE  Sound
<1>1. job # SweepJob
  BY JobsDiffer
<1>2. phase # "closed"
  BY <1>1, WorkIsBeforeClose
<1>3. failed' = TRUE /\ Seals(phase, phase')
  BY DEF FailsWith, Seals
<1>4. Inv'
  BY <1>3, LeavingKeepsInv
<1>5. J!Fail
  BY <1>2, <1>3, FailureIsFail
<1> QED BY <1>4, <1>5 DEF Sound, J!Next

LEMMA QuietEntering ==
  ASSUME Inv, NEW job \in {ReadJob(d) : d \in Readers} \cup {WatchJob, SweepJob},
         Enqueue(job), job = SweepJob \/ phase = "open",
         req' = req, effect' = effect, heard' = heard,
         phase' = phase, scan' = scan, failed' = failed
  PROVE  Sound
<1>1. Inv'
  BY EnteringKeepsInv
<1>2. UNCHANGED J!journal
  BY QuietStutters
<1> QED BY <1>1, <1>2 DEF Sound

LEMMA WatchSound ==
  ASSUME Inv,
         \/ WatchStarts \/ WatchDelivers \/ WatchListenerReturns \/ WatchListenerThrows
         \/ WatchStops
  PROVE  Sound
<1>1. UNCHANGED <<line, req, store, heard, session, scan>>
  BY DEF WatchStarts, WatchDelivers, WatchListenerReturns, WatchListenerThrows, WatchStops,
         store, session
<1> QED BY <1>1, QuietBeside DEF store, session

LEMMA WatchDocSound ==
  ASSUME Inv, NEW v \in Versions, WatchDoc(v)
  PROVE  Sound
  BY QuietEntering DEF WatchDoc, Usable, store, session

LEMMA WatchJobSound ==
  ASSUME Inv, WatchRuns \/ WatchRefused \/ WatchLoadFails
  PROVE  Sound
<1>1. CASE WatchRuns
  BY <1>1, QuietLeaving DEF WatchRuns, store, session
<1>2. CASE WatchRefused
  BY <1>2, QuietLeaving DEF WatchRefused, store, session
<1>3. CASE WatchLoadFails
  BY <1>3, FailingLeaving DEF WatchLoadFails, store
<1> QED BY <1>1, <1>2, <1>3

LEMMA SnapshotSound ==
  ASSUME Inv, NEW d \in Readers, NEW v \in Versions, SnapshotCached(d, v) \/ SnapshotQueued(d, v)
  PROVE  Sound
<1>1. CASE SnapshotCached(d, v)
  BY <1>1, QuietBeside DEF SnapshotCached, store, session
<1>2. CASE SnapshotQueued(d, v)
  BY <1>2, QuietEntering DEF SnapshotQueued, Usable, store, session
<1> QED BY <1>1, <1>2

LEMMA LoadSound ==
  ASSUME Inv, NEW d \in Readers, LoadRuns(d) \/ LoadRefused(d) \/ LoadFails(d)
  PROVE  Sound
<1>1. CASE LoadRuns(d)
  BY <1>1, QuietLeaving DEF LoadRuns, store, session
<1>2. CASE LoadRefused(d)
  BY <1>2, QuietLeaving DEF LoadRefused, store, session
<1>3. CASE LoadFails(d)
  BY <1>3, FailingLeaving DEF LoadFails, Fails, store
<1> QED BY <1>1, <1>2, <1>3

LEMMA SweepSound ==
  ASSUME Inv, SweepQueued \/ SweepRuns
  PROVE  Sound
<1>1. CASE SweepQueued
  BY <1>1, QuietEntering DEF SweepQueued, store, session
<1>2. CASE SweepRuns
  BY <1>2, QuietLeaving DEF SweepRuns, store, session
<1> QED BY <1>1, <1>2

LEMMA ScanSound ==
  ASSUME Inv, ScanBegins \/ ScanEnds \/ ScanFails
  PROVE  Sound
<1>1. CASE ScanBegins
  BY <1>1, QuietBeside DEF ScanBegins, store, session
<1>2. CASE ScanEnds
  BY <1>2, QuietBeside DEF ScanEnds, store, session
<1>3. CASE ScanFails
  <2>1. phase # "closed"
    BY <1>3 DEF ScanFails, Inv, LineInv
  <2> QED BY <1>3, <2>1, FailingBeside DEF ScanFails, Fails, store
<1> QED BY <1>1, <1>2, <1>3

\* The last call of close(), its place on the line, and its job.
LEMMA CloseSound ==
  ASSUME Inv, Close \/ Joined \/ CloseBegins \/ CloseEnds
  PROVE  Sound
<1>1. CASE Close
  BY <1>1, QuietBeside DEF Close, store
<1>2. CASE Joined
  <2>1. /\ phase = "closing" /\ phase' = "queued" /\ line' = Append(line, CloseJob)
        /\ UNCHANGED <<req, effect, heard, failed, scan>>
    BY <1>2 DEF Joined, Enqueue, store
  <2>2. Fits(line', req', phase')
    BY <2>1, JobsDiffer, FitsWhenEntered DEF Inv, LineInv
  <2>3. LineInv'
    BY <2>1, <2>2 DEF Inv, LineInv
  <2>4. EffectInv'
    BY <2>1 DEF Inv, EffectInv
  <2>5. UNCHANGED J!journal
    BY <2>1, QuietStutters
  <2> QED BY <2>3, <2>4, <2>5 DEF Inv, Sound
<1>3. CASE CloseBegins
  <2>1. /\ Runs(CloseJob) /\ phase = "queued" /\ phase' = "draining"
        /\ UNCHANGED <<line, req, effect, heard, failed, scan>>
    BY <1>3 DEF CloseBegins, store
  <2>2. Fits(line', req', phase')
    BY <2>1 DEF Inv, LineInv, Fits, PhaseFits, Runs
  <2>3. LineInv'
    BY <2>1, <2>2 DEF Inv, LineInv
  <2>4. EffectInv'
    BY <2>1 DEF Inv, EffectInv
  <2>5. UNCHANGED J!journal
    BY <2>1, QuietStutters
  <2> QED BY <2>3, <2>4, <2>5 DEF Inv, Sound
<1>4. CASE CloseEnds
  <2>1. /\ phase = "draining" /\ phase' = "closed" /\ line' = Tail(line)
        /\ failed' \in {failed, TRUE} /\ ~scan
        /\ UNCHANGED <<req, effect, heard, scan>>
    BY <1>4 DEF CloseEnds, store
  <2>2. /\ line \in Seq(Jobs) /\ line # <<>> /\ Head(line) = CloseJob
        /\ CloseIsLast(line) /\ JobsFit(line, req)
    BY <2>1 DEF Inv, LineInv, Fits, PhaseFits
  <2>3. /\ Tail(line) \in Seq(Jobs) /\ Len(line) \in Nat \ {0} /\ Head(line) = line[1]
        /\ Len(Tail(line)) = Len(line) - 1
        /\ \A i \in 1..Len(Tail(line)) : Tail(line)[i] = line[i + 1]
    BY <2>2, LeavingFacts
  <2>4. \A i \in 1..Len(line) : i = 1 \/ line[i] = SweepJob
    <3> SUFFICES ASSUME NEW i \in 1..Len(line), i # 1
                 PROVE  line[i] = SweepJob
      OBVIOUS
    <3>1. 1 \in 1..Len(line) /\ 1 < i
      BY <2>3
    <3> QED BY <3>1, <2>2, <2>3 DEF CloseIsLast
  <2>5. \A r \in Requests : req[r] \notin InTurn /\ req[r] # "queued"
    BY <2>2, <2>3, <2>4, JobsDiffer DEF JobsFit
  <2>6. \A i \in 1..Len(Tail(line)) : Tail(line)[i] = SweepJob
    <3> SUFFICES ASSUME NEW i \in 1..Len(Tail(line))
                 PROVE  Tail(line)[i] = SweepJob
      OBVIOUS
    <3>1. i + 1 \in 1..Len(line) /\ i + 1 # 1
      BY <2>3
    <3> QED BY <3>1, <2>3, <2>4
  <2>7. Fits(line', req', phase')
    BY <2>1, <2>3, <2>5, <2>6, JobsDiffer DEF Fits, JobsFit, CloseIsLast, PhaseFits
  <2>8. LineInv'
    BY <2>1, <2>7 DEF Inv, LineInv
  <2>9. EffectInv'
    <3>1. ~failed' => ~failed
      BY <2>1
    <3> QED BY <2>1, <3>1 DEF Inv, EffectInv
  <2>10. Stage' = Stage /\ Turn' = Turn
    BY <2>1 DEF Stage, Turn
  <2>11. CASE failed
    <3>1. Alive' = Alive
      BY <2>1, <2>11 DEF Alive
    <3> QED BY <2>1, <2>8, <2>9, <2>10, <3>1 DEF Inv, Sound, J!journal
  <2>12. CASE ~failed /\ failed' = TRUE
    <3>1. J!Fail
      BY <2>1, <2>12, FailureIsFail
    <3> QED BY <2>8, <2>9, <3>1 DEF Inv, Sound, J!Next
  <2>13. CASE ~failed /\ failed' = failed
    <3>1. Alive = "open" /\ Alive' = "closed"
      BY <2>1, <2>13 DEF Alive
    <3>2. \A r \in Requests : Stage[r] # "asked"
      BY <2>5 DEF Stage, Inv, LineInv, Statuses
    <3>3. J!Close
      BY <2>1, <2>10, <3>1, <3>2 DEF J!Close
    <3> QED BY <2>8, <2>9, <3>3 DEF Inv, Sound, J!Next
  <2> QED BY <2>1, <2>11, <2>12, <2>13
<1> QED BY <1>1, <1>2, <1>3, <1>4

-----------------------------------------------------------------------------
(* Steps of a commit.                                                       *)

LEMMA CommitSound ==
  ASSUME Inv, NEW r \in Requests, Commit(r)
  PROVE  Sound
<1>1. /\ ~failed /\ phase = "open" /\ req[r] = "new"
      /\ req' = [req EXCEPT ![r] = "queued"] /\ line' = Append(line, CommitJob(r))
      /\ UNCHANGED <<effect, heard, failed, phase, scan>>
  BY DEF Commit, Usable, Enqueue, store, session
<1>2. /\ req' \in [Requests -> Statuses] /\ req'[r] = "queued"
      /\ \A p \in Requests : p # r => req'[p] = req[p]
  BY <1>1 DEF Inv, LineInv, Statuses
<1>3. Fits(line', req', phase')
  BY <1>1, <1>2, JobsDiffer, FitsWhenEntered DEF Inv, LineInv
<1>4. LineInv'
  BY <1>1, <1>2, <1>3 DEF Inv, LineInv
<1>5. EffectInv'
  BY <1>1, <1>2 DEF Inv, LineInv, EffectInv
<1>6. Stage[r] = "new" /\ Stage' = [Stage EXCEPT ![r] = "asked"]
  BY <1>1, <1>2 DEF Stage, InTurn, Inv, LineInv
<1>7. \A p \in Requests : req'[p] \in InTurn <=> req[p] \in InTurn
  BY <1>1, <1>2 DEF InTurn
<1>8. Turn' = Turn
  BY <1>7 DEF Turn
<1>9. Alive = "open" /\ Alive' = Alive
  BY <1>1 DEF Alive
<1>10. J!Ask(r)
  BY <1>1, <1>6, <1>8, <1>9 DEF J!Ask
<1> QED BY <1>4, <1>5, <1>10 DEF Inv, Sound, J!Next

LEMMA CommitRefusedSound ==
  ASSUME Inv, NEW r \in Requests, CommitRefused(r)
  PROVE  Sound
<1>1. /\ Runs(CommitJob(r)) /\ req[r] = "queued"
      /\ Answer(r, IF failed THEN "lost" ELSE "refused")
      /\ UNCHANGED <<effect, heard, failed, phase, scan>>
  BY DEF CommitRefused, store, session
<1>2. r \notin effect
  BY <1>1 DEF Inv, EffectInv
<1>3. CASE failed
  <2>1. Inv'
    BY <1>1, <1>2, <1>3, AnswerKeepsInv DEF Seals
  <2>2. J!Lose(r)
    BY <1>1, <1>3, LostIsLose, Zenon
  <2> QED BY <2>1, <2>2 DEF Sound, J!Next
<1>4. CASE ~failed
  <2>1. Inv'
    BY <1>1, <1>2, <1>4, AnswerKeepsInv DEF Seals
  <2>2. J!Refuse(r)
    BY <1>1, <1>2, <1>4, RefusedIsRefuse
  <2> QED BY <2>1, <2>2 DEF Sound, J!Next
<1> QED BY <1>3, <1>4

LEMMA CommitBeginsSound ==
  ASSUME Inv, NEW r \in Requests, CommitBegins(r)
  PROVE  Sound
<1>1. /\ Runs(CommitJob(r)) /\ req[r] = "queued" /\ ~failed
      /\ req' = [req EXCEPT ![r] = "change"]
      /\ UNCHANGED <<line, effect, heard, failed, phase, scan>>
  BY DEF CommitBegins, store, session
<1>2. r \notin effect
  BY <1>1 DEF Inv, EffectInv
<1>3. Inv'
  BY <1>1, <1>2, TurnKeepsInv DEF InTurn
<1>4. /\ req' \in [Requests -> Statuses] /\ req'[r] = "change"
      /\ \A p \in Requests : p # r => req'[p] = req[p]
  BY <1>1 DEF Inv, LineInv, Statuses
<1>5. Stage[r] = "asked" /\ Stage' = Stage
  BY <1>1, <1>4 DEF Stage, InTurn
<1>6. Turn = Nobody
  BY <1>1, TurnOfRunning DEF InTurn
<1>7. Turn' = r
  <2>1. Runs(CommitJob(r))'
    BY <1>1 DEF Runs, CommitJob
  <2>2. \A p \in Requests : req'[p] \in InTurn => p = r
    BY <1>1, <1>4, OneInTurn
  <2>3. req'[r] \in InTurn
    BY <1>4 DEF InTurn
  <2> QED BY <2>2, <2>3 DEF Turn
<1>8. Alive = "open" /\ Alive' = Alive
  BY <1>1, JobsDiffer, WorkIsBeforeClose DEF Alive
<1>9. effect = heard
  <2>1. \A p \in effect \ heard : p \in Requests /\ req[p] \in InTurn
    BY <1>1 DEF Inv, EffectInv, InTurn
  <2>2. \A p \in effect \ heard : p = r
    BY <1>1, <2>1, OneInTurn
  <2> QED BY <1>2, <2>2 DEF Inv, EffectInv
<1>10. J!Begin(r)
  BY <1>1, <1>5, <1>6, <1>7, <1>8, <1>9 DEF J!Begin
<1> QED BY <1>3, <1>10 DEF Sound, J!Next

\* What a transaction reads.
LEMMA TxDocSound ==
  ASSUME Inv, NEW r \in Requests, NEW v \in Versions, TxDoc(r, v)
  PROVE  Sound
  BY QuietBeside DEF TxDoc, store, session

LEMMA TxReadFailsSound ==
  ASSUME Inv, NEW r \in Requests, TxReadFails(r)
  PROVE  Sound
<1>1. phase # "closed"
  BY InTurnRuns DEF TxReadFails, InTurn
<1> QED BY <1>1, FailingBeside DEF TxReadFails, Fails, store

LEMMA CallbackSound ==
  ASSUME Inv, NEW r \in Requests, CallbackReturns(r) \/ CallbackThrows(r)
  PROVE  Sound
<1>1. /\ req[r] = "change" /\ req[r] \in InTurn /\ Runs(CommitJob(r)) /\ phase # "closed"
      /\ UNCHANGED <<effect, heard, failed, phase, scan>>
  BY InTurnRuns DEF CallbackReturns, CallbackThrows, InTurn, store, session
<1>2. r \notin effect
  BY <1>1 DEF Inv, EffectInv
<1>3. CASE CallbackReturns(r) /\ Answer(r, "empty")
  <2>1. Inv'
    BY <1>1, <1>2, <1>3, AnswerKeepsInv DEF Seals
  <2>2. Turn = r /\ Turn' = Nobody /\ Stage' = [Stage EXCEPT ![r] = "empty"]
    BY <1>1, <1>3, AnswerMaps
  <2>3. Alive = "open" /\ Alive' = Alive
    BY <1>1, <1>3 DEF CallbackReturns, Alive
  <2>4. J!Empty(r)
    BY <1>1, <1>2, <2>2, <2>3 DEF J!Empty
  <2> QED BY <2>1, <2>4 DEF Sound, J!Next
<1>4. CASE line' = line /\ req' = [req EXCEPT ![r] = "storing"]
  <2>1. Inv'
    BY <1>1, <1>2, <1>4, TurnKeepsInv DEF InTurn
  <2>2. Stage' = Stage /\ Turn' = Turn
    BY <1>1, <1>4, SteadyTurn DEF InTurn
  <2>3. Alive' = Alive
    BY <1>1 DEF Alive
  <2> QED BY <1>1, <2>1, <2>2, <2>3 DEF Sound, J!journal
<1>5. CASE CallbackThrows(r)
  <2>1. Answer(r, IF failed THEN "lost" ELSE "refused")
    BY <1>5 DEF CallbackThrows
  <2>2. CASE failed
    <3>1. Inv'
      BY <1>1, <1>2, <2>1, <2>2, AnswerKeepsInv DEF Seals
    <3>2. J!Lose(r)
      BY <1>1, <2>1, <2>2, LostIsLose, Zenon
    <3> QED BY <3>1, <3>2 DEF Sound, J!Next
  <2>3. CASE ~failed
    <3>1. Inv'
      BY <1>1, <1>2, <2>1, <2>3, AnswerKeepsInv DEF Seals
    <3>2. J!Refuse(r)
      BY <1>1, <1>2, <2>1, <2>3, RefusedIsRefuse
    <3> QED BY <3>1, <3>2 DEF Sound, J!Next
  <2> QED BY <2>2, <2>3
<1>6. CallbackReturns(r) =>
        Answer(r, "empty") \/ (line' = line /\ req' = [req EXCEPT ![r] = "storing"])
  BY DEF CallbackReturns
<1> QED BY <1>3, <1>4, <1>5, <1>6

LEMMA StorageCommitsSound ==
  ASSUME Inv, NEW r \in Requests, StorageCommits(r)
  PROVE  Sound
<1>1. /\ req[r] = "storing" /\ req[r] \in InTurn /\ Runs(CommitJob(r))
      /\ req' = [req EXCEPT ![r] = "stored"] /\ effect' = effect \cup {r}
      /\ UNCHANGED <<line, heard, failed, phase, scan>>
  BY InTurnRuns DEF StorageCommits, InTurn, session
<1>2. Inv'
  BY <1>1, TurnKeepsInv DEF InTurn
<1>3. Stage' = Stage /\ Turn' = Turn /\ Turn = r
  BY <1>1, SteadyTurn, TurnOfRunning DEF InTurn
<1>4. r \notin effect
  BY <1>1 DEF Inv, EffectInv
<1>5. Alive' = Alive
  BY <1>1 DEF Alive
<1>6. J!TakeEffect(r)
  BY <1>1, <1>3, <1>4, <1>5 DEF J!TakeEffect
<1> QED BY <1>2, <1>6 DEF Sound, J!Next

\* The commit cannot be known to stand: Storage threw, the guard dropped its answer,
\* or memory could not follow.
LEMMA CommitLostSound ==
  ASSUME Inv, NEW r \in Requests, StorageThrows(r) \/ AnswerDropped(r) \/ AdoptFails(r)
  PROVE  Sound
<1>1. /\ req[r] \in InTurn /\ Answer(r, "lost") /\ failed' = TRUE
      /\ Seals(phase, phase') /\ UNCHANGED <<effect, heard, scan>>
  <2>1. CASE StorageThrows(r)
    BY <2>1 DEF StorageThrows, Fails, FailsWith, Seals, InTurn, store
  <2>2. CASE AnswerDropped(r)
    <3>1. failed' = TRUE
      BY <2>2 DEF AnswerDropped, session, Inv, LineInv
    <3> QED BY <2>2, <3>1 DEF AnswerDropped, Seals, InTurn, store, session
  <2>3. CASE AdoptFails(r)
    BY <2>3 DEF AdoptFails, Fails, FailsWith, Seals, InTurn, store
  <2> QED BY <2>1, <2>2, <2>3
<1>2. Runs(CommitJob(r))
  BY <1>1, InTurnRuns
<1>3. Inv'
  BY <1>1, <1>2, AnswerKeepsInv
<1>4. J!Lose(r)
  BY <1>1, <1>2, LostIsLose
<1> QED BY <1>3, <1>4 DEF Sound, J!Next

LEMMA CommitDoneSound ==
  ASSUME Inv, NEW r \in Requests, Publishes(r) \/ ListenerThrows(r)
  PROVE  Sound
<1>1. /\ req[r] = "stored" /\ req[r] \in InTurn /\ ~failed /\ Answer(r, "done")
      /\ Runs(CommitJob(r)) /\ UNCHANGED <<effect, scan>>
  BY InTurnRuns DEF Publishes, ListenerThrows, InTurn, store
<1>2. r \in effect
  BY <1>1 DEF Inv, EffectInv
<1>3. CASE Publishes(r)
  <2>1. heard' = heard \cup {r} /\ failed' = failed /\ phase' = phase
    BY <1>3 DEF Publishes, session
  <2>2. Inv'
    BY <1>1, <1>2, <2>1, AnswerKeepsInv DEF Seals
  <2>3. J!Done(r)
    BY <1>1, <2>1, AnsweredIsDone
  <2> QED BY <2>2, <2>3 DEF Sound, J!Next
<1>4. CASE ListenerThrows(r)
  <2>1. heard' = heard /\ failed' = TRUE /\ Seals(phase, phase')
    BY <1>4 DEF ListenerThrows, Fails, FailsWith, Seals
  <2>2. Inv'
    BY <1>1, <1>2, <2>1, AnswerKeepsInv
  <2>3. J!Done(r)
    BY <1>1, <2>1, AnsweredIsDone
  <2> QED BY <2>2, <2>3 DEF Sound, J!Next
<1> QED BY <1>3, <1>4

-----------------------------------------------------------------------------
(* The refinement.                                                          *)

LEMMA InitSound == Init => Inv /\ J!Init
<1> SUFFICES ASSUME Init PROVE Inv /\ J!Init
  OBVIOUS
<1>1. LineInv
  <2>1. line = <<>> /\ line \in Seq(Jobs) /\ Len(line) = 0
    BY DEF Init
  <2>2. \A r \in Requests : req[r] = "new"
    BY DEF Init
  <2>3. Fits(line, req, phase)
    BY <2>1, <2>2 DEF Init, Fits, JobsFit, CloseIsLast, PhaseFits, InTurn
  <2> QED BY <2>3 DEF Init, LineInv, Statuses
<1>2. EffectInv
  BY DEF Init, EffectInv
<1>3. /\ Stage = [r \in Requests |-> "new"] /\ Turn = Nobody /\ Alive = "open"
  BY DEF Init, Stage, Turn, Alive, InTurn
<1>4. J!Init
  BY <1>3 DEF Init, J!Init
<1> QED BY <1>1, <1>2, <1>4 DEF Inv

LEMMA NextSound == Inv /\ [Next]_vars => Sound
<1> SUFFICES ASSUME Inv, [Next]_vars PROVE Sound
  OBVIOUS
<1>1. CASE LineMoves
  <2>1. ASSUME NEW r \in Requests, CommitMoves(r) PROVE Sound
    BY <2>1, CommitRefusedSound, CommitBeginsSound, CallbackSound, StorageCommitsSound,
       CommitLostSound, CommitDoneSound DEF CommitMoves
  <2>2. ASSUME NEW d \in Readers, LoadRuns(d) \/ LoadRefused(d) \/ LoadFails(d) PROVE Sound
    BY <2>2, LoadSound
  <2>3. CASE WatchRuns \/ WatchRefused \/ WatchLoadFails
    BY <2>3, WatchJobSound
  <2>4. CASE CloseBegins \/ CloseEnds
    BY <2>4, CloseSound
  <2>5. CASE SweepRuns
    BY <2>5, SweepSound
  <2> QED BY <1>1, <2>1, <2>2, <2>3, <2>4, <2>5 DEF LineMoves
<1>2. CASE Close \/ Joined
  BY <1>2, CloseSound
<1>3. CASE ScanBegins \/ ScanEnds \/ ScanFails
  BY <1>3, ScanSound
<1>4. CASE SweepQueued
  BY <1>4, SweepSound
<1>5. CASE \/ WatchStarts \/ WatchDelivers \/ WatchListenerReturns \/ WatchListenerThrows
           \/ WatchStops
  BY <1>5, WatchSound
<1>6. CASE \E v \in Versions : WatchDoc(v)
  BY <1>6, WatchDocSound
<1>7. ASSUME NEW r \in Requests,
             Commit(r) \/ TxReadFails(r) \/ \E v \in Versions : TxDoc(r, v)
      PROVE  Sound
  BY <1>7, CommitSound, TxReadFailsSound, TxDocSound
<1>8. ASSUME NEW d \in Readers, NEW v \in Versions, SnapshotCached(d, v) \/ SnapshotQueued(d, v)
      PROVE  Sound
  BY <1>8, SnapshotSound
<1>9. CASE UNCHANGED vars
  <2>1. UNCHANGED <<line, req, effect, heard, failed, phase, scan>>
    BY <1>9 DEF vars, store, session
  <2> QED BY <2>1, QuietBeside
<1> QED BY <1>1, <1>2, <1>3, <1>4, <1>5, <1>6, <1>7, <1>8, <1>9 DEF Next

\* A Session implements the journal: whatever Storage, callbacks and listeners do, a
\* commit answered "done" took effect once and in its turn, a refused one never does,
\* and only a failed Session leaves a request without knowing.
THEOREM SessionKeepsJournal == Spec => KeepsJournal
<1>1. Init => Inv /\ J!Init
  BY InitSound
<1>2. Inv /\ [Next]_vars => Inv' /\ [J!Next]_(J!journal)
  BY NextSound DEF Sound
<1> QED BY <1>1, <1>2, PTL DEF Spec, KeepsJournal, J!Spec

-----------------------------------------------------------------------------
(* The invariant.                                                           *)

Batches == [what : Whats, ver : Versions \cup {0}]
Documents == [inc : Nat, n : Nat, ver : Versions \cup {0}, live : BOOLEAN]
Caches == [on : BOOLEAN, inc : Nat, n : Nat, ver : Versions \cup {0}, as : Versions \cup {0}]

\* What the running commit stages fits the stored document.
StagedFits ==
  /\ (\A r \in Requests : req[r] \notin InTurn) => batch = NoBatch
  /\ (\E r \in Requests : req[r] = "change") => batch.what \in {"nothing", "migrate", "create"}
  /\ (\E r \in Requests : req[r] \in {"change", "storing"}) =>
       /\ batch.what = "create" => ~doc.live
       /\ batch.what \in {"ops", "migrate", "retire"} => doc.live
  /\ (\E r \in Requests : req[r] = "stored") /\ batch.what = "create" => doc.live
  /\ batch.what = "create" => ~cache.on

\* While the Session is healthy, memory holds the newest published state.
CacheIsCurrent ==
  ~failed /\ cache.on =>
    /\ cache.n = Known /\ cache.inc = doc.inc
    /\ doc.live \/ (Unadopted /\ batch.what = "retire")

Core ==
  /\ batch \in Batches /\ doc \in Documents /\ cache \in Caches
  /\ StagedFits /\ CacheIsCurrent
Sides == read \in [Readers -> Reads] /\ watch \in Watches /\ sweeps \in Nat

ReadInv == Inv /\ Core /\ Sides

-----------------------------------------------------------------------------
(* Types.                                                                   *)

LEMMA Nothings ==
  /\ NoBatch \in Batches /\ NoDoc \in Documents /\ NoCache \in Caches
  /\ NoRead \in Reads /\ NoWatch \in Watches /\ ~NoCache.on
  BY DEF NoBatch, NoDoc, NoCache, NoRead, NoWatch, Batches, Documents, Caches, Reads,
         Watches, Points, Whats

LEMMA DocumentTyped ==
  ASSUME NEW d \in Documents, NEW v \in Versions \cup {0}
  PROVE  /\ d.n \in Nat /\ d.n + 1 \in Nat /\ d.inc \in Nat /\ d.inc + 1 \in Nat
         /\ \A n \in Nat : [d EXCEPT !.n = n, !.ver = v] \in Documents
         /\ \A n \in Nat : [d EXCEPT !.n = n, !.live = FALSE] \in Documents
         /\ [d EXCEPT !.ver = v] \in Documents
         /\ \A i, n \in Nat : [inc |-> i, n |-> n, ver |-> v, live |-> TRUE] \in Documents
<1>1. d.n \in Nat /\ d.n + 1 \in Nat /\ d.inc \in Nat /\ d.inc + 1 \in Nat
  BY DEF Documents
<1>2. ASSUME NEW n \in Nat
      PROVE  [d EXCEPT !.n = n, !.ver = v] \in Documents
  BY DEF Documents
<1>3. ASSUME NEW n \in Nat
      PROVE  [d EXCEPT !.n = n, !.live = FALSE] \in Documents
  BY DEF Documents
<1>4. [d EXCEPT !.ver = v] \in Documents
  BY DEF Documents
<1>5. \A i, n \in Nat : [inc |-> i, n |-> n, ver |-> v, live |-> TRUE] \in Documents
  BY DEF Documents
<1> QED BY <1>1, <1>2, <1>3, <1>4, <1>5

LEMMA StoredTyped ==
  ASSUME doc \in Documents, NEW b \in Batches
  PROVE  Stored(b) \in Documents
<1>1. b.ver \in Versions \cup {0} /\ b.what \in Whats
  BY DEF Batches
<1>2. CASE b.what = "ops"
  BY <1>1, <1>2, DocumentTyped DEF Stored
<1>3. CASE b.what = "migrate"
  BY <1>1, <1>3, DocumentTyped DEF Stored
<1>4. CASE b.what = "create"
  BY <1>1, <1>4, DocumentTyped DEF Stored
<1>5. CASE b.what = "retire"
  BY <1>1, <1>5, DocumentTyped DEF Stored
<1>6. CASE b.what \notin {"ops", "migrate", "create", "retire"}
  BY <1>6 DEF Stored
<1> QED BY <1>2, <1>3, <1>4, <1>5, <1>6

LEMMA LoadedTyped ==
  ASSUME doc \in Documents, cache \in Caches, NEW v \in Versions \cup {0}
  PROVE  Loaded(v) \in Caches
  BY Nothings DEF Documents, Caches, Loaded

LEMMA CacheTyped ==
  ASSUME NEW c \in Caches, NEW v \in Versions \cup {0}
  PROVE  /\ c.n \in Nat /\ c.n + 1 \in Nat /\ c.inc \in Nat
         /\ \A n \in Nat : [c EXCEPT !.n = n, !.ver = v] \in Caches
         /\ [c EXCEPT !.ver = v] \in Caches
         /\ \A i, n \in Nat : [on |-> TRUE, inc |-> i, n |-> n, ver |-> v, as |-> v] \in Caches
<1>1. c.n \in Nat /\ c.n + 1 \in Nat /\ c.inc \in Nat
  BY DEF Caches
<1>2. ASSUME NEW n \in Nat
      PROVE  [c EXCEPT !.n = n, !.ver = v] \in Caches
  BY DEF Caches
<1>3. [c EXCEPT !.ver = v] \in Caches
  BY DEF Caches
<1>4. \A i, n \in Nat : [on |-> TRUE, inc |-> i, n |-> n, ver |-> v, as |-> v] \in Caches
  BY DEF Caches
<1> QED BY <1>1, <1>2, <1>3, <1>4

LEMMA AdoptedTyped ==
  ASSUME doc \in Documents, cache \in Caches, NEW b \in Batches
  PROVE  Adopted(b) \in Caches
<1>1. /\ b.ver \in Versions \cup {0} /\ b.what \in Whats
      /\ doc.inc \in Nat /\ doc.n \in Nat
  BY DEF Batches, Documents
<1>2. CASE b.what = "ops"
  BY <1>1, <1>2, CacheTyped DEF Adopted
<1>3. CASE b.what = "migrate"
  BY <1>1, <1>3, CacheTyped DEF Adopted
<1>4. CASE b.what = "create"
  BY <1>1, <1>4, CacheTyped DEF Adopted
<1>5. CASE b.what = "retire"
  BY <1>5, Nothings DEF Adopted
<1>6. CASE b.what \notin {"ops", "migrate", "create", "retire"}
  BY <1>6 DEF Adopted
<1> QED BY <1>2, <1>3, <1>4, <1>5, <1>6

LEMMA SweptTyped ==
  ASSUME NEW c \in Caches, NEW d \in Swept(c)
  PROVE  d \in Caches /\ (d = c \/ d = NoCache)
  BY Nothings DEF Swept

LEMMA EndedTyped ==
  ASSUME NEW w \in Watches
  PROVE  Ended(w) \in Watches
<1>1. w.running \in {"no", "yes", "last"}
  BY DEF Watches
<1>2. \A x \in {"no", "yes", "last"} :
        [[NoWatch EXCEPT !.status = "ended"] EXCEPT !.running = x] \in Watches
  BY Nothings DEF Watches
<1> QED BY <1>1, <1>2 DEF Ended

\* A frame as it is queued.
FramesTyped == [kind : {"ops", "root", "null"}, from : Points, to : Points]

LEMMA FramesAreTyped ==
  ASSUME doc \in Documents, watch \in Watches, NEW b \in Batches, NEW f \in Frames(b)
  PROVE  f \in FramesTyped
<1>1. /\ doc.n \in Int /\ doc.n - 1 \in Int /\ watch.as \in Versions \cup {0}
      /\ b.ver \in Versions \cup {0}
  BY DEF Documents, Watches, Batches
<1>2. /\ At(0, 0) \in Points /\ At(doc.n, watch.as) \in Points
      /\ At(doc.n, b.ver) \in Points /\ At(doc.n - 1, b.ver) \in Points
  BY <1>1 DEF At, Points
<1> QED BY <1>2 DEF Frames, Frame, FramesTyped

LEMMA PushedTyped ==
  ASSUME NEW q \in Seq(FramesTyped), NEW f \in FramesTyped
  PROVE  Pushed(q, f) \in Seq(FramesTyped)
<1>1. [f EXCEPT !.kind = "root"] \in FramesTyped
  BY DEF FramesTyped
<1>2. Append(q, f) \in Seq(FramesTyped)
  OBVIOUS
<1>3. \A g \in FramesTyped : <<g>> \in Seq(FramesTyped)
  OBVIOUS
<1> QED BY <1>1, <1>2, <1>3 DEF Pushed

LEMMA AdvancedTyped ==
  ASSUME doc \in Documents, watch \in Watches, NEW b \in Batches
  PROVE  Advanced(b) \in Watches
<1>1. CASE watch.status = "on" /\ watch.inc = doc.inc /\ ~Retired(watch) /\ Frames(b) # {}
  <2> DEFINE f == CHOOSE g \in Frames(b) : TRUE
  <2>1. f \in Frames(b)
    BY <1>1
  <2>2. f \in FramesTyped
    BY <2>1, FramesAreTyped
  <2> HIDE DEF f
  <2>3. Pushed(watch.queue, f) \in Seq(FramesTyped)
    BY <2>2, PushedTyped DEF Watches, FramesTyped
  <2>4. f.to.as \in Versions \cup {0}
    BY <2>2 DEF FramesTyped, Points
  <2>5. Advanced(b) = [[watch EXCEPT !.queue = Pushed(watch.queue, f)] EXCEPT !.as = f.to.as]
    BY <1>1 DEF Advanced, f
  <2> QED BY <2>3, <2>4, <2>5 DEF Watches, FramesTyped
<1>2. CASE ~(watch.status = "on" /\ watch.inc = doc.inc /\ ~Retired(watch) /\ Frames(b) # {})
  BY <1>2 DEF Advanced
<1> QED BY <1>1, <1>2

-----------------------------------------------------------------------------
(* Batch, document and cache.                                               *)

Storing == \E r \in Requests : req[r] = "stored"

LEMMA KnownIs == Known = IF Storing /\ batch.what \in {"ops", "create", "retire"}
                         THEN doc.n - 1 ELSE doc.n
  BY DEF Known, Unadopted, Storing

\* Another job than a commit runs: nobody has his turn.
LEMMA NobodyInTurn ==
  ASSUME Inv, NEW job, Runs(job), \A r \in Requests : job # CommitJob(r)
  PROVE  \A r \in Requests : req[r] \notin InTurn
  BY InTurnRuns DEF Runs

LEMMA QuietMemory ==
  ASSUME Core, \A r \in Requests : req[r] \notin InTurn
  PROVE  batch = NoBatch /\ batch.what = "nothing" /\ ~Storing /\ Known = doc.n /\ ~Unadopted
<1>1. batch = NoBatch /\ batch.what = "nothing"
  BY DEF Core, StagedFits, NoBatch
<1>2. ~Storing
  BY DEF Storing, InTurn
<1> QED BY <1>1, <1>2, KnownIs DEF Unadopted, Storing

\* Nothing moves but the cache, which may be dropped.
LEMMA CoreSteady ==
  ASSUME Core, UNCHANGED <<req, batch, doc>>, cache' \in {cache, NoCache},
         failed' \in {failed, TRUE}
  PROVE  Core'
<1>1. Known' = Known /\ Unadopted' = Unadopted
  BY DEF Known, Unadopted
<1>2. cache' \in Caches /\ (cache' = cache \/ ~cache'.on)
  BY Nothings DEF Core
<1>3. StagedFits'
  BY <1>2 DEF Core, StagedFits
<1>4. CacheIsCurrent'
  <2> SUFFICES ASSUME ~failed', cache'.on
               PROVE  /\ cache'.n = Known' /\ cache'.inc = doc'.inc
                      /\ doc'.live \/ (Unadopted' /\ batch'.what = "retire")
    BY DEF CacheIsCurrent
  <2>1. cache' = cache
    BY <1>2, Zenon
  <2>2. ~failed
    BY Zenon
  <2> QED BY <1>1, <2>1, <2>2 DEF Core, CacheIsCurrent
<1> QED BY <1>2, <1>3, <1>4 DEF Core

\* A job beside the commits loads the document.
LEMMA CoreLoads ==
  ASSUME Inv, Core, NEW job, Runs(job), \A r \in Requests : job # CommitJob(r),
         NEW v \in Versions \cup {0},
         UNCHANGED <<req, batch, doc, failed>>, cache' = Loaded(v)
  PROVE  Core'
<1>1. /\ \A r \in Requests : req[r] \notin InTurn
      /\ batch = NoBatch /\ batch.what = "nothing" /\ ~Storing /\ Known = doc.n /\ ~Unadopted
  BY NobodyInTurn, QuietMemory
<1>2. Known' = Known
  BY DEF Known, Unadopted
<1>3. cache' \in Caches
  BY LoadedTyped DEF Core
<1>4. StagedFits'
  BY <1>1 DEF Core, StagedFits
<1>5. CacheIsCurrent'
  <2> SUFFICES ASSUME ~failed, Loaded(v).on
               PROVE  Loaded(v).n = doc.n /\ Loaded(v).inc = doc.inc /\ doc.live
    BY <1>1, <1>2 DEF CacheIsCurrent
  <2>1. CASE cache.on /\ cache.as = v
    BY <1>1, <2>1 DEF Core, CacheIsCurrent, Loaded
  <2>2. CASE ~(cache.on /\ cache.as = v)
    <3>1. doc.live
      BY <2>2, Nothings DEF Loaded
    <3> QED BY <2>2, <3>1 DEF Loaded
  <2> QED BY <2>1, <2>2
<1> QED BY <1>3, <1>4, <1>5 DEF Core

\* The running commit is answered, and what it staged is not adopted.
LEMMA CoreAnswers ==
  ASSUME Inv, Core, NEW r \in Requests, Runs(CommitJob(r)),
         NEW status \in {"empty", "refused", "lost", "done"}, Answer(r, status),
         doc' = doc, cache' \in {cache, NoCache}, failed => failed',
         req[r] = "stored" => failed'
  PROVE  Core'
<1>1. \A p \in Requests : req'[p] \notin InTurn
  BY OneInTurn DEF Answer, Inv, LineInv, InTurn
<1>2. batch' = NoBatch /\ NoBatch.what = "nothing"
  BY DEF Answer, NoBatch
<1>3. cache' \in Caches /\ (cache' = cache \/ ~cache'.on)
  BY Nothings DEF Core
<1>4. Known' = doc.n
  BY <1>1, <1>2 DEF Known, Unadopted
<1>5. StagedFits'
  BY <1>1, <1>2 DEF StagedFits, InTurn
<1>6. CacheIsCurrent'
  <2> SUFFICES ASSUME ~failed', cache'.on
               PROVE  cache'.n = doc.n /\ cache'.inc = doc.inc /\ doc.live
    BY <1>4 DEF CacheIsCurrent
  <2>1. cache' = cache
    BY <1>3, Zenon
  <2>2. ~failed /\ req[r] # "stored"
    BY Zenon
  <2>3. ~Storing
    BY <2>2, OneInTurn DEF Storing, InTurn
  <2>4. Known = doc.n /\ ~Unadopted
    BY <2>3, KnownIs DEF Unadopted, Storing
  <2> QED BY <2>1, <2>2, <2>4 DEF Core, CacheIsCurrent
<1> QED BY <1>2, <1>3, <1>5, <1>6, Nothings DEF Core

LEMMA CoreBegins ==
  ASSUME Inv, Core, NEW r \in Requests, CommitBegins(r)
  PROVE  Core'
<1>1. /\ Runs(CommitJob(r)) /\ req[r] = "queued" /\ req' = [req EXCEPT ![r] = "change"]
      /\ UNCHANGED <<batch, doc, cache, failed>>
  BY DEF CommitBegins, store, session
<1>2. \A p \in Requests : req[p] \notin InTurn
  BY <1>1, OneInTurn DEF InTurn
<1>3. batch = NoBatch /\ batch.what = "nothing" /\ Known = doc.n /\ ~Unadopted
  BY <1>2, QuietMemory
<1>4. Known' = doc.n
  BY <1>1, <1>3 DEF Known, Unadopted
<1>5. StagedFits'
  BY <1>1, <1>3 DEF StagedFits
<1>6. CacheIsCurrent'
  BY <1>1, <1>3, <1>4 DEF Core, CacheIsCurrent
<1> QED BY <1>1, <1>5, <1>6 DEF Core

\* The callback acquires the document.
LEMMA CoreAcquires ==
  ASSUME Inv, Core, NEW r \in Requests, NEW v \in Versions, TxDoc(r, v)
  PROVE  Core'
<1>1. /\ req[r] = "change" /\ req[r] \in InTurn /\ Runs(CommitJob(r)) /\ ~failed
      /\ batch = NoBatch /\ cache' = Loaded(v)
      /\ batch' = [what |-> IF doc.live THEN "migrate" ELSE "create", ver |-> v]
      /\ UNCHANGED <<req, doc, failed>>
  BY InTurnRuns DEF TxDoc, InTurn, store, session
<1>2. ~Storing
  BY <1>1, OneInTurn DEF Storing, InTurn
<1>3. Known = doc.n /\ ~Unadopted
  BY <1>2, KnownIs DEF Unadopted, Storing
<1>4. Known' = doc.n /\ ~Unadopted'
  BY <1>1, <1>2 DEF Known, Unadopted, Storing
<1>5. batch' \in Batches /\ cache' \in Caches
  BY <1>1, LoadedTyped DEF Core, Batches, Whats
<1>6. cache.on => doc.live /\ cache.n = doc.n /\ cache.inc = doc.inc
  BY <1>1, <1>3 DEF Core, CacheIsCurrent
<1>7. Loaded(v).on => doc.live /\ Loaded(v).n = doc.n /\ Loaded(v).inc = doc.inc
  <2>1. CASE cache.on /\ cache.as = v
    BY <1>6, <2>1 DEF Loaded
  <2>2. CASE ~(cache.on /\ cache.as = v) /\ doc.live
    BY <2>2 DEF Loaded
  <2>3. CASE ~(cache.on /\ cache.as = v) /\ ~doc.live
    BY <2>3, Nothings DEF Loaded
  <2> QED BY <2>1, <2>2, <2>3
<1>8. StagedFits'
  <2>1. \A p \in Requests : req'[p] # "stored"
    BY <1>1, <1>2 DEF Storing
  <2>2. batch'.what = (IF doc.live THEN "migrate" ELSE "create")
    BY <1>1
  <2>3. batch'.what = "create" => ~doc.live
    BY <2>2
  <2>4. batch'.what \in {"ops", "migrate", "retire"} => doc.live
    BY <2>2
  <2>5. batch'.what = "create" => ~cache'.on
    BY <1>1, <1>7, <2>3
  <2>6. batch'.what \in {"migrate", "create"}
    BY <2>2
  <2> QED BY <1>1, <2>1, <2>3, <2>4, <2>5, <2>6 DEF StagedFits
<1>9. CacheIsCurrent'
  BY <1>1, <1>4, <1>7 DEF CacheIsCurrent
<1> QED BY <1>1, <1>5, <1>8, <1>9 DEF Core

\* What a callback may have staged.
LEMMA StageableFits ==
  ASSUME Core, NEW r \in Requests, req[r] = "change", NEW b \in Stageable
  PROVE  /\ b \in Batches
         /\ b.what = "create" => batch.what = "create"
         /\ b.what \in {"ops", "migrate", "retire"} => doc.live
<1>1. /\ batch \in Batches /\ batch.what \in Whats /\ batch.ver \in Versions \cup {0}
      /\ batch.what \in {"nothing", "migrate", "create"}
      /\ batch.what = "migrate" => doc.live
  BY DEF Core, StagedFits, Batches
<1>2. \A w \in Whats : [batch EXCEPT !.what = w] \in Batches /\ [batch EXCEPT !.what = w].what = w
  BY <1>1 DEF Batches
<1>3. CASE batch.what = "nothing"
  <2>1. b \in {[what |-> w, ver |-> 0] :
                 w \in {"nothing", "table"} \cup (IF doc.live THEN {"retire"} ELSE {})}
    BY <1>3 DEF Stageable
  <2> QED BY <2>1 DEF Batches, Whats
<1>4. CASE batch.what = "create"
  <2>1. b \in {batch, [batch EXCEPT !.what = "table"]}
    BY <1>4 DEF Stageable
  <2> QED BY <1>1, <1>2, <1>4, <2>1 DEF Whats
<1>5. CASE batch.what = "migrate"
  <2>1. b \in {[batch EXCEPT !.what = w] : w \in {"ops", "retire"}}
               \cup {batch, [batch EXCEPT !.what = "nothing"]}
    BY <1>5 DEF Stageable
  <2> QED BY <1>1, <1>2, <1>5, <2>1 DEF Whats
<1> QED BY <1>1, <1>3, <1>4, <1>5

\* The callback returned, and its batch goes to Storage.
LEMMA CoreSends ==
  ASSUME Inv, Core, NEW r \in Requests, req[r] = "change", NEW b \in Stageable, batch' = b,
         req' = [req EXCEPT ![r] = "storing"], UNCHANGED <<doc, cache, failed>>
  PROVE  Core'
<1>1. Runs(CommitJob(r)) /\ req \in [Requests -> Statuses]
  BY InTurnRuns DEF InTurn, Inv, LineInv
<1>2. \A p \in Requests : req[p] \in InTurn => p = r
  BY <1>1, OneInTurn
<1>3. /\ req'[r] = "storing" /\ \A p \in Requests : p # r => req'[p] = req[p]
  BY <1>1
<1>4. \A p \in Requests : req[p] # "stored" /\ req'[p] \notin {"change", "stored"}
  BY <1>2, <1>3 DEF InTurn
<1>5. Known = doc.n /\ ~Unadopted /\ Known' = doc.n /\ ~Unadopted'
  BY <1>4 DEF Known, Unadopted
<1>6. /\ b \in Batches
      /\ b.what = "create" => batch.what = "create"
      /\ b.what \in {"ops", "migrate", "retire"} => doc.live
  BY StageableFits
<1>7. batch.what = "create" => ~doc.live /\ ~cache.on
  BY DEF Core, StagedFits
<1>8. StagedFits'
  <2>1. r \in Requests /\ req'[r] \in InTurn
    BY <1>3 DEF InTurn
  <2> QED BY <1>4, <1>6, <1>7, <2>1 DEF StagedFits
<1>9. CacheIsCurrent'
  BY <1>5 DEF Core, CacheIsCurrent
<1> QED BY <1>6, <1>8, <1>9 DEF Core

\* Storage takes the batch: memory is one state behind until the commit is adopted.
LEMMA CoreTakesEffect ==
  ASSUME Inv, Core, NEW r \in Requests, StorageCommits(r)
  PROVE  Core'
<1>1. /\ req[r] = "storing" /\ req[r] \in InTurn /\ Runs(CommitJob(r))
      /\ req' = [req EXCEPT ![r] = "stored"] /\ doc' = Stored(batch)
      /\ UNCHANGED <<batch, cache, failed>> /\ req \in [Requests -> Statuses]
  BY InTurnRuns DEF StorageCommits, InTurn, session, Inv, LineInv
<1>2. \A p \in Requests : req[p] \in InTurn => p = r
  BY <1>1, OneInTurn
<1>3. /\ req'[r] = "stored" /\ \A p \in Requests : p # r => req'[p] = req[p]
  BY <1>1
<1>4. \A p \in Requests : req[p] # "stored" /\ req'[p] \notin {"change", "storing"}
  BY <1>1, <1>2, <1>3 DEF InTurn
<1>5. Known = doc.n /\ ~Unadopted
  BY <1>4 DEF Known, Unadopted
<1>6. Unadopted' <=> batch.what \in {"ops", "create", "retire"}
  BY <1>1, <1>3 DEF Unadopted
<1>7. /\ batch \in Batches /\ batch.what \in Whats /\ doc \in Documents /\ doc' \in Documents
  BY <1>1, StoredTyped DEF Core, Batches
<1>8. doc.n \in Nat
  BY <1>7 DEF Documents
<1>9. batch.what \in {"ops", "create", "retire"} => doc'.n = doc.n + 1
  BY <1>1, <1>7 DEF Stored, Documents
<1>10. batch.what \notin {"ops", "create", "retire"} => doc'.n = doc.n
  BY <1>1, <1>7 DEF Stored, Documents, Whats
<1>11. Known' = doc.n
  <2>1. Known' = IF Unadopted' THEN doc'.n - 1 ELSE doc'.n
    BY DEF Known
  <2> QED BY <2>1, <1>6, <1>8, <1>9, <1>10
<1>12. /\ batch.what # "create" => doc'.inc = doc.inc
       /\ batch.what = "create" => doc'.live
  BY <1>1, <1>7 DEF Stored, Documents, Whats
<1>13. batch.what \notin {"create", "retire"} => doc'.live = doc.live
  BY <1>1, <1>7 DEF Stored, Documents, Whats
<1>14. StagedFits'
  <2>1. r \in Requests /\ req'[r] \in InTurn
    BY <1>3 DEF InTurn
  <2>2. batch.what = "create" => ~cache.on
    BY DEF Core, StagedFits
  <2> QED BY <1>1, <1>4, <1>12, <2>1, <2>2 DEF StagedFits
<1>15. CacheIsCurrent'
  <2> SUFFICES ASSUME ~failed, cache.on
               PROVE  /\ cache.n = Known' /\ cache.inc = doc'.inc
                      /\ doc'.live \/ (Unadopted' /\ batch.what = "retire")
    BY <1>1 DEF CacheIsCurrent
  <2>1. cache.n = doc.n /\ cache.inc = doc.inc /\ doc.live /\ batch.what # "create"
    BY <1>5 DEF Core, CacheIsCurrent, StagedFits
  <2>2. CASE batch.what = "retire"
    BY <2>1, <2>2, <1>6, <1>11, <1>12
  <2>3. CASE batch.what # "retire"
    BY <2>1, <2>3, <1>11, <1>12, <1>13
  <2> QED BY <2>2, <2>3
<1> QED BY <1>1, <1>7, <1>14, <1>15 DEF Core

\* The commit is adopted, and memory has caught up.
LEMMA CoreAdopts ==
  ASSUME Inv, Core, NEW r \in Requests, req[r] = "stored", ~failed, Answer(r, "done"),
         doc' = doc, cache' \in Swept(Adopted(batch))
  PROVE  Core'
<1>1. Runs(CommitJob(r)) /\ req \in [Requests -> Statuses]
  BY InTurnRuns DEF InTurn, Inv, LineInv
<1>2. \A p \in Requests : req'[p] \notin InTurn
  BY <1>1, OneInTurn DEF Answer, InTurn
<1>3. batch' = NoBatch /\ NoBatch.what = "nothing"
  BY DEF Answer, NoBatch
<1>4. Known' = doc.n /\ ~Unadopted'
  BY <1>2, <1>3 DEF Known, Unadopted
<1>5. StagedFits'
  BY <1>2, <1>3 DEF StagedFits, InTurn
<1>6. /\ batch \in Batches /\ batch.what \in Whats /\ doc \in Documents /\ cache \in Caches
      /\ Adopted(batch) \in Caches
  BY AdoptedTyped DEF Core, Batches
<1>7. cache' \in Caches /\ (cache' = Adopted(batch) \/ ~cache'.on)
  BY <1>6, SweptTyped, Nothings
<1>8. Known = IF batch.what \in {"ops", "create", "retire"} THEN doc.n - 1 ELSE doc.n
  BY KnownIs DEF Storing
<1>9. cache.on => /\ cache.n = Known /\ cache.inc = doc.inc
                  /\ doc.live \/ batch.what = "retire"
  BY DEF Core, CacheIsCurrent
<1>10. doc.n \in Nat /\ cache.n \in Nat
  BY <1>6 DEF Documents, Caches
<1>11. Adopted(batch).on =>
         Adopted(batch).n = doc.n /\ Adopted(batch).inc = doc.inc /\ doc.live
  <2>1. CASE batch.what = "ops"
    <3>1. /\ Adopted(batch).on = cache.on /\ Adopted(batch).n = cache.n + 1
          /\ Adopted(batch).inc = cache.inc
      BY <1>6, <2>1 DEF Adopted, Caches
    <3> QED BY <2>1, <3>1, <1>8, <1>9, <1>10
  <2>2. CASE batch.what = "migrate"
    <3>1. /\ Adopted(batch).on = cache.on /\ Adopted(batch).n = cache.n
          /\ Adopted(batch).inc = cache.inc
      BY <1>6, <2>2 DEF Adopted, Caches
    <3> QED BY <2>2, <3>1, <1>8, <1>9
  <2>3. CASE batch.what = "create"
    <3>1. doc.live
      BY <2>3 DEF Core, StagedFits
    <3> QED BY <2>3, <3>1 DEF Adopted
  <2>4. CASE batch.what = "retire"
    <3>1. Adopted(batch) = NoCache \/ ~Adopted(batch).on
      BY <2>4, <1>9 DEF Adopted
    <3> QED BY <3>1, Nothings
  <2>5. CASE batch.what \in {"nothing", "table"}
    <3>1. Adopted(batch) = cache
      BY <2>5 DEF Adopted
    <3> QED BY <2>5, <3>1, <1>8, <1>9
  <2> QED BY <2>1, <2>2, <2>3, <2>4, <2>5, <1>6 DEF Whats
<1>12. CacheIsCurrent'
  <2> SUFFICES ASSUME cache'.on
               PROVE  cache'.n = doc.n /\ cache'.inc = doc.inc /\ doc.live
    BY <1>4 DEF CacheIsCurrent
  <2>1. cache' = Adopted(batch)
    BY <1>7, Zenon
  <2> QED BY <2>1, <1>11
<1> QED BY <1>3, <1>5, <1>6, <1>7, <1>12, Nothings DEF Core

LEMMA CoreOfCommit ==
  ASSUME Inv, Core, NEW r \in Requests, CommitMoves(r)
  PROVE  Core'
<1>1. CASE CommitRefused(r)
  <2>1. /\ Runs(CommitJob(r)) /\ req[r] = "queued"
        /\ Answer(r, IF failed THEN "lost" ELSE "refused") /\ UNCHANGED <<doc, cache, failed>>
    BY <1>1 DEF CommitRefused, store, session
  <2> QED BY <2>1, CoreAnswers
<1>2. CASE CommitBegins(r)
  BY <1>2, CoreBegins
<1>3. CASE CallbackReturns(r)
  <2>1. /\ req[r] = "change" /\ req[r] \in InTurn /\ Runs(CommitJob(r)) /\ UNCHANGED <<doc, failed>>
    BY <1>3, InTurnRuns DEF CallbackReturns, InTurn, store, session
  <2>2. PICK b \in Stageable :
          IF b.what = "nothing"
          THEN Answer(r, "empty") /\ cache' \in Swept(cache)
          ELSE batch' = b /\ req' = [req EXCEPT ![r] = "storing"] /\ UNCHANGED <<line, cache>>
    BY <1>3 DEF CallbackReturns
  <2>3. CASE b.what = "nothing"
    <3>1. cache' \in {cache, NoCache}
      BY <2>2, <2>3, SweptTyped DEF Core
    <3> QED BY <2>1, <2>2, <2>3, <3>1, CoreAnswers
  <2>4. CASE b.what # "nothing"
    BY <2>1, <2>2, <2>4, CoreSends
  <2> QED BY <2>3, <2>4
<1>4. CASE CallbackThrows(r)
  <2>1. /\ req[r] = "change" /\ req[r] \in InTurn /\ Runs(CommitJob(r)) /\ UNCHANGED <<doc, failed>>
        /\ Answer(r, IF failed THEN "lost" ELSE "refused") /\ cache' \in Swept(cache)
    BY <1>4, InTurnRuns DEF CallbackThrows, InTurn, store, session
  <2>2. cache' \in {cache, NoCache}
    BY <2>1, SweptTyped DEF Core
  <2> QED BY <2>1, <2>2, CoreAnswers
<1>5. CASE StorageCommits(r)
  BY <1>5, CoreTakesEffect
<1>6. CASE StorageThrows(r) \/ AnswerDropped(r) \/ AdoptFails(r)
  <2>1. /\ req[r] \in InTurn /\ Answer(r, "lost") /\ failed' /\ UNCHANGED <<doc, cache>>
    BY <1>6 DEF StorageThrows, AnswerDropped, AdoptFails, Fails, FailsWith, InTurn, store, session
  <2> QED BY <2>1, InTurnRuns, CoreAnswers
<1>7. CASE Publishes(r) \/ ListenerThrows(r)
  BY <1>7, CoreAdopts DEF Publishes, ListenerThrows, store
<1> QED BY <1>1, <1>2, <1>3, <1>4, <1>5, <1>6, <1>7 DEF CommitMoves

-----------------------------------------------------------------------------
(* Readers and the watch.                                                   *)

LEMMA WatchTyped ==
  ASSUME NEW w \in Watches, NEW v \in Versions \cup {0}, NEW p \in Points, NEW i \in Nat
  PROVE  /\ [w EXCEPT !.status = "queued", !.as = v] \in Watches
         /\ [w EXCEPT !.status = "on", !.inc = i, !.at = p] \in Watches
         /\ [w EXCEPT !.started = TRUE] \in Watches
         /\ [w EXCEPT !.running = "no"] \in Watches
         /\ \A x \in {"yes", "last"} :
              w.queue # <<>> =>
                [w EXCEPT !.queue = Tail(@), !.at = Head(w.queue).to, !.running = x] \in Watches
<1>1. [w EXCEPT !.status = "queued", !.as = v] \in Watches
  BY DEF Watches
<1>2. [w EXCEPT !.status = "on", !.inc = i, !.at = p] \in Watches
  BY DEF Watches
<1>3. [w EXCEPT !.started = TRUE] \in Watches
  BY DEF Watches
<1>4. [w EXCEPT !.running = "no"] \in Watches
  BY DEF Watches
<1>5. ASSUME NEW x \in {"yes", "last"}, w.queue # <<>>
      PROVE  [w EXCEPT !.queue = Tail(@), !.at = Head(w.queue).to, !.running = x] \in Watches
  <2>1. w.queue \in Seq(FramesTyped)
    BY DEF Watches, FramesTyped
  <2>2. Tail(w.queue) \in Seq(FramesTyped) /\ Head(w.queue) \in FramesTyped
    BY <1>5, <2>1
  <2>3. Head(w.queue).to \in Points
    BY <2>2 DEF FramesTyped
  <2> QED BY <2>2, <2>3 DEF Watches, FramesTyped
<1> QED BY <1>1, <1>2, <1>3, <1>4, <1>5

LEMMA ReadTyped ==
  ASSUME NEW x \in Reads, NEW v \in Versions \cup {0}, NEW n \in Nat
  PROVE  /\ [status |-> "answered", as |-> v, got |-> n, made |-> v] \in Reads
         /\ [[x EXCEPT !.status = "queued"] EXCEPT !.as = v] \in Reads
         /\ [[[x EXCEPT !.status = "answered"] EXCEPT !.got = n] EXCEPT !.made = v] \in Reads
         /\ [x EXCEPT !.status = "refused"] \in Reads
  BY DEF Reads

\* What a load answers.
LEMMA ValueIs ==
  ASSUME Core, NEW v \in Versions \cup {0}
  PROVE  Value(v).n \in Nat /\ Value(v).as = v
<1>1. doc \in Documents /\ cache \in Caches /\ Loaded(v) \in Caches
  BY LoadedTyped DEF Core
<1>2. Loaded(v).on => Loaded(v).as = v
  <2>1. CASE cache.on /\ cache.as = v
    BY <2>1 DEF Loaded
  <2>2. CASE ~(cache.on /\ cache.as = v) /\ doc.live
    BY <2>2 DEF Loaded
  <2>3. CASE ~(cache.on /\ cache.as = v) /\ ~doc.live
    BY <2>3, Nothings DEF Loaded
  <2> QED BY <2>1, <2>2, <2>3
<1>3. Loaded(v).n \in Nat /\ doc.n \in Nat
  BY <1>1 DEF Caches, Documents
<1> QED BY <1>2, <1>3 DEF Value

\* A watch that nobody but its end touches.
LEMMA SidesEnding ==
  ASSUME Sides, UNCHANGED <<read, sweeps>>, watch' \in {watch, Ended(watch)}
  PROVE  Sides'
  BY EndedTyped DEF Sides

LEMMA SidesOfCommit ==
  ASSUME Core, Sides, NEW r \in Requests, CommitMoves(r)
  PROVE  Sides'
<1>1. CASE Publishes(r)
  <2>1. UNCHANGED <<read, sweeps>> /\ watch' = Advanced(batch)
    BY <1>1 DEF Publishes
  <2> QED BY <2>1, AdvancedTyped DEF Core, Sides
<1>2. CASE ~Publishes(r)
  <2>1. UNCHANGED <<read, sweeps>> /\ watch' \in {watch, Ended(watch)}
    BY <1>2 DEF CommitMoves, CommitRefused, CommitBegins, CallbackReturns, CallbackThrows,
       StorageCommits, StorageThrows, AnswerDropped, ListenerThrows, AdoptFails, Fails, FailsWith
  <2> QED BY <2>1, SidesEnding
<1> QED BY <1>1, <1>2

\* Jobs of readers: every load and every refusal.
LEMMA ReadKeeps ==
  ASSUME Inv, Core, Sides, NEW d \in Readers, LoadRuns(d) \/ LoadRefused(d) \/ LoadFails(d)
  PROVE  Core' /\ Sides'
<1> DEFINE v == read[d].as
<1>1. read[d] \in Reads /\ v \in Versions \cup {0} /\ read \in [Readers -> Reads]
  BY DEF Sides, Reads
<1>2. \A r \in Requests : ReadJob(d) # CommitJob(r)
  BY JobsDiffer
<1>3. CASE LoadRuns(d)
  <2>1. /\ Runs(ReadJob(d)) /\ cache' = Loaded(v)
        /\ UNCHANGED <<req, batch, doc, failed, watch, sweeps>>
        /\ read' = [read EXCEPT ![d] =
             [[[read[d] EXCEPT !.status = "answered"] EXCEPT !.got = Value(v).n]
                EXCEPT !.made = Value(v).as]]
    BY <1>3 DEF LoadRuns, store, session
  <2>2. Core'
    BY <1>1, <1>2, <2>1, CoreLoads
  <2>3. Value(v).n \in Nat /\ Value(v).as = v
    BY <1>1, ValueIs
  <2>4. [[[read[d] EXCEPT !.status = "answered"] EXCEPT !.got = Value(v).n]
           EXCEPT !.made = Value(v).as] \in Reads
    BY <1>1, <2>3, ReadTyped
  <2>5. read' \in [Readers -> Reads]
    BY <1>1, <2>1, <2>4
  <2> QED BY <2>1, <2>2, <2>5 DEF Sides
<1>4. CASE LoadRefused(d) \/ LoadFails(d)
  <2>1. /\ cache' \in {cache, NoCache} /\ failed' \in {failed, TRUE}
        /\ UNCHANGED <<req, batch, doc, sweeps>> /\ watch' \in {watch, Ended(watch)}
        /\ read' = [read EXCEPT ![d] = [read[d] EXCEPT !.status = "refused"]]
    BY <1>4 DEF LoadRefused, LoadFails, Fails, FailsWith, store, session
  <2>2. Core'
    BY <2>1, CoreSteady
  <2>3. read' \in [Readers -> Reads]
    BY <1>1, <2>1, ReadTyped
  <2> QED BY <2>1, <2>2, <2>3, EndedTyped DEF Sides
<1> QED BY <1>3, <1>4

LEMMA SnapshotKeeps ==
  ASSUME Core, Sides, NEW d \in Readers, NEW v \in Versions,
         SnapshotCached(d, v) \/ SnapshotQueued(d, v)
  PROVE  Core' /\ Sides'
<1>1. UNCHANGED <<req, batch, doc, cache, failed, watch, sweeps>>
  BY DEF SnapshotCached, SnapshotQueued, store, session
<1>2. Core'
  BY <1>1, CoreSteady
<1>3. read[d] \in Reads /\ read \in [Readers -> Reads] /\ cache.n \in Nat
  BY DEF Core, Sides, Caches
<1>4. read' \in [Readers -> Reads]
  <2>1. CASE SnapshotCached(d, v)
    <3>1. read' = [read EXCEPT ![d] =
            [status |-> "answered", as |-> v, got |-> cache.n, made |-> v]]
      BY <2>1 DEF SnapshotCached
    <3> QED BY <1>3, <3>1, ReadTyped
  <2>2. CASE SnapshotQueued(d, v)
    <3>1. read' = [read EXCEPT ![d] = [[read[d] EXCEPT !.status = "queued"] EXCEPT !.as = v]]
      BY <2>2 DEF SnapshotQueued
    <3> QED BY <1>3, <3>1, ReadTyped
  <2> QED BY <2>1, <2>2
<1> QED BY <1>1, <1>2, <1>4 DEF Sides

LEMMA WatchJobKeeps ==
  ASSUME Inv, Core, Sides, WatchRuns \/ WatchRefused \/ WatchLoadFails
  PROVE  Core' /\ Sides'
<1> DEFINE v == watch.as
           over == [NoWatch EXCEPT !.status = "ended"]
<1>1. watch \in Watches /\ v \in Versions \cup {0}
  BY DEF Sides, Watches
<1>2. over \in Watches /\ Ended(over) \in Watches
  <2>1. over \in Watches
    BY Nothings DEF Watches
  <2> QED BY <2>1, EndedTyped
<1>3. CASE WatchRuns
  <2>1. /\ Runs(WatchJob) /\ cache' = Loaded(v)
        /\ UNCHANGED <<req, batch, doc, failed, read, sweeps>>
        /\ \/ watch' = over
           \/ watch' = [watch EXCEPT !.status = "on", !.inc = Loaded(v).inc,
                                     !.at = At(Loaded(v).n, Loaded(v).as)]
    BY <1>3 DEF WatchRuns, store, session
  <2>2. Core'
    BY <1>1, <2>1, JobsDiffer, CoreLoads
  <2>3. Loaded(v) \in Caches
    BY <1>1, LoadedTyped DEF Core
  <2>4. Loaded(v).inc \in Nat /\ At(Loaded(v).n, Loaded(v).as) \in Points
    BY <2>3 DEF Caches, At, Points
  <2>5. [watch EXCEPT !.status = "on", !.inc = Loaded(v).inc,
                      !.at = At(Loaded(v).n, Loaded(v).as)] \in Watches
    BY <1>1, <2>4, WatchTyped
  <2>6. watch' \in Watches
    BY <1>2, <2>1, <2>5
  <2> QED BY <2>1, <2>2, <2>6 DEF Sides
<1>4. CASE WatchRefused \/ WatchLoadFails
  <2>1. /\ cache' \in {cache, NoCache} /\ failed' \in {failed, TRUE}
        /\ UNCHANGED <<req, batch, doc, read, sweeps>> /\ watch' \in {over, Ended(over)}
    BY <1>4 DEF WatchRefused, WatchLoadFails, FailsWith, store, session
  <2>2. Core'
    BY <2>1, CoreSteady
  <2> QED BY <1>2, <2>1, <2>2 DEF Sides
<1> QED BY <1>3, <1>4

LEMMA WatchKeeps ==
  ASSUME Core, Sides,
         \/ WatchStarts \/ WatchDelivers \/ WatchListenerReturns \/ WatchListenerThrows
         \/ WatchStops \/ \E v \in Versions : WatchDoc(v)
  PROVE  Core' /\ Sides'
<1>1. UNCHANGED <<req, batch, doc, cache, failed, read, sweeps>>
  BY DEF WatchStarts, WatchDelivers, WatchListenerReturns, WatchListenerThrows, WatchStops,
     WatchDoc, store, session
<1>2. Core'
  BY <1>1, CoreSteady
<1>3. watch \in Watches /\ Ended(watch) \in Watches
  BY EndedTyped DEF Sides
<1>4. 0 \in Nat /\ 0 \in Versions \cup {0} /\ NoWatch.at \in Points
  BY Nothings DEF Watches
<1>5. watch' \in Watches
  <2>1. CASE WatchStarts
    BY <2>1, <1>3, <1>4, WatchTyped DEF WatchStarts
  <2>2. CASE WatchDelivers
    BY <2>2, <1>3, <1>4, WatchTyped DEF WatchDelivers
  <2>3. CASE WatchListenerReturns \/ WatchListenerThrows
    <3>1. watch' \in {[watch EXCEPT !.running = "no"], [Ended(watch) EXCEPT !.running = "no"]}
      BY <2>3 DEF WatchListenerReturns, WatchListenerThrows
    <3> QED BY <3>1, <1>3, <1>4, WatchTyped
  <2>4. CASE WatchStops
    BY <2>4, <1>3 DEF WatchStops
  <2>5. ASSUME NEW v \in Versions, WatchDoc(v)
        PROVE  watch' \in Watches
    BY <2>5, <1>3, <1>4, WatchTyped DEF WatchDoc
  <2> QED BY <2>1, <2>2, <2>3, <2>4, <2>5
<1> QED BY <1>1, <1>2, <1>5 DEF Sides

-----------------------------------------------------------------------------
(* The theorems.                                                            *)

LEMMA InitReads == Init => ReadInv
<1> SUFFICES ASSUME Init PROVE ReadInv
  OBVIOUS
<1>1. Inv
  BY InitSound
<1>2. \A v \in Versions : [inc |-> 1, n |-> 1, ver |-> v, live |-> TRUE] \in Documents
  BY DEF Documents
<1>3. batch = NoBatch /\ cache = NoCache /\ doc \in Documents
  BY <1>2, Nothings DEF Init
<1>4. \A r \in Requests : req[r] = "new"
  BY DEF Init
<1>5. Core
  BY <1>3, <1>4, Nothings DEF Core, StagedFits, CacheIsCurrent, NoBatch
<1>6. Sides
  BY Nothings DEF Init, Sides
<1> QED BY <1>1, <1>5, <1>6 DEF ReadInv

LEMMA NextReads == ReadInv /\ [Next]_vars => ReadInv'
<1> SUFFICES ASSUME Inv, Core, Sides, [Next]_vars PROVE Core' /\ Sides'
  BY NextSound DEF ReadInv, Sound
<1>1. ASSUME NEW r \in Requests, CommitMoves(r) PROVE Core' /\ Sides'
  BY <1>1, CoreOfCommit, SidesOfCommit
<1>2. ASSUME NEW d \in Readers, LoadRuns(d) \/ LoadRefused(d) \/ LoadFails(d)
      PROVE  Core' /\ Sides'
  BY <1>2, ReadKeeps
<1>3. CASE WatchRuns \/ WatchRefused \/ WatchLoadFails
  BY <1>3, WatchJobKeeps
<1>4. CASE CloseBegins \/ CloseEnds \/ SweepRuns
  <2>1. /\ cache' \in {cache, NoCache} /\ failed' \in {failed, TRUE}
        /\ UNCHANGED <<req, batch, doc, read, watch, sweeps>>
    BY <1>4 DEF CloseBegins, CloseEnds, SweepRuns, store, session
  <2> QED BY <2>1, CoreSteady DEF Sides
<1>5. CASE Close \/ Joined \/ ScanBegins \/ ScanEnds \/ ScanFails
  <2>1. /\ failed' \in {failed, TRUE} /\ watch' \in {watch, Ended(watch)}
        /\ UNCHANGED <<req, batch, doc, cache, read, sweeps>>
    BY <1>5 DEF Close, Joined, ScanBegins, ScanEnds, ScanFails, Fails, FailsWith, store, session
  <2> QED BY <2>1, CoreSteady, SidesEnding
<1>6. CASE SweepQueued
  <2>1. /\ UNCHANGED <<req, batch, doc, cache, failed, read, watch>> /\ sweeps' = sweeps + 1
    BY <1>6 DEF SweepQueued, store, session
  <2> QED BY <2>1, CoreSteady DEF Sides
<1>7. CASE \/ WatchStarts \/ WatchDelivers \/ WatchListenerReturns \/ WatchListenerThrows
           \/ WatchStops \/ \E v \in Versions : WatchDoc(v)
  BY <1>7, WatchKeeps
<1>8. ASSUME NEW r \in Requests, Commit(r) PROVE Core' /\ Sides'
  <2>1. /\ UNCHANGED <<batch, doc, cache, failed, read, watch, sweeps>>
        /\ req[r] = "new" /\ req' = [req EXCEPT ![r] = "queued"]
    BY <1>8 DEF Commit, store, session
  <2>2. /\ req'[r] = "queued" /\ \A p \in Requests : p # r => req'[p] = req[p]
    BY <2>1 DEF Inv, LineInv
  <2>3. \A p \in Requests :
          /\ req'[p] \in InTurn <=> req[p] \in InTurn
          /\ req'[p] = "change" <=> req[p] = "change"
          /\ req'[p] \in {"change", "storing"} <=> req[p] \in {"change", "storing"}
          /\ req'[p] = "stored" <=> req[p] = "stored"
    BY <2>1, <2>2 DEF InTurn
  <2>4. Known' = Known /\ (Unadopted' <=> Unadopted)
    BY <2>1, <2>3 DEF Known, Unadopted
  <2>5. StagedFits'
    BY <2>1, <2>3 DEF Core, StagedFits
  <2>6. CacheIsCurrent'
    BY <2>1, <2>4 DEF Core, CacheIsCurrent
  <2> QED BY <2>1, <2>5, <2>6 DEF Core, Sides
<1>9. ASSUME NEW r \in Requests, TxReadFails(r) PROVE Core' /\ Sides'
  <2>1. /\ failed' \in {failed, TRUE} /\ watch' \in {watch, Ended(watch)}
        /\ UNCHANGED <<req, batch, doc, cache, read, sweeps>>
    BY <1>9 DEF TxReadFails, Fails, FailsWith, store
  <2> QED BY <2>1, CoreSteady, SidesEnding
<1>10. ASSUME NEW r \in Requests, NEW v \in Versions, TxDoc(r, v) PROVE Core' /\ Sides'
  <2>1. UNCHANGED <<read, watch, sweeps>>
    BY <1>10 DEF TxDoc
  <2> QED BY <1>10, <2>1, CoreAcquires DEF Sides
<1>11. ASSUME NEW d \in Readers, NEW v \in Versions, SnapshotCached(d, v) \/ SnapshotQueued(d, v)
       PROVE  Core' /\ Sides'
  BY <1>11, SnapshotKeeps
<1>12. CASE UNCHANGED vars
  <2>1. UNCHANGED <<req, batch, doc, cache, failed, read, watch, sweeps>>
    BY <1>12 DEF vars, store, session
  <2> QED BY <2>1, CoreSteady DEF Sides
<1> QED BY <1>1, <1>2, <1>3, <1>4, <1>5, <1>6, <1>7, <1>8, <1>9, <1>10, <1>11, <1>12
        DEF Next, LineMoves

\* The state of a Session's line, documents, readers and watch has its type.
THEOREM SessionTyped == Spec => []TypeOK
<1>1. ReadInv => TypeOK
  BY DEF ReadInv, Inv, LineInv, EffectInv, Fits, Core, Sides, TypeOK, Batches, Documents, Caches
<1> QED BY <1>1, InitReads, NextReads, PTL DEF Spec

LEMMA AnswersAreCurrent ==
  ASSUME ReadInv, [Next]_vars, NEW d \in Readers,
         read[d].status # "answered", read'[d].status = "answered"
  PROVE  read'[d].got = Known /\ read'[d].made = read'[d].as
<1>1. Inv /\ Core /\ Sides /\ read \in [Readers -> Reads]
  BY DEF ReadInv, Sides
<1>2. ASSUME NEW e \in Readers, NEW v \in Versions, SnapshotCached(e, v)
      PROVE  read'[d].got = Known /\ read'[d].made = read'[d].as
  <2>1. /\ ~failed /\ cache.on /\ cache.as = v
        /\ read' = [read EXCEPT ![e] =
             [status |-> "answered", as |-> v, got |-> cache.n, made |-> cache.as]]
    BY <1>2 DEF SnapshotCached, Usable
  <2>2. e = d
    BY <1>1, <2>1
  <2>3. read'[d] = [status |-> "answered", as |-> v, got |-> cache.n, made |-> cache.as]
    BY <1>1, <2>1, <2>2
  <2>4. cache.n = Known
    BY <1>1, <2>1 DEF Core, CacheIsCurrent
  <2> QED BY <2>1, <2>3, <2>4
<1>3. ASSUME NEW e \in Readers, LoadRuns(e)
      PROVE  read'[d].got = Known /\ read'[d].made = read'[d].as
  <2> DEFINE v == read[e].as
  <2>1. /\ Runs(ReadJob(e)) /\ ~failed
        /\ read' = [read EXCEPT ![e] =
             [[[read[e] EXCEPT !.status = "answered"] EXCEPT !.got = Value(v).n]
                EXCEPT !.made = Value(v).as]]
    BY <1>3 DEF LoadRuns
  <2>2. read[e] \in Reads /\ v \in Versions \cup {0}
    BY <1>1 DEF Reads
  <2>3. e = d
    BY <1>1, <2>1
  <2>4. read'[d].got = Value(v).n /\ read'[d].made = Value(v).as /\ read'[d].as = v
    BY <1>1, <2>1, <2>2, <2>3 DEF Reads
  <2>5. Known = doc.n /\ ~Unadopted
    BY <1>1, <2>1, JobsDiffer, NobodyInTurn, QuietMemory
  <2>6. cache.on => cache.n = doc.n
    BY <1>1, <2>1, <2>5 DEF Core, CacheIsCurrent
  <2>7. Loaded(v).on => Loaded(v).n = doc.n
    <3>1. CASE cache.on /\ cache.as = v
      BY <2>6, <3>1 DEF Loaded
    <3>2. CASE ~(cache.on /\ cache.as = v) /\ doc.live
      BY <3>2 DEF Loaded
    <3>3. CASE ~(cache.on /\ cache.as = v) /\ ~doc.live
      BY <3>3, Nothings DEF Loaded
    <3> QED BY <3>1, <3>2, <3>3
  <2>8. Value(v).n = doc.n /\ Value(v).as = v
    BY <1>1, <2>2, <2>7, ValueIs DEF Value
  <2> QED BY <2>4, <2>5, <2>8
<1>4. ASSUME NEW e \in Readers,
             \/ \E v \in Versions : SnapshotQueued(e, v)
             \/ LoadRefused(e) \/ LoadFails(e)
      PROVE  FALSE
  <2>1. /\ read[e] \in Reads
        /\ \/ \E v \in Versions :
                read' = [read EXCEPT ![e] = [[read[e] EXCEPT !.status = "queued"] EXCEPT !.as = v]]
           \/ read' = [read EXCEPT ![e] = [read[e] EXCEPT !.status = "refused"]]
    BY <1>1, <1>4 DEF SnapshotQueued, LoadRefused, LoadFails
  <2>2. read'[e].status \in {"queued", "refused"} /\ (d # e => read'[d] = read[d])
    BY <1>1, <2>1 DEF Reads
  <2> QED BY <2>2
<1>5. read' # read
  OBVIOUS
<1>6. /\ \A r \in Requests :
           ~CommitMoves(r) /\ ~Commit(r) /\ ~TxReadFails(r) /\ \A v \in Versions : ~TxDoc(r, v)
      /\ ~(WatchRuns \/ WatchRefused \/ WatchLoadFails \/ CloseBegins \/ CloseEnds \/ SweepRuns)
      /\ ~(Close \/ Joined \/ ScanBegins \/ ScanEnds \/ ScanFails \/ SweepQueued)
      /\ ~(WatchStarts \/ WatchDelivers \/ WatchListenerReturns \/ WatchListenerThrows)
      /\ ~(WatchStops \/ \E v \in Versions : WatchDoc(v))
      /\ ~UNCHANGED vars
  <2>1. ASSUME NEW r \in Requests
        PROVE  ~CommitMoves(r) /\ ~Commit(r) /\ ~TxReadFails(r) /\ \A v \in Versions : ~TxDoc(r, v)
    BY <1>5 DEF CommitMoves, CommitRefused, CommitBegins, CallbackReturns, CallbackThrows,
       StorageCommits, StorageThrows, AnswerDropped, Publishes, ListenerThrows, AdoptFails,
       Commit, TxReadFails, TxDoc
  <2>2. ~(WatchRuns \/ WatchRefused \/ WatchLoadFails \/ CloseBegins \/ CloseEnds \/ SweepRuns)
    BY <1>5 DEF WatchRuns, WatchRefused, WatchLoadFails, CloseBegins, CloseEnds, SweepRuns
  <2>3. ~(Close \/ Joined \/ ScanBegins \/ ScanEnds \/ ScanFails \/ SweepQueued)
    BY <1>5 DEF Close, Joined, ScanBegins, ScanEnds, ScanFails, SweepQueued
  <2>4. /\ ~(WatchStarts \/ WatchDelivers \/ WatchListenerReturns \/ WatchListenerThrows)
        /\ ~(WatchStops \/ \E v \in Versions : WatchDoc(v))
    BY <1>5 DEF WatchStarts, WatchDelivers, WatchListenerReturns, WatchListenerThrows,
       WatchStops, WatchDoc
  <2>5. ~UNCHANGED vars
    BY <1>5 DEF vars
  <2> QED BY <2>1, <2>2, <2>3, <2>4, <2>5
<1> QED BY <1>2, <1>3, <1>4, <1>6 DEF Next, LineMoves

\* Snapshots are current: whatever runs on the line, is evicted, reloaded, created or
\* retired, a reader is answered the newest published state, made for its version.
THEOREM SnapshotsAreCurrent == Spec => ReadsAreCurrent
<1>1. ReadInv /\ [Next]_vars =>
        [\A d \in Readers :
           read[d].status # "answered" /\ read'[d].status = "answered"
             => read'[d].got = Known /\ read'[d].made = read'[d].as]_vars
  BY AnswersAreCurrent
<1> QED BY <1>1, InitReads, NextReads, PTL DEF Spec, ReadsAreCurrent

-----------------------------------------------------------------------------
(* The invariant.                                                           *)

\* Where the observer will be when it has all that is pending.
Newest(w) == IF w.queue = <<>> THEN w.at ELSE Last(w.queue).to

\* Operations extend what comes before them, and nothing comes after a retirement.
Chained(w) ==
  \A i \in 1..Len(w.queue) :
    /\ w.queue[i].kind = "ops" => w.queue[i].from = IF i = 1 THEN w.at ELSE w.queue[i - 1].to
    /\ w.queue[i].kind = "null" => i = Len(w.queue)

Follows(w, inc, known, present) ==
  /\ Chained(w)
  /\ ~Retired(w) => w.inc = inc /\ Newest(w) = At(known, w.as) /\ present
  /\ Retired(w) => Newest(w).n <= known

\* The document published last is still there, and no other is being created.
Present ==
  /\ doc.live \/ (Unadopted /\ batch.what = "retire")
  /\ batch.what # "create"

WatchInv ==
  /\ failed => phase # "open"
  /\ watch.status \in {"none", "queued"} => watch.queue = <<>> /\ watch.running = "no"
  /\ watch.status = "on" => phase = "open" /\ Follows(watch, doc.inc, Known, Present)

-----------------------------------------------------------------------------
(* What happens to a watch.                                                 *)

LEMMA QueueFacts ==
  ASSUME NEW q \in Seq(FramesTyped)
  PROVE  /\ Len(q) \in Nat
         /\ q # <<>> <=> Len(q) # 0
         /\ \A i \in 1..Len(q) : q[i] \in FramesTyped
         /\ q # <<>> => /\ Head(q) = q[1] /\ Tail(q) \in Seq(FramesTyped)
                        /\ Len(Tail(q)) = Len(q) - 1
                        /\ \A i \in 1..Len(Tail(q)) : Tail(q)[i] = q[i + 1]
  OBVIOUS

LEMMA FrameIs ==
  ASSUME NEW f \in FramesTyped
  PROVE  /\ f.kind \in {"ops", "root", "null"} /\ f.to \in Points
         /\ [f EXCEPT !.kind = "root"] \in FramesTyped
         /\ [f EXCEPT !.kind = "root"].kind = "root" /\ [f EXCEPT !.kind = "root"].to = f.to
  BY DEF FramesTyped

\* A frame extends what is pending, or replaces all of it.
LEMMA PushKeepsChain ==
  ASSUME NEW w \in Watches, Chained(w), ~Retired(w), NEW f \in FramesTyped,
         f.kind = "ops" => f.from = Newest(w),
         NEW x, x = [[w EXCEPT !.queue = Pushed(w.queue, f)] EXCEPT !.as = f.to.as]
  PROVE  /\ Chained(x) /\ Newest(x) = f.to /\ (Retired(x) <=> f.kind = "null")
         /\ x.inc = w.inc /\ x.status = w.status /\ x.as = f.to.as
<1> DEFINE q == w.queue
           p == Pushed(q, f)
<1>1. w.queue \in Seq(FramesTyped)
  BY DEF Watches, FramesTyped
<1>2. /\ x.queue = p /\ x.at = w.at /\ x.running = w.running
      /\ x.inc = w.inc /\ x.status = w.status /\ x.as = f.to.as
  BY DEF Watches
<1>3. w.running # "last" /\ (q # <<>> => Last(q).kind # "null")
  BY DEF Retired
<1>4. CASE Len(q) >= MaxPending
  <2> DEFINE g == IF f.kind = "null" THEN f ELSE [f EXCEPT !.kind = "root"]
  <2>1. p = <<g>>
    BY <1>4 DEF Pushed
  <2>2. g.to = f.to /\ g.kind # "ops" /\ (g.kind = "null" <=> f.kind = "null")
    BY FrameIs
  <2> HIDE DEF g, p
  <2>3. x.queue = <<g>> /\ x.queue # <<>> /\ Len(x.queue) = 1 /\ x.queue[1] = g /\ Last(x.queue) = g
    BY <1>2, <2>1 DEF Last
  <2>4. Chained(x)
    <3>1. \A i \in 1..Len(x.queue) : i = 1 /\ x.queue[i] = g
      BY <2>3
    <3> QED BY <2>2, <2>3, <3>1 DEF Chained
  <2>5. Newest(x) = f.to /\ (Retired(x) <=> f.kind = "null")
    BY <1>2, <1>3, <2>2, <2>3 DEF Newest, Retired
  <2> QED BY <1>2, <2>4, <2>5
<1>5. CASE ~(Len(q) >= MaxPending)
  <2>1. p = Append(q, f)
    BY <1>5 DEF Pushed
  <2> HIDE DEF p
  <2>2. /\ Len(q) \in Nat /\ Len(x.queue) = Len(q) + 1 /\ x.queue # <<>>
        /\ x.queue[Len(q) + 1] = f /\ \A i \in 1..Len(q) : x.queue[i] = q[i]
    BY <1>1, <1>2, <2>1
  <2>3. Last(x.queue) = f
    BY <2>2 DEF Last
  <2>4. Chained(x)
    <3> SUFFICES ASSUME NEW i \in 1..Len(x.queue)
                 PROVE  /\ x.queue[i].kind = "ops" =>
                              x.queue[i].from = IF i = 1 THEN x.at ELSE x.queue[i - 1].to
                        /\ x.queue[i].kind = "null" => i = Len(x.queue)
      BY DEF Chained
    <3>1. CASE i \in 1..Len(q)
      <4>1. q # <<>> /\ Last(q) = q[Len(q)]
        BY <1>1, <3>1, QueueFacts DEF Last
      <4>2. q[i].kind # "null"
        BY <1>3, <3>1, <4>1 DEF Chained
      <4>3. i # 1 => i - 1 \in 1..Len(q)
        BY <2>2, <3>1
      <4> QED BY <1>2, <2>2, <3>1, <4>2, <4>3 DEF Chained
    <3>2. CASE i = Len(q) + 1
      <4>1. CASE q = <<>>
        <5>1. Len(q) = 0
          BY <4>1
        <5> QED BY <1>2, <2>2, <3>2, <4>1, <5>1 DEF Newest
      <4>2. CASE q # <<>>
        <5>1. Len(q) \in 1..Len(q) /\ i # 1 /\ i - 1 = Len(q)
          BY <1>1, <2>2, <3>2, <4>2, QueueFacts
        <5>2. Newest(w) = q[Len(q)].to
          BY <4>2 DEF Newest, Last
        <5> QED BY <1>2, <2>2, <3>2, <5>1, <5>2
      <4> QED BY <4>1, <4>2
    <3> QED BY <2>2, <3>1, <3>2
  <2>5. Newest(x) = f.to /\ (Retired(x) <=> f.kind = "null")
    BY <1>2, <1>3, <2>2, <2>3 DEF Newest, Retired
  <2> QED BY <1>2, <2>4, <2>5
<1> QED BY <1>4, <1>5

LEMMA OneLess ==
  ASSUME NEW n \in Nat \ {0}, n # 1, NEW m, m = n - 1
  PROVE  m \in 1..m /\ m # 0 /\ m + 1 = n
  OBVIOUS

\* A frame is delivered.
LEMMA DeliveryKeepsChain ==
  ASSUME NEW w \in Watches, Chained(w), w.running = "no", w.queue # <<>>,
         NEW x, x = [w EXCEPT !.queue = Tail(w.queue), !.at = Head(w.queue).to,
                              !.running = IF Head(w.queue).kind = "null" THEN "last" ELSE "yes"]
  PROVE  /\ Chained(x) /\ Newest(x) = Newest(w) /\ (Retired(x) <=> Retired(w))
         /\ x.inc = w.inc /\ x.status = w.status /\ x.as = w.as
<1> DEFINE q == w.queue
<1>1. w.queue \in Seq(FramesTyped)
  BY DEF Watches, FramesTyped
<1>2. /\ Len(q) \in Nat \ {0} /\ Head(q) = q[1] /\ Tail(q) \in Seq(FramesTyped)
      /\ Len(Tail(q)) = Len(q) - 1
      /\ \A i \in 1..Len(Tail(q)) : Tail(q)[i] = q[i + 1]
  BY <1>1, QueueFacts
<1>3. /\ x.queue = Tail(q) /\ x.at = q[1].to
      /\ x.running = IF q[1].kind = "null" THEN "last" ELSE "yes"
      /\ x.inc = w.inc /\ x.status = w.status /\ x.as = w.as
  BY <1>2 DEF Watches
<1>4. Chained(x)
  <2> SUFFICES ASSUME NEW i \in 1..Len(x.queue)
               PROVE  /\ x.queue[i].kind = "ops" =>
                            x.queue[i].from = IF i = 1 THEN x.at ELSE x.queue[i - 1].to
                      /\ x.queue[i].kind = "null" => i = Len(x.queue)
    BY DEF Chained
  <2>1. /\ i + 1 \in 1..Len(q) /\ i + 1 # 1 /\ (i + 1) - 1 = i /\ x.queue[i] = q[i + 1]
        /\ Len(x.queue) = Len(q) - 1 /\ i \in Nat
    BY <1>2, <1>3
  <2>2. /\ q[i + 1].kind = "ops" => q[i + 1].from = q[i].to
        /\ q[i + 1].kind = "null" => i + 1 = Len(q)
    BY <2>1 DEF Chained
  <2>3. i # 1 => i - 1 \in 1..Len(x.queue) /\ (i - 1) + 1 = i
    BY <2>1
  <2>4. i # 1 => x.queue[i - 1] = q[i]
    BY <1>2, <1>3, <2>3
  <2> QED BY <1>2, <1>3, <2>1, <2>2, <2>4
<1>5. CASE Len(q) = 1
  <2>1. x.queue = <<>> /\ Last(q) = q[1]
    BY <1>2, <1>3, <1>5, QueueFacts DEF Last
  <2> QED BY <1>3, <1>4, <2>1 DEF Newest, Retired
<1>6. CASE Len(q) # 1
  <2> DEFINE m == Len(Tail(q))
  <2>1. m \in 1..m /\ m # 0 /\ m + 1 = Len(q)
    BY <1>2, <1>6, OneLess
  <2>2. x.queue # <<>> /\ Last(x.queue) = Last(q)
    BY <1>2, <1>3, <2>1, QueueFacts DEF Last
  <2>3. q[1].kind # "null"
    <3>1. 1 \in 1..Len(q)
      BY <1>2
    <3> QED BY <1>6, <3>1 DEF Chained
  <2> QED BY <1>3, <1>4, <2>2, <2>3 DEF Newest, Retired
<1> QED BY <1>5, <1>6

LEMMA FollowsWhenSame ==
  ASSUME NEW w, NEW x, NEW inc, NEW known, NEW present, Follows(w, inc, known, present),
         Chained(x), Newest(x) = Newest(w), Retired(x) <=> Retired(w),
         x.inc = w.inc, x.as = w.as
  PROVE  Follows(x, inc, known, present)
  BY DEF Follows

\* A watch of a retired document goes on as others are published.
LEMMA FollowsWhenRetired ==
  ASSUME NEW w \in Watches, NEW inc, NEW known \in Int, NEW present, Follows(w, inc, known, present),
         Retired(w), NEW inc2, NEW known2 \in Int, known <= known2, NEW present2
  PROVE  Follows(w, inc2, known2, present2)
<1>1. Newest(w) \in Points
  <2>1. w.queue \in Seq(FramesTyped) /\ w.at \in Points
    BY DEF Watches, FramesTyped
  <2>2. CASE w.queue = <<>>
    BY <2>1, <2>2 DEF Newest
  <2>3. CASE w.queue # <<>>
    <3>1. Len(w.queue) \in 1..Len(w.queue)
      BY <2>1, <2>3, QueueFacts
    <3> QED BY <2>1, <2>3, <3>1, QueueFacts, FrameIs DEF Newest, Last
  <2> QED BY <2>2, <2>3
<1>2. Newest(w).n \in Int
  BY <1>1 DEF Points
<1> QED BY <1>2 DEF Follows

-----------------------------------------------------------------------------
(* Steps beside the watch.                                                  *)

\* A watch that ends, and one that is not on, follow nothing.
LEMMA WatchEnds ==
  ASSUME WatchInv, failed' => phase' # "open",
         watch' = Ended(watch) \/ (watch' = watch /\ watch.status # "on")
  PROVE  WatchInv'
<1>1. CASE watch.status = "on"
  <2>1. watch'.status = "ended"
    BY <1>1 DEF Ended, NoWatch
  <2> QED BY <2>1 DEF WatchInv
<1>2. CASE watch.status # "on"
  <2>1. watch' = watch
    BY <1>2 DEF Ended
  <2> QED BY <1>2, <2>1 DEF WatchInv
<1> QED BY <1>1, <1>2

\* Nothing is published.
LEMMA WatchFollows ==
  ASSUME WatchInv, UNCHANGED <<failed, phase, watch>>, Known' = Known,
         Present => doc'.inc = doc.inc /\ Present'
  PROVE  WatchInv'
<1>1. watch.status = "on" => Follows(watch, doc'.inc, Known', Present')
  BY DEF WatchInv, Follows
<1> QED BY <1>1 DEF WatchInv

\* Nobody adopts anything.
LEMMA QuietKnown ==
  ASSUME doc' = doc, ~Storing, ~Storing', batch'.what = "create" => ~doc.live
  PROVE  Known' = Known /\ (Present => doc'.inc = doc.inc /\ Present')
<1>1. Known = doc.n /\ ~Unadopted
  BY KnownIs DEF Unadopted, Storing
<1>2. Known' = doc.n /\ ~Unadopted'
  BY DEF Known, Unadopted, Storing
<1> QED BY <1>1, <1>2 DEF Present

LEMMA SameKnown ==
  ASSUME UNCHANGED <<doc, batch>>, Storing' <=> Storing
  PROVE  Known' = Known /\ (Present => doc'.inc = doc.inc /\ Present')
<1>1. Known' = Known /\ (Unadopted' <=> Unadopted)
  BY DEF Known, Unadopted, Storing
<1> QED BY <1>1 DEF Present

-----------------------------------------------------------------------------
(* Steps of a commit.                                                       *)

LEMMA WatchAtTurn ==
  ASSUME Inv, Core, WatchInv, NEW r \in Requests,
         CommitRefused(r) \/ CommitBegins(r) \/ CallbackReturns(r) \/ CallbackThrows(r)
  PROVE  WatchInv'
<1>1. /\ req[r] \in {"queued", "change"} /\ UNCHANGED <<doc, failed, phase, watch>>
      /\ req \in [Requests -> Statuses]
  BY DEF CommitRefused, CommitBegins, CallbackReturns, CallbackThrows, store, session, Inv, LineInv
<1>2. Runs(CommitJob(r))
  BY InTurnRuns DEF CommitRefused, CommitBegins, CallbackReturns, CallbackThrows, InTurn
<1>3. ~Storing
  BY <1>1, <1>2, OneInTurn DEF Storing, InTurn
<1>4. batch.what = "create" /\ req[r] = "change" => ~doc.live
  BY DEF Core, StagedFits
<1>5. CASE CommitRefused(r) \/ CallbackThrows(r)
  <2>1. batch' = NoBatch /\ \E s \in {"lost", "refused"} : req' = [req EXCEPT ![r] = s]
    BY <1>5 DEF CommitRefused, CallbackThrows, Answer
  <2>2. ~Storing' /\ batch'.what = "nothing"
    BY <1>1, <1>3, <2>1 DEF Storing, NoBatch
  <2> QED BY <1>1, <1>3, <2>2, QuietKnown, WatchFollows
<1>6. CASE CommitBegins(r)
  <2>1. req' = [req EXCEPT ![r] = "change"] /\ batch' = batch /\ req[r] = "queued"
    BY <1>6 DEF CommitBegins
  <2>2. ~Storing' /\ (Storing' <=> Storing)
    BY <1>1, <1>3, <2>1 DEF Storing
  <2> QED BY <1>1, <2>1, <2>2, SameKnown, WatchFollows
<1>7. CASE CallbackReturns(r)
  <2>1. req[r] = "change"
    BY <1>7 DEF CallbackReturns
  <2>2. PICK b \in Stageable :
          IF b.what = "nothing"
          THEN Answer(r, "empty")
          ELSE batch' = b /\ req' = [req EXCEPT ![r] = "storing"]
    BY <1>7 DEF CallbackReturns
  <2>3. b.what = "create" => batch.what = "create"
    BY <2>1, StageableFits
  <2>4. /\ \E s \in {"empty", "storing"} : req' = [req EXCEPT ![r] = s]
        /\ batch' \in {b, NoBatch}
    BY <2>2 DEF Answer
  <2>5. ~Storing'
    BY <1>1, <1>3, <2>4 DEF Storing
  <2>6. batch'.what = "create" => ~doc.live
    BY <1>4, <2>1, <2>3, <2>4 DEF NoBatch
  <2> QED BY <1>1, <1>3, <2>5, <2>6, QuietKnown, WatchFollows
<1> QED BY <1>5, <1>6, <1>7

LEMMA WatchAtStorage ==
  ASSUME Inv, Core, WatchInv, NEW r \in Requests, StorageCommits(r)
  PROVE  WatchInv'
<1>1. /\ req[r] = "storing" /\ req[r] \in InTurn /\ Runs(CommitJob(r))
      /\ req' = [req EXCEPT ![r] = "stored"] /\ doc' = Stored(batch)
      /\ UNCHANGED <<batch, failed, phase, watch>> /\ req \in [Requests -> Statuses]
  BY InTurnRuns DEF StorageCommits, InTurn, session, Inv, LineInv
<1>2. ~Storing
  BY <1>1, OneInTurn DEF Storing, InTurn
<1>3. Known = doc.n /\ ~Unadopted
  BY <1>2, KnownIs DEF Unadopted, Storing
<1>4. Unadopted' <=> batch.what \in {"ops", "create", "retire"}
  BY <1>1 DEF Unadopted
<1>5. batch.what \in Whats /\ doc \in Documents /\ doc.n \in Nat
  BY DEF Core, Batches, Documents
<1>6. doc'.n = IF batch.what \in {"ops", "create", "retire"} THEN doc.n + 1 ELSE doc.n
  BY <1>1, <1>5 DEF Stored, Documents, Whats
<1>7. Known' = doc.n
  BY <1>4, <1>5, <1>6 DEF Known
<1>8. /\ batch.what # "create" => doc'.inc = doc.inc
      /\ batch.what \notin {"create", "retire"} => doc'.live = doc.live
  BY <1>1, <1>5 DEF Stored, Documents, Whats
<1>9. Present => doc'.inc = doc.inc /\ Present'
  BY <1>1, <1>3, <1>4, <1>8 DEF Present
<1> QED BY <1>1, <1>3, <1>7, <1>9, WatchFollows

\* A commit is published.
LEMMA WatchAtPublication ==
  ASSUME Inv, Core, Sides, WatchInv, NEW r \in Requests, Publishes(r)
  PROVE  WatchInv'
<1> DEFINE b == batch
           x == Advanced(batch)
<1>1. /\ req[r] = "stored" /\ req[r] \in InTurn /\ Runs(CommitJob(r)) /\ Answer(r, "done")
      /\ watch' = x /\ UNCHANGED <<doc, failed, phase>> /\ req \in [Requests -> Statuses]
  BY InTurnRuns DEF Publishes, InTurn, store, session, Inv, LineInv
<1>2. \A p \in Requests : req'[p] # "stored"
  BY <1>1, OneInTurn DEF Answer, InTurn
<1>3. batch' = NoBatch /\ NoBatch.what = "nothing"
  BY <1>1 DEF Answer, NoBatch
<1>4. Known' = doc.n /\ (doc.live => Present')
  BY <1>1, <1>2, <1>3 DEF Known, Unadopted, Present
<1>5. Known = IF b.what \in {"ops", "create", "retire"} THEN doc.n - 1 ELSE doc.n
  BY <1>1, KnownIs DEF Storing
<1>6. /\ b \in Batches /\ b.what \in Whats /\ doc.n \in Int /\ doc \in Documents
      /\ watch \in Watches
  BY DEF Core, Sides, Batches, Documents
<1>7. Known \in Int /\ Known <= doc.n
  BY <1>5, <1>6
<1> HIDE DEF x
<1>8. CASE watch.status # "on"
  <2>1. watch' = watch
    BY <1>1, <1>8 DEF x, Advanced
  <2> QED BY <1>1, <1>8, <2>1, WatchEnds DEF WatchInv
<1>9. CASE watch.status = "on"
  <2>1. phase = "open" /\ Follows(watch, doc.inc, Known, Present) /\ ~failed
    BY <1>9 DEF WatchInv
  <2> SUFFICES x.status = "on" /\ Follows(x, doc.inc, doc.n, Present')
    BY <1>1, <1>4, <2>1 DEF WatchInv
  <2>2. CASE Retired(watch)
    <3>1. x = watch
      BY <2>2 DEF x, Advanced
    <3> QED BY <1>6, <1>7, <1>9, <2>1, <2>2, <3>1, FollowsWhenRetired
  <2>3. CASE ~Retired(watch)
    <3>1. /\ Chained(watch) /\ watch.inc = doc.inc /\ Newest(watch) = At(Known, watch.as)
          /\ b.what # "create" /\ (doc.live \/ b.what = "retire")
      BY <2>1, <2>3 DEF Follows, Present
    <3>2. CASE Frames(b) = {}
      <4>1. x = watch
        BY <3>2 DEF x, Advanced
      <4>2. b.what \notin {"retire", "ops"}
        BY <3>2 DEF Frames
      <4>3. Known = doc.n /\ Present'
        BY <1>4, <1>5, <3>1, <4>2
      <4> QED BY <1>9, <2>3, <3>1, <4>1, <4>3 DEF Follows
    <3>3. CASE Frames(b) # {}
      <4> DEFINE f == CHOOSE g \in Frames(b) : TRUE
      <4>1. f \in Frames(b)
        BY <3>3
      <4>2. f \in FramesTyped
        BY <1>6, <4>1, FramesAreTyped
      <4>3. x = [[watch EXCEPT !.queue = Pushed(watch.queue, f)] EXCEPT !.as = f.to.as]
        BY <1>9, <2>3, <3>1, <3>3 DEF x, Advanced
      <4> HIDE DEF f
      <4>4. \/ b.what = "retire" /\ f = Frame("null", At(0, 0), At(doc.n, watch.as))
            \/ b.what \in {"ops", "migrate"} /\ f = Frame("root", At(0, 0), At(doc.n, b.ver))
            \/ b.what = "ops" /\ f = Frame("ops", At(doc.n - 1, watch.as), At(doc.n, b.ver))
        BY <4>1 DEF Frames
      <4>5. /\ f.kind = "null" <=> b.what = "retire"
            /\ f.kind = "ops" => f.from = At(doc.n - 1, watch.as) /\ b.what = "ops"
            /\ f.to.n = doc.n /\ f.to = At(doc.n, f.to.as)
        BY <4>4 DEF Frame, At
      <4>6. f.kind = "ops" => f.from = Newest(watch)
        BY <1>5, <3>1, <4>5
      <4>7. /\ Chained(x) /\ Newest(x) = f.to /\ (Retired(x) <=> f.kind = "null")
            /\ x.inc = watch.inc /\ x.status = watch.status /\ x.as = f.to.as
        BY <1>6, <2>3, <3>1, <4>2, <4>3, <4>6, PushKeepsChain
      <4> QED BY <1>4, <1>6, <1>9, <3>1, <4>5, <4>7 DEF Follows
    <3> QED BY <3>2, <3>3
  <2> QED BY <2>2, <2>3
<1> QED BY <1>8, <1>9

LEMMA WatchOfCommit ==
  ASSUME Inv, Core, Sides, WatchInv, NEW r \in Requests, CommitMoves(r)
  PROVE  WatchInv'
<1>1. CASE CommitRefused(r) \/ CommitBegins(r) \/ CallbackReturns(r) \/ CallbackThrows(r)
  BY <1>1, WatchAtTurn
<1>2. CASE StorageCommits(r)
  BY <1>2, WatchAtStorage
<1>3. CASE StorageThrows(r) \/ ListenerThrows(r) \/ AdoptFails(r)
  <2>1. watch' = Ended(watch) /\ phase' # "open"
    BY <1>3 DEF StorageThrows, ListenerThrows, AdoptFails, Fails, FailsWith
  <2> QED BY <2>1, WatchEnds
<1>4. CASE AnswerDropped(r)
  <2>1. failed /\ UNCHANGED <<failed, phase, watch>>
    BY <1>4 DEF AnswerDropped, session
  <2>2. watch.status # "on" /\ (failed' => phase' # "open")
    BY <2>1 DEF WatchInv
  <2> QED BY <2>1, <2>2, WatchEnds
<1>5. CASE Publishes(r)
  BY <1>5, WatchAtPublication
<1> QED BY <1>1, <1>2, <1>3, <1>4, <1>5 DEF CommitMoves

-----------------------------------------------------------------------------
(* Steps of the watch itself.                                               *)

\* Its job runs, with nobody in turn: the loaded value is the newest.
LEMMA WatchBegins ==
  ASSUME Inv, Core, Sides, WatchInv, WatchRuns
  PROVE  WatchInv'
<1> DEFINE v == watch.as
           c == Loaded(v)
           x == [watch EXCEPT !.status = "on", !.inc = c.inc, !.at = At(c.n, c.as)]
<1>1. /\ Runs(WatchJob) /\ watch.status = "queued" /\ ~failed /\ phase = "open"
      /\ watch' = IF c.on THEN x ELSE [NoWatch EXCEPT !.status = "ended"]
      /\ UNCHANGED <<req, batch, doc, failed, phase>>
  BY DEF WatchRuns, store, session
<1>2. batch.what = "nothing" /\ ~Storing /\ Known = doc.n /\ ~Unadopted
  BY <1>1, JobsDiffer, NobodyInTurn, QuietMemory
<1>3. Known' = doc.n /\ (Present' <=> doc.live)
  BY <1>1, <1>2 DEF Known, Unadopted, Present
<1>4. CASE ~c.on
  <2>1. watch'.status = "ended"
    BY <1>1, <1>4 DEF NoWatch
  <2> QED BY <1>1, <2>1 DEF WatchInv
<1>5. CASE c.on
  <2>1. c.n = doc.n /\ c.inc = doc.inc /\ doc.live /\ c.as = v
    <3>1. CASE cache.on /\ cache.as = v
      BY <1>1, <1>2, <3>1 DEF Core, CacheIsCurrent, Loaded
    <3>2. CASE ~(cache.on /\ cache.as = v) /\ doc.live
      BY <3>2 DEF Loaded
    <3>3. CASE ~(cache.on /\ cache.as = v) /\ ~doc.live
      BY <1>5, <3>3, Nothings DEF Loaded
    <3> QED BY <3>1, <3>2, <3>3
  <2>2. watch \in Watches /\ watch.queue = <<>> /\ watch.running = "no"
    BY <1>1 DEF Sides, WatchInv
  <2> HIDE DEF c
  <2>3. /\ x.status = "on" /\ x.queue = <<>> /\ x.running = "no" /\ x.inc = doc.inc
        /\ x.at = At(doc.n, x.as)
    BY <2>1, <2>2 DEF Watches
  <2> HIDE DEF x
  <2>4. Newest(x) = At(doc.n, x.as) /\ ~Retired(x) /\ Chained(x)
    <3>1. Len(x.queue) = 0
      BY <2>3
    <3> QED BY <2>3, <3>1 DEF Newest, Retired, Chained
  <2>5. watch' = x
    BY <1>1, <1>5
  <2> QED BY <1>1, <1>3, <2>1, <2>3, <2>4, <2>5 DEF WatchInv, Follows
<1> QED BY <1>4, <1>5

LEMMA WatchMoves ==
  ASSUME Sides, WatchInv,
         \/ WatchStarts \/ WatchDelivers \/ WatchListenerReturns \/ WatchListenerThrows
         \/ WatchStops \/ \E v \in Versions : WatchDoc(v)
  PROVE  WatchInv'
<1>1. UNCHANGED <<req, batch, doc, failed, phase>>
  BY DEF WatchStarts, WatchDelivers, WatchListenerReturns, WatchListenerThrows, WatchStops,
     WatchDoc, store, session
<1>2. /\ Known' = Known /\ (Present' <=> Present) /\ (failed' => phase' # "open")
      /\ watch \in Watches
  BY <1>1 DEF Known, Unadopted, Present, WatchInv, Sides
<1>3. ASSUME watch.status = "on", watch'.status = "on", Chained(watch'),
             Newest(watch') = Newest(watch), Retired(watch') <=> Retired(watch),
             watch'.inc = watch.inc, watch'.as = watch.as
      PROVE  WatchInv'
  BY <1>1, <1>2, <1>3 DEF WatchInv, Follows
<1>4. CASE WatchStarts
  <2>1. watch.status = "on" /\ watch' = [watch EXCEPT !.started = TRUE]
    BY <1>4 DEF WatchStarts
  <2>2. /\ watch'.status = "on" /\ watch'.inc = watch.inc /\ watch'.as = watch.as
        /\ watch'.queue = watch.queue /\ watch'.at = watch.at /\ watch'.running = watch.running
    BY <1>2, <2>1 DEF Watches
  <2>3. Chained(watch) /\ (Chained(watch') <=> Chained(watch))
    BY <2>1, <2>2 DEF Chained, WatchInv, Follows
  <2>4. Newest(watch') = Newest(watch) /\ (Retired(watch') <=> Retired(watch))
    BY <2>2 DEF Newest, Retired
  <2> QED BY <2>1, <2>2, <2>3, <2>4, <1>3
<1>5. CASE WatchDelivers
  <2>1. /\ watch.status = "on" /\ watch.running = "no" /\ watch.queue # <<>>
        /\ watch' = [watch EXCEPT
             !.queue = Tail(watch.queue), !.at = Head(watch.queue).to,
             !.running = IF Head(watch.queue).kind = "null" THEN "last" ELSE "yes"]
    BY <1>5 DEF WatchDelivers
  <2>2. Chained(watch)
    BY <2>1 DEF WatchInv, Follows
  <2>3. /\ Chained(watch') /\ Newest(watch') = Newest(watch) /\ (Retired(watch') <=> Retired(watch))
        /\ watch'.inc = watch.inc /\ watch'.status = watch.status /\ watch'.as = watch.as
    BY <1>2, <2>1, <2>2, DeliveryKeepsChain
  <2> QED BY <2>1, <2>3, <1>3
<1>6. CASE WatchListenerReturns
  <2>1. watch.running # "no" /\ watch.status \notin {"none", "queued"}
    BY <1>6 DEF WatchListenerReturns, WatchInv
  <2>2. CASE watch.status = "on" /\ watch.running = "yes"
    <3>1. watch' = [watch EXCEPT !.running = "no"]
      BY <1>6, <2>2 DEF WatchListenerReturns
    <3>2. /\ watch'.status = "on" /\ watch'.inc = watch.inc /\ watch'.as = watch.as
          /\ watch'.queue = watch.queue /\ watch'.at = watch.at /\ watch'.running = "no"
      BY <1>2, <2>2, <3>1 DEF Watches
    <3>3. Chained(watch) /\ (Chained(watch') <=> Chained(watch))
      BY <2>2, <3>2 DEF Chained, WatchInv, Follows
    <3>4. Newest(watch') = Newest(watch) /\ (Retired(watch') <=> Retired(watch))
      BY <2>2, <3>2 DEF Newest, Retired
    <3> QED BY <2>2, <3>2, <3>3, <3>4, <1>3
  <2>3. CASE watch.status = "on" /\ watch.running = "last"
    <3>1. watch'.status = "ended"
      BY <1>6, <2>3 DEF WatchListenerReturns, Ended, NoWatch
    <3> QED BY <1>2, <3>1 DEF WatchInv
  <2>4. CASE watch.status = "ended"
    <3>1. watch' = [watch EXCEPT !.running = "no"]
      BY <1>6, <2>4 DEF WatchListenerReturns, Ended
    <3>2. watch'.status = "ended"
      BY <1>2, <2>4, <3>1 DEF Watches
    <3> QED BY <1>2, <3>2 DEF WatchInv
  <2> QED BY <2>1, <2>2, <2>3, <2>4, <1>2 DEF Watches
<1>7. CASE WatchListenerThrows
  <2>1. /\ watch.running # "no" /\ watch.status \notin {"none", "queued"}
        /\ watch' = [Ended(watch) EXCEPT !.running = "no"]
    BY <1>7 DEF WatchListenerThrows, WatchInv
  <2>2. watch'.status = "ended"
    <3>1. Ended(watch) \in Watches /\ Ended(watch).status = "ended"
      BY <1>2, <2>1, EndedTyped DEF Ended, NoWatch, Watches
    <3> QED BY <2>1, <3>1 DEF Watches
  <2> QED BY <1>2, <2>2 DEF WatchInv
<1>8. CASE WatchStops
  BY <1>2, <1>8, WatchEnds DEF WatchStops
<1>9. ASSUME NEW v \in Versions, WatchDoc(v)
      PROVE  WatchInv'
  <2>1. watch.status = "none" /\ watch' = [[watch EXCEPT !.status = "queued"] EXCEPT !.as = v]
    BY <1>9 DEF WatchDoc
  <2>2. watch'.status = "queued" /\ watch'.queue = <<>> /\ watch'.running = "no"
    BY <1>2, <2>1 DEF Watches, WatchInv
  <2> QED BY <1>2, <2>2 DEF WatchInv
<1> QED BY <1>4, <1>5, <1>6, <1>7, <1>8, <1>9

-----------------------------------------------------------------------------
(* The theorem.                                                             *)

LEMMA InitWatch == Init => WatchInv
  BY DEF Init, WatchInv, NoWatch

LEMMA NextWatch == ReadInv /\ WatchInv /\ [Next]_vars => WatchInv'
<1> SUFFICES ASSUME Inv, Core, Sides, WatchInv, [Next]_vars PROVE WatchInv'
  BY DEF ReadInv
<1>1. ASSUME UNCHANGED <<doc, batch, req, failed, phase, watch>> PROVE WatchInv'
  BY <1>1, SameKnown, WatchFollows DEF Storing
<1>2. ASSUME NEW r \in Requests, CommitMoves(r) PROVE WatchInv'
  BY <1>2, WatchOfCommit
<1>3. ASSUME NEW d \in Readers, LoadRuns(d) \/ LoadRefused(d) PROVE WatchInv'
  BY <1>1, <1>3 DEF LoadRuns, LoadRefused, store, session
<1>4. ASSUME NEW d \in Readers, LoadFails(d) PROVE WatchInv'
  BY <1>4, WatchEnds DEF LoadFails, Fails, FailsWith
<1>5. CASE WatchRuns
  BY <1>5, WatchBegins
<1>6. CASE WatchRefused \/ WatchLoadFails
  <2>1. watch' \in {[NoWatch EXCEPT !.status = "ended"], Ended([NoWatch EXCEPT !.status = "ended"])}
    BY <1>6 DEF WatchRefused, WatchLoadFails, FailsWith
  <2>2. watch'.status = "ended"
    BY <2>1 DEF Ended, NoWatch
  <2>3. failed' => phase' # "open"
    BY <1>6 DEF WatchRefused, WatchLoadFails, FailsWith, session, WatchInv
  <2> QED BY <2>2, <2>3 DEF WatchInv
<1>7. CASE SweepRuns \/ ScanBegins \/ ScanEnds \/ SweepQueued
  BY <1>1, <1>7 DEF SweepRuns, ScanBegins, ScanEnds, SweepQueued, store, session
<1>8. CASE CloseBegins \/ CloseEnds \/ Joined
  <2>1. watch' = watch /\ phase # "open" /\ phase' # "open"
    BY <1>8 DEF CloseBegins, CloseEnds, Joined
  <2>2. watch.status # "on"
    BY <2>1 DEF WatchInv
  <2> QED BY <2>1, <2>2, WatchEnds
<1>9. CASE Close \/ ScanFails
  BY <1>9, WatchEnds DEF Close, ScanFails, Fails, FailsWith
<1>10. CASE \/ WatchStarts \/ WatchDelivers \/ WatchListenerReturns \/ WatchListenerThrows
            \/ WatchStops \/ \E v \in Versions : WatchDoc(v)
  BY <1>10, WatchMoves
<1>11. ASSUME NEW r \in Requests, Commit(r) PROVE WatchInv'
  <2>1. /\ UNCHANGED <<batch, doc, failed, phase, watch>>
        /\ req[r] = "new" /\ req' = [req EXCEPT ![r] = "queued"] /\ req \in [Requests -> Statuses]
    BY <1>11 DEF Commit, store, session, Inv, LineInv
  <2>2. Storing' <=> Storing
    BY <2>1 DEF Storing
  <2> QED BY <2>1, <2>2, SameKnown, WatchFollows
<1>12. ASSUME NEW r \in Requests, TxReadFails(r) PROVE WatchInv'
  BY <1>12, WatchEnds DEF TxReadFails, Fails, FailsWith
<1>13. ASSUME NEW r \in Requests, NEW v \in Versions, TxDoc(r, v) PROVE WatchInv'
  <2>1. /\ req[r] = "change" /\ req[r] \in InTurn /\ Runs(CommitJob(r))
        /\ batch' = [what |-> IF doc.live THEN "migrate" ELSE "create", ver |-> v]
        /\ UNCHANGED <<req, doc, failed, phase, watch>>
    BY <1>13, InTurnRuns DEF TxDoc, InTurn, store, session
  <2>2. ~Storing /\ ~Storing'
    BY <2>1, OneInTurn DEF Storing, InTurn
  <2>3. batch'.what = "create" => ~doc.live
    BY <2>1
  <2> QED BY <2>1, <2>2, <2>3, QuietKnown, WatchFollows
<1>14. ASSUME NEW d \in Readers, NEW v \in Versions, SnapshotCached(d, v) \/ SnapshotQueued(d, v)
       PROVE  WatchInv'
  BY <1>1, <1>14 DEF SnapshotCached, SnapshotQueued, store, session
<1>15. CASE UNCHANGED vars
  BY <1>1, <1>15 DEF vars, store, session
<1> QED BY <1>2, <1>3, <1>4, <1>5, <1>6, <1>7, <1>8, <1>9, <1>10, <1>11, <1>12, <1>13, <1>14, <1>15
        DEF Next, LineMoves

\* What is pending replays without a gap to what is published.
LEMMA WatchInvIsGapless == ReadInv /\ WatchInv => WatchIsGapless
<1> SUFFICES ASSUME watch \in Watches, WatchInv, watch.status = "on" PROVE WatchIsGapless
  BY DEF ReadInv, Sides, WatchIsGapless
<1>1. Follows(watch, doc.inc, Known, Present)
  BY DEF WatchInv
<1>2. DOMAIN watch.queue = 1..Len(watch.queue)
  BY DEF Watches
<1>3. Newest(watch).n = IF watch.queue = <<>> THEN watch.at.n ELSE Last(watch.queue).to.n
  BY DEF Newest
<1>4. ~Retired(watch) => watch.inc = doc.inc /\ Newest(watch).n = Known
  BY <1>1 DEF Follows, At
<1> QED BY <1>1, <1>2, <1>3, <1>4 DEF Follows, Chained, WatchIsGapless

\* A watch has no gap: through an overflow of its queue, changes of version, a failing
\* listener and a retirement, what was delivered and what is pending replay to the newest
\* published state of the document it watches.
THEOREM WatchHasNoGap == Spec => []WatchIsGapless
<1>1. Init => ReadInv /\ WatchInv
  BY InitReads, InitWatch
<1>2. ReadInv /\ WatchInv /\ [Next]_vars => ReadInv' /\ WatchInv'
  BY NextReads, NextWatch
<1> QED BY <1>1, <1>2, WatchInvIsGapless, PTL DEF Spec
=============================================================================
