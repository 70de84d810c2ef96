------------------------------ MODULE ToolCall ------------------------------
(***************************************************************************)
(* A tool call and the nested calls its tool makes (harness/tool.ts, with  *)
(* the slots of tg.live in harness/live.ts).                               *)
(*                                                                         *)
(* The caller, a model-issued call, may call other tools by key; each such *)
(* call is a tool task of its own that the caller owns.  rec, index and    *)
(* slots are durable; what an invocation knows is memory that a crash       *)
(* loses.  The scheduler is the one of TaskScheduler, reduced to what      *)
(* these handlers meet: marks, the cascade below a cancelled caller, the   *)
(* gate of their commits, outcomes held while owned work is live, faults.  *)
(***************************************************************************)
EXTENDS Naturals, FiniteSets

CONSTANTS
  Keys, NoKey, \* keys of nested calls, and the key of a call that is none
  MaxNested,   \* bound: nested tool tasks created
  Endless,     \* keys whose tools run until they are cancelled
  Leaning,     \* keys whose tools run until every other nested call ended
  MaxCrashes,  \* bound: restarts
  MaxTroubles  \* bound: aborts by hosts and faults of handlers

Caller == 0
Nested == 1..MaxNested
Calls == {Caller} \cup Nested

ASSUME BoundsAssumption ==
  /\ MaxNested \in Nat /\ MaxCrashes \in Nat /\ MaxTroubles \in Nat
  /\ Endless \subseteq Keys /\ Leaning \subseteq Keys /\ NoKey \notin Keys

VARIABLES
  rec,     \* task records: [status, phase, replay, mark, abandon, memo, key, faulted]
  index,   \* NestedCallDoc of the caller, by key: [task, result]
  slots,   \* the nested calls tg.live lists
  inv,     \* invocations: [mode, at, safe, list, made]
  memo,    \* the caller's madeNestedMemo: "none", "asked", "done"
  adm,     \* the caller's executeTool calls, by key
  runs,    \* history: executions of each call's tool: [n, unsafe]
  budget   \* [crashes, troubles] so far

vars == <<rec, index, slots, inv, memo, adm, runs, budget>>
durable == <<rec, index, slots>>
attempt == <<memo, adm>>

Replays == {"safe", "unsafe"}
CallRecord ==
  [status : {"absent", "live", "held", "over"}, phase : {"call", "execute"}, replay : Replays,
   mark : {"no", "restart", "request"}, abandon : BOOLEAN, memo : BOOLEAN,
   key : Keys \cup {NoKey}, faulted : BOOLEAN]
Invocation ==
  [mode : {"none", "run", "abort"}, at : {"start", "intended", "run", "ended", "aborting"},
   safe : BOOLEAN, list : SUBSET Nested, made : BOOLEAN]
Absent == [status |-> "absent", phase |-> "call", replay |-> "unsafe", mark |-> "no",
           abandon |-> FALSE, memo |-> FALSE, key |-> NoKey, faulted |-> FALSE]
NoInvocation == [mode |-> "none", at |-> "start", safe |-> FALSE, list |-> {},
                 made |-> FALSE]

----------------------------------------------------------------------------
(* The scheduler.                                                          *)

\* A terminal record has no checkpoint, and nothing asks for its marks.
Over(r) == [r EXCEPT !.status = "over", !.replay = "unsafe", !.mark = "no", !.abandon = FALSE]

Live(t) == rec[t].status \in {"live", "held"}
Marked(t) == rec[t].mark # "no"
Owned(t) == IF t = Caller THEN {n \in Nested : Live(n)} ELSE {}
Cancels(t) == Live(t) /\ (Marked(t) \/ rec[t].faulted)
BelowCancelled(t) == t # Caller /\ Cancels(Caller)

\* #gated: a commit of a run reaches its task while it runs unmarked.
Gated(t) ==
  /\ inv[t].mode # "none" /\ rec[t].status = "live"
  /\ inv[t].mode = "run" => ~Marked(t)

Ends(t) == inv' = [inv EXCEPT ![t] = NoInvocation]
Lost(t) == /\ memo' = IF t = Caller THEN "none" ELSE memo
           /\ adm' = IF t = Caller THEN [k \in Keys |-> "none"] ELSE adm
At(t, where) == inv[t].mode # "none" /\ inv[t].at = where
Goes(t, where) == inv' = [inv EXCEPT ![t].at = where]

\* Nested calls make none here, so they have none to list.
Ended(t) == IF t = Caller THEN "ended" ELSE "aborting"

\* A marked task is aborted once the work it owns ended; unmarked work below a
\* cancelled caller waits for its mark.
Start(t) ==
  /\ rec[t].status = "live" /\ inv[t].mode = "none"
  /\ IF Marked(t) THEN Owned(t) = {} ELSE ~BelowCancelled(t)
  /\ inv' = [inv EXCEPT ![t] =
       [NoInvocation EXCEPT !.mode = IF Marked(t) THEN "abort" ELSE "run",
                            !.at = IF Marked(t) THEN Ended(t) ELSE "start"]]
  /\ UNCHANGED <<durable, attempt, runs, budget>>

\* A live task's mark; a request replaces a restart mark.
Mark(t, why) == rec' = [rec EXCEPT ![t].mark = why]

HostAbort(t) ==
  /\ budget.troubles < MaxTroubles /\ Live(t) /\ rec[t].mark # "request"
  /\ Mark(t, "request")
  /\ budget' = [budget EXCEPT !.troubles = @ + 1]
  /\ UNCHANGED <<index, slots, inv, attempt, runs>>

Cascade(n) ==
  /\ Cancels(Caller) /\ Live(n)
  /\ LET why == IF rec[Caller].status = "live" /\ rec[Caller].mark = "restart"
                THEN "restart" ELSE "request"
     IN (~Marked(n) \/ (rec[n].mark = "restart" /\ why = "request")) /\ Mark(n, why)
  /\ UNCHANGED <<index, slots, inv, attempt, runs, budget>>

\* Bug: calls being admitted are not waited for.
Bug_AdmissionsSettled(t) == TRUE
AdmissionsSettled(t) == t = Caller => \A k \in Keys : adm[k] # "admission"

\* settleSchedulerOutcome: the slots below it leave.
SlotsAfterFault(t) == IF t = Caller THEN {} ELSE slots

\* A handler throws, unmarked or in its abort: the scheduler ends the task, and
\* cleans up for it when it has ended.
Fault(t) ==
  /\ budget.troubles < MaxTroubles /\ Gated(t)
  /\ inv[t].mode = "run" => ~BelowCancelled(t)
  /\ inv[t].at \in {"start", "ended", "aborting"} /\ AdmissionsSettled(t)
  /\ LET failed == [rec[t] EXCEPT !.faulted = TRUE] IN
     rec' = [rec EXCEPT ![t] = IF Owned(t) = {} THEN Over(failed)
                               ELSE [failed EXCEPT !.status = "held"]]
  /\ slots' = IF Owned(t) = {} THEN SlotsAfterFault(t) ELSE slots
  /\ Ends(t) /\ Lost(t)
  /\ budget' = [budget EXCEPT !.troubles = @ + 1]
  /\ UNCHANGED <<index, runs>>

\* The scheduler ends a held outcome once nothing owned is live.
Finalize(t) ==
  /\ rec[t].status = "held" /\ Owned(t) = {}
  /\ rec' = [rec EXCEPT ![t] = Over(rec[t])]
  /\ slots' = IF rec[t].faulted THEN SlotsAfterFault(t) ELSE slots
  /\ UNCHANGED <<index, inv, attempt, runs, budget>>

\* A run whose commits the gate refuses throws; its admissions are refused too.  A
\* throw below a cancelled caller is no fault: the mark comes.
Dropped(t) ==
  /\ inv[t].mode = "run" /\ (~Gated(t) \/ BelowCancelled(t))
  /\ inv[t].at \notin {"intended", "run"}
  /\ Ends(t) /\ Lost(t)
  /\ UNCHANGED <<durable, runs, budget>>

\* The process dies and comes back: memory is gone, live abandoned tasks are marked.
Crash ==
  /\ budget.crashes < MaxCrashes
  /\ budget' = [budget EXCEPT !.crashes = @ + 1]
  /\ inv' = [t \in Calls |-> NoInvocation]
  /\ memo' = "none" /\ adm' = [k \in Keys |-> "none"]
  /\ rec' = [t \in Calls |-> IF Live(t) /\ rec[t].abandon /\ ~Marked(t)
                             THEN [rec[t] EXCEPT !.mark = "restart"] ELSE rec[t]]
  /\ UNCHANGED <<index, slots, runs>>

----------------------------------------------------------------------------
(* The phases.  Which tool a name means, and its policy, is asked of the   *)
(* agent by every invocation: extensions come and go.                      *)

\* The tool is missing, its arguments are invalid, or a hook blocks it.
Refuse(t) ==
  /\ At(t, "start") /\ inv[t].mode = "run" /\ rec[t].phase = "call"
  /\ Goes(t, Ended(t))
  /\ UNCHANGED <<durable, attempt, runs, budget>>

\* Phase call: the intent is durable before anything runs.
Intent(t, replay) ==
  /\ At(t, "start") /\ inv[t].mode = "run" /\ rec[t].phase = "call" /\ Gated(t)
  /\ rec' = [rec EXCEPT ![t].phase = "execute", ![t].replay = replay]
  /\ inv' = [inv EXCEPT ![t].at = "intended", ![t].safe = replay = "safe"]
  /\ UNCHANGED <<index, slots, attempt, runs, budget>>

\* Bug: the current policy is not asked.
Bug_MayRunAgainStored(t, replay) == rec[t].replay = "safe"
MayRunAgain(t, replay) == rec[t].replay = "safe" /\ replay = "safe"

\* Phase execute, after a restart: again, or interrupted.
Again(t, replay) ==
  /\ At(t, "start") /\ inv[t].mode = "run" /\ rec[t].phase = "execute"
  /\ IF MayRunAgain(t, replay)
     THEN Gated(t) /\ inv' = [inv EXCEPT ![t].at = "intended", ![t].safe = replay = "safe"]
     ELSE Goes(t, Ended(t))
  /\ UNCHANGED <<durable, attempt, runs, budget>>

Execute(t) ==
  /\ At(t, "intended")
  /\ Goes(t, "run")
  /\ runs' = [runs EXCEPT ![t].n = @ + 1, ![t].unsafe = @ \/ ~inv[t].safe]
  /\ UNCHANGED <<durable, attempt, budget>>

\* When a tool gives its invocation back.  The caller's does as it likes.
Returns(t) ==
  \/ t = Caller
  \/ rec[t].key \notin Endless \cup Leaning
  \/ rec[t].key \in Endless /\ Marked(t)
  \/ rec[t].key \in Leaning /\ \A n \in Nested \ {t} : ~Live(n)

\* `ended`: no executeTool from here on.
ToolReturns(t) ==
  /\ At(t, "run") /\ Returns(t)
  /\ Goes(t, Ended(t))
  /\ UNCHANGED <<durable, attempt, runs, budget>>

\* A throw under an abort mark goes to the scheduler, which runs the abort handler.
ToolThrowsAborted(t) ==
  /\ At(t, "run") /\ Returns(t) /\ Marked(t)
  /\ Ends(t) /\ Lost(t)
  /\ UNCHANGED <<durable, runs, budget>>

----------------------------------------------------------------------------
(* Nested calls of the running tool (api.executeTool, startNestedCall).    *)

ExecuteTool(k) ==
  /\ At(Caller, "run") /\ inv[Caller].mode = "run" /\ adm[k] = "none"
  /\ adm' = [adm EXCEPT ![k] = "admission"]
  /\ memo' = IF memo = "none" THEN "asked" ELSE memo
  /\ UNCHANGED <<durable, inv, runs, budget>>

\* MADE_NESTED_CALLS, once per attempt, before the first admission.
MemoCommits ==
  /\ memo = "asked" /\ Gated(Caller)
  /\ memo' = "done"
  /\ rec' = [rec EXCEPT ![Caller].memo = TRUE]
  /\ UNCHANGED <<index, slots, inv, adm, runs, budget>>

\* The gate or the call's own cancellation refuses it; the next call tries again.
MemoFails ==
  /\ memo = "asked"
  /\ memo' = "none"
  /\ adm' = [k \in Keys |-> IF adm[k] = "admission" THEN "back" ELSE adm[k]]
  /\ UNCHANGED <<durable, inv, runs, budget>>

NextNested == {n \in Nested : rec[n].status = "absent"
                              /\ \A m \in Nested : m < n => rec[m].status # "absent"}

\* The key was made by this attempt or an earlier one.
Made(k) == index[k].task # Caller

\* One commit: the task, its slot and its document.
Admit(k) ==
  /\ adm[k] = "admission" /\ memo = "done" /\ Gated(Caller)
  /\ adm' = [adm EXCEPT ![k] = "waiting"]
  /\ IF Made(k) THEN UNCHANGED durable
     ELSE \E n \in NextNested :
            /\ rec' = [rec EXCEPT ![n] = [Absent EXCEPT
                 !.status = "live", !.key = k, !.abandon = ~inv[Caller].safe]]
            /\ index' = [index EXCEPT ![k] = [task |-> n, result |-> FALSE]]
            /\ slots' = slots \cup {n}
  /\ UNCHANGED <<inv, memo, runs, budget>>

\* The gate, a cancellation, or other arguments under a made key.
AdmitFails(k) ==
  /\ adm[k] = "admission" /\ memo = "done"
  /\ adm' = [adm EXCEPT ![k] = "back"]
  /\ UNCHANGED <<durable, inv, memo, runs, budget>>

\* The waiter wakes and reads the stored result, if there is one.
Answered(k) ==
  /\ adm[k] = "waiting" /\ index[k].task # Caller /\ rec[index[k].task].status = "over"
  /\ adm' = [adm EXCEPT ![k] = "back"]
  /\ UNCHANGED <<durable, inv, memo, runs, budget>>

----------------------------------------------------------------------------
(* Settlement.                                                             *)

\* settle() first lists the nested calls that are live, made by any attempt.
List(t) ==
  /\ At(t, "ended") /\ AdmissionsSettled(t)
  /\ inv' = [inv EXCEPT ![t].at = "aborting", ![t].list = Owned(t),
                        ![t].made = rec[t].memo]
  /\ UNCHANGED <<durable, attempt, runs, budget>>

\* Bug: they are aborted one after the other.
Bug_MayAbort(t, n) == \A m \in inv[t].list : m < n => ~Live(m)
MayAbort(t, n) == n \in inv[t].list

AbortOwned(t, n) ==
  /\ At(t, "aborting") /\ n \in inv[t].list /\ MayAbort(t, n)
  /\ Live(n) /\ ~Marked(n)
  /\ Mark(n, "request")
  /\ UNCHANGED <<index, slots, inv, attempt, runs, budget>>

SlotsAfter(t) == IF t = Caller /\ inv[t].made THEN {} ELSE slots

\* One commit ends the task: the result, in the transcript or in the caller's
\* document, the slots, and the outcome.
Settle(t) ==
  /\ At(t, "aborting") /\ Gated(t) /\ \A n \in inv[t].list : ~Live(n)
  /\ rec' = [rec EXCEPT ![t] = IF Owned(t) = {} THEN Over(rec[t])
                               ELSE [rec[t] EXCEPT !.status = "held"]]
  /\ slots' = SlotsAfter(t)
  /\ index' = IF t = Caller THEN index ELSE [index EXCEPT ![rec[t].key].result = TRUE]
  /\ Ends(t) /\ Lost(t)
  /\ UNCHANGED <<runs, budget>>

----------------------------------------------------------------------------
Init ==
  /\ rec = [t \in Calls |-> IF t = Caller THEN [Absent EXCEPT !.status = "live"] ELSE Absent]
  /\ index = [k \in Keys |-> [task |-> Caller, result |-> FALSE]]
  /\ slots = {}
  /\ inv = [t \in Calls |-> NoInvocation]
  /\ memo = "none" /\ adm = [k \in Keys |-> "none"]
  /\ runs = [t \in Calls |-> [n |-> 0, unsafe |-> FALSE]]
  /\ budget = [crashes |-> 0, troubles |-> 0]

\* What goes on by itself: the scheduler's passes, handlers between awaits, tools
\* that return.
Moves(t) ==
  \/ Start(t) \/ Finalize(t) \/ Dropped(t) \/ Execute(t) \/ List(t) \/ Settle(t)
  \/ ToolReturns(t) \/ ToolThrowsAborted(t)
  \/ Refuse(t) \/ \E p \in Replays : Intent(t, p) \/ Again(t, p)
  \/ t \in Nested /\ Cascade(t)
  \/ \E n \in Nested : AbortOwned(t, n)

Admissions ==
  \/ MemoCommits \/ MemoFails
  \/ \E k \in Keys : Admit(k) \/ AdmitFails(k) \/ Answered(k)

Progress == Admissions \/ \E t \in Calls : Moves(t)

Next ==
  \/ Progress \/ Crash
  \/ \E t \in Calls : HostAbort(t) \/ Fault(t)
  \/ \E k \in Keys : ExecuteTool(k)

Spec == Init /\ [][Next]_vars
FairSpec == Spec /\ WF_vars(Progress)

----------------------------------------------------------------------------
(* Properties.                                                             *)

TypeOK ==
  /\ rec \in [Calls -> CallRecord]
  /\ index \in [Keys -> [task : Calls, result : BOOLEAN]]
  /\ slots \subseteq Nested
  /\ inv \in [Calls -> Invocation]
  /\ runs \in [Calls -> [n : Nat, unsafe : BOOLEAN]]
  /\ memo \in {"none", "asked", "done"}
  /\ adm \in [Keys -> {"none", "admission", "waiting", "back"}]

\* A tool that was ever run as one that is not safe to replay ran only once, over
\* crashes, reruns of its caller that call the same key, and changes of its policy.
UnsafeRunsOnce == \A t \in Calls : runs[t].unsafe => runs[t].n = 1

\* The calls below a call that settles leave with it: when it decided its outcome, or
\* ended, no slot below it stays in tg.live; when it ends, the calls it made have ended,
\* one for each key, with their results, unless the scheduler ended them.  A call admitted while
\* its tool returned, in this attempt or in an earlier one, is no exception.
NestedLeaveWithCaller ==
  /\ rec[Caller].status = "held" => rec[Caller].faulted \/ slots = {}
  /\ rec[Caller].status = "over" => slots = {}
  /\ rec[Caller].status = "over" =>
       \A n \in Nested : rec[n].status # "absent" =>
         /\ rec[n].status = "over" /\ index[rec[n].key].task = n
         /\ index[rec[n].key].result \/ rec[n].faulted

\* A call that is cancelled, or whose tool returned, is settled, whatever its nested
\* calls wait for; only a crash may start it over.
Settling ==
  Live(Caller) /\ (Marked(Caller) \/ inv[Caller].at \in {"ended", "aborting"})
SettlingEnds == Settling ~> ~Settling
=============================================================================
