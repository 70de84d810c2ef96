--------------------------- MODULE ToolCall_proofs ---------------------------
(* Theorems about ToolCall, for every value of its constants. *)
EXTENDS ToolCall, TLAPS

LEMMA CallsAreDistinct == Caller \in Calls /\ Nested \subseteq Calls /\ Caller \notin Nested
  BY BoundsAssumption DEF Caller, Nested, Calls

-----------------------------------------------------------------------------
(* Type correctness.                                                        *)

\* What actions do to records and invocations keeps their types.
LEMMA RecordTyped ==
  ASSUME NEW r \in CallRecord
  PROVE  /\ \A s \in {"absent", "live", "held", "over"}, f \in BOOLEAN :
              /\ [r EXCEPT !.status = s] \in CallRecord
              /\ [r EXCEPT !.status = s, !.faulted = f] \in CallRecord
         /\ \A m \in {"no", "restart", "request"} : [r EXCEPT !.mark = m] \in CallRecord
         /\ \A p \in Replays : [r EXCEPT !.phase = "execute", !.replay = p] \in CallRecord
         /\ [r EXCEPT !.memo = TRUE] \in CallRecord
  BY DEF CallRecord

LEMMA OverTyped ==
  ASSUME NEW r \in CallRecord
  PROVE  /\ Over(r) \in CallRecord /\ Over([r EXCEPT !.faulted = TRUE]) \in CallRecord
         /\ [[r EXCEPT !.faulted = TRUE] EXCEPT !.status = "held"] \in CallRecord
  BY DEF CallRecord, Over, Replays

LEMMA NewRecordTyped ==
  /\ Absent \in CallRecord /\ [Absent EXCEPT !.status = "live"] \in CallRecord
  /\ \A k \in Keys, b \in BOOLEAN :
       [Absent EXCEPT !.status = "live", !.key = k, !.abandon = b] \in CallRecord
  BY DEF CallRecord, Absent, Replays

LEMMA InvocationTyped ==
  /\ NoInvocation \in Invocation
  /\ \A m \in {"run", "abort"}, a \in {"start", "ended", "aborting"} :
       [NoInvocation EXCEPT !.mode = m, !.at = a] \in Invocation
  /\ \A i \in Invocation, a \in {"start", "intended", "run", "ended", "aborting"},
        b \in BOOLEAN, S \in SUBSET Nested :
       /\ [i EXCEPT !.at = a] \in Invocation
       /\ [i EXCEPT !.at = a, !.safe = b] \in Invocation
       /\ [i EXCEPT !.at = a, !.list = S, !.made = b] \in Invocation
  BY DEF Invocation, NoInvocation

LEMMA RecordFields ==
  ASSUME NEW r \in CallRecord
  PROVE  r.memo \in BOOLEAN /\ r.key \in Keys \cup {NoKey}
  BY DEF CallRecord

Execution == [n : Nat, unsafe : BOOLEAN]

LEMMA ExecutionCounts == ASSUME NEW e \in Execution PROVE e.n + 1 \in Nat
  BY DEF Execution

LEMMA ExecutionTyped ==
  ASSUME NEW e \in Execution, NEW n \in Nat, NEW b \in BOOLEAN
  PROVE  [e EXCEPT !.n = n, !.unsafe = b] \in Execution
  BY DEF Execution

LEMMA TypeInit == Init => TypeOK
  <1> SUFFICES ASSUME Init PROVE TypeOK
    OBVIOUS
  <1>1. rec \in [Calls -> CallRecord]
    BY NewRecordTyped DEF Init
  <1>2. inv \in [Calls -> Invocation]
    BY InvocationTyped DEF Init
  <1>3. index \in [Keys -> [task : Calls, result : BOOLEAN]]
    BY CallsAreDistinct DEF Init
  <1>4. runs \in [Calls -> [n : Nat, unsafe : BOOLEAN]]
    BY DEF Init
  <1> QED BY <1>1, <1>2, <1>3, <1>4 DEF Init, TypeOK

LEMMA TypeNext ==
  ASSUME TypeOK, [Next]_vars
  PROVE  TypeOK'
  <1> USE CallsAreDistinct, RecordTyped, NewRecordTyped, InvocationTyped DEF TypeOK, durable, attempt
  <1>1. ASSUME NEW t \in Calls, Start(t) PROVE TypeOK'
    BY <1>1 DEF Start, Marked, Ended
  <1>2. ASSUME NEW t \in Calls, Finalize(t) PROVE TypeOK'
    BY <1>2, OverTyped DEF Finalize, SlotsAfterFault
  <1>3. ASSUME NEW t \in Calls, Dropped(t) PROVE TypeOK'
    BY <1>3 DEF Dropped, Ends, Lost
  <1>4. ASSUME NEW t \in Calls, Execute(t) PROVE TypeOK'
    <2>1. inv' \in [Calls -> Invocation]
      BY <1>4 DEF Execute, Goes, At
    <2>2. runs' \in [Calls -> Execution]
      <3> DEFINE n == runs[t].n + 1
                 b == runs[t].unsafe \/ ~inv[t].safe
      <3>1. runs \in [Calls -> Execution]
        BY DEF Execution
      <3>2. n \in Nat
        BY <3>1, ExecutionCounts
      <3>5. b \in BOOLEAN
        OBVIOUS
      <3>3. runs' = [runs EXCEPT ![t] = [runs[t] EXCEPT !.n = n, !.unsafe = b]]
        BY <1>4, <3>1 DEF Execute
      <3> HIDE DEF n, b
      <3>4. [runs[t] EXCEPT !.n = n, !.unsafe = b] \in Execution
        BY <3>1, <3>2, <3>5, ExecutionTyped
      <3> QED BY <3>1, <3>3, <3>4
    <2> QED BY <1>4, <2>1, <2>2 DEF Execute, Execution
  <1>5. ASSUME NEW t \in Calls, List(t) PROVE TypeOK'
    <2>1. rec[t].memo \in BOOLEAN /\ Owned(t) \in SUBSET Nested
      BY RecordFields DEF Owned
    <2>2. [inv[t] EXCEPT !.at = "aborting", !.list = Owned(t), !.made = rec[t].memo] \in Invocation
      BY <2>1
    <2>3. inv' = [inv EXCEPT ![t] = [inv[t] EXCEPT !.at = "aborting", !.list = Owned(t),
                                                   !.made = rec[t].memo]]
      BY <1>5 DEF List
    <2>4. inv' \in [Calls -> Invocation]
      BY <2>2, <2>3
    <2> QED BY <1>5, <2>4 DEF List
  <1>6. ASSUME NEW t \in Calls, Settle(t) PROVE TypeOK'
    BY <1>6, OverTyped DEF Settle, Ends, Lost, SlotsAfter, At, Ended
  <1>7. ASSUME NEW t \in Calls, ToolReturns(t) PROVE TypeOK'
    BY <1>7 DEF ToolReturns, Goes, At, Ended
  <1>8. ASSUME NEW t \in Calls, ToolThrowsAborted(t) PROVE TypeOK'
    BY <1>8 DEF ToolThrowsAborted, Ends, Lost
  <1>9. ASSUME NEW t \in Calls, Refuse(t) PROVE TypeOK'
    BY <1>9 DEF Refuse, Goes, At, Ended
  <1>10. ASSUME NEW t \in Calls, NEW p \in Replays, Intent(t, p) PROVE TypeOK'
    BY <1>10 DEF Intent, At
  <1>11. ASSUME NEW t \in Calls, NEW p \in Replays, Again(t, p) PROVE TypeOK'
    <2> DEFINE b == p = "safe"
    <2>1. b \in BOOLEAN
      OBVIOUS
    <2>2. inv' = [inv EXCEPT ![t].at = Ended(t)]
          \/ inv' = [inv EXCEPT ![t].at = "intended", ![t].safe = b]
      BY <1>11 DEF Again, Goes
    <2> HIDE DEF b
    <2>3. [inv[t] EXCEPT !.at = Ended(t)] \in Invocation
          /\ [inv[t] EXCEPT !.at = "intended", !.safe = b] \in Invocation
      BY <2>1 DEF Ended
    <2>4. inv' \in [Calls -> Invocation]
      BY <2>2, <2>3
    <2> QED BY <1>11, <2>4 DEF Again
  <1>12. ASSUME NEW n \in Nested, Cascade(n) PROVE TypeOK'
    BY <1>12 DEF Cascade, Mark
  <1>13. ASSUME NEW t \in Calls, NEW n \in Nested, AbortOwned(t, n) PROVE TypeOK'
    BY <1>13 DEF AbortOwned, Mark
  <1>14. ASSUME MemoCommits PROVE TypeOK'
    BY <1>14 DEF MemoCommits
  <1>15. ASSUME MemoFails PROVE TypeOK'
    BY <1>15 DEF MemoFails
  <1>16. ASSUME NEW k \in Keys, Admit(k) PROVE TypeOK'
    <2>1. CASE Made(k)
      BY <1>16, <2>1 DEF Admit
    <2>2. CASE ~Made(k)
      <3>1. PICK n \in NextNested :
              /\ rec' = [rec EXCEPT ![n] = [Absent EXCEPT
                   !.status = "live", !.key = k, !.abandon = ~inv[Caller].safe]]
              /\ index' = [index EXCEPT ![k] = [task |-> n, result |-> FALSE]]
              /\ slots' = slots \cup {n}
        BY <1>16, <2>2 DEF Admit
      <3> DEFINE b == ~inv[Caller].safe
      <3>2. n \in Nested /\ b \in BOOLEAN
        BY DEF NextNested
      <3>3. rec' \in [Calls -> CallRecord] /\ slots' \subseteq Nested
        <4>1. [Absent EXCEPT !.status = "live", !.key = k, !.abandon = b] \in CallRecord
          BY <3>2, NewRecordTyped
        <4> QED BY <3>1, <3>2, <4>1
      <3>4. index' \in [Keys -> [task : Calls, result : BOOLEAN]]
        BY <3>1, <3>2
      <3> QED BY <1>16, <3>3, <3>4 DEF Admit
    <2> QED BY <2>1, <2>2
  <1>17. ASSUME NEW k \in Keys, AdmitFails(k) PROVE TypeOK'
    BY <1>17 DEF AdmitFails
  <1>18. ASSUME NEW k \in Keys, Answered(k) PROVE TypeOK'
    BY <1>18 DEF Answered
  <1>19. ASSUME Crash PROVE TypeOK'
    BY <1>19 DEF Crash
  <1>20. ASSUME NEW t \in Calls, HostAbort(t) PROVE TypeOK'
    BY <1>20 DEF HostAbort, Mark
  <1>21. ASSUME NEW t \in Calls, Fault(t) PROVE TypeOK'
    BY <1>21, OverTyped DEF Fault, Ends, Lost, SlotsAfterFault, Gated
  <1>22. ASSUME NEW k \in Keys, ExecuteTool(k) PROVE TypeOK'
    BY <1>22 DEF ExecuteTool
  <1>23. CASE UNCHANGED vars
    BY <1>23 DEF vars
  <1> QED BY <1>1, <1>2, <1>3, <1>4, <1>5, <1>6, <1>7, <1>8, <1>9, <1>10, <1>11, <1>12, <1>13, <1>14, <1>15, <1>16, <1>17, <1>18, <1>19, <1>20, <1>21, <1>22, <1>23 DEF Next, Progress, Admissions, Moves

THEOREM TypeCorrect == Spec => []TypeOK
  <1>1. Init => TypeOK
    BY TypeInit
  <1>2. TypeOK /\ [Next]_vars => TypeOK'
    BY TypeNext
  <1> QED BY <1>1, <1>2, PTL DEF Spec

-----------------------------------------------------------------------------
(* A tool that is unsafe to replay runs once.                               *)

\* An execution starts from a durable intent: the policy it goes by is the stored one,
\* and one that is not safe is the first.
RunsByIntent ==
  \A t \in Calls :
    /\ rec[t].status = "absent" => rec[t].phase = "call"
    /\ rec[t].status # "live" => inv[t].mode = "none"
    /\ rec[t].phase = "call" => runs[t].n = 0 /\ ~runs[t].unsafe
    /\ At(t, "intended") =>
         /\ rec[t].phase = "execute" /\ (inv[t].safe <=> rec[t].replay = "safe")
         /\ ~inv[t].safe => runs[t].n = 0
    /\ runs[t].unsafe => runs[t].n = 1 /\ rec[t].replay = "unsafe"

LEMMA RunsInit == Init => RunsByIntent
  BY CallsAreDistinct DEF Init, RunsByIntent, At, Absent, NoInvocation

LEMMA RunsNext ==
  ASSUME TypeOK, RunsByIntent, [Next]_vars
  PROVE  RunsByIntent'
  <1> USE CallsAreDistinct DEF TypeOK, RunsByIntent, CallRecord, Invocation, At, NoInvocation, durable, attempt
  <1>1. ASSUME NEW t \in Calls, Start(t) PROVE RunsByIntent'
    BY <1>1 DEF Start, Marked, Ended
  <1>2. ASSUME NEW t \in Calls, Finalize(t) PROVE RunsByIntent'
    BY <1>2 DEF Over, Finalize, SlotsAfterFault
  <1>3. ASSUME NEW t \in Calls, Dropped(t) PROVE RunsByIntent'
    BY <1>3 DEF Dropped, Ends, Lost
  <1>4. ASSUME NEW t \in Calls, Execute(t) PROVE RunsByIntent'
    BY <1>4 DEF Execute, Goes, At
  <1>5. ASSUME NEW t \in Calls, List(t) PROVE RunsByIntent'
    BY <1>5 DEF List, At, Ended
  <1>6. ASSUME NEW t \in Calls, Settle(t) PROVE RunsByIntent'
    BY <1>6 DEF Over, Settle, Ends, Lost, SlotsAfter, At
  <1>7. ASSUME NEW t \in Calls, ToolReturns(t) PROVE RunsByIntent'
    BY <1>7 DEF ToolReturns, Goes, At, Ended
  <1>8. ASSUME NEW t \in Calls, ToolThrowsAborted(t) PROVE RunsByIntent'
    BY <1>8 DEF ToolThrowsAborted, Ends, Lost
  <1>9. ASSUME NEW t \in Calls, Refuse(t) PROVE RunsByIntent'
    BY <1>9 DEF Refuse, Goes, At, Ended
  <1>10. ASSUME NEW t \in Calls, NEW p \in Replays, Intent(t, p) PROVE RunsByIntent'
    <2> SUFFICES ASSUME NEW u \in Calls
            PROVE  /\ rec'[u].status = "absent" => rec'[u].phase = "call"
                   /\ rec'[u].status # "live" => inv'[u].mode = "none"
                   /\ rec'[u].phase = "call" => runs'[u].n = 0 /\ ~runs'[u].unsafe
                   /\ At(u, "intended")' =>
                        /\ rec'[u].phase = "execute" /\ (inv'[u].safe <=> rec'[u].replay = "safe")
                        /\ ~inv'[u].safe => runs'[u].n = 0
                   /\ runs'[u].unsafe => runs'[u].n = 1 /\ rec'[u].replay = "unsafe"
      BY DEF RunsByIntent
    <2>1. CASE u # t
      BY <1>10, <2>1 DEF Intent
    <2>2. CASE u = t
      <3> DEFINE b == p = "safe"
      <3>1. rec'[t].status = rec[t].status /\ rec'[t].phase = "execute" /\ rec'[t].replay = p
        BY <1>10 DEF Intent
      <3>2. inv'[t].safe = b /\ runs' = runs /\ runs[t].n = 0 /\ ~runs[t].unsafe
        BY <1>10 DEF Intent
      <3>3. rec'[t].status = "live"
        BY <1>10 DEF Intent, Gated
      <3>4. b <=> p = "safe"
        OBVIOUS
      <3> QED BY <2>2, <3>1, <3>2, <3>3, <3>4
    <2> QED BY <2>1, <2>2
  <1>11. ASSUME NEW t \in Calls, NEW p \in Replays, Again(t, p) PROVE RunsByIntent'
    <2>1. rec' = rec /\ runs' = runs /\ rec[t].status = "live"
      BY <1>11 DEF Again
    <2>2. \A u \in Calls : u # t => inv'[u] = inv[u]
      BY <1>11 DEF Again, Goes
    <2>3. At(t, "intended")' => rec[t].phase = "execute" /\ rec[t].replay = "safe" /\ inv'[t].safe
      BY <1>11 DEF Again, Goes, Ended, MayRunAgain
    <2> QED BY <2>1, <2>2, <2>3
  <1>12. ASSUME NEW n \in Nested, Cascade(n) PROVE RunsByIntent'
    BY <1>12 DEF Cascade, Mark
  <1>13. ASSUME NEW t \in Calls, NEW n \in Nested, AbortOwned(t, n) PROVE RunsByIntent'
    BY <1>13 DEF AbortOwned, Mark
  <1>14. ASSUME MemoCommits PROVE RunsByIntent'
    BY <1>14 DEF MemoCommits
  <1>15. ASSUME MemoFails PROVE RunsByIntent'
    BY <1>15 DEF MemoFails
  <1>16. ASSUME NEW k \in Keys, Admit(k) PROVE RunsByIntent'
    <2>1. CASE Made(k)
      BY <1>16, <2>1 DEF Admit
    <2>2. CASE ~Made(k)
      <3>1. PICK n \in NextNested :
              rec' = [rec EXCEPT ![n] = [Absent EXCEPT
                !.status = "live", !.key = k, !.abandon = ~inv[Caller].safe]]
        BY <1>16, <2>2 DEF Admit
      <3>2. n \in Calls /\ rec[n].status = "absent"
        BY DEF NextNested
      <3>3. rec'[n].phase = "call" /\ \A u \in Calls : u # n => rec'[u] = rec[u]
        BY <3>1, <3>2 DEF Absent
      <3> QED BY <1>16, <3>2, <3>3 DEF Admit
    <2> QED BY <2>1, <2>2
  <1>17. ASSUME NEW k \in Keys, AdmitFails(k) PROVE RunsByIntent'
    BY <1>17 DEF AdmitFails
  <1>18. ASSUME NEW k \in Keys, Answered(k) PROVE RunsByIntent'
    BY <1>18 DEF Answered
  <1>19. ASSUME Crash PROVE RunsByIntent'
    BY <1>19 DEF Crash
  <1>20. ASSUME NEW t \in Calls, HostAbort(t) PROVE RunsByIntent'
    BY <1>20 DEF HostAbort, Mark
  <1>21. ASSUME NEW t \in Calls, Fault(t) PROVE RunsByIntent'
    BY <1>21 DEF Over, Fault, Ends, Lost, SlotsAfterFault, Gated
  <1>22. ASSUME NEW k \in Keys, ExecuteTool(k) PROVE RunsByIntent'
    BY <1>22 DEF ExecuteTool
  <1>23. CASE UNCHANGED vars
    BY <1>23 DEF vars
  <1> QED BY <1>1, <1>2, <1>3, <1>4, <1>5, <1>6, <1>7, <1>8, <1>9, <1>10, <1>11, <1>12, <1>13, <1>14, <1>15, <1>16, <1>17, <1>18, <1>19, <1>20, <1>21, <1>22, <1>23 DEF Next, Progress, Admissions, Moves

\* A tool that was ever run as one that is not safe to replay ran only once, over any
\* number of crashes, reruns of its caller and changes of its policy.
THEOREM UnsafeToolsRunOnce == Spec => []UnsafeRunsOnce
  <1>1. Init => TypeOK /\ RunsByIntent
    BY TypeInit, RunsInit
  <1>2. (TypeOK /\ RunsByIntent) /\ [Next]_vars => (TypeOK /\ RunsByIntent)'
    BY TypeNext, RunsNext
  <1>3. RunsByIntent => UnsafeRunsOnce
    BY DEF RunsByIntent, UnsafeRunsOnce
  <1> QED BY <1>1, <1>2, <1>3, PTL DEF Spec

-----------------------------------------------------------------------------
(* The calls below a call leave with it.                                    *)

LEMMA CallerOrNested == \A t \in Calls : t # Caller => t \in Nested
  BY DEF Calls

\* The slots below the caller: they need the durable note that it makes nested calls,
\* which its settlement read after the last admission ended.
SlotsFollowNote ==
  /\ rec[Caller].status = "held" => rec[Caller].faulted \/ slots = {}
  /\ rec[Caller].status = "over" => slots = {}
  /\ slots # {} => rec[Caller].memo
  /\ memo = "done" => rec[Caller].memo
  /\ memo = "asked" => \E k \in Keys : adm[k] = "admission"
  /\ inv[Caller].mode = "none" => memo = "none" /\ \A k \in Keys : adm[k] = "none"
  /\ \A k \in Keys : adm[k] = "admission" => inv[Caller].at \in {"run", "ended"}
  /\ At(Caller, "aborting") => (inv[Caller].made <=> rec[Caller].memo)

LEMMA NoteInit == Init => SlotsFollowNote
  BY CallsAreDistinct DEF Init, SlotsFollowNote, At, Absent, NoInvocation

LEMMA NoteNext ==
  ASSUME TypeOK, SlotsFollowNote, [Next]_vars
  PROVE  SlotsFollowNote'
  <1> USE CallsAreDistinct DEF TypeOK, SlotsFollowNote, Invocation, At, NoInvocation, durable, attempt
  <1>1. ASSUME NEW t \in Calls, Start(t) PROVE SlotsFollowNote'
    <2>1. CASE t = Caller
      <3>1. inv[Caller].mode = "none"
        BY <1>1, <2>1 DEF Start
      <3>2. rec' = rec /\ slots' = slots /\ memo' = memo /\ adm' = adm
        BY <1>1 DEF Start
      <3>3. memo = "none" /\ \A k \in Keys : adm[k] = "none"
        BY <3>1
      <3>4. inv'[Caller].mode # "none" /\ inv'[Caller].at # "aborting"
        BY <1>1, <2>1 DEF Start, Ended
      <3> QED BY <3>2, <3>3, <3>4
    <2>2. CASE t # Caller
      BY <1>1, <2>2 DEF Start
    <2> QED BY <2>1, <2>2
  <1>2. ASSUME NEW t \in Calls, Finalize(t) PROVE SlotsFollowNote'
    BY <1>2 DEF Over, Finalize, SlotsAfterFault
  <1>3. ASSUME NEW t \in Calls, Dropped(t) PROVE SlotsFollowNote'
    BY <1>3 DEF Dropped, Ends, Lost
  <1>4. ASSUME NEW t \in Calls, Execute(t) PROVE SlotsFollowNote'
    BY <1>4 DEF Execute, Goes, At
  <1>5. ASSUME NEW t \in Calls, List(t) PROVE SlotsFollowNote'
    BY <1>5 DEF List, At, Ended, AdmissionsSettled
  <1>6. ASSUME NEW t \in Calls, Settle(t) PROVE SlotsFollowNote'
    <2>1. CASE t = Caller
      <3>1. slots = {} \/ inv[Caller].made
        BY <1>6, <2>1 DEF Settle
      <3>2. slots' = {}
        BY <1>6, <2>1, <3>1 DEF Settle, SlotsAfter
      <3>3. inv'[Caller].mode = "none" /\ memo' = "none" /\ \A k \in Keys : adm'[k] = "none"
        BY <1>6, <2>1 DEF Settle, Ends, Lost
      <3> QED BY <3>2, <3>3
    <2>2. CASE t # Caller
      <3>1. inv'[Caller] = inv[Caller] /\ memo' = memo /\ adm' = adm
        BY <1>6, <2>2 DEF Settle, Ends, Lost
      <3>2. rec'[Caller] = rec[Caller] /\ slots' = slots
        BY <1>6, <2>2 DEF Settle, SlotsAfter
      <3> QED BY <3>1, <3>2
    <2> QED BY <2>1, <2>2
  <1>7. ASSUME NEW t \in Calls, ToolReturns(t) PROVE SlotsFollowNote'
    BY <1>7 DEF ToolReturns, Goes, At, Ended
  <1>8. ASSUME NEW t \in Calls, ToolThrowsAborted(t) PROVE SlotsFollowNote'
    BY <1>8 DEF ToolThrowsAborted, Ends, Lost
  <1>9. ASSUME NEW t \in Calls, Refuse(t) PROVE SlotsFollowNote'
    BY <1>9 DEF Refuse, Goes, At, Ended
  <1>10. ASSUME NEW t \in Calls, NEW p \in Replays, Intent(t, p) PROVE SlotsFollowNote'
    BY <1>10 DEF Intent, At
  <1>11. ASSUME NEW t \in Calls, NEW p \in Replays, Again(t, p) PROVE SlotsFollowNote'
    BY <1>11 DEF Again, At, Goes, Ended
  <1>12. ASSUME NEW n \in Nested, Cascade(n) PROVE SlotsFollowNote'
    BY <1>12 DEF Cascade, Mark
  <1>13. ASSUME NEW t \in Calls, NEW n \in Nested, AbortOwned(t, n) PROVE SlotsFollowNote'
    BY <1>13 DEF AbortOwned, Mark
  <1>14. ASSUME MemoCommits PROVE SlotsFollowNote'
    BY <1>14 DEF MemoCommits
  <1>15. ASSUME MemoFails PROVE SlotsFollowNote'
    BY <1>15 DEF MemoFails
  <1>16. ASSUME NEW k \in Keys, Admit(k) PROVE SlotsFollowNote'
    <2>1. adm' = [adm EXCEPT ![k] = "waiting"] /\ inv' = inv /\ memo' = memo /\ memo = "done"
      BY <1>16 DEF Admit
    <2>2. rec'[Caller] = rec[Caller] /\ rec[Caller].status = "live"
      <3>1. CASE Made(k)
        BY <1>16, <3>1 DEF Admit, Gated
      <3>2. CASE ~Made(k)
        <4>1. PICK n \in NextNested :
                rec' = [rec EXCEPT ![n] = [Absent EXCEPT
                  !.status = "live", !.key = k, !.abandon = ~inv[Caller].safe]]
          BY <1>16, <3>2 DEF Admit
        <4>2. n # Caller
          BY DEF NextNested
        <4> QED BY <1>16, <4>1, <4>2 DEF Admit, Gated
      <3> QED BY <3>1, <3>2
    <2> QED BY <2>1, <2>2
  <1>17. ASSUME NEW k \in Keys, AdmitFails(k) PROVE SlotsFollowNote'
    BY <1>17 DEF AdmitFails
  <1>18. ASSUME NEW k \in Keys, Answered(k) PROVE SlotsFollowNote'
    BY <1>18 DEF Answered
  <1>19. ASSUME Crash PROVE SlotsFollowNote'
    BY <1>19 DEF Crash
  <1>20. ASSUME NEW t \in Calls, HostAbort(t) PROVE SlotsFollowNote'
    BY <1>20 DEF HostAbort, Mark
  <1>21. ASSUME NEW t \in Calls, Fault(t) PROVE SlotsFollowNote'
    BY <1>21 DEF Over, Fault, Ends, Lost, SlotsAfterFault, Gated
  <1>22. ASSUME NEW k \in Keys, ExecuteTool(k) PROVE SlotsFollowNote'
    BY <1>22 DEF ExecuteTool
  <1>23. CASE UNCHANGED vars
    BY <1>23 DEF vars
  <1> QED BY <1>1, <1>2, <1>3, <1>4, <1>5, <1>6, <1>7, <1>8, <1>9, <1>10, <1>11, <1>12, <1>13, <1>14, <1>15, <1>16, <1>17, <1>18, <1>19, <1>20, <1>21, <1>22, <1>23 DEF Next, Progress, Admissions, Moves

\* The nested calls: one for each key of the caller's document, never held, ended with
\* its result or by the scheduler; and the caller ends after them.
NestedByKey ==
  /\ \A n \in Nested : rec[n].status # "absent" =>
       /\ rec[n].key \in Keys /\ index[rec[n].key].task = n /\ rec[n].status # "held"
       /\ rec[n].status = "over" => index[rec[n].key].result \/ rec[n].faulted
  /\ rec[Caller].status = "over" => \A n \in Nested : ~Live(n)

LEMMA ByKeyInit == Init => NestedByKey
  BY CallsAreDistinct DEF Init, NestedByKey, Live, Absent

LEMMA ByKeyNext ==
  ASSUME TypeOK, NestedByKey, [Next]_vars
  PROVE  NestedByKey'
  <1> USE CallsAreDistinct DEF Over, TypeOK, NestedByKey, Live, durable, attempt
  <1>1. ASSUME NEW t \in Calls, Start(t) PROVE NestedByKey'
    BY <1>1 DEF Start, Marked
  <1>2. ASSUME NEW t \in Calls, Finalize(t) PROVE NestedByKey'
    <2>1. t = Caller
      BY <1>2, CallerOrNested DEF Finalize
    <2>2. index' = index /\ \A n \in Nested : rec'[n] = rec[n]
      BY <1>2, <2>1 DEF Finalize
    <2>3. Owned(Caller) = {}
      BY <1>2, <2>1 DEF Finalize
    <2> QED BY <2>2, <2>3 DEF Owned
  <1>3. ASSUME NEW t \in Calls, Dropped(t) PROVE NestedByKey'
    BY <1>3 DEF Dropped, Ends, Lost
  <1>4. ASSUME NEW t \in Calls, Execute(t) PROVE NestedByKey'
    BY <1>4 DEF Execute, Goes, At
  <1>5. ASSUME NEW t \in Calls, List(t) PROVE NestedByKey'
    BY <1>5 DEF List, At
  <1>6. ASSUME NEW t \in Calls, Settle(t) PROVE NestedByKey'
    <2>0. rec[t].status = "live"
      BY <1>6 DEF Settle, Gated
    <2>1. CASE t = Caller
      <3>1. index' = index /\ \A n \in Nested : rec'[n] = rec[n]
        BY <1>6, <2>1 DEF Settle
      <3>2. rec'[Caller].status = "over" => Owned(Caller) = {}
        BY <1>6, <2>1 DEF Settle
      <3> QED BY <3>1, <3>2 DEF Owned
    <2>2. CASE t # Caller
      <3>0. t \in Nested /\ Owned(t) = {}
        BY <2>2, CallerOrNested DEF Owned
      <3>1. rec'[t].status = "over" /\ rec'[t].key = rec[t].key
        BY <1>6, <3>0 DEF Settle
      <3>2. \A u \in Calls : u # t => rec'[u] = rec[u]
        BY <1>6 DEF Settle
      <3>3. index'[rec[t].key].result
        BY <1>6, <2>0, <2>2, <3>0 DEF Settle
      <3>4. \A k \in Keys : index'[k].task = index[k].task
                            /\ (index[k].result => index'[k].result)
        BY <1>6, <2>2 DEF Settle
      <3> QED BY <2>0, <3>0, <3>1, <3>2, <3>3, <3>4
    <2> QED BY <2>1, <2>2
  <1>7. ASSUME NEW t \in Calls, ToolReturns(t) PROVE NestedByKey'
    BY <1>7 DEF ToolReturns, Goes, At
  <1>8. ASSUME NEW t \in Calls, ToolThrowsAborted(t) PROVE NestedByKey'
    BY <1>8 DEF ToolThrowsAborted, Ends, Lost
  <1>9. ASSUME NEW t \in Calls, Refuse(t) PROVE NestedByKey'
    BY <1>9 DEF Refuse, Goes, At
  <1>10. ASSUME NEW t \in Calls, NEW p \in Replays, Intent(t, p) PROVE NestedByKey'
    BY <1>10 DEF Intent, At
  <1>11. ASSUME NEW t \in Calls, NEW p \in Replays, Again(t, p) PROVE NestedByKey'
    BY <1>11 DEF Again, At, Goes
  <1>12. ASSUME NEW n \in Nested, Cascade(n) PROVE NestedByKey'
    BY <1>12 DEF Cascade, Mark
  <1>13. ASSUME NEW t \in Calls, NEW n \in Nested, AbortOwned(t, n) PROVE NestedByKey'
    BY <1>13 DEF AbortOwned, Mark
  <1>14. ASSUME MemoCommits PROVE NestedByKey'
    BY <1>14 DEF MemoCommits
  <1>15. ASSUME MemoFails PROVE NestedByKey'
    BY <1>15 DEF MemoFails
  <1>16. ASSUME NEW k \in Keys, Admit(k) PROVE NestedByKey'
    <2>1. CASE Made(k)
      BY <1>16, <2>1 DEF Admit
    <2>2. CASE ~Made(k)
      <3>1. PICK n \in NextNested :
              /\ rec' = [rec EXCEPT ![n] = [Absent EXCEPT
                   !.status = "live", !.key = k, !.abandon = ~inv[Caller].safe]]
              /\ index' = [index EXCEPT ![k] = [task |-> n, result |-> FALSE]]
        BY <1>16, <2>2 DEF Admit
      <3>2. n \in Nested /\ rec[n].status = "absent"
        BY DEF NextNested
      <3>3. rec'[n].status = "live" /\ rec'[n].key = k
        BY <3>1, <3>2 DEF Absent
      <3>4. \A u \in Calls : u # n => rec'[u] = rec[u]
        BY <3>1
      <3>5. index'[k].task = n /\ \A j \in Keys : j # k => index'[j] = index[j]
        BY <3>1
      <3>6. rec'[Caller].status = "live"
        BY <1>16, <3>2, <3>4 DEF Admit, Gated
      <3>7. index[k].task = Caller
        BY <2>2 DEF Made
      <3>8. ASSUME NEW u \in Nested, rec'[u].status # "absent"
            PROVE  /\ rec'[u].key \in Keys /\ index'[rec'[u].key].task = u
                   /\ rec'[u].status # "held"
                   /\ rec'[u].status = "over" => index'[rec'[u].key].result \/ rec'[u].faulted
        <4>1. CASE u = n
          BY <3>3, <3>5, <4>1
        <4>2. CASE u # n
          <5>1. rec'[u] = rec[u]
            BY <3>4, <4>2
          <5>2. rec[u].key \in Keys /\ index[rec[u].key].task = u
            BY <3>8, <5>1
          <5>3. rec[u].key # k
            BY <3>7, <5>2
          <5> QED BY <3>5, <3>8, <5>1, <5>2, <5>3
        <4> QED BY <4>1, <4>2
      <3> QED BY <3>6, <3>8
    <2> QED BY <2>1, <2>2
  <1>17. ASSUME NEW k \in Keys, AdmitFails(k) PROVE NestedByKey'
    BY <1>17 DEF AdmitFails
  <1>18. ASSUME NEW k \in Keys, Answered(k) PROVE NestedByKey'
    BY <1>18 DEF Answered
  <1>19. ASSUME Crash PROVE NestedByKey'
    BY <1>19 DEF Crash
  <1>20. ASSUME NEW t \in Calls, HostAbort(t) PROVE NestedByKey'
    BY <1>20 DEF HostAbort, Mark
  <1>21. ASSUME NEW t \in Calls, Fault(t) PROVE NestedByKey'
    <2>0. rec[t].status = "live" /\ index' = index
      BY <1>21 DEF Fault, Gated
    <2>1. rec'[t].status = (IF Owned(t) = {} THEN "over" ELSE "held")
          /\ rec'[t].faulted /\ rec'[t].key = rec[t].key
      BY <1>21 DEF Fault
    <2>2. \A u \in Calls : u # t => rec'[u] = rec[u]
      BY <1>21 DEF Fault
    <2>3. CASE t = Caller
      <3>1. rec'[Caller].status = "over" => Owned(Caller) = {}
        BY <2>1, <2>3
      <3>2. \A n \in Nested : rec'[n] = rec[n]
        BY <2>2, <2>3
      <3> QED BY <2>0, <3>1, <3>2 DEF Owned
    <2>4. CASE t # Caller
      <3>1. t \in Nested /\ Owned(t) = {}
        BY <2>4, CallerOrNested DEF Owned
      <3>2. rec'[t].status = "over" /\ rec'[Caller] = rec[Caller]
        BY <2>1, <2>2, <2>4, <3>1
      <3>3. rec[Caller].status = "over" => FALSE
        BY <2>0, <3>1
      <3>4. ASSUME NEW u \in Nested, rec'[u].status # "absent"
            PROVE  /\ rec'[u].key \in Keys /\ index'[rec'[u].key].task = u
                   /\ rec'[u].status # "held"
                   /\ rec'[u].status = "over" => index'[rec'[u].key].result \/ rec'[u].faulted
        <4>1. CASE u = t
          <5>1. rec[t].key \in Keys /\ index[rec[t].key].task = t
            BY <2>0, <3>1
          <5> QED BY <2>0, <2>1, <3>2, <4>1, <5>1
        <4>2. CASE u # t
          <5>1. rec'[u] = rec[u]
            BY <2>2, <4>2
          <5> QED BY <2>0, <3>4, <5>1
        <4> QED BY <4>1, <4>2
      <3> QED BY <3>2, <3>3, <3>4
    <2> QED BY <2>3, <2>4
  <1>22. ASSUME NEW k \in Keys, ExecuteTool(k) PROVE NestedByKey'
    BY <1>22 DEF ExecuteTool
  <1>23. CASE UNCHANGED vars
    BY <1>23 DEF vars
  <1> QED BY <1>1, <1>2, <1>3, <1>4, <1>5, <1>6, <1>7, <1>8, <1>9, <1>10, <1>11, <1>12, <1>13, <1>14, <1>15, <1>16, <1>17, <1>18, <1>19, <1>20, <1>21, <1>22, <1>23 DEF Next, Progress, Admissions, Moves

\* When a call's outcome is decided no slot below it stays; when it ends, the calls it
\* made have ended, one for each key, with results unless the scheduler ended them.
THEOREM NestedCallsLeave == Spec => []NestedLeaveWithCaller
  <1>1. Init => TypeOK /\ SlotsFollowNote /\ NestedByKey
    BY TypeInit, NoteInit, ByKeyInit
  <1>2. (TypeOK /\ SlotsFollowNote /\ NestedByKey) /\ [Next]_vars
        => (TypeOK /\ SlotsFollowNote /\ NestedByKey)'
    BY TypeNext, NoteNext, ByKeyNext
  <1>3. TypeOK /\ SlotsFollowNote /\ NestedByKey => NestedLeaveWithCaller
    BY CallsAreDistinct DEF TypeOK, CallRecord, SlotsFollowNote, NestedByKey,
       NestedLeaveWithCaller, Live
  <1> QED BY <1>1, <1>2, <1>3, PTL DEF Spec

=============================================================================
