------------------------------ MODULE Journal ------------------------------
(***************************************************************************)
(* What a Session promises to those who commit through it (session.ts).    *)
(*                                                                         *)
(* Commits have their turn one at a time.  One takes effect in Storage at  *)
(* most once, while it has its turn.  Who is answered "done" knows that it *)
(* took effect and that the components that follow the commits heard it    *)
(* before anybody else had a turn; who is refused knows that it never      *)
(* will.  Only a failed Session leaves somebody without knowing, and then  *)
(* nobody gets a turn again.  A Session closes with nobody left waiting.   *)
(*                                                                         *)
(* The other modules take such a commit for one action.                    *)
(***************************************************************************)
CONSTANTS
  Requests,
  None  \* none of them

VARIABLES
  stage,    \* [Requests -> Stages]
  turn,     \* who has its turn, or None
  durable,  \* who took effect
  heard,    \* whose effect is known in memory
  alive     \* "open", "failed" or "closed"

journal == <<stage, turn, durable, heard, alive>>

Stages == {"new", "asked", "done", "empty", "refused", "lost"}

Init ==
  /\ stage = [r \in Requests |-> "new"] /\ turn = None
  /\ durable = {} /\ heard = {} /\ alive = "open"

Ask(r) ==
  /\ alive = "open" /\ stage[r] = "new"
  /\ stage' = [stage EXCEPT ![r] = "asked"]
  /\ UNCHANGED <<turn, durable, heard, alive>>

\* The next one starts from what everybody knows.
Begin(r) ==
  /\ alive = "open" /\ turn = None /\ stage[r] = "asked" /\ durable = heard
  /\ turn' = r
  /\ UNCHANGED <<stage, durable, heard, alive>>

TakeEffect(r) ==
  /\ turn = r /\ r \notin durable
  /\ durable' = durable \cup {r}
  /\ UNCHANGED <<stage, turn, heard, alive>>

\* A component that cannot follow the commit fails the Session; the commit stands.
Done(r) ==
  /\ alive = "open" /\ turn = r /\ r \in durable
  /\ stage' = [stage EXCEPT ![r] = "done"] /\ turn' = None
  /\ \/ heard' = heard \cup {r} /\ alive' = "open"
     \/ heard' = heard /\ alive' = "failed"
  /\ UNCHANGED durable

\* A commit that wrote nothing.
Empty(r) ==
  /\ alive = "open" /\ turn = r /\ r \notin durable
  /\ stage' = [stage EXCEPT ![r] = "empty"] /\ turn' = None
  /\ UNCHANGED <<durable, heard, alive>>

Refuse(r) ==
  /\ alive = "open" /\ stage[r] = "asked" /\ r \notin durable
  /\ stage' = [stage EXCEPT ![r] = "refused"]
  /\ turn' = IF turn = r THEN None ELSE turn
  /\ UNCHANGED <<durable, heard, alive>>

Lose(r) ==
  /\ alive \in {"open", "failed"} /\ stage[r] = "asked"
  /\ stage' = [stage EXCEPT ![r] = "lost"]
  /\ turn' = IF turn = r THEN None ELSE turn
  /\ alive' = "failed"
  /\ UNCHANGED <<durable, heard>>

Fail ==
  /\ alive = "open" /\ alive' = "failed"
  /\ UNCHANGED <<stage, turn, durable, heard>>

Close ==
  /\ alive = "open" /\ \A r \in Requests : stage[r] # "asked"
  /\ alive' = "closed"
  /\ UNCHANGED <<stage, turn, durable, heard>>

Next ==
  \/ Fail \/ Close
  \/ \E r \in Requests :
       \/ Ask(r) \/ Begin(r) \/ TakeEffect(r) \/ Done(r)
       \/ Empty(r) \/ Refuse(r) \/ Lose(r)

Spec == Init /\ [][Next]_journal
=============================================================================
