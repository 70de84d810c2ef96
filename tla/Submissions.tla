---------------------------- MODULE Submissions ----------------------------
(***************************************************************************)
(* What a conversation promises those who submit to it, without entries,   *)
(* tasks or documents (packages/gibraltar/docs/spec.md, section 6).        *)
(*                                                                         *)
(* A submission waits in the queue, is placed, and settles once.  The      *)
(* placed inputs are those of the current run: they settle together, with  *)
(* one verdict.  A boundary settles every queued write and places, mode by *)
(* mode, the oldest inputs.  Nobody queues in an idle conversation.        *)
(***************************************************************************)
EXTENDS Integers, Sequences, Subsequences

CONSTANT Subs        \* submission ids

VARIABLES
  stage,             \* stage of every submission
  queue              \* queued submissions with their modes, oldest first

vars == <<stage, queue>>

Stages == {"none", "queued", "placed", "done", "unanswered"}
Modes == {"steer", "followUp", "write"}
Verdicts == {"done", "unanswered"}

Placed == {s \in Subs : stage[s] = "placed"}
Idle == Placed = {}
Next1(s) == stage[s] = "none" /\ \A r \in Subs : r < s => stage[r] # "none"

Ids(q) == {q[i].id : i \in DOMAIN q}
Writes(q) == {q[i].id : i \in {j \in DOMAIN q : q[j].mode = "write"}}
Inputs(q) == Ids(q) \ Writes(q)

\* U takes the oldest inputs of each mode.
Oldest(q, U) ==
  \A i, j \in DOMAIN q :
    i < j /\ q[i].mode = q[j].mode /\ q[j].id \in U => q[i].id \in U

\* A boundary of queue q: the placed inputs settle with the verdict, or stay
\* with "none", every write settles, and U is placed.
Boundary(q, verdict) ==
  \E U \in SUBSET Inputs(q), D \in SUBSET Writes(q) :
    /\ Oldest(q, U)
    /\ stage' = [s \in Subs |->
         CASE s \in U -> "placed"
           [] s \in D -> "done"
           [] s \in Writes(q) \ D -> "unanswered"
           [] s \in Inputs(q) \ U -> "queued"
           [] s \in Placed /\ verdict # "none" -> verdict
           [] OTHER -> stage[s]]
    /\ queue' = Without(q, U \cup Writes(q))

Init == stage = [s \in Subs |-> "none"] /\ queue = <<>>

Item(s, mode) == [id |-> s, mode |-> mode]

AdmitSettled(s) ==
  /\ Next1(s) /\ \E verdict \in Verdicts : stage' = [stage EXCEPT ![s] = verdict]
  /\ UNCHANGED queue
AdmitQueued(s) ==
  /\ Next1(s) /\ ~Idle
  /\ stage' = [stage EXCEPT ![s] = "queued"]
  /\ \E mode \in Modes : queue' = Append(queue, Item(s, mode))
AdmitPlaced(s) ==
  /\ Next1(s) /\ Idle /\ queue = <<>>
  /\ stage' = [stage EXCEPT ![s] = "placed"]
  /\ UNCHANGED queue
AdmitBehind(s) ==
  /\ Next1(s) /\ Idle /\ queue # <<>>
  /\ \E mode \in Modes : Boundary(Append(queue, Item(s, mode)), "none")

\* One queued submission, or all queued inputs.
Withdraw ==
  /\ \E S \in {{s} : s \in Ids(queue)} \cup {Inputs(queue)} :
       /\ stage' = [s \in Subs |-> IF s \in S THEN "unanswered" ELSE stage[s]]
       /\ queue' = Without(queue, S)

\* The run fails or is aborted; it succeeds, or a reset cuts it; it goes on.
RunFails ==
  /\ ~Idle
  /\ stage' = [s \in Subs |-> IF s \in Placed THEN "unanswered" ELSE stage[s]]
  /\ UNCHANGED queue
RunEnds == ~Idle /\ \E verdict \in Verdicts : Boundary(queue, verdict)
RunGoesOn == ~Idle /\ Boundary(queue, "none")

Next ==
  \/ \E s \in Subs : AdmitSettled(s) \/ AdmitQueued(s) \/ AdmitPlaced(s) \/ AdmitBehind(s)
  \/ Withdraw \/ RunFails \/ RunEnds \/ RunGoesOn

Spec == Init /\ [][Next]_vars
=============================================================================
