----------------------------- MODULE MCScheduler -----------------------------
(* Instances of TaskScheduler for TLC. *)
EXTENDS TaskScheduler

CONSTANT nodef

def1 == [name |-> "d1", version |-> 1, migrates |-> FALSE]
same == [name |-> "same", version |-> 1, migrates |-> FALSE]
newer == [name |-> "newer", version |-> 2, migrates |-> TRUE]
stuck == [name |-> "stuck", version |-> 2, migrates |-> FALSE]

OneDef == {def1}
Reg == {nodef, def1}
AllDefs == {def1, same, newer, stuck}
AllReg == AllDefs \cup {nodef}

\* A conversation nobody owns adds nothing to the root's part in a wait: where only
\* waits and ownership are asked about, every other conversation has an owner.
OthersAreOwned == \A c \in Convs \ {1} : convOwner[c] # NoTask

\* allSettled and failFast waits are both there while there is one conversation.
AllSettledInOne ==
  (\E c \in Convs \ {1} : convOwner[c] # Unborn) =>
    \A t \in Tasks : task[t].status = "waiting" => task[t].policy = "failFast"
=============================================================================
