------------------------------ MODULE Mailbox ------------------------------
(***************************************************************************)
(* What the command queue of a room promises to the people in it: a        *)
(* bounded mailbox served by one server.  Items that are accepted are      *)
(* taken one at a time, in the order in which they were accepted, each     *)
(* exactly once, and the next one only when the previous one is finished.  *)
(* At most Capacity accepted items wait.  An item that is not accepted     *)
(* leaves no trace.                                                        *)
(*                                                                         *)
(* The code behind it: AbstractStateGroup.cmdQueue, addCharacterCmd and    *)
(* the poll at the head of update.  Room.tla implements it.                *)
(***************************************************************************)
EXTENDS Naturals, Sequences

CONSTANTS Items,      \* what can be put into the mailbox
          Capacity    \* how many accepted items may wait

VARIABLES accepted,   \* every item ever accepted, oldest first
          served,     \* how many of them are finished
          inService   \* <<>> or <<item>>: the item being served

mailboxVars == <<accepted, served, inService>>

Waiting == Len(accepted) - served - Len(inService)

Init == /\ accepted = <<>>
        /\ served = 0
        /\ inService = <<>>

Accept(item) == /\ Waiting < Capacity
                /\ accepted' = Append(accepted, item)
                /\ UNCHANGED <<served, inService>>

Take == /\ inService = <<>>
        /\ served < Len(accepted)
        /\ inService' = <<accepted[served + 1]>>
        /\ UNCHANGED <<accepted, served>>

Finish == /\ inService # <<>>
          /\ inService' = <<>>
          /\ served' = served + 1
          /\ UNCHANGED accepted

Next == \/ \E item \in Items : Accept(item)
        \/ Take
        \/ Finish

Spec == Init /\ [][Next]_mailboxVars
=============================================================================
