------------------------------ MODULE Courier ------------------------------
(***************************************************************************)
(* What a data connection of PeerJS promises to the page that sends: every *)
(* message that the connection has taken reaches the other page at most    *)
(* once. On an ordered channel the small messages also arrive in the order *)
(* in which they were taken; a big one may be overtaken.                   *)
(***************************************************************************)
EXTENDS Integers, Sequences

CONSTANT Small   \* the messages that travel in one piece

VARIABLES
    taken,      \* the messages taken, in order
    given,      \* the places in taken of those given to the other page, in order
    inOrder     \* an ordered channel

vars == <<taken, given, inOrder>>

Given == {given[i] : i \in DOMAIN given}

Init == taken = <<>> /\ given = <<>> /\ inOrder \in BOOLEAN

Take ==
    /\ Len(taken') = Len(taken) + 1 /\ SubSeq(taken', 1, Len(taken)) = taken
    /\ UNCHANGED <<given, inOrder>>

Give(i) ==
    /\ i \notin Given
    /\ inOrder /\ taken[i] \in Small
           => \A j \in 1..(i - 1) : taken[j] \in Small => j \in Given
    /\ given' = Append(given, i)
    /\ UNCHANGED <<taken, inOrder>>

Next == Take \/ \E i \in DOMAIN taken : Give(i)

Spec == Init /\ [][Next]_vars
=============================================================================
