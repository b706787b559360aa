------------------------------- MODULE MCRoom -------------------------------
(* Instances of Room for TLC: the commands that are tried, and symmetry.   *)
EXTENDS Room, TLC

CONSTANTS m, a, b,      \* the creator and two others
          l1, l2        \* event loops

Command(type, target) == [type |-> type, target |-> target]

\* Every type of command, with the creator's attempt to kick himself; and those
\* that change the room, of two people and of one.
EveryCmd == {Command("CLOSE_ROOM", None), Command("KICK_OFF", a), Command("KICK_OFF", m),
             Command("KICK_OFF", None), Command("LOGIN_OUT", None),
             Command("START_CHATTING", None), Command("OTHER", None)}
KickOrClose == {Command("KICK_OFF", a), Command("CLOSE_ROOM", None)}
SelfOrClose == {Command("KICK_OFF", m), Command("CLOSE_ROOM", None)}
NoCmds == {}

LoopSymmetry == Permutations(Loops)
=============================================================================
