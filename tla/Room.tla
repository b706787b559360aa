-------------------------------- MODULE Room --------------------------------
(***************************************************************************)
(* One chat room: RoomStateGroup over RoomData, entered and addressed by   *)
(* the tasks of the dispatcher's event loops, updated by the thread of the *)
(* worker that hosts it, and removed by two periodic sweeps.  Nothing      *)
(* protects the room: the members are a plain HashMap, the capacity check  *)
(* and the insertion are two steps, and the only synchronised part is the  *)
(* command queue.                                                          *)
(*                                                                         *)
(* The model starts where AbstractStateGroupFactory has just published the *)
(* new, empty room and the task of createRoom is about to enter its        *)
(* creator; from then on anybody who knows the id may enter.  A sweep may  *)
(* have copied the factory's map before that.                              *)
(*                                                                         *)
(* A task or the worker stops between two steps wherever the code touches  *)
(* the shared room.  A HashMap operation is one step, but a task that is   *)
(* about to insert a new key, and a worker that is about to remove one,    *)
(* count as being inside the operation: another operation that runs in     *)
(* that window is "overlapped" and gets every outcome the library can      *)
(* produce (see Put, Remove and the three traversals).                     *)
(***************************************************************************)
EXTENDS Integers, Sequences, FiniteSets

CONSTANTS
    Characters,     \* everybody who ever has a Chatter
    Master,         \* the one who created the room (RoomData.master)
    Loops,          \* the event loops of WebChatDispatcher, one task at a time each
    Capacity,       \* characterCapacity of the room
    QueueCapacity,  \* capacity of cmdQueue, 1000 in the code
    Cmds,           \* the commands of handleOtherCmd that are tried
    Flaky,          \* characters whose session may close and come back
    Roamers,        \* characters who may enter another room as well
    Hosting,        \* whether adding the room to a worker hosts it
    Sweeps,         \* the maps whose periodic sweep comes round
    MaxCmds,        \* bound of the model: commands routed to the room
    None            \* no character, no command

ASSUME CharactersAssumption == /\ IsFiniteSet(Characters)
                               /\ Master \in Characters
                               /\ None \notin Characters
                               /\ Flaky \subseteq Characters
                               /\ Roamers \subseteq Characters
ASSUME LoopsAssumption == IsFiniteSet(Loops)
ASSUME CapacityAssumption == Capacity \in Nat \ {0} /\ QueueCapacity \in Nat
ASSUME HostingAssumption == /\ Hosting \in BOOLEAN /\ MaxCmds \in Nat
                            /\ Sweeps \subseteq {"factory", "worker"}

CmdTypes == {"CLOSE_ROOM", "KICK_OFF", "LOGIN_OUT", "START_CHATTING", "OTHER"}

\* A command as the room sees it.  target is the content of a KICK_OFF, None
\* when the content does not parse.
Commands == [type : CmdTypes, target : Characters \cup {None}]

ASSUME CmdsAssumption == Cmds \subseteq Commands /\ None \notin Cmds

Pairs == [chr : Characters, cmd : Cmds]       \* CharacterCmdPair

Stages == <<"waiting", "chatting", "finish", "ERROR">>
StageCodes == {"waiting", "chatting", "finish", "ERROR"}

VARIABLES
    members,     \* keys of RoomData.characterMap
    size,        \* what characterMap.size() answers: a field of its own
    online,      \* characters whose session is alive
    routed,      \* characters whose currentRoomId is this room
    known,       \* known[c]: the people c has been shown in this room
    isClosed,    \* RoomData.isClosed
    queue,       \* cmdQueue
    current,     \* currentState
    inited,      \* the states that have been initialised
    isFinished,  \* status.isFinished
    wpc,         \* where the worker's thread is in the update of this room
    pair,        \* <<>> or the pair that was polled
    job,         \* job[l]: the task that runs on event loop l
    home,        \* the maps that hold the room: "factory", "worker"
    sweepers,    \* the periodic sweeps that are still scheduled
    stale,       \* the sweeps under way whose copy of the map is without the room
    log, done,   \* history: every accepted pair, and how many are finished
    overtaken,   \* history: such a copy was made while createRoom was running
    raced        \* history: a HashMap operation has been overlapped

roomVars == <<members, size, online, routed, known>>
stateVars == <<isClosed, current, inited, isFinished>>
workVars == <<wpc, pair>>
homeVars == <<home, sweepers, stale, overtaken>>
histVars == <<log, done>>
vars == <<roomVars, stateVars, queue, workVars, job, homeVars, histVars, raced>>

JobStages == {"idle", "create", "put", "reply", "announce", "host", "confirm", "offer"}
Jobs == [at : JobStages, chr : Characters, cmd : Cmds \cup {None}, creates : BOOLEAN]
Idle == [at |-> "idle", chr |-> Master, cmd |-> None, creates |-> FALSE]

WorkerStages == {"idle", "check", "poll", "handle", "remove", "tell",
                 "broadcast", "finish", "dead"}

TypeOK ==
    /\ members \subseteq Characters
    /\ size \in Int
    /\ online \subseteq Characters
    /\ routed \subseteq Characters
    /\ known \in [Characters -> SUBSET Characters]
    /\ isClosed \in BOOLEAN
    /\ queue \in Seq(Pairs)
    /\ current \in StageCodes
    /\ inited \subseteq StageCodes
    /\ isFinished \in BOOLEAN
    /\ wpc \in WorkerStages
    /\ pair \in Seq(Pairs) /\ Len(pair) <= 1
    /\ job \in [Loops -> Jobs]
    /\ home \subseteq {"factory", "worker"}
    /\ sweepers \subseteq {"factory", "worker"}
    /\ stale \subseteq {"factory", "worker"}
    /\ overtaken \in BOOLEAN
    /\ log \in Seq(Pairs)
    /\ done \in Nat
    /\ raced \in BOOLEAN

-----------------------------------------------------------------------------
(* The HashMap of the members.                                             *)

Present == members \cap online              \* RoomData.characterSet
CanDeposeOnlyUnused == members = {}         \* Variant: offline members count.
CanDeposeClosed == isClosed \/ Present = {} \* Variant: closed rooms go as well.
CanDepose == Present = {}                   \* RoomStateGroup.canDepose
IsFullAbove == size > Capacity              \* Variant: the factor is forgotten.
IsFull == 4 * size >= 3 * Capacity          \* isFullCharacter

Sender == pair[1].chr
Cmd == pair[1].cmd

\* A structural change is under way on a loop, in the worker.
Putting(l) == job[l].at = "put" /\ job[l].chr \notin members
Removing == wpc = "remove" /\ Cmd.target \in members

\* What the loops other than l, or the worker, may be doing to the map.
OverlapsLoop(l) == Removing \/ \E k \in Loops \ {l} : Putting(k)
OverlapsWorker == \E k \in Loops : Putting(k)

\* Variant of Put: a known key is counted again.
PutCountsAgain(c, overlapped) ==
    /\ members' = members \cup {c}
    /\ size' = size + 1
    /\ raced' = (raced \/ overlapped)

\* HashMap.put.  A known key has its value replaced.  A new key is linked and
\* counted; overlapped, the link, the count or both are overwritten.
Put(c, overlapped) ==
    IF c \in members
    THEN UNCHANGED <<members, size, raced>>
    ELSE /\ \/ members' = members \cup {c}
            \/ overlapped /\ UNCHANGED members
         /\ \/ size' = size + 1
            \/ overlapped /\ UNCHANGED size
         /\ raced' = (raced \/ overlapped)

\* HashMap.remove of a key that is there: unlinked for good, but its
\* decrement can be overwritten.
Remove(c, overlapped) ==
    /\ members' = members \ {c}
    /\ \/ size' = size - 1
       \/ overlapped /\ UNCHANGED size
    /\ raced' = (raced \/ overlapped)

-----------------------------------------------------------------------------
(* Tasks of the dispatcher: createRoom, enterRoom, handleOtherCmd.         *)

Goto(l, stage) == job' = [job EXCEPT ![l].at = stage]
End(l) == job' = [job EXCEPT ![l] = Idle]

\* createRoom line 148; the answer of enter is not looked at.
CreatorEnters(l) ==
    /\ job[l].at = "create"
    /\ Goto(l, IF IsFull THEN "host" ELSE "put")
    /\ UNCHANGED <<roomVars, stateVars, queue, workVars, homeVars, histVars, raced>>

\* enterRoom finds the room and passes the check.  A full room is refused
\* without any change, also to somebody who is already in it.
EnterBegin(l, c) ==
    /\ job[l].at = "idle"
    /\ "factory" \in home
    /\ ~IsFull
    /\ job' = [job EXCEPT ![l] = [Idle EXCEPT !.at = "put", !.chr = c]]
    /\ UNCHANGED <<roomVars, stateVars, queue, workVars, homeVars, histVars, raced>>

EnterPut(l) ==
    /\ job[l].at = "put"
    /\ Put(job[l].chr, OverlapsLoop(l))
    /\ Goto(l, "reply")
    /\ UNCHANGED <<online, routed, known, stateVars, queue, workVars, homeVars, histVars>>

\* Variant of EnterReply: the newcomer is not shown who is there.
EnterReplyEmpty(l) ==
    /\ job[l].at = "reply"
    /\ routed' = routed \cup {job[l].chr}
    /\ Goto(l, "announce")
    /\ UNCHANGED <<members, size, online, known, stateVars, queue, workVars, homeVars,
                   histVars, raced>>

\* currentRoomId is set, then the room is traversed for the reply to the
\* newcomer and again for the message to the others.  An overlapped
\* traversal may fail, which ends the task: before the reply or after it.
EnterReply(l) ==
    LET c == job[l].chr
        shown == [known EXCEPT ![c] = @ \cup Present]
    IN  /\ job[l].at = "reply"
        /\ routed' = routed \cup {c}
        /\ \/ known' = shown /\ Goto(l, "announce")
           \/ OverlapsLoop(l) /\ known' \in {known, shown} /\ End(l)
        /\ raced' = (raced \/ OverlapsLoop(l))
        /\ UNCHANGED <<members, size, online, stateVars, queue, workVars, homeVars, histVars>>

\* The others are told who came.  The creator's task goes on with line 149.
EnterAnnounce(l) ==
    LET c == job[l].chr
    IN  /\ job[l].at = "announce"
        /\ \/ /\ known' = [o \in Characters |-> IF o \in Present \ {c}
                                                THEN known[o] \cup {c} ELSE known[o]]
              /\ IF job[l].creates THEN Goto(l, "host") ELSE End(l)
           \/ OverlapsLoop(l) /\ UNCHANGED known /\ End(l)
        /\ raced' = (raced \/ OverlapsLoop(l))
        /\ UNCHANGED <<members, size, online, routed, stateVars, queue, workVars,
                       homeVars, histVars>>

\* WorkerManager.addStateGroup.
Host(l) ==
    /\ job[l].at = "host"
    /\ home' = IF Hosting THEN home \cup {"worker"} ELSE home
    /\ Goto(l, "confirm")
    /\ UNCHANGED <<roomVars, stateVars, queue, workVars, sweepers, stale, overtaken,
                   histVars, raced>>

\* createRoomResult traverses the room once more.
Confirm(l) ==
    /\ job[l].at = "confirm"
    /\ \/ known' = [known EXCEPT ![Master] = @ \cup Present]
       \/ OverlapsLoop(l) /\ UNCHANGED known
    /\ End(l)
    /\ raced' = (raced \/ OverlapsLoop(l))
    /\ UNCHANGED <<members, size, online, routed, stateVars, queue, workVars,
                   homeVars, histVars>>

\* handleOtherCmd looks up the sender's current room ...
RouteCmd(l, c, cmd) ==
    /\ job[l].at = "idle"
    /\ c \in routed
    /\ "factory" \in home
    /\ Len(log) < MaxCmds
    /\ job' = [job EXCEPT ![l] = [Idle EXCEPT !.at = "offer", !.chr = c, !.cmd = cmd]]
    /\ UNCHANGED <<roomVars, stateVars, queue, workVars, homeVars, histVars, raced>>

\* Variant of OfferCmd: the queue has no capacity.
OfferCmdUnbounded(l) ==
    LET new == [chr |-> job[l].chr, cmd |-> job[l].cmd]
    IN  /\ job[l].at = "offer"
        /\ queue' = Append(queue, new) /\ log' = Append(log, new)
        /\ End(l)
        /\ UNCHANGED <<roomVars, stateVars, workVars, homeVars, done, raced>>

\* ... and offers the pair.  A full queue refuses it and nobody looks.
OfferCmd(l) ==
    LET new == [chr |-> job[l].chr, cmd |-> job[l].cmd]
    IN  /\ job[l].at = "offer"
        /\ IF Len(queue) < QueueCapacity
           THEN queue' = Append(queue, new) /\ log' = Append(log, new)
           ELSE UNCHANGED <<queue, log>>
        /\ End(l)
        /\ UNCHANGED <<roomVars, stateVars, workVars, homeVars, done, raced>>

-----------------------------------------------------------------------------
(* The characters.                                                         *)

GoOffline(c) ==
    /\ c \in Flaky \cap online
    /\ online' = online \ {c}
    /\ UNCHANGED <<members, size, routed, known, stateVars, queue, workVars, job,
                   homeVars, histVars, raced>>

GoOnline(c) ==
    /\ c \in Flaky \ online
    /\ online' = online \cup {c}
    /\ UNCHANGED <<members, size, routed, known, stateVars, queue, workVars, job,
                   homeVars, histVars, raced>>

\* c enters another room: setCurrentRoomId, and nothing in this room changes.
RouteElsewhere(c) ==
    /\ c \in Roamers \cap routed
    /\ routed' = routed \ {c}
    /\ UNCHANGED <<members, size, online, known, stateVars, queue, workVars, job,
                   homeVars, histVars, raced>>

-----------------------------------------------------------------------------
(* The worker's thread: one pass over this room.                           *)

Visit ==
    /\ wpc = "idle"
    /\ "worker" \in home
    /\ wpc' = "check"
    /\ UNCHANGED <<roomVars, stateVars, queue, pair, job, homeVars,
                   histVars, raced>>

\* canDepose runs outside every try of the worker: a failed traversal ends
\* the thread.
CheckDepose ==
    /\ wpc = "check"
    /\ \/ wpc' = IF CanDepose THEN "idle" ELSE "poll"
       \/ OverlapsWorker /\ wpc' = "dead"
    /\ raced' = (raced \/ OverlapsWorker)
    /\ UNCHANGED <<roomVars, stateVars, queue, pair, job, homeVars, histVars>>

\* Variants of Poll: the pair stays at the head; the first command of a state
\* only initialises it.
PollPeeks ==
    /\ wpc = "poll" /\ queue # <<>>
    /\ wpc' = "handle"
    /\ pair' = <<Head(queue)>>
    /\ inited' = inited \cup {current}
    /\ UNCHANGED <<roomVars, isClosed, current, isFinished, queue, job,
                   homeVars, histVars, raced>>

PollInitOnly ==
    /\ wpc = "poll" /\ queue # <<>>
    /\ inited' = inited \cup {current}
    /\ queue' = Tail(queue)
    /\ IF current \in inited THEN wpc' = "handle" /\ pair' = <<Head(queue)>>
                             ELSE wpc' = "idle" /\ UNCHANGED pair
    /\ UNCHANGED <<roomVars, isClosed, current, isFinished, job, homeVars,
                   histVars, raced>>

\* poll and, before the first command of a state, its init.
Poll ==
    /\ wpc = "poll"
    /\ IF queue = <<>>
       THEN wpc' = "idle" /\ UNCHANGED <<queue, pair, inited>>
       ELSE /\ wpc' = "handle"
            /\ pair' = <<Head(queue)>>
            /\ queue' = Tail(queue)
            /\ inited' = inited \cup {current}
    /\ UNCHANGED <<roomVars, isClosed, current, isFinished, job, homeVars,
                   histVars, raced>>

\* The states that extend RoomStateAdapter.
InRoom == current # "ERROR"

\* Variant of CloseRoom: anybody may close.
CloseRoomAnyone ==
    /\ wpc = "handle" /\ InRoom /\ Cmd.type = "CLOSE_ROOM"
    /\ isClosed' = TRUE /\ wpc' = "broadcast"
    /\ UNCHANGED <<roomVars, current, inited, isFinished, queue, pair, job,
                   homeVars, histVars, raced>>

CloseRoom ==
    /\ wpc = "handle" /\ InRoom /\ Cmd.type = "CLOSE_ROOM"
    /\ IF Sender = Master
       THEN isClosed' = TRUE /\ wpc' = "broadcast"
       ELSE UNCHANGED isClosed /\ wpc' = "finish"
    /\ UNCHANGED <<roomVars, current, inited, isFinished, queue, pair, job,
                   homeVars, histVars, raced>>

\* Variant of MayKick: anybody may kick.
MayKickAnyone == Cmd.target \notin {None, Master}

\* Only the master, only a content that parses, and not himself.
MayKick == Sender = Master /\ Cmd.target \notin {None, Master}

KickOff ==
    /\ wpc = "handle" /\ InRoom /\ Cmd.type = "KICK_OFF"
    /\ wpc' = IF MayKick THEN "remove" ELSE "finish"
    /\ UNCHANGED <<roomVars, stateVars, queue, pair, job, homeVars,
                   histVars, raced>>

KickRemove ==
    /\ wpc = "remove"
    /\ IF Removing
       THEN /\ Remove(Cmd.target, OverlapsWorker)
            /\ wpc' = "tell"
       ELSE /\ wpc' = "broadcast"
            /\ UNCHANGED <<members, size, raced>>
    /\ UNCHANGED <<online, routed, known, stateVars, queue, pair, job, homeVars,
                   histVars>>

\* The message to the target: getCharacter after the removal finds him, and he is told,
\* only when he has entered again in between.
KickTell ==
    /\ wpc = "tell"
    /\ wpc' = "broadcast"
    /\ UNCHANGED <<roomVars, stateVars, queue, pair, job, homeVars, histVars, raced>>

\* logoutResult builds a LogoutResult without its required field and throws
\* before anything is changed; the error goes to the sender.
Logout ==
    /\ wpc = "handle" /\ InRoom /\ Cmd.type = "LOGIN_OUT"
    /\ wpc' = "finish"
    /\ UNCHANGED <<roomVars, stateVars, queue, pair, job, homeVars,
                   histVars, raced>>

StartChatting ==
    /\ wpc = "handle" /\ current = "waiting" /\ Cmd.type = "START_CHATTING"
    /\ isFinished' = (isFinished \/ Sender = Master)
    /\ wpc' = "finish"
    /\ UNCHANGED <<roomVars, isClosed, current, inited, queue, pair, job,
                   homeVars, histVars, raced>>

\* StateAdapter.handleCmd: an error to the sender.
Unsupported ==
    /\ wpc = "handle"
    /\ \/ ~InRoom
       \/ Cmd.type = "OTHER"
       \/ Cmd.type = "START_CHATTING" /\ current # "waiting"
    /\ wpc' = "finish"
    /\ UNCHANGED <<roomVars, stateVars, queue, pair, job, homeVars,
                   histVars, raced>>

\* broadCastData; when it fails the error goes to the sender and the pass
\* goes on.
Broadcast ==
    /\ wpc = "broadcast"
    /\ wpc' = "finish"
    /\ raced' = (raced \/ OverlapsWorker)
    /\ UNCHANGED <<roomVars, stateVars, queue, pair, job, homeVars, histVars>>

\* Variants of NextStage: only when the state is finished; a code that names
\* no state.
NextStageIfFinished == CASE current = "waiting" /\ isFinished  -> "chatting"
                         [] current = "chatting" /\ isFinished -> "finish"
                         [] OTHER                              -> current
NextStageUnknown == IF current = "waiting" THEN "chatting" ELSE "closed"

NextStage == CASE current = "waiting"  -> "chatting"
               [] current = "chatting" -> "finish"
               [] OTHER                -> "ERROR"

\* update and finish of the current state, after every command.
Finish ==
    /\ wpc = "finish"
    /\ isFinished' = (isFinished \/ (isClosed /\ current \in {"waiting", "chatting"}))
    /\ current' = NextStage
    /\ wpc' = "idle"
    /\ pair' = <<>>
    /\ done' = done + 1
    /\ UNCHANGED <<roomVars, isClosed, inited, queue, job, homeVars, log, raced>>

-----------------------------------------------------------------------------
(* The periodic removal of empty rooms, from the factory's map and from    *)
(* the worker's.  A sweep copies the map, takes what can be deposed out of *)
(* the copy and publishes the copy.  Only one that lost the room on the    *)
(* way matters to it: it was not in the map yet, or it was empty then.     *)

Creating == \E l \in Loops : job[l].creates

\* A room that is not in the map matters only while it is on its way there.
\* A failed traversal cancels the task for ever (AutoTask).
Sweep(m) ==
    LET overlapped == m \in home /\ (OverlapsWorker \/ Removing)
    IN  /\ m \in sweepers \ stale
        /\ \/ /\ IF m \in home THEN CanDepose ELSE Creating
              /\ stale' = stale \cup {m} /\ UNCHANGED sweepers
              /\ overtaken' = (overtaken \/ Creating)
           \/ overlapped /\ sweepers' = sweepers \ {m} /\ UNCHANGED <<stale, overtaken>>
        /\ raced' = (raced \/ overlapped)
        /\ UNCHANGED <<roomVars, stateVars, queue, workVars, job, home, histVars>>

\* The copy becomes the map, whoever has entered or been added since.
Publish(m) ==
    /\ m \in stale
    /\ stale' = stale \ {m}
    /\ home' = home \ {m}
    /\ UNCHANGED <<roomVars, stateVars, queue, workVars, job, sweepers, overtaken,
                   histVars, raced>>

-----------------------------------------------------------------------------
Init ==
    /\ members = {} /\ size = 0
    /\ online = Characters /\ routed = {}
    /\ known = [c \in Characters |-> {}]
    /\ isClosed = FALSE /\ isFinished = FALSE
    /\ current = "waiting" /\ inited = {}
    /\ queue = <<>> /\ pair = <<>>
    /\ wpc = "idle"
    /\ \E l \in Loops : job = [k \in Loops |-> IF k = l
                                 THEN [Idle EXCEPT !.at = "create", !.creates = TRUE]
                                 ELSE Idle]
    /\ home = {"factory"} /\ sweepers = Sweeps
    /\ stale \in SUBSET (Sweeps \cap {"factory"}) /\ overtaken = (stale # {})
    /\ log = <<>> /\ done = 0 /\ raced = FALSE

\* The steps by which a task that has begun comes to its end.
TaskStep(l) == \/ CreatorEnters(l) \/ EnterPut(l) \/ EnterReply(l) \/ EnterAnnounce(l)
               \/ Host(l) \/ Confirm(l) \/ OfferCmd(l)

TaskBegin(l) == \E c \in Characters : \/ EnterBegin(l, c)
                                      \/ \E cmd \in Cmds : RouteCmd(l, c, cmd)

Handle == CloseRoom \/ KickOff \/ Logout \/ StartChatting \/ Unsupported

WorkerStep == \/ Visit \/ CheckDepose \/ Poll \/ Handle \/ KickRemove \/ KickTell
              \/ Broadcast \/ Finish

CharacterStep(c) == GoOffline(c) \/ GoOnline(c) \/ RouteElsewhere(c)

SweepStep(m) == Sweep(m) \/ Publish(m)

Next == \/ \E l \in Loops : TaskStep(l) \/ TaskBegin(l)
        \/ WorkerStep
        \/ \E c \in Characters : CharacterStep(c)
        \/ \E m \in {"factory", "worker"} : SweepStep(m)

Spec == Init /\ [][Next]_vars

Fairness == /\ WF_vars(WorkerStep)
            /\ \A l \in Loops : WF_vars(TaskStep(l))
            /\ \A m \in {"factory", "worker"} : WF_vars(SweepStep(m))

FairSpec == Spec /\ Fairness
-----------------------------------------------------------------------------
(* What the room is meant to guarantee.                                    *)

(* The check of isFullCharacter and the insertion are two steps, so a room *)
(* may end up above three quarters of its capacity: but by less than one   *)
(* entry for each event loop that can be between the two.                  *)
Entering == {l \in Loops : job[l].at = "put"}
OvershootBounded == 4 * (size + Cardinality(Entering) - Cardinality(Loops)) < 3 * Capacity

(* The count that the check reads is the number of members, whatever is    *)
(* entered, entered again and kicked out, as long as no two operations on  *)
(* the unprotected map have overlapped.                                    *)
SizeExactUnlessRaced == ~raced => size = Cardinality(members)

(* finish hands over after every command, whatever the command was and     *)
(* however it ended, so the number of finished commands alone decides the  *)
(* state; and a state is initialised when it gets its first command.       *)
Stage(n) == Stages[IF n < 3 THEN n + 1 ELSE 4]
StageFollowsCount ==
    /\ current = Stage(done)
    /\ inited = {Stage(n) : n \in 0..(done + Len(pair) - 1)}

(* The room is closed exactly when the creator's CLOSE_ROOM was one of the *)
(* first three accepted commands: a later one comes too late for ever, and *)
(* nobody else's ever counts.                                              *)
Handled == done + (IF wpc \in {"remove", "tell", "broadcast", "finish"} THEN 1 ELSE 0)
ClosedExactlyByMaster ==
    isClosed <=> \E n \in 1..3 : /\ n <= Handled
                                 /\ log[n].chr = Master
                                 /\ log[n].cmd.type = "CLOSE_ROOM"

(* A member disappears from the room only while the creator's KICK_OFF of  *)
(* that very member is served as one of the first three commands; the      *)
(* creator never disappears.                                               *)
OnlyKickRemoves ==
    [][\A c \in members \ members' :
          /\ c # Master
          /\ done < 3
          /\ log[done + 1] = [chr |-> Master, cmd |-> [type |-> "KICK_OFF", target |-> c]]]_vars

(* Nothing that was accepted is lost, served twice or overtaken: what was  *)
(* accepted is what is finished, then the pair in service, then the queue. *)
QueueIsFifo ==
    /\ Len(log) = done + Len(pair) + Len(queue)
    /\ Len(queue) <= QueueCapacity
    /\ \A i \in 1..Len(pair) : pair[i] = log[done + i]
    /\ \A i \in 1..Len(queue) : queue[i] = log[done + Len(pair) + i]

(* With that, the command queue and the worker's pass are a bounded        *)
(* mailbox with one server.                                                *)
AsMailbox == INSTANCE Mailbox WITH Items <- Pairs, Capacity <- QueueCapacity,
                                   accepted <- log, served <- done, inService <- pair
MailboxSpec == AsMailbox!Spec

(* Two members whose entering is over know of each other, in both          *)
(* directions, however the two tasks interleaved: the one whose reply was  *)
(* traversed too early is in time for the other's announcement.            *)
Settled(c) == /\ c \in members \ Flaky
              /\ \A l \in Loops : ~(job[l].chr = c /\ job[l].at \in {"put", "reply", "announce"})
EveryoneIsIntroduced ==
    ~raced => \A c, d \in Characters :
                 c # d /\ Settled(c) /\ Settled(d) => d \in known[c]

(* A room with somebody in it stays where it can be found and, where       *)
(* adding it to a worker hosts it, with its worker once createRoom is      *)
(* over, if nobody's session closes: no kick, no other room and no sweep   *)
(* takes it away, except one that copied its map while createRoom ran.     *)
StaysHosted ==
    Flaky = {} /\ ~raced /\ ~overtaken /\ ~Creating /\ members # {} =>
        home = {"factory"} \cup (IF Hosting THEN {"worker"} ELSE {})

(* While the room keeps somebody who is online, its place in the worker's  *)
(* map and a live worker thread, every accepted command is finished.       *)
Kept == Present # {} /\ "worker" \in home /\ wpc # "dead"
EveryAcceptedIsServed ==
    <>[]Kept => \A n \in 1..MaxCmds : (Len(log) >= n) ~> (done >= n)

(* A room that stays without anybody online is removed from both maps,     *)
(* also when offline members were never taken out of it, provided that no  *)
(* failed traversal has cancelled a sweep.                                 *)
AbandonedIsRemoved ==
    (<>[](Present = {}) /\ [](sweepers = {"factory", "worker"})) => <>[](home = {})

-----------------------------------------------------------------------------
(* What messages of the code say, and the code does not do.                *)

(* WebChatDispatcher line 152 tells the creator that the room was created: *)
(* at that point others can find it.                                       *)
CreatedIsFound == \A l \in Loops : job[l].at = "confirm" => "factory" \in home
=============================================================================
