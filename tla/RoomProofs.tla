----------------------------- MODULE RoomProofs -----------------------------
(***************************************************************************)
(* Proofs about Room for every set of characters and loops, every          *)
(* capacity and every set of commands.                                     *)
(***************************************************************************)
EXTENDS Room, FiniteSetTheorems, TLAPS

USE DEF roomVars, stateVars, workVars, homeVars, histVars

-----------------------------------------------------------------------------
(* Types.  A task at "offer" carries a command: without that, what it puts *)
(* into the queue need not be a pair.                                      *)

OfferHasCmd == \A l \in Loops : job[l].at = "offer" => job[l].cmd \in Cmds

Typed == TypeOK /\ OfferHasCmd

(* The initial state is well typed.                                        *)
LEMMA TypedInit == Init => Typed
<1> SUFFICES ASSUME Init PROVE Typed
  OBVIOUS
<1>1. job \in [Loops -> Jobs]
  <2>1. Idle \in Jobs /\ [Idle EXCEPT !.at = "create", !.creates = TRUE] \in Jobs
    BY CharactersAssumption DEF Jobs, JobStages, Idle
  <2>2. PICK l \in Loops : job = [k \in Loops |-> IF k = l
                                  THEN [Idle EXCEPT !.at = "create", !.creates = TRUE]
                                  ELSE Idle]
    BY Zenon DEF Init
  <2> QED BY <2>1, <2>2
<1>2. /\ known \in [Characters -> SUBSET Characters]
      /\ queue \in Seq(Pairs) /\ log \in Seq(Pairs)
      /\ pair \in Seq(Pairs) /\ Len(pair) <= 1
  BY DEF Init
<1>3. TypeOK
  <2>1. /\ members = {} /\ size = 0 /\ online = Characters /\ routed = {}
        /\ isClosed = FALSE /\ isFinished = FALSE /\ current = "waiting" /\ inited = {}
        /\ wpc = "idle"
        /\ home = {"factory"} /\ sweepers = Sweeps
        /\ stale \in SUBSET (Sweeps \cap {"factory"}) /\ overtaken = (stale # {})
        /\ done = 0 /\ raced = FALSE
    BY DEF Init
  <2>2. /\ members \subseteq Characters /\ size \in Int /\ online \subseteq Characters
        /\ routed \subseteq Characters
        /\ done \in Nat
    BY <2>1
  <2>3. /\ isClosed \in BOOLEAN /\ isFinished \in BOOLEAN /\ raced \in BOOLEAN
        /\ current \in StageCodes /\ inited \subseteq StageCodes /\ wpc \in WorkerStages
    BY <2>1 DEF StageCodes, WorkerStages
  <2>4. /\ home \subseteq {"factory", "worker"} /\ sweepers \subseteq {"factory", "worker"}
        /\ stale \subseteq {"factory", "worker"} /\ overtaken \in BOOLEAN
    BY <2>1, HostingAssumption
  <2> QED BY <1>1, <1>2, <2>2, <2>3, <2>4 DEF TypeOK
<1>4. OfferHasCmd
  BY DEF Init, OfferHasCmd, Idle
<1> QED BY <1>3, <1>4 DEF Typed

\* What the actions do to the job of a loop keeps it a job.
LEMMA GotoTyped ==
  ASSUME Typed, NEW l \in Loops, NEW stage \in JobStages \ {"offer"}, Goto(l, stage)
  PROVE  job' \in [Loops -> Jobs] /\ OfferHasCmd'
BY DEF Typed, TypeOK, OfferHasCmd, Goto, Jobs

(* The end of a task leaves a job.                                         *)
LEMMA EndTyped ==
  ASSUME Typed, NEW l \in Loops, End(l)
  PROVE  job' \in [Loops -> Jobs] /\ OfferHasCmd'
BY CharactersAssumption DEF Typed, TypeOK, OfferHasCmd, End, Idle, Jobs, JobStages

\* What the two structural changes do to the map.
LEMMA PutTyped ==
  ASSUME Typed, NEW c \in Characters, NEW overlapped \in BOOLEAN, Put(c, overlapped)
  PROVE  members' \subseteq Characters /\ size' \in Int /\ raced' \in BOOLEAN
<1>1. CASE c \in members
  BY <1>1 DEF Put, Typed, TypeOK
<1>2. CASE c \notin members
  <2>1. members' \in {members, members \cup {c}} /\ size' \in {size, size + 1}
    BY <1>2 DEF Put
  <2>2. raced' \in BOOLEAN
    BY <1>2 DEF Put
  <2> QED BY <2>1, <2>2 DEF Typed, TypeOK
<1> QED BY <1>1, <1>2

(* A removal keeps the types.                                              *)
LEMMA RemoveTyped ==
  ASSUME Typed, NEW c, NEW overlapped \in BOOLEAN, Remove(c, overlapped)
  PROVE  members' \subseteq Characters /\ size' \in Int /\ raced' \in BOOLEAN
<1>1. members' \subseteq members /\ size' \in {size, size - 1}
  BY DEF Remove
<1>2. raced' \in BOOLEAN
  BY DEF Remove
<1> QED BY <1>1, <1>2 DEF Typed, TypeOK

(* Every step keeps the types and the commands of the jobs at "offer".     *)
LEMMA TypedNext == Typed /\ [Next]_vars => Typed'
<1> SUFFICES ASSUME Typed, [Next]_vars PROVE Typed'
  OBVIOUS
<1> USE DEF Typed
<1>1. ASSUME NEW l \in Loops, CreatorEnters(l) PROVE Typed'
  <2>1. job' \in [Loops -> Jobs] /\ OfferHasCmd'
    BY <1>1, GotoTyped DEF CreatorEnters, JobStages
  <2> QED BY <1>1, <2>1 DEF CreatorEnters, TypeOK
<1>2. ASSUME NEW l \in Loops, NEW c \in Characters, EnterBegin(l, c) PROVE Typed'
  <2>1. job' \in [Loops -> Jobs] /\ OfferHasCmd'
    BY <1>2 DEF EnterBegin, TypeOK, OfferHasCmd, Idle, Jobs, JobStages
  <2> QED BY <1>2, <2>1 DEF EnterBegin, TypeOK
<1>3. ASSUME NEW l \in Loops, EnterPut(l) PROVE Typed'
  <2>1. job' \in [Loops -> Jobs] /\ OfferHasCmd'
    BY <1>3, GotoTyped DEF EnterPut, JobStages
  <2>2. job[l].chr \in Characters
    BY DEF TypeOK, Jobs
  <2>3. members' \subseteq Characters /\ size' \in Int /\ raced' \in BOOLEAN
    <3>1. OverlapsLoop(l) \in BOOLEAN
      BY DEF OverlapsLoop
    <3> QED BY <1>3, <2>2, <3>1, PutTyped DEF EnterPut
  <2> QED BY <1>3, <2>1, <2>3 DEF EnterPut, TypeOK
<1>4. ASSUME NEW l \in Loops, EnterReply(l) PROVE Typed'
  <2>1. job' \in [Loops -> Jobs] /\ OfferHasCmd'
    BY <1>4, GotoTyped, EndTyped DEF EnterReply, JobStages
  <2>2. job[l].chr \in Characters
    BY DEF TypeOK, Jobs
  <2>3. known' \in [Characters -> SUBSET Characters]
    BY <1>4, <2>2 DEF EnterReply, TypeOK, Present
  <2>4. raced' \in BOOLEAN
    BY <1>4 DEF EnterReply, TypeOK, OverlapsLoop
  <2> QED BY <1>4, <2>1, <2>2, <2>3, <2>4 DEF EnterReply, TypeOK
<1>5. ASSUME NEW l \in Loops, EnterAnnounce(l) PROVE Typed'
  <2>1. job' \in [Loops -> Jobs] /\ OfferHasCmd'
    BY <1>5, GotoTyped, EndTyped DEF EnterAnnounce, JobStages
  <2>2. job[l].chr \in Characters
    BY DEF TypeOK, Jobs
  <2>3. known' \in [Characters -> SUBSET Characters]
    BY <1>5, <2>2 DEF EnterAnnounce, TypeOK
  <2>4. raced' \in BOOLEAN
    BY <1>5 DEF EnterAnnounce, TypeOK, OverlapsLoop
  <2> QED BY <1>5, <2>1, <2>3, <2>4 DEF EnterAnnounce, TypeOK
<1>6. ASSUME NEW l \in Loops, Host(l) PROVE Typed'
  <2>1. job' \in [Loops -> Jobs] /\ OfferHasCmd'
    BY <1>6, GotoTyped DEF Host, JobStages
  <2> QED BY <1>6, <2>1 DEF Host, TypeOK
<1>7. ASSUME NEW l \in Loops, Confirm(l) PROVE Typed'
  <2>1. job' \in [Loops -> Jobs] /\ OfferHasCmd'
    BY <1>7, EndTyped DEF Confirm
  <2>2. known' \in [Characters -> SUBSET Characters] /\ raced' \in BOOLEAN
    BY <1>7, CharactersAssumption DEF Confirm, TypeOK, Present, OverlapsLoop
  <2> QED BY <1>7, <2>1, <2>2 DEF Confirm, TypeOK
<1>8. ASSUME NEW l \in Loops, NEW c \in Characters, NEW cmd \in Cmds, RouteCmd(l, c, cmd)
      PROVE  Typed'
  <2>1. job' \in [Loops -> Jobs] /\ OfferHasCmd'
    BY <1>8 DEF RouteCmd, TypeOK, OfferHasCmd, Idle, Jobs, JobStages
  <2> QED BY <1>8, <2>1 DEF RouteCmd, TypeOK
<1>9. ASSUME NEW l \in Loops, OfferCmd(l) PROVE Typed'
  <2>1. job' \in [Loops -> Jobs] /\ OfferHasCmd'
    BY <1>9, EndTyped DEF OfferCmd
  <2>2. [chr |-> job[l].chr, cmd |-> job[l].cmd] \in Pairs
    BY <1>9 DEF OfferCmd, OfferHasCmd, TypeOK, Jobs, Pairs
  <2>3. queue' \in Seq(Pairs) /\ log' \in Seq(Pairs)
    <3>1. /\ Append(queue, [chr |-> job[l].chr, cmd |-> job[l].cmd]) \in Seq(Pairs)
          /\ Append(log, [chr |-> job[l].chr, cmd |-> job[l].cmd]) \in Seq(Pairs)
      BY <2>2 DEF TypeOK
    <3>2. queue \in Seq(Pairs) /\ log \in Seq(Pairs)
      BY DEF TypeOK
    <3> QED BY <1>9, <3>1, <3>2 DEF OfferCmd
  <2> QED BY <1>9, <2>1, <2>3 DEF OfferCmd, TypeOK
<1>10. ASSUME NEW c \in Characters, CharacterStep(c) PROVE Typed'
  BY <1>10 DEF CharacterStep, GoOffline, GoOnline, RouteElsewhere, TypeOK, OfferHasCmd
<1>11. ASSUME Visit \/ CheckDepose \/ Broadcast \/ KickOff \/ Logout \/ StartChatting
              \/ Unsupported \/ CloseRoom
       PROVE  Typed'
  BY <1>11 DEF Visit, CheckDepose, Broadcast, KickOff, Logout, StartChatting, Unsupported,
               CloseRoom, TypeOK, OfferHasCmd, WorkerStages, OverlapsWorker
<1>12. ASSUME Poll PROVE Typed'
  <2>1. queue # <<>> => Head(queue) \in Pairs /\ Tail(queue) \in Seq(Pairs)
    BY DEF TypeOK
  <2>2. queue' \in Seq(Pairs) /\ pair' \in Seq(Pairs) /\ Len(pair') <= 1
    <3>1. CASE queue = <<>>
      BY <1>12, <3>1 DEF Poll, TypeOK
    <3>2. CASE queue # <<>>
      <4>1. pair' = <<Head(queue)>> /\ queue' = Tail(queue)
        BY <1>12, <3>2 DEF Poll
      <4> QED BY <2>1, <3>2, <4>1
    <3> QED BY <3>1, <3>2
  <2> QED BY <1>12, <2>2 DEF Poll, TypeOK, OfferHasCmd, WorkerStages
<1>13. ASSUME KickRemove PROVE Typed'
  <2>1. members' \subseteq Characters /\ size' \in Int /\ raced' \in BOOLEAN
    <3>1. OverlapsWorker \in BOOLEAN
      BY DEF OverlapsWorker
    <3>2. CASE Removing
      BY <1>13, <3>1, <3>2, RemoveTyped DEF KickRemove
    <3>3. CASE ~Removing
      BY <1>13, <3>3 DEF KickRemove, TypeOK
    <3> QED BY <3>2, <3>3
  <2> QED BY <1>13, <2>1 DEF KickRemove, TypeOK, OfferHasCmd, WorkerStages
<1>14. ASSUME KickTell PROVE Typed'
  BY <1>14 DEF KickTell, TypeOK, OfferHasCmd, WorkerStages
<1>15. ASSUME Finish PROVE Typed'
  BY <1>15 DEF Finish, NextStage, TypeOK, OfferHasCmd, WorkerStages, StageCodes
<1>16. ASSUME NEW m \in {"factory", "worker"}, SweepStep(m) PROVE Typed'
  <2>1. CASE Sweep(m)
    <3>1. overtaken' \in BOOLEAN
      BY <2>1 DEF Sweep, TypeOK, Creating
    <3> QED BY <2>1, <3>1 DEF Sweep, TypeOK, OfferHasCmd, OverlapsWorker, Removing
  <2>2. CASE Publish(m)
    BY <2>2 DEF Publish, TypeOK, OfferHasCmd
  <2> QED BY <1>16, <2>1, <2>2 DEF SweepStep
<1>17. CASE UNCHANGED vars
  BY <1>17 DEF vars, TypeOK, OfferHasCmd
<1> QED
  BY <1>1, <1>2, <1>3, <1>4, <1>5, <1>6, <1>7, <1>8, <1>9, <1>10, <1>11, <1>12, <1>13,
     <1>14, <1>15, <1>16, <1>17
     DEF Next, TaskStep, TaskBegin, WorkerStep, Handle

(* Type correctness of Room.                                               *)
THEOREM RoomTypeOK == Spec => []TypeOK
<1>1. Spec => []Typed
  BY TypedInit, TypedNext, PTL DEF Spec
<1> QED BY <1>1, PTL DEF Typed

-----------------------------------------------------------------------------
(* The queue.  Three actions touch it; and there is a pair in service just *)
(* while the worker is between the poll and the end of the pass.           *)

Serving == {"handle", "remove", "tell", "broadcast", "finish"}
Shape == Len(pair) = (IF wpc \in Serving THEN 1 ELSE 0)

(* Only an accepted command, a poll and the end of a pass move the queue.  *)
LEMMA QueueSteps ==
  ASSUME [Next]_vars
  PROVE  \/ Poll \/ Finish \/ \E l \in Loops : OfferCmd(l)
         \/ UNCHANGED <<queue, pair, log, done>>
BY DEF Next, TaskStep, TaskBegin, WorkerStep, CharacterStep, Handle, vars, CreatorEnters,
       EnterBegin, EnterPut, EnterReply, EnterAnnounce, Host, Confirm, RouteCmd, GoOffline,
       GoOnline, RouteElsewhere, Visit, CheckDepose, CloseRoom, KickOff, KickRemove, KickTell,
       Logout, StartChatting, Unsupported, Broadcast, SweepStep, Sweep, Publish

\* Which actions move the worker, and where.
LEMMA WorkerSteps ==
  ASSUME [Next]_vars
  PROVE  \/ Poll \/ Finish
         \/ UNCHANGED <<wpc, pair>>
         \/ UNCHANGED pair /\ wpc \in Serving /\ wpc' \in Serving
         \/ UNCHANGED pair /\ wpc \notin Serving /\ wpc' \notin Serving
BY DEF Next, TaskStep, TaskBegin, WorkerStep, CharacterStep, Handle, vars, CreatorEnters,
       EnterBegin, EnterPut, EnterReply, EnterAnnounce, Host, Confirm, RouteCmd, OfferCmd,
       GoOffline, GoOnline, RouteElsewhere, Visit, CheckDepose, CloseRoom, KickOff, KickRemove,
       KickTell, Logout, StartChatting, Unsupported, Broadcast, SweepStep, Sweep, Publish, Serving

(* Every step keeps a pair in service exactly where the worker serves.     *)
LEMMA ShapeNext == Typed /\ Shape /\ [Next]_vars => Shape'
<1> SUFFICES ASSUME Typed, Shape, [Next]_vars PROVE Shape'
  OBVIOUS
<1>1. CASE Poll
  <2>1. CASE queue = <<>>
    BY <1>1, <2>1 DEF Poll, Shape, Serving
  <2>2. CASE queue # <<>>
    <3>1. pair' = <<Head(queue)>> /\ wpc' = "handle"
      BY <1>1, <2>2 DEF Poll
    <3> QED BY <3>1 DEF Shape, Serving
  <2> QED BY <2>1, <2>2
<1>2. CASE Finish
  BY <1>2 DEF Finish, Shape, Serving
<1> QED BY <1>1, <1>2, WorkerSteps DEF Shape

Queued == Typed /\ Shape /\ QueueIsFifo

(* The queue, the pair and the log start empty.                            *)
LEMMA QueuedInit == Init => Queued
<1> SUFFICES ASSUME Init PROVE Queued
  OBVIOUS
<1>1. queue = <<>> /\ pair = <<>> /\ log = <<>> /\ done = 0 /\ wpc = "idle"
  BY DEF Init
<1>2. Shape /\ QueueIsFifo
  BY <1>1, CapacityAssumption DEF Shape, Serving, QueueIsFifo
<1> QED BY <1>2, TypedInit DEF Queued

(* Every step keeps the log in order.                                      *)
LEMMA QueuedNext == Queued /\ [Next]_vars => Queued'
<1> SUFFICES ASSUME Queued, [Next]_vars PROVE Queued'
  OBVIOUS
<1>1. Typed' /\ Shape'
  BY TypedNext, ShapeNext DEF Queued
<1>2. /\ queue \in Seq(Pairs) /\ log \in Seq(Pairs) /\ pair \in Seq(Pairs)
      /\ done \in Nat /\ Len(queue) \in Nat /\ Len(log) \in Nat
      /\ QueueCapacity \in Nat /\ Shape
  BY CapacityAssumption DEF Queued, Typed, TypeOK
<1>3. /\ Len(log) = done + Len(pair) + Len(queue)
      /\ Len(queue) <= QueueCapacity
      /\ \A i \in 1..Len(pair) : pair[i] = log[done + i]
      /\ \A i \in 1..Len(queue) : queue[i] = log[done + Len(pair) + i]
  BY DEF Queued, QueueIsFifo
<1>4. ASSUME NEW l \in Loops, OfferCmd(l), Len(queue) < QueueCapacity PROVE QueueIsFifo'
  <2> DEFINE new == [chr |-> job[l].chr, cmd |-> job[l].cmd]
  <2>1. queue' = Append(queue, new) /\ log' = Append(log, new) /\ UNCHANGED <<pair, done>>
    BY <1>4 DEF OfferCmd
  <2> HIDE DEF new
  <2>2. /\ Len(queue') = Len(queue) + 1 /\ Len(log') = Len(log) + 1
        /\ \A i \in 1..Len(queue) : queue'[i] = queue[i]
        /\ \A i \in 1..Len(log) : log'[i] = log[i]
        /\ queue'[Len(queue) + 1] = new /\ log'[Len(log) + 1] = new
    BY <1>2, <2>1
  <2>3. Len(pair) \in {0, 1}
    BY <1>2 DEF Shape
  <2>4. \A i \in 1..Len(pair) : pair[i] = log'[done + i]
    BY <1>2, <1>3, <2>2, <2>3
  <2>5. \A i \in 1..Len(queue') : queue'[i] = log'[done + Len(pair) + i]
    <3> TAKE i \in 1..Len(queue')
    <3>1. CASE i = Len(queue) + 1
      BY <1>2, <1>3, <2>2, <2>3, <3>1
    <3>2. CASE i \in 1..Len(queue)
      BY <1>2, <1>3, <2>2, <2>3, <3>2
    <3> QED BY <1>2, <2>2, <3>1, <3>2
  <2>6. Len(log') = done + Len(pair) + Len(queue') /\ Len(queue') <= QueueCapacity
    BY <1>2, <1>3, <1>4, <2>2, <2>3
  <2> QED BY <2>1, <2>4, <2>5, <2>6 DEF QueueIsFifo
<1>5. ASSUME NEW l \in Loops, OfferCmd(l), ~(Len(queue) < QueueCapacity) PROVE QueueIsFifo'
  <2>1. UNCHANGED <<queue, log, pair, done>>
    BY <1>5 DEF OfferCmd
  <2> QED BY <1>3, <2>1 DEF QueueIsFifo
<1>6. ASSUME Poll, queue # <<>> PROVE QueueIsFifo'
  <2>1. Len(pair) = 0
    BY <1>2, <1>6 DEF Poll, Shape, Serving
  <2>2. pair' = <<Head(queue)>> /\ queue' = Tail(queue) /\ UNCHANGED <<log, done>>
    BY <1>6 DEF Poll
  <2>3. /\ Len(queue) >= 1 /\ Len(queue') = Len(queue) - 1
        /\ Len(pair') = 1 /\ pair'[1] = queue[1]
        /\ \A i \in 1..Len(queue') : queue'[i] = queue[i + 1]
    BY <1>2, <1>6, <2>2
  <2>4. \A i \in 1..Len(pair') : pair'[i] = log[done + i]
    BY <1>2, <1>3, <2>1, <2>3
  <2>5. \A i \in 1..Len(queue') : queue'[i] = log[done + 1 + i]
    <3> TAKE i \in 1..Len(queue')
    <3>1. i + 1 \in 1..Len(queue)
      BY <1>2, <2>3
    <3>2. queue[i + 1] = log[done + 0 + (i + 1)]
      BY <1>3, <2>1, <3>1
    <3> QED BY <1>2, <2>3, <3>2
  <2>6. Len(log) = done + Len(pair') + Len(queue') /\ Len(queue') <= QueueCapacity
    BY <1>2, <1>3, <2>1, <2>3
  <2> QED BY <2>2, <2>3, <2>4, <2>5, <2>6 DEF QueueIsFifo
<1>7. ASSUME Poll, queue = <<>> PROVE QueueIsFifo'
  <2>1. UNCHANGED <<queue, log, pair, done>>
    BY <1>7 DEF Poll
  <2> QED BY <1>3, <2>1 DEF QueueIsFifo
<1>8. ASSUME Finish PROVE QueueIsFifo'
  <2>1. Len(pair) = 1
    BY <1>2, <1>8 DEF Finish, Shape, Serving
  <2>2. pair' = <<>> /\ done' = done + 1 /\ UNCHANGED <<queue, log>>
    BY <1>8 DEF Finish
  <2>3. Len(pair') = 0
    BY <2>2
  <2>4. \A i \in 1..Len(queue) : queue[i] = log[done' + Len(pair') + i]
    <3>1. done' + Len(pair') = done + Len(pair)
      BY <1>2, <2>1, <2>2, <2>3
    <3> QED BY <1>3, <3>1
  <2>5. Len(log) = done' + Len(pair') + Len(queue)
    BY <1>2, <1>3, <2>1, <2>2, <2>3
  <2>6. \A i \in 1..Len(pair') : pair'[i] = log[done' + i]
    BY <2>3
  <2> QED BY <1>3, <2>2, <2>4, <2>5, <2>6 DEF QueueIsFifo
<1>9. ASSUME UNCHANGED <<queue, pair, log, done>> PROVE QueueIsFifo'
  BY <1>3, <1>9 DEF QueueIsFifo
<1> QED BY <1>1, <1>4, <1>5, <1>6, <1>7, <1>8, <1>9, QueueSteps DEF Queued

(* Nothing accepted is lost, served twice or overtaken, whatever the       *)
(* characters, the loops and the capacity of the queue.                    *)
THEOREM RoomQueueIsFifo == Spec => []QueueIsFifo
<1>1. Spec => []Queued
  BY QueuedInit, QueuedNext, PTL DEF Spec
<1> QED BY <1>1, PTL DEF Queued

-----------------------------------------------------------------------------
(* The size of the room.  A step lets a loop into the window between check *)
(* and insertion, lets one out of it, or does neither and adds nobody.     *)

Opens(l) == /\ l \notin Entering /\ Entering' = Entering \cup {l}
            /\ ~IsFull /\ size' = size
Closes(l) == l \in Entering /\ Entering' = Entering \ {l} /\ size' <= size + 1
Neither == Entering' = Entering /\ size' <= size

(* A job that goes on from "put", or never was there, does not enter.      *)
LEMMA GotoKeepsOut ==
  ASSUME Typed, NEW l \in Loops, NEW stage \in JobStages \ {"put"}, job[l].at # "put",
         Goto(l, stage) \/ End(l)
  PROVE  Entering' = Entering
<1>1. job'[l].at # "put"
  BY DEF Goto, End, Idle, Typed, TypeOK, Jobs
<1>2. \A k \in Loops \ {l} : job'[k] = job[k]
  BY DEF Goto, End, Typed, TypeOK
<1> QED BY <1>1, <1>2 DEF Entering

(* Which loops are between the check and the insertion, step by step.      *)
LEMMA EnteringSteps ==
  ASSUME Typed, [Next]_vars
  PROVE  Neither \/ \E l \in Loops : Opens(l) \/ Closes(l)
<1> USE DEF Typed
<1>0. size \in Int /\ job \in [Loops -> Jobs]
  BY DEF TypeOK
<1>1. ASSUME NEW l \in Loops, CreatorEnters(l) PROVE Neither \/ Opens(l)
  <2>1. CASE IsFull
    BY <1>0, <1>1, <2>1, GotoKeepsOut DEF CreatorEnters, Neither, JobStages
  <2>2. CASE ~IsFull
    <3>1. job[l].at = "create" /\ Goto(l, "put") /\ size' = size
      BY <1>1, <2>2 DEF CreatorEnters
    <3>2. job'[l].at = "put" /\ \A k \in Loops \ {l} : job'[k] = job[k]
      BY <1>0, <3>1 DEF Goto, Jobs
    <3>3. l \notin Entering /\ Entering' = Entering \cup {l}
      BY <3>1, <3>2 DEF Entering
    <3> QED BY <2>2, <3>1, <3>3 DEF Opens
  <2> QED BY <2>1, <2>2
<1>2. ASSUME NEW l \in Loops, NEW c \in Characters, EnterBegin(l, c) PROVE Opens(l)
  <2>1. job[l].at = "idle" /\ ~IsFull /\ size' = size
    BY <1>2 DEF EnterBegin
  <2>2. job'[l].at = "put" /\ \A k \in Loops \ {l} : job'[k] = job[k]
    BY <1>0, <1>2 DEF EnterBegin, Idle
  <2>3. l \notin Entering /\ Entering' = Entering \cup {l}
    BY <2>1, <2>2 DEF Entering
  <2> QED BY <2>1, <2>3 DEF Opens
<1>3. ASSUME NEW l \in Loops, EnterPut(l) PROVE Closes(l)
  <2>1. job[l].at = "put" /\ Goto(l, "reply")
    BY <1>3 DEF EnterPut
  <2>2. job'[l].at = "reply" /\ \A k \in Loops \ {l} : job'[k] = job[k]
    BY <1>0, <2>1 DEF Goto, Jobs
  <2>3. l \in Entering /\ Entering' = Entering \ {l}
    BY <2>1, <2>2 DEF Entering
  <2>4. size' \in {size, size + 1}
    BY <1>3 DEF EnterPut, Put
  <2> QED BY <1>0, <2>3, <2>4 DEF Closes
<1>4. ASSUME NEW l \in Loops,
             EnterReply(l) \/ EnterAnnounce(l) \/ Host(l) \/ Confirm(l) \/ OfferCmd(l)
      PROVE  Neither
  <2>1. size' = size /\ job[l].at # "put"
    BY <1>4 DEF EnterReply, EnterAnnounce, Host, Confirm, OfferCmd
  <2>2. \E stage \in JobStages \ {"put"} : Goto(l, stage) \/ End(l)
    BY <1>4 DEF EnterReply, EnterAnnounce, Host, Confirm, OfferCmd, JobStages
  <2> QED BY <1>0, <2>1, <2>2, GotoKeepsOut DEF Neither
<1>5. ASSUME NEW l \in Loops, NEW c \in Characters, NEW cmd \in Cmds, RouteCmd(l, c, cmd)
      PROVE  Neither
  <2>1. job[l].at = "idle" /\ size' = size
    BY <1>5 DEF RouteCmd
  <2>2. job'[l].at = "offer" /\ \A k \in Loops \ {l} : job'[k] = job[k]
    BY <1>0, <1>5 DEF RouteCmd, Idle
  <2> QED BY <1>0, <2>1, <2>2 DEF Neither, Entering
<1>6. ASSUME UNCHANGED job, size' \in {size, size - 1} PROVE Neither
  BY <1>0, <1>6 DEF Neither, Entering
<1>7. ASSUME WorkerStep PROVE UNCHANGED job /\ size' \in {size, size - 1}
  BY <1>7 DEF WorkerStep, Handle, Visit, CheckDepose, Poll, CloseRoom, KickOff, KickRemove, Remove,
       KickTell, Logout, StartChatting, Unsupported, Broadcast, Finish
<1>8. ASSUME NEW c \in Characters, CharacterStep(c) PROVE UNCHANGED <<job, size>>
  BY <1>8 DEF CharacterStep, GoOffline, GoOnline, RouteElsewhere
<1>9. ASSUME NEW m \in {"factory", "worker"}, SweepStep(m) PROVE UNCHANGED <<job, size>>
  BY <1>9 DEF SweepStep, Sweep, Publish
<1>10. ASSUME UNCHANGED vars PROVE UNCHANGED <<job, size>>
  BY <1>10 DEF vars
<1> QED
  BY <1>1, <1>2, <1>3, <1>4, <1>5, <1>6, <1>7, <1>8, <1>9, <1>10
     DEF Next, TaskStep, TaskBegin

(* An empty room is below its limit.                                       *)
LEMMA OvershootInit == Init => OvershootBounded
<1> SUFFICES ASSUME Init PROVE OvershootBounded
  OBVIOUS
<1>1. PICK l \in Loops : job = [k \in Loops |-> IF k = l
                                THEN [Idle EXCEPT !.at = "create", !.creates = TRUE]
                                ELSE Idle]
  BY Zenon DEF Init
<1>2. Entering = {}
  BY <1>1 DEF Entering, Idle
<1>3. Cardinality(Entering) = 0 /\ Cardinality(Loops) \in Nat /\ Cardinality(Loops) # 0
  BY <1>1, <1>2, LoopsAssumption, FS_EmptySet, FS_CardinalityType
<1>4. size = 0
  BY DEF Init
<1> QED BY <1>3, <1>4, CapacityAssumption DEF OvershootBounded

(* A check admits one more, an insertion turns it into a count.            *)
LEMMA OvershootNext == Typed /\ OvershootBounded /\ [Next]_vars => OvershootBounded'
<1> SUFFICES ASSUME Typed, OvershootBounded, [Next]_vars PROVE OvershootBounded'
  OBVIOUS
<1>1. /\ IsFiniteSet(Entering) /\ Cardinality(Entering) \in Nat
      /\ Cardinality(Loops) \in Nat /\ size \in Int /\ size' \in Int /\ Capacity \in Nat
  BY LoopsAssumption, CapacityAssumption, TypedNext, FS_Subset, FS_CardinalityType
     DEF Entering, Typed, TypeOK
<1>2. ASSUME NEW l \in Loops, Opens(l) PROVE OvershootBounded'
  <2>1. /\ IsFiniteSet(Entering') /\ Cardinality(Entering') \in Nat
        /\ Cardinality(Entering') <= Cardinality(Loops)
    BY LoopsAssumption, FS_Subset, FS_CardinalityType DEF Entering
  <2>2. 4 * size < 3 * Capacity /\ size' = size
    BY <1>1, <1>2 DEF Opens, IsFull
  <2> QED BY <1>1, <2>1, <2>2 DEF OvershootBounded
<1>3. ASSUME NEW l \in Loops, Closes(l) PROVE OvershootBounded'
  <2>1. Cardinality(Entering') = Cardinality(Entering) - 1
    BY <1>1, <1>3, FS_RemoveElement DEF Closes
  <2> QED BY <1>1, <1>3, <2>1 DEF OvershootBounded, Closes
<1>4. ASSUME Neither PROVE OvershootBounded'
  BY <1>1, <1>4 DEF OvershootBounded, Neither
<1> QED BY <1>2, <1>3, <1>4, EnteringSteps

(* The overshoot is bounded for every number of event loops and every      *)
(* capacity, also when the map's own count has been corrupted by a race.   *)
THEOREM RoomOvershootBounded == Spec => []OvershootBounded
<1> DEFINE IInv == Typed /\ OvershootBounded
<1>1. Init => IInv
  BY TypedInit, OvershootInit
<1>2. IInv /\ [Next]_vars => IInv'
  BY TypedNext, OvershootNext
<1>3. Spec => []IInv
  BY <1>1, <1>2, PTL DEF Spec
<1> QED BY <1>3, PTL

-----------------------------------------------------------------------------
(* The count is exact.                                                     *)

(* Every step keeps the count exact, or is a race.                         *)
LEMMA SizeExactNext ==
  Typed /\ SizeExactUnlessRaced /\ [Next]_vars => SizeExactUnlessRaced'
<1> SUFFICES ASSUME Typed, SizeExactUnlessRaced, [Next]_vars, ~raced'
             PROVE  size' = Cardinality(members')
  BY DEF SizeExactUnlessRaced
<1>1. /\ IsFiniteSet(members) /\ Cardinality(members) \in Nat /\ raced \in BOOLEAN
  BY CharactersAssumption, FS_Subset, FS_CardinalityType DEF Typed, TypeOK
<1>2. ASSUME NEW l \in Loops, EnterPut(l) PROVE size' = Cardinality(members')
  <2>1. CASE job[l].chr \in members
    BY <1>2, <2>1 DEF EnterPut, Put, SizeExactUnlessRaced
  <2>2. CASE job[l].chr \notin members
    <3>1. ~raced /\ ~OverlapsLoop(l)
      BY <1>2, <2>2 DEF EnterPut, Put
    <3>2. members' = members \cup {job[l].chr} /\ size' = size + 1
      BY <1>2, <2>2, <3>1 DEF EnterPut, Put
    <3> QED BY <1>1, <2>2, <3>1, <3>2, FS_AddElement DEF SizeExactUnlessRaced
  <2> QED BY <2>1, <2>2
<1>3. ASSUME KickRemove PROVE size' = Cardinality(members')
  <2>1. CASE Removing
    <3>1. ~raced /\ ~OverlapsWorker
      BY <1>3, <2>1 DEF KickRemove, Remove
    <3>2. members' = members \ {Cmd.target} /\ size' = size - 1 /\ Cmd.target \in members
      BY <1>3, <2>1, <3>1 DEF KickRemove, Remove, Removing
    <3> QED BY <1>1, <3>1, <3>2, FS_RemoveElement DEF SizeExactUnlessRaced
  <2>2. CASE ~Removing
    BY <1>3, <2>2 DEF KickRemove, SizeExactUnlessRaced
  <2> QED BY <2>1, <2>2
<1>4. \/ KickRemove \/ \E l \in Loops : EnterPut(l)
      \/ UNCHANGED <<members, size>> /\ ~raced
  BY <1>1 DEF Next, TaskStep, TaskBegin, WorkerStep, CharacterStep, Handle, vars, CreatorEnters,
         EnterBegin, EnterReply, EnterAnnounce, Host, Confirm, RouteCmd, OfferCmd, GoOffline,
         GoOnline, RouteElsewhere, Visit, CheckDepose, Poll, CloseRoom, KickOff, KickTell, Logout,
         StartChatting, Unsupported, Broadcast, Finish, SweepStep, Sweep, Publish
<1> QED BY <1>2, <1>3, <1>4 DEF SizeExactUnlessRaced

(* The count the capacity check reads is exact until two operations on the *)
(* map overlap, for every set of characters and loops.                     *)
THEOREM RoomSizeExactUnlessRaced == Spec => []SizeExactUnlessRaced
<1> DEFINE IInv == Typed /\ SizeExactUnlessRaced
<1>1. Init => IInv
  BY TypedInit, FS_EmptySet DEF Init, SizeExactUnlessRaced
<1>2. IInv /\ [Next]_vars => IInv'
  BY TypedNext, SizeExactNext
<1>3. Spec => []IInv
  BY <1>1, <1>2, PTL DEF Spec
<1> QED BY <1>3, PTL

-----------------------------------------------------------------------------
(* The states of the room.                                                 *)

(* Only a poll and the end of a pass touch the states.                     *)
LEMMA StageSteps ==
  ASSUME [Next]_vars
  PROVE  Poll \/ Finish \/ UNCHANGED <<current, inited, pair, done>>
BY DEF Next, TaskStep, TaskBegin, WorkerStep, CharacterStep, Handle, vars, CreatorEnters,
       EnterBegin, EnterPut, EnterReply, EnterAnnounce, Host, Confirm, RouteCmd, OfferCmd,
       GoOffline, GoOnline, RouteElsewhere, Visit, CheckDepose, CloseRoom, KickOff, KickRemove,
       KickTell, Logout, StartChatting, Unsupported, Broadcast, SweepStep, Sweep, Publish

(* finish of a state answers a state.                                      *)
LEMMA NextStageIsStage ==
  ASSUME done \in Nat, current = Stage(done) PROVE NextStage = Stage(done + 1)
<1>1. done = 0 \/ done = 1 \/ done = 2 \/ done >= 3
  OBVIOUS
<1> QED BY <1>1 DEF Stage, Stages, NextStage

(* The states that handle commands are the first three.                    *)
LEMMA InRoomIsEarly ==
  ASSUME done \in Nat, current = Stage(done) PROVE InRoom <=> done < 3
<1>1. done = 0 \/ done = 1 \/ done = 2 \/ done >= 3
  OBVIOUS
<1> QED BY <1>1 DEF Stage, Stages, InRoom

Staged == Queued /\ StageFollowsCount

(* The room starts waiting, with nothing initialised.                      *)
LEMMA StagedInit == Init => Staged
<1> SUFFICES ASSUME Init PROVE StageFollowsCount
  BY QueuedInit DEF Staged
<1>1. current = "waiting" /\ inited = {} /\ done = 0 /\ pair = <<>>
  BY DEF Init
<1> QED BY <1>1 DEF StageFollowsCount, Stage, Stages

(* Every step keeps the number of commands and the state together.         *)
LEMMA StagedNext == Staged /\ [Next]_vars => Staged'
<1> SUFFICES ASSUME Staged, [Next]_vars PROVE StageFollowsCount'
  BY QueuedNext DEF Staged
<1>1. /\ done \in Nat /\ Len(pair) = (IF wpc \in Serving THEN 1 ELSE 0)
      /\ queue \in Seq(Pairs)
  BY DEF Staged, Queued, Typed, TypeOK, Shape
<1>2. current = Stage(done) /\ inited = {Stage(n) : n \in 0..(done + Len(pair) - 1)}
  BY DEF Staged, StageFollowsCount
<1>3. ASSUME Poll, queue # <<>> PROVE StageFollowsCount'
  <2>1. /\ inited' = inited \cup {current} /\ pair' = <<Head(queue)>>
        /\ UNCHANGED <<current, done>> /\ wpc = "poll"
    BY <1>3 DEF Poll
  <2>2. Len(pair) = 0 /\ Len(pair') = 1
    BY <1>1, <2>1 DEF Serving
  <2>3. 0..(done + 1 - 1) = 0..(done + 0 - 1) \cup {done}
    BY <1>1
  <2>4. inited' = {Stage(n) : n \in 0..(done + 1 - 1)}
    BY <1>2, <2>1, <2>2, <2>3
  <2> QED BY <1>2, <2>1, <2>2, <2>4 DEF StageFollowsCount, Stage
<1>4. ASSUME Poll, queue = <<>> PROVE StageFollowsCount'
  <2>1. UNCHANGED <<current, inited, pair, done>>
    BY <1>4 DEF Poll
  <2> QED BY <1>2, <2>1 DEF StageFollowsCount, Stage
<1>5. ASSUME Finish PROVE StageFollowsCount'
  <2>1. /\ current' = NextStage /\ done' = done + 1 /\ pair' = <<>>
        /\ UNCHANGED inited /\ wpc = "finish"
    BY <1>5 DEF Finish
  <2>2. Len(pair) = 1 /\ Len(pair') = 0
    BY <1>1, <2>1 DEF Serving
  <2>3. done' + Len(pair') - 1 = done + Len(pair) - 1
    BY <1>1, <2>1, <2>2
  <2>4. current' = Stage(done')
    BY <1>1, <1>2, <2>1, NextStageIsStage
  <2> QED BY <1>2, <2>1, <2>3, <2>4 DEF StageFollowsCount, Stage
<1>6. ASSUME UNCHANGED <<current, inited, pair, done>> PROVE StageFollowsCount'
  BY <1>2, <1>6 DEF StageFollowsCount, Stage
<1> QED BY <1>3, <1>4, <1>5, <1>6, StageSteps

(* The number of finished commands decides the state of every room.        *)
THEOREM RoomStageFollowsCount == Spec => []StageFollowsCount
<1>1. Spec => []Staged
  BY StagedInit, StagedNext, PTL DEF Spec
<1> QED BY <1>1, PTL DEF Staged

-----------------------------------------------------------------------------
(* Closing.                                                                *)

(* Steps other than a handler, the end of a pass or an accepted command    *)
(* change neither the log nor how many of its commands were handled.       *)
LEMMA HandledSteps ==
  ASSUME [Next]_vars
  PROVE  \/ Handle \/ Finish \/ \E l \in Loops : OfferCmd(l)
         \/ UNCHANGED <<isClosed, log>> /\ Handled' = Handled
BY DEF Next, TaskStep, TaskBegin, WorkerStep, CharacterStep, vars, CreatorEnters, EnterBegin,
       EnterPut, EnterReply, EnterAnnounce, Host, Confirm, RouteCmd, GoOffline, GoOnline,
       RouteElsewhere, Visit, CheckDepose, Poll, KickRemove, KickTell, Broadcast, SweepStep,
       Sweep, Publish, Handled

(* Every step keeps the room closed exactly by its creator.                *)
LEMMA ClosedNext ==
  Staged /\ ClosedExactlyByMaster /\ [Next]_vars => ClosedExactlyByMaster'
<1> SUFFICES ASSUME Staged, ClosedExactlyByMaster, [Next]_vars PROVE ClosedExactlyByMaster'
  OBVIOUS
<1>1. /\ done \in Nat /\ log \in Seq(Pairs) /\ pair \in Seq(Pairs)
      /\ Len(log) \in Nat /\ Len(queue) \in Nat /\ isClosed \in BOOLEAN
      /\ Len(pair) = (IF wpc \in Serving THEN 1 ELSE 0)
      /\ Len(log) = done + Len(pair) + Len(queue)
      /\ \A i \in 1..Len(pair) : pair[i] = log[done + i]
  BY DEF Staged, Queued, Typed, TypeOK, Shape, QueueIsFifo
<1>2. Handled \in Nat /\ Handled <= Len(log)
  BY <1>1 DEF Handled, Serving
<1>3. ASSUME NEW l \in Loops, OfferCmd(l) PROVE ClosedExactlyByMaster'
  <2>1. UNCHANGED <<isClosed, done, wpc>>
    BY <1>3 DEF OfferCmd
  <2>2. Handled' = Handled
    BY <2>1 DEF Handled
  <2>3. \A n \in 1..Handled : log'[n] = log[n]
    <3> DEFINE new == [chr |-> job[l].chr, cmd |-> job[l].cmd]
    <3>1. log' = Append(log, new) \/ log' = log
      BY <1>3 DEF OfferCmd
    <3>2. \A n \in 1..Handled : n \in 1..Len(log)
      BY <1>1, <1>2
    <3> HIDE DEF new
    <3>3. log \in Seq(Pairs)
      BY <1>1
    <3>4. \A n \in 1..Len(log) : log'[n] = log[n]
      BY <3>1, <3>3
    <3> QED BY <3>2, <3>4
  <2> QED BY <1>2, <2>1, <2>2, <2>3 DEF ClosedExactlyByMaster
<1>4. ASSUME Handle PROVE ClosedExactlyByMaster'
  <2>1. wpc = "handle" /\ wpc' \in {"remove", "broadcast", "finish"} /\ UNCHANGED <<log, done>>
    BY <1>4 DEF Handle, CloseRoom, KickOff, Logout, StartChatting, Unsupported
  <2>2. Handled = done /\ Handled' = done + 1
    BY <1>1, <2>1 DEF Handled
  <2>3. pair[1] = log[done + 1]
    BY <1>1, <2>1 DEF Serving
  <2>4. isClosed' <=> \/ isClosed
                      \/ InRoom /\ Cmd.type = "CLOSE_ROOM" /\ Sender = Master
    <3>1. CASE CloseRoom
      BY <1>1, <3>1 DEF CloseRoom
    <3>2. CASE KickOff \/ Logout \/ StartChatting \/ Unsupported
      BY <1>1, <3>2 DEF KickOff, Logout, StartChatting, Unsupported
    <3> QED BY <1>4, <3>1, <3>2 DEF Handle
  <2>5. InRoom <=> done < 3
    BY <1>1, InRoomIsEarly DEF Staged, StageFollowsCount
  <2>6. isClosed' <=> \/ isClosed
                      \/ /\ done < 3 /\ log[done + 1].chr = Master
                         /\ log[done + 1].cmd.type = "CLOSE_ROOM"
    <3>1. Cmd = log[done + 1].cmd /\ Sender = log[done + 1].chr
      BY <2>3 DEF Cmd, Sender
    <3> QED BY <2>4, <2>5, <3>1, Zenon
  <2> DEFINE Close(n) == log[n].chr = Master /\ log[n].cmd.type = "CLOSE_ROOM"
  <2>7. isClosed <=> \E n \in 1..3 : n <= done /\ Close(n)
    BY <2>2 DEF ClosedExactlyByMaster
  <2>8. isClosed' <=> isClosed \/ (done < 3 /\ Close(done + 1))
    BY <2>6
  <2> HIDE DEF Close
  <2>9. isClosed' <=> \E n \in 1..3 : n <= done + 1 /\ Close(n)
    <3>1. CASE done < 3
      <4>1. \A n \in 1..3 : n <= done + 1 <=> n <= done \/ n = done + 1
        BY <1>1
      <4>2. done + 1 \in 1..3 /\ done + 1 <= done + 1
        BY <1>1, <3>1
      <4> QED BY <2>7, <2>8, <3>1, <4>1, <4>2, Zenon
    <3>2. CASE ~(done < 3)
      <4>1. \A n \in 1..3 : n <= done + 1 /\ n <= done
        BY <1>1, <3>2
      <4> QED BY <2>7, <2>8, <3>2, <4>1, Zenon
    <3> QED BY <3>1, <3>2
  <2> QED BY <2>1, <2>2, <2>9 DEF ClosedExactlyByMaster, Close
<1>5. ASSUME Finish PROVE ClosedExactlyByMaster'
  <2>1. UNCHANGED <<isClosed, log>> /\ Handled' = Handled
    BY <1>1, <1>5 DEF Finish, Handled
  <2> QED BY <2>1 DEF ClosedExactlyByMaster
<1>6. ASSUME UNCHANGED <<isClosed, log>>, Handled' = Handled PROVE ClosedExactlyByMaster'
  BY <1>6 DEF ClosedExactlyByMaster
<1> QED BY <1>3, <1>4, <1>5, <1>6, HandledSteps

(* A room is closed exactly when its creator's CLOSE_ROOM was among its    *)
(* first three commands.                                                   *)
THEOREM RoomClosedExactlyByMaster == Spec => []ClosedExactlyByMaster
<1> DEFINE IInv == Staged /\ ClosedExactlyByMaster
<1>1. Init => IInv
  <2> SUFFICES ASSUME Init PROVE ClosedExactlyByMaster
    BY StagedInit
  <2>1. isClosed = FALSE /\ Handled = 0
    BY DEF Init, Handled
  <2>2. ~ \E n \in 1..3 : n <= Handled
    BY <2>1
  <2> QED BY <2>1, <2>2, Zenon DEF ClosedExactlyByMaster
<1>2. IInv /\ [Next]_vars => IInv'
  BY StagedNext, ClosedNext
<1>3. Spec => []IInv
  BY <1>1, <1>2, PTL DEF Spec
<1> QED BY <1>3, PTL

-----------------------------------------------------------------------------
(* Who disappears.  The worker is about to remove only after it has        *)
(* checked the command, and nothing moves the command from under it.       *)

KickPc == wpc = "remove" => InRoom /\ MayKick /\ Cmd.type = "KICK_OFF"

(* What clickOutCharacter has checked still holds at its removal.          *)
LEMMA KickPcNext == KickPc /\ [Next]_vars => KickPc'
<1> SUFFICES ASSUME KickPc, [Next]_vars PROVE KickPc'
  OBVIOUS
<1>1. KickOff \/ wpc' # "remove" \/ UNCHANGED <<wpc, pair, current>>
  BY DEF Next, TaskStep, TaskBegin, WorkerStep, CharacterStep, Handle, vars, CreatorEnters,
         EnterBegin, EnterPut, EnterReply, EnterAnnounce, Host, Confirm, RouteCmd, OfferCmd,
         GoOffline, GoOnline, RouteElsewhere, Visit, CheckDepose, Poll, CloseRoom, KickRemove,
         KickTell, Logout, StartChatting, Unsupported, Broadcast, Finish, SweepStep, Sweep, Publish
<1>2. CASE KickOff
  BY <1>2 DEF KickOff, KickPc, InRoom, MayKick, Sender, Cmd
<1>3. CASE UNCHANGED <<wpc, pair, current>>
  BY <1>3 DEF KickPc, InRoom, MayKick, Sender, Cmd
<1> QED BY <1>1, <1>2, <1>3 DEF KickPc

\* What OnlyKickRemoves says of one step.
KickedByMaster(c) ==
    /\ c # Master
    /\ done < 3
    /\ log[done + 1] = [chr |-> Master, cmd |-> [type |-> "KICK_OFF", target |-> c]]

(* A step that removes a member is the removal of a kick.                  *)
LEMMA OnlyKickStep ==
  Staged /\ KickPc /\ [Next]_vars => \A c \in members \ members' : KickedByMaster(c)
<1> SUFFICES ASSUME Staged, KickPc, [Next]_vars, NEW c \in members \ members'
             PROVE  KickedByMaster(c)
  OBVIOUS
<1>1. CASE KickRemove /\ Removing
  <2>1. wpc = "remove" /\ c = Cmd.target
    BY <1>1 DEF KickRemove, Remove
  <2>2. InRoom /\ Sender = Master /\ Cmd.target # Master /\ Cmd.type = "KICK_OFF"
    BY <2>1 DEF KickPc, MayKick
  <2>3. pair[1] = log[done + 1] /\ pair[1] \in Pairs
    <3>1. Len(pair) = 1 /\ pair \in Seq(Pairs) /\ \A i \in 1..Len(pair) : pair[i] = log[done + i]
      BY <2>1 DEF Staged, Queued, Typed, TypeOK, Shape, Serving, QueueIsFifo
    <3>2. 1 \in 1..Len(pair)
      BY <3>1
    <3>3. pair[1] \in Pairs
      BY <3>1, <3>2
    <3> QED BY <3>1, <3>2, <3>3
  <2>4. pair[1] = [chr |-> Sender, cmd |-> Cmd] /\ Cmd \in Cmds
    BY <2>3 DEF Pairs, Sender, Cmd
  <2>5. Cmd = [type |-> Cmd.type, target |-> Cmd.target]
    BY <2>4, CmdsAssumption DEF Commands
  <2>6. done < 3
    BY <2>2, InRoomIsEarly DEF Staged, StageFollowsCount, Queued, Typed, TypeOK
  <2>7. log[done + 1] = [chr |-> Master, cmd |-> [type |-> "KICK_OFF", target |-> c]]
    BY <2>1, <2>2, <2>3, <2>4, <2>5
  <2> QED BY <2>1, <2>2, <2>6, <2>7 DEF KickedByMaster
<1>2. ASSUME NEW l \in Loops, EnterPut(l) PROVE FALSE
  BY <1>2 DEF EnterPut, Put
<1>3. (KickRemove /\ Removing) \/ (\E l \in Loops : EnterPut(l)) \/ UNCHANGED members
  BY DEF Next, TaskStep, TaskBegin, WorkerStep, CharacterStep, Handle, vars, CreatorEnters,
         EnterBegin, EnterReply, EnterAnnounce, Host, Confirm, RouteCmd, OfferCmd, GoOffline,
         GoOnline, RouteElsewhere, Visit, CheckDepose, Poll, CloseRoom, KickOff, KickRemove,
         KickTell, Logout, StartChatting, Unsupported, Broadcast, Finish, SweepStep, Sweep, Publish
<1> QED BY <1>1, <1>2, <1>3

(* Nobody disappears from a room but by the creator's kick among the first *)
(* three commands, and the creator never does.                             *)
THEOREM RoomOnlyKickRemoves == Spec => OnlyKickRemoves
<1> DEFINE IInv == Staged /\ KickPc
           Act == \A c \in members \ members' : KickedByMaster(c)
<1>1. Init => IInv
  BY StagedInit DEF Init, KickPc
<1>2. IInv /\ [Next]_vars => IInv'
  BY StagedNext, KickPcNext
<1>3. IInv /\ [Next]_vars => [Act]_vars
  BY OnlyKickStep
<1>4. Spec => [][Act]_vars
  <2> HIDE DEF IInv, Act
  <2> QED BY <1>1, <1>2, <1>3, PTL DEF Spec
<1> QED BY <1>4 DEF OnlyKickRemoves, KickedByMaster

-----------------------------------------------------------------------------
(* The room's queue implements the mailbox.                                *)

USE DEF AsMailbox!mailboxVars

(* Initial states map to initial states of the mailbox.                    *)
LEMMA MailboxInit == Init => AsMailbox!Init
BY DEF Init, AsMailbox!Init

(* A step of the room is a step of the mailbox or stutters.                *)
LEMMA MailboxStep ==
  Queued /\ [Next]_vars => [AsMailbox!Next]_(AsMailbox!mailboxVars)
<1> SUFFICES ASSUME Queued, [Next]_vars PROVE [AsMailbox!Next]_(AsMailbox!mailboxVars)
  OBVIOUS
<1>1. /\ queue \in Seq(Pairs) /\ log \in Seq(Pairs) /\ done \in Nat
      /\ Len(queue) \in Nat /\ Len(log) \in Nat
      /\ pair \in Seq(Pairs) /\ Len(pair) = (IF wpc \in Serving THEN 1 ELSE 0)
      /\ Len(log) = done + Len(pair) + Len(queue)
      /\ \A i \in 1..Len(queue) : queue[i] = log[done + Len(pair) + i]
  BY DEF Queued, Typed, TypeOK, Shape, QueueIsFifo
<1>2. ASSUME NEW l \in Loops, OfferCmd(l), Len(queue) < QueueCapacity
      PROVE  \E item \in Pairs : AsMailbox!Accept(item)
  <2> DEFINE new == [chr |-> job[l].chr, cmd |-> job[l].cmd]
  <2>1. new \in Pairs
    BY <1>2 DEF OfferCmd, Queued, Typed, OfferHasCmd, TypeOK, Jobs, Pairs
  <2>2. log' = Append(log, new) /\ UNCHANGED <<done, pair>>
    BY <1>2 DEF OfferCmd
  <2> HIDE DEF new
  <2>3. Len(log) - done - Len(pair) < QueueCapacity
    BY <1>1, <1>2
  <2> QED BY <2>1, <2>2, <2>3 DEF AsMailbox!Accept, AsMailbox!Waiting
<1>3. ASSUME Poll, queue # <<>> PROVE AsMailbox!Take
  <2>1. pair' = <<Head(queue)>> /\ UNCHANGED <<log, done>> /\ wpc = "poll"
    BY <1>3 DEF Poll
  <2>2. Len(pair) = 0 /\ pair = <<>>
    BY <1>1, <2>1 DEF Serving
  <2>3. Len(queue) >= 1 /\ Head(queue) = queue[1]
    BY <1>1, <1>3
  <2>4. done < Len(log) /\ Head(queue) = log[done + 1]
    BY <1>1, <2>2, <2>3
  <2> QED BY <2>1, <2>2, <2>4 DEF AsMailbox!Take
<1>4. ASSUME Finish PROVE AsMailbox!Finish
  <2>1. pair' = <<>> /\ done' = done + 1 /\ UNCHANGED log /\ wpc = "finish"
    BY <1>4 DEF Finish
  <2>2. Len(pair) = 1
    BY <1>1, <2>1 DEF Serving
  <2>3. pair # <<>>
    BY <2>2
  <2> QED BY <2>1, <2>3 DEF AsMailbox!Finish
<1>5. ASSUME UNCHANGED <<log, done, pair>> PROVE UNCHANGED AsMailbox!mailboxVars
  BY <1>5
<1>6. \/ \E l \in Loops : OfferCmd(l) /\ Len(queue) < QueueCapacity
      \/ Poll /\ queue # <<>>
      \/ Finish
      \/ UNCHANGED <<log, done, pair>>
  BY QueueSteps DEF OfferCmd, Poll
<1> QED BY <1>2, <1>3, <1>4, <1>5, <1>6 DEF AsMailbox!Next

(* Every behaviour of the room is, seen through what was accepted, what is *)
(* finished and what is in service, a behaviour of the mailbox.            *)
THEOREM RoomImplementsMailbox == Spec => MailboxSpec
<1>1. Spec => []Queued
  BY QueuedInit, QueuedNext, PTL DEF Spec
<1>2. Init /\ []Queued /\ [][Next]_vars => AsMailbox!Init /\ [][AsMailbox!Next]_(AsMailbox!mailboxVars)
  BY MailboxInit, MailboxStep, PTL
<1> QED BY <1>1, <1>2, PTL DEF Spec, MailboxSpec, AsMailbox!Spec
=============================================================================
