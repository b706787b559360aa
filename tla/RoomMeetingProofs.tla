------------------------- MODULE RoomMeetingProofs -------------------------
(***************************************************************************)
(* Proofs about who is in the room: that everybody is introduced to        *)
(* everybody, and that a room with somebody in it stays where it is.       *)
(***************************************************************************)
EXTENDS RoomProofs

USE DEF roomVars, stateVars, workVars, homeVars, histVars

-----------------------------------------------------------------------------
(* Introductions.  Of two members one has been shown the other, or will be *)
(* by a traversal that is still to come: that of his own reply, or that of *)
(* the other's announcement.                                               *)

Replying(c) == \E l \in Loops : job[l].chr = c /\ job[l].at = "reply"
Arriving(c) == \E l \in Loops : job[l].chr = c /\ job[l].at \in {"reply", "announce"}
Met(c, d) == d \in known[c] \/ Replying(c) \/ Arriving(d)

AwakeOnline == Characters \ Flaky \subseteq online
Meeting == ~raced => \A c, d \in members \ Flaky : c # d => Met(c, d)

\* What most steps leave alone.
Undisturbed ==
    /\ members' \subseteq members
    /\ raced => raced'
    /\ \A c \in Characters : known[c] \subseteq known'[c]
    /\ \A l \in Loops : job[l].at \in {"reply", "announce"} =>
          job'[l].chr = job[l].chr /\ job'[l].at = job[l].at

(* The job of a loop that goes on or ends, and nobody else's.              *)
LEMMA GotoJob ==
  ASSUME Typed, NEW l \in Loops, NEW stage, Goto(l, stage)
  PROVE  /\ job'[l].at = stage /\ job'[l].chr = job[l].chr /\ job'[l].cmd = job[l].cmd
         /\ job'[l].creates = job[l].creates
         /\ \A k \in Loops \ {l} : job'[k] = job[k]
BY DEF Goto, Typed, TypeOK, Jobs

(* A loop whose task is over stands where it does nothing.                 *)
LEMMA EndJob ==
  ASSUME Typed, NEW l \in Loops, End(l)
  PROVE  job'[l] = Idle /\ \A k \in Loops \ {l} : job'[k] = job[k]
BY DEF End, Typed, TypeOK

(* Sessions close only of characters that may close them.                  *)
LEMMA AwakeNext == AwakeOnline /\ [Next]_vars => AwakeOnline'
<1>1. ASSUME AwakeOnline, NEW c \in Characters, GoOffline(c) PROVE AwakeOnline'
  BY <1>1 DEF AwakeOnline, GoOffline
<1>2. ASSUME [Next]_vars
      PROVE  online \subseteq online' \/ \E c \in Characters : GoOffline(c)
  BY <1>2 DEF Next, TaskStep, TaskBegin, WorkerStep, CharacterStep, Handle, vars, CreatorEnters,
       EnterBegin, EnterPut, EnterReply, EnterAnnounce, Host, Confirm, RouteCmd, OfferCmd,
       GoOnline, RouteElsewhere, Visit, CheckDepose, Poll, CloseRoom, KickOff, KickRemove,
       KickTell, Logout, StartChatting, Unsupported, Broadcast, Finish, SweepStep, Sweep, Publish
<1> QED BY <1>1, <1>2 DEF AwakeOnline

(* Only the three steps of entering touch what members have been shown or  *)
(* are still going to be shown.                                            *)
LEMMA UndisturbedSteps ==
  ASSUME Typed, [Next]_vars
  PROVE  \/ \E l \in Loops : EnterPut(l) \/ EnterReply(l) \/ EnterAnnounce(l)
         \/ Undisturbed
<1> USE DEF Typed
<1>1. ASSUME NEW l \in Loops, CreatorEnters(l) \/ Host(l) PROVE Undisturbed
  <2>1. /\ job[l].at \in {"create", "host"} /\ UNCHANGED <<members, raced, known>>
        /\ \E stage \in JobStages : Goto(l, stage)
    BY <1>1 DEF CreatorEnters, Host, JobStages
  <2> QED BY <2>1, GotoJob DEF Undisturbed
<1>2. ASSUME NEW l \in Loops, NEW c \in Characters,
             EnterBegin(l, c) \/ \E cmd \in Cmds : RouteCmd(l, c, cmd)
      PROVE  Undisturbed
  <2>1. /\ job[l].at = "idle" /\ UNCHANGED <<members, raced, known>>
        /\ \A k \in Loops \ {l} : job'[k] = job[k]
    BY <1>2 DEF EnterBegin, RouteCmd, TypeOK
  <2> QED BY <2>1 DEF Undisturbed
<1>3. ASSUME NEW l \in Loops, OfferCmd(l) PROVE Undisturbed
  <2>1. job[l].at = "offer" /\ UNCHANGED <<members, raced, known>> /\ End(l)
    BY <1>3 DEF OfferCmd
  <2> QED BY <2>1, EndJob DEF Undisturbed
<1>4. ASSUME NEW l \in Loops, Confirm(l) PROVE Undisturbed
  <2>1. job[l].at = "confirm" /\ UNCHANGED members /\ (raced => raced') /\ End(l)
    BY <1>4 DEF Confirm
  <2>2. \A c \in Characters : known[c] \subseteq known'[c]
    BY <1>4 DEF Confirm, TypeOK
  <2> QED BY <2>1, <2>2, EndJob DEF Undisturbed
<1>5. ASSUME WorkerStep \/ (\E c \in Characters : CharacterStep(c))
             \/ (\E m \in {"factory", "worker"} : SweepStep(m)) \/ UNCHANGED vars
      PROVE  Undisturbed
  <2>1. UNCHANGED <<job, known>>
    BY <1>5 DEF WorkerStep, CharacterStep, Handle, vars, GoOffline, GoOnline, RouteElsewhere,
         Visit, CheckDepose, Poll, CloseRoom, KickOff, KickRemove, KickTell, Logout,
         StartChatting, Unsupported, Broadcast, Finish, SweepStep, Sweep, Publish
  <2>2. UNCHANGED members \/ KickRemove
    BY <1>5 DEF WorkerStep, CharacterStep, Handle, vars, GoOffline, GoOnline, RouteElsewhere,
         Visit, CheckDepose, Poll, CloseRoom, KickOff, KickTell, Logout,
         StartChatting, Unsupported, Broadcast, Finish, SweepStep, Sweep, Publish
  <2>3. raced => raced'
    BY <1>5 DEF WorkerStep, CharacterStep, Handle, vars, GoOffline, GoOnline, RouteElsewhere,
         Visit, CheckDepose, Poll, CloseRoom, KickOff, KickRemove, Remove, KickTell, Logout,
         StartChatting, Unsupported, Broadcast, Finish, SweepStep, Sweep, Publish
  <2>4. KickRemove => members' \subseteq members
    BY DEF KickRemove, Remove
  <2> QED BY <2>1, <2>2, <2>3, <2>4 DEF Undisturbed
<1> QED BY <1>1, <1>2, <1>3, <1>4, <1>5 DEF Next, TaskStep, TaskBegin

(* Every step keeps members who have met or are about to.                  *)
LEMMA MeetingNext == Typed /\ AwakeOnline /\ Meeting /\ [Next]_vars => Meeting'
<1> SUFFICES ASSUME Typed, AwakeOnline, Meeting, [Next]_vars, ~raced',
                    NEW c \in members' \ Flaky, NEW d \in members' \ Flaky, c # d
             PROVE  Met(c, d)'
  BY DEF Meeting
<1>0. /\ job \in [Loops -> Jobs] /\ known \in [Characters -> SUBSET Characters]
      /\ members \subseteq Characters
  BY DEF Typed, TypeOK
<1>1. ASSUME NEW l \in Loops, EnterPut(l) PROVE Met(c, d)'
  <2>1. /\ job[l].at = "put" /\ job'[l].at = "reply" /\ job'[l].chr = job[l].chr
        /\ \A k \in Loops \ {l} : job'[k] = job[k]
        /\ UNCHANGED known
    BY <1>1, GotoJob DEF EnterPut
  <2>2. ~raced /\ members' \subseteq members \cup {job[l].chr}
    BY <1>1 DEF EnterPut, Put
  <2>3. CASE job[l].chr \in {c, d}
    BY <2>1, <2>3 DEF Met, Replying, Arriving
  <2>4. CASE job[l].chr \notin {c, d}
    <3>1. Met(c, d)
      BY <2>2, <2>4 DEF Meeting
    <3> QED BY <2>1, <3>1 DEF Met, Replying, Arriving
  <2> QED BY <2>3, <2>4
<1>2. ASSUME NEW l \in Loops, EnterReply(l) PROVE Met(c, d)'
  <2>1. ~OverlapsLoop(l) /\ ~raced /\ job[l].at = "reply" /\ UNCHANGED members
    BY <1>2 DEF EnterReply
  <2>2. Goto(l, "announce") /\ known' = [known EXCEPT ![job[l].chr] = @ \cup Present]
    BY <1>2, <2>1 DEF EnterReply
  <2>3. /\ job'[l].at = "announce" /\ job'[l].chr = job[l].chr
        /\ \A k \in Loops \ {l} : job'[k] = job[k]
    BY <2>2, GotoJob
  <2>4. Met(c, d) /\ d \in Present /\ c \in Characters
    BY <1>0, <2>1 DEF Meeting, Present, AwakeOnline
  <2>5. known[c] \subseteq known'[c] /\ (job[l].chr = c => d \in known'[c])
    BY <1>0, <2>2, <2>4
  <2>6. CASE d \in known[c]
    BY <2>5, <2>6 DEF Met
  <2>7. CASE Replying(c)
    BY <2>3, <2>5, <2>7 DEF Met, Replying
  <2>8. CASE Arriving(d)
    BY <2>3, <2>8 DEF Met, Arriving
  <2> QED BY <2>4, <2>6, <2>7, <2>8 DEF Met
<1>3. ASSUME NEW l \in Loops, EnterAnnounce(l) PROVE Met(c, d)'
  <2>1. ~OverlapsLoop(l) /\ ~raced /\ job[l].at = "announce" /\ UNCHANGED members
    BY <1>3 DEF EnterAnnounce
  <2>2. known' = [o \in Characters |-> IF o \in Present \ {job[l].chr}
                                       THEN known[o] \cup {job[l].chr} ELSE known[o]]
    BY <1>3, <2>1 DEF EnterAnnounce
  <2>3. \A k \in Loops \ {l} : job'[k] = job[k]
    BY <1>3, <2>1, GotoJob, EndJob DEF EnterAnnounce
  <2>4. Met(c, d) /\ c \in Present /\ c \in Characters
    BY <1>0, <2>1 DEF Meeting, Present, AwakeOnline
  <2>5. known[c] \subseteq known'[c] /\ (job[l].chr = d => d \in known'[c])
    BY <1>0, <2>2, <2>4
  <2>6. CASE d \in known[c]
    BY <2>5, <2>6 DEF Met
  <2>7. CASE Replying(c)
    BY <2>1, <2>3, <2>7 DEF Met, Replying
  <2>8. CASE Arriving(d)
    BY <2>3, <2>5, <2>8 DEF Met, Arriving
  <2> QED BY <2>4, <2>6, <2>7, <2>8 DEF Met
<1>4. ASSUME Undisturbed PROVE Met(c, d)'
  <2>1. Met(c, d) /\ c \in Characters
    BY <1>0, <1>4 DEF Undisturbed, Meeting
  <2> QED BY <1>4, <2>1 DEF Undisturbed, Met, Replying, Arriving
<1> QED BY <1>1, <1>2, <1>3, <1>4, UndisturbedSteps

(* Two members whose entering is over know of each other.                  *)
THEOREM RoomEveryoneIsIntroduced == Spec => []EveryoneIsIntroduced
<1> DEFINE IInv == Typed /\ AwakeOnline /\ Meeting
<1>1. Init => IInv
  BY TypedInit DEF Init, AwakeOnline, Meeting
<1>2. IInv /\ [Next]_vars => IInv'
  BY TypedNext, AwakeNext, MeetingNext
<1>3. IInv => EveryoneIsIntroduced
  BY DEF Meeting, Met, Replying, Arriving, EveryoneIsIntroduced, Settled
<1>4. Spec => []IInv
  <2> HIDE DEF IInv
  <2> QED BY <1>1, <1>2, PTL DEF Spec
<1> QED BY <1>3, <1>4, PTL

-----------------------------------------------------------------------------
(* The place of the room.  While nothing has been raced or overtaken, only *)
(* createRoom decides which maps hold it, and somebody is in it from the   *)
(* moment the creator's task has entered it: he is never removed, and      *)
(* nobody but him removes anybody.                                         *)

OneCreator ==
    /\ \A l \in Loops : job[l].creates =>
          job[l].chr = Master /\ job[l].at \in JobStages \ {"idle", "offer"}
    /\ \A l \in Loops : job[l].at \in {"create", "host", "confirm"} => job[l].creates
    /\ \A l, k \in Loops : job[l].creates /\ job[k].creates => l = k

MasterCame ==
    \/ Master \in routed
    \/ \E l \in Loops : job[l].chr = Master /\ job[l].at \in {"reply", "announce", "offer"}
    \/ \E i \in 1..Len(log) : log[i].chr = Master
MasterStays == ~raced /\ MasterCame => Master \in members

Early(l) == job[l].creates /\ job[l].at \in {"create", "put"}
Peopled == ~raced /\ (\A l \in Loops : ~Early(l)) => members # {}

Unhosted(l) == job[l].creates /\ job[l].at # "confirm"
Quiet == Flaky = {} /\ ~raced /\ ~overtaken
Placed == Quiet => /\ stale = {}
                   /\ home = {"factory"} \cup
                        (IF Hosting /\ \A l \in Loops : ~Unhosted(l) THEN {"worker"} ELSE {})

\* What one step does to the job of a loop.
Begun(l) == /\ job[l].at = "idle" /\ ~job'[l].creates
            /\ \/ job'[l].at = "put"
               \/ job'[l].at = "offer" /\ job'[l].chr \in routed
Ended(l) == job'[l] = Idle /\ (job[l].at \in {"confirm", "offer"} \/ ~job[l].creates \/ raced')
GoneOn(l) ==
    /\ job'[l].chr = job[l].chr /\ job'[l].creates = job[l].creates
    /\ \/ job[l].at = "create" /\ job'[l].at = "put"
       \/ job[l].at = "create" /\ IsFull /\ job'[l].at = "host" /\ UNCHANGED <<members, raced>>
       \/ job[l].at = "put" /\ job'[l].at = "reply" /\ EnterPut(l)
       \/ job[l].at = "reply" /\ job'[l].at = "announce"
       \/ job[l].at = "announce" /\ job'[l].at = "host" /\ job[l].creates
       \/ job[l].at = "host" /\ job'[l].at = "confirm" /\ Host(l)

(* A step moves one job at most: it begins, ends or goes on by one stage.  *)
LEMMA JobSteps ==
  ASSUME Typed, [Next]_vars
  PROVE  \/ \E l \in Loops : /\ Begun(l) \/ Ended(l) \/ GoneOn(l)
                             /\ \A k \in Loops \ {l} : job'[k] = job[k]
         \/ UNCHANGED job
<1> DEFINE Moves(l) == /\ Begun(l) \/ Ended(l) \/ GoneOn(l)
                       /\ \A k \in Loops \ {l} : job'[k] = job[k]
<1>0. job \in [Loops -> Jobs] /\ Idle.creates = FALSE
  BY DEF Typed, TypeOK, Idle
<1>1. ASSUME NEW l \in Loops, CreatorEnters(l) PROVE Moves(l)
  <2>1. Goto(l, IF IsFull THEN "host" ELSE "put") /\ job[l].at = "create"
        /\ UNCHANGED <<members, raced>>
    BY <1>1 DEF CreatorEnters
  <2> QED BY <2>1, GotoJob DEF GoneOn
<1>2. ASSUME NEW l \in Loops, NEW c \in Characters, EnterBegin(l, c) PROVE Moves(l)
  BY <1>0, <1>2 DEF EnterBegin, Begun, Idle
<1>3. ASSUME NEW l \in Loops, NEW c \in Characters, NEW cmd \in Cmds, RouteCmd(l, c, cmd)
      PROVE  Moves(l)
  BY <1>0, <1>3 DEF RouteCmd, Begun, Idle
<1>4. ASSUME NEW l \in Loops, EnterPut(l) PROVE Moves(l)
  <2>1. Goto(l, "reply") /\ job[l].at = "put"
    BY <1>4 DEF EnterPut
  <2> QED BY <1>4, <2>1, GotoJob DEF GoneOn
<1>5. ASSUME NEW l \in Loops, EnterReply(l) PROVE Moves(l)
  <2>1. job[l].at = "reply" /\ (Goto(l, "announce") \/ (End(l) /\ raced'))
    BY <1>5 DEF EnterReply
  <2> QED BY <2>1, GotoJob, EndJob DEF GoneOn, Ended
<1>6. ASSUME NEW l \in Loops, EnterAnnounce(l) PROVE Moves(l)
  <2>1. /\ job[l].at = "announce"
        /\ \/ job[l].creates /\ Goto(l, "host")
           \/ End(l) /\ (~job[l].creates \/ raced')
    BY <1>6 DEF EnterAnnounce
  <2> QED BY <2>1, GotoJob, EndJob DEF GoneOn, Ended
<1>7. ASSUME NEW l \in Loops, Host(l) PROVE Moves(l)
  <2>1. Goto(l, "confirm") /\ job[l].at = "host"
    BY <1>7 DEF Host
  <2> QED BY <1>7, <2>1, GotoJob DEF GoneOn
<1>8. ASSUME NEW l \in Loops, Confirm(l) \/ OfferCmd(l) PROVE Moves(l)
  <2>1. End(l) /\ job[l].at \in {"confirm", "offer"}
    BY <1>8 DEF Confirm, OfferCmd
  <2> QED BY <2>1, EndJob DEF Ended
<1>9. ASSUME WorkerStep \/ (\E c \in Characters : CharacterStep(c))
             \/ (\E m \in {"factory", "worker"} : SweepStep(m)) \/ UNCHANGED vars
      PROVE  UNCHANGED job
  BY <1>9 DEF WorkerStep, CharacterStep, Handle, vars, GoOffline, GoOnline, RouteElsewhere,
       Visit, CheckDepose, Poll, CloseRoom, KickOff, KickRemove, KickTell, Logout,
       StartChatting, Unsupported, Broadcast, Finish, SweepStep, Sweep, Publish
<1> HIDE DEF Moves
<1>10. (\E l \in Loops : Moves(l)) \/ UNCHANGED job
  BY <1>1, <1>2, <1>3, <1>4, <1>5, <1>6, <1>7, <1>8, <1>9 DEF Next, TaskStep, TaskBegin
<1> QED BY <1>10 DEF Moves

(* The task of createRoom stays the only one of its kind.                  *)
LEMMA OneCreatorNext == Typed /\ OneCreator /\ [Next]_vars => OneCreator'
<1> SUFFICES ASSUME Typed, OneCreator, [Next]_vars PROVE OneCreator'
  OBVIOUS
<1>1. ASSUME NEW l \in Loops, Begun(l) \/ Ended(l) \/ GoneOn(l),
             \A k \in Loops \ {l} : job'[k] = job[k]
      PROVE  OneCreator'
  <2>1. job'[l].creates => /\ job[l].creates /\ job'[l].chr = job[l].chr
                           /\ job'[l].at \in JobStages \ {"idle", "offer"}
    <3>1. CASE Begun(l)
      BY <3>1 DEF Begun
    <3>2. CASE Ended(l)
      BY <3>2 DEF Ended, Idle
    <3>3. CASE GoneOn(l)
      BY <3>3 DEF GoneOn, JobStages
    <3> QED BY <1>1, <3>1, <3>2, <3>3
  <2>2. job'[l].at \in {"create", "host", "confirm"} => job'[l].creates
    BY <1>1 DEF Begun, Ended, GoneOn, Idle, OneCreator
  <2> QED BY <1>1, <2>1, <2>2 DEF OneCreator
<1>2. CASE UNCHANGED job
  BY <1>2 DEF OneCreator
<1> QED BY <1>1, <1>2, JobSteps

(* The two histories only grow.                                            *)
LEMMA HistoryGrows ==
  ASSUME Typed, [Next]_vars PROVE (raced => raced') /\ (overtaken => overtaken')
<1>1. raced => raced'
  <2>1. (\E l \in Loops : EnterPut(l)) \/ Undisturbed
        \/ \E l \in Loops : EnterReply(l) \/ EnterAnnounce(l)
    BY UndisturbedSteps
  <2> QED BY <2>1 DEF EnterPut, Put, EnterReply, EnterAnnounce, Undisturbed
<1>2. overtaken => overtaken'
  <2>1. (\E m \in {"factory", "worker"} : Sweep(m)) \/ UNCHANGED overtaken
    BY DEF Next, TaskStep, TaskBegin, WorkerStep, CharacterStep, Handle, vars, CreatorEnters,
         EnterBegin, EnterPut, EnterReply, EnterAnnounce, Host, Confirm, RouteCmd, OfferCmd,
         GoOffline, GoOnline, RouteElsewhere, Visit, CheckDepose, Poll, CloseRoom, KickOff,
         KickRemove, KickTell, Logout, StartChatting, Unsupported, Broadcast, Finish,
         SweepStep, Publish
  <2> QED BY <2>1 DEF Sweep
<1> QED BY <1>1, <1>2

(* Who is routed to the room, and what it has accepted, comes from tasks.  *)
LEMMA RoutedSteps ==
  ASSUME Typed, [Next]_vars
  PROVE  /\ routed' \subseteq routed \/ \E l \in Loops : /\ job[l].at = "reply"
                                                      /\ routed' = routed \cup {job[l].chr}
         /\ log' = log \/ \E l \in Loops : /\ job[l].at = "offer"
                                          /\ log' = Append(log, [chr |-> job[l].chr, cmd |-> job[l].cmd])
<1>1. \/ routed' \subseteq routed
      \/ \E l \in Loops : job[l].at = "reply" /\ routed' = routed \cup {job[l].chr}
  <2>1. \/ \E l \in Loops : EnterReply(l)
        \/ \E c \in Characters : RouteElsewhere(c)
        \/ UNCHANGED routed
    BY DEF Next, TaskStep, TaskBegin, WorkerStep, CharacterStep, Handle, vars, CreatorEnters,
         EnterBegin, EnterPut, EnterAnnounce, Host, Confirm, RouteCmd, OfferCmd,
         GoOffline, GoOnline, Visit, CheckDepose, Poll, CloseRoom, KickOff, KickRemove, KickTell,
         Logout, StartChatting, Unsupported, Broadcast, Finish, SweepStep, Sweep, Publish
  <2>2. ASSUME NEW l \in Loops, EnterReply(l)
        PROVE  job[l].at = "reply" /\ routed' = routed \cup {job[l].chr}
    BY <2>2 DEF EnterReply
  <2>3. ASSUME NEW c \in Characters, RouteElsewhere(c) PROVE routed' \subseteq routed
    BY <2>3 DEF RouteElsewhere
  <2> QED BY <2>1, <2>2, <2>3
<1>2. \/ log' = log
      \/ \E l \in Loops : /\ job[l].at = "offer"
                         /\ log' = Append(log, [chr |-> job[l].chr, cmd |-> job[l].cmd])
  <2>1. (\E l \in Loops : OfferCmd(l)) \/ log' = log
    BY QueueSteps DEF Poll, Finish
  <2> QED BY <2>1 DEF OfferCmd
<1> QED BY <1>1, <1>2

(* Somebody is removed only by the creator, and never he himself.          *)
LEMMA RemovalByMaster ==
  ASSUME Staged, KickPc, [Next]_vars, ~(members \subseteq members')
  PROVE  Master \notin members \ members' /\ MasterCame
<1>1. PICK c \in members \ members' : KickedByMaster(c)
  BY OnlyKickStep
<1>2. \A d \in members \ members' : d # Master
  BY OnlyKickStep DEF KickedByMaster
<1>3. KickRemove /\ Removing
  <2>1. ASSUME NEW l \in Loops, EnterPut(l) PROVE FALSE
    BY <1>1, <2>1 DEF EnterPut, Put
  <2> QED BY <1>1, <2>1
     DEF Next, TaskStep, TaskBegin, WorkerStep, CharacterStep, Handle, vars, CreatorEnters,
         EnterBegin, EnterReply, EnterAnnounce, Host, Confirm, RouteCmd, OfferCmd, GoOffline,
         GoOnline, RouteElsewhere, Visit, CheckDepose, Poll, CloseRoom, KickOff, KickRemove,
         KickTell, Logout, StartChatting, Unsupported, Broadcast, Finish, SweepStep, Sweep, Publish
<1>4. done + 1 \in 1..Len(log)
  <2>1. wpc = "remove"
    BY <1>3 DEF KickRemove
  <2> QED BY <2>1 DEF Staged, Queued, Typed, TypeOK, Shape, Serving, QueueIsFifo
<1>5. log[done + 1].chr = Master
  BY <1>1 DEF KickedByMaster
<1> QED BY <1>2, <1>4, <1>5 DEF MasterCame

Housed == /\ Staged /\ KickPc /\ SizeExactUnlessRaced
          /\ AwakeOnline /\ OneCreator /\ MasterStays /\ Peopled /\ Placed

(* The put of an entering task that is not overlapped puts him in.         *)
LEMMA PutPutsIn ==
  ASSUME Typed, NEW l \in Loops, EnterPut(l), ~raced'
  PROVE  job[l].chr \in members' /\ members \subseteq members'
BY DEF EnterPut, Put

(* A creator who has come stays.                                           *)
LEMMA MasterStaysNext == Housed /\ [Next]_vars => MasterStays'
<1> SUFFICES ASSUME Housed, [Next]_vars, ~raced', MasterCame' PROVE Master \in members'
  BY DEF MasterStays
<1>0. Typed /\ ~raced
  BY HistoryGrows DEF Housed, Staged, Queued
<1>1. Master \in members => Master \in members'
  BY RemovalByMaster DEF Housed
<1>2. CASE MasterCame
  BY <1>0, <1>1, <1>2 DEF Housed, MasterStays
<1>3. CASE ~MasterCame
  <2>1. Master \notin routed'
    BY <1>0, <1>3, RoutedSteps DEF MasterCame
  <2>2. \A i \in 1..Len(log') : log'[i].chr # Master
    <3>1. CASE log' = log
      BY <1>3, <3>1 DEF MasterCame
    <3>2. ASSUME NEW l \in Loops, job[l].at = "offer",
                 log' = Append(log, [chr |-> job[l].chr, cmd |-> job[l].cmd])
          PROVE  \A i \in 1..Len(log') : log'[i].chr # Master
      <4> DEFINE new == [chr |-> job[l].chr, cmd |-> job[l].cmd]
      <4>1. new.chr # Master /\ \A i \in 1..Len(log) : log[i].chr # Master
        BY <1>3, <3>2 DEF MasterCame
      <4>2. log \in Seq(Pairs) /\ log' = Append(log, new)
        BY <1>0, <3>2 DEF Typed, TypeOK
      <4> HIDE DEF new
      <4>3. Len(log') = Len(log) + 1 /\ log'[Len(log) + 1] = new
            /\ \A i \in 1..Len(log) : log'[i] = log[i]
        BY <4>2
      <4>4. \A i \in 1..Len(log') : i \in 1..Len(log) \/ i = Len(log) + 1
        BY <4>2, <4>3
      <4> QED BY <4>1, <4>3, <4>4
    <3> QED BY <1>0, <3>1, <3>2, RoutedSteps
  <2>3. PICK l \in Loops : job'[l].chr = Master /\ job'[l].at \in {"reply", "announce", "offer"}
    BY <2>1, <2>2 DEF MasterCame
  <2>4. job[l].at \notin {"reply", "announce", "offer"} \/ job[l].chr # Master
    BY <1>3 DEF MasterCame
  <2>5. job'[l] # job[l]
    BY <2>3, <2>4
  <2>6. Begun(l) \/ Ended(l) \/ GoneOn(l)
    BY <1>0, <2>5, JobSteps
  <2>7. ~Ended(l)
    BY <2>3 DEF Ended, Idle
  <2>8. ~Begun(l)
    BY <1>3, <2>3 DEF Begun, MasterCame
  <2>9. EnterPut(l) /\ job[l].chr = Master
    BY <2>3, <2>4, <2>6, <2>7, <2>8 DEF GoneOn
  <2> QED BY <1>0, <2>9, PutPutsIn
<1> QED BY <1>2, <1>3

(* A room whose creator's task has entered it is never empty again.        *)
LEMMA PeopledNext == Housed /\ [Next]_vars => Peopled'
<1> SUFFICES ASSUME Housed, [Next]_vars, ~raced', \A l \in Loops : ~Early(l)'
             PROVE  members' # {}
  BY DEF Peopled
<1>0. Typed /\ ~raced
  BY HistoryGrows DEF Housed, Staged, Queued
<1>1. CASE \A l \in Loops : ~Early(l)
  <2>1. members # {}
    BY <1>0, <1>1 DEF Housed, Peopled
  <2>2. CASE members \subseteq members'
    BY <2>1, <2>2
  <2>3. CASE ~(members \subseteq members')
    <3>1. MasterCame /\ Master \notin members \ members'
      BY <2>3, RemovalByMaster DEF Housed
    <3> QED BY <1>0, <3>1 DEF Housed, MasterStays
  <2> QED BY <2>2, <2>3
<1>2. ASSUME NEW l \in Loops, Early(l) PROVE members' # {}
  <2>1. job'[l] # job[l] /\ job[l].at \in {"create", "put"} /\ job[l].creates
    BY <1>2 DEF Early
  <2>2. Begun(l) \/ Ended(l) \/ GoneOn(l)
    BY <1>0, <2>1, JobSteps
  <2>3. GoneOn(l)
    BY <1>0, <2>1, <2>2 DEF Begun, Ended
  <2>4. job'[l].creates /\ job'[l].at \notin {"create", "put"}
    BY <2>1, <2>3 DEF GoneOn, Early
  <2>5. EnterPut(l) \/ (IsFull /\ UNCHANGED <<members, raced>>)
    BY <2>1, <2>3, <2>4 DEF GoneOn
  <2>6. CASE IsFull /\ UNCHANGED <<members, raced>>
    <3>1. size = Cardinality(members) /\ size # 0
      BY <1>0, <2>6, CapacityAssumption DEF Housed, SizeExactUnlessRaced, IsFull
    <3> QED BY <2>6, <3>1, FS_EmptySet
  <2> QED BY <1>0, <2>5, <2>6, PutPutsIn
<1> QED BY <1>1, <1>2

(* Nothing but createRoom moves the room, while nothing is raced or        *)
(* overtaken: a sweep finds somebody in it or comes while it is created.   *)
LEMMA PlacedNext == Housed /\ [Next]_vars => Placed'
<1> SUFFICES ASSUME Housed, [Next]_vars, Quiet'
             PROVE  /\ stale' = {}
                    /\ home' = {"factory"} \cup
                         (IF Hosting /\ \A l \in Loops : ~Unhosted(l)' THEN {"worker"} ELSE {})
  BY DEF Placed
<1>0. Typed /\ Quiet /\ ~raced'
  BY HistoryGrows DEF Housed, Staged, Queued, Quiet
<1>1. stale = {}
      /\ home = {"factory"} \cup
           (IF Hosting /\ \A l \in Loops : ~Unhosted(l) THEN {"worker"} ELSE {})
  BY <1>0 DEF Housed, Placed
<1>2. ASSUME NEW m \in {"factory", "worker"}, Sweep(m) PROVE FALSE
  <2>1. ~Creating /\ m \in home /\ CanDepose
    BY <1>0, <1>2 DEF Sweep, Quiet
  <2>2. members # {}
    BY <1>0, <2>1 DEF Housed, Peopled, Quiet, Early, Creating
  <2>3. members \subseteq online
    BY <1>0 DEF Housed, AwakeOnline, Quiet, Typed, TypeOK
  <2> QED BY <2>1, <2>2, <2>3 DEF CanDepose, Present
<1>3. ASSUME NEW m \in {"factory", "worker"}, Publish(m) PROVE FALSE
  BY <1>1, <1>3 DEF Publish
<1>4. CASE \E l \in Loops : Host(l)
  <2>1. PICK l \in Loops : Host(l)
    BY <1>4
  <2>2. /\ job[l].at = "host" /\ UNCHANGED stale /\ Goto(l, "confirm")
        /\ home' = IF Hosting THEN home \cup {"worker"} ELSE home
    BY <2>1 DEF Host
  <2>3. job'[l].at = "confirm" /\ \A k \in Loops \ {l} : job'[k] = job[k]
    BY <1>0, <2>2, GotoJob
  <2>4. job[l].creates /\ \A k \in Loops \ {l} : ~job[k].creates
    BY <2>2 DEF Housed, OneCreator
  <2>5. \A k \in Loops : ~Unhosted(k)'
    BY <2>3, <2>4 DEF Unhosted
  <2>6. home = {"factory"}
    BY <1>1, <2>2, <2>4 DEF Unhosted
  <2> QED BY <1>1, <2>2, <2>5, <2>6
<1>5. CASE ~\E l \in Loops : Host(l)
  <2>1. UNCHANGED <<home, stale>>
    BY <1>2, <1>3, <1>5
       DEF Next, TaskStep, TaskBegin, WorkerStep, CharacterStep, Handle, vars, CreatorEnters,
         EnterBegin, EnterPut, EnterReply, EnterAnnounce, Confirm, RouteCmd, OfferCmd, GoOffline,
         GoOnline, RouteElsewhere, Visit, CheckDepose, Poll, CloseRoom, KickOff, KickRemove,
         KickTell, Logout, StartChatting, Unsupported, Broadcast, Finish, SweepStep
  <2>2. ASSUME NEW l \in Loops PROVE Unhosted(l)' <=> Unhosted(l)
    <3>1. CASE job'[l] = job[l]
      BY <3>1 DEF Unhosted
    <3>2. CASE job'[l] # job[l]
      <4>1. Begun(l) \/ Ended(l) \/ GoneOn(l)
        BY <1>0, <3>2, JobSteps
      <4>2. CASE Begun(l)
        BY <4>2 DEF Begun, Unhosted, Housed, OneCreator
      <4>3. CASE Ended(l)
        BY <1>0, <4>3 DEF Ended, Unhosted, Idle, Housed, OneCreator
      <4>4. CASE GoneOn(l)
        BY <1>5, <4>4 DEF GoneOn, Unhosted
      <4> QED BY <4>1, <4>2, <4>3, <4>4
    <3> QED BY <3>1, <3>2
  <2> QED BY <1>1, <2>1, <2>2
<1> QED BY <1>4, <1>5

(* A room with somebody in it stays where it can be found and, where       *)
(* adding it to a worker hosts it, with its worker, for every number of    *)
(* characters, loops and commands.                                         *)
THEOREM RoomStaysHosted == Spec => []StaysHosted
<1>1. Init => Housed
  <2> SUFFICES ASSUME Init PROVE Housed
    OBVIOUS
  <2>1. PICK c \in Loops : job = [l \in Loops |-> IF l = c
                                   THEN [Idle EXCEPT !.at = "create", !.creates = TRUE]
                                   ELSE Idle]
    BY Zenon DEF Init
  <2>2. \A l \in Loops : /\ job[l].creates <=> l = c
                        /\ job[l].chr = Master
                        /\ job[l].at = IF l = c THEN "create" ELSE "idle"
    BY <2>1 DEF Idle
  <2>3. OneCreator
    BY <2>2 DEF OneCreator, JobStages
  <2>4. /\ members = {} /\ size = 0 /\ routed = {} /\ log = <<>> /\ wpc = "idle"
        /\ online = Characters /\ home = {"factory"} /\ overtaken = (stale # {})
    BY DEF Init
  <2>5. ~MasterCame
    BY <2>2, <2>4 DEF MasterCame
  <2>6. Early(c) /\ Unhosted(c)
    BY <2>2 DEF Early, Unhosted
  <2>7. SizeExactUnlessRaced /\ AwakeOnline /\ KickPc
    BY <2>4, FS_EmptySet DEF SizeExactUnlessRaced, AwakeOnline, KickPc
  <2> QED BY <2>3, <2>4, <2>5, <2>6, <2>7, StagedInit
          DEF Housed, MasterStays, Peopled, Placed, Quiet
<1>2. Housed /\ [Next]_vars => Housed'
  <2>1. Housed => Typed
    BY DEF Housed, Staged, Queued
  <2> QED BY <2>1, StagedNext, KickPcNext, SizeExactNext, AwakeNext, OneCreatorNext,
             MasterStaysNext, PeopledNext, PlacedNext DEF Housed
<1>3. Housed => StaysHosted
  BY DEF Housed, Placed, Quiet, Unhosted, Creating, StaysHosted
<1> QED BY <1>1, <1>2, <1>3, PTL DEF Spec
=============================================================================
