------------------------------ MODULE Presence ------------------------------
(***************************************************************************)
(* Who is logged in, and on which session: the commands of the sessions    *)
(* pass LoginFilter, become tasks on the event loops of WebChatDispatcher, *)
(* and find or make the user's Chatter in the map of ChatterFactory, which *)
(* a periodic sweep copies, cleans and publishes again.                    *)
(*                                                                         *)
(* A map is an object: a login that has read the reference characterMap    *)
(* goes on with that map although a newer one has been published.  Maps    *)
(* and Chatters are numbered; 0 is no Chatter.  A map that nobody refers   *)
(* to is collected, so its number can be used again.                       *)
(*                                                                         *)
(* The lock that dispatch takes is per session, and all frames of a        *)
(* session are read by one thread: it is never contended and is left out.  *)
(* A session that closes never comes back; somebody who connects again has *)
(* another one.                                                            *)
(***************************************************************************)
EXTENDS Integers, Sequences

CONSTANTS
    Users,          \* user ids
    Sessions,       \* connections that are opened at some time
    NumLoops,       \* number of event loops of the dispatcher
    MapIds,         \* numbers for the map objects
    Cmds,           \* the commands that are tried
    MaxCmds,        \* bound of the model: frames received
    None            \* no user: a content that does not parse, or is not needed

ASSUME UsersAssumption == None \notin Users
ASSUME LoopsAssumption == NumLoops \in Nat \ {0} /\ MaxCmds \in Nat
ASSUME MapIdsAssumption == 0 \in MapIds

\* "other" stands for every command but LOGIN and INVITE.
Commands == [kind : {"login", "invite", "other"}, user : Users \cup {None}]

ASSUME CmdsAssumption == Cmds \subseteq Commands

Loops == 0..(NumLoops - 1)
Tasks == [ses : Sessions, cmd : Cmds]

VARIABLES
    alive,      \* sessions whose channel is active
    attr,       \* attr[s]: the Chatter in the session's attribute
    chatters,   \* every Chatter that was made: its user, and its session now
    maps,       \* maps[g]: the contents of map object g
    characterMap,  \* the map object that is published
    copy,       \* the map object the sweep works on, when sweeping
    sweeping,   \* whether removeOffLine is between its copy and its publication
    copying, testing,  \* users whose entry is still to be copied, to be tested
    nextLoop,   \* where the next task goes
    inbox,      \* inbox[l]: tasks that wait for loop l
    job,        \* job[l]: the login that runs on loop l
    told,       \* <<c, s>>: s heard that it lost Chatter c, and has not taken it since
    answered,   \* sessions that have had an answer to a login
    received,   \* frames received
    raced,      \* history: a login has overlapped with the sweep
    mixed       \* history: two sessions have taken one Chatter at the same time

sessionVars == <<alive, attr, told, answered>>
mapVars == <<chatters, maps>>
sweepVars == <<characterMap, copy, sweeping, copying, testing>>
taskVars == <<nextLoop, inbox, job, received>>
histVars == <<raced, mixed>>
vars == <<sessionVars, mapVars, sweepVars, taskVars, histVars>>

Ids == 1..Len(chatters)

\* A login that is running: where it stands, its map and its Chatter.
Stages == {"fetch", "attr", "tell", "write", "reply"}
Jobs == [at : Stages, ses : Sessions, user : Users, map : MapIds, chr : Nat, isNew : BOOLEAN]
Idle == [at |-> "idle", ses |-> None, user |-> None, map |-> 0, chr |-> 0, isNew |-> FALSE]
At(l, stage) == job[l].at = stage
HasChr(l) == At(l, "attr") \/ At(l, "tell") \/ At(l, "write")

TypeOK ==
    /\ alive \subseteq Sessions
    /\ attr \in [Sessions -> Nat] /\ \A s \in Sessions : attr[s] \in {0} \cup Ids
    /\ chatters \in Seq([user : Users, session : Sessions])
    /\ maps \in [MapIds -> [Users -> Nat]]
    /\ \A g \in MapIds, u \in Users :
          maps[g][u] # 0 => maps[g][u] \in Ids /\ chatters[maps[g][u]].user = u
    /\ characterMap \in MapIds /\ copy \in MapIds
    /\ sweeping \in BOOLEAN
    /\ copying \subseteq Users /\ testing \subseteq Users
    /\ nextLoop \in Loops
    /\ inbox \in [Loops -> Seq(Tasks)]
    /\ job \in [Loops -> Jobs \cup {Idle}]
    /\ \A l \in Loops : HasChr(l) => /\ job[l].chr \in Ids
                                     /\ chatters[job[l].chr].user = job[l].user
    /\ told \subseteq Nat \X Sessions
    /\ answered \subseteq Sessions
    /\ received \in Nat
    /\ raced \in BOOLEAN /\ mixed \in BOOLEAN

-----------------------------------------------------------------------------
(* Channels: channelRead0, LoginFilter, dispatch.                          *)

\* Variant of Admits: no filter is registered.
AdmitsAll(s, cmd) == TRUE
\* LoginFilter.filter.
Admits(s, cmd) == cmd.kind = "login" \/ attr[s] # 0

\* A refused command is answered "not login" and dropped.  The others go to
\* the event loops in turn.
Receive(s, cmd) ==
    /\ s \in alive
    /\ received < MaxCmds
    /\ received' = received + 1
    /\ IF Admits(s, cmd)
       THEN /\ inbox' = [inbox EXCEPT ![nextLoop] = Append(@, [ses |-> s, cmd |-> cmd])]
            /\ nextLoop' = (nextLoop + 1) % NumLoops
       ELSE UNCHANGED <<inbox, nextLoop>>
    /\ UNCHANGED <<sessionVars, mapVars, sweepVars, job, histVars>>

Close(s) ==
    /\ s \in alive
    /\ alive' = alive \ {s}
    /\ UNCHANGED <<attr, told, answered, mapVars, sweepVars, taskVars, histVars>>

-----------------------------------------------------------------------------
(* Tasks.                                                                  *)

Waiting(l, kind) == At(l, "idle") /\ inbox[l] # <<>> /\ Head(inbox[l]).cmd.kind = kind
TakeTask(l) == inbox' = [inbox EXCEPT ![l] = Tail(@)]
Goto(l, stage) == job' = [job EXCEPT ![l].at = stage]

\* The loop takes up a login and reads the reference characterMap.
StartLogin(l, t) ==
    /\ job' = [job EXCEPT ![l] = [at |-> "fetch", ses |-> t.ses, user |-> t.cmd.user,
                                  map |-> characterMap, chr |-> 0, isNew |-> FALSE]]
    /\ raced' = (raced \/ sweeping)

\* Variant of LoginBegin: a content that does not parse gets no answer.
LoginBeginSilent(l) ==
    LET t == Head(inbox[l])
    IN  /\ Waiting(l, "login")
        /\ TakeTask(l)
        /\ IF t.cmd.user = None
           THEN UNCHANGED <<job, raced>>
           ELSE StartLogin(l, t)
        /\ UNCHANGED <<sessionVars, mapVars, sweepVars, nextLoop, received, mixed>>

\* login parses its content.
LoginBegin(l) ==
    LET t == Head(inbox[l])
    IN  /\ Waiting(l, "login")
        /\ TakeTask(l)
        /\ IF t.cmd.user = None
           THEN /\ answered' = answered \cup {t.ses}
                /\ UNCHANGED <<job, raced>>
           ELSE StartLogin(l, t) /\ UNCHANGED answered
        /\ UNCHANGED <<alive, attr, told, mapVars, sweepVars, nextLoop, received, mixed>>

Fetched(l, c, isNew) ==
    job' = [job EXCEPT ![l].at = "attr", ![l].chr = c, ![l].isNew = isNew]

\* Variants of Fetch: the user's Chatter is replaced; it is looked up only.
FetchReplaces(l) ==
    /\ At(l, "fetch")
    /\ LET u == job[l].user
           c == Len(chatters) + 1
       IN  /\ chatters' = Append(chatters, [user |-> u, session |-> job[l].ses])
           /\ maps' = [maps EXCEPT ![job[l].map][u] = c]
           /\ Fetched(l, c, TRUE)
    /\ UNCHANGED <<sessionVars, sweepVars, nextLoop, inbox, received, histVars>>

FetchOnlyFinds(l) ==
    /\ At(l, "fetch")
    /\ LET c == maps[job[l].map][job[l].user]
       IN  Fetched(l, c, c = 0)
    /\ UNCHANGED <<sessionVars, mapVars, sweepVars, nextLoop, inbox, received, histVars>>

\* findOrCreate: computeIfAbsent on the map whose reference was read.
Fetch(l) ==
    LET g == job[l].map
        u == job[l].user
        c == Len(chatters) + 1
    IN  /\ At(l, "fetch")
        /\ IF maps[g][u] # 0
           THEN Fetched(l, maps[g][u], FALSE) /\ UNCHANGED mapVars
           ELSE /\ chatters' = Append(chatters, [user |-> u, session |-> job[l].ses])
                /\ maps' = [maps EXCEPT ![g][u] = c]
                /\ Fetched(l, c, TRUE)
        /\ UNCHANGED <<sessionVars, sweepVars, nextLoop, inbox, received, histVars>>

SetAttribute(l) ==
    /\ At(l, "attr")
    /\ attr' = [attr EXCEPT ![job[l].ses] = job[l].chr]
    /\ Goto(l, IF job[l].isNew THEN "reply" ELSE "tell")
    /\ UNCHANGED <<alive, told, answered, mapVars, sweepVars, nextLoop, inbox, received,
                   histVars>>

\* Variant of Tell: the session that is replaced is not told.
TellNobody(l) ==
    /\ At(l, "tell")
    /\ Goto(l, "write")
    /\ UNCHANGED <<sessionVars, mapVars, sweepVars, nextLoop, inbox, received, histVars>>

\* setSession sends "logged in elsewhere" to the session that is there ...
Tell(l) ==
    /\ At(l, "tell")
    /\ told' = told \cup {<<job[l].chr, chatters[job[l].chr].session>>}
    /\ mixed' = (mixed \/ \E k \in Loops \ {l} : At(k, "write") /\ job[k].chr = job[l].chr)
    /\ Goto(l, "write")
    /\ UNCHANGED <<alive, attr, answered, mapVars, sweepVars, nextLoop, inbox, received,
                   raced>>

\* ... and then replaces it.
Write(l) ==
    /\ At(l, "write")
    /\ chatters' = [chatters EXCEPT ![job[l].chr].session = job[l].ses]
    /\ told' = told \ {<<job[l].chr, job[l].ses>>}
    /\ Goto(l, "reply")
    /\ UNCHANGED <<alive, attr, answered, maps, sweepVars, nextLoop, inbox, received,
                   histVars>>

Reply(l) ==
    /\ At(l, "reply")
    /\ answered' = answered \cup {job[l].ses}
    /\ job' = [job EXCEPT ![l] = Idle]
    /\ UNCHANGED <<alive, attr, told, mapVars, sweepVars, nextLoop, inbox, received,
                   histVars>>

\* invite, into a room that exists: the invited user is looked up in the
\* published map, and either both are written to, or the inviter is told that
\* the user has not logged in (or, None, that his content is broken).
Invite(l, found) ==
    /\ Waiting(l, "invite")
    /\ LET u == Head(inbox[l]).cmd.user
       IN  found = (u # None /\ maps[characterMap][u] # 0)
    /\ TakeTask(l)
    /\ UNCHANGED <<sessionVars, mapVars, sweepVars, nextLoop, job, received, histVars>>

\* Every other task looks up the session's Chatter and acts for it.  What it
\* does to a room is in Room; it changes nothing here.  Without a Chatter
\* enterRoom would log the user in; AdmittedHasCharacter says that it never
\* comes to that.
Act(l) ==
    /\ Waiting(l, "other")
    /\ TakeTask(l)
    /\ UNCHANGED <<sessionVars, mapVars, sweepVars, nextLoop, job, received, histVars>>

-----------------------------------------------------------------------------
(* removeOffLine, one entry at a time as ConcurrentHashMap's copy and      *)
(* removal go.                                                             *)

\* Variant of IsOffLine: only the flag isOnLine counts, which nobody clears.
IsOffLineByFlag(c) == FALSE
\* Chatter.isOffLine.
IsOffLine(c) == chatters[c].session \notin alive

LoggingIn(l) == At(l, "fetch") \/ HasChr(l)
UsedMaps == {characterMap} \cup {job[l].map : l \in {k \in Loops : At(k, "fetch")}}

SweepBegin ==
    /\ ~sweeping
    /\ \E g \in MapIds : g \notin UsedMaps
    /\ LET g == CHOOSE g \in MapIds : g \notin UsedMaps
       IN  /\ copy' = g
           /\ maps' = [maps EXCEPT ![g] = [u \in Users |-> 0]]
    /\ sweeping' = TRUE
    /\ copying' = Users /\ testing' = Users
    /\ raced' = (raced \/ \E l \in Loops : LoggingIn(l))
    /\ UNCHANGED <<sessionVars, chatters, characterMap, taskVars, mixed>>

SweepCopy(u) ==
    /\ sweeping /\ u \in copying
    /\ maps' = [maps EXCEPT ![copy][u] = maps[characterMap][u]]
    /\ copying' = copying \ {u}
    /\ UNCHANGED <<sessionVars, chatters, characterMap, copy, sweeping, testing, taskVars,
                   histVars>>

SweepTest(u) ==
    LET c == maps[copy][u]
    IN  /\ sweeping /\ copying = {} /\ u \in testing
        /\ maps' = IF c # 0 /\ IsOffLine(c) THEN [maps EXCEPT ![copy][u] = 0] ELSE maps
        /\ testing' = testing \ {u}
        /\ UNCHANGED <<sessionVars, chatters, characterMap, copy, sweeping, copying, taskVars,
                       histVars>>

SweepPublish ==
    /\ sweeping /\ copying = {} /\ testing = {}
    /\ characterMap' = copy
    /\ sweeping' = FALSE
    /\ UNCHANGED <<sessionVars, mapVars, copy, copying, testing, taskVars, histVars>>

-----------------------------------------------------------------------------
Init ==
    /\ alive = Sessions
    /\ attr = [s \in Sessions |-> 0]
    /\ chatters = <<>>
    /\ maps = [g \in MapIds |-> [u \in Users |-> 0]]
    /\ characterMap = 0 /\ copy = 0
    /\ sweeping = FALSE /\ copying = {} /\ testing = {}
    /\ nextLoop = 0
    /\ inbox = [l \in Loops |-> <<>>] /\ job = [l \in Loops |-> Idle]
    /\ told = {} /\ answered = {}
    /\ received = 0
    /\ raced = FALSE /\ mixed = FALSE

TaskStep(l) == \/ LoginBegin(l) \/ Fetch(l) \/ SetAttribute(l) \/ Tell(l) \/ Write(l)
               \/ Reply(l) \/ Act(l)
               \/ \E found \in BOOLEAN : Invite(l, found)

SweepStep == \/ SweepBegin \/ SweepPublish
             \/ \E u \in Users : SweepCopy(u) \/ SweepTest(u)

Next == \/ \E s \in Sessions : Close(s) \/ \E cmd \in Cmds : Receive(s, cmd)
        \/ \E l \in Loops : TaskStep(l)
        \/ SweepStep

Spec == Init /\ [][Next]_vars

Fairness == WF_vars(SweepStep) /\ \A l \in Loops : WF_vars(TaskStep(l))

FairSpec == Spec /\ Fairness
-----------------------------------------------------------------------------
(* What being logged in is meant to guarantee.                             *)

(* LoginFilter looks at the attribute when the frame is read, the task     *)
(* looks at it much later on another thread: what was let through still    *)
(* has its character then, so the branches "not logged in" of the tasks    *)
(* and the login inside enterRoom are never taken.                         *)
AdmittedHasCharacter ==
    \A l \in Loops : \A i \in 1..Len(inbox[l]) :
        inbox[l][i].cmd.kind # "login" => attr[inbox[l][i].ses] # 0

(* A character whose session is alive is the one that others find under    *)
(* his user id, so that no user has two of them, as long as no login has   *)
(* overlapped with the sweep.                                              *)
Live(c) == chatters[c].session \in alive
LiveIsFound == ~raced => \A c \in Ids : Live(c) => maps[characterMap][chatters[c].user] = c

(* A session that holds a character and has not been told that somebody    *)
(* logged in elsewhere is the one the character's messages go to, however  *)
(* the logins interleave, as long as no two of them replace the session of *)
(* the same character at the same time.                                    *)
Taking(s) == \E l \in Loops : (At(l, "tell") \/ At(l, "write")) /\ job[l].ses = s
UntoldIsCurrentAlways ==
    \A s \in Sessions :
        attr[s] # 0 /\ <<attr[s], s>> \notin told /\ ~Taking(s)
            => chatters[attr[s]].session = s
UntoldIsCurrent == ~mixed => UntoldIsCurrentAlways

(* Every login that was let through is answered, one way or the other.     *)
HasLogin(s) == \E l \in Loops : \E i \in 1..Len(inbox[l]) :
                   inbox[l][i].ses = s /\ inbox[l][i].cmd.kind = "login"
LoginIsAnswered == \A s \in Sessions : HasLogin(s) ~> s \in answered

(* A user none of whose characters has a live session any more is          *)
(* forgotten, also when sweeps and logins have overwritten each other.     *)
Absent(u) == ~\E c \in Ids : chatters[c].user = u /\ Live(c)
AbsentIsForgotten ==
    \A u \in Users : <>[]Absent(u) => <>[](maps[characterMap][u] = 0)

=============================================================================
