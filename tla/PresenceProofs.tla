--------------------------- MODULE PresenceProofs ---------------------------
(***************************************************************************)
(* Proofs about Presence for every set of users, sessions and commands and *)
(* every number of event loops and map objects.                            *)
(***************************************************************************)
EXTENDS Presence, TLAPS

USE DEF sessionVars, mapVars, sweepVars, taskVars, histVars

-----------------------------------------------------------------------------
(* Types.                                                                  *)

(* The next loop in turn is a loop.                                        *)
LEMMA NextLoopIsLoop == \A n \in Loops : (n + 1) % NumLoops \in Loops
  BY LoopsAssumption DEF Loops

(* What a loop takes from its inbox is a task, and leaves tasks.           *)
LEMMA TakeTyped ==
  ASSUME TypeOK, NEW l \in Loops, inbox[l] # <<>>, TakeTask(l)
  PROVE  inbox' \in [Loops -> Seq(Tasks)] /\ Head(inbox[l]) \in Tasks
  BY DEF TypeOK, TakeTask

(* Every Chatter that was made has a user and a session.                   *)
LEMMA ChatterTyped ==
  ASSUME TypeOK, NEW i \in Ids
  PROVE  /\ i \in Nat /\ chatters[i] \in [user : Users, session : Sessions]
         /\ chatters[i].user \in Users /\ chatters[i].session \in Sessions
<1>1. chatters \in Seq([user : Users, session : Sessions])
  BY DEF TypeOK
<1>2. i \in Nat /\ i \in 1..Len(chatters)
  BY <1>1 DEF Ids
<1>3. chatters[i] \in [user : Users, session : Sessions]
  <2> DEFINE R == [user : Users, session : Sessions]
  <2> HIDE DEF R
  <2>1. chatters \in Seq(R)
    BY <1>1 DEF R
  <2>2. chatters[i] \in R
    BY <2>1, <1>2
  <2> QED BY <2>2 DEF R
<1> QED BY <1>2, <1>3

(* A login that goes on to its next stage stays a login; what it holds     *)
(* does not change.                                                        *)
LEMMA GotoTyped ==
  ASSUME TypeOK, NEW l \in Loops, NEW stage \in Stages, job[l] \in Jobs, Goto(l, stage)
  PROVE  /\ job' \in [Loops -> Jobs \cup {Idle}]
         /\ job'[l] = [job[l] EXCEPT !.at = stage]
         /\ \A k \in Loops \ {l} : job'[k] = job[k]
         /\ \A k \in Loops : job'[k].chr = job[k].chr /\ job'[k].user = job[k].user
<1>1. [job[l] EXCEPT !.at = stage] \in Jobs
  BY DEF Jobs
<1>2. job' = [job EXCEPT ![l] = [job[l] EXCEPT !.at = stage]]
  BY DEF Goto, TypeOK
<1>3. /\ job'[l] = [job[l] EXCEPT !.at = stage]
      /\ \A k \in Loops \ {l} : job'[k] = job[k]
  BY <1>2 DEF TypeOK
<1>4. job'[l].chr = job[l].chr /\ job'[l].user = job[l].user
  BY <1>3 DEF Jobs
<1> QED BY <1>1, <1>2, <1>3, <1>4 DEF TypeOK

(* So does one that has found or made its Chatter.                         *)
LEMMA FetchedTyped ==
  ASSUME TypeOK, NEW l \in Loops, NEW c \in Nat, NEW b \in BOOLEAN, job[l] \in Jobs,
         Fetched(l, c, b)
  PROVE  /\ job' \in [Loops -> Jobs \cup {Idle}]
         /\ job'[l] = [job[l] EXCEPT !.at = "attr", !.chr = c, !.isNew = b]
         /\ \A k \in Loops \ {l} : job'[k] = job[k]
<1> DEFINE j == [job[l] EXCEPT !.at = "attr", !.chr = c, !.isNew = b]
<1>1. j \in Jobs
  BY DEF Jobs, Stages
<1>2. job' = [job EXCEPT ![l] = j]
  BY DEF Fetched, TypeOK
<1> QED BY <1>1, <1>2 DEF TypeOK

(* A step of the sweep touches maps and its own variables only.            *)
LEMMA SweepTyped ==
  ASSUME TypeOK, UNCHANGED <<sessionVars, chatters, taskVars, mixed>>,
         maps' \in [MapIds -> [Users -> Nat]],
         \A h \in MapIds, w \in Users :
            maps'[h][w] # 0 => maps'[h][w] \in Ids /\ chatters[maps'[h][w]].user = w,
         characterMap' \in MapIds, copy' \in MapIds,
         sweeping' \in BOOLEAN, raced' \in BOOLEAN,
         copying' \subseteq Users, testing' \subseteq Users
  PROVE  TypeOK'
<1>1. Ids' = Ids
  BY DEF Ids
<1>2. \A h \in MapIds, w \in Users :
         maps'[h][w] # 0 => maps'[h][w] \in Ids' /\ chatters'[maps'[h][w]].user = w
  BY <1>1
<1>3. \A l \in Loops : HasChr(l)' => /\ job'[l].chr \in Ids'
                                     /\ chatters'[job'[l].chr].user = job'[l].user
  BY <1>1 DEF TypeOK, HasChr, At
<1>4. attr' \in [Sessions -> Nat] /\ \A s \in Sessions : attr'[s] \in {0} \cup Ids'
  BY <1>1 DEF TypeOK
<1> QED BY <1>2, <1>3, <1>4 DEF TypeOK

(* A step of a session or of a task that leaves the Chatters, the maps and  *)
(* the sweep alone.                                                        *)
LEMMA TaskTyped ==
  ASSUME TypeOK, UNCHANGED <<chatters, maps, sweepVars>>,
         alive' \subseteq Sessions,
         attr' \in [Sessions -> Nat], \A s \in Sessions : attr'[s] \in {0} \cup Ids,
         nextLoop' \in Loops, inbox' \in [Loops -> Seq(Tasks)], received' \in Nat,
         job' \in [Loops -> Jobs \cup {Idle}],
         \A k \in Loops : HasChr(k)' => HasChr(k) /\ job'[k].chr = job[k].chr
                                                   /\ job'[k].user = job[k].user,
         told' \subseteq Nat \X Sessions, answered' \subseteq Sessions,
         raced' \in BOOLEAN, mixed' \in BOOLEAN
  PROVE  TypeOK'
<1>1. Ids' = Ids
  BY DEF Ids
<1>2. \A g \in MapIds, u \in Users :
         maps'[g][u] # 0 => maps'[g][u] \in Ids' /\ chatters'[maps'[g][u]].user = u
  BY <1>1 DEF TypeOK
<1>3. \A k \in Loops : HasChr(k) => /\ job[k].chr \in Ids
                                    /\ chatters[job[k].chr].user = job[k].user
  BY DEF TypeOK
<1>4. \A k \in Loops : HasChr(k)' => /\ job'[k].chr \in Ids'
                                     /\ chatters'[job'[k].chr].user = job'[k].user
  BY <1>1, <1>3
<1>5. \A s \in Sessions : attr'[s] \in {0} \cup Ids'
  BY <1>1
<1>6. /\ chatters' \in Seq([user : Users, session : Sessions])
      /\ maps' \in [MapIds -> [Users -> Nat]]
      /\ characterMap' \in MapIds /\ copy' \in MapIds /\ sweeping' \in BOOLEAN
      /\ copying' \subseteq Users /\ testing' \subseteq Users
  BY DEF TypeOK
<1> QED BY <1>2, <1>4, <1>5, <1>6 DEF TypeOK

(* The initial state is well typed.                                        *)
LEMMA TypeInit == Init => TypeOK
<1> SUFFICES ASSUME Init PROVE TypeOK
  OBVIOUS
<1>1. job \in [Loops -> Jobs \cup {Idle}] /\ inbox \in [Loops -> Seq(Tasks)]
  BY DEF Init
<1>2. \A l \in Loops : ~HasChr(l)
  BY DEF Init, HasChr, At, Idle
<1>3. nextLoop \in Loops
  BY LoopsAssumption DEF Init, Loops
<1>4. /\ attr \in [Sessions -> Nat] /\ \A s \in Sessions : attr[s] \in {0} \cup Ids
      /\ maps \in [MapIds -> [Users -> Nat]]
      /\ \A g \in MapIds, u \in Users : maps[g][u] = 0
  BY DEF Init
<1>5. chatters \in Seq([user : Users, session : Sessions])
  BY DEF Init
<1>6. characterMap \in MapIds /\ copy \in MapIds
  BY MapIdsAssumption DEF Init
<1> QED BY <1>1, <1>2, <1>3, <1>4, <1>5, <1>6 DEF Init, TypeOK

(* Every step keeps the types.                                             *)
LEMMA TypeNext == TypeOK /\ [Next]_vars => TypeOK'
<1> SUFFICES ASSUME TypeOK, [Next]_vars PROVE TypeOK'
  OBVIOUS
<1>1. CASE UNCHANGED vars
  BY <1>1 DEF vars, TypeOK, Ids, HasChr, At
<1>2. ASSUME NEW s \in Sessions, Close(s) PROVE TypeOK'
  BY <1>2 DEF Close, TypeOK, Ids, HasChr, At
<1>3. ASSUME NEW s \in Sessions, NEW cmd \in Cmds, Receive(s, cmd) PROVE TypeOK'
  <2>1. nextLoop' \in Loops
    BY <1>3, NextLoopIsLoop DEF Receive, TypeOK
  <2>2. inbox' \in [Loops -> Seq(Tasks)]
    <3>1. [ses |-> s, cmd |-> cmd] \in Tasks
      BY DEF Tasks
    <3>2. CASE Admits(s, cmd)
      <4>1. inbox' = [inbox EXCEPT ![nextLoop] = Append(inbox[nextLoop], [ses |-> s, cmd |-> cmd])]
        BY <1>3, <3>2 DEF Receive
      <4>2. Append(inbox[nextLoop], [ses |-> s, cmd |-> cmd]) \in Seq(Tasks)
        BY <3>1 DEF TypeOK
      <4> QED BY <4>1, <4>2 DEF TypeOK
    <3>3. CASE ~Admits(s, cmd)
      BY <1>3, <3>3 DEF Receive, TypeOK
    <3> QED BY <3>2, <3>3
  <2>3. received' \in Nat
    BY <1>3 DEF Receive, TypeOK
  <2> QED BY <1>3, <2>1, <2>2, <2>3 DEF Receive, TypeOK, Ids, HasChr, At
<1>4. ASSUME NEW l \in Loops, LoginBegin(l) PROVE TypeOK'
  <2>1. inbox' \in [Loops -> Seq(Tasks)] /\ Head(inbox[l]) \in Tasks
    BY <1>4, TakeTyped DEF LoginBegin, Waiting
  <2>2. CASE Head(inbox[l]).cmd.user = None
    <3>1. Head(inbox[l]).ses \in Sessions
      BY <2>1 DEF Tasks
    <3>2. /\ answered' = answered \cup {Head(inbox[l]).ses}
          /\ UNCHANGED <<job, raced>>
      BY <1>4, <2>2 DEF LoginBegin
    <3> QED BY <1>4, <2>1, <3>1, <3>2 DEF LoginBegin, TypeOK, Ids, HasChr, At
  <2>3. CASE Head(inbox[l]).cmd.user # None
    <3>1. /\ Head(inbox[l]).ses \in Sessions
          /\ Head(inbox[l]).cmd.user \in Users
      BY <2>1, <2>3, CmdsAssumption DEF Tasks, Commands
    <3>2. job' \in [Loops -> Jobs \cup {Idle}]
      <4> DEFINE j == [at |-> "fetch", ses |-> Head(inbox[l]).ses,
                       user |-> Head(inbox[l]).cmd.user, map |-> characterMap,
                       chr |-> 0, isNew |-> FALSE]
      <4>1. j \in Jobs
        BY <3>1 DEF Jobs, Stages, TypeOK
      <4>2. job' = [job EXCEPT ![l] = j]
        BY <1>4, <2>3 DEF LoginBegin, StartLogin
      <4> QED BY <4>1, <4>2 DEF TypeOK
    <3>3. \A k \in Loops : HasChr(k)' => HasChr(k) /\ job'[k] = job[k]
      BY <1>4, <2>3 DEF LoginBegin, StartLogin, TypeOK, HasChr, At
    <3> QED BY <1>4, <2>1, <2>3, <3>2, <3>3 DEF LoginBegin, StartLogin, TypeOK, Ids
  <2> QED BY <2>2, <2>3
<1>5. ASSUME NEW l \in Loops, Fetch(l) PROVE TypeOK'
  <2> DEFINE g == job[l].map
             u == job[l].user
             c == Len(chatters) + 1
  <2>1. job[l] \in Jobs /\ g \in MapIds /\ u \in Users /\ job[l].ses \in Sessions
    BY <1>5 DEF Fetch, At, TypeOK, Idle, Jobs
  <2>2. CASE maps[g][u] # 0
    <3>2. maps[g][u] \in Nat /\ maps[g][u] \in Ids /\ chatters[maps[g][u]].user = u
      BY <2>1, <2>2 DEF TypeOK
    <3>0. Fetched(l, maps[g][u], FALSE)
      BY <1>5, <2>2 DEF Fetch
    <3>1. /\ job' \in [Loops -> Jobs \cup {Idle}]
          /\ job'[l] = [job[l] EXCEPT !.at = "attr", !.chr = maps[g][u], !.isNew = FALSE]
          /\ \A k \in Loops \ {l} : job'[k] = job[k]
      BY <2>1, <3>0, <3>2, FetchedTyped
    <3>3. /\ job'[l].chr = maps[g][u] /\ job'[l].user = u
          /\ \A k \in Loops \ {l} : job'[k] = job[k]
      BY <2>1, <3>1 DEF Jobs
    <3>4. \A k \in Loops : HasChr(k)' => /\ job'[k].chr \in Ids
                                         /\ chatters[job'[k].chr].user = job'[k].user
      BY <3>2, <3>3 DEF TypeOK, HasChr, At
    <3>5. UNCHANGED <<sessionVars, mapVars, sweepVars, nextLoop, inbox, received, histVars>>
      BY <1>5, <2>2 DEF Fetch
    <3>6. Ids' = Ids
      BY <3>5 DEF Ids
    <3>7. /\ \A h \in MapIds, w \in Users :
                maps'[h][w] # 0 => maps'[h][w] \in Ids' /\ chatters'[maps'[h][w]].user = w
          /\ \A s \in Sessions : attr'[s] \in {0} \cup Ids'
      BY <3>5, <3>6 DEF TypeOK
    <3>8. \A k \in Loops : HasChr(k)' => /\ job'[k].chr \in Ids'
                                         /\ chatters'[job'[k].chr].user = job'[k].user
      BY <3>4, <3>5, <3>6
    <3> QED BY <3>1, <3>5, <3>7, <3>8 DEF TypeOK
  <2>3. CASE maps[g][u] = 0
    <3>1. /\ chatters' = Append(chatters, [user |-> u, session |-> job[l].ses])
          /\ maps' = [maps EXCEPT ![g][u] = c]
          /\ Fetched(l, c, TRUE)
      BY <1>5, <2>3 DEF Fetch
    <3>2. c \in Nat /\ Len(chatters) \in Nat
      BY DEF TypeOK
    <3>3. /\ job' \in [Loops -> Jobs \cup {Idle}]
          /\ job'[l] = [job[l] EXCEPT !.at = "attr", !.chr = c, !.isNew = TRUE]
          /\ \A k \in Loops \ {l} : job'[k] = job[k]
      BY <2>1, <3>1, <3>2, FetchedTyped
    <3>4. /\ chatters' \in Seq([user : Users, session : Sessions])
          /\ Len(chatters') = c /\ chatters'[c].user = u
          /\ \A i \in Ids : i \in Ids' /\ chatters'[i] = chatters[i]
          /\ c \in Ids'
      BY <2>1, <3>1, <3>2 DEF TypeOK, Ids
    <3>5. \A h \in MapIds, w \in Users :
             maps'[h][w] = IF h = g /\ w = u THEN c ELSE maps[h][w]
      BY <2>1, <3>1 DEF TypeOK
    <3>6. maps' \in [MapIds -> [Users -> Nat]]
      BY <2>1, <3>1, <3>2 DEF TypeOK
    <3>7. \A h \in MapIds, w \in Users :
             maps'[h][w] # 0 => maps'[h][w] \in Ids' /\ chatters'[maps'[h][w]].user = w
      <4> SUFFICES ASSUME NEW h \in MapIds, NEW w \in Users, maps'[h][w] # 0
                   PROVE  maps'[h][w] \in Ids' /\ chatters'[maps'[h][w]].user = w
        OBVIOUS
      <4>1. CASE h = g /\ w = u
        BY <4>1, <3>4, <3>5
      <4>2. CASE ~(h = g /\ w = u)
        <5>1. maps'[h][w] = maps[h][w]
          BY <4>2, <3>5
        <5>2. maps[h][w] \in Ids /\ chatters[maps[h][w]].user = w
          BY <5>1 DEF TypeOK
        <5> QED BY <5>1, <5>2, <3>4
      <4> QED BY <4>1, <4>2
    <3>8. /\ job'[l].chr = c /\ job'[l].user = u
          /\ \A k \in Loops \ {l} : job'[k] = job[k]
      BY <2>1, <3>3 DEF Jobs
    <3>9. \A k \in Loops : HasChr(k)' => /\ job'[k].chr \in Ids'
                                         /\ chatters'[job'[k].chr].user = job'[k].user
      <4> SUFFICES ASSUME NEW k \in Loops, HasChr(k)'
                   PROVE  job'[k].chr \in Ids' /\ chatters'[job'[k].chr].user = job'[k].user
        OBVIOUS
      <4>1. CASE k = l
        BY <4>1, <3>4, <3>8
      <4>2. CASE k # l
        <5>1. HasChr(k) /\ job'[k] = job[k]
          BY <4>2, <3>8 DEF HasChr, At
        <5>2. job[k].chr \in Ids /\ chatters[job[k].chr].user = job[k].user
          BY <5>1 DEF TypeOK
        <5> QED BY <5>1, <5>2, <3>4
      <4> QED BY <4>1, <4>2
    <3>10. \A s \in Sessions : attr'[s] \in {0} \cup Ids'
      BY <1>5, <3>4 DEF Fetch, TypeOK
    <3> QED BY <1>5, <3>3, <3>4, <3>6, <3>7, <3>9, <3>10 DEF Fetch, TypeOK
  <2> QED BY <2>2, <2>3
<1>6. ASSUME NEW l \in Loops, SetAttribute(l) PROVE TypeOK'
  <2>1. job[l] \in Jobs /\ job[l].ses \in Sessions /\ job[l].chr \in Ids
    BY <1>6 DEF SetAttribute, At, HasChr, TypeOK, Idle, Jobs
  <2>2. job' \in [Loops -> Jobs \cup {Idle}]
    BY <1>6, <2>1, GotoTyped DEF SetAttribute, Stages
  <2>3. \A k \in Loops : HasChr(k)' => HasChr(k) /\ job'[k].chr = job[k].chr
                                                /\ job'[k].user = job[k].user
    BY <1>6 DEF SetAttribute, Goto, TypeOK, HasChr, At
  <2>4. /\ attr' \in [Sessions -> Nat]
        /\ \A s \in Sessions : attr'[s] \in {0} \cup Ids
    BY <1>6, <2>1 DEF SetAttribute, TypeOK, Ids
  <2>5. UNCHANGED <<alive, told, answered, mapVars, sweepVars, nextLoop, inbox, received,
                    histVars>>
    BY <1>6 DEF SetAttribute
  <2>6. /\ alive' \subseteq Sessions /\ nextLoop' \in Loops /\ received' \in Nat
        /\ inbox' \in [Loops -> Seq(Tasks)]
        /\ told' \subseteq Nat \X Sessions /\ answered' \subseteq Sessions
        /\ raced' \in BOOLEAN /\ mixed' \in BOOLEAN
    BY <2>5 DEF TypeOK
  <2> QED BY <2>2, <2>3, <2>4, <2>5, <2>6, TaskTyped
<1>7. ASSUME NEW l \in Loops, Tell(l) PROVE TypeOK'
  <2>1. job[l] \in Jobs /\ job[l].chr \in Ids
    BY <1>7 DEF Tell, At, HasChr, TypeOK, Idle, Jobs
  <2>2. job' \in [Loops -> Jobs \cup {Idle}]
    BY <1>7, <2>1, GotoTyped DEF Tell, Stages
  <2>3. \A k \in Loops : HasChr(k)' => HasChr(k) /\ job'[k].chr = job[k].chr
                                                /\ job'[k].user = job[k].user
    BY <1>7 DEF Tell, Goto, TypeOK, HasChr, At
  <2>4. told' \subseteq Nat \X Sessions
    <3>1. job[l].chr \in Nat /\ chatters[job[l].chr].session \in Sessions
      BY <2>1, ChatterTyped
    <3>2. told' = told \cup {<<job[l].chr, chatters[job[l].chr].session>>}
      BY <1>7 DEF Tell
    <3>3. told \subseteq Nat \X Sessions
      BY DEF TypeOK
    <3> QED BY <3>1, <3>2, <3>3
  <2>5. /\ UNCHANGED <<alive, attr, answered, mapVars, sweepVars, nextLoop, inbox, received,
                       raced>>
        /\ mixed' \in BOOLEAN
    BY <1>7 DEF Tell, TypeOK
  <2>6. /\ alive' \subseteq Sessions /\ nextLoop' \in Loops /\ received' \in Nat
        /\ attr' \in [Sessions -> Nat] /\ \A s \in Sessions : attr'[s] \in {0} \cup Ids
        /\ inbox' \in [Loops -> Seq(Tasks)]
        /\ answered' \subseteq Sessions /\ raced' \in BOOLEAN
    BY <2>5 DEF TypeOK
  <2> QED BY <2>2, <2>3, <2>4, <2>5, <2>6, TaskTyped
<1>8. ASSUME NEW l \in Loops, Write(l) PROVE TypeOK'
  <2>1. job[l] \in Jobs /\ job[l].chr \in Ids /\ job[l].ses \in Sessions
    BY <1>8 DEF Write, At, HasChr, TypeOK, Idle, Jobs
  <2>2. job' \in [Loops -> Jobs \cup {Idle}]
    BY <1>8, <2>1, GotoTyped DEF Write, Stages
  <2>3. \A k \in Loops : HasChr(k)' => HasChr(k) /\ job'[k].chr = job[k].chr
                                                /\ job'[k].user = job[k].user
    BY <1>8 DEF Write, Goto, TypeOK, HasChr, At
  <2>4. /\ chatters' \in Seq([user : Users, session : Sessions])
        /\ Len(chatters') = Len(chatters)
        /\ \A i \in Ids : chatters'[i].user = chatters[i].user
    <3> DEFINE c == job[l].chr
               e == [chatters[c] EXCEPT !.session = job[l].ses]
    <3>1. chatters' = [chatters EXCEPT ![c] = e]
      BY <1>8 DEF Write
    <3>2. chatters[c] \in [user : Users, session : Sessions]
      BY <2>1, ChatterTyped
    <3>3. e \in [user : Users, session : Sessions] /\ e.user = chatters[c].user
      BY <2>1, <3>2
    <3>4. chatters \in Seq([user : Users, session : Sessions]) /\ c \in 1..Len(chatters)
      BY <2>1 DEF TypeOK, Ids
    <3>5. chatters' \in Seq([user : Users, session : Sessions]) /\ Len(chatters') = Len(chatters)
      BY <3>1, <3>3, <3>4
    <3>6. \A i \in 1..Len(chatters) : chatters'[i] = IF i = c THEN e ELSE chatters[i]
      BY <3>1, <3>4
    <3> QED BY <3>3, <3>5, <3>6 DEF Ids
  <2>5. told' \subseteq Nat \X Sessions
    BY <1>8 DEF Write, TypeOK
  <2>6. /\ Ids' = Ids
        /\ \A g \in MapIds, u \in Users :
              maps'[g][u] # 0 => maps'[g][u] \in Ids /\ chatters'[maps'[g][u]].user = u
        /\ \A k \in Loops : HasChr(k)' => /\ job'[k].chr \in Ids
                                           /\ chatters'[job'[k].chr].user = job'[k].user
    <3>1. Ids' = Ids
      BY <2>4 DEF Ids
    <3>2. \A g \in MapIds, u \in Users :
              maps[g][u] # 0 => maps[g][u] \in Ids /\ chatters[maps[g][u]].user = u
      BY DEF TypeOK
    <3>3. maps' = maps
      BY <1>8 DEF Write
    <3>4. \A k \in Loops : HasChr(k) => /\ job[k].chr \in Ids
                                        /\ chatters[job[k].chr].user = job[k].user
      BY DEF TypeOK
    <3> QED BY <2>3, <2>4, <3>1, <3>2, <3>3, <3>4
  <2>7. /\ UNCHANGED <<alive, attr, answered, maps, characterMap, copy, sweeping, copying,
                        testing, nextLoop, inbox, received, raced, mixed>>
    BY <1>8 DEF Write
  <2>8. attr' \in [Sessions -> Nat] /\ \A s \in Sessions : attr'[s] \in {0} \cup Ids'
    BY <2>6, <2>7 DEF TypeOK
  <2>9. /\ \A g \in MapIds, u \in Users :
              maps'[g][u] # 0 => maps'[g][u] \in Ids' /\ chatters'[maps'[g][u]].user = u
        /\ \A k \in Loops : HasChr(k)' => /\ job'[k].chr \in Ids'
                                           /\ chatters'[job'[k].chr].user = job'[k].user
    BY <2>6
  <2> QED BY <2>2, <2>4, <2>5, <2>7, <2>8, <2>9 DEF TypeOK
<1>9. ASSUME NEW l \in Loops, Reply(l) PROVE TypeOK'
  <2>1. job[l].ses \in Sessions
    BY <1>9 DEF Reply, At, TypeOK, Idle, Jobs
  <2>2. job' \in [Loops -> Jobs \cup {Idle}]
    BY <1>9 DEF Reply, TypeOK
  <2>3. \A k \in Loops : HasChr(k)' => HasChr(k) /\ job'[k] = job[k]
    BY <1>9 DEF Reply, TypeOK, HasChr, At, Idle
  <2>4. /\ UNCHANGED <<alive, attr, told, mapVars, sweepVars, nextLoop, inbox, received,
                       histVars>>
        /\ answered' = answered \cup {job[l].ses}
    BY <1>9 DEF Reply
  <2>5. /\ alive' \subseteq Sessions /\ nextLoop' \in Loops /\ received' \in Nat
        /\ attr' \in [Sessions -> Nat] /\ \A s \in Sessions : attr'[s] \in {0} \cup Ids
        /\ inbox' \in [Loops -> Seq(Tasks)]
        /\ told' \subseteq Nat \X Sessions /\ answered' \subseteq Sessions
        /\ raced' \in BOOLEAN /\ mixed' \in BOOLEAN
    BY <2>1, <2>4 DEF TypeOK
  <2> QED BY <2>2, <2>3, <2>4, <2>5, TaskTyped
<1>10. ASSUME NEW l \in Loops, Act(l) \/ \E found \in BOOLEAN : Invite(l, found) PROVE TypeOK'
  <2>1. /\ inbox[l] # <<>> /\ TakeTask(l)
        /\ UNCHANGED <<sessionVars, mapVars, sweepVars, nextLoop, job, received, histVars>>
    BY <1>10, Zenon DEF Act, Invite, Waiting
  <2>2. inbox' \in [Loops -> Seq(Tasks)]
    BY <2>1, TakeTyped
  <2> QED BY <2>1, <2>2 DEF TypeOK, Ids, HasChr, At
<1>11. CASE SweepBegin
  <2> DEFINE g == CHOOSE g \in MapIds : g \notin UsedMaps
  <2>1. g \in MapIds
    BY <1>11 DEF SweepBegin
  <2>2. maps' \in [MapIds -> [Users -> Nat]]
    BY <1>11, <2>1 DEF SweepBegin, TypeOK
  <2>3. \A h \in MapIds, w \in Users : maps'[h][w] # 0 => maps'[h][w] = maps[h][w]
    BY <1>11, <2>1 DEF SweepBegin, TypeOK
  <2>4. \A h \in MapIds, w \in Users :
           maps'[h][w] # 0 => maps'[h][w] \in Ids /\ chatters[maps'[h][w]].user = w
    <3>1. \A h \in MapIds, w \in Users :
             maps[h][w] # 0 => maps[h][w] \in Ids /\ chatters[maps[h][w]].user = w
      BY DEF TypeOK
    <3> QED BY <2>3, <3>1
  <2>5. raced' \in BOOLEAN /\ copy' \in MapIds /\ characterMap' \in MapIds
    BY <1>11, <2>1 DEF SweepBegin, TypeOK
  <2>6. /\ sweeping' \in BOOLEAN /\ copying' \subseteq Users /\ testing' \subseteq Users
        /\ UNCHANGED <<sessionVars, chatters, taskVars, mixed>>
    BY <1>11 DEF SweepBegin
  <2> QED BY <2>2, <2>4, <2>5, <2>6, SweepTyped
<1>12. ASSUME NEW u \in Users, SweepCopy(u) PROVE TypeOK'
  <2>1. \A h \in MapIds, w \in Users :
           maps'[h][w] = IF h = copy /\ w = u THEN maps[characterMap][u] ELSE maps[h][w]
    BY <1>12 DEF SweepCopy, TypeOK
  <2>2. maps' \in [MapIds -> [Users -> Nat]]
    BY <1>12 DEF SweepCopy, TypeOK
  <2>3. \A h \in MapIds, w \in Users :
           maps'[h][w] # 0 => maps'[h][w] \in Ids /\ chatters[maps'[h][w]].user = w
    <3>1. \A h \in MapIds, w \in Users :
             maps[h][w] # 0 => maps[h][w] \in Ids /\ chatters[maps[h][w]].user = w
      BY DEF TypeOK
    <3>2. characterMap \in MapIds
      BY DEF TypeOK
    <3> QED BY <2>1, <3>1, <3>2
  <2>4. /\ UNCHANGED <<sessionVars, chatters, taskVars, raced, mixed>>
        /\ UNCHANGED <<characterMap, copy, sweeping, testing>> /\ copying' = copying \ {u}
    BY <1>12 DEF SweepCopy
  <2>5. /\ characterMap' \in MapIds /\ copy' \in MapIds /\ sweeping' \in BOOLEAN
        /\ raced' \in BOOLEAN /\ copying' \subseteq Users /\ testing' \subseteq Users
    BY <2>4 DEF TypeOK
  <2> QED BY <2>2, <2>3, <2>4, <2>5, SweepTyped
<1>13. ASSUME NEW u \in Users, SweepTest(u) PROVE TypeOK'
  <2>1. \A h \in MapIds, w \in Users : maps'[h][w] # 0 => maps'[h][w] = maps[h][w]
    BY <1>13 DEF SweepTest, TypeOK
  <2>2. maps' \in [MapIds -> [Users -> Nat]]
    BY <1>13 DEF SweepTest, TypeOK
  <2>3. \A h \in MapIds, w \in Users :
           maps'[h][w] # 0 => maps'[h][w] \in Ids /\ chatters[maps'[h][w]].user = w
    <3>1. \A h \in MapIds, w \in Users :
             maps[h][w] # 0 => maps[h][w] \in Ids /\ chatters[maps[h][w]].user = w
      BY DEF TypeOK
    <3> QED BY <2>1, <3>1
  <2>4. /\ UNCHANGED <<sessionVars, chatters, taskVars, raced, mixed>>
        /\ UNCHANGED <<characterMap, copy, sweeping, copying>> /\ testing' = testing \ {u}
    BY <1>13 DEF SweepTest
  <2>5. /\ characterMap' \in MapIds /\ copy' \in MapIds /\ sweeping' \in BOOLEAN
        /\ raced' \in BOOLEAN /\ copying' \subseteq Users /\ testing' \subseteq Users
    BY <2>4 DEF TypeOK
  <2> QED BY <2>2, <2>3, <2>4, <2>5, SweepTyped
<1>14. CASE SweepPublish
  BY <1>14 DEF SweepPublish, TypeOK, Ids, HasChr, At
<1> QED BY <1>1, <1>2, <1>3, <1>4, <1>5, <1>6, <1>7, <1>8, <1>9, <1>10, <1>11, <1>12,
           <1>13, <1>14 DEF Next, TaskStep, SweepStep

(* Type correctness, with the relations between ids and Chatters.          *)
THEOREM PresenceTypeOK == Spec => []TypeOK
  BY TypeInit, TypeNext, PTL DEF Spec

-----------------------------------------------------------------------------
(* What the filter let through still has its character: attributes are set *)
(* to Chatters, never cleared.                                             *)

(* Every step keeps what was let through on a session with an attribute.   *)
LEMMA AdmittedNext == TypeOK /\ AdmittedHasCharacter /\ [Next]_vars => AdmittedHasCharacter'
<1> SUFFICES ASSUME TypeOK, AdmittedHasCharacter, [Next]_vars PROVE AdmittedHasCharacter'
  OBVIOUS
<1>1. \A l \in Loops : inbox[l] \in Seq(Tasks)
  BY DEF TypeOK
<1>2. ASSUME NEW l \in Loops, TakeTask(l), inbox[l] # <<>>, UNCHANGED attr
      PROVE  AdmittedHasCharacter'
  <2>1. \A k \in Loops : inbox'[k] = IF k = l THEN Tail(inbox[l]) ELSE inbox[k]
    BY <1>2 DEF TakeTask, TypeOK
  <2>2. \A i \in 1..Len(Tail(inbox[l])) : /\ i + 1 \in 1..Len(inbox[l])
                                          /\ Tail(inbox[l])[i] = inbox[l][i + 1]
    BY <1>1, <1>2
  <2> SUFFICES ASSUME NEW k \in Loops, NEW i \in 1..Len(inbox'[k]),
                      inbox'[k][i].cmd.kind # "login"
               PROVE  attr'[inbox'[k][i].ses] # 0
    BY DEF AdmittedHasCharacter
  <2>3. \E j \in 1..Len(inbox[k]) : inbox'[k][i] = inbox[k][j]
    <3>1. CASE k = l
      BY <2>1, <2>2, <3>1
    <3>2. CASE k # l
      BY <2>1, <3>2
    <3> QED BY <3>1, <3>2
  <2> QED BY <1>2, <2>3 DEF AdmittedHasCharacter
<1>3. CASE UNCHANGED <<inbox, attr>>
  BY <1>3 DEF AdmittedHasCharacter
<1>4. ASSUME NEW s \in Sessions, NEW cmd \in Cmds, Receive(s, cmd)
      PROVE  AdmittedHasCharacter'
  <2> DEFINE task == [ses |-> s, cmd |-> cmd]
  <2>1. CASE ~Admits(s, cmd)
    BY <1>3, <1>4, <2>1 DEF Receive
  <2>2. CASE Admits(s, cmd)
    <3>1. /\ inbox' = [inbox EXCEPT ![nextLoop] = Append(inbox[nextLoop], task)]
          /\ attr' = attr
      BY <1>4, <2>2 DEF Receive
    <3>2. \A k \in Loops : inbox'[k] = IF k = nextLoop THEN Append(inbox[k], task) ELSE inbox[k]
      BY <3>1 DEF TypeOK
    <3>3. \A k \in Loops : \A i \in 1..Len(Append(inbox[k], task)) :
             \/ Append(inbox[k], task)[i] = task
             \/ i \in 1..Len(inbox[k]) /\ Append(inbox[k], task)[i] = inbox[k][i]
      <4> SUFFICES ASSUME NEW k \in Loops, NEW i \in 1..Len(Append(inbox[k], task))
                   PROVE  \/ Append(inbox[k], task)[i] = task
                          \/ i \in 1..Len(inbox[k]) /\ Append(inbox[k], task)[i] = inbox[k][i]
        OBVIOUS
      <4> HIDE DEF task
      <4> QED BY <1>1
    <3>4. task.cmd.kind # "login" => attr[task.ses] # 0
      BY <2>2 DEF Admits
    <3> HIDE DEF task
    <3> SUFFICES ASSUME NEW k \in Loops, NEW i \in 1..Len(inbox'[k]),
                        inbox'[k][i].cmd.kind # "login"
                 PROVE  attr'[inbox'[k][i].ses] # 0
      BY DEF AdmittedHasCharacter
    <3>5. \/ inbox'[k][i] = task
          \/ i \in 1..Len(inbox[k]) /\ inbox'[k][i] = inbox[k][i]
      <4>1. CASE k = nextLoop
        <5>1. inbox'[k] = Append(inbox[k], task)
          BY <3>2, <4>1
        <5>2. i \in 1..Len(Append(inbox[k], task))
          BY <5>1
        <5>3. \/ Append(inbox[k], task)[i] = task
              \/ i \in 1..Len(inbox[k]) /\ Append(inbox[k], task)[i] = inbox[k][i]
          BY <3>3, <5>2, Zenon
        <5> QED BY <5>1, <5>3, Zenon
      <4>2. CASE k # nextLoop
        BY <3>2, <4>2
      <4> QED BY <4>1, <4>2
    <3> QED BY <3>1, <3>4, <3>5 DEF AdmittedHasCharacter
  <2> QED BY <2>1, <2>2
<1>5. ASSUME NEW l \in Loops, SetAttribute(l) PROVE AdmittedHasCharacter'
  <2>1. job[l].chr # 0
    BY <1>5 DEF SetAttribute, HasChr, TypeOK, Ids
  <2>2. \A s \in Sessions : attr[s] # 0 => attr'[s] # 0
    BY <1>5, <2>1 DEF SetAttribute, TypeOK
  <2>3. \A k \in Loops : \A i \in 1..Len(inbox[k]) : inbox[k][i].ses \in Sessions
    <3> SUFFICES ASSUME NEW k \in Loops, NEW i \in 1..Len(inbox[k])
                 PROVE  inbox[k][i].ses \in Sessions
      OBVIOUS
    <3>1. inbox[k][i] \in Tasks
      BY <1>1
    <3> QED BY <3>1 DEF Tasks
  <2> QED BY <1>5, <2>2, <2>3 DEF SetAttribute, AdmittedHasCharacter
<1>6. ASSUME NEW l \in Loops, TaskStep(l) PROVE AdmittedHasCharacter'
  <2>1. CASE LoginBegin(l)
    BY <1>2, <2>1 DEF LoginBegin, Waiting
  <2>2. CASE Fetch(l) \/ Tell(l) \/ Write(l) \/ Reply(l)
    BY <1>3, <2>2 DEF Fetch, Tell, Write, Reply
  <2>3. CASE Act(l) \/ \E found \in BOOLEAN : Invite(l, found)
    BY <1>2, <2>3 DEF Act, Invite, Waiting
  <2> QED BY <1>5, <1>6, <2>1, <2>2, <2>3 DEF TaskStep
<1>7. CASE SweepStep
  BY <1>3, <1>7 DEF SweepStep, SweepBegin, SweepPublish, SweepCopy, SweepTest
<1>8. ASSUME NEW s \in Sessions, Close(s) PROVE AdmittedHasCharacter'
  BY <1>3, <1>8 DEF Close
<1>9. CASE UNCHANGED vars
  BY <1>3, <1>9 DEF vars
<1> QED BY <1>4, <1>6, <1>7, <1>8, <1>9 DEF Next

(* A task whose command needs a login never finds the session without one. *)
THEOREM PresenceAdmittedHasCharacter == Spec => []AdmittedHasCharacter
<1>1. Init => AdmittedHasCharacter
  BY DEF Init, AdmittedHasCharacter
<1>2. TypeOK /\ AdmittedHasCharacter /\ [Next]_vars => AdmittedHasCharacter'
  BY AdmittedNext
<1> QED BY <1>1, <1>2, PresenceTypeOK, PTL DEF Spec

-----------------------------------------------------------------------------
(* Who is told.  UntoldIsCurrent speaks of sessions whose login is over;   *)
(* on the way there, a new Chatter may be taken over before its maker has  *)
(* set his attribute (MadeOrTold), and between setSession's message and    *)
(* its assignment the session about to be replaced has been told           *)
(* (WriteTold), which another login at the same place would spoil          *)
(* (OneWrites).                                                            *)

Session(c) == chatters[c].session
Takes(l, s, c) == (At(l, "tell") \/ At(l, "write")) /\ job[l].ses = s /\ job[l].chr = c

MadeOrTold == \A l \in Loops : At(l, "attr") /\ job[l].isNew =>
                 \/ Session(job[l].chr) = job[l].ses
                 \/ <<job[l].chr, job[l].ses>> \in told
WriteTold == \A l \in Loops : At(l, "write") =>
                 <<job[l].chr, Session(job[l].chr)>> \in told
OneWrites == \A k, l \in Loops :
                 At(k, "write") /\ At(l, "write") /\ job[k].chr = job[l].chr => k = l
HoldsOrTold == \A s \in Sessions : attr[s] # 0 =>
                 \/ Session(attr[s]) = s
                 \/ <<attr[s], s>> \in told
                 \/ \E l \in Loops : Takes(l, s, attr[s])

Toldness == ~mixed => MadeOrTold /\ WriteTold /\ OneWrites /\ HoldsOrTold

(* HoldsOrTold names the Chatter that a running login takes, where         *)
(* UntoldIsCurrent excepts every session with a running login.             *)
LEMMA ToldnessImplies == TypeOK /\ Toldness => UntoldIsCurrent
  BY DEF Toldness, HoldsOrTold, Takes, UntoldIsCurrent, UntoldIsCurrentAlways, Taking, Session

\* The steps that touch none of what Toldness speaks of.
LEMMA ToldnessFrame ==
  ASSUME Toldness, UNCHANGED <<attr, chatters, told, mixed>>,
         \A l \in Loops : \/ job'[l] = job[l]
                          \/ job[l].at \in {"idle", "reply"} /\ job'[l].at \in {"idle", "fetch"}
  PROVE  Toldness'
<1> SUFFICES ASSUME ~mixed PROVE (MadeOrTold /\ WriteTold /\ OneWrites /\ HoldsOrTold)'
  BY DEF Toldness
<1>1. \A l \in Loops : /\ At(l, "attr")' <=> At(l, "attr")
                       /\ At(l, "tell")' <=> At(l, "tell")
                       /\ At(l, "write")' <=> At(l, "write")
                       /\ HasChr(l) => job'[l] = job[l]
  BY DEF At, HasChr
<1>2. MadeOrTold' /\ WriteTold' /\ OneWrites'
  BY <1>1 DEF Toldness, MadeOrTold, WriteTold, OneWrites, Session, HasChr
<1>3. HoldsOrTold'
  BY <1>1 DEF Toldness, HoldsOrTold, Takes, Session, HasChr
<1> QED BY <1>2, <1>3

(* Every step keeps Toldness; Tell and Write are the steps that matter.    *)
LEMMA ToldnessNext == TypeOK /\ Toldness /\ [Next]_vars => Toldness'
<1> SUFFICES ASSUME TypeOK, Toldness, [Next]_vars PROVE Toldness'
  OBVIOUS
<1>1. CASE UNCHANGED <<attr, chatters, told, mixed, job>>
  BY <1>1, ToldnessFrame
<1>2. ASSUME NEW l \in Loops, LoginBegin(l) PROVE Toldness'
  <2>1. \A k \in Loops \ {l} : job'[k] = job[k]
    BY <1>2 DEF LoginBegin, StartLogin, TypeOK
  <2>2. job[l].at = "idle" /\ (job'[l] = job[l] \/ job'[l].at = "fetch")
    BY <1>2 DEF LoginBegin, StartLogin, Waiting, At, TypeOK
  <2> QED BY <1>2, <2>1, <2>2, ToldnessFrame DEF LoginBegin, StartLogin
<1>3. ASSUME NEW l \in Loops, Reply(l) PROVE Toldness'
  <2>1. /\ \A k \in Loops \ {l} : job'[k] = job[k]
        /\ job[l].at = "reply" /\ job'[l].at = "idle"
    BY <1>3 DEF Reply, At, Idle, TypeOK
  <2> QED BY <1>3, <2>1, ToldnessFrame DEF Reply
<1>4. ASSUME NEW l \in Loops, Fetch(l) PROVE Toldness'
  <2> SUFFICES ASSUME ~mixed PROVE (MadeOrTold /\ WriteTold /\ OneWrites /\ HoldsOrTold)'
    BY <1>4 DEF Fetch, Toldness
  <2>1. /\ attr' = attr /\ told' = told /\ job[l].at = "fetch"
        /\ MadeOrTold /\ WriteTold /\ OneWrites /\ HoldsOrTold
    BY <1>4 DEF Fetch, At, Toldness
  <2>2. job[l] \in Jobs /\ job[l].map \in MapIds /\ job[l].user \in Users
    BY <2>1 DEF TypeOK, Idle, Jobs
  <2>3. \A i \in Ids : Session(i)' = Session(i)
    <3>1. chatters \in Seq([user : Users, session : Sessions])
      BY DEF TypeOK
    <3>2. \/ chatters' = chatters
          \/ chatters' = Append(chatters, [user |-> job[l].user, session |-> job[l].ses])
      BY <1>4 DEF Fetch
    <3>3. \A i \in 1..Len(chatters) : chatters'[i] = chatters[i]
      BY <3>1, <3>2
    <3> QED BY <3>3 DEF Session, Ids
  <2>4. /\ \A k \in Loops \ {l} : job'[k] = job[k]
        /\ job'[l].at = "attr" /\ job'[l].ses = job[l].ses
        /\ job'[l].isNew => chatters'[job'[l].chr].session = job[l].ses
    <3> DEFINE c == Len(chatters) + 1
    <3>1. CASE maps[job[l].map][job[l].user] # 0
      <4>1. maps[job[l].map][job[l].user] \in Nat
        BY <2>2 DEF TypeOK
      <4>2. /\ job'[l] = [job[l] EXCEPT !.at = "attr", !.chr = maps[job[l].map][job[l].user],
                                        !.isNew = FALSE]
            /\ \A k \in Loops \ {l} : job'[k] = job[k]
        <5>1. Fetched(l, maps[job[l].map][job[l].user], FALSE)
          BY <1>4, <3>1 DEF Fetch
        <5> QED BY <2>2, <4>1, <5>1, FetchedTyped
      <4> QED BY <2>2, <4>2 DEF Jobs
    <3>2. CASE maps[job[l].map][job[l].user] = 0
      <4>1. chatters \in Seq([user : Users, session : Sessions]) /\ c \in Nat
        BY DEF TypeOK
      <4>2. /\ job'[l] = [job[l] EXCEPT !.at = "attr", !.chr = c, !.isNew = TRUE]
            /\ \A k \in Loops \ {l} : job'[k] = job[k]
        BY <1>4, <2>2, <3>2, <4>1, FetchedTyped DEF Fetch
      <4>3. job'[l].at = "attr" /\ job'[l].ses = job[l].ses /\ job'[l].chr = c
        BY <2>2, <4>2 DEF Jobs
      <4>4. chatters' = Append(chatters, [user |-> job[l].user, session |-> job[l].ses])
        BY <1>4, <3>2 DEF Fetch
      <4>5. chatters'[c].session = job[l].ses
        BY <4>1, <4>4
      <4> QED BY <4>2, <4>3, <4>5 DEF Session
    <3> QED BY <3>1, <3>2
  <2>5. \A k \in Loops : HasChr(k) => job[k].chr \in Ids /\ k # l
    BY <2>1 DEF TypeOK, HasChr, At
  <2>6. MadeOrTold'
    BY <2>1, <2>3, <2>4, <2>5 DEF MadeOrTold, At, HasChr, Session
  <2>7. WriteTold' /\ OneWrites'
    BY <2>1, <2>3, <2>4, <2>5 DEF WriteTold, OneWrites, At, HasChr, Session
  <2>8. \A s \in Sessions : attr[s] # 0 => attr[s] \in Ids
    BY DEF TypeOK
  <2>9. HoldsOrTold'
    BY <2>1, <2>3, <2>4, <2>5, <2>8 DEF HoldsOrTold, Takes, At, HasChr
  <2> QED BY <2>6, <2>7, <2>9
<1>5. ASSUME NEW l \in Loops, SetAttribute(l) PROVE Toldness'
  <2> SUFFICES ASSUME ~mixed PROVE (MadeOrTold /\ WriteTold /\ OneWrites /\ HoldsOrTold)'
    BY <1>5 DEF SetAttribute, Toldness
  <2>1. /\ chatters' = chatters /\ told' = told /\ job[l].at = "attr"
        /\ MadeOrTold /\ WriteTold /\ OneWrites /\ HoldsOrTold
    BY <1>5 DEF SetAttribute, At, Toldness
  <2>2. job[l] \in Jobs /\ job[l].ses \in Sessions
    BY <2>1 DEF TypeOK, Idle, Jobs
  <2>3. /\ job'[l] = [job[l] EXCEPT !.at = IF job[l].isNew THEN "reply" ELSE "tell"]
        /\ \A k \in Loops \ {l} : job'[k] = job[k]
    BY <1>5, <2>2, GotoTyped DEF SetAttribute, Stages
  <2>4. /\ job'[l].at = (IF job[l].isNew THEN "reply" ELSE "tell")
        /\ job'[l].ses = job[l].ses /\ job'[l].chr = job[l].chr
    BY <2>2, <2>3 DEF Jobs
  <2>5. MadeOrTold' /\ WriteTold' /\ OneWrites'
    <3>1. \A k \in Loops : job'[k].at \in {"attr", "write"} => k # l /\ job'[k] = job[k]
      BY <2>3, <2>4
    <3>2. MadeOrTold' /\ WriteTold'
      BY <2>1, <3>1 DEF MadeOrTold, WriteTold, At, Session
    <3>3. OneWrites'
      BY <2>1, <3>1 DEF OneWrites, At
    <3> QED BY <3>2, <3>3
  <2>6. \A s \in Sessions : attr'[s] = IF s = job[l].ses THEN job[l].chr ELSE attr[s]
    BY <1>5, <2>2 DEF SetAttribute, TypeOK
  <2>7. HoldsOrTold'
    <3> SUFFICES ASSUME NEW s \in Sessions, attr'[s] # 0
                 PROVE  \/ chatters'[attr'[s]].session = s
                        \/ <<attr'[s], s>> \in told'
                        \/ \E k \in Loops : Takes(k, s, attr[s])'
      BY DEF HoldsOrTold, Session
    <3>1. CASE s = job[l].ses
      <4>1. CASE job[l].isNew
        BY <2>1, <2>6, <3>1, <4>1 DEF MadeOrTold, At, Session
      <4>2. CASE ~job[l].isNew
        <5>1. Takes(l, s, attr[s])'
          BY <2>4, <2>6, <3>1, <4>2 DEF Takes, At
        <5> QED BY <5>1
      <4> QED BY <4>1, <4>2
    <3>2. CASE s # job[l].ses
      <4>1. attr'[s] = attr[s]
        BY <2>6, <3>2
      <4>2. \A k \in Loops : Takes(k, s, attr[s]) => Takes(k, s, attr[s])'
        BY <2>1, <2>3, <4>1 DEF Takes, At
      <4> QED BY <2>1, <4>1, <4>2 DEF HoldsOrTold, Session
    <3> QED BY <3>1, <3>2
  <2> QED BY <2>5, <2>7
<1>6. ASSUME NEW l \in Loops, Tell(l) PROVE Toldness'
  <2> SUFFICES ASSUME ~mixed' PROVE (MadeOrTold /\ WriteTold /\ OneWrites /\ HoldsOrTold)'
    BY DEF Toldness
  <2>1. /\ chatters' = chatters /\ attr' = attr /\ job[l].at = "tell"
        /\ told' = told \cup {<<job[l].chr, Session(job[l].chr)>>}
        /\ ~ \E k \in Loops \ {l} : At(k, "write") /\ job[k].chr = job[l].chr
        /\ MadeOrTold /\ WriteTold /\ OneWrites /\ HoldsOrTold
    BY <1>6 DEF Tell, At, Toldness, Session
  <2>2. job[l] \in Jobs
    BY <2>1 DEF TypeOK, Idle
  <2>3. /\ job'[l] = [job[l] EXCEPT !.at = "write"]
        /\ \A k \in Loops \ {l} : job'[k] = job[k]
    BY <1>6, <2>2, GotoTyped DEF Tell, Stages
  <2>4. job'[l].at = "write" /\ job'[l].ses = job[l].ses /\ job'[l].chr = job[l].chr
    BY <2>2, <2>3 DEF Jobs
  <2>5. MadeOrTold' /\ WriteTold'
    BY <2>1, <2>3, <2>4 DEF MadeOrTold, WriteTold, At, Session
  <2>6. OneWrites'
    <3> SUFFICES ASSUME NEW k \in Loops, NEW h \in Loops, job'[k].at = "write",
                        job'[h].at = "write", job'[k].chr = job'[h].chr
                 PROVE  k = h
      BY DEF OneWrites, At
    <3>1. CASE k # l /\ h # l
      BY <2>1, <2>3, <3>1 DEF OneWrites, At
    <3>2. \A i \in Loops \ {l} : ~(job'[i].at = "write" /\ job'[i].chr = job'[l].chr)
      BY <2>1, <2>3, <2>4 DEF At
    <3> QED BY <3>1, <3>2
  <2>7. \A s \in Sessions, k \in Loops : Takes(k, s, attr[s]) => Takes(k, s, attr[s])'
    BY <2>1, <2>3, <2>4 DEF Takes, At
  <2>8. HoldsOrTold'
    BY <2>1, <2>7 DEF HoldsOrTold, Session
  <2> QED BY <2>5, <2>6, <2>8
<1>7. ASSUME NEW l \in Loops, Write(l) PROVE Toldness'
  <2> DEFINE c == job[l].chr
             s == job[l].ses
  <2> SUFFICES ASSUME ~mixed PROVE (MadeOrTold /\ WriteTold /\ OneWrites /\ HoldsOrTold)'
    BY <1>7 DEF Write, Toldness
  <2>1. /\ attr' = attr /\ job[l].at = "write"
        /\ told' = told \ {<<c, s>>}
        /\ MadeOrTold /\ WriteTold /\ OneWrites /\ HoldsOrTold
    BY <1>7 DEF Write, At, Toldness
  <2>2. job[l] \in Jobs /\ c \in Ids /\ s \in Sessions
    BY <2>1 DEF TypeOK, Idle, Jobs, HasChr, At
  <2>3. /\ job'[l] = [job[l] EXCEPT !.at = "reply"]
        /\ \A k \in Loops \ {l} : job'[k] = job[k]
    BY <1>7, <2>2, GotoTyped DEF Write, Stages
  <2>4. job'[l].at = "reply" /\ job'[l].ses = s /\ job'[l].chr = c
    BY <2>2, <2>3 DEF Jobs
  <2>5. \A i \in Ids : Session(i)' = IF i = c THEN s ELSE Session(i)
    <3>1. chatters \in Seq([user : Users, session : Sessions]) /\ c \in 1..Len(chatters)
      BY <2>2 DEF TypeOK, Ids
    <3>2. chatters' = [chatters EXCEPT ![c].session = s]
      BY <1>7 DEF Write
    <3>3. \A i \in 1..Len(chatters) : i # c => chatters'[i] = chatters[i]
      BY <3>1, <3>2
    <3>4. chatters'[c] = [chatters[c] EXCEPT !.session = s]
      BY <3>1, <3>2
    <3>5. chatters'[c].session = s
      BY <2>2, <3>4, ChatterTyped
    <3> QED BY <3>3, <3>5 DEF Session, Ids
  <2>6. <<c, Session(c)>> \in told
    BY <2>1 DEF WriteTold, At
  <2>7. \A k \in Loops : HasChr(k) => job[k].chr \in Ids
    BY DEF TypeOK
  <2>8. \A d \in Ids, t \in Sessions :
           Session(d) = t \/ <<d, t>> \in told => Session(d)' = t \/ <<d, t>> \in told'
    BY <2>1, <2>2, <2>5, <2>6
  <2>9. MadeOrTold'
    <3> SUFFICES ASSUME NEW k \in Loops, At(k, "attr")', job'[k].isNew
                 PROVE  \/ chatters'[job'[k].chr].session = job'[k].ses
                        \/ <<job'[k].chr, job'[k].ses>> \in told'
      BY DEF MadeOrTold, Session
    <3>1. k # l /\ job'[k] = job[k]
      BY <2>3, <2>4 DEF At
    <3>2. job[k].chr \in Ids /\ job[k].ses \in Sessions
      BY <2>7, <3>1 DEF HasChr, At, TypeOK, Idle, Jobs
    <3> QED BY <2>1, <2>8, <3>1, <3>2 DEF MadeOrTold, At, Session
  <2>10. WriteTold'
    <3> SUFFICES ASSUME NEW k \in Loops, At(k, "write")'
                 PROVE  <<job'[k].chr, chatters'[job'[k].chr].session>> \in told'
      BY DEF WriteTold, Session
    <3>1. k # l /\ job'[k] = job[k] /\ At(k, "write")
      BY <2>3, <2>4 DEF At
    <3>2. job[k].chr # c /\ job[k].chr \in Ids
      BY <2>1, <2>7, <3>1 DEF OneWrites, At, HasChr
    <3> QED BY <2>1, <2>5, <3>1, <3>2 DEF WriteTold, Session
  <2>11. OneWrites'
    <3> SUFFICES ASSUME NEW k \in Loops, NEW h \in Loops, job'[k].at = "write",
                        job'[h].at = "write", job'[k].chr = job'[h].chr
                 PROVE  k = h
      BY DEF OneWrites, At
    <3>1. k # l /\ h # l
      BY <2>4
    <3> QED BY <2>1, <2>3, <3>1 DEF OneWrites, At
  <2>12. HoldsOrTold'
    <3> SUFFICES ASSUME NEW t \in Sessions, attr[t] # 0
                 PROVE  \/ chatters'[attr[t]].session = t
                        \/ <<attr[t], t>> \in told'
                        \/ \E k \in Loops : Takes(k, t, attr[t])'
      BY <2>1 DEF HoldsOrTold, Session
    <3>1. attr[t] \in Ids
      BY DEF TypeOK
    <3>2. CASE t = s /\ attr[t] = c
      BY <2>2, <2>5, <3>2 DEF Session
    <3>3. CASE ~(t = s /\ attr[t] = c)
      <4>1. \A k \in Loops : Takes(k, t, attr[t]) => Takes(k, t, attr[t])'
        BY <2>1, <2>3, <3>3 DEF Takes, At
      <4> QED BY <2>1, <2>8, <3>1, <4>1 DEF HoldsOrTold, Session
    <3> QED BY <3>2, <3>3
  <2> QED BY <2>9, <2>10, <2>11, <2>12
<1>8. ASSUME NEW l \in Loops, Act(l) \/ \E found \in BOOLEAN : Invite(l, found) PROVE Toldness'
  BY <1>1, <1>8 DEF Act, Invite
<1>9. CASE SweepStep
  BY <1>1, <1>9 DEF SweepStep, SweepBegin, SweepPublish, SweepCopy, SweepTest
<1>10. ASSUME NEW s \in Sessions, Close(s) \/ \E cmd \in Cmds : Receive(s, cmd) PROVE Toldness'
  BY <1>1, <1>10 DEF Close, Receive
<1>11. CASE UNCHANGED vars
  BY <1>1, <1>11 DEF vars
<1> QED BY <1>2, <1>3, <1>4, <1>5, <1>6, <1>7, <1>8, <1>9, <1>10, <1>11 DEF Next, TaskStep

(* Whoever holds a character and was not told of another login is the      *)
(* session that its messages go to, until two logins have met inside       *)
(* setSession.                                                             *)
THEOREM PresenceUntoldIsCurrent == Spec => []UntoldIsCurrent
<1>1. Init => Toldness
  <2> SUFFICES ASSUME Init PROVE Toldness
    OBVIOUS
  <2>1. \A l \in Loops : job[l].at = "idle"
    BY DEF Init, Idle
  <2>2. MadeOrTold /\ WriteTold /\ OneWrites
    BY <2>1 DEF MadeOrTold, WriteTold, OneWrites, At
  <2>3. HoldsOrTold
    BY DEF Init, HoldsOrTold
  <2> QED BY <2>2, <2>3 DEF Toldness
<1>2. TypeOK /\ Toldness /\ [Next]_vars => Toldness'
  BY ToldnessNext
<1>3. TypeOK /\ Toldness => UntoldIsCurrent
  BY ToldnessImplies
<1> QED BY <1>1, <1>2, <1>3, PresenceTypeOK, PTL DEF Spec

-----------------------------------------------------------------------------
(* Who is found.  Until a login meets the sweep, a login that is running   *)
(* works on the published map (InPublished), its Chatter is in it          *)
(* (HeldIsFound), and the copy that the sweep prepares lacks only          *)
(* Chatters whose session is closed, which no login can be bringing back   *)
(* (CopyKeepsLive).                                                        *)

InPublished == \A l \in Loops : /\ LoggingIn(l) => ~sweeping
                                /\ At(l, "fetch") => job[l].map = characterMap
HeldIsFound == \A l \in Loops : HasChr(l) => maps[characterMap][job[l].user] = job[l].chr
AllLiveFound == \A c \in Ids : Live(c) => maps[characterMap][chatters[c].user] = c
CopyKeepsLive == sweeping =>
    /\ copy # characterMap
    /\ \A u \in Users \ copying :
          \/ maps[copy][u] = maps[characterMap][u]
          \/ maps[copy][u] = 0 /\ ~Live(maps[characterMap][u])

Found == ~raced => InPublished /\ HeldIsFound /\ AllLiveFound /\ CopyKeepsLive

(* AllLiveFound is what LiveIsFound says.                                  *)
LEMMA FoundImplies == Found => LiveIsFound
  BY DEF Found, AllLiveFound, LiveIsFound

\* The steps of a login that only go on, and all that touch neither logins
\* nor maps.
LEMMA FoundFrame ==
  ASSUME Found, UNCHANGED <<chatters, maps, characterMap, copy, sweeping, copying, raced>>,
         alive' \subseteq alive,
         \A l \in Loops : \/ job'[l] = job[l]
                          \/ job'[l].at \in {"idle", "reply"}
                          \/ /\ HasChr(l) /\ job'[l].at # "fetch"
                             /\ job'[l].user = job[l].user /\ job'[l].chr = job[l].chr
  PROVE  Found'
<1> SUFFICES ASSUME ~raced PROVE (InPublished /\ HeldIsFound /\ AllLiveFound /\ CopyKeepsLive)'
  BY DEF Found
<1>1. \A l \in Loops : /\ LoggingIn(l)' => LoggingIn(l)
                       /\ At(l, "fetch")' => At(l, "fetch") /\ job'[l] = job[l]
                       /\ HasChr(l)' => HasChr(l) /\ job'[l].user = job[l].user
                                                 /\ job'[l].chr = job[l].chr
  BY DEF At, HasChr, LoggingIn
<1>2. \A c : Live(c)' => Live(c)
  BY DEF Live
<1>3. InPublished'
  BY <1>1 DEF Found, InPublished
<1>4. HeldIsFound'
  BY <1>1 DEF Found, HeldIsFound
<1>5. AllLiveFound'
  BY <1>2 DEF Found, AllLiveFound, Ids
<1>6. CopyKeepsLive'
  BY <1>2 DEF Found, CopyKeepsLive, Live
<1> QED BY <1>3, <1>4, <1>5, <1>6

(* Every step keeps Found, or sets raced.                                  *)
LEMMA FoundNext == TypeOK /\ Found /\ [Next]_vars => Found'
<1> SUFFICES ASSUME TypeOK, Found, [Next]_vars PROVE Found'
  OBVIOUS
<1>1. CASE UNCHANGED <<chatters, maps, characterMap, copy, sweeping, copying, raced, job, alive>>
  BY <1>1, FoundFrame
<1>2. ASSUME NEW s \in Sessions, Close(s) PROVE Found'
  BY <1>2, FoundFrame DEF Close
<1>3. ASSUME NEW s \in Sessions, NEW cmd \in Cmds, Receive(s, cmd) PROVE Found'
  BY <1>1, <1>3 DEF Receive
<1>4. ASSUME NEW l \in Loops, LoginBegin(l) PROVE Found'
  <2>1. CASE Head(inbox[l]).cmd.user = None
    BY <1>1, <1>4, <2>1 DEF LoginBegin
  <2>2. CASE Head(inbox[l]).cmd.user # None
    <3> SUFFICES ASSUME ~raced' PROVE (InPublished /\ HeldIsFound /\ AllLiveFound /\ CopyKeepsLive)'
      BY DEF Found
    <3>1. /\ UNCHANGED <<chatters, maps, characterMap, copy, sweeping, copying, alive>>
          /\ ~sweeping /\ ~raced
      BY <1>4, <2>2 DEF LoginBegin, StartLogin
    <3>2. /\ job'[l].at = "fetch" /\ job'[l].map = characterMap
          /\ \A k \in Loops \ {l} : job'[k] = job[k]
      BY <1>4, <2>2 DEF LoginBegin, StartLogin, TypeOK
    <3>3. InPublished'
      BY <3>1, <3>2 DEF Found, InPublished, LoggingIn, At, HasChr
    <3>4. HeldIsFound'
      BY <3>1, <3>2 DEF Found, HeldIsFound, HasChr, At
    <3>5. AllLiveFound' /\ CopyKeepsLive'
      BY <3>1 DEF Found, AllLiveFound, CopyKeepsLive, Live, Ids
    <3> QED BY <3>3, <3>4, <3>5
  <2> QED BY <2>1, <2>2
<1>5. ASSUME NEW l \in Loops, Fetch(l) PROVE Found'
  <2> DEFINE u == job[l].user
             c == Len(chatters) + 1
  <2> SUFFICES ASSUME ~raced PROVE (InPublished /\ HeldIsFound /\ AllLiveFound /\ CopyKeepsLive)'
    BY <1>5 DEF Fetch, Found
  <2>1. /\ UNCHANGED <<characterMap, copy, sweeping, copying, alive>>
        /\ job[l].at = "fetch" /\ ~sweeping /\ job[l].map = characterMap
        /\ InPublished /\ HeldIsFound /\ AllLiveFound
    BY <1>5 DEF Fetch, Found, InPublished, LoggingIn, At
  <2>2. job[l] \in Jobs /\ u \in Users /\ characterMap \in MapIds
    BY <2>1 DEF TypeOK, Idle, Jobs
  <2>3. CopyKeepsLive'
    BY <2>1 DEF CopyKeepsLive
  <2>4. CASE maps[characterMap][u] # 0
    <3>1. UNCHANGED <<chatters, maps>> /\ Fetched(l, maps[characterMap][u], FALSE)
      BY <1>5, <2>1, <2>4 DEF Fetch
    <3>2. maps[characterMap][u] \in Nat
      BY <2>2 DEF TypeOK
    <3>3. /\ job'[l] = [job[l] EXCEPT !.at = "attr", !.chr = maps[characterMap][u], !.isNew = FALSE]
          /\ \A k \in Loops \ {l} : job'[k] = job[k]
      BY <2>2, <3>1, <3>2, FetchedTyped
    <3>4. job'[l].at = "attr" /\ job'[l].user = u /\ job'[l].chr = maps[characterMap][u]
      BY <2>2, <3>3 DEF Jobs
    <3>5. InPublished'
      BY <2>1, <3>3, <3>4 DEF InPublished, At, LoggingIn
    <3>6. HeldIsFound'
      <4> SUFFICES ASSUME NEW k \in Loops, HasChr(k)'
                   PROVE  maps[characterMap][job'[k].user] = job'[k].chr
        BY <2>1, <3>1 DEF HeldIsFound
      <4>1. CASE k = l
        BY <3>4, <4>1
      <4>2. CASE k # l
        <5>1. HasChr(k) /\ job'[k] = job[k]
          BY <3>3, <4>2 DEF HasChr, At
        <5> QED BY <2>1, <5>1 DEF HeldIsFound
      <4> QED BY <4>1, <4>2
    <3>7. AllLiveFound'
      BY <2>1, <3>1 DEF AllLiveFound, Live, Ids
    <3> QED BY <2>3, <3>5, <3>6, <3>7
  <2>5. CASE maps[characterMap][u] = 0
    <3>1. /\ chatters' = Append(chatters, [user |-> u, session |-> job[l].ses])
          /\ maps' = [maps EXCEPT ![characterMap][u] = c]
          /\ Fetched(l, c, TRUE)
      BY <1>5, <2>1, <2>5 DEF Fetch
    <3>2. c \in Nat /\ chatters \in Seq([user : Users, session : Sessions])
      BY DEF TypeOK
    <3>3. /\ job'[l] = [job[l] EXCEPT !.at = "attr", !.chr = c, !.isNew = TRUE]
          /\ \A k \in Loops \ {l} : job'[k] = job[k]
      BY <2>2, <3>1, <3>2, FetchedTyped
    <3>4. job'[l].at = "attr" /\ job'[l].user = u /\ job'[l].chr = c
      BY <2>2, <3>3 DEF Jobs
    <3>5. \A w \in Users : maps'[characterMap][w] = IF w = u THEN c ELSE maps[characterMap][w]
      BY <2>2, <3>1 DEF TypeOK
    <3>6. /\ \A i \in Ids : chatters'[i] = chatters[i]
          /\ chatters'[c].user = u
          /\ \A i \in Ids' : i \in Ids \/ i = c
      BY <3>1, <3>2 DEF Ids
    <3>7. InPublished'
      BY <2>1, <3>3, <3>4 DEF InPublished, At, LoggingIn
    <3>8. HeldIsFound'
      <4> SUFFICES ASSUME NEW k \in Loops, HasChr(k)'
                   PROVE  maps'[characterMap][job'[k].user] = job'[k].chr
        BY <2>1 DEF HeldIsFound
      <4>1. CASE k = l
        BY <2>2, <3>4, <3>5, <4>1
      <4>2. CASE k # l
        <5>1. HasChr(k) /\ job'[k] = job[k]
          BY <3>3, <4>2 DEF HasChr, At
        <5>2. job[k].chr \in Ids /\ job[k].user \in Users
          BY <5>1 DEF TypeOK, HasChr, At, Idle, Jobs
        <5>3. maps[characterMap][job[k].user] = job[k].chr /\ job[k].chr # 0
          BY <2>1, <5>1, <5>2 DEF HeldIsFound, Ids
        <5> QED BY <2>5, <3>5, <5>1, <5>2, <5>3
      <4> QED BY <4>1, <4>2
    <3>9. AllLiveFound'
      <4> SUFFICES ASSUME NEW i \in Ids', Live(i)'
                   PROVE  maps'[characterMap][chatters'[i].user] = i
        BY <2>1 DEF AllLiveFound
      <4>1. CASE i = c
        BY <2>2, <3>5, <3>6, <4>1
      <4>2. CASE i # c
        <5>1. i \in Ids /\ chatters'[i] = chatters[i] /\ Live(i)
          BY <2>1, <3>6, <4>2 DEF Live
        <5>2. maps[characterMap][chatters[i].user] = i /\ i # 0
          BY <2>1, <5>1 DEF AllLiveFound, Ids
        <5>3. chatters[i].user \in Users
          BY <5>1, ChatterTyped
        <5> QED BY <2>5, <3>5, <5>1, <5>2, <5>3
      <4> QED BY <4>1, <4>2
    <3> QED BY <2>3, <3>7, <3>8, <3>9
  <2> QED BY <2>4, <2>5
<1>6. ASSUME NEW l \in Loops, SetAttribute(l) \/ Tell(l) PROVE Found'
  <2>1. HasChr(l) /\ job[l] \in Jobs
    BY <1>6 DEF SetAttribute, Tell, HasChr, At, TypeOK, Idle
  <2>2. \E stage \in {"reply", "tell", "write"} : Goto(l, stage)
    BY <1>6 DEF SetAttribute, Tell
  <2>3. PICK stage \in {"reply", "tell", "write"} : Goto(l, stage)
    BY <2>2
  <2>4. /\ job'[l] = [job[l] EXCEPT !.at = stage]
        /\ \A k \in Loops \ {l} : job'[k] = job[k]
    BY <2>1, <2>3, GotoTyped DEF Stages
  <2>5. job'[l].at = stage /\ job'[l].user = job[l].user /\ job'[l].chr = job[l].chr
    BY <2>1, <2>4 DEF Jobs
  <2> QED BY <1>6, <2>1, <2>4, <2>5, FoundFrame DEF SetAttribute, Tell
<1>7. ASSUME NEW l \in Loops, Write(l) PROVE Found'
  <2> DEFINE c == job[l].chr
  <2> SUFFICES ASSUME ~raced PROVE (InPublished /\ HeldIsFound /\ AllLiveFound /\ CopyKeepsLive)'
    BY <1>7 DEF Write, Found
  <2>1. /\ UNCHANGED <<maps, characterMap, copy, sweeping, copying, alive>>
        /\ HasChr(l) /\ ~sweeping
        /\ InPublished /\ HeldIsFound /\ AllLiveFound
    BY <1>7 DEF Write, Found, InPublished, LoggingIn, HasChr
  <2>2. job[l] \in Jobs /\ c \in Ids /\ chatters[c].user = job[l].user
    BY <2>1 DEF TypeOK, HasChr, At, Idle
  <2>3. /\ job'[l] = [job[l] EXCEPT !.at = "reply"]
        /\ \A k \in Loops \ {l} : job'[k] = job[k]
    BY <1>7, <2>2, GotoTyped DEF Write, Stages
  <2>4. job'[l].at = "reply"
    BY <2>2, <2>3 DEF Jobs
  <2>5. /\ Ids' = Ids
        /\ \A i \in Ids : i # c => chatters'[i] = chatters[i]
        /\ chatters'[c].user = chatters[c].user
    <3>1. chatters \in Seq([user : Users, session : Sessions]) /\ c \in 1..Len(chatters)
      BY <2>2 DEF TypeOK, Ids
    <3>2. chatters' = [chatters EXCEPT ![c].session = job[l].ses]
      BY <1>7 DEF Write
    <3>3. /\ Len(chatters') = Len(chatters)
          /\ \A i \in 1..Len(chatters) : i # c => chatters'[i] = chatters[i]
      BY <3>1, <3>2
    <3>4. chatters'[c] = [chatters[c] EXCEPT !.session = job[l].ses]
      BY <3>1, <3>2
    <3>5. chatters'[c].user = chatters[c].user
      BY <2>2, <3>4, ChatterTyped
    <3> QED BY <3>3, <3>5 DEF Ids
  <2>6. InPublished'
    BY <2>1, <2>3, <2>4 DEF InPublished, LoggingIn, HasChr, At
  <2>7. HeldIsFound'
    <3>1. \A k \in Loops : HasChr(k)' => HasChr(k) /\ job'[k] = job[k]
      BY <2>3, <2>4 DEF HasChr, At
    <3> QED BY <2>1, <3>1 DEF HeldIsFound
  <2>8. maps[characterMap][chatters[c].user] = c
    BY <2>1, <2>2 DEF HeldIsFound
  <2>9. AllLiveFound'
    <3> SUFFICES ASSUME NEW i \in Ids, Live(i)'
                 PROVE  maps[characterMap][chatters'[i].user] = i
      BY <2>1, <2>5 DEF AllLiveFound
    <3>1. CASE i = c
      BY <2>5, <2>8, <3>1
    <3>2. CASE i # c
      BY <2>1, <2>5, <3>2 DEF AllLiveFound, Live
    <3> QED BY <3>1, <3>2
  <2>10. CopyKeepsLive'
    BY <2>1 DEF CopyKeepsLive
  <2> QED BY <2>6, <2>7, <2>9, <2>10
<1>8. ASSUME NEW l \in Loops, Reply(l) PROVE Found'
  <2>1. job'[l].at = "idle" /\ \A k \in Loops \ {l} : job'[k] = job[k]
    BY <1>8 DEF Reply, TypeOK, Idle
  <2> QED BY <1>8, <2>1, FoundFrame DEF Reply
<1>9. ASSUME NEW l \in Loops, Act(l) \/ \E found \in BOOLEAN : Invite(l, found) PROVE Found'
  BY <1>1, <1>9 DEF Act, Invite
<1>10. CASE SweepBegin
  <2> SUFFICES ASSUME ~raced' PROVE (InPublished /\ HeldIsFound /\ AllLiveFound /\ CopyKeepsLive)'
    BY DEF Found
  <2>1. /\ UNCHANGED <<chatters, characterMap, alive, job>>
        /\ copying' = Users /\ copy' \in MapIds \ {characterMap}
        /\ ~raced /\ \A l \in Loops : ~LoggingIn(l)
    BY <1>10 DEF SweepBegin, UsedMaps
  <2>2. maps' = [maps EXCEPT ![copy'] = [u \in Users |-> 0]]
    BY <1>10 DEF SweepBegin
  <2>3. maps'[characterMap] = maps[characterMap]
    BY <2>1, <2>2 DEF TypeOK
  <2>4. \A l \in Loops : ~LoggingIn(l)' /\ ~HasChr(l)' /\ ~At(l, "fetch")'
    BY <2>1 DEF LoggingIn, HasChr, At
  <2>5. InPublished' /\ HeldIsFound'
    BY <2>4 DEF InPublished, HeldIsFound
  <2>6. AllLiveFound'
    BY <2>1, <2>3 DEF Found, AllLiveFound, Live, Ids
  <2>7. CopyKeepsLive'
    BY <2>1 DEF CopyKeepsLive
  <2> QED BY <2>5, <2>6, <2>7
<1>11. ASSUME NEW u \in Users, SweepCopy(u) \/ SweepTest(u) PROVE Found'
  <2> SUFFICES ASSUME ~raced PROVE (InPublished /\ HeldIsFound /\ AllLiveFound /\ CopyKeepsLive)'
    BY <1>11 DEF SweepCopy, SweepTest, Found
  <2>1. /\ UNCHANGED <<chatters, characterMap, copy, sweeping, alive, job>>
        /\ sweeping /\ copy # characterMap
        /\ InPublished /\ HeldIsFound /\ AllLiveFound /\ CopyKeepsLive
    BY <1>11 DEF SweepCopy, SweepTest, Found, CopyKeepsLive
  <2>2. /\ characterMap \in MapIds /\ copy \in MapIds
        /\ \A g \in MapIds : DOMAIN maps[g] = Users
    BY DEF TypeOK
  <2>3. maps'[characterMap] = maps[characterMap]
    BY <1>11, <2>1, <2>2 DEF SweepCopy, SweepTest, TypeOK
  <2>4. InPublished' /\ HeldIsFound'
    BY <2>1, <2>3 DEF InPublished, HeldIsFound, LoggingIn, HasChr, At
  <2>5. AllLiveFound'
    BY <2>1, <2>3 DEF AllLiveFound, Live, Ids
  <2>6. \A w \in Users \ copying' :
           \/ maps'[copy][w] = maps[characterMap][w]
           \/ maps'[copy][w] = 0 /\ ~Live(maps[characterMap][w])
    <3>1. CASE SweepCopy(u)
      <4>1. \A w \in Users : maps'[copy][w] = IF w = u THEN maps[characterMap][u] ELSE maps[copy][w]
        BY <2>2, <3>1 DEF SweepCopy, TypeOK
      <4>2. copying' = copying \ {u}
        BY <3>1 DEF SweepCopy
      <4> QED BY <2>1, <4>1, <4>2 DEF CopyKeepsLive
    <3>2. CASE SweepTest(u)
      <4>1. \A w \in Users \ {u} : maps'[copy][w] = maps[copy][w]
        BY <2>2, <3>2 DEF SweepTest, TypeOK
      <4>2. \/ maps'[copy][u] = maps[copy][u]
            \/ maps'[copy][u] = 0 /\ maps[copy][u] # 0 /\ ~Live(maps[copy][u])
        BY <2>2, <3>2 DEF SweepTest, TypeOK, IsOffLine, Live
      <4>3. copying' = copying
        BY <3>2 DEF SweepTest
      <4> QED BY <2>1, <4>1, <4>2, <4>3 DEF CopyKeepsLive
    <3> QED BY <1>11, <3>1, <3>2
  <2>7. CopyKeepsLive'
    BY <2>1, <2>3, <2>6 DEF CopyKeepsLive, Live
  <2> QED BY <2>4, <2>5, <2>7
<1>12. CASE SweepPublish
  <2> SUFFICES ASSUME ~raced PROVE (InPublished /\ HeldIsFound /\ AllLiveFound /\ CopyKeepsLive)'
    BY <1>12 DEF SweepPublish, Found
  <2>1. /\ UNCHANGED <<chatters, maps, alive, job>>
        /\ characterMap' = copy /\ ~sweeping' /\ sweeping /\ copying = {}
        /\ InPublished /\ AllLiveFound /\ CopyKeepsLive
    BY <1>12 DEF SweepPublish, Found
  <2>2. \A l \in Loops : ~LoggingIn(l)' /\ ~HasChr(l)' /\ ~At(l, "fetch")'
    BY <2>1 DEF InPublished, LoggingIn, HasChr, At
  <2>3. InPublished' /\ HeldIsFound' /\ CopyKeepsLive'
    BY <2>1, <2>2 DEF InPublished, HeldIsFound, CopyKeepsLive
  <2>4. AllLiveFound'
    <3> SUFFICES ASSUME NEW c \in Ids, Live(c)
                 PROVE  maps[copy][chatters[c].user] = c
      BY <2>1 DEF AllLiveFound, Live, Ids
    <3>1. maps[characterMap][chatters[c].user] = c
      BY <2>1 DEF AllLiveFound
    <3>2. chatters[c].user \in Users
      BY ChatterTyped
    <3> QED BY <2>1, <3>1, <3>2 DEF CopyKeepsLive
  <2> QED BY <2>3, <2>4
<1>13. CASE UNCHANGED vars
  BY <1>1, <1>13 DEF vars
<1> QED BY <1>2, <1>3, <1>4, <1>5, <1>6, <1>7, <1>8, <1>9, <1>10, <1>11, <1>12, <1>13
    DEF Next, TaskStep, SweepStep

(* A character with a live session is found under his user id, and so is   *)
(* the user's only live one, until a login has overlapped with the sweep.  *)
THEOREM PresenceLiveIsFound == Spec => []LiveIsFound
<1>1. Init => Found
  <2> SUFFICES ASSUME Init PROVE Found
    OBVIOUS
  <2>1. \A l \in Loops : ~LoggingIn(l) /\ ~HasChr(l) /\ ~At(l, "fetch")
    BY DEF Init, Idle, LoggingIn, HasChr, At
  <2>2. InPublished /\ HeldIsFound /\ CopyKeepsLive
    BY <2>1 DEF Init, InPublished, HeldIsFound, CopyKeepsLive
  <2>3. AllLiveFound
    BY DEF Init, AllLiveFound, Ids
  <2> QED BY <2>2, <2>3 DEF Found
<1>2. TypeOK /\ Found /\ [Next]_vars => Found'
  BY FoundNext
<1> QED BY <1>1, <1>2, FoundImplies, PresenceTypeOK, PTL DEF Spec
=============================================================================
