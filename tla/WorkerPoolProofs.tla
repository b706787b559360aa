-------------------------- MODULE WorkerPoolProofs --------------------------
(***************************************************************************)
(* Proofs about WorkerPool for any rooms, tasks, capacity and number of    *)
(* workers: types, no missed wake-up, one thread for each room, and that   *)
(* the code as it is hosts nothing.                                        *)
(***************************************************************************)
EXTENDS WorkerPool, FiniteSetTheorems, TLAPS

USE DEF regVars, locals, adderVars, threadVars, sweepVars, RestOfThread

-----------------------------------------------------------------------------
(* Types, in three parts: the tasks, the threads and rooms, the maps.      *)

TasksTyped ==
    /\ at \in [Adders -> AdderStages] /\ room \in [Adders -> Rooms \cup {None}]
    /\ ref \in [Adders -> Maps] /\ cur \in [Adders -> Workers \cup {0}]
    /\ following \in [Adders -> Workers \cup {0}] /\ fresh \in [Adders -> BOOLEAN]
    /\ \A a \in Adders : at[a] # "idle" => room[a] \in Rooms
    /\ \A a \in Adders : at[a] \in {"size", "insert", "notify", "publish"} => cur[a] \in 1..made

ThreadsTyped ==
    /\ thread \in [Workers -> ThreadStages] /\ interrupted \subseteq Workers
    /\ \A w \in Workers : thread[w] # "none" => w <= made
    /\ hosted \in [Workers -> SUBSET Rooms] /\ taken \subseteq Rooms

\* Workers in map objects and in removeWorker have been made.
MapsTyped ==
    /\ reg \in Maps /\ maps \in [Maps -> SUBSET Workers] /\ made \in 0..MaxWorkers
    /\ \A m \in Maps : maps[m] \subseteq 1..made
    /\ started \subseteq Workers
    /\ todo \subseteq 1..made /\ kept \subseteq 1..made /\ doomed \in 0..made
    /\ sweeping \in BOOLEAN /\ sweeps \in Nat
    /\ ~sweeping => todo = {}
    /\ doomed # 0 => sweeping
    /\ \A a \in Adders : following[a] \in 0..made

Typed == TasksTyped /\ ThreadsTyped /\ MapsTyped

\* The tasks' new stage alone keeps their types.
LEMMA StageTyped ==
  ASSUME Typed, NEW a \in Adders, NEW stage \in AdderStages,
         at' = [at EXCEPT ![a] = stage], UNCHANGED <<locals, made>>,
         at[a] # "idle", stage \in {"idle", "scan"} \/ cur[a] \in 1..made
  PROVE  TasksTyped'
BY DEF Typed, TasksTyped, AdderStages

\* A task that returns keeps its types.
LEMMA ReturnsTyped ==
  ASSUME Typed, NEW a \in Adders, NEW m \in Maps, Returns(a, m), made' = made
  PROVE  /\ TasksTyped'
         /\ maps' \in [Maps -> SUBSET Workers]
         /\ \A n \in Maps : maps'[n] \subseteq 1..made
         /\ \A b \in Adders : following'[b] \in 0..made'
<1>1. 1 \in Maps
  BY PoolAssumption, FS_CardinalityType DEF Maps
<1>2. /\ at' \in [Adders -> AdderStages] /\ room' \in [Adders -> Rooms \cup {None}]
      /\ ref' \in [Adders -> Maps] /\ cur' \in [Adders -> Workers \cup {0}]
      /\ following' \in [Adders -> Workers \cup {0}] /\ fresh' \in [Adders -> BOOLEAN]
  BY <1>1 DEF Typed, TasksTyped, Returns, AdderStages
<1>3. ASSUME NEW b \in Adders, at'[b] \in {"size", "insert", "notify", "publish"}
      PROVE  cur'[b] \in 1..made'
  BY <1>3 DEF Typed, TasksTyped, Returns
<1>6. ASSUME NEW b \in Adders, at'[b] # "idle" PROVE room'[b] \in Rooms
  BY <1>6 DEF Typed, TasksTyped, Returns
<1>4. /\ maps' \in [Maps -> SUBSET Workers]
      /\ \A n \in Maps : maps'[n] \subseteq 1..made
  BY DEF Typed, MapsTyped, Returns
<1>5. \A b \in Adders : following'[b] \in 0..made'
  BY DEF Typed, MapsTyped, TasksTyped, Returns
<1> QED BY <1>2, <1>3, <1>4, <1>5, <1>6 DEF TasksTyped

\* The initial state is typed.
LEMMA TypedInit == Init => Typed
<1> SUFFICES ASSUME Init PROVE Typed
  OBVIOUS
<1>1. 1 \in Maps
  BY PoolAssumption, FS_CardinalityType DEF Maps
<1>2. TasksTyped
  BY <1>1 DEF Init, TasksTyped, AdderStages
<1>3. ThreadsTyped
  BY DEF Init, ThreadsTyped, ThreadStages
<1>4. MapsTyped
  <2>1. reg = 1 /\ made = 0 /\ made \in 0..MaxWorkers /\ doomed = 0 /\ sweeps = 0
    BY PoolAssumption DEF Init
  <2>2. maps \in [Maps -> SUBSET Workers] /\ \A n \in Maps : maps[n] \subseteq 1..made
    BY DEF Init
  <2>3. \A a \in Adders : following[a] \in 0..made
    BY <2>1 DEF Init
  <2>4. started = {} /\ todo = {} /\ kept = {} /\ sweeping = FALSE
    BY DEF Init
  <2>5. doomed \in 0..made /\ sweeps \in Nat
    BY <2>1
  <2> QED BY <1>1, <2>1, <2>2, <2>3, <2>4, <2>5 DEF MapsTyped
<1> QED BY <1>2, <1>3, <1>4 DEF Typed

\* Every step of a task keeps the types.
LEMMA TypedTask ==
  ASSUME Typed, NEW a \in Adders, (\E r \in Rooms : Begin(a, r)) \/ Adding(a)
  PROVE  Typed'
<1>1. ASSUME NEW r \in Rooms, Begin(a, r) PROVE Typed'
  <2>1. TasksTyped'
    BY <1>1 DEF Begin, Typed, TasksTyped, MapsTyped, AdderStages
  <2>2. ThreadsTyped'
    BY <1>1 DEF Begin, Typed, ThreadsTyped
  <2>3. PICK v \in Workers \cup {0} : Follows(v, 0, reg) /\ following' = [following EXCEPT ![a] = v]
    BY <1>1 DEF Begin
  <2>4. v \in 0..made
    BY <2>3 DEF Follows, Typed, MapsTyped
  <2>5. \A b \in Adders : following'[b] \in 0..made
    BY <2>3, <2>4 DEF Typed, MapsTyped, TasksTyped
  <2>6. MapsTyped'
    BY <1>1, <2>5 DEF Begin, Typed, MapsTyped
  <2> QED BY <2>1, <2>2, <2>6 DEF Typed
<1>2. CASE Visit(a)
  <2>1. PICK v \in Workers \cup {0} :
            Follows(v, following[a], ref[a]) /\ following' = [following EXCEPT ![a] = v]
    BY <1>2 DEF Visit
  <2>2. v \in 0..made /\ following[a] \in 1..made
    BY <1>2, <2>1 DEF Visit, Follows, Typed, MapsTyped, TasksTyped
  <2>3. \A b \in Adders : following'[b] \in 0..made
    BY <2>1, <2>2 DEF Typed, MapsTyped, TasksTyped
  <2>4. MapsTyped' /\ ThreadsTyped'
    BY <1>2, <2>3 DEF Visit, Typed, MapsTyped, ThreadsTyped
  <2>5. cur' = [cur EXCEPT ![a] = following[a]]
    BY <1>2 DEF Visit
  <2>6. TasksTyped'
    BY <1>2, <2>1, <2>2, <2>5 DEF Visit, Typed, TasksTyped, AdderStages
  <2> QED BY <2>4, <2>6 DEF Typed
<1>3. CASE Make(a)
  <2>1. made' = made + 1 /\ made' \in Workers /\ made \in Nat
    BY <1>3, PoolAssumption DEF Make, Typed, MapsTyped, Workers
  <2>2. 1..made \subseteq 1..made' /\ 0..made \subseteq 0..made' /\ made' \in 1..made'
    BY <2>1
  <2>3. TasksTyped'
    BY <1>3, <2>1, <2>2 DEF Make, Typed, TasksTyped, AdderStages
  <2>4. ThreadsTyped'
    BY <1>3, <2>1 DEF Make, Typed, ThreadsTyped, ThreadStages, Workers
  <2>5. /\ maps' \in [Maps -> SUBSET Workers]
        /\ \A m \in Maps : maps'[m] \subseteq 1..made'
    BY <1>3, <2>1, <2>2 DEF Make, Typed, MapsTyped
  <2>6. /\ todo' \subseteq 1..made' /\ kept' \subseteq 1..made' /\ doomed' \in 0..made'
        /\ \A b \in Adders : following'[b] \in 0..made'
    BY <1>3, <2>2 DEF Make, Typed, MapsTyped
  <2>7. MapsTyped'
    <3>1. made' \in 0..MaxWorkers /\ started' \subseteq Workers
      <4>1. made < MaxWorkers /\ started' = started \cup {made'} /\ MaxWorkers \in Nat
        BY <1>3, PoolAssumption DEF Make
      <4>2. started \subseteq Workers
        BY DEF Typed, MapsTyped
      <4>3. made' \in 0..MaxWorkers
        BY <2>1, <4>1
      <4> QED BY <2>1, <4>1, <4>2, <4>3
    <3>2. UNCHANGED <<reg, sweeping, sweeps, todo, doomed>>
      BY <1>3 DEF Make
    <3> QED BY <2>5, <2>6, <3>1, <3>2 DEF Typed, MapsTyped
  <2> QED BY <2>3, <2>4, <2>7 DEF Typed
<1>4. CASE CheckSize(a)
  <2>1. PICK stage \in AdderStages : at' = [at EXCEPT ![a] = stage]
    BY <1>4 DEF CheckSize, AdderStages
  <2>2. cur[a] \in 1..made
    BY <1>4 DEF CheckSize, Typed, TasksTyped
  <2>3. TasksTyped'
    BY <1>4, <2>1, <2>2, StageTyped DEF CheckSize
  <2>4. ThreadsTyped' /\ MapsTyped'
    BY <1>4 DEF CheckSize, Typed, ThreadsTyped, MapsTyped
  <2> QED BY <2>3, <2>4 DEF Typed
<1>5. CASE Insert(a)
  <2>1. cur[a] \in 1..made /\ room[a] \in Rooms
    BY <1>5 DEF Insert, Typed, TasksTyped
  <2>2. TasksTyped'
    BY <1>5, <2>1, StageTyped DEF Insert, AdderStages
  <2>3. MapsTyped'
    BY <1>5 DEF Insert, Typed, MapsTyped
  <2>4. ThreadsTyped'
    BY <1>5, <2>1 DEF Insert, Typed, ThreadsTyped
  <2> QED BY <2>2, <2>3, <2>4 DEF Typed
<1>6. CASE Notify(a)
  <2>1. thread' \in [Workers -> ThreadStages] /\ \A w \in Workers : thread'[w] # "none" => w <= made
    BY <1>6 DEF Notify, Typed, ThreadsTyped, ThreadStages
  <2>2. ThreadsTyped'
    BY <1>6, <2>1 DEF Notify, Typed, ThreadsTyped
  <2>3. CASE fresh[a]
    <3>1. TasksTyped'
      BY <1>6, <2>3, StageTyped DEF Notify, AdderStages, Typed, TasksTyped
    <3>2. MapsTyped'
      BY <1>6, <2>3 DEF Notify, Typed, MapsTyped
    <3> QED BY <2>2, <3>1, <3>2 DEF Typed
  <2>4. CASE ~fresh[a]
    <3>1. Returns(a, reg) /\ reg \in Maps /\ made' = made
      BY <1>6, <2>4 DEF Notify, Typed, MapsTyped
    <3>2. /\ TasksTyped' /\ maps' \in [Maps -> SUBSET Workers]
          /\ \A n \in Maps : maps'[n] \subseteq 1..made
          /\ \A c \in Adders : following'[c] \in 0..made'
      BY <3>1, ReturnsTyped
    <3>3. MapsTyped'
      BY <1>6, <3>1, <3>2 DEF Notify, Typed, MapsTyped
    <3> QED BY <2>2, <3>2, <3>3 DEF Typed
  <2> QED BY <2>3, <2>4
<1>7. CASE Publish(a)
  <2>1. Returns(a, ref[a]) /\ ref[a] \in Maps /\ made' = made
    BY <1>7 DEF Publish, Typed, TasksTyped
  <2>2. /\ TasksTyped' /\ maps' \in [Maps -> SUBSET Workers]
        /\ \A n \in Maps : maps'[n] \subseteq 1..made
        /\ \A c \in Adders : following'[c] \in 0..made'
    BY <2>1, ReturnsTyped
  <2>3. MapsTyped' /\ ThreadsTyped'
    BY <1>7, <2>1, <2>2 DEF Publish, Typed, MapsTyped, ThreadsTyped
  <2> QED BY <2>2, <2>3 DEF Typed
<1> QED BY <1>1, <1>2, <1>3, <1>4, <1>5, <1>6, <1>7 DEF Adding

\* Every step of a thread or a sweep keeps the types.
LEMMA TypedRest ==
  ASSUME Typed,
         \/ \E w \in Workers : Thread(w) \/ UpdateThrows(w) \/ Sweep(w)
         \/ \E w \in todo : RemoveVisit(w)
         \/ RemoveBegin \/ RemoveStop \/ RemovePublish
  PROVE  Typed'
<1>1. ASSUME NEW w \in Workers, NEW stage \in ThreadStages \ {"none"},
             thread[w] # "none", thread' = [thread EXCEPT ![w] = stage],
             interrupted' \subseteq interrupted, UNCHANGED RestOfThread
      PROVE  Typed'
  <2>1. ThreadsTyped'
    BY <1>1 DEF Typed, ThreadsTyped
  <2>2. TasksTyped' /\ MapsTyped'
    BY <1>1 DEF Typed, TasksTyped, MapsTyped
  <2> QED BY <2>1, <2>2 DEF Typed
<1>2. ASSUME NEW w \in Workers, Thread(w) \/ UpdateThrows(w) PROVE Typed'
  <2>1. thread[w] # "none" /\ interrupted' \subseteq interrupted /\ UNCHANGED RestOfThread
    BY <1>2 DEF Thread, Enter, Wake, Wait, Reenter, Update, UpdateThrows, Interruption
  <2>2. \E stage \in ThreadStages \ {"none"} : thread' = [thread EXCEPT ![w] = stage]
    BY <1>2 DEF Thread, Enter, Wake, Wait, Reenter, Update, UpdateThrows, Interruption, Goes,
                ThreadStages
  <2> QED BY <1>1, <2>1, <2>2
<1>3. ASSUME NEW w \in Workers, Sweep(w) PROVE Typed'
  <2>1. ThreadsTyped'
    BY <1>3 DEF Sweep, Typed, ThreadsTyped
  <2>2. TasksTyped' /\ MapsTyped'
    BY <1>3 DEF Sweep, Typed, TasksTyped, MapsTyped
  <2> QED BY <2>1, <2>2 DEF Typed
<1>4. ASSUME NEW w \in todo, RemoveVisit(w) PROVE Typed'
  <2>1. ThreadsTyped' /\ TasksTyped'
    BY <1>4 DEF RemoveVisit, Typed, ThreadsTyped, TasksTyped
  <2>2. w \in 1..made /\ sweeping
    BY <1>4 DEF Typed, MapsTyped
  <2>3. MapsTyped'
    BY <1>4, <2>2 DEF RemoveVisit, Typed, MapsTyped
  <2> QED BY <2>1, <2>3 DEF Typed
<1>5. CASE RemoveBegin
  <2>1. ThreadsTyped' /\ TasksTyped'
    BY <1>5 DEF RemoveBegin, Typed, ThreadsTyped, TasksTyped
  <2>2. MapsTyped'
    BY <1>5 DEF RemoveBegin, Typed, MapsTyped
  <2> QED BY <2>1, <2>2 DEF Typed
<1>6. CASE RemoveStop
  <2>1. doomed \in Workers
    BY <1>6, PoolAssumption DEF RemoveStop, Typed, MapsTyped, Workers
  <2>2. thread' \in [Workers -> ThreadStages] /\ \A w \in Workers : thread'[w] # "none" => w <= made
    BY <1>6, <2>1 DEF RemoveStop, Goes, Typed, ThreadsTyped, ThreadStages
  <2>3. ThreadsTyped'
    BY <1>6, <2>1, <2>2 DEF RemoveStop, Typed, ThreadsTyped
  <2>4. TasksTyped' /\ MapsTyped'
    BY <1>6 DEF RemoveStop, Typed, TasksTyped, MapsTyped
  <2> QED BY <2>3, <2>4 DEF Typed
<1>7. CASE RemovePublish
  <2>1. ThreadsTyped' /\ TasksTyped'
    BY <1>7 DEF RemovePublish, Typed, ThreadsTyped, TasksTyped
  <2>2. PICK m \in Maps :
            /\ reg' = m
            /\ maps' = [n \in Maps |-> IF n = m THEN kept ELSE IF Held(n, None) THEN maps[n] ELSE {}]
    BY <1>7 DEF RemovePublish
  <2>3. kept \subseteq Workers
    BY PoolAssumption DEF Typed, MapsTyped, Workers
  <2>4. /\ maps' \in [Maps -> SUBSET Workers]
        /\ \A n \in Maps : maps'[n] \subseteq 1..made
    BY <2>2, <2>3 DEF Typed, MapsTyped
  <2>5. MapsTyped'
    BY <1>7, <2>2, <2>4 DEF RemovePublish, Typed, MapsTyped
  <2> QED BY <2>1, <2>5 DEF Typed
<1> QED BY <1>2, <1>3, <1>4, <1>5, <1>6, <1>7

\* The types hold in every state.
LEMMA TypedAlways == Spec => []Typed
<1>1. Typed /\ [Next]_vars => Typed'
  <2> SUFFICES ASSUME Typed, [Next]_vars PROVE Typed'
    OBVIOUS
  <2>1. CASE Next
    BY <2>1, TypedTask, TypedRest DEF Next
  <2>2. CASE UNCHANGED vars
    BY <2>2 DEF vars, Typed, TasksTyped, ThreadsTyped, MapsTyped
  <2> QED BY <2>1, <2>2
<1> QED BY <1>1, TypedInit, PTL DEF Spec

-----------------------------------------------------------------------------
(* No wake-up is missed.                                                   *)

\* A task that has inserted and has not notified yet stays where it is, or notifies, which
\* ends the waiting of the worker's thread.
LEMMA WakeupStep == Typed /\ NoMissedWakeup /\ [Next]_vars => NoMissedWakeup'
<1> SUFFICES ASSUME Typed, NoMissedWakeup, [Next]_vars,
                    NEW w \in Workers, thread'[w] \in {"empty", "wait"}, hosted'[w] # {}
             PROVE  \E a \in Adders : at'[a] = "notify" /\ cur'[a] = w
  BY DEF NoMissedWakeup
<1>t. /\ thread \in [Workers -> ThreadStages] /\ hosted \in [Workers -> SUBSET Rooms]
      /\ at \in [Adders -> AdderStages] /\ cur \in [Adders -> Workers \cup {0}]
  BY DEF Typed, ThreadsTyped, TasksTyped
<1>1. ASSUME thread[w] \in {"empty", "wait"}, hosted[w] # {},
             \A b \in Adders : at[b] = "notify" /\ cur[b] = w
                                => at'[b] = "notify" /\ cur'[b] = w
      PROVE  \E a \in Adders : at'[a] = "notify" /\ cur'[a] = w
  BY <1>1 DEF NoMissedWakeup
<1>2. ASSUME NEW a \in Adders, (\E r \in Rooms : Begin(a, r)) \/ Visit(a) \/ CheckSize(a)
      PROVE  \E b \in Adders : at'[b] = "notify" /\ cur'[b] = w
  <2>1. UNCHANGED <<thread, hosted>> /\ at[a] # "notify"
    BY <1>2 DEF Begin, Visit, CheckSize
  <2>2. \A b \in Adders : b # a => at'[b] = at[b] /\ cur'[b] = cur[b]
    BY <1>2, <1>t DEF Begin, Visit, CheckSize
  <2> QED BY <1>1, <2>1, <2>2
<1>3. ASSUME NEW a \in Adders, Make(a)
      PROVE  \E b \in Adders : at'[b] = "notify" /\ cur'[b] = w
  <2>1. hosted' = hosted /\ at[a] # "notify" /\ thread' = [thread EXCEPT ![made'] = "out"]
    BY <1>3 DEF Make
  <2>2. thread[w] = thread'[w]
    BY <1>t, <2>1
  <2>3. \A b \in Adders : b # a => at'[b] = at[b] /\ cur'[b] = cur[b]
    BY <1>3, <1>t DEF Make
  <2> QED BY <1>1, <2>1, <2>2, <2>3
<1>4. ASSUME NEW a \in Adders, Insert(a)
      PROVE  \E b \in Adders : at'[b] = "notify" /\ cur'[b] = w
  <2>1. thread' = thread /\ cur' = cur /\ at' = [at EXCEPT ![a] = "notify"]
    BY <1>4 DEF Insert
  <2>2. CASE cur[a] = w
    BY <1>t, <2>1, <2>2
  <2>3. CASE cur[a] # w
    <3>1. hosted'[w] = hosted[w]
      BY <1>4, <1>t, <2>3 DEF Insert
    <3>2. at[a] # "notify" /\ \A b \in Adders : b # a => at'[b] = at[b]
      BY <1>4, <1>t DEF Insert
    <3> QED BY <1>1, <2>1, <3>1, <3>2
  <2> QED BY <2>2, <2>3
<1>5. ASSUME NEW a \in Adders, Notify(a)
      PROVE  \E b \in Adders : at'[b] = "notify" /\ cur'[b] = w
  <2>1. /\ hosted' = hosted /\ ~Locked(cur[a])
        /\ thread' = [thread EXCEPT ![cur[a]] = IF @ = "wait" THEN "woken" ELSE @]
    BY <1>5 DEF Notify
  <2>2. cur[a] # w
    BY <1>t, <2>1 DEF Locked
  <2>3. thread'[w] = thread[w]
    BY <1>t, <2>1, <2>2
  <2>4. \A b \in Adders : b # a => at'[b] = at[b] /\ cur'[b] = cur[b]
    BY <1>5, <1>t DEF Notify, Returns
  <2> QED BY <1>1, <2>1, <2>2, <2>3, <2>4
<1>6. ASSUME NEW a \in Adders, Publish(a)
      PROVE  \E b \in Adders : at'[b] = "notify" /\ cur'[b] = w
  <2>1. UNCHANGED <<thread, hosted>> /\ at[a] # "notify"
    BY <1>6 DEF Publish
  <2>2. \A b \in Adders : b # a => at'[b] = at[b] /\ cur'[b] = cur[b]
    BY <1>6, <1>t DEF Publish, Returns
  <2> QED BY <1>1, <2>1, <2>2
<1>7. ASSUME NEW v \in Workers, Thread(v) \/ UpdateThrows(v)
      PROVE  \E b \in Adders : at'[b] = "notify" /\ cur'[b] = w
  <2>1. UNCHANGED <<at, cur, hosted>>
    BY <1>7 DEF Thread, Enter, Wake, Wait, Reenter, Update, UpdateThrows
  <2>2. thread[w] \in {"empty", "wait"}
    BY <1>7, <1>t, <2>1 DEF Thread, Enter, Wake, Wait, Reenter, Update, UpdateThrows, Goes,
                            Interruption
  <2> QED BY <1>1, <2>1, <2>2
<1>8. ASSUME NEW v \in Workers, Sweep(v)
      PROVE  \E b \in Adders : at'[b] = "notify" /\ cur'[b] = w
  <2>1. UNCHANGED <<at, cur, thread>> /\ hosted'[w] \subseteq hosted[w]
    BY <1>8, <1>t DEF Sweep
  <2> QED BY <1>1, <2>1
<1>9. CASE (\E v \in todo : RemoveVisit(v)) \/ RemoveBegin \/ RemovePublish
  <2>1. UNCHANGED <<at, cur, thread, hosted>>
    BY <1>9 DEF RemoveVisit, RemoveBegin, RemovePublish
  <2> QED BY <1>1, <2>1
<1>10. CASE RemoveStop
  <2>1. UNCHANGED <<at, cur, hosted>> /\ thread[w] = thread'[w]
    BY <1>10, <1>t DEF RemoveStop, Goes
  <2> QED BY <1>1, <2>1
<1>11. CASE UNCHANGED vars
  <2>1. UNCHANGED <<at, cur, thread, hosted>>
    BY <1>11 DEF vars
  <2> QED BY <1>1, <2>1
<1> QED BY <1>2, <1>3, <1>4, <1>5, <1>6, <1>7, <1>8, <1>9, <1>10, <1>11 DEF Next, Adding

-----------------------------------------------------------------------------
(* One thread for each room.                                               *)

\* A room has one task, and is in no worker's map before that task inserts it.
Apart ==
    /\ \A w \in Workers : hosted[w] \subseteq taken
    /\ \A a \in Adders : at[a] # "idle" => room[a] \in taken
    /\ \A a, b \in Adders : at[a] # "idle" /\ at[b] # "idle" /\ room[a] = room[b] => a = b
    /\ \A a \in Adders, w \in Workers :
           at[a] \in {"scan", "size", "insert"} => room[a] \notin hosted[w]

\* A task takes a new room, and inserts it once.
LEMMA ApartStep ==
  Typed /\ Apart /\ OneThreadUpdates /\ [Next]_vars => Apart' /\ OneThreadUpdates'
<1> SUFFICES ASSUME Typed, Apart, OneThreadUpdates, [Next]_vars
             PROVE  Apart' /\ OneThreadUpdates'
  OBVIOUS
<1>t. /\ hosted \in [Workers -> SUBSET Rooms] /\ room \in [Adders -> Rooms \cup {None}]
      /\ at \in [Adders -> AdderStages] /\ cur \in [Adders -> Workers \cup {0}]
  BY DEF Typed, ThreadsTyped, TasksTyped
<1>1. ASSUME NEW a \in Adders, UNCHANGED <<hosted, taken, room>>, at[a] # "idle",
             NEW stage \in AdderStages, at' = [at EXCEPT ![a] = stage],
             stage \in {"scan", "size", "insert"} => at[a] \in {"scan", "size", "insert"}
      PROVE  Apart' /\ OneThreadUpdates'
  BY <1>1, <1>t DEF Apart, OneThreadUpdates
<1>2. ASSUME NEW a \in Adders, UNCHANGED <<hosted, taken>>,
             room' = [room EXCEPT ![a] = None], at' = [at EXCEPT ![a] = "idle"]
      PROVE  Apart' /\ OneThreadUpdates'
  BY <1>2, <1>t DEF Apart, OneThreadUpdates
<1>3. ASSUME UNCHANGED <<at, room, taken>>, hosted' \in [Workers -> SUBSET Rooms],
             \A w \in Workers : hosted'[w] \subseteq hosted[w]
      PROVE  Apart' /\ OneThreadUpdates'
  <2>1. Apart'
    BY <1>3 DEF Apart
  <2>2. ASSUME NEW w \in Workers, NEW v \in Workers, hosted'[w] \cap hosted'[v] # {}
        PROVE  w = v
    <3>1. hosted'[w] \subseteq hosted[w] /\ hosted'[v] \subseteq hosted[v]
      BY <1>3
    <3>2. hosted[w] \cap hosted[v] # {}
      BY <2>2, <3>1
    <3> QED BY <3>2 DEF OneThreadUpdates
  <2> QED BY <2>1, <2>2 DEF OneThreadUpdates
<1>4. ASSUME NEW a \in Adders, NEW r \in Rooms, Begin(a, r)
      PROVE  Apart' /\ OneThreadUpdates'
  <2>1. /\ at[a] = "idle" /\ r \notin taken /\ taken' = taken \cup {r} /\ hosted' = hosted
        /\ at' = [at EXCEPT ![a] = "scan"] /\ room' = [room EXCEPT ![a] = r]
    BY <1>4 DEF Begin
  <2>2. \A w \in Workers : r \notin hosted[w]
    BY <2>1 DEF Apart
  <2>3. \A b \in Adders : at[b] # "idle" => room[b] # r
    BY <2>1 DEF Apart
  <2>4. Apart'
    BY <1>t, <2>1, <2>2, <2>3 DEF Apart
  <2> QED BY <2>1, <2>4 DEF OneThreadUpdates
<1>5. ASSUME NEW a \in Adders, Visit(a) \/ Make(a) \/ CheckSize(a)
      PROVE  Apart' /\ OneThreadUpdates'
  <2>1. UNCHANGED <<hosted, taken, room>> /\ at[a] \in {"scan", "size"}
    BY <1>5 DEF Visit, Make, CheckSize
  <2>2. \E stage \in AdderStages : at' = [at EXCEPT ![a] = stage]
    BY <1>5 DEF Visit, Make, CheckSize, AdderStages
  <2> QED BY <1>1, <2>1, <2>2
<1>6. ASSUME NEW a \in Adders, Insert(a) PROVE Apart' /\ OneThreadUpdates'
  <2>1. /\ at[a] = "insert" /\ at' = [at EXCEPT ![a] = "notify"]
        /\ UNCHANGED <<room, taken>>
    BY <1>6 DEF Insert
  <2>2. CASE Hosting
    <3>1. hosted' = [hosted EXCEPT ![cur[a]] = @ \cup {room[a]}]
      BY <1>6, <2>2 DEF Insert
    <3>2. room[a] \in taken /\ \A w \in Workers : room[a] \notin hosted[w]
      BY <2>1 DEF Apart
    <3>3. \A w \in Workers : hosted'[w] = IF w = cur[a] THEN hosted[w] \cup {room[a]} ELSE hosted[w]
      BY <1>t, <3>1
    <3>4. OneThreadUpdates'
      <4>1. ASSUME NEW w \in Workers, NEW v \in Workers, w # v
            PROVE  hosted'[w] \cap hosted'[v] = {}
        <5>1. hosted[w] \cap hosted[v] = {}
          BY <4>1 DEF OneThreadUpdates
        <5>2. room[a] \notin hosted[w] /\ room[a] \notin hosted[v]
          BY <3>2
        <5>3. /\ hosted'[w] = IF w = cur[a] THEN hosted[w] \cup {room[a]} ELSE hosted[w]
              /\ hosted'[v] = IF v = cur[a] THEN hosted[v] \cup {room[a]} ELSE hosted[v]
          BY <3>3
        <5> QED BY ONLY <4>1, <5>1, <5>2, <5>3
      <4> QED BY <4>1 DEF OneThreadUpdates
    <3>5. \A w \in Workers : hosted'[w] \subseteq taken'
      <4>1. \A w \in Workers : hosted[w] \subseteq taken
        BY DEF Apart
      <4> QED BY ONLY <2>1, <3>2, <3>3, <4>1
    <3>6. ASSUME NEW b \in Adders, NEW w \in Workers, at'[b] \in {"scan", "size", "insert"}
          PROVE  room[b] \notin hosted'[w]
      <4>1. b # a /\ at[b] = at'[b]
        BY <1>t, <2>1, <3>6
      <4>2. room[b] # room[a] /\ room[b] \notin hosted[w]
        BY <2>1, <3>6, <4>1 DEF Apart
      <4> QED BY <3>3, <4>2
    <3>7. \A b \in Adders : at'[b] # "idle" => at[b] # "idle"
      BY <1>t, <2>1
    <3> QED BY <2>1, <3>4, <3>5, <3>6, <3>7 DEF Apart
  <2>3. CASE ~Hosting
    BY <1>1, <1>6, <2>1, <2>3 DEF Insert, AdderStages
  <2> QED BY <2>2, <2>3
<1>7. ASSUME NEW a \in Adders, Notify(a) PROVE Apart' /\ OneThreadUpdates'
  <2>1. CASE fresh[a]
    BY <1>1, <1>7, <2>1 DEF Notify, AdderStages
  <2>2. CASE ~fresh[a]
    BY <1>2, <1>7, <2>2 DEF Notify, Returns
  <2> QED BY <2>1, <2>2
<1>8. ASSUME NEW a \in Adders, Publish(a) PROVE Apart' /\ OneThreadUpdates'
  BY <1>2, <1>8 DEF Publish, Returns
<1>9. ASSUME NEW v \in Workers, Thread(v) \/ UpdateThrows(v) \/ Sweep(v)
      PROVE  Apart' /\ OneThreadUpdates'
  <2>1. UNCHANGED <<at, room, taken>>
    BY <1>9 DEF Thread, Enter, Wake, Wait, Reenter, Update, UpdateThrows, Sweep
  <2>2. hosted' \in [Workers -> SUBSET Rooms] /\ \A w \in Workers : hosted'[w] \subseteq hosted[w]
    BY <1>9, <1>t DEF Thread, Enter, Wake, Wait, Reenter, Update, UpdateThrows, Sweep
  <2> QED BY <1>3, <2>1, <2>2
<1>10. CASE \/ \E v \in todo : RemoveVisit(v)
            \/ RemoveBegin \/ RemoveStop \/ RemovePublish \/ UNCHANGED vars
  <2>1. UNCHANGED <<at, room, taken, hosted>>
    BY <1>10 DEF RemoveVisit, RemoveBegin, RemoveStop, RemovePublish, vars
  <2> QED BY <1>3, <1>t, <2>1
<1> QED BY <1>4, <1>5, <1>6, <1>7, <1>8, <1>9, <1>10 DEF Next, Adding

-----------------------------------------------------------------------------
(* The theorems.                                                           *)

\* Every variable keeps its type; only workers that have been made have a thread, and a task
\* that is past the choice of a worker has chosen one that was made.
THEOREM TypeCorrect == Spec => []TypeOK
<1>1. Typed => TypeOK
  <2> SUFFICES ASSUME Typed PROVE TypeOK
    OBVIOUS
  <2>1. todo \subseteq Workers /\ kept \subseteq Workers /\ doomed \in Workers \cup {0}
    BY PoolAssumption DEF Typed, MapsTyped, Workers
  <2> QED BY <2>1 DEF Typed, TasksTyped, ThreadsTyped, MapsTyped, TypeOK
<1> QED BY <1>1, TypedAlways, PTL

\* However many tasks, workers and sweeps there are, no thread waits on a worker that has a
\* room unless a notification is still coming.
THEOREM NoWakeupMissed == Spec => []NoMissedWakeup
<1>1. Init => NoMissedWakeup
  BY DEF Init, NoMissedWakeup
<1> QED BY <1>1, WakeupStep, TypedAlways, PTL DEF Spec

\* No room is ever in the maps of two workers: the worker that a room counts on is alone.
THEOREM OneThread == Spec => []OneThreadUpdates
<1>1. Init => Apart /\ OneThreadUpdates
  BY DEF Init, Apart, OneThreadUpdates
<1> QED BY <1>1, ApartStep, TypedAlways, PTL DEF Spec

\* The code as it is: computeIfPresent with the id of a new room adds nothing, so that no
\* worker ever has a room to update.
THEOREM NothingHostedAsWritten ==
  ASSUME ~Hosting
  PROVE  Spec => [](\A w \in Workers : hosted[w] = {})
<1> DEFINE Nothing == \A w \in Workers : hosted[w] = {}
<1>1. Init => Nothing
  BY DEF Init
<1>2. Typed /\ Nothing /\ [Next]_vars => Nothing'
  <2> SUFFICES ASSUME Typed, Nothing, [Next]_vars PROVE Nothing'
    OBVIOUS
  <2>t. hosted \in [Workers -> SUBSET Rooms]
    BY DEF Typed, ThreadsTyped
  <2>1. ASSUME NEW a \in Adders, (\E r \in Rooms : Begin(a, r)) \/ Adding(a) PROVE hosted' = hosted
    BY <2>1, ~Hosting DEF Begin, Adding, Visit, Make, CheckSize, Insert, Notify, Publish
  <2>2. ASSUME NEW v \in Workers, Thread(v) \/ UpdateThrows(v) PROVE hosted' = hosted
    BY <2>2 DEF Thread, Enter, Wake, Wait, Reenter, Update, UpdateThrows
  <2>3. ASSUME NEW v \in Workers, Sweep(v) PROVE Nothing'
    BY <2>3, <2>t DEF Sweep
  <2>4. CASE \/ \E v \in todo : RemoveVisit(v)
             \/ RemoveBegin \/ RemoveStop \/ RemovePublish \/ UNCHANGED vars
    BY <2>4 DEF RemoveVisit, RemoveBegin, RemoveStop, RemovePublish, vars
  <2> QED BY <2>1, <2>2, <2>3, <2>4 DEF Next
<1> QED BY <1>1, <1>2, TypedAlways, PTL DEF Spec
=============================================================================
