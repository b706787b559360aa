----------------------------- MODULE WorkerPool -----------------------------
(***************************************************************************)
(* WorkerManager and its StateGroupWorkers: the tasks of createRoom add    *)
(* rooms, every worker's thread updates the rooms of its map, and periodic *)
(* sweeps drop rooms that are over and stop workers that have no room.     *)
(*                                                                         *)
(* A task, a thread or a sweep stops between two steps wherever the code   *)
(* touches what another reads or writes: the volatile maps, isStarted, and *)
(* the monitor LOCK of a worker. A sweep works on a copy and publishes it  *)
(* at its end.                                                             *)
(*                                                                         *)
(* tryAddOneStateGroup uses computeIfPresent, which adds nothing when the  *)
(* id is new: Hosting = FALSE is the code as it is. Hosting = TRUE is what *)
(* its callers count on, and the rest of the protocol was written for.     *)
(***************************************************************************)
EXTENDS Integers, FiniteSets

CONSTANTS
    Rooms,      \* every room is created, and added, once
    Adders,     \* the event loops that run createRoom
    Capacity,   \* stateGroupCapacity
    MaxWorkers, \* bound: the ids that ID_COUNT gives
    MaxSweeps,  \* bound: the times removeWorker runs
    Hosting,    \* whether a room with a new id gets into the worker's map
    None

Workers == 1..MaxWorkers

\* Map objects of the manager: one is published, one is being made by the sweep, and
\* every adder holds one.
Maps == 1..(Cardinality(Adders) + 2)

ASSUME PoolAssumption ==
    /\ IsFiniteSet(Rooms) /\ IsFiniteSet(Adders)
    /\ Capacity \in Nat \ {0} /\ MaxWorkers \in Nat /\ MaxSweeps \in Nat
    /\ Hosting \in BOOLEAN
    /\ None \notin Rooms \cup Adders

VARIABLES
    reg,        \* the published workerMap
    maps,       \* the workers in each map object
    made,       \* ID_COUNT - 1
    started,    \* the workers whose isStarted is true
    at,         \* where each adder is
    room,       \* the room it adds
    ref,        \* the map object it has read
    cur,        \* the worker it tries, 0 before the first
    following,  \* the worker its iterator will return next, 0 for none
    fresh,      \* it has made cur itself
    thread,     \* where the thread of each worker is
    interrupted,\* the threads whose interrupt flag is set
    hosted,     \* the rooms in the published stateGroupMap of each worker
    todo, kept, \* removeWorker: workers it has still to visit, workers it keeps
    doomed,     \* removeWorker: the worker it has found empty, 0 for none
    sweeping,   \* removeWorker runs
    sweeps,     \* the times it has run
    taken       \* the rooms that have been created

regVars == <<reg, maps, made>>
locals == <<room, ref, cur, following, fresh>>
adderVars == <<at, locals>>
threadVars == <<thread, interrupted>>
sweepVars == <<todo, kept, doomed, sweeping, sweeps>>
vars == <<regVars, started, adderVars, threadVars, hosted, sweepVars, taken>>

\* The thread holds its worker's LOCK while it sleeps, between the size check and wait,
\* and in update; in wait it has given it up, and "woken" it waits for it.
ThreadStages == {"none", "out", "sleep", "empty", "wait", "woken", "update", "dead"}
Locked(w) == thread[w] \in {"sleep", "empty", "update"}
AdderStages == {"idle", "scan", "size", "insert", "notify", "publish"}

\* The iterator's order is that of the ids: worker v follows w in map object m, 0 is the end.
Follows(v, w, m) ==
    \/ v \in maps[m] /\ v > w /\ \A u \in maps[m] : u > w => v <= u
    \/ v = 0 /\ \A u \in maps[m] : u <= w

Init ==
    /\ reg = 1 /\ maps = [m \in Maps |-> {}] /\ made = 0 /\ started = {}
    /\ at = [a \in Adders |-> "idle"] /\ room = [a \in Adders |-> None]
    /\ ref = [a \in Adders |-> 1] /\ cur = [a \in Adders |-> 0]
    /\ following = [a \in Adders |-> 0] /\ fresh = [a \in Adders |-> FALSE]
    /\ thread = [w \in Workers |-> "none"] /\ interrupted = {}
    /\ hosted = [w \in Workers |-> {}] 
    /\ todo = {} /\ kept = {} /\ doomed = 0 /\ sweeping = FALSE /\ sweeps = 0
    /\ taken = {}

-----------------------------------------------------------------------------
(* addStateGroup.                                                          *)

\* The iterator over the values has its first worker at hand.
Begin(a, r) ==
    /\ at[a] = "idle" /\ r \notin taken
    /\ taken' = taken \cup {r}
    /\ at' = [at EXCEPT ![a] = "scan"]
    /\ room' = [room EXCEPT ![a] = r]
    /\ ref' = [ref EXCEPT ![a] = reg]
    /\ \E v \in Workers \cup {0} : /\ Follows(v, 0, reg)
                                  /\ following' = [following EXCEPT ![a] = v]
    /\ UNCHANGED <<cur, fresh, regVars, started, threadVars, hosted, sweepVars>>

\* The next worker; one that is not started is passed over.
Visit(a) ==
    /\ at[a] = "scan" /\ following[a] # 0
    /\ cur' = [cur EXCEPT ![a] = following[a]]
    /\ \E v \in Workers \cup {0} : /\ Follows(v, following[a], ref[a])
                                  /\ following' = [following EXCEPT ![a] = v]
    /\ at' = [at EXCEPT ![a] = IF following[a] \in started THEN "size" ELSE "scan"]
    /\ UNCHANGED <<regVars, started, room, ref, fresh, threadVars, hosted, sweepVars, taken>>

\* A mutant: the id is not counted.
MakeUncounted(a) ==
    /\ at[a] = "scan" /\ following[a] = 0
    /\ made < MaxWorkers
    /\ maps' = [maps EXCEPT ![ref[a]] = @ \cup {made + 1}]
    /\ started' = started \cup {made + 1}
    /\ thread' = [thread EXCEPT ![made + 1] = "out"]
    /\ cur' = [cur EXCEPT ![a] = made + 1] /\ fresh' = [fresh EXCEPT ![a] = TRUE]
    /\ at' = [at EXCEPT ![a] = "size"]
    /\ UNCHANGED <<reg, made, room, ref, following, interrupted, hosted, sweepVars, taken>>

\* No worker took the room: a new one is started, in the map that was read.
Make(a) ==
    /\ at[a] = "scan" /\ following[a] = 0
    /\ made < MaxWorkers
    /\ made' = made + 1
    /\ maps' = [maps EXCEPT ![ref[a]] = @ \cup {made'}]
    /\ started' = started \cup {made'}
    /\ thread' = [thread EXCEPT ![made'] = "out"]
    /\ cur' = [cur EXCEPT ![a] = made'] /\ fresh' = [fresh EXCEPT ![a] = TRUE]
    /\ at' = [at EXCEPT ![a] = "size"]
    /\ UNCHANGED <<reg, room, ref, following, interrupted, hosted, sweepVars, taken>>

Full(w) == 4 * Cardinality(hosted[w]) >= 3 * Capacity

\* tryAddOneStateGroup: the size check. The answer of a new worker is not looked at.
CheckSize(a) ==
    /\ at[a] = "size"
    /\ at' = [at EXCEPT ![a] = IF ~Full(cur[a]) THEN "insert"
                               ELSE IF fresh[a] THEN "publish" ELSE "scan"]
    /\ UNCHANGED <<regVars, started, locals, threadVars, hosted, sweepVars, taken>>

\* tryAddOneStateGroup: the insertion. Into a map object that the sweep has replaced
\* meanwhile it is the same as just before that.
Insert(a) ==
    /\ at[a] = "insert"
    /\ hosted' = IF Hosting THEN [hosted EXCEPT ![cur[a]] = @ \cup {room[a]}] ELSE hosted
    /\ at' = [at EXCEPT ![a] = "notify"]
    /\ UNCHANGED <<regVars, started, locals, threadVars, sweepVars, taken>>

\* A map object that a task holds, not counting task a.
Held(m, a) == \E b \in Adders \ {a} : at[b] # "idle" /\ ref[b] = m

\* addStateGroup returns, and a map object that nobody has any more is forgotten.
Returns(a, published) ==
    /\ at' = [at EXCEPT ![a] = "idle"] /\ room' = [room EXCEPT ![a] = None]
    /\ ref' = [ref EXCEPT ![a] = 1] /\ cur' = [cur EXCEPT ![a] = 0]
    /\ following' = [following EXCEPT ![a] = 0] /\ fresh' = [fresh EXCEPT ![a] = FALSE]
    /\ maps' = [m \in Maps |-> IF m = published \/ Held(m, a) THEN maps[m] ELSE {}]

\* Two mutants: the monitor is not entered; the answer is false.
NotifyAtOnce(a) ==
    /\ at[a] = "notify"
    /\ thread' = [thread EXCEPT ![cur[a]] = IF @ = "wait" THEN "woken" ELSE @]
    /\ IF fresh[a]
       THEN at' = [at EXCEPT ![a] = "publish"] /\ UNCHANGED <<maps, locals>>
       ELSE Returns(a, reg)
    /\ UNCHANGED <<reg, made, started, interrupted, hosted, sweepVars, taken>>

NotifyGoesOn(a) ==
    /\ at[a] = "notify" /\ ~Locked(cur[a])
    /\ thread' = [thread EXCEPT ![cur[a]] = IF @ = "wait" THEN "woken" ELSE @]
    /\ at' = [at EXCEPT ![a] = IF fresh[a] THEN "publish" ELSE "scan"]
    /\ UNCHANGED <<locals, regVars, started, interrupted, hosted, sweepVars, taken>>

\* tryAddOneStateGroup: notifyAll in the monitor; the answer is true.
Notify(a) ==
    /\ at[a] = "notify" /\ ~Locked(cur[a])
    /\ thread' = [thread EXCEPT ![cur[a]] = IF @ = "wait" THEN "woken" ELSE @]
    /\ IF fresh[a]
       THEN at' = [at EXCEPT ![a] = "publish"] /\ UNCHANGED <<maps, locals>>
       ELSE Returns(a, reg)
    /\ UNCHANGED <<reg, made, started, interrupted, hosted, sweepVars, taken>>

\* The map that was read is published (again).
Publish(a) ==
    /\ at[a] = "publish"
    /\ reg' = ref[a]
    /\ Returns(a, ref[a])
    /\ UNCHANGED <<made, started, threadVars, hosted, sweepVars, taken>>

-----------------------------------------------------------------------------
(* StateGroupWorker.run.                                                   *)

Goes(w, stage) == thread' = [thread EXCEPT ![w] = stage]

\* An InterruptedException is ignored.
Interruption(w) ==
    w \in interrupted /\ Goes(w, "update") /\ interrupted' = interrupted \ {w}

RestOfThread == <<regVars, started, adderVars, hosted, sweepVars, taken>>

Enter(w) ==
    /\ thread[w] = "out"
    /\ Goes(w, "sleep")
    /\ UNCHANGED <<interrupted, RestOfThread>>

\* The sleep ends, or is interrupted; then the size is looked at.
Wake(w) ==
    /\ thread[w] = "sleep"
    /\ \/ Interruption(w)
       \/ /\ w \notin interrupted
          /\ Goes(w, IF hosted[w] = {} THEN "empty" ELSE "update")
          /\ UNCHANGED interrupted
    /\ UNCHANGED RestOfThread

Wait(w) ==
    /\ thread[w] = "empty"
    /\ \/ Interruption(w)
       \/ /\ w \notin interrupted
          /\ Goes(w, "wait")
          /\ UNCHANGED interrupted
    /\ UNCHANGED RestOfThread

\* A notified or interrupted thread gets the monitor again.
Reenter(w) ==
    /\ thread[w] = "woken"
    /\ Goes(w, "update")
    /\ UNCHANGED <<interrupted, RestOfThread>>

\* A mutant: the thread of a stopped worker ends.
UpdateStarted(w) ==
    /\ thread[w] = "update"
    /\ Goes(w, IF w \in started THEN "out" ELSE "none")
    /\ UNCHANGED <<interrupted, RestOfThread>>

\* Every room of the map that is not over is updated; the loop of run has no end.
Update(w) ==
    /\ thread[w] = "update"
    /\ Goes(w, "out")
    /\ UNCHANGED <<interrupted, RestOfThread>>

\* canDepose of a room throws: nothing in run catches it.
UpdateThrows(w) ==
    /\ thread[w] = "update" /\ hosted[w] # {}
    /\ Goes(w, "dead")
    /\ UNCHANGED <<interrupted, RestOfThread>>

-----------------------------------------------------------------------------
(* The sweeps.                                                             *)

\* removeDeposedGroup of worker w publishes the copy that it has made: what is over is not
\* in it, and may be any room; what was inserted since the copy is not in it either.
Sweep(w) ==
    /\ w <= made
    /\ \E rest \in SUBSET hosted[w] : hosted' = [hosted EXCEPT ![w] = rest]
    /\ UNCHANGED <<regVars, started, adderVars, threadVars, sweepVars, taken>>

\* removeWorker: the copy.
RemoveBegin ==
    /\ ~sweeping /\ sweeps < MaxSweeps
    /\ sweeping' = TRUE /\ sweeps' = sweeps + 1
    /\ todo' = maps[reg] /\ kept' = {}
    /\ UNCHANGED <<regVars, started, adderVars, threadVars, hosted, doomed, taken>>

\* removeWorker looks at one worker.
RemoveVisit(w) ==
    /\ doomed = 0 /\ w \in todo
    /\ todo' = todo \ {w}
    /\ kept' = IF w \in started /\ hosted[w] # {} THEN kept \cup {w} ELSE kept
    /\ doomed' = IF w \in started /\ hosted[w] = {} THEN w ELSE 0
    /\ UNCHANGED <<regVars, started, adderVars, threadVars, hosted, sweeping, sweeps, taken>>

\* stop of the worker that was empty: its thread is interrupted, and goes on.
RemoveStop ==
    /\ doomed # 0
    /\ doomed' = 0
    /\ started' = started \ {doomed}
    /\ \/ /\ thread[doomed] = "wait"
          /\ Goes(doomed, "woken") /\ UNCHANGED interrupted
       \/ /\ thread[doomed] \notin {"wait", "dead"}
          /\ interrupted' = interrupted \cup {doomed} /\ UNCHANGED thread
       \/ /\ thread[doomed] = "dead"
          /\ UNCHANGED threadVars
    /\ UNCHANGED <<regVars, adderVars, hosted, todo, kept, sweeping, sweeps, taken>>

\* removeWorker publishes its copy, a map object that nobody holds.
Spare(m) == m # reg /\ ~Held(m, None)

RemovePublish ==
    /\ sweeping /\ todo = {} /\ doomed = 0
    /\ sweeping' = FALSE
    /\ \E m \in Maps :
           /\ Spare(m) /\ \A n \in Maps : Spare(n) => m <= n
           /\ reg' = m
           /\ maps' = [n \in Maps |-> IF n = m THEN kept ELSE IF Held(n, None) THEN maps[n] ELSE {}]
    /\ kept' = {}
    /\ UNCHANGED <<made, started, adderVars, threadVars, hosted, todo, doomed, sweeps, taken>>

-----------------------------------------------------------------------------
Adding(a) == Visit(a) \/ Make(a) \/ CheckSize(a) \/ Insert(a) \/ Notify(a) \/ Publish(a)
Thread(w) == Enter(w) \/ Wake(w) \/ Wait(w) \/ Reenter(w) \/ Update(w)

Next ==
    \/ \E a \in Adders : (\E r \in Rooms : Begin(a, r)) \/ Adding(a)
    \/ \E w \in Workers : Thread(w) \/ UpdateThrows(w) \/ Sweep(w)
    \/ \E w \in todo : RemoveVisit(w)
    \/ RemoveBegin \/ RemoveStop \/ RemovePublish

Spec == Init /\ [][Next]_vars

\* Threads and tasks run. A task may find the monitor taken whenever it tries: WF promises
\* nothing of Notify but for a thread that waits.
Fairness ==
    /\ \A a \in Adders : WF_vars(Adding(a))
    /\ \A w \in Workers : WF_vars(Thread(w))

FairSpec == Spec /\ Fairness

-----------------------------------------------------------------------------
(* Properties.                                                             *)

TypeOK ==
    /\ reg \in Maps /\ maps \in [Maps -> SUBSET Workers] /\ made \in 0..MaxWorkers
    /\ started \subseteq Workers
    /\ at \in [Adders -> AdderStages] /\ room \in [Adders -> Rooms \cup {None}]
    /\ ref \in [Adders -> Maps] /\ cur \in [Adders -> Workers \cup {0}]
    /\ following \in [Adders -> Workers \cup {0}] /\ fresh \in [Adders -> BOOLEAN]
    /\ thread \in [Workers -> ThreadStages] /\ interrupted \subseteq Workers
    /\ hosted \in [Workers -> SUBSET Rooms]
    /\ todo \subseteq Workers /\ kept \subseteq Workers /\ doomed \in Workers \cup {0}
    /\ sweeping \in BOOLEAN /\ sweeps \in Nat
    /\ taken \subseteq Rooms
    /\ \A w \in Workers : thread[w] # "none" => w <= made
    /\ \A a \in Adders : at[a] \in {"size", "insert", "notify", "publish"} => cur[a] \in 1..made
    /\ doomed # 0 => sweeping

\* No wake-up is missed: when a thread waits, or is about to, though its worker has a room,
\* a task that has inserted into this worker is still going to notify it.
NoMissedWakeup ==
    \A w \in Workers :
        thread[w] \in {"empty", "wait"} /\ hosted[w] # {}
            => \E a \in Adders : at[a] = "notify" /\ cur[a] = w

\* A room is in the map of one worker, so that no two threads ever update it: the rooms
\* have no lock and count on that.
OneThreadUpdates ==
    \A w, v \in Workers : hosted[w] \cap hosted[v] # {} => w = v

\* A room in a worker's map is updated, unless the sweep drops it or an exception has ended
\* the thread; also in a worker that was stopped while the room was added, because stop does
\* not end the thread.
AddedIsServed ==
    \A w \in Workers, r \in Rooms :
        r \in hosted[w] ~> thread[w] \in {"update", "dead"} \/ r \notin hosted[w]
=============================================================================
