----------------------------- MODULE MapUpdater -----------------------------
(***************************************************************************)
(* The parallel map update: MapManager::Update (world thread) hands every  *)
(* base map to MapUpdater::schedule_update, a DelayExecutor pool runs      *)
(* Map::Update on them, a MapInstanced schedules or destroys its instances *)
(* from inside its own update, and MapUpdater::wait is the barrier after   *)
(* which the world thread runs DelayedUpdate on every map.                 *)
(*                                                                         *)
(* Every critical section of MapUpdater::m_mutex is one action; the mutex  *)
(* itself is therefore not a variable.  Map::Update of a plain map, the    *)
(* opaque game logic, is one step.                                         *)
(***************************************************************************)
EXTENDS Naturals, Sequences, FiniteSets

CONSTANTS
    Workers,     \* threads of the DelayExecutor, when it is activated
    WorldThread, \* the thread of WorldRunnable::run
    BaseMaps,    \* ids a base map can be created for (MapManager::i_maps)
    Instances,   \* instance maps (MapInstanced::m_InstancedMaps)
    Parent,      \* the MapInstanced an instance belongs to
    QueueCap,    \* requests below the high water mark of the ACE queue
    NoMap

ASSUME UpdaterAssumption ==
    /\ IsFiniteSet(Workers)
    /\ WorldThread \notin Workers
    /\ BaseMaps \cap Instances = {}
    /\ Parent \in [Instances -> BaseMaps]
    /\ QueueCap \in Nat \ {0}
    /\ NoMap \notin BaseMaps \cup Instances

Threads == Workers \cup {WorldThread}
Maps    == BaseMaps \cup Instances

VARIABLES
    wpc,       \* where the world thread is
    stopping,  \* World::IsStopped was seen: the run loop was left
    todo,      \* base maps the scheduling loop has not reached yet
    maps,      \* maps that exist (base maps and instances)
    queue,     \* DelayExecutor::queue_
    pending,   \* MapUpdater::pending_requests
    activated, \* DelayExecutor::activated_ and the state of its queue
    step,      \* what each thread does of a MapUpdateRequest
    cur,       \* the map each thread is updating
    left,      \* instances the loop of MapInstanced::Update has not visited
    fate       \* history: what became of each map in this tick

vars == <<wpc, stopping, todo, maps, queue, pending, activated, step, cur,
          left, fate>>

Busy == {"update", "children", "finish"}
Children(b) == {i \in maps \cap Instances : Parent[i] = b}
BusyWorkers == {w \in Workers : step[w] \in Busy}
QueuedMaps  == {queue[k] : k \in DOMAIN queue}

TypeOK ==
    /\ wpc \in {"idle", "schedule", "inline", "wait", "blocked", "delayed",
                "unload", "join", "stopped"}
    /\ stopping \in BOOLEAN
    /\ todo \subseteq BaseMaps
    /\ maps \subseteq Maps
    /\ queue \in Seq(Maps)
    /\ pending \in Nat
    /\ activated \in BOOLEAN
    /\ step \in [Threads -> Busy \cup {"dequeue", "exited"}]
    /\ cur \in [Threads -> Maps \cup {NoMap}]
    /\ left \in [Threads -> SUBSET Instances]
    /\ fate \in [Maps -> {"none", "updated", "dropped", "kept"}]

(* MapManager::Initialize starts the pool when a thread count is set; with *)
(* MapUpdate.Threads = 0 there is none and nothing is ever activated.      *)
Init ==
    /\ wpc = "idle"
    /\ stopping = FALSE
    /\ todo = {}
    /\ maps = {}
    /\ queue = <<>>
    /\ pending = 0
    /\ activated \in BOOLEAN
    /\ Workers = {} => ~activated
    /\ step = [t \in Threads |->
                  IF t = WorldThread \/ activated THEN "dequeue" ELSE "exited"]
    /\ cur = [t \in Threads |-> NoMap]
    /\ left = [t \in Threads |-> {}]
    /\ fate = [m \in Maps |-> "none"]

-----------------------------------------------------------------------------
(* Map creation happens in the world thread, in handlers that run between  *)
(* two map updates.                                                        *)

CreateBaseMap(b) ==
    /\ wpc = "idle"
    /\ b \notin maps
    /\ maps' = maps \cup {b}
    /\ UNCHANGED <<wpc, stopping, todo, queue, pending, activated, step, cur,
                   left, fate>>

CreateInstance(i) ==
    /\ wpc = "idle"
    /\ Parent[i] \in maps
    /\ i \notin maps
    /\ maps' = maps \cup {i}
    /\ UNCHANGED <<wpc, stopping, todo, queue, pending, activated, step, cur,
                   left, fate>>

-----------------------------------------------------------------------------
(* MapUpdater::schedule_update with DelayExecutor::execute: the enqueue    *)
(* has a zero timeout, so a full queue fails at once and the map misses    *)
(* this tick.                                                              *)
CanEnqueue == activated /\ Len(queue) < QueueCap

(* Mutant: the failure path does not take its increment back.              *)
schedule_update_NoRollback(m) ==
    \/ /\ CanEnqueue
       /\ queue' = Append(queue, m)
       /\ pending' = pending + 1
       /\ UNCHANGED fate
    \/ /\ ~CanEnqueue
       /\ fate' = [fate EXCEPT ![m] = "dropped"]
       /\ pending' = pending + 1
       /\ UNCHANGED queue

schedule_update(m) ==
    \/ /\ CanEnqueue
       /\ queue' = Append(queue, m)
       /\ pending' = pending + 1
       /\ UNCHANGED fate
    \/ /\ ~CanEnqueue
       /\ fate' = [fate EXCEPT ![m] = "dropped"]
       /\ UNCHANGED <<queue, pending>>

-----------------------------------------------------------------------------
(* The world thread.                                                       *)

(* MapManager::Update, once the timer has passed.                          *)
BeginUpdate ==
    /\ wpc = "idle"
    /\ wpc' = "schedule"
    /\ todo' = maps \cap BaseMaps
    /\ UNCHANGED <<stopping, maps, queue, pending, activated, step, cur, left,
                   fate>>

ScheduleBaseMap(b) ==
    /\ wpc = "schedule"
    /\ activated
    /\ b \in todo
    /\ schedule_update(b)
    /\ todo' = todo \ {b}
    /\ UNCHANGED <<wpc, stopping, maps, activated, step, cur, left>>

(* The loop's other branch: without a pool the world thread updates the    *)
(* map itself.                                                             *)
UpdateBaseMapInline(b) ==
    /\ wpc = "schedule"
    /\ ~activated
    /\ b \in todo
    /\ wpc' = "inline"
    /\ step' = [step EXCEPT ![WorldThread] = "update"]
    /\ cur' = [cur EXCEPT ![WorldThread] = b]
    /\ todo' = todo \ {b}
    /\ UNCHANGED <<stopping, maps, queue, pending, activated, left, fate>>

(* Mutant: MapManager::Update does not call wait.                          *)
EndSchedule_NoWait ==
    /\ wpc = "schedule"
    /\ todo = {}
    /\ wpc' = "delayed"
    /\ UNCHANGED <<stopping, todo, maps, queue, pending, activated, step, cur,
                   left, fate>>

EndSchedule ==
    /\ wpc = "schedule"
    /\ todo = {}
    /\ wpc' = IF activated THEN "wait" ELSE "delayed"
    /\ UNCHANGED <<stopping, todo, maps, queue, pending, activated, step, cur,
                   left, fate>>

(* MapUpdater::wait: the test under m_mutex, and the return to the caller, *)
(* MapManager::Update or MapUpdater::deactivate.                           *)
Wait ==
    /\ wpc = "wait"
    /\ wpc' = IF pending > 0 THEN "blocked"
              ELSE IF stopping THEN "join" ELSE "delayed"
    /\ UNCHANGED <<stopping, todo, maps, queue, pending, activated, step, cur,
                   left, fate>>

(* A condition variable may return without a broadcast.                    *)
SpuriousWakeup ==
    /\ wpc = "blocked"
    /\ wpc' = "wait"
    /\ UNCHANGED <<stopping, todo, maps, queue, pending, activated, step, cur,
                   left, fate>>

(* DelayedUpdate of every map, then the timer is reset.                    *)
DelayedUpdate ==
    /\ wpc = "delayed"
    /\ wpc' = "idle"
    /\ fate' = [m \in Maps |-> "none"]
    /\ UNCHANGED <<stopping, todo, maps, queue, pending, activated, step, cur,
                   left>>

(* The run loop ends between two updates; MapManager::UnloadAll deletes    *)
(* every map, the instances of a MapInstanced first, and only then stops   *)
(* the pool.                                                               *)
Stop ==
    /\ wpc = "idle"
    /\ wpc' = "unload"
    /\ stopping' = TRUE
    /\ UNCHANGED <<todo, maps, queue, pending, activated, step, cur, left,
                   fate>>

UnloadMap(b) ==
    /\ wpc = "unload"
    /\ b \in maps
    /\ maps' = maps \ ({b} \cup Children(b))
    /\ UNCHANGED <<wpc, stopping, todo, queue, pending, activated, step, cur,
                   left, fate>>

EndUnload ==
    /\ wpc = "unload"
    /\ maps = {}
    /\ wpc' = IF activated THEN "wait" ELSE "stopped"
    /\ UNCHANGED <<stopping, todo, maps, queue, pending, activated, step, cur,
                   left, fate>>

(* DelayExecutor::deactivate: close the queue, then wait for the threads.  *)
DeactivateQueue ==
    /\ wpc = "join"
    /\ activated
    /\ activated' = FALSE
    /\ UNCHANGED <<wpc, stopping, todo, maps, queue, pending, step, cur, left,
                   fate>>

Join ==
    /\ wpc = "join"
    /\ ~activated
    /\ \A w \in Workers : step[w] = "exited"
    /\ wpc' = "stopped"
    /\ UNCHANGED <<stopping, todo, maps, queue, pending, activated, step, cur,
                   left, fate>>

-----------------------------------------------------------------------------
(* DelayExecutor::svc and MapUpdateRequest::call, in a pool thread; the    *)
(* middle part also runs in the world thread when there is no pool.        *)

Dequeue(w) ==
    /\ step[w] = "dequeue"
    /\ activated
    /\ queue # <<>>
    /\ step' = [step EXCEPT ![w] = "update"]
    /\ cur' = [cur EXCEPT ![w] = Head(queue)]
    /\ queue' = Tail(queue)
    /\ UNCHANGED <<wpc, stopping, todo, maps, pending, activated, left, fate>>

(* A deactivated queue returns no request: the thread leaves its loop.     *)
ExitWorker(w) ==
    /\ step[w] = "dequeue"
    /\ ~activated
    /\ step' = [step EXCEPT ![w] = "exited"]
    /\ UNCHANGED <<wpc, stopping, todo, maps, queue, pending, activated, cur,
                   left, fate>>

(* Mutant: the loop runs over i_maps instead of m_InstancedMaps.           *)
UpdateMap_AllMaps(t) ==
    /\ step[t] = "update"
    /\ step' = [step EXCEPT ![t] = "children"]
    /\ left' = [left EXCEPT ![t] = maps]
    /\ UNCHANGED <<wpc, stopping, todo, maps, queue, pending, activated, cur,
                   fate>>

(* Map::Update of the map itself; a MapInstanced then visits its children. *)
UpdateMap(t) ==
    /\ step[t] = "update"
    /\ step' = [step EXCEPT ![t] = "children"]
    /\ left' = [left EXCEPT ![t] = Children(cur[t])]
    /\ UNCHANGED <<wpc, stopping, todo, maps, queue, pending, activated, cur,
                   fate>>

(* Mutant: the map is deleted but its iterator is not advanced.            *)
DestroyInstance_NoErase(t, i) ==
    /\ step[t] = "children"
    /\ i \in left[t]
    /\ maps' = maps \ {i}
    /\ UNCHANGED <<wpc, stopping, todo, queue, pending, activated, step, cur,
                   left, fate>>

(* CanUnload held and DestroyInstance found no player left.                *)
DestroyInstance(t, i) ==
    /\ step[t] = "children"
    /\ i \in left[t]
    /\ left' = [left EXCEPT ![t] = @ \ {i}]
    /\ maps' = maps \ {i}
    /\ UNCHANGED <<wpc, stopping, todo, queue, pending, activated, step, cur,
                   fate>>

(* CanUnload held but RemoveAllPlayers left somebody: neither destroyed    *)
(* nor updated in this tick.                                               *)
KeepInstance(t, i) ==
    /\ step[t] = "children"
    /\ i \in left[t]
    /\ left' = [left EXCEPT ![t] = @ \ {i}]
    /\ fate' = [fate EXCEPT ![i] = "kept"]
    /\ UNCHANGED <<wpc, stopping, todo, maps, queue, pending, activated, step,
                   cur>>

(* Mutant: the ++i after schedule_update is missing.                       *)
ScheduleInstance_NoAdvance(t, i) ==
    /\ step[t] = "children"
    /\ activated
    /\ i \in left[t]
    /\ schedule_update(i)
    /\ UNCHANGED <<wpc, stopping, todo, maps, activated, step, cur, left>>

ScheduleInstance(t, i) ==
    /\ step[t] = "children"
    /\ activated
    /\ i \in left[t]
    /\ schedule_update(i)
    /\ left' = [left EXCEPT ![t] = @ \ {i}]
    /\ UNCHANGED <<wpc, stopping, todo, maps, activated, step, cur>>

(* Mutant: without a pool the instance is passed over.                     *)
UpdateInstanceInline_Skip(t, i) ==
    /\ step[t] = "children"
    /\ ~activated
    /\ i \in left[t]
    /\ left' = [left EXCEPT ![t] = @ \ {i}]
    /\ UNCHANGED <<wpc, stopping, todo, maps, queue, pending, activated, step,
                   cur, fate>>

UpdateInstanceInline(t, i) ==
    /\ step[t] = "children"
    /\ ~activated
    /\ i \in left[t]
    /\ fate' = [fate EXCEPT ![i] = "updated"]
    /\ left' = [left EXCEPT ![t] = @ \ {i}]
    /\ UNCHANGED <<wpc, stopping, todo, maps, queue, pending, activated, step,
                   cur>>

EndChildren(t) ==
    /\ step[t] = "children"
    /\ left[t] = {}
    /\ step' = [step EXCEPT ![t] = "finish"]
    /\ fate' = [fate EXCEPT ![cur[t]] = "updated"]
    /\ UNCHANGED <<wpc, stopping, todo, maps, queue, pending, activated, cur,
                   left>>

(* Mutant: no broadcast, so only a spurious wakeup ends the wait.          *)
update_finished_NoBroadcast(w) ==
    /\ step[w] = "finish"
    /\ step' = [step EXCEPT ![w] = "dequeue"]
    /\ cur' = [cur EXCEPT ![w] = NoMap]
    /\ pending' = IF pending = 0 THEN 0 ELSE pending - 1
    /\ UNCHANGED <<wpc, stopping, todo, maps, queue, activated, left, fate>>

(* MapUpdater::update_finished: one critical section, with the broadcast.  *)
(* Its early return for pending_requests = 0 leaves everything as it is.   *)
update_finished(w) ==
    /\ step[w] = "finish"
    /\ step' = [step EXCEPT ![w] = "dequeue"]
    /\ cur' = [cur EXCEPT ![w] = NoMap]
    /\ pending' = IF pending = 0 THEN 0 ELSE pending - 1
    /\ wpc' = IF pending > 0 /\ wpc = "blocked" THEN "wait" ELSE wpc
    /\ UNCHANGED <<stopping, todo, maps, queue, activated, left, fate>>

(* The same return inside MapManager::Update's loop.                       *)
EndInline ==
    /\ wpc = "inline"
    /\ step[WorldThread] = "finish"
    /\ step' = [step EXCEPT ![WorldThread] = "dequeue"]
    /\ cur' = [cur EXCEPT ![WorldThread] = NoMap]
    /\ wpc' = "schedule"
    /\ UNCHANGED <<stopping, todo, maps, queue, pending, activated, left, fate>>

-----------------------------------------------------------------------------
RunMap(t) ==
    \/ UpdateMap(t)
    \/ \E i \in Instances : \/ DestroyInstance(t, i)
                            \/ KeepInstance(t, i)
                            \/ ScheduleInstance(t, i)
                            \/ UpdateInstanceInline(t, i)
    \/ EndChildren(t)

Worker(w) ==
    \/ Dequeue(w)
    \/ RunMap(w)
    \/ update_finished(w)
    \/ ExitWorker(w)

(* Steps the world thread takes without waiting for anybody's request.     *)
WorldStep ==
    \/ \E b \in BaseMaps : \/ ScheduleBaseMap(b)
                           \/ UpdateBaseMapInline(b)
                           \/ UnloadMap(b)
    \/ RunMap(WorldThread)
    \/ EndInline
    \/ EndSchedule
    \/ Wait
    \/ DelayedUpdate
    \/ EndUnload
    \/ DeactivateQueue
    \/ Join

(* What the world thread may do between two map updates.                   *)
Idle ==
    \/ \E b \in BaseMaps : CreateBaseMap(b)
    \/ \E i \in Instances : CreateInstance(i)
    \/ BeginUpdate
    \/ Stop

Terminated == wpc = "stopped" /\ UNCHANGED vars

Next ==
    \/ WorldStep
    \/ Idle
    \/ SpuriousWakeup
    \/ \E w \in Workers : Worker(w)
    \/ Terminated

Spec == Init /\ [][Next]_vars

(* Every thread that can run runs; nothing is assumed of spurious wakeups  *)
(* or of what the world does between updates.                              *)
Fairness ==
    /\ WF_vars(WorldStep)
    /\ \A w \in Workers : WF_vars(Worker(w))

FairSpec == Spec /\ Fairness

-----------------------------------------------------------------------------
(* Properties                                                              *)

(* pending_requests counts exactly the requests that are queued or being   *)
(* run: MapUpdater::wait relies on it, and update_finished's "BUG" branch  *)
(* is unreachable.                                                         *)
PendingExact == pending = Len(queue) + Cardinality(BusyWorkers)

(* While the world thread is outside the scheduling and waiting part of    *)
(* MapManager::Update, no pool thread runs a map and none is queued: the   *)
(* world thread's own work on maps (DelayedUpdate, session handlers,       *)
(* UnloadAll) never overlaps Map::Update.                                  *)
Barrier ==
    wpc \in {"idle", "delayed", "unload", "join", "stopped"} =>
        queue = <<>> /\ BusyWorkers = {}

(* No request refers to a deleted map: what is queued, being updated or    *)
(* still to be visited by MapInstanced::Update exists, although a worker   *)
(* deletes instances while others run.                                     *)
LiveTargets ==
    /\ QueuedMaps \subseteq maps
    /\ \A t \in Threads : /\ step[t] \in Busy => cur[t] \in maps
                          /\ left[t] \subseteq maps
    /\ \A i \in maps \cap Instances : Parent[i] \in maps

(* Two threads never update one map at the same time, a map is queued at   *)
(* most once, and none is updated twice in one tick.                       *)
OneUpdater ==
    /\ \A j, k \in DOMAIN queue : j # k => queue[j] # queue[k]
    /\ \A t \in Threads : step[t] \in Busy =>
          /\ cur[t] \notin QueuedMaps
          /\ \A u \in Threads \ {t} : step[u] \in Busy => cur[u] # cur[t]
          /\ step[t] # "finish" => fate[cur[t]] = "none"
    /\ \A m \in QueuedMaps : fate[m] = "none"

(* When DelayedUpdate runs, every existing map was updated in this tick    *)
(* unless its request did not fit in the queue, its MapInstanced's request *)
(* did not fit, or DestroyInstance found players in it.                    *)
TickComplete ==
    wpc = "delayed" =>
        \A m \in maps : \/ fate[m] # "none"
                        \/ m \in Instances /\ fate[Parent[m]] = "dropped"

(* A tick that started ends: no wakeup of MapUpdater::wait is lost and the *)
(* pool drains what instance maps add while the world thread waits.  And   *)
(* once the run loop is left the pool's threads are joined.                *)
TickEnds ==
    /\ wpc \in {"schedule", "wait", "blocked"} ~> wpc \in {"delayed", "stopped"}
    /\ stopping ~> (wpc = "stopped" /\ BusyWorkers = {})
=============================================================================
