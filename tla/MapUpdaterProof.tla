-------------------------- MODULE MapUpdaterProof --------------------------
(***************************************************************************)
(* Proofs about MapUpdater, for every number of pool threads, every set of *)
(* maps and every capacity of the request queue.                           *)
(***************************************************************************)
EXTENDS MapUpdater, FiniteSetTheorems, TLAPS

Quiet == {"idle", "delayed", "unload", "join", "stopped"}

(* The pool is drained in every phase in which the world thread works on   *)
(* maps, and the world thread itself runs Map::Update only inline.         *)
QuietPool   == wpc \in Quiet => pending = 0
InlineOnly  == step[WorldThread] \in Busy <=> wpc = "inline"
InlineQuiet == (wpc = "inline" => ~activated) /\ (~activated => pending = 0)

IInv == TypeOK /\ PendingExact /\ QuietPool /\ InlineOnly /\ InlineQuiet

-----------------------------------------------------------------------------
(* The busy threads are a finite set, so their number is a natural.        *)
LEMMA BusyFinite ==
    /\ IsFiniteSet(BusyWorkers)
    /\ Cardinality(BusyWorkers) \in Nat
    /\ Cardinality(BusyWorkers) = 0 <=> BusyWorkers = {}
<1>1. IsFiniteSet(BusyWorkers)
  <2>1. BusyWorkers \subseteq Workers
    BY DEF BusyWorkers
  <2> QED BY <2>1, FS_Subset, UpdaterAssumption DEF UpdaterAssumption
<1> QED BY <1>1, FS_CardinalityType, FS_EmptySet

(* An action that moves no thread in or out of a request keeps the count.  *)
LEMMA BusySame ==
    ASSUME TypeOK,
           \A w \in Workers : step[w] \in Busy <=> step'[w] \in Busy
    PROVE  BusyWorkers' = BusyWorkers
BY DEF BusyWorkers

(* Taking a request off the queue makes one more thread busy.              *)
LEMMA BusyMore ==
    ASSUME TypeOK, NEW w \in Workers, step[w] \notin Busy,
           step' = [step EXCEPT ![w] = "update"]
    PROVE  Cardinality(BusyWorkers') = Cardinality(BusyWorkers) + 1
<1>1. BusyWorkers' = BusyWorkers \cup {w}
  BY DEF BusyWorkers, TypeOK, Threads, Busy
<1>2. w \notin BusyWorkers
  BY DEF BusyWorkers
<1> QED BY <1>1, <1>2, BusyFinite, FS_AddElement

(* Finishing a request makes one thread less busy.                         *)
LEMMA BusyLess ==
    ASSUME TypeOK, NEW w \in Workers, step[w] \in Busy,
           step' = [step EXCEPT ![w] = "dequeue"]
    PROVE  /\ Cardinality(BusyWorkers') = Cardinality(BusyWorkers) - 1
           /\ Cardinality(BusyWorkers) > 0
<1>1. BusyWorkers' = BusyWorkers \ {w}
  BY DEF BusyWorkers, TypeOK, Threads, Busy
<1>2. w \in BusyWorkers
  BY DEF BusyWorkers
<1>3. Cardinality(BusyWorkers) \in Nat /\ Cardinality(BusyWorkers) # 0
  BY <1>2, BusyFinite
<1>4. Cardinality(BusyWorkers \ {w}) = Cardinality(BusyWorkers) - 1
  BY <1>2, BusyFinite, FS_RemoveElement
<1> QED BY <1>1, <1>3, <1>4

(* With no pending request nothing is queued and nobody is busy.           *)
LEMMA NothingPending ==
    ASSUME TypeOK, PendingExact, pending = 0
    PROVE  queue = <<>> /\ BusyWorkers = {}
<1>1. Len(queue) \in Nat
  BY DEF TypeOK
<1>2. Len(queue) = 0 /\ Cardinality(BusyWorkers) = 0
  BY <1>1, BusyFinite DEF PendingExact
<1> QED BY <1>2, BusyFinite DEF TypeOK

-----------------------------------------------------------------------------
(* The invariant holds at the start.                                       *)
LEMMA InitIInv == Init => IInv
<1> SUFFICES ASSUME Init PROVE IInv
  OBVIOUS
<1> USE UpdaterAssumption DEF UpdaterAssumption, Init
<1>1. TypeOK
  <2>1. todo \subseteq BaseMaps /\ maps \subseteq Maps /\ queue \in Seq(Maps)
    OBVIOUS
  <2> QED BY <2>1 DEF TypeOK
<1>2. PendingExact
  <2>1. BusyWorkers = {}
    BY DEF BusyWorkers, Busy, Threads
  <2> QED BY <2>1, FS_EmptySet DEF PendingExact
<1>3. QuietPool /\ InlineOnly /\ InlineQuiet
  BY DEF QuietPool, InlineOnly, InlineQuiet, Busy, Threads
<1> QED BY <1>1, <1>2, <1>3 DEF IInv

(* schedule_update keeps the types of what it changes.                     *)
LEMMA ScheduleTypes ==
    ASSUME TypeOK, NEW m \in Maps, schedule_update(m)
    PROVE  /\ queue' \in Seq(Maps)
           /\ pending' \in Nat
           /\ fate' \in [Maps -> {"none", "updated", "dropped", "kept"}]
<1>1. CASE CanEnqueue
  <2>1. queue' = Append(queue, m) /\ pending' = pending + 1 /\ fate' = fate
    BY <1>1 DEF schedule_update
  <2> QED BY <2>1 DEF TypeOK
<1>2. CASE ~CanEnqueue
  <2>1. fate' = [fate EXCEPT ![m] = "dropped"] /\ queue' = queue
        /\ pending' = pending
    BY <1>2 DEF schedule_update
  <2> QED BY <2>1 DEF TypeOK
<1> QED BY <1>1, <1>2

(* Type correctness is preserved by every action.                          *)
LEMMA NextTypeOK == IInv /\ [Next]_vars => TypeOK'
<1> SUFFICES ASSUME IInv, [Next]_vars PROVE TypeOK'
  OBVIOUS
<1> USE UpdaterAssumption DEF UpdaterAssumption, IInv, TypeOK, Threads, Maps
<1>1. ASSUME NEW b \in BaseMaps,
             CreateBaseMap(b) \/ ScheduleBaseMap(b) \/ UpdateBaseMapInline(b)
             \/ UnloadMap(b)
      PROVE  TypeOK'
  <2>1. CASE CreateBaseMap(b) BY <2>1 DEF CreateBaseMap
  <2>2. CASE ScheduleBaseMap(b)
    BY <2>2, ScheduleTypes DEF ScheduleBaseMap
  <2>3. CASE UpdateBaseMapInline(b)
    BY <2>3 DEF UpdateBaseMapInline, Busy
  <2>4. CASE UnloadMap(b) BY <2>4 DEF UnloadMap
  <2> QED BY <1>1, <2>1, <2>2, <2>3, <2>4
<1>2. ASSUME NEW i \in Instances, CreateInstance(i) PROVE TypeOK'
  BY <1>2 DEF CreateInstance
<1>3. CASE BeginUpdate BY <1>3 DEF BeginUpdate
<1>4. CASE Stop \/ EndSchedule \/ Wait \/ SpuriousWakeup \/ EndUnload
           \/ DeactivateQueue \/ Join
  BY <1>4 DEF Stop, EndSchedule, Wait, SpuriousWakeup, EndUnload,
              DeactivateQueue, Join
<1>5. CASE DelayedUpdate BY <1>5 DEF DelayedUpdate
<1>6. CASE EndInline BY <1>6 DEF EndInline, Busy
<1>7. ASSUME NEW t \in Threads, RunMap(t) PROVE TypeOK'
  <2>1. CASE UpdateMap(t) BY <2>1 DEF UpdateMap, Children, Busy
  <2>2. CASE EndChildren(t) BY <2>2 DEF EndChildren, Busy
  <2>3. ASSUME NEW i \in Instances, DestroyInstance(t, i) PROVE TypeOK'
    BY <2>3 DEF DestroyInstance
  <2>4. ASSUME NEW i \in Instances, KeepInstance(t, i) PROVE TypeOK'
    BY <2>4 DEF KeepInstance
  <2>5. ASSUME NEW i \in Instances, ScheduleInstance(t, i) PROVE TypeOK'
    BY <2>5, ScheduleTypes DEF ScheduleInstance
  <2>6. ASSUME NEW i \in Instances, UpdateInstanceInline(t, i) PROVE TypeOK'
    BY <2>6 DEF UpdateInstanceInline
  <2> QED BY <1>7, <2>1, <2>2, <2>3, <2>4, <2>5, <2>6 DEF RunMap
<1>8. ASSUME NEW w \in Workers, Worker(w) PROVE TypeOK'
  <2>1. CASE Dequeue(w) BY <2>1 DEF Dequeue, Busy
  <2>2. CASE update_finished(w) BY <2>2 DEF update_finished, Busy
  <2>3. CASE ExitWorker(w) BY <2>3 DEF ExitWorker
  <2> QED BY <1>7, <1>8, <2>1, <2>2, <2>3 DEF Worker
<1>9. CASE UNCHANGED vars BY <1>9 DEF vars
<1>10. WorldThread \in Threads
  OBVIOUS
<1> QED
  BY <1>1, <1>2, <1>3, <1>4, <1>5, <1>6, <1>7, <1>8, <1>9, <1>10
  DEF Next, WorldStep, Idle, Terminated

(* What schedule_update does to the count: a request that is queued is     *)
(* counted, one that is refused is not.                                    *)
LEMMA ScheduleCount ==
    ASSUME TypeOK, NEW m \in Maps, schedule_update(m)
    PROVE  /\ pending' - Len(queue') = pending - Len(queue)
           /\ ~activated => pending' = pending
<1>1. CASE CanEnqueue
  <2>1. queue' = Append(queue, m) /\ pending' = pending + 1
    BY <1>1 DEF schedule_update
  <2>2. activated
    BY <1>1 DEF CanEnqueue
  <2> QED BY <2>1, <2>2 DEF TypeOK
<1>2. CASE ~CanEnqueue
  <2>1. queue' = queue /\ pending' = pending
    BY <1>2 DEF schedule_update
  <2> QED BY <2>1 DEF TypeOK
<1> QED BY <1>1, <1>2

(* The count stays exact.                                                  *)
LEMMA NextPending == IInv /\ [Next]_vars => PendingExact'
<1> SUFFICES ASSUME IInv, [Next]_vars PROVE PendingExact'
  OBVIOUS
<1> USE UpdaterAssumption DEF UpdaterAssumption, IInv
<1>1. /\ Cardinality(BusyWorkers) \in Nat
      /\ Len(queue) \in Nat
      /\ WorldThread \in Threads
      /\ \A w \in Workers : w \in Threads /\ w # WorldThread
  BY BusyFinite DEF TypeOK, Threads
<1>2. ASSUME UNCHANGED <<queue, pending, step>> PROVE PendingExact'
  BY <1>2 DEF PendingExact, BusyWorkers
<1>3. ASSUME NEW m \in Maps, schedule_update(m), UNCHANGED step
      PROVE  PendingExact'
  <2>1. BusyWorkers' = BusyWorkers
    BY <1>3 DEF BusyWorkers
  <2>2. Len(queue') \in Nat /\ pending' \in Nat
    BY <1>3, ScheduleTypes
  <2>3. pending' - Len(queue') = pending - Len(queue)
    BY <1>3, ScheduleCount
  <2> QED BY <1>1, <2>1, <2>2, <2>3 DEF PendingExact, TypeOK
<1>4. ASSUME NEW t \in Threads, NEW s, UNCHANGED <<queue, pending>>,
             step' = [step EXCEPT ![t] = s],
             t = WorldThread \/ (step[t] \in Busy <=> s \in Busy)
      PROVE  PendingExact'
  <2>1. BusyWorkers' = BusyWorkers
    BY <1>1, <1>4, BusySame DEF TypeOK
  <2> QED BY <2>1, <1>4 DEF PendingExact
<1>5. ASSUME NEW b \in BaseMaps,
             CreateBaseMap(b) \/ ScheduleBaseMap(b) \/ UpdateBaseMapInline(b)
             \/ UnloadMap(b)
      PROVE  PendingExact'
  <2>1. CASE CreateBaseMap(b) BY <1>2, <2>1 DEF CreateBaseMap
  <2>2. CASE ScheduleBaseMap(b) BY <1>3, <2>2 DEF ScheduleBaseMap, Maps
  <2>3. CASE UpdateBaseMapInline(b)
    BY <1>1, <1>4, <2>3 DEF UpdateBaseMapInline
  <2>4. CASE UnloadMap(b) BY <1>2, <2>4 DEF UnloadMap
  <2> QED BY <1>5, <2>1, <2>2, <2>3, <2>4
<1>6. ASSUME NEW i \in Instances, CreateInstance(i) PROVE PendingExact'
  BY <1>2, <1>6 DEF CreateInstance
<1>7. CASE BeginUpdate \/ Stop \/ EndSchedule \/ Wait \/ SpuriousWakeup
           \/ DelayedUpdate \/ EndUnload \/ DeactivateQueue \/ Join
  BY <1>2, <1>7 DEF BeginUpdate, Stop, EndSchedule, Wait, SpuriousWakeup,
              DelayedUpdate, EndUnload, DeactivateQueue, Join
<1>8. CASE EndInline BY <1>1, <1>4, <1>8 DEF EndInline
<1>9. ASSUME NEW t \in Threads, RunMap(t) PROVE PendingExact'
  <2>1. CASE UpdateMap(t) BY <1>4, <2>1 DEF UpdateMap, Busy
  <2>2. CASE EndChildren(t) BY <1>4, <2>2 DEF EndChildren, Busy
  <2>3. ASSUME NEW i \in Instances, ScheduleInstance(t, i) PROVE PendingExact'
    BY <1>3, <2>3 DEF ScheduleInstance, Maps
  <2>4. ASSUME NEW i \in Instances,
               DestroyInstance(t, i) \/ KeepInstance(t, i)
               \/ UpdateInstanceInline(t, i)
        PROVE  PendingExact'
    BY <1>2, <2>4 DEF DestroyInstance, KeepInstance, UpdateInstanceInline
  <2> QED BY <1>9, <2>1, <2>2, <2>3, <2>4 DEF RunMap
<1>10. ASSUME NEW w \in Workers, Worker(w) PROVE PendingExact'
  <2>1. CASE Dequeue(w)
    <3>1. Cardinality(BusyWorkers') = Cardinality(BusyWorkers) + 1
      BY <2>1, BusyMore DEF Dequeue, Busy
    <3>2. Len(queue') = Len(queue) - 1 /\ pending' = pending
      BY <2>1 DEF Dequeue, TypeOK
    <3> QED BY <1>1, <3>1, <3>2 DEF PendingExact
  <2>2. CASE update_finished(w)
    <3>1. /\ Cardinality(BusyWorkers') = Cardinality(BusyWorkers) - 1
          /\ Cardinality(BusyWorkers) > 0
      BY <2>2, BusyLess DEF update_finished, Busy
    <3>2. pending > 0
      BY <1>1, <3>1 DEF PendingExact
    <3>3. pending' = pending - 1 /\ queue' = queue
      BY <2>2, <3>2 DEF update_finished
    <3> QED BY <1>1, <3>1, <3>3 DEF PendingExact
  <2>3. CASE ExitWorker(w) BY <1>1, <1>4, <2>3 DEF ExitWorker, Busy
  <2> QED BY <1>1, <1>9, <1>10, <2>1, <2>2, <2>3 DEF Worker
<1>11. CASE UNCHANGED vars BY <1>2, <1>11 DEF vars
<1> QED
  BY <1>1, <1>5, <1>6, <1>7, <1>8, <1>9, <1>10, <1>11
  DEF Next, WorldStep, Idle, Terminated

(* The drained phases stay drained and inline updates stay without a pool. *)
LEMMA NextQuiet == IInv /\ [Next]_vars => (QuietPool /\ InlineOnly /\ InlineQuiet)'
<1> SUFFICES ASSUME IInv, [Next]_vars PROVE (QuietPool /\ InlineOnly /\ InlineQuiet)'
  OBVIOUS
<1> USE UpdaterAssumption
    DEF UpdaterAssumption, IInv, QuietPool, InlineOnly, InlineQuiet, Quiet
<1>1. /\ pending \in Nat
      /\ WorldThread \in Threads
      /\ \A w \in Workers : w \in Threads /\ w # WorldThread
      /\ step \in [Threads -> Busy \cup {"dequeue", "exited"}]
  BY DEF TypeOK, Threads
<1>2. ASSUME NEW w \in Workers, step[w] \in Busy PROVE pending > 0
  BY <1>1, <1>2, NothingPending DEF BusyWorkers
<1>3. ASSUME NEW b \in BaseMaps,
             CreateBaseMap(b) \/ ScheduleBaseMap(b) \/ UpdateBaseMapInline(b)
             \/ UnloadMap(b)
      PROVE  (QuietPool /\ InlineOnly /\ InlineQuiet)'
  <2>1. CASE CreateBaseMap(b) BY <2>1 DEF CreateBaseMap
  <2>2. CASE ScheduleBaseMap(b) BY <2>2 DEF ScheduleBaseMap
  <2>3. CASE UpdateBaseMapInline(b)
    BY <1>1, <2>3 DEF UpdateBaseMapInline, Busy
  <2>4. CASE UnloadMap(b) BY <2>4 DEF UnloadMap
  <2> QED BY <1>3, <2>1, <2>2, <2>3, <2>4
<1>4. ASSUME NEW i \in Instances, CreateInstance(i)
      PROVE  (QuietPool /\ InlineOnly /\ InlineQuiet)'
  BY <1>4 DEF CreateInstance
<1>5. CASE BeginUpdate \/ Stop \/ EndSchedule \/ Wait \/ SpuriousWakeup
  BY <1>1, <1>5 DEF BeginUpdate, Stop, EndSchedule, Wait, SpuriousWakeup
<1>6. CASE DelayedUpdate \/ EndUnload \/ DeactivateQueue \/ Join
  BY <1>6 DEF DelayedUpdate, EndUnload, DeactivateQueue, Join
<1>7. CASE EndInline BY <1>1, <1>7 DEF EndInline, Busy
<1>8. ASSUME NEW t \in Threads, RunMap(t)
      PROVE  (QuietPool /\ InlineOnly /\ InlineQuiet)'
  <2>1. CASE UpdateMap(t) BY <1>1, <2>1 DEF UpdateMap, Busy
  <2>2. CASE EndChildren(t) BY <1>1, <2>2 DEF EndChildren, Busy
  <2>3. ASSUME NEW i \in Instances, ScheduleInstance(t, i)
        PROVE  (QuietPool /\ InlineOnly /\ InlineQuiet)'
    <3>1. step[t] \in Busy /\ activated /\ UNCHANGED <<wpc, activated, step>>
      BY <2>3 DEF ScheduleInstance, Busy
    <3>2. t \in Workers
      BY <3>1 DEF Threads
    <3>3. wpc \notin Quiet
      BY <1>1, <1>2, <3>1, <3>2
    <3> QED BY <3>1, <3>3
  <2>4. ASSUME NEW i \in Instances,
               DestroyInstance(t, i) \/ KeepInstance(t, i)
               \/ UpdateInstanceInline(t, i)
        PROVE  (QuietPool /\ InlineOnly /\ InlineQuiet)'
    BY <2>4 DEF DestroyInstance, KeepInstance, UpdateInstanceInline
  <2> QED BY <1>8, <2>1, <2>2, <2>3, <2>4 DEF RunMap
<1>9. ASSUME NEW w \in Workers, Worker(w)
      PROVE  (QuietPool /\ InlineOnly /\ InlineQuiet)'
  <2>1. CASE Dequeue(w) BY <1>1, <2>1 DEF Dequeue
  <2>2. CASE update_finished(w)
    BY <1>1, <1>2, <2>2 DEF update_finished, Busy
  <2>3. CASE ExitWorker(w) BY <1>1, <2>3 DEF ExitWorker
  <2> QED BY <1>1, <1>8, <1>9, <2>1, <2>2, <2>3 DEF Worker
<1>10. CASE UNCHANGED vars BY <1>10 DEF vars
<1> QED
  BY <1>1, <1>3, <1>4, <1>5, <1>6, <1>7, <1>8, <1>9, <1>10
  DEF Next, WorldStep, Idle, Terminated

-----------------------------------------------------------------------------
(* The inductive invariant holds in every reachable state.                 *)
THEOREM UpdaterInvariant == Spec => []IInv
<1>1. IInv /\ [Next]_vars => IInv'
  BY NextTypeOK, NextPending, NextQuiet DEF IInv
<1> QED BY InitIInv, <1>1, PTL DEF Spec

(* MapUpdater's variables keep their types.                                *)
THEOREM TypeCorrect == Spec => []TypeOK
BY UpdaterInvariant, PTL DEF IInv

(* pending_requests is always the number of queued and running requests.   *)
THEOREM PendingIsExact == Spec => []PendingExact
BY UpdaterInvariant, PTL DEF IInv

(* MapUpdater::wait is a barrier: DelayedUpdate, the handlers between two  *)
(* updates and UnloadAll never overlap Map::Update in the pool.            *)
THEOREM WaitIsBarrier == Spec => []Barrier
<1>1. IInv => Barrier
  BY NothingPending DEF IInv, QuietPool, Quiet, Barrier
<1> QED BY UpdaterInvariant, <1>1, PTL

-----------------------------------------------------------------------------
Running == {t \in Threads : step[t] \in Busy}

(* Nothing has happened to the map in this tick.                           *)
Untouched(m) ==
    m \notin QueuedMaps /\ fate[m] = "none" /\ \A t \in Running : cur[t] # m

(* The loop over the instances of b has begun in this tick, or never will. *)
Begun(b) ==
    fate[b] # "none" \/ \E t \in Running : step[t] # "update" /\ cur[t] = b

(* What the scheduling loop and the loops over instances have still to     *)
(* visit was not touched before, and an instance is touched only after its *)
(* parent's loop began.                                                    *)
Ahead ==
    /\ todo # {} => wpc \in {"schedule", "inline"}
    /\ \A b \in todo : b \in maps /\ Untouched(b)
    /\ \A t \in Threads : left[t] # {} => step[t] = "children"
    /\ \A t \in Threads : \A i \in left[t] : Parent[i] = cur[t] /\ Untouched(i)
Behind ==
    /\ \A t \in Threads : step[t] = "finish" => fate[cur[t]] # "none"
    /\ \A i \in Instances : Untouched(i) \/ Begun(Parent[i])
    /\ wpc = "idle" => \A m \in Maps : fate[m] = "none"

Tracked == LiveTargets /\ OneUpdater /\ Ahead /\ Behind

(* In a tick every map has had its turn, has it now or will have it.       *)
Tick == {"schedule", "inline", "wait", "blocked", "delayed"}
Turn(m) ==
    m \in QueuedMaps \/ fate[m] # "none" \/ \E t \in Running : cur[t] = m
ToCome(b) ==
    \/ b \in todo \cup QueuedMaps
    \/ \E t \in Running : step[t] = "update" /\ cur[t] = b
Accounted ==
    wpc \in Tick =>
        /\ \A b \in maps \cap BaseMaps : b \in todo \/ Turn(b)
        /\ \A i \in maps \cap Instances :
              \/ Turn(i)
              \/ fate[Parent[i]] = "dropped" \/ ToCome(Parent[i])
              \/ \E t \in Threads : i \in left[t]

(* Appending a map that is not queued keeps every map queued once.         *)
LEMMA QueueAppend ==
    ASSUME queue \in Seq(Maps), NEW m \in Maps, queue' = Append(queue, m)
    PROVE  /\ QueuedMaps' = QueuedMaps \cup {m}
           /\ /\ m \notin QueuedMaps
              /\ \A j, k \in DOMAIN queue : j # k => queue[j] # queue[k]
              => \A j, k \in DOMAIN queue' : j # k => queue'[j] # queue'[k]
BY DEF QueuedMaps

(* Taking the first map off leaves the others, each still queued once.     *)
LEMMA QueueTail ==
    ASSUME queue \in Seq(Maps), queue # <<>>, queue' = Tail(queue),
           \A j, k \in DOMAIN queue : j # k => queue[j] # queue[k]
    PROVE  /\ Head(queue) \in QueuedMaps
           /\ QueuedMaps' = QueuedMaps \ {Head(queue)}
           /\ \A j, k \in DOMAIN queue' : j # k => queue'[j] # queue'[k]
<1>1. /\ Head(queue) = queue[1] /\ 1 \in DOMAIN queue
      /\ DOMAIN queue = 1..Len(queue) /\ DOMAIN queue' = 1..(Len(queue) - 1)
      /\ \A k \in DOMAIN queue' : queue'[k] = queue[k + 1]
  OBVIOUS
<1>2. \A k \in DOMAIN queue' : k + 1 \in DOMAIN queue
  BY <1>1
<1>3. \A k \in DOMAIN queue :
         k # 1 => k - 1 \in DOMAIN queue' /\ queue'[k - 1] = queue[k]
  BY <1>1
<1>4. \A k \in DOMAIN queue' : queue'[k] # queue[1]
  BY <1>1, <1>2
<1> QED BY <1>1, <1>2, <1>3, <1>4 DEF QueuedMaps

(* Nothing is scheduled, queued or updated before the first tick.          *)
LEMMA InitTracked == Init => Tracked /\ Accounted
<1> SUFFICES ASSUME Init PROVE Tracked /\ Accounted
  OBVIOUS
<1> USE UpdaterAssumption DEF UpdaterAssumption, Init
<1>1. QueuedMaps = {} /\ Running = {}
  BY DEF QueuedMaps, Running, Busy, Threads
<1>2. LiveTargets /\ OneUpdater
  <2>1. DOMAIN queue = {}
    OBVIOUS
  <2> QED BY <1>1, <2>1 DEF LiveTargets, OneUpdater, Running, Threads
<1>3. Ahead /\ Behind
  BY <1>1 DEF Ahead, Behind, Untouched, Threads, Maps
<1>4. Accounted
  BY DEF Accounted, Tick
<1> QED BY <1>2, <1>3, <1>4 DEF Tracked

(* A thread that runs Map::Update keeps the world thread inside the tick.  *)
LEMMA BusyInTick ==
    ASSUME IInv, NEW t \in Threads, step[t] \in Busy
    PROVE  wpc \notin Quiet
<1>1. CASE t \in Workers
  BY <1>1, NothingPending DEF IInv, QuietPool, BusyWorkers
<1>2. CASE t = WorldThread
  BY <1>2 DEF IInv, InlineOnly, Quiet
<1> QED BY <1>1, <1>2 DEF Threads

(* A loop over instances that decides on instance i, other than by queuing *)
(* it: a refused request, a kept map or an inline update.                  *)
LEMMA TouchTracked ==
    ASSUME IInv, Tracked, NEW t \in Threads, NEW i \in Instances,
           step[t] = "children", i \in left[t],
           UNCHANGED <<wpc, todo, maps, queue, step, cur>>,
           NEW f, f # "none", fate' = [fate EXCEPT ![i] = f],
           left' = [left EXCEPT ![t] = @ \ {i}]
    PROVE  Tracked'
<1> USE UpdaterAssumption DEF UpdaterAssumption
<1>0. /\ TypeOK /\ i \in Maps /\ t \in Running /\ wpc # "idle"
      /\ QueuedMaps' = QueuedMaps /\ Running' = Running
  BY BusyInTick DEF IInv, Maps, Running, Busy, QueuedMaps, Quiet
<1>1. fate'[i] # "none" /\ \A m \in Maps \ {i} : fate'[m] = fate[m]
  BY <1>0 DEF TypeOK
<1>2. Parent[i] = cur[t] /\ Untouched(i)
  BY DEF Tracked, Ahead
<1>3. \A u \in Threads :
         left'[u] \subseteq left[u] /\ i \notin left'[u]
  <2>1. ASSUME NEW u \in Threads, u # t, i \in left[u] PROVE FALSE
    <3>1. step[u] = "children" /\ cur[u] = cur[t]
      BY <1>2, <2>1 DEF Tracked, Ahead
    <3> QED BY <2>1, <3>1 DEF Tracked, OneUpdater, Busy
  <2> QED BY <1>0, <2>1 DEF TypeOK
<1>4. \A m \in Maps : m # i /\ Untouched(m) => Untouched(m)'
  BY <1>0, <1>1 DEF Untouched
<1>5. \A m \in Maps : Begun(m) => Begun(m)'
  BY <1>0, <1>1 DEF Begun
<1>6. LiveTargets'
  BY <1>0, <1>3 DEF Tracked, LiveTargets
<1>7. OneUpdater'
  BY <1>0, <1>1, <1>2 DEF Tracked, OneUpdater, Untouched, TypeOK, Maps, Running
<1>8. Ahead'
  BY <1>0, <1>1, <1>3, <1>4 DEF Tracked, Ahead, TypeOK, Maps
<1>9. Behind'
  <2>1. \A j \in Instances : (Untouched(j) \/ Begun(Parent[j]))'
    <3>1. Begun(Parent[i])'
      BY <1>0, <1>2 DEF Begun
    <3> QED BY <1>4, <1>5, <3>1 DEF Tracked, Behind, Maps
  <2>2. \A u \in Threads : step'[u] = "finish" => fate'[cur'[u]] # "none"
    BY <1>0, <1>1 DEF Tracked, Behind, TypeOK, OneUpdater, Busy, LiveTargets
  <2> QED BY <1>0, <2>1, <2>2 DEF Behind
<1> QED BY <1>6, <1>7, <1>8, <1>9 DEF Tracked

(* Every action keeps the targets alive and apart.                         *)
LEMMA NextTracked == IInv /\ Tracked /\ [Next]_vars => Tracked'
<1> SUFFICES ASSUME IInv, Tracked, [Next]_vars PROVE Tracked'
  OBVIOUS
<1> USE UpdaterAssumption DEF UpdaterAssumption
<1>0. /\ TypeOK /\ InlineOnly
      /\ WorldThread \in Threads /\ Workers \subseteq Threads
  BY DEF IInv, Threads
<1> USE DEF Tracked, LiveTargets, OneUpdater, Ahead, Behind, Untouched, Begun,
            Running
<1>1. ASSUME NEW b \in BaseMaps, CreateBaseMap(b) PROVE Tracked'
  BY <1>0, <1>1 DEF CreateBaseMap, TypeOK, QueuedMaps
<1>2. ASSUME NEW i \in Instances, CreateInstance(i) PROVE Tracked'
  BY <1>0, <1>2 DEF CreateInstance, TypeOK, QueuedMaps
<1>3. ASSUME NEW b \in BaseMaps, ScheduleBaseMap(b) PROVE Tracked'
  <2>1. CASE CanEnqueue
    <3>1. /\ queue' = Append(queue, b) /\ todo' = todo \ {b}
          /\ UNCHANGED <<fate, wpc, maps, step, cur, left>>
      BY <1>3, <2>1 DEF ScheduleBaseMap, schedule_update
    <3> QED
      BY <1>0, <1>3, <3>1, QueueAppend
      DEF TypeOK, Maps, Busy, ScheduleBaseMap
  <2>2. CASE ~CanEnqueue
    <3>1. /\ queue' = queue /\ todo' = todo \ {b}
          /\ fate' = [fate EXCEPT ![b] = "dropped"]
          /\ UNCHANGED <<wpc, maps, step, cur, left>>
      BY <1>3, <2>2 DEF ScheduleBaseMap, schedule_update
    <3> QED
      BY <1>0, <1>3, <3>1
      DEF TypeOK, Maps, Busy, QueuedMaps, ScheduleBaseMap
  <2> QED BY <2>1, <2>2
<1>4. ASSUME NEW b \in BaseMaps, UpdateBaseMapInline(b) PROVE Tracked'
  BY <1>0, <1>4
  DEF UpdateBaseMapInline, TypeOK, QueuedMaps, Busy, Maps, InlineOnly
<1>5. ASSUME NEW b \in BaseMaps, UnloadMap(b) PROVE Tracked'
  BY <1>0, <1>5, NothingPending
  DEF UnloadMap, Children, TypeOK, QueuedMaps, Busy, Maps, IInv, QuietPool,
      Quiet, BusyWorkers, InlineOnly, Threads
<1>6. CASE BeginUpdate
  BY <1>0, <1>6, NothingPending
  DEF BeginUpdate, TypeOK, QueuedMaps, Busy, Maps, IInv, QuietPool, Quiet,
      BusyWorkers, InlineOnly, Threads
<1>7. CASE Stop \/ EndSchedule \/ Wait \/ SpuriousWakeup \/ EndUnload
           \/ DeactivateQueue \/ Join
  BY <1>7 DEF Stop, EndSchedule, Wait, SpuriousWakeup, EndUnload,
              DeactivateQueue, Join, QueuedMaps
<1>8. CASE DelayedUpdate
  BY <1>0, <1>8, NothingPending
  DEF DelayedUpdate, TypeOK, QueuedMaps, Busy, Maps, IInv, QuietPool, Quiet,
      BusyWorkers, InlineOnly, Threads
<1>9. CASE EndInline
  BY <1>0, <1>9 DEF EndInline, TypeOK, QueuedMaps, Busy, Maps
<1>10. ASSUME NEW t \in Threads, UpdateMap(t) PROVE Tracked'
  BY <1>0, <1>10 DEF UpdateMap, TypeOK, QueuedMaps, Busy, Maps, Children
<1>11. ASSUME NEW t \in Threads, NEW i \in Instances, DestroyInstance(t, i)
       PROVE  Tracked'
  BY <1>0, <1>11 DEF DestroyInstance, TypeOK, QueuedMaps, Busy, Maps
<1> HIDE DEF Tracked, LiveTargets, OneUpdater, Ahead, Behind, Untouched,
             Begun, Running
<1>12. ASSUME NEW t \in Threads, NEW i \in Instances, KeepInstance(t, i)
       PROVE  Tracked'
  BY <1>12, TouchTracked DEF KeepInstance
<1>13. ASSUME NEW t \in Threads, NEW i \in Instances, UpdateInstanceInline(t, i)
       PROVE  Tracked'
  BY <1>13, TouchTracked DEF UpdateInstanceInline
<1>14. ASSUME NEW t \in Threads, NEW i \in Instances, ScheduleInstance(t, i)
       PROVE  Tracked'
  <2>1. CASE CanEnqueue
    <3>1. /\ queue' = Append(queue, i)
          /\ left' = [left EXCEPT ![t] = @ \ {i}]
          /\ UNCHANGED <<fate, wpc, maps, step, cur, todo>>
      BY <1>14, <2>1 DEF ScheduleInstance, schedule_update
    <3> QED
      BY <1>0, <1>14, <3>1, QueueAppend
      DEF TypeOK, Maps, Busy, ScheduleInstance, Tracked, LiveTargets,
          OneUpdater, Ahead, Behind, Untouched, Begun, Running
  <2>2. CASE ~CanEnqueue
    BY <1>14, <2>2, TouchTracked DEF ScheduleInstance, schedule_update
  <2> QED BY <2>1, <2>2
<1>15. ASSUME NEW t \in Threads, EndChildren(t) PROVE Tracked'
  <2>1. /\ cur[t] \in Maps /\ t \in Running /\ wpc # "idle"
        /\ QueuedMaps' = QueuedMaps /\ Running' = Running
        /\ step'[t] = "finish" /\ fate'[cur[t]] = "updated"
        /\ \A u \in Threads \ {t} : step'[u] = step[u]
        /\ \A m \in Maps \ {cur[t]} : fate'[m] = fate[m]
        /\ UNCHANGED <<wpc, todo, maps, queue, cur, left>>
    BY <1>0, <1>15, BusyInTick
    DEF EndChildren, TypeOK, Busy, Running, Quiet, QueuedMaps, Tracked,
        LiveTargets
  <2>2. \A m \in Maps : /\ Untouched(m) => Untouched(m)'
                        /\ Begun(m) => Begun(m)'
    BY <2>1, <1>15 DEF Untouched, Begun, Running, EndChildren
  <2>3. LiveTargets'
    BY <1>0, <1>15, <2>1 DEF Tracked, LiveTargets, EndChildren, Busy
  <2>4. OneUpdater'
    BY <1>0, <1>15, <2>1
    DEF Tracked, OneUpdater, EndChildren, Busy, TypeOK, LiveTargets
  <2>5. Ahead'
    BY <1>0, <1>15, <2>1, <2>2 DEF Tracked, Ahead, EndChildren, TypeOK, Maps
  <2>6. Behind'
    BY <1>0, <1>15, <2>1, <2>2
    DEF Tracked, Behind, EndChildren, TypeOK, Maps, LiveTargets, Busy
  <2> QED BY <2>3, <2>4, <2>5, <2>6 DEF Tracked
<1> USE DEF Tracked, LiveTargets, OneUpdater, Ahead, Behind, Untouched, Begun,
            Running
<1>16. ASSUME NEW w \in Workers, Dequeue(w) PROVE Tracked'
  BY <1>0, <1>16, QueueTail DEF Dequeue, TypeOK, Busy, Maps
<1>17. ASSUME NEW w \in Workers, update_finished(w) PROVE Tracked'
  BY <1>0, <1>17 DEF update_finished, TypeOK, QueuedMaps, Busy, Maps
<1>18. ASSUME NEW w \in Workers, ExitWorker(w) PROVE Tracked'
  BY <1>0, <1>18 DEF ExitWorker, TypeOK, QueuedMaps, Busy, Maps
<1>19. CASE UNCHANGED vars BY <1>19 DEF vars, QueuedMaps
<1> HIDE DEF Tracked, LiveTargets, OneUpdater, Ahead, Behind, Untouched,
             Begun, Running
<1> QED
  BY <1>0, <1>1, <1>2, <1>3, <1>4, <1>5, <1>6, <1>7, <1>8, <1>9, <1>10, <1>11,
     <1>12, <1>13, <1>14, <1>15, <1>16, <1>17, <1>18, <1>19
  DEF Next, WorldStep, Idle, Terminated, Worker, RunMap

(* No map is lost on the way: every step of the tick keeps the account.    *)
LEMMA NextAccounted ==
    IInv /\ Tracked /\ Accounted /\ [Next]_vars => Accounted'
<1> SUFFICES ASSUME IInv, Tracked, Accounted, [Next]_vars PROVE Accounted'
  OBVIOUS
<1> USE UpdaterAssumption DEF UpdaterAssumption
<1>0. TypeOK /\ WorldThread \in Threads /\ Workers \subseteq Threads
  BY DEF IInv, Threads
<1> USE DEF Accounted, Turn, ToCome, Running
<1>1. ASSUME NEW b \in BaseMaps, CreateBaseMap(b) PROVE Accounted'
  BY <1>1 DEF CreateBaseMap, Tick
<1>2. ASSUME NEW i \in Instances, CreateInstance(i) PROVE Accounted'
  BY <1>2 DEF CreateInstance, Tick
<1>3. ASSUME NEW b \in BaseMaps, ScheduleBaseMap(b) PROVE Accounted'
  <2>1. CASE CanEnqueue
    <3>1. /\ queue' = Append(queue, b) /\ todo' = todo \ {b}
          /\ UNCHANGED <<fate, wpc, maps, step, cur, left>>
      BY <1>3, <2>1 DEF ScheduleBaseMap, schedule_update
    <3>2. QueuedMaps' = QueuedMaps \cup {b}
      BY <1>0, <3>1, QueueAppend DEF TypeOK, Maps
    <3> QED BY <1>0, <1>3, <3>1, <3>2
  <2>2. CASE ~CanEnqueue
    <3>1. /\ queue' = queue /\ todo' = todo \ {b}
          /\ fate' = [fate EXCEPT ![b] = "dropped"]
          /\ UNCHANGED <<wpc, maps, step, cur, left>>
      BY <1>3, <2>2 DEF ScheduleBaseMap, schedule_update
    <3>2. /\ fate'[b] = "dropped" /\ \A m \in Maps \ {b} : fate'[m] = fate[m]
          /\ QueuedMaps' = QueuedMaps
      BY <1>0, <3>1 DEF TypeOK, Maps, QueuedMaps
    <3> QED BY <1>0, <1>3, <3>1, <3>2 DEF TypeOK, Maps
  <2> QED BY <2>1, <2>2
<1>4. ASSUME NEW b \in BaseMaps, UpdateBaseMapInline(b) PROVE Accounted'
  BY <1>0, <1>4 DEF UpdateBaseMapInline, TypeOK, QueuedMaps, Busy, Maps, IInv,
                    InlineOnly, Tick
<1>5. ASSUME NEW b \in BaseMaps, UnloadMap(b) PROVE Accounted'
  BY <1>5 DEF UnloadMap, Tick
<1>6. CASE BeginUpdate
  BY <1>0, <1>6 DEF BeginUpdate, Tick, TypeOK, Tracked, LiveTargets
<1>7. CASE Stop \/ EndSchedule \/ Wait \/ SpuriousWakeup
           \/ DeactivateQueue \/ Join
  BY <1>7 DEF Stop, EndSchedule, Wait, SpuriousWakeup,
              DeactivateQueue, Join, QueuedMaps, Tick
<1>8. CASE EndUnload BY <1>8 DEF EndUnload
<1>9. CASE DelayedUpdate BY <1>9 DEF DelayedUpdate, Tick
<1>10. CASE EndInline
  BY <1>0, <1>10 DEF EndInline, TypeOK, QueuedMaps, Busy, Tick, Tracked, Behind
<1>11. ASSUME NEW t \in Threads, UpdateMap(t) PROVE Accounted'
  <2>1. /\ left[t] = {}
        /\ left'[t] = {i \in maps \cap Instances : Parent[i] = cur[t]}
        /\ step[t] = "update" /\ step'[t] = "children"
        /\ \A u \in Threads \ {t} : step'[u] = step[u] /\ left'[u] = left[u]
        /\ QueuedMaps' = QueuedMaps
        /\ UNCHANGED <<wpc, todo, maps, cur, fate>>
    BY <1>0, <1>11 DEF UpdateMap, TypeOK, QueuedMaps, Children, Tracked, Ahead
  <2>2. \A m \in Maps : Turn(m) => Turn(m)'
    BY <1>0, <2>1 DEF Busy
  <2>3. \A m \in Maps : ToCome(m) => ToCome(m)' \/ m = cur[t]
    BY <1>0, <2>1 DEF Busy
  <2> QED BY <1>0, <2>1, <2>2, <2>3 DEF TypeOK, Maps
<1>12. ASSUME NEW t \in Threads, NEW i \in Instances, DestroyInstance(t, i)
       PROVE Accounted'
  BY <1>0, <1>12 DEF DestroyInstance, TypeOK, QueuedMaps
<1>13. ASSUME NEW t \in Threads, NEW i \in Instances,
              KeepInstance(t, i) \/ UpdateInstanceInline(t, i)
       PROVE Accounted'
  <2>1. /\ fate'[i] # "none" /\ \A m \in Maps \ {i} : fate'[m] = fate[m]
        /\ \A u \in Threads : left[u] \subseteq left'[u] \cup {i}
        /\ UNCHANGED <<wpc, todo, maps, queue, step, cur>>
        /\ QueuedMaps' = QueuedMaps
    BY <1>0, <1>13 DEF KeepInstance, UpdateInstanceInline, TypeOK, Maps,
                       QueuedMaps
  <2> QED BY <1>0, <2>1 DEF TypeOK, Maps
<1>14. ASSUME NEW t \in Threads, NEW i \in Instances, ScheduleInstance(t, i)
       PROVE Accounted'
  <2>0. /\ \A u \in Threads : left[u] \subseteq left'[u] \cup {i}
        /\ UNCHANGED <<wpc, todo, maps, step, cur>>
    BY <1>0, <1>14 DEF ScheduleInstance, TypeOK
  <2>1. CASE CanEnqueue
    <3>1. queue' = Append(queue, i) /\ fate' = fate
      BY <1>14, <2>1 DEF ScheduleInstance, schedule_update
    <3>2. QueuedMaps' = QueuedMaps \cup {i}
      BY <1>0, <3>1, QueueAppend DEF TypeOK, Maps
    <3> QED BY <1>0, <2>0, <3>1, <3>2 DEF TypeOK
  <2>2. CASE ~CanEnqueue
    <3>1. queue' = queue /\ fate' = [fate EXCEPT ![i] = "dropped"]
      BY <1>14, <2>2 DEF ScheduleInstance, schedule_update
    <3>2. /\ fate'[i] = "dropped" /\ \A m \in Maps \ {i} : fate'[m] = fate[m]
          /\ QueuedMaps' = QueuedMaps
      BY <1>0, <3>1 DEF TypeOK, Maps, QueuedMaps
    <3> QED BY <1>0, <2>0, <3>1, <3>2 DEF TypeOK, Maps
  <2> QED BY <2>1, <2>2
<1>15. ASSUME NEW t \in Threads, EndChildren(t) PROVE Accounted'
  <2>1. cur[t] \in Maps
    BY <1>0, <1>15 DEF Tracked, LiveTargets, EndChildren, Busy, TypeOK
  <2>2. fate[cur[t]] = "none"
    BY <1>0, <1>15 DEF Tracked, OneUpdater, EndChildren, Busy
  <2>3. /\ fate'[cur[t]] # "none"
        /\ \A m \in Maps : fate[m] # "none" => fate'[m] = fate[m]
        /\ QueuedMaps' = QueuedMaps /\ step'[t] = "finish"
        /\ \A u \in Threads \ {t} : step'[u] = step[u]
        /\ UNCHANGED <<wpc, todo, maps, cur, left>>
    BY <1>0, <1>15, <2>1, <2>2 DEF EndChildren, TypeOK, QueuedMaps
  <2>4. \A m \in Maps : (Turn(m) => Turn(m)') /\ (ToCome(m) => ToCome(m)')
    BY <1>15, <2>3 DEF EndChildren
  <2> QED BY <1>0, <2>3, <2>4 DEF TypeOK, Maps
<1>16. ASSUME NEW w \in Workers, Dequeue(w) PROVE Accounted'
  <2>1. /\ QueuedMaps = QueuedMaps' \cup {Head(queue)}
    BY <1>0, <1>16, QueueTail DEF Dequeue, TypeOK, Tracked, OneUpdater
  <2>2. /\ step'[w] = "update" /\ cur'[w] = Head(queue) /\ step[w] = "dequeue"
        /\ \A u \in Threads \ {w} : step'[u] = step[u] /\ cur'[u] = cur[u]
        /\ UNCHANGED <<wpc, todo, maps, fate, left>>
    BY <1>0, <1>16 DEF Dequeue, TypeOK
  <2>3. \A m \in Maps : (Turn(m) => Turn(m)') /\ (ToCome(m) => ToCome(m)')
    BY <1>0, <2>1, <2>2 DEF Busy
  <2> QED BY <1>0, <2>2, <2>3 DEF TypeOK, Maps
<1>17. ASSUME NEW w \in Workers, update_finished(w) PROVE Accounted'
  <2>1. /\ fate[cur[w]] # "none" /\ step[w] = "finish"
        /\ QueuedMaps' = QueuedMaps
        /\ \A u \in Threads \ {w} : step'[u] = step[u] /\ cur'[u] = cur[u]
        /\ UNCHANGED <<todo, maps, fate, left>>
        /\ wpc' \in Tick => wpc \in Tick
    BY <1>0, <1>17 DEF update_finished, TypeOK, QueuedMaps, Tracked, Behind,
                       Tick
  <2>2. \A m \in Maps : (Turn(m) => Turn(m)') /\ (ToCome(m) => ToCome(m)')
    BY <1>0, <2>1
  <2> QED BY <1>0, <2>1, <2>2 DEF TypeOK, Maps
<1>18. ASSUME NEW w \in Workers, ExitWorker(w) PROVE Accounted'
  BY <1>0, <1>18 DEF ExitWorker, TypeOK, QueuedMaps, Busy
<1>19. CASE UNCHANGED vars BY <1>19 DEF vars, QueuedMaps
<1> HIDE DEF Accounted, Turn, ToCome, Running
<1> QED
  BY <1>0, <1>1, <1>2, <1>3, <1>4, <1>5, <1>6, <1>7, <1>8, <1>9, <1>10, <1>11,
     <1>12, <1>13, <1>14, <1>15, <1>16, <1>17, <1>18, <1>19
  DEF Next, WorldStep, Idle, Terminated, Worker, RunMap

(* The three parts together are inductive.                                 *)
LEMMA TickInvariant == Spec => [](IInv /\ Tracked /\ Accounted)
<1>1. Init => IInv /\ Tracked /\ Accounted
  BY InitIInv, InitTracked
<1>2. /\ IInv /\ Tracked /\ Accounted
      /\ [Next]_vars
      => (IInv /\ Tracked /\ Accounted)'
  BY NextTypeOK, NextPending, NextQuiet, NextTracked, NextAccounted DEF IInv
<1> QED BY <1>1, <1>2, PTL DEF Spec

(* No request ever refers to a deleted map, although pool threads delete   *)
(* instances while others run.                                             *)
THEOREM TargetsAreLive == Spec => []LiveTargets
BY TickInvariant, PTL DEF Tracked

(* No map is updated by two threads at once, queued twice or updated twice *)
(* in one tick.                                                            *)
THEOREM UpdatedByOne == Spec => []OneUpdater
BY TickInvariant, PTL DEF Tracked

(* When MapManager::Update reaches DelayedUpdate, every map had its turn   *)
(* unless a request was refused or DestroyInstance found players.          *)
THEOREM TicksAreComplete == Spec => []TickComplete
<1>1. IInv /\ Tracked /\ Accounted => TickComplete
  <2> SUFFICES ASSUME IInv, Tracked, Accounted, wpc = "delayed",
                      NEW m \in maps
               PROVE  \/ fate[m] # "none"
                      \/ m \in Instances /\ fate[Parent[m]] = "dropped"
    BY DEF TickComplete
  <2>1. QueuedMaps = {} /\ Running = {}
    <3>1. queue = <<>> /\ DOMAIN queue = {}
      BY NothingPending DEF IInv, QuietPool, Quiet
    <3>2. \A t \in Threads : step[t] \notin Busy
      BY BusyInTick DEF Quiet
    <3> QED BY <3>1, <3>2 DEF QueuedMaps, Running
  <2>2. todo = {} /\ \A t \in Threads : left[t] = {}
    BY <2>1 DEF Tracked, Ahead, Running, Busy
  <2> QED BY <2>1, <2>2 DEF Accounted, Tick, Turn, ToCome, IInv, TypeOK, Maps
<1> QED BY TickInvariant, <1>1, PTL
=============================================================================
