-------------------------- MODULE ThreadPoolProofs --------------------------
(***************************************************************************)
(* What holds of ThreadPool's workers whatever the callers do: the types,   *)
(* no wakeup is lost, active workers are counted, and threads_ is quiet     *)
(* when it is resized.  Then its safety for callers that keep a handle until *)
(* Wait is over: a caller is told the outcome of its own job.  At last what   *)
(* the pool is to its callers: it allocates no more Sentry_ objects than it   *)
(* must, and it is the JobService.                                            *)
(***************************************************************************)
EXTENDS ThreadPool, FiniteSetTheorems, TLAPS

LEMMA ThreadCountInRange ==
    ASSUME NEW request \in Int
    PROVE  ThreadCount(request) \in 1 .. HardwareConcurrency
BY ConcurrencyAssumption DEF ThreadCount, Clamp, LoadScale

LEMMA TailOfSeq ==
    ASSUME NEW S, NEW q \in Seq(S), q # <<>>
    PROVE  /\ Head(q) \in S
           /\ Tail(q) \in Seq(S)
           /\ Len(Tail(q)) = Len(q) - 1
           /\ \A i \in 1 .. Len(Tail(q)) : Tail(q)[i] = q[i + 1]
           /\ Head(q) = q[1]
           /\ Len(q) \in Nat \ {0}
OBVIOUS

LEMMA AppendToSeq ==
    ASSUME NEW S, NEW q \in Seq(S), NEW e \in S
    PROVE  /\ Append(q, e) \in Seq(S)
           /\ Len(Append(q, e)) = Len(q) + 1
           /\ \A i \in 1 .. Len(q) : Append(q, e)[i] = q[i]
           /\ Append(q, e)[Len(q) + 1] = e
OBVIOUS

LEMMA FunctionIsSeq ==
    ASSUME NEW S, NEW n \in Nat, NEW q \in [1 .. n -> S]
    PROVE  q \in Seq(S)
OBVIOUS

USE ConcurrencyAssumption, NullAssumption DEF Worker, Entry, NoEntry, Ended,
    Busy, BeforeSignal

LEMMA InitType == Init => TypeOK
<1> SUFFICES ASSUME Init PROVE TypeOK
  OBVIOUS
<1> USE DEF Init
<1>1. QueueTypeOK
  <2>1. SentriesPerThread * HardwareConcurrency \in Nat
    BY PoolAssumption
  <2>2. sentryPool \in Seq(Sentry)
    BY <2>1, FunctionIsSeq
  <2> QED  BY <2>2 DEF QueueTypeOK
<1>2. SentryTypeOK  BY DEF SentryTypeOK
<1>3. WorkerTypeOK  BY DEF WorkerTypeOK
<1>4. ClientTypeOK  BY DEF ClientTypeOK
<1>5. PoolTypeOK    BY DEF PoolTypeOK, Alive
<1> QED  BY <1>1, <1>2, <1>3, <1>4, <1>5 DEF TypeOK

\* Which groups of variables an action leaves alone.
LEMMA FrameType ==
    /\ QueueTypeOK /\ UNCHANGED queueVars => QueueTypeOK'
    /\ SentryTypeOK /\ UNCHANGED sentryVars => SentryTypeOK'
    /\ WorkerTypeOK /\ UNCHANGED workerVars => WorkerTypeOK'
    /\ ClientTypeOK /\ UNCHANGED <<clientVars, status>> => ClientTypeOK'
    /\ PoolTypeOK /\ UNCHANGED poolVars => PoolTypeOK'
BY DEF queueVars, sentryVars, workerVars, clientVars, poolVars, QueueTypeOK,
       SentryTypeOK, WorkerTypeOK, ClientTypeOK, PoolTypeOK, Alive

LEMMA EnqueueType ==
    ASSUME TypeOK, NEW j \in Job, NEW s \in Sentry, Enqueue(j, s)
    PROVE  /\ QueueTypeOK' /\ SentryTypeOK' /\ ClientTypeOK' /\ PoolTypeOK'
<1> USE DEF TypeOK, Enqueue, AcquireSentry
<1>1. sentryPool' \in Seq(Sentry)
  BY TailOfSeq DEF QueueTypeOK
<1>2. jobs' \in Seq(Entry)
  BY AppendToSeq DEF QueueTypeOK
<1>3. QueueTypeOK'   BY <1>1, <1>2 DEF QueueTypeOK, NotifyWorkers
<1>4. SentryTypeOK'  BY DEF SentryTypeOK, Reset
<1>5. ClientTypeOK'  BY DEF ClientTypeOK
<1>6. PoolTypeOK'    BY FrameType
<1> QED  BY <1>3, <1>4, <1>5, <1>6

\* Every step preserves the types.
LEMMA StepType == TypeOK /\ [Next]_vars => TypeOK'
<1> SUFFICES ASSUME TypeOK, [Next]_vars PROVE TypeOK'
  OBVIOUS
<1> QueueTypeOK /\ SentryTypeOK /\ WorkerTypeOK /\ ClientTypeOK /\ PoolTypeOK
  BY DEF TypeOK
<1> SUFFICES QueueTypeOK' /\ SentryTypeOK' /\ WorkerTypeOK' /\ ClientTypeOK'
             /\ PoolTypeOK'
  BY DEF TypeOK
<1> USE FrameType
<1>1. ASSUME NEW j \in Job, AddJob(j) PROVE TypeOK'
  BY <1>1, EnqueueType DEF AddJob, Enqueue, TypeOK, WorkerTypeOK
<1>2. ASSUME NEW w \in Worker, NEW j \in Job, AddNested(w, j) PROVE TypeOK'
  BY <1>2, EnqueueType DEF AddNested, Enqueue, TypeOK, WorkerTypeOK
<1>3. ASSUME NEW j \in Job, Wait(j) \/ Wake(j) PROVE TypeOK'
  <2>1. ClientTypeOK'
    BY <1>3 DEF Wait, Wake, WaitBlocks, WaitEnds, ClientTypeOK, SentryTypeOK
  <2> QED  BY <1>3, <2>1 DEF Wait, Wake, TypeOK
<1>4. ASSUME NEW j \in Job, DestroyHandle(j) PROVE TypeOK'
  <2> USE <1>4 DEF DestroyHandle
  <2>1. QueueTypeOK'
    BY AppendToSeq DEF QueueTypeOK, ClientTypeOK
  <2>2. WorkerTypeOK'  BY DEF WorkerTypeOK
  <2>3. ClientTypeOK'  BY DEF ClientTypeOK
  <2> QED  BY <2>1, <2>2, <2>3 DEF TypeOK
<1>5. ASSUME NEW w \in Worker, CheckRunning(w) PROVE TypeOK'
  <2>1. WorkerTypeOK'  BY <1>5 DEF CheckRunning, WorkerTypeOK
  <2> QED  BY <1>5, <2>1 DEF CheckRunning, TypeOK
<1>6. ASSUME NEW w \in Worker, RequestJob(w) PROVE TypeOK'
  <2> USE <1>6 DEF RequestJob
  <2>1. CASE WaitForJobs(w)
    BY <2>1 DEF WaitForJobs, TypeOK, QueueTypeOK, WorkerTypeOK
  <2>2. CASE LeaveQueue(w)
    BY <2>2 DEF LeaveQueue, TypeOK, QueueTypeOK, WorkerTypeOK
  <2>3. CASE TakeJob(w)
    <3>1. Head(jobs) \in Entry /\ Tail(jobs) \in Seq(Entry)
      BY <2>3, TailOfSeq DEF TakeJob, QueueTypeOK
    <3>2. QueueTypeOK'   BY <2>3, <3>1 DEF TakeJob, QueueTypeOK
    <3>3. WorkerTypeOK'  BY <2>3, <3>1 DEF TakeJob, WorkerTypeOK
    <3> QED  BY <3>2, <3>3 DEF TypeOK
  <2> QED  BY <2>1, <2>2, <2>3
<1>7. ASSUME NEW w \in Worker, Claim(w) PROVE TypeOK'
  <2> USE <1>7 DEF Claim, ClaimSucceeds, ClaimFails
  <2>1. SentryTypeOK'  BY DEF SentryTypeOK
  <2>2. WorkerTypeOK'  BY DEF WorkerTypeOK
  <2>3. ClientTypeOK'  BY DEF ClientTypeOK, clientVars
  <2> QED  BY <2>1, <2>2, <2>3 DEF TypeOK
<1>8. ASSUME NEW w \in Worker, NEW outcome \in Ended, TaskEnds(w, outcome)
      PROVE TypeOK'
  <2> USE <1>8 DEF TaskEnds
  <2>1. WorkerTypeOK'  BY DEF WorkerTypeOK
  <2>2. ClientTypeOK'  BY DEF ClientTypeOK, clientVars
  <2> QED  BY <2>1, <2>2 DEF TypeOK
<1>9. ASSUME NEW w \in Worker, Signal(w) PROVE TypeOK'
  <2> USE <1>9 DEF Signal
  <2>1. entry[w] \in Entry
    BY DEF WorkerTypeOK
  <2>2. SentryTypeOK'  BY <2>1 DEF SentryTypeOK
  <2>3. WorkerTypeOK'  BY DEF WorkerTypeOK
  <2>4. ClientTypeOK'  BY DEF ClientTypeOK, NotifyOne
  <2> QED  BY <2>2, <2>3, <2>4 DEF TypeOK
<1>10. ASSUME NEW w \in Worker, ReportJobDone(w) PROVE TypeOK'
  BY <1>10 DEF ReportJobDone, TypeOK, WorkerTypeOK, QueueTypeOK
<1>11. ASSUME NEW w \in Worker, QueryPool(w) \/ QueryReturns(w) PROVE TypeOK'
  <2>1. WorkerTypeOK'  BY <1>11 DEF QueryPool, QueryReturns, WorkerTypeOK
  <2> QED  BY <1>11, <2>1 DEF QueryPool, QueryReturns, TypeOK
<1>12. ASSUME NEW request \in LoadRequests, SetLoadFactor(request)
       PROVE TypeOK'
  <2>1. ThreadCount(request) \in 1 .. HardwareConcurrency
    BY ThreadCountInRange, RequestAssumption
  <2>2. PoolTypeOK'  BY <1>12, <2>1 DEF SetLoadFactor, PoolTypeOK, Alive
  <2> QED  BY <1>12, <2>2 DEF SetLoadFactor, TypeOK
<1>13. ASSUME DestroyPool PROVE TypeOK'
  <2>1. PoolTypeOK'  BY <1>13 DEF DestroyPool, PoolTypeOK, Alive
  <2> QED  BY <1>13, <2>1 DEF DestroyPool, TypeOK
<1>14. ASSUME StopQueue \/ StartQueue PROVE TypeOK'
  <2>1. PoolTypeOK'   BY <1>14 DEF StopQueue, StartQueue, PoolTypeOK, Alive
  <2>2. QueueTypeOK'  BY <1>14 DEF StopQueue, StartQueue, NotifyWorkers, QueueTypeOK
  <2> QED  BY <1>14, <2>1, <2>2 DEF StopQueue, StartQueue, TypeOK
<1>15. ASSUME JoinThread \/ SpawnThread PROVE TypeOK'
  <2>1. PoolTypeOK'
    <3>1. CASE pool.next < threads
      BY <1>15, <3>1 DEF JoinThread, SpawnThread, Advance, PoolTypeOK, Alive
    <3>2. CASE ~(pool.next < threads)
      <4>1. threads \in 1 .. HardwareConcurrency
        BY <1>15 DEF JoinThread, SpawnThread, PoolTypeOK
      <4>2. /\ pool'.pc \in {"resize", "idle"}
            /\ pool'.next = 1
            /\ pool'.target = pool.target
            /\ pool' = [pc |-> pool'.pc, target |-> pool.target, next |-> 1]
        BY <1>15, <3>2 DEF JoinThread, SpawnThread, Advance, PoolTypeOK
      <4>3. threads' = threads /\ loadFactor' \in 1 .. HardwareConcurrency
            /\ resizes' = resizes
        BY <1>15, <4>1 DEF JoinThread, SpawnThread, PoolTypeOK
      <4> QED  BY <1>15, <4>1, <4>2, <4>3 DEF JoinThread, SpawnThread, PoolTypeOK, Alive
    <3> QED  BY <3>1, <3>2
  <2>2. WorkerTypeOK'
    BY <1>15 DEF JoinThread, SpawnThread, WorkerTypeOK
  <2> QED  BY <1>15, <2>1, <2>2 DEF JoinThread, SpawnThread, TypeOK
<1>16. ASSUME ResizeThreads PROVE TypeOK'
  <2>1. PoolTypeOK'  BY <1>16 DEF ResizeThreads, PoolTypeOK, Alive
  <2> QED  BY <1>16, <2>1 DEF ResizeThreads, TypeOK
<1>17. CASE UNCHANGED vars
  BY <1>17 DEF vars, TypeOK
<1> QED
  BY <1>1, <1>2, <1>3, <1>4, <1>5, <1>6, <1>7, <1>8, <1>9, <1>10, <1>11, <1>12,
     <1>13, <1>14, <1>15, <1>16, <1>17
     DEF Next, WorkerStep, TaskStep, HandleStep, PoolStep, TypeOK

\* The variables keep their types, in every instance and whatever callers do.
THEOREM TypeCorrect == Spec => []TypeOK
BY InitType, StepType, PTL DEF Spec

-----------------------------------------------------------------------------
(* Workers *)

USE ConcurrencyAssumption DEF Worker, Busy, BeforeSignal, Ended

\* A worker never sleeps in RequestJob while there is a job or a request to stop.
THEOREM WakeupsArrive == Spec => []NoLostWakeup
<1>1. Init => NoLostWakeup
  BY DEF Init, NoLostWakeup
<1>2. NoLostWakeup /\ [Next]_vars => NoLostWakeup'
  <2> SUFFICES ASSUME NoLostWakeup, [Next]_vars PROVE NoLostWakeup'
    OBVIOUS
  <2>1. ASSUME NEW j \in Job, NEW s \in Sentry, Enqueue(j, s) PROVE NoLostWakeup'
    BY <2>1 DEF Enqueue, NotifyWorkers, NoLostWakeup
  <2>2. ASSUME NEW w \in Worker, RequestJob(w) PROVE NoLostWakeup'
    BY <2>2 DEF RequestJob, WaitForJobs, LeaveQueue, TakeJob, NoLostWakeup
  <2>3. ASSUME NEW j \in Job, Wait(j) \/ Wake(j) \/ DestroyHandle(j)
        PROVE  NoLostWakeup'
    BY <2>3 DEF Wait, Wake, DestroyHandle, queueVars, NoLostWakeup
  <2>4. ASSUME NEW w \in Worker,
               \/ CheckRunning(w) \/ Claim(w) \/ Signal(w) \/ ReportJobDone(w)
               \/ QueryPool(w) \/ QueryReturns(w)
               \/ \E outcome \in Ended : TaskEnds(w, outcome)
        PROVE  NoLostWakeup'
    BY <2>4 DEF CheckRunning, Claim, ClaimSucceeds, ClaimFails, Signal, ReportJobDone, QueryPool,
                QueryReturns, TaskEnds, queueVars, NoLostWakeup
  <2>5. CASE PoolStep
    BY <2>5 DEF PoolStep, StopQueue, JoinThread, ResizeThreads, StartQueue,
                SpawnThread, NotifyWorkers, queueVars, NoLostWakeup
  <2>6. CASE DestroyPool \/ \E request \in LoadRequests : SetLoadFactor(request)
    BY <2>6 DEF DestroyPool, SetLoadFactor, queueVars, NoLostWakeup
  <2>7. CASE UNCHANGED vars
    BY <2>7 DEF vars, queueVars, NoLostWakeup
  <2> QED
    BY <2>1, <2>2, <2>3, <2>4, <2>5, <2>6, <2>7
       DEF Next, WorkerStep, TaskStep, HandleStep, AddJob, AddNested
<1> QED  BY <1>1, <1>2, PTL DEF Spec

LEMMA BusyFinite ==
    /\ IsFiniteSet({w \in Worker : pc[w] \in Busy})
    /\ Cardinality({w \in Worker : pc[w] \in Busy}) \in Nat
<1>1. IsFiniteSet(Worker)
  BY FS_Interval
<1>2. IsFiniteSet({w \in Worker : pc[w] \in Busy})
  BY <1>1, FS_Subset
<1> QED  BY <1>2, FS_CardinalityType

\* Steps that keep, add to, or take from, the set of busy workers.
LEMMA CountSame ==
    ASSUME ActiveCountBalanced, activeCount' = activeCount,
           \A v \in Worker : pc'[v] \in Busy <=> pc[v] \in Busy
    PROVE  ActiveCountBalanced'
<1>1. {v \in Worker : pc'[v] \in Busy} = {v \in Worker : pc[v] \in Busy}
  OBVIOUS
<1> QED  BY <1>1 DEF ActiveCountBalanced

LEMMA CountUp ==
    ASSUME ActiveCountBalanced, activeCount' = activeCount + 1,
           NEW w \in Worker, pc[w] \notin Busy, pc'[w] \in Busy,
           \A v \in Worker \ {w} : pc'[v] = pc[v]
    PROVE  ActiveCountBalanced'
<1> DEFINE B == {v \in Worker : pc[v] \in Busy}
<1>1. {v \in Worker : pc'[v] \in Busy} = B \cup {w}
  OBVIOUS
<1>2. w \notin B /\ IsFiniteSet(B)
  BY BusyFinite
<1> HIDE DEF B
<1>3. Cardinality(B \cup {w}) = Cardinality(B) + 1
  BY <1>2, FS_AddElement
<1> USE DEF B
<1>4. activeCount = Cardinality(B)
  BY DEF ActiveCountBalanced
<1> QED  BY <1>1, <1>3, <1>4 DEF ActiveCountBalanced

LEMMA CountDown ==
    ASSUME ActiveCountBalanced, activeCount' = activeCount - 1,
           NEW w \in Worker, pc[w] \in Busy, pc'[w] \notin Busy,
           \A v \in Worker \ {w} : pc'[v] = pc[v]
    PROVE  ActiveCountBalanced'
<1> DEFINE B == {v \in Worker : pc[v] \in Busy}
<1>1. {v \in Worker : pc'[v] \in Busy} = B \ {w}
  OBVIOUS
<1>2. w \in B /\ IsFiniteSet(B)
  BY BusyFinite
<1> HIDE DEF B
<1>3. Cardinality(B \ {w}) = Cardinality(B) - 1
  BY <1>2, FS_RemoveElement
<1> USE DEF B
<1>4. activeCount = Cardinality(B)
  BY DEF ActiveCountBalanced
<1> QED  BY <1>1, <1>3, <1>4 DEF ActiveCountBalanced

\* activeCount_ is balanced, also when a claim fails.
THEOREM ActiveCountCorrect == Spec => []ActiveCountBalanced
<1>1. Init => ActiveCountBalanced
  <2> SUFFICES ASSUME Init PROVE ActiveCountBalanced
    OBVIOUS
  <2>1. {w \in Worker : pc[w] \in Busy} = {}
    BY DEF Init
  <2> QED  BY <2>1, FS_EmptySet DEF Init, ActiveCountBalanced
<1>2. TypeOK /\ ActiveCountBalanced /\ [Next]_vars => ActiveCountBalanced'
  <2> SUFFICES ASSUME TypeOK, ActiveCountBalanced, [Next]_vars
               PROVE  ActiveCountBalanced'
    OBVIOUS
  <2>1. /\ pc \in [Worker -> {"off", "check", "request", "waiting", "exited"}
                              \cup Busy]
        /\ activeCount \in Int
    BY DEF TypeOK, WorkerTypeOK, QueueTypeOK
  <2>2. ASSUME NEW w \in Worker, RequestJob(w), TakeJob(w)
        PROVE  ActiveCountBalanced'
    <3>1. /\ activeCount' = activeCount + 1
          /\ pc[w] \notin Busy /\ pc'[w] \in Busy
          /\ \A v \in Worker \ {w} : pc'[v] = pc[v]
      BY <2>1, <2>2 DEF RequestJob, TakeJob
    <3> QED  BY <3>1, CountUp
  <2>3. ASSUME NEW w \in Worker, ReportJobDone(w)
        PROVE  ActiveCountBalanced'
    <3>1. /\ activeCount' = activeCount - 1
          /\ pc[w] \in Busy /\ pc'[w] \notin Busy
          /\ \A v \in Worker \ {w} : pc'[v] = pc[v]
      BY <2>1, <2>3 DEF ReportJobDone
    <3> QED  BY <3>1, CountDown
  <2>4. ASSUME NEW w \in Worker,
               \/ CheckRunning(w)
               \/ RequestJob(w) /\ (WaitForJobs(w) \/ LeaveQueue(w))
               \/ Claim(w)
               \/ \E outcome \in Ended : TaskEnds(w, outcome)
               \/ Signal(w) \/ QueryPool(w) \/ QueryReturns(w)
               \/ \E j \in Job : AddNested(w, j)
        PROVE  ActiveCountBalanced'
    <3>1. activeCount' = activeCount
      BY <2>4 DEF CheckRunning, RequestJob, WaitForJobs, LeaveQueue, Claim, ClaimSucceeds, ClaimFails,
         TaskEnds, Signal, QueryPool, QueryReturns, AddNested, Enqueue, queueVars
    <3>2. \A v \in Worker : pc'[v] \in Busy <=> pc[v] \in Busy
      BY <2>1, <2>4 DEF CheckRunning, RequestJob, WaitForJobs, LeaveQueue, Claim, ClaimSucceeds, ClaimFails,
         TaskEnds, Signal, QueryPool, QueryReturns, AddNested, Enqueue
    <3> QED  BY <3>1, <3>2, CountSame
  <2>5. ASSUME NEW j \in Job, HandleStep(j)
        PROVE  ActiveCountBalanced'
    BY <2>5, CountSame DEF HandleStep, AddJob, Enqueue, Wait, Wake,
       DestroyHandle, queueVars, workerVars
  <2>6. CASE JoinThread \/ SpawnThread
    <3>1. activeCount' = activeCount
      BY <2>6 DEF JoinThread, SpawnThread, queueVars
    <3>2. \A v \in Worker : pc'[v] \in Busy <=> pc[v] \in Busy
      BY <2>1, <2>6 DEF JoinThread, SpawnThread
    <3> QED  BY <3>1, <3>2, CountSame
  <2>7. CASE \/ StopQueue \/ ResizeThreads \/ StartQueue \/ DestroyPool
             \/ \E request \in LoadRequests : SetLoadFactor(request)
             \/ UNCHANGED vars
    BY <2>7, CountSame DEF StopQueue, ResizeThreads, StartQueue, DestroyPool,
       SetLoadFactor, vars, queueVars, workerVars
  <2> QED
    BY <2>2, <2>3, <2>4, <2>5, <2>6, <2>7
       DEF Next, WorkerStep, TaskStep, PoolStep, RequestJob
<1> QED  BY <1>1, <1>2, TypeCorrect, PTL DEF Spec

LEMMA StepJoined ==
    ASSUME TypeOK, Joined, [Next]_vars
    PROVE  Joined'
<1>1. pc \in [Worker -> {"off", "check", "request", "waiting", "exited"} \cup Busy]
  BY DEF TypeOK, WorkerTypeOK
<1>2. ASSUME UNCHANGED <<threads, pool>>,
             \A w \in Worker : pc[w] = "off" => pc'[w] = "off"
      PROVE  Joined'
  BY <1>2 DEF Joined
<1>3. ASSUME NEW w \in Worker, WorkerStep(w) \/ TaskStep(w) PROVE Joined'
  <2>1. UNCHANGED <<threads, pool>>
    BY <1>3 DEF WorkerStep, TaskStep, CheckRunning, RequestJob, Claim, Signal,
       ReportJobDone, QueryReturns, TaskEnds, QueryPool, AddNested, Enqueue,
       poolVars
  <2>2. \A v \in Worker : pc[v] = "off" => pc'[v] = "off"
    BY <1>1, <1>3
       DEF WorkerStep, TaskStep, CheckRunning, RequestJob, WaitForJobs,
       LeaveQueue, TakeJob, Claim, ClaimSucceeds, ClaimFails, Signal, ReportJobDone, QueryReturns, TaskEnds,
       QueryPool, AddNested, Enqueue
  <2> QED  BY <1>2, <2>1, <2>2
<1>4. ASSUME NEW j \in Job, HandleStep(j) PROVE Joined'
  BY <1>2, <1>4 DEF HandleStep, AddJob, Enqueue, Wait, Wake, DestroyHandle,
                    workerVars, poolVars
<1>5. CASE UNCHANGED vars
  BY <1>2, <1>5 DEF vars, workerVars, poolVars
<1>6. CASE DestroyPool \/ \E request \in LoadRequests : SetLoadFactor(request)
  BY <1>6 DEF DestroyPool, SetLoadFactor, Joined, workerVars
<1>7. CASE StopQueue
  BY <1>7 DEF StopQueue, Joined, workerVars, TypeOK, PoolTypeOK
<1>8. CASE JoinThread
  <2>1. /\ pool.next \in Worker /\ threads \in Nat
        /\ pool.pc = "join"
        /\ threads' = threads
        /\ pc' = [pc EXCEPT ![pool.next] = "off"]
        /\ pool' = Advance("resize")
    BY <1>8 DEF JoinThread, TypeOK, PoolTypeOK
  <2>2. \A w \in Worker : w <= pool.next \/ w > threads => pc'[w] = "off"
    BY <1>1, <2>1 DEF Joined
  <2>3. CASE pool.next < threads
    <3>1. pool'.pc = "join" /\ pool'.next = pool.next + 1
      BY <2>1, <2>3 DEF Advance, TypeOK, PoolTypeOK
    <3> QED  BY <2>1, <2>2, <3>1 DEF Joined
  <2>4. CASE ~(pool.next < threads)
    <3>1. \A w \in Worker : pc'[w] = "off"
      BY <2>1, <2>2, <2>4
    <3> QED  BY <3>1 DEF Joined
  <2> QED  BY <2>3, <2>4
<1>9. CASE ResizeThreads
  BY <1>9 DEF ResizeThreads, Joined, workerVars, TypeOK, PoolTypeOK
<1>10. CASE StartQueue
  BY <1>10 DEF StartQueue, Joined, workerVars, TypeOK, PoolTypeOK
<1>11. CASE SpawnThread
  <2>1. /\ pool.next \in Worker /\ threads \in Nat
        /\ pool.next <= threads
        /\ threads' = threads
        /\ \A w \in Worker \ {pool.next} : pc'[w] = pc[w]
    BY <1>1, <1>11 DEF SpawnThread, TypeOK, PoolTypeOK
  <2>2. pool'.pc \in {"spawn", "idle"}
    BY <1>11 DEF SpawnThread, Advance, TypeOK, PoolTypeOK
  <2> QED  BY <2>1, <2>2 DEF Joined
<1> QED
  BY <1>3, <1>4, <1>5, <1>6, <1>7, <1>8, <1>9, <1>10, <1>11 DEF Next, PoolStep

\* threads_ is resized, and destroyed, only while nothing runs on its elements.
THEOREM ResizeIsQuiet == Spec => []QuietWhenResized
<1>1. Init => Joined
  BY DEF Init, Joined
<1>2. TypeOK /\ Joined /\ [Next]_vars => Joined'
  BY StepJoined
<1>3. Joined /\ ActiveCountBalanced => QuietWhenResized
  <2> SUFFICES ASSUME Joined, ActiveCountBalanced,
                      pool.pc \in {"resize", "start", "gone"}
               PROVE  /\ \A w \in Worker : pc[w] = "off"
                      /\ activeCount = 0
    BY DEF QuietWhenResized
  <2>1. \A w \in Worker : pc[w] = "off"
    BY DEF Joined
  <2>2. {w \in Worker : pc[w] \in Busy} = {}
    BY <2>1
  <2> QED  BY <2>1, <2>2, FS_EmptySet DEF ActiveCountBalanced
<1> QED  BY <1>1, <1>2, <1>3, TypeCorrect, ActiveCountCorrect, PTL DEF Spec

-----------------------------------------------------------------------------
(* Callers that keep a handle until Wait is over: each is told the outcome of *)
(* its own job *)

LEMMA SeqDomain ==
    ASSUME NEW S, NEW q \in Seq(S)
    PROVE  /\ DOMAIN q = 1 .. Len(q)
           /\ Len(q) \in Nat
           /\ \A i \in DOMAIN q : q[i] \in S
OBVIOUS

\* Taking the first element of a sequence without repetitions.
LEMMA TailInjective ==
    ASSUME NEW S, NEW q \in Seq(S), q # <<>>, IsInjective(q)
    PROVE  /\ IsInjective(Tail(q))
           /\ ToSet(Tail(q)) \subseteq ToSet(q)
           /\ Head(q) \in ToSet(q)
           /\ Head(q) \notin ToSet(Tail(q))
<1>1. /\ DOMAIN Tail(q) = 1 .. (Len(q) - 1)
      /\ DOMAIN q = 1 .. Len(q)
      /\ Len(q) \in Nat \ {0}
      /\ Head(q) = q[1]
      /\ \A i \in 1 .. (Len(q) - 1) : Tail(q)[i] = q[i + 1]
  BY TailOfSeq, SeqDomain
<1>2. \A i \in DOMAIN Tail(q) : i + 1 \in DOMAIN q /\ i + 1 # 1 /\ i \in Int
  BY <1>1
<1>3. 1 \in DOMAIN q
  BY <1>1
<1>4. \A i, k \in DOMAIN q : q[i] = q[k] => i = k
  BY DEF IsInjective
<1>5. IsInjective(Tail(q))
  <2> SUFFICES ASSUME NEW i \in DOMAIN Tail(q), NEW k \in DOMAIN Tail(q),
                      Tail(q)[i] = Tail(q)[k]
               PROVE  i = k
    BY DEF IsInjective
  <2>1. q[i + 1] = q[k + 1]
    BY <1>1
  <2>2. i + 1 = k + 1
    BY <1>2, <1>4, <2>1
  <2> QED  BY <1>2, <2>2
<1>6. \A i \in DOMAIN Tail(q) : Tail(q)[i] = q[i + 1]
  BY <1>1
<1>7. \A i \in DOMAIN Tail(q) : Tail(q)[i] \in ToSet(q)
  BY <1>2, <1>6 DEF ToSet
<1>8. \A i \in DOMAIN Tail(q) : Tail(q)[i] # q[1]
  BY <1>2, <1>3, <1>4, <1>6
<1>9. Head(q) \in ToSet(q)
  BY <1>1, <1>3 DEF ToSet
<1> QED  BY <1>1, <1>5, <1>7, <1>8, <1>9 DEF ToSet

\* Adding a new element to a sequence without repetitions.
LEMMA AppendNewElement ==
    ASSUME NEW S, NEW q \in Seq(S), NEW e \in S
    PROVE  /\ ToSet(Append(q, e)) = ToSet(q) \cup {e}
           /\ IsInjective(q) /\ e \notin ToSet(q) => IsInjective(Append(q, e))
<1>1. /\ DOMAIN Append(q, e) = 1 .. (Len(q) + 1)
      /\ DOMAIN q = 1 .. Len(q)
      /\ Len(q) \in Nat
      /\ \A i \in 1 .. Len(q) : Append(q, e)[i] = q[i]
      /\ Append(q, e)[Len(q) + 1] = e
  BY AppendToSeq, SeqDomain
<1>2. /\ \A i \in DOMAIN Append(q, e) : i \in DOMAIN q \/ i = Len(q) + 1
      /\ \A i \in DOMAIN q : i \in DOMAIN Append(q, e) /\ Append(q, e)[i] = q[i]
      /\ Len(q) + 1 \in DOMAIN Append(q, e)
  BY <1>1
<1>3. ToSet(Append(q, e)) = ToSet(q) \cup {e}
  BY <1>1, <1>2 DEF ToSet
<1>4. IsInjective(q) /\ e \notin ToSet(q) => IsInjective(Append(q, e))
  BY <1>1, <1>2 DEF IsInjective, ToSet
<1> QED  BY <1>3, <1>4

\* The sentry that AcquireSentry chooses is nobody's.
LEMMA AcquiredIsUnused ==
    ASSUME TypeOK, HandlesOwned, NEW s \in Sentry, AcquireSentry(s)
    PROVE  /\ \A j \in Job : handle[j] # s
           /\ IsInjective(sentryPool')
           /\ ToSet(sentryPool') \subseteq ToSet(sentryPool)
           /\ s \notin ToSet(sentryPool')
<1>1. CASE sentryPool = <<>>
  BY <1>1 DEF AcquireSentry, Referenced, HandlesOwned
<1>2. CASE sentryPool # <<>>
  <2>1. sentryPool \in Seq(Sentry)
    BY DEF TypeOK, QueueTypeOK
  <2>2. s = Head(sentryPool) /\ sentryPool' = Tail(sentryPool)
    BY <1>2 DEF AcquireSentry
  <2> QED  BY <1>2, <2>1, <2>2, TailInjective DEF HandlesOwned
<1> QED  BY <1>1, <1>2

LEMMA InitOwnership == Init => Ownership
<1> SUFFICES ASSUME Init PROVE Ownership
  OBVIOUS
<1> USE DEF Init
<1>1. HandlesOwned
  <2>1. SentriesPerThread * HardwareConcurrency \in Nat
    BY PoolAssumption
  <2>2. \A x \in ToSet(sentryPool) : x \in Sentry
    BY <2>1 DEF ToSet
  <2> QED  BY <2>2 DEF HandlesOwned
<1>2. QueueOwned
  BY DEF QueueOwned
<1>3. WorkersOwned
  BY DEF WorkersOwned
<1>4. DoneMeansEnded
  BY DEF DoneMeansEnded
<1> QED  BY <1>1, <1>2, <1>3, <1>4 DEF Ownership, NoJobSkipped

\* Queue::AddJob, whoever calls it.
LEMMA EnqueueOwnership ==
    ASSUME TypeOK, Ownership, NEW j \in Job, NEW s \in Sentry,
           j \notin Outstanding, handle[j] = NoSentry, Enqueue(j, s)
    PROVE  Ownership'
<1> DEFINE new == [sentry |-> s, task |-> j]
<1>1. /\ \A i \in Job : handle[i] # s
      /\ IsInjective(sentryPool')
      /\ ToSet(sentryPool') \subseteq ToSet(sentryPool)
      /\ s \notin ToSet(sentryPool')
  BY AcquiredIsUnused DEF Enqueue, Ownership
<1>2. /\ DOMAIN jobs' = 1 .. (Len(jobs) + 1)
      /\ DOMAIN jobs = 1 .. Len(jobs)
      /\ Len(jobs) \in Nat
      /\ \A m \in DOMAIN jobs : jobs'[m] = jobs[m] /\ jobs[m] \in Entry
      /\ jobs'[Len(jobs) + 1] = new
  <2>1. jobs \in Seq(Entry) /\ new \in Entry /\ jobs' = Append(jobs, new)
    BY DEF TypeOK, QueueTypeOK, Enqueue
  <2>2. /\ jobs' \in Seq(Entry)
        /\ Len(jobs') = Len(jobs) + 1
        /\ \A m \in 1 .. Len(jobs) : jobs'[m] = jobs[m]
        /\ jobs'[Len(jobs) + 1] = new
    BY <2>1, AppendToSeq
  <2> HIDE DEF new
  <2>3. /\ DOMAIN jobs = 1 .. Len(jobs)
        /\ Len(jobs) \in Nat
        /\ \A m \in DOMAIN jobs : jobs[m] \in Entry
    BY <2>1, SeqDomain
  <2>4. DOMAIN jobs' = 1 .. Len(jobs')
    BY <2>2, SeqDomain
  <2> QED  BY <2>2, <2>3, <2>4
<1>3. \A m \in DOMAIN jobs' : m \in DOMAIN jobs \/ (m = Len(jobs) + 1 /\ jobs'[m] = new)
  BY <1>2
<1>4. /\ \A m \in DOMAIN jobs : jobs[m].task # j
      /\ \A w \in Worker : pc[w] \in BeforeSignal => entry[w].task # j
  BY DEF Outstanding, Unfinished, ToSet
<1>5. /\ handle' = [handle EXCEPT ![j] = s]
      /\ call' = [call EXCEPT ![j] = "idle"]
      /\ caught' = [caught EXCEPT ![j] = NoJob]
      /\ status' = [status EXCEPT ![j] = "queued"]
      /\ isDone' = [isDone EXCEPT ![s] = FALSE]
      /\ inProgress' = [inProgress EXCEPT ![s] = FALSE]
      /\ exceptionPtr' = [exceptionPtr EXCEPT ![s] = NoJob]
      /\ UNCHANGED <<pc, entry, waiters>>
  BY DEF Enqueue, AcquireSentry, Reset
<1>6. call[j] = "idle" /\ j \notin waiters
  BY DEF TypeOK, ClientTypeOK, Ownership, DoneMeansEnded
<1>7. HandlesOwned'
  BY <1>1, <1>5 DEF Ownership, HandlesOwned, TypeOK, ClientTypeOK
<1>8. ASSUME NEW e \in Entry, Fresh(e), e.task # j
      PROVE  Fresh(e)' /\ e.sentry # s /\ status'[e.task] = status[e.task]
             /\ inProgress'[e.sentry] = inProgress[e.sentry]
  BY <1>1, <1>5, <1>8 DEF Fresh, TypeOK, ClientTypeOK, SentryTypeOK
<1>9. Fresh(new)' /\ ~inProgress'[new.sentry] /\ status'[new.task] = "queued"
  BY <1>5 DEF Fresh, TypeOK, ClientTypeOK, SentryTypeOK
<1>10. QueueOwned'
  <2>1. \A m \in DOMAIN jobs' :
          /\ Fresh(jobs[m])'
          /\ ~inProgress'[jobs'[m].sentry]
          /\ status'[jobs'[m].task] = "queued"
    <3> SUFFICES ASSUME NEW m \in DOMAIN jobs'
                 PROVE  /\ Fresh(jobs[m])'
                        /\ ~inProgress'[jobs'[m].sentry]
                        /\ status'[jobs'[m].task] = "queued"
      OBVIOUS
    <3>1. CASE m \in DOMAIN jobs
      <4>1. /\ jobs[m] \in Entry /\ Fresh(jobs[m]) /\ jobs[m].task # j
            /\ jobs'[m] = jobs[m]
            /\ ~inProgress[jobs[m].sentry]
            /\ status[jobs[m].task] = "queued"
        BY <1>2, <1>4, <3>1 DEF Ownership, QueueOwned
      <4> QED  BY <1>8, <4>1 DEF Fresh
    <3>2. CASE jobs'[m] = new
      BY <1>9, <3>2 DEF Fresh
    <3> QED  BY <1>3, <3>1, <3>2
  <2>2. \A m, n \in DOMAIN jobs' : jobs'[m].task = jobs'[n].task => m = n
    BY <1>2, <1>3, <1>4 DEF Ownership, QueueOwned
  <2> QED  BY <2>1, <2>2 DEF QueueOwned
<1>11. WorkersOwned'
  <2>1. ASSUME NEW w \in Worker, pc[w] \in BeforeSignal
        PROVE  /\ Fresh(entry[w])'
               /\ status'[entry[w].task] = status[entry[w].task]
               /\ inProgress'[entry[w].sentry] = inProgress[entry[w].sentry]
               /\ \A m \in DOMAIN jobs' : jobs'[m].task # entry[w].task
    <3>1. entry[w] \in Entry /\ entry[w].task # j /\ Fresh(entry[w])
      BY <1>4, <2>1 DEF TypeOK, WorkerTypeOK, Ownership, WorkersOwned
    <3>2. entry' = entry
      BY <1>5
    <3>3. /\ Fresh(entry[w])'
          /\ status'[entry[w].task] = status[entry[w].task]
          /\ inProgress'[entry[w].sentry] = inProgress[entry[w].sentry]
      BY <1>8, <3>1, <3>2 DEF Fresh
    <3>4. \A m \in DOMAIN jobs : jobs[m].task # entry[w].task
      BY <2>1 DEF Ownership, WorkersOwned
    <3> QED  BY <1>2, <1>3, <3>1, <3>3, <3>4
  <2>2. pc' = pc /\ entry' = entry
    BY <1>5
  <2> QED  BY <2>1, <2>2 DEF Ownership, WorkersOwned
<1>12. DoneMeansEnded'
  BY <1>1, <1>5, <1>6
     DEF Ownership, DoneMeansEnded, TypeOK, ClientTypeOK, SentryTypeOK
<1>13. NoJobSkipped'
  BY <1>5 DEF Ownership, NoJobSkipped, TypeOK, ClientTypeOK
<1> QED  BY <1>7, <1>10, <1>11, <1>12, <1>13 DEF Ownership

\* Actions that only move workers, or the pool, between points without jobs.
LEMMA FrameOwnership ==
    ASSUME Ownership,
           UNCHANGED <<jobs, sentryPool, isDone, inProgress, exceptionPtr,
                       handle, call, caught, waiters, status, entry>>,
           \A w \in Worker : pc'[w] \in BeforeSignal
                               => pc[w] \in BeforeSignal /\ (pc'[w] = pc[w]
                                    \/ {pc[w], pc'[w]} \subseteq {"task", "locking"})
    PROVE  Ownership'
BY DEF Ownership, HandlesOwned, QueueOwned, WorkersOwned, DoneMeansEnded,
       NoJobSkipped, Fresh

\* Sentry_::Wait, from its predicate on.
LEMMA WaitOwnership ==
    ASSUME TypeOK, Ownership, NEW j \in Job, handle[j] # NoSentry,
           WaitBlocks(j) \/ WaitEnds(j), j \notin waiters,
           UNCHANGED <<handle, queueVars, sentryVars, workerVars, status>>
    PROVE  Ownership'
<1> USE DEF queueVars, sentryVars, workerVars
<1>1. DoneMeansEnded'
  <2>1. CASE WaitBlocks(j)
    BY <2>1 DEF WaitBlocks, Ownership, DoneMeansEnded, TypeOK, ClientTypeOK
  <2>2. CASE WaitEnds(j)
    BY <2>2 DEF WaitEnds, Ownership, DoneMeansEnded, TypeOK, ClientTypeOK
  <2> QED  BY <2>1, <2>2
<1>2. HandlesOwned' /\ QueueOwned' /\ WorkersOwned' /\ NoJobSkipped'
  BY DEF Ownership, HandlesOwned, QueueOwned, WorkersOwned, NoJobSkipped, Fresh
<1> QED  BY <1>1, <1>2 DEF Ownership

\* ~Sentry, once its Wait is over.
LEMMA DestroyOwnership ==
    ASSUME TypeOK, Ownership, NEW j \in Job, DestroyHandle(j), ~MayDiscard
    PROVE  Ownership'
<1> DEFINE s == handle[j]
<1>1. /\ s \in Sentry /\ isDone[s]
      /\ call[j] \in Ended
      /\ sentryPool' = Append(sentryPool, s)
      /\ handle' = [handle EXCEPT ![j] = NoSentry]
      /\ call' = [call EXCEPT ![j] = "idle"]
      /\ caught' = [caught EXCEPT ![j] = NoJob]
      /\ UNCHANGED <<jobs, isDone, inProgress, exceptionPtr, pc, entry, waiters>>
  BY DEF DestroyHandle, sentryVars, Ownership, DoneMeansEnded, TypeOK, ClientTypeOK
<1>2. \A i \in Job \ {j} : status'[i] = status[i]
  BY DEF DestroyHandle, TypeOK, ClientTypeOK
<1>3. status'[j] # "skipped"
  BY DEF DestroyHandle, TypeOK, ClientTypeOK, Ownership, NoJobSkipped
<1>4. HandlesOwned'
  <2>1. sentryPool \in Seq(Sentry) /\ s \notin ToSet(sentryPool)
    BY DEF TypeOK, QueueTypeOK, Ownership, HandlesOwned
  <2>2. ToSet(sentryPool') = ToSet(sentryPool) \cup {s} /\ IsInjective(sentryPool')
    BY <1>1, <2>1, AppendNewElement DEF Ownership, HandlesOwned
  <2>3. NoSentry \notin ToSet(sentryPool')
    <3>1. \A x \in ToSet(sentryPool) : x \in Sentry
      BY <2>1, SeqDomain DEF ToSet
    <3> QED  BY <1>1, <2>2, <3>1
  <2>4. \A i \in Job \ {j} : handle'[i] = handle[i] /\ handle[i] # s
    BY <1>1 DEF Ownership, HandlesOwned, TypeOK, ClientTypeOK
  <2>5. handle'[j] = NoSentry
    BY <1>1 DEF TypeOK, ClientTypeOK
  <2> QED  BY <2>2, <2>3, <2>4, <2>5 DEF Ownership, HandlesOwned
<1>5. ASSUME NEW e \in Entry, Fresh(e)
      PROVE  Fresh(e)' /\ e.task # j /\ status'[e.task] = status[e.task]
  BY <1>1, <1>2, <1>5 DEF Fresh, TypeOK, ClientTypeOK
<1>6. QueueOwned'
  <2>1. \A m \in DOMAIN jobs : jobs[m] \in Entry
    BY SeqDomain DEF TypeOK, QueueTypeOK
  <2>2. ASSUME NEW m \in DOMAIN jobs
        PROVE  Fresh(jobs[m])' /\ status'[jobs[m].task] = status[jobs[m].task]
    BY <1>1, <1>5, <2>1 DEF Ownership, QueueOwned, Fresh
  <2> QED  BY <1>1, <2>2 DEF Ownership, QueueOwned
<1>7. WorkersOwned'
  <2>1. ASSUME NEW w \in Worker, pc[w] \in BeforeSignal
        PROVE  /\ Fresh(entry[w])'
               /\ status'[entry[w].task] = status[entry[w].task]
    <3>1. entry[w] \in Entry /\ Fresh(entry[w])
      BY <2>1 DEF TypeOK, WorkerTypeOK, Ownership, WorkersOwned
    <3> QED  BY <1>1, <1>5, <3>1 DEF Fresh
  <2> QED  BY <1>1, <2>1 DEF Ownership, WorkersOwned
<1>8. DoneMeansEnded'
  BY <1>1, <1>2 DEF Ownership, DoneMeansEnded, TypeOK, ClientTypeOK
<1>9. NoJobSkipped'
  BY <1>2, <1>3 DEF Ownership, NoJobSkipped
<1> QED  BY <1>4, <1>6, <1>7, <1>8, <1>9 DEF Ownership

\* RequestJob hands the oldest job to a worker.
LEMMA TakeOwnership ==
    ASSUME TypeOK, Ownership, NEW w \in Worker, RequestJob(w), TakeJob(w)
    PROVE  Ownership'
<1>1. /\ jobs \in Seq(Entry) /\ jobs # <<>>
      /\ entry' = [entry EXCEPT ![w] = Head(jobs)]
      /\ jobs' = Tail(jobs)
      /\ pc' = [pc EXCEPT ![w] = "claim"]
      /\ pc[w] \in {"request", "waiting"}
      /\ UNCHANGED <<sentryPool, isDone, inProgress, exceptionPtr, handle, call,
                     caught, waiters, status>>
  BY DEF RequestJob, TakeJob, TypeOK, QueueTypeOK, sentryVars, clientVars
<1>2. /\ DOMAIN jobs = 1 .. Len(jobs)
      /\ DOMAIN jobs' = 1 .. (Len(jobs) - 1)
      /\ Len(jobs) \in Nat \ {0}
      /\ \A m \in 1 .. (Len(jobs) - 1) : jobs'[m] = jobs[m + 1]
      /\ Head(jobs) = jobs[1]
      /\ Head(jobs) \in Entry
  BY <1>1, TailOfSeq, SeqDomain
<1>3. /\ 1 \in DOMAIN jobs
      /\ \A m \in DOMAIN jobs' : /\ m \in Int /\ m + 1 \in DOMAIN jobs
                                 /\ m + 1 # 1 /\ jobs'[m] = jobs[m + 1]
  BY <1>2
<1>4. /\ Fresh(Head(jobs))
      /\ ~inProgress[Head(jobs).sentry]
      /\ status[Head(jobs).task] = "queued"
      /\ \A m \in DOMAIN jobs' : jobs'[m].task # Head(jobs).task
      /\ \A v \in Worker : pc[v] \in BeforeSignal
                             => entry[v].task # Head(jobs).task
  BY <1>2, <1>3 DEF Ownership, QueueOwned, WorkersOwned
<1>5. QueueOwned'
  <2>1. ASSUME NEW m \in DOMAIN jobs'
        PROVE  /\ Fresh(jobs[m])'
               /\ ~inProgress'[jobs'[m].sentry]
               /\ status'[jobs'[m].task] = "queued"
    <3>1. /\ Fresh(jobs[m + 1])
          /\ ~inProgress[jobs[m + 1].sentry]
          /\ status[jobs[m + 1].task] = "queued"
          /\ jobs'[m] = jobs[m + 1]
      BY <1>3 DEF Ownership, QueueOwned
    <3> QED  BY <1>1, <3>1 DEF Fresh
  <2>2. \A m, n \in DOMAIN jobs' : jobs'[m].task = jobs'[n].task => m = n
    <3>1. \A m, n \in DOMAIN jobs' :
            jobs[m + 1].task = jobs[n + 1].task => m + 1 = n + 1
      BY <1>3 DEF Ownership, QueueOwned
    <3>2. \A m, n \in DOMAIN jobs' : m + 1 = n + 1 => m = n
      BY <1>3
    <3> QED  BY <1>3, <3>1, <3>2
  <2> QED  BY <2>1, <2>2 DEF QueueOwned
<1>6. WorkersOwned'
  <2>1. /\ entry'[w] = Head(jobs) /\ pc'[w] = "claim"
        /\ \A v \in Worker \ {w} : entry'[v] = entry[v] /\ pc'[v] = pc[v]
    BY <1>1 DEF TypeOK, WorkerTypeOK
  <2>2. ASSUME NEW v \in Worker \ {w}, pc[v] \in BeforeSignal
        PROVE  /\ Fresh(entry[v])'
               /\ \A m \in DOMAIN jobs' : jobs'[m].task # entry[v].task
    <3>1. Fresh(entry[v]) /\ \A m \in DOMAIN jobs : jobs[m].task # entry[v].task
      BY <2>2 DEF Ownership, WorkersOwned
    <3> QED  BY <1>1, <1>3, <2>1, <3>1 DEF Fresh
  <2>3. Fresh(entry[w])'
    BY <1>1, <1>4, <2>1 DEF Fresh
  <2> QED  BY <1>1, <1>4, <2>1, <2>2, <2>3 DEF Ownership, WorkersOwned
<1>7. HandlesOwned' /\ DoneMeansEnded' /\ NoJobSkipped'
  BY <1>1 DEF Ownership, HandlesOwned, DoneMeansEnded, NoJobSkipped
<1> QED  BY <1>5, <1>6, <1>7 DEF Ownership

\* A step of a worker that touches the flags of its own sentry and the status of
\* its own job disturbs no other unfinished job.
LEMMA OthersUndisturbed ==
    ASSUME TypeOK, Ownership, NEW w \in Worker, pc[w] \in BeforeSignal,
           UNCHANGED <<handle, jobs, entry>>,
           \A s \in Sentry \ {entry[w].sentry} :
               /\ isDone'[s] = isDone[s]
               /\ inProgress'[s] = inProgress[s]
               /\ exceptionPtr'[s] = exceptionPtr[s],
           \A j \in Job \ {entry[w].task} : status'[j] = status[j]
    PROVE  /\ QueueOwned'
           /\ \A v \in Worker \ {w} : pc[v] \in BeforeSignal =>
                /\ Fresh(entry[v])'
                /\ entry[v].task # entry[w].task
                /\ inProgress'[entry[v].sentry] = inProgress[entry[v].sentry]
                /\ status'[entry[v].task] = status[entry[v].task]
<1>1. entry[w] \in Entry /\ handle[entry[w].task] = entry[w].sentry
  BY DEF TypeOK, WorkerTypeOK, Ownership, WorkersOwned, Fresh
<1>2. ASSUME NEW e \in Entry, Fresh(e), e.task # entry[w].task
      PROVE  /\ Fresh(e)'
             /\ inProgress'[e.sentry] = inProgress[e.sentry]
             /\ status'[e.task] = status[e.task]
  <2>1. e.sentry # entry[w].sentry
    BY <1>1, <1>2 DEF Fresh, Ownership, HandlesOwned
  <2> QED  BY <1>2, <2>1 DEF Fresh
<1>3. QueueOwned'
  <2>1. \A m \in DOMAIN jobs : jobs[m] \in Entry
    BY SeqDomain DEF TypeOK, QueueTypeOK
  <2>2. ASSUME NEW m \in DOMAIN jobs
        PROVE  /\ Fresh(jobs[m])'
               /\ inProgress'[jobs[m].sentry] = inProgress[jobs[m].sentry]
               /\ status'[jobs[m].task] = status[jobs[m].task]
    <3>1. Fresh(jobs[m]) /\ jobs[m].task # entry[w].task
      BY DEF Ownership, QueueOwned, WorkersOwned
    <3> QED  BY <1>2, <2>1, <3>1 DEF Fresh
  <2> QED  BY <2>2 DEF Ownership, QueueOwned
<1>4. ASSUME NEW v \in Worker \ {w}, pc[v] \in BeforeSignal
      PROVE  /\ Fresh(entry[v])'
             /\ entry[v].task # entry[w].task
             /\ inProgress'[entry[v].sentry] = inProgress[entry[v].sentry]
             /\ status'[entry[v].task] = status[entry[v].task]
  <2>1. entry[v] \in Entry /\ Fresh(entry[v]) /\ entry[v].task # entry[w].task
    BY <1>4 DEF TypeOK, WorkerTypeOK, Ownership, WorkersOwned
  <2> QED  BY <1>2, <2>1 DEF Fresh
<1> QED  BY <1>3, <1>4

\* Job::Run up to the task: the claim succeeds.
LEMMA ClaimOwnership ==
    ASSUME TypeOK, Ownership, NEW w \in Worker, Claim(w)
    PROVE  Ownership'
<1>1. /\ pc[w] = "claim" /\ entry[w] \in Entry
      /\ Fresh(entry[w])
      /\ ~inProgress[entry[w].sentry] /\ ~isDone[entry[w].sentry]
      /\ handle[entry[w].task] = entry[w].sentry
  BY DEF Claim, TypeOK, WorkerTypeOK, Ownership, WorkersOwned, Fresh
<1>2. /\ inProgress' = [inProgress EXCEPT ![entry[w].sentry] = TRUE]
      /\ pc' = [pc EXCEPT ![w] = "task"]
      /\ status' = [status EXCEPT ![entry[w].task] = "running"]
      /\ UNCHANGED <<jobs, sentryPool, isDone, exceptionPtr, entry, handle, call,
                     caught, waiters>>
  BY <1>1 DEF Claim, ClaimSucceeds, ClaimFails, queueVars, clientVars
<1>3. /\ QueueOwned'
      /\ \A v \in Worker \ {w} : pc[v] \in BeforeSignal =>
           /\ Fresh(entry[v])'
           /\ entry[v].task # entry[w].task
           /\ inProgress'[entry[v].sentry] = inProgress[entry[v].sentry]
           /\ status'[entry[v].task] = status[entry[v].task]
  BY <1>1, <1>2, OthersUndisturbed DEF TypeOK, SentryTypeOK, ClientTypeOK
<1>4. WorkersOwned'
  <2>1. Fresh(entry[w])' /\ status'[entry[w].task] = "running" /\ pc'[w] = "task"
    BY <1>1, <1>2 DEF Fresh, TypeOK, ClientTypeOK, WorkerTypeOK
  <2>2. \A v \in Worker \ {w} : pc'[v] = pc[v]
    BY <1>2 DEF TypeOK, WorkerTypeOK
  <2>3. \A v \in Worker : pc'[v] \in BeforeSignal => pc[v] \in BeforeSignal
    BY <1>1, <2>2
  <2>4. ASSUME NEW v \in Worker, pc'[v] \in BeforeSignal
        PROVE  /\ Fresh(entry[v])'
               /\ pc'[v] = "claim" => /\ ~inProgress'[entry[v].sentry]
                                      /\ status'[entry[v].task] = "queued"
               /\ pc'[v] \in {"task", "locking"}
                    => status'[entry[v].task] = "running"
               /\ pc'[v] = "signal" => status'[entry[v].task] \in Ended
               /\ \A m \in DOMAIN jobs : jobs[m].task # entry[v].task
    <3>1. CASE v = w
      BY <1>1, <2>1, <3>1 DEF Ownership, WorkersOwned
    <3>2. CASE v # w
      BY <1>3, <2>2, <2>3, <2>4, <3>2 DEF Ownership, WorkersOwned
    <3> QED  BY <3>1, <3>2
  <2>5. jobs' = jobs /\ entry' = entry
    BY <1>2
  <2> QED  BY <2>3, <2>4, <2>5 DEF Ownership, WorkersOwned
<1>5. DoneMeansEnded'
  BY <1>1, <1>2 DEF Ownership, DoneMeansEnded, TypeOK, ClientTypeOK
<1>6. HandlesOwned' /\ NoJobSkipped'
  BY <1>2 DEF Ownership, HandlesOwned, NoJobSkipped, TypeOK, ClientTypeOK
<1> QED  BY <1>3, <1>4, <1>5, <1>6 DEF Ownership

LEMMA TaskEndsOwnership ==
    ASSUME TypeOK, Ownership, NEW w \in Worker, NEW outcome \in Ended,
           TaskEnds(w, outcome)
    PROVE  Ownership'
<1>1. /\ pc[w] = "task" /\ entry[w] \in Entry
      /\ Fresh(entry[w])
      /\ pc' = [pc EXCEPT ![w] = "signal"]
      /\ status' = [status EXCEPT ![entry[w].task] = outcome]
      /\ UNCHANGED <<jobs, sentryPool, isDone, inProgress, exceptionPtr, entry,
                     handle, call, caught, waiters>>
  BY DEF TaskEnds, TypeOK, WorkerTypeOK, Ownership, WorkersOwned, queueVars,
         sentryVars, clientVars
<1>2. /\ QueueOwned'
      /\ \A v \in Worker \ {w} : pc[v] \in BeforeSignal =>
           /\ Fresh(entry[v])'
           /\ entry[v].task # entry[w].task
           /\ inProgress'[entry[v].sentry] = inProgress[entry[v].sentry]
           /\ status'[entry[v].task] = status[entry[v].task]
  BY <1>1, OthersUndisturbed DEF TypeOK, SentryTypeOK, ClientTypeOK
<1>3. WorkersOwned'
  <2>1. Fresh(entry[w])' /\ status'[entry[w].task] = outcome /\ pc'[w] = "signal"
    BY <1>1 DEF Fresh, TypeOK, ClientTypeOK, WorkerTypeOK
  <2>2. \A v \in Worker \ {w} : pc'[v] = pc[v]
    BY <1>1 DEF TypeOK, WorkerTypeOK
  <2>3. \A v \in Worker : pc'[v] \in BeforeSignal => pc[v] \in BeforeSignal
    BY <1>1, <2>2
  <2>4. ASSUME NEW v \in Worker, pc'[v] \in BeforeSignal
        PROVE  /\ Fresh(entry[v])'
               /\ pc'[v] = "claim" => /\ ~inProgress'[entry[v].sentry]
                                      /\ status'[entry[v].task] = "queued"
               /\ pc'[v] \in {"task", "locking"}
                    => status'[entry[v].task] = "running"
               /\ pc'[v] = "signal" => status'[entry[v].task] \in Ended
               /\ \A m \in DOMAIN jobs : jobs[m].task # entry[v].task
    <3>1. CASE v = w
      BY <1>1, <2>1, <3>1 DEF Ownership, WorkersOwned
    <3>2. CASE v # w
      BY <1>2, <2>2, <2>3, <2>4, <3>2 DEF Ownership, WorkersOwned
    <3> QED  BY <3>1, <3>2
  <2>5. jobs' = jobs /\ entry' = entry
    BY <1>1
  <2> QED  BY <2>3, <2>4, <2>5 DEF Ownership, WorkersOwned
<1>4. DoneMeansEnded'
  <2>1. \A j \in Job : handle[j] # NoSentry /\ isDone[handle[j]] => j # entry[w].task
    BY <1>1 DEF Fresh
  <2>2. \A j \in Job : call[j] \in Ended => j # entry[w].task
    BY <1>1 DEF Fresh, Ownership, DoneMeansEnded
  <2> QED  BY <1>1, <2>1, <2>2 DEF Ownership, DoneMeansEnded, TypeOK, ClientTypeOK
<1>5. HandlesOwned' /\ NoJobSkipped'
  BY <1>1 DEF Ownership, HandlesOwned, NoJobSkipped, TypeOK, ClientTypeOK
<1> QED  BY <1>2, <1>3, <1>4, <1>5 DEF Ownership

LEMMA SignalOwnership ==
    ASSUME TypeOK, Ownership, NEW w \in Worker, Signal(w)
    PROVE  Ownership'
<1> DEFINE s == entry[w].sentry
           j == entry[w].task
<1>1. /\ pc[w] = "signal" /\ entry[w] \in Entry /\ s \in Sentry /\ j \in Job
      /\ handle[j] = s /\ ~isDone[s] /\ exceptionPtr[s] = NoJob
      /\ status[j] \in Ended
  BY DEF Signal, TypeOK, WorkerTypeOK, Ownership, WorkersOwned, Fresh
<1>2. /\ exceptionPtr' = IF status[j] = "threw"
                           THEN [exceptionPtr EXCEPT ![s] = j] ELSE exceptionPtr
      /\ isDone' = [isDone EXCEPT ![s] = TRUE]
      /\ inProgress' = [inProgress EXCEPT ![s] = FALSE]
      /\ pc' = [pc EXCEPT ![w] = "report"]
      /\ UNCHANGED <<jobs, sentryPool, entry, handle, call, caught, status>>
  BY DEF Signal, queueVars
<1>3. /\ QueueOwned'
      /\ \A v \in Worker \ {w} : pc[v] \in BeforeSignal =>
           /\ Fresh(entry[v])'
           /\ entry[v].task # entry[w].task
           /\ inProgress'[entry[v].sentry] = inProgress[entry[v].sentry]
           /\ status'[entry[v].task] = status[entry[v].task]
  BY <1>1, <1>2, OthersUndisturbed DEF TypeOK, SentryTypeOK, ClientTypeOK
<1>4. WorkersOwned'
  <2>1. \A v \in Worker : pc'[v] \in BeforeSignal
                            => v # w /\ pc'[v] = pc[v] /\ pc[v] \in BeforeSignal
    BY <1>2 DEF TypeOK, WorkerTypeOK
  <2>2. jobs' = jobs /\ entry' = entry
    BY <1>2
  <2> QED  BY <1>3, <2>1, <2>2 DEF Ownership, WorkersOwned
<1>5. \A i \in Job : handle[i] = s => i = j
  BY <1>1 DEF Ownership, HandlesOwned
\* The one caller that can wait on this sentry is the one that is notified.
<1>6. waiters' = waiters \ {j}
  <2>1. \A i \in waiters : i \in Job
    BY DEF TypeOK, ClientTypeOK
  <2>3. (\A i \in waiters : handle[i] # s) => waiters' = waiters
    BY DEF Signal, NotifyOne
  <2>4. (\E i \in waiters : handle[i] = s) => waiters' = waiters \ {j}
    BY <1>5, <2>1 DEF Signal, NotifyOne
  <2> QED  BY <1>1, <2>3, <2>4
<1>7. exceptionPtr'[s] = IF status[j] = "threw" THEN j ELSE NoJob
  BY <1>1, <1>2 DEF TypeOK, SentryTypeOK
<1>8. DoneMeansEnded'
  <2>1. ASSUME NEW i \in Job, handle[i] # NoSentry, isDone'[handle[i]]
        PROVE  /\ status[i] \in Ended
               /\ exceptionPtr'[handle[i]] = IF status[i] = "threw" THEN i ELSE NoJob
    <3>1. CASE handle[i] = s
      BY <1>1, <1>5, <1>7, <3>1
    <3>2. CASE handle[i] # s
      BY <1>2, <2>1, <3>2
         DEF Ownership, DoneMeansEnded, TypeOK, ClientTypeOK, SentryTypeOK
    <3> QED  BY <3>1, <3>2
  <2>2. ASSUME NEW i \in Job, call[i] \in Ended
        PROVE  isDone'[handle[i]]
    BY <1>1, <1>2, <2>2 DEF Ownership, DoneMeansEnded, TypeOK, SentryTypeOK
  <2>3. ASSUME NEW i \in waiters'
        PROVE  call[i] = "waiting" /\ ~isDone'[handle[i]]
    <3>1. i \in Job /\ handle[i] # s /\ call[i] = "waiting" /\ ~isDone[handle[i]]
      BY <1>5, <1>6, <2>3 DEF Ownership, DoneMeansEnded, TypeOK, ClientTypeOK
    <3>2. handle[i] \in Sentry
      BY <3>1 DEF TypeOK, ClientTypeOK
    <3> QED  BY <1>2, <3>1, <3>2 DEF TypeOK, SentryTypeOK
  <2> QED  BY <1>2, <2>1, <2>2, <2>3 DEF Ownership, DoneMeansEnded
<1>9. HandlesOwned' /\ NoJobSkipped'
  BY <1>2 DEF Ownership, HandlesOwned, NoJobSkipped
<1> QED  BY <1>3, <1>4, <1>8, <1>9 DEF Ownership

LEMMA ReportOwnership ==
    ASSUME TypeOK, Ownership, NEW w \in Worker, ReportJobDone(w)
    PROVE  Ownership'
<1>1. /\ UNCHANGED <<jobs, sentryPool, isDone, inProgress, exceptionPtr,
                     handle, call, caught, waiters, status>>
      /\ pc' = [pc EXCEPT ![w] = "check"]
      /\ \A v \in Worker \ {w} : entry'[v] = entry[v]
  BY DEF ReportJobDone, sentryVars, clientVars, TypeOK, WorkerTypeOK
<1>2. \A v \in Worker : pc'[v] \in BeforeSignal
        => v # w /\ pc'[v] = pc[v] /\ entry'[v] = entry[v]
  BY <1>1 DEF TypeOK, WorkerTypeOK
<1> QED
  BY <1>1, <1>2 DEF Ownership, HandlesOwned, QueueOwned, WorkersOwned,
     DoneMeansEnded, NoJobSkipped, Fresh

LEMMA StepOwnership ==
    ASSUME TypeOK, Ownership, [Next]_vars, ~MayDiscard
    PROVE  Ownership'
<1>1. ASSUME NEW j \in Job, AddJob(j) PROVE Ownership'
  BY <1>1, EnqueueOwnership DEF AddJob
<1>2. ASSUME NEW w \in Worker, NEW j \in Job, AddNested(w, j) PROVE Ownership'
  BY <1>2, EnqueueOwnership DEF AddNested
<1>3. ASSUME NEW j \in Job, Wait(j) PROVE Ownership'
  <2>1. j \notin waiters
    BY <1>3 DEF Wait, Ownership, DoneMeansEnded
  <2> QED  BY <1>3, <2>1, WaitOwnership DEF Wait
<1>4. ASSUME NEW j \in Job, Wake(j) PROVE Ownership'
  <2>1. handle[j] # NoSentry
    BY <1>4 DEF Wake, TypeOK, ClientTypeOK
  <2> QED  BY <1>4, <2>1, WaitOwnership DEF Wake
<1>5. ASSUME NEW j \in Job, DestroyHandle(j) PROVE Ownership'
  BY <1>5, DestroyOwnership
<1>6. ASSUME NEW w \in Worker, RequestJob(w) PROVE Ownership'
  <2>1. CASE TakeJob(w)
    BY <1>6, <2>1, TakeOwnership
  <2>2. CASE WaitForJobs(w) \/ LeaveQueue(w)
    BY <1>6, <2>2, FrameOwnership
       DEF RequestJob, WaitForJobs, LeaveQueue, sentryVars, clientVars, TypeOK,
           WorkerTypeOK
  <2> QED  BY <1>6, <2>1, <2>2 DEF RequestJob
<1>7. ASSUME NEW w \in Worker, Claim(w) PROVE Ownership'
  BY <1>7, ClaimOwnership
<1>8. ASSUME NEW w \in Worker, NEW outcome \in Ended, TaskEnds(w, outcome)
      PROVE Ownership'
  BY <1>8, TaskEndsOwnership
<1>9. ASSUME NEW w \in Worker, Signal(w) PROVE Ownership'
  BY <1>9, SignalOwnership
<1>10. ASSUME NEW w \in Worker, ReportJobDone(w) PROVE Ownership'
  BY <1>10, ReportOwnership
<1>11. ASSUME NEW w \in Worker, CheckRunning(w) \/ QueryPool(w) \/ QueryReturns(w)
       PROVE Ownership'
  BY <1>11, FrameOwnership
     DEF CheckRunning, QueryPool, QueryReturns, queueVars, sentryVars, clientVars,
         TypeOK, WorkerTypeOK
<1>12. ASSUME \/ \E request \in LoadRequests : SetLoadFactor(request)
              \/ DestroyPool \/ StopQueue \/ ResizeThreads \/ StartQueue
       PROVE Ownership'
  BY <1>12, FrameOwnership
     DEF SetLoadFactor, DestroyPool, StopQueue, ResizeThreads, StartQueue,
         queueVars, sentryVars, clientVars, workerVars
<1>13. ASSUME JoinThread \/ SpawnThread PROVE Ownership'
  BY <1>13, FrameOwnership
     DEF JoinThread, SpawnThread, queueVars, sentryVars, clientVars, TypeOK,
         WorkerTypeOK
<1>14. CASE UNCHANGED vars
  BY <1>14, FrameOwnership
     DEF vars, queueVars, sentryVars, clientVars, workerVars
<1> QED
  BY <1>1, <1>2, <1>3, <1>4, <1>5, <1>6, <1>7, <1>8, <1>9, <1>10, <1>11, <1>12,
     <1>13, <1>14
     DEF Next, WorkerStep, TaskStep, HandleStep, PoolStep

\* For callers that never let go of a handle before Wait is over, the ownership
\* of the sentries is an invariant.
THEOREM OwnershipInvariant ==
    ASSUME ~MayDiscard
    PROVE  Spec => []Ownership
<1>1. Init => Ownership
  BY InitOwnership
<1>2. TypeOK /\ Ownership /\ [Next]_vars => Ownership'
  BY StepOwnership
<1> QED  BY <1>1, <1>2, TypeCorrect, PTL DEF Spec

\* A caller is told the outcome of its own task, after that task ended.
THEOREM WaitCorrect ==
    ASSUME ~MayDiscard
    PROVE  Spec => []WaitTellsOwnOutcome
<1>1. Ownership => WaitTellsOwnOutcome
  BY DEF Ownership, DoneMeansEnded, WaitTellsOwnOutcome
<1> QED  BY <1>1, OwnershipInvariant, PTL

\* Every job that a worker takes is run by it.
THEOREM NoneSkipped ==
    ASSUME ~MayDiscard
    PROVE  Spec => []NoJobSkipped
<1>1. Ownership => NoJobSkipped
  BY DEF Ownership
<1> QED  BY <1>1, OwnershipInvariant, PTL

\* Nobody sleeps in Wait on a job that has been signalled, although Signal
\* notifies one waiter only.
THEOREM SignalsArrive ==
    ASSUME ~MayDiscard
    PROVE  Spec => []NoLostSignal
<1>1. Ownership => NoLostSignal
  BY DEF Ownership, DoneMeansEnded, NoLostSignal
<1> QED  BY <1>1, OwnershipInvariant, PTL

\* No Sentry_ stands for two things at a time.
THEOREM SentriesSafe ==
    ASSUME ~MayDiscard
    PROVE  Spec => []SentriesNotShared
<1>1. Ownership => SentriesNotShared
  BY DEF Ownership, QueueOwned, WorkersOwned, SentriesNotShared, Unfinished,
         ToSet, Fresh
<1> QED  BY <1>1, OwnershipInvariant, PTL

-----------------------------------------------------------------------------
(* The sentries: pool and handles, whatever the callers do *)

Held == {j \in Job : handle[j] # NoSentry}

\* At least as many as the Queue allocates, and as there are jobs.
Limit ==
    IF SentriesPerThread * HardwareConcurrency > Cardinality(Job)
      THEN SentriesPerThread * HardwareConcurrency
      ELSE Cardinality(Job)

LEMMA LimitBounds ==
    ASSUME IsFiniteSet(Job)
    PROVE  /\ Limit \in Nat
           /\ Cardinality(Job) \in Nat
           /\ Cardinality(Job) <= Limit
           /\ SentriesPerThread * HardwareConcurrency <= Limit
<1>1. SentriesPerThread * HardwareConcurrency \in Nat
  BY PoolAssumption
<1>2. Cardinality(Job) \in Nat
  BY FS_CardinalityType
<1> QED  BY <1>1, <1>2 DEF Limit

LEMMA HeldFinite ==
    ASSUME IsFiniteSet(Job)
    PROVE  /\ IsFiniteSet(Held)
           /\ Cardinality(Held) \in 0 .. Cardinality(Job)
<1>1. IsFiniteSet(Held) /\ Cardinality(Held) <= Cardinality(Job)
  BY FS_Subset DEF Held
<1> QED  BY <1>1, FS_CardinalityType

\* A job that gets a handle takes the sentry from the pool, if it has one.
LEMMA EnqueueBounded ==
    ASSUME IsFiniteSet(Job), TypeOK, SentriesBounded,
           NEW j \in Job, NEW s \in Sentry, handle[j] = NoSentry, Enqueue(j, s)
    PROVE  SentriesBounded'
<1>1. Len(sentryPool) \in Nat /\ Len(sentryPool) + Cardinality(Held) <= Limit
  BY SeqDomain DEF SentriesBounded, Held, Limit, TypeOK, QueueTypeOK
<1>2. Held' = Held \cup {j} /\ j \notin Held
  BY DEF Held, Enqueue, TypeOK, ClientTypeOK
<1>3. Cardinality(Held') = Cardinality(Held) + 1 /\ IsFiniteSet(Held')
  BY <1>2, HeldFinite, FS_AddElement
<1>4. Cardinality(Held') <= Limit
  <2>1. Cardinality(Held') <= Cardinality(Job)
    BY <1>3, FS_Subset DEF Held
  <2>2. Cardinality(Held') \in Nat
    BY <1>3, FS_CardinalityType
  <2> QED  BY <2>1, <2>2, LimitBounds
<1>5. Len(sentryPool') = 0 \/ Len(sentryPool') = Len(sentryPool) - 1
  <2>1. CASE sentryPool = <<>>
    BY <2>1 DEF Enqueue, AcquireSentry
  <2>2. CASE sentryPool # <<>>
    BY <2>2, TailOfSeq DEF Enqueue, AcquireSentry, TypeOK, QueueTypeOK
  <2> QED  BY <2>1, <2>2
<1>6. Cardinality(Held) \in Nat
  BY HeldFinite, LimitBounds
<1>7. Len(sentryPool') + Cardinality(Held') <= Limit
  BY <1>1, <1>3, <1>4, <1>5, <1>6, LimitBounds
<1> QED  BY <1>7 DEF SentriesBounded, Held, Limit

\* ~Sentry gives back the one it held.
LEMMA DestroyBounded ==
    ASSUME IsFiniteSet(Job), TypeOK, SentriesBounded, NEW j \in Job,
           DestroyHandle(j)
    PROVE  SentriesBounded'
<1>1. Len(sentryPool) \in Nat /\ Len(sentryPool) + Cardinality(Held) <= Limit
  BY SeqDomain DEF SentriesBounded, Held, Limit, TypeOK, QueueTypeOK
<1>2. Held' = Held \ {j} /\ j \in Held
  BY DEF Held, DestroyHandle, TypeOK, ClientTypeOK
<1>3. Cardinality(Held') = Cardinality(Held) - 1
  BY <1>2, HeldFinite, FS_RemoveElement
<1>4. Len(sentryPool') = Len(sentryPool) + 1
  <2>1. handle[j] \in Sentry
    BY <1>2 DEF Held, TypeOK, ClientTypeOK
  <2> QED  BY <2>1, AppendToSeq DEF DestroyHandle, TypeOK, QueueTypeOK
<1>5. Cardinality(Held) \in Nat
  BY HeldFinite, LimitBounds
<1>6. Len(sentryPool') + Cardinality(Held') <= Limit
  BY <1>1, <1>3, <1>4, <1>5, LimitBounds
<1> QED  BY <1>6 DEF SentriesBounded, Held, Limit

\* Only AddJob and ~Sentry move sentries.
LEMMA SentriesMove ==
    ASSUME [Next]_vars
    PROVE  \/ \E j \in Job : handle[j] = NoSentry /\ \E s \in Sentry : Enqueue(j, s)
           \/ \E j \in Job : DestroyHandle(j)
           \/ UNCHANGED <<sentryPool, handle>>
<1>1. ASSUME NEW w \in Worker, WorkerStep(w) \/ TaskStep(w)
      PROVE  \/ \E j \in Job : handle[j] = NoSentry /\ \E s \in Sentry : Enqueue(j, s)
             \/ UNCHANGED <<sentryPool, handle>>
  <2>1. CASE WorkerStep(w)
    BY <2>1 DEF WorkerStep, CheckRunning, RequestJob, Claim, Signal, ReportJobDone,
                QueryReturns, queueVars, clientVars
  <2>2. CASE \E outcome \in Ended : TaskEnds(w, outcome)
    BY <2>2 DEF TaskEnds, queueVars, clientVars
  <2>3. CASE QueryPool(w)
    BY <2>3 DEF QueryPool, queueVars, clientVars
  <2>4. CASE \E j \in Job : AddNested(w, j)
    BY <2>4 DEF AddNested
  <2> QED  BY <1>1, <2>1, <2>2, <2>3, <2>4 DEF TaskStep
<1>2. ASSUME NEW j \in Job, AddJob(j)
      PROVE  handle[j] = NoSentry /\ \E s \in Sentry : Enqueue(j, s)
  BY <1>2 DEF AddJob
<1>3. ASSUME NEW j \in Job, Wait(j) \/ Wake(j)
      PROVE  UNCHANGED <<sentryPool, handle>>
  BY <1>3 DEF Wait, Wake, queueVars
<1>4. CASE PoolStep
  BY <1>4 DEF PoolStep, StopQueue, JoinThread, ResizeThreads, StartQueue,
              SpawnThread, queueVars, clientVars
<1>5. CASE DestroyPool \/ \E request \in LoadRequests : SetLoadFactor(request)
  BY <1>5 DEF DestroyPool, SetLoadFactor, queueVars, clientVars
<1>6. CASE UNCHANGED vars
  BY <1>6 DEF vars, queueVars, clientVars
<1> QED  BY <1>1, <1>2, <1>3, <1>4, <1>5, <1>6 DEF Next, HandleStep

\* The pool and the handles together never outgrow what the Queue allocated and
\* what was ever asked for at once, also when handles are dropped early.
THEOREM SentriesNeverMore ==
    ASSUME IsFiniteSet(Job)
    PROVE  Spec => []SentriesBounded
<1>1. Init => SentriesBounded
  <2> SUFFICES ASSUME Init PROVE SentriesBounded
    OBVIOUS
  <2>1. SentriesPerThread * HardwareConcurrency \in Nat
    BY PoolAssumption
  <2>2. Len(sentryPool) = SentriesPerThread * HardwareConcurrency
    <3> DEFINE n == SentriesPerThread * HardwareConcurrency
    <3>1. sentryPool \in [1 .. n -> Sentry]
      BY DEF Init
    <3> HIDE DEF n
    <3>2. Len(sentryPool) = n
      BY <2>1, <3>1 DEF n
    <3> QED  BY <3>2 DEF n
  <2>3. Held = {}
    BY DEF Init, Held
  <2>4. Len(sentryPool) + Cardinality(Held) <= Limit
    BY <2>1, <2>2, <2>3, LimitBounds, FS_EmptySet
  <2> QED  BY <2>4 DEF SentriesBounded, Held, Limit
<1>2. TypeOK /\ SentriesBounded /\ [Next]_vars => SentriesBounded'
  <2> SUFFICES ASSUME TypeOK, SentriesBounded, [Next]_vars PROVE SentriesBounded'
    OBVIOUS
  <2>1. CASE UNCHANGED <<sentryPool, handle>>
    BY <2>1 DEF SentriesBounded
  <2> QED  BY <2>1, SentriesMove, EnqueueBounded, DestroyBounded
<1> QED  BY <1>1, <1>2, TypeCorrect, PTL DEF Spec

\* No two callers hold the same Sentry_, and none holds one that is in the pool,
\* also when handles are dropped early.
THEOREM HandlesDistinct == Spec => []HandlesOwned
<1>1. Init => HandlesOwned
  BY InitOwnership DEF Ownership
<1>2. TypeOK /\ HandlesOwned /\ [Next]_vars => HandlesOwned'
  <2> SUFFICES ASSUME TypeOK, HandlesOwned, [Next]_vars PROVE HandlesOwned'
    OBVIOUS
  <2>1. ASSUME NEW j \in Job, NEW s \in Sentry, handle[j] = NoSentry, Enqueue(j, s)
        PROVE  HandlesOwned'
    <3>1. /\ \A i \in Job : handle[i] # s
          /\ IsInjective(sentryPool')
          /\ ToSet(sentryPool') \subseteq ToSet(sentryPool)
          /\ s \notin ToSet(sentryPool')
      BY <2>1, AcquiredIsUnused DEF Enqueue
    <3> QED  BY <2>1, <3>1 DEF Enqueue, HandlesOwned, TypeOK, ClientTypeOK
  <2>2. ASSUME NEW j \in Job, DestroyHandle(j)
        PROVE  HandlesOwned'
    <3> DEFINE s == handle[j]
    <3>1. /\ sentryPool \in Seq(Sentry) /\ s \in Sentry
          /\ s \notin ToSet(sentryPool)
          /\ sentryPool' = Append(sentryPool, s)
          /\ handle' = [handle EXCEPT ![j] = NoSentry]
      BY <2>2 DEF DestroyHandle, HandlesOwned, TypeOK, QueueTypeOK, ClientTypeOK
    <3>2. ToSet(sentryPool') = ToSet(sentryPool) \cup {s} /\ IsInjective(sentryPool')
      BY <3>1, AppendNewElement DEF HandlesOwned
    <3>3. NoSentry \notin ToSet(sentryPool')
      <4>1. \A x \in ToSet(sentryPool) : x \in Sentry
        BY <3>1, SeqDomain DEF ToSet
      <4> QED  BY <3>1, <3>2, <4>1
    <3>4. \A i \in Job \ {j} : handle'[i] = handle[i] /\ handle[i] # s
      BY <3>1 DEF HandlesOwned, TypeOK, ClientTypeOK
    <3>5. handle'[j] = NoSentry
      BY <3>1 DEF TypeOK, ClientTypeOK
    <3> QED  BY <3>2, <3>3, <3>4, <3>5 DEF HandlesOwned
  <2>3. CASE UNCHANGED <<sentryPool, handle>>
    BY <2>3 DEF HandlesOwned
  <2> QED  BY <2>1, <2>2, <2>3, SentriesMove
<1> QED  BY <1>1, <1>2, TypeCorrect, PTL DEF Spec

-----------------------------------------------------------------------------
(* The JobService that the pool is *)

\* A job without a handle may be submitted anew: nothing is left of it.
Forgotten == \A j \in Job : handle[j] = NoSentry => status[j] = "none"

\* The variables of JobService.
Pending == [i \in DOMAIN jobs |-> jobs[i].task]

Active ==
    {entry[w].task : w \in {v \in Worker : pc[v] \in BeforeSignal \ {"signal"}}}

Result == [j \in Job |-> IF status[j] \in Ended THEN status[j] ELSE "none"]

Told ==
    [j \in Job |-> IF call[j] \notin Ended THEN "none"
                   ELSE IF caught[j] \notin {j, NoJob} THEN "foreign"
                   ELSE call[j]]

\* Its actions in terms of them.
LEMMA ServiceActions ==
    /\ Pending = <<>> /\ Active = {} /\ Result = [j \in Job |-> "none"]
         /\ Told = [j \in Job |-> "none"]
       => Service!Init
    /\ \A j \in Job :
         /\ j \notin ToSet(Pending) \cup Active /\ Result[j] = "none"
         /\ Pending' = Append(Pending, j)
         /\ Active' = Active /\ Result' = Result /\ Told' = Told
         => Service!Next
    /\ /\ Pending # <<>> /\ Pending' = Tail(Pending)
       /\ Active' = Active \cup {Head(Pending)}
       /\ Result' = Result /\ Told' = Told
       => Service!Next
    /\ \A j \in Job, outcome \in Ended :
         /\ j \in Active /\ Active' = Active \ {j}
         /\ Result' = [Result EXCEPT ![j] = outcome]
         /\ Pending' = Pending /\ Told' = Told
         => Service!Next
    /\ \A j \in Job :
         /\ Result[j] # "none" /\ Told' = [Told EXCEPT ![j] = Result[j]]
         /\ Pending' = Pending /\ Active' = Active /\ Result' = Result
         => Service!Next
    /\ \A j \in Job :
         /\ Told[j] # "none"
         /\ Result' = [Result EXCEPT ![j] = "none"]
         /\ Told' = [Told EXCEPT ![j] = "none"]
         /\ Pending' = Pending /\ Active' = Active
         => Service!Next
    /\ /\ Pending' = Pending /\ Active' = Active
       /\ Result' = Result /\ Told' = Told
       => UNCHANGED Service!vars
<1> USE DEF Pending, Active, Result, Told
<1>1. Pending = <<>> /\ Active = {} /\ Result = [j \in Job |-> "none"]
        /\ Told = [j \in Job |-> "none"] => Service!Init
  BY DEF Service!Init
<1>2. ASSUME NEW j \in Job, j \notin ToSet(Pending) \cup Active,
             Result[j] = "none", Pending' = Append(Pending, j),
             Active' = Active, Result' = Result, Told' = Told
      PROVE  Service!Next
  <2>1. Service!Submit(j)
    BY <1>2 DEF Service!Submit, Service!ToSet, ToSet
  <2> QED  BY <2>1 DEF Service!Next
<1>3. ASSUME Pending # <<>>, Pending' = Tail(Pending),
             Active' = Active \cup {Head(Pending)},
             Result' = Result, Told' = Told
      PROVE  Service!Next
  <2>1. Service!Take
    BY <1>3 DEF Service!Take
  <2> QED  BY <2>1 DEF Service!Next
<1>4. ASSUME NEW j \in Job, NEW outcome \in Ended, j \in Active,
             Active' = Active \ {j}, Result' = [Result EXCEPT ![j] = outcome],
             Pending' = Pending, Told' = Told
      PROVE  Service!Next
  <2>1. Service!Complete(j, outcome)
    BY <1>4 DEF Service!Complete
  <2> QED  BY <2>1 DEF Service!Next
<1>5. ASSUME NEW j \in Job, Result[j] # "none",
             Told' = [Told EXCEPT ![j] = Result[j]],
             Pending' = Pending, Active' = Active, Result' = Result
      PROVE  Service!Next
  <2>1. Service!Tell(j)
    BY <1>5 DEF Service!Tell
  <2> QED  BY <2>1 DEF Service!Next
<1>6. ASSUME NEW j \in Job, Told[j] # "none",
             Result' = [Result EXCEPT ![j] = "none"],
             Told' = [Told EXCEPT ![j] = "none"],
             Pending' = Pending, Active' = Active
      PROVE  Service!Next
  <2>1. Service!Forget(j)
    BY <1>6 DEF Service!Forget
  <2> QED  BY <2>1 DEF Service!Next
<1>7. Pending' = Pending /\ Active' = Active /\ Result' = Result /\ Told' = Told
        => UNCHANGED Service!vars
  BY DEF Service!vars
<1> HIDE DEF Pending, Active, Result, Told
<1> QED  BY <1>1, <1>2, <1>3, <1>4, <1>5, <1>6, <1>7

\* The tasks of a queue that grew by one, or lost its oldest.
LEMMA TasksOfQueue ==
    ASSUME NEW q \in Seq(Entry)
    PROVE  LET tasks == [i \in DOMAIN q |-> q[i].task]
           IN  /\ tasks \in Seq(Job) /\ Len(tasks) = Len(q)
               /\ DOMAIN tasks = DOMAIN q
               /\ \A i \in DOMAIN q : tasks[i] = q[i].task
<1> DEFINE tasks == [i \in DOMAIN q |-> q[i].task]
<1>1. /\ DOMAIN q = 1 .. Len(q)
      /\ Len(q) \in Nat
      /\ \A i \in DOMAIN q : q[i] \in Entry
  BY SeqDomain
<1>2. tasks \in [1 .. Len(q) -> Job]
  BY <1>1
<1>3. tasks \in Seq(Job) /\ Len(tasks) = Len(q)
  BY <1>1, <1>2
<1> QED  BY <1>1, <1>3

LEMMA TasksAppended ==
    ASSUME jobs \in Seq(Entry), NEW e \in Entry, jobs' = Append(jobs, e)
    PROVE  Pending' = Append(Pending, e.task)
<1> DEFINE new == Append(Pending, e.task)
<1>1. /\ Pending \in Seq(Job) /\ Len(Pending) = Len(jobs)
      /\ \A i \in DOMAIN jobs : Pending[i] = jobs[i].task
  BY TasksOfQueue DEF Pending
<1>2. /\ jobs' \in Seq(Entry) /\ Len(jobs') = Len(jobs) + 1
      /\ \A i \in 1 .. Len(jobs) : jobs'[i] = jobs[i]
      /\ jobs'[Len(jobs) + 1] = e
  BY AppendToSeq
<1>3. /\ Pending' \in Seq(Job) /\ Len(Pending') = Len(jobs')
      /\ DOMAIN Pending' = DOMAIN jobs'
      /\ \A i \in DOMAIN jobs' : Pending'[i] = jobs'[i].task
  BY <1>2, TasksOfQueue DEF Pending
<1>4. /\ new \in Seq(Job) /\ Len(new) = Len(jobs) + 1
      /\ \A i \in 1 .. Len(jobs) : new[i] = Pending[i]
      /\ new[Len(jobs) + 1] = e.task
  BY <1>1, AppendToSeq
<1>5. DOMAIN jobs = 1 .. Len(jobs) /\ DOMAIN jobs' = 1 .. Len(jobs')
      /\ DOMAIN new = 1 .. Len(jobs') /\ Len(jobs) \in Nat
  BY <1>2, <1>4, SeqDomain
<1> HIDE DEF new
<1>6. \A i \in 1 .. Len(jobs') : Pending'[i] = new[i]
  BY <1>1, <1>2, <1>3, <1>4, <1>5
<1>7. Pending' = new
  BY <1>2, <1>3, <1>4, <1>5, <1>6
<1> QED  BY <1>7 DEF new

LEMMA TasksTaken ==
    ASSUME jobs \in Seq(Entry), jobs # <<>>, jobs' = Tail(jobs)
    PROVE  /\ Pending # <<>> /\ Pending' = Tail(Pending)
           /\ Head(Pending) = Head(jobs).task
<1> DEFINE rest == Tail(Pending)
<1>1. /\ Pending \in Seq(Job) /\ Len(Pending) = Len(jobs)
      /\ \A i \in DOMAIN jobs : Pending[i] = jobs[i].task
  BY TasksOfQueue DEF Pending
<1>2. /\ jobs' \in Seq(Entry) /\ Len(jobs') = Len(jobs) - 1
      /\ \A i \in 1 .. Len(jobs') : jobs'[i] = jobs[i + 1]
      /\ Head(jobs) = jobs[1]
      /\ Len(jobs) \in Nat \ {0}
  BY TailOfSeq
<1>3. Pending # <<>>
  BY <1>1, <1>2
<1>4. /\ Pending' \in Seq(Job) /\ Len(Pending') = Len(jobs')
      /\ \A i \in DOMAIN jobs' : Pending'[i] = jobs'[i].task
  BY <1>2, TasksOfQueue DEF Pending
<1>5. /\ rest \in Seq(Job) /\ Len(rest) = Len(jobs) - 1
      /\ \A i \in 1 .. Len(rest) : rest[i] = Pending[i + 1]
      /\ Head(Pending) = Pending[1]
  BY <1>1, <1>3, TailOfSeq
<1>6. DOMAIN jobs = 1 .. Len(jobs) /\ DOMAIN jobs' = 1 .. Len(jobs')
  BY <1>2, SeqDomain
<1> HIDE DEF rest
<1>7. \A i \in 1 .. Len(jobs') : Pending'[i] = rest[i]
  <2> TAKE i \in 1 .. Len(jobs')
  <2>1. i \in 1 .. Len(rest) /\ i \in DOMAIN jobs' /\ i + 1 \in DOMAIN jobs
    BY <1>2, <1>5, <1>6
  <2>2. Pending'[i] = jobs'[i].task /\ jobs'[i] = jobs[i + 1]
    BY <1>2, <1>4, <2>1
  <2>3. rest[i] = Pending[i + 1] /\ Pending[i + 1] = jobs[i + 1].task
    BY <1>1, <1>5, <2>1
  <2> QED  BY <2>2, <2>3
<1>8. Pending' = rest
  <2>1. /\ Pending' \in Seq(Job) /\ rest \in Seq(Job)
        /\ Len(Pending') = Len(rest) /\ Len(Pending') = Len(jobs')
    BY <1>2, <1>4, <1>5
  <2>2. DOMAIN Pending' = 1 .. Len(jobs') /\ DOMAIN rest = 1 .. Len(jobs')
    BY <2>1, SeqDomain
  <2> QED  BY <1>7, <2>1, <2>2
<1> QED  BY <1>1, <1>2, <1>3, <1>5, <1>6, <1>8 DEF rest

\* A step is one of the JobService, or none.
Served == Forgotten' /\ [Service!Next]_(Service!vars)

Performing == {"claim", "task", "locking"}

\* Which jobs are being performed depends on the workers that perform them only.
LEMMA SameActive ==
    ASSUME \A w \in Worker :
             /\ pc'[w] \in Performing <=> pc[w] \in Performing
             /\ pc[w] \in Performing => entry'[w] = entry[w]
    PROVE  Active' = Active
<1>1. {w \in Worker : pc'[w] \in Performing} = {w \in Worker : pc[w] \in Performing}
  OBVIOUS
<1>2. BeforeSignal \ {"signal"} = Performing
  BY DEF Performing
<1> HIDE DEF BeforeSignal, Performing
<1>3. Active' = {entry'[w].task : w \in {v \in Worker : pc[v] \in Performing}}
  BY <1>1, <1>2 DEF Active
<1> QED  BY <1>2, <1>3 DEF Active

\* Steps that the JobService does not see.
LEMMA Unseen ==
    ASSUME Forgotten, UNCHANGED <<jobs, handle, status, call, caught>>,
           \A w \in Worker :
             /\ pc'[w] \in Performing <=> pc[w] \in Performing
             /\ pc[w] \in Performing => entry'[w] = entry[w]
    PROVE  Served
<1>1. Active' = Active
  BY SameActive
<1>2. Pending' = Pending /\ Result' = Result /\ Told' = Told
  BY DEF Pending, Result, Told
<1>3. Forgotten'
  BY DEF Forgotten
<1> QED  BY <1>1, <1>2, <1>3, ServiceActions DEF Served

\* AddJob submits.
LEMMA EnqueueServes ==
    ASSUME TypeOK, Ownership, Forgotten, NEW j \in Job, NEW s \in Sentry,
           j \notin Outstanding, handle[j] = NoSentry, Enqueue(j, s)
    PROVE  Served
<1>1. /\ jobs \in Seq(Entry)
      /\ jobs' = Append(jobs, [sentry |-> s, task |-> j])
      /\ handle' = [handle EXCEPT ![j] = s]
      /\ call' = [call EXCEPT ![j] = "idle"]
      /\ caught' = [caught EXCEPT ![j] = NoJob]
      /\ status' = [status EXCEPT ![j] = "queued"]
      /\ UNCHANGED <<pc, entry>>
      /\ call[j] = "idle" /\ status[j] = "none"
  BY DEF Enqueue, TypeOK, QueueTypeOK, ClientTypeOK, Forgotten
<1>2. Pending' = Append(Pending, j)
  BY <1>1, TasksAppended
<1>3. Active' = Active
  BY <1>1, SameActive
<1>4. Result' = Result /\ Told' = Told /\ Result[j] = "none"
  BY <1>1 DEF Result, Told, TypeOK, ClientTypeOK
<1>5. j \notin ToSet(Pending)
  BY <1>1, TasksOfQueue DEF Outstanding, Unfinished, ToSet, Pending
<1>6. j \notin Active
  BY DEF Outstanding, Unfinished, Active
<1>7. Forgotten'
  BY <1>1 DEF Forgotten, TypeOK, ClientTypeOK
<1> QED  BY <1>2, <1>3, <1>4, <1>5, <1>6, <1>7, ServiceActions DEF Served

\* Wait, before or after it slept, tells the outcome or nothing.
LEMMA WaitServes ==
    ASSUME TypeOK, Ownership, Forgotten, NEW j \in Job, Wait(j) \/ Wake(j)
    PROVE  Served
<1>1. /\ WaitBlocks(j) \/ WaitEnds(j)
      /\ handle[j] # NoSentry
      /\ UNCHANGED <<jobs, handle, status, pc, entry>>
  BY DEF Wait, Wake, queueVars, workerVars, TypeOK, ClientTypeOK
<1>2. Pending' = Pending /\ Active' = Active /\ Result' = Result
  BY <1>1, SameActive DEF Pending, Result
<1>3. Forgotten'
  BY <1>1 DEF Forgotten
<1>4. CASE WaitBlocks(j)
  <2>1. call[j] \notin Ended
    BY <1>4 DEF WaitBlocks, Ownership, DoneMeansEnded
  <2>2. Told' = Told
    BY <1>4, <2>1 DEF WaitBlocks, Told, TypeOK, ClientTypeOK
  <2> QED  BY <1>2, <1>3, <2>2, ServiceActions DEF Served
<1>5. CASE WaitEnds(j)
  <2>1. /\ status[j] \in Ended
        /\ exceptionPtr[handle[j]] = IF status[j] = "threw" THEN j ELSE NoJob
    BY <1>1, <1>5 DEF WaitEnds, Ownership, DoneMeansEnded
  <2>2. call' = [call EXCEPT ![j] = status[j]]
        /\ caught' = [caught EXCEPT ![j] = exceptionPtr[handle[j]]]
    BY <1>5, <2>1 DEF WaitEnds
  <2>3. Result[j] = status[j] /\ Result[j] # "none"
    BY <2>1 DEF Result
  <2>4. Told' = [Told EXCEPT ![j] = Result[j]]
    BY <2>1, <2>2, <2>3 DEF Told, TypeOK, ClientTypeOK
  <2> QED  BY <1>2, <1>3, <2>3, <2>4, ServiceActions DEF Served
<1> QED  BY <1>1, <1>4, <1>5

\* ~Sentry forgets a job of which its caller was told.
LEMMA DestroyServes ==
    ASSUME TypeOK, Ownership, Forgotten, NEW j \in Job, DestroyHandle(j),
           ~MayDiscard
    PROVE  Served
<1>1. /\ handle[j] # NoSentry /\ call[j] \in Ended
      /\ isDone[handle[j]] /\ status[j] = call[j]
      /\ caught[j] \in {j, NoJob}
      /\ handle' = [handle EXCEPT ![j] = NoSentry]
      /\ call' = [call EXCEPT ![j] = "idle"]
      /\ caught' = [caught EXCEPT ![j] = NoJob]
      /\ UNCHANGED <<jobs, pc, entry>>
  BY DEF DestroyHandle, Ownership, DoneMeansEnded
<1>2. j \notin Outstanding
  <2>1. \A m \in DOMAIN jobs : jobs[m].task # j
    BY <1>1 DEF Ownership, QueueOwned, Fresh
  <2>2. \A w \in Worker : pc[w] \in BeforeSignal => entry[w].task # j
    BY <1>1 DEF Ownership, WorkersOwned, Fresh
  <2> QED  BY <2>1, <2>2 DEF Outstanding, Unfinished, ToSet
<1>3. status' = [status EXCEPT ![j] = "none"]
  BY <1>2 DEF DestroyHandle
<1>4. Pending' = Pending /\ Active' = Active
  BY <1>1, SameActive DEF Pending
<1>5. Told[j] # "none"
  BY <1>1 DEF Told
<1>6. Result' = [Result EXCEPT ![j] = "none"]
  BY <1>3 DEF Result, TypeOK, ClientTypeOK
<1>7. Told' = [Told EXCEPT ![j] = "none"]
  BY <1>1 DEF Told, TypeOK, ClientTypeOK
<1>8. Forgotten'
  BY <1>1, <1>3 DEF Forgotten, TypeOK, ClientTypeOK
<1> QED  BY <1>4, <1>5, <1>6, <1>7, <1>8, ServiceActions DEF Served

\* RequestJob takes the oldest job.
LEMMA TakeServes ==
    ASSUME TypeOK, Forgotten, NEW w \in Worker, RequestJob(w), TakeJob(w)
    PROVE  Served
<1>1. /\ jobs \in Seq(Entry) /\ jobs # <<>>
      /\ entry' = [entry EXCEPT ![w] = Head(jobs)]
      /\ jobs' = Tail(jobs)
      /\ pc' = [pc EXCEPT ![w] = "claim"]
      /\ pc[w] \in {"request", "waiting"}
      /\ UNCHANGED <<handle, call, caught, status>>
  BY DEF RequestJob, TakeJob, TypeOK, QueueTypeOK, clientVars
<1>2. Pending # <<>> /\ Pending' = Tail(Pending) /\ Head(Pending) = Head(jobs).task
  BY <1>1, TasksTaken
<1>3. Active' = Active \cup {Head(Pending)}
  <2>1. \A v \in Worker : v # w => pc'[v] = pc[v] /\ entry'[v] = entry[v]
    BY <1>1 DEF TypeOK, WorkerTypeOK
  <2>2. pc'[w] = "claim" /\ entry'[w] = Head(jobs)
    BY <1>1 DEF TypeOK, WorkerTypeOK
  <2>3. {v \in Worker : pc'[v] \in BeforeSignal \ {"signal"}}
          = {v \in Worker : pc[v] \in BeforeSignal \ {"signal"}} \cup {w}
    BY <1>1, <2>1, <2>2
  <2> DEFINE W == {v \in Worker : pc[v] \in BeforeSignal \ {"signal"}}
  <2>4. w \notin W /\ W \subseteq Worker
    BY <1>1
  <2>5. Active' = {entry'[v].task : v \in W \cup {w}}
    BY <2>3 DEF Active
  <2>6. Active = {entry[v].task : v \in W}
    BY DEF Active
  <2> HIDE DEF W
  <2> QED  BY <1>2, <2>1, <2>2, <2>4, <2>5, <2>6
<1>4. Result' = Result /\ Told' = Told
  BY <1>1 DEF Result, Told
<1>5. Forgotten'
  BY <1>1 DEF Forgotten
<1> QED  BY <1>2, <1>3, <1>4, <1>5, ServiceActions DEF Served

\* Job::Run claims the sentry of its job, which nobody sees.
LEMMA ClaimServes ==
    ASSUME TypeOK, Ownership, Forgotten, NEW w \in Worker, Claim(w)
    PROVE  Served
<1>1. /\ pc[w] = "claim" /\ entry[w] \in Entry
      /\ Fresh(entry[w])
      /\ status[entry[w].task] = "queued"
      /\ handle[entry[w].task] # NoSentry
      /\ ~inProgress[entry[w].sentry] /\ ~isDone[entry[w].sentry]
  BY DEF Claim, TypeOK, WorkerTypeOK, Ownership, WorkersOwned, Fresh
<1>2. /\ pc' = [pc EXCEPT ![w] = "task"]
      /\ status' = [status EXCEPT ![entry[w].task] = "running"]
      /\ UNCHANGED <<jobs, entry, handle, call, caught>>
  BY <1>1 DEF Claim, ClaimSucceeds, ClaimFails, queueVars, clientVars
<1>3. Active' = Active
  <2>1. \A v \in Worker : pc'[v] = IF v = w THEN "task" ELSE pc[v]
    BY <1>2 DEF TypeOK, WorkerTypeOK
  <2> QED  BY <1>1, <1>2, <2>1, SameActive DEF Performing
<1>4. Result' = Result
  BY <1>1, <1>2 DEF Result, TypeOK, ClientTypeOK
<1>5. Pending' = Pending /\ Told' = Told
  BY <1>2 DEF Pending, Told
<1>6. Forgotten'
  BY <1>1, <1>2 DEF Forgotten, TypeOK, ClientTypeOK
<1> QED  BY <1>3, <1>4, <1>5, <1>6, ServiceActions DEF Served

\* The end of a task completes its job.
LEMMA TaskEndsServes ==
    ASSUME TypeOK, Ownership, Forgotten, NEW w \in Worker, NEW outcome \in Ended,
           TaskEnds(w, outcome)
    PROVE  Served
<1> DEFINE j == entry[w].task
           W == {v \in Worker : pc[v] \in BeforeSignal \ {"signal"}}
<1>1. /\ pc[w] = "task" /\ j \in Job /\ handle[j] # NoSentry
      /\ pc' = [pc EXCEPT ![w] = "signal"]
      /\ status' = [status EXCEPT ![j] = outcome]
      /\ UNCHANGED <<jobs, entry, handle, call, caught>>
  BY DEF TaskEnds, TypeOK, WorkerTypeOK, Ownership, WorkersOwned, Fresh,
         queueVars, clientVars
<1>2. \A v \in W : v # w => entry[v].task # j
  BY <1>1 DEF Ownership, WorkersOwned
<1>3. {v \in Worker : pc'[v] \in BeforeSignal \ {"signal"}} = W \ {w}
  BY <1>1 DEF TypeOK, WorkerTypeOK
<1>4. w \in W
  BY <1>1
<1>5. Active = {entry[v].task : v \in W} /\ Active' = {entry[v].task : v \in W \ {w}}
  BY <1>1, <1>3 DEF Active
<1>6. Result' = [Result EXCEPT ![j] = outcome]
  BY <1>1 DEF Result, TypeOK, ClientTypeOK
<1>7. Forgotten'
  BY <1>1 DEF Forgotten, TypeOK, ClientTypeOK
<1>8. Pending' = Pending /\ Told' = Told
  BY <1>1 DEF Pending, Told
<1>9. j \in Job
  BY <1>1
<1> HIDE DEF j, W
<1>10. j \in Active /\ Active' = Active \ {j}
  BY <1>2, <1>4, <1>5 DEF j
<1> QED  BY <1>6, <1>7, <1>8, <1>9, <1>10, ServiceActions DEF Served

\* The other steps of a worker, among them the signal and the report.
LEMMA WorkerServes ==
    ASSUME TypeOK, Forgotten, NEW w \in Worker,
           \/ Signal(w) \/ ReportJobDone(w) \/ CheckRunning(w) \/ QueryPool(w)
           \/ QueryReturns(w)
           \/ RequestJob(w) /\ (WaitForJobs(w) \/ LeaveQueue(w))
    PROVE  Served
<1> USE DEF TypeOK, WorkerTypeOK, Performing, queueVars, clientVars
<1>1. CASE Signal(w)
  BY <1>1, Unseen DEF Signal
<1>2. CASE ReportJobDone(w)
  BY <1>2, Unseen DEF ReportJobDone
<1>3. CASE CheckRunning(w) \/ QueryPool(w) \/ QueryReturns(w)
  BY <1>3, Unseen DEF CheckRunning, QueryPool, QueryReturns
<1>4. CASE RequestJob(w) /\ (WaitForJobs(w) \/ LeaveQueue(w))
  BY <1>4, Unseen DEF RequestJob, WaitForJobs, LeaveQueue
<1> QED  BY <1>1, <1>2, <1>3, <1>4

\* A resize, and the end of the pool, are not seen: no job is lost by them.
LEMMA PoolServes ==
    ASSUME TypeOK, Forgotten,
           \/ \E request \in LoadRequests : SetLoadFactor(request)
           \/ DestroyPool
           \/ PoolStep
    PROVE  Served
<1> USE DEF queueVars, clientVars, workerVars
<1>1. CASE (\E request \in LoadRequests : SetLoadFactor(request))
             \/ DestroyPool \/ StopQueue \/ ResizeThreads \/ StartQueue
  BY <1>1, Unseen
     DEF SetLoadFactor, DestroyPool, StopQueue, ResizeThreads, StartQueue
<1>2. CASE JoinThread \/ SpawnThread
  BY <1>2, Unseen DEF JoinThread, SpawnThread, TypeOK, WorkerTypeOK, Performing
<1> QED  BY <1>1, <1>2 DEF PoolStep

LEMMA StepServes ==
    ASSUME TypeOK, Ownership, Forgotten, [Next]_vars, ~MayDiscard
    PROVE  Served
<1>1. ASSUME NEW j \in Job, AddJob(j) PROVE Served
  BY <1>1, EnqueueServes DEF AddJob
<1>2. ASSUME NEW w \in Worker, NEW j \in Job, AddNested(w, j) PROVE Served
  BY <1>2, EnqueueServes DEF AddNested
<1>3. ASSUME NEW j \in Job, Wait(j) \/ Wake(j) PROVE Served
  BY <1>3, WaitServes
<1>4. ASSUME NEW j \in Job, DestroyHandle(j) PROVE Served
  BY <1>4, DestroyServes
<1>5. ASSUME NEW w \in Worker, RequestJob(w) PROVE Served
  BY <1>5, TakeServes, WorkerServes DEF RequestJob
<1>6. ASSUME NEW w \in Worker, Claim(w) PROVE Served
  BY <1>6, ClaimServes
<1>7. ASSUME NEW w \in Worker, NEW outcome \in Ended, TaskEnds(w, outcome)
      PROVE  Served
  BY <1>7, TaskEndsServes
<1>8. ASSUME NEW w \in Worker,
             \/ Signal(w) \/ ReportJobDone(w) \/ CheckRunning(w) \/ QueryPool(w)
             \/ QueryReturns(w)
      PROVE  Served
  BY <1>8, WorkerServes
<1>9. ASSUME \/ \E request \in LoadRequests : SetLoadFactor(request)
             \/ DestroyPool
             \/ PoolStep
      PROVE  Served
  BY <1>9, PoolServes
<1>10. CASE UNCHANGED vars
  BY <1>10, Unseen DEF vars, queueVars, clientVars, workerVars
<1> QED
  BY <1>1, <1>2, <1>3, <1>4, <1>5, <1>6, <1>7, <1>8, <1>9, <1>10
     DEF Next, WorkerStep, TaskStep, HandleStep

LEMMA InitServes == Init => Forgotten /\ Service!Init
<1> SUFFICES ASSUME Init PROVE Forgotten /\ Service!Init
  OBVIOUS
<1>1. Forgotten
  BY DEF Init, Forgotten
<1>2. Pending = <<>>
  BY DEF Init, Pending
<1>3. Active = {}
  BY DEF Init, Active
<1>4. Result = [j \in Job |-> "none"] /\ Told = [j \in Job |-> "none"]
  BY DEF Init, Result, Told
<1> QED  BY <1>1, <1>2, <1>3, <1>4, ServiceActions

\* The pool is a JobService, for callers that never let go of a handle before
\* Wait is over: whatever its size, and however often it is resized or its
\* sentries are recycled, jobs are taken in the order they were added, each is run
\* once and none is lost, and a caller is told what became of its own.
THEOREM PoolServesJobs ==
    ASSUME ~MayDiscard
    PROVE  Spec => ImplementsJobService
<1>1. TypeOK /\ Ownership /\ Forgotten /\ [Next]_vars
        => Forgotten' /\ [Service!Next]_(Service!vars)
  BY StepServes DEF Served
<1> QED
  BY <1>1, InitServes, TypeCorrect, OwnershipInvariant, PTL
     DEF Spec, ImplementsJobService, Service!Spec
=============================================================================
