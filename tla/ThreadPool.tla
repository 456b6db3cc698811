----------------------------- MODULE ThreadPool -----------------------------
(***************************************************************************)
(* jive::ThreadPool (jive/thread_pool.h, jive/thread_pool.cpp).             *)
(*                                                                         *)
(* Worker threads take jobs from a Queue.  AddJob gives its caller a Sentry *)
(* handle, and Sentry::Wait blocks until the job is done and rethrows what  *)
(* its task threw.  The Sentry_ objects behind the handles are recycled     *)
(* through a pool.  SetLoadFactor stops, joins and restarts the workers.    *)
(*                                                                         *)
(* Every critical section of Queue::mutex_ and of Sentry_::mutex_ is one    *)
(* atomic action.  A condition variable is its wait set: notify removes     *)
(* threads from it, and a notified thread evaluates its predicate again.    *)
(***************************************************************************)
EXTENDS Integers, FiniteSets, SequencesExt

CONSTANTS
    HardwareConcurrency,  \* std::thread::hardware_concurrency()
    SentriesPerThread,    \* sentries the Queue allocates per thread: 2
    Sentry,               \* addresses a Sentry_ object may be allocated at
    NoSentry,             \* a null SharedSentry
    Job,                  \* identities of the jobs outstanding at one time
    NoJob,                \* no job, no exception
    LoadRequests,         \* arguments of SetLoadFactor, in LoadScale-ths
    MaxResizes,           \* bound: calls of SetLoadFactor that change the pool
    MaxNested,            \* bound: tasks that hold a handle of their own
    MayDiscard,           \* may a handle be destroyed before Wait returned?
    MayQuery,             \* may a task call GetConcurrency and its like?
    MayDestroy            \* may the pool be destroyed?

LoadScale == 100

Worker == 1 .. HardwareConcurrency

ASSUME ConcurrencyAssumption == HardwareConcurrency \in Nat \ {0}
ASSUME PoolAssumption == SentriesPerThread \in Nat
ASSUME NullAssumption == NoSentry \notin Sentry /\ NoJob \notin Job
ASSUME RequestAssumption == LoadRequests \subseteq Int
ASSUME FlagAssumption == {MayDiscard, MayQuery, MayDestroy} \subseteq BOOLEAN
ASSUME BoundAssumption == MaxResizes \in Nat /\ MaxNested \in Nat

VARIABLES
    isRunning,     \* Queue::isRunning_
    jobs,          \* Queue::jobs_, each entry a Job with its sentry_ and task_
    sentryPool,    \* Queue::sentryPool_
    activeCount,   \* Queue::activeCount_
    idleWorkers,   \* the wait set of Queue::jobsCondition_
    isDone,        \* Sentry_::isDone_
    inProgress,    \* Sentry_::inProgress_
    exceptionPtr,  \* Sentry_::exceptionPtr_: the job whose task threw, or NoJob
    pc,            \* where each Thread is; "off" when it is not joinable
    entry,         \* the local variable job of Thread::Run_
    child,         \* the job a running task added itself and still holds
    handle,        \* the Sentry_ the caller's Sentry of a job refers to
    call,          \* what the holder of that Sentry is doing with it
    caught,        \* the job whose exception Wait rethrew to the holder
    waiters,       \* holders in the wait set of their Sentry_::condition_
    status,        \* what became of each job (history)
    threads,       \* ThreadPool::threads_.size()
    loadFactor,    \* ThreadPool::loadFactor_ * HardwareConcurrency
    pool,          \* the thread inside SetLoadFactor or ~ThreadPool
    resizes        \* calls of SetLoadFactor that paused the pool (bounded)

queueVars  == <<isRunning, jobs, sentryPool, activeCount, idleWorkers>>
sentryVars == <<isDone, inProgress, exceptionPtr>>
workerVars == <<pc, entry, child>>
clientVars == <<handle, call, caught, waiters>>
poolVars   == <<threads, loadFactor, pool, resizes>>

vars == <<queueVars, sentryVars, workerVars, clientVars, poolVars, status>>

NoEntry == [sentry |-> NoSentry, task |-> NoJob]

Ended == {"returned", "threw"}

\* Program points of Thread::Run_ at which a worker holds a job.
BeforeSignal == {"claim", "task", "locking", "signal"}
Busy == BeforeSignal \cup {"report"}

\* Whether the public interface may still be called.
Alive == pool.target # 0

Entry == [sentry : Sentry, task : Job]

QueueTypeOK ==
    /\ isRunning \in BOOLEAN
    /\ jobs \in Seq(Entry)
    /\ sentryPool \in Seq(Sentry)
    /\ activeCount \in Int
    /\ idleWorkers \subseteq Worker

SentryTypeOK ==
    /\ isDone \in [Sentry -> BOOLEAN]
    /\ inProgress \in [Sentry -> BOOLEAN]
    /\ exceptionPtr \in [Sentry -> Job \cup {NoJob}]

WorkerTypeOK ==
    /\ pc \in [Worker -> {"off", "check", "request", "waiting", "exited"}
                         \cup Busy]
    /\ entry \in [Worker -> Entry \cup {NoEntry}]
    /\ \A w \in Worker : pc[w] \in Busy => entry[w] \in Entry
    /\ child \in [Worker -> Job \cup {NoJob}]

ClientTypeOK ==
    /\ handle \in [Job -> Sentry \cup {NoSentry}]
    /\ call \in [Job -> {"idle", "waiting"} \cup Ended]
    /\ caught \in [Job -> Job \cup {NoJob}]
    /\ waiters \subseteq Job
    /\ \A j \in Job : call[j] # "idle" => handle[j] # NoSentry
    /\ status \in [Job -> {"none", "queued", "running", "skipped"} \cup Ended]

PoolTypeOK ==
    /\ threads \in 0 .. HardwareConcurrency
    /\ loadFactor \in 1 .. HardwareConcurrency
    /\ pool \in [pc : {"idle", "stop", "join", "resize", "start", "spawn",
                       "gone"},
                 target : 0 .. HardwareConcurrency,
                 next : 1 .. HardwareConcurrency]
    /\ threads = 0 <=> pool.pc = "gone"
    /\ pool.next <= threads \/ pool.pc = "gone"
    /\ pool.pc \in {"join", "spawn"} \/ pool.next = 1
    /\ pool.pc \in {"start", "spawn"} => Alive
    /\ pool.pc = "gone" => ~Alive
    /\ resizes \in Nat

TypeOK ==
    /\ QueueTypeOK
    /\ SentryTypeOK
    /\ WorkerTypeOK
    /\ ClientTypeOK
    /\ PoolTypeOK

-----------------------------------------------------------------------------
(* Sentry_ and Queue helpers *)

\* The jobs that are queued or that a worker has not signalled yet.
Unfinished ==
    ToSet(jobs) \cup {entry[w] : w \in {v \in Worker : pc[v] \in BeforeSignal}}

Outstanding == {e.task : e \in Unfinished}

\* The objects some SharedSentry still refers to.
Referenced ==
    ToSet(sentryPool)
        \cup {handle[j] : j \in Job}
        \cup {e.sentry : e \in ToSet(jobs)}
        \cup {entry[w].sentry : w \in Worker}

\* ThreadPool::mutex_ is held by SetLoadFactor from end to end; the
\* destructor does not take it.
MutexFree == pool.pc = "idle" \/ ~Alive

\* Mutant of Reset: the exception of the last job stays.
ResetKeepsException(s) ==
    /\ isDone' = [isDone EXCEPT ![s] = FALSE]
    /\ inProgress' = [inProgress EXCEPT ![s] = FALSE]
    /\ UNCHANGED exceptionPtr

\* Mutant of Reset: the object still says that it is done.
ResetKeepsDone(s) ==
    /\ inProgress' = [inProgress EXCEPT ![s] = FALSE]
    /\ exceptionPtr' = [exceptionPtr EXCEPT ![s] = NoJob]
    /\ UNCHANGED isDone

\* Sentry_::Reset, and the constructor: the object starts over.
Reset(s) ==
    /\ isDone' = [isDone EXCEPT ![s] = FALSE]
    /\ inProgress' = [inProgress EXCEPT ![s] = FALSE]
    /\ exceptionPtr' = [exceptionPtr EXCEPT ![s] = NoJob]

\* Mutant of AcquireSentry: the front of the pool is not removed.
AcquireWithoutPop(s) ==
    /\ sentryPool # <<>> => s = Head(sentryPool)
    /\ sentryPool = <<>> => s \notin Referenced
    /\ UNCHANGED sentryPool
    /\ Reset(s)

\* Mutant of AcquireSentry: the pool is never used.
AcquireNew(s) ==
    /\ s \notin Referenced
    /\ UNCHANGED sentryPool
    /\ Reset(s)

\* The first half of Queue::AddJob: the sentry comes from the front of the
\* pool when there is one, else it is a new object.
AcquireSentry(s) ==
    /\ \/ /\ sentryPool # <<>>
          /\ s = Head(sentryPool)
          /\ sentryPool' = Tail(sentryPool)
       \/ /\ sentryPool = <<>>
          /\ s \notin Referenced
          /\ UNCHANGED sentryPool
    /\ Reset(s)

\* Mutant of NotifyWorkers: notify_one.
NotifyOneWorker ==
    \/ idleWorkers = {} /\ UNCHANGED idleWorkers
    \/ \E w \in idleWorkers : idleWorkers' = idleWorkers \ {w}

\* Mutant of NotifyWorkers: no notification.
NotifyNoWorker == UNCHANGED idleWorkers

\* jobsCondition_.notify_all
NotifyWorkers == idleWorkers' = {}

\* Queue::AddJob, and the Sentry handle ThreadPool::AddJob makes of it.
Enqueue(j, s) ==
    /\ AcquireSentry(s)
    /\ jobs' = Append(jobs, [sentry |-> s, task |-> j])
    /\ NotifyWorkers
    /\ handle' = [handle EXCEPT ![j] = s]
    /\ call' = [call EXCEPT ![j] = "idle"]
    /\ caught' = [caught EXCEPT ![j] = NoJob]
    /\ status' = [status EXCEPT ![j] = "queued"]
    /\ UNCHANGED <<isRunning, activeCount, pc, entry, waiters, poolVars>>

-----------------------------------------------------------------------------
(* Callers *)

AddJob(j) ==
    /\ Alive
    /\ handle[j] = NoSentry
    /\ j \notin Outstanding
    /\ \E s \in Sentry : Enqueue(j, s)
    /\ UNCHANGED child

\* A running task adds a job of its own, to wait for it.
AddNested(w, j) ==
    /\ Alive
    /\ pc[w] = "task"
    /\ child[w] = NoJob
    /\ Cardinality({v \in Worker : child[v] # NoJob}) < MaxNested
    /\ handle[j] = NoSentry
    /\ j \notin Outstanding
    /\ \E s \in Sentry : Enqueue(j, s)
    /\ child' = [child EXCEPT ![w] = j]

\* Sentry_::Wait from its predicate on, with the mutex held.
WaitBlocks(j) ==
    /\ ~isDone[handle[j]]
    /\ call' = [call EXCEPT ![j] = "waiting"]
    /\ waiters' = waiters \cup {j}
    /\ UNCHANGED caught

WaitEnds(j) ==
    LET e == exceptionPtr[handle[j]]
    IN  /\ isDone[handle[j]]
        /\ call' = [call EXCEPT ![j] = IF e = NoJob THEN "returned" ELSE "threw"]
        /\ caught' = [caught EXCEPT ![j] = e]
        /\ UNCHANGED waiters

Wait(j) ==
    /\ handle[j] # NoSentry
    /\ call[j] # "waiting"
    /\ WaitBlocks(j) \/ WaitEnds(j)
    /\ UNCHANGED <<handle, queueVars, sentryVars, workerVars, poolVars, status>>

Wake(j) ==
    /\ call[j] = "waiting"
    /\ j \notin waiters
    /\ WaitBlocks(j) \/ WaitEnds(j)
    /\ UNCHANGED <<handle, queueVars, sentryVars, workerVars, poolVars, status>>

\* Sentry::ReturnSentry_, run by the destructor and by the move assignment.
DestroyHandle(j) ==
    /\ handle[j] # NoSentry
    /\ call[j] \in Ended \/ (MayDiscard /\ call[j] = "idle")
    /\ sentryPool' = Append(sentryPool, handle[j])
    /\ handle' = [handle EXCEPT ![j] = NoSentry]
    /\ call' = [call EXCEPT ![j] = "idle"]
    /\ caught' = [caught EXCEPT ![j] = NoJob]
    /\ status' = [status EXCEPT ![j] = IF j \in Outstanding THEN @ ELSE "none"]
    /\ child' = [w \in Worker |-> IF child[w] = j THEN NoJob ELSE child[w]]
    /\ UNCHANGED <<isRunning, jobs, activeCount, idleWorkers, sentryVars,
                   pc, entry, waiters, poolVars>>

-----------------------------------------------------------------------------
(* Workers: Thread::Run_ *)

\* while (this->queue_->IsRunning())
CheckRunning(w) ==
    /\ pc[w] = "check"
    /\ pc' = [pc EXCEPT ![w] = IF isRunning THEN "request" ELSE "exited"]
    /\ UNCHANGED <<entry, child, queueVars, sentryVars, clientVars, poolVars,
                   status>>

\* Mutant of WaitForJobs: the predicate does not look at isRunning_.
WaitForJobsOnly(w) ==
    /\ jobs = <<>>
    /\ idleWorkers' = idleWorkers \cup {w}
    /\ pc' = [pc EXCEPT ![w] = "waiting"]
    /\ UNCHANGED <<isRunning, jobs, activeCount, entry>>

\* RequestJob, from its predicate on: nothing to do yet.
WaitForJobs(w) ==
    /\ jobs = <<>>
    /\ isRunning
    /\ idleWorkers' = idleWorkers \cup {w}
    /\ pc' = [pc EXCEPT ![w] = "waiting"]
    /\ UNCHANGED <<isRunning, jobs, activeCount, entry>>

\* Mutant of LeaveQueue: counted as active before isRunning_ is looked at.
LeaveQueueCounted(w) ==
    /\ ~isRunning
    /\ activeCount' = activeCount + 1
    /\ pc' = [pc EXCEPT ![w] = "check"]
    /\ UNCHANGED <<isRunning, jobs, idleWorkers, entry>>

\* RequestJob: the queue was stopped, whatever is in it.
LeaveQueue(w) ==
    /\ ~isRunning
    /\ pc' = [pc EXCEPT ![w] = "check"]
    /\ UNCHANGED <<isRunning, jobs, activeCount, idleWorkers, entry>>

\* Mutant of TakeJob: the newest job first.
TakeNewestJob(w) ==
    /\ jobs # <<>>
    /\ isRunning
    /\ entry' = [entry EXCEPT ![w] = Last(jobs)]
    /\ jobs' = Front(jobs)
    /\ activeCount' = activeCount + 1
    /\ pc' = [pc EXCEPT ![w] = "claim"]
    /\ UNCHANGED <<isRunning, idleWorkers>>

\* RequestJob: take the oldest job.
TakeJob(w) ==
    /\ jobs # <<>>
    /\ isRunning
    /\ entry' = [entry EXCEPT ![w] = Head(jobs)]
    /\ jobs' = Tail(jobs)
    /\ activeCount' = activeCount + 1
    /\ pc' = [pc EXCEPT ![w] = "claim"]
    /\ UNCHANGED <<isRunning, idleWorkers>>

RequestJob(w) ==
    /\ pc[w] \in {"request", "waiting"}
    /\ w \notin idleWorkers
    /\ WaitForJobs(w) \/ LeaveQueue(w) \/ TakeJob(w)
    /\ UNCHANGED <<sentryPool, child, sentryVars, clientVars, poolVars, status>>

\* Mutant of ClaimFails: the worker does not report the job it did not run.
ClaimFailsSilently(w) ==
    /\ inProgress[entry[w].sentry] \/ isDone[entry[w].sentry]
    /\ pc' = [pc EXCEPT ![w] = "check"]
    /\ status' = [status EXCEPT ![entry[w].task] = "skipped"]
    /\ UNCHANGED inProgress

\* Job::Run: the sentry looks claimed or done already.
ClaimFails(w) ==
    /\ inProgress[entry[w].sentry] \/ isDone[entry[w].sentry]
    /\ pc' = [pc EXCEPT ![w] = "report"]
    /\ status' = [status EXCEPT ![entry[w].task] = "skipped"]
    /\ UNCHANGED inProgress

ClaimSucceeds(w) ==
    /\ ~inProgress[entry[w].sentry] /\ ~isDone[entry[w].sentry]
    /\ inProgress' = [inProgress EXCEPT ![entry[w].sentry] = TRUE]
    /\ pc' = [pc EXCEPT ![w] = "task"]
    /\ status' = [status EXCEPT ![entry[w].task] = "running"]

\* Job::Run up to the call of the task.
Claim(w) ==
    /\ pc[w] = "claim"
    /\ ClaimSucceeds(w) \/ ClaimFails(w)
    /\ UNCHANGED <<isDone, exceptionPtr, entry, child, queueVars, clientVars,
                   poolVars>>

\* The task returns, or throws into the catch of Job::Run.
TaskEnds(w, outcome) ==
    /\ pc[w] = "task"
    /\ child[w] = NoJob
    /\ pc' = [pc EXCEPT ![w] = "signal"]
    /\ status' = [status EXCEPT ![entry[w].task] = outcome]
    /\ UNCHANGED <<entry, child, queueVars, sentryVars, clientVars, poolVars>>

\* Mutant of NotifyOne: nobody is notified.
NotifyNone(s) == UNCHANGED waiters

\* condition_.notify_one: any one thread waiting on s, if there is one.
NotifyOne(s) ==
    LET blocked == {j \in waiters : handle[j] = s}
    IN  \/ blocked = {} /\ UNCHANGED waiters
        \/ \E j \in blocked : waiters' = waiters \ {j}

Signal(w) ==
    LET s == entry[w].sentry
        j == entry[w].task
    IN  /\ pc[w] = "signal"
        /\ exceptionPtr' = IF status[j] = "threw"
                             THEN [exceptionPtr EXCEPT ![s] = j]
                             ELSE exceptionPtr
        /\ inProgress' = [inProgress EXCEPT ![s] = FALSE]
        /\ isDone' = [isDone EXCEPT ![s] = TRUE]
        /\ NotifyOne(s)
        /\ pc' = [pc EXCEPT ![w] = "report"]
        /\ UNCHANGED <<handle, call, caught, entry, child, queueVars, poolVars,
                       status>>

\* ReportJobDone, and the end of the scope of the local variable job.
ReportJobDone(w) ==
    /\ pc[w] = "report"
    /\ activeCount' = activeCount - 1
    /\ pc' = [pc EXCEPT ![w] = "check"]
    /\ entry' = [entry EXCEPT ![w] = NoEntry]
    /\ UNCHANGED <<isRunning, jobs, sentryPool, idleWorkers, child, sentryVars,
                   clientVars, poolVars, status>>

\* A task calls GetConcurrency, GetLoadFactor or GetPressure, which lock
\* ThreadPool::mutex_ ...
QueryPool(w) ==
    /\ MayQuery
    /\ Alive
    /\ pc[w] = "task"
    /\ child[w] = NoJob
    /\ pc' = [pc EXCEPT ![w] = "locking"]
    /\ UNCHANGED <<entry, child, queueVars, sentryVars, clientVars, poolVars,
                   status>>

\* ... and return when they have had it.
QueryReturns(w) ==
    /\ pc[w] = "locking"
    /\ MutexFree
    /\ pc' = [pc EXCEPT ![w] = "task"]
    /\ UNCHANGED <<entry, child, queueVars, sentryVars, clientVars, poolVars,
                   status>>

-----------------------------------------------------------------------------
(* SetLoadFactor, PauseThreads_, ResumeThreads_ and ~ThreadPool *)

Clamp(x, low, high) == IF x < low THEN low ELSE IF x > high THEN high ELSE x

\* The number of threads for a load factor: clamped to [1/N, 1], times N,
\* rounded half up.
ThreadCount(request) ==
    LET scaled == Clamp(HardwareConcurrency * request,
                        LoadScale, HardwareConcurrency * LoadScale)
    IN  Clamp((2 * scaled + LoadScale) \div (2 * LoadScale),
              1, HardwareConcurrency)

SetLoadFactor(request) ==
    LET count == ThreadCount(request)
    IN  /\ pool.pc = "idle"
        /\ Alive
        /\ \/ /\ count # threads
              /\ resizes < MaxResizes
              /\ resizes' = resizes + 1
              /\ pool' = [pc |-> "stop", target |-> count, next |-> 1]
              /\ UNCHANGED loadFactor
           \/ /\ count = threads
              /\ loadFactor' = count
              /\ UNCHANGED <<resizes, pool>>
        /\ UNCHANGED <<threads, queueVars, sentryVars, workerVars, clientVars,
                       status>>

\* ~ThreadPool: the same pause, after which threads_ is destroyed.  A task may
\* wait for a job of its own.
DestroyPool ==
    /\ MayDestroy
    /\ Alive
    /\ pool.pc = "idle"
    /\ pool' = [pc |-> "stop", target |-> 0, next |-> 1]
    /\ UNCHANGED <<threads, loadFactor, resizes, queueVars, sentryVars,
                   workerVars, clientVars, status>>

\* Mutant of StopQueue: the jobs that nobody took are dropped.
StopQueueClears ==
    /\ pool.pc = "stop"
    /\ isRunning' = FALSE
    /\ jobs' = <<>>
    /\ NotifyWorkers
    /\ pool' = [pool EXCEPT !.pc = "join"]
    /\ UNCHANGED <<sentryPool, activeCount, threads, loadFactor, resizes,
                   sentryVars, workerVars, clientVars, status>>

\* Queue::Stop
StopQueue ==
    /\ pool.pc = "stop"
    /\ isRunning' = FALSE
    /\ NotifyWorkers
    /\ pool' = [pool EXCEPT !.pc = "join"]
    /\ UNCHANGED <<jobs, sentryPool, activeCount, threads, loadFactor, resizes,
                   sentryVars, workerVars, clientVars, status>>

\* Mutant of Advance: the loop goes one past the last thread.
AdvanceFar(after) ==
    IF pool.next <= threads
      THEN [pool EXCEPT !.next = @ + 1]
      ELSE [pool EXCEPT !.next = 1, !.pc = after]

\* Mutant of Advance: the loop leaves out the last thread.
AdvanceShort(after) ==
    IF pool.next < threads - 1
      THEN [pool EXCEPT !.next = @ + 1]
      ELSE [pool EXCEPT !.next = 1, !.pc = after]

\* The loop over threads_ moves on, and to the point after it at the end.
Advance(after) ==
    IF pool.next < threads
      THEN [pool EXCEPT !.next = @ + 1]
      ELSE [pool EXCEPT !.next = 1, !.pc = after]

\* Thread::Stop
JoinThread ==
    /\ pool.pc = "join"
    /\ pc[pool.next] = "exited"
    /\ pc' = [pc EXCEPT ![pool.next] = "off"]
    /\ pool' = Advance("resize")
    /\ UNCHANGED <<entry, child, threads, loadFactor, resizes, queueVars,
                   sentryVars, clientVars, status>>

\* emplace_back, resize, or the destructor of threads_.
ResizeThreads ==
    /\ pool.pc = "resize"
    /\ threads' = pool.target
    /\ pool' = [pool EXCEPT !.pc = IF Alive THEN "start" ELSE "gone"]
    /\ UNCHANGED <<loadFactor, resizes, queueVars, sentryVars, workerVars,
                   clientVars, status>>

\* Queue::Start
StartQueue ==
    /\ pool.pc = "start"
    /\ isRunning' = TRUE
    /\ pool' = [pool EXCEPT !.pc = "spawn"]
    /\ UNCHANGED <<jobs, sentryPool, activeCount, idleWorkers, threads,
                   loadFactor, resizes, sentryVars, workerVars, clientVars,
                   status>>

\* Thread::Start, and after the last of them the end of SetLoadFactor.
SpawnThread ==
    /\ pool.pc = "spawn"
    /\ pc' = [pc EXCEPT ![pool.next] = IF @ = "off" THEN "check" ELSE @]
    /\ pool' = Advance("idle")
    /\ loadFactor' = IF pool.next < threads THEN loadFactor ELSE threads
    /\ UNCHANGED <<entry, child, threads, resizes, queueVars, sentryVars,
                   clientVars, status>>

-----------------------------------------------------------------------------
\* The constructors: a pool of new sentries, and one started thread for each
\* hardware thread.
Init ==
    /\ isRunning = TRUE
    /\ jobs = <<>>
    /\ sentryPool \in [1 .. SentriesPerThread * HardwareConcurrency -> Sentry]
    /\ IsInjective(sentryPool)
    /\ activeCount = 0
    /\ idleWorkers = {}
    /\ isDone = [s \in Sentry |-> FALSE]
    /\ inProgress = [s \in Sentry |-> FALSE]
    /\ exceptionPtr = [s \in Sentry |-> NoJob]
    /\ pc = [w \in Worker |-> "check"]
    /\ entry = [w \in Worker |-> NoEntry]
    /\ child = [w \in Worker |-> NoJob]
    /\ handle = [j \in Job |-> NoSentry]
    /\ call = [j \in Job |-> "idle"]
    /\ caught = [j \in Job |-> NoJob]
    /\ waiters = {}
    /\ status = [j \in Job |-> "none"]
    /\ threads = HardwareConcurrency
    /\ loadFactor = HardwareConcurrency
    /\ pool = [pc |-> "idle", target |-> HardwareConcurrency, next |-> 1]
    /\ resizes = 0

\* The steps a worker takes by itself, without its task's choice.
WorkerStep(w) ==
    \/ CheckRunning(w)
    \/ RequestJob(w)
    \/ Claim(w)
    \/ Signal(w)
    \/ ReportJobDone(w)
    \/ QueryReturns(w)

TaskStep(w) ==
    \/ \E outcome \in Ended : TaskEnds(w, outcome)
    \/ QueryPool(w)
    \/ \E j \in Job : AddNested(w, j)

HandleStep(j) == AddJob(j) \/ Wait(j) \/ Wake(j) \/ DestroyHandle(j)

PoolStep ==
    \/ StopQueue
    \/ JoinThread
    \/ ResizeThreads
    \/ StartQueue
    \/ SpawnThread

Next ==
    \/ \E w \in Worker : WorkerStep(w) \/ TaskStep(w)
    \/ \E j \in Job : HandleStep(j)
    \/ \E request \in LoadRequests : SetLoadFactor(request)
    \/ DestroyPool
    \/ PoolStep

Spec == Init /\ [][Next]_vars

\* The scheduler runs every thread that can run; a task ends after finitely
\* many calls of its own; a task waits for the job it added and then drops its
\* handle.  Nothing obliges other callers to do anything.
Fairness ==
    /\ \A w \in Worker :
         /\ WF_vars(WorkerStep(w))
         /\ SF_vars(\E outcome \in Ended : TaskEnds(w, outcome))
    /\ \A j \in Job :
         /\ WF_vars(Wake(j))
         /\ WF_vars((\E w \in Worker : child[w] = j)
                    /\ (Wait(j) \/ DestroyHandle(j)))
    /\ WF_vars(PoolStep)

FairSpec == Spec /\ Fairness
-----------------------------------------------------------------------------
(* Properties *)

\* A Wait that is over was about a job that is over: it returned only when the
\* task had returned, and rethrew only what that very task had thrown.
WaitTellsOwnOutcome ==
    \A j \in Job : call[j] \in Ended =>
        /\ status[j] = call[j]
        /\ caught[j] = IF call[j] = "threw" THEN j ELSE NoJob

\* Every job that a worker takes is claimed by that worker and run: a recycled
\* Sentry_ never looks claimed or done to the job that it now stands for.
NoJobSkipped == \A j \in Job : status[j] # "skipped"

\* The sentries in the pool are distinct and held by no caller, and no two
\* callers hold the same.
HandlesOwned ==
    /\ IsInjective(sentryPool)
    /\ \A j \in Job : handle[j] \notin ToSet(sentryPool)
    /\ \A i, j \in Job : handle[i] = handle[j] => i = j \/ handle[i] = NoSentry

\* A Sentry_ stands for one thing at a time: besides, the one that a queued or
\* running job will signal is the one its own caller waits on.
SentriesNotShared ==
    /\ HandlesOwned
    /\ \A e \in Unfinished : handle[e.task] = e.sentry

\* The queue allocates a Sentry_ only when all the others are in use, so there
\* are never more than it began with or than jobs were ever held at once.
SentriesBounded ==
    LET held == {j \in Job : handle[j] # NoSentry}
        limit == IF SentriesPerThread * HardwareConcurrency > Cardinality(Job)
                   THEN SentriesPerThread * HardwareConcurrency
                   ELSE Cardinality(Job)
    IN  Len(sentryPool) + Cardinality(held) <= limit

\* activeCount_ is the number of workers between RequestJob and ReportJobDone,
\* whichever way RequestJob and Job::Run were left.
ActiveCountBalanced ==
    activeCount = Cardinality({w \in Worker : pc[w] \in Busy})

\* A worker sleeps in RequestJob only while there is nothing to do and nobody
\* asked it to stop: no wakeup is lost.
NoLostWakeup == idleWorkers # {} => jobs = <<>> /\ isRunning

\* Nobody sleeps in Wait on a job that has been signalled.
NoLostSignal == \A j \in waiters : ~isDone[handle[j]]

\* While threads_ is resized, and once it is destroyed, no thread runs on one of
\* its elements and no job is half done.
QuietWhenResized ==
    pool.pc \in {"resize", "start", "gone"} =>
        /\ \A w \in Worker : pc[w] = "off"
        /\ activeCount = 0

\* Jobs are taken in the order they were added, each is run once, none is lost
\* by a resize, and callers are told what JobService tells them.
Service ==
    INSTANCE JobService WITH
        Outcome <- Ended,
        NoOutcome <- "none",
        pending <- [i \in DOMAIN jobs |-> jobs[i].task],
        active <- {entry[w].task :
                     w \in {v \in Worker : pc[v] \in BeforeSignal \ {"signal"}}},
        result <- [j \in Job |->
                     IF status[j] \in Ended THEN status[j] ELSE "none"],
        told <- [j \in Job |->
                   IF call[j] \notin Ended THEN "none"
                   ELSE IF caught[j] \notin {j, NoJob} THEN "foreign"
                   ELSE call[j]]

ImplementsJobService == Service!Spec

\* Under the fairness of the scheduler the pool also makes JobService's progress.
ImplementsFairJobService == Service!FairSpec

\* What tasks that call the pool can do to it.  A thread that resizes or destroys
\* the pool waits for a worker whose task waits in turn: for the mutex that
\* SetLoadFactor holds, or for a job of its own that the stopped queue gives to
\* nobody.  Or the tasks of all workers wait for jobs of their own.
Stuck ==
    \/ pool.pc = "join" /\ \E w \in Worker : pc[w] = "locking" \/ child[w] # NoJob
    \/ \A w \in 1 .. threads : child[w] # NoJob

\* An added job is run to its end, unless the pool is destroyed or stuck for ever.
EveryJobEnds ==
    \/ <>[]Stuck
    \/ \A j \in Job :
         status[j] = "queued" ~> status[j] \in Ended \/ pool.pc = "gone"

\* A caller that waits is woken and told, unless the pool is destroyed or stuck
\* for ever.
EveryWaitEnds ==
    \/ <>[]Stuck
    \/ \A j \in Job : call[j] = "waiting" ~> call[j] # "waiting" \/ pool.pc = "gone"

\* SetLoadFactor and the destructor come to their end, unless stuck for ever.
EveryResizeEnds ==
    \/ <>[]Stuck
    \/ pool.pc = "stop" ~> pool.pc \in {"idle", "gone"}


-----------------------------------------------------------------------------
(* The inductive strengthening of WaitTellsOwnOutcome and SentriesNotShared,  *)
(* for callers that never destroy a handle before Wait is over.               *)

\* The sentry of an unfinished job is its caller's, and as Reset left it but
\* for inProgress_.
Fresh(e) ==
    /\ handle[e.task] = e.sentry
    /\ ~isDone[e.sentry]
    /\ exceptionPtr[e.sentry] = NoJob

QueueOwned ==
    /\ \A m \in DOMAIN jobs :
         /\ Fresh(jobs[m])
         /\ ~inProgress[jobs[m].sentry]
         /\ status[jobs[m].task] = "queued"
    /\ \A m, n \in DOMAIN jobs : jobs[m].task = jobs[n].task => m = n

WorkersOwned ==
    /\ \A w \in Worker : pc[w] \in BeforeSignal =>
         /\ Fresh(entry[w])
         /\ pc[w] = "claim" => /\ ~inProgress[entry[w].sentry]
                               /\ status[entry[w].task] = "queued"
         /\ pc[w] \in {"task", "locking"} => status[entry[w].task] = "running"
         /\ pc[w] = "signal" => status[entry[w].task] \in Ended
         /\ \A m \in DOMAIN jobs : jobs[m].task # entry[w].task
    /\ \A v, w \in Worker :
         /\ {pc[v], pc[w]} \subseteq BeforeSignal
         /\ entry[v].task = entry[w].task
         => v = w

DoneMeansEnded ==
    /\ \A j \in Job : handle[j] # NoSentry /\ isDone[handle[j]] =>
         /\ status[j] \in Ended
         /\ exceptionPtr[handle[j]] = IF status[j] = "threw" THEN j ELSE NoJob
    /\ \A j \in Job : call[j] \in Ended =>
         /\ isDone[handle[j]]
         /\ status[j] = call[j]
         /\ caught[j] = IF call[j] = "threw" THEN j ELSE NoJob
    /\ \A j \in waiters : call[j] = "waiting" /\ ~isDone[handle[j]]

Ownership ==
    /\ HandlesOwned
    /\ QueueOwned
    /\ WorkersOwned
    /\ DoneMeansEnded
    /\ NoJobSkipped

\* The inductive strengthening of QuietWhenResized: which threads are joined as
\* the loop of PauseThreads_ goes on.
Joined ==
    /\ \A w \in Worker : w > threads => pc[w] = "off"
    /\ pool.pc = "join" => \A w \in Worker : w < pool.next => pc[w] = "off"
    /\ pool.pc \in {"resize", "start", "gone"} => \A w \in Worker : pc[w] = "off"
=============================================================================
