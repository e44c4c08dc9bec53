----------------------------- MODULE ThreadPool -----------------------------
(***************************************************************************)
(* ThreadPool of include/core/thread_pool.h and src/core/thread_pool.cpp:  *)
(* a FIFO queue under queue_mutex_, workers sleeping on condition_, and    *)
(* parallel_for callers that cut a range into chunks, enqueue one task per *)
(* chunk and wait for the futures.                                         *)
(*                                                                         *)
(* A caller is one call of parallel_for.  It is made by a thread outside   *)
(* the pool (Host[c] = NoTask) or from the body of a running task          *)
(* (Host[c] = that task): the second kind occupies a worker while it       *)
(* waits, and is the only kind that may meet a stopped pool, since an      *)
(* object is not destroyed while an outside thread is still using it.      *)
(*                                                                         *)
(* A chunk is named by its caller and its first index, so Task is also the *)
(* set of packaged_tasks.  Every critical section of queue_mutex_ is one   *)
(* step; notify_one and notify_all happen outside it and are steps of      *)
(* their own, and a waiting worker may wake with no notification.          *)
(*                                                                         *)
(* A definition commented "Faulty variant" is not part of the model: it is *)
(* the mistake that one of the properties has to catch when it takes the   *)
(* place of the operation after it.                                        *)
(***************************************************************************)
EXTENDS Integers, Sequences, FiniteSets

CONSTANTS
    Workers,        \* the pool's threads
    Callers,        \* the calls of parallel_for
    Total,          \* Total[c]: end - start of call c
    MinChunk,       \* MinChunk[c]: its min_chunk_size
    Host,           \* Host[c]: the task whose body makes call c, or NoTask
    NoTask

(* The chunk of call c that starts at index lo.                            *)
Task == UNION {{c} \X (0 .. Total[c] - 1) : c \in Callers}

(* The constructor turns 0 threads into at least 2, so there is a worker.  *)
ASSUME WorkersAssumption == IsFiniteSet(Workers) /\ Workers # {}
ASSUME CallersAssumption ==
    /\ IsFiniteSet(Callers)
    /\ Total \in [Callers -> Nat]
    /\ MinChunk \in [Callers -> Nat \ {0}]
ASSUME HostAssumption ==
    /\ NoTask \notin Task
    /\ Host \in [Callers -> Task \cup {NoTask}]

NumThreads == Cardinality(Workers)

ChunkSize(c) ==
    LET share == (Total[c] + NumThreads - 1) \div NumThreads
    IN  IF MinChunk[c] >= share THEN MinChunk[c] ELSE share

ChunkEnd(t) ==
    LET hi == t[2] + ChunkSize(t[1])
    IN  IF hi <= Total[t[1]] THEN hi ELSE Total[t[1]]

VARIABLES
    queue,          \* tasks_
    stop,           \* stop_
    future,         \* future[t]: "none" until enqueued, "pending", then "value"
                    \* or "exception"; "broken" if destroyed without a run
    wpc,            \* wpc[w]: "check" (about to lock and test the predicate),
                    \* "wait" (in condition_.wait), "run" (in task()), "exited"
    wtask,          \* wtask[w]: the task w runs, or NoTask
    cpc,            \* cpc[c]: "idle", "loop", "notify", "wait", "returned", "threw"
    pos,            \* pos[c]: the loop variable i
    owner           \* the destructor: "alive", "notify", "join", "gone"

poolVars   == <<queue, stop, future>>
workerVars == <<wpc, wtask>>
callerVars == <<cpc, pos>>
vars == <<poolVars, workerVars, callerVars, owner>>

Waiting    == {w \in Workers : wpc[w] = "wait"}
Checking   == {w \in Workers : wpc[w] = "check"}
Notifying  == {c \in Callers : cpc[c] = "notify"}
Running(t) == \E w \in Workers : wpc[w] = "run" /\ wtask[w] = t
Queued(t)  == \E k \in 1 .. Len(queue) : queue[k] = t
Chunks(c)  == {t \in Task : t[1] = c /\ future[t] # "none"}
Ended(c)   == cpc[c] \in {"returned", "threw"}
Outside(c) == Host[c] = NoTask

TypeOK ==
    /\ queue \in Seq(Task)
    /\ stop \in BOOLEAN
    /\ future \in [Task -> {"none", "pending", "value", "exception", "broken"}]
    /\ wpc \in [Workers -> {"check", "wait", "run", "exited"}]
    /\ wtask \in [Workers -> Task \cup {NoTask}]
    /\ cpc \in [Callers -> {"idle", "loop", "notify", "wait", "returned", "threw"}]
    /\ pos \in [Callers -> Nat]
    /\ owner \in {"alive", "notify", "join", "gone"}

Init ==
    /\ queue = << >>
    /\ stop = FALSE
    /\ future = [t \in Task |-> "none"]
    /\ wpc = [w \in Workers |-> "check"]
    /\ wtask = [w \in Workers |-> NoTask]
    /\ cpc = [c \in Callers |-> "idle"]
    /\ pos = [c \in Callers |-> 0]
    /\ owner = "alive"

-----------------------------------------------------------------------------
(* parallel_for and enqueue.                                               *)

Start(c) ==
    /\ cpc[c] = "idle"
    /\ IF Outside(c) THEN owner = "alive" ELSE Running(Host[c])
    /\ cpc' = [cpc EXCEPT ![c] = IF Total[c] = 0 THEN "returned" ELSE "loop"]
    /\ UNCHANGED <<poolVars, workerVars, pos, owner>>

(* Faulty variant: enqueue notifies only when the queue was empty.         *)
EnqueueNotifiesIfEmpty(c) ==
    /\ cpc[c] = "loop"
    /\ ~stop
    /\ queue' = Append(queue, <<c, pos[c]>>)
    /\ future' = [future EXCEPT ![<<c, pos[c]>>] = "pending"]
    /\ pos' = [pos EXCEPT ![c] = @ + ChunkSize(c)]
    /\ cpc' = [cpc EXCEPT ![c] = IF queue = << >> THEN "notify"
                                 ELSE IF pos'[c] < Total[c] THEN "loop" ELSE "wait"]
    /\ UNCHANGED <<stop, workerVars, owner>>

(* enqueue under the mutex on a running pool.                              *)
Enqueue(c) ==
    /\ cpc[c] = "loop"
    /\ ~stop
    /\ LET t == <<c, pos[c]>>
       IN  /\ queue' = Append(queue, t)
           /\ future' = [future EXCEPT ![t] = "pending"]
    /\ pos' = [pos EXCEPT ![c] = @ + ChunkSize(c)]
    /\ cpc' = [cpc EXCEPT ![c] = "notify"]
    /\ UNCHANGED <<stop, workerVars, owner>>

(* enqueue on a stopped pool throws, and the exception leaves parallel_for *)
(* without a wait for the chunks already enqueued.                         *)
EnqueueThrows(c) ==
    /\ cpc[c] = "loop"
    /\ stop
    /\ cpc' = [cpc EXCEPT ![c] = "threw"]
    /\ UNCHANGED <<poolVars, workerVars, pos, owner>>

NotifyOne(c) ==
    /\ cpc[c] = "notify"
    /\ \/ /\ Waiting = {}
          /\ UNCHANGED wpc
       \/ \E w \in Waiting : wpc' = [wpc EXCEPT ![w] = "check"]
    /\ cpc' = [cpc EXCEPT ![c] = IF pos[c] < Total[c] THEN "loop" ELSE "wait"]
    /\ UNCHANGED <<poolVars, wtask, pos, owner>>

(* Faulty variant: parallel_for returns once one chunk is ready.           *)
ReturnOnFirst(c) ==
    /\ cpc[c] = "wait"
    /\ \E t \in Chunks(c) : future[t] # "pending"
    /\ cpc' = [cpc EXCEPT ![c] = "returned"]
    /\ UNCHANGED <<poolVars, workerVars, pos, owner>>

(* f.wait() on every future: an exception counts as ready.                 *)
Return(c) ==
    /\ cpc[c] = "wait"
    /\ \A t \in Chunks(c) : future[t] # "pending"
    /\ cpc' = [cpc EXCEPT ![c] = "returned"]
    /\ UNCHANGED <<poolVars, workerVars, pos, owner>>

-----------------------------------------------------------------------------
(* The worker loop.                                                        *)

(* Faulty variant: condition_.wait without its predicate.                  *)
WaitBlindly(w) ==
    /\ wpc[w] = "check"
    /\ ~stop
    /\ wpc' = [wpc EXCEPT ![w] = "wait"]
    /\ UNCHANGED <<poolVars, wtask, callerVars, owner>>

Wait(w) ==
    /\ wpc[w] = "check"
    /\ ~stop /\ queue = << >>
    /\ wpc' = [wpc EXCEPT ![w] = "wait"]
    /\ UNCHANGED <<poolVars, wtask, callerVars, owner>>

Wake(w) ==
    /\ wpc[w] = "wait"
    /\ wpc' = [wpc EXCEPT ![w] = "check"]
    /\ UNCHANGED <<poolVars, wtask, callerVars, owner>>

(* Faulty variant: a worker exits on stop_ without draining the queue.     *)
ExitUndrained(w) ==
    /\ wpc[w] = "check"
    /\ stop
    /\ wpc' = [wpc EXCEPT ![w] = "exited"]
    /\ UNCHANGED <<poolVars, wtask, callerVars, owner>>

Exit(w) ==
    /\ wpc[w] = "check"
    /\ stop /\ queue = << >>
    /\ wpc' = [wpc EXCEPT ![w] = "exited"]
    /\ UNCHANGED <<poolVars, wtask, callerVars, owner>>

(* Faulty variant: front without pop.                                      *)
TakeWithoutPop(w) ==
    /\ wpc[w] = "check"
    /\ queue # << >>
    /\ wtask' = [wtask EXCEPT ![w] = Head(queue)]
    /\ wpc' = [wpc EXCEPT ![w] = "run"]
    /\ UNCHANGED <<queue, stop, future, callerVars, owner>>

Take(w) ==
    /\ wpc[w] = "check"
    /\ queue # << >>
    /\ wtask' = [wtask EXCEPT ![w] = Head(queue)]
    /\ queue' = Tail(queue)
    /\ wpc' = [wpc EXCEPT ![w] = "run"]
    /\ UNCHANGED <<stop, future, callerVars, owner>>

(* task() returns: packaged_task stores a value or the exception thrown.   *)
(* A body that makes a nested call gets that far only when the call ended, *)
(* and passes on what the call threw.                                      *)
Finish(w) ==
    /\ wpc[w] = "run"
    /\ LET t == wtask[w]
           nested == {c \in Callers : Host[c] = t}
       IN  /\ \A c \in nested : Ended(c)
           /\ \E r \in {"value", "exception"} :
                 /\ (\E c \in nested : cpc[c] = "threw") => r = "exception"
                 /\ future' = [future EXCEPT ![t] = r]
    /\ wpc' = [wpc EXCEPT ![w] = "check"]
    /\ wtask' = [wtask EXCEPT ![w] = NoTask]
    /\ UNCHANGED <<queue, stop, callerVars, owner>>

-----------------------------------------------------------------------------
(* The destructor.                                                         *)

Stop ==
    /\ owner = "alive"
    /\ \A c \in Callers : Outside(c) => cpc[c] \notin {"loop", "notify"}
    /\ stop' = TRUE
    /\ owner' = "notify"
    /\ UNCHANGED <<queue, future, workerVars, callerVars>>

NotifyAll ==
    /\ owner = "notify"
    /\ wpc' = [w \in Workers |-> IF wpc[w] = "wait" THEN "check" ELSE wpc[w]]
    /\ owner' = "join"
    /\ UNCHANGED <<poolVars, wtask, callerVars>>

(* Every thread joined, then the members are destroyed: a packaged_task    *)
(* that never ran breaks its promise.                                      *)
JoinAll ==
    /\ owner = "join"
    /\ \A w \in Workers : wpc[w] = "exited"
    /\ owner' = "gone"
    /\ queue' = << >>
    /\ future' = [t \in Task |-> IF Queued(t) THEN "broken" ELSE future[t]]
    /\ UNCHANGED <<stop, workerVars, callerVars>>

-----------------------------------------------------------------------------
CallerStep(c) ==
    Start(c) \/ Enqueue(c) \/ EnqueueThrows(c) \/ NotifyOne(c) \/ Return(c)
WorkerStep(w) == Wait(w) \/ Exit(w) \/ Take(w) \/ Finish(w)

Next ==
    \/ \E c \in Callers : CallerStep(c)
    \/ \E w \in Workers : WorkerStep(w) \/ Wake(w)
    \/ Stop \/ NotifyAll \/ JoinAll

SafeSpec == Init /\ [][Next]_vars

(* Every thread that can run is scheduled, and a task body terminates.     *)
(* Nothing obliges a spurious wake-up or the start of the destructor.      *)
Fairness ==
    /\ \A c \in Callers : WF_vars(CallerStep(c))
    /\ \A w \in Workers : WF_vars(WorkerStep(w))
    /\ WF_vars(NotifyAll) /\ WF_vars(JoinAll)

Spec == SafeSpec /\ Fairness

-----------------------------------------------------------------------------
(* No task is lost or duplicated: an unfinished task is in the queue once  *)
(* or in the hands of one worker, never in both, and what the queue and    *)
(* the workers hold is unfinished.                                         *)
TaskConservation ==
    /\ \A t \in Task : future[t] = "pending" <=> Queued(t) \/ Running(t)
    /\ \A t \in Task : ~(Queued(t) /\ Running(t))
    /\ \A j, k \in 1 .. Len(queue) : queue[j] = queue[k] => j = k
    /\ \A v, w \in Workers :
          wpc[v] = "run" /\ wpc[w] = "run" /\ wtask[v] = wtask[w] => v = w

(* No wake-up is lost although notify_one is called after the unlock and   *)
(* may find nobody waiting: while a worker sleeps, every queued task has a *)
(* worker on its way to the queue or a notification still to be delivered, *)
(* and a sleeper in a stopped pool has notify_all still to come.           *)
NoLostWakeup ==
    Waiting # {} =>
        /\ Len(queue) <= Cardinality(Checking) + Cardinality(Notifying)
        /\ stop => owner = "notify"

(* parallel_for returns only when its range has been worked off: every     *)
(* index lies in exactly one chunk, and that chunk was run.                *)
ReturnCoversRange ==
    \A c \in Callers : cpc[c] = "returned" =>
        \A j \in 0 .. Total[c] - 1 :
            \E t \in Chunks(c) :
                /\ t[2] <= j /\ j < ChunkEnd(t)
                /\ future[t] \in {"value", "exception"}
                /\ \A u \in Chunks(c) : u[2] <= j /\ j < ChunkEnd(u) => u = t

(* A call of parallel_for ends.  True only while nested calls leave a      *)
(* worker free: see MCThreadPool.                                          *)
EveryCallEnds == \A c \in Callers : cpc[c] = "loop" ~> Ended(c)

(* The pool as its clients see it.                                         *)
StatusOf(f) ==
    CASE f = "none" -> "none"
      [] f = "pending" -> "accepted"
      [] f \in {"value", "exception"} -> "executed"
      [] f = "broken" -> "lost"

Promise == INSTANCE TaskPool WITH
    status <- [t \in Task |-> StatusOf(future[t])],
    open <- ~stop,
    gone <- owner = "gone"

(* ThreadPool keeps the promise of TaskPool, its liveness included.        *)
KeepsPromise == Promise!Spec
-----------------------------------------------------------------------------
(* What the invariants above rest on; together with TypeOK these are       *)
(* inductive.  A call's loop variable tells which chunks exist.            *)
LoopAt(c) ==
    /\ cpc[c] = "idle" => pos[c] = 0
    /\ cpc[c] = "loop" => pos[c] < Total[c]
    /\ cpc[c] \in {"wait", "returned"} => pos[c] >= Total[c]
LoopInv == \A c \in Callers : LoopAt(c)

(* The chunks of a call follow each other without gap or overlap.          *)
ChunkAt(c) ==
    /\ \A t \in Chunks(c) : t[2] + ChunkSize(c) <= pos[c]
    /\ \A t, u \in Chunks(c) : t[2] < u[2] => t[2] + ChunkSize(c) <= u[2]
    /\ \A j \in 0 .. Total[c] - 1 : j < pos[c] =>
          \E t \in Chunks(c) : t[2] <= j /\ j < t[2] + ChunkSize(c)
ChunkInv == \A c \in Callers : ChunkAt(c)

(* A returned call has no unfinished chunk, and no promise is ever broken: *)
(* a worker exits only when the queue is empty and can grow no more.       *)
ReturnInv ==
    \A c \in Callers : cpc[c] = "returned" =>
        \A t \in Chunks(c) : future[t] # "pending"
WorkerInv == \A w \in Workers : wpc[w] = "run" => wtask[w] # NoTask
ExitInv ==
    /\ \A t \in Task : future[t] # "broken"
    /\ stop <=> owner # "alive"
    /\ \A w \in Workers : wpc[w] = "exited" => stop /\ queue = << >>
    /\ owner = "gone" => \A w \in Workers : wpc[w] = "exited"

IInv ==
    /\ TypeOK /\ LoopInv /\ ChunkInv /\ TaskConservation
    /\ ReturnInv /\ WorkerInv /\ ExitInv /\ NoLostWakeup
=============================================================================
