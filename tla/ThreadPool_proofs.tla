-------------------------- MODULE ThreadPool_proofs --------------------------
(***************************************************************************)
(* Proofs about ThreadPool, for every set of workers and calls.            *)
(***************************************************************************)
EXTENDS ThreadPool, FiniteSetTheorems, SequenceTheorems, TLAPS

-----------------------------------------------------------------------------
(* Lemmas about the constants and about queues.                            *)

(* A task is a call and an index of its range.                             *)
LEMMA TaskFields ==
    /\ \A t \in Task : /\ t[1] \in Callers
                       /\ t[2] \in 0 .. Total[t[1]] - 1
                       /\ t = <<t[1], t[2]>>
    /\ \A c \in Callers : \A i \in 0 .. Total[c] - 1 : <<c, i>> \in Task
BY CallersAssumption DEF Task

(* The divisor of parallel_for's share is a positive number, and a chunk   *)
(* is never empty.                                                         *)
LEMMA NumThreadsPositive == NumThreads \in Nat \ {0}
BY WorkersAssumption, FS_CardinalityType, FS_EmptySet DEF NumThreads

LEMMA ChunkSizePositive == \A c \in Callers : ChunkSize(c) \in Nat \ {0}
<1> SUFFICES ASSUME NEW c \in Callers PROVE ChunkSize(c) \in Nat \ {0}
  OBVIOUS
<1> DEFINE share == (Total[c] + NumThreads - 1) \div NumThreads
<1>1. /\ Total[c] \in Nat
      /\ MinChunk[c] \in Nat \ {0}
  BY CallersAssumption
<1>2. share \in Int
  BY <1>1, NumThreadsPositive
<1>3. ChunkSize(c) = IF MinChunk[c] >= share THEN MinChunk[c] ELSE share
  BY DEF ChunkSize
<1> HIDE DEF share
<1>4. QED
  BY <1>1, <1>2, <1>3

(* What Append and Tail do to the set of queued elements, and to a queue   *)
(* without repetitions.                                                    *)
Holds(q, y) == \E k \in 1 .. Len(q) : q[k] = y
NoRepeat(q) == \A j, k \in 1 .. Len(q) : q[j] = q[k] => j = k

LEMMA AppendQueue ==
    ASSUME NEW S, NEW q \in Seq(S), NEW x \in S
    PROVE  /\ \A y : Holds(Append(q, x), y) <=> y = x \/ Holds(q, y)
           /\ ~Holds(q, x) /\ NoRepeat(q) => NoRepeat(Append(q, x))
<1> DEFINE a == Append(q, x)
<1>1. /\ Len(q) \in Nat
      /\ a \in Seq(S)
      /\ Len(a) = Len(q) + 1
      /\ \A k \in 1 .. Len(q) : a[k] = q[k]
      /\ a[Len(q) + 1] = x
  OBVIOUS
<1> HIDE DEF a
<1>2. ASSUME NEW y
      PROVE  (\E k \in 1 .. Len(a) : a[k] = y)
               <=> y = x \/ \E k \in 1 .. Len(q) : q[k] = y
  BY <1>1
<1>3. ASSUME \A k \in 1 .. Len(q) : q[k] # x,
             \A j, k \in 1 .. Len(q) : q[j] = q[k] => j = k,
             NEW j \in 1 .. Len(a), NEW k \in 1 .. Len(a), a[j] = a[k]
      PROVE  j = k
  BY <1>1, <1>3
<1>4. QED
  BY <1>1, <1>2, <1>3 DEF a, Holds, NoRepeat

LEMMA TailQueue ==
    ASSUME NEW S, NEW q \in Seq(S), q # << >>, NoRepeat(q)
    PROVE  /\ Head(q) \in S
           /\ Holds(q, Head(q))
           /\ \A y : Holds(Tail(q), y) <=> y # Head(q) /\ Holds(q, y)
           /\ NoRepeat(Tail(q))
<1> USE DEF Holds, NoRepeat
<1> DEFINE r == Tail(q)
<1>1. /\ Len(q) \in Nat \ {0}
      /\ Head(q) = q[1]
      /\ q[1] \in S
      /\ r \in Seq(S)
      /\ Len(r) = Len(q) - 1
      /\ \A k \in 1 .. Len(r) : r[k] = q[k + 1]
  BY HeadTailProperties, EmptySeq
<1> HIDE DEF r
<1>2. ASSUME NEW y
      PROVE  (\E k \in 1 .. Len(r) : r[k] = y)
               <=> y # Head(q) /\ \E k \in 1 .. Len(q) : q[k] = y
  <2>1. ASSUME NEW k \in 1 .. Len(r), r[k] = y
        PROVE  y # Head(q) /\ \E m \in 1 .. Len(q) : q[m] = y
    <3>1. k + 1 \in 1 .. Len(q) /\ 1 \in 1 .. Len(q) /\ k + 1 # 1
      BY <1>1
    <3>2. QED
      BY <1>1, <2>1, <3>1
  <2>2. ASSUME NEW k \in 1 .. Len(q), q[k] = y, y # Head(q)
        PROVE  \E m \in 1 .. Len(r) : r[m] = y
    <3>1. k # 1 /\ k - 1 \in 1 .. Len(r) /\ (k - 1) + 1 = k
      BY <1>1, <2>2
    <3>2. r[k - 1] = y
      BY <1>1, <2>2, <3>1
    <3>3. QED
      BY <3>1, <3>2
  <2>3. QED
    BY <2>1, <2>2
<1>3. ASSUME NEW j \in 1 .. Len(r), NEW k \in 1 .. Len(r), r[j] = r[k]
      PROVE  j = k
  <2>1. j + 1 \in 1 .. Len(q) /\ k + 1 \in 1 .. Len(q) /\ q[j + 1] = q[k + 1]
    BY <1>1, <1>3
  <2>2. j + 1 = k + 1
    BY <2>1
  <2>3. QED
    BY <2>2
<1>4. QED
  BY <1>1, <1>2, <1>3 DEF r
-----------------------------------------------------------------------------
(* Type correctness.  It needs LoopInv: a caller at the top of its loop    *)
(* names a chunk that exists.                                              *)

LEMMA InitIInv == Init => IInv
<1> SUFFICES ASSUME Init PROVE IInv
  OBVIOUS
<1>1. TypeOK
  BY CallersAssumption, EmptySeq DEF Init, TypeOK
<1>2. LoopInv /\ ReturnInv /\ WorkerInv /\ ExitInv
  BY DEF Init, LoopInv, LoopAt, ReturnInv, WorkerInv, ExitInv
<1>3. ChunkInv
  BY DEF Init, ChunkInv, ChunkAt, Chunks
<1>4. TaskConservation
  BY DEF Init, TaskConservation, Queued, Running
<1>5. NoLostWakeup
  BY DEF Init, NoLostWakeup, Waiting
<1>6. QED
  BY <1>1, <1>2, <1>3, <1>4, <1>5 DEF IInv

LEMMA TypeStep ==
    ASSUME TypeOK, LoopInv, [Next]_vars
    PROVE  TypeOK'
<1> USE DEF TypeOK, poolVars, workerVars, callerVars
<1>1. CASE UNCHANGED vars
  BY <1>1 DEF vars
<1>2. ASSUME NEW c \in Callers, Start(c) PROVE TypeOK'
  BY <1>2 DEF Start
<1>3. ASSUME NEW c \in Callers, Enqueue(c) PROVE TypeOK'
  <2>1. <<c, pos[c]>> \in Task
    <3>1. pos[c] \in Nat /\ Total[c] \in Nat /\ pos[c] < Total[c]
      BY <1>3, CallersAssumption DEF Enqueue, LoopInv, LoopAt, TypeOK
    <3>2. pos[c] \in 0 .. Total[c] - 1
      BY <3>1
    <3>3. QED
      BY <3>2, TaskFields
  <2>2. queue' \in Seq(Task)
    BY <1>3, <2>1, AppendProperties DEF Enqueue
  <2>3. future' \in [Task -> {"none", "pending", "value", "exception", "broken"}]
    BY <1>3, <2>1 DEF Enqueue
  <2>4. pos' \in [Callers -> Nat]
    BY <1>3, ChunkSizePositive DEF Enqueue
  <2>5. QED
    BY <1>3, <2>2, <2>3, <2>4 DEF Enqueue
<1>4. ASSUME NEW c \in Callers, EnqueueThrows(c) PROVE TypeOK'
  BY <1>4 DEF EnqueueThrows
<1>5. ASSUME NEW c \in Callers, NotifyOne(c) PROVE TypeOK'
  BY <1>5 DEF NotifyOne, Waiting
<1>6. ASSUME NEW c \in Callers, Return(c) PROVE TypeOK'
  BY <1>6 DEF Return
<1>7. ASSUME NEW w \in Workers, Wait(w) \/ Wake(w) \/ Exit(w) PROVE TypeOK'
  BY <1>7 DEF Wait, Wake, Exit
<1>8. ASSUME NEW w \in Workers, Take(w) PROVE TypeOK'
  <2>1. Head(queue) \in Task /\ Tail(queue) \in Seq(Task)
    BY <1>8, HeadTailProperties DEF Take
  <2>2. QED
    BY <1>8, <2>1 DEF Take
<1>9. ASSUME NEW w \in Workers, Finish(w) PROVE TypeOK'
  BY <1>9 DEF Finish
<1>10. CASE Stop \/ NotifyAll
  BY <1>10 DEF Stop, NotifyAll
<1>11. CASE JoinAll
  BY <1>11, EmptySeq DEF JoinAll
<1>12. QED
  BY <1>1, <1>2, <1>3, <1>4, <1>5, <1>6, <1>7, <1>8, <1>9, <1>10, <1>11
  DEF Next, CallerStep, WorkerStep

-----------------------------------------------------------------------------
(* The steps of the other parts of the inductive invariant.                *)

LEMMA LoopStep ==
    ASSUME TypeOK, LoopInv, [Next]_vars
    PROVE  LoopInv'
<1> USE DEF LoopInv, LoopAt, poolVars, workerVars, callerVars
<1>1. CASE UNCHANGED vars
  BY <1>1 DEF vars
<1>2. ASSUME NEW c \in Callers, Start(c) PROVE LoopInv'
  <2> SUFFICES ASSUME NEW d \in Callers PROVE LoopAt(d)'
    OBVIOUS
  <2>1. Total[d] \in Nat /\ pos[d] \in Nat /\ LoopAt(d)
    BY CallersAssumption DEF TypeOK
  <2>2. CASE d = c
    <3>1. /\ pos'[d] = 0
          /\ cpc'[d] = IF Total[d] = 0 THEN "returned" ELSE "loop"
      BY <1>2, <2>1, <2>2 DEF Start, TypeOK
    <3>2. QED
      BY <2>1, <3>1
  <2>3. CASE d # c
    BY <1>2, <2>1, <2>3 DEF Start, TypeOK
  <2>4. QED
    BY <2>2, <2>3
<1>3. ASSUME NEW c \in Callers, Enqueue(c) PROVE LoopInv'
  BY <1>3 DEF Enqueue, TypeOK
<1>4. ASSUME NEW c \in Callers, EnqueueThrows(c) PROVE LoopInv'
  BY <1>4 DEF EnqueueThrows, TypeOK
<1>5. ASSUME NEW c \in Callers, NotifyOne(c) PROVE LoopInv'
  <2> SUFFICES ASSUME NEW d \in Callers PROVE LoopAt(d)'
    OBVIOUS
  <2>1. Total[d] \in Nat /\ pos[d] \in Nat /\ LoopAt(d)
    BY CallersAssumption DEF TypeOK
  <2>2. CASE d = c
    <3>1. /\ pos' = pos
          /\ cpc'[d] = IF pos[d] < Total[d] THEN "loop" ELSE "wait"
      BY <1>5, <2>2 DEF NotifyOne, TypeOK
    <3>2. QED
      BY <2>1, <3>1
  <2>3. CASE d # c
    BY <1>5, <2>1, <2>3 DEF NotifyOne, TypeOK
  <2>4. QED
    BY <2>2, <2>3
<1>6. ASSUME NEW c \in Callers, Return(c) PROVE LoopInv'
  BY <1>6 DEF Return, TypeOK
<1>7. ASSUME NEW w \in Workers, WorkerStep(w) \/ Wake(w) PROVE LoopInv'
  BY <1>7 DEF WorkerStep, Wait, Wake, Exit, Take, Finish
<1>8. CASE Stop \/ NotifyAll \/ JoinAll
  BY <1>8 DEF Stop, NotifyAll, JoinAll
<1>9. QED
  BY <1>1, <1>2, <1>3, <1>4, <1>5, <1>6, <1>7, <1>8 DEF Next, CallerStep

(* When the destructor has joined every worker the queue is empty, so that *)
(* destroying it breaks no promise.                                        *)
LEMMA JoinFindsNothing ==
    ASSUME TypeOK, ExitInv, JoinAll
    PROVE  queue = << >> /\ future' = future
<1>1. PICK w \in Workers : wpc[w] = "exited"
  BY WorkersAssumption DEF JoinAll
<1>2. queue = << >>
  BY <1>1 DEF ExitInv
<1>3. \A t \in Task : ~Queued(t)
  BY <1>2 DEF Queued
<1>4. QED
  BY <1>2, <1>3 DEF JoinAll, TypeOK

LEMMA ExitStep ==
    ASSUME TypeOK, ExitInv, [Next]_vars
    PROVE  ExitInv'
<1> USE DEF ExitInv, poolVars, workerVars, callerVars
<1>1. CASE UNCHANGED vars
  BY <1>1 DEF vars
<1>2. ASSUME NEW c \in Callers, Start(c) \/ EnqueueThrows(c) \/ Return(c)
      PROVE  ExitInv'
  BY <1>2 DEF Start, EnqueueThrows, Return
<1>3. ASSUME NEW c \in Callers, Enqueue(c) PROVE ExitInv'
  BY <1>3 DEF Enqueue, TypeOK
<1>4. ASSUME NEW c \in Callers, NotifyOne(c) PROVE ExitInv'
  BY <1>4 DEF NotifyOne, Waiting, TypeOK
<1>5. ASSUME NEW w \in Workers, Wait(w) \/ Wake(w) \/ Exit(w) PROVE ExitInv'
  BY <1>5 DEF Wait, Wake, Exit, TypeOK
<1>6. ASSUME NEW w \in Workers, Take(w) PROVE ExitInv'
  BY <1>6 DEF Take, TypeOK
<1>7. ASSUME NEW w \in Workers, Finish(w) PROVE ExitInv'
  BY <1>7 DEF Finish, TypeOK
<1>8. CASE Stop
  BY <1>8 DEF Stop, TypeOK
<1>9. CASE NotifyAll
  BY <1>9 DEF NotifyAll, TypeOK
<1>10. CASE JoinAll
  BY <1>10, JoinFindsNothing DEF JoinAll, TypeOK
<1>11. QED
  BY <1>1, <1>2, <1>3, <1>4, <1>5, <1>6, <1>7, <1>8, <1>9, <1>10
  DEF Next, CallerStep, WorkerStep

LEMMA WorkerStepInv ==
    ASSUME TypeOK, WorkerInv, [Next]_vars
    PROVE  WorkerInv'
<1> USE DEF WorkerInv, TypeOK, poolVars, workerVars, callerVars
<1>1. CASE UNCHANGED vars
  BY <1>1 DEF vars
<1>2. ASSUME NEW c \in Callers, CallerStep(c) PROVE WorkerInv'
  BY <1>2 DEF CallerStep, Start, Enqueue, EnqueueThrows, NotifyOne, Return, Waiting
<1>3. ASSUME NEW w \in Workers, Take(w) PROVE WorkerInv'
  <2>1. Head(queue) # NoTask
    BY <1>3, HeadTailProperties, HostAssumption DEF Take
  <2>2. QED
    BY <1>3, <2>1 DEF Take
<1>4. ASSUME NEW w \in Workers, Wait(w) \/ Wake(w) \/ Exit(w) \/ Finish(w)
      PROVE  WorkerInv'
  BY <1>4 DEF Wait, Wake, Exit, Finish
<1>5. CASE Stop \/ NotifyAll \/ JoinAll
  BY <1>5 DEF Stop, NotifyAll, JoinAll
<1>6. QED
  BY <1>1, <1>2, <1>3, <1>4, <1>5 DEF Next, WorkerStep

(* What a finishing worker does to the futures: only a pending one changes.*)
LEMMA FinishTask ==
    ASSUME TypeOK, WorkerInv, TaskConservation, NEW w \in Workers, Finish(w)
    PROVE  /\ wtask[w] \in Task
           /\ Running(wtask[w])
           /\ future[wtask[w]] = "pending"
           /\ \E r \in {"value", "exception"} :
                 future' = [future EXCEPT ![wtask[w]] = r]
<1>1. wtask[w] \in Task /\ Running(wtask[w])
  BY DEF Finish, TypeOK, WorkerInv, Running
<1>2. QED
  BY <1>1 DEF Finish, TaskConservation

(* The chunk that Enqueue adds is new: it starts where the others end.     *)
LEMMA EnqueueTask ==
    ASSUME TypeOK, LoopInv, ChunkInv, NEW c \in Callers, Enqueue(c)
    PROVE  /\ <<c, pos[c]>> \in Task
           /\ future[<<c, pos[c]>>] = "none"
           /\ future' = [future EXCEPT ![<<c, pos[c]>>] = "pending"]
           /\ Chunks(c)' = Chunks(c) \cup {<<c, pos[c]>>}
           /\ \A d \in Callers : d # c =>
                 /\ Chunks(d)' = Chunks(d)
                 /\ \A t \in Chunks(d) : future'[t] = future[t]
<1> DEFINE t0 == <<c, pos[c]>>
<1>1. pos[c] \in Nat /\ Total[c] \in Nat /\ pos[c] < Total[c]
  BY CallersAssumption DEF Enqueue, LoopInv, LoopAt, TypeOK
<1>2. t0 \in Task
  <2>1. pos[c] \in 0 .. Total[c] - 1
    BY <1>1
  <2>2. QED
    BY <2>1, TaskFields
<1>3. future[t0] = "none"
  <2>1. SUFFICES ASSUME t0 \in Chunks(c) PROVE FALSE
    BY <1>2 DEF Chunks
  <2>2. t0[2] + ChunkSize(c) <= pos[c]
    BY <2>1 DEF ChunkInv, ChunkAt
  <2>3. QED
    BY <1>1, <2>2, ChunkSizePositive
<1>4. future' = [future EXCEPT ![t0] = "pending"]
  BY DEF Enqueue
<1>a. t0[1] = c
  OBVIOUS
<1>b. \A t \in Task : future'[t] = IF t = t0 THEN "pending" ELSE future[t]
  <2> HIDE DEF t0
  <2>1. QED
    BY <1>2, <1>4 DEF TypeOK
<1>5. Chunks(c)' = Chunks(c) \cup {t0}
  <2> HIDE DEF t0
  <2>1. QED
    BY <1>2, <1>a, <1>b DEF Chunks
<1>6. ASSUME NEW d \in Callers, d # c
      PROVE  /\ Chunks(d)' = Chunks(d)
             /\ \A t \in Chunks(d) : future'[t] = future[t]
  <2> HIDE DEF t0
  <2>1. QED
    BY <1>2, <1>6, <1>a, <1>b DEF Chunks
<1>7. QED
  BY <1>2, <1>3, <1>4, <1>5, <1>6

(* Only Enqueue makes chunks and moves a loop variable.                    *)
LEMMA ChunksKept ==
    ASSUME TypeOK, WorkerInv, ExitInv, TaskConservation, [Next]_vars,
           ~ \E c \in Callers : Enqueue(c)
    PROVE  /\ pos' = pos
           /\ \A c \in Callers : Chunks(c)' = Chunks(c)
<1> USE DEF poolVars, workerVars, callerVars
<1>1. CASE UNCHANGED future /\ UNCHANGED pos
  BY <1>1 DEF Chunks
<1>2. ASSUME NEW w \in Workers, Finish(w)
      PROVE  pos' = pos /\ \A c \in Callers : Chunks(c)' = Chunks(c)
  <2>1. PICK r \in {"value", "exception"} : future' = [future EXCEPT ![wtask[w]] = r]
    BY <1>2, FinishTask
  <2>2. future[wtask[w]] = "pending" /\ wtask[w] \in Task
    BY <1>2, FinishTask
  <2>3. \A t \in Task : future'[t] = "none" <=> future[t] = "none"
    BY <2>1, <2>2 DEF TypeOK
  <2>4. QED
    BY <1>2, <2>3 DEF Chunks, Finish
<1>3. CASE JoinAll
  BY <1>1, <1>3, JoinFindsNothing DEF JoinAll
<1>4. CASE UNCHANGED vars
  BY <1>1, <1>4 DEF vars
<1>5. ASSUME NEW c \in Callers, CallerStep(c), ~Enqueue(c)
      PROVE  UNCHANGED future /\ UNCHANGED pos
  BY <1>5 DEF CallerStep, Start, EnqueueThrows, NotifyOne, Return
<1>6. ASSUME NEW w \in Workers, Wait(w) \/ Wake(w) \/ Exit(w) \/ Take(w)
      PROVE  UNCHANGED future /\ UNCHANGED pos
  BY <1>6 DEF Wait, Wake, Exit, Take
<1>7. CASE Stop \/ NotifyAll
  BY <1>1, <1>7 DEF Stop, NotifyAll
<1>8. QED
  BY <1>1, <1>2, <1>3, <1>4, <1>5, <1>6, <1>7 DEF Next, WorkerStep

LEMMA ChunkStep ==
    ASSUME TypeOK, LoopInv, ChunkInv, WorkerInv, ExitInv, TaskConservation,
           [Next]_vars
    PROVE  ChunkInv'
<1>1. CASE ~ \E c \in Callers : Enqueue(c)
  BY <1>1, ChunksKept DEF ChunkInv, ChunkAt
<1>2. ASSUME NEW c \in Callers, Enqueue(c) PROVE ChunkInv'
  <2> DEFINE t0 == <<c, pos[c]>>
  <2>1. /\ t0 \in Task
        /\ t0[2] = pos[c]
        /\ Chunks(c)' = Chunks(c) \cup {t0}
        /\ \A d \in Callers : d # c => Chunks(d)' = Chunks(d)
    BY <1>2, EnqueueTask
  <2> HIDE DEF t0
  <2>2. /\ pos'[c] = pos[c] + ChunkSize(c)
        /\ \A d \in Callers : d # c => pos'[d] = pos[d]
    BY <1>2 DEF Enqueue, TypeOK
  <2>3. ASSUME NEW d \in Callers, d # c PROVE ChunkAt(d)'
    BY <2>1, <2>2, <2>3 DEF ChunkInv, ChunkAt
  <2>4. /\ pos[c] \in Nat
        /\ ChunkSize(c) \in Nat \ {0}
        /\ Total[c] \in Nat
        /\ ChunkAt(c)
        /\ \A t \in Chunks(c) : t[2] \in Nat
    BY ChunkSizePositive, TaskFields, CallersAssumption DEF TypeOK, ChunkInv, Chunks
  <2>5. \A t \in Chunks(c)' : t[2] + ChunkSize(c) <= pos'[c]
    BY <2>1, <2>2, <2>4 DEF ChunkAt
  <2>6. ASSUME NEW t \in Chunks(c)', NEW u \in Chunks(c)', t[2] < u[2]
        PROVE  t[2] + ChunkSize(c) <= u[2]
    <3>1. CASE t = t0
      <4>1. u \in Chunks(c)
        BY <2>1, <2>4, <2>6, <3>1
      <4>2. u[2] + ChunkSize(c) <= pos[c]
        BY <2>4, <4>1 DEF ChunkAt
      <4>3. QED
        BY <2>1, <2>4, <2>6, <3>1, <4>1, <4>2
    <3>2. CASE t # t0 /\ u = t0
      BY <2>1, <2>4, <3>2 DEF ChunkAt
    <3>3. CASE t # t0 /\ u # t0
      BY <2>1, <2>4, <2>6, <3>3 DEF ChunkAt
    <3>4. QED
      BY <3>1, <3>2, <3>3
  <2>7. ASSUME NEW j \in 0 .. Total[c] - 1, j < pos'[c]
        PROVE  \E t \in Chunks(c)' : t[2] <= j /\ j < t[2] + ChunkSize(c)
    <3>1. CASE j < pos[c]
      BY <2>1, <2>4, <3>1 DEF ChunkAt
    <3>2. CASE ~(j < pos[c])
      BY <2>1, <2>2, <2>4, <2>7, <3>2
    <3>3. QED
      BY <3>1, <3>2
  <2>8. ChunkSize(c)' = ChunkSize(c)
    BY DEF ChunkSize, NumThreads
  <2>9. ChunkAt(c)'
    BY <2>5, <2>6, <2>7, <2>8 DEF ChunkAt
  <2>10. QED
    BY <2>3, <2>9 DEF ChunkInv
<1>3. QED
  BY <1>1, <1>2

LEMMA ReturnStep ==
    ASSUME TypeOK, LoopInv, ChunkInv, WorkerInv, ExitInv, TaskConservation,
           ReturnInv, [Next]_vars
    PROVE  ReturnInv'
<1> USE DEF poolVars, workerVars, callerVars
<1>1. ASSUME NEW c \in Callers, Enqueue(c) PROVE ReturnInv'
  <2>1. \A d \in Callers : d # c =>
            /\ Chunks(d)' = Chunks(d)
            /\ \A t \in Chunks(d) : future'[t] = future[t]
    BY <1>1, EnqueueTask
  <2>2. cpc' = [cpc EXCEPT ![c] = "notify"]
    BY <1>1 DEF Enqueue
  <2>3. cpc'[c] = "notify" /\ \A d \in Callers : d # c => cpc'[d] = cpc[d]
    BY <2>2 DEF TypeOK
  <2>4. QED
    BY <2>1, <2>3 DEF ReturnInv
<1>2. CASE ~ \E c \in Callers : Enqueue(c)
  <2>1. \A c \in Callers : Chunks(c)' = Chunks(c)
    BY <1>2, ChunksKept
  <2>2. CASE UNCHANGED <<future, cpc>>
    BY <2>1, <2>2 DEF ReturnInv
  <2>3. ASSUME NEW c \in Callers, Start(c) PROVE ReturnInv'
    <3>1. Chunks(c) = {}
      <4>1. pos[c] = 0 /\ ChunkSize(c) \in Nat \ {0}
        BY <2>3, ChunkSizePositive DEF Start, LoopInv, LoopAt
      <4>2. \A t \in Chunks(c) : t[2] \in Nat /\ t[2] + ChunkSize(c) <= pos[c]
        BY TaskFields, CallersAssumption DEF ChunkInv, ChunkAt, Chunks
      <4>3. QED
        BY <4>1, <4>2
    <3>2. future' = future /\ \A d \in Callers : d # c => cpc'[d] = cpc[d]
      BY <2>3 DEF Start, TypeOK
    <3>3. QED
      BY <2>1, <3>1, <3>2 DEF ReturnInv
  <2>4. ASSUME NEW c \in Callers, EnqueueThrows(c) \/ NotifyOne(c) PROVE ReturnInv'
    BY <2>1, <2>4 DEF ReturnInv, EnqueueThrows, NotifyOne, TypeOK
  <2>5. ASSUME NEW c \in Callers, Return(c) PROVE ReturnInv'
    BY <2>1, <2>5 DEF ReturnInv, Return, TypeOK
  <2>6. ASSUME NEW w \in Workers, Finish(w) PROVE ReturnInv'
    <3>1. PICK r \in {"value", "exception"} : future' = [future EXCEPT ![wtask[w]] = r]
      BY <2>6, FinishTask
    <3>2. \A t \in Task : future'[t] = "pending" => future[t] = "pending"
      BY <3>1 DEF TypeOK
    <3>3. \A c \in Callers : Chunks(c) \subseteq Task
      BY DEF Chunks
    <3>4. QED
      BY <2>1, <2>6, <3>2, <3>3 DEF ReturnInv, Finish
  <2>7. ASSUME NEW w \in Workers, Wait(w) \/ Wake(w) \/ Exit(w) \/ Take(w)
        PROVE  ReturnInv'
    BY <2>2, <2>7 DEF Wait, Wake, Exit, Take
  <2>8. CASE Stop \/ NotifyAll
    BY <2>2, <2>8 DEF Stop, NotifyAll
  <2>9. CASE JoinAll
    BY <2>2, <2>9, JoinFindsNothing DEF JoinAll
  <2>10. CASE UNCHANGED vars
    BY <2>2, <2>10 DEF vars
  <2>11. QED
    BY <1>2, <2>3, <2>4, <2>5, <2>6, <2>7, <2>8, <2>9, <2>10
    DEF Next, CallerStep, WorkerStep
<1>3. QED
  BY <1>1, <1>2

-----------------------------------------------------------------------------
(* Conservation of tasks.                                                  *)

LEMMA ConservationStep ==
    ASSUME TypeOK, LoopInv, ChunkInv, WorkerInv, ExitInv, TaskConservation,
           [Next]_vars
    PROVE  TaskConservation'
<1> USE DEF poolVars, workerVars, callerVars
<1>0. ASSUME UNCHANGED <<queue, future, wtask>>,
             \A w \in Workers : wpc'[w] = "run" <=> wpc[w] = "run"
      PROVE  TaskConservation'
  BY <1>0 DEF TaskConservation, Queued, Running
<1>1. ASSUME NEW c \in Callers, Enqueue(c) PROVE TaskConservation'
  <2> DEFINE t0 == <<c, pos[c]>>
  <2>1. /\ t0 \in Task
        /\ future[t0] = "none"
        /\ future' = [future EXCEPT ![t0] = "pending"]
        /\ queue' = Append(queue, t0)
        /\ UNCHANGED <<wpc, wtask>>
    BY <1>1, EnqueueTask DEF Enqueue
  <2> HIDE DEF t0
  <2>2. ~Queued(t0) /\ ~Running(t0)
    BY <2>1 DEF TaskConservation
  <2>3. queue \in Seq(Task)
    BY DEF TypeOK
  <2>4. /\ \A t : Queued(t)' <=> t = t0 \/ Queued(t)
        /\ \A j, k \in 1 .. Len(queue') : queue'[j] = queue'[k] => j = k
    BY <2>1, <2>2, <2>3, AppendQueue DEF Queued, TaskConservation, Holds, NoRepeat
  <2>5. \A t : Running(t)' <=> Running(t)
    BY <2>1 DEF Running
  <2>6. \A t \in Task : future'[t] = "pending" <=> t = t0 \/ future[t] = "pending"
    BY <2>1 DEF TypeOK
  <2>7. QED
    BY <2>1, <2>2, <2>4, <2>5, <2>6 DEF TaskConservation
<1>2. ASSUME NEW w \in Workers, Take(w) PROVE TaskConservation'
  <2> DEFINE h == Head(queue)
  <2>1. /\ wpc[w] = "check" /\ queue # << >>
        /\ queue' = Tail(queue)
        /\ wtask' = [wtask EXCEPT ![w] = h]
        /\ wpc' = [wpc EXCEPT ![w] = "run"]
        /\ future' = future
        /\ queue \in Seq(Task)
    BY <1>2 DEF Take, TypeOK
  <2> HIDE DEF h
  <2>2. /\ h \in Task
        /\ Queued(h)
        /\ \A t : Queued(t)' <=> t # h /\ Queued(t)
        /\ \A j, k \in 1 .. Len(queue') : queue'[j] = queue'[k] => j = k
    <3>1. NoRepeat(queue) /\ queue \in Seq(Task) /\ queue # << >>
      BY <2>1 DEF TaskConservation, NoRepeat
    <3>2. /\ Head(queue) \in Task
          /\ Holds(queue, Head(queue))
          /\ \A y : Holds(Tail(queue), y) <=> y # Head(queue) /\ Holds(queue, y)
          /\ NoRepeat(Tail(queue))
      BY <3>1, TailQueue
    <3>3. QED
      BY <2>1, <3>2 DEF Queued, Holds, NoRepeat, h
  <2>3. ~Running(h)
    BY <2>2 DEF TaskConservation
  <2>4. /\ wpc'[w] = "run" /\ wtask'[w] = h
        /\ \A v \in Workers : v # w => wpc'[v] = wpc[v] /\ wtask'[v] = wtask[v]
    BY <2>1 DEF TypeOK
  <2>5. \A t : Running(t)' <=> t = h \/ Running(t)
    BY <2>1, <2>4 DEF Running
  <2>6. \A u, v \in Workers :
          wpc'[u] = "run" /\ wpc'[v] = "run" /\ wtask'[u] = wtask'[v] => u = v
    BY <2>3, <2>4 DEF TaskConservation, Running
  <2>7. QED
    BY <2>1, <2>2, <2>3, <2>5, <2>6 DEF TaskConservation
<1>3. ASSUME NEW w \in Workers, Finish(w) PROVE TaskConservation'
  <2> DEFINE t0 == wtask[w]
  <2>1. PICK r \in {"value", "exception"} : future' = [future EXCEPT ![t0] = r]
    BY <1>3, FinishTask
  <2>2. /\ t0 \in Task /\ Running(t0)
        /\ wpc[w] = "run" /\ queue' = queue
        /\ wpc' = [wpc EXCEPT ![w] = "check"]
        /\ wtask' = [wtask EXCEPT ![w] = NoTask]
    BY <1>3, FinishTask DEF Finish
  <2>3. /\ wpc'[w] = "check"
        /\ \A v \in Workers : v # w => wpc'[v] = wpc[v] /\ wtask'[v] = wtask[v]
    BY <2>2 DEF TypeOK
  <2>4. \A t : Running(t)' <=> t # t0 /\ Running(t)
    BY <2>2, <2>3 DEF Running, TaskConservation
  <2>5. \A t : Queued(t)' <=> Queued(t)
    BY <2>2 DEF Queued
  <2>6. \A t \in Task : future'[t] = "pending" <=> t # t0 /\ future[t] = "pending"
    BY <2>1 DEF TypeOK
  <2> HIDE DEF t0
  <2>7. QED
    BY <2>2, <2>3, <2>4, <2>5, <2>6 DEF TaskConservation
<1>4. ASSUME NEW c \in Callers, CallerStep(c), ~Enqueue(c) PROVE TaskConservation'
  BY <1>0, <1>4 DEF CallerStep, Start, EnqueueThrows, NotifyOne, Return, Waiting, TypeOK
<1>5. ASSUME NEW w \in Workers, Wait(w) \/ Wake(w) \/ Exit(w) PROVE TaskConservation'
  BY <1>0, <1>5 DEF Wait, Wake, Exit, TypeOK
<1>6. CASE Stop \/ NotifyAll
  BY <1>0, <1>6 DEF Stop, NotifyAll, TypeOK
<1>7. CASE JoinAll
  BY <1>0, <1>7, JoinFindsNothing DEF JoinAll
<1>8. CASE UNCHANGED vars
  BY <1>0, <1>8 DEF vars
<1>9. QED
  BY <1>1, <1>2, <1>3, <1>4, <1>5, <1>6, <1>7, <1>8 DEF Next, WorkerStep

-----------------------------------------------------------------------------
(* No wake-up is lost.  The lemma compares the three counters the          *)
(* invariant is about before and after a step.                             *)

LEMMA Counters ==
    /\ IsFiniteSet(Checking) /\ Cardinality(Checking) \in Nat
    /\ IsFiniteSet(Notifying) /\ Cardinality(Notifying) \in Nat
    /\ IsFiniteSet(Checking') /\ Cardinality(Checking') \in Nat
    /\ IsFiniteSet(Notifying') /\ Cardinality(Notifying') \in Nat
<1>1. /\ Checking \in SUBSET Workers /\ Checking' \in SUBSET Workers
      /\ Notifying \in SUBSET Callers /\ Notifying' \in SUBSET Callers
  BY DEF Checking, Notifying
<1>2. IsFiniteSet(Workers) /\ IsFiniteSet(Callers)
  BY WorkersAssumption, CallersAssumption
<1>3. /\ IsFiniteSet(Checking) /\ IsFiniteSet(Checking')
      /\ IsFiniteSet(Notifying) /\ IsFiniteSet(Notifying')
  BY <1>1, <1>2, FS_Subset
<1>4. QED
  BY <1>3, FS_CardinalityType

LEMMA WakeupStep ==
    ASSUME TypeOK, ExitInv, NoLostWakeup, [Next]_vars
    PROVE  NoLostWakeup'
<1> USE DEF poolVars, workerVars, callerVars
<1> DEFINE nC == Cardinality(Checking)
           nN == Cardinality(Notifying)
<1>0. /\ Len(queue) \in Nat
      /\ nC \in Nat /\ nN \in Nat
      /\ IsFiniteSet(Checking) /\ IsFiniteSet(Notifying)
  BY Counters, LenProperties DEF TypeOK
<1>1. ASSUME UNCHANGED <<queue, stop, wpc, owner>>, Notifying' = Notifying
      PROVE  NoLostWakeup'
  BY <1>1 DEF NoLostWakeup, Waiting, Checking
<1>2. ASSUME NEW c \in Callers, Enqueue(c) PROVE NoLostWakeup'
  <2>1. c \notin Notifying /\ Notifying' = Notifying \cup {c}
    BY <1>2 DEF Enqueue, Notifying, TypeOK
  <2>2. Cardinality(Notifying') = nN + 1
    BY <2>1, <1>0, FS_AddElement
  <2>3. Len(queue') = Len(queue) + 1
    BY <1>2 DEF Enqueue, TypeOK
  <2>4. Waiting' = Waiting /\ Checking' = Checking /\ stop' = stop /\ ~stop
    BY <1>2 DEF Enqueue, Waiting, Checking
  <2> HIDE DEF nC, nN
  <2>5. Cardinality(Checking') = nC
    BY <2>4 DEF nC
  <2>6. QED
    BY <1>0, <2>2, <2>3, <2>4, <2>5 DEF NoLostWakeup, nC, nN
<1>3. ASSUME NEW c \in Callers, NotifyOne(c) PROVE NoLostWakeup'
  <2>1. c \in Notifying /\ Notifying' = Notifying \ {c}
    BY <1>3 DEF NotifyOne, Notifying, TypeOK
  <2>2. Cardinality(Notifying') = nN - 1
    BY <2>1, <1>0, FS_RemoveElement
  <2>3. queue' = queue /\ stop' = stop /\ owner' = owner
    BY <1>3 DEF NotifyOne
  <2>4. CASE Waiting = {} /\ UNCHANGED wpc
    BY <2>4 DEF NoLostWakeup, Waiting
  <2>5. ASSUME NEW w \in Waiting, wpc' = [wpc EXCEPT ![w] = "check"]
        PROVE  NoLostWakeup'
    <3>1. w \notin Checking /\ Checking' = Checking \cup {w}
      BY <2>5 DEF Checking, Waiting, TypeOK
    <3>2. Cardinality(Checking') = nC + 1
      BY <3>1, <1>0, FS_AddElement
    <3>3. QED
      BY <1>0, <2>2, <2>3, <3>2 DEF NoLostWakeup
  <2>6. QED
    BY <1>3, <2>4, <2>5 DEF NotifyOne
<1>4. ASSUME NEW c \in Callers, Start(c) \/ EnqueueThrows(c) \/ Return(c)
      PROVE  NoLostWakeup'
  <2>1. Notifying' = Notifying
    BY <1>4 DEF Start, EnqueueThrows, Return, Notifying, TypeOK
  <2>2. QED
    BY <1>1, <1>4, <2>1 DEF Start, EnqueueThrows, Return
<1>5. ASSUME NEW w \in Workers, Wait(w) PROVE NoLostWakeup'
  <2>1. Len(queue') = 0 /\ stop' = FALSE
    BY <1>5, EmptySeq DEF Wait, TypeOK
  <2>2. QED
    BY <2>1, Counters DEF NoLostWakeup
<1>6. ASSUME NEW w \in Workers, Wake(w) PROVE NoLostWakeup'
  <2>1. /\ w \in Waiting
        /\ w \notin Checking /\ Checking' = Checking \cup {w}
        /\ Notifying' = Notifying /\ UNCHANGED <<queue, stop, owner>>
    BY <1>6 DEF Wake, Waiting, Checking, Notifying, TypeOK
  <2>2. Cardinality(Checking') = nC + 1
    BY <2>1, <1>0, FS_AddElement
  <2>3. QED
    BY <1>0, <2>1, <2>2 DEF NoLostWakeup
<1>7. ASSUME NEW w \in Workers, Exit(w) PROVE NoLostWakeup'
  <2>1. /\ Waiting' = Waiting /\ UNCHANGED <<queue, stop, owner>>
        /\ Len(queue) = 0
    BY <1>7, EmptySeq DEF Exit, Waiting, TypeOK
  <2>2. QED
    BY <2>1, Counters DEF NoLostWakeup
<1>8. ASSUME NEW w \in Workers, Take(w) PROVE NoLostWakeup'
  <2>1. /\ w \in Checking /\ Checking' = Checking \ {w}
        /\ Waiting' = Waiting
        /\ Notifying' = Notifying /\ UNCHANGED <<stop, owner>>
    BY <1>8 DEF Take, Waiting, Checking, Notifying, TypeOK
  <2>2. Cardinality(Checking') = nC - 1
    BY <2>1, <1>0, FS_RemoveElement
  <2>3. Len(queue') = Len(queue) - 1
    BY <1>8, HeadTailProperties DEF Take, TypeOK
  <2>4. QED
    BY <1>0, <2>1, <2>2, <2>3 DEF NoLostWakeup
<1>9. ASSUME NEW w \in Workers, Finish(w) PROVE NoLostWakeup'
  <2>1. /\ w \notin Checking /\ Checking' = Checking \cup {w}
        /\ Waiting' = Waiting
        /\ Notifying' = Notifying /\ UNCHANGED <<queue, stop, owner>>
    BY <1>9 DEF Finish, Waiting, Checking, Notifying, TypeOK
  <2>2. Cardinality(Checking') = nC + 1
    BY <2>1, <1>0, FS_AddElement
  <2>3. QED
    BY <1>0, <2>1, <2>2 DEF NoLostWakeup
<1>10. CASE Stop
  BY <1>10 DEF Stop, NoLostWakeup, Waiting, Checking, Notifying
<1>11. CASE NotifyAll
  <2>1. Waiting' = {}
    BY <1>11 DEF NotifyAll, Waiting, TypeOK
  <2>2. QED
    BY <2>1 DEF NoLostWakeup
<1>12. CASE JoinAll
  <2>1. Waiting' = {}
    BY <1>12 DEF JoinAll, Waiting
  <2>2. QED
    BY <2>1 DEF NoLostWakeup
<1>13. CASE UNCHANGED vars
  BY <1>1, <1>13 DEF vars, Notifying
<1>14. QED
  BY <1>2, <1>3, <1>4, <1>5, <1>6, <1>7, <1>8, <1>9, <1>10, <1>11, <1>12, <1>13
  DEF Next, CallerStep, WorkerStep

-----------------------------------------------------------------------------
(* The theorems.                                                           *)

(* The inductive invariant holds in every reachable state.                 *)
THEOREM Inductive == SafeSpec => []IInv
<1>1. Init => IInv
  BY InitIInv
<1>2. IInv /\ [Next]_vars => IInv'
  <2> SUFFICES ASSUME IInv, [Next]_vars PROVE IInv'
    OBVIOUS
  <2> USE DEF IInv
  <2>1. TypeOK' /\ LoopInv' /\ WorkerInv' /\ ExitInv'
    BY TypeStep, LoopStep, WorkerStepInv, ExitStep
  <2>2. ChunkInv' /\ ReturnInv' /\ TaskConservation'
    BY ChunkStep, ReturnStep, ConservationStep
  <2>3. NoLostWakeup'
    BY WakeupStep
  <2>4. QED
    BY <2>1, <2>2, <2>3
<1>3. QED
  BY <1>1, <1>2, PTL DEF SafeSpec

(* Queue, futures, workers and callers keep their types: Enqueue names an  *)
(* existing chunk and Take hands over an existing task.                    *)
THEOREM TypeCorrect == SafeSpec => []TypeOK
<1>1. IInv => TypeOK
  BY DEF IInv
<1>2. QED
  BY <1>1, Inductive, PTL

(* No task that enqueue accepted is lost, duplicated or held by two        *)
(* workers, for every number of workers and calls, nested calls included.  *)
THEOREM Conservation == SafeSpec => []TaskConservation
<1>1. IInv => TaskConservation
  BY DEF IInv
<1>2. QED
  BY <1>1, Inductive, PTL

(* notify_one after the unlock loses no wake-up.                           *)
THEOREM Wakeups == SafeSpec => []NoLostWakeup
<1>1. IInv => NoLostWakeup
  BY DEF IInv
<1>2. QED
  BY <1>1, Inductive, PTL

(* A call of parallel_for that returned has had every index of its range   *)
(* run in exactly one chunk, whatever the range, the chunk size and the    *)
(* number of workers.                                                      *)
THEOREM Coverage == SafeSpec => []ReturnCoversRange
<1>1. ASSUME IInv PROVE ReturnCoversRange
  <2> SUFFICES ASSUME NEW c \in Callers, cpc[c] = "returned",
                      NEW j \in 0 .. Total[c] - 1
               PROVE  \E t \in Chunks(c) :
                        /\ t[2] <= j /\ j < ChunkEnd(t)
                        /\ future[t] \in {"value", "exception"}
                        /\ \A u \in Chunks(c) :
                              u[2] <= j /\ j < ChunkEnd(u) => u = t
    BY DEF ReturnCoversRange
  <2>1. /\ pos[c] \in Nat /\ Total[c] \in Nat /\ ChunkSize(c) \in Nat \ {0}
        /\ pos[c] >= Total[c]
        /\ ChunkAt(c)
        /\ \A t \in Chunks(c) : future[t] # "pending"
    BY <1>1, ChunkSizePositive, CallersAssumption
    DEF IInv, TypeOK, LoopInv, LoopAt, ChunkInv, ReturnInv
  <2>2. \A t \in Chunks(c) :
          /\ t \in Task /\ t[1] = c /\ t[2] \in Nat
          /\ t = <<c, t[2]>>
          /\ future[t] \in {"value", "exception"}
    BY <1>1, <2>1, TaskFields, CallersAssumption
    DEF Chunks, IInv, TypeOK, ExitInv
  <2>3. \A t \in Chunks(c) :
          j < ChunkEnd(t) <=> j < t[2] + ChunkSize(c)
    BY <2>1, <2>2 DEF ChunkEnd
  <2>4. PICK t \in Chunks(c) : t[2] <= j /\ j < t[2] + ChunkSize(c)
    BY <2>1 DEF ChunkAt
  <2>5. ASSUME NEW u \in Chunks(c), u[2] <= j, j < u[2] + ChunkSize(c)
        PROVE  u = t
    <3>1. ~(u[2] < t[2]) /\ ~(t[2] < u[2])
      BY <2>1, <2>2, <2>4, <2>5 DEF ChunkAt
    <3>2. u[2] = t[2]
      BY <2>2, <3>1
    <3>3. QED
      BY <2>2, <3>2
  <2>6. QED
    BY <2>2, <2>3, <2>4, <2>5
<1>2. QED
  BY <1>1, Inductive, PTL

(* Every step of ThreadPool is a step of TaskPool or a stutter: the pool   *)
(* accepts only while open, executes each accepted task once, and vanishes *)
(* with none left.                                                         *)
THEOREM Refinement == SafeSpec => Promise!SafeSpec
<1> DEFINE st == [t \in Task |-> StatusOf(future[t])]
<1>1. Init => Promise!Init
  BY DEF Init, Promise!Init, StatusOf
<1>2. ASSUME IInv, IInv', [Next]_vars
      PROVE  [Promise!Next]_(Promise!vars)
  <2> USE DEF poolVars, workerVars, callerVars
  <2>1. ASSUME UNCHANGED <<future, stop>>, (owner' = "gone") = (owner = "gone")
        PROVE  UNCHANGED Promise!vars
    BY <2>1 DEF Promise!vars
  <2>2. ASSUME NEW c \in Callers, Enqueue(c) PROVE Promise!Next
    <3> DEFINE t0 == <<c, pos[c]>>
    <3>1. /\ t0 \in Task /\ future[t0] = "none"
          /\ future' = [future EXCEPT ![t0] = "pending"]
          /\ ~stop /\ stop' = stop /\ owner' = owner
      BY <1>2, <2>2, EnqueueTask DEF IInv, Enqueue
    <3> HIDE DEF t0
    <3>2. /\ st[t0] = "none"
          /\ st' = [st EXCEPT ![t0] = "accepted"]
      BY <1>2, <3>1, ZenonT(60) DEF IInv, TypeOK, StatusOf
    <3>3. Promise!Accept(t0)
      BY <3>1, <3>2 DEF Promise!Accept
    <3>4. QED
      BY <3>1, <3>3 DEF Promise!Next
  <2>3. ASSUME NEW w \in Workers, Finish(w) PROVE Promise!Next
    <3> DEFINE t0 == wtask[w]
    <3>1. PICK r \in {"value", "exception"} : future' = [future EXCEPT ![t0] = r]
      BY <1>2, <2>3, FinishTask DEF IInv
    <3>2. /\ t0 \in Task /\ future[t0] = "pending"
          /\ stop' = stop /\ owner' = owner
      BY <1>2, <2>3, FinishTask DEF IInv, Finish
    <3>3. owner # "gone"
      BY <1>2, <2>3 DEF IInv, ExitInv, Finish
    <3> HIDE DEF t0
    <3>4. /\ st[t0] = "accepted"
          /\ st' = [st EXCEPT ![t0] = "executed"]
      BY <1>2, <3>1, <3>2, ZenonT(60) DEF IInv, TypeOK, StatusOf
    <3>5. Promise!Execute(t0)
      BY <3>2, <3>3, <3>4 DEF Promise!Execute
    <3>6. QED
      BY <3>2, <3>5 DEF Promise!Next
  <2>4. CASE Stop
    <3>1. Promise!Close
      BY <1>2, <2>4 DEF Stop, Promise!Close, IInv, ExitInv
    <3>2. QED
      BY <3>1 DEF Promise!Next
  <2>5. CASE JoinAll
    <3>1. queue = << >> /\ future' = future
      BY <1>2, <2>5, JoinFindsNothing DEF IInv
    <3>2. \A w \in Workers : wpc[w] # "run"
      BY <2>5 DEF JoinAll
    <3>3. \A t \in Task : ~Queued(t) /\ ~Running(t)
      BY <3>1, <3>2 DEF Queued, Running
    <3>4. \A t \in Task : future[t] # "pending"
      BY <1>2, <3>3 DEF IInv, TaskConservation
    <3>5. \A t \in Task : st[t] # "accepted"
      BY <1>2, <3>4 DEF IInv, TypeOK, StatusOf
    <3>6. Promise!Vanish
      BY <1>2, <2>5, <3>1, <3>5 DEF JoinAll, Promise!Vanish, IInv, ExitInv
    <3>7. QED
      BY <3>6 DEF Promise!Next
  <2>6. ASSUME NEW c \in Callers, CallerStep(c), ~Enqueue(c)
        PROVE  UNCHANGED Promise!vars
    BY <2>1, <2>6 DEF CallerStep, Start, EnqueueThrows, NotifyOne, Return
  <2>7. ASSUME NEW w \in Workers, Wait(w) \/ Wake(w) \/ Exit(w) \/ Take(w)
        PROVE  UNCHANGED Promise!vars
    BY <2>1, <2>7 DEF Wait, Wake, Exit, Take
  <2>8. CASE NotifyAll
    BY <2>1, <2>8 DEF NotifyAll
  <2>9. CASE UNCHANGED vars
    BY <2>1, <2>9 DEF vars
  <2>10. QED
    BY <1>2, <2>2, <2>3, <2>4, <2>5, <2>6, <2>7, <2>8, <2>9
    DEF Next, WorkerStep
<1>3. QED
  BY <1>1, <1>2, Inductive, PTL DEF SafeSpec, Promise!SafeSpec
=============================================================================
