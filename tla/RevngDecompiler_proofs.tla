------------------------ MODULE RevngDecompiler_proofs ------------------------
(***************************************************************************)
(* Proofs about RevngDecompiler, for every set of requests and addresses,  *)
(* any number of lifts and either treatment of exit statuses.              *)
(***************************************************************************)
EXTENDS RevngDecompiler, SequenceTheorems, FiniteSetTheorems, TLAPS

-----------------------------------------------------------------------------
(* The numbers of lifts and of the binaries given to them.                 *)
LEMMA Numbers ==
    /\ 0 \in Binaries
    /\ \A n \in Binaries : (n + 1) - 1 = n
    /\ \A n \in Binaries : n < MaxLifts => n + 1 \in Binaries /\ n + 1 \in Lifts
BY LiftsAssumption DEF Binaries, Lifts

(* Before the first call there is no thread and no text.                   *)
LEMMA InitIInv == Init => IInv
<1> SUFFICES ASSUME Init PROVE IInv
  OBVIOUS
<1>1. TypeOK
  BY Numbers, EmptySeq DEF Init, TypeOK, States, Answers
<1>2. Active = {} /\ Alive = {}
  BY DEF Init, Active, Alive
<1>3. ClientInv /\ NoDetachedThread /\ SupersededLiftEnds
  BY <1>2 DEF Init, ClientInv, NoDetachedThread, SupersededLiftEnds
<1>4. QuietCacheFresh /\ FreshInv
  BY DEF Init, QuietCacheFresh, FreshInv
<1>5. GraphInv /\ LiftedInv
  BY <1>2 DEF Init, GraphInv, LiftedInv, PastLift
<1>6. QueuesInv
  <2>1. \A r \in Requests : ~Held(r)
    BY DEF Init, Held
  <2>2. 1 .. Len(pending) = {} /\ \A g \in Lifts : 1 .. Len(lbatch[g]) = {}
    BY EmptySeq DEF Init
  <2>3. QED
    BY <2>1, <2>2 DEF QueuesInv, HeldInv, PendingInv, BatchInv
<1>7. QED
  BY <1>1, <1>3, <1>4, <1>5, <1>6 DEF IInv

(* What a thread takes from the queue it was handed is a request.          *)
LEMMA BatchHead ==
    ASSUME TypeOK, NEW g \in Lifts, lbatch[g] # << >>
    PROVE  Head(lbatch[g]) \in Requests /\ Tail(lbatch[g]) \in Seq(Requests)
<1>1. lbatch[g] \in Seq(Requests)
  BY DEF TypeOK
<1>2. QED
  BY <1>1, HeadTailProperties

(* Every step keeps the types: the client's position says which of its     *)
(* variables name a request, and that there is a lift left to start.       *)
LEMMA TypeStep == TypeOK /\ ClientInv /\ [Next]_vars => TypeOK'
<1> SUFFICES ASSUME TypeOK /\ ClientInv, [Next]_vars PROVE TypeOK'
  OBVIOUS
<1> USE DEF TypeOK, ClientInv, sharedVars, clientVars, liftVars, taskVars, States, Answers
<1>1. ASSUME NEW lift \in BOOLEAN, ClearBegin(lift) PROVE TypeOK'
  BY <1>1, Numbers, RequestsAssumption DEF ClearBegin
<1>2. ASSUME NEW r \in Requests, AsyncBegin(r) PROVE TypeOK'
  BY <1>2, Numbers, RequestsAssumption DEF AsyncBegin
<1>3. ASSUME NEW r \in Requests, SyncBegin(r) PROVE TypeOK'
  BY <1>3, Numbers, RequestsAssumption DEF SyncBegin
<1>4. ASSUME ClearLock PROVE TypeOK'
  BY <1>4, Numbers, RequestsAssumption DEF ClearLock
<1>5. ASSUME ClearDrained PROVE TypeOK'
  BY <1>5, Numbers, RequestsAssumption DEF ClearDrained
<1>6. ASSUME LiftSetBinary PROVE TypeOK'
  BY <1>6, Numbers, RequestsAssumption DEF LiftSetBinary
<1>7. ASSUME LiftLaunch PROVE TypeOK'
  BY <1>7, Numbers, RequestsAssumption DEF LiftLaunch
<1>8. ASSUME LiftAssigned PROVE TypeOK'
  BY <1>8, Numbers, RequestsAssumption DEF LiftAssigned
<1>9. ASSUME AsyncTestLifting PROVE TypeOK'
  BY <1>9, Numbers, RequestsAssumption DEF AsyncTestLifting, Reply
<1>10. ASSUME AsyncPush PROVE TypeOK'
  <2>1. pending \in Seq(Requests) /\ creq \in Requests
    BY <1>10 DEF AsyncPush
  <2>2. Append(pending, creq) \in Seq(Requests)
    BY <2>1, AppendProperties
  <2>3. QED
    BY <1>10, <2>2 DEF AsyncPush
<1>11. ASSUME AsyncTestReady PROVE TypeOK'
  BY <1>11, Numbers, RequestsAssumption DEF AsyncTestReady, Reply
<1>12. ASSUME AsyncSetEmitting PROVE TypeOK'
  BY <1>12, Numbers, RequestsAssumption DEF AsyncSetEmitting
<1>13. ASSUME AsyncLaunch PROVE TypeOK'
  BY <1>13, Numbers, RequestsAssumption DEF AsyncLaunch
<1>14. ASSUME SyncReturn PROVE TypeOK'
  BY <1>14, Numbers, RequestsAssumption DEF SyncReturn
<1>15. ASSUME NEW r \in Requests, TaskCheck(r) PROVE TypeOK'
  BY <1>15, Numbers, RequestsAssumption, ZenonT(60) DEF TaskCheck, Deliver
<1>16. ASSUME NEW r \in Requests, TaskLookup(r) PROVE TypeOK'
  <2>1. Rva[r] \in Rvas /\ cache[Rva[r]] \in Binaries
    BY RequestsAssumption
  <2>2. text' \in [Requests -> Binaries]
    BY <1>16, <2>1 DEF TaskLookup
  <2>3. /\ tpc' \in [Requests -> {"unused", "check", "lookup", "run", "insert", "emitted", "done"}]
        /\ answer' \in [Requests -> Answers]
    BY <1>16 DEF TaskLookup, Deliver
  <2>4. UNCHANGED <<sharedVars, clientVars, liftVars, quiet>>
    BY <1>16 DEF TaskLookup
  <2>5. QED
    BY <2>2, <2>3, <2>4
<1>17. ASSUME NEW r \in Requests, TaskRun(r) PROVE TypeOK'
  <2>1. text' \in [Requests -> Binaries]
    BY <1>17 DEF TaskRun
  <2>2. tpc' \in [Requests -> {"unused", "check", "lookup", "run", "insert", "emitted", "done"}]
    <3>1. \E l \in {"insert", "emitted", "done"} : tpc' = [tpc EXCEPT ![r] = l]
      BY <1>17 DEF TaskRun, Deliver
    <3>2. tpc \in [Requests -> {"unused", "check", "lookup", "run", "insert", "emitted", "done"}]
      OBVIOUS
    <3>3. QED
      BY <3>1, <3>2
  <2>3. answer' \in [Requests -> Answers]
    BY <1>17 DEF TaskRun, Deliver
  <2>4. UNCHANGED <<sharedVars, clientVars, liftVars, quiet>>
    BY <1>17 DEF TaskRun
  <2>5. QED
    BY ZenonT(60), <2>1, <2>2, <2>3, <2>4
<1>18. ASSUME NEW r \in Requests, TaskInsert(r) PROVE TypeOK'
  BY <1>18, Numbers, RequestsAssumption DEF TaskInsert, Deliver
<1>19. ASSUME NEW r \in Requests, TaskEmitted(r) PROVE TypeOK'
  BY <1>19, Numbers, RequestsAssumption DEF TaskEmitted
<1>20. ASSUME NEW g \in Lifts, LiftStart(g) PROVE TypeOK'
  <2>1. state' \in States
    BY <1>20 DEF LiftStart
  <2>2. lpc' \in [Lifts -> {"unused", "start", "import", "abi", "check", "ready", "flush",
                          "launch", "cb", "failed", "error", "cb failed", "done"}]
    BY <1>20, ZenonT(60) DEF LiftStart, Goto
  <2>3. UNCHANGED <<binary, gen, cache, pending, futures, clientVars,
                    lbatch, lifted, lcb, taskVars, quiet>>
    BY <1>20 DEF LiftStart
  <2>4. QED
    BY <2>1, <2>2, <2>3
<1>21. ASSUME NEW g \in Lifts, LiftImport(g) PROVE TypeOK'
  <2>1. lifted' \subseteq Lifts /\ state' \in States
    BY <1>21 DEF LiftImport, Outcomes
  <2>2. lpc' \in [Lifts -> {"unused", "start", "import", "abi", "check", "ready", "flush",
                          "launch", "cb", "failed", "error", "cb failed", "done"}]
    BY <1>21, ZenonT(60) DEF LiftImport, Goto
  <2>3. UNCHANGED <<binary, gen, cache, pending, futures, clientVars,
                    lbatch, lcb, taskVars, quiet>>
    BY <1>21 DEF LiftImport
  <2>4. QED
    BY <2>1, <2>2, <2>3
<1>22. ASSUME NEW g \in Lifts, LiftDetect(g) PROVE TypeOK'
  <2>1. lifted' \subseteq Lifts
    BY <1>22 DEF LiftDetect, Outcomes
  <2>2. lpc' \in [Lifts -> {"unused", "start", "import", "abi", "check", "ready", "flush",
                          "launch", "cb", "failed", "error", "cb failed", "done"}]
    BY <1>22, ZenonT(60) DEF LiftDetect, Goto
  <2>3. UNCHANGED <<sharedVars, clientVars, lbatch, lcb, taskVars, quiet>>
    BY <1>22 DEF LiftDetect
  <2>4. QED
    BY <2>1, <2>2, <2>3
<1>23. ASSUME NEW g \in Lifts, LiftCheck(g) PROVE TypeOK'
  BY <1>23, Numbers, RequestsAssumption, ZenonT(60) DEF LiftCheck, Goto
<1>24. ASSUME NEW g \in Lifts, LiftReady(g) PROVE TypeOK'
  BY <1>24, Numbers, RequestsAssumption DEF LiftReady, Goto
<1>25. ASSUME NEW g \in Lifts, LiftFlush(g) PROVE TypeOK'
  <2>1. pending' \in Seq(Requests)
    BY <1>25, EmptySeq DEF LiftFlush
  <2>2. lpc' \in [Lifts -> {"unused", "start", "import", "abi", "check", "ready", "flush",
                          "launch", "cb", "failed", "error", "cb failed", "done"}]
    BY <1>25 DEF LiftFlush, Goto
  <2>3. lbatch' \in [Lifts -> Seq(Requests)]
    BY <1>25 DEF LiftFlush
  <2>4. UNCHANGED <<state, binary, gen, cache, futures, clientVars,
                    lifted, lcb, taskVars, quiet>>
    BY <1>25 DEF LiftFlush
  <2>5. QED
    BY <2>1, <2>2, <2>3, <2>4
<1>26. ASSUME NEW g \in Lifts, LiftLaunchPending(g) PROVE TypeOK'
  BY <1>26, BatchHead, ZenonT(60) DEF LiftLaunchPending
<1>27. ASSUME NEW g \in Lifts, LiftFlushed(g) PROVE TypeOK'
  BY <1>27, Numbers, RequestsAssumption, ZenonT(60) DEF LiftFlushed, Goto
<1>28. ASSUME NEW g \in Lifts, LiftError(g) PROVE TypeOK'
  BY <1>28, Numbers, RequestsAssumption DEF LiftError, Goto
<1>29. ASSUME NEW g \in Lifts, LiftCallback(g) PROVE TypeOK'
  BY <1>29, Numbers, RequestsAssumption, ZenonT(60) DEF LiftCallback, Goto
<1>30. ASSUME UNCHANGED vars PROVE TypeOK'
  BY <1>30, ZenonT(60) DEF vars
<1>31. QED
  BY <1>1, <1>2, <1>3, <1>4, <1>5, <1>6, <1>7, <1>8, <1>9, <1>10, <1>11, <1>12, <1>13, <1>14, <1>15, <1>16, <1>17, <1>18, <1>19, <1>20, <1>21, <1>22, <1>23, <1>24, <1>25, <1>26, <1>27, <1>28, <1>29, <1>30 DEF Next, ClientStart, ClientContinue, TaskStep, LiftStep

(* The client's place and its request move together.                       *)
LEMMA ClientStep == TypeOK /\ ClientInv /\ [Next]_vars => ClientInv'
<1> SUFFICES ASSUME TypeOK /\ ClientInv, [Next]_vars PROVE ClientInv'
  OBVIOUS
<1> USE DEF TypeOK, ClientInv, sharedVars, clientVars, liftVars, taskVars
<1>1. ASSUME NEW lift \in BOOLEAN, ClearBegin(lift) PROVE ClientInv'
  BY <1>1, LiftsAssumption DEF ClearBegin
<1>2. ASSUME NEW r \in Requests, AsyncBegin(r) PROVE ClientInv'
  BY <1>2, LiftsAssumption DEF AsyncBegin
<1>3. ASSUME NEW r \in Requests, SyncBegin(r) PROVE ClientInv'
  BY <1>3, LiftsAssumption DEF SyncBegin
<1>4. ASSUME ClearLock PROVE ClientInv'
  BY <1>4, LiftsAssumption DEF ClearLock
<1>5. ASSUME ClearDrained PROVE ClientInv'
  BY <1>5, LiftsAssumption DEF ClearDrained
<1>6. ASSUME LiftSetBinary PROVE ClientInv'
  BY <1>6, LiftsAssumption DEF LiftSetBinary
<1>7. ASSUME LiftLaunch PROVE ClientInv'
  BY <1>7, LiftsAssumption DEF LiftLaunch
<1>8. ASSUME LiftAssigned PROVE ClientInv'
  BY <1>8, LiftsAssumption DEF LiftAssigned
<1>9. ASSUME AsyncTestLifting PROVE ClientInv'
  BY <1>9, LiftsAssumption DEF AsyncTestLifting, Reply
<1>10. ASSUME AsyncPush PROVE ClientInv'
  BY <1>10, LiftsAssumption DEF AsyncPush
<1>11. ASSUME AsyncTestReady PROVE ClientInv'
  BY <1>11, LiftsAssumption DEF AsyncTestReady, Reply
<1>12. ASSUME AsyncSetEmitting PROVE ClientInv'
  BY <1>12, LiftsAssumption DEF AsyncSetEmitting
<1>13. ASSUME AsyncLaunch PROVE ClientInv'
  BY <1>13, LiftsAssumption DEF AsyncLaunch
<1>14. ASSUME SyncReturn PROVE ClientInv'
  BY <1>14, LiftsAssumption DEF SyncReturn
<1>15. ASSUME NEW r \in Requests, TaskCheck(r) PROVE ClientInv'
  BY <1>15, LiftsAssumption DEF TaskCheck, Deliver
<1>16. ASSUME NEW r \in Requests, TaskLookup(r) PROVE ClientInv'
  BY <1>16, LiftsAssumption DEF TaskLookup, Deliver
<1>17. ASSUME NEW r \in Requests, TaskRun(r) PROVE ClientInv'
  BY <1>17, LiftsAssumption DEF TaskRun, Deliver
<1>18. ASSUME NEW r \in Requests, TaskInsert(r) PROVE ClientInv'
  BY <1>18, LiftsAssumption DEF TaskInsert, Deliver
<1>19. ASSUME NEW r \in Requests, TaskEmitted(r) PROVE ClientInv'
  BY <1>19, LiftsAssumption DEF TaskEmitted
<1>20. ASSUME NEW g \in Lifts, LiftStart(g) PROVE ClientInv'
  BY <1>20, LiftsAssumption DEF LiftStart, Goto
<1>21. ASSUME NEW g \in Lifts, LiftImport(g) PROVE ClientInv'
  BY <1>21, LiftsAssumption DEF LiftImport, Goto, Outcomes
<1>22. ASSUME NEW g \in Lifts, LiftDetect(g) PROVE ClientInv'
  BY <1>22, LiftsAssumption DEF LiftDetect, Goto, Outcomes
<1>23. ASSUME NEW g \in Lifts, LiftCheck(g) PROVE ClientInv'
  BY <1>23, LiftsAssumption DEF LiftCheck, Goto
<1>24. ASSUME NEW g \in Lifts, LiftReady(g) PROVE ClientInv'
  BY <1>24, LiftsAssumption DEF LiftReady, Goto
<1>25. ASSUME NEW g \in Lifts, LiftFlush(g) PROVE ClientInv'
  BY <1>25, LiftsAssumption DEF LiftFlush, Goto
<1>26. ASSUME NEW g \in Lifts, LiftLaunchPending(g) PROVE ClientInv'
  BY <1>26, LiftsAssumption DEF LiftLaunchPending
<1>27. ASSUME NEW g \in Lifts, LiftFlushed(g) PROVE ClientInv'
  BY <1>27, LiftsAssumption DEF LiftFlushed, Goto
<1>28. ASSUME NEW g \in Lifts, LiftError(g) PROVE ClientInv'
  BY <1>28, LiftsAssumption DEF LiftError, Goto
<1>29. ASSUME NEW g \in Lifts, LiftCallback(g) PROVE ClientInv'
  BY <1>29, LiftsAssumption DEF LiftCallback, Goto
<1>30. ASSUME UNCHANGED vars PROVE ClientInv'
  BY <1>30 DEF vars
<1>31. QED
  BY <1>1, <1>2, <1>3, <1>4, <1>5, <1>6, <1>7, <1>8, <1>9, <1>10, <1>11, <1>12, <1>13, <1>14, <1>15, <1>16, <1>17, <1>18, <1>19, <1>20, <1>21, <1>22, <1>23, <1>24, <1>25, <1>26, <1>27, <1>28, <1>29, <1>30 DEF Next, ClientStart, ClientContinue, TaskStep, LiftStep

(* A thread enters m_decompile_futures as it starts and leaves it when it  *)
(* has ended.                                                              *)
LEMMA DetachedStep == TypeOK /\ ClientInv /\ NoDetachedThread /\ [Next]_vars => NoDetachedThread'
<1> SUFFICES ASSUME TypeOK /\ ClientInv /\ NoDetachedThread, [Next]_vars PROVE NoDetachedThread'
  OBVIOUS
<1> USE DEF TypeOK, ClientInv, NoDetachedThread, Active, sharedVars, clientVars, liftVars, taskVars
<1>1. ASSUME NEW lift \in BOOLEAN, ClearBegin(lift) PROVE NoDetachedThread'
  BY <1>1 DEF ClearBegin
<1>2. ASSUME NEW r \in Requests, AsyncBegin(r) PROVE NoDetachedThread'
  BY <1>2 DEF AsyncBegin
<1>3. ASSUME NEW r \in Requests, SyncBegin(r) PROVE NoDetachedThread'
  BY <1>3 DEF SyncBegin
<1>4. ASSUME ClearLock PROVE NoDetachedThread'
  BY <1>4 DEF ClearLock
<1>5. ASSUME ClearDrained PROVE NoDetachedThread'
  BY <1>5 DEF ClearDrained
<1>6. ASSUME LiftSetBinary PROVE NoDetachedThread'
  BY <1>6 DEF LiftSetBinary
<1>7. ASSUME LiftLaunch PROVE NoDetachedThread'
  BY <1>7 DEF LiftLaunch
<1>8. ASSUME LiftAssigned PROVE NoDetachedThread'
  BY <1>8 DEF LiftAssigned
<1>9. ASSUME AsyncTestLifting PROVE NoDetachedThread'
  BY <1>9 DEF AsyncTestLifting, Reply
<1>10. ASSUME AsyncPush PROVE NoDetachedThread'
  BY <1>10 DEF AsyncPush
<1>11. ASSUME AsyncTestReady PROVE NoDetachedThread'
  BY <1>11 DEF AsyncTestReady, Reply
<1>12. ASSUME AsyncSetEmitting PROVE NoDetachedThread'
  BY <1>12 DEF AsyncSetEmitting
<1>13. ASSUME AsyncLaunch PROVE NoDetachedThread'
  BY <1>13 DEF AsyncLaunch
<1>14. ASSUME SyncReturn PROVE NoDetachedThread'
  BY <1>14 DEF SyncReturn
<1>15. ASSUME NEW r \in Requests, TaskCheck(r) PROVE NoDetachedThread'
  BY <1>15 DEF TaskCheck, Deliver
<1>16. ASSUME NEW r \in Requests, TaskLookup(r) PROVE NoDetachedThread'
  BY <1>16 DEF TaskLookup, Deliver
<1>17. ASSUME NEW r \in Requests, TaskRun(r) PROVE NoDetachedThread'
  BY <1>17 DEF TaskRun, Deliver
<1>18. ASSUME NEW r \in Requests, TaskInsert(r) PROVE NoDetachedThread'
  BY <1>18 DEF TaskInsert, Deliver
<1>19. ASSUME NEW r \in Requests, TaskEmitted(r) PROVE NoDetachedThread'
  BY <1>19 DEF TaskEmitted
<1>20. ASSUME NEW g \in Lifts, LiftStart(g) PROVE NoDetachedThread'
  BY <1>20 DEF LiftStart, Goto
<1>21. ASSUME NEW g \in Lifts, LiftImport(g) PROVE NoDetachedThread'
  BY <1>21 DEF LiftImport, Goto, Outcomes
<1>22. ASSUME NEW g \in Lifts, LiftDetect(g) PROVE NoDetachedThread'
  BY <1>22 DEF LiftDetect, Goto, Outcomes
<1>23. ASSUME NEW g \in Lifts, LiftCheck(g) PROVE NoDetachedThread'
  BY <1>23 DEF LiftCheck, Goto
<1>24. ASSUME NEW g \in Lifts, LiftReady(g) PROVE NoDetachedThread'
  BY <1>24 DEF LiftReady, Goto
<1>25. ASSUME NEW g \in Lifts, LiftFlush(g) PROVE NoDetachedThread'
  BY <1>25 DEF LiftFlush, Goto
<1>26. ASSUME NEW g \in Lifts, LiftLaunchPending(g) PROVE NoDetachedThread'
  BY <1>26, BatchHead DEF LiftLaunchPending
<1>27. ASSUME NEW g \in Lifts, LiftFlushed(g) PROVE NoDetachedThread'
  BY <1>27 DEF LiftFlushed, Goto
<1>28. ASSUME NEW g \in Lifts, LiftError(g) PROVE NoDetachedThread'
  BY <1>28 DEF LiftError, Goto
<1>29. ASSUME NEW g \in Lifts, LiftCallback(g) PROVE NoDetachedThread'
  BY <1>29 DEF LiftCallback, Goto
<1>30. ASSUME UNCHANGED vars PROVE NoDetachedThread'
  BY <1>30 DEF vars
<1>31. QED
  BY <1>1, <1>2, <1>3, <1>4, <1>5, <1>6, <1>7, <1>8, <1>9, <1>10, <1>11, <1>12, <1>13, <1>14, <1>15, <1>16, <1>17, <1>18, <1>19, <1>20, <1>21, <1>22, <1>23, <1>24, <1>25, <1>26, <1>27, <1>28, <1>29, <1>30 DEF Next, ClientStart, ClientContinue, TaskStep, LiftStep

(* One lift starts at a time, and lift_async returns when the one before   *)
(* has ended.                                                              *)
LEMMA SupersededStep == TypeOK /\ ClientInv /\ SupersededLiftEnds /\ [Next]_vars => SupersededLiftEnds'
<1> SUFFICES ASSUME TypeOK /\ ClientInv /\ SupersededLiftEnds, [Next]_vars PROVE SupersededLiftEnds'
  OBVIOUS
<1> USE DEF TypeOK, ClientInv, SupersededLiftEnds, Alive, Lifts, sharedVars, clientVars, liftVars, taskVars
<1>1. ASSUME NEW lift \in BOOLEAN, ClearBegin(lift) PROVE SupersededLiftEnds'
  BY <1>1, LiftsAssumption DEF ClearBegin
<1>2. ASSUME NEW r \in Requests, AsyncBegin(r) PROVE SupersededLiftEnds'
  BY <1>2, LiftsAssumption DEF AsyncBegin
<1>3. ASSUME NEW r \in Requests, SyncBegin(r) PROVE SupersededLiftEnds'
  BY <1>3, LiftsAssumption DEF SyncBegin
<1>4. ASSUME ClearLock PROVE SupersededLiftEnds'
  BY <1>4, LiftsAssumption DEF ClearLock
<1>5. ASSUME ClearDrained PROVE SupersededLiftEnds'
  BY <1>5, LiftsAssumption DEF ClearDrained
<1>6. ASSUME LiftSetBinary PROVE SupersededLiftEnds'
  BY <1>6, LiftsAssumption DEF LiftSetBinary
<1>7. ASSUME LiftLaunch PROVE SupersededLiftEnds'
  <2>1. cpc = "launch lift" /\ gen' = gen + 1 /\ cpc' = "assign"
    BY <1>7 DEF LiftLaunch
  <2>2. Alive' \subseteq Alive \cup {gen + 1}
    BY <1>7 DEF LiftLaunch
  <2>3. Alive \subseteq {gen}
    BY <2>1
  <2>4. gen' - 1 = gen
    BY <2>1, Numbers
  <2>5. QED
    BY <2>1, <2>2, <2>3, <2>4
<1>8. ASSUME LiftAssigned PROVE SupersededLiftEnds'
  BY <1>8, LiftsAssumption DEF LiftAssigned
<1>9. ASSUME AsyncTestLifting PROVE SupersededLiftEnds'
  BY <1>9, LiftsAssumption DEF AsyncTestLifting, Reply
<1>10. ASSUME AsyncPush PROVE SupersededLiftEnds'
  BY <1>10, LiftsAssumption DEF AsyncPush
<1>11. ASSUME AsyncTestReady PROVE SupersededLiftEnds'
  BY <1>11, LiftsAssumption DEF AsyncTestReady, Reply
<1>12. ASSUME AsyncSetEmitting PROVE SupersededLiftEnds'
  BY <1>12, LiftsAssumption DEF AsyncSetEmitting
<1>13. ASSUME AsyncLaunch PROVE SupersededLiftEnds'
  BY <1>13, LiftsAssumption DEF AsyncLaunch
<1>14. ASSUME SyncReturn PROVE SupersededLiftEnds'
  BY <1>14, LiftsAssumption DEF SyncReturn
<1>15. ASSUME NEW r \in Requests, TaskCheck(r) PROVE SupersededLiftEnds'
  BY <1>15, LiftsAssumption DEF TaskCheck, Deliver
<1>16. ASSUME NEW r \in Requests, TaskLookup(r) PROVE SupersededLiftEnds'
  BY <1>16, LiftsAssumption DEF TaskLookup, Deliver
<1>17. ASSUME NEW r \in Requests, TaskRun(r) PROVE SupersededLiftEnds'
  BY <1>17, LiftsAssumption DEF TaskRun, Deliver
<1>18. ASSUME NEW r \in Requests, TaskInsert(r) PROVE SupersededLiftEnds'
  BY <1>18, LiftsAssumption DEF TaskInsert, Deliver
<1>19. ASSUME NEW r \in Requests, TaskEmitted(r) PROVE SupersededLiftEnds'
  BY <1>19, LiftsAssumption DEF TaskEmitted
<1>20. ASSUME NEW g \in Lifts, LiftStart(g) PROVE SupersededLiftEnds'
  BY <1>20, LiftsAssumption DEF LiftStart, Goto
<1>21. ASSUME NEW g \in Lifts, LiftImport(g) PROVE SupersededLiftEnds'
  BY <1>21, LiftsAssumption DEF LiftImport, Goto, Outcomes
<1>22. ASSUME NEW g \in Lifts, LiftDetect(g) PROVE SupersededLiftEnds'
  BY <1>22, LiftsAssumption DEF LiftDetect, Goto, Outcomes
<1>23. ASSUME NEW g \in Lifts, LiftCheck(g) PROVE SupersededLiftEnds'
  BY <1>23, LiftsAssumption DEF LiftCheck, Goto
<1>24. ASSUME NEW g \in Lifts, LiftReady(g) PROVE SupersededLiftEnds'
  BY <1>24, LiftsAssumption DEF LiftReady, Goto
<1>25. ASSUME NEW g \in Lifts, LiftFlush(g) PROVE SupersededLiftEnds'
  BY <1>25, LiftsAssumption DEF LiftFlush, Goto
<1>26. ASSUME NEW g \in Lifts, LiftLaunchPending(g) PROVE SupersededLiftEnds'
  BY <1>26, LiftsAssumption DEF LiftLaunchPending
<1>27. ASSUME NEW g \in Lifts, LiftFlushed(g) PROVE SupersededLiftEnds'
  BY <1>27, LiftsAssumption DEF LiftFlushed, Goto
<1>28. ASSUME NEW g \in Lifts, LiftError(g) PROVE SupersededLiftEnds'
  BY <1>28, LiftsAssumption DEF LiftError, Goto
<1>29. ASSUME NEW g \in Lifts, LiftCallback(g) PROVE SupersededLiftEnds'
  BY <1>29, LiftsAssumption DEF LiftCallback, Goto
<1>30. ASSUME UNCHANGED vars PROVE SupersededLiftEnds'
  BY <1>30 DEF vars
<1>31. QED
  BY <1>1, <1>2, <1>3, <1>4, <1>5, <1>6, <1>7, <1>8, <1>9, <1>10, <1>11, <1>12, <1>13, <1>14, <1>15, <1>16, <1>17, <1>18, <1>19, <1>20, <1>21, <1>22, <1>23, <1>24, <1>25, <1>26, <1>27, <1>28, <1>29, <1>30 DEF Next, ClientStart, ClientContinue, TaskStep, LiftStep

(* Until work is in flight at a lift or a clear, the cache is fresh.       *)
LEMMA FreshStep == TypeOK /\ ClientInv /\ QuietCacheFresh /\ FreshInv /\ [Next]_vars => (QuietCacheFresh /\ FreshInv)'
<1> SUFFICES ASSUME TypeOK /\ ClientInv /\ QuietCacheFresh /\ FreshInv, [Next]_vars PROVE (QuietCacheFresh /\ FreshInv)'
  OBVIOUS
<1> USE DEF TypeOK, QuietCacheFresh, FreshInv, Active, Alive, sharedVars, clientVars, liftVars, taskVars
<1>1. ASSUME NEW lift \in BOOLEAN, ClearBegin(lift) PROVE (QuietCacheFresh /\ FreshInv)'
  BY <1>1 DEF ClearBegin
<1>2. ASSUME NEW r \in Requests, AsyncBegin(r) PROVE (QuietCacheFresh /\ FreshInv)'
  BY <1>2 DEF AsyncBegin
<1>3. ASSUME NEW r \in Requests, SyncBegin(r) PROVE (QuietCacheFresh /\ FreshInv)'
  BY <1>3 DEF SyncBegin
<1>4. ASSUME ClearLock PROVE (QuietCacheFresh /\ FreshInv)'
  BY <1>4 DEF ClearLock
<1>5. ASSUME ClearDrained PROVE (QuietCacheFresh /\ FreshInv)'
  BY <1>5 DEF ClearDrained
<1>6. ASSUME LiftSetBinary PROVE (QuietCacheFresh /\ FreshInv)'
  BY <1>6 DEF LiftSetBinary
<1>7. ASSUME LiftLaunch PROVE (QuietCacheFresh /\ FreshInv)'
  BY <1>7 DEF LiftLaunch
<1>8. ASSUME LiftAssigned PROVE (QuietCacheFresh /\ FreshInv)'
  BY <1>8 DEF LiftAssigned
<1>9. ASSUME AsyncTestLifting PROVE (QuietCacheFresh /\ FreshInv)'
  BY <1>9 DEF AsyncTestLifting, Reply
<1>10. ASSUME AsyncPush PROVE (QuietCacheFresh /\ FreshInv)'
  BY <1>10 DEF AsyncPush
<1>11. ASSUME AsyncTestReady PROVE (QuietCacheFresh /\ FreshInv)'
  BY <1>11 DEF AsyncTestReady, Reply
<1>12. ASSUME AsyncSetEmitting PROVE (QuietCacheFresh /\ FreshInv)'
  BY <1>12 DEF AsyncSetEmitting
<1>13. ASSUME AsyncLaunch PROVE (QuietCacheFresh /\ FreshInv)'
  BY <1>13 DEF AsyncLaunch
<1>14. ASSUME SyncReturn PROVE (QuietCacheFresh /\ FreshInv)'
  BY <1>14 DEF SyncReturn
<1>15. ASSUME NEW r \in Requests, TaskCheck(r) PROVE (QuietCacheFresh /\ FreshInv)'
  BY <1>15 DEF TaskCheck, Deliver
<1>16. ASSUME NEW r \in Requests, TaskLookup(r) PROVE (QuietCacheFresh /\ FreshInv)'
  BY <1>16 DEF TaskLookup, Deliver
<1>17. ASSUME NEW r \in Requests, TaskRun(r) PROVE (QuietCacheFresh /\ FreshInv)'
  BY <1>17 DEF TaskRun, Deliver
<1>18. ASSUME NEW r \in Requests, TaskInsert(r) PROVE (QuietCacheFresh /\ FreshInv)'
  BY <1>18 DEF TaskInsert, Deliver
<1>19. ASSUME NEW r \in Requests, TaskEmitted(r) PROVE (QuietCacheFresh /\ FreshInv)'
  BY <1>19 DEF TaskEmitted
<1>20. ASSUME NEW g \in Lifts, LiftStart(g) PROVE (QuietCacheFresh /\ FreshInv)'
  BY <1>20 DEF LiftStart, Goto
<1>21. ASSUME NEW g \in Lifts, LiftImport(g) PROVE (QuietCacheFresh /\ FreshInv)'
  BY <1>21 DEF LiftImport, Goto, Outcomes
<1>22. ASSUME NEW g \in Lifts, LiftDetect(g) PROVE (QuietCacheFresh /\ FreshInv)'
  BY <1>22 DEF LiftDetect, Goto, Outcomes
<1>23. ASSUME NEW g \in Lifts, LiftCheck(g) PROVE (QuietCacheFresh /\ FreshInv)'
  BY <1>23 DEF LiftCheck, Goto
<1>24. ASSUME NEW g \in Lifts, LiftReady(g) PROVE (QuietCacheFresh /\ FreshInv)'
  BY <1>24 DEF LiftReady, Goto
<1>25. ASSUME NEW g \in Lifts, LiftFlush(g) PROVE (QuietCacheFresh /\ FreshInv)'
  BY <1>25 DEF LiftFlush, Goto
<1>26. ASSUME NEW g \in Lifts, LiftLaunchPending(g) PROVE (QuietCacheFresh /\ FreshInv)'
  BY <1>26, BatchHead DEF LiftLaunchPending
<1>27. ASSUME NEW g \in Lifts, LiftFlushed(g) PROVE (QuietCacheFresh /\ FreshInv)'
  BY <1>27 DEF LiftFlushed, Goto
<1>28. ASSUME NEW g \in Lifts, LiftError(g) PROVE (QuietCacheFresh /\ FreshInv)'
  BY <1>28 DEF LiftError, Goto
<1>29. ASSUME NEW g \in Lifts, LiftCallback(g) PROVE (QuietCacheFresh /\ FreshInv)'
  BY <1>29 DEF LiftCallback, Goto
<1>30. ASSUME UNCHANGED vars PROVE (QuietCacheFresh /\ FreshInv)'
  BY <1>30 DEF vars
<1>31. QED
  BY <1>1, <1>2, <1>3, <1>4, <1>5, <1>6, <1>7, <1>8, <1>9, <1>10, <1>11, <1>12, <1>13, <1>14, <1>15, <1>16, <1>17, <1>18, <1>19, <1>20, <1>21, <1>22, <1>23, <1>24, <1>25, <1>26, <1>27, <1>28, <1>29, <1>30 DEF Next, ClientStart, ClientContinue, TaskStep, LiftStep

(* Every step keeps what sets m_state.                                     *)
LEMMA GraphStep == TypeOK /\ ClientInv /\ GraphInv /\ [Next]_vars => GraphInv'
<1> SUFFICES ASSUME TypeOK /\ ClientInv /\ GraphInv, [Next]_vars PROVE GraphInv'
  OBVIOUS
<1> USE DEF TypeOK, ClientInv, GraphInv, Emits, sharedVars, clientVars, liftVars, taskVars
<1>1. ASSUME NEW lift \in BOOLEAN, ClearBegin(lift) PROVE GraphInv'
  BY <1>1 DEF ClearBegin
<1>2. ASSUME NEW r \in Requests, AsyncBegin(r) PROVE GraphInv'
  BY <1>2 DEF AsyncBegin
<1>3. ASSUME NEW r \in Requests, SyncBegin(r) PROVE GraphInv'
  BY <1>3 DEF SyncBegin
<1>4. ASSUME ClearLock PROVE GraphInv'
  BY <1>4 DEF ClearLock
<1>5. ASSUME ClearDrained PROVE GraphInv'
  BY <1>5 DEF ClearDrained
<1>6. ASSUME LiftSetBinary PROVE GraphInv'
  BY <1>6 DEF LiftSetBinary
<1>7. ASSUME LiftLaunch PROVE GraphInv'
  BY <1>7 DEF LiftLaunch
<1>8. ASSUME LiftAssigned PROVE GraphInv'
  BY <1>8 DEF LiftAssigned
<1>9. ASSUME AsyncTestLifting PROVE GraphInv'
  BY <1>9 DEF AsyncTestLifting, Reply
<1>10. ASSUME AsyncPush PROVE GraphInv'
  BY <1>10 DEF AsyncPush
<1>11. ASSUME AsyncTestReady PROVE GraphInv'
  BY <1>11 DEF AsyncTestReady, Reply
<1>12. ASSUME AsyncSetEmitting PROVE GraphInv'
  BY <1>12 DEF AsyncSetEmitting
<1>13. ASSUME AsyncLaunch PROVE GraphInv'
  BY <1>13 DEF AsyncLaunch
<1>14. ASSUME SyncReturn PROVE GraphInv'
  BY <1>14 DEF SyncReturn
<1>15. ASSUME NEW r \in Requests, TaskCheck(r) PROVE GraphInv'
  BY <1>15 DEF TaskCheck, Deliver
<1>16. ASSUME NEW r \in Requests, TaskLookup(r) PROVE GraphInv'
  BY <1>16 DEF TaskLookup, Deliver
<1>17. ASSUME NEW r \in Requests, TaskRun(r) PROVE GraphInv'
  BY <1>17 DEF TaskRun, Deliver
<1>18. ASSUME NEW r \in Requests, TaskInsert(r) PROVE GraphInv'
  BY <1>18 DEF TaskInsert, Deliver
<1>19. ASSUME NEW r \in Requests, TaskEmitted(r) PROVE GraphInv'
  BY <1>19 DEF TaskEmitted
<1>20. ASSUME NEW g \in Lifts, LiftStart(g) PROVE GraphInv'
  BY <1>20 DEF LiftStart, Goto
<1>21. ASSUME NEW g \in Lifts, LiftImport(g) PROVE GraphInv'
  BY <1>21 DEF LiftImport, Goto, Outcomes
<1>22. ASSUME NEW g \in Lifts, LiftDetect(g) PROVE GraphInv'
  BY <1>22 DEF LiftDetect, Goto, Outcomes
<1>23. ASSUME NEW g \in Lifts, LiftCheck(g) PROVE GraphInv'
  BY <1>23 DEF LiftCheck, Goto
<1>24. ASSUME NEW g \in Lifts, LiftReady(g) PROVE GraphInv'
  BY <1>24 DEF LiftReady, Goto
<1>25. ASSUME NEW g \in Lifts, LiftFlush(g) PROVE GraphInv'
  BY <1>25 DEF LiftFlush, Goto
<1>26. ASSUME NEW g \in Lifts, LiftLaunchPending(g) PROVE GraphInv'
  BY <1>26, BatchHead DEF LiftLaunchPending
<1>27. ASSUME NEW g \in Lifts, LiftFlushed(g) PROVE GraphInv'
  BY <1>27 DEF LiftFlushed, Goto
<1>28. ASSUME NEW g \in Lifts, LiftError(g) PROVE GraphInv'
  BY <1>28 DEF LiftError, Goto
<1>29. ASSUME NEW g \in Lifts, LiftCallback(g) PROVE GraphInv'
  BY <1>29 DEF LiftCallback, Goto
<1>30. ASSUME UNCHANGED vars PROVE GraphInv'
  BY <1>30 DEF vars
<1>31. QED
  BY <1>1, <1>2, <1>3, <1>4, <1>5, <1>6, <1>7, <1>8, <1>9, <1>10, <1>11, <1>12, <1>13, <1>14, <1>15, <1>16, <1>17, <1>18, <1>19, <1>20, <1>21, <1>22, <1>23, <1>24, <1>25, <1>26, <1>27, <1>28, <1>29, <1>30 DEF Next, ClientStart, ClientContinue, TaskStep, LiftStep

(* Until work is in flight at a lift or a clear, a decompiler that is      *)
(* ready has been lifted by the latest lift.                               *)
LEMMA LiftedStep == TypeOK /\ ClientInv /\ GraphInv /\ LiftedInv /\ [Next]_vars => LiftedInv'
<1> SUFFICES ASSUME TypeOK /\ ClientInv /\ GraphInv /\ LiftedInv, [Next]_vars PROVE LiftedInv'
  OBVIOUS
<1> USE DEF TypeOK, ClientInv, GraphInv, LiftedInv, PastLift, LatestLifted, Active, Alive, Emits, sharedVars, clientVars, liftVars, taskVars
<1>1. ASSUME NEW lift \in BOOLEAN, ClearBegin(lift) PROVE LiftedInv'
  BY <1>1, RequestsAssumption DEF ClearBegin
<1>2. ASSUME NEW r \in Requests, AsyncBegin(r) PROVE LiftedInv'
  BY <1>2, RequestsAssumption DEF AsyncBegin
<1>3. ASSUME NEW r \in Requests, SyncBegin(r) PROVE LiftedInv'
  BY <1>3, RequestsAssumption DEF SyncBegin
<1>4. ASSUME ClearLock PROVE LiftedInv'
  BY <1>4, RequestsAssumption DEF ClearLock
<1>5. ASSUME ClearDrained PROVE LiftedInv'
  BY <1>5, RequestsAssumption DEF ClearDrained
<1>6. ASSUME LiftSetBinary PROVE LiftedInv'
  BY <1>6, RequestsAssumption DEF LiftSetBinary
<1>7. ASSUME LiftLaunch PROVE LiftedInv'
  <2> SUFFICES ASSUME ExitChecked, quiet PROVE LiftedInv'
    BY <1>7 DEF LiftLaunch
  <2>1. /\ cpc = "launch lift" /\ cpc' = "assign" /\ gen' = gen + 1
        /\ lpc' = [lpc EXCEPT ![gen + 1] = "start"]
        /\ UNCHANGED <<state, binary, creq, lifted, tpc>>
    BY <1>7 DEF LiftLaunch
  <2>2. Active = {} /\ Alive = {} /\ state = "Lifting" /\ binary = gen + 1
    <3>1. binary = gen + 1
      BY <2>1
    <3>2. QED
      BY <2>1, <3>1
  <2>3. Alive' \subseteq {gen'} /\ Active' = {}
    BY <2>1, <2>2
  <2>4. \A g \in Lifts :
          lpc'[g] \in {"abi", "check", "ready", "flush", "launch", "cb"} => g \in lifted'
    BY <2>1
  <2>5. ~PastLift'
    BY <2>1, <2>2, <2>3
  <2>6. QED
    BY <2>1, <2>2, <2>3, <2>4, <2>5
<1>8. ASSUME LiftAssigned PROVE LiftedInv'
  BY <1>8, RequestsAssumption DEF LiftAssigned
<1>9. ASSUME AsyncTestLifting PROVE LiftedInv'
  BY <1>9, RequestsAssumption DEF AsyncTestLifting, Reply
<1>10. ASSUME AsyncPush PROVE LiftedInv'
  BY <1>10, RequestsAssumption DEF AsyncPush
<1>11. ASSUME AsyncTestReady PROVE LiftedInv'
  BY <1>11, RequestsAssumption DEF AsyncTestReady, Reply
<1>12. ASSUME AsyncSetEmitting PROVE LiftedInv'
  <2>1. /\ cpc = "emit" /\ cpc' = "launch"
        /\ UNCHANGED <<binary, gen, creq, lpc, lifted, tpc, quiet>>
    BY <1>12 DEF AsyncSetEmitting
  <2>2. ExitChecked /\ quiet => LatestLifted'
    <3>1. Emits(creq)
      BY <2>1
    <3>2. QED
      BY <2>1, <3>1
  <2>3. QED
    BY <2>1, <2>2
<1>13. ASSUME AsyncLaunch PROVE LiftedInv'
  BY <1>13, RequestsAssumption DEF AsyncLaunch
<1>14. ASSUME SyncReturn PROVE LiftedInv'
  BY <1>14, RequestsAssumption DEF SyncReturn
<1>15. ASSUME NEW r \in Requests, TaskCheck(r) PROVE LiftedInv'
  BY <1>15, RequestsAssumption DEF TaskCheck, Deliver
<1>16. ASSUME NEW r \in Requests, TaskLookup(r) PROVE LiftedInv'
  BY <1>16, RequestsAssumption DEF TaskLookup, Deliver
<1>17. ASSUME NEW r \in Requests, TaskRun(r) PROVE LiftedInv'
  BY <1>17, RequestsAssumption, ZenonT(60) DEF TaskRun, Deliver
<1>18. ASSUME NEW r \in Requests, TaskInsert(r) PROVE LiftedInv'
  BY <1>18, RequestsAssumption DEF TaskInsert, Deliver
<1>19. ASSUME NEW r \in Requests, TaskEmitted(r) PROVE LiftedInv'
  <2>1. /\ tpc[r] = "emitted" /\ tpc' = [tpc EXCEPT ![r] = "done"]
        /\ UNCHANGED <<binary, gen, cpc, creq, lpc, lifted, quiet>>
    BY <1>19 DEF TaskEmitted
  <2>2. Active' \subseteq Active /\ r \in Active
    BY <2>1
  <2>3. ExitChecked /\ quiet => LatestLifted'
    <3>1. Emits(r)
      BY <2>1
    <3>2. QED
      BY <2>1, <2>2, <3>1
  <2>4. QED
    BY <2>1, <2>2, <2>3
<1>20. ASSUME NEW g \in Lifts, LiftStart(g) PROVE LiftedInv'
  BY <1>20, RequestsAssumption, ZenonT(60) DEF LiftStart, Goto
<1>21. ASSUME NEW g \in Lifts, LiftImport(g) PROVE LiftedInv'
  BY <1>21, RequestsAssumption, ZenonT(60) DEF LiftImport, Goto, Outcomes
<1>22. ASSUME NEW g \in Lifts, LiftDetect(g) PROVE LiftedInv'
  <2> SUFFICES ASSUME ExitChecked, quiet PROVE LiftedInv'
    BY <1>22 DEF LiftDetect
  <2>1. /\ lpc[g] = "abi"
        /\ UNCHANGED <<state, binary, gen, cpc, creq, tpc>>
    BY <1>22 DEF LiftDetect
  <2>2. g \in Alive /\ Alive \subseteq {gen} /\ g \in lifted
    BY <2>1
  <2>3. ~PastLift /\ cpc # "launch lift"
    BY <2>1, <2>2
  <2>4. CASE lpc' = [lpc EXCEPT ![g] = "check"] /\ lifted' = lifted
    BY <2>1, <2>2, <2>3, <2>4
  <2>5. CASE lpc' = [lpc EXCEPT ![g] = "failed"] /\ lifted' = lifted \ {g}
    <3>1. Alive' = Alive /\ Active' = Active /\ ~PastLift'
      BY <2>1, <2>2, <2>3, <2>5
    <3>2. \A h \in Lifts :
            lpc'[h] \in {"abi", "check", "ready", "flush", "launch", "cb"} => h \in lifted'
      BY <2>5
    <3>3. QED
      BY <2>1, <2>2, <2>3, <3>1, <3>2
  <2>6. QED
    BY <1>22, <2>4, <2>5 DEF LiftDetect, Goto, Outcomes
<1>23. ASSUME NEW g \in Lifts, LiftCheck(g) PROVE LiftedInv'
  BY <1>23, RequestsAssumption DEF LiftCheck, Goto
<1>24. ASSUME NEW g \in Lifts, LiftReady(g) PROVE LiftedInv'
  <2>1. /\ lpc[g] = "ready" /\ lpc' = [lpc EXCEPT ![g] = "flush"]
        /\ UNCHANGED <<binary, gen, cpc, creq, lifted, tpc, quiet>>
    BY <1>24 DEF LiftReady, Goto
  <2>2. g \in Alive /\ Alive' = Alive /\ Active' = Active
    BY <2>1
  <2>3. ExitChecked /\ quiet => g = gen /\ g \in lifted
    BY <2>1, <2>2
  <2>4. ExitChecked /\ quiet => LatestLifted'
    BY <2>1, <2>3
  <2>5. ExitChecked /\ quiet => cpc # "launch lift"
    BY <2>2
  <2>6. QED
    BY ZenonT(60), <2>1, <2>2, <2>4, <2>5
<1>25. ASSUME NEW g \in Lifts, LiftFlush(g) PROVE LiftedInv'
  BY <1>25, RequestsAssumption DEF LiftFlush, Goto
<1>26. ASSUME NEW g \in Lifts, LiftLaunchPending(g) PROVE LiftedInv'
  BY <1>26, RequestsAssumption DEF LiftLaunchPending
<1>27. ASSUME NEW g \in Lifts, LiftFlushed(g) PROVE LiftedInv'
  BY <1>27, RequestsAssumption DEF LiftFlushed, Goto
<1>28. ASSUME NEW g \in Lifts, LiftError(g) PROVE LiftedInv'
  BY <1>28, RequestsAssumption DEF LiftError, Goto
<1>29. ASSUME NEW g \in Lifts, LiftCallback(g) PROVE LiftedInv'
  BY <1>29, RequestsAssumption DEF LiftCallback, Goto
<1>30. ASSUME UNCHANGED vars PROVE LiftedInv'
  BY <1>30, RequestsAssumption DEF vars
<1>31. QED
  BY <1>1, <1>2, <1>3, <1>4, <1>5, <1>6, <1>7, <1>8, <1>9, <1>10, <1>11, <1>12, <1>13, <1>14, <1>15, <1>16, <1>17, <1>18, <1>19, <1>20, <1>21, <1>22, <1>23, <1>24, <1>25, <1>26, <1>27, <1>28, <1>29, <1>30 DEF Next, ClientStart, ClientContinue, TaskStep, LiftStep

-----------------------------------------------------------------------------
(* A step in which what waits goes on waiting, or the client lets go of it *)
(* while the queues stay as they are, puts nothing in two places.          *)
LEMMA QueuesKept ==
    ASSUME TypeOK, QueuesInv, UNCHANGED <<pending, lbatch>>,
           \A q \in Requests : Held(q)' => Held(q),
           \A q \in Requests : Waits(q) => Waits(q)' \/ (Held(q) /\ ~Held(q)')
    PROVE  QueuesInv'
<1>1. ASSUME NEW r \in Requests, Held(r)' PROVE Waits(r)'
  <2>1. Held(r) /\ Waits(r)
    BY <1>1 DEF QueuesInv, HeldInv, PendingInv, BatchInv
  <2>2. QED
    BY <1>1, <2>1
<1>2. ASSUME NEW r \in Requests, Waits(r), ~Held(r) PROVE Waits(r)' /\ ~Held(r)'
  BY <1>2
<1>3. /\ \A k \in 1 .. Len(pending) : pending[k] \in Requests
      /\ \A g \in Lifts : \A k \in 1 .. Len(lbatch[g]) : lbatch[g][k] \in Requests
  <2>1. pending \in Seq(Requests)
    BY DEF TypeOK
  <2>2. \A g \in Lifts : lbatch[g] \in Seq(Requests)
    BY DEF TypeOK
  <2>3. QED
    BY <2>1, <2>2, ElementOfSeq
<1>4. ASSUME NEW k \in 1 .. Len(pending)
      PROVE  Waits(pending[k])' /\ ~Held(pending[k])'
  <2>1. PICK r \in Requests : r = pending[k]
    BY <1>3
  <2>2. Waits(r)' /\ ~Held(r)'
    BY <1>2, <2>1 DEF QueuesInv, HeldInv, PendingInv, BatchInv
  <2>3. QED
    BY <2>1, <2>2 DEF Waits, Held, Active
<1>5. ASSUME NEW g \in Lifts, NEW k \in 1 .. Len(lbatch[g])
      PROVE  Waits(lbatch[g][k])' /\ ~Held(lbatch[g][k])'
  <2>1. PICK r \in Requests : r = lbatch[g][k]
    BY <1>3
  <2>2. Waits(r)' /\ ~Held(r)'
    BY <1>2, <2>1 DEF QueuesInv, HeldInv, PendingInv, BatchInv
  <2>3. QED
    BY <2>1, <2>2 DEF Waits, Held, Active
<1>6. QED
  BY <1>1, <1>4, <1>5 DEF QueuesInv, HeldInv, PendingInv, BatchInv

(* So no request is in two places: each place it could be in besides       *)
(* excludes all the others.                                                *)
LEMMA OnePlace == TypeOK /\ QueuesInv => RequestInOnePlace
<1> SUFFICES ASSUME TypeOK, QueuesInv, NEW r \in Requests
             PROVE  Cardinality(Places(r)) <= 1
  BY DEF RequestInOnePlace
<1> DEFINE Q == {<<"queue", 0, k>> : k \in {j \in 1 .. Len(pending) : pending[j] = r}}
           B(g) == {<<"lift", g, k>> : k \in {j \in 1 .. Len(lbatch[g]) : lbatch[g][j] = r}}
           C == {<<p, 0, 0>> : p \in {q \in {"client", "thread", "answered"} :
                   CASE q = "client" -> Held(r)
                     [] q = "thread" -> r \in Active
                     [] q = "answered" -> r \notin Active /\ answer[r] # "none"}}
<1>1. \A p \in Places(r) : p \in Q \/ (\E g \in Lifts : p \in B(g)) \/ p \in C
  <2> DEFINE U == UNION {B(g) : g \in Lifts}
  <2>1. Places(r) = Q \cup U \cup C
    BY DEF Places
  <2>2. ASSUME NEW p \in U PROVE \E g \in Lifts : p \in B(g)
    <3> HIDE DEF B
    <3>1. PICK S \in {B(g) : g \in Lifts} : p \in S
      BY <2>2, Zenon
    <3>2. QED
      BY <3>1, Zenon
  <2> HIDE DEF Q, B, C, U
  <2>3. QED
    BY <2>1, <2>2, Zenon
<1>2. ASSUME NEW p \in Q PROVE Waits(r) /\ ~Held(r) /\ \A q \in Places(r) : q = p
  <2>1. PICK k \in 1 .. Len(pending) : pending[k] = r /\ p = <<"queue", 0, k>>
    OBVIOUS
  <2>2. Waits(r) /\ ~Held(r)
    BY <2>1 DEF QueuesInv, HeldInv, PendingInv, BatchInv
  <2>3. \A q \in Q : q = p
    BY <2>1 DEF QueuesInv, HeldInv, PendingInv, BatchInv
  <2>4. ASSUME NEW g \in Lifts PROVE B(g) = {}
    BY <2>1 DEF QueuesInv, HeldInv, PendingInv, BatchInv
  <2>5. C = {}
    BY <2>2 DEF Waits
  <2>6. QED
    BY <1>1, <2>2, <2>3, <2>4, <2>5
<1>3. ASSUME NEW g \in Lifts, NEW p \in B(g), Q = {} PROVE \A q \in Places(r) : q = p
  <2>1. PICK k \in 1 .. Len(lbatch[g]) : lbatch[g][k] = r /\ p = <<"lift", g, k>>
    OBVIOUS
  <2>2. Waits(r) /\ ~Held(r)
    BY <2>1 DEF QueuesInv, HeldInv, PendingInv, BatchInv
  <2>3. ASSUME NEW h \in Lifts, NEW q \in B(h) PROVE q = p
    <3>1. PICK l \in 1 .. Len(lbatch[h]) : lbatch[h][l] = r /\ q = <<"lift", h, l>>
      OBVIOUS
    <3>2. g = h /\ k = l
      BY <2>1, <3>1 DEF QueuesInv, HeldInv, PendingInv, BatchInv
    <3>3. QED
      BY <2>1, <3>1, <3>2
  <2>4. C = {}
    BY <2>2 DEF Waits
  <2>5. QED
    BY <1>1, <1>3, <2>3, <2>4
<1>4. ASSUME NEW p \in C, NEW q \in C PROVE p = q
  <2>1. PICK c \in {"client", "thread", "answered"} :
          /\ p = <<c, 0, 0>>
          /\ CASE c = "client" -> Held(r)
               [] c = "thread" -> r \in Active
               [] c = "answered" -> r \notin Active /\ answer[r] # "none"
    OBVIOUS
  <2>2. PICK d \in {"client", "thread", "answered"} :
          /\ q = <<d, 0, 0>>
          /\ CASE d = "client" -> Held(r)
               [] d = "thread" -> r \in Active
               [] d = "answered" -> r \notin Active /\ answer[r] # "none"
    OBVIOUS
  <2>3. Held(r) => r \notin Active /\ answer[r] = "none"
    BY DEF QueuesInv, HeldInv, PendingInv, BatchInv, Waits
  <2>4. /\ c = "client" \/ d = "client" => Held(r)
        /\ c = "thread" \/ d = "thread" => r \in Active
        /\ c = "answered" \/ d = "answered" => r \notin Active /\ answer[r] # "none"
    BY <2>1, <2>2
  <2>5. c = d
    BY <2>3, <2>4
  <2>6. QED
    BY <2>1, <2>2, <2>5
<1>5. ASSUME NEW p \in Places(r), NEW q \in Places(r) PROVE p = q
  BY <1>1, <1>2, <1>3, <1>4
<1> HIDE DEF Q, B, C
<1>6. CASE Places(r) = {}
  BY <1>6, FS_EmptySet
<1>7. CASE Places(r) # {}
  <2>1. PICK p : Places(r) = {p}
    BY <1>5, <1>7
  <2>2. QED
    <3>1. Cardinality({p}) = 1
      BY FS_Singleton, Zenon
    <3>2. Cardinality(Places(r)) = 1
      BY <2>1, <3>1, Zenon
    <3>3. QED
      BY <3>2
<1>8. QED
  BY <1>6, <1>7

(* What flush_pending_queue takes from the front of its batch.             *)
LEMMA HeadAndRest ==
    ASSUME NEW S, NEW q \in Seq(S), q # << >>
    PROVE  /\ Len(q) \in Nat \ {0} /\ Head(q) = q[1] /\ Head(q) \in S
           /\ Len(Tail(q)) = Len(q) - 1
           /\ \A k \in 1 .. Len(q) - 1 : Tail(q)[k] = q[k + 1]
<1>1. Len(q) \in Nat \ {0} /\ Head(q) = q[1]
  BY EmptySeq
<1>2. QED
  BY <1>1, HeadTailProperties

(* A request that begins to wait, or goes on to another queue or to its    *)
(* thread, leaves the place where it was.                                  *)
LEMMA QueuesStep == TypeOK /\ ClientInv /\ QueuesInv /\ [Next]_vars => QueuesInv'
<1> SUFFICES ASSUME TypeOK, ClientInv, QueuesInv, [Next]_vars PROVE QueuesInv'
  OBVIOUS
<1> USE DEF sharedVars, clientVars, liftVars, taskVars
<1>1. /\ pending \in Seq(Requests) /\ lbatch \in [Lifts -> Seq(Requests)]
      /\ \A k \in 1 .. Len(pending) : pending[k] \in Requests
      /\ \A g \in Lifts : \A k \in 1 .. Len(lbatch[g]) : lbatch[g][k] \in Requests
  <2>1. pending \in Seq(Requests) /\ lbatch \in [Lifts -> Seq(Requests)]
    BY DEF TypeOK
  <2>2. QED
    BY <2>1, ElementOfSeq
<1>2. tpc \in [Requests -> {"unused", "check", "lookup", "run", "insert", "emitted", "done"}]
      /\ answer \in [Requests -> Answers]
  BY DEF TypeOK
(* The client moves on within its operation, or leaves it unanswered.      *)
<1>3. ASSUME UNCHANGED <<pending, lbatch, tpc, answer>>, \A q \in Requests : Held(q)' => Held(q)
      PROVE  QueuesInv'
  <2>1. \A q \in Requests : Waits(q) => Waits(q)'
    BY <1>3 DEF Waits, Active
  <2>2. QED
    BY <1>3, <2>1, QueuesKept
<1>4. ASSUME UNCHANGED <<pending, lbatch, tpc, answer, creq, cpc>> PROVE QueuesInv'
  BY <1>3, <1>4 DEF Held
(* A thread goes on or ends: what has a thread does not wait.              *)
<1>5. ASSUME NEW r \in Active, NEW l, NEW a, UNCHANGED <<pending, lbatch, creq, cpc>>,
             tpc' = [tpc EXCEPT ![r] = l],
             answer' = answer \/ answer' = [answer EXCEPT ![r] = a]
      PROVE  QueuesInv'
  <2>1. \A q \in Requests : Held(q)' => Held(q)
    BY <1>5 DEF Held
  <2>2. ASSUME NEW q \in Requests, Waits(q) PROVE Waits(q)'
    <3>1. q # r /\ r \in Requests
      BY <2>2 DEF Waits, Active
    <3>2. tpc'[q] = tpc[q] /\ answer'[q] = answer[q]
      BY <1>2, <1>5, <3>1
    <3>3. QED
      BY <2>2, <3>2 DEF Waits, Active
  <2>3. QED
    BY <1>5, <2>1, <2>2, QueuesKept
(* The client's request is answered or gets its thread.                    *)
<1>6. ASSUME NEW l, NEW a, UNCHANGED <<pending, lbatch>>, cpc' = "idle",
             creq \in Requests /\ Held(creq),
             \/ tpc' = [tpc EXCEPT ![creq] = l] /\ UNCHANGED answer
             \/ answer' = [answer EXCEPT ![creq] = a] /\ UNCHANGED tpc
      PROVE  QueuesInv'
  <2>1. \A q \in Requests : ~Held(q)'
    BY <1>6 DEF Held
  <2>2. ASSUME NEW q \in Requests, Waits(q) PROVE Waits(q)' \/ Held(q)
    <3>1. CASE q = creq
      BY <1>6, <3>1 DEF Held
    <3>2. CASE q # creq
      BY <1>2, <1>6, <2>2, <3>2 DEF Waits, Active
    <3>3. QED
      BY <3>1, <3>2
  <2>3. QED
    BY <1>6, <2>1, <2>2, QueuesKept
<1>7. ASSUME NEW lift \in BOOLEAN, ClearBegin(lift) PROVE QueuesInv'
  BY <1>3, <1>7 DEF ClearBegin, Held
<1>8. ASSUME NEW r \in Requests, AsyncBegin(r) PROVE QueuesInv'
  <2>1. /\ cpc = "idle" /\ cpc' = "test lifting" /\ creq' = r
        /\ UNCHANGED <<pending, lbatch, tpc, answer>>
        /\ Kind[r] # "sync" /\ tpc[r] = "unused" /\ answer[r] = "none"
        /\ \A k \in 1 .. Len(pending) : pending[k] # r
        /\ \A g \in Lifts : \A k \in 1 .. Len(lbatch[g]) : lbatch[g][k] # r
    BY <1>8 DEF AsyncBegin
  <2>2. \A q : Held(q)' <=> q = r
    BY <2>1 DEF Held
  <2>3. \A q : Waits(q)' <=> Waits(q)
    BY <2>1 DEF Waits, Active
  <2>4. Waits(r)
    BY <2>1 DEF Waits, Active
  <2>5. ASSUME NEW k \in 1 .. Len(pending) PROVE Waits(pending[k])' /\ ~Held(pending[k])'
    BY <2>1, <2>2, <2>3 DEF QueuesInv, HeldInv, PendingInv, BatchInv, Waits, Held, Active
  <2>6. ASSUME NEW g \in Lifts, NEW k \in 1 .. Len(lbatch[g])
        PROVE  Waits(lbatch[g][k])' /\ ~Held(lbatch[g][k])'
    BY <2>1, <2>2, <2>3 DEF QueuesInv, HeldInv, PendingInv, BatchInv, Waits, Held, Active
  <2>7. HeldInv'
    BY <2>2, <2>3, <2>4 DEF HeldInv
  <2>8. PendingInv'
    BY <2>1, <2>5 DEF QueuesInv, PendingInv
  <2>9. BatchInv'
    <3>1. UNCHANGED <<pending, lbatch>> /\ BatchInv
      BY <2>1 DEF QueuesInv
    <3>2. ASSUME NEW g \in Lifts, NEW k \in 1 .. Len(lbatch'[g])
          PROVE  /\ \A l \in 1 .. Len(pending') : lbatch'[g][k] # pending'[l]
                 /\ \A h \in Lifts : \A l \in 1 .. Len(lbatch'[h]) :
                      lbatch'[g][k] = lbatch'[h][l] => g = h /\ k = l
      BY <3>1 DEF BatchInv
    <3>3. ASSUME NEW g \in Lifts, NEW k \in 1 .. Len(lbatch'[g])
          PROVE  Waits(lbatch[g][k])' /\ ~Held(lbatch[g][k])'
      BY <2>6, <3>1
    <3>4. QED
      BY <3>2, <3>3, Zenon DEF BatchInv
  <2>10. QED
    BY <2>7, <2>8, <2>9 DEF QueuesInv
<1>9. ASSUME NEW r \in Requests, SyncBegin(r) PROVE QueuesInv'
  <2>1. /\ Kind[r] = "sync" /\ tpc' = [tpc EXCEPT ![r] = "check"] /\ cpc' = "sync"
        /\ UNCHANGED <<pending, lbatch, answer>>
    BY <1>9 DEF SyncBegin
  <2>2. \A q \in Requests : ~Held(q)'
    BY <2>1 DEF Held
  <2>3. ASSUME NEW q \in Requests, Waits(q) PROVE Waits(q)'
    <3>1. q # r
      BY <2>1, <2>3 DEF Waits
    <3>2. QED
      BY <1>2, <2>1, <2>3, <3>1 DEF Waits, Active
  <2>4. QED
    BY <2>1, <2>2, <2>3, QueuesKept
<1>10. ASSUME ClearLock \/ ClearDrained \/ LiftSetBinary \/ LiftLaunch \/ LiftAssigned \/ SyncReturn
       PROVE  QueuesInv'
  <2>1. UNCHANGED <<pending, lbatch, tpc, answer>> /\ \A q \in Requests : ~Held(q)'
    BY <1>10 DEF ClearLock, ClearDrained, LiftSetBinary, LiftLaunch, LiftAssigned, SyncReturn, Held
  <2>2. QED
    BY <1>3, <2>1
<1>11. ASSUME AsyncTestLifting \/ AsyncTestReady \/ AsyncSetEmitting PROVE QueuesInv'
  <2>1. creq \in Requests /\ Held(creq) /\ UNCHANGED <<pending, lbatch, tpc>>
    BY <1>11 DEF AsyncTestLifting, AsyncTestReady, AsyncSetEmitting, ClientInv, Held
  <2>2. CASE \E a : Reply(a)
    BY <1>6, <2>1, <2>2 DEF Reply
  <2>3. CASE UNCHANGED <<creq, answer>>
    <3>1. \A q \in Requests : Held(q)' => Held(q)
      BY <2>1, <2>3 DEF Held
    <3>2. QED
      BY <1>3, <2>1, <2>3, <3>1
  <2>4. QED
    BY <1>11, <2>2, <2>3 DEF AsyncTestLifting, AsyncTestReady, AsyncSetEmitting
<1>12. ASSUME AsyncLaunch PROVE QueuesInv'
  <2>1. creq \in Requests /\ Held(creq)
    BY <1>12 DEF AsyncLaunch, ClientInv, Held
  <2>2. QED
    BY <1>6, <1>12, <2>1 DEF AsyncLaunch
<1>13. ASSUME NEW r \in Requests, TaskStep(r) PROVE QueuesInv'
  <2>1. r \in Active
    BY <1>13 DEF TaskStep, TaskCheck, TaskLookup, TaskRun, TaskInsert, TaskEmitted, Active
  <2>2. UNCHANGED <<pending, lbatch, creq, cpc>>
    BY <1>13 DEF TaskStep, TaskCheck, TaskLookup, TaskRun, TaskInsert, TaskEmitted
  <2>3. \E l, a : /\ tpc' = [tpc EXCEPT ![r] = l]
                  /\ answer' = answer \/ answer' = [answer EXCEPT ![r] = a]
    <3>1. ASSUME NEW a, Deliver(r, a)
          PROVE  \E l, b : /\ tpc' = [tpc EXCEPT ![r] = l]
                           /\ answer' = answer \/ answer' = [answer EXCEPT ![r] = b]
      BY <3>1 DEF Deliver
    <3>2. ASSUME NEW l, tpc' = [tpc EXCEPT ![r] = l], UNCHANGED answer
          PROVE  \E m, b : /\ tpc' = [tpc EXCEPT ![r] = m]
                           /\ answer' = answer \/ answer' = [answer EXCEPT ![r] = b]
      BY <3>2
    <3>3. QED
      BY <1>13, <3>1, <3>2 DEF TaskStep, TaskCheck, TaskLookup, TaskRun, TaskInsert, TaskEmitted
  <2>4. QED
    BY <1>5, <2>1, <2>2, <2>3
<1>14. ASSUME NEW g \in Lifts, \/ LiftStart(g) \/ LiftImport(g) \/ LiftDetect(g) \/ LiftCheck(g)
                               \/ LiftReady(g) \/ LiftFlushed(g) \/ LiftError(g) \/ LiftCallback(g)
       PROVE  QueuesInv'
  <2>1. UNCHANGED <<pending, lbatch, tpc, answer, creq, cpc>>
    BY <1>14 DEF LiftStart, LiftImport, LiftDetect, LiftCheck, LiftReady, LiftFlushed, LiftError,
       LiftCallback
  <2>2. QED
    BY <1>4, <2>1
<1>15. ASSUME UNCHANGED vars PROVE QueuesInv'
  BY <1>4, <1>15 DEF vars
<1>16. ASSUME AsyncPush PROVE QueuesInv'
  <2>1. /\ creq \in Requests /\ Held(creq) /\ cpc' = "idle"
        /\ pending' = Append(pending, creq) /\ UNCHANGED <<lbatch, tpc, answer>>
    BY <1>16 DEF AsyncPush, ClientInv, Held
  <2>2. \A q : ~Held(q)'
    BY <2>1 DEF Held
  <2>3. \A q : Waits(q)' <=> Waits(q)
    BY <2>1 DEF Waits, Active
  <2>4. /\ Len(pending) \in Nat /\ Len(pending') = Len(pending) + 1
        /\ pending'[Len(pending) + 1] = creq
        /\ \A k \in 1 .. Len(pending) : pending'[k] = pending[k]
    BY <1>1, <2>1, AppendProperties, LenProperties
  <2>5. Waits(creq)
    BY <2>1 DEF QueuesInv, HeldInv, PendingInv, BatchInv
  <2>6. \A k \in 1 .. Len(pending) : pending[k] # creq
    BY <2>1 DEF QueuesInv, HeldInv, PendingInv, BatchInv
  <2>7. \A g \in Lifts : \A k \in 1 .. Len(lbatch[g]) : lbatch[g][k] # creq
    BY <2>1 DEF QueuesInv, HeldInv, PendingInv, BatchInv
  <2>8. ASSUME NEW k \in 1 .. Len(pending')
        PROVE  \/ k \in 1 .. Len(pending) /\ pending'[k] = pending[k]
               \/ k = Len(pending) + 1 /\ pending'[k] = creq
    BY <2>4
  <2>9. ASSUME NEW k \in 1 .. Len(pending')
        PROVE  /\ Waits(pending[k])' /\ ~Held(pending[k])'
               /\ \A l \in 1 .. Len(pending') : pending'[k] = pending'[l] => k = l
    <3>1. Waits(pending'[k])
      BY <2>5, <2>8 DEF QueuesInv, HeldInv, PendingInv, BatchInv
    <3>2. Waits(pending[k])' /\ ~Held(pending[k])'
      BY <2>1, <3>1 DEF Waits, Active, Held
    <3>3. \A l \in 1 .. Len(pending') : pending'[k] = pending'[l] => k = l
      BY <2>6, <2>8 DEF QueuesInv, HeldInv, PendingInv, BatchInv
    <3>4. QED
      BY <3>2, <3>3
  <2>10. ASSUME NEW g \in Lifts, NEW k \in 1 .. Len(lbatch[g])
         PROVE  /\ Waits(lbatch[g][k])' /\ ~Held(lbatch[g][k])'
                /\ \A l \in 1 .. Len(pending') : lbatch[g][k] # pending'[l]
    <3>1. Waits(lbatch[g][k])
      BY DEF QueuesInv, HeldInv, PendingInv, BatchInv
    <3>2. Waits(lbatch[g][k])' /\ ~Held(lbatch[g][k])'
      BY <2>1, <3>1 DEF Waits, Active, Held
    <3>3. \A l \in 1 .. Len(pending') : lbatch[g][k] # pending'[l]
      BY <2>7, <2>8 DEF QueuesInv, HeldInv, PendingInv, BatchInv
    <3>4. QED
      BY <3>2, <3>3
  <2>11. QED
    BY <2>1, <2>2, <2>9, <2>10 DEF QueuesInv, HeldInv, PendingInv, BatchInv
<1>17. ASSUME NEW g \in Lifts, LiftFlush(g) PROVE QueuesInv'
  <2>1. /\ lbatch' = [lbatch EXCEPT ![g] = pending] /\ pending' = << >>
        /\ UNCHANGED <<tpc, answer, creq, cpc>>
    BY <1>17 DEF LiftFlush
  <2>2. /\ \A q : Held(q)' <=> Held(q)
        /\ \A q : Waits(q)' <=> Waits(q)
    BY <2>1 DEF Held, Waits, Active
  <2>3. 1 .. Len(pending') = {}
    BY <2>1, EmptySeq
  <2>4. lbatch'[g] = pending /\ \A h \in Lifts : h # g => lbatch'[h] = lbatch[h]
    BY <1>1, <2>1
  <2>5. ASSUME NEW h \in Lifts, NEW k \in 1 .. Len(lbatch'[h])
        PROVE  Waits(lbatch[h][k])' /\ ~Held(lbatch[h][k])'
    <3>1. Waits(lbatch'[h][k]) /\ ~Held(lbatch'[h][k])
      BY <2>4 DEF QueuesInv, HeldInv, PendingInv, BatchInv
    <3>2. QED
      BY <2>1, <3>1 DEF Waits, Active, Held
  <2>6. ASSUME NEW h \in Lifts, NEW k \in 1 .. Len(lbatch'[h]),
               NEW i \in Lifts, NEW l \in 1 .. Len(lbatch'[i]), lbatch'[h][k] = lbatch'[i][l]
        PROVE  h = i /\ k = l
    BY <2>4, <2>6 DEF QueuesInv, HeldInv, PendingInv, BatchInv
  <2>7. QED
    BY <2>2, <2>3, <2>5, <2>6 DEF QueuesInv, HeldInv, PendingInv, BatchInv
<1>18. ASSUME NEW g \in Lifts, LiftLaunchPending(g) PROVE QueuesInv'
  <2> DEFINE h == Head(lbatch[g])
             n == Len(lbatch[g])
  <2>1. /\ lbatch[g] # << >> /\ lbatch' = [lbatch EXCEPT ![g] = Tail(lbatch[g])]
        /\ tpc' = [tpc EXCEPT ![h] = "check"] /\ UNCHANGED <<pending, answer, creq, cpc>>
    BY <1>18 DEF LiftLaunchPending
  <2>2. /\ n \in Nat \ {0} /\ h = lbatch[g][1] /\ h \in Requests
        /\ Len(lbatch'[g]) = n - 1
        /\ \A k \in 1 .. n - 1 : lbatch'[g][k] = lbatch[g][k + 1]
    <3>1. lbatch[g] \in Seq(Requests) /\ lbatch'[g] = Tail(lbatch[g])
      BY <1>1, <2>1
    <3>2. QED
      BY <2>1, <3>1, HeadAndRest
  <2>3. \A i \in Lifts : i # g => lbatch'[i] = lbatch[i]
    BY <1>1, <2>1
  <2> HIDE DEF h
  <2>4. \A q : Held(q)' <=> Held(q)
    BY <2>1 DEF Held
  <2>5. ASSUME NEW q \in Requests, Waits(q), q # h PROVE Waits(q)'
    BY <1>2, <2>1, <2>5 DEF Waits, Active
  <2>6. 1 \in 1 .. n
    BY <2>2
  <2>7. ASSUME NEW q \in Requests, Held(q) PROVE Waits(q)'
    BY <2>2, <2>5, <2>6, <2>7 DEF QueuesInv, HeldInv, PendingInv, BatchInv
  <2>8. ASSUME NEW k \in 1 .. Len(pending) PROVE Waits(pending[k])' /\ ~Held(pending[k])'
    <3>1. PICK q \in Requests : q = pending[k]
      BY <1>1
    <3>2. Waits(q) /\ ~Held(q) /\ q # h
      BY <2>2, <2>6, <3>1 DEF QueuesInv, HeldInv, PendingInv, BatchInv
    <3>3. Waits(q)' /\ ~Held(q)'
      BY <2>4, <2>5, <3>2
    <3>4. QED
      BY <2>1, <3>1, <3>3 DEF Waits, Active, Held
  (* Whatever is left in a lift's hands was there before, behind the head. *)
  <2>9. ASSUME NEW i \in Lifts, NEW k \in 1 .. Len(lbatch'[i])
        PROVE  \E j \in 1 .. Len(lbatch[i]) :
                  /\ lbatch'[i][k] = lbatch[i][j]
                  /\ j = IF i = g THEN k + 1 ELSE k
    <3>1. CASE i = g
      <4>1. k + 1 \in 1 .. n /\ k \in 1 .. n - 1
        BY <2>2, <3>1
      <4>2. QED
        BY <2>2, <3>1, <4>1
    <3>2. CASE i # g
      BY <2>3, <3>2
    <3>3. QED
      BY <3>1, <3>2
  <2>10. ASSUME NEW i \in Lifts, NEW k \in 1 .. Len(lbatch'[i])
         PROVE  /\ Waits(lbatch[i][k])' /\ ~Held(lbatch[i][k])'
                /\ \A l \in 1 .. Len(pending) : lbatch'[i][k] # pending[l]
    <3>1. PICK j \in 1 .. Len(lbatch[i]) : /\ lbatch'[i][k] = lbatch[i][j]
                                           /\ j = IF i = g THEN k + 1 ELSE k
      BY <2>9
    <3>2. PICK q \in Requests : q = lbatch[i][j]
      BY <1>1
    <3>3. i = g => j # 1
      BY <3>1
    <3>4. Waits(q) /\ ~Held(q) /\ q # h /\ \A l \in 1 .. Len(pending) : q # pending[l]
      BY <2>2, <2>6, <3>2, <3>3 DEF QueuesInv, HeldInv, PendingInv, BatchInv
    <3>5. Waits(q)' /\ ~Held(q)'
      BY <2>4, <2>5, <3>4
    <3>6. QED
      BY <2>1, <3>1, <3>2, <3>4, <3>5 DEF Waits, Active, Held
  <2>11. ASSUME NEW i \in Lifts, NEW k \in 1 .. Len(lbatch'[i]),
                NEW p \in Lifts, NEW l \in 1 .. Len(lbatch'[p]), lbatch'[i][k] = lbatch'[p][l]
         PROVE  i = p /\ k = l
    <3>1. PICK j \in 1 .. Len(lbatch[i]) : /\ lbatch'[i][k] = lbatch[i][j]
                                           /\ j = IF i = g THEN k + 1 ELSE k
      BY <2>9
    <3>2. PICK m \in 1 .. Len(lbatch[p]) : /\ lbatch'[p][l] = lbatch[p][m]
                                           /\ m = IF p = g THEN l + 1 ELSE l
      BY <2>9
    <3>3. i = p /\ j = m
      <4>1. lbatch[i][j] = lbatch[p][m]
        BY <2>11, <3>1, <3>2, Zenon
      <4>2. QED
        BY <4>1, Zenon DEF QueuesInv, HeldInv, PendingInv, BatchInv
    <3>4. k \in Int /\ l \in Int
      OBVIOUS
    <3>5. QED
      BY <3>1, <3>2, <3>3, <3>4
  <2>12. HeldInv'
    BY <2>4, <2>7 DEF HeldInv
  <2>13. PendingInv'
    <3>1. UNCHANGED pending
      BY <2>1
    <3>2. QED
      BY <2>8, <3>1 DEF QueuesInv, PendingInv
  <2>14. BatchInv'
    <3>1. UNCHANGED pending
      BY <2>1
    <3>2. ASSUME NEW i \in Lifts, NEW k \in 1 .. Len(lbatch'[i]), NEW l \in 1 .. Len(pending')
          PROVE  lbatch'[i][k] # pending'[l]
      BY <2>10, <3>1
    <3>3. QED
      BY <2>10, <2>11, <3>2, Zenon DEF BatchInv
  <2>15. QED
    BY <2>12, <2>13, <2>14 DEF QueuesInv
<1>19. QED
  BY <1>7, <1>8, <1>9, <1>10, <1>11, <1>12, <1>13, <1>14, <1>15, <1>16, <1>17, <1>18
  DEF Next, ClientStart, ClientContinue, LiftStep

-----------------------------------------------------------------------------
(* The inductive invariant holds in every reachable state of one           *)
(* decompiler, its client, its lifts and its requests.                     *)
THEOREM Inductive == SafeSpec => []IInv
<1>1. Init => IInv
  BY InitIInv
<1>2. IInv /\ [Next]_vars => IInv'
  BY TypeStep, ClientStep, DetachedStep, SupersededStep, FreshStep, GraphStep, LiftedStep,
     QueuesStep DEF IInv
<1>3. QED
  BY <1>1, <1>2, PTL DEF SafeSpec

(* Type correctness.                                                       *)
THEOREM TypeCorrect == SafeSpec => []TypeOK
<1>1. IInv => TypeOK
  BY DEF IInv
<1>2. QED
  BY <1>1, Inductive, PTL

(* No thread of a request is ever detached, so clear_cache and the         *)
(* destructor of m_decompile_futures wait for all of them.                 *)
THEOREM ThreadsHeld == SafeSpec => []NoDetachedThread
<1>1. IInv => NoDetachedThread
  BY DEF IInv
<1>2. QED
  BY <1>1, Inductive, PTL

(* When lift_async has returned only the latest lift is still running.     *)
THEOREM LiftsDoNotPileUp == SafeSpec => []SupersededLiftEnds
<1>1. IInv => SupersededLiftEnds
  BY DEF IInv
<1>2. QED
  BY <1>1, Inductive, PTL

(* The cache holds only text of m_binary as long as no lift or clear began *)
(* while a request or a lift was running.                                  *)
THEOREM CacheFresh == SafeSpec => []QuietCacheFresh
<1>1. IInv => QuietCacheFresh
  BY DEF IInv
<1>2. QED
  BY <1>1, Inductive, PTL

(* The client's push, the swap of m_pending_queue and the launches of two  *)
(* lifts never have a request in two places at once.                       *)
THEOREM NoRequestTwice == SafeSpec => []RequestInOnePlace
<1>1. IInv => RequestInOnePlace
  BY OnePlace DEF IInv
<1>2. QED
  BY <1>1, Inductive, PTL

(* Where run_process looks at the exit status, a decompiler that is Ready  *)
(* has been lifted, and with m_binary, as long as no lift or clear began   *)
(* while a request or a lift was running.                                  *)
THEOREM ReadyIsLifted == ExitChecked => (SafeSpec => []QuietReadyMeansLifted)
<1> SUFFICES ASSUME ExitChecked PROVE SafeSpec => []QuietReadyMeansLifted
  OBVIOUS
<1>1. IInv => QuietReadyMeansLifted
  BY DEF IInv, LiftedInv, QuietReadyMeansLifted, ReadyMeansLifted, PastLift, LatestLifted
<1>2. QED
  BY <1>1, Inductive, PTL
=============================================================================
