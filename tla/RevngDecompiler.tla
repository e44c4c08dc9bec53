--------------------------- MODULE RevngDecompiler ---------------------------
(***************************************************************************)
(* RevngDecompiler of src/core/revng_decompiler.cpp: one client thread     *)
(* calling the public operations, one thread per lift (std::async in       *)
(* lift_async), one thread per launched request, and what they share: the  *)
(* atomic m_state, the atomic m_lift_generation, the cache, the queue of   *)
(* requests that wait for a lift, and the vector of futures.               *)
(*                                                                         *)
(* A step is what a thread does between two accesses to shared state that  *)
(* another thread can interleave with; a critical section of m_cache_mutex *)
(* or m_queue_mutex is one step.  m_futures_mutex is also one step, except *)
(* in clear_cache, which holds it while the destructors of the futures     *)
(* wait for the threads behind them.                                       *)
(*                                                                         *)
(* A binary is named by the lift it is given to, 0 standing for none, and  *)
(* a text that rev.ng prints by the binary it was made from.               *)
(* Progress callbacks, the resume directory and the command lines of the   *)
(* three backends are left out; what remains of run_process is that it     *)
(* succeeds, or fails and throws if the backend's runner looks at the exit *)
(* status.                                                                 *)
(*                                                                         *)
(* A definition commented "Faulty variant" is not part of the model: it is *)
(* the mistake that one of the properties has to catch when it takes the   *)
(* place of the operation after it.                                        *)
(***************************************************************************)
EXTENDS Naturals, Sequences, FiniteSets

CONSTANTS
    None,           \* no request
    Requests,       \* the calls of decompile and of the three *_async
    Kind,           \* Kind[r]: "sync", "async", "cfg" or "callgraph"
    Rvas, Rva,      \* Rva[r]: the function address a call asks for
    MaxLifts,       \* bound: calls of lift_async
    ExitChecked     \* run_process throws on a failing command (Windows) or
                    \* does not look (POSIX)

ASSUME NoneAssumption == None \notin Requests
ASSUME RequestsAssumption ==
    /\ Kind \in [Requests -> {"sync", "async", "cfg", "callgraph"}]
    /\ Rva \in [Requests -> Rvas]
ASSUME LiftsAssumption == MaxLifts \in Nat /\ ExitChecked \in BOOLEAN

Lifts == 1 .. MaxLifts
Binaries == 0 .. MaxLifts
Emits(r) == Kind[r] \in {"cfg", "callgraph"}

VARIABLES
    state,          \* m_state
    binary,         \* m_binary
    gen,            \* m_lift_generation
    cache,          \* m_cache: the binary whose text is stored for an address
    pending,        \* m_pending_queue
    futures,        \* m_decompile_futures: the requests it holds futures of
    cpc,            \* the client: which operation it is in and how far
    creq,           \* the request of the *_async or decompile it is in
    clifts,         \* the clear_cache it is in is the first call of a lift_async
    lpc,            \* lpc[g]: the thread of lift g
    lbatch,         \* lbatch[g]: what flush_pending_queue took, still to launch
    lifted,         \* the lifts whose two rev.ng commands succeeded
    lcb,            \* lcb[g]: on_complete: "none", "ok" or "failed"
    tpc,            \* tpc[r]: the thread (for "sync" the client) inside request r
    text,           \* text[r]: the text that r got from rev.ng or the cache
    answer,         \* answer[r]: what the callback or the caller gets
    quiet           \* history: no lift or clear has begun with work in flight

clientVars == <<cpc, creq, clifts>>
liftVars   == <<lpc, lbatch, lifted, lcb>>
taskVars   == <<tpc, text, answer>>
sharedVars == <<state, binary, gen, cache, pending, futures>>
vars == <<sharedVars, clientVars, liftVars, taskVars, quiet>>

States == {"Idle", "Lifting", "ImportingBinary", "DetectingABI", "EmittingCFG",
           "RenderingCallGraph", "Ready", "Error"}
Answers == {"none", "not ready", "still lifting", "failed", "ok"}

(* The requests with a thread, and the lifts with one.                     *)
Active == {r \in Requests : tpc[r] \notin {"unused", "done"}}
Alive  == {g \in Lifts : lpc[g] \notin {"unused", "done"}}

TypeOK ==
    /\ state \in States
    /\ binary \in Binaries
    /\ gen \in Binaries
    /\ cache \in [Rvas -> Binaries]
    /\ pending \in Seq(Requests)
    /\ futures \subseteq Requests
    /\ cpc \in {"idle", "clear", "drain", "cleared", "launch lift", "assign",
                "test lifting", "push", "test ready", "emit", "launch", "sync"}
    /\ creq \in Requests \cup {None}
    /\ clifts \in BOOLEAN
    /\ lpc \in [Lifts -> {"unused", "start", "import", "abi", "check", "ready", "flush",
                          "launch", "cb", "failed", "error", "cb failed", "done"}]
    /\ lbatch \in [Lifts -> Seq(Requests)]
    /\ lifted \subseteq Lifts
    /\ lcb \in [Lifts -> {"none", "ok", "failed"}]
    /\ tpc \in [Requests -> {"unused", "check", "lookup", "run", "insert", "emitted", "done"}]
    /\ text \in [Requests -> Binaries]
    /\ answer \in [Requests -> Answers]
    /\ quiet \in BOOLEAN

Init ==
    /\ state = "Idle" /\ binary = 0 /\ gen = 0
    /\ cache = [a \in Rvas |-> 0]
    /\ pending = << >> /\ futures = {}
    /\ cpc = "idle" /\ creq = None /\ clifts = FALSE
    /\ lpc = [g \in Lifts |-> "unused"]
    /\ lbatch = [g \in Lifts |-> << >>] /\ lifted = {}
    /\ lcb = [g \in Lifts |-> "none"]
    /\ tpc = [r \in Requests |-> "unused"] /\ text = [r \in Requests |-> 0]
    /\ answer = [r \in Requests |-> "none"]
    /\ quiet = TRUE

-----------------------------------------------------------------------------
(* clear_cache, and lift_async, which begins with it.                      *)

(* Faulty variant: m_cache is not emptied.                                 *)
ClearBeginKeepsCache(lift) ==
    /\ cpc = "idle"
    /\ lift => gen < MaxLifts
    /\ state' = "Idle"
    /\ cpc' = "clear"
    /\ clifts' = lift
    /\ quiet' = (quiet /\ Active = {} /\ Alive = {})
    /\ UNCHANGED <<binary, gen, cache, pending, futures, creq, liftVars, taskVars>>

ClearBegin(lift) ==
    /\ cpc = "idle"
    /\ lift => gen < MaxLifts
    /\ cache' = [a \in Rvas |-> 0]
    /\ state' = "Idle"
    /\ cpc' = "clear"
    /\ clifts' = lift
    /\ quiet' = (quiet /\ Active = {} /\ Alive = {})
    /\ UNCHANGED <<binary, gen, pending, futures, creq, liftVars, taskVars>>

(* m_futures_mutex is taken; from here no other thread gets it.            *)
ClearLock ==
    /\ cpc = "clear"
    /\ cpc' = "drain"
    /\ UNCHANGED <<sharedVars, creq, clifts, liftVars, taskVars, quiet>>

(* The destructors of the futures have waited for every thread.            *)
ClearDrained ==
    /\ cpc = "drain"
    /\ \A r \in futures : tpc[r] = "done"
    /\ futures' = {}
    /\ cpc' = IF clifts THEN "cleared" ELSE "idle"
    /\ UNCHANGED <<state, binary, gen, cache, pending, creq, clifts, liftVars, taskVars, quiet>>

LiftSetBinary ==
    /\ cpc = "cleared"
    /\ binary' = gen + 1
    /\ state' = "Lifting"
    /\ cpc' = "launch lift"
    /\ UNCHANGED <<gen, cache, pending, futures, creq, clifts, liftVars, taskVars, quiet>>

(* The generation is bumped and the thread of the new lift started.        *)
LiftLaunch ==
    /\ cpc = "launch lift"
    /\ gen' = gen + 1
    /\ lpc' = [lpc EXCEPT ![gen + 1] = "start"]
    /\ cpc' = "assign"
    /\ UNCHANGED <<state, binary, cache, pending, futures, creq, clifts,
                   lbatch, lifted, lcb, taskVars, quiet>>

(* Faulty variant: the thread of the lift before is left running.          *)
LiftAssignedDetached ==
    /\ cpc = "assign"
    /\ cpc' = "idle"
    /\ clifts' = FALSE
    /\ UNCHANGED <<sharedVars, creq, liftVars, taskVars, quiet>>

(* The assignment to m_lift_future destroys the future of the lift before, *)
(* which waits for its thread.                                             *)
LiftAssigned ==
    /\ cpc = "assign"
    /\ \A g \in Alive : g = gen
    /\ cpc' = "idle"
    /\ clifts' = FALSE
    /\ UNCHANGED <<sharedVars, creq, liftVars, taskVars, quiet>>

-----------------------------------------------------------------------------
(* decompile_async, emit_cfg_async, render_call_graph_async and decompile, *)
(* as far as the client's thread goes.                                     *)

(* Faulty variant: cleanup_futures drops the futures that are not ready.   *)
AsyncBeginDropsRunning(r) ==
    /\ cpc = "idle"
    /\ Kind[r] # "sync"
    /\ tpc[r] = "unused" /\ answer[r] = "none"
    /\ \A k \in 1 .. Len(pending) : pending[k] # r
    /\ \A g \in Lifts : \A k \in 1 .. Len(lbatch[g]) : lbatch[g][k] # r
    /\ futures' = {f \in futures : tpc[f] = "done"}
    /\ cpc' = "test lifting"
    /\ creq' = r
    /\ UNCHANGED <<state, binary, gen, cache, pending, clifts, liftVars, taskVars, quiet>>

(* cleanup_futures drops the futures that are ready.                       *)
AsyncBegin(r) ==
    /\ cpc = "idle"
    /\ Kind[r] # "sync"
    /\ tpc[r] = "unused" /\ answer[r] = "none"
    /\ \A k \in 1 .. Len(pending) : pending[k] # r
    /\ \A g \in Lifts : \A k \in 1 .. Len(lbatch[g]) : lbatch[g][k] # r
    /\ futures' = {f \in futures : tpc[f] # "done"}
    /\ cpc' = "test lifting"
    /\ creq' = r
    /\ UNCHANGED <<state, binary, gen, cache, pending, clifts, liftVars, taskVars, quiet>>

Reply(a) ==
    /\ answer' = [answer EXCEPT ![creq] = a]
    /\ cpc' = "idle"
    /\ creq' = None

(* A request for a graph made while m_state is Lifting is refused, one for *)
(* pseudocode goes on to the queue.                                        *)
AsyncTestLifting ==
    /\ cpc = "test lifting"
    /\ IF state = "Lifting" /\ Emits(creq)
       THEN Reply("still lifting")
       ELSE /\ cpc' = IF state = "Lifting" THEN "push" ELSE "test ready"
            /\ UNCHANGED <<creq, answer>>
    /\ UNCHANGED <<sharedVars, clifts, liftVars, tpc, text, quiet>>

AsyncPush ==
    /\ cpc = "push"
    /\ pending' = Append(pending, creq)
    /\ cpc' = "idle"
    /\ creq' = None
    /\ UNCHANGED <<state, binary, gen, cache, futures, clifts, liftVars, taskVars, quiet>>

AsyncTestReady ==
    /\ cpc = "test ready"
    /\ IF state # "Ready"
       THEN Reply("not ready")
       ELSE /\ cpc' = IF Emits(creq) THEN "emit" ELSE "launch"
            /\ UNCHANGED <<creq, answer>>
    /\ UNCHANGED <<sharedVars, clifts, liftVars, tpc, text, quiet>>

AsyncSetEmitting ==
    /\ cpc = "emit"
    /\ state' = IF Kind[creq] = "cfg" THEN "EmittingCFG" ELSE "RenderingCallGraph"
    /\ cpc' = "launch"
    /\ UNCHANGED <<binary, gen, cache, pending, futures, creq, clifts, liftVars, taskVars, quiet>>

AsyncLaunch ==
    /\ cpc = "launch"
    /\ futures' = futures \cup {creq}
    /\ tpc' = [tpc EXCEPT ![creq] = "check"]
    /\ cpc' = "idle"
    /\ creq' = None
    /\ UNCHANGED <<state, binary, gen, cache, pending, clifts, liftVars, text, answer, quiet>>

SyncBegin(r) ==
    /\ cpc = "idle"
    /\ Kind[r] = "sync"
    /\ tpc[r] = "unused"
    /\ tpc' = [tpc EXCEPT ![r] = "check"]
    /\ cpc' = "sync"
    /\ creq' = r
    /\ UNCHANGED <<sharedVars, clifts, liftVars, text, answer, quiet>>

SyncReturn ==
    /\ cpc = "sync"
    /\ tpc[creq] = "done"
    /\ cpc' = "idle"
    /\ creq' = None
    /\ UNCHANGED <<sharedVars, clifts, liftVars, taskVars, quiet>>

-----------------------------------------------------------------------------
(* decompile, emit_cfg and render_call_graph in the thread of request r.   *)

(* The end of r: the callback, or the return of decompile.  The lambda of  *)
(* a graph request has its answer here and passes it on once it has put    *)
(* m_state back to Ready.                                                  *)
Deliver(r, a) ==
    /\ answer' = [answer EXCEPT ![r] = a]
    /\ tpc' = [tpc EXCEPT ![r] = IF Emits(r) THEN "emitted" ELSE "done"]

TaskCheck(r) ==
    /\ tpc[r] = "check"
    /\ IF state # "Ready"
       THEN Deliver(r, "not ready")
       ELSE /\ tpc' = [tpc EXCEPT ![r] = IF Emits(r) THEN "run" ELSE "lookup"]
            /\ UNCHANGED answer
    /\ UNCHANGED <<sharedVars, clientVars, liftVars, text, quiet>>

TaskLookup(r) ==
    /\ tpc[r] = "lookup"
    /\ IF cache[Rva[r]] # 0
       THEN Deliver(r, "ok") /\ text' = [text EXCEPT ![r] = cache[Rva[r]]]
       ELSE tpc' = [tpc EXCEPT ![r] = "run"] /\ UNCHANGED <<text, answer>>
    /\ UNCHANGED <<sharedVars, clientVars, liftVars, quiet>>

(* Faulty variant: an exception leaves the thread before its callback.     *)
TaskRunUncaught(r) ==
    /\ tpc[r] = "run"
    /\ tpc' = [tpc EXCEPT ![r] = "done"]
    /\ UNCHANGED <<sharedVars, clientVars, liftVars, text, answer, quiet>>

(* rev.ng runs on m_binary as read here; no output and exceptions alike    *)
(* end in an error.                                                        *)
TaskRun(r) ==
    /\ tpc[r] = "run"
    /\ \/ Deliver(r, "failed") /\ UNCHANGED text
       \/ /\ ~Emits(r)
          /\ text' = [text EXCEPT ![r] = binary]
          /\ tpc' = [tpc EXCEPT ![r] = "insert"]
          /\ UNCHANGED answer
       \/ /\ Emits(r)
          /\ text' = [text EXCEPT ![r] = binary]
          /\ Deliver(r, "ok")
    /\ UNCHANGED <<sharedVars, clientVars, liftVars, quiet>>

TaskInsert(r) ==
    /\ tpc[r] = "insert"
    /\ cache' = [cache EXCEPT ![Rva[r]] = text[r]]
    /\ Deliver(r, "ok")
    /\ UNCHANGED <<state, binary, gen, pending, futures, clientVars, liftVars, text, quiet>>

(* Faulty variant: the callback calls back into decompile_async, which     *)
(* takes m_futures_mutex.                                                  *)
TaskEmittedReenters(r) ==
    /\ tpc[r] = "emitted"
    /\ cpc # "drain"
    /\ state' = "Ready"
    /\ tpc' = [tpc EXCEPT ![r] = "done"]
    /\ UNCHANGED <<binary, gen, cache, pending, futures, clientVars, liftVars,
                   text, answer, quiet>>

TaskEmitted(r) ==
    /\ tpc[r] = "emitted"
    /\ state' = "Ready"
    /\ tpc' = [tpc EXCEPT ![r] = "done"]
    /\ UNCHANGED <<binary, gen, cache, pending, futures, clientVars, liftVars,
                   text, answer, quiet>>

-----------------------------------------------------------------------------
(* The thread of lift g.                                                   *)

Goto(g, l) == lpc' = [lpc EXCEPT ![g] = l]

(* Creating the resume directory may throw.                                *)
LiftStart(g) ==
    /\ lpc[g] = "start"
    /\ \/ Goto(g, "import") /\ state' = "ImportingBinary"
       \/ Goto(g, "failed") /\ UNCHANGED state
    /\ UNCHANGED <<binary, gen, cache, pending, futures, clientVars,
                   lbatch, lifted, lcb, taskVars, quiet>>

(* What a command that did not throw has done: it may have failed where    *)
(* the exit status is not looked at.                                       *)
Outcomes(succeeded, failed) == IF ExitChecked THEN {succeeded} ELSE {succeeded, failed}

(* Faulty variant: a failed import-binary is not noticed.                  *)
LiftImportUnchecked(g) ==
    /\ lpc[g] = "import"
    /\ Goto(g, "abi") /\ state' = "DetectingABI"
    /\ lifted' \in {lifted, lifted \cup {g}}
    /\ UNCHANGED <<binary, gen, cache, pending, futures, clientVars,
                   lbatch, lcb, taskVars, quiet>>

(* import-binary ends; the next stage is announced unless it threw.        *)
LiftImport(g) ==
    /\ lpc[g] = "import"
    /\ \/ /\ Goto(g, "abi")
          /\ state' = "DetectingABI"
          /\ lifted' \in Outcomes(lifted \cup {g}, lifted)
       \/ Goto(g, "failed") /\ UNCHANGED <<state, lifted>>
    /\ UNCHANGED <<binary, gen, cache, pending, futures, clientVars,
                   lbatch, lcb, taskVars, quiet>>

LiftDetect(g) ==
    /\ lpc[g] = "abi"
    /\ \/ Goto(g, "check") /\ lifted' \in Outcomes(lifted, lifted \ {g})
       \/ Goto(g, "failed") /\ lifted' = lifted \ {g}
    /\ UNCHANGED <<sharedVars, clientVars, lbatch, lcb, taskVars, quiet>>

(* A lift that has been superseded ends without a word.                    *)
LiftCheck(g) ==
    /\ lpc[g] \in {"check", "failed"}
    /\ Goto(g, IF gen # g THEN "done" ELSE IF lpc[g] = "check" THEN "ready" ELSE "error")
    /\ UNCHANGED <<sharedVars, clientVars, lbatch, lifted, lcb, taskVars, quiet>>

LiftReady(g) ==
    /\ lpc[g] = "ready"
    /\ state' = "Ready"
    /\ Goto(g, "flush")
    /\ UNCHANGED <<binary, gen, cache, pending, futures, clientVars,
                   lbatch, lifted, lcb, taskVars, quiet>>

(* Faulty variant: the queue is copied and not emptied.                    *)
LiftFlushCopies(g) ==
    /\ lpc[g] = "flush"
    /\ lbatch' = [lbatch EXCEPT ![g] = pending]
    /\ Goto(g, "launch")
    /\ UNCHANGED <<sharedVars, clientVars, lifted, lcb, taskVars, quiet>>

LiftFlush(g) ==
    /\ lpc[g] = "flush"
    /\ lbatch' = [lbatch EXCEPT ![g] = pending]
    /\ pending' = << >>
    /\ Goto(g, "launch")
    /\ UNCHANGED <<state, binary, gen, cache, futures, clientVars,
                   lifted, lcb, taskVars, quiet>>

(* launch_decompile_async for the next request taken.                      *)
LiftLaunchPending(g) ==
    /\ lpc[g] = "launch"
    /\ lbatch[g] # << >>
    /\ cpc # "drain"
    /\ futures' = futures \cup {Head(lbatch[g])}
    /\ tpc' = [tpc EXCEPT ![Head(lbatch[g])] = "check"]
    /\ lbatch' = [lbatch EXCEPT ![g] = Tail(@)]
    /\ UNCHANGED <<state, binary, gen, cache, pending, clientVars,
                   lpc, lifted, lcb, text, answer, quiet>>

(* Faulty variant: the lift ends without its callback.                     *)
LiftFlushedSilently(g) ==
    /\ lpc[g] = "launch"
    /\ lbatch[g] = << >>
    /\ Goto(g, "done")
    /\ UNCHANGED <<sharedVars, clientVars, lbatch, lifted, lcb, taskVars, quiet>>

LiftFlushed(g) ==
    /\ lpc[g] = "launch"
    /\ lbatch[g] = << >>
    /\ Goto(g, "cb")
    /\ UNCHANGED <<sharedVars, clientVars, lbatch, lifted, lcb, taskVars, quiet>>

LiftError(g) ==
    /\ lpc[g] = "error"
    /\ state' = "Error"
    /\ Goto(g, "cb failed")
    /\ UNCHANGED <<binary, gen, cache, pending, futures, clientVars,
                   lbatch, lifted, lcb, taskVars, quiet>>

LiftCallback(g) ==
    /\ lpc[g] \in {"cb", "cb failed"}
    /\ lcb' = [lcb EXCEPT ![g] = IF lpc[g] = "cb" THEN "ok" ELSE "failed"]
    /\ Goto(g, "done")
    /\ UNCHANGED <<sharedVars, clientVars, lbatch, lifted, taskVars, quiet>>

-----------------------------------------------------------------------------
ClientStart ==
    \/ \E lift \in BOOLEAN : ClearBegin(lift)
    \/ \E r \in Requests : AsyncBegin(r) \/ SyncBegin(r)
ClientContinue ==
    \/ ClearLock \/ ClearDrained \/ LiftSetBinary \/ LiftLaunch \/ LiftAssigned
    \/ AsyncTestLifting \/ AsyncPush \/ AsyncTestReady \/ AsyncSetEmitting \/ AsyncLaunch
    \/ SyncReturn
TaskStep(r) ==
    TaskCheck(r) \/ TaskLookup(r) \/ TaskRun(r) \/ TaskInsert(r) \/ TaskEmitted(r)
LiftStep(g) ==
    \/ LiftStart(g) \/ LiftImport(g) \/ LiftDetect(g) \/ LiftCheck(g)
    \/ LiftReady(g) \/ LiftFlush(g) \/ LiftLaunchPending(g) \/ LiftFlushed(g)
    \/ LiftError(g) \/ LiftCallback(g)

Next ==
    \/ ClientStart \/ ClientContinue
    \/ \E r \in Requests : TaskStep(r)
    \/ \E g \in Lifts : LiftStep(g)

SafeSpec == Init /\ [][Next]_vars

(* Threads are scheduled, the rev.ng commands end, and a thread that waits *)
(* for m_futures_mutex gets it if it is released again and again.  A       *)
(* client need not call anything.                                          *)
Fairness ==
    /\ WF_vars(ClientContinue)
    /\ \A r \in Requests : WF_vars(TaskStep(r))
    /\ \A g \in Lifts : WF_vars(LiftStep(g)) /\ SF_vars(LiftLaunchPending(g))

Spec == SafeSpec /\ Fairness

-----------------------------------------------------------------------------
(* Where a request can be between the call and its answer.                 *)
Held(r) ==
    /\ creq = r
    /\ cpc \in {"test lifting", "push", "test ready", "emit", "launch"}
Places(r) ==
    {<<"queue", 0, k>> : k \in {j \in 1 .. Len(pending) : pending[j] = r}}
      \cup (UNION {{<<"lift", g, k>> : k \in {j \in 1 .. Len(lbatch[g]) : lbatch[g][j] = r}} :
                     g \in Lifts})
      \cup {<<p, 0, 0>> : p \in {q \in {"client", "thread", "answered"} :
                CASE q = "client" -> Held(r)
                  [] q = "thread" -> r \in Active
                  [] q = "answered" -> r \notin Active /\ answer[r] # "none"}}

(* A request is never in two places: the swap of m_pending_queue in        *)
(* flush_pending_queue, the client's push and the launches of two lift     *)
(* threads never answer a request twice or run it while it still waits.    *)
RequestInOnePlace == \A r \in Requests : Cardinality(Places(r)) <= 1

(* No launched thread is detached: its future is in m_decompile_futures    *)
(* until it has ended, so that clear_cache and the destructor wait for it. *)
NoDetachedThread == \A r \in Active : Kind[r] # "sync" => r \in futures

(* When lift_async has returned no lift but the latest is still running,   *)
(* and while it waits there is at most the one before.                     *)
SupersededLiftEnds ==
    /\ cpc # "assign" => Alive \subseteq {gen}
    /\ cpc = "assign" => Alive \subseteq {gen - 1, gen}

(* The cache holds text of m_binary only, provided no lift or clear began  *)
(* while a request or a lift was running.                                  *)
QuietCacheFresh == quiet => \A a \in Rvas : cache[a] \in {0, binary}

(* "Ready, // Lifted, accepting decompile requests": the latest lift's     *)
(* commands both succeeded on m_binary.                                    *)
ReadyMeansLifted ==
    state \in {"Ready", "EmittingCFG", "RenderingCallGraph"} =>
        gen \in lifted /\ binary = gen

(* It holds where run_process looks at the exit status, provided no lift   *)
(* or clear began while a request or a lift was running.                   *)
QuietReadyMeansLifted == quiet => ReadyMeansLifted

(* No operation blocks its caller for ever: clear_cache and lift_async     *)
(* wait for threads that in turn may want m_futures_mutex.                 *)
ClientReturns == cpc # "idle" ~> cpc = "idle"

(* A request that got a thread gets an answer, on every path.              *)
LaunchedAnswered ==
    \A r \in Requests : r \in Active ~> answer[r] # "none"

(* on_complete is called for every lift that is not superseded.            *)
LiftCallsBack ==
    \A g \in Lifts : lpc[g] = "start" ~> lcb[g] # "none" \/ gen # g

(* "Emit Control Flow Graph as YAML": a graph request accepted because the *)
(* decompiler is ready is not answered that it is not.                     *)
AcceptedGraphIsEmitted ==
    \A r \in Requests : tpc[r] = "emitted" => answer[r] # "not ready"

-----------------------------------------------------------------------------
(* What the invariants above rest on; together with them these are         *)
(* inductive.  The client in the middle of an operation has its request,   *)
(* or a lift left to start.                                                *)
ClientInv ==
    /\ cpc \in {"test lifting", "push", "test ready", "emit", "launch", "sync"} =>
         creq \in Requests
    /\ cpc \in {"clear", "drain"} /\ clifts => gen < MaxLifts
    /\ cpc \in {"cleared", "launch lift"} => gen < MaxLifts

(* Until the first lift or clear that begins with work in flight, what is  *)
(* about to enter the cache is text of m_binary, and m_binary changes only *)
(* while nothing runs and the cache is empty.                              *)
FreshInv ==
    quiet =>
        /\ \A r \in Requests : tpc[r] = "insert" => text[r] = binary
        /\ cpc \in {"clear", "drain", "cleared"} =>
             Active = {} /\ Alive = {} /\ \A a \in Rvas : cache[a] = 0

(* Only a request for a graph sets m_state on its way in and out.          *)
GraphInv ==
    /\ cpc = "emit" => Emits(creq)
    /\ \A r \in Requests : tpc[r] = "emitted" => Emits(r)

(* Where exit statuses are looked at, and until that first lift or clear,  *)
(* only the latest lift runs; m_state is past it, and a request for a      *)
(* graph under way, only once both its commands have succeeded.            *)
PastLift ==
    \/ state \in {"Ready", "EmittingCFG", "RenderingCallGraph"}
    \/ cpc \in {"emit", "launch"} /\ Emits(creq)
    \/ \E r \in Active : Emits(r)
LatestLifted == gen \in lifted /\ lpc[gen] \in {"flush", "launch", "cb", "done"}
LiftedInv ==
    ExitChecked /\ quiet =>
        /\ Alive \subseteq {gen}
        /\ cpc \in {"clear", "drain", "cleared", "launch lift"} => Active = {} /\ Alive = {}
        /\ IF cpc = "launch lift" THEN state = "Lifting" /\ binary = gen + 1 ELSE binary = gen
        /\ \A g \in Lifts :
             lpc[g] \in {"abi", "check", "ready", "flush", "launch", "cb"} => g \in lifted
        /\ PastLift => LatestLifted

(* What waits in a queue, or is with the client, waits there only once, is *)
(* no decompile, has no thread and is not answered.                        *)
Waits(r) == Kind[r] # "sync" /\ r \notin Active /\ answer[r] = "none"
HeldInv == \A r \in Requests : Held(r) => Waits(r)
PendingInv ==
    \A k \in 1 .. Len(pending) :
        /\ Waits(pending[k]) /\ ~Held(pending[k])
        /\ \A l \in 1 .. Len(pending) : pending[k] = pending[l] => k = l
BatchInv ==
    \A g \in Lifts : \A k \in 1 .. Len(lbatch[g]) :
        /\ Waits(lbatch[g][k]) /\ ~Held(lbatch[g][k])
        /\ \A l \in 1 .. Len(pending) : lbatch[g][k] # pending[l]
        /\ \A h \in Lifts : \A l \in 1 .. Len(lbatch[h]) :
             lbatch[g][k] = lbatch[h][l] => g = h /\ k = l
QueuesInv == HeldInv /\ PendingInv /\ BatchInv

IInv ==
    /\ TypeOK /\ ClientInv /\ NoDetachedThread /\ SupersededLiftEnds
    /\ QuietCacheFresh /\ FreshInv /\ GraphInv /\ LiftedInv /\ QueuesInv
=============================================================================
