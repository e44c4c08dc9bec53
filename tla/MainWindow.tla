----------------------------- MODULE MainWindow -----------------------------
(***************************************************************************)
(* The main window of src/ui/qt and its two RevngWorkers: the GUI thread   *)
(* with the open file, the pseudocode panel and the options; the analyses  *)
(* of files on QtConcurrent's threads; the worker that decompiles and the  *)
(* worker for the graphs, each on its own thread behind a queued           *)
(* connection.                                                             *)
(*                                                                         *)
(* A slot of the GUI thread is one step: what it emits is queued, and the  *)
(* modal dialogs it opens let no other command in.  RevngWorker::decompile *)
(* is cut where it can be caught by setPath, which the GUI thread calls    *)
(* directly on the worker's object, and so is ensureDecompiler.  setPath   *)
(* itself is one step: what a worker can find it doing half way, it finds  *)
(* before or after it.                                                     *)
(*                                                                         *)
(* A decompiler is what the worker's m_decompiler points to: the rev.ng    *)
(* path it was given, the file it lifted and its state.  What happens      *)
(* inside it is the module RevngDecompiler.  Other panels, recent files,   *)
(* fonts and the closing of the window are left out, and both graph        *)
(* options are taken as on.                                                *)
(***************************************************************************)
EXTENDS Naturals, Sequences, FiniteSets

CONSTANTS
    None,
    Files,          \* the paths of binaries
    Fns,            \* function addresses; any file may have each of them
    Paths,          \* where rev.ng may be installed
    SavedPath,      \* the path in the settings at start
    MaxLoads,       \* bound: analyses started
    MaxRequests,    \* bound: functions selected
    MaxEdits,       \* bound: options, settings and toggles
    MaxCommands     \* bound: all of these together

ASSUME NoneAssumption == None \notin Files \cup Fns \cup Paths
ASSUME PathAssumption == SavedPath \in Paths
ASSUME BoundsAssumption ==
    MaxLoads \in Nat /\ MaxRequests \in Nat /\ MaxEdits \in Nat /\ MaxCommands \in Nat

VARIABLES
    file,           \* m_currentFile
    listed,         \* the file whose functions the functions panel lists
    panel,          \* the pseudocode panel
    revng, path,    \* m_analysisOptions: enableRevng, revngPath
    reanalyze,      \* m_reanalyzeAct is enabled
    loads,          \* loads[i]: the i-th analysis of a file
    inbox,          \* decompile requests queued for m_revngWorker
    outbox,         \* its signals queued for the GUI thread
    wpc, wreq,      \* RevngWorker::decompile: how far it is, with which request
    wpath, wbin,    \* m_revngWorker: m_path, m_currentBinary
    dec,            \* m_revngWorker: m_decompiler
    graphs,         \* graph requests queued for m_analysisWorker: their files
    apath, abin,    \* m_analysisWorker: m_path, m_currentBinary
    adec,           \* m_analysisWorker: m_decompiler
    gpc, gfile,     \* the graph slot: how far it is, for which file
    graph,          \* the answer to the last graph request
    crashed,        \* a member function was called on no decompiler
    asked,          \* history: the last decompile request
    nreq, nedit     \* counters for the bounds

optionVars  == <<revng, path>>
fileVars    == <<file, listed, reanalyze, loads>>
workerVars  == <<wpc, wreq, wpath, wbin, dec>>
graphVars   == <<apath, abin, adec, gpc, gfile, graph>>
vars == <<fileVars, optionVars, panel, inbox, outbox, workerVars, graphs, graphVars,
          crashed, asked, nreq, nedit>>

Loads == 1 .. MaxLoads
FilesOrNone == Files \cup {None}
Requests == [fn : Fns, file : Files]
Decompilers == [path : Paths, file : Files, state : {"Idle", "Lifting", "Ready", "Error"}]
Blank(k) == [kind |-> k, fn |-> None, file |-> None]
Text(r) == [kind |-> "text", fn |-> r.fn, file |-> r.file]
Panels == [kind : {"clear", "rev.ng off", "rev.ng on", "decompiling", "failed", "text"},
           fn : Fns \cup {None}, file : FilesOrNone]

Analysis == [state : {"unused"}, file : {None}] \cup [state : {"running", "done"}, file : Files]

WindowType ==
    /\ file \in FilesOrNone /\ listed \in FilesOrNone /\ reanalyze \in BOOLEAN
    /\ loads \in [Loads -> Analysis]
PanelType ==
    /\ panel \in Panels
    /\ revng \in BOOLEAN /\ path \in Paths
QueueType ==
    /\ inbox \in Seq(Requests) /\ outbox \in Seq(Panels) /\ graphs \in Seq(Files)
    /\ asked \in Requests \cup {None}
WorkerType ==
    /\ wpc \in {"idle", "create", "configure", "lift", "lifting", "decompile", "running"}
    /\ wreq \in Requests \cup {None}
    /\ wpath \in Paths /\ wbin \in FilesOrNone /\ dec \in Decompilers \cup {None}
GraphType ==
    /\ apath \in Paths /\ abin \in FilesOrNone /\ adec \in Decompilers \cup {None}
    /\ gpc \in {"idle", "create", "configure"}
    /\ IF gpc = "idle" THEN gfile = None ELSE gfile \in Files
    /\ graph \in {"none", "not ready", "ready"}
CountType == crashed \in BOOLEAN /\ nreq \in 0 .. MaxRequests /\ nedit \in 0 .. MaxEdits

TypeOK == WindowType /\ PanelType /\ QueueType /\ WorkerType /\ GraphType /\ CountType

Init ==
    /\ file = None /\ listed = None /\ panel = Blank("clear")
    /\ revng = TRUE /\ path = SavedPath /\ reanalyze = FALSE
    /\ loads = [i \in Loads |-> [state |-> "unused", file |-> None]]
    /\ inbox = << >> /\ outbox = << >>
    /\ wpc = "idle" /\ wreq = None /\ wpath = path /\ wbin = None /\ dec = None
    /\ graphs = << >>
    /\ apath = path /\ abin = None /\ adec = None
    /\ gpc = "idle" /\ gfile = None /\ graph = "none"
    /\ crashed = FALSE
    /\ asked = None /\ nreq = 0 /\ nedit = 0

-----------------------------------------------------------------------------
(* The menus.                                                              *)

CountEdit == nedit < MaxEdits /\ nedit' = nedit + 1

(* setPath on m_revngWorker and on m_analysisWorker.                       *)
SetRevngWorkerPath(p) == wpath' = p /\ wbin' = None /\ dec' = None
SetAnalysisWorkerPath(p) == apath' = p /\ abin' = None /\ adec' = None

(* applyAnalysisOptions, but for the panel that the enable action writes.  *)
ApplyOptions(p, on) ==
    /\ path' = p
    /\ revng' = on
    /\ IF p # path
       THEN SetRevngWorkerPath(p) /\ SetAnalysisWorkerPath(p)
       ELSE UNCHANGED <<wpath, wbin, dec, apath, abin, adec>>
    /\ UNCHANGED <<wpc, wreq, gpc, gfile, graph>>

Toggled(on) ==
    panel' = IF on = revng THEN panel ELSE Blank(IF on THEN "rev.ng on" ELSE "rev.ng off")

(* clearAllPanels and runAnalysis(f).                                      *)
ClearAndAnalyze(f) ==
    /\ \E i \in Loads :
         /\ loads[i].state = "unused"
         /\ \A j \in 1 .. i - 1 : loads[j].state # "unused"
         /\ loads' = [loads EXCEPT ![i] = [state |-> "running", file |-> f]]
    /\ file' = None /\ listed' = None /\ panel' = Blank("clear") /\ reanalyze' = FALSE

(* onFileOpen and onOpenRecent; the dialog of options comes first.         *)
Open(f, p, on) ==
    /\ IF <<p, on>> = <<path, revng>> THEN UNCHANGED nedit ELSE CountEdit
    /\ ApplyOptions(p, on)
    /\ ClearAndAnalyze(f)
    /\ UNCHANGED <<inbox, outbox, graphs, crashed, asked, nreq>>

(* onAnalysisOptions: an open file is analysed anew.                       *)
AnalysisOptions(p, on) ==
    /\ CountEdit
    /\ ApplyOptions(p, on)
    /\ IF file # None
       THEN ClearAndAnalyze(file)
       ELSE Toggled(on) /\ UNCHANGED fileVars
    /\ UNCHANGED <<inbox, outbox, graphs, crashed, asked, nreq>>

(* Faulty variant: the worker hears of the new path with the next request. *)
SettingsStoredOnly(p) ==
    /\ CountEdit
    /\ path' = p
    /\ UNCHANGED <<fileVars, revng, panel, inbox, outbox, workerVars, graphs, graphVars,
                   crashed, asked, nreq>>

(* onSettings: only the worker that decompiles hears of the path.          *)
Settings(p) ==
    /\ CountEdit
    /\ path' = p
    /\ SetRevngWorkerPath(p)
    /\ UNCHANGED <<fileVars, revng, panel, inbox, outbox, wpc, wreq, graphs, graphVars,
                   crashed, asked, nreq>>

(* onReanalyze.                                                            *)
Reanalyze ==
    /\ reanalyze
    /\ file # None
    /\ ClearAndAnalyze(file)
    /\ UNCHANGED <<optionVars, inbox, outbox, workerVars, graphs, graphVars,
                   crashed, asked, nreq, nedit>>

(* onToggleRevng.                                                          *)
ToggleRevng ==
    /\ CountEdit
    /\ revng' = ~revng
    /\ Toggled(~revng)
    /\ UNCHANGED <<fileVars, path, inbox, outbox, workerVars, graphs, graphVars,
                   crashed, asked, nreq>>

-----------------------------------------------------------------------------
(* Events that reach the GUI thread.                                       *)

(* The watcher of an analysis, then onAnalysisComplete.  A file that is    *)
(* not a PE counts as a success without functions.                         *)
AnalysisFinished(i, result) ==
    /\ loads[i].state = "running"
    /\ loads' = [loads EXCEPT ![i].state = "done"]
    /\ IF result = "failed"
       THEN UNCHANGED <<file, listed, panel, reanalyze, graphs>>
       ELSE /\ file' = loads[i].file
            /\ listed' = IF result = "PE" THEN loads[i].file ELSE None
            /\ panel' = Blank("clear")
            /\ reanalyze' = TRUE
            /\ graphs' = IF revng THEN Append(graphs, loads[i].file) ELSE graphs
    /\ UNCHANGED <<optionVars, inbox, outbox, workerVars, graphVars,
                   crashed, asked, nreq, nedit>>

(* onFunctionSelected.                                                     *)
SelectFunction(fn) ==
    /\ listed # None /\ file # None
    /\ nreq < MaxRequests /\ nreq' = nreq + 1
    /\ LET r == [fn |-> fn, file |-> file]
       IN IF revng
          THEN /\ panel' = Blank("decompiling")
               /\ inbox' = Append(inbox, r)
               /\ asked' = r
               /\ graphs' = Append(graphs, file)
          ELSE /\ panel' = Blank("rev.ng off")
               /\ UNCHANGED <<inbox, asked, graphs>>
    /\ UNCHANGED <<fileVars, optionVars, outbox, workerVars, graphVars, crashed, nedit>>

(* onPseudocodeReady and onDecompileError.                                 *)
Answered ==
    /\ outbox # << >>
    /\ panel' = Head(outbox)
    /\ outbox' = Tail(outbox)
    /\ UNCHANGED <<fileVars, optionVars, inbox, workerVars, graphs, graphVars,
                   crashed, asked, nreq, nedit>>

-----------------------------------------------------------------------------
(* RevngWorker::decompile on the thread of m_revngWorker.                  *)

workerRest == <<fileVars, optionVars, panel, graphs, graphVars, asked, nreq, nedit>>

(* needsLift, but for the file.                                            *)
Unusable(d) == IF d = None THEN TRUE ELSE d.state = "Error"

(* The beginning of the slot for request r: m_currentBinary is set and the *)
(* decompiler dropped if the file has to be lifted.                        *)
Prepare(r, needsLift) ==
    /\ wreq' = r
    /\ IF needsLift
       THEN wpc' = "create" /\ wbin' = r.file /\ dec' = None
       ELSE wpc' = "decompile" /\ UNCHANGED <<wbin, dec>>

(* Faulty variant: a decompiler whose lift failed is used again.           *)
WorkerTakeKeepsFailed ==
    /\ wpc = "idle"
    /\ inbox # << >>
    /\ inbox' = Tail(inbox)
    /\ Prepare(Head(inbox), Head(inbox).file # wbin \/ dec = None)
    /\ UNCHANGED <<outbox, wpath, crashed, workerRest>>

(* Faulty variant: the latest request is served first.                     *)
WorkerTakeLatest ==
    /\ wpc = "idle"
    /\ inbox # << >>
    /\ inbox' = SubSeq(inbox, 1, Len(inbox) - 1)
    /\ Prepare(inbox[Len(inbox)], inbox[Len(inbox)].file # wbin \/ Unusable(dec))
    /\ UNCHANGED <<outbox, wpath, crashed, workerRest>>

WorkerTake ==
    /\ wpc = "idle"
    /\ inbox # << >>
    /\ inbox' = Tail(inbox)
    /\ Prepare(Head(inbox), Head(inbox).file # wbin \/ Unusable(dec))
    /\ UNCHANGED <<outbox, wpath, crashed, workerRest>>

(* The end of the slot, with a signal to the GUI thread.                   *)
Emit(answer) ==
    /\ outbox' = Append(outbox, answer)
    /\ wpc' = "idle"
    /\ wreq' = None

(* RevngDecompiler::create, which throws where there is no rev.ng.         *)
WorkerCreate ==
    /\ wpc = "create"
    /\ \/ dec' = None /\ Emit(Blank("failed"))
       \/ /\ dec' = [path |-> wpath, file |-> wreq.file, state |-> "Idle"]
          /\ wpc' = "configure"
          /\ UNCHANGED <<outbox, wreq>>
    /\ UNCHANGED <<inbox, wpath, wbin, crashed, workerRest>>

(* A call through m_decompiler: on none it ends the program.               *)
Through(call) ==
    IF dec = None
    THEN crashed' = TRUE /\ UNCHANGED <<outbox, wpc, wreq, dec>>
    ELSE call /\ UNCHANGED crashed

(* set_path and the callbacks.                                             *)
WorkerConfigure ==
    /\ wpc = "configure"
    /\ Through(wpc' = "lift" /\ dec' = [dec EXCEPT !.path = wpath] /\ UNCHANGED <<outbox, wreq>>)
    /\ UNCHANGED <<inbox, wpath, wbin, workerRest>>

WorkerLift ==
    /\ wpc = "lift"
    /\ Through(wpc' = "lifting" /\ dec' = [dec EXCEPT !.state = "Lifting"]
               /\ UNCHANGED <<outbox, wreq>>)
    /\ UNCHANGED <<inbox, wpath, wbin, workerRest>>

(* Faulty variant: a lift whose decompiler is gone does not call back.     *)
WorkerLiftedByLiving ==
    /\ wpc = "lifting"
    /\ dec # None
    /\ \/ /\ wpc' = "decompile"
          /\ dec' = [dec EXCEPT !.state = "Ready"]
          /\ UNCHANGED <<outbox, wreq>>
       \/ /\ dec' = [dec EXCEPT !.state = "Error"]
          /\ Emit(Blank("failed"))
    /\ UNCHANGED <<inbox, wpath, wbin, crashed, workerRest>>

(* The lift calls back; it does so too when setPath has destroyed the      *)
(* decompiler, since its destructor waits for the lift.                    *)
WorkerLifted ==
    /\ wpc = "lifting"
    /\ \/ /\ wpc' = "decompile"
          /\ dec' = IF dec = None THEN None ELSE [dec EXCEPT !.state = "Ready"]
          /\ UNCHANGED <<outbox, wreq>>
       \/ /\ dec' = IF dec = None THEN None ELSE [dec EXCEPT !.state = "Error"]
          /\ Emit(Blank("failed"))
    /\ UNCHANGED <<inbox, wpath, wbin, crashed, workerRest>>

WorkerDecompile ==
    /\ wpc = "decompile"
    /\ Through(wpc' = "running" /\ UNCHANGED <<outbox, wreq, dec>>)
    /\ UNCHANGED <<inbox, wpath, wbin, workerRest>>

(* decompile returns; destroyed under way, it may also end the program.    *)
WorkerReturn ==
    /\ wpc = "running"
    /\ \/ Emit(Text(wreq)) /\ UNCHANGED crashed
       \/ Emit(Blank("failed")) /\ UNCHANGED crashed
       \/ /\ dec = None
          /\ crashed' = TRUE
          /\ UNCHANGED <<outbox, wpc, wreq>>
    /\ UNCHANGED <<inbox, wpath, wbin, dec, workerRest>>

-----------------------------------------------------------------------------
(* generateCFG and generateCallGraph on the thread of m_analysisWorker:    *)
(* ensureDecompiler, which setPath may catch too, and the answer, which is *)
(* that the decompiler is not ready unless somebody has lifted the file    *)
(* with it.                                                                *)

graphRest == <<fileVars, optionVars, panel, inbox, outbox, workerVars, apath, asked, nreq, nedit>>

AnswerGraph(d) ==
    /\ graph' = IF d # None /\ d.state = "Ready" THEN "ready" ELSE "not ready"
    /\ gpc' = "idle"
    /\ gfile' = None

GraphTake ==
    /\ gpc = "idle"
    /\ graphs # << >>
    /\ graphs' = Tail(graphs)
    /\ IF Head(graphs) # abin \/ Unusable(adec)
       THEN /\ abin' = Head(graphs) /\ adec' = None
            /\ gpc' = "create" /\ gfile' = Head(graphs)
            /\ UNCHANGED graph
       ELSE AnswerGraph(adec) /\ UNCHANGED <<abin, adec>>
    /\ UNCHANGED <<crashed, graphRest>>

GraphCreate ==
    /\ gpc = "create"
    /\ \/ adec' = None /\ AnswerGraph(None)
       \/ /\ adec' = [path |-> apath, file |-> gfile, state |-> "Idle"]
          /\ gpc' = "configure"
          /\ UNCHANGED <<gfile, graph>>
    /\ UNCHANGED <<graphs, abin, crashed, graphRest>>

GraphConfigure ==
    /\ gpc = "configure"
    /\ IF adec = None
       THEN crashed' = TRUE /\ UNCHANGED <<adec, gpc, gfile, graph>>
       ELSE /\ adec' = [adec EXCEPT !.path = apath]
            /\ AnswerGraph(adec)
            /\ UNCHANGED crashed
    /\ UNCHANGED <<graphs, abin, graphRest>>

-----------------------------------------------------------------------------
(* What the user has done so far.                                          *)
Commands == nreq + nedit + Cardinality({i \in Loads : loads[i].state # "unused"})

User ==
    /\ Commands < MaxCommands
    /\ \/ \E p \in Paths, on \in BOOLEAN :
            AnalysisOptions(p, on) \/ \E f \in Files : Open(f, p, on)
       \/ \E p \in Paths : Settings(p)
       \/ Reanalyze \/ ToggleRevng
       \/ \E fn \in Fns : SelectFunction(fn)
Analyses == \E i \in Loads, result \in {"PE", "not PE", "failed"} : AnalysisFinished(i, result)
Worker ==
    \/ WorkerTake \/ WorkerCreate \/ WorkerConfigure \/ WorkerLift \/ WorkerLifted
    \/ WorkerDecompile \/ WorkerReturn
GraphWorker == GraphTake \/ GraphCreate \/ GraphConfigure

Next == ~crashed /\ (User \/ Analyses \/ Answered \/ Worker \/ GraphWorker)

SafeSpec == Init /\ [][Next]_vars

(* The GUI thread handles its events, the workers' threads theirs, and an  *)
(* analysis ends; the user need not do anything.                           *)
Fairness ==
    /\ WF_vars(~crashed /\ Analyses)
    /\ WF_vars(~crashed /\ Answered)
    /\ WF_vars(~crashed /\ Worker)
    /\ WF_vars(~crashed /\ GraphWorker)

Spec == SafeSpec /\ Fairness

-----------------------------------------------------------------------------
(* Nothing is queued or running between the window and the worker.         *)
Settled == ~crashed /\ inbox = << >> /\ wpc = "idle" /\ outbox = << >>

(* decompileReady names no function, so only the order of the queues says  *)
(* which selection a text answers: once settled, a text in the panel is    *)
(* that of the last decompilation asked for, whatever was opened since.    *)
SettledTextIsLastAsked ==
    Settled /\ panel.kind = "text" => panel = Text(asked)

(* Force re-lift with the updated path: whenever the worker has a lifted   *)
(* decompiler it was lifted with the path in force; and it will be taken   *)
(* for a lift of m_currentBinary only if it is one.  setPath may catch the *)
(* worker anywhere.                                                        *)
LiftedWithPath ==
    dec # None /\ dec.state \in {"Lifting", "Ready"} =>
        dec.path = wpath /\ wpath = path /\ wbin \in {dec.file, None}

(* A decompiler that is asked to decompile has lifted the file of the      *)
(* request; a failed lift is never asked.                                  *)
DecompilesWhatItLifted ==
    wpc = "running" /\ dec # None => dec.state = "Ready" /\ dec.file = wreq.file

(* The placeholder is replaced in the end, or the program is gone.         *)
PlaceholderEnds == panel.kind = "decompiling" ~> panel.kind # "decompiling" \/ crashed

-----------------------------------------------------------------------------
(* What the proofs need besides.                                           *)

(* How far the slot is tells the state of its decompiler, if setPath has   *)
(* left it one; and setPath takes the file along with the decompiler.      *)
WorkerInv ==
    /\ wpath = path
    /\ IF wpc = "idle" THEN wreq = None ELSE wreq \in Requests
    /\ wpc = "create" => dec = None
    /\ wpc \in {"create", "configure", "lift", "lifting"} => wbin \in {wreq.file, None}
    /\ dec # None =>
         /\ dec.path = wpath /\ wbin \in {dec.file, None}
         /\ wpc # "idle" => dec.file = wreq.file
         /\ wpc = "idle" => dec.state \in {"Ready", "Error"}
         /\ wpc \in {"configure", "lift"} => dec.state = "Idle"
         /\ wpc = "lifting" => dec.state = "Lifting"
         /\ wpc \in {"decompile", "running"} => dec.state = "Ready"

(* The last decompilation asked for is the last in the first of these that *)
(* is not empty: the requests, the slot, the answers; or it is answered.   *)
QueueInv ==
    /\ inbox # << >> => inbox[Len(inbox)] = asked
    /\ inbox = << >> =>
         /\ wpc # "idle" => wreq = asked
         /\ wpc = "idle" /\ outbox # << >> =>
              outbox[Len(outbox)] \in {Text(asked), Blank("failed")}
         /\ wpc = "idle" /\ outbox = << >> /\ panel.kind = "text" => panel = Text(asked)

IInv == TypeOK /\ WorkerInv /\ QueueInv

=============================================================================
