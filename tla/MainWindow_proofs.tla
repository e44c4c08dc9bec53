-------------------------- MODULE MainWindow_proofs --------------------------
(***************************************************************************)
(* Proofs about MainWindow, for any files, functions and paths of rev.ng   *)
(* and any number of commands.                                             *)
(***************************************************************************)
EXTENDS MainWindow, SequenceTheorems, TLAPS

Kinds == {"clear", "rev.ng off", "rev.ng on", "decompiling", "failed", "text"}

LEMMA PanelsShown ==
    /\ \A k \in Kinds : Blank(k) \in Panels /\ Blank(k).kind = k
    /\ \A r \in Requests : Text(r) \in Panels
BY DEF Blank, Text, Panels, Requests, Kinds, FilesOrNone

(* What setPath and a decompiler's progress leave is a decompiler or none. *)
LEMMA DecompilersStay ==
    ASSUME NEW d \in Decompilers
    PROVE  /\ \A p \in Paths :
                /\ [d EXCEPT !.path = p] \in Decompilers
                /\ [d EXCEPT !.path = p].path = p
                /\ [d EXCEPT !.path = p].file = d.file
                /\ [d EXCEPT !.path = p].state = d.state
           /\ \A s \in {"Idle", "Lifting", "Ready", "Error"} :
                /\ [d EXCEPT !.state = s] \in Decompilers
                /\ [d EXCEPT !.state = s].path = d.path
                /\ [d EXCEPT !.state = s].file = d.file
                /\ [d EXCEPT !.state = s].state = s
BY DEF Decompilers

(* The last of a queue after one more has been put in, or one taken out.   *)
LEMMA LastOfQueue ==
    ASSUME NEW S, NEW q \in Seq(S)
    PROVE  /\ \A x \in S : LET r == Append(q, x)
                           IN r \in Seq(S) /\ r # << >> /\ r[Len(r)] = x
           /\ q # << >> =>
                /\ Head(q) \in S /\ Tail(q) \in Seq(S)
                /\ Tail(q) # << >> => Tail(q)[Len(Tail(q))] = q[Len(q)]
                /\ Tail(q) = << >> => Head(q) = q[Len(q)]
<1>1. ASSUME NEW x \in S
      PROVE  /\ Append(q, x) \in Seq(S) /\ Append(q, x) # << >>
             /\ Append(q, x)[Len(Append(q, x))] = x
  BY AppendProperties
<1>2. ASSUME q # << >>
      PROVE  /\ Head(q) \in S /\ Tail(q) \in Seq(S)
             /\ Tail(q) # << >> => Tail(q)[Len(Tail(q))] = q[Len(q)]
             /\ Tail(q) = << >> => Head(q) = q[Len(q)]
  <2> DEFINE t == Tail(q)
             n == Len(q)
  <2>1. n \in Nat \ {0} /\ Head(q) = q[1]
    BY <1>2, EmptySeq
  <2>2. /\ Head(q) \in S /\ t \in Seq(S) /\ Len(t) = n - 1
        /\ \A i \in 1 .. n - 1 : t[i] = q[i + 1]
    BY <1>2, HeadTailProperties
  <2> HIDE DEF t, n
  <2>3. t # << >> => t[Len(t)] = q[n]
    <3>1. ASSUME t # << >> PROVE n - 1 \in 1 .. n - 1 /\ n - 1 + 1 = n
      BY <2>1, <2>2, <3>1, EmptySeq
    <3>2. QED
      BY <2>2, <3>1
  <2>4. t = << >> => n = 1
    BY <2>1, <2>2
  <2>5. QED
    BY <2>1, <2>2, <2>3, <2>4 DEF t, n
<1>3. QED
  BY <1>1, <1>2

-----------------------------------------------------------------------------
(* Every step keeps the types.                                             *)

(* What a step leaves alone keeps its type.                                *)
LEMMA Kept ==
    ASSUME TypeOK
    PROVE  /\ UNCHANGED fileVars => WindowType'
           /\ UNCHANGED <<panel, revng, path>> => PanelType'
           /\ UNCHANGED <<inbox, outbox, graphs, asked>> => QueueType'
           /\ UNCHANGED workerVars => WorkerType'
           /\ UNCHANGED graphVars => GraphType'
           /\ UNCHANGED <<crashed, nreq, nedit>> => CountType'
<1>1. UNCHANGED fileVars => WindowType'
  BY DEF TypeOK, WindowType, fileVars
<1>2. UNCHANGED <<panel, revng, path>> => PanelType'
  BY DEF TypeOK, PanelType
<1>3. UNCHANGED <<inbox, outbox, graphs, asked>> => QueueType'
  BY DEF TypeOK, QueueType
<1>4. UNCHANGED workerVars => WorkerType'
  BY DEF TypeOK, WorkerType, workerVars
<1>5. UNCHANGED graphVars => GraphType'
  BY DEF TypeOK, GraphType, graphVars
<1>6. UNCHANGED <<crashed, nreq, nedit>> => CountType'
  BY DEF TypeOK, CountType
<1>7. QED
  BY <1>1, <1>2, <1>3, <1>4, <1>5, <1>6

(* What the commands do to the options, the workers and the analyses.      *)
LEMMA OptionsType ==
    ASSUME TypeOK, NEW p \in Paths, NEW on \in BOOLEAN, ApplyOptions(p, on)
    PROVE  path' \in Paths /\ revng' \in BOOLEAN /\ WorkerType' /\ GraphType'
<1>1. path' \in Paths /\ revng' \in BOOLEAN
  BY DEF ApplyOptions
<1>2. WorkerType'
  BY DEF TypeOK, WorkerType, ApplyOptions, SetRevngWorkerPath, FilesOrNone
<1>3. GraphType'
  BY DEF TypeOK, GraphType, ApplyOptions, SetAnalysisWorkerPath, FilesOrNone
<1>4. QED
  BY <1>1, <1>2, <1>3

LEMMA AnalyzeType ==
    ASSUME TypeOK, NEW f \in Files, ClearAndAnalyze(f)
    PROVE  WindowType' /\ panel' \in Panels /\ panel'.kind = "clear"
<1>1. [state |-> "running", file |-> f] \in Analysis
  BY DEF Analysis
<1>2. loads' \in [Loads -> Analysis]
  BY <1>1 DEF TypeOK, WindowType, ClearAndAnalyze
<1>3. file' = None /\ listed' = None /\ panel' = Blank("clear") /\ reanalyze' = FALSE
  BY DEF ClearAndAnalyze
<1>4. QED
  BY <1>2, <1>3, PanelsShown DEF WindowType, FilesOrNone, Kinds

LEMMA CountersType ==
    ASSUME TypeOK, CountEdit \/ UNCHANGED nedit, UNCHANGED <<crashed, nreq>>
    PROVE  CountType'
<1>1. nedit \in Nat /\ nedit <= MaxEdits /\ MaxEdits \in Nat
  BY BoundsAssumption DEF TypeOK, CountType
<1>2. nedit' \in 0 .. MaxEdits
  BY <1>1 DEF CountEdit
<1>3. QED
  BY <1>2 DEF TypeOK, CountType

LEMMA ToggledType ==
    ASSUME TypeOK, NEW on \in BOOLEAN, Toggled(on)
    PROVE  panel' \in Panels /\ (panel' = panel \/ panel'.kind # "text")
<1>1. Blank("rev.ng on") \in Panels /\ Blank("rev.ng on").kind = "rev.ng on"
  BY PanelsShown DEF Kinds
<1>2. Blank("rev.ng off") \in Panels /\ Blank("rev.ng off").kind = "rev.ng off"
  BY PanelsShown DEF Kinds
<1>3. panel \in Panels
  BY DEF TypeOK, PanelType
<1>4. QED
  BY <1>1, <1>2, <1>3 DEF Toggled

(* The parts of the types that a command leaves to the lemmas above.       *)
LEMMA UserType == TypeOK /\ User => TypeOK'
<1> SUFFICES ASSUME TypeOK, User PROVE TypeOK'
  OBVIOUS
<1>1. ASSUME NEW p \in Paths, NEW on \in BOOLEAN, NEW f \in Files, Open(f, p, on) PROVE TypeOK'
  <2>1. /\ ApplyOptions(p, on) /\ ClearAndAnalyze(f)
        /\ CountEdit \/ UNCHANGED nedit
        /\ UNCHANGED <<inbox, outbox, graphs, asked>> /\ UNCHANGED <<crashed, nreq>>
    BY <1>1 DEF Open
  <2>2. QueueType' /\ CountType'
    BY <2>1, Kept, CountersType
  <2>3. QED
    BY <2>1, <2>2, OptionsType, AnalyzeType DEF TypeOK, PanelType
<1>2. ASSUME NEW p \in Paths, NEW on \in BOOLEAN, AnalysisOptions(p, on) PROVE TypeOK'
  <2>1. /\ ApplyOptions(p, on) /\ CountEdit
        /\ UNCHANGED <<inbox, outbox, graphs, asked>> /\ UNCHANGED <<crashed, nreq>>
    BY <1>2 DEF AnalysisOptions
  <2>2. QueueType' /\ CountType'
    BY <2>1, Kept, CountersType
  <2>3. CASE file # None /\ ClearAndAnalyze(file)
    <3>1. file \in Files
      BY <2>3 DEF TypeOK, WindowType, FilesOrNone
    <3>2. QED
      BY <2>1, <2>2, <2>3, <3>1, OptionsType, AnalyzeType DEF TypeOK, PanelType
  <2>4. CASE Toggled(on) /\ UNCHANGED fileVars
    <3>1. WindowType' /\ panel' \in Panels
      BY <2>4, Kept, ToggledType
    <3>2. QED
      BY <2>1, <2>2, <3>1, OptionsType DEF TypeOK, PanelType
  <2>5. QED
    BY <1>2, <2>3, <2>4 DEF AnalysisOptions
<1>3. ASSUME NEW p \in Paths, Settings(p) PROVE TypeOK'
  <2>1. WindowType' /\ QueueType' /\ GraphType' /\ CountType'
    BY <1>3, Kept, CountersType DEF Settings
  <2>2. PanelType'
    BY <1>3 DEF Settings, TypeOK, PanelType
  <2>3. WorkerType'
    BY <1>3 DEF Settings, SetRevngWorkerPath, TypeOK, WorkerType, FilesOrNone
  <2>4. QED
    BY <2>1, <2>2, <2>3 DEF TypeOK
<1>4. ASSUME Reanalyze PROVE TypeOK'
  <2>1. file \in Files /\ ClearAndAnalyze(file)
    BY <1>4 DEF Reanalyze, TypeOK, WindowType, FilesOrNone
  <2>2. QueueType' /\ WorkerType' /\ GraphType' /\ CountType'
    BY <1>4, Kept DEF Reanalyze
  <2>3. WindowType' /\ panel' \in Panels
    BY <2>1, AnalyzeType
  <2>4. PanelType'
    BY <1>4, <2>3 DEF Reanalyze, TypeOK, PanelType, optionVars
  <2>5. QED
    BY <2>2, <2>3, <2>4 DEF TypeOK
<1>5. ASSUME ToggleRevng PROVE TypeOK'
  <2>1. WindowType' /\ QueueType' /\ WorkerType' /\ GraphType' /\ CountType'
    BY <1>5, Kept, CountersType DEF ToggleRevng
  <2>2. panel' \in Panels /\ revng' \in BOOLEAN
    <3>1. Toggled(~revng) /\ (revng' <=> ~revng)
      BY <1>5, Zenon DEF ToggleRevng
    <3>2. (~revng) \in BOOLEAN /\ revng' \in BOOLEAN
      BY <1>5, SMT DEF ToggleRevng
    <3>3. QED
      BY <3>1, <3>2, ToggledType, Zenon
  <2>3. PanelType'
    BY <1>5, <2>2 DEF ToggleRevng, TypeOK, PanelType
  <2>4. QED
    BY <2>1, <2>3 DEF TypeOK
<1>6. ASSUME NEW fn \in Fns, SelectFunction(fn) PROVE TypeOK'
  <2> DEFINE r == [fn |-> fn, file |-> file]
  <2>1. file \in Files
    BY <1>6 DEF SelectFunction, TypeOK, WindowType, FilesOrNone
  <2>2. r \in Requests
    BY <2>1 DEF Requests
  <2>3. /\ WindowType' /\ WorkerType' /\ GraphType'
        /\ UNCHANGED <<outbox, crashed, nedit>>
    BY <1>6, Kept DEF SelectFunction
  <2>4. CountType'
    <3>1. nreq < MaxRequests /\ nreq' = nreq + 1
      BY <1>6 DEF SelectFunction
    <3>2. nreq' \in 0 .. MaxRequests
      BY <3>1, BoundsAssumption DEF TypeOK, CountType
    <3>3. QED
      BY <2>3, <3>2 DEF TypeOK, CountType
  <2>5. PanelType'
    <3>1. panel' \in {Blank("decompiling"), Blank("rev.ng off")} /\ UNCHANGED optionVars
      BY <1>6 DEF SelectFunction
    <3>2. panel' \in Panels
      BY <3>1, PanelsShown DEF Kinds
    <3>3. QED
      BY <3>1, <3>2 DEF TypeOK, PanelType, optionVars
  <2>6. QueueType'
    <3>1. inbox \in Seq(Requests) /\ graphs \in Seq(Files)
      BY DEF TypeOK, QueueType
    <3>2. Append(inbox, r) \in Seq(Requests) /\ Append(graphs, file) \in Seq(Files)
      BY <2>1, <2>2, <3>1, AppendProperties
    <3>3. CASE inbox' = Append(inbox, r) /\ asked' = r /\ graphs' = Append(graphs, file)
      <4> HIDE DEF r
      <4>1. QED
        BY <2>2, <2>3, <3>2, <3>3 DEF TypeOK, QueueType
    <3>4. CASE UNCHANGED <<inbox, asked, graphs>>
      BY <2>3, <3>4, Kept
    <3>5. QED
      BY <1>6, <3>3, <3>4 DEF SelectFunction
  <2>7. QED
    BY <2>3, <2>4, <2>5, <2>6 DEF TypeOK
<1>7. QED
  BY <1>1, <1>2, <1>3, <1>4, <1>5, <1>6 DEF User

LEMMA EventType ==
    TypeOK /\ (Analyses \/ Answered) => TypeOK'
<1>1. ASSUME TypeOK, NEW i \in Loads, NEW result \in {"PE", "not PE", "failed"},
             AnalysisFinished(i, result)
      PROVE  TypeOK'
  <2> USE <1>1
  <2>1. loads' = [loads EXCEPT ![i].state = "done"] /\ loads \in [Loads -> Analysis]
    BY DEF AnalysisFinished, TypeOK, WindowType
  <2>2. loads' \in [Loads -> Analysis]
    <3>1. loads[i].state = "running" /\ loads[i] \in Analysis
      BY <2>1 DEF AnalysisFinished
    <3>2. [loads[i] EXCEPT !.state = "done"] \in Analysis
      BY <3>1 DEF Analysis
    <3>3. loads' = [loads EXCEPT ![i] = [loads[i] EXCEPT !.state = "done"]]
      BY <2>1
    <3>4. QED
      BY <2>1, <3>2, <3>3
  <2>3. loads[i].file \in Files
    BY <2>1 DEF AnalysisFinished, Analysis
  <2>4. /\ WorkerType' /\ GraphType' /\ CountType'
        /\ UNCHANGED optionVars /\ UNCHANGED <<inbox, outbox, asked>>
    BY Kept DEF AnalysisFinished
  <2>5. CASE UNCHANGED <<file, listed, panel, reanalyze, graphs>>
    <3>1. PanelType' /\ QueueType'
      BY <2>4, <2>5, Kept DEF optionVars
    <3>2. WindowType'
      BY <2>2, <2>5 DEF TypeOK, WindowType
    <3>3. QED
      BY <2>4, <3>1, <3>2 DEF TypeOK
  <2>6. CASE /\ file' = loads[i].file /\ listed' \in {loads[i].file, None}
             /\ panel' = Blank("clear") /\ reanalyze' = TRUE
             /\ graphs' \in {Append(graphs, loads[i].file), graphs}
    <3>1. WindowType'
      BY <2>2, <2>3, <2>6 DEF WindowType, FilesOrNone
    <3>2. PanelType'
      BY <2>4, <2>6, PanelsShown DEF TypeOK, PanelType, optionVars, Kinds
    <3>3. QueueType'
        <4>1. graphs \in Seq(Files)
        BY DEF TypeOK, QueueType
      <4>2. Append(graphs, loads[i].file) \in Seq(Files)
        BY <2>3, <4>1, AppendProperties
      <4>3. graphs' \in Seq(Files)
        BY <2>6, <4>1, <4>2
      <4>4. QED
        BY <2>4, <4>3 DEF TypeOK, QueueType
    <3>4. QED
      BY <2>4, <3>1, <3>2, <3>3 DEF TypeOK
  <2>7. QED
    BY <2>5, <2>6 DEF AnalysisFinished
<1>2. ASSUME TypeOK, Answered PROVE TypeOK'
  <2>1. outbox \in Seq(Panels) /\ outbox # << >>
    BY <1>2 DEF Answered, TypeOK, QueueType
  <2>2. Head(outbox) \in Panels /\ Tail(outbox) \in Seq(Panels)
    BY <2>1, LastOfQueue
  <2>3. WindowType' /\ WorkerType' /\ GraphType' /\ CountType'
    BY <1>2, Kept DEF Answered
  <2>4. PanelType'
    BY <1>2, <2>2 DEF Answered, TypeOK, PanelType, optionVars
  <2>5. QueueType'
    BY <1>2, <2>2 DEF Answered, TypeOK, QueueType
  <2>6. QED
    BY <2>3, <2>4, <2>5 DEF TypeOK
<1>3. QED
  BY <1>1, <1>2 DEF Analyses

LEMMA WorkerActType ==
    TypeOK /\ WorkerInv /\ Worker => TypeOK'
<1> SUFFICES ASSUME TypeOK, WorkerInv, Worker PROVE TypeOK'
  OBVIOUS
<1>1. ASSUME UNCHANGED workerRest PROVE WindowType' /\ PanelType' /\ GraphType'
  BY <1>1, Kept DEF workerRest, optionVars
<1>2. ASSUME UNCHANGED workerRest, crashed' \in BOOLEAN PROVE CountType'
  BY <1>2 DEF workerRest, TypeOK, CountType
<1>3. ASSUME UNCHANGED workerRest, inbox' \in Seq(Requests), outbox' \in Seq(Panels)
      PROVE  QueueType'
  BY <1>3 DEF workerRest, TypeOK, QueueType
<1>4. /\ inbox \in Seq(Requests) /\ outbox \in Seq(Panels) /\ crashed \in BOOLEAN
      /\ TRUE \in BOOLEAN
      /\ wpath \in Paths /\ wbin \in FilesOrNone /\ dec \in Decompilers \cup {None}
      /\ wreq \in Requests \cup {None}
  BY DEF TypeOK, QueueType, WorkerType, CountType
<1>5. ASSUME NEW answer \in Panels, Emit(answer)
      PROVE  outbox' \in Seq(Panels) /\ wpc' = "idle" /\ wreq' = None
  BY <1>4, <1>5, AppendProperties DEF Emit
<1>6. Blank("failed") \in Panels
  BY PanelsShown DEF Kinds
<1>7. ASSUME wpc # "idle" PROVE wreq \in Requests /\ Text(wreq) \in Panels /\ wreq.file \in Files
  <2>1. wreq \in Requests
    BY <1>7 DEF WorkerInv
  <2>2. QED
    BY <2>1, PanelsShown DEF Requests
<1>8. CASE WorkerTake
  <2>1. Head(inbox) \in Requests /\ Tail(inbox) \in Seq(Requests)
    BY <1>4, <1>8, LastOfQueue DEF WorkerTake
  <2>2. Head(inbox).file \in FilesOrNone
    BY <2>1 DEF Requests, FilesOrNone
  <2>3. /\ UNCHANGED workerRest /\ inbox' = Tail(inbox) /\ UNCHANGED <<outbox, wpath, crashed>>
        /\ Prepare(Head(inbox), Head(inbox).file # wbin \/ Unusable(dec))
    BY <1>8 DEF WorkerTake
  <2>4. WorkerType'
    BY <1>4, <2>1, <2>2, <2>3 DEF WorkerType, Prepare
  <2>5. QED
    BY <1>1, <1>2, <1>3, <1>4, <2>1, <2>3, <2>4 DEF TypeOK
<1>9. CASE WorkerCreate
  <2>1. wpc = "create" /\ UNCHANGED workerRest /\ UNCHANGED <<inbox, wpath, wbin, crashed>>
    BY <1>9 DEF WorkerCreate
  <2>2. [path |-> wpath, file |-> wreq.file, state |-> "Idle"] \in Decompilers
    BY <1>4, <1>7, <2>1 DEF Decompilers
  <2>3. WorkerType' /\ outbox' \in Seq(Panels)
    <3>1. CASE dec' = None /\ Emit(Blank("failed"))
      BY <1>4, <1>5, <1>6, <2>1, <3>1 DEF WorkerType
    <3>2. CASE /\ dec' = [path |-> wpath, file |-> wreq.file, state |-> "Idle"]
               /\ wpc' = "configure" /\ UNCHANGED <<outbox, wreq>>
      BY <1>4, <2>1, <2>2, <3>2 DEF WorkerType
    <3>3. QED
      BY <1>9, <3>1, <3>2 DEF WorkerCreate
  <2>4. QED
    BY <1>1, <1>2, <1>3, <1>4, <2>1, <2>3 DEF TypeOK
<1>10. CASE WorkerConfigure \/ WorkerLift \/ WorkerDecompile
  <2>1. dec # None => /\ [dec EXCEPT !.path = wpath] \in Decompilers
                      /\ [dec EXCEPT !.state = "Lifting"] \in Decompilers
    BY <1>4, DecompilersStay
  <2>2. UNCHANGED <<inbox, outbox, wpath, wbin, wreq>> /\ UNCHANGED workerRest
    BY <1>10 DEF WorkerConfigure, WorkerLift, WorkerDecompile, Through
  <2>3. crashed' \in BOOLEAN
    BY <1>4, <1>10 DEF WorkerConfigure, WorkerLift, WorkerDecompile, Through
  <2>4. /\ wpc' \in {wpc, "lift", "lifting", "running"}
        /\ dec' \in {dec} \cup (IF dec = None THEN {} ELSE {[dec EXCEPT !.path = wpath],
                                                           [dec EXCEPT !.state = "Lifting"]})
    BY <1>10 DEF WorkerConfigure, WorkerLift, WorkerDecompile, Through
  <2>5. WorkerType'
    BY <1>4, <2>1, <2>2, <2>4 DEF WorkerType, TypeOK
  <2>6. QED
    BY <1>1, <1>2, <1>3, <1>4, <2>2, <2>3, <2>5 DEF TypeOK
<1>11. CASE WorkerLifted
  <2>1. dec # None => /\ [dec EXCEPT !.state = "Ready"] \in Decompilers
                      /\ [dec EXCEPT !.state = "Error"] \in Decompilers
    BY <1>4, DecompilersStay
  <2>2. UNCHANGED <<inbox, wpath, wbin, crashed>> /\ UNCHANGED workerRest
    BY <1>11 DEF WorkerLifted
  <2>3. dec' \in Decompilers \cup {None}
    BY <1>11, <2>1 DEF WorkerLifted
  <2>4. WorkerType' /\ outbox' \in Seq(Panels)
    <3>1. CASE Emit(Blank("failed"))
      BY <1>4, <1>5, <1>6, <2>2, <2>3, <3>1 DEF WorkerType
    <3>2. CASE wpc' = "decompile" /\ UNCHANGED <<outbox, wreq>>
      BY <1>4, <2>2, <2>3, <3>2 DEF WorkerType
    <3>3. QED
      BY <1>11, <3>1, <3>2 DEF WorkerLifted
  <2>5. QED
    BY <1>1, <1>2, <1>3, <1>4, <2>2, <2>4 DEF TypeOK
<1>12. CASE WorkerReturn
  <2>1. wpc = "running" /\ UNCHANGED <<inbox, wpath, wbin, dec>> /\ UNCHANGED workerRest
    BY <1>12 DEF WorkerReturn
  <2>2. crashed' \in BOOLEAN
    BY <1>4, <1>12 DEF WorkerReturn
  <2>3. WorkerType' /\ outbox' \in Seq(Panels)
    <3>1. CASE Emit(Text(wreq)) \/ Emit(Blank("failed"))
      BY <1>4, <1>5, <1>6, <1>7, <2>1, <3>1 DEF WorkerType
    <3>2. CASE UNCHANGED <<outbox, wpc, wreq>>
      BY <1>4, <2>1, <3>2 DEF WorkerType, TypeOK
    <3>3. QED
      BY <1>12, <3>1, <3>2 DEF WorkerReturn
  <2>4. QED
    BY <1>1, <1>2, <1>3, <1>4, <2>1, <2>2, <2>3 DEF TypeOK
<1>13. QED
  BY <1>8, <1>9, <1>10, <1>11, <1>12 DEF Worker

LEMMA GraphActType ==
    TypeOK /\ GraphWorker => TypeOK'
<1> SUFFICES ASSUME TypeOK, GraphWorker PROVE TypeOK'
  OBVIOUS
<1>1. ASSUME UNCHANGED graphRest, graphs' \in Seq(Files), crashed' \in BOOLEAN
      PROVE  WindowType' /\ PanelType' /\ WorkerType' /\ QueueType' /\ CountType'
  <2>1. WindowType' /\ PanelType' /\ WorkerType'
    BY <1>1, Kept DEF graphRest, optionVars
  <2>2. QueueType' /\ CountType'
    BY <1>1 DEF graphRest, TypeOK, QueueType, CountType
  <2>3. QED
    BY <2>1, <2>2
<1>2. /\ graphs \in Seq(Files) /\ crashed \in BOOLEAN /\ TRUE \in BOOLEAN
      /\ apath \in Paths /\ abin \in FilesOrNone /\ adec \in Decompilers \cup {None}
      /\ gpc \in {"idle", "create", "configure"}
      /\ IF gpc = "idle" THEN gfile = None ELSE gfile \in Files
      /\ graph \in {"none", "not ready", "ready"} /\ None \in FilesOrNone
  BY DEF TypeOK, QueueType, GraphType, CountType, FilesOrNone
<1>3. ASSUME NEW d, AnswerGraph(d)
      PROVE  gpc' = "idle" /\ gfile' = None /\ graph' \in {"ready", "not ready"}
  BY <1>3 DEF AnswerGraph
<1>4. CASE GraphTake
  <2>1. Head(graphs) \in Files /\ Tail(graphs) \in Seq(Files)
    BY <1>2, <1>4, LastOfQueue DEF GraphTake
  <2>2. GraphType'
    <3>1. CASE /\ abin' = Head(graphs) /\ adec' = None
               /\ gpc' = "create" /\ gfile' = Head(graphs) /\ UNCHANGED graph
      BY <1>2, <1>4, <2>1, <3>1 DEF GraphTake, graphRest, GraphType, FilesOrNone
    <3>2. CASE AnswerGraph(adec) /\ UNCHANGED <<abin, adec>>
      BY <1>2, <1>3, <1>4, <3>2 DEF GraphTake, graphRest, GraphType
    <3>3. QED
      BY <1>4, <3>1, <3>2 DEF GraphTake
  <2>3. QED
    BY <1>1, <1>2, <1>4, <2>1, <2>2 DEF GraphTake, TypeOK
<1>5. CASE GraphCreate
  <2>1. CASE adec' = None /\ AnswerGraph(None)
    <3>1. GraphType'
      BY <1>2, <1>3, <1>5, <2>1 DEF GraphCreate, graphRest, GraphType
    <3>2. QED
      BY <1>1, <1>2, <1>5, <3>1 DEF GraphCreate, TypeOK
  <2>2. CASE /\ adec' = [path |-> apath, file |-> gfile, state |-> "Idle"]
             /\ gpc' = "configure" /\ UNCHANGED <<gfile, graph>>
    <3>1. adec' \in Decompilers
      <4>1. gfile \in Files /\ apath \in Paths
        BY <1>2, <1>5 DEF GraphCreate
      <4>2. QED
        BY <2>2, <4>1 DEF Decompilers
    <3>2. GraphType'
      BY <1>2, <1>5, <2>2, <3>1 DEF GraphCreate, graphRest, GraphType
    <3>3. QED
      BY <1>1, <1>2, <1>5, <3>2 DEF GraphCreate, TypeOK
  <2>3. QED
    BY <1>5, <2>1, <2>2 DEF GraphCreate
<1>6. CASE GraphConfigure
  <2>1. adec # None => [adec EXCEPT !.path = apath] \in Decompilers
    BY <1>2, DecompilersStay
  <2>2. /\ crashed' \in BOOLEAN /\ UNCHANGED <<graphs, abin>> /\ UNCHANGED graphRest
    BY <1>2, <1>6 DEF GraphConfigure
  <2>3. GraphType'
    <3>1. CASE adec = None
      BY <1>2, <1>6, <2>2, <3>1 DEF GraphConfigure, graphRest, GraphType
    <3>2. CASE adec # None
      BY <1>2, <1>3, <1>6, <2>1, <2>2, <3>2 DEF GraphConfigure, graphRest, GraphType
    <3>3. QED
      BY <3>1, <3>2
  <2>4. QED
    BY <1>1, <1>2, <2>2, <2>3 DEF TypeOK
<1>7. QED
  BY <1>4, <1>5, <1>6 DEF GraphWorker

LEMMA TypeStep == TypeOK /\ WorkerInv /\ [Next]_vars => TypeOK'
<1>1. ASSUME TypeOK, UNCHANGED vars PROVE TypeOK'
  BY <1>1, Kept DEF vars, optionVars, TypeOK
<1>2. QED
  BY <1>1, UserType, EventType, WorkerActType, GraphActType DEF Next

-----------------------------------------------------------------------------
(* Every step keeps what binds the worker to its decompiler.               *)

(* setPath, wherever it catches the worker.                                *)
LEMMA PathSet ==
    ASSUME WorkerInv, UNCHANGED <<wpc, wreq>>,
           \/ wpath' = path' /\ wbin' = None /\ dec' = None
           \/ UNCHANGED <<path, wpath, wbin, dec>>
    PROVE  WorkerInv'
<1>1. CASE wpath' = path' /\ wbin' = None /\ dec' = None
  BY <1>1 DEF WorkerInv
<1>2. CASE UNCHANGED <<path, wpath, wbin, dec>>
  BY <1>2 DEF WorkerInv
<1>3. QED
  BY <1>1, <1>2

LEMMA UserKeepsWorker ==
    TypeOK /\ WorkerInv /\ User => WorkerInv'
<1> SUFFICES ASSUME TypeOK, WorkerInv, User PROVE WorkerInv'
  OBVIOUS
<1>1. ASSUME NEW p, NEW on, ApplyOptions(p, on) PROVE WorkerInv'
  <2>1. UNCHANGED <<wpc, wreq>>
    BY <1>1 DEF ApplyOptions
  <2>2. \/ wpath' = path' /\ wbin' = None /\ dec' = None
        \/ UNCHANGED <<path, wpath, wbin, dec>>
    BY <1>1 DEF ApplyOptions, SetRevngWorkerPath
  <2>3. QED
    BY <2>1, <2>2, PathSet
<1>2. ASSUME NEW p, Settings(p) PROVE WorkerInv'
  <2>1. wpath' = path' /\ wbin' = None /\ dec' = None /\ UNCHANGED <<wpc, wreq>>
    BY <1>2 DEF Settings, SetRevngWorkerPath
  <2>2. QED
    BY <2>1, PathSet
<1>3. ASSUME UNCHANGED path /\ UNCHANGED workerVars PROVE WorkerInv'
  BY <1>3, PathSet DEF workerVars
<1>4. ASSUME NEW p, NEW on, NEW f, Open(f, p, on) PROVE WorkerInv'
  BY <1>1, <1>4 DEF Open
<1>5. ASSUME NEW p, NEW on, AnalysisOptions(p, on) PROVE WorkerInv'
  BY <1>1, <1>5 DEF AnalysisOptions
<1>6. ASSUME Reanalyze \/ ToggleRevng PROVE WorkerInv'
  BY <1>3, <1>6 DEF Reanalyze, ToggleRevng, optionVars
<1>7. ASSUME NEW fn, SelectFunction(fn) PROVE WorkerInv'
  BY <1>3, <1>7 DEF SelectFunction, optionVars
<1>8. QED
  BY <1>2, <1>4, <1>5, <1>6, <1>7 DEF User

LEMMA WorkerKeepsItself ==
    TypeOK /\ WorkerInv /\ Worker => WorkerInv'
<1> SUFFICES ASSUME TypeOK, WorkerInv, Worker PROVE WorkerInv'
  OBVIOUS
<1>1. /\ inbox \in Seq(Requests) /\ dec \in Decompilers \cup {None}
      /\ wpath = path /\ wpath \in Paths
  BY DEF TypeOK, QueueType, WorkerType, WorkerInv
<1>2. UNCHANGED workerRest => UNCHANGED path
  BY DEF workerRest, optionVars
<1>3. dec # None =>
        /\ [dec EXCEPT !.path = wpath].path = wpath
        /\ [dec EXCEPT !.path = wpath].file = dec.file
        /\ [dec EXCEPT !.path = wpath].state = dec.state
        /\ \A s \in {"Lifting", "Ready", "Error"} :
             /\ [dec EXCEPT !.state = s].path = dec.path
             /\ [dec EXCEPT !.state = s].file = dec.file
             /\ [dec EXCEPT !.state = s].state = s
  BY <1>1, DecompilersStay
<1>4. CASE WorkerTake
  <2> DEFINE r == Head(inbox)
             needsLift == r.file # wbin \/ Unusable(dec)
  <2>1. r \in Requests /\ r.file # None
    <3>1. r \in Requests
      BY <1>1, <1>4, LastOfQueue DEF WorkerTake
    <3>2. QED
      BY <3>1, NoneAssumption DEF Requests
  <2>2. /\ wpc = "idle" /\ Prepare(r, needsLift)
        /\ UNCHANGED wpath /\ UNCHANGED path
    BY <1>2, <1>4 DEF WorkerTake
  <2> HIDE DEF r
  <2>3. CASE needsLift
    BY <1>1, <2>1, <2>2, <2>3 DEF WorkerInv, Prepare
  <2>4. CASE ~needsLift
    <3>1. /\ r.file = wbin /\ dec # None /\ dec.state # "Error"
          /\ wpc' = "decompile" /\ wreq' = r /\ UNCHANGED <<wbin, dec>>
      BY <2>2, <2>4 DEF Prepare, Unusable
    <3>2. /\ dec.path = wpath /\ wbin \in {dec.file, None}
          /\ dec.state \in {"Ready", "Error"}
      BY <2>2, <3>1 DEF WorkerInv
    <3>3. QED
      BY <1>1, <2>1, <2>2, <3>1, <3>2 DEF WorkerInv
  <2>5. QED
    BY <2>3, <2>4
<1>5. CASE WorkerCreate
  <2>1. /\ wpc = "create" /\ wreq \in Requests /\ wbin \in {wreq.file, None}
        /\ UNCHANGED <<wpath, wbin>> /\ UNCHANGED path
    BY <1>2, <1>5 DEF WorkerCreate, WorkerInv
  <2>2. CASE dec' = None /\ Emit(Blank("failed"))
    BY <1>1, <2>1, <2>2 DEF WorkerInv, Emit
  <2>3. CASE /\ dec' = [path |-> wpath, file |-> wreq.file, state |-> "Idle"]
             /\ wpc' = "configure" /\ UNCHANGED <<outbox, wreq>>
    <3>1. dec'.path = wpath /\ dec'.file = wreq.file /\ dec'.state = "Idle"
      BY <2>3
    <3>2. QED
      BY <1>1, <2>1, <2>3, <3>1 DEF WorkerInv
  <2>4. QED
    BY <1>5, <2>2, <2>3 DEF WorkerCreate
<1>6. CASE WorkerConfigure
  <2>1. wpc = "configure" /\ UNCHANGED <<wpath, wbin>> /\ UNCHANGED path
    BY <1>2, <1>6 DEF WorkerConfigure
  <2>2. CASE dec = None
    BY <1>6, <2>1, <2>2, PathSet DEF WorkerConfigure, Through
  <2>3. CASE dec # None
    <3>1. wpc' = "lift" /\ dec' = [dec EXCEPT !.path = wpath] /\ UNCHANGED <<outbox, wreq>>
      BY <1>6, <2>3 DEF WorkerConfigure, Through
    <3>2. dec'.path = wpath /\ dec'.file = dec.file /\ dec'.state = dec.state
      BY <1>3, <2>3, <3>1
    <3>3. QED
      BY <2>1, <2>3, <3>1, <3>2 DEF WorkerInv
  <2>4. QED
    BY <2>2, <2>3
<1>7. CASE WorkerLift
  <2>1. wpc = "lift" /\ UNCHANGED <<wpath, wbin>> /\ UNCHANGED path
    BY <1>2, <1>7 DEF WorkerLift
  <2>2. CASE dec = None
    BY <1>7, <2>1, <2>2, PathSet DEF WorkerLift, Through
  <2>3. CASE dec # None
    <3>1. wpc' = "lifting" /\ dec' = [dec EXCEPT !.state = "Lifting"] /\ UNCHANGED <<outbox, wreq>>
      BY <1>7, <2>3 DEF WorkerLift, Through
    <3>2. dec'.path = dec.path /\ dec'.file = dec.file /\ dec'.state = "Lifting"
      BY <1>3, <2>3, <3>1
    <3>3. QED
      BY <2>1, <2>3, <3>1, <3>2 DEF WorkerInv
  <2>4. QED
    BY <2>2, <2>3
<1>8. CASE WorkerLifted
  <2>1. wpc = "lifting" /\ UNCHANGED <<wpath, wbin>> /\ UNCHANGED path
    BY <1>2, <1>8 DEF WorkerLifted
  <2>2. CASE /\ wpc' = "decompile" /\ UNCHANGED <<outbox, wreq>>
             /\ dec' = IF dec = None THEN None ELSE [dec EXCEPT !.state = "Ready"]
    <3>1. dec' # None =>
            dec # None /\ dec'.path = dec.path /\ dec'.file = dec.file /\ dec'.state = "Ready"
      BY <1>3, <2>2
    <3>2. QED
      BY <2>1, <2>2, <3>1 DEF WorkerInv
  <2>3. CASE /\ dec' = IF dec = None THEN None ELSE [dec EXCEPT !.state = "Error"]
             /\ Emit(Blank("failed"))
    <3>1. dec' # None =>
            dec # None /\ dec'.path = dec.path /\ dec'.file = dec.file /\ dec'.state = "Error"
      BY <1>3, <2>3
    <3>2. QED
      BY <2>1, <2>3, <3>1 DEF WorkerInv, Emit
  <2>4. QED
    BY <1>8, <2>2, <2>3 DEF WorkerLifted
<1>9. CASE WorkerDecompile
  <2>1. wpc = "decompile" /\ UNCHANGED <<wpath, wbin>> /\ UNCHANGED path
    BY <1>2, <1>9 DEF WorkerDecompile
  <2>2. CASE UNCHANGED <<wpc, wreq, dec>>
    BY <2>1, <2>2, PathSet
  <2>3. CASE wpc' = "running" /\ UNCHANGED <<outbox, wreq, dec>>
    BY <2>1, <2>3 DEF WorkerInv
  <2>4. QED
    BY <1>9, <2>2, <2>3 DEF WorkerDecompile, Through
<1>10. CASE WorkerReturn
  <2>1. wpc = "running" /\ UNCHANGED <<wpath, wbin, dec>> /\ UNCHANGED path
    BY <1>2, <1>10 DEF WorkerReturn
  <2>2. CASE UNCHANGED <<wpc, wreq>>
    BY <2>1, <2>2, PathSet
  <2>3. CASE wpc' = "idle" /\ wreq' = None
    BY <2>1, <2>3 DEF WorkerInv
  <2>4. QED
    BY <1>10, <2>2, <2>3 DEF WorkerReturn, Emit
<1>11. QED
  BY <1>4, <1>5, <1>6, <1>7, <1>8, <1>9, <1>10 DEF Worker

LEMMA WorkerStep == TypeOK /\ WorkerInv /\ [Next]_vars => WorkerInv'
<1>1. ASSUME WorkerInv, UNCHANGED path, UNCHANGED workerVars PROVE WorkerInv'
  BY <1>1, PathSet DEF workerVars
<1>2. ASSUME NEW i, NEW result, AnalysisFinished(i, result)
      PROVE  UNCHANGED path /\ UNCHANGED workerVars
  BY <1>2 DEF AnalysisFinished, optionVars
<1>3. ASSUME Answered \/ GraphWorker \/ UNCHANGED vars
      PROVE  UNCHANGED path /\ UNCHANGED workerVars
  BY <1>3 DEF Answered, GraphWorker, GraphTake, GraphCreate, GraphConfigure, graphRest, vars,
     optionVars
<1>4. QED
  BY <1>1, <1>2, <1>3, UserKeepsWorker, WorkerKeepsItself DEF Next, Analyses

-----------------------------------------------------------------------------
(* Every step keeps the order of the queues.                               *)

(* Whatever else writes into the panel writes no text.                     *)
LEMMA PanelWritten ==
    ASSUME QueueInv, UNCHANGED <<inbox, outbox, asked, wpc, wreq>>,
           panel' = panel \/ panel'.kind # "text"
    PROVE  QueueInv'
BY DEF QueueInv

LEMMA UserKeepsQueue ==
    TypeOK /\ QueueInv /\ User => QueueInv'
<1> SUFFICES ASSUME TypeOK, QueueInv, User PROVE QueueInv'
  OBVIOUS
<1>1. ASSUME NEW f, ClearAndAnalyze(f) PROVE panel'.kind # "text"
  BY <1>1, PanelsShown DEF ClearAndAnalyze, Kinds
<1>2. ASSUME NEW p, NEW on, ApplyOptions(p, on) PROVE UNCHANGED <<wpc, wreq>>
  BY <1>2 DEF ApplyOptions
<1>3. ASSUME NEW p, NEW on, NEW f, Open(f, p, on) PROVE QueueInv'
  <2>1. UNCHANGED <<inbox, outbox, asked, wpc, wreq>> /\ panel'.kind # "text"
    BY <1>1, <1>2, <1>3 DEF Open
  <2>2. QED
    BY <2>1, PanelWritten
<1>4. ASSUME NEW p, NEW on \in BOOLEAN, AnalysisOptions(p, on) PROVE QueueInv'
  <2>1. UNCHANGED <<inbox, outbox, asked, wpc, wreq>>
    BY <1>2, <1>4 DEF AnalysisOptions
  <2>2. panel' = panel \/ panel'.kind # "text"
    BY <1>1, <1>4, ToggledType DEF AnalysisOptions
  <2>3. QED
    BY <2>1, <2>2, PanelWritten
<1>5. ASSUME NEW p, Settings(p) PROVE QueueInv'
  <2>1. UNCHANGED <<inbox, outbox, asked, wpc, wreq>> /\ UNCHANGED panel
    BY <1>5 DEF Settings
  <2>2. QED
    BY <2>1, PanelWritten
<1>6. ASSUME Reanalyze PROVE QueueInv'
  <2>1. UNCHANGED <<inbox, outbox, asked, wpc, wreq>> /\ panel'.kind # "text"
    BY <1>1, <1>6 DEF Reanalyze, workerVars
  <2>2. QED
    BY <2>1, PanelWritten
<1>7. ASSUME ToggleRevng PROVE QueueInv'
  <2>1. UNCHANGED <<inbox, outbox, asked, wpc, wreq>> /\ Toggled(~revng)
    BY <1>7 DEF ToggleRevng, workerVars
  <2>2. (~revng) \in BOOLEAN
    BY SMT
  <2>3. panel' = panel \/ panel'.kind # "text"
    BY <2>1, <2>2, ToggledType, Zenon
  <2>4. QED
    BY <2>1, <2>3, PanelWritten
<1>8. ASSUME NEW fn \in Fns, SelectFunction(fn) PROVE QueueInv'
  <2> DEFINE r == [fn |-> fn, file |-> file]
  <2>1. r \in Requests
    BY <1>8 DEF Requests, SelectFunction, TypeOK, WindowType, FilesOrNone
  <2>2. UNCHANGED <<outbox, wpc, wreq>>
    BY <1>8 DEF SelectFunction, workerVars
  <2>3. CASE inbox' = Append(inbox, r) /\ asked' = r
    <3>1. inbox \in Seq(Requests)
      BY DEF TypeOK, QueueType
    <3> HIDE DEF r
    <3>2. inbox' # << >> /\ inbox'[Len(inbox')] = asked'
      BY <2>1, <2>3, <3>1, LastOfQueue
    <3>3. QED
      BY <3>2 DEF QueueInv
  <2>4. CASE panel' = Blank("rev.ng off") /\ UNCHANGED <<inbox, asked>>
    <3>1. panel'.kind # "text"
      BY <2>4, PanelsShown DEF Kinds
    <3>2. QED
      BY <2>2, <2>4, <3>1, PanelWritten
  <2>5. QED
    BY <1>8, <2>3, <2>4 DEF SelectFunction
<1>9. QED
  BY <1>3, <1>4, <1>5, <1>6, <1>7, <1>8 DEF User

LEMMA WorkerKeepsQueue ==
    TypeOK /\ WorkerInv /\ QueueInv /\ Worker => QueueInv'
<1> SUFFICES ASSUME TypeOK, WorkerInv, QueueInv, Worker PROVE QueueInv'
  OBVIOUS
<1>1. inbox \in Seq(Requests) /\ outbox \in Seq(Panels)
  BY DEF TypeOK, QueueType
<1>2. UNCHANGED workerRest => UNCHANGED <<panel, asked>>
  BY DEF workerRest
<1>3. ASSUME wpc # "idle", UNCHANGED <<inbox, panel, asked>>,
             wpc' # "idle", UNCHANGED <<outbox, wreq>>
      PROVE  QueueInv'
  BY <1>3 DEF QueueInv
<1>4. ASSUME wpc # "idle", UNCHANGED <<inbox, panel, asked>>,
             Emit(Text(wreq)) \/ Emit(Blank("failed"))
      PROVE  QueueInv'
  <2>1. PICK answer \in {Text(wreq), Blank("failed")} : Emit(answer)
    BY <1>4
  <2>2. wreq \in Requests
    BY <1>4 DEF WorkerInv
  <2>3. answer \in Panels
    BY <2>1, <2>2, PanelsShown DEF Kinds
  <2>4. outbox' # << >> /\ outbox'[Len(outbox')] = answer /\ wpc' = "idle"
    BY <1>1, <2>1, <2>3, LastOfQueue DEF Emit
  <2>5. inbox = << >> => wreq = asked
    BY <1>4 DEF QueueInv
  <2>6. inbox # << >> => inbox[Len(inbox)] = asked
    BY DEF QueueInv
  <2>7. QED
    BY <1>4, <2>1, <2>4, <2>5, <2>6 DEF QueueInv
<1>5. CASE WorkerTake
  <2>1. /\ inbox # << >> /\ inbox' = Tail(inbox) /\ wreq' = Head(inbox) /\ wpc' # "idle"
        /\ UNCHANGED asked
    BY <1>2, <1>5 DEF WorkerTake, Prepare
  <2>2. inbox[Len(inbox)] = asked
    BY <2>1 DEF QueueInv
  <2>3. /\ inbox' # << >> => inbox'[Len(inbox')] = inbox[Len(inbox)]
        /\ inbox' = << >> => wreq' = inbox[Len(inbox)]
    BY <1>1, <2>1, LastOfQueue
  <2>4. QED
    BY <2>1, <2>2, <2>3 DEF QueueInv
<1>6. CASE WorkerCreate
  <2>1. wpc # "idle" /\ UNCHANGED <<inbox, panel, asked>>
    BY <1>2, <1>6 DEF WorkerCreate
  <2>2. Emit(Blank("failed")) \/ (wpc' # "idle" /\ UNCHANGED <<outbox, wreq>>)
    BY <1>6 DEF WorkerCreate
  <2>3. QED
    BY <1>3, <1>4, <2>1, <2>2
<1>7. CASE WorkerConfigure \/ WorkerLift \/ WorkerDecompile
  <2>1. wpc # "idle" /\ UNCHANGED <<inbox, panel, asked>>
    BY <1>2, <1>7 DEF WorkerConfigure, WorkerLift, WorkerDecompile
  <2>2. wpc' # "idle" /\ UNCHANGED <<outbox, wreq>>
    BY <1>7 DEF WorkerConfigure, WorkerLift, WorkerDecompile, Through
  <2>3. QED
    BY <1>3, <2>1, <2>2
<1>8. CASE WorkerLifted
  <2>1. wpc # "idle" /\ UNCHANGED <<inbox, panel, asked>>
    BY <1>2, <1>8 DEF WorkerLifted
  <2>2. Emit(Blank("failed")) \/ (wpc' # "idle" /\ UNCHANGED <<outbox, wreq>>)
    BY <1>8 DEF WorkerLifted
  <2>3. QED
    BY <1>3, <1>4, <2>1, <2>2
<1>9. CASE WorkerReturn
  <2>1. wpc # "idle" /\ UNCHANGED <<inbox, panel, asked>>
    BY <1>2, <1>9 DEF WorkerReturn
  <2>2. \/ Emit(Text(wreq)) \/ Emit(Blank("failed"))
        \/ wpc' # "idle" /\ UNCHANGED <<outbox, wreq>>
    BY <1>9 DEF WorkerReturn
  <2>3. QED
    BY <1>3, <1>4, <2>1, <2>2
<1>10. QED
  BY <1>5, <1>6, <1>7, <1>8, <1>9 DEF Worker

LEMMA QueueStep == TypeOK /\ WorkerInv /\ QueueInv /\ [Next]_vars => QueueInv'
<1> SUFFICES ASSUME TypeOK, WorkerInv, QueueInv, [Next]_vars PROVE QueueInv'
  OBVIOUS
<1>1. ASSUME NEW i, NEW result, AnalysisFinished(i, result) PROVE QueueInv'
  <2>1. UNCHANGED <<inbox, outbox, asked, wpc, wreq>>
    BY <1>1 DEF AnalysisFinished, workerVars
  <2>2. panel' = panel \/ panel' = Blank("clear")
    BY <1>1 DEF AnalysisFinished
  <2>3. Blank("clear").kind # "text"
    BY PanelsShown DEF Kinds
  <2>4. QED
    BY <2>1, <2>2, <2>3, PanelWritten
<1>2. ASSUME Answered PROVE QueueInv'
  <2>1. /\ outbox # << >> /\ panel' = Head(outbox) /\ outbox' = Tail(outbox)
        /\ UNCHANGED <<inbox, asked, wpc, wreq>>
    BY <1>2 DEF Answered, workerVars
  <2>2. outbox \in Seq(Panels)
    BY DEF TypeOK, QueueType
  <2>3. /\ outbox' # << >> => outbox'[Len(outbox')] = outbox[Len(outbox)]
        /\ outbox' = << >> => panel' = outbox[Len(outbox)]
    BY <2>1, <2>2, LastOfQueue
  <2>4. Blank("failed").kind # "text"
    BY PanelsShown DEF Kinds
  <2>5. QED
    BY <2>1, <2>3, <2>4 DEF QueueInv
<1>3. ASSUME GraphWorker \/ UNCHANGED vars PROVE QueueInv'
  <2>1. UNCHANGED <<inbox, outbox, asked, wpc, wreq>> /\ UNCHANGED panel
    BY <1>3 DEF GraphWorker, GraphTake, GraphCreate, GraphConfigure, graphRest, vars, workerVars
  <2>2. QED
    BY <2>1, PanelWritten
<1>4. QED
  BY <1>1, <1>2, <1>3, UserKeepsQueue, WorkerKeepsQueue DEF Next, Analyses

-----------------------------------------------------------------------------
LEMMA InitIInv == Init => IInv
<1> SUFFICES ASSUME Init PROVE IInv
  OBVIOUS
<1>1. WindowType
  <2>1. [state |-> "unused", file |-> None] \in Analysis
    BY DEF Analysis
  <2>2. QED
    BY <2>1 DEF Init, WindowType, FilesOrNone
<1>2. PanelType
  BY PathAssumption, PanelsShown DEF Init, PanelType, Kinds
<1>3. QueueType
  BY EmptySeq DEF Init, QueueType
<1>4. WorkerType /\ GraphType
  BY PathAssumption DEF Init, WorkerType, GraphType, FilesOrNone
<1>5. CountType
  <2>1. nreq \in 0 .. MaxRequests /\ nedit \in 0 .. MaxEdits
    BY BoundsAssumption DEF Init
  <2>2. QED
    BY <2>1 DEF Init, CountType
<1>6. WorkerInv
  BY DEF Init, WorkerInv
<1>7. QueueInv
  BY PanelsShown DEF Init, QueueInv, Kinds
<1>8. QED
  BY <1>1, <1>2, <1>3, <1>4, <1>5, <1>6, <1>7 DEF IInv, TypeOK

(* The types, what binds the worker to its decompiler and the order of the *)
(* queues hold of the window and its workers in every state.               *)
THEOREM Inductive == Spec => []IInv
<1>1. IInv /\ [Next]_vars => IInv'
  BY TypeStep, WorkerStep, QueueStep DEF IInv
<1>2. QED
  BY <1>1, InitIInv, PTL DEF Spec, SafeSpec

(* The fields of the window and of both workers, and what the queued       *)
(* connections between them carry, have the types that the code gives.     *)
THEOREM TypeCorrect == Spec => []TypeOK
<1>1. IInv => TypeOK
  BY DEF IInv
<1>2. QED
  BY <1>1, Inductive, PTL

(* onPseudocodeReady: when nothing is queued or running, a text in the     *)
(* panel is that of the last decompilation asked for.                      *)
THEOREM LastAskedIsShown == Spec => []SettledTextIsLastAsked
<1>1. IInv => SettledTextIsLastAsked
  BY DEF IInv, QueueInv, SettledTextIsLastAsked, Settled
<1>2. QED
  BY <1>1, Inductive, PTL

(* RevngWorker::setPath: a lifted decompiler was lifted with the path in   *)
(* force, and counts as a lift of m_currentBinary only if it is one.       *)
THEOREM LiftsWithPathInForce == Spec => []LiftedWithPath
<1>1. IInv => LiftedWithPath
  BY DEF IInv, WorkerInv, LiftedWithPath
<1>2. QED
  BY <1>1, Inductive, PTL

(* RevngWorker::decompile: the decompiler that is asked has lifted the     *)
(* file of the request, wherever setPath and the commands come between.    *)
THEOREM LiftedWhatIsAsked == Spec => []DecompilesWhatItLifted
<1>1. IInv => DecompilesWhatItLifted
  BY DEF IInv, WorkerInv, DecompilesWhatItLifted
<1>2. QED
  BY <1>1, Inductive, PTL

=============================================================================
