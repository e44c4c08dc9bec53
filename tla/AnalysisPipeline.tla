--------------------------- MODULE AnalysisPipeline ---------------------------
(***************************************************************************)
(* AnalysisPipeline and AnalysisContext of src/core/analysis_pipeline.cpp: *)
(* stages that depend on stages, run on demand, each handed pointers to    *)
(* the cached artifacts of its dependencies.                               *)
(*                                                                         *)
(* run_stage calls itself for every dependency; stack holds its frames.  A *)
(* step is the entry of a call, the next dependency, the return of one, or *)
(* the run of a stage.  A stage is its number in enum AnalysisStage.       *)
(*                                                                         *)
(* An artifact is the version of the binary that it was made from and      *)
(* whether it is whole: made with a whole artifact of the same version for *)
(* every dependency.  The empty artifact is the one that operator[] of the *)
(* cache creates.  Stages themselves, progress callbacks and queries are   *)
(* left out.                                                               *)
(***************************************************************************)
EXTENDS Naturals, Sequences, FiniteSets

CONSTANTS
    None,           \* no stage, no artifact
    Failure,        \* what run_stage returns in place of an artifact
    Stages,         \* the stages there may be
    Deps,           \* Deps[s]: dependencies() of the runner of s
    Cacheable,      \* the stages whose config() says cacheable
    SkipOnError,    \* the stages whose config() says skip_on_error
    Tracking,       \* the stages whose is_stale compares the binary's version;
                    \* the others inherit the default, always stale
    Builtin,        \* the stages that register_builtin_stages registers
    Targets,        \* bound: what run_stages is asked for, but for run_all
    Edited,         \* bound: the stages that a client uncaches by name
    MaxVersion      \* bound: changes of the binary

ASSUME StagesAssumption == Stages \subseteq Nat /\ IsFiniteSet(Stages) /\ MaxVersion \in Nat
ASSUME DepsAssumption ==
    /\ Deps \in [Stages -> Seq(Stages)]
    /\ \A s \in Stages : \A i \in 1 .. Len(Deps[s]) : Deps[s][i] < s
ASSUME ConfigAssumption ==
    /\ Cacheable \cup SkipOnError \cup Tracking \cup Builtin \subseteq Stages
    /\ Targets \subseteq SUBSET Stages /\ Edited \subseteq Stages

VARIABLES
    registered,     \* the stages with a runner
    version,        \* of the binary
    cache,          \* the cache, stage by stage
    plan,           \* what is left of the plan of the run_stages under way
    stack,          \* the frames of run_stage
    call,           \* the stage whose run_stage is being entered, or None
    ret,            \* what the call that just ended returns, or None
    result,         \* of the last run_stages
    runs            \* history: how often each stage succeeded in this run_stages

vars == <<registered, version, cache, plan, stack, call, ret, result, runs>>

Versions == 0 .. MaxVersion
Absent == [kind |-> "absent", at |-> 0, whole |-> FALSE]
Empty == [kind |-> "empty", at |-> 0, whole |-> FALSE]
Made(v, w) == [kind |-> "made", at |-> v, whole |-> w]
Artifacts == {Made(v, w) : v \in Versions, w \in BOOLEAN}

ASSUME NoneAssumption ==
    /\ None \notin Stages /\ None \notin Artifacts /\ None # Failure
    /\ Failure \notin Artifacts

DepSet(s) == {Deps[s][i] : i \in 1 .. Len(Deps[s])}
Frame(s) == [stage |-> s, todo |-> Deps[s], inputs |-> [d \in DepSet(s) |-> "todo"]]
Frames ==
    [stage : Stages, todo : Seq(Stages),
     inputs : UNION {[D -> {"todo", "null", "entry", "gone"}] : D \in SUBSET Stages}]
Top == stack[Len(stack)]
Pop == SubSeq(stack, 1, Len(stack) - 1)
DirectDependents == [s \in Stages |-> {t \in registered : s \in DepSet(t)}]
DirectDependencies == [s \in Stages |-> IF s \in registered THEN DepSet(s) ELSE {}]

(* The least set with S in it and, with every s, with next[s] in it.       *)
Closure(S, next) ==
    LET upTo[n \in 0 .. Cardinality(Stages)] ==
            IF n = 0 THEN S
            ELSE LET found == upTo[n - 1]
                 IN found \cup UNION {next[s] : s \in found}
    IN upTo[Cardinality(Stages)]

Idle == plan = << >> /\ stack = << >> /\ call = None /\ ret = None

TypeOK ==
    /\ registered \subseteq Stages
    /\ version \in Versions
    /\ cache \in [Stages -> Artifacts \cup {Absent, Empty}]
    /\ plan \in Seq(Stages)
    /\ stack \in Seq(Frames)
    /\ \A i \in 1 .. Len(stack) :
         stack[i].stage \in registered /\ DOMAIN stack[i].inputs = DepSet(stack[i].stage)
    /\ call \in Stages \cup {None}
    /\ ret \in Artifacts \cup {None, Failure}
    /\ result \in {"none", "ok", "error"}
    /\ runs \in [Stages -> Nat]
    /\ call = None \/ ret = None

Init ==
    /\ registered = Builtin
    /\ version = 0
    /\ cache = [s \in Stages |-> Absent]
    /\ plan = << >> /\ stack = << >> /\ call = None /\ ret = None /\ result = "none"
    /\ runs = [s \in Stages |-> 0]

-----------------------------------------------------------------------------
(* What a client does between two runs.                                    *)

Register(s) ==
    /\ Idle
    /\ registered' = registered \cup {s}
    /\ UNCHANGED <<version, cache, plan, stack, call, ret, result, runs>>

ChangeBinary ==
    /\ Idle
    /\ version < MaxVersion
    /\ version' = version + 1
    /\ UNCHANGED <<registered, cache, plan, stack, call, ret, result, runs>>

Uncache(S) ==
    /\ Idle
    /\ cache' = [s \in Stages |-> IF s \in S THEN Absent ELSE cache[s]]
    /\ UNCHANGED <<registered, version, plan, stack, call, ret, result, runs>>

ClearCache == Uncache(Stages)
ClearStageCache(s) == Uncache({s})

(* Faulty variant: the dependents of a dependent are forgotten.            *)
InvalidateDirect(s) == Uncache({s} \cup DirectDependents[s])

Invalidate(s) == Uncache(Closure({s}, DirectDependents))

(* Every registered stage from s on, in the order of the enumeration.      *)
InvalidateFrom(s) == Uncache(Closure({t \in registered : t >= s}, DirectDependents))

(* build_plan: the targets and their dependencies, sorted by number.       *)
BuildPlan(targets) ==
    LET needed == Closure(targets, DirectDependencies)
    IN [i \in 1 .. Cardinality(needed) |->
            CHOOSE s \in needed : Cardinality({t \in needed : t < s}) = i - 1]

Launch(stages) ==
    /\ Idle
    /\ plan' = stages
    /\ result' = "none"
    /\ runs' = [s \in Stages |-> 0]
    /\ UNCHANGED <<registered, version, cache, stack, call, ret>>

(* run_stages; run_all and analyze for every registered stage, reanalyze   *)
(* and analyze_partial for some.  A client's run_stage has no plan but s.  *)
RunStages(targets) == Launch(BuildPlan(targets))
RunStage(s) == Launch(<< s >>)

-----------------------------------------------------------------------------
(* run_stages and run_stage under way.                                     *)

CallNext ==
    /\ plan # << >> /\ stack = << >> /\ call = None /\ ret = None
    /\ call' = Head(plan)
    /\ UNCHANGED <<registered, version, cache, plan, stack, ret, result, runs>>

Stale(s) == s \notin Tracking \/ cache[s].at # version

(* cache.erase(s) while frames below may point at the entry.               *)
Lose(s) ==
    /\ cache' = [cache EXCEPT ![s] = Absent]
    /\ stack' = [i \in 1 .. Len(stack) |->
                    [stack[i] EXCEPT !.inputs =
                        [d \in DOMAIN @ |-> IF d = s /\ @[d] = "entry" THEN "gone" ELSE @[d]]]]
                \o << Frame(s) >>

(* Faulty variant: what is cached is taken without asking is_stale.        *)
EnterUnasked ==
    /\ call # None
    /\ call' = None
    /\ CASE call \notin registered -> ret' = Failure /\ UNCHANGED <<cache, stack>>
         [] call \in registered \ Cacheable -> Lose(call) /\ UNCHANGED ret
         [] call \in registered \cap Cacheable ->
              IF cache[call].kind = "made"
              THEN ret' = cache[call] /\ UNCHANGED <<cache, stack>>
              ELSE stack' = Append(stack, Frame(call)) /\ UNCHANGED <<cache, ret>>
    /\ UNCHANGED <<registered, version, plan, result, runs>>

(* Faulty variant: a stale entry is erased before the stage runs again.    *)
EnterErasesStale ==
    /\ call # None
    /\ call' = None
    /\ CASE call \notin registered -> ret' = Failure /\ UNCHANGED <<cache, stack>>
         [] call \in registered /\ (call \notin Cacheable \/ Stale(call)) ->
              Lose(call) /\ UNCHANGED ret
         [] OTHER -> ret' = cache[call] /\ UNCHANGED <<cache, stack>>
    /\ UNCHANGED <<registered, version, plan, result, runs>>

(* The entry of run_stage: an unregistered stage is an error, a cached     *)
(* artifact that is not stale is the answer, and otherwise a frame is      *)
(* pushed.                                                                 *)
Enter ==
    /\ call # None
    /\ call' = None
    /\ CASE call \notin registered -> ret' = Failure /\ UNCHANGED <<cache, stack>>
         [] call \in registered \ Cacheable -> Lose(call) /\ UNCHANGED ret
         [] call \in registered \cap Cacheable ->
              IF cache[call].kind # "absent" /\ ~Stale(call)
              THEN ret' = cache[call] /\ UNCHANGED <<cache, stack>>
              ELSE stack' = Append(stack, Frame(call)) /\ UNCHANGED <<cache, ret>>
    /\ UNCHANGED <<registered, version, plan, result, runs>>

NextDependency ==
    /\ stack # << >> /\ call = None /\ ret = None
    /\ Top.todo # << >>
    /\ call' = Head(Top.todo)
    /\ UNCHANGED <<registered, version, cache, plan, stack, ret, result, runs>>

(* The input for the dependency that Top waits for.                        *)
Take(input) ==
    /\ stack' = Append(Pop, [Top EXCEPT !.todo = Tail(@), !.inputs[Head(Top.todo)] = input])
    /\ ret' = None

(* Faulty variant: a dependency that failed is called again.               *)
ReceiveRetries ==
    /\ stack # << >> /\ ret # None
    /\ IF ret # Failure
       THEN /\ Take("entry")
            /\ cache' = IF cache[Head(Top.todo)] = Absent
                        THEN [cache EXCEPT ![Head(Top.todo)] = Empty] ELSE cache
       ELSE ret' = None /\ UNCHANGED <<stack, cache>>
    /\ UNCHANGED <<registered, version, plan, call, result, runs>>

(* A dependency returns: its entry in the cache, created if there is none, *)
(* becomes an input; an error is skipped or passed on.                     *)
Receive ==
    /\ stack # << >> /\ ret # None
    /\ IF ret # Failure
       THEN /\ Take("entry")
            /\ cache' = IF cache[Head(Top.todo)] = Absent
                        THEN [cache EXCEPT ![Head(Top.todo)] = Empty] ELSE cache
       ELSE /\ IF Top.stage \in SkipOnError
               THEN Take("null")
               ELSE stack' = Pop /\ UNCHANGED ret
            /\ UNCHANGED cache
    /\ UNCHANGED <<registered, version, plan, call, result, runs>>

Whole(f) ==
    \A d \in DOMAIN f.inputs :
        /\ f.inputs[d] = "entry"
        /\ cache[d].kind = "made" /\ cache[d].whole /\ cache[d].at = version

(* Faulty variant: the artifact is returned and not stored.                *)
RunUncached ==
    /\ stack # << >> /\ call = None /\ ret = None
    /\ Top.todo = << >>
    /\ stack' = Pop
    /\ \/ ret' = Made(version, Whole(Top)) /\ runs' = [runs EXCEPT ![Top.stage] = @ + 1]
       \/ ret' = Failure /\ UNCHANGED runs
    /\ UNCHANGED <<registered, version, cache, plan, call, result>>

(* The stage runs.                                                         *)
Run ==
    /\ stack # << >> /\ call = None /\ ret = None
    /\ Top.todo = << >>
    /\ stack' = Pop
    /\ \/ /\ ret' = Made(version, Whole(Top))
          /\ runs' = [runs EXCEPT ![Top.stage] = @ + 1]
          /\ cache' = IF Top.stage \in Cacheable
                      THEN [cache EXCEPT ![Top.stage] = ret'] ELSE cache
       \/ ret' = Failure /\ UNCHANGED <<runs, cache>>
    /\ UNCHANGED <<registered, version, plan, call, result>>

(* A call of run_stages has returned.                                      *)
PlanStepDone ==
    /\ plan # << >> /\ stack = << >> /\ ret # None
    /\ ret' = None
    /\ plan' = IF ret = Failure THEN << >> ELSE Tail(plan)
    /\ result' = IF ret = Failure THEN "error" ELSE IF Len(plan) = 1 THEN "ok" ELSE "none"
    /\ UNCHANGED <<registered, version, cache, stack, call, runs>>

-----------------------------------------------------------------------------
Client ==
    \/ ChangeBinary \/ ClearCache
    \/ \E s \in Stages \ registered : Register(s)
    \/ \E s \in Edited :
         ClearStageCache(s) \/ Invalidate(s) \/ InvalidateFrom(s) \/ RunStage(s)
    \/ \E targets \in Targets \cup {registered} : RunStages(targets)
Pipeline == CallNext \/ Enter \/ NextDependency \/ Receive \/ Run \/ PlanStepDone

Next == Client \/ Pipeline

SafeSpec == Init /\ [][Next]_vars

(* run_stages runs in its caller's thread; a caller need not call.         *)
Spec == SafeSpec /\ WF_vars(Pipeline)

-----------------------------------------------------------------------------
(* The stages that a result of s is made from, s included.                 *)
Sources(s) == Closure({s}, DirectDependencies)

(* Nothing stands between s and results that are made afresh: every stage  *)
(* it is made from is cached, tracks the binary and passes errors on.      *)
Solid(s) == Sources(s) \subseteq (Cacheable \cap Tracking \cap registered) \ SkipOnError

(* What the n-th frame, or the plan, has asked for.                        *)
AskedBy(n) == IF n = 0 THEN Head(plan) ELSE Head(stack[n].todo)
Asked == AskedBy(Len(stack))

(* What a call answers for a solid stage was made from the binary as it is *)
(* now, by way of dependencies made from it too, whatever was invalidated, *)
(* cleared, changed or failed before.                                      *)
AnswersAreCurrent ==
    ret \in Artifacts => ret = Made(version, TRUE) \/ ~Solid(Asked)

(* "Artifact caching": within one run_stages a stage that is cached and    *)
(* tracks the binary runs once, though each of its dependents asks for it. *)
TrackedRunsOnce == \A s \in Cacheable \cap Tracking : runs[s] <= 1

(* run takes pointers into the cache, and calls made in between must not   *)
(* destroy what they point at; only a stage that is not cached loses its   *)
(* entry that way.                                                         *)
OnlyUncachedInputsVanish ==
    \A i \in 1 .. Len(stack) : \A d \in DOMAIN stack[i].inputs :
        stack[i].inputs[d] = "gone" => d \notin Cacheable

(* "Invalidate this stage and all dependents": nothing stays cached that   *)
(* was made from s, through however many stages.                           *)
InvalidationIsComplete ==
    [][Idle /\ cache' # cache => \A s \in Edited : Invalidate(s) =>
         \A t \in registered : s \in Sources(t) => cache'[t] = Absent]_vars

(* Every run_stages returns, since the calls follow the dependencies down. *)
RunStagesReturns == plan # << >> ~> plan = << >>

-----------------------------------------------------------------------------
(* What the proofs need besides.                                           *)

(* A frame has dependencies of its stage on its list, and every input that *)
(* is still to come.                                                       *)
Listed(f) ==
    /\ \A n \in 1 .. Len(f.todo) : f.todo[n] \in DepSet(f.stage)
    /\ \A d \in DepSet(f.stage) : f.inputs[d] = "todo" =>
         \E n \in 1 .. Len(f.todo) : f.todo[n] = d

(* The frames: each was pushed for what the one below it asks for, so that *)
(* the stages go down and no stage has two frames.                         *)
StackInv ==
    /\ stack # << >> \/ call # None \/ ret # None => plan # << >>
    /\ \A i \in 1 .. Len(stack) :
         /\ stack[i].stage = AskedBy(i - 1)
         /\ i < Len(stack) \/ call # None \/ ret # None => stack[i].todo # << >>
         /\ \A j \in 1 .. i - 1 : stack[i].stage < stack[j].stage
         /\ Listed(stack[i])
    /\ call # None => call = Asked

(* What is cached for s was made from the binary as it is now.             *)
Current(s) == cache[s].kind = "made" /\ cache[s].at = version

(* What a frame has been given, against the cache.                         *)
Fed(f) ==
    \A d \in DepSet(f.stage) :
        /\ f.inputs[d] = "entry" /\ d \in Cacheable \cap Tracking => Current(d)
        /\ f.inputs[d] = "null" => f.stage \in SkipOnError
        /\ f.inputs[d] = "gone" => d \notin Cacheable

(* And what has been answered.                                             *)
InputInv ==
    /\ \A i \in 1 .. Len(stack) : Fed(stack[i])
    /\ \A s \in Cacheable : cache[s] # Empty
    /\ ret \in Artifacts =>
         ret.at = version /\ (Asked \in Cacheable => cache[Asked] = ret)

(* Stages that are cached, track the binary and pass errors on, and whose  *)
(* dependencies are among them, whether registered or not.                 *)
Grounds ==
    {S \in SUBSET ((Cacheable \cap Tracking) \ SkipOnError) : \A s \in S : DepSet(s) \subseteq S}

GroundedIsWhole == \A S \in Grounds : \A s \in S : cache[s].kind = "made" => cache[s].whole

(* A stage that has run in this run_stages stays current until it returns. *)
RunsInv ==
    \A s \in Cacheable \cap Tracking : runs[s] # 0 /\ plan # << >> =>
        Current(s) /\ \A i \in 1 .. Len(stack) : stack[i].stage # s

IInv ==
    /\ TypeOK /\ StackInv /\ InputInv /\ GroundedIsWhole /\ RunsInv
    /\ TrackedRunsOnce

=============================================================================
