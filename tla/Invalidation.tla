---------------------------- MODULE Invalidation ----------------------------
(***************************************************************************)
(* analysis::InvalidationEngine: which functions, blocks and instructions  *)
(* of a Binary are dirty after a trigger, as operators on a record of the  *)
(* three sets.  A function carries the stages that contributed to it, its  *)
(* identity's DependencyMask, as the set deps.                             *)
(***************************************************************************)
EXTENDS Binary

Stages == {"ParsePE", "MapSections", "ScanFunctions", "Disassemble", "BuildBasicBlocks",
           "BuildCFG", "AnalyzeXRefs", "TypeInference", "DataFlow"}

CodeStages == {"Disassemble", "BuildBasicBlocks", "BuildCFG", "AnalyzeXRefs"}

Triggers ==
    {"BinaryLoaded", "BinaryPatched", "BinaryRebased", "SectionAdded", "SectionRemoved",
     "DisassemblyConfigChanged", "HeuristicTuningChanged", "TypeDatabaseUpdated",
     "ManualFunctionBoundaries", "SymbolRenamed", "TypeAnnotationAdded",
     "DebugSymbolsLoaded", "ImportTableReconstructed"}

(* get_invalidation_rule.                                                  *)
Rule(trigger) ==
    LET rule(stages, cascade, full) == [stages |-> stages, cascade |-> cascade, full |-> full]
    IN  CASE trigger = "BinaryLoaded" -> rule(Stages, TRUE, TRUE)
          [] trigger = "BinaryPatched" -> rule(CodeStages, TRUE, FALSE)
          [] trigger \in {"SectionAdded", "SectionRemoved"} ->
                rule({"MapSections", "ScanFunctions"}, TRUE, TRUE)
          [] trigger = "DisassemblyConfigChanged" -> rule(CodeStages, TRUE, TRUE)
          [] trigger = "HeuristicTuningChanged" -> rule({"ScanFunctions"}, TRUE, FALSE)
          [] trigger = "TypeDatabaseUpdated" -> rule({"TypeInference"}, FALSE, FALSE)
          [] trigger = "ManualFunctionBoundaries" -> rule(CodeStages, FALSE, FALSE)
          [] trigger \in {"BinaryRebased", "SymbolRenamed", "TypeAnnotationAdded"} ->
                rule({}, FALSE, FALSE)
          [] trigger \in {"DebugSymbolsLoaded", "ImportTableReconstructed"} ->
                rule({"ScanFunctions", "TypeInference"}, TRUE, FALSE)

Clean == [functions |-> {}, blocks |-> {}, insns |-> {}]

DependsOn(b, stages) == {f \in DOMAIN b.functions : b.functions[f].deps \cap stages # {}}

BlocksOf(b, functions) ==
    UNION {ToSet(b.functions[f].blocks) : f \in functions \cap DOMAIN b.functions}
InsnsOf(b, blocks) == UNION {ToSet(b.blocks[k].insns) : k \in blocks \cap DOMAIN b.blocks}

-----------------------------------------------------------------------------
(* Faulty variant: the instructions of the blocks that were dirty before.  *)
CascadeOnce(b, dirty) ==
    [dirty EXCEPT !.blocks = @ \cup BlocksOf(b, dirty.functions),
                  !.insns = @ \cup InsnsOf(b, dirty.blocks)]

(* cascade_invalidation starts from all that is dirty, not only from what  *)
(* the trigger has added.                                                  *)
Cascade(b, dirty) ==
    LET blocks == dirty.blocks \cup BlocksOf(b, dirty.functions)
    IN  [dirty EXCEPT !.blocks = blocks, !.insns = @ \cup InsnsOf(b, blocks)]

(* invalidate(trigger).                                                    *)
InvalidateAll(b, dirty, trigger) ==
    LET rule == Rule(trigger)
        marked == IF rule.full THEN DOMAIN b.functions ELSE DependsOn(b, rule.stages)
        with == [dirty EXCEPT !.functions = @ \cup marked]
    IN  IF rule.cascade THEN Cascade(b, with) ELSE with

(* find_affected_functions: a range is [start, end).                       *)
AffectedFunctions(b, range) ==
    {f \in DOMAIN b.functions : b.functions[f].start < range.end /\ b.functions[f].end > range.start}

(* invalidate(trigger, range) never cascades, whatever the rule says.      *)
InvalidateRange(b, dirty, trigger, range) ==
    LET rule == Rule(trigger)
        dependent == IF rule.full /\ rule.stages # {} THEN DependsOn(b, rule.stages) ELSE {}
    IN  [dirty EXCEPT !.functions = @ \cup AffectedFunctions(b, range) \cup dependent]

(* invalidate(trigger, function): the function and its blocks.             *)
InvalidateFunction(b, dirty, f) ==
    [dirty EXCEPT !.functions = @ \cup {f}, !.blocks = @ \cup BlocksOf(b, {f})]

-----------------------------------------------------------------------------
(* resolve_address: a function is found by its first address only, and a   *)
(* block or an instruction only inside of it.                              *)

FirstIn(ids, Holds) ==
    LET places == {k \in DOMAIN ids : ids[k] \in Holds} IN IF places = {} THEN Invalid ELSE ids[Min(places)]

ResolveAddress(b, a) ==
    LET f == FindAt(b.functionAt, a)
        block == IF f = Invalid THEN Invalid
                 ELSE FirstIn(b.functions[f].blocks,
                         {k \in DOMAIN b.blocks : b.blocks[k].start <= a /\ a < b.blocks[k].end})
        insn == IF block = Invalid THEN Invalid
                ELSE FirstIn(b.blocks[block].insns,
                         {k \in DOMAIN b.insns : /\ b.insns[k].address <= a
                                                 /\ a < b.insns[k].address + b.insns[k].length})
    IN  [function |-> f, block |-> block, insn |-> insn]

=============================================================================
