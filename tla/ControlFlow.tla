---------------------------- MODULE ControlFlow -----------------------------
(***************************************************************************)
(* The edges between the basic blocks of a function, its dominators and    *)
(* its loops.                                                              *)
(*                                                                         *)
(* Edges are kept in the blocks, and a block may belong to two functions:  *)
(* building the one takes from the block the edges of the other.           *)
(*                                                                         *)
(* A block is [start, end, last, to]: its addresses, the kind of its last  *)
(* instruction ("none" in a block without instructions) and the target of  *)
(* a branch, 0 when it has no address among its operands.                  *)
(***************************************************************************)
EXTENDS Integers, Sequences, SequencesExt, FiniteSetsExt

CONSTANT Codes      \* [blocks: sequence of blocks,
                    \*  functions: sequence of [blocks: identifiers, entry]]

VARIABLES
    code,
    succs,          \* [block -> successors]
    preds,          \* [block -> predecessors]
    built           \* history: [function -> the edges of its blocks are its own]

flowVars == <<code, succs, preds, built>>

Blocks == DOMAIN code.blocks
In(f) == ToSet(f.blocks)

(* build and compute return at once for a function that has no block; an   *)
(* entry that is not of the function is what validate reports.             *)
ASSUME CodesAssumption ==
    \A c \in Codes :
        /\ IsFiniteSet(DOMAIN c.blocks)
        /\ \A n \in DOMAIN c.functions :
             /\ c.functions[n].blocks \in Seq(DOMAIN c.blocks) \ {<< >>}
             /\ c.functions[n].entry \in {0} \cup In(c.functions[n])

(* entry_block, or the first block when there is none.                     *)
Entry(f) == IF f.entry = 0 THEN f.blocks[1] ELSE f.entry

-----------------------------------------------------------------------------
(* CFGBuilder.                                                             *)

(* The block of the function that begins next behind the end of this one:  *)
(* of several that begin there the first in its list.                      *)
Fallthrough(f, b) ==
    LET start(i) == code.blocks[f.blocks[i]].start
        behind == {i \in DOMAIN f.blocks : f.blocks[i] # b /\ start(i) >= code.blocks[b].end}
    IN  {f.blocks[i] : i \in {k \in behind : \A j \in behind :
            start(k) < start(j) \/ (start(k) = start(j) /\ k <= j)}}

(* The first block of the function that holds the target.                  *)
BranchTarget(f, b) ==
    LET holding == {i \in DOMAIN f.blocks :
            /\ code.blocks[f.blocks[i]].start <= code.blocks[b].to
            /\ code.blocks[b].to < code.blocks[f.blocks[i]].end}
    IN  {f.blocks[i] : i \in {k \in holding : \A j \in holding : k <= j}}

Successors(f, b) ==
    CASE code.blocks[b].last \in {"none", "return"} -> {}
      [] code.blocks[b].last = "jump" -> BranchTarget(f, b)
      [] code.blocks[b].last = "branch" -> BranchTarget(f, b) \cup Fallthrough(f, b)
      [] OTHER -> Fallthrough(f, b)

(* Faulty variant: the other functions of a block are not looked at, as    *)
(* the predecessors the block had stay.                                    *)
BuildEdgesKeepsPredecessors(n) ==
    LET f == code.functions[n] IN
    /\ succs' = [b \in Blocks |-> IF b \in In(f) THEN Successors(f, b) ELSE succs[b]]
    /\ preds' = [b \in Blocks |-> IF b \notin In(f) THEN preds[b]
           ELSE preds[b] \cup {p \in In(f) : b \in Successors(f, p)}]
    /\ built' = [g \in DOMAIN built |-> g = n \/ (built[g] /\ In(code.functions[g]) \cap In(f) = {})]
    /\ UNCHANGED code

(* build: the successors of every block of the function, and from them the *)
(* predecessors, each once.                                                *)
BuildEdges(n) ==
    LET f == code.functions[n] IN
    /\ succs' = [b \in Blocks |-> IF b \in In(f) THEN Successors(f, b) ELSE succs[b]]
    /\ preds' = [b \in Blocks |-> IF b \notin In(f) THEN preds[b]
           ELSE {p \in In(f) : b \in Successors(f, p)}]
    /\ built' = [g \in DOMAIN built |-> g = n \/ (built[g] /\ In(code.functions[g]) \cap In(f) = {})]
    /\ UNCHANGED code

-----------------------------------------------------------------------------
(* DominatorAnalysis.                                                      *)

(* A predecessor that is not of the function has no dominators.            *)
Narrowed(f, dom, b) ==
    IF b = Entry(f) \/ preds[b] = {} THEN dom[b]
    ELSE {b} \cup {d \in In(f) : \A p \in preds[b] : p \in In(f) /\ d \in dom[p]}

(* From all blocks, in as many rounds as there are blocks: the loop ends   *)
(* with the first that changes nothing, and those behind it change nothing *)
(* either.                                                                 *)
Dominators(f) ==
    LET after[n \in 0 .. Cardinality(In(f))] ==
            IF n = 0 THEN [b \in In(f) |-> IF b = Entry(f) THEN {b} ELSE In(f)]
            ELSE LET dom == after[n - 1] IN [b \in In(f) |-> Narrowed(f, dom, b)]
    IN  after[Cardinality(In(f))]

(* The candidates that no other dominator of the block dominates: of these *)
(* the first met is taken.                                                 *)
ImmediateDominators(f, dom, b) ==
    IF b = Entry(f) THEN {}
    ELSE {c \in dom[b] \ {b} : \A o \in dom[b] \ {b, c} : o \notin dom[c]}

(* From a block up the tree.  No two candidates pass the test, as the one  *)
(* that does is the entry.                                                 *)
Upwards(f, dom, b) == {b} \cup ImmediateDominators(f, dom, b)

-----------------------------------------------------------------------------
(* LoopDetection.                                                          *)

(* The least set with S in it and, with every b, with next[b] in it.       *)
Closure(S, next) ==
    LET upTo[n \in 0 .. Cardinality(Blocks)] ==
            IF n = 0 THEN S
            ELSE LET found == upTo[n - 1] IN found \cup UNION {next[b] : b \in found}
    IN  upTo[Cardinality(Blocks)]

(* Faulty variant: the search goes on behind the header.                   *)
LoopBlocksThroughHeader(header, source) == {header} \cup Closure({source}, preds)

(* The header, and what reaches the source of the edge without it.         *)
LoopBlocks(header, source) ==
    {header} \cup Closure({source} \ {header}, [b \in Blocks |-> preds[b] \ {header}])

(* An edge to a block that is found on the way up, from a block that has   *)
(* an immediate dominator.                                                 *)
Loops(f) ==
    LET dom == Dominators(f) IN
    {[header |-> e[2], source |-> e[1], blocks |-> LoopBlocks(e[2], e[1])] :
        e \in {x \in In(f) \X Blocks :
                 /\ x[2] \in succs[x[1]]
                 /\ ImmediateDominators(f, dom, x[1]) # {}
                 /\ x[2] \in Upwards(f, dom, x[1])}}

-----------------------------------------------------------------------------

NoCode == [blocks |-> << >>, functions |-> << >>]

FlowInit ==
    /\ code = NoCode
    /\ succs = [b \in Blocks |-> {}] /\ preds = [b \in Blocks |-> {}]
    /\ built = [n \in DOMAIN code.functions |-> FALSE]

(* A binary whose functions have been split into blocks without edges.     *)
Disassembled(c) ==
    /\ code = NoCode
    /\ code' = c
    /\ succs' = [b \in DOMAIN c.blocks |-> {}]
    /\ preds' = [b \in DOMAIN c.blocks |-> {}]
    /\ built' = [n \in DOMAIN c.functions |-> FALSE]

FlowNext ==
    \/ \E c \in Codes : Disassembled(c)
    \/ \E n \in DOMAIN code.functions : BuildEdges(n)

-----------------------------------------------------------------------------

FlowTypes ==
    /\ code \in Codes \cup {NoCode}
    /\ succs \in [Blocks -> SUBSET Blocks] /\ preds \in [Blocks -> SUBSET Blocks]
    /\ built \in [DOMAIN code.functions -> BOOLEAN]

Own == {code.functions[n] : n \in {m \in DOMAIN built : built[m]}}

(* A function that is built has the edges its blocks call for.             *)
EdgesInv ==
    \A f \in Own : \A b \in In(f) :
        /\ succs[b] = Successors(f, b)
        /\ preds[b] = {p \in In(f) : b \in Successors(f, p)}

FlowInv == FlowTypes /\ EdgesInv

-----------------------------------------------------------------------------
(* The references: paths by the successors.                                *)

ReachedFrom(start, avoided) ==
    Closure({start} \ avoided, [b \in Blocks |-> succs[b] \ avoided])

Reached(f) == ReachedFrom(Entry(f), {})

(* Every path from the entry to b goes through d.                          *)
Dominates(f, d, b) == b \notin ReachedFrom(Entry(f), {d})

(* In a function that was built after the others that have a block of it,  *)
(* the dominators of a block that can be reached are the blocks that every *)
(* path to it goes through.                                                *)
DominatorsAreOnEveryPath ==
    \A f \in Own :
        LET dom == Dominators(f)
        IN  \A b \in Reached(f) : dom[b] = {d \in In(f) : Dominates(f, d, b)}

(* What is reported as a loop is one: the header is on every path to its   *)
(* source, hence to each of its blocks, and each of these reaches the      *)
(* source within the loop.  (Not every loop is reported: only those whose  *)
(* header is the entry, or whose header is their source.)                  *)
LoopsAreNatural ==
    \A f \in Own : \A l \in Loops(f) : l.source \in Reached(f) =>
        /\ Dominates(f, l.header, l.source)
        /\ \A b \in l.blocks \cap Reached(f) :
              /\ Dominates(f, l.header, b)
              /\ b # l.header => l.source \in ReachedFrom(b, Blocks \ (l.blocks \ {l.header}))

(* The comment in DominatorAnalysis::compute: "Find immediate dominator:   *)
(* strict dominator with no strict dominators in between".                 *)
ImmediateDominatorIsTheNearest ==
    \A f \in Own : \A b \in Reached(f) \ {Entry(f)} :
        LET strict(x) == {d \in In(f) \ {x} : Dominates(f, d, x)}
        IN  \A c \in ImmediateDominators(f, Dominators(f), b) :
                ~\E o \in strict(b) : c \in strict(o)

=============================================================================
