-------------------------- MODULE CrossReferences --------------------------
(***************************************************************************)
(* The analysis of references and of strings, over a Binary whose code is  *)
(* there: who calls a function, which instruction reads which section, and *)
(* a symbol for every string that is found.                                *)
(*                                                                         *)
(* An operand is [kind, to].  An instruction is [address, is, operands],   *)
(* where "is" tells calls, branches and returns.  A byte is "text" when it *)
(* is printable, "zero", or "other".                                       *)
(***************************************************************************)
EXTENDS Governance

CONSTANTS
    Programs,       \* [binary, file: sequence of bytes]
    MinLength,      \* min_length of register_string_symbols
    MaxAnalyses     \* bound on the analyses of one binary

(* The entities of ir.h, of those fields that are read.                    *)
IrOperand == [kind : {"none", "address", "memory", "immediate"}, to : Nat]
IrInstruction ==
    [address : Nat, length : Nat, is : {"call", "branch", "return", "other"},
     operands : Seq(IrOperand), parent : Nat]
IrBlock ==
    [start : Nat, end : Nat, insns : Seq(Nat), succs : Seq(Nat), preds : Seq(Nat), parent : Nat]
IrSection ==
    [fileOffset : Nat, rawSize : Nat, rva : Nat, virtualAddr : Nat, virtualSize : Nat,
     writable : BOOLEAN, executable : BOOLEAN]
IrXref == [type : {"Call", "DataRead"}, from : Nat, to : Nat, target : Nat]

(* Of a binary: identifiers in maps are those of entities; those in lists  *)
(* may be of none.                                                         *)
IsCode(b) ==
    /\ DOMAIN b = DOMAIN EmptyBinary(0)
    /\ b.insns \in Seq(IrInstruction) /\ b.blocks \in Seq(IrBlock) /\ b.sections \in Seq(IrSection)
    /\ b.functions \in Seq(ToSet(b.functions)) /\ b.symbols \in Seq(ToSet(b.symbols))
    /\ \A f \in ToSet(b.functions) :
          /\ DOMAIN f = DOMAIN NewFunction /\ f.blocks \in Seq(Nat)
          /\ f.callsIn \in Seq(IrXref) /\ f.callsOut \in Seq(IrXref)
    /\ b.sectionAt \in [DOMAIN b.sectionAt -> DOMAIN b.sections]
    /\ b.functionAt \in [DOMAIN b.functionAt -> DOMAIN b.functions]
    /\ b.symbolAt \in [DOMAIN b.symbolAt -> DOMAIN b.symbols]

(* What the loader and the disassembler leave: no references, no strings.  *)
IsDisassembled(b) ==
    /\ IsCode(b)
    /\ \A f \in ToSet(b.functions) : f.callsIn = << >> /\ f.callsOut = << >>
    /\ \A s \in ToSet(b.symbols) : s.type # "String"
    /\ b.xrefsTo = << >> /\ b.xrefsFrom = << >>

ASSUME ProgramsAssumption ==
    /\ MinLength \in Nat \ {0}
    /\ \A p \in Programs :
          /\ DOMAIN p = {"binary", "file"} /\ p.file \in Seq({"text", "zero", "other"})
          /\ IsDisassembled(p.binary)

VARIABLES
    program,        \* the binary and its file
    analyzed,       \* history: functions, in the order of their analyses
    refs            \* history: calls of analyze_all_xrefs

xrefVars == <<program, analyzed, refs>>

Known == program.binary
NoProgram == [binary |-> EmptyBinary(0), file |-> << >>]

-----------------------------------------------------------------------------
(* analysis::XRefAnalyzer.                                                 *)

(* Blocks and instructions whose identifier is not there are passed over.  *)
InsnIds(b, f) ==
    FlattenSeq([k \in 1 .. Len(f.blocks) |->
        IF Has(b.blocks, f.blocks[k])
        THEN Kept(b.blocks[f.blocks[k]].insns, DOMAIN b.insns)
        ELSE << >>])

(* The operands of an instruction, of one kind.                            *)
Operands(insn, kind) == Kept(insn.operands, {o \in ToSet(insn.operands) : o.kind = kind})
OperandsOf(b, f, kind) ==
    FlattenSeq([n \in 1 .. Len(InsnIds(b, f)) |->
        LET insn == b.insns[InsnIds(b, f)[n]]
            chosen == Operands(insn, kind)
        IN  [k \in 1 .. Len(chosen) |->
                [from |-> insn.address, to |-> chosen[k].to, is |-> insn.is]]])

(* The calls whose target begins a function: other targets are dropped.    *)
CallsOf(b, f) ==
    LET operands == OperandsOf(b, f, "address")
        calls == Kept(operands, {o \in ToSet(operands) :
                                    o.is = "call" /\ FindAt(b.functionAt, o.to) # Invalid})
    IN  [k \in 1 .. Len(calls) |->
            [NewXref EXCEPT !.from = calls[k].from, !.to = calls[k].to,
                            !.target = FindAt(b.functionAt, calls[k].to)]]

CallsTo(calls, id) == Kept(calls, {x \in ToSet(calls) : x.target = id})

(* Faulty variant: the calls that a function makes are not emptied first.  *)
WithCallsAgain(b, id) ==
    LET calls == CallsOf(b, b.functions[id])
        Before(k, f) == IF k = id THEN << >> ELSE f.callsIn
        After(k, f) == [f EXCEPT !.callsIn = Before(k, f) \o CallsTo(calls, k),
                                 !.callsOut = IF k = id THEN @ \o calls ELSE @]
    IN  [b EXCEPT !.functions = [k \in DOMAIN b.functions |-> After(k, b.functions[k])]]

(* analyze_function: both lists of the function are emptied, and each call *)
(* goes into its own list and behind that of the function it calls.        *)
WithCalls(b, id) ==
    LET calls == CallsOf(b, b.functions[id])
        Before(k, f) == IF k = id THEN << >> ELSE f.callsIn
        After(k, f) == [f EXCEPT !.callsIn = Before(k, f) \o CallsTo(calls, k),
                                 !.callsOut = IF k = id THEN calls ELSE @]
    IN  [b EXCEPT !.functions = [k \in DOMAIN b.functions |-> After(k, b.functions[k])]]

(* analyze_data_refs: the memory operands whose displacement is the first  *)
(* address of a section that is not code, with the symbol that is there.   *)
DataOperands(b) ==
    LET operands == FlattenSeq([id \in 1 .. Len(b.functions) |->
                                   OperandsOf(b, b.functions[id], "memory")])
        IsData(s) == s # Invalid /\ ~b.sections[s].executable
    IN  Kept(operands, {o \in ToSet(operands) : IsData(FindAt(b.sectionAt, o.to))})

DataRefs(b) ==
    LET data == DataOperands(b)
    IN  [k \in 1 .. Len(data) |->
            [NewXref EXCEPT !.type = "DataRead", !.from = data[k].from, !.to = data[k].to,
                            !.target = FindAt(b.symbolAt, data[k].to)]]

-----------------------------------------------------------------------------
(* atlus::XRefAnalyzer, the other one: what one instruction refers to.     *)

(* Faulty variant: the address of a call is taken for an immediate.        *)
InstructionRefsImmediate(insn) ==
    [k \in DOMAIN insn.operands |->
        [type |-> "DataRead", from |-> insn.address, to |-> insn.operands[k].to]]

InstructionRefs(insn) ==
    LET code == IF insn.is \in {"call", "branch"} THEN Operands(insn, "address") ELSE << >>
        all == Operands(insn, "immediate")
        immediate == Kept(all, {o \in ToSet(all) : \A k \in DOMAIN code : code[k].to # o.to})
        first == Kept([k \in 1 .. Len(immediate) |-> k], {k \in DOMAIN immediate :
            ~\E j \in 1 .. k - 1 : immediate[j].to = immediate[k].to})
        Ref(type, o) == [type |-> type, from |-> insn.address, to |-> o.to]
        type == IF insn.is = "call" THEN "Call" ELSE "Jump"
    IN  IF insn.is = "return" THEN << >>
        ELSE [k \in 1 .. Len(code) |-> Ref(type, code[k])]
             \o [k \in 1 .. Len(first) |-> Ref("DataRead", immediate[first[k]])]

-----------------------------------------------------------------------------
(* StringFinder.                                                           *)

Bytes(file, s) == SubSeq(file, s.fileOffset + 1, s.fileOffset + s.rawSize)

(* Where printable bytes begin, as many as there are.                      *)
Ascii(bytes) ==
    {x[1] : x \in {r \in (0 .. Len(bytes)) \X (0 .. Len(bytes)) :
        /\ r[2] - r[1] >= MinLength
        /\ \A k \in r[1] + 1 .. r[2] : bytes[k] = "text"
        /\ r[1] = 0 \/ bytes[r[1]] # "text"
        /\ r[2] = Len(bytes) \/ bytes[r[2] + 1] # "text"}}

(* Pairs of a printable byte and a zero, from the even places only.        *)
Pair(bytes, n) ==
    2 * n + 2 <= Len(bytes) /\ bytes[2 * n + 1] = "text" /\ bytes[2 * n + 2] = "zero"
Unicode(bytes) ==
    {2 * x[1] : x \in {r \in (0 .. Len(bytes) \div 2) \X (0 .. Len(bytes) \div 2) :
        /\ r[2] - r[1] >= MinLength
        /\ \A k \in r[1] .. r[2] - 1 : Pair(bytes, k)
        /\ r[1] = 0 \/ ~Pair(bytes, r[1] - 1)
        /\ ~Pair(bytes, r[2])}}

InOrder(bytes, places) == Kept([i \in 1 .. Len(bytes) |-> i - 1], places)

(* The addresses of the strings: of each section that is not code and lies *)
(* in the file, first those of single bytes.                               *)
FindStrings(p) ==
    FlattenSeq([k \in 1 .. Len(p.binary.sections) |->
        LET s == p.binary.sections[k]
            bytes == Bytes(p.file, s)
            found == InOrder(bytes, Ascii(bytes)) \o InOrder(bytes, Unicode(bytes))
        IN  IF s.executable \/ s.fileOffset + s.rawSize > Len(p.file) THEN << >>
            ELSE [n \in 1 .. Len(found) |-> s.virtualAddr + found[n]]])

StringSymbol(a) ==
    [NewSymbol EXCEPT !.name = <<"str_", a>>, !.address = a, !.type = "String"]

(* Faulty variant: it is not asked for a symbol that is there.             *)
WithStringsAgain(p) ==
    LET found == FindStrings(p)
        after[n \in 0 .. Len(found)] ==
            IF n = 0 THEN p.binary ELSE CreateSymbol(after[n - 1], StringSymbol(found[n]))
    IN  after[Len(found)]

(* register_string_symbols: one for each address that has none yet.        *)
AddString(b, a) ==
    IF FindAt(b.symbolAt, a) # Invalid THEN b ELSE CreateSymbol(b, StringSymbol(a))

WithStrings(p) ==
    LET found == FindStrings(p)
        after[n \in 0 .. Len(found)] ==
            IF n = 0 THEN p.binary ELSE AddString(after[n - 1], found[n])
    IN  after[Len(found)]

-----------------------------------------------------------------------------

XrefInit == program = NoProgram /\ analyzed = << >> /\ refs = 0

LoadProgram(p) ==
    /\ program = NoProgram /\ analyzed = << >> /\ refs = 0
    /\ program' = p
    /\ UNCHANGED <<analyzed, refs>>

AnalyzeXrefs(id) ==
    /\ Len(analyzed) < MaxAnalyses
    /\ program' = [program EXCEPT !.binary = WithCalls(@, id)]
    /\ analyzed' = Append(analyzed, id)
    /\ UNCHANGED refs

AnalyzeAllXrefs ==
    /\ program # NoProgram /\ refs < MaxAnalyses
    /\ program' = [program EXCEPT !.binary = RegisterXrefs(@, DataRefs(@))]
    /\ refs' = refs + 1
    /\ UNCHANGED analyzed

RegisterStringSymbols ==
    /\ program # NoProgram
    /\ program' = [program EXCEPT !.binary = WithStrings(program)]
    /\ UNCHANGED <<analyzed, refs>>

XrefNext ==
    \/ \E p \in Programs : LoadProgram(p)
    \/ \E id \in DOMAIN Known.functions : AnalyzeXrefs(id)
    \/ AnalyzeAllXrefs
    \/ RegisterStringSymbols

-----------------------------------------------------------------------------
(* The calls that a function makes are known once it was analysed, each as *)
(* often as it makes it, whatever came between.  The calls that it knows   *)
(* of others, or of its own, to it are such that an analysed function      *)
(* makes, and among them are at least those of every function that was     *)
(* analysed since it was itself.                                           *)
CallsFollowCode ==
    \A id \in DOMAIN Known.functions :
        LET times == {n \in DOMAIN analyzed : analyzed[n] = id}
            since == SubSeq(analyzed, Max(times \cup {1}), Len(analyzed))
            calls(caller) == CallsTo(CallsOf(Known, Known.functions[caller]), id)
            known == ToSet(Known.functions[id].callsIn)
        IN  /\ times # {} => Known.functions[id].callsOut = CallsOf(Known, Known.functions[id])
            /\ \A x \in known : \E caller \in ToSet(analyzed) : x \in ToSet(calls(caller))
            /\ \A caller \in ToSet(since) : ToSet(calls(caller)) \subseteq known

(* What ir.h says of calls_in, "Functions calling this one": the calls of  *)
(* every function that was analysed, in whatever order it was.             *)
CallersAreKnown ==
    \A id \in DOMAIN Known.functions, caller \in ToSet(analyzed) :
        ToSet(CallsTo(CallsOf(Known, Known.functions[caller]), id))
            \subseteq ToSet(Known.functions[id].callsIn)

(* Strings are registered once: after it every string that is found has a  *)
(* symbol at its address, which names it unless another had the address,   *)
(* and to do it again, whatever was analysed between, adds nothing.        *)
StringsAreNamedOnce ==
    LET registered == \E id \in DOMAIN Known.symbols : Known.symbols[id].type = "String"
    IN  registered =>
            /\ \A k \in DOMAIN Known.sections : LET s == Known.sections[k] IN
                 ~s.executable /\ s.fileOffset + s.rawSize <= Len(program.file) =>
                    \A i \in 1 .. s.rawSize - MinLength + 1 :
                       (/\ \A j \in i .. i + MinLength - 1 : Bytes(program.file, s)[j] = "text"
                        /\ i = 1 \/ Bytes(program.file, s)[i - 1] # "text")
                       => FindAt(Known.symbolAt, s.virtualAddr + i - 1) # Invalid
            /\ WithStrings(program) = Known

(* A call that the one analyser records is one the other sees in an        *)
(* instruction; and the references to data are in both maps of the binary, *)
(* each as often as they were analysed, at a section that is not code, and *)
(* each in order for an instruction, by the rules of governance.           *)
AnalysersAgree ==
    /\ \A id \in DOMAIN Known.functions : \A x \in ToSet(Known.functions[id].callsOut) :
         \E n \in DOMAIN Known.insns : [type |-> x.type, from |-> x.from, to |-> x.to]
                                       \in ToSet(InstructionRefs(Known.insns[n]))
    /\ \A a \in DOMAIN Known.xrefsTo :
         /\ ~Known.sections[FindAt(Known.sectionAt, a)].executable
         /\ Len(Known.xrefsTo[a]) = refs * Cardinality({k \in DOMAIN DataRefs(Known) :
                                                            DataRefs(Known)[k].to = a})
         /\ ToSet(Known.xrefsTo[a]) \subseteq UNION {ToSet(l) : l \in Range(Known.xrefsFrom)}
         /\ \A x \in ToSet(Known.xrefsTo[a]) :
              \E n \in DOMAIN Known.insns : ValidXref(x, Known.insns[n])

(* What is recorded of calls, strings and data is what the binary shows:   *)
(* CallsFollowCode, StringsAreNamedOnce and AnalysersAgree.                *)
ReferencesFollowCode == CallsFollowCode /\ StringsAreNamedOnce /\ AnalysersAgree

=============================================================================
