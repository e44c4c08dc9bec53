--------------------------- MODULE MCLoadedBinary ---------------------------
(***************************************************************************)
(* Instance of LoadedBinary for TLC.                                       *)
(*                                                                         *)
(* For the index and the engine: one binary with three instructions in two *)
(* blocks and one function, and one that holds a lone symbol.  The         *)
(* functions created later share a block with it, or its address; the      *)
(* symbols share an address, and the name of one starts that of the other. *)
(*                                                                         *)
(* For the edges: four blocks in a row, with all ways for each to end in a *)
(* return, a jump or a branch, up to those that differ in the first and    *)
(* the last block; one function has the four, another the last two.        *)
(*                                                                         *)
(* For the references: three functions that call each other, themselves    *)
(* and an address within one; two share a block; strings of bytes and of   *)
(* pairs that overlap, one where there is a symbol; a section of code, one *)
(* of data and one that the file ends in.                                  *)
(*                                                                         *)
(* For the addresses: an image with a section whose end is not in the      *)
(* file, one without sections behind it in memory, and one whose sections  *)
(* share bytes.                                                            *)
(***************************************************************************)
EXTENDS LoadedBinary

Call == [NewXref EXCEPT !.from = 3]

Code ==
    FoldLeft(CreateBlock,
        FoldLeft(CreateInstruction, EmptyBinary(0),
                 [k \in 1 .. 3 |-> [NewInstruction EXCEPT !.address = k - 1, !.length = 1]]),
        << [NewBlock EXCEPT !.end = 2, !.insns = <<1, 2>>],
           [NewBlock EXCEPT !.start = 2, !.end = 3, !.insns = <<3>>] >>)

Function(start, end, blocks, deps, callsIn, callsOut) ==
    [NewFunction EXCEPT !.start = start, !.end = end, !.size = end - start, !.blocks = blocks,
                        !.deps = deps, !.callsIn = callsIn, !.callsOut = callsOut]

First == Function(0, 3, <<1, 2>>, {"Disassemble", "TypeInference"}, << >>, <<Call>>)
Second == Function(2, 3, <<2>>, {"ScanFunctions"}, << >>, << >>)
Third == Function(0, 2, <<1>>, {"BuildCFG"}, <<Call>>, << >>)

Symbol(name, address, type) ==
    [NewSymbol EXCEPT !.name = name, !.address = address, !.type = type]

MCLoadable ==
    {CreateFunction(Code, First),
     CreateSymbol(EmptyBinary(0), Symbol(<<"a">>, 2, "Import"))}
MCNewSymbols == {Symbol(<<"a">>, 0, "Import"), Symbol(<<"a", "b">>, 0, "Function")}
MCNewFunctions == {Second, Third}
MCRanges == {[start |-> 0, end |-> 1], [start |-> 1, end |-> 3]}

-----------------------------------------------------------------------------

Ending(last, to) == [last |-> last, to |-> to]
Targets == 1 .. 4
Endings ==
    {Ending("return", 0), Ending("other", 0)}
    \cup {Ending(last, to) : last \in {"jump", "branch"}, to \in Targets}

MCCodes ==
    {[blocks |-> [n \in 1 .. 4 |-> [start |-> n, end |-> n + 1, last |-> e[n].last, to |-> e[n].to]],
      functions |-> <<[blocks |-> <<1, 2, 3, 4>>, entry |-> 0], [blocks |-> <<4, 3>>, entry |-> 3]>>] :
        e \in {Ending("other", 0), Ending("branch", 3), Ending("jump", 4)} \X Endings \X Endings
             \X {Ending("none", 0), Ending("jump", 1), Ending("jump", 2), Ending("branch", 3)}}

-----------------------------------------------------------------------------

ImageSection(base, at, raw, rva, size, writable) ==
    [NewSection EXCEPT !.fileOffset = at, !.rawSize = raw, !.rva = rva,
                       !.virtualAddr = base + rva, !.virtualSize = size,
                       !.writable = writable, !.executable = ~writable]
MCImages ==
    {[base |-> 16,
      sections |-> <<ImageSection(16, 2, 3, 4, 5, FALSE), ImageSection(16, 5, 4, 9, 2, TRUE)>>,
      fileSize |-> 8],
     [base |-> 0,
      sections |-> <<ImageSection(0, 0, 4, 0, 4, FALSE), ImageSection(0, 4, 2, 4, 6, TRUE)>>,
      fileSize |-> 6],
     [base |-> 16,
      sections |-> <<ImageSection(16, 1, 4, 2, 4, FALSE), ImageSection(16, 3, 4, 5, 3, TRUE)>>,
      fileSize |-> 6]}
-----------------------------------------------------------------------------

Operand(kind, to) == [NewOperand EXCEPT !.kind = kind, !.to = to]
Insn(address, is, operands) ==
    [NewInstruction EXCEPT !.address = address, !.is = is, !.operands = operands]
Part(rva, at, size, executable) ==
    [NewSection EXCEPT !.rva = rva, !.virtualAddr = rva, !.fileOffset = at, !.rawSize = size,
                       !.executable = executable]
Caller(start, blocks) ==
    [NewFunction EXCEPT !.start = start, !.blocks = blocks]

Insns ==
    <<Insn(0, "call", <<Operand("address", 2)>>),
      Insn(1, "other", <<Operand("memory", 6), Operand("memory", 0), Operand("immediate", 6)>>),
      Insn(2, "call", <<Operand("address", 0), Operand("address", 4)>>),
      Insn(3, "call", <<Operand("address", 1), Operand("address", 2)>>),
      Insn(4, "branch", <<Operand("address", 0), Operand("immediate", 0)>>),
      Insn(5, "return", <<Operand("immediate", 6)>>)>>

(* With all sections, and as long as it has none but code.                 *)
Analyzable(sections) ==
    [file |-> <<"text", "other", "text", "zero", "text", "text", "text", "zero", "text", "zero">>,
     binary |->
        FoldLeft(CreateFunction,
            FoldLeft(CreateBlock,
                FoldLeft(CreateInstruction,
                    FoldLeft(CreateSection,
                        CreateSymbol(EmptyBinary(0), Symbol(<<"a">>, 6, "Data")), sections),
                    Insns),
                [k \in 1 .. 3 |->
                    [NewBlock EXCEPT !.insns = <<<<1, 2>>, <<3>>, <<4, 5, 6, 7>>>>[k]]]),
            <<Caller(0, <<1, 3>>), Caller(2, <<2>>), Caller(4, <<3, 4>>)>>)]

MCPrograms ==
    {Analyzable(s) : s \in {<<Part(0, 0, 4, TRUE)>>,
                            <<Part(0, 0, 4, TRUE), Part(6, 4, 6, FALSE), Part(20, 8, 4, FALSE)>>}}
=============================================================================
