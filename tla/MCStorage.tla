----------------------------- MODULE MCStorage ------------------------------
(***************************************************************************)
(* Instance of Storage for TLC.                                            *)
(*                                                                         *)
(* Annotations: one address; a text with a number behind a comma, and one  *)
(* with a word behind a comma and with two more lines, of which one is     *)
(* empty and one looks like an identifier.                                 *)
(*                                                                         *)
(* Patches: a file of two sections, with a cave at the end of the first,   *)
(* and the same file without its end.                                      *)
(*                                                                         *)
(* Sessions: a binary with one section and two functions, before blocks    *)
(* are found in it, with a block, with an instruction in the block, and    *)
(* with two blocks of which the first has contents.  What is read from the *)
(* wrong place is nothing, a block, a section and a function where others  *)
(* are, or an instruction, a symbol and a reference.                       *)
(***************************************************************************)
EXTENDS Storage

Text(more, comma) == [first |-> "text", more |-> more, comma |-> comma]
MCTexts ==
    {Text(<< >>, "number"), Text(<<Blank, Line("id", 3)>>, "word")}

FileBytes ==
    <<"header", "a", "b", "zero", "nop", "c", "d", "e", "f", "g">>
Section(rva, at, size, executable) ==
    [NewSection EXCEPT !.rva = rva, !.virtualAddr = 10 + rva, !.fileOffset = at,
                       !.rawSize = size, !.executable = executable]
Sections ==
    CreateSection(CreateSection(EmptyBinary(10), Section(2, 1, 4, TRUE)), Section(8, 5, 4, TRUE))

MCFiles ==
    {[bin |-> Sections, bytes |-> FileBytes], [bin |-> Sections, bytes |-> SubSeq(FileBytes, 1, 7)]}
MCPatches == {<< >>, <<"x">>, <<"nop", "nop">>, <<"x", "x", "x">>}

MCFunction(start, type, blocks) ==
    [NewFunction EXCEPT !.start = start, !.end = start + 1, !.size = 1, !.type = type,
                        !.section = 1, !.blocks = blocks]
MCBlock(start, insns) ==
    [NewBlock EXCEPT !.start = start, !.end = start + 1, !.parent = 2, !.insns = insns]
MCInsn == [NewInstruction EXCEPT !.address = 5, !.length = 1]
Analyzed(blocks) ==
    FoldLeft(CreateFunction,
        CreateSection(EmptyBinary(4),
            [NewSection EXCEPT !.rva = 1, !.rawSize = 4, !.executable = TRUE]),
        <<MCFunction(5, "Standard", blocks), MCFunction(6, "Exported", blocks)>>)

MCBinaries ==
    {Analyzed(<< >>),
     CreateBlock(Analyzed(<<1>>), MCBlock(5, << >>)),
     CreateInstruction(CreateBlock(Analyzed(<<1>>), MCBlock(5, <<1>>)), MCInsn),
     CreateInstruction(
        CreateBlock(CreateBlock(Analyzed(<<1, 2>>), MCBlock(5, <<1>>)), MCBlock(6, << >>)),
        MCInsn)}
MCMisread ==
    {<< >>,
     <<Entity("BasicBlock", StoredBlock(MCBlock(1, <<2>>)))>>,
     <<Entity("Section", StoredSection([NewSection EXCEPT !.rva = 1])),
       Entity("Function", StoredFunction(MCFunction(5, "Exported", << >>)))>>,
     <<Entity("Instruction", StoredInstruction(MCInsn)), Entity("Symbol", NewSymbol),
       Entity("Type", << >>), Entity("XRef", NewXref)>>}
=============================================================================
