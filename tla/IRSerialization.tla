-------------------------- MODULE IRSerialization ---------------------------
(***************************************************************************)
(* save_session and load_session: a Binary written to a file and read back *)
(* into a new one, with a crash of the program or a full disk at any point *)
(* of the writing.                                                         *)
(*                                                                         *)
(* A file is the sequence of what is written with one check: magic and     *)
(* version, the rest of the header, for each kind of entity a table mark   *)
(* with a count and the entities, and the footer.  An item cut short reads *)
(* like one that is not there, since every reader fails at the end of the  *)
(* file.  The identifiers that save_session writes behind a basic block    *)
(* with contents are an item of their own, a part of them too: load_session *)
(* never reads them, so that everything from the first such item on is     *)
(* read from the wrong place.  What that gives is left open: any entities  *)
(* of any kind, which are created like those that were saved, any tag and  *)
(* any count, and in the end success all the same, or an error.            *)
(*                                                                         *)
(* save_session reports success whether or not its writes succeed.  Of the *)
(* file size, written in the footer, the one thing that matters is its low *)
(* byte: load_session takes it for the tag of another table if it is one.  *)
(***************************************************************************)
EXTENDS Governance

CONSTANTS
    Binaries,       \* what an analysis may have produced
    LowBytes,       \* low bytes of the size of a file: 0 or a tag
    Misread         \* what may be read from the wrong place: lists of entities

Kinds == <<"Section", "Function", "BasicBlock", "Instruction", "Symbol", "Type", "XRef">>

(* A binary is made by create_section, create_function and their like      *)
(* alone: of the entities at an address the map has the one made last.     *)
SectionMap(sections) ==
    [a \in {s.rva : s \in ToSet(sections)} |->
        Max({n \in DOMAIN sections : sections[n].rva = a})]
FunctionMap(functions) ==
    [a \in {f.start : f \in ToSet(functions)} |->
        Max({n \in DOMAIN functions : functions[n].start = a})]

IsBinary(b) ==
    /\ DOMAIN b = DOMAIN EmptyBinary(0)
    /\ \A table \in {b.sections, b.functions, b.blocks, b.insns} : table \in Seq(ToSet(table))
    /\ b.sectionAt = SectionMap(b.sections) /\ b.functionAt = FunctionMap(b.functions)
    /\ \A f \in ToSet(b.functions) : f.blocks \in Seq(Nat)
    /\ \A k \in ToSet(b.blocks) : {k.insns, k.succs, k.preds} \subseteq Seq(Nat)

ASSUME BinariesAssumption ==
    (\A b \in Binaries : IsBinary(b)) /\ LowBytes \subseteq 0 .. Len(Kinds)

VARIABLES
    bin,            \* the binary of the program
    disk,           \* the session file
    todo,           \* what save_session has still to write; << >> outside of it
    full,           \* the disk is full
    written,        \* history: the binary the file was last opened for, or none
    finished,       \* history: all of it is in the file
    reported,       \* the result of the last save
    loaded          \* the result of the last load

sessionVars == <<bin, disk, todo, full, written, finished, reported, loaded>>

NoBinary == [none |-> TRUE]
NotLoaded == [result |-> "none"]

-----------------------------------------------------------------------------
(* What is written of an entity, as it is read back.                       *)

(* Not the flags.                                                          *)
StoredSection(s) ==
    [NewSection EXCEPT !.fileOffset = s.fileOffset, !.rva = s.rva, !.virtualAddr = s.virtualAddr,
                       !.virtualSize = s.virtualSize, !.rawSize = s.rawSize]

(* Faulty variant: the type of a function is not written.                  *)
StoredFunctionUntyped(f) ==
    [NewFunction EXCEPT !.start = f.start, !.end = f.end, !.size = f.size,
                        !.section = f.section]

(* One bit of the type; not the blocks, the references or the identity.    *)
StoredFunction(f) ==
    [NewFunction EXCEPT !.start = f.start, !.end = f.end, !.size = f.size,
                        !.section = f.section,
                        !.type = IF f.type = "Standard" THEN "Standard" ELSE "Thunk"]

(* Faulty variant: the counts are not written.                             *)
StoredBlockEmpty(k) == [NewBlock EXCEPT !.start = k.start, !.end = k.end, !.parent = k.parent]

(* The counts, and in place of each identifier the zeros of resize, which  *)
(* are the first instruction and the first block.                          *)
StoredBlock(k) ==
    LET zeros(ids) == [n \in DOMAIN ids |-> 1]
    IN  [NewBlock EXCEPT !.start = k.start, !.end = k.end, !.parent = k.parent,
                         !.insns = zeros(k.insns), !.succs = zeros(k.succs),
                         !.preds = zeros(k.preds)]

(* Not what it does, and not its operands but as a text.                   *)
StoredInstruction(i) ==
    [NewInstruction EXCEPT !.address = i.address, !.length = i.length, !.parent = i.parent]

Magic(version) == [item |-> "magic", version |-> version]
Meta == [item |-> "meta"]
Ids == [item |-> "ids"]
Table(kind, count) == [item |-> "table", kind |-> kind, count |-> count]
Entity(kind, entity) == [item |-> "entity", kind |-> kind, entity |-> entity]
Footer(low) == [item |-> "footer", low |-> low]

(* By traversal: a block of two functions is written twice, and one that   *)
(* is not there is passed over.                                            *)
BlocksOf(b, f) ==
    FlattenSeq([k \in DOMAIN f.blocks |->
        IF Has(b.blocks, f.blocks[k]) THEN <<b.blocks[f.blocks[k]]>> ELSE << >>])
BlocksWritten(b) == FlattenSeq([n \in DOMAIN b.functions |-> BlocksOf(b, b.functions[n])])
InsnsOf(b, k) ==
    FlattenSeq([n \in DOMAIN k.insns |->
        IF Has(b.insns, k.insns[n]) THEN <<b.insns[k.insns[n]]>> ELSE << >>])
InsnsWritten(b) ==
    FlattenSeq([n \in DOMAIN BlocksWritten(b) |-> InsnsOf(b, BlocksWritten(b)[n])])

Contents(k) == k.insns \o k.succs \o k.preds
BlockItems(k) ==
    <<Entity("BasicBlock", StoredBlock(k))>>
        \o IF Contents(k) = << >> THEN << >> ELSE <<Ids>>

StoredSections(b) == [n \in DOMAIN b.sections |-> StoredSection(b.sections[n])]
StoredFunctions(b) == [n \in DOMAIN b.functions |-> StoredFunction(b.functions[n])]

Entities(kind, stored) ==
    <<Table(kind, Len(stored))>> \o [n \in DOMAIN stored |-> Entity(kind, stored[n])]

Items(b, low) ==
    LET blocks == BlocksWritten(b)
        insns == InsnsWritten(b)
    IN  <<Magic(1), Meta>>
        \o Entities("Section", StoredSections(b))
        \o Entities("Function", StoredFunctions(b))
        \o <<Table("BasicBlock", Len(blocks))>>
        \o FlattenSeq([n \in DOMAIN blocks |-> BlockItems(blocks[n])])
        \o Entities("Instruction", [n \in DOMAIN insns |-> StoredInstruction(insns[n])])
        \o <<Table("Symbol", 0), Table("Type", 0), Table("XRef", 0), Footer(low)>>

-----------------------------------------------------------------------------
(* load_session.                                                           *)

Add(b, item) ==
    CASE item.kind = "Section" -> CreateSection(b, item.entity)
      [] item.kind = "Function" -> CreateFunction(b, item.entity)
      [] item.kind = "BasicBlock" -> CreateBlock(b, item.entity)
      [] item.kind = "Instruction" -> CreateInstruction(b, item.entity)
      [] item.kind = "Symbol" -> CreateSymbol(b, item.entity)
      [] item.kind = "XRef" -> RegisterXrefs(b, <<item.entity>>)
      [] item.kind = "Type" -> b        \* the record has no types

(* A list of entities, in the form in which each kind is read.             *)
IsMisread(items) ==
    /\ items \in Seq(ToSet(items))
    /\ \A i \in ToSet(items) :
         /\ i.item = "entity" /\ i.kind \in ToSet(Kinds)
         /\ i.kind = "Section" => i.entity = StoredSection(i.entity)
         /\ i.kind = "Function" => i.entity = StoredFunction(i.entity)
         /\ i.kind = "BasicBlock" =>
              /\ i.entity = StoredBlock(i.entity)
              /\ {i.entity.insns, i.entity.succs, i.entity.preds} \subseteq Seq(Nat)

ASSUME MisreadAssumption == \A items \in Misread : IsMisread(items)

(* What is read from its place: all, or up to the first identifiers.       *)
Aligned(file) ==
    LET ids == {n \in DOMAIN file : file[n] = Ids}
    IN  IF ids = {} THEN file ELSE SubSeq(file, 1, Min(ids) - 1)

(* The new binary has neither the path nor the image base of the old one.  *)
(* Whatever is read, from its place or not, is created behind the rest.    *)
Taken(b, item) == IF item.item = "entity" THEN Add(b, item) ELSE b
Reading(b, items) ==
    LET upTo[n \in 0 .. Len(items)] == IF n = 0 THEN b ELSE Taken(upTo[n - 1], items[n])
    IN  upTo[Len(items)]
Read(file) == Reading(EmptyBinary(0), Aligned(file))

(* The counts reported are those of the table marks, or of the footer when *)
(* it is taken for one.                                                    *)
Counts(file) ==
    [kind \in ToSet(Kinds) |->
        IF \E i \in ToSet(file) : i.item = "footer" /\ i.low > 0 /\ Kinds[i.low] = kind
        THEN {}     \* the size of the file, shifted
        ELSE {i.count : i \in {j \in ToSet(Aligned(file)) : j.item = "table" /\ j.kind = kind}}]

(* verify_session_file: no checksum is computed.                           *)
Verify(file) == file # << >> /\ file[1].item = "magic" /\ file[1].version = 1

(* get_session_info: of any version, and of the first table alone.         *)
SessionInfo(file) ==
    {[version |-> i.version,
      entities |-> IF Len(file) > 2 THEN file[3].count ELSE 0] :
        i \in {j \in {file[n] : n \in {1} \cap DOMAIN file} : j.item = "magic"}}

(* load_session: the possible results.  An error leaves no binary.         *)
Success(binary, garbled, counts) ==
    [result |-> "success", binary |-> binary, garbled |-> garbled, counts |-> counts]
Loads(file) ==
    IF ~Verify(file) THEN {[result |-> "bad header"]}
    ELSE IF Aligned(file) = file THEN {Success(Read(file), FALSE, Counts(file))}
    ELSE {Success(Reading(Read(file), items), TRUE, [kind \in ToSet(Kinds) |-> {}]) :
             items \in Misread}
         \cup {[result |-> "unknown entity type"], [result |-> "exception"]}

-----------------------------------------------------------------------------

(* Files that no save has written: none, or of a later version, or other.  *)
Foreign == {<< >>, <<Magic(2), Meta>>, <<Meta>>}

SessionInit ==
    /\ bin = EmptyBinary(0)
    /\ disk = << >>
    /\ todo = << >>
    /\ full = FALSE
    /\ written = NoBinary
    /\ finished = FALSE
    /\ reported = "none"
    /\ loaded = NotLoaded

(* The analysis goes on, or the program opens another file.                *)
Analyze(b) ==
    /\ todo = << >>
    /\ bin' = b
    /\ loaded' = NotLoaded
    /\ UNCHANGED <<disk, todo, full, written, finished, reported>>

(* The user goes on with another file.                                     *)
SelectFile ==
    /\ todo = << >>
    /\ disk' \in Foreign
    /\ written' = NoBinary
    /\ finished' = FALSE
    /\ loaded' = NotLoaded
    /\ UNCHANGED <<bin, todo, full, reported>>

(* fopen for writing empties the file.                                     *)
SaveOpen(low) ==
    /\ todo = << >>
    /\ todo' = Items(bin, low)
    /\ disk' = << >>
    /\ written' = bin
    /\ finished' = FALSE
    /\ reported' = "none"
    /\ loaded' = NotLoaded
    /\ UNCHANGED <<bin, full>>

SaveCannotOpen ==
    /\ todo = << >>
    /\ reported' = "not opened"
    /\ UNCHANGED <<bin, disk, todo, full, written, finished, loaded>>

(* One item; its result is not looked at.                                  *)
SaveWrite ==
    /\ todo # << >>
    /\ todo' = Tail(todo)
    /\ disk' = IF full THEN disk ELSE Append(disk, Head(todo))
    /\ finished' = (~full /\ Tail(todo) = << >>)
    /\ reported' = IF Tail(todo) = << >> THEN "success" ELSE "none"
    /\ UNCHANGED <<bin, full, written, loaded>>

(* The disk fills up, or is given space between two saves.                 *)
DiskFills == todo # << >> /\ full' = TRUE
    /\ UNCHANGED <<bin, disk, todo, written, finished, reported, loaded>>
DiskFreed == todo = << >> /\ full' = FALSE
    /\ UNCHANGED <<bin, disk, todo, written, finished, reported, loaded>>

(* What stdio had in its buffer is lost.                                   *)
CrashInSession ==
    /\ todo # << >>
    /\ \E n \in 0 .. Len(disk) : disk' = SubSeq(disk, 1, n)
    /\ todo' = << >>
    /\ UNCHANGED <<bin, full, written, finished, reported, loaded>>

(* The program takes the binary of a load that reports success, garbled or *)
(* not.                                                                    *)
SessionLoad ==
    /\ todo = << >>
    /\ loaded' \in Loads(disk)
    /\ bin' = IF loaded'.result = "success" THEN loaded'.binary ELSE bin
    /\ UNCHANGED <<disk, todo, full, written, finished, reported>>

SessionNext ==
    \/ \E b \in Binaries : Analyze(b)
    \/ \E low \in LowBytes : SaveOpen(low)
    \/ SelectFile \/ SaveCannotOpen \/ SaveWrite \/ SessionLoad
    \/ DiskFills \/ DiskFreed \/ CrashInSession

-----------------------------------------------------------------------------
(* Inductive: the file is one of those that were there, or the first items *)
(* of the binary it was last opened for, of which the others are still to  *)
(* be written unless the disk was full.                                    *)
SessionInv ==
    /\ IsBinary(bin)
    /\ todo # << >> => ~finished
    /\ written = NoBinary =>
         disk \in Foreign /\ todo = << >> /\ ~finished
    /\ written # NoBinary =>
         /\ IsBinary(written)
         /\ \E low \in LowBytes : LET items == Items(written, low) IN
              \E n \in 0 .. Len(items) :
                /\ disk = SubSeq(items, 1, n)
                /\ todo # << >> /\ ~full => todo = SubSeq(items, n + 1, Len(items))
                /\ finished => n = Len(items)

(* Wherever a crash or a full disk has cut the file, a load that reports   *)
(* success has the first sections, functions and blocks of the binary that *)
(* was saved, each in its place, and all sections and functions once it    *)
(* has a block.  Behind the first block with contents, whose identifiers   *)
(* are taken for another block, the rest of the file is read from the      *)
(* wrong place and may become anything, and the load may still report      *)
(* success: then there are entities that nobody saved, and the map may     *)
(* have one of them for the address of a saved one; but the saved sections *)
(* and functions, and the blocks up to that one, keep their identifiers,   *)
(* and the others come behind them.                                        *)
SavedKeepTheirPlace ==
    written # NoBinary /\ todo = << >> => \A l \in Loads(disk) : l.result = "success" =>
        LET sections == StoredSections(written)
            functions == StoredFunctions(written)
            blocks == BlocksWritten(written)
            HasAll == IsPrefix(sections, l.binary.sections) /\ IsPrefix(functions, l.binary.functions)
            filled == {k \in DOMAIN blocks : Contents(blocks[k]) # << >>}
            known == 1 .. IF l.garbled THEN Min(filled) ELSE Len(l.binary.blocks)
        IN  /\ ~l.garbled => /\ IsPrefix(l.binary.sections, sections)
                             /\ IsPrefix(l.binary.functions, functions)
            /\ l.garbled \/ l.binary.blocks # << >> => HasAll
            /\ \A k \in known :
                 /\ l.binary.blocks[k].start = blocks[k].start
                 /\ Len(l.binary.blocks[k].insns) = Len(blocks[k].insns)

(* A file that was written whole gives back every section and function,    *)
(* standard functions as standard ones, whenever a load reports success,   *)
(* and the info on it counts its sections.  If no block has contents they  *)
(* are also found at the addresses where they were, no entity refers to    *)
(* one that is not there unless one did before, and the counts reported    *)
(* are right, unless the low byte of the file's size is the tag of a kind  *)
(* of entity.                                                              *)
WholeSessionComesBack ==
    finished /\ todo = << >> =>
        /\ SessionInfo(disk) = {[version |-> 1, entities |-> Len(written.sections)]}
        /\ \A l \in Loads(disk) : l.result = "success" =>
             /\ \A s \in DOMAIN written.sections :
                  l.binary.sections[s].rva = written.sections[s].rva
             /\ \A f \in DOMAIN written.functions :
                  /\ l.binary.functions[f].start = written.functions[f].start
                  /\ l.binary.functions[f].type = "Standard"
                       <=> written.functions[f].type = "Standard"
             /\ ~l.garbled =>
                  /\ l.binary.functionAt = written.functionAt
                  /\ l.binary.sectionAt = written.sectionAt
                  /\ ValidBinary(written) => ValidBinary(l.binary)
                  /\ disk[Len(disk)].low = 0 =>
                       /\ l.counts["Function"] = {Len(written.functions)}
                       /\ l.counts["BasicBlock"] = {Len(l.binary.blocks)}

=============================================================================
