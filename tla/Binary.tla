------------------------------- MODULE Binary -------------------------------
(***************************************************************************)
(* ir::Binary, the container of what is known of a loaded file, as a       *)
(* record: the entities in the order of their creation, and the maps that  *)
(* find them by address or by name.                                        *)
(*                                                                         *)
(* The identifier of an entity is its place in its table, counted from 1   *)
(* (the code counts from 0 and has 0xFFFFFFFF for Invalid, here 0).  A     *)
(* binary has no operation that removes an entity, and none that moves     *)
(* one.  Of an Address only the offset is kept where the code reads only   *)
(* the offset, which is everywhere but in AddressSpaces.                   *)
(*                                                                         *)
(* A name is a sequence of letters, as searches are for the start of a     *)
(* name or for a part of it; a few letters make all the cases.             *)
(***************************************************************************)
EXTENDS Integers, Sequences, SequencesExt, FiniteSetsExt, TLC

Invalid == 0

EmptyBinary(base) ==
    [base |-> base,
     sections |-> << >>, functions |-> << >>, blocks |-> << >>, insns |-> << >>,
     symbols |-> << >>,
     sectionAt |-> << >>, functionAt |-> << >>, symbolAt |-> << >>, symbolNamed |-> << >>,
     xrefsTo |-> << >>, xrefsFrom |-> << >>]

-----------------------------------------------------------------------------
(* The entities, as they are constructed.  In "is" of an instruction are   *)
(* its three flags, of which a decoder sets at most one; "deps" of a       *)
(* function are the stages its identity depends on; "to" of an operand is  *)
(* the address, the displacement or the value, by its kind.                *)

NewOperand == [kind |-> "none", to |-> 0]

NewInstruction ==
    [address |-> 0, length |-> 0, is |-> "other", operands |-> << >>, parent |-> Invalid]

NewBlock ==
    [start |-> 0, end |-> 0, insns |-> << >>, succs |-> << >>, preds |-> << >>,
     parent |-> Invalid]

NewFunction ==
    [start |-> 0, end |-> 0, size |-> 0, type |-> "Standard",
     section |-> Invalid, blocks |-> << >>, entry |-> Invalid,
     callsIn |-> << >>, callsOut |-> << >>, deps |-> {}]

NewSection ==
    [fileOffset |-> 0, rawSize |-> 0, rva |-> 0, virtualAddr |-> 0, virtualSize |-> 0,
     writable |-> FALSE, executable |-> FALSE]

NewSymbol == [name |-> << >>, address |-> 0, type |-> "Unknown"]

NewXref == [type |-> "Call", from |-> 0, to |-> 0, target |-> Invalid]

(* get_section and the other five: a pointer, unless the table is shorter. *)
Has(table, id) == id \in DOMAIN table

-----------------------------------------------------------------------------
(* Creation.  A later entity at the same address takes its place in the    *)
(* map, and the earlier one is reachable by its identifier only.           *)

Bind(map, key, id) == [k \in {key} \cup DOMAIN map |-> IF k = key THEN id ELSE map[k]]

CreateSection(b, s) ==
    [b EXCEPT !.sections = Append(@, s),
              !.sectionAt = Bind(@, s.rva, Len(b.sections) + 1)]

CreateFunction(b, f) ==
    [b EXCEPT !.functions = Append(@, f),
              !.functionAt = Bind(@, f.start, Len(b.functions) + 1)]

(* Faulty variant: the first symbol at an address stays in the map.        *)
CreateSymbolKeepsFirst(b, s) ==
    [b EXCEPT !.symbols = Append(@, s),
              !.symbolAt = @ @@ (s.address :> Len(b.symbols) + 1),
              !.symbolNamed = IF s.name = << >> THEN @
                              ELSE Bind(@, s.name, Len(b.symbols) + 1)]

CreateSymbol(b, s) ==
    [b EXCEPT !.symbols = Append(@, s),
              !.symbolAt = Bind(@, s.address, Len(b.symbols) + 1),
              !.symbolNamed = IF s.name = << >> THEN @
                              ELSE Bind(@, s.name, Len(b.symbols) + 1)]

CreateBlock(b, block) == [b EXCEPT !.blocks = Append(@, block)]
CreateInstruction(b, insn) == [b EXCEPT !.insns = Append(@, insn)]

(* What a multimap holds for a key.                                        *)
Held(map, key) == IF key \in DOMAIN map THEN map[key] ELSE << >>
Push(map, keys, x) ==
    [k \in keys \cup DOMAIN map |-> IF k \in keys THEN Append(Held(map, k), x) ELSE map[k]]

(* A loop that lists: a member of the list has a set of keys, and goes     *)
(* behind what is there under each, in the order of the loop.              *)
PushAll(map, list, keys) ==
    LET after[n \in 0 .. Len(list)] ==
            IF n = 0 THEN map ELSE Push(after[n - 1], keys[n], list[n])
    IN  after[Len(list)]

To(xrefs) == [n \in 1 .. Len(xrefs) |-> {xrefs[n].to}]
From(xrefs) == [n \in 1 .. Len(xrefs) |-> {xrefs[n].from}]

(* register_xref for each: two maps, and neither is read for the other.    *)
RegisterXrefs(b, xrefs) ==
    [b EXCEPT !.xrefsTo = PushAll(@, xrefs, To(xrefs)),
              !.xrefsFrom = PushAll(@, xrefs, From(xrefs))]

(* What is in a set, of a list, in its order.                              *)
Kept(list, S) ==
    FlattenSeq([n \in 1 .. Len(list) |-> IF list[n] \in S THEN <<list[n]>> ELSE << >>])

-----------------------------------------------------------------------------
(* Lookup.  find_section_at, find_function_at and find_symbol_at know the  *)
(* first address of an entity only.                                        *)

FindAt(map, a) == IF a \in DOMAIN map THEN map[a] ELSE Invalid

Occurs(pattern, name) ==
    \E i, j \in 0 .. Len(name) : pattern = SubSeq(name, i + 1, j)

FindSymbolsByName(b, pattern) ==
    {id \in DOMAIN b.symbols : Occurs(pattern, b.symbols[id].name)}

FindFunctionsByName(b, pattern) ==
    {FindAt(b.functionAt, b.symbols[id].address) :
        id \in {i \in FindSymbolsByName(b, pattern) : b.symbols[i].type = "Function"}}
    \ {Invalid}

-----------------------------------------------------------------------------
(* Conversions, by the first section whose bytes in the file hold the      *)
(* address.                                                                *)

FirstSection(b, Holds) ==
    LET holding == {k \in DOMAIN b.sections : Holds[k]}
    IN  IF holding = {} THEN Invalid ELSE Min(holding)

FileToVirtual(b, at) ==
    LET k == FirstSection(b, [k \in DOMAIN b.sections |->
                 /\ b.sections[k].fileOffset <= at
                 /\ at < b.sections[k].fileOffset + b.sections[k].rawSize])
    IN  IF k = Invalid THEN {}
        ELSE {b.base + b.sections[k].rva + (at - b.sections[k].fileOffset)}

VirtualToFile(b, va) ==
    LET k == FirstSection(b, [k \in DOMAIN b.sections |->
                 /\ va >= b.base + b.sections[k].rva
                 /\ va < b.base + b.sections[k].rva + b.sections[k].rawSize])
    IN  IF k = Invalid THEN {}
        ELSE {b.sections[k].fileOffset + (va - b.base - b.sections[k].rva)}

=============================================================================
