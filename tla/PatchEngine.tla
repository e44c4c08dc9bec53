---------------------------- MODULE PatchEngine -----------------------------
(***************************************************************************)
(* The patch engine: patches of a file by virtual address, with a history  *)
(* that can be undone, and the search for code caves.                      *)
(*                                                                         *)
(* apply_to_file and restore_from_file report success and change nothing:  *)
(* the bytes of the file never change, and the original bytes that a patch *)
(* records are those of the unpatched file also where an earlier patch     *)
(* lies.  Two numbers of the code, the length of a jump and the shortest   *)
(* cave it looks for, are constants here.                                  *)
(***************************************************************************)
EXTENDS Binary

CONSTANTS
    Files,          \* [bin: a Binary, bytes: the bytes of its file]
    JumpLength,     \* 5
    MinCave,        \* 16
    Patches,        \* bytes a user writes: sequences
    MaxPatches      \* bound on the patches made

AnySection ==
    [fileOffset : Nat, rawSize : Nat, rva : Nat, virtualAddr : Nat, virtualSize : Nat,
     writable : BOOLEAN, executable : BOOLEAN]

ASSUME PatchAssumption ==
    /\ \A file \in Files :
          /\ file.bin.base \in Nat /\ file.bin.sections \in Seq(AnySection)
          /\ file.bytes \in Seq(STRING)
    /\ Patches \subseteq Seq(STRING) /\ JumpLength \in Nat

VARIABLES
    target,         \* the file opened, and what is known of it
    history,        \* history_
    undone,         \* undo_stack_
    made            \* number of patches made

patchVars == <<target, history, undone, made>>

Nothing == [bin |-> EmptyBinary(0), bytes |-> << >>]

Nullable == {"zero", "nop", "int3"}

(* find_code_caves: the runs of such bytes, up to the end of the section,  *)
(* as addresses and lengths.  A section that the file ends in is skipped.  *)
Caves(t) ==
    UNION {LET s == t.bin.sections[k]
               IsNull == [i \in 0 .. s.rawSize - 1 |-> t.bytes[s.fileOffset + i + 1] \in Nullable]
           IN  {<<s.virtualAddr + r[1], r[2] - r[1]>> : r \in
                  {p \in (0 .. s.rawSize) \X (0 .. s.rawSize) :
                      /\ p[2] - p[1] >= MinCave
                      /\ \A n \in p[1] .. p[2] - 1 : IsNull[n]
                      /\ p[1] = 0 \/ ~IsNull[p[1] - 1]
                      /\ p[2] = s.rawSize \/ ~IsNull[p[2]]}}
        : k \in {n \in DOMAIN t.bin.sections :
                    /\ t.bin.sections[n].executable
                    /\ t.bin.sections[n].fileOffset + t.bin.sections[n].rawSize <= Len(t.bytes)}}

(* The address has a place in the file, and the bytes end in the file,     *)
(* though not always in the section.                                       *)
Accepts(t, address, bytes) ==
    \E offset \in VirtualToFile(t.bin, address) : offset + Len(bytes) <= Len(t.bytes)

(* Faulty variant: the original bytes are read at the address.             *)
OriginalAtAddress(t, address, n) ==
    [i \in 1 .. n |-> IF address + i \in DOMAIN t.bytes THEN t.bytes[address + i] ELSE "zero"]

Original(t, address, n) ==
    LET offset == CHOOSE o \in VirtualToFile(t.bin, address) : TRUE
    IN  [i \in 1 .. n |-> t.bytes[offset + i]]

(* patch_bytes, and insert_nop, which calls it with that many 0x90.        *)
PatchBytes(address, bytes) ==
    /\ made < MaxPatches
    /\ Accepts(target, address, bytes)
    /\ history' = Append(history, [address |-> address, new |-> bytes,
                                   original |-> Original(target, address, Len(bytes))])
    /\ made' = made + 1
    /\ UNCHANGED <<target, undone>>

Jump == [i \in 1 .. JumpLength |-> "jmp"]

(* With preserve_original a cave must be there; nothing is put in it.      *)
CreateJumpHook(address, preserve) ==
    /\ preserve => Caves(target) # {}
    /\ PatchBytes(address, Jump)

(* An engine for another file.                                             *)
Open(file) ==
    /\ target' = file
    /\ history' = << >> /\ undone' = << >>
    /\ UNCHANGED made

(* A patch that is undone goes from the one stack to the other.            *)
UndoLast ==
    /\ IF history = << >> THEN UNCHANGED <<history, undone>>
       ELSE /\ undone' = Append(undone, Last(history))
            /\ history' = Front(history)
    /\ UNCHANGED <<target, made>>

UndoAll ==
    /\ undone' = undone \o Reverse(history)
    /\ history' = << >>
    /\ UNCHANGED <<target, made>>

-----------------------------------------------------------------------------

Addresses ==
    UNION {{t.bin.base + a : a \in 0 .. Len(t.bytes) + t.bin.base} : t \in {target}}

PatchInit ==
    /\ target = Nothing
    /\ history = << >> /\ undone = << >> /\ made = 0

PatchNext ==
    \/ \E address \in Addresses : \E bytes \in Patches : PatchBytes(address, bytes)
    \/ \E address \in Addresses, preserve \in BOOLEAN : CreateJumpHook(address, preserve)
    \/ UndoLast \/ UndoAll
    \/ \E file \in Files : Open(file)

-----------------------------------------------------------------------------
PatchType ==
    /\ target \in Files \cup {Nothing}
    /\ history \in Seq([address : Nat, new : Patches \cup {Jump}, original : Seq(STRING)])

(* A patch of the history had a place in the file that is open.            *)
PatchInv ==
    \A n \in DOMAIN history :
        /\ VirtualToFile(target.bin, history[n].address) # {}
        /\ history[n].original = Original(target, history[n].address, Len(history[n].original))

(* Whatever was patched and undone before, the original bytes that a patch *)
(* of the history records are those of the file at each of its addresses,  *)
(* as far as the section it begins in goes: undoing it puts back what was  *)
(* there.  (Behind the end of the section the bytes are those that follow  *)
(* in the file, which are loaded elsewhere.)                               *)
OriginalsAreAtTheirAddress ==
    \A n \in DOMAIN history : \A i \in DOMAIN history[n].original :
        LET op == history[n]
            section(a) == {k \in DOMAIN target.bin.sections :
                LET s == target.bin.sections[k]
                IN  target.bin.base + s.rva <= a /\ a < target.bin.base + s.rva + s.rawSize}
        IN  section(op.address) = section(op.address + i - 1) =>
                \A o \in VirtualToFile(target.bin, op.address + i - 1) :
                    op.original[i] = target.bytes[o + 1]

=============================================================================
