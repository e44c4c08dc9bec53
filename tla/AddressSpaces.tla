--------------------------- MODULE AddressSpaces ----------------------------
(***************************************************************************)
(* Addresses in a file, in a section, relative to an image, in the image   *)
(* at its preferred base and at the base it has at run time, and the       *)
(* translation between them, by a copy of the sections that is made once.  *)
(*                                                                         *)
(* An address is [space, offset, section], with section 0 outside of the   *)
(* section space.  A translation gives a set: of one address, or none.     *)
(***************************************************************************)
EXTENDS Binary

CONSTANTS
    Images,         \* [base, sections, fileSize]
    Bases,          \* run-time bases
    Width           \* 2^64

Offsets == 0 .. Width - 1

(* What the fields hold; a virtual address is "Image base + RVA" (ir.h).   *)
IsImage(i) ==
    /\ i.base \in Offsets /\ i.fileSize \in Nat
    /\ i.sections \in Seq(Range(i.sections))
    /\ \A s \in Range(i.sections) :
         /\ s.fileOffset \in Offsets /\ s.rawSize \in Offsets
         /\ s.rva \in Offsets /\ s.virtualSize \in Offsets
         /\ s.virtualAddr = i.base + s.rva

ASSUME ImagesAssumption ==
    /\ Width \in Nat \ {0} /\ Bases \subseteq Offsets
    /\ \A i \in Images : IsImage(i)

VARIABLES
    image,          \* the binary that is loaded
    runtime,        \* runtime_base_
    translating     \* the binary the translation was initialised with

addressVars == <<image, runtime, translating>>

Spaces == {"File", "Section", "RVA", "Image", "Runtime"}
At(space, offset) == [space |-> space, offset |-> offset, section |-> 0]

Sections == translating.sections

(* The first of the sections that pass a test, if any does.                *)
FirstOf(passing) == IF passing = {} THEN {} ELSE {Min(passing)}

FileToRva(at) ==
    {Sections[k].rva + (at - Sections[k].fileOffset) :
        k \in FirstOf({n \in DOMAIN Sections :
                        /\ at >= Sections[n].fileOffset
                        /\ at < Sections[n].fileOffset + Sections[n].rawSize})}

(* Faulty variant: a byte that a section has in memory only is in the file. *)
RvaToFileInMemory(rva) ==
    {Sections[k].fileOffset + (rva - Sections[k].rva) :
        k \in FirstOf({n \in DOMAIN Sections :
                        /\ rva >= Sections[n].rva
                        /\ rva < Sections[n].rva + Sections[n].virtualSize})}

(* As far as a section goes in the file.                                   *)
RvaToFile(rva) ==
    {Sections[k].fileOffset + (rva - Sections[k].rva) :
        k \in FirstOf({n \in DOMAIN Sections :
                        /\ rva >= Sections[n].rva
                        /\ rva < Sections[n].rva + Sections[n].rawSize})}

(* As far as a section goes in memory.                                     *)
SectionOf(rva) ==
    FirstOf({k \in DOMAIN Sections :
             /\ rva >= Sections[k].rva
             /\ rva < Sections[k].rva + Sections[k].virtualSize})

(* Faulty variant: the base at run time is taken for the preferred one.    *)
ToRvaNotRebased(a) ==
    CASE a.space = "File" -> FileToRva(a.offset)
      [] a.space = "RVA" -> {a.offset}
      [] a.space \in {"Image", "Runtime"} -> {(a.offset - translating.base) % Width}
      [] a.space = "Section" ->
            {Sections[k].rva + a.offset : k \in {n \in DOMAIN Sections :
                n = a.section /\ a.offset < Sections[n].virtualSize}}

(* An address below the base wraps around.                                 *)
ToRva(a) ==
    CASE a.space = "File" -> FileToRva(a.offset)
      [] a.space = "RVA" -> {a.offset}
      [] a.space = "Image" -> {(a.offset - translating.base) % Width}
      [] a.space = "Runtime" -> {(a.offset - runtime) % Width}
      [] a.space = "Section" ->
            {Sections[k].rva + a.offset : k \in {n \in DOMAIN Sections :
                n = a.section /\ a.offset < Sections[n].virtualSize}}

(* A relative address has a place in the file when, taken for an offset in *)
(* the file, it is in a section: the test asks the other translation.      *)
GuardOfFile(rva) == FileToRva(rva) # {}

(* value() of nothing.                                                     *)
Throws(a, space) ==
    /\ a.space # space /\ space = "File"
    /\ \E rva \in ToRva(a) : GuardOfFile(rva) /\ RvaToFile(rva) = {}

FromRva(rva, space) ==
    CASE space = "RVA" -> {At("RVA", rva)}
      [] space = "Image" -> {At("Image", (translating.base + rva) % Width)}
      [] space = "Runtime" -> {At("Runtime", (runtime + rva) % Width)}
      [] space = "File" ->
            IF GuardOfFile(rva) THEN {At("File", o) : o \in RvaToFile(rva)} ELSE {}
      [] space = "Section" ->
            {[space |-> "Section", offset |-> rva - Sections[k].rva, section |-> k] :
                k \in SectionOf(rva)}

Translate(a, space) ==
    IF a.space = space THEN {a} ELSE UNION {FromRva(rva, space) : rva \in ToRva(a)}

(* Ways between two spaces that do not go by translate.                    *)
FileToImage(at) == {translating.base + rva : rva \in FileToRva(at)}
ImageToFile(va) ==
    IF va < translating.base THEN {} ELSE RvaToFile(va - translating.base)
ImageToRuntime(va) == (va - translating.base + runtime) % Width
RuntimeToImage(va) ==
    IF va < runtime THEN {} ELSE {(va - runtime + translating.base) % Width}

(* BaseAddressModel: the same by a difference that has a sign.             *)
RebaseDelta == runtime - translating.base
ApplyRebase(va) == (va + RebaseDelta) % Width
RemoveRebase(va) == (va - RebaseDelta) % Width

(* SegmentMapping: one section by itself, which ends where its memory does *)
(* and has nothing in the file behind its raw size.                        *)
SegmentFileToRva(k, at) ==
    {Sections[k].rva + (at - Sections[k].fileOffset) :
        x \in {y \in {at} : /\ y >= Sections[k].fileOffset
                            /\ y < Sections[k].fileOffset + Sections[k].rawSize}}
SegmentRvaToFile(k, rva) ==
    {Sections[k].fileOffset + (rva - Sections[k].rva) :
        x \in {y \in {rva} :
                 /\ y >= Sections[k].rva
                 /\ y < Sections[k].rva + Min({Sections[k].virtualSize, Sections[k].rawSize})}}

(* PEMemoryModel::read_into: the places in the file of what is read, which *)
(* may go on behind the end of the section.                                *)
ReadInto(a, n) ==
    UNION {{f.offset + i : i \in 0 .. Min({n, image.fileSize - f.offset}) - 1} :
        f \in {x \in Translate(a, "File") : x.offset < image.fileSize}}

-----------------------------------------------------------------------------
(* PEMemoryModel, which asks the binary for the permissions of a section   *)
(* that the translation found, FirmwareMemoryModel, and AddressRange.      *)

(* An address in a section names it, whether there is one or not.          *)
SectionContaining(a) ==
    IF a.space = "Section" THEN {a.section} ELSE UNION {SectionOf(rva) : rva \in ToRva(a)}

IsReadable(a) == SectionContaining(a) # {}
IsWritable(a) ==
    \E k \in SectionContaining(a) : Has(image.sections, k) /\ image.sections[k].writable
IsExecutable(a) ==
    \E k \in SectionContaining(a) : Has(image.sections, k) /\ image.sections[k].executable

(* The size of the file is where its last section ends.                    *)
IsValidFileOffset(at) ==
    \E k \in DOMAIN Sections : at < Sections[k].fileOffset + Sections[k].rawSize
IsValidRva(rva) == SectionOf(rva) # {}
IsValidImageVa(va) == IsValidRva((va - translating.base) % Width)

(* A flat file: the offset of an address is its place, unless it is        *)
(* relative to an image; the section and the base are not looked at.       *)
FirmwareReadInto(a, n) ==
    IF a.space \in {"Image", "RVA"} \/ a.offset >= image.fileSize THEN {}
    ELSE {a.offset + i : i \in 0 .. Min({n, image.fileSize - a.offset}) - 1}

(* from_section: the number of the legacy space, 3 for virtual addresses,  *)
(* is the number of relative ones here, so that these are virtual          *)
(* addresses in the space of relative ones.                                *)
SectionRange(s) ==
    [space |-> "RVA", start |-> s.virtualAddr, end |-> s.virtualAddr + s.virtualSize]

Holds(r, a) == a.space = r.space /\ a.offset >= r.start /\ a.offset < r.end
Intersects(r, s) == r.space = s.space /\ r.start < s.end /\ r.end > s.start
Intersection(r, s) ==
    {[space |-> x.space, start |-> Max({x.start, s.start}), end |-> Min({x.end, s.end})] :
        x \in {y \in {r} : Intersects(y, s)}}
RangeSize(r) == IF r.end > r.start THEN r.end - r.start ELSE 0

-----------------------------------------------------------------------------

NoImage == [base |-> 0, sections |-> << >>, fileSize |-> 0]

AddressInit == image = NoImage /\ translating = NoImage /\ runtime = 0

(* Another binary, or more sections: the translation does not know yet.    *)
LoadImage(other) ==
    /\ image' = other
    /\ UNCHANGED <<runtime, translating>>

(* The base at run time is again the preferred one.                        *)
Initialize ==
    /\ translating' = image
    /\ runtime' = image.base
    /\ UNCHANGED image

SetRuntimeBase(base) ==
    /\ runtime' = base
    /\ UNCHANGED <<image, translating>>

AddressTypes == IsImage(image) /\ IsImage(translating) /\ runtime \in Offsets

AddressNext ==
    \/ \E other \in Images : LoadImage(other)
    \/ Initialize
    \/ \E base \in Bases : SetRuntimeBase(base)

-----------------------------------------------------------------------------

AllAddresses ==
    {At(space, o) : space \in Spaces \ {"Section"}, o \in Offsets}
    \cup [space : {"Section"}, offset : Offsets, section : DOMAIN Sections]

(* Nothing makes sure of either: that the sections of an image end within  *)
(* the width, and that no two share a byte in the file or in memory.       *)
Fits(i) ==
    \A s \in Range(i.sections) :
        /\ s.fileOffset + s.rawSize <= Width
        /\ i.base + s.rva + s.rawSize <= Width /\ i.base + s.rva + s.virtualSize <= Width

Beside(start, size, other, otherSize) == start + size <= other \/ other + otherSize <= start
Apart(i) ==
    \A k, n \in DOMAIN i.sections : k # n =>
        LET s == i.sections[k]
            t == i.sections[n]
        IN  /\ Beside(s.fileOffset, s.rawSize, t.fileOffset, t.rawSize)
            /\ Beside(s.rva, s.rawSize, t.rva, t.rawSize)
            /\ Beside(s.rva, s.virtualSize, t.rva, t.virtualSize)

(* Wherever the image is rebased to, and whichever binary has been loaded  *)
(* since: a translation that gives an address gives one that is translated *)
(* back to where it came from, if at all, and a byte that is read by the   *)
(* one address is not another than the byte read by the other.             *)
TranslationsInvert ==
    Fits(translating) /\ Apart(translating) => \A a \in AllAddresses, space \in Spaces :
        \A b \in Translate(a, space) :
            /\ Translate(b, a.space) \subseteq {a}
            /\ \A i \in ReadInto(a, 1), j \in ReadInto(b, 1) : i = j

(* The other ways between the spaces, of the translation, of the model of  *)
(* the base, of a segment by itself and of the binary, agree: two that     *)
(* give an address give the same, and what the binary says of file and     *)
(* image holds for a translation that was initialised with it.             *)
ModelsAgree ==
    Fits(translating) => \A a \in Offsets :
        /\ {At("Runtime", ImageToRuntime(a))} = Translate(At("Image", a), "Runtime")
        /\ ImageToRuntime(a) = ApplyRebase(a)
        /\ {At("Image", x) : x \in RuntimeToImage(a)}
               \subseteq Translate(At("Runtime", a), "Image") \cap {At("Image", RemoveRebase(a))}
        /\ {x.offset : x \in Translate(At("Image", a), "File")} \subseteq ImageToFile(a)
        /\ {x.offset : x \in Translate(At("File", a), "Image")} = FileToImage(a)
        /\ FileToRva(a) \subseteq UNION {SegmentFileToRva(k, a) : k \in DOMAIN Sections}
        /\ Apart(translating) =>
             /\ UNION {SegmentFileToRva(k, a) : k \in DOMAIN Sections} \subseteq FileToRva(a)
             /\ UNION {SegmentRvaToFile(k, a) : k \in DOMAIN Sections} \subseteq RvaToFile(a)
        /\ translating = image =>
              FileToImage(a) = FileToVirtual(image, a) /\ ImageToFile(a) = VirtualToFile(image, a)

(* What can be read lies in the file, and in a section, unless the file    *)
(* has more of the section than its memory; the two kinds of memory read   *)
(* the same bytes at a place in the file; and ranges are sets of           *)
(* addresses: the range of a section of an image at base 0 holds what the  *)
(* translation finds in the section, and an intersection what both hold.   *)
RangesAgree ==
    translating = image /\ Fits(image) =>
        /\ \A a \in AllAddresses :
             /\ IsWritable(a) \/ IsExecutable(a) => IsReadable(a)
             /\ a.space = "Image" => (IsReadable(a) <=> IsValidImageVa(a.offset))
             /\ IF a.space = "File" THEN ReadInto(a, 2) = FirmwareReadInto(a, 2)
                ELSE \A f \in Translate(a, "File") : IsValidFileOffset(f.offset) /\
                        (IsReadable(a) \/ \E k \in DOMAIN Sections :
                                             Sections[k].rawSize > Sections[k].virtualSize)
        /\ \A k \in DOMAIN Sections, start, end \in Offsets :
             LET section == SectionRange(Sections[k])
                 other == [space |-> "RVA", start |-> start, end |-> end]
                 In(r) == {o \in Offsets : Holds(r, At("RVA", o))}
                 both == Intersection(section, other)
             IN  /\ In(section) \cap In(other) = UNION {In(r) : r \in both}
                 /\ \A r \in both : RangeSize(r) = Cardinality(In(section) \cap In(other))
                 /\ RangeSize(other) = Cardinality(In(other))
                 /\ translating.base = 0 =>
                      /\ {o \in Offsets : k \in SectionOf(o)} \subseteq In(section)
                      /\ Apart(image) => In(section) \subseteq {o \in Offsets : k \in SectionOf(o)}

(* All of them: an address has one meaning, whoever is asked, once a       *)
(* translation was initialised with an image.                              *)
AddressesAgree == translating # NoImage => TranslationsInvert /\ ModelsAgree /\ RangesAgree

(* address_space.h, of translate: "returns nullopt if not translatable".   *)
TranslateReturns == \A a \in AllAddresses, space \in Spaces : ~Throws(a, space)

=============================================================================
