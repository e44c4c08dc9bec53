-------------------------- MODULE DisassemblyCache --------------------------
(***************************************************************************)
(* The disassembly cache, a directory with a file for each block, and the  *)
(* disassembler that asks it first.  Several processes share the           *)
(* directory; neither get_block nor put_block takes a lock, and a process  *)
(* may crash at any point.                                                 *)
(*                                                                         *)
(* The content of a file is a sequence of cells: the header, a cell for    *)
(* each byte of the block, two for the count of the instructions, its low  *)
(* and its high bytes, and two for each instruction.  A file can end at    *)
(* any byte, and the border between the two cells of an instruction is any *)
(* place within it: in its address, its length, its mnemonic or its        *)
(* operands.  A block is known by the number of its bytes, which here is   *)
(* the number of its instructions too: an analysis of the same file finds  *)
(* the same bytes at the same address, and may ask for more or fewer of    *)
(* them.                                                                   *)
(*                                                                         *)
(* remove fails on a file that is open, as it does on Windows, and then    *)
(* throws.  open and close set a flag that only the disassembler reads, to *)
(* create the directory.                                                   *)
(***************************************************************************)
EXTENDS Integers, Sequences, SequencesExt, FiniteSetsExt, TLC

CONSTANTS
    Processes,
    Keys,           \* file hash and address: the name of an entry
    FileOf,         \* [Keys -> file hash]
    Sizes,          \* sizes of the blocks asked for
    Low,            \* [Sizes -> what the low bytes of the size as a count are worth]
    MaxPuts         \* bound on the calls of put_block

VARIABLES
    directory,      \* the directory exists
    entry,          \* [Keys -> cells], no entry is None
    doing,          \* [Processes -> what the process is in the middle of]
    result,         \* what the last step has returned to its caller, if it has
    puts,           \* number of calls of put_block
    writers,        \* history: [Keys -> who has opened the entry since it was whole or removed]
    whole,          \* history: [Keys -> size of the block in it, 0 when it may be anything]
    gone            \* history: keys removed by a sweep that finished, and not put since

ASSUME SizesAssumption ==
    /\ Sizes \subseteq Nat \ {0}
    /\ Low \in [Sizes -> Nat] /\ \A size \in Sizes : Low[size] <= size

vars == <<directory, entry, doing, result, puts, writers, whole, gone>>

None == <<<<"no entry", 0>>>>
Idle == [call |-> "none"]
NoResult == [of |-> "none"]

Cell == {"header", "byte", "low", "high", "piece", "zero"} \X Nat
Calls ==
    {Idle}
    \cup [call : {"put"}, key : Keys, size : Sizes, next : Nat \ {0}]
    \cup [call : {"get"}, key : Keys, size : Sizes, part : 1 .. 4, read : Seq(Cell),
          undisturbed : BOOLEAN, whole : Sizes \cup {0}]
    \cup [call : {"sweep"}, targets : SUBSET Keys, todo : SUBSET Keys, watched : SUBSET Keys]

TypeOK ==
    /\ directory \in BOOLEAN
    /\ entry \in [Keys -> Seq(Cell) \cup {None}]
    /\ doing \in [Processes -> Calls]
    /\ result.of \in {"none", "put", "disassembly", "sweep"}
    /\ puts \in Nat
    /\ writers \in [Keys -> SUBSET Processes]
    /\ whole \in [Keys -> Sizes \cup {0}]
    /\ gone \subseteq Keys

(* What disassemble finds in the first bytes: an instruction, in its two   *)
(* pieces.                                                                 *)
Piece(i) == <<"piece", i>>
Decoded(size) == [n \in 1 .. size |-> <<Piece(2 * n - 1), Piece(2 * n)>>]
Bytes(size) == [n \in 1 .. size |-> <<"byte", n>>]

(* Faulty variant: the last instruction is not counted.                    *)
SerializedMiscounted(size) ==
    [i \in 1 .. 2 * size + 2 |->
        IF i = 1 THEN <<"low", Low[size]>>
        ELSE IF i = 2 THEN <<"high", size - 1 - Low[size]>>
        ELSE Piece(i - 2)]

(* serialize_instructions: the count, then each instruction.               *)
Serialized(size) ==
    [i \in 1 .. 2 * size + 2 |->
        IF i = 1 THEN <<"low", Low[size]>>
        ELSE IF i = 2 THEN <<"high", size - Low[size]>>
        ELSE Piece(i - 2)]

(* What put_block writes.                                                  *)
Cells(size) == <<<<"header", size>>>> \o Bytes(size) \o Serialized(size)

Zero == <<"zero", 0>>
At(cells, n) == IF n \in DOMAIN cells THEN cells[n] ELSE Zero

(* Writing behind the end of a file that was cut meanwhile leaves zeros.   *)
WriteAt(cells, n, cell) ==
    [i \in 1 .. Max({n, Len(cells)}) |-> IF i = n THEN cell ELSE At(cells, i)]

(* deserialize_instructions: of a blob, whose end is zero where the read   *)
(* was short.  A count that was cut is worth its low bytes; an instruction *)
(* that was cut has zeros for what is missing of its address and length,   *)
(* or a mnemonic or operands that are cut off or end in zeros; and behind  *)
(* it come as many with address 0 as the count says.                       *)
Deserialized(blob) ==
    IF blob[1][1] \notin {"low", "zero"} \/ blob[2][1] \notin {"high", "zero"}
    THEN <<"garbage">>
    ELSE [n \in {m \in 1 .. blob[1][2] + blob[2][2] : 2 * m + 2 <= Len(blob)} |->
             <<blob[2 * n + 1], blob[2 * n + 2]>>]

-----------------------------------------------------------------------------

Init ==
    /\ directory = FALSE
    /\ entry = [k \in Keys |-> None]
    /\ doing = [p \in Processes |-> Idle]
    /\ result = NoResult
    /\ puts = 0
    /\ writers = [k \in Keys |-> {}]
    /\ whole = [k \in Keys |-> 0]
    /\ gone = {}

GoOn(p, call) ==
    /\ doing' = [doing EXCEPT ![p] = call]
    /\ result' = NoResult
Return(p, r) ==
    /\ doing' = [doing EXCEPT ![p] = Idle]
    /\ result' = r

IsOpen(k) == \E p \in Processes : doing[p].call \in {"get", "put"} /\ doing[p].key = k

(* DisassemblyCache::open, on first use by a process.                      *)
Open ==
    /\ ~directory
    /\ directory' = TRUE
    /\ result' = NoResult
    /\ UNCHANGED <<entry, doing, puts, writers, whole, gone>>

(* cache_result, put_block: opening empties the file.  Whoever reads it or *)
(* sweeps over it is told in the history.                                  *)
PutOpen(p, k, size) ==
    /\ doing[p] = Idle /\ directory /\ puts < MaxPuts
    /\ doing' = [q \in Processes |->
           IF q = p THEN [call |-> "put", key |-> k, size |-> size, next |-> 1]
           ELSE IF doing[q].call = "get" /\ doing[q].key = k
                THEN [doing[q] EXCEPT !.undisturbed = FALSE]
           ELSE IF doing[q].call = "sweep" THEN [doing[q] EXCEPT !.watched = @ \ {k}]
           ELSE doing[q]]
    /\ entry' = [entry EXCEPT ![k] = << >>]
    /\ puts' = puts + 1
    /\ writers' = [writers EXCEPT ![k] =
           {q \in @ : q # p /\ doing[q].call = "put" /\ doing[q].key = k} \cup {p}]
    /\ whole' = [whole EXCEPT ![k] = 0]
    /\ gone' = gone \ {k}
    /\ result' = NoResult
    /\ UNCHANGED directory

(* The header, the bytes and the instructions, as they reach the file.     *)
PutWrite(p) ==
    LET d == doing[p] IN
    /\ d.call = "put" /\ d.next <= Len(Cells(d.size))
    /\ entry' = [entry EXCEPT ![d.key] = WriteAt(@, d.next, Cells(d.size)[d.next])]
    /\ GoOn(p, [d EXCEPT !.next = @ + 1])
    /\ UNCHANGED <<directory, puts, writers, whole, gone>>

PutReturn(p) ==
    LET d == doing[p] IN
    /\ d.call = "put" /\ d.next > Len(Cells(d.size))
    /\ Return(p, [of |-> "put", ok |-> TRUE])
    /\ whole' = [whole EXCEPT ![d.key] = IF writers[d.key] = {p} THEN d.size ELSE 0]
    /\ UNCHANGED <<directory, entry, puts, writers, gone>>

(* The disk is full: known to put_block when a write fails, and not when   *)
(* it is the last of the buffer, written after good() was asked.           *)
PutCutShort(p) ==
    /\ doing[p].call = "put"
    /\ \E ok \in BOOLEAN : Return(p, [of |-> "put", ok |-> ok])
    /\ UNCHANGED <<directory, entry, puts, writers, whole, gone>>

-----------------------------------------------------------------------------
(* disassemble_cached.                                                     *)

Answer(p, size, hit, insns, d) ==
    Return(p, [of |-> "disassembly", size |-> size, hit |-> hit, insns |-> insns,
               undisturbed |-> d.undisturbed, whole |-> d.whole])

(* get_block opens the entry, or there is none and the block is decoded.   *)
GetOpen(p, k, size) ==
    LET d == [call |-> "get", key |-> k, size |-> size, part |-> 1, read |-> << >>,
              undisturbed |-> Cardinality(writers[k]) <= 1, whole |-> whole[k]]
    IN  /\ doing[p] = Idle
        /\ IF entry[k] = None THEN Answer(p, size, FALSE, Decoded(size), d)
           ELSE GoOn(p, d)
        /\ UNCHANGED <<directory, entry, puts, writers, whole, gone>>

(* The header; then the bytes; then the instructions.  A read that is      *)
(* short is not noticed, and leaves zeros.                                 *)
Lengths(size) == <<1, size, 2 * size + 2>>

GetRead(p) ==
    LET d == doing[p]
        from == Len(d.read)
        header == IF from = 0 THEN At(entry[d.key], 1) ELSE d.read[1]
        n == Lengths(header[2])[d.part]
    IN  /\ d.call = "get" /\ d.part <= 3
        /\ header[1] = "header"
        /\ GoOn(p, [d EXCEPT !.part = @ + 1,
                             !.read = @ \o [i \in 1 .. n |-> At(entry[d.key], from + i)]])
        /\ UNCHANGED <<directory, entry, puts, writers, whole, gone>>

(* A header cut short is not initialised: no magic, or the one an earlier  *)
(* call has left on the stack, with zeros for bytes, which do not match.   *)
GetNoHeader(p) ==
    LET d == doing[p] IN
    /\ d.call = "get" /\ d.part = 1
    /\ At(entry[d.key], 1)[1] # "header"
    /\ Answer(p, d.size, FALSE, Decoded(d.size), d)
    /\ UNCHANGED <<directory, entry, puts, writers, whole, gone>>

(* Faulty variant: an entry that has more than was asked for is taken.     *)
MatchesLarger(d) == d.read[1][2] >= d.size /\ SubSeq(d.read, 2, d.size + 1) = Bytes(d.size)

(* The raw bytes are compared, to detect a stale entry.                    *)
Matches(d) == d.read[1][2] = d.size /\ SubSeq(d.read, 2, d.size + 1) = Bytes(d.size)

GetReturn(p) ==
    LET d == doing[p]
        stored == d.read[1][2]
    IN  /\ d.call = "get" /\ d.part = 4
        /\ IF Matches(d)
           THEN Answer(p, d.size, TRUE, Deserialized(SubSeq(d.read, stored + 2, Len(d.read))), d)
           ELSE Answer(p, d.size, FALSE, Decoded(d.size), d)
        /\ UNCHANGED <<directory, entry, puts, writers, whole, gone>>

-----------------------------------------------------------------------------
(* invalidate_file, purge_older_than and clear: a walk over the directory. *)
(* Which entries are old enough to be purged is left open, and with it the *)
(* subtraction of an age larger than the time, which purges them all.      *)

Targets == {{k \in Keys : FileOf[k] = f} : f \in {FileOf[k] : k \in Keys}} \cup (SUBSET Keys \ {{}})

SweepStart(p, targets) ==
    /\ doing[p] = Idle
    /\ GoOn(p, [call |-> "sweep", targets |-> targets,
                 todo |-> {k \in targets : entry[k] # None},
                 watched |-> {k \in targets :
                     ~\E q \in Processes : doing[q].call = "put" /\ doing[q].key = k}])
    /\ UNCHANGED <<directory, entry, puts, writers, whole, gone>>

(* An entry made meanwhile may be met or not; one that another process has *)
(* removed is passed over.                                                 *)
SweepEntry(p, k) ==
    LET d == doing[p] IN
    /\ d.call = "sweep" /\ k \in d.targets
    /\ IF entry[k] = None THEN k \in d.todo ELSE ~IsOpen(k)
    /\ entry' = [entry EXCEPT ![k] = None]
    /\ writers' = [writers EXCEPT ![k] = {}]
    /\ whole' = [whole EXCEPT ![k] = 0]
    /\ GoOn(p, [d EXCEPT !.todo = @ \ {k}])
    /\ UNCHANGED <<directory, puts, gone>>

(* Faulty variant: an entry that cannot be removed is passed over.         *)
SweepThrowsNot(p, k) ==
    LET d == doing[p] IN
    /\ d.call = "sweep" /\ k \in d.targets
    /\ entry[k] # None /\ IsOpen(k)
    /\ GoOn(p, [d EXCEPT !.todo = @ \ {k}])
    /\ UNCHANGED <<directory, entry, puts, writers, whole, gone>>

(* remove throws, and nothing catches it: the rest stays.                  *)
SweepThrows(p, k) ==
    LET d == doing[p] IN
    /\ d.call = "sweep" /\ k \in d.targets
    /\ entry[k] # None /\ IsOpen(k)
    /\ Return(p, [of |-> "sweep", ok |-> FALSE])
    /\ UNCHANGED <<directory, entry, puts, writers, whole, gone>>

SweepReturn(p) ==
    LET d == doing[p] IN
    /\ d.call = "sweep" /\ d.todo = {}
    /\ Return(p, [of |-> "sweep", ok |-> TRUE])
    /\ gone' = gone \cup d.watched
    /\ UNCHANGED <<directory, entry, puts, writers, whole>>

(* A process is gone, with what it had open, and another takes its place.  *)
Crash(p) ==
    /\ doing[p] # Idle
    /\ Return(p, NoResult)
    /\ UNCHANGED <<directory, entry, puts, writers, whole, gone>>

Next ==
    \/ Open
    \/ \E p \in Processes, k \in Keys, size \in Sizes : PutOpen(p, k, size) \/ GetOpen(p, k, size)
    \/ \E p \in Processes :
          \/ PutWrite(p) \/ PutReturn(p) \/ PutCutShort(p)
          \/ GetRead(p) \/ GetNoHeader(p) \/ GetReturn(p)
          \/ SweepReturn(p) \/ Crash(p)
    \/ \E p \in Processes, targets \in Targets : SweepStart(p, targets)
    \/ \E p \in Processes, k \in Keys : SweepEntry(p, k) \/ SweepThrows(p, k)

Spec == Init /\ [][Next]_vars

-----------------------------------------------------------------------------

Disassemblies == {r \in {result} : r.of = "disassembly"}

(* An instruction list of which the first m pieces are there and zeros     *)
(* behind them; a count that was cut leaves nothing but zeros.             *)
Shown(m, i) == IF i <= m THEN Piece(i) ELSE Zero
CutAt(insns, size, m) ==
    \E k \in 0 .. size :
        /\ k < size => m = 0
        /\ insns = [n \in 1 .. k |-> <<Shown(m, 2 * n - 1), Shown(m, 2 * n)>>]

(* A hit may show less than the block: the read is not checked, and no     *)
(* checksum is.  But unless another process opens the entry for writing    *)
(* while it is read, or two have written it at once, it is only cut, by a  *)
(* crash, a full disk or by reading while it is written: the instructions  *)
(* of the block come first, each in its place; at most one, behind them,   *)
(* is cut inside, right up to some byte and zero from there on; and all    *)
(* the others are zeros.  Never are the pieces of two writings mixed.      *)
HitIsCutAtWorst ==
    \A r \in Disassemblies : r.undisturbed => \E m \in 0 .. 2 * r.size : CutAt(r.insns, r.size, m)

(* A block that was written to the end by one process, and is read without *)
(* another opening it for writing, comes back with all its instructions,   *)
(* and so does a block that is not in the cache; an entry of another size  *)
(* is not taken for it.                                                    *)
WholeEntryServes ==
    \A r \in Disassemblies :
        r.undisturbed /\ (r.whole # 0 \/ ~r.hit) =>
            r.insns = Decoded(r.size) /\ (r.hit => r.whole = r.size)

(* What was there when invalidate_file, clear or a purge began is not      *)
(* there when it has returned, and does not come back until it is put      *)
(* again, although the walk is one of many steps and others read and write *)
(* the directory during it.                                                *)
RemovedStaysRemoved == \A k \in gone : entry[k] = None

-----------------------------------------------------------------------------
(* What the proofs need besides.  An entry that is open is there, since no *)
(* walk removes it.  What a walk was told to watch and has gone by is not  *)
(* there, and nobody is writing it; nor is anybody writing what is gone.   *)
Writing(k) == \E q \in Processes : doing[q].call = "put" /\ doing[q].key = k

OpenInv ==
    \A p \in Processes : doing[p].call \in {"get", "put"} => entry[doing[p].key] # None

WatchInv ==
    /\ \A p \in Processes : doing[p].call = "sweep" =>
         \A k \in doing[p].watched :
            ~Writing(k) /\ (k \notin doing[p].todo => entry[k] = None)
    /\ \A k \in gone : ~Writing(k)

(* An entry with one writer is the beginning of a block, as far as the     *)
(* writer has got; whoever writes is a writer.  An entry that is whole is  *)
(* all of it, and nobody writes it.                                        *)
Single(k) == Cardinality(writers[k]) <= 1

Beginning(cells, size) ==
    Len(cells) <= Len(Cells(size)) /\ \A i \in 1 .. Len(cells) : cells[i] = Cells(size)[i]

EntryInv ==
    \A k \in Keys :
        /\ IsFiniteSet(writers[k])
        /\ entry[k] # None /\ Single(k) => \E size \in Sizes : Beginning(entry[k], size)
        /\ whole[k] # 0 =>
             /\ Single(k) /\ ~Writing(k) /\ entry[k] # None
             /\ Beginning(entry[k], whole[k]) /\ Len(entry[k]) = Len(Cells(whole[k]))

Wrote(p, d) ==
    /\ p \in writers[d.key]
    /\ d.next <= Len(Cells(d.size)) + 1
    /\ Single(d.key) => Beginning(entry[d.key], d.size) /\ Len(entry[d.key]) = d.next - 1

PutInv == \A p \in Processes : doing[p].call = "put" => Wrote(p, doing[p])

(* What has been read of a block of that size: the header, then as many    *)
(* bytes as it says, then the instructions, in one read that may be short. *)
ReadOf(d, size) ==
    /\ d.read # << >> /\ d.read[1] = <<"header", size>>
    /\ d.whole # 0 => d.whole = size
    /\ Len(d.read) = IF d.part = 2 THEN 1 ELSE IF d.part = 3 THEN size + 1 ELSE 3 * size + 3
    /\ d.part = 4 => \E n \in 0 .. 3 * size + 3 :
         /\ \A i \in size + 2 .. 3 * size + 3 :
                d.read[i] = IF i <= n THEN Cells(size)[i] ELSE Zero
         /\ d.whole # 0 => n = 3 * size + 3

(* A reader that nobody disturbs reads an entry of one writer, and one     *)
(* block in all its reads.                                                 *)
Follows(d) ==
    /\ Single(d.key)
    /\ d.whole # 0 => whole[d.key] = d.whole
    /\ d.part = 1 => d.read = << >>
    /\ d.part # 1 => \E size \in Sizes :
         /\ ReadOf(d, size)
         /\ entry[d.key] # << >> /\ entry[d.key][1] = <<"header", size>>

ReadInv ==
    \A p \in Processes : doing[p].call = "get" /\ doing[p].undisturbed => Follows(doing[p])

IInv ==
    /\ TypeOK /\ OpenInv /\ WatchInv /\ RemovedStaysRemoved
    /\ EntryInv /\ PutInv /\ ReadInv
    /\ HitIsCutAtWorst /\ WholeEntryServes

=============================================================================
