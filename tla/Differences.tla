---------------------------- MODULE Differences -----------------------------
(***************************************************************************)
(* What DiffEngine makes of two files, as operators: the bytes that        *)
(* differ, their chunks, and the sections and functions paired by name;    *)
(* and what PatternScanner makes of the chunks.                            *)
(*                                                                         *)
(* A file is a sequence of bytes and an offset counts from 0.  The text of *)
(* a pattern is the sequence of its tokens.                                *)
(***************************************************************************)
EXTENDS Integers, Sequences, FiniteSets, SequencesExt, FiniteSetsExt

Common(old, new) == Min({Len(old), Len(new)})

(* A tail that only one of the files has is no difference.                 *)
ByteDiff(old, new) ==
    LET upTo[n \in 0 .. Common(old, new)] ==
            IF n = 0 THEN << >>
            ELSE IF old[n] = new[n] THEN upTo[n - 1]
            ELSE Append(upTo[n - 1], [offset |-> n - 1, old |-> old[n], new |-> new[n]])
    IN  upTo[Common(old, new)]

Chunk(d) == [offset |-> d.offset, old |-> <<d.old>>, new |-> <<d.new>>]
EndOf(chunk) == chunk.offset + Len(chunk.old)

AddToChunks(chunks, d) ==
    IF chunks # << >> /\ EndOf(Last(chunks)) = d.offset
    THEN [chunks EXCEPT ![Len(chunks)].old = Append(@, d.old),
                        ![Len(chunks)].new = Append(@, d.new)]
    ELSE Append(chunks, Chunk(d))

(* Faulty variant: the chunk under way at the end is not pushed.           *)
MakeChunksDropsLast(diffs) ==
    LET chunks == FoldLeft(AddToChunks, << >>, diffs)
    IN  IF chunks = << >> THEN chunks ELSE Front(chunks)

MakeChunks(diffs) ==
    LET upTo[n \in 0 .. Len(diffs)] ==
            IF n = 0 THEN << >> ELSE AddToChunks(upTo[n - 1], diffs[n])
    IN  upTo[Len(diffs)]

-----------------------------------------------------------------------------
(* Pairs by name.  Of new ones with one name the last is in the map, and   *)
(* it is taken out once it is paired, so that a second old one with the    *)
(* name has none.                                                          *)

(* Faulty variant: the one that is paired stays in the map.                *)
PairKeepsNew(olds, news, k) ==
    Max({0} \cup {n \in DOMAIN news : news[n].name = olds[k].name})

Pair(olds, news, k) ==
    IF \E j \in 1 .. k - 1 : olds[j].name = olds[k].name THEN 0
    ELSE Max({0} \cup {n \in DOMAIN news : news[n].name = olds[k].name})

Added(olds, news) == {x.name : x \in ToSet(news)} \ {x.name : x \in ToSet(olds)}
AddedInSomeOrder(olds, news) ==
    [k \in 1 .. Cardinality(Added(olds, news)) |->
        [name |-> SetToSeq(Added(olds, news))[k], status |-> "Added"]]

SectionDiff(olds, news) ==
    [k \in DOMAIN olds |->
        LET n == Pair(olds, news, k)
            is(status) == [name |-> olds[k].name, status |-> status]
        IN  IF n = 0 THEN is("Removed")
            ELSE IF olds[k].data = news[n].data THEN is("Unchanged")
            ELSE is("Modified")]
    \o AddedInSomeOrder(olds, news)

(* The number of instructions of the new function is read through an       *)
(* iterator that was erased one statement before, and may be anything.     *)
FunctionDiffs(olds, news) ==
    {statuses \o AddedInSomeOrder(olds, news) :
        statuses \in {s \in [DOMAIN olds ->
                                [name : {f.name : f \in ToSet(olds)},
                                 status : {"Removed", "Unchanged", "Modified"}]] :
            \A k \in DOMAIN olds : /\ s[k].name = olds[k].name
                                   /\ s[k].status = "Removed" <=> Pair(olds, news, k) = 0}}

-----------------------------------------------------------------------------
(* Patterns.                                                               *)

Wildcard == [wildcard |-> TRUE, value |-> 0]
Exactly(byte) == [wildcard |-> FALSE, value |-> byte]

(* The old and the new pattern; the context is not looked at.              *)
GenerateSignatures(chunks) ==
    [k \in DOMAIN chunks |->
        LET side(bytes) ==
                [i \in DOMAIN chunks[k].old |->
                    IF chunks[k].old[i] = chunks[k].new[i] THEN Wildcard ELSE Exactly(bytes[i])]
        IN  [offset |-> chunks[k].offset,
             old |-> side(chunks[k].old), new |-> side(chunks[k].new)]]

ToIda(pattern) ==
    [i \in DOMAIN pattern |-> IF pattern[i].wildcard THEN <<"??">> ELSE <<"hex", pattern[i].value>>]
ToCe(pattern) ==
    [i \in DOMAIN pattern |-> IF pattern[i].wildcard THEN <<"*">> ELSE <<"hex", pattern[i].value>>]

(* A set: of the pattern, or none.                                         *)
ParseIda(tokens) ==
    IF tokens = << >> \/ \E t \in ToSet(tokens) : t[1] \notin {"??", "?", "hex"} THEN {}
    ELSE {[i \in DOMAIN tokens |->
              IF tokens[i][1] = "hex" THEN Exactly(tokens[i][2]) ELSE Wildcard]}

(* Faulty variant: the last place a pattern could be at is left out.       *)
ScanStopsEarly(data, pattern) ==
    IF pattern = << >> THEN {}
    ELSE {i \in 0 .. Len(data) - Len(pattern) - 1 :
            \A j \in DOMAIN pattern : pattern[j].wildcard \/ data[i + j] = pattern[j].value}

Scan(data, pattern) ==
    IF pattern = << >> THEN {}
    ELSE {i \in 0 .. Len(data) - Len(pattern) :
            \A j \in DOMAIN pattern : pattern[j].wildcard \/ data[i + j] = pattern[j].value}

-----------------------------------------------------------------------------

(* The chunks, applied to the old file, give the bytes of the new one as   *)
(* far as both go; an equal byte separates them.                           *)
ChunksRebuild(old, new, chunks) ==
    LET holding(i) == {c \in ToSet(chunks) : i >= c.offset /\ i < EndOf(c)}
    IN  /\ \A i \in 0 .. Common(old, new) - 1 :
             IF holding(i) = {} THEN old[i + 1] = new[i + 1]
             ELSE \A c \in holding(i) : /\ old[i + 1] = c.old[i - c.offset + 1]
                                        /\ new[i + 1] = c.new[i - c.offset + 1]
        /\ \A k \in 1 .. Len(chunks) - 1 : EndOf(chunks[k]) < chunks[k + 1].offset

(* The patterns of a chunk find it where it is, in the file they are of,   *)
(* before and after they were written in the style of IDA; those in the    *)
(* style of Cheat Engine are read back unless they have a wildcard.        *)
SignaturesFind(old, new, chunks) ==
    \A s \in ToSet(GenerateSignatures(chunks)) :
        /\ s.offset \in Scan(old, s.old) /\ s.offset \in Scan(new, s.new)
        /\ \A p \in {s.old, s.new, Append(s.new, Wildcard), <<Wildcard>> \o s.old} :
             /\ ParseIda(ToIda(p)) = {p}
             /\ ParseIda(ToCe(p)) = IF Wildcard \in ToSet(p) THEN {} ELSE {p}

(* Every new section is the partner of at most one old one; what has no    *)
(* partner for its name is added or removed, once for each name; and what  *)
(* is unchanged has the same bytes.                                        *)
SectionsArePaired(olds, news) ==
    LET diffs == SectionDiff(olds, news)
        count(x, status) == Cardinality({k \in DOMAIN diffs :
                                            diffs[k].name = x /\ diffs[k].status \in status})
        copies(list, x) == Cardinality({k \in DOMAIN list : list[k].name = x})
    IN  \A x \in {s.name : s \in ToSet(olds \o news)} :
            /\ count(x, {"Unchanged", "Modified", "Added"}) = Min({1, copies(news, x)})
            /\ count(x, {"Unchanged", "Modified", "Removed"}) = copies(olds, x)
            /\ count(x, {"Unchanged"}) = 1 =>
                 \E s \in ToSet(olds), t \in ToSet(news) : s.name = x /\ t = s
            /\ \A fd \in FunctionDiffs(olds, news) :
                 \A k \in DOMAIN diffs : diffs[k].name = fd[k].name /\
                    (diffs[k].status \in {"Added", "Removed"} => diffs[k].status = fd[k].status)

=============================================================================
