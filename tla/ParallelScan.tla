---------------------------- MODULE ParallelScan ----------------------------
(***************************************************************************)
(* The two scans that run on a ThreadPool and have a sequential twin:      *)
(* Analyzer::find_functions_parallel and DiffEngine::byte_diff_parallel.   *)
(* Both give every worker a bucket, find hits with parallel_for, and sort  *)
(* the merged buckets; the first then measures the candidates with a       *)
(* second parallel_for and resolves overlaps.                              *)
(*                                                                         *)
(* A section is what the scan can tell of its bytes: section[i] is the     *)
(* length that measure_function finds for a prologue at offset i, and 0    *)
(* where there is none.  For a diff, 1 marks the bytes that differ.        *)
(*                                                                         *)
(* A bucket is chosen by a hash of the thread modulo the number of         *)
(* threads, so two workers may have the same one.  The buckets are plain   *)
(* vectors: push_back is two steps, and one that finds the vector changed  *)
(* under it may lose elements or corrupt the heap.                         *)
(*                                                                         *)
(* Of parallel_for only its chunks and its promise are here: chunks in     *)
(* FIFO order, each to one worker, and a return when all have run; module  *)
(* ThreadPool is about how that is kept.                                   *)
(*                                                                         *)
(* A scan reports to an AnalysisProgress, which anybody may cancel; no     *)
(* scan looks at that.  Where the file is of 64 or 1024 hits per report,   *)
(* it is ReportEvery here.  full_diff_parallel goes on behind the diff.    *)
(***************************************************************************)
EXTENDS Differences

CONSTANTS
    Workers,        \* the pool's threads
    Size,           \* the number of bytes scanned
    Lookahead,      \* find_functions stops this many bytes before the end
    MinScanChunk,   \* min_chunk_size of the scan
    ReportEvery     \* hits or candidates per report

ASSUME WorkersAssumption == IsFiniteSet(Workers) /\ Workers # {}
ASSUME SizeAssumption ==
    /\ Size \in Nat \ {0} /\ Lookahead \in Nat \ {0}
    /\ MinScanChunk \in Nat \ {0} /\ ReportEvery \in Nat \ {0}

VARIABLES
    job,            \* "functions" or "diff"
    section,        \* see above
    bucket,         \* bucket[w]: hash(thread id) % num_threads
    phase,          \* "scan", "measure", "done"; of a full diff also "updated",
                    \* "sections", "ended"
    next,           \* the first index not yet handed out by parallel_for
    wpc,            \* wpc[w]: "free", "body", "push", "count", "read", "report"
    at, end,        \* at[w], end[w]: loop variable and end of w's chunk
    seen,           \* seen[w]: the length of the vector w is pushing to, or
                    \* the number w is to report
    found,          \* found[b]: thread_candidates or thread_diffs
    candidates,     \* all_candidates, sorted
    measured,       \* in the order the workers finished
    result,         \* functions, or the offsets that differ
    count,          \* diff_count or measured_count
    progress,       \* the state of AnalysisProgress
    raced,          \* history: a push_back found the vector changed
    corrupt         \* the program is gone with its heap

scanVars == <<next, wpc, at, end, seen>>
vars == <<job, section, bucket, phase, scanVars, found, candidates, measured,
          result, count, progress, raced, corrupt>>

Offsets == 0 .. Size - 1
NumThreads == Cardinality(Workers)
Buckets == 0 .. NumThreads - 1
Functions == [start : Offsets, end : 1 .. Size]
Fn(i) == [start |-> i, end |-> i + section[i]]

(* The calls of the scan's body that record something.                     *)
Hit(i) == section[i] > 0 /\ (job = "functions" => i + Lookahead < Size)

(* No function reaches beyond the bytes it is measured in.                 *)
Sections ==
    {s \in [Offsets -> 0 .. Size] : \A i \in Offsets : i + s[i] <= Size}

ScanTypes ==
    /\ job \in {"functions", "diff"}
    /\ section \in Sections
    /\ bucket \in [Workers -> Buckets]
    /\ phase \in {"scan", "measure", "done", "updated", "sections", "ended"}
    /\ raced \in BOOLEAN /\ corrupt \in BOOLEAN
WorkerTypes ==
    /\ next \in 0 .. Size
    /\ wpc \in [Workers -> {"free", "body", "push", "count", "read", "report"}]
    /\ at \in [Workers -> 0 .. Size] /\ end \in [Workers -> 0 .. Size]
    /\ seen \in [Workers -> 0 .. Size]
ResultTypes ==
    /\ found \in [Buckets -> Seq(Offsets)]
    /\ candidates \in Seq(Offsets)
    /\ measured \in Seq(Functions)
    /\ result \in IF job = "functions" THEN Seq(Functions) ELSE Seq(Offsets)
ProgressTypes ==
    /\ count \in 0 .. Size
    /\ progress \in [current : 0 .. Size, total : 0 .. Size, completed : BOOLEAN,
                     cancelled : BOOLEAN]
TypeOK == ScanTypes /\ WorkerTypes /\ ResultTypes /\ ProgressTypes

-----------------------------------------------------------------------------
(* AnalysisProgress; each of its operations holds the mutex.               *)

Started(total) == [current |-> 0, total |-> total, completed |-> FALSE, cancelled |-> FALSE]
Updated(p, processed) == [p EXCEPT !.current = processed]

(* Faulty variant: what was counted last stays.                            *)
CompletedAsCounted(p) == [p EXCEPT !.completed = TRUE]

Completed(p) == [p EXCEPT !.completed = TRUE, !.current = p.total]

-----------------------------------------------------------------------------

Init ==
    /\ job \in {"functions", "diff"}
    /\ section \in Sections
    /\ job = "diff" => section \in [Offsets -> {0, 1}]
    /\ bucket \in [Workers -> Buckets]
    /\ phase = "scan"
    /\ next = 0
    /\ wpc = [w \in Workers |-> "free"]
    /\ at = [w \in Workers |-> 0] /\ end = [w \in Workers |-> 0]
    /\ seen = [w \in Workers |-> 0]
    /\ found = [b \in Buckets |-> << >>]
    /\ candidates = << >> /\ measured = << >> /\ result = << >>
    /\ count = 0 /\ progress = Started(Size)
    /\ raced = FALSE /\ corrupt = FALSE

-----------------------------------------------------------------------------
(* parallel_for.                                                           *)

Total == IF phase = "scan" THEN Size ELSE Len(candidates)
MinChunk == IF phase = "scan" THEN MinScanChunk ELSE 1
ChunkSize ==
    LET share == (Total + NumThreads - 1) \div NumThreads
    IN  IF MinChunk >= share THEN MinChunk ELSE share
ChunkEnd == IF next + ChunkSize <= Total THEN next + ChunkSize ELSE Total

Take(w) ==
    /\ phase \in {"scan", "measure"}
    /\ wpc[w] = "free"
    /\ next < Total
    /\ at' = [at EXCEPT ![w] = next]
    /\ end' = [end EXCEPT ![w] = ChunkEnd]
    /\ next' = ChunkEnd
    /\ wpc' = [wpc EXCEPT ![w] = "body"]
    /\ UNCHANGED <<job, section, bucket, phase, seen, found, candidates, measured,
                   result, count, progress, raced, corrupt>>

FinishChunk(w) ==
    /\ wpc[w] = "body"
    /\ at[w] = end[w]
    /\ wpc' = [wpc EXCEPT ![w] = "free"]
    /\ UNCHANGED <<job, section, bucket, phase, next, at, end, seen, found, candidates,
                   measured, result, count, progress, raced, corrupt>>

Returned == next = Total /\ \A w \in Workers : wpc[w] = "free"

-----------------------------------------------------------------------------
(* The first parallel_for: hits into the buckets.                          *)

(* The body up to the next hit of the chunk, and the start of push_back.   *)
ScanTo(w) ==
    /\ phase = "scan"
    /\ wpc[w] = "body"
    /\ at[w] < end[w]
    /\ LET hits == {i \in at[w] .. end[w] - 1 : Hit(i)}
       IN  IF hits = {}
           THEN at' = [at EXCEPT ![w] = end[w]] /\ UNCHANGED <<wpc, seen>>
           ELSE /\ at' = [at EXCEPT ![w] = CHOOSE i \in hits : \A j \in hits : i <= j]
                /\ seen' = [seen EXCEPT ![w] = Len(found[bucket[w]])]
                /\ wpc' = [wpc EXCEPT ![w] = "push"]
    /\ UNCHANGED <<job, section, bucket, phase, next, end, found, candidates, measured,
                   result, count, progress, raced, corrupt>>

(* Only the diff counts its hits.                                          *)
AfterPush(w) ==
    IF job = "diff" THEN wpc' = [wpc EXCEPT ![w] = "count"] /\ UNCHANGED at
    ELSE wpc' = [wpc EXCEPT ![w] = "body"] /\ at' = [at EXCEPT ![w] = @ + 1]

(* Faulty variant: the offset is read after the loop variable has moved.   *)
PushNextOffset(w) ==
    /\ wpc[w] = "push"
    /\ LET b == bucket[w]
           changed == Len(found[b]) # seen[w]
           kept == IF seen[w] <= Len(found[b]) THEN seen[w] ELSE Len(found[b])
       IN  /\ raced' = (raced \/ changed)
           /\ corrupt' \in {FALSE, changed}
           /\ found' = [found EXCEPT ![b] = Append(SubSeq(@, 1, kept), at[w] + 1)]
    /\ AfterPush(w)
    /\ UNCHANGED <<job, section, bucket, phase, next, end, seen, candidates, measured, result,
                   count, progress>>

(* The element is written behind those that were seen, if still there.     *)
Push(w) ==
    /\ wpc[w] = "push"
    /\ LET b == bucket[w]
           changed == Len(found[b]) # seen[w]
           kept == IF seen[w] <= Len(found[b]) THEN seen[w] ELSE Len(found[b])
       IN  /\ raced' = (raced \/ changed)
           /\ corrupt' \in {FALSE, changed}
           /\ found' = [found EXCEPT ![b] = Append(SubSeq(@, 1, kept), at[w])]
    /\ AfterPush(w)
    /\ UNCHANGED <<job, section, bucket, phase, next, end, seen, candidates, measured, result,
                   count, progress>>

-----------------------------------------------------------------------------
(* Between and after the two calls of parallel_for.                        *)

(* The members up to which a set has k, and a set in order.                *)
Nth(S, k) == {i \in S : Cardinality({j \in S : j <= i}) = k}
Ascending(S) == [k \in 1 .. Cardinality(S) |-> CHOOSE i \in Nth(S, k) : TRUE]

FoundAt(b) == {found[b][k] : k \in DOMAIN found[b]}
AllFound == UNION {FoundAt(b) : b \in Buckets}
Merged == Ascending(AllFound)

Merge ==
    /\ phase = "scan"
    /\ Returned
    /\ candidates' = Merged
    /\ IF job = "diff"
       THEN phase' = "done" /\ result' = Merged /\ progress' = Completed(progress)
       ELSE phase' = "measure" /\ progress' = Started(Len(Merged)) /\ UNCHANGED result
    /\ next' = 0 /\ count' = 0
    /\ UNCHANGED <<job, section, bucket, wpc, at, end, seen, found, measured, raced, corrupt>>

(* The second parallel_for, whose vector has a mutex.                      *)
Measure(w) ==
    /\ phase = "measure"
    /\ wpc[w] = "body"
    /\ at[w] < end[w]
    /\ measured' = Append(measured, Fn(candidates[at[w] + 1]))
    /\ wpc' = [wpc EXCEPT ![w] = "count"]
    /\ UNCHANGED <<job, section, bucket, phase, next, at, end, seen, found, candidates,
                   result, count, progress, raced, corrupt>>

(* The atomic counter: a report is due each time it passes a multiple.     *)
Count(w) ==
    /\ wpc[w] = "count"
    /\ count' = count + 1
    /\ IF count' % ReportEvery = 0
       THEN /\ wpc' = [wpc EXCEPT ![w] = IF phase = "scan" THEN "report" ELSE "read"]
            /\ seen' = [seen EXCEPT ![w] = at[w]]
            /\ UNCHANGED at
       ELSE /\ wpc' = [wpc EXCEPT ![w] = "body"]
            /\ at' = [at EXCEPT ![w] = @ + 1]
            /\ UNCHANGED seen
    /\ UNCHANGED <<job, section, bucket, phase, next, end, found, candidates, measured, result,
                   progress, raced, corrupt>>

(* The measurement reads the counter again.                                *)
ReadCount(w) ==
    /\ wpc[w] = "read"
    /\ seen' = [seen EXCEPT ![w] = count]
    /\ wpc' = [wpc EXCEPT ![w] = "report"]
    /\ UNCHANGED <<job, section, bucket, phase, next, at, end, found, candidates, measured,
                   result, count, progress, raced, corrupt>>

(* The offset that differs, or the counter: in no order.                   *)
Report(w) ==
    /\ wpc[w] = "report"
    /\ progress' = Updated(progress, seen[w])
    /\ at' = [at EXCEPT ![w] = @ + 1]
    /\ wpc' = [wpc EXCEPT ![w] = "body"]
    /\ UNCHANGED <<job, section, bucket, phase, next, end, seen, found, candidates, measured,
                   result, count, raced, corrupt>>

Cancel ==
    /\ progress' = [progress EXCEPT !.cancelled = TRUE]
    /\ UNCHANGED <<job, section, bucket, phase, scanVars, found, candidates, measured, result,
                   count, raced, corrupt>>

-----------------------------------------------------------------------------
(* full_diff_parallel, behind byte_diff_parallel.                          *)

AfterDiff(from, to, p) ==
    /\ job = "diff" /\ phase = from
    /\ phase' = to
    /\ progress' = p
    /\ UNCHANGED <<job, section, bucket, scanVars, found, candidates, measured, result, count,
                   raced, corrupt>>

(* The number of differences into a progress that is complete.             *)
UpdateDiff == AfterDiff("done", "updated", Updated(progress, Len(result)))
StartSections == AfterDiff("updated", "sections", Started(1))
CompleteSections == AfterDiff("sections", "ended", Completed(progress))

-----------------------------------------------------------------------------
(* The measured functions to functions that do not overlap.                *)

(* One round of the loop that resolves overlaps: keep a candidate that     *)
(* starts where the last function kept has ended, or later.                *)
Keep(fns, c) ==
    IF fns # << >> /\ c.start < fns[Len(fns)].end THEN fns ELSE Append(fns, c)

(* Functions in the order they start, which no two do at the same byte.    *)
ByStart(fns) ==
    LET starts == Ascending({fns[k].start : k \in DOMAIN fns})
    IN  [n \in DOMAIN starts |->
            CHOOSE f \in {fns[k] : k \in DOMAIN fns} : f.start = starts[n]]

(* Faulty variant: a function must not start right behind another.         *)
ResolvedStrictly(fns) ==
    LET kept[n \in 0 .. Len(fns)] ==
            IF n = 0 THEN << >>
            ELSE IF n > 1 /\ fns[n].start <= kept[n - 1][Len(kept[n - 1])].end
                 THEN kept[n - 1] ELSE Append(kept[n - 1], fns[n])
    IN  kept[Len(fns)]

Resolved(fns) ==
    LET kept[n \in 0 .. Len(fns)] ==
            IF n = 0 THEN << >> ELSE Keep(kept[n - 1], fns[n])
    IN  kept[Len(fns)]

Resolve ==
    /\ phase = "measure"
    /\ Returned
    /\ result' = Resolved(ByStart(measured))
    /\ phase' = "done"
    /\ progress' = Completed(progress)
    /\ UNCHANGED <<job, section, bucket, scanVars, found, candidates, measured, count, raced,
                   corrupt>>

Next ==
    /\ ~corrupt
    /\ \/ \E w \in Workers : Take(w) \/ FinishChunk(w) \/ ScanTo(w) \/ Push(w) \/ Measure(w)
                             \/ Count(w) \/ ReadCount(w) \/ Report(w)
       \/ Merge
       \/ Resolve
       \/ Cancel
       \/ UpdateDiff \/ StartSections \/ CompleteSections

SafeSpec == Init /\ [][Next]_vars

-----------------------------------------------------------------------------
(* The indices that a worker has taken and not handled, and all handled.   *)
Pending(w) ==
    {i \in at[w] .. end[w] - 1 : \/ wpc[w] \in {"body", "push"}
                                 \/ wpc[w] \in {"count", "read", "report"} /\ i # at[w]}
Handled == {i \in 0 .. next - 1 : \A w \in Workers : i \notin Pending(w)}
Counted == {i \in Handled : \A w \in Workers : wpc[w] = "count" => at[w] # i}

Hits == {i \in Offsets : Hit(i)}
HitsHandled == IF phase = "scan" THEN Handled \cap Hits ELSE Hits
AfterScans == {"done", "updated", "sections", "ended"}

(* What a worker has is its own, and what it does is of its phase.         *)
InChunk(w) ==
    at[w] <= end[w] /\ end[w] <= next /\ (wpc[w] # "body" => at[w] < end[w])
Apart(v, w) == end[v] <= at[w] \/ end[w] <= at[v]
OfPhase(w) ==
    \/ phase = "scan" /\ wpc[w] \in {"body", "push"}
    \/ phase = "scan" /\ job = "diff" /\ wpc[w] \in {"count", "report"}
    \/ phase = "measure" /\ wpc[w] # "push"
ChunksInv ==
    /\ next <= Total
    /\ phase = "measure" => job = "functions"
    /\ \A w \in Workers : wpc[w] # "free" =>
          /\ InChunk(w) /\ OfPhase(w)
          /\ \A v \in Workers \ {w} : wpc[v] # "free" => Apart(v, w)

(* What is in the buckets is of the hits handled, in one place, and all of *)
(* them as long as no two workers met.                                     *)
FoundOnce ==
    \A b, c \in Buckets : \A k \in DOMAIN found[b], l \in DOMAIN found[c] :
        found[b][k] = found[c][l] => b = c /\ k = l
FoundInv ==
    /\ AllFound \subseteq HitsHandled
    /\ ~raced => HitsHandled \subseteq AllFound
    /\ FoundOnce
    /\ \A w \in Workers :
          wpc[w] = "push" \/ (wpc[w] = "count" /\ phase = "scan") => Hit(at[w])

MeasuredInv ==
    /\ phase # "scan" => candidates = Merged
    /\ {measured[k] : k \in DOMAIN measured} =
          IF phase = "measure" THEN {Fn(candidates[i + 1]) : i \in Handled}
          ELSE IF phase \in AfterScans /\ job = "functions"
               THEN {Fn(candidates[k]) : k \in DOMAIN candidates}
               ELSE {}
    /\ phase \in AfterScans =>
          result = IF job = "functions" THEN Resolved(ByStart(measured)) ELSE Merged

CountInv ==
    /\ phase = "scan" => count = IF job = "diff" THEN Cardinality(Counted \cap Hits) ELSE 0
    /\ phase = "measure" => count = Cardinality(Counted)
    /\ \A w \in Workers : wpc[w] = "report" =>
          seen[w] <= IF phase = "scan" THEN Size ELSE count

ProgressInv ==
    /\ progress.current <= progress.total
    /\ progress.completed <=> (phase \in {"done", "updated", "ended"})
    /\ (phase = "scan" \/ (phase \in {"done", "updated"} /\ job = "diff")) => progress.total = Size
    /\ phase = "measure" => progress.total = Len(candidates)
    /\ phase \in {"done", "ended"} => progress.current = progress.total
    /\ phase \in {"updated", "sections", "ended"} => job = "diff"

IInv == TypeOK /\ ChunksInv /\ FoundInv /\ MeasuredInv /\ CountInv /\ ProgressInv

-----------------------------------------------------------------------------
(* The sequential twins.                                                   *)

(* find_functions: behind a function the scan goes on where it ends.  A    *)
(* round of its loop, and as many rounds as there are bytes.               *)
FindRound(s) ==
    IF s.i + Lookahead >= Size THEN s
    ELSE IF section[s.i] = 0 THEN [s EXCEPT !.i = @ + 1]
    ELSE [i |-> s.i + section[s.i], fns |-> Append(s.fns, Fn(s.i))]

FindFunctions ==
    LET after[n \in 0 .. Size] ==
            IF n = 0 THEN [i |-> 0, fns |-> << >>] ELSE FindRound(after[n - 1])
    IN  after[Size].fns

(* A file that is the old one with the bytes changed that differ.          *)
Changed(old) == [i \in 1 .. Size |-> IF section[i - 1] = 0 THEN old[i] ELSE 1 - old[i]]

-----------------------------------------------------------------------------
(* The parallel scan answers what the sequential one does, whichever       *)
(* worker ran which chunk and whatever the order of the measurements,      *)
(* unless two workers met in a bucket.                                     *)
ParallelEqualsSequential ==
    phase = "done" /\ ~raced =>
        LET zeros == [i \in 1 .. Size |-> 0]
            diffs == ByteDiff(zeros, Changed(zeros))
        IN  result = IF job = "functions" THEN FindFunctions
                     ELSE [k \in DOMAIN diffs |-> diffs[k].offset]

(* The chunks that are made of a parallel diff, of any two files of which  *)
(* one may be longer, rebuild the one from the other; their signatures     *)
(* find them; and sections whose names may occur twice are paired.         *)
DiffDescribesChange ==
    phase = "done" /\ job = "diff" /\ ~raced /\ ~progress.cancelled =>
        /\ \A old \in [1 .. Size -> {0, 1}], tail \in {<< >>, << 1 >>} :
             LET new == Changed(old) \o tail
                 chunks == MakeChunks([k \in DOMAIN result |->
                              [offset |-> result[k], old |-> old[result[k] + 1],
                               new |-> new[result[k] + 1]]])
             IN  ChunksRebuild(old, new, chunks) /\ SignaturesFind(old, new, chunks)
        /\ LET zeros == [i \in 1 .. Size |-> 0]
               versions == [name : {"a", "b"}, data : {zeros, Changed(zeros)}]
               lists == {<< >>} \cup {<<x>> : x \in versions} \cup (versions \X versions)
           IN  \A olds, news \in lists : SectionsArePaired(olds, news)

(* What a progress shows never exceeds its total, is complete only when no *)
(* worker can report any more, and full then, but between the diff and the *)
(* sections; and only the start of a stage makes it active again.          *)
ProgressEndsFull ==
    /\ progress.current <= progress.total
    /\ progress.completed =>
         /\ \A w \in Workers : wpc[w] = "free"
         /\ phase # "updated" => progress.current = progress.total
    /\ phase \in {"done", "updated", "ended"} => progress.completed

=============================================================================
