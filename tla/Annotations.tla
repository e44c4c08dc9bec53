---------------------------- MODULE Annotations -----------------------------
(***************************************************************************)
(* The annotations of a user (bookmarks, comments, labels, types, colours) *)
(* and the ways they leave the program and come back: a file of lines, a   *)
(* table of comma-separated rows, and the session file.                    *)
(*                                                                         *)
(* A text is its first line, the lines behind it as the loader reads them, *)
(* and what stands behind a comma in the first line: nothing, a number or  *)
(* a word.  No writer escapes anything.  Times are not modelled, and the   *)
(* numbers are below the last one of 64 bits: with that as an identifier   *)
(* in a text, the next one would start again at 0.                         *)
(***************************************************************************)
EXTENDS Integers, Sequences, SequencesExt, FiniteSetsExt

CONSTANTS
    Places,         \* addresses annotated; 0 is the default of a record
    Texts,          \* [first, more, comma]
    Colors,
    MaxEdits,       \* bound on the annotations made or changed
    MaxCrashes

(* A line of a file, by what it says.                                      *)
Line(k, v) == [k |-> k, v |-> v]
Blank == Line("blank", 0)
Bad == Line("bad", 0)

(* "other" stands for any number that is cast to a type.                   *)
Types == {"Bookmark", "Comment", "Label", "TypeInfo", "Color", "other"}
White == "white"
Hues == Colors \cup {White, "a part", "of the text"}
Commas == {"none", "number", "word"}
Firsts == {""} \cup {text.first : text \in Texts}

OneLineText == [first : Firsts, more : {<< >>}, comma : Commas]
FileLine ==
    {Blank, Bad} \cup [k : {"id", "address"}, v : Nat]
                 \cup [k : {"type"}, v : Types] \cup [k : {"color"}, v : Hues]
                 \cup [k : {"text"}, v : OneLineText]
AnyText == [first : Firsts, more : Seq(FileLine), comma : Commas]
Annotation == [address : Nat, type : Types, text : AnyText, color : Hues]

ASSUME AnnotationsAssumption == Places \subseteq Nat /\ Texts \subseteq AnyText

NotSaved == [notes |-> << >>, order |-> << >>, whole |-> FALSE]
NoText == [first |-> "", more |-> << >>, comma |-> "none"]
Default == [address |-> 0, type |-> "Comment", text |-> NoText, color |-> White]
NoFile == [form |-> "none"]

VARIABLES
    notes,          \* annotations_: identifier -> record
    next,           \* next_id_
    stored,         \* what the last save, export_csv or AnnotatedSession::save has written
    saved,          \* history: what the last save was called for
    edits,          \* number of annotations made or changed
    crashes         \* number of crashes

annotationVars == <<notes, next, stored, saved, edits, crashes>>

-----------------------------------------------------------------------------
(* Adding and removing.                                                    *)

Of(db, place, type) == {id \in DOMAIN db : db[id].address = place /\ db[id].type = type}
With(db, id, note) == [i \in {id} \cup DOMAIN db |-> IF i = id THEN note ELSE db[i]]
Without(db, ids) == [id \in DOMAIN db \ ids |-> db[id]]

Record(db, note) ==
    /\ edits < MaxEdits
    /\ edits' = edits + 1
    /\ notes' = With(db, next, note)
    /\ next' = next + 1

Note(place, type, text) == [Default EXCEPT !.address = place, !.type = type, !.text = text]

(* Without a name it is given one made of its identifier.                  *)
AddBookmark(place, name) ==
    /\ Record(notes, Note(place, "Bookmark", name))
    /\ UNCHANGED <<stored, saved, crashes>>

(* An old comment at the address keeps its identifier.                     *)
AddComment(place, text) ==
    /\ IF Of(notes, place, "Comment") = {} THEN Record(notes, Note(place, "Comment", text))
       ELSE /\ edits < MaxEdits /\ edits' = edits + 1
            /\ \E id \in Of(notes, place, "Comment") : notes' = [notes EXCEPT ![id].text = text]
            /\ UNCHANGED next
    /\ UNCHANGED <<stored, saved, crashes>>

SetLabel(place, name) ==
    /\ Record(Without(notes, Of(notes, place, "Label")), Note(place, "Label", name))
    /\ UNCHANGED <<stored, saved, crashes>>

(* An old type at the address stays.                                       *)
SetType(place, name) ==
    /\ Record(notes, Note(place, "TypeInfo", name))
    /\ UNCHANGED <<stored, saved, crashes>>

SetColor(place, color) ==
    /\ Record(Without(notes, Of(notes, place, "Color")),
              [Note(place, "Color", NoText) EXCEPT !.color = color])
    /\ UNCHANGED <<stored, saved, crashes>>

RemoveNote(id) ==
    /\ notes' = Without(notes, {id})
    /\ UNCHANGED <<next, stored, saved, edits, crashes>>

Clear ==
    /\ notes' = << >> /\ next' = 1
    /\ UNCHANGED <<stored, saved, edits, crashes>>

-----------------------------------------------------------------------------
(* The file.                                                               *)

(* Faulty variant: the colour is not written.                              *)
EntryLinesUncoloured(id, a) ==
    <<Line("id", id), Line("address", a.address), Line("type", a.type),
      Line("text", [a.text EXCEPT !.more = << >>])>> \o a.text.more \o <<Blank>>

EntryLines(id, a) ==
    <<Line("id", id), Line("address", a.address), Line("type", a.type),
      Line("text", [a.text EXCEPT !.more = << >>])>> \o a.text.more
        \o <<Line("color", a.color), Blank>>

Lines(db, order) == FlattenSeq([n \in DOMAIN order |-> EntryLines(order[n], db[order[n]])])

Orders == SetToSeqs(DOMAIN notes)

(* In whatever order the hash map has them.                                *)
Save ==
    /\ \E order \in Orders :
         /\ stored' = [form |-> "lines", lines |-> Lines(notes, order)]
         /\ saved' = [notes |-> notes, order |-> order, whole |-> TRUE]
    /\ UNCHANGED <<notes, next, edits, crashes>>

(* A line without its end: a key without a value, which the conversion to  *)
(* a number throws on, or a part of the value; one without its key is      *)
(* passed over like one that is not there.                                 *)
CutLine(line) ==
    CASE line.k = "address" -> {Bad, Line("address", 0)}
      [] line.k = "text" -> {Line("text", NoText)}
      [] line.k = "type" -> {Bad}
      [] line.k = "color" -> {Bad, Line("color", "a part")}
      [] OTHER -> {}

(* The program ends in the middle of save, and is started again.           *)
CrashInSave ==
    /\ crashes < MaxCrashes /\ crashes' = crashes + 1
    /\ \E order \in Orders :
         LET lines == Lines(notes, order) IN
         \E n \in DOMAIN lines : \E cut \in {<< >>} \cup {<<c>> : c \in CutLine(lines[n])} :
            /\ stored' = [form |-> "lines", lines |-> SubSeq(lines, 1, n - 1) \o cut]
            /\ saved' = [notes |-> notes, order |-> order, whole |-> FALSE]
    /\ notes' = << >> /\ next' = 1
    /\ UNCHANGED edits

(* One line; a record is taken at the blank line behind it or at the next  *)
(* identifier, and what follows a blank line in a text is lost.            *)
Take(s) == IF s.in THEN With(s.notes, s.id, s.current) ELSE s.notes

(* Faulty variant: the next identifier is left where it is.                *)
ParseKeepsNext(s, line) ==
    IF s.thrown \/ line.k = "bad" THEN [s EXCEPT !.thrown = TRUE]
    ELSE CASE line.k = "blank" -> [s EXCEPT !.notes = Take(s), !.in = FALSE]
           [] line.k = "id" ->
                 [s EXCEPT !.notes = Take(s), !.current = Default, !.id = line.v, !.in = TRUE]
           [] OTHER -> [s EXCEPT !.current[line.k] = line.v]

Parse(s, line) ==
    IF s.thrown \/ line.k = "bad" THEN [s EXCEPT !.thrown = TRUE]
    ELSE CASE line.k = "blank" -> [s EXCEPT !.notes = Take(s), !.in = FALSE]
           [] line.k = "id" ->
                 [s EXCEPT !.notes = Take(s), !.current = Default, !.id = line.v, !.in = TRUE,
                           !.next = Max({@, line.v + 1})]
           [] OTHER -> [s EXCEPT !.current[line.k] = line.v]

Fresh == [notes |-> << >>, next |-> 1, current |-> Default, id |-> 0,
          in |-> FALSE, thrown |-> FALSE]
Parsed(lines) ==
    LET upTo[n \in 0 .. Len(lines)] ==
            IF n = 0 THEN Fresh ELSE Parse(upTo[n - 1], lines[n])
    IN  upTo[Len(lines)]

ReadFile(lines) ==
    LET s == Parsed(lines)
    IN  [s EXCEPT !.notes = IF s.thrown THEN @ ELSE Take(s)]

(* The annotations are cleared before the file is opened.                  *)
Load ==
    /\ IF stored.form = "lines"
       THEN LET s == ReadFile(stored.lines) IN notes' = s.notes /\ next' = s.next
       ELSE notes' = << >> /\ next' = 1
    /\ UNCHANGED <<stored, saved, edits, crashes>>

-----------------------------------------------------------------------------
(* Rows.                                                                   *)

ExportCsv ==
    /\ \E order \in Orders :
          stored' = [form |-> "rows", rows |->
              [n \in DOMAIN order |-> [id |-> order[n], note |-> notes[order[n]]]]]
    /\ saved' = NotSaved
    /\ UNCHANGED <<notes, next, edits, crashes>>

(* A text of several lines leaves rows with too few fields, which are      *)
(* skipped; behind a comma the fields are shifted, and the part of the     *)
(* text behind it is read as the colour, or throws.                        *)
Import(s, row) ==
    LET text == row.note.text IN
    IF s.thrown \/ text.more # << >> THEN s
    ELSE IF text.comma = "word" THEN [s EXCEPT !.thrown = TRUE]
    ELSE [s EXCEPT !.next = Max({@, row.id + 1}),
                   !.notes = With(@, row.id, IF text.comma = "none" THEN row.note
                                             ELSE [row.note EXCEPT !.text.comma = "none",
                                                                   !.color = "of the text"])]

Imported(rows) ==
    LET upTo[n \in 0 .. Len(rows)] ==
            IF n = 0 THEN [notes |-> << >>, next |-> 1, thrown |-> FALSE]
            ELSE Import(upTo[n - 1], rows[n])
    IN  upTo[Len(rows)]

ImportCsv ==
    /\ stored.form = "rows"
    /\ LET s == Imported(stored.rows) IN notes' = s.notes /\ next' = s.next
    /\ UNCHANGED <<stored, saved, edits, crashes>>

(* AnnotatedSession: the annotations are written and never read.           *)
SaveSession ==
    /\ stored' = [form |-> "session"]
    /\ saved' = NotSaved
    /\ UNCHANGED <<notes, next, edits, crashes>>
LoadSession ==
    /\ stored.form = "session"
    /\ notes' = << >> /\ next' = 1
    /\ UNCHANGED <<stored, saved, edits, crashes>>

-----------------------------------------------------------------------------

AnnotationsInit ==
    /\ notes = << >> /\ next = 1
    /\ stored = NoFile
    /\ saved = NotSaved
    /\ edits = 0 /\ crashes = 0

AnnotationsNext ==
    \/ \E place \in Places, text \in Texts :
          AddBookmark(place, text) \/ AddComment(place, text)
          \/ SetLabel(place, text) \/ SetType(place, text)
    \/ \E place \in Places, color \in Colors : SetColor(place, color)
    \/ \E id \in DOMAIN notes : RemoveNote(id)
    \/ Clear \/ Save \/ CrashInSave \/ Load \/ ExportCsv \/ ImportCsv
    \/ SaveSession \/ LoadSession

-----------------------------------------------------------------------------
IsTable(db) ==
    DOMAIN db \subseteq Nat /\ IsFiniteSet(DOMAIN db) /\ db \in [DOMAIN db -> Annotation]

NotesType == IsTable(notes) /\ next \in Nat

StoredType ==
    /\ stored.form = "lines" => stored.lines \in Seq(FileLine)
    /\ stored.form = "rows" => stored.rows \in Seq([id : Nat, note : Annotation])

(* What is in the file: the lines of what was saved, or of a crash all up  *)
(* to a line, of which a part may be there.                                *)
FileInv ==
    stored.form = "lines" =>
        /\ IsTable(saved.notes) /\ saved.order \in SetToSeqs(DOMAIN saved.notes)
        /\ LET lines == Lines(saved.notes, saved.order) IN
           IF saved.whole THEN stored.lines = lines
           ELSE \E n \in DOMAIN lines : \E cut \in {<< >>} \cup {<<c>> : c \in CutLine(lines[n])} :
                   stored.lines = SubSeq(lines, 1, n - 1) \o cut

-----------------------------------------------------------------------------
(* An identifier that is handed out is not one of an annotation there is,  *)
(* whatever file or table the annotations come from, and also when the     *)
(* loading of it has ended in the middle: adding never overwrites.         *)
IdsAreNew == \A id \in DOMAIN notes : id < next

(* What was saved whole, with texts of one line, is loaded as it was.  Of  *)
(* a file that a crash has cut, all but the last entry in it are as they   *)
(* were saved, in whatever order they stand, and at most the last one is   *)
(* another.                                                                *)
SavedComesBack ==
    stored.form = "lines" /\ saved.order # << >> /\ (\A id \in DOMAIN saved.notes : saved.notes[id].text.more = << >>) =>
        LET s == ReadFile(stored.lines)
            last == Max({0} \cup {n \in DOMAIN saved.order :
                            Line("id", saved.order[n]) \in ToSet(stored.lines)})
        IN  /\ saved.whole => ~s.thrown /\ s.notes = saved.notes
            /\ DOMAIN s.notes \subseteq {saved.order[n] : n \in 1 .. last}
            /\ \A n \in 1 .. last - 1 : saved.order[n] \in DOMAIN s.notes
            /\ \A n \in 1 .. last - 1 : s.notes[saved.order[n]] = saved.notes[saved.order[n]]

=============================================================================
