---------------------------- MODULE Storage_proofs --------------------------
(***************************************************************************)
(* Proofs about what is kept in files: annotations and patches, for texts  *)
(* of any lines, any number of edits and crashes, and files of any         *)
(* sections; sessions, for binaries of any sections, functions, blocks and *)
(* instructions, a file cut behind any of its items, and any entities that *)
(* are read from the wrong place.                                          *)
(***************************************************************************)
EXTENDS Storage, FiniteSetTheorems, SequenceTheorems, TLAPS

-----------------------------------------------------------------------------
(* Recursion over the places of a sequence.                                *)

(* Every set of numbers that is not empty has a least one.                 *)
LEMMA LeastNumber ==
    ASSUME NEW T \in SUBSET Nat, T # {}
    PROVE  \E m \in T : \A n \in T : m <= n
<1> DEFINE W == {0 .. m : m \in T}
           R == StrictSubsetOrdering(Nat)
<1>1. W \subseteq FiniteSubsetsOf(Nat) /\ W # {}
  <2>1. ASSUME NEW m \in T PROVE IsFiniteSet(0 .. m) /\ 0 .. m \subseteq Nat
    BY FS_Interval
  <2>2. QED
    BY <2>1 DEF FiniteSubsetsOf
<1>2. \E x \in W : \A y \in W : ~ (<<y, x>> \in R)
  <2>1. IsWellFoundedOn(R, FiniteSubsetsOf(Nat))
    BY FS_StrictSubsetOrderingWellFounded
  <2> HIDE DEF W, R
  <2>2. QED
    BY <1>1, <2>1, WFMin
<1>3. PICK m \in T : \A y \in W : <<y, 0 .. m>> \notin R
  BY <1>2
<1>4. ASSUME NEW n \in T, n < m PROVE FALSE
  <2>1. 0 .. n \subseteq 0 .. m /\ m \in 0 .. m /\ m \notin 0 .. n
    BY <1>4
  <2>2. <<0 .. n, 0 .. m>> \in R
    BY <2>1 DEF StrictSubsetOrdering
  <2>3. QED
    BY <1>3, <2>2
<1>5. ASSUME NEW n \in T PROVE m <= n
  <2>1. m \in Nat /\ n \in Nat /\ ~(n < m)
    BY <1>4
  <2>2. QED
    BY <2>1
<1>6. QED
  BY <1>3, <1>5, Zenon

(* Induction for a set of numbers.                                         *)
LEMMA Induction ==
    ASSUME NEW N \in Nat, NEW P, 0 \in P, \A n \in 1 .. N : n - 1 \in P => n \in P
    PROVE  \A n \in 0 .. N : n \in P
<1> DEFINE T == {n \in 0 .. N : n \notin P}
<1> SUFFICES ASSUME T # {} PROVE FALSE
  OBVIOUS
<1>1. PICK m \in T : \A n \in T : m <= n
  <2>1. T \in SUBSET Nat
    OBVIOUS
  <2> HIDE DEF T
  <2>2. QED
    BY <2>1, LeastNumber
<1>2. m \in 1 .. N /\ m - 1 \in 0 .. N /\ m - 1 \notin T
  BY <1>1
<1>3. QED
  BY <1>2

(* A value for every n is made from the one before: such a function        *)
(* exists.                                                                 *)
Iterates(f, S, a, N, h) ==
    f \in [0 .. N -> S] /\ f[0] = a /\ \A n \in 1 .. N : f[n] = h[<<f[n - 1], n>>]

LEMMA Recursion ==
    ASSUME NEW S, NEW a \in S, NEW N \in Nat, NEW h \in [S \X (1 .. N) -> S]
    PROVE  \E f : Iterates(f, S, a, N, h)
<1> DEFINE Upto(n, f) == Iterates(f, S, a, n, h)
           P == {n \in 0 .. N : \E f : Upto(n, f)}
<1>1. 0 \in P
  <2>1. Upto(0, [n \in 0 .. 0 |-> a])
    BY DEF Iterates
  <2> HIDE DEF Upto
  <2>2. QED
    BY <2>1
<1>2. ASSUME NEW n \in 1 .. N, n - 1 \in P PROVE n \in P
  <2>1. PICK f : Upto(n - 1, f)
    BY <1>2
  <2> DEFINE g == [i \in 0 .. n |-> IF i = n THEN h[<<f[n - 1], n>>] ELSE f[i]]
  <2>2. f[n - 1] \in S /\ <<f[n - 1], n>> \in S \X (1 .. N)
    BY <2>1 DEF Iterates
  <2>3. h[<<f[n - 1], n>>] \in S
    BY <2>2
  <2>4. g \in [0 .. n -> S] /\ g[0] = a
    BY <2>1, <2>3 DEF Iterates
  <2>5. ASSUME NEW i \in 1 .. n PROVE g[i] = h[<<g[i - 1], i>>]
    <3>1. CASE i = n
      <4>1. g[i] = h[<<f[n - 1], n>>] /\ g[i - 1] = f[n - 1]
        BY <3>1
      <4> HIDE DEF g
      <4>2. QED
        BY <3>1, <4>1
    <3>2. CASE i # n
      <4>1. i \in 1 .. n - 1 /\ g[i] = f[i] /\ g[i - 1] = f[i - 1]
        BY <3>2
      <4> HIDE DEF g
      <4>2. QED
        BY <2>1, <4>1 DEF Iterates
    <3>3. QED
      BY <3>1, <3>2
  <2>6. Upto(n, g)
    <3> HIDE DEF g
    <3>1. QED
      BY <2>4, <2>5 DEF Iterates
  <2> HIDE DEF Upto, g
  <2>7. QED
    BY <2>6
<1>3. N \in P
  <2> HIDE DEF P
  <2>1. QED
    BY <1>1, <1>2, Induction
<1>4. QED
  BY <1>3

-----------------------------------------------------------------------------
(* Loading a file.                                                         *)

Tables == UNION {[ids -> Annotation] : ids \in {I \in SUBSET Nat : IsFiniteSet(I)}}

LEMMA TableIs == \A db : IsTable(db) <=> db \in Tables
<1>1. ASSUME NEW db, IsTable(db) PROVE db \in Tables
  BY <1>1 DEF IsTable, Tables
<1>2. ASSUME NEW db \in Tables PROVE IsTable(db)
  <2>1. PICK I \in SUBSET Nat : IsFiniteSet(I) /\ db \in [I -> Annotation]
    BY DEF Tables
  <2>2. DOMAIN db = I
    BY <2>1
  <2>3. QED
    BY <2>1, <2>2 DEF IsTable
<1>3. QED
  BY <1>1, <1>2

LEMMA TableAdds ==
    ASSUME NEW db, IsTable(db), NEW id \in Nat, NEW a \in Annotation
    PROVE  IsTable(With(db, id, a))
<1>1. With(db, id, a) \in [{id} \cup DOMAIN db -> Annotation]
  BY DEF IsTable, With
<1>2. IsFiniteSet({id} \cup DOMAIN db)
  BY FS_AddElement DEF IsTable
<1>3. {id} \cup DOMAIN db \subseteq Nat
  BY DEF IsTable
<1>4. DOMAIN With(db, id, a) = {id} \cup DOMAIN db
  BY DEF With
<1>5. QED
  BY <1>1, <1>2, <1>3, <1>4 DEF IsTable

LEMMA TableLoses ==
    ASSUME NEW db, IsTable(db), NEW ids
    PROVE  IsTable(Without(db, ids)) /\ DOMAIN Without(db, ids) \subseteq DOMAIN db
<1>1. Without(db, ids) \in [DOMAIN db \ ids -> Annotation]
  BY DEF IsTable, Without
<1>2. IsFiniteSet(DOMAIN db \ ids)
  BY FS_Subset DEF IsTable
<1>3. DOMAIN Without(db, ids) = DOMAIN db \ ids
  BY DEF Without
<1>4. QED
  BY <1>1, <1>2, <1>3 DEF IsTable

LEMMA MaxOfTwo == \A x, y \in Nat : Max({x, y}) \in Nat /\ x <= Max({x, y}) /\ y <= Max({x, y})
<1> SUFFICES ASSUME NEW x \in Nat, NEW y \in Nat
             PROVE  Max({x, y}) \in Nat /\ x <= Max({x, y}) /\ y <= Max({x, y})
  OBVIOUS
<1>1. \E m \in {x, y} : \A n \in {x, y} : m >= n
  OBVIOUS
<1>2. QED
  BY <1>1 DEF Max

(* What a loading has made of the lines so far.                            *)
Loadings ==
    [notes : Tables, next : Nat, current : Annotation, id : Nat, in : BOOLEAN, thrown : BOOLEAN]

Below(s) == (\A id \in DOMAIN s.notes : id < s.next) /\ (s.in => s.id < s.next)

LEMMA LineKinds ==
    ASSUME NEW line \in FileLine
    PROVE  \/ line.k \in {"blank", "bad"}
           \/ line.k \in {"id", "address"} /\ line.v \in Nat
           \/ line.k = "type" /\ line.v \in Types
           \/ line.k = "color" /\ line.v \in Hues
           \/ line.k = "text" /\ line.v \in OneLineText
  BY DEF FileLine, Blank, Bad, Line

LEMMA OneLineIsText == OneLineText \subseteq AnyText
<1>1. << >> \in Seq(FileLine)
  BY EmptySeq
<1>2. QED
  BY <1>1 DEF OneLineText, AnyText

LEMMA DefaultIsAnnotation == Default \in Annotation
<1>1. << >> \in Seq(FileLine)
  BY EmptySeq
<1>2. NoText \in AnyText
  BY <1>1 DEF NoText, AnyText, Firsts, Commas
<1>3. QED
  BY <1>2 DEF Default, Annotation, Types, Hues

LEMMA EmptyIsTable == IsTable(<< >>)
  BY FS_EmptySet DEF IsTable

LEMMA FreshIsLoading == Fresh \in Loadings /\ Below(Fresh)
  BY EmptyIsTable, TableIs, DefaultIsAnnotation DEF Fresh, Loadings, Below

(* A record keeps its types and the next identifier stays above all.       *)
LEMMA TakeKeeps ==
    ASSUME NEW s \in Loadings, Below(s)
    PROVE  Take(s) \in Tables /\ \A id \in DOMAIN Take(s) : id < s.next
<1>1. IsTable(s.notes) /\ s.id \in Nat /\ s.current \in Annotation
  BY TableIs DEF Loadings
<1>2. CASE s.in
  <2>1. IsTable(With(s.notes, s.id, s.current))
    BY <1>1, TableAdds
  <2>2. DOMAIN With(s.notes, s.id, s.current) = {s.id} \cup DOMAIN s.notes
    BY DEF With
  <2>3. QED
    BY <1>2, <2>1, <2>2, TableIs DEF Take, Below
<1>3. CASE ~s.in
  BY <1>1, <1>3, TableIs DEF Take, Below
<1>4. QED
  BY <1>2, <1>3

LEMMA ParseKeeps ==
    ASSUME NEW s \in Loadings, Below(s), NEW line \in FileLine
    PROVE  Parse(s, line) \in Loadings /\ Below(Parse(s, line))
<1>1. CASE s.thrown \/ line.k = "bad"
  BY <1>1 DEF Parse, Loadings, Below
<1>2. CASE ~s.thrown /\ line.k = "blank"
  <2>1. Parse(s, line) = [s EXCEPT !.notes = Take(s), !.in = FALSE]
    BY <1>2 DEF Parse
  <2>2. QED
    BY <2>1, TakeKeeps DEF Loadings, Below
<1>3. CASE ~s.thrown /\ line.k = "id"
  <2> DEFINE m == Max({s.next, line.v + 1})
  <2>1. line.v \in Nat
    BY <1>3, LineKinds
  <2>2. m \in Nat /\ s.next <= m /\ line.v < m
    <3>1. s.next \in Nat /\ line.v + 1 \in Nat
      BY <2>1 DEF Loadings
    <3>2. m \in Nat /\ s.next <= m /\ line.v + 1 <= m
      BY <3>1, MaxOfTwo
    <3> HIDE DEF m
    <3>3. QED
      BY <2>1, <3>2
  <2>3. Parse(s, line) = [s EXCEPT !.notes = Take(s), !.current = Default, !.id = line.v,
                                   !.in = TRUE, !.next = m]
    BY <1>3 DEF Parse
  <2> HIDE DEF m
  <2>4. Parse(s, line) \in Loadings
    BY <2>1, <2>2, <2>3, TakeKeeps, DefaultIsAnnotation DEF Loadings
  <2>5. \A id \in DOMAIN Take(s) : id \in Nat
    BY TakeKeeps, TableIs DEF IsTable
  <2>6. Below(Parse(s, line))
    <3>1. s.next \in Nat
      BY DEF Loadings
    <3>2. ASSUME NEW id \in DOMAIN Take(s) PROVE id < m
      <4>1. id < s.next /\ id \in Nat
        BY <2>5, TakeKeeps
      <4>2. QED
        BY <2>2, <3>1, <4>1
    <3>3. /\ Parse(s, line).notes = Take(s) /\ Parse(s, line).id = line.v
          /\ Parse(s, line).next = m
      BY <2>3 DEF Loadings
    <3>4. QED
      BY <2>2, <3>2, <3>3 DEF Below
  <2>7. QED
    BY <2>4, <2>6
<1>4. CASE ~s.thrown /\ line.k \notin {"bad", "blank", "id"}
  <2>1. Parse(s, line) = [s EXCEPT !.current[line.k] = line.v]
    BY <1>4 DEF Parse
  <2>2. [s.current EXCEPT ![line.k] = line.v] \in Annotation
    <3>1. s.current \in Annotation
      BY DEF Loadings
    <3>2. \/ line.k = "address" /\ line.v \in Nat
          \/ line.k = "type" /\ line.v \in Types
          \/ line.k = "color" /\ line.v \in Hues
          \/ line.k = "text" /\ line.v \in AnyText
      BY <1>4, LineKinds, OneLineIsText
    <3>3. QED
      BY <3>1, <3>2 DEF Annotation
  <2>3. Parse(s, line) = [s EXCEPT !.current = [s.current EXCEPT ![line.k] = line.v]]
    BY <2>1
  <2>4. QED
    BY <2>2, <2>3 DEF Loadings, Below
<1>5. QED
  BY <1>1, <1>2, <1>3, <1>4

(* The recursion in Parsed, line by line.                                  *)
LEMMA ParsedBy ==
    ASSUME NEW lines \in Seq(FileLine)
    PROVE  \E f : /\ f[0] = Fresh /\ Parsed(lines) = f[Len(lines)]
                  /\ \A n \in 1 .. Len(lines) : f[n] = Parse(f[n - 1], lines[n])
                  /\ \A n \in 0 .. Len(lines) : f[n] \in Loadings /\ Below(f[n])
<1> DEFINE N == Len(lines)
           S == {s \in Loadings : Below(s)}
           h == [x \in S \X (1 .. N) |-> Parse(x[1], lines[x[2]])]
           Def(f) == f = [n \in 0 .. N |-> IF n = 0 THEN Fresh ELSE Parse(f[n - 1], lines[n])]
           g == CHOOSE f : Def(f)
<1>1. N \in Nat
  BY LenProperties
<1>2. ASSUME NEW s \in S, NEW n \in 1 .. N PROVE Parse(s, lines[n]) \in S
  <2>1. lines[n] \in FileLine
    BY ElementOfSeq
  <2>2. QED
    BY <2>1, ParseKeeps
<1>3. Fresh \in S
  BY FreshIsLoading
<1>4. h \in [S \X (1 .. N) -> S]
  BY <1>2
<1>5. \E f : Def(f)
  <2>1. PICK f : Iterates(f, S, Fresh, N, h)
    <3> HIDE DEF h, S, N
    <3>1. QED
      BY <1>1, <1>3, <1>4, Recursion
  <2>2. ASSUME NEW n \in 0 .. N
        PROVE  f[n] = IF n = 0 THEN Fresh ELSE Parse(f[n - 1], lines[n])
    <3>1. CASE n = 0
      BY <2>1, <3>1 DEF Iterates
    <3>2. CASE n # 0
      <4>1. n \in 1 .. N /\ n - 1 \in 0 .. N
        BY <1>1, <3>2
      <4>2. f[n - 1] \in S
        BY <2>1, <4>1 DEF Iterates
      <4>3. <<f[n - 1], n>> \in S \X (1 .. N)
        BY <4>1, <4>2
      <4>4. h[<<f[n - 1], n>>] = Parse(f[n - 1], lines[n])
        BY <4>3
      <4>5. QED
        BY <2>1, <3>2, <4>1, <4>4 DEF Iterates
    <3>3. QED
      BY <3>1, <3>2
  <2>3. f = [n \in 0 .. N |-> IF n = 0 THEN Fresh ELSE Parse(f[n - 1], lines[n])]
    BY <2>1, <2>2 DEF Iterates
  <2>4. QED
    BY <2>3
<1>6. Def(g)
  BY <1>5
<1>7. Parsed(lines) = g[N]
  BY DEF Parsed
<1> HIDE DEF g
<1>8. g[0] = Fresh
  <2>1. 0 \in 0 .. N
    BY <1>1
  <2>2. QED
    BY <1>6, <2>1
<1>9. ASSUME NEW n \in 1 .. N PROVE g[n] = Parse(g[n - 1], lines[n])
  <2>1. n \in 0 .. N /\ n # 0
    BY <1>1
  <2>2. QED
    BY <1>6, <2>1
<1>10. \A n \in 0 .. N : g[n] \in S
  <2> DEFINE P == {n \in 0 .. N : g[n] \in S}
  <2>1. 0 \in P
    BY <1>1, <1>3, <1>8
  <2>2. ASSUME NEW n \in 1 .. N, n - 1 \in P PROVE n \in P
    BY <1>1, <1>2, <1>9, <2>2
  <2>3. \A n \in 0 .. N : n \in P
    <3> HIDE DEF P
    <3>1. QED
      BY <1>1, <2>1, <2>2, Induction
  <2>4. QED
    BY <2>3
<1>11. QED
  BY <1>7, <1>8, <1>9, <1>10

ReadIsTable ==
    \A lines \in Seq(FileLine) :
        LET s == ReadFile(lines)
        IN  IsTable(s.notes) /\ s.next \in Nat /\ \A id \in DOMAIN s.notes : id < s.next

LEMMA ReadKeeps == ReadIsTable
<1> SUFFICES ASSUME NEW lines \in Seq(FileLine)
             PROVE  LET s == ReadFile(lines)
                    IN  /\ IsTable(s.notes) /\ s.next \in Nat
                        /\ \A id \in DOMAIN s.notes : id < s.next
  BY DEF ReadIsTable
<1> DEFINE s == Parsed(lines)
<1>1. s \in Loadings /\ Below(s)
  BY ParsedBy, LenProperties
<1>2. ReadFile(lines) = [s EXCEPT !.notes = IF s.thrown THEN s.notes ELSE Take(s)]
  BY DEF ReadFile
<1> HIDE DEF s
<1>3. ReadFile(lines).next = s.next /\ s.next \in Nat
  BY <1>1, <1>2 DEF Loadings
<1>4. ReadFile(lines).notes = IF s.thrown THEN s.notes ELSE Take(s)
  BY <1>1, <1>2 DEF Loadings
<1>5. IsTable(Take(s)) /\ \A id \in DOMAIN Take(s) : id < s.next
  BY <1>1, TakeKeeps, TableIs
<1>6. IsTable(s.notes) /\ \A id \in DOMAIN s.notes : id < s.next
  BY <1>1, TableIs DEF Loadings, Below
<1>7. QED
  BY <1>3, <1>4, <1>5, <1>6

-----------------------------------------------------------------------------
(* Rows.                                                                   *)

Row == [id : Nat, note : Annotation]
Imports == [notes : Tables, next : Nat, thrown : BOOLEAN]
AllBelow(s) == \A id \in DOMAIN s.notes : id < s.next

LEMMA ImportKeeps ==
    ASSUME NEW s \in Imports, AllBelow(s), NEW row \in Row
    PROVE  Import(s, row) \in Imports /\ AllBelow(Import(s, row))
<1> DEFINE text == row.note.text
           note == IF text.comma = "none" THEN row.note
                   ELSE [row.note EXCEPT !.text.comma = "none", !.color = "of the text"]
           m == Max({s.next, row.id + 1})
<1>1. CASE s.thrown \/ text.more # << >>
  BY <1>1 DEF Import
<1>2. CASE ~(s.thrown \/ text.more # << >>) /\ text.comma = "word"
  <2>1. Import(s, row) = [s EXCEPT !.thrown = TRUE]
    BY <1>2 DEF Import
  <2>2. QED
    BY <2>1 DEF Imports, AllBelow
<1>3. CASE ~(s.thrown \/ text.more # << >>) /\ text.comma # "word"
  <2>1. Import(s, row) = [s EXCEPT !.next = m, !.notes = With(s.notes, row.id, note)]
    BY <1>3 DEF Import
  <2>2. note \in Annotation
    <3>1. row.note \in Annotation /\ text \in AnyText
      BY DEF Row, Annotation
    <3>2. [text EXCEPT !.comma = "none"] \in AnyText
      BY <3>1 DEF AnyText, Commas
    <3> HIDE DEF text
    <3>3. [[row.note EXCEPT !.text = [text EXCEPT !.comma = "none"]] EXCEPT !.color = "of the text"]
             \in Annotation
      BY <3>1, <3>2 DEF Annotation, Hues
    <3>4. QED
      BY <3>1, <3>3 DEF text
  <2>3. m \in Nat /\ s.next <= m /\ row.id < m
    <3>1. s.next \in Nat /\ row.id \in Nat /\ row.id + 1 \in Nat
      BY DEF Imports, Row
    <3>2. m \in Nat /\ s.next <= m /\ row.id + 1 <= m
      BY <3>1, MaxOfTwo
    <3> HIDE DEF m
    <3>3. QED
      BY <3>1, <3>2
  <2> HIDE DEF m, note
  <2>4. With(s.notes, row.id, note) \in Tables
    BY <2>2, TableAdds, TableIs DEF Imports, Row
  <2>5. /\ Import(s, row).notes = With(s.notes, row.id, note)
        /\ Import(s, row).next = m /\ Import(s, row) \in Imports
    BY <2>1, <2>3, <2>4 DEF Imports
  <2>6. ASSUME NEW id \in DOMAIN With(s.notes, row.id, note) PROVE id < m
    <3>1. id = row.id \/ id \in DOMAIN s.notes
      BY DEF With
    <3>2. CASE id \in DOMAIN s.notes
      <4>1. id < s.next /\ id \in Nat /\ s.next \in Nat
        BY <3>2, TableIs DEF AllBelow, Imports, IsTable
      <4>2. QED
        BY <2>3, <4>1
    <3>3. QED
      BY <2>3, <3>1, <3>2
  <2>7. QED
    BY <2>5, <2>6 DEF AllBelow
<1>4. QED
  BY <1>1, <1>2, <1>3

(* The recursion in Imported, row by row.                                  *)
LEMMA ImportedKeeps ==
    ASSUME NEW rows \in Seq(Row)
    PROVE  Imported(rows) \in Imports /\ AllBelow(Imported(rows))
<1> DEFINE N == Len(rows)
           none == [notes |-> << >>, next |-> 1, thrown |-> FALSE]
           S == {s \in Imports : AllBelow(s)}
           h == [x \in S \X (1 .. N) |-> Import(x[1], rows[x[2]])]
           Def(f) == f = [n \in 0 .. N |-> IF n = 0 THEN none ELSE Import(f[n - 1], rows[n])]
           g == CHOOSE f : Def(f)
<1>1. N \in Nat
  BY LenProperties
<1>2. ASSUME NEW s \in S, NEW n \in 1 .. N PROVE Import(s, rows[n]) \in S
  <2>1. rows[n] \in Row
    BY ElementOfSeq
  <2>2. QED
    BY <2>1, ImportKeeps
<1>3. none \in S
  BY EmptyIsTable, TableIs DEF Imports, AllBelow
<1>4. h \in [S \X (1 .. N) -> S]
  BY <1>2
<1>5. \E f : Def(f)
  <2>1. PICK f : Iterates(f, S, none, N, h)
    <3> HIDE DEF h, S, N, none
    <3>1. QED
      BY <1>1, <1>3, <1>4, Recursion
  <2>2. ASSUME NEW n \in 0 .. N
        PROVE  f[n] = IF n = 0 THEN none ELSE Import(f[n - 1], rows[n])
    <3>1. CASE n = 0
      BY <2>1, <3>1 DEF Iterates
    <3>2. CASE n # 0
      <4>1. n \in 1 .. N /\ n - 1 \in 0 .. N
        BY <1>1, <3>2
      <4>2. f[n - 1] \in S
        BY <2>1, <4>1 DEF Iterates
      <4>3. <<f[n - 1], n>> \in S \X (1 .. N)
        BY <4>1, <4>2
      <4>4. h[<<f[n - 1], n>>] = Import(f[n - 1], rows[n])
        BY <4>3
      <4>5. QED
        BY <2>1, <3>2, <4>1, <4>4 DEF Iterates
    <3>3. QED
      BY <3>1, <3>2
  <2>3. f = [n \in 0 .. N |-> IF n = 0 THEN none ELSE Import(f[n - 1], rows[n])]
    BY <2>1, <2>2 DEF Iterates
  <2>4. QED
    BY <2>3
<1>6. Def(g)
  BY <1>5
<1>7. Imported(rows) = g[N]
  BY DEF Imported
<1> HIDE DEF g
<1>8. ASSUME NEW n \in 0 .. N
      PROVE  g[n] = IF n = 0 THEN none ELSE Import(g[n - 1], rows[n])
  BY <1>6
<1> DEFINE P == {n \in 0 .. N : g[n] \in S}
<1>9. 0 \in P
  BY <1>1, <1>3, <1>8
<1>10. ASSUME NEW n \in 1 .. N, n - 1 \in P PROVE n \in P
  <2>1. n \in 0 .. N /\ n # 0 /\ g[n - 1] \in S
    BY <1>1, <1>10
  <2>2. QED
    BY <1>2, <1>8, <2>1
<1>11. \A n \in 0 .. N : n \in P
  <2> HIDE DEF P
  <2>1. QED
    BY <1>1, <1>9, <1>10, Induction
<1>12. QED
  BY <1>1, <1>7, <1>11

-----------------------------------------------------------------------------
(* The lines of a file, entry by entry.                                    *)

LEMMA FlattenBy ==
    ASSUME NEW E, NEW seqs \in Seq(Seq(E)), Len(seqs) # 0
    PROVE  \E f : /\ f[1] = seqs[1] /\ FlattenSeq(seqs) = f[Len(seqs)]
                  /\ \A n \in 2 .. Len(seqs) : f[n] = f[n - 1] \o seqs[n]
                  /\ \A n \in 1 .. Len(seqs) : f[n] \in Seq(E)
<1> DEFINE N == Len(seqs)
           h == [x \in Seq(E) \X (1 .. N - 1) |-> x[1] \o seqs[x[2] + 1]]
           Def(f) == f = [n \in 1 .. N |-> IF n = 1 THEN seqs[n] ELSE f[n - 1] \o seqs[n]]
           g == CHOOSE f : Def(f)
<1>1. N \in Nat /\ N - 1 \in Nat
  BY LenProperties
<1>2. \A n \in 1 .. N : seqs[n] \in Seq(E)
  BY ElementOfSeq
<1>3. ASSUME NEW x \in Seq(E), NEW n \in 1 .. N PROVE x \o seqs[n] \in Seq(E)
  BY <1>2, ConcatProperties
<1>4. h \in [Seq(E) \X (1 .. N - 1) -> Seq(E)]
  <2>1. ASSUME NEW x \in Seq(E) \X (1 .. N - 1) PROVE x[1] \o seqs[x[2] + 1] \in Seq(E)
    <3>1. x[1] \in Seq(E) /\ x[2] + 1 \in 1 .. N
      BY <1>1
    <3>2. QED
      BY <1>3, <3>1
  <2>2. QED
    BY <2>1
<1>5. \E f : Def(f)
  <2>1. PICK f : Iterates(f, Seq(E), seqs[1], N - 1, h)
    <3>1. seqs[1] \in Seq(E)
      BY <1>1, <1>2
    <3> HIDE DEF h, N
    <3>2. QED
      BY <1>1, <1>4, <3>1, Recursion
  <2> DEFINE e == [n \in 1 .. N |-> f[n - 1]]
  <2>2. ASSUME NEW n \in 1 .. N
        PROVE  e[n] = IF n = 1 THEN seqs[n] ELSE e[n - 1] \o seqs[n]
    <3>1. CASE n = 1
      BY <2>1, <3>1 DEF Iterates
    <3>2. CASE n # 1
      <4>1. n - 1 \in 1 .. N - 1 /\ n - 2 \in 0 .. N - 1 /\ n - 1 \in 1 .. N
        BY <1>1, <3>2
      <4>2. e[n] = f[n - 1] /\ e[n - 1] = f[n - 2]
        BY <4>1
      <4>3. f[n - 2] \in Seq(E)
        BY <2>1, <4>1 DEF Iterates
      <4>4. f[n - 1] = h[<<f[n - 2], n - 1>>]
        <5>1. (n - 1) - 1 = n - 2
          OBVIOUS
        <5>2. f[n - 1] = h[<<f[(n - 1) - 1], n - 1>>]
          BY <2>1, <4>1 DEF Iterates
        <5>3. QED
          BY <5>1, <5>2
      <4>5. <<f[n - 2], n - 1>> \in Seq(E) \X (1 .. N - 1)
        BY <4>1, <4>3
      <4>6. h[<<f[n - 2], n - 1>>] = f[n - 2] \o seqs[(n - 1) + 1]
        BY <4>5
      <4>7. (n - 1) + 1 = n
        OBVIOUS
      <4> HIDE DEF e, h
      <4>8. QED
        BY <3>2, <4>2, <4>4, <4>6, <4>7
    <3>3. QED
      BY <3>1, <3>2
  <2>3. e = [n \in 1 .. N |-> IF n = 1 THEN seqs[n] ELSE e[n - 1] \o seqs[n]]
    BY <2>2
  <2>4. QED
    BY <2>3
<1>6. Def(g)
  BY <1>5
<1>7. FlattenSeq(seqs) = g[N]
  BY DEF FlattenSeq
<1> HIDE DEF g
<1>8. ASSUME NEW n \in 1 .. N
      PROVE  g[n] = IF n = 1 THEN seqs[n] ELSE g[n - 1] \o seqs[n]
  BY <1>6
<1>9. g[1] = seqs[1]
  BY <1>1, <1>8
<1>10. ASSUME NEW n \in 2 .. N PROVE g[n] = g[n - 1] \o seqs[n]
  <2>1. n \in 1 .. N /\ n # 1
    BY <1>1
  <2>2. QED
    BY <1>8, <2>1
<1> DEFINE P == {n \in 0 .. N - 1 : g[n + 1] \in Seq(E)}
<1>11. 0 \in P
  BY <1>1, <1>2, <1>9
<1>12. ASSUME NEW n \in 1 .. N - 1, n - 1 \in P PROVE n \in P
  <2>1. n + 1 \in 2 .. N /\ (n + 1) - 1 = n /\ (n - 1) + 1 = n /\ n + 1 \in 1 .. N
    BY <1>1
  <2>2. g[n] \in Seq(E)
    BY <1>12, <2>1
  <2>3. g[n + 1] = g[n] \o seqs[n + 1]
    BY <1>10, <2>1
  <2>4. g[n + 1] \in Seq(E)
    BY <1>3, <2>1, <2>2, <2>3
  <2>5. QED
    BY <1>1, <2>4
<1>13. \A n \in 0 .. N - 1 : n \in P
  <2> HIDE DEF P
  <2>1. QED
    BY <1>1, <1>11, <1>12, Induction
<1>14. ASSUME NEW n \in 1 .. N PROVE g[n] \in Seq(E)
  <2>1. n - 1 \in 0 .. N - 1 /\ (n - 1) + 1 = n
    BY <1>1
  <2>2. QED
    BY <1>13, <2>1
<1>15. QED
  BY <1>7, <1>9, <1>10, <1>14

LEMMA FlattenType ==
    ASSUME NEW E, NEW seqs \in Seq(Seq(E))
    PROVE  FlattenSeq(seqs) \in Seq(E)
<1>1. CASE Len(seqs) = 0
  <2>1. FlattenSeq(seqs) = seqs
    BY <1>1 DEF FlattenSeq
  <2>2. seqs = << >>
    BY <1>1, EmptySeq
  <2>3. QED
    BY <2>1, <2>2, EmptySeq
<1>2. CASE Len(seqs) # 0
  <2>1. Len(seqs) \in 1 .. Len(seqs)
    BY <1>2, LenProperties
  <2>2. QED
    BY <1>2, <2>1, FlattenBy
<1>3. QED
  BY <1>1, <1>2

LEMMA EntryType ==
    ASSUME NEW id \in Nat, NEW a \in Annotation
    PROVE  EntryLines(id, a) \in Seq(FileLine)
<1> DEFINE t == [a.text EXCEPT !.more = << >>]
           top == <<Line("id", id), Line("address", a.address), Line("type", a.type),
                    Line("text", t)>>
           end == <<Line("color", a.color), Blank>>
<1>1. a.text \in AnyText /\ t \in OneLineText
  BY DEF Annotation, AnyText, OneLineText
<1>2. /\ Line("id", id) \in FileLine /\ Line("address", a.address) \in FileLine
      /\ Line("type", a.type) \in FileLine
  BY DEF Annotation, FileLine, Line
<1>3. Line("text", t) \in FileLine /\ Blank \in FileLine /\ Line("color", a.color) \in FileLine
  <2> HIDE DEF t
  <2>1. QED
    BY <1>1 DEF Annotation, FileLine, Line
<1>4. a.text.more \in Seq(FileLine)
  BY <1>1 DEF AnyText
<1> HIDE DEF t
<1>5. top \in Seq(FileLine) /\ end \in Seq(FileLine)
  BY <1>2, <1>3
<1>6. EntryLines(id, a) = top \o a.text.more \o end
  BY DEF EntryLines, t
<1> HIDE DEF top, end
<1>7. top \o a.text.more \in Seq(FileLine)
  BY <1>4, <1>5, ConcatProperties
<1>8. QED
  BY <1>5, <1>6, <1>7, ConcatProperties

(* The orders of a table list each of its identifiers once.                *)
LEMMA OrderLists ==
    ASSUME NEW db, IsTable(db), NEW order \in SetToSeqs(DOMAIN db)
    PROVE  /\ order \in Seq(Nat) /\ Len(order) \in Nat /\ DOMAIN order = 1 .. Len(order)
           /\ \A n \in DOMAIN order : order[n] \in DOMAIN db
           /\ \A m, n \in DOMAIN order : order[m] = order[n] => m = n
           /\ \A id \in DOMAIN db : \E n \in DOMAIN order : order[n] = id
<1> DEFINE C == Cardinality(DOMAIN db)
<1>1. IsFiniteSet(DOMAIN db) /\ C \in Nat /\ DOMAIN db \subseteq Nat
  BY FS_CardinalityType DEF IsTable
<1>2. order \in [1 .. C -> DOMAIN db] /\ \A m, n \in 1 .. C : m # n => order[m] # order[n]
  BY DEF SetToSeqs
<1> HIDE DEF C
<1>3. order \in Seq(Nat) /\ Len(order) = C
  BY <1>1, <1>2
<1>4. ASSUME NEW id \in DOMAIN db, \A n \in 1 .. C : order[n] # id PROVE FALSE
  <2> DEFINE T == DOMAIN db \ {id}
  <2>1. IsFiniteSet(T) /\ Cardinality(T) = C - 1
    BY <1>1, FS_RemoveElement DEF C
  <2>2. IsFiniteSet(1 .. C) /\ Cardinality(1 .. C) = C
    BY <1>1, FS_Interval
  <2>3. order \in [1 .. C -> T]
    BY <1>2, <1>4
  <2> HIDE DEF T
  <2>4. \E x, y \in 1 .. C : x # y /\ order[x] = order[y]
    BY <1>1, <2>1, <2>2, <2>3, FS_PigeonHole
  <2>5. QED
    BY <1>2, <2>4
<1>5. QED
  BY <1>1, <1>2, <1>3, <1>4

LEMMA EntriesType ==
    ASSUME NEW db, IsTable(db), NEW order \in SetToSeqs(DOMAIN db)
    PROVE  [n \in DOMAIN order |-> EntryLines(order[n], db[order[n]])] \in Seq(Seq(FileLine))
<1> DEFINE e == [n \in DOMAIN order |-> EntryLines(order[n], db[order[n]])]
           N == Len(order)
<1>1. N \in Nat /\ DOMAIN order = 1 .. N
  BY OrderLists
<1>2. ASSUME NEW n \in 1 .. N PROVE EntryLines(order[n], db[order[n]]) \in Seq(FileLine)
  <2>1. order[n] \in DOMAIN db /\ order[n] \in Nat
    BY <1>1, OrderLists DEF IsTable
  <2>2. db[order[n]] \in Annotation
    BY <2>1 DEF IsTable
  <2>3. QED
    BY <2>1, <2>2, EntryType
<1>3. e \in [1 .. N -> Seq(FileLine)]
  BY <1>1, <1>2
<1> HIDE DEF e, N
<1>4. e \in Seq(Seq(FileLine))
  BY <1>1, <1>3
<1>5. QED
  BY <1>4 DEF e

LEMMA LinesType ==
    ASSUME NEW db, IsTable(db), NEW order \in SetToSeqs(DOMAIN db)
    PROVE  Lines(db, order) \in Seq(FileLine)
  BY EntriesType, FlattenType DEF Lines

LEMMA CutType ==
    ASSUME NEW line \in FileLine, NEW c \in CutLine(line)
    PROVE  c \in FileLine
<1>1. c \in {Bad, Line("address", 0), Line("text", NoText), Line("color", "a part")}
  BY DEF CutLine
<1>2. NoText \in OneLineText
  BY DEF NoText, OneLineText, Firsts, Commas
<1>3. Line("text", NoText) \in FileLine
  BY <1>2 DEF FileLine, Line
<1>4. Line("color", "a part") \in FileLine
  BY DEF FileLine, Line, Hues
<1>5. Line("address", 0) \in FileLine /\ Bad \in FileLine
  BY DEF FileLine, Line
<1>6. QED
  BY <1>1, <1>3, <1>4, <1>5

-----------------------------------------------------------------------------
(* What the annotations are.                                               *)

LEMMA NoteType ==
    ASSUME NEW place \in Places, NEW type \in Types, NEW text \in AnyText
    PROVE  Note(place, type, text) \in Annotation
  BY DefaultIsAnnotation, AnnotationsAssumption DEF Note, Annotation

LEMMA RecordKeeps ==
    ASSUME NEW db, IsTable(db), \A id \in DOMAIN db : id < next, next \in Nat,
           NEW note \in Annotation, Record(db, note)
    PROVE  NotesType' /\ IdsAreNew'
<1>1. notes' = With(db, next, note) /\ next' = next + 1
  BY DEF Record
<1>2. IsTable(With(db, next, note)) /\ DOMAIN With(db, next, note) = {next} \cup DOMAIN db
  BY TableAdds DEF With
<1>3. ASSUME NEW id \in {next} \cup DOMAIN db PROVE id < next + 1
  BY <1>3 DEF IsTable
<1>4. IsTable(notes') /\ next' \in Nat
  BY <1>1, <1>2
<1>5. \A id \in DOMAIN notes' : id < next'
  BY <1>1, <1>2, <1>3
<1>6. QED
  BY <1>4, <1>5 DEF NotesType, IdsAreNew

LEMMA EmptyKeeps == notes' = << >> /\ next' = 1 => NotesType' /\ IdsAreNew'
  BY EmptyIsTable DEF NotesType, IdsAreNew

(* Every action leaves a table of annotations, with the next identifier    *)
(* above all of them.                                                      *)
LEMMA NotesStep ==
    ASSUME NotesType, StoredType, IdsAreNew, AnnotationsNext
    PROVE  NotesType' /\ IdsAreNew'
<1>1. IsTable(notes) /\ next \in Nat /\ \A id \in DOMAIN notes : id < next
  BY DEF NotesType, IdsAreNew
<1>2. ASSUME NEW ids
      PROVE  IsTable(Without(notes, ids)) /\ \A id \in DOMAIN Without(notes, ids) : id < next
  BY <1>1, TableLoses
<1>3. ASSUME NEW place \in Places, NEW text \in Texts
      PROVE  /\ AddBookmark(place, text) => NotesType' /\ IdsAreNew'
             /\ SetLabel(place, text) => NotesType' /\ IdsAreNew'
             /\ SetType(place, text) => NotesType' /\ IdsAreNew'
  <2>1. text \in AnyText
    BY AnnotationsAssumption
  <2>2. /\ Note(place, "Bookmark", text) \in Annotation
        /\ Note(place, "Label", text) \in Annotation
        /\ Note(place, "TypeInfo", text) \in Annotation
    <3>1. "Bookmark" \in Types /\ "Label" \in Types /\ "TypeInfo" \in Types
      BY DEF Types
    <3>2. QED
      BY <2>1, <3>1, NoteType
  <2>3. CASE AddBookmark(place, text)
    BY <1>1, <2>2, <2>3, RecordKeeps DEF AddBookmark
  <2>4. CASE SetLabel(place, text)
    BY <1>1, <1>2, <2>2, <2>4, RecordKeeps DEF SetLabel
  <2>5. CASE SetType(place, text)
    BY <1>1, <2>2, <2>5, RecordKeeps DEF SetType
  <2>6. QED
    BY <2>3, <2>4, <2>5
<1>4. ASSUME NEW place \in Places, NEW text \in Texts, AddComment(place, text)
      PROVE  NotesType' /\ IdsAreNew'
  <2>1. text \in AnyText
    BY AnnotationsAssumption
  <2>2. CASE Of(notes, place, "Comment") = {}
    <3>1. Record(notes, Note(place, "Comment", text))
      BY <1>4, <2>2 DEF AddComment
    <3>2. "Comment" \in Types
      BY DEF Types
    <3>3. Note(place, "Comment", text) \in Annotation
      BY <2>1, <3>2, NoteType
    <3>4. QED
      BY <1>1, <3>1, <3>3, RecordKeeps
  <2>3. CASE Of(notes, place, "Comment") # {}
    <3>1. PICK id \in Of(notes, place, "Comment") :
             notes' = [notes EXCEPT ![id].text = text] /\ next' = next
      BY <1>4, <2>3 DEF AddComment
    <3>2. id \in DOMAIN notes /\ notes[id] \in Annotation
      BY <1>1 DEF Of, IsTable
    <3>3. [notes[id] EXCEPT !.text = text] \in Annotation
      BY <2>1, <3>2 DEF Annotation
    <3>4. notes' = [notes EXCEPT ![id] = [notes[id] EXCEPT !.text = text]]
      BY <3>1
    <3>5. DOMAIN notes' = DOMAIN notes /\ notes' \in [DOMAIN notes -> Annotation]
      BY <1>1, <3>2, <3>3, <3>4 DEF IsTable
    <3>6. IsTable(notes') /\ \A i \in DOMAIN notes' : i < next'
      BY <1>1, <3>1, <3>5 DEF IsTable
    <3>7. QED
      BY <1>1, <3>1, <3>6 DEF NotesType, IdsAreNew
  <2>4. QED
    BY <2>2, <2>3
<1>5. ASSUME NEW place \in Places, NEW color \in Colors, SetColor(place, color)
      PROVE  NotesType' /\ IdsAreNew'
  <2> DEFINE note == [Note(place, "Color", NoText) EXCEPT !.color = color]
  <2>1. NoText \in AnyText /\ "Color" \in Types
    BY DefaultIsAnnotation DEF Default, Annotation, Types
  <2>2. Note(place, "Color", NoText) \in Annotation
    BY <2>1, NoteType
  <2>3. note \in Annotation
    BY <2>2 DEF Annotation, Hues
  <2>4. Record(Without(notes, Of(notes, place, "Color")), note)
    BY <1>5 DEF SetColor
  <2> HIDE DEF note
  <2>5. QED
    BY <1>1, <1>2, <2>3, <2>4, RecordKeeps
<1>6. ASSUME NEW id \in DOMAIN notes, RemoveNote(id) PROVE NotesType' /\ IdsAreNew'
  <2>1. notes' = Without(notes, {id}) /\ next' = next
    BY <1>6 DEF RemoveNote
  <2>2. QED
    BY <1>1, <1>2, <2>1 DEF NotesType, IdsAreNew
<1>7. CASE Clear \/ CrashInSave \/ LoadSession
  BY <1>7, EmptyKeeps DEF Clear, CrashInSave, LoadSession
<1>8. CASE Save \/ ExportCsv \/ SaveSession
  <2>1. notes' = notes /\ next' = next
    BY <1>8 DEF Save, ExportCsv, SaveSession
  <2>2. QED
    BY <1>1, <2>1 DEF NotesType, IdsAreNew
<1>9. CASE Load
  <2>1. CASE stored.form = "lines"
    <3> DEFINE s == ReadFile(stored.lines)
    <3>1. notes' = s.notes /\ next' = s.next
      BY <1>9, <2>1 DEF Load
    <3>2. IsTable(s.notes) /\ s.next \in Nat /\ \A id \in DOMAIN s.notes : id < s.next
      BY <2>1, ReadKeeps DEF StoredType, ReadIsTable
    <3> HIDE DEF s
    <3>3. QED
      BY <3>1, <3>2 DEF NotesType, IdsAreNew
  <2>2. CASE stored.form # "lines"
    BY <1>9, <2>2, EmptyKeeps DEF Load
  <2>3. QED
    BY <2>1, <2>2
<1>10. CASE ImportCsv
  <2> DEFINE s == Imported(stored.rows)
  <2>1. notes' = s.notes /\ next' = s.next
    BY <1>10 DEF ImportCsv
  <2>2. stored.rows \in Seq(Row)
    BY <1>10 DEF ImportCsv, StoredType, Row
  <2>3. s \in Imports /\ AllBelow(s)
    BY <2>2, ImportedKeeps
  <2> HIDE DEF s
  <2>4. IsTable(s.notes) /\ s.next \in Nat /\ \A id \in DOMAIN s.notes : id < s.next
    BY <2>3, TableIs DEF Imports, AllBelow
  <2>5. QED
    BY <2>1, <2>4 DEF NotesType, IdsAreNew
<1>11. QED
  BY <1>3, <1>4, <1>5, <1>6, <1>7, <1>8, <1>9, <1>10 DEF AnnotationsNext

-----------------------------------------------------------------------------
(* What is in the file.                                                    *)

LEMMA PrefixType ==
    ASSUME NEW lines \in Seq(FileLine), NEW n \in DOMAIN lines,
           NEW cut \in {<< >>} \cup {<<c>> : c \in CutLine(lines[n])}
    PROVE  /\ SubSeq(lines, 1, n - 1) \in Seq(FileLine) /\ cut \in Seq(FileLine)
           /\ SubSeq(lines, 1, n - 1) \o cut \in Seq(FileLine)
<1>1. n \in 1 .. Len(lines) /\ Len(lines) \in Nat
  BY LenProperties
<1>2. SubSeq(lines, 1, n - 1) \in Seq(FileLine)
  <2>1. \A i \in 1 .. n - 1 : lines[i] \in FileLine
    BY <1>1, ElementOfSeq
  <2>2. QED
    BY <1>1, <2>1, SubSeqProperties
<1>3. lines[n] \in FileLine
  BY <1>1, ElementOfSeq
<1>4. cut \in Seq(FileLine)
  <2>1. CASE cut = << >>
    BY <2>1, EmptySeq
  <2>2. ASSUME NEW c \in CutLine(lines[n]), cut = <<c>> PROVE cut \in Seq(FileLine)
    <3>1. c \in FileLine
      BY <1>3, CutType
    <3>2. QED
      BY <2>2, <3>1
  <2>3. QED
    BY <2>1, <2>2
<1>5. QED
  BY <1>2, <1>4, ConcatProperties

LEMMA FileStep ==
    ASSUME NotesType, StoredType, FileInv, AnnotationsNext
    PROVE  StoredType' /\ FileInv'
<1>1. IsTable(notes)
  BY DEF NotesType
<1>2. CASE UNCHANGED <<stored, saved>>
  BY <1>2 DEF StoredType, FileInv
<1>3. CASE Save
  <2>1. PICK order \in SetToSeqs(DOMAIN notes) :
            /\ stored' = [form |-> "lines", lines |-> Lines(notes, order)]
            /\ saved' = [notes |-> notes, order |-> order, whole |-> TRUE]
    BY <1>3 DEF Save, Orders
  <2>2. Lines(notes, order) \in Seq(FileLine)
    BY <1>1, LinesType
  <2>3. StoredType'
    BY <2>1, <2>2 DEF StoredType
  <2>4. saved'.notes = notes /\ saved'.order = order /\ saved'.whole
        /\ stored'.lines = Lines(notes, order)
    BY <2>1
  <2>5. FileInv'
    BY <1>1, <2>4 DEF FileInv
  <2>6. QED
    BY <2>3, <2>5
<1>4. CASE CrashInSave
  <2> DEFINE Cut(order, n, cut) ==
                 /\ stored' = [form |-> "lines",
                               lines |-> SubSeq(Lines(notes, order), 1, n - 1) \o cut]
                 /\ saved' = [notes |-> notes, order |-> order, whole |-> FALSE]
  <2>1. PICK order \in SetToSeqs(DOMAIN notes) :
            \E n \in DOMAIN Lines(notes, order) :
               \E cut \in {<< >>} \cup {<<c>> : c \in CutLine(Lines(notes, order)[n])} :
                  Cut(order, n, cut)
    BY <1>4 DEF CrashInSave, Orders
  <2>2. PICK n \in DOMAIN Lines(notes, order) :
               \E cut \in {<< >>} \cup {<<c>> : c \in CutLine(Lines(notes, order)[n])} :
                  Cut(order, n, cut)
    BY <2>1
  <2>3. PICK cut \in {<< >>} \cup {<<c>> : c \in CutLine(Lines(notes, order)[n])} :
                  Cut(order, n, cut)
    BY <2>2
  <2>4. SubSeq(Lines(notes, order), 1, n - 1) \o cut \in Seq(FileLine)
    BY <1>1, LinesType, PrefixType
  <2>5. StoredType'
    BY <2>3, <2>4 DEF StoredType
  <2>6. saved'.notes = notes /\ saved'.order = order /\ ~saved'.whole
        /\ stored'.lines = SubSeq(Lines(notes, order), 1, n - 1) \o cut
    BY <2>3
  <2>7. FileInv'
    BY <1>1, <2>6 DEF FileInv
  <2>8. QED
    BY <2>5, <2>7
<1>5. CASE ExportCsv
  <2>1. PICK order \in SetToSeqs(DOMAIN notes) :
            stored' = [form |-> "rows", rows |->
                [n \in DOMAIN order |-> [id |-> order[n], note |-> notes[order[n]]]]]
    BY <1>5 DEF ExportCsv, Orders
  <2> DEFINE rows == [n \in DOMAIN order |-> [id |-> order[n], note |-> notes[order[n]]]]
  <2>2. ASSUME NEW n \in DOMAIN order PROVE [id |-> order[n], note |-> notes[order[n]]] \in Row
    BY <1>1, OrderLists DEF IsTable, Row
  <2>3. Len(order) \in Nat /\ DOMAIN order = 1 .. Len(order)
    BY <1>1, OrderLists
  <2>4. rows \in [1 .. Len(order) -> Row]
    BY <2>2, <2>3
  <2> HIDE DEF rows
  <2>5. rows \in Seq(Row)
    BY <2>3, <2>4
  <2>6. stored'.form = "rows" /\ stored'.rows = rows
    BY <2>1 DEF rows
  <2>7. QED
    BY <2>5, <2>6 DEF StoredType, FileInv, Row
<1>6. CASE SaveSession
  BY <1>6 DEF SaveSession, StoredType, FileInv
<1>7. QED
  BY <1>2, <1>3, <1>4, <1>5, <1>6
  DEF AnnotationsNext, AddBookmark, AddComment, SetLabel, SetType, SetColor, RemoveNote, Clear, Load,
      ImportCsv, LoadSession

-----------------------------------------------------------------------------
(* What was saved comes back: the lines of an entry with a text of one     *)
(* line are six, and read one after the other they make the entry again.   *)

LEMMA EntryOf ==
    ASSUME NEW id \in Nat, NEW a \in Annotation, a.text.more = << >>
    PROVE  LET e == EntryLines(id, a)
           IN  /\ e \in Seq(FileLine) /\ Len(e) = 6
               /\ e[1] = Line("id", id) /\ e[2] = Line("address", a.address)
               /\ e[3] = Line("type", a.type) /\ e[4] = Line("text", a.text)
               /\ e[5] = Line("color", a.color) /\ e[6] = Blank
<1> DEFINE t == [a.text EXCEPT !.more = << >>]
           top == <<Line("id", id), Line("address", a.address), Line("type", a.type),
                    Line("text", t)>>
           end == <<Line("color", a.color), Blank>>
           All == {top[1], top[2], top[3], top[4], end[1], end[2]}
<1>1. t = a.text
  BY DEF Annotation, AnyText
<1>2. top \in Seq(All) /\ end \in Seq(All) /\ Len(top) = 4 /\ Len(end) = 2
  OBVIOUS
<1>3. EntryLines(id, a) = top \o << >> \o end
  BY DEF EntryLines
<1> HIDE DEF top, end, All
<1>4. top \o << >> = top
  BY <1>2, ConcatEmptySeq
<1>5. EntryLines(id, a) = top \o end
  BY <1>3, <1>4
<1>6. /\ Len(top \o end) = 6
      /\ \A i \in 1 .. 6 : (top \o end)[i] = IF i <= 4 THEN top[i] ELSE end[i - 4]
  <2>1. /\ Len(top \o end) = Len(top) + Len(end)
        /\ \A i \in 1 .. Len(top) + Len(end) :
              (top \o end)[i] = IF i <= Len(top) THEN top[i] ELSE end[i - Len(top)]
    BY <1>2, ConcatProperties, Zenon
  <2>2. Len(top) + Len(end) = 6
    BY <1>2
  <2>3. QED
    BY <1>2, <2>1, <2>2
<1>7. /\ top[1] = Line("id", id) /\ top[2] = Line("address", a.address)
      /\ top[3] = Line("type", a.type) /\ top[4] = Line("text", a.text)
      /\ end[1] = Line("color", a.color) /\ end[2] = Blank
  <2> HIDE DEF t
  <2>1. QED
    BY <1>1 DEF top, end
<1>8. EntryLines(id, a) \in Seq(FileLine)
  BY EntryType
<1>9. /\ (top \o end)[1] = top[1] /\ (top \o end)[2] = top[2] /\ (top \o end)[3] = top[3]
      /\ (top \o end)[4] = top[4] /\ (top \o end)[5] = end[1] /\ (top \o end)[6] = end[2]
  BY <1>6
<1>10. QED
  BY <1>5, <1>6, <1>7, <1>8, <1>9

(* Six lines at a time.                                                    *)
LEMMA FlattenSixes ==
    ASSUME NEW E, NEW seqs \in Seq(Seq(E)), \A n \in 1 .. Len(seqs) : Len(seqs[n]) = 6
    PROVE  /\ Len(FlattenSeq(seqs)) = 6 * Len(seqs)
           /\ \A n \in 1 .. Len(seqs), j \in 1 .. 6 :
                 FlattenSeq(seqs)[6 * (n - 1) + j] = seqs[n][j]
<1> DEFINE N == Len(seqs)
<1>1. N \in Nat
  BY LenProperties
<1>2. CASE N = 0
  <2>1. FlattenSeq(seqs) = seqs
    BY <1>2 DEF FlattenSeq
  <2>2. QED
    BY <1>2, <2>1
<1>3. CASE N # 0
  <2>1. PICK f : /\ f[1] = seqs[1] /\ FlattenSeq(seqs) = f[N]
                 /\ \A n \in 2 .. N : f[n] = f[n - 1] \o seqs[n]
                 /\ \A n \in 1 .. N : f[n] \in Seq(E)
    BY <1>3, FlattenBy
  <2> DEFINE Good(n) == /\ Len(f[n]) = 6 * n
                        /\ \A m \in 1 .. n, j \in 1 .. 6 : f[n][6 * (m - 1) + j] = seqs[m][j]
             P == {n \in 0 .. N - 1 : Good(n + 1)}
  <2>2. 0 \in P
    <3>1. Good(1)
      BY <1>1, <1>3, <2>1
    <3>2. QED
      BY <1>1, <1>3, <3>1
  <2>3. ASSUME NEW n \in 1 .. N - 1, n - 1 \in P PROVE n \in P
    <3>1. (n - 1) + 1 = n /\ n \in 1 .. N /\ n + 1 \in 2 .. N /\ n + 1 \in 1 .. N
      BY <1>1
    <3>2. Good(n)
      BY <2>3, <3>1
    <3>3. f[n] \in Seq(E) /\ seqs[n + 1] \in Seq(E) /\ Len(seqs[n + 1]) = 6
      BY <2>1, <3>1, ElementOfSeq
    <3>4. f[n + 1] = f[n] \o seqs[n + 1]
      <4>1. f[n + 1] = f[(n + 1) - 1] \o seqs[n + 1]
        BY <2>1, <3>1
      <4>2. (n + 1) - 1 = n
        BY <3>1
      <4>3. QED
        BY <4>1, <4>2
    <3>5. /\ Len(f[n + 1]) = 6 * n + 6
          /\ \A i \in 1 .. 6 * n + 6 :
                f[n + 1][i] = IF i <= 6 * n THEN f[n][i] ELSE seqs[n + 1][i - 6 * n]
      <4>1. /\ Len(f[n] \o seqs[n + 1]) = Len(f[n]) + Len(seqs[n + 1])
            /\ \A i \in 1 .. Len(f[n]) + Len(seqs[n + 1]) :
                  (f[n] \o seqs[n + 1])[i] =
                      IF i <= Len(f[n]) THEN f[n][i] ELSE seqs[n + 1][i - Len(f[n])]
        BY <3>3, ConcatProperties, Zenon
      <4>2. Len(f[n]) = 6 * n /\ Len(seqs[n + 1]) = 6
        BY <3>2, <3>3
      <4>3. QED
        BY <3>4, <4>1, <4>2, Zenon
    <3>6. ASSUME NEW m \in 1 .. n + 1, NEW j \in 1 .. 6
          PROVE  f[n + 1][6 * (m - 1) + j] = seqs[m][j]
      <4>1. CASE m = n + 1
        <5>1. 6 * (m - 1) + j \in 1 .. 6 * n + 6 /\ ~(6 * (m - 1) + j <= 6 * n)
          BY <3>1, <4>1
        <5>2. (6 * (m - 1) + j) - 6 * n = j
          BY <3>1, <4>1
        <5>3. QED
          BY <3>5, <4>1, <5>1, <5>2
      <4>2. CASE m # n + 1
        <5>1. m \in 1 .. n
          BY <3>1, <4>2
        <5>2. 6 * (m - 1) + j \in 1 .. 6 * n + 6 /\ 6 * (m - 1) + j <= 6 * n
          BY <3>1, <5>1
        <5>3. f[n][6 * (m - 1) + j] = seqs[m][j]
          BY <3>2, <5>1
        <5>4. QED
          BY <3>5, <5>2, <5>3
      <4>3. QED
        BY <4>1, <4>2
    <3>7. Good(n + 1)
      BY <3>1, <3>5, <3>6
    <3> HIDE DEF Good
    <3>8. QED
      BY <3>1, <3>7
  <2>4. \A n \in 0 .. N - 1 : n \in P
    <3>1. N - 1 \in Nat
      BY <1>1, <1>3
    <3> HIDE DEF P, N
    <3>2. QED
      BY <2>2, <2>3, <3>1, Induction
  <2>5. Good(N)
    <3>1. N - 1 \in 0 .. N - 1 /\ (N - 1) + 1 = N
      BY <1>1, <1>3
    <3> HIDE DEF Good
    <3>2. QED
      BY <2>4, <3>1
  <2>6. QED
    BY <2>1, <2>5
<1>4. QED
  BY <1>2, <1>3

OneLine(db) == \A id \in DOMAIN db : db[id].text.more = << >>

LEMMA LinesBy ==
    ASSUME NEW db, IsTable(db), OneLine(db), NEW order \in SetToSeqs(DOMAIN db)
    PROVE  /\ Len(Lines(db, order)) = 6 * Len(order)
           /\ \A n \in DOMAIN order, j \in 1 .. 6 :
                 Lines(db, order)[6 * (n - 1) + j] = EntryLines(order[n], db[order[n]])[j]
<1> DEFINE seqs == [n \in DOMAIN order |-> EntryLines(order[n], db[order[n]])]
<1>1. Len(order) \in Nat /\ DOMAIN order = 1 .. Len(order)
  BY OrderLists
<1>2. seqs \in Seq(Seq(FileLine)) /\ Lines(db, order) = FlattenSeq(seqs)
  BY EntriesType DEF Lines
<1>3. Len(seqs) = Len(order)
  BY <1>1
<1>4. ASSUME NEW n \in DOMAIN order
      PROVE  /\ seqs[n] = EntryLines(order[n], db[order[n]])
             /\ Len(seqs[n]) = 6
  <2>1. order[n] \in DOMAIN db /\ order[n] \in Nat
    BY OrderLists DEF IsTable
  <2>2. db[order[n]] \in Annotation /\ db[order[n]].text.more = << >>
    BY <2>1 DEF IsTable, OneLine
  <2>3. Len(EntryLines(order[n], db[order[n]])) = 6
    BY <2>1, <2>2, EntryOf
  <2>4. QED
    BY <2>3
<1> HIDE DEF seqs
<1>5. \A n \in 1 .. Len(seqs) : Len(seqs[n]) = 6
  BY <1>1, <1>3, <1>4
<1>6. /\ Len(FlattenSeq(seqs)) = 6 * Len(seqs)
      /\ \A n \in 1 .. Len(seqs), j \in 1 .. 6 : FlattenSeq(seqs)[6 * (n - 1) + j] = seqs[n][j]
  BY <1>2, <1>5, FlattenSixes, Zenon
<1>7. ASSUME NEW n \in DOMAIN order, NEW j \in 1 .. 6
      PROVE  Lines(db, order)[6 * (n - 1) + j] = EntryLines(order[n], db[order[n]])[j]
  <2>1. FlattenSeq(seqs)[6 * (n - 1) + j] = seqs[n][j]
    BY <1>1, <1>3, <1>6
  <2>2. QED
    BY <1>2, <1>4, <2>1, Zenon
<1>8. Len(Lines(db, order)) = 6 * Len(order)
  BY <1>2, <1>3, <1>6
<1>9. QED
  BY <1>7, <1>8, Zenon

(* A line that is neither an identifier nor blank changes only the record  *)
(* that is being read, or ends the reading.                                *)
LEMMA InnerLine ==
    ASSUME NEW s \in Loadings, NEW line, line.k \notin {"blank", "id"}
    PROVE  LET t == Parse(s, line)
           IN  t.notes = s.notes /\ t.in = s.in /\ t.id = s.id
<1>1. CASE s.thrown \/ line.k = "bad"
  BY <1>1 DEF Parse, Loadings
<1>2. CASE ~(s.thrown \/ line.k = "bad")
  <2>1. Parse(s, line) = [s EXCEPT !.current[line.k] = line.v]
    BY <1>2 DEF Parse
  <2>2. Parse(s, line) = [s EXCEPT !.current = [s.current EXCEPT ![line.k] = line.v]]
    BY <2>1
  <2>3. QED
    BY <2>2 DEF Loadings
<1>3. QED
  BY <1>1, <1>2

(* A line of the record.                                                   *)
LEMMA FieldLine ==
    ASSUME NEW s \in Loadings, ~s.thrown, NEW k \in {"address", "type", "text", "color"}, NEW v
    PROVE  LET t == Parse(s, Line(k, v))
           IN  /\ t.notes = s.notes /\ t.in = s.in /\ t.id = s.id /\ ~t.thrown
               /\ t.current = [s.current EXCEPT ![k] = v]
<1>1. Line(k, v).k = k /\ Line(k, v).v = v
  BY DEF Line
<1>2. Parse(s, Line(k, v)) = [s EXCEPT !.current[k] = v]
  BY <1>1 DEF Parse
<1>3. Parse(s, Line(k, v)) = [s EXCEPT !.current = [s.current EXCEPT ![k] = v]]
  BY <1>2
<1>4. QED
  BY <1>3 DEF Loadings

(* The line an entry begins with.                                          *)
LEMMA FirstLine ==
    ASSUME NEW s \in Loadings, ~s.thrown, ~s.in, NEW id \in Nat
    PROVE  LET t == Parse(s, Line("id", id))
           IN  /\ t.notes = s.notes /\ t.in /\ t.id = id /\ ~t.thrown
               /\ t.current = Default
<1> DEFINE m == Max({s.next, id + 1})
<1>1. Line("id", id).k = "id" /\ Line("id", id).v = id
  BY DEF Line
<1>2. Parse(s, Line("id", id)) =
         [s EXCEPT !.notes = Take(s), !.current = Default, !.id = id, !.in = TRUE, !.next = m]
  BY <1>1 DEF Parse
<1>3. Take(s) = s.notes
  BY DEF Take
<1> HIDE DEF m
<1>4. QED
  BY <1>2, <1>3 DEF Loadings

(* The six lines of an entry, from f[0] to f[6].                           *)
LEMMA EntryParsed ==
    ASSUME NEW id \in Nat, NEW a \in Annotation, a.text.more = << >>, NEW f,
           f[0] \in Loadings, f[1] \in Loadings, f[2] \in Loadings, f[3] \in Loadings,
           f[4] \in Loadings, f[5] \in Loadings,
           ~f[0].thrown, ~f[0].in,
           \A j \in 1 .. 6 : f[j] = Parse(f[j - 1], EntryLines(id, a)[j])
    PROVE  ~f[6].thrown /\ ~f[6].in /\ f[6].notes = With(f[0].notes, id, a)
<1> DEFINE e == EntryLines(id, a)
<1>1. /\ e[1] = Line("id", id) /\ e[2] = Line("address", a.address)
      /\ e[3] = Line("type", a.type) /\ e[4] = Line("text", a.text)
      /\ e[5] = Line("color", a.color) /\ e[6] = Blank
  BY EntryOf
<1>2. /\ f[1] = Parse(f[0], e[1]) /\ f[2] = Parse(f[1], e[2]) /\ f[3] = Parse(f[2], e[3])
      /\ f[4] = Parse(f[3], e[4]) /\ f[5] = Parse(f[4], e[5]) /\ f[6] = Parse(f[5], e[6])
  <2> HIDE DEF e
  <2>1. \A j \in 1 .. 6 : f[j] = Parse(f[j - 1], e[j])
    BY DEF e
  <2>2. 1 - 1 = 0 /\ 2 - 1 = 1 /\ 3 - 1 = 2 /\ 4 - 1 = 3 /\ 5 - 1 = 4 /\ 6 - 1 = 5
    OBVIOUS
  <2>3. QED
    BY <2>1, <2>2
<1> HIDE DEF e
<1>3. /\ f[1].notes = f[0].notes /\ f[1].in /\ f[1].id = id /\ ~f[1].thrown
      /\ f[1].current = Default
  BY <1>1, <1>2, FirstLine
<1>4. /\ f[2].notes = f[0].notes /\ f[2].in /\ f[2].id = id /\ ~f[2].thrown
      /\ f[2].current = [Default EXCEPT !["address"] = a.address]
  BY <1>1, <1>2, <1>3, FieldLine
<1>5. /\ f[3].notes = f[0].notes /\ f[3].in /\ f[3].id = id /\ ~f[3].thrown
      /\ f[3].current = [f[2].current EXCEPT !["type"] = a.type]
  BY <1>1, <1>2, <1>4, FieldLine
<1>6. /\ f[4].notes = f[0].notes /\ f[4].in /\ f[4].id = id /\ ~f[4].thrown
      /\ f[4].current = [f[3].current EXCEPT !["text"] = a.text]
  BY <1>1, <1>2, <1>5, FieldLine
<1>7. /\ f[5].notes = f[0].notes /\ f[5].in /\ f[5].id = id /\ ~f[5].thrown
      /\ f[5].current = [f[4].current EXCEPT !["color"] = a.color]
  BY <1>1, <1>2, <1>6, FieldLine
<1>8. f[5].current = a
  <2>1. f[2].current = [address |-> a.address, type |-> "Comment", text |-> NoText, color |-> White]
    BY <1>4 DEF Default
  <2>2. f[3].current = [address |-> a.address, type |-> a.type, text |-> NoText, color |-> White]
    BY <1>5, <2>1
  <2>3. f[4].current = [address |-> a.address, type |-> a.type, text |-> a.text, color |-> White]
    BY <1>6, <2>2
  <2>4. f[5].current = [address |-> a.address, type |-> a.type, text |-> a.text, color |-> a.color]
    BY <1>7, <2>3
  <2>5. QED
    BY <2>4 DEF Annotation
<1>9. f[6] = [f[5] EXCEPT !.notes = Take(f[5]), !.in = FALSE]
  <2>1. Blank.k = "blank"
    BY DEF Blank, Line
  <2>2. QED
    BY <1>1, <1>2, <1>7, <2>1 DEF Parse
<1>10. Take(f[5]) = With(f[0].notes, id, a)
  BY <1>7, <1>8 DEF Take
<1>11. QED
  BY <1>7, <1>9, <1>10 DEF Loadings

LEMMA InSixes == \A m \in Nat : \E q \in Nat : 6 * q <= m /\ m < 6 * q + 6
<1> SUFFICES ASSUME NEW m \in Nat PROVE \E q \in Nat : 6 * q <= m /\ m < 6 * q + 6
  OBVIOUS
<1> DEFINE T == {q \in Nat : m < 6 * q + 6}
<1>1. m \in T
  OBVIOUS
<1>2. PICK q \in T : \A n \in T : q <= n
  <2>1. T \in SUBSET Nat
    OBVIOUS
  <2> HIDE DEF T
  <2>2. QED
    BY <1>1, <2>1, LeastNumber
<1>3. q = 0 \/ q - 1 \in Nat
  BY <1>2
<1>4. 6 * q <= m
  <2>1. CASE q = 0
    BY <2>1
  <2>2. CASE q - 1 \in Nat /\ q # 0
    <3>1. q - 1 \notin T
      BY <1>2, <2>2
    <3>2. ~(m < 6 * (q - 1) + 6)
      BY <2>2, <3>1
    <3>3. QED
      BY <1>2, <2>2, <3>2
  <2>3. QED
    BY <1>3, <2>1, <2>2
<1>5. QED
  BY <1>2, <1>4

(* What the lines of a table are, by their places.                         *)
LEMMA LineAt ==
    ASSUME NEW db, IsTable(db), OneLine(db), NEW order \in SetToSeqs(DOMAIN db)
    PROVE  \A n \in DOMAIN order, j \in 1 .. 6 :
              /\ j = 1 => Lines(db, order)[6 * (n - 1) + j] = Line("id", order[n])
              /\ j \in 2 .. 5 => Lines(db, order)[6 * (n - 1) + j].k \notin {"id", "blank"}
              /\ j = 6 => Lines(db, order)[6 * (n - 1) + j] = Blank
<1> SUFFICES ASSUME NEW n \in DOMAIN order, NEW j \in 1 .. 6
             PROVE  LET line == Lines(db, order)[6 * (n - 1) + j]
                    IN  /\ j = 1 => line = Line("id", order[n])
                        /\ j \in 2 .. 5 => line.k \notin {"id", "blank"}
                        /\ j = 6 => line = Blank
  OBVIOUS
<1>1. order[n] \in Nat /\ order[n] \in DOMAIN db
  BY OrderLists DEF IsTable
<1>2. db[order[n]] \in Annotation /\ db[order[n]].text.more = << >>
  BY <1>1 DEF IsTable, OneLine
<1> DEFINE e == EntryLines(order[n], db[order[n]])
<1>3. Lines(db, order)[6 * (n - 1) + j] = e[j]
  BY LinesBy
<1>4. /\ e[1] = Line("id", order[n]) /\ e[2].k = "address" /\ e[3].k = "type"
      /\ e[4].k = "text" /\ e[5].k = "color" /\ e[6] = Blank
  <2>1. LET a == db[order[n]]
        IN  /\ e[1] = Line("id", order[n]) /\ e[2] = Line("address", a.address)
            /\ e[3] = Line("type", a.type) /\ e[4] = Line("text", a.text)
            /\ e[5] = Line("color", a.color) /\ e[6] = Blank
    BY <1>1, <1>2, EntryOf
  <2> HIDE DEF e
  <2>2. QED
    BY <2>1 DEF Line
<1> HIDE DEF e
<1>5. j \in 2 .. 5 => e[j].k \notin {"id", "blank"}
  BY <1>4
<1>6. QED
  BY <1>3, <1>4, <1>5 DEF e

LEMMA PlaceOf ==
    ASSUME NEW db, IsTable(db), NEW order \in SetToSeqs(DOMAIN db),
           NEW i \in 1 .. 6 * Len(order)
    PROVE  \E n \in DOMAIN order, j \in 1 .. 6 : i = 6 * (n - 1) + j
<1>1. Len(order) \in Nat /\ DOMAIN order = 1 .. Len(order)
  BY OrderLists
<1>2. i - 1 \in Nat
  BY <1>1
<1>3. PICK q \in Nat : 6 * q <= i - 1 /\ i - 1 < 6 * q + 6
  BY <1>2, InSixes
<1>4. q + 1 \in 1 .. Len(order) /\ i - 6 * q \in 1 .. 6
  BY <1>1, <1>3
<1>5. i = 6 * ((q + 1) - 1) + (i - 6 * q)
  BY <1>1, <1>3
<1>6. QED
  BY <1>1, <1>4, <1>5

LEMMA CutKinds ==
    ASSUME NEW line, NEW c \in CutLine(line)
    PROVE  line.k \notin {"id", "blank"} /\ c.k \notin {"id", "blank"}
<1>1. line.k \in {"address", "text", "type", "color"}
  BY DEF CutLine
<1>2. c \in {Bad, Line("address", 0), Line("text", NoText), Line("color", "a part")}
  BY DEF CutLine
<1>3. c.k \in {"bad", "address", "text", "color"}
  <2>1. \A k, v : Line(k, v).k = k
    BY DEF Line
  <2>2. QED
    BY <1>2, <2>1, Zenon DEF Bad
<1>4. QED
  BY <1>1, <1>3

(* After q entries the table is that of the first q.                       *)
Reads(f, lines) ==
    /\ f[0] = Fresh
    /\ \A n \in 1 .. Len(lines) : f[n] = Parse(f[n - 1], lines[n])
    /\ \A n \in 0 .. Len(lines) : f[n] \in Loadings

Restored(s, db, order, q) ==
    /\ ~s.thrown /\ ~s.in /\ DOMAIN s.notes = {order[n] : n \in 1 .. q}
    /\ \A n \in 1 .. q : s.notes[order[n]] = db[order[n]]

LEMMA EntriesRestored ==
    ASSUME NEW db, IsTable(db), OneLine(db), NEW order \in SetToSeqs(DOMAIN db),
           NEW lines \in Seq(FileLine), NEW q \in 0 .. Len(order), 6 * q <= Len(lines),
           \A i \in 1 .. 6 * q : lines[i] = Lines(db, order)[i], NEW f, Reads(f, lines)
    PROVE  Restored(f[6 * q], db, order, q)
<1> DEFINE P == {p \in 0 .. q : Restored(f[6 * p], db, order, p)}
<1>1. Len(order) \in Nat /\ DOMAIN order = 1 .. Len(order) /\ q \in Nat /\ Len(lines) \in Nat
  BY OrderLists, LenProperties
<1>0. \A n \in DOMAIN order, j \in 1 .. 6 :
         Lines(db, order)[6 * (n - 1) + j] = EntryLines(order[n], db[order[n]])[j]
  BY LinesBy
<1>2. 0 \in P
  <2>1. f[6 * 0] = Fresh
    BY DEF Reads
  <2>2. QED
    BY <1>1, <2>1 DEF Fresh, Restored
<1>3. ASSUME NEW p \in 1 .. q, p - 1 \in P PROVE p \in P
  <2> DEFINE b == 6 * (p - 1)
             s == f[b]
             t == f[6 * p]
             id == order[p]
  <2>1. Restored(s, db, order, p - 1)
    BY <1>3
  <2>2. p \in DOMAIN order /\ id \in Nat /\ id \in DOMAIN db
    BY <1>1, OrderLists DEF IsTable
  <2>3. db[id] \in Annotation /\ db[id].text.more = << >>
    BY <2>2 DEF IsTable, OneLine
  <2>4. b \in Nat /\ b + 6 = 6 * p /\ b + 6 <= 6 * q
    BY <1>1
  <2> DEFINE g == [j \in 0 .. 6 |-> f[b + j]]
  <2>5. ASSUME NEW j \in 0 .. 6 PROVE g[j] \in Loadings
    <3>1. b + j \in 0 .. Len(lines)
      BY <1>1, <2>4
    <3>2. QED
      BY <3>1 DEF Reads
  <2>6. ASSUME NEW j \in 1 .. 6 PROVE g[j] = Parse(g[j - 1], EntryLines(id, db[id])[j])
    <3>1. b + j \in 1 .. 6 * q /\ b + j \in 1 .. Len(lines) /\ (b + j) - 1 = b + (j - 1)
          /\ j - 1 \in 0 .. 6 /\ j \in 0 .. 6
      <4> HIDE DEF b
      <4>1. b \in Nat /\ b + 6 <= 6 * q /\ 6 * q <= Len(lines) /\ q \in Nat /\ Len(lines) \in Nat
        BY <1>1, <2>4
      <4> DEFINE sixes == 6 * q
                 L == Len(lines)
      <4>2. sixes \in Nat /\ L \in Nat /\ b + 6 <= sixes /\ sixes <= L
        BY <4>1
      <4> HIDE DEF sixes, L
      <4>3. b + j \in 1 .. sixes /\ b + j \in 1 .. L
        BY <4>1, <4>2
      <4>4. (b + j) - 1 = b + (j - 1) /\ j - 1 \in 0 .. 6 /\ j \in 0 .. 6
        BY <4>1
      <4>5. QED
        BY <4>3, <4>4 DEF sixes, L
    <3>2. lines[b + j] = Lines(db, order)[b + j]
      BY <3>1
    <3>3. Lines(db, order)[b + j] = EntryLines(id, db[id])[j]
      <4>1. Lines(db, order)[6 * (p - 1) + j] = EntryLines(order[p], db[order[p]])[j]
        BY <2>2, <1>0
      <4>2. QED
        BY <4>1
    <3>4. f[b + j] = Parse(f[b + (j - 1)], lines[b + j])
      <4>1. f[b + j] = Parse(f[(b + j) - 1], lines[b + j])
        BY <3>1 DEF Reads
      <4>2. QED
        BY <3>1, <4>1
    <3>5. g[j] = f[b + j] /\ g[j - 1] = f[b + (j - 1)]
      BY <3>1
    <3> HIDE DEF g, b
    <3>6. QED
      BY <3>2, <3>3, <3>4, <3>5
  <2>7. g[0] = s /\ g[6] = t
    BY <2>4
  <2> HIDE DEF g
  <2>8. ~t.thrown /\ ~t.in /\ t.notes = With(s.notes, id, db[id])
    <3>1. ~g[0].thrown /\ ~g[0].in
      BY <2>1, <2>7 DEF Restored
    <3>2. ~g[6].thrown /\ ~g[6].in /\ g[6].notes = With(g[0].notes, id, db[id])
      <4>1. 0 \in 0 .. 6 /\ 1 \in 0 .. 6 /\ 2 \in 0 .. 6 /\ 3 \in 0 .. 6 /\ 4 \in 0 .. 6 /\ 5 \in 0 .. 6
        OBVIOUS
      <4>2. /\ g[0] \in Loadings /\ g[1] \in Loadings /\ g[2] \in Loadings
            /\ g[3] \in Loadings /\ g[4] \in Loadings /\ g[5] \in Loadings
        BY <2>5, <4>1
      <4> HIDE DEF id
      <4>3. QED
        BY <2>2, <2>3, <2>6, <3>1, <4>2, EntryParsed
    <3>3. QED
      BY <2>7, <3>2
  <2>9. DOMAIN t.notes = {order[n] : n \in 1 .. p}
    <3>1. DOMAIN t.notes = {id} \cup {order[n] : n \in 1 .. p - 1}
      BY <2>1, <2>8 DEF With, Restored
    <3>2. 1 .. p = {p} \cup 1 .. p - 1
      BY <1>1
    <3>3. QED
      BY <3>1, <3>2
  <2>10. ASSUME NEW n \in 1 .. p PROVE t.notes[order[n]] = db[order[n]]
    <3>1. CASE n = p
      BY <2>8, <3>1 DEF With
    <3>2. CASE n # p
      <4>1. n \in 1 .. p - 1 /\ n \in DOMAIN order
        BY <1>1, <3>2
      <4>2. order[n] # id /\ s.notes[order[n]] = db[order[n]] /\ order[n] \in DOMAIN s.notes
        BY <2>1, <2>2, <3>2, <4>1, OrderLists DEF Restored
      <4>3. QED
        BY <2>8, <4>2 DEF With
    <3>3. QED
      BY <3>1, <3>2
  <2>11. Restored(t, db, order, p)
    BY <2>8, <2>9, <2>10 DEF Restored
  <2>12. QED
    BY <1>1, <2>11
<1>4. \A p \in 0 .. q : p \in P
  <2> HIDE DEF P
  <2>1. QED
    BY <1>1, <1>2, <1>3, Induction
<1>5. QED
  BY <1>1, <1>4

(* The file that is there when a save was cut after m lines.               *)
CutAfter(lines, all, m) ==
    /\ \A i \in 1 .. m : lines[i] = all[i]
    /\ \/ Len(lines) = m
       \/ m < Len(all) /\ Len(lines) = m + 1 /\ lines[m + 1] \in CutLine(all[m + 1])

(* All entries but the last come back as they were; the last is another at *)
(* most, and where no line of it is there, nothing is lost or thrown.      *)
ComesBack(s, db, order, q, last) ==
    /\ \A n \in 1 .. q : order[n] \in DOMAIN s.notes /\ s.notes[order[n]] = db[order[n]]
    /\ DOMAIN s.notes \subseteq {order[n] : n \in 1 .. last}
    /\ last = q => ~s.thrown /\ DOMAIN s.notes = {order[n] : n \in 1 .. q}

LEMMA CutRestored ==
    ASSUME NEW db, IsTable(db), OneLine(db), NEW order \in SetToSeqs(DOMAIN db),
           NEW lines \in Seq(FileLine), NEW m \in 0 .. 6 * Len(order),
           CutAfter(lines, Lines(db, order), m),
           NEW q \in 0 .. Len(order), 6 * q <= m, m < 6 * q + 6
    PROVE  ComesBack(ReadFile(lines), db, order, q, IF m = 6 * q THEN q ELSE q + 1)
<1>0. ASSUME NEW n \in DOMAIN order, NEW j \in 1 .. 6
      PROVE  /\ j = 1 => Lines(db, order)[6 * (n - 1) + j] = Line("id", order[n])
             /\ j \in 2 .. 5 => Lines(db, order)[6 * (n - 1) + j].k \notin {"id", "blank"}
             /\ j = 6 => Lines(db, order)[6 * (n - 1) + j] = Blank
  BY ZenonT(60), LineAt
<1> DEFINE all == Lines(db, order)
           N == Len(order)
           L == Len(lines)
<1>1. /\ N \in Nat /\ DOMAIN order = 1 .. N /\ q \in Nat /\ L \in Nat /\ m \in Nat
      /\ Len(all) = 6 * N
  BY OrderLists, LenProperties, LinesBy
<1>2. \A n \in DOMAIN order : order[n] \in Nat
  BY OrderLists DEF IsTable
<1>3. ASSUME NEW n \in DOMAIN order, NEW j \in 1 .. 6
      PROVE  LET line == all[6 * (n - 1) + j]
             IN  /\ j = 1 => line = Line("id", order[n])
                 /\ j \in 2 .. 5 => line.k \notin {"id", "blank"}
                 /\ j = 6 => line = Blank
  BY <1>0
<1>4. PICK f : /\ f[0] = Fresh /\ Parsed(lines) = f[L]
               /\ \A n \in 1 .. L : f[n] = Parse(f[n - 1], lines[n])
               /\ \A n \in 0 .. L : f[n] \in Loadings /\ Below(f[n])
  BY ParsedBy
<1>5. Reads(f, lines)
  BY <1>4 DEF Reads
<1>6. L = m \/ (m < 6 * N /\ L = m + 1 /\ lines[m + 1] \in CutLine(all[m + 1]))
  BY <1>1 DEF CutAfter
<1>7. \A i \in 1 .. m : lines[i] = all[i]
  BY DEF CutAfter
<1> HIDE DEF all, N, L
<1>8. Restored(f[6 * q], db, order, q)
  <2>1. 6 * q <= L
    BY <1>1, <1>6
  <2>2. \A i \in 1 .. 6 * q : lines[i] = all[i]
    BY <1>1, <1>7
  <2>3. QED
    BY <1>5, <2>1, <2>2, EntriesRestored DEF all, N, L
<1>9. f[6 * q] \in Loadings
  <2>1. 6 * q \in 0 .. L
    BY <1>1, <1>6
  <2>2. QED
    BY <1>4, <2>1
<1>10. f[L] \in Loadings /\ ReadFile(lines) = [f[L] EXCEPT !.notes = IF f[L].thrown THEN f[L].notes ELSE Take(f[L])]
  <2>1. L \in 0 .. L
    BY <1>1
  <2>2. QED
    BY <1>4, <2>1 DEF ReadFile
<1>11. /\ ReadFile(lines).notes = IF f[L].thrown THEN f[L].notes ELSE Take(f[L])
       /\ ReadFile(lines).thrown = f[L].thrown
  BY <1>10 DEF Loadings
<1>12. CASE m = 6 * q
  <2>1. L = m
    <3>1. SUFFICES ASSUME m < 6 * N, lines[m + 1] \in CutLine(all[m + 1]) PROVE FALSE
      BY <1>6
    <3>2. q + 1 \in DOMAIN order /\ m + 1 = 6 * ((q + 1) - 1) + 1 /\ 1 \in 1 .. 6
      BY <1>1, <1>12, <3>1
    <3>3. all[m + 1] = Line("id", order[q + 1])
      BY <1>3, <3>2
    <3>4. all[m + 1].k = "id"
      BY <3>3 DEF Line
    <3>5. QED
      BY <3>1, <3>4, CutKinds
  <2>2. Restored(f[L], db, order, q)
    BY <1>8, <1>12, <2>1
  <2>3. ReadFile(lines).notes = f[L].notes
    BY <1>11, <2>2 DEF Restored, Take
  <2>4. ComesBack(ReadFile(lines), db, order, q, q)
    <3> DEFINE s == ReadFile(lines)
    <3>1. ~s.thrown /\ s.notes = f[L].notes
      BY <1>11, <2>2, <2>3 DEF Restored
    <3> HIDE DEF s
    <3>2. DOMAIN s.notes = {order[n] : n \in 1 .. q}
      BY <2>2, <3>1 DEF Restored
    <3>3. ASSUME NEW n \in 1 .. q PROVE order[n] \in DOMAIN s.notes /\ s.notes[order[n]] = db[order[n]]
      BY <2>2, <3>1, <3>2 DEF Restored
    <3>4. ComesBack(s, db, order, q, q)
      BY <3>1, <3>2, <3>3 DEF ComesBack
    <3>5. QED
      BY <3>4 DEF s
  <2>5. QED
    BY <1>12, <2>4
<1>13. CASE m # 6 * q
  <2> DEFINE K == L - 6 * q - 1
             s0 == f[6 * q]
             id == order[q + 1]
             Inner(t) == t.notes = s0.notes /\ t.in /\ t.id = id
             P == {d \in 0 .. K : Inner(f[6 * q + 1 + d])}
  <2>1. q + 1 \in DOMAIN order /\ K \in Nat /\ 6 * q + 1 <= m
    BY <1>1, <1>6, <1>13
  <2>2. K <= 4
    <3>1. CASE L = m
      BY <1>1, <3>1
    <3>2. CASE m < 6 * N /\ L = m + 1 /\ lines[m + 1] \in CutLine(all[m + 1])
      <4>1. SUFFICES ASSUME m = 6 * q + 5 PROVE FALSE
        BY <1>1, <3>2
      <4>2. m + 1 = 6 * ((q + 1) - 1) + 6 /\ 6 \in 1 .. 6
        BY <1>1, <4>1
      <4>3. all[m + 1] = Blank
        BY <1>3, <2>1, <4>2
      <4>4. all[m + 1].k = "blank"
        BY <4>3 DEF Blank, Line
      <4>5. QED
        BY <3>2, <4>4, CutKinds
    <3>3. QED
      BY <1>6, <3>1, <3>2
  <2>3. 0 \in P
    <3>1. 6 * q + 1 = 6 * ((q + 1) - 1) + 1 /\ 1 \in 1 .. 6 /\ 6 * q + 1 \in 1 .. m /\ 6 * q + 1 \in 1 .. L
          /\ (6 * q + 1) - 1 = 6 * q
      BY <1>1, <1>6, <2>1
    <3>2. all[6 * q + 1] = Line("id", id)
      BY <1>3, <2>1, <3>1
    <3>3. lines[6 * q + 1] = Line("id", id)
      BY <1>7, <3>1, <3>2
    <3>4. f[6 * q + 1] = Parse(s0, Line("id", id))
      <4>1. f[6 * q + 1] = Parse(f[(6 * q + 1) - 1], lines[6 * q + 1])
        BY <1>4, <3>1
      <4>2. QED
        BY <3>1, <3>3, <4>1
    <3>5. ~s0.thrown /\ ~s0.in /\ id \in Nat
      BY <1>2, <1>8, <2>1 DEF Restored
    <3>6. Inner(f[6 * q + 1])
      <4> HIDE DEF s0, id
      <4>1. s0 \in Loadings
        BY <1>9 DEF s0
      <4>2. QED
        BY <3>4, <3>5, <4>1, FirstLine
    <3>7. 6 * q + 1 + 0 = 6 * q + 1 /\ 0 \in 0 .. K
      BY <1>1, <2>1
    <3> HIDE DEF Inner, K
    <3>8. QED
      BY <3>6, <3>7
  <2>4. ASSUME NEW d \in 1 .. K, d - 1 \in P PROVE d \in P
    <3> DEFINE i == 6 * q + 1 + d
    <3>1. /\ i \in 1 .. L /\ i - 1 = 6 * q + 1 + (d - 1) /\ i - 1 \in 0 .. L
          /\ i = 6 * ((q + 1) - 1) + (d + 1) /\ d + 1 \in 2 .. 5 /\ d + 1 \in 1 .. 6
          /\ d \in 0 .. K
      BY <1>1, <2>1, <2>2
    <3> HIDE DEF i, K
    <3>2. lines[i].k \notin {"blank", "id"}
      <4>1. CASE i \in 1 .. m
        <5>1. lines[i] = all[i]
          BY <1>7, <4>1
        <5>2. all[i].k \notin {"id", "blank"}
          BY <1>3, <2>1, <3>1
        <5>3. QED
          BY <5>1, <5>2
      <4>2. CASE i \notin 1 .. m
        <5>1. i = m + 1 /\ L # m
          BY <1>1, <1>6, <3>1, <4>2
        <5>2. lines[i] \in CutLine(all[i])
          BY <1>6, <5>1
        <5>3. QED
          BY <5>2, CutKinds
      <4>3. QED
        BY <4>1, <4>2
    <3>3. Inner(f[i - 1])
      BY <2>4, <3>1
    <3>4. f[i] = Parse(f[i - 1], lines[i]) /\ f[i - 1] \in Loadings
      BY <1>4, <3>1
    <3>5. Inner(f[i])
      BY <3>2, <3>3, <3>4, InnerLine
    <3> HIDE DEF Inner
    <3>6. QED
      BY <3>1, <3>5 DEF i
  <2>5. \A d \in 0 .. K : d \in P
    <3> HIDE DEF P, K
    <3>1. QED
      BY <2>1, <2>3, <2>4, Induction
  <2>6. Inner(f[L])
    <3>1. K \in 0 .. K /\ 6 * q + 1 + K = L
      BY <1>1, <2>1
    <3> HIDE DEF K, Inner
    <3>2. QED
      BY <2>5, <3>1
  <2> DEFINE T == ReadFile(lines).notes
  <2>7. T = s0.notes \/ T = With(s0.notes, id, f[L].current)
    BY <1>11, <2>6 DEF Take
  <2>8. /\ DOMAIN s0.notes = {order[n] : n \in 1 .. q}
        /\ \A n \in 1 .. q : s0.notes[order[n]] = db[order[n]]
    BY <1>8 DEF Restored
  <2> HIDE DEF s0, T
  <2>9. ASSUME NEW n \in 1 .. q PROVE order[n] \in DOMAIN T /\ T[order[n]] = db[order[n]]
    <3>1. order[n] # id
      <4>1. n \in DOMAIN order /\ n # q + 1
        BY <1>1
      <4>2. QED
        BY <2>1, <4>1, OrderLists
    <3>2. order[n] \in DOMAIN s0.notes /\ s0.notes[order[n]] = db[order[n]]
      BY <2>8
    <3> HIDE DEF id
    <3>3. QED
      BY <2>7, <3>1, <3>2 DEF With
  <2>10. DOMAIN T \subseteq {order[n] : n \in 1 .. q + 1}
    <3>1. DOMAIN T \subseteq {id} \cup {order[n] : n \in 1 .. q}
      <4> HIDE DEF id
      <4>1. QED
        BY <2>7, <2>8 DEF With
    <3>2. q + 1 \in 1 .. q + 1 /\ 1 .. q \subseteq 1 .. q + 1
      BY <1>1
    <3>3. QED
      BY <3>1, <3>2
  <2>11. q + 1 # q
    BY <1>1
  <2>12. ComesBack(ReadFile(lines), db, order, q, q + 1)
    BY <2>9, <2>10, <2>11 DEF ComesBack, T
  <2>13. QED
    BY <1>13, <2>12
<1>14. QED
  BY <1>12, <1>13

(* What a crash leaves is cut after some number of lines.                  *)
LEMMA PrefixIsCut ==
    ASSUME NEW all \in Seq(FileLine), NEW n \in DOMAIN all,
           NEW cut \in {<< >>} \cup {<<c>> : c \in CutLine(all[n])}
    PROVE  CutAfter(SubSeq(all, 1, n - 1) \o cut, all, n - 1)
<1> DEFINE front == SubSeq(all, 1, n - 1)
           lines == front \o cut
<1>1. n \in 1 .. Len(all) /\ Len(all) \in Nat
  BY LenProperties
<1>2. front \in Seq(FileLine) /\ cut \in Seq(FileLine)
  BY PrefixType
<1>3. Len(front) = n - 1 /\ \A i \in 1 .. n - 1 : front[i] = all[i]
  <2>1. \A i \in 1 .. n - 1 : all[i] \in FileLine
    BY <1>1, ElementOfSeq
  <2>2. /\ Len(SubSeq(all, 1, n - 1)) = IF 1 <= n - 1 THEN (n - 1) - 1 + 1 ELSE 0
        /\ \A i \in 1 .. (n - 1) - 1 + 1 : SubSeq(all, 1, n - 1)[i] = all[1 + i - 1]
    BY <1>1, <2>1, SubSeqProperties
  <2> HIDE DEF front
  <2>3. QED
    BY <1>1, <2>2 DEF front
<1>4. cut = << >> \/ \E c \in CutLine(all[n]) : cut = <<c>>
  OBVIOUS
<1>5. Len(cut) = 0 \/ (Len(cut) = 1 /\ cut[1] \in CutLine(all[n]))
  BY <1>4
<1> HIDE DEF front
<1>6. /\ Len(lines) = Len(front) + Len(cut)
      /\ \A i \in 1 .. Len(front) + Len(cut) :
            lines[i] = IF i <= Len(front) THEN front[i] ELSE cut[i - Len(front)]
  BY <1>2, ConcatProperties, Zenon
<1> HIDE DEF lines
<1>7. \A i \in 1 .. n - 1 : lines[i] = all[i]
  BY <1>1, <1>3, <1>5, <1>6
<1>8. CASE Len(cut) = 0
  BY <1>1, <1>3, <1>6, <1>7, <1>8 DEF CutAfter, lines, front
<1>9. CASE Len(cut) = 1 /\ cut[1] \in CutLine(all[n])
  <2>1. n - 1 < Len(all) /\ Len(lines) = n - 1 + 1 /\ (n - 1) + 1 = n
    BY <1>1, <1>3, <1>6, <1>9
  <2>2. lines[n] = cut[1]
    <3>1. n \in 1 .. Len(front) + Len(cut) /\ ~(n <= Len(front)) /\ n - Len(front) = 1
      BY <1>1, <1>3, <1>9
    <3>2. QED
      BY <1>6, <3>1
  <2>3. QED
    BY <1>7, <1>9, <2>1, <2>2 DEF CutAfter, lines, front
<1>10. QED
  BY <1>5, <1>8, <1>9

LEMMA FileIsCut ==
    ASSUME FileInv, stored.form = "lines", OneLine(saved.notes)
    PROVE  \E m \in 0 .. 6 * Len(saved.order) :
              /\ CutAfter(stored.lines, Lines(saved.notes, saved.order), m)
              /\ saved.whole => m = 6 * Len(saved.order)
<1> DEFINE all == Lines(saved.notes, saved.order)
           N == Len(saved.order)
<1>1. IsTable(saved.notes) /\ saved.order \in SetToSeqs(DOMAIN saved.notes)
  BY DEF FileInv
<1>2. N \in Nat /\ Len(all) = 6 * N /\ all \in Seq(FileLine)
  BY <1>1, OrderLists, LinesBy, LinesType
<1>3. DOMAIN all = 1 .. Len(all)
  BY <1>2, LenProperties
<1>4. CASE saved.whole
  <2>1. stored.lines = all
    BY <1>4 DEF FileInv
  <2> HIDE DEF all, N
  <2>2. CutAfter(stored.lines, all, 6 * N)
    BY <1>2, <2>1 DEF CutAfter
  <2>3. 6 * N \in 0 .. 6 * N
    BY <1>2
  <2>4. QED
    BY <2>2, <2>3 DEF all, N
<1>5. CASE ~saved.whole
  <2>1. PICK n \in DOMAIN all : \E cut \in {<< >>} \cup {<<c>> : c \in CutLine(all[n])} :
                                   stored.lines = SubSeq(all, 1, n - 1) \o cut
    BY <1>5 DEF FileInv
  <2> HIDE DEF all, N
  <2>2. CutAfter(stored.lines, all, n - 1)
    BY <1>2, <2>1, PrefixIsCut
  <2>3. n - 1 \in 0 .. 6 * N
    BY <1>2, <1>3
  <2>4. QED
    BY <1>5, <2>2, <2>3 DEF all, N
<1>6. QED
  BY <1>4, <1>5

(* The identifiers that are in the file are those of the entries begun.    *)
LEMMA NamedIn ==
    ASSUME NEW db, IsTable(db), OneLine(db), NEW order \in SetToSeqs(DOMAIN db),
           NEW lines \in Seq(FileLine), NEW m \in 0 .. 6 * Len(order),
           CutAfter(lines, Lines(db, order), m), NEW n \in DOMAIN order
    PROVE  Line("id", order[n]) \in ToSet(lines) <=> 6 * (n - 1) < m
<1>1. Len(order) \in Nat /\ DOMAIN order = 1 .. Len(order) /\ Len(lines) \in Nat
      /\ DOMAIN lines = 1 .. Len(lines) /\ m \in Nat /\ Len(Lines(db, order)) = 6 * Len(order)
  BY OrderLists, LenProperties, LinesBy
<1>2. ASSUME NEW k \in DOMAIN order, NEW j \in 1 .. 6
      PROVE  /\ j = 1 => Lines(db, order)[6 * (k - 1) + j] = Line("id", order[k])
             /\ j \in 2 .. 5 => Lines(db, order)[6 * (k - 1) + j].k \notin {"id", "blank"}
             /\ j = 6 => Lines(db, order)[6 * (k - 1) + j] = Blank
  BY LineAt
<1>3. Len(lines) = m \/ Len(lines) = m + 1
  BY DEF CutAfter
<1>4. ASSUME 6 * (n - 1) < m PROVE Line("id", order[n]) \in ToSet(lines)
  <2>1. 6 * (n - 1) + 1 \in 1 .. m /\ 6 * (n - 1) + 1 \in DOMAIN lines /\ 1 \in 1 .. 6
    <3>1. m <= Len(lines) /\ n \in Nat
      <4> DEFINE L == Len(lines)
                 N == Len(order)
      <4>1. (L = m \/ L = m + 1) /\ m \in Nat /\ DOMAIN order = 1 .. N /\ N \in Nat
        BY <1>1, <1>3
      <4> HIDE DEF L, N
      <4>2. m <= L /\ n \in Nat
        BY <4>1
      <4>3. QED
        BY <4>2 DEF L
    <3>2. QED
      BY <1>1, <1>4, <3>1
  <2>2. lines[6 * (n - 1) + 1] = Lines(db, order)[6 * (n - 1) + 1]
    BY <2>1 DEF CutAfter
  <2>3. lines[6 * (n - 1) + 1] = Line("id", order[n])
    BY <1>2, <2>1, <2>2
  <2>4. QED
    BY <2>1, <2>3 DEF ToSet
<1>5. ASSUME Line("id", order[n]) \in ToSet(lines) PROVE 6 * (n - 1) < m
  <2>1. PICK i \in 1 .. Len(lines) : lines[i] = Line("id", order[n])
    BY <1>1, <1>5 DEF ToSet
  <2>2. lines[i].k = "id" /\ lines[i].v = order[n]
    BY <2>1 DEF Line
  <2>3. i \in 1 .. m
    <3>1. SUFFICES ASSUME i \notin 1 .. m PROVE FALSE
      OBVIOUS
    <3>2. m \in Nat /\ Len(lines) # m
      BY <1>1, <3>1
    <3>3. Len(lines) = m + 1 /\ lines[m + 1] \in CutLine(Lines(db, order)[m + 1])
      BY <3>2 DEF CutAfter
    <3>4. i = m + 1
      BY <3>1, <3>2, <3>3
    <3>5. QED
      BY <2>2, <3>3, <3>4, CutKinds
  <2>4. lines[i] = Lines(db, order)[i] /\ i \in 1 .. 6 * Len(order)
    <3>1. lines[i] = Lines(db, order)[i]
      BY <2>3 DEF CutAfter
    <3>2. i \in 1 .. 6 * Len(order)
      BY <1>1, <2>3
    <3>3. QED
      BY <3>1, <3>2
  <2>5. PICK k \in DOMAIN order, j \in 1 .. 6 : i = 6 * (k - 1) + j
    BY <2>4, PlaceOf
  <2>6. j = 1
    <3>1. CASE j \in 2 .. 5
      BY <1>2, <2>2, <2>4, <2>5, <3>1
    <3>2. CASE j = 6
      <4>1. lines[i] = Blank
        BY <1>2, <2>4, <2>5, <3>2
      <4>2. QED
        BY <2>2, <4>1 DEF Blank, Line
    <3>3. QED
      BY <3>1, <3>2
  <2>7. lines[i] = Line("id", order[k])
    BY <1>2, <2>4, <2>5, <2>6
  <2>8. order[k] = order[n]
    BY <2>2, <2>7 DEF Line
  <2>9. k = n
    BY <2>8, OrderLists
  <2>10. QED
    BY <1>1, <2>3, <2>5, <2>6, <2>9
<1>6. QED
  BY <1>4, <1>5

LEMMA SavedRestored ==
    ASSUME StoredType, FileInv
    PROVE  SavedComesBack
<1> DEFINE db == saved.notes
           order == saved.order
           lines == stored.lines
           s == ReadFile(lines)
           named == {0} \cup {n \in DOMAIN order : Line("id", order[n]) \in ToSet(lines)}
           last == Max(named)
<1> SUFFICES ASSUME stored.form = "lines", OneLine(db)
             PROVE  /\ saved.whole => ~s.thrown /\ s.notes = db
                    /\ DOMAIN s.notes \subseteq {order[n] : n \in 1 .. last}
                    /\ \A n \in 1 .. last - 1 : order[n] \in DOMAIN s.notes
                    /\ \A n \in 1 .. last - 1 : s.notes[order[n]] = db[order[n]]
  BY DEF SavedComesBack, OneLine
<1>1. IsTable(db) /\ order \in SetToSeqs(DOMAIN db) /\ lines \in Seq(FileLine)
  BY DEF FileInv, StoredType
<1>2. PICK m \in 0 .. 6 * Len(order) : /\ CutAfter(lines, Lines(db, order), m)
                                       /\ saved.whole => m = 6 * Len(order)
  BY FileIsCut
<1>3. ASSUME NEW n \in DOMAIN order
      PROVE  Line("id", order[n]) \in ToSet(lines) <=> 6 * (n - 1) < m
  BY <1>1, <1>2, NamedIn
<1>4. /\ Len(order) \in Nat /\ DOMAIN order = 1 .. Len(order)
      /\ \A n \in DOMAIN order : order[n] \in DOMAIN db
      /\ \A id \in DOMAIN db : \E n \in DOMAIN order : order[n] = id
  BY <1>1, OrderLists
<1>5. IsTable(s.notes)
  <2>1. ReadIsTable
    BY ReadKeeps
  <2>2. QED
    BY <1>1, <2>1 DEF ReadIsTable
<1>6. PICK q \in Nat : 6 * q <= m /\ m < 6 * q + 6
  <2>1. m \in Nat
    BY <1>4
  <2>2. QED
    BY <2>1, InSixes
<1> DEFINE p == IF m = 6 * q THEN q ELSE q + 1
<1>7. ComesBack(s, db, order, q, p)
  <2>1. q \in 0 .. Len(order)
    BY <1>4, <1>6
  <2>2. QED
    BY <1>1, <1>2, <1>6, <2>1, CutRestored
<1>8. p \in 0 .. Len(order) /\ (p = q \/ p = q + 1)
  BY <1>4, <1>6
<1> HIDE DEF s, order, db, lines, p
<1>9. named = 0 .. p
  <2>1. ASSUME NEW n \in DOMAIN order PROVE 6 * (n - 1) < m <=> n <= p
    BY <1>4, <1>6 DEF p
  <2>2. named = {0} \cup {n \in DOMAIN order : n <= p}
    BY <1>3, <2>1
  <2>3. {0} \cup {n \in DOMAIN order : n <= p} = 0 .. p
    BY <1>4, <1>8
  <2>4. QED
    BY <2>2, <2>3
<1> HIDE DEF named
<1>10. last = p
  <2>1. \E x \in 0 .. p : \A y \in 0 .. p : x >= y
    BY <1>8
  <2>2. last \in 0 .. p /\ \A y \in 0 .. p : last >= y
    BY <1>9, <2>1 DEF Max
  <2>3. QED
    BY <1>8, <2>2
<1> HIDE DEF last
<1>11. DOMAIN s.notes \subseteq {order[n] : n \in 1 .. last}
  BY <1>7, <1>10 DEF ComesBack
<1>12. ASSUME NEW n \in 1 .. last - 1
       PROVE  order[n] \in DOMAIN s.notes /\ s.notes[order[n]] = db[order[n]]
  <2>1. n \in 1 .. q
    BY <1>6, <1>8, <1>10
  <2>2. QED
    BY <1>7, <2>1 DEF ComesBack
<1>13. ASSUME saved.whole PROVE ~s.thrown /\ s.notes = db
  <2>1. m = 6 * Len(order)
    BY <1>2, <1>13
  <2>2. q = Len(order) /\ p = q
    <3> DEFINE N == Len(order)
    <3>1. N \in Nat /\ m = 6 * N
      BY <1>4, <2>1
    <3> HIDE DEF N
    <3>2. q = N
      BY <1>6, <3>1
    <3>3. p = q
      BY <3>1, <3>2 DEF p
    <3>4. QED
      BY <3>2, <3>3 DEF N
  <2>3. ~s.thrown /\ DOMAIN s.notes = {order[n] : n \in 1 .. q}
    BY <1>7, <2>2 DEF ComesBack
  <2>4. DOMAIN s.notes = DOMAIN db
    BY <1>4, <2>2, <2>3
  <2>5. ASSUME NEW id \in DOMAIN db PROVE s.notes[id] = db[id]
    <3>1. PICK n \in 1 .. q : order[n] = id
      BY <1>4, <2>2
    <3>2. QED
      BY <1>7, <3>1 DEF ComesBack
  <2>6. s.notes = db
    <3>1. s.notes \in [DOMAIN db -> Annotation] /\ db \in [DOMAIN db -> Annotation]
      BY <1>1, <1>5, <2>4 DEF IsTable, db
    <3>2. QED
      BY <2>5, <3>1
  <2>7. QED
    BY <2>3, <2>6
<1>14. QED
  BY <1>11, <1>12, <1>13

-----------------------------------------------------------------------------
(* Patches.                                                                *)

Holding(b, a) ==
    {k \in DOMAIN b.sections : /\ a >= b.base + b.sections[k].rva
                               /\ a < b.base + b.sections[k].rva + b.sections[k].rawSize}

Known(b) == b.base \in Nat /\ b.sections \in Seq(AnySection)

LEMMA SectionsKnown ==
    ASSUME NEW b, Known(b)
    PROVE  /\ DOMAIN b.sections \subseteq Nat \ {0}
           /\ \A k \in DOMAIN b.sections : /\ b.sections[k].rva \in Nat
                                           /\ b.sections[k].rawSize \in Nat
                                           /\ b.sections[k].fileOffset \in Nat
<1>1. DOMAIN b.sections = 1 .. Len(b.sections) /\ Len(b.sections) \in Nat
      /\ b.sections \in [1 .. Len(b.sections) -> AnySection]
  BY LenProperties DEF Known
<1>2. QED
  BY <1>1 DEF AnySection

(* An address has the place in the file that the first section that holds  *)
(* it gives it, and no other.                                              *)
LEMMA Located ==
    ASSUME NEW b, Known(b), NEW a \in Nat
    PROVE  /\ Holding(b, a) = {} => VirtualToFile(b, a) = {}
           /\ Holding(b, a) # {} =>
                 LET s == b.sections[Min(Holding(b, a))]
                 IN  /\ Min(Holding(b, a)) \in Holding(b, a)
                     /\ VirtualToFile(b, a) = {s.fileOffset + (a - b.base - s.rva)}
<1> DEFINE Holds == [k \in DOMAIN b.sections |->
                        /\ a >= b.base + b.sections[k].rva
                        /\ a < b.base + b.sections[k].rva + b.sections[k].rawSize]
           H == Holding(b, a)
           k == FirstSection(b, Holds)
<1>1. {n \in DOMAIN b.sections : Holds[n]} = H
  BY DEF Holding
<1>2. k = IF H = {} THEN Invalid ELSE Min(H)
  BY <1>1, Zenon DEF FirstSection
<1>3. H # {} => Min(H) \in H
  <2>1. H \subseteq Nat
    BY SectionsKnown DEF Holding
  <2> HIDE DEF H
  <2>2. H # {} => \E m \in H : \A n \in H : m <= n
    BY <2>1, LeastNumber
  <2>3. QED
    BY <2>2 DEF Min
<1>4. H # {} => Min(H) # Invalid
  BY <1>3, SectionsKnown DEF Holding, Invalid
<1>5. VirtualToFile(b, a) = IF k = Invalid THEN {}
                            ELSE {b.sections[k].fileOffset + (a - b.base - b.sections[k].rva)}
  BY Zenon DEF VirtualToFile
<1> HIDE DEF k, H, Holds
<1>6. H = {} => VirtualToFile(b, a) = {}
  BY <1>2, <1>5
<1>7. H # {} => VirtualToFile(b, a) =
                   {b.sections[Min(H)].fileOffset + (a - b.base - b.sections[Min(H)].rva)}
  BY <1>2, <1>4, <1>5
<1>8. QED
  BY <1>3, <1>6, <1>7 DEF H

LEMMA LocatedPlace ==
    ASSUME NEW b, Known(b), NEW a \in Nat, VirtualToFile(b, a) # {}
    PROVE  \E o \in Nat : VirtualToFile(b, a) = {o}
<1> DEFINE k == Min(Holding(b, a))
           s == b.sections[k]
<1>1. k \in Holding(b, a) /\ VirtualToFile(b, a) = {s.fileOffset + (a - b.base - s.rva)}
  BY Located
<1> HIDE DEF k
<1>2. k \in DOMAIN b.sections /\ a >= b.base + s.rva
  BY <1>1 DEF Holding
<1>3. s.rva \in Nat /\ s.fileOffset \in Nat /\ b.base \in Nat
  BY <1>2, SectionsKnown DEF Known
<1> HIDE DEF s
<1>4. s.fileOffset + (a - b.base - s.rva) \in Nat
  BY <1>2, <1>3
<1>5. QED
  BY <1>1, <1>4

LEMMA TargetKnown ==
    ASSUME PatchType
    PROVE  Known(target.bin) /\ target.bytes \in Seq(STRING)
<1>1. CASE target \in Files
  BY <1>1, PatchAssumption DEF Known
<1>2. CASE target = Nothing
  <2>1. target.bin.base = 0 /\ target.bin.sections = << >> /\ target.bytes = << >>
    BY <1>2 DEF Nothing, EmptyBinary
  <2>2. QED
    BY <2>1, EmptySeq DEF Known
<1>3. QED
  BY <1>1, <1>2 DEF PatchType

Patch == [address : Nat, new : Patches \cup {Jump}, original : Seq(STRING)]

LEMMA AddressIsNat == PatchType => Addresses \subseteq Nat
<1> SUFFICES ASSUME PatchType, NEW address \in Addresses PROVE address \in Nat
  OBVIOUS
<1>1. target.bin.base \in Nat /\ Len(target.bytes) \in Nat
  BY TargetKnown, LenProperties DEF Known
<1>2. PICK a \in 0 .. Len(target.bytes) + target.bin.base : address = target.bin.base + a
  BY DEF Addresses
<1>3. QED
  BY <1>1, <1>2

LEMMA OriginalAt ==
    ASSUME NEW t, NEW a, NEW o, VirtualToFile(t.bin, a) = {o}, NEW n
    PROVE  /\ DOMAIN Original(t, a, n) = 1 .. n
           /\ \A i \in 1 .. n : Original(t, a, n)[i] = t.bytes[o + i]
           /\ Original(t, a, n) = [i \in 1 .. n |-> Original(t, a, n)[i]]
<1>1. (CHOOSE x \in VirtualToFile(t.bin, a) : TRUE) = o
  OBVIOUS
<1> DEFINE place == CHOOSE x \in VirtualToFile(t.bin, a) : TRUE
<1>2. Original(t, a, n) = [i \in 1 .. n |-> t.bytes[place + i]]
  BY DEF Original
<1> HIDE DEF place
<1>3. QED
  BY <1>1, <1>2 DEF place

LEMMA PatchKeeps ==
    ASSUME PatchType, PatchInv, NEW address \in Nat, NEW bytes \in Patches \cup {Jump},
           PatchBytes(address, bytes)
    PROVE  PatchType' /\ PatchInv'
<1> DEFINE n == Len(bytes)
           original == Original(target, address, n)
           op == [address |-> address, new |-> bytes, original |-> original]
<1>1. n \in Nat
  <2>1. CASE bytes \in Patches
    BY <2>1, PatchAssumption, LenProperties
  <2>2. CASE bytes = Jump
    BY <2>2, PatchAssumption DEF Jump
  <2>3. QED
    BY <2>1, <2>2
<1>2. Known(target.bin) /\ target.bytes \in Seq(STRING)
  BY TargetKnown
<1>3. PICK o \in Nat : VirtualToFile(target.bin, address) = {o} /\ o + n <= Len(target.bytes)
  <2>1. PICK offset \in VirtualToFile(target.bin, address) : offset + n <= Len(target.bytes)
    BY DEF PatchBytes, Accepts
  <2>2. QED
    BY <1>2, <2>1, LocatedPlace
<1>4. /\ DOMAIN original = 1 .. n
      /\ \A i \in 1 .. n : original[i] = target.bytes[o + i]
      /\ original = [i \in 1 .. n |-> original[i]]
  <2> HIDE DEF n
  <2>1. QED
    BY <1>3, OriginalAt
<1>5. history' = Append(history, op) /\ target' = target
  BY DEF PatchBytes
<1> HIDE DEF original, n
<1>6. original \in Seq(STRING) /\ Len(original) = n
  <2>1. ASSUME NEW i \in 1 .. n PROVE target.bytes[o + i] \in STRING
    <3>1. o + i \in 1 .. Len(target.bytes)
      BY <1>1, <1>2, <1>3, LenProperties
    <3>2. QED
      BY <1>2, <3>1, ElementOfSeq
  <2>2. QED
    BY <1>1, <1>4, <2>1
<1>7. op \in Patch
  BY <1>6 DEF Patch
<1>8. history \in Seq(Patch)
  BY DEF PatchType, Patch
<1>9. PatchType'
  <2>1. history' \in Seq(Patch)
    BY <1>5, <1>7, <1>8, AppendProperties
  <2>2. QED
    BY <1>5, <2>1 DEF PatchType, Patch
<1>10. ASSUME NEW k \in DOMAIN history'
       PROVE  /\ VirtualToFile(target.bin, history'[k].address) # {}
              /\ history'[k].original =
                    Original(target, history'[k].address, Len(history'[k].original))
  <2>1. op.address = address /\ op.original = original
    OBVIOUS
  <2> HIDE DEF op
  <2>2. /\ Len(history) \in Nat /\ DOMAIN history = 1 .. Len(history)
        /\ DOMAIN history' = 1 .. Len(history) + 1
        /\ \A i \in 1 .. Len(history) : history'[i] = history[i]
        /\ history'[Len(history) + 1] = op
    <3>1. Len(history) \in Nat /\ DOMAIN history = 1 .. Len(history)
      BY <1>8, LenProperties
    <3>2. /\ Append(history, op) \in Seq(Patch) /\ Len(Append(history, op)) = Len(history) + 1
          /\ \A i \in 1 .. Len(history) : Append(history, op)[i] = history[i]
          /\ Append(history, op)[Len(history) + 1] = op
      BY <1>7, <1>8, AppendProperties
    <3>3. QED
      BY <1>5, <3>1, <3>2, LenProperties
  <2>3. CASE k \in 1 .. Len(history)
    <3>1. k \in DOMAIN history /\ history'[k] = history[k]
      BY <2>2, <2>3
    <3>2. QED
      BY <3>1 DEF PatchInv
  <2>4. CASE k = Len(history) + 1
    <3>1. history'[k] = op
      BY <2>2, <2>4
    <3>2. QED
      BY <1>3, <1>6, <2>1, <3>1 DEF original
  <2>5. QED
    BY <2>2, <2>3, <2>4
<1>11. PatchInv'
  BY <1>5, <1>10 DEF PatchInv
<1>12. QED
  BY <1>9, <1>11

LEMMA PatchStep ==
    ASSUME PatchType, PatchInv, PatchNext
    PROVE  PatchType' /\ PatchInv'
<1>1. ASSUME NEW address \in Addresses, NEW bytes \in Patches, PatchBytes(address, bytes)
      PROVE  PatchType' /\ PatchInv'
  BY <1>1, AddressIsNat, PatchKeeps
<1>2. ASSUME NEW address \in Addresses, NEW preserve \in BOOLEAN, CreateJumpHook(address, preserve)
      PROVE  PatchType' /\ PatchInv'
  <2>1. PatchBytes(address, Jump)
    BY <1>2 DEF CreateJumpHook
  <2>2. QED
    BY <2>1, AddressIsNat, PatchKeeps
<1>3. CASE UndoLast
  <2>1. CASE history = << >>
    BY <1>3, <2>1 DEF UndoLast, PatchType, PatchInv
  <2>2. CASE history # << >>
    <3>1. target' = target /\ history' = SubSeq(history, 1, Len(history) - 1)
      BY <1>3, <2>2 DEF UndoLast, Front
    <3>2. /\ history \in Seq(Patch) /\ Len(history) \in Nat /\ DOMAIN history = 1 .. Len(history)
          /\ \A i \in 1 .. Len(history) : history[i] \in Patch
      BY LenProperties, ElementOfSeq DEF PatchType, Patch
    <3> DEFINE n == Len(history) - 1
    <3>3. n \in Int /\ \A i \in 1 .. n : history[i] \in Patch
      BY <3>2
    <3>4. /\ SubSeq(history, 1, n) \in Seq(Patch)
          /\ Len(SubSeq(history, 1, n)) = IF 1 <= n THEN n - 1 + 1 ELSE 0
          /\ \A i \in 1 .. n - 1 + 1 : SubSeq(history, 1, n)[i] = history[1 + i - 1]
      <4> HIDE DEF n
      <4>1. QED
        BY <3>3, SubSeqProperties
    <3>5. DOMAIN history' = 1 .. Len(history')
      BY <3>1, <3>4, LenProperties
    <3>6. ASSUME NEW i \in DOMAIN history' PROVE i \in DOMAIN history /\ history'[i] = history[i]
      BY <3>1, <3>2, <3>4, <3>5
    <3>7. QED
      BY <3>1, <3>4, <3>6 DEF PatchType, PatchInv, Patch
  <2>3. QED
    BY <2>1, <2>2
<1>4. ASSUME history' = << >>, target' \in Files \cup {Nothing} PROVE PatchType' /\ PatchInv'
  BY <1>4, EmptySeq DEF PatchType, PatchInv
<1>5. CASE UndoAll
  BY <1>4, <1>5 DEF UndoAll, PatchType
<1>6. ASSUME NEW file \in Files, Open(file) PROVE PatchType' /\ PatchInv'
  BY <1>4, <1>6 DEF Open
<1>7. QED
  BY <1>1, <1>2, <1>3, <1>5, <1>6 DEF PatchNext

LEMMA OriginalsRight ==
    ASSUME PatchType, PatchInv
    PROVE  OriginalsAreAtTheirAddress
<1> DEFINE Section(a) == {k \in DOMAIN target.bin.sections :
                            LET s == target.bin.sections[k]
                            IN  target.bin.base + s.rva <= a /\ a < target.bin.base + s.rva + s.rawSize}
<1> SUFFICES ASSUME NEW n \in DOMAIN history, NEW i \in DOMAIN history[n].original,
                    Section(history[n].address) = Section(history[n].address + i - 1),
                    NEW o \in VirtualToFile(target.bin, history[n].address + i - 1)
             PROVE  history[n].original[i] = target.bytes[o + 1]
  BY Zenon DEF OriginalsAreAtTheirAddress
<1>0. Holding(target.bin, history[n].address) = Holding(target.bin, history[n].address + i - 1)
  <2>1. ASSUME NEW a PROVE Section(a) = Holding(target.bin, a)
    BY DEF Holding
  <2> HIDE DEF Section
  <2>2. QED
    BY <2>1
<1> HIDE DEF Section
<1> DEFINE op == history[n]
           a == op.address
           b == target.bin
           H == Holding(b, a)
           s == b.sections[Min(H)]
           offset == s.fileOffset + (a - b.base - s.rva)
<1>1. op \in Patch
  BY LenProperties, ElementOfSeq DEF PatchType, Patch
<1>2. a \in Nat /\ op.original \in Seq(STRING)
  BY <1>1 DEF Patch
<1>3. i \in 1 .. Len(op.original) /\ Len(op.original) \in Nat
  BY <1>2, LenProperties
<1>4. Known(b) /\ VirtualToFile(b, a) # {} /\ op.original = Original(target, a, Len(op.original))
  BY TargetKnown DEF PatchInv
<1> HIDE DEF op
<1>5. a + i - 1 \in Nat
  BY <1>2, <1>3
<1>6. H # {} /\ VirtualToFile(b, a) = {offset} /\ Min(H) \in H
  BY <1>2, <1>4, Located
<1>7. VirtualToFile(b, a + i - 1) = {s.fileOffset + ((a + i - 1) - b.base - s.rva)}
  BY <1>0, <1>4, <1>5, <1>6, Located DEF op
<1>8. op.original[i] = target.bytes[offset + i]
  <2>1. \A j \in 1 .. Len(op.original) :
           Original(target, a, Len(op.original))[j] = target.bytes[offset + j]
    <3>1. VirtualToFile(target.bin, a) = {offset}
      BY <1>6
    <3> DEFINE size == Len(op.original)
    <3> HIDE DEF offset, a, size
    <3>2. /\ DOMAIN Original(target, a, size) = 1 .. size
          /\ \A j \in 1 .. size : Original(target, a, size)[j] = target.bytes[offset + j]
          /\ Original(target, a, size) = [j \in 1 .. size |-> Original(target, a, size)[j]]
      BY <3>1, OriginalAt
    <3>3. QED
      BY <3>2 DEF size
  <2>2. QED
    BY <1>3, <1>4, <2>1
<1>9. o + 1 = offset + i
  <2>1. b.base \in Nat /\ s.rva \in Nat /\ s.fileOffset \in Nat
    BY <1>4, <1>6, SectionsKnown DEF Known, Holding
  <2>2. o = s.fileOffset + ((a + i - 1) - b.base - s.rva)
    BY <1>7 DEF op
  <2> HIDE DEF s
  <2>3. QED
    BY SMTT(30), <1>2, <1>3, <2>1, <2>2
<1>10. QED
  BY <1>8, <1>9 DEF op

-----------------------------------------------------------------------------
(* What two sequences give that are put together.                          *)
LEMMA ConcatAt ==
    ASSUME NEW S, NEW s \in Seq(S), NEW t \in Seq(S)
    PROVE  /\ Len(s) \in Nat /\ Len(t) \in Nat
           /\ s \o t \in Seq(S) /\ Len(s \o t) = Len(s) + Len(t)
           /\ \A i \in 1 .. Len(s) : (s \o t)[i] = s[i]
           /\ \A i \in 1 .. Len(t) : (s \o t)[Len(s) + i] = t[i]
<1>1. Len(s) \in Nat /\ Len(t) \in Nat
  BY LenProperties
<1>2. /\ s \o t \in Seq(S) /\ Len(s \o t) = Len(s) + Len(t)
      /\ \A i \in 1 .. Len(s) + Len(t) :
           (s \o t)[i] = IF i <= Len(s) THEN s[i] ELSE t[i - Len(s)]
  BY ConcatProperties
<1>3. ASSUME NEW i \in 1 .. Len(s) PROVE (s \o t)[i] = s[i]
  <2>1. i \in 1 .. Len(s) + Len(t) /\ i <= Len(s)
    BY <1>1
  <2>2. QED
    BY <1>2, <2>1
<1>4. ASSUME NEW i \in 1 .. Len(t) PROVE (s \o t)[Len(s) + i] = t[i]
  <2>1. /\ Len(s) + i \in 1 .. Len(s) + Len(t) /\ ~(Len(s) + i <= Len(s))
        /\ (Len(s) + i) - Len(s) = i
    BY <1>1
  <2>2. QED
    BY <1>2, <2>1
<1>5. QED
  BY <1>1, <1>2, <1>3, <1>4

(* Of sequences that each have one element, the first ones, the result of  *)
(* putting all together has these, and behind them what the next one has.  *)
LEMMA FlattenSingles ==
    ASSUME NEW E, NEW seqs \in Seq(Seq(E)), NEW j \in 0 .. Len(seqs),
           \A n \in 1 .. j : Len(seqs[n]) = 1
    PROVE  LET flat == FlattenSeq(seqs) IN
           /\ flat \in Seq(E)
           /\ j <= Len(flat) /\ \A n \in 1 .. j : flat[n] = seqs[n][1]
           /\ j = Len(seqs) => Len(flat) = j
           /\ j < Len(seqs) =>
                /\ j + Len(seqs[j + 1]) <= Len(flat)
                /\ \A i \in 1 .. Len(seqs[j + 1]) : flat[j + i] = seqs[j + 1][i]
<1> DEFINE N == Len(seqs)
           flat == FlattenSeq(seqs)
<1>1. N \in Nat /\ j \in 0 .. N /\ \A n \in 1 .. N : seqs[n] \in Seq(E) /\ Len(seqs[n]) \in Nat
  BY LenProperties, ElementOfSeq
<1>2. flat \in Seq(E)
  BY FlattenType
<1>3. CASE N = 0
  <2>1. flat = << >>
    BY <1>3, EmptySeq DEF FlattenSeq
  <2>2. QED
    BY <1>1, <1>2, <1>3, <2>1, EmptySeq
<1>4. CASE N # 0
  <2>1. PICK f : /\ f[1] = seqs[1] /\ flat = f[N]
                 /\ \A n \in 2 .. N : f[n] = f[n - 1] \o seqs[n]
                 /\ \A n \in 1 .. N : f[n] \in Seq(E)
    BY <1>4, FlattenBy
  <2> HIDE DEF flat
  <2>2. ASSUME NEW n \in 2 .. N
        PROVE  /\ f[n - 1] \in Seq(E) /\ Len(f[n - 1]) \in Nat /\ Len(f[n]) \in Nat
               /\ Len(f[n]) = Len(f[n - 1]) + Len(seqs[n])
               /\ \A i \in 1 .. Len(f[n - 1]) : f[n][i] = f[n - 1][i]
               /\ \A i \in 1 .. Len(seqs[n]) : f[n][Len(f[n - 1]) + i] = seqs[n][i]
    <3>1. n \in 1 .. N /\ n - 1 \in 1 .. N
      BY <1>1
    <3>2. f[n - 1] \in Seq(E) /\ seqs[n] \in Seq(E) /\ f[n] = f[n - 1] \o seqs[n]
      BY <1>1, <2>1, <3>1
    <3> DEFINE x == f[n - 1]
               y == seqs[n]
    <3>3. x \in Seq(E) /\ y \in Seq(E) /\ f[n] = x \o y
      BY <3>2
    <3> HIDE DEF N, x, y
    <3>4. /\ Len(x) \in Nat /\ Len(f[n]) \in Nat /\ Len(f[n]) = Len(x) + Len(y)
          /\ \A i \in 1 .. Len(x) : f[n][i] = x[i]
          /\ \A i \in 1 .. Len(y) : f[n][Len(x) + i] = y[i]
      <4>1. /\ Len(x) \in Nat /\ Len(y) \in Nat /\ Len(x \o y) = Len(x) + Len(y)
            /\ \A i \in 1 .. Len(x) : (x \o y)[i] = x[i]
            /\ \A i \in 1 .. Len(y) : (x \o y)[Len(x) + i] = y[i]
        BY <3>3, ConcatAt
      <4>2. QED
        BY <3>3, <4>1
    <3>5. QED
      BY <3>3, <3>4 DEF x, y
  (* What is there at one place stays. *)
  <2>3. ASSUME NEW k \in 1 .. N
        PROVE  /\ Len(f[k]) \in Nat /\ Len(f[k]) <= Len(flat)
               /\ \A i \in 1 .. Len(f[k]) : flat[i] = f[k][i]
    <3> DEFINE Longer(n) == /\ Len(f[n]) \in Nat /\ Len(f[k]) <= Len(f[n])
                            /\ \A i \in 1 .. Len(f[k]) : f[n][i] = f[k][i]
               P == {n \in 0 .. N : k <= n => Longer(n)}
    <3>1. Len(f[k]) \in Nat
      BY <2>1, LenProperties
    <3>2. 0 \in P
      BY <1>1
    <3>3. ASSUME NEW n \in 1 .. N, n - 1 \in P PROVE n \in P
      <4>1. CASE n < k
        BY <1>1, <4>1
      <4>2. CASE n = k
        BY <1>1, <3>1, <4>2
      <4>3. CASE n > k
        <5>1. n \in 2 .. N /\ k <= n - 1
          BY <1>1, <4>3
        <5>2. Longer(n - 1)
          BY <3>3, <5>1
        <5>3. /\ Len(f[n - 1]) \in Nat /\ Len(f[n]) \in Nat
              /\ Len(f[n]) = Len(f[n - 1]) + Len(seqs[n])
              /\ \A i \in 1 .. Len(f[n - 1]) : f[n][i] = f[n - 1][i]
          BY <2>2, <5>1
        <5>4. Len(seqs[n]) \in Nat
          BY <1>1, <5>1
        <5> HIDE DEF N
        <5>5. Len(f[k]) <= Len(f[n])
          <6> DEFINE a == Len(f[k])
                     c == Len(f[n - 1])
                     d == Len(seqs[n])
          <6>1. /\ a \in Nat /\ c \in Nat /\ d \in Nat /\ a <= c
                /\ Len(f[n]) = c + d
            BY <3>1, <5>2, <5>3, <5>4
          <6> HIDE DEF a, c, d
          <6>2. a <= Len(f[n])
            BY <6>1
          <6>3. QED
            BY <6>2 DEF a
        <5>6. \A i \in 1 .. Len(f[k]) : i \in 1 .. Len(f[n - 1])
          BY <3>1, <5>2, <5>3
        <5>7. \A i \in 1 .. Len(f[k]) : f[n][i] = f[k][i]
          BY <5>2, <5>3, <5>6
        <5>8. Longer(n)
          BY <5>3, <5>5, <5>7
        <5> HIDE DEF Longer
        <5>9. QED
          BY <5>8
      <4>4. QED
        BY <1>1, <4>1, <4>2, <4>3
    <3>4. N \in P /\ k <= N
      <4>1. N \in 0 .. N /\ k <= N
        BY <1>1
      <4> HIDE DEF P, N
      <4>2. QED
        BY <1>1, <3>2, <3>3, <4>1, Induction
    <3>5. Longer(N)
      BY <3>4
    <3>6. QED
      BY <2>1, <3>1, <3>5
  <2>4. ASSUME NEW k \in 1 .. j
        PROVE  Len(f[k]) = k /\ \A n \in 1 .. k : f[k][n] = seqs[n][1]
    <3> DEFINE Singles(n) == Len(f[n]) = n /\ \A i \in 1 .. n : f[n][i] = seqs[i][1]
               P == {n \in 0 .. j : 1 <= n => Singles(n)}
    <3>1. 0 \in P
      BY <1>1
    <3>2. ASSUME NEW n \in 1 .. j, n - 1 \in P PROVE n \in P
      <4>1. CASE n = 1
        BY <1>1, <2>1, <4>1
      <4>2. CASE n # 1
        <5>1. n \in 2 .. N /\ 1 <= n - 1
          BY <1>1, <4>2
        <5>2. Singles(n - 1) /\ Len(seqs[n]) = 1
          BY <3>2, <5>1
        <5>3. /\ Len(f[n]) = Len(f[n - 1]) + Len(seqs[n])
              /\ \A i \in 1 .. Len(f[n - 1]) : f[n][i] = f[n - 1][i]
              /\ \A i \in 1 .. Len(seqs[n]) : f[n][Len(f[n - 1]) + i] = seqs[n][i]
          BY <2>2, <5>1
        <5> HIDE DEF N
        <5>4. Len(f[n]) = n
          BY <5>1, <5>2, <5>3
        <5>5. \A i \in 1 .. n - 1 : f[n][i] = seqs[i][1]
          BY <5>2, <5>3
        <5>6. f[n][n] = seqs[n][1]
          <6>1. f[n][(n - 1) + 1] = seqs[n][1]
            BY <5>2, <5>3
          <6>2. QED
            BY <6>1
        <5>7. Singles(n)
          BY <5>4, <5>5, <5>6
        <5> HIDE DEF Singles
        <5>8. QED
          BY <5>7
      <4>3. QED
        BY <4>1, <4>2
    <3>3. k \in P /\ 1 <= k
      <4>1. j \in Nat /\ k \in 0 .. j /\ 1 <= k
        BY <1>1
      <4> HIDE DEF P
      <4>2. QED
        BY <3>1, <3>2, <4>1, Induction
    <3>4. QED
      BY <3>3
  <2>5. j <= Len(flat) /\ \A n \in 1 .. j : flat[n] = seqs[n][1]
    <3>1. CASE j = 0
      BY <1>2, <3>1, LenProperties
    <3>2. CASE j # 0
      <4>1. j \in 1 .. j /\ j \in 1 .. N
        BY <1>1, <3>2
      <4>2. QED
        BY <2>3, <2>4, <4>1
    <3>3. QED
      BY <3>1, <3>2
  <2>6. j = N => Len(flat) = j
    BY <1>1, <1>4, <2>1, <2>4
  <2>7. ASSUME j < N
        PROVE  /\ j + Len(seqs[j + 1]) <= Len(flat)
               /\ \A i \in 1 .. Len(seqs[j + 1]) : flat[j + i] = seqs[j + 1][i]
    <3>1. j + 1 \in 1 .. N /\ Len(seqs[j + 1]) \in Nat
      BY <1>1, <2>7
    <3>2. /\ Len(f[j + 1]) = j + Len(seqs[j + 1])
          /\ \A i \in 1 .. Len(seqs[j + 1]) : f[j + 1][j + i] = seqs[j + 1][i]
      <4>1. CASE j = 0
        BY <2>1, <3>1, <4>1
      <4>2. CASE j # 0
        <5> DEFINE m == j + 1
        <5>1. m \in 2 .. N /\ m - 1 = j /\ j \in 1 .. j
          BY <1>1, <3>1, <4>2
        <5>2. Len(f[j]) = j
          BY <2>4, <5>1
        <5> HIDE DEF m, N
        <5>3. /\ Len(f[m]) = Len(f[m - 1]) + Len(seqs[m])
              /\ \A i \in 1 .. Len(seqs[m]) : f[m][Len(f[m - 1]) + i] = seqs[m][i]
          BY <2>2, <5>1
        <5>4. /\ Len(f[m]) = j + Len(seqs[m])
              /\ \A i \in 1 .. Len(seqs[m]) : f[m][j + i] = seqs[m][i]
          BY <5>1, <5>2, <5>3
        <5>5. QED
          BY <5>4 DEF m
      <4>3. QED
        BY <4>1, <4>2
    <3>3. \A i \in 1 .. Len(seqs[j + 1]) : j + i \in 1 .. j + Len(seqs[j + 1])
      BY <1>1, <3>1
    <3>4. QED
      BY <2>3, <3>1, <3>2, <3>3
  <2>8. QED
    BY <1>2, <2>5, <2>6, <2>7 DEF flat
<1>5. QED
  BY <1>3, <1>4

(* Putting together sequences that have nothing gives nothing.             *)
LEMMA FlattenNothing ==
    ASSUME NEW seqs \in Seq({<< >>}) PROVE FlattenSeq(seqs) = << >>
<1> DEFINE N == Len(seqs)
<1>1. << >> \in Seq({}) /\ seqs \in Seq(Seq({}))
  BY EmptySeq, SeqMonotonic
<1>2. FlattenSeq(seqs) \in Seq({})
  BY <1>1, FlattenType
<1>3. QED
  BY <1>2, LenProperties, EmptySeq

-----------------------------------------------------------------------------
(* Lists: sequences of whatever they have.                                 *)

IsList(s) == s \in Seq(ToSet(s))

LEMMA ListIs ==
    ASSUME NEW s, IsList(s)
    PROVE  Len(s) \in Nat /\ DOMAIN s = 1 .. Len(s) /\ s = [n \in 1 .. Len(s) |-> s[n]]
<1>1. Len(s) \in Nat /\ DOMAIN s = 1 .. Len(s) /\ s \in [1 .. Len(s) -> ToSet(s)]
  BY LenProperties DEF IsList
<1>2. QED
  BY <1>1

LEMMA SeqIsList == ASSUME NEW S, NEW s \in Seq(S) PROVE IsList(s)
<1>1. Len(s) \in Nat /\ DOMAIN s = 1 .. Len(s) /\ s \in [1 .. Len(s) -> S]
  BY LenProperties
<1>2. s = [n \in 1 .. Len(s) |-> s[n]]
  BY <1>1
<1>3. \A n \in 1 .. Len(s) : s[n] \in ToSet(s)
  BY <1>1 DEF ToSet
<1>4. s \in [1 .. Len(s) -> ToSet(s)]
  BY <1>2, <1>3
<1>5. QED
  BY <1>1, <1>4 DEF IsList

LEMMA MadeList ==
    ASSUME NEW N \in Nat, NEW s, DOMAIN s = 1 .. N, s = [n \in DOMAIN s |-> s[n]]
    PROVE  IsList(s) /\ Len(s) = N
<1>1. \A n \in 1 .. N : s[n] \in ToSet(s)
  BY DEF ToSet
<1>2. s \in [1 .. N -> ToSet(s)]
  BY <1>1
<1>3. s \in Seq(ToSet(s))
  BY <1>2
<1>4. Len(s) = N
  <2>1. DOMAIN s = 1 .. Len(s) /\ Len(s) \in Nat
    BY <1>3, LenProperties
  <2>2. QED
    BY <2>1
<1>5. QED
  BY <1>3, <1>4 DEF IsList

LEMMA FewInList ==
    /\ \A a : IsList(<<a>>) /\ Len(<<a>>) = 1
    /\ \A a, c : IsList(<<a, c>>) /\ Len(<<a, c>>) = 2
    /\ \A a, c, d, e : IsList(<<a, c, d, e>>) /\ Len(<<a, c, d, e>>) = 4
<1>1. ASSUME NEW a PROVE <<a>> \in Seq({a}) /\ Len(<<a>>) = 1
  OBVIOUS
<1>2. ASSUME NEW a, NEW c PROVE <<a, c>> \in Seq({a, c}) /\ Len(<<a, c>>) = 2
  OBVIOUS
<1>3. ASSUME NEW a, NEW c, NEW d, NEW e
      PROVE  <<a, c, d, e>> \in Seq({a, c, d, e}) /\ Len(<<a, c, d, e>>) = 4
  OBVIOUS
<1>4. QED
  BY <1>1, <1>2, <1>3, SeqIsList

LEMMA ListsEqual ==
    ASSUME NEW s, NEW t, IsList(s), IsList(t), Len(s) = Len(t),
           \A n \in 1 .. Len(s) : s[n] = t[n]
    PROVE  s = t
BY ListIs

Joined(r, s, t) ==
    /\ IsList(r) /\ Len(r) = Len(s) + Len(t) /\ Len(s) \in Nat /\ Len(t) \in Nat
    /\ \A i \in 1 .. Len(s) : r[i] = s[i]
    /\ \A i \in 1 .. Len(t) : r[Len(s) + i] = t[i]

LEMMA ListsTogether ==
    ASSUME NEW s, NEW t, IsList(s), IsList(t), NEW r, r = s \o t
    PROVE  Joined(r, s, t)
<1> DEFINE E == ToSet(s) \cup ToSet(t)
<1>1. s \in Seq(E) /\ t \in Seq(E)
  <2>1. ToSet(s) \subseteq E /\ ToSet(t) \subseteq E
    OBVIOUS
  <2> HIDE DEF E
  <2>2. QED
    BY <2>1, SeqMonotonic DEF IsList
<1> HIDE DEF E
<1>2. /\ s \o t \in Seq(E) /\ Len(s \o t) = Len(s) + Len(t)
      /\ Len(s) \in Nat /\ Len(t) \in Nat
      /\ \A i \in 1 .. Len(s) : (s \o t)[i] = s[i]
      /\ \A i \in 1 .. Len(t) : (s \o t)[Len(s) + i] = t[i]
  BY <1>1, ConcatAt
<1>3. IsList(s \o t)
  BY <1>2, SeqIsList
<1>4. QED
  BY <1>2, <1>3 DEF Joined

LEMMA ListOfLists ==
    ASSUME NEW s, IsList(s), \A n \in DOMAIN s : IsList(s[n])
    PROVE  \E E : s \in Seq(Seq(E))
<1> DEFINE E == UNION {ToSet(s[n]) : n \in DOMAIN s}
<1>1. ASSUME NEW n \in DOMAIN s PROVE s[n] \in Seq(E)
  <2>1. ToSet(s[n]) \subseteq E
    OBVIOUS
  <2> HIDE DEF E
  <2>2. QED
    BY <2>1, SeqMonotonic DEF IsList
<1> HIDE DEF E
<1>2. s \in [1 .. Len(s) -> Seq(E)] /\ Len(s) \in Nat
  BY <1>1, ListIs
<1>3. s \in Seq(Seq(E))
  BY <1>2
<1>4. QED
  BY <1>3

LEMMA FlatList ==
    ASSUME NEW s, IsList(s), \A n \in DOMAIN s : IsList(s[n])
    PROVE  IsList(FlattenSeq(s))
BY ListOfLists, FlattenType, SeqIsList

LEMMA FirstOf ==
    ASSUME NEW s, IsList(s), NEW n \in 0 .. Len(s)
    PROVE  /\ IsList(SubSeq(s, 1, n)) /\ Len(SubSeq(s, 1, n)) = n
           /\ \A i \in 1 .. n : SubSeq(s, 1, n)[i] = s[i]
           /\ SubSeq(s, 1, Len(s)) = s
<1>1. s \in Seq(ToSet(s)) /\ Len(s) \in Nat /\ \A i \in 1 .. n : s[i] \in ToSet(s)
  BY ListIs DEF IsList, ToSet
<1>2. n \in Int /\ 1 \in Int /\ n - 1 + 1 = n /\ (n < 1 => n = 0) /\ \A i \in 1 .. n : 1 + i - 1 = i
  BY <1>1
<1>3. /\ SubSeq(s, 1, n) \in Seq(ToSet(s))
      /\ Len(SubSeq(s, 1, n)) = IF 1 <= n THEN n - 1 + 1 ELSE 0
      /\ \A i \in 1 .. n - 1 + 1 : SubSeq(s, 1, n)[i] = s[1 + i - 1]
  BY <1>1, <1>2, SubSeqProperties
<1>4. Len(SubSeq(s, 1, n)) = n /\ \A i \in 1 .. n : SubSeq(s, 1, n)[i] = s[i]
  BY <1>2, <1>3
<1>5. QED
  BY <1>1, <1>3, <1>4, SubSeqFull, SeqIsList

(* One more of the first ones.                                             *)
LEMMA OneMore ==
    ASSUME NEW s, IsList(s), NEW n \in 1 .. Len(s)
    PROVE  SubSeq(s, 1, n) = Append(SubSeq(s, 1, n - 1), s[n])
<1>1. /\ Len(s) \in Nat /\ n \in 0 .. Len(s) /\ n - 1 \in 0 .. Len(s) /\ (n - 1) + 1 = n
      /\ s[n] \in ToSet(s) /\ n - 1 \in Nat
  BY ListIs DEF ToSet
<1> DEFINE a == SubSeq(s, 1, n)
           k == n - 1
           c == SubSeq(s, 1, k)
           d == Append(c, s[n])
<1>2. IsList(a) /\ Len(a) = n /\ \A i \in 1 .. n : a[i] = s[i]
  BY <1>1, FirstOf
<1>3. IsList(c) /\ Len(c) = k /\ \A i \in 1 .. k : c[i] = s[i]
  BY <1>1, FirstOf
<1>4. c \in Seq(ToSet(s))
  <2>1. \A i \in 1 .. k : c[i] \in ToSet(s)
    BY <1>1, <1>3, ListIs DEF ToSet
  <2> HIDE DEF c
  <2>2. c \in [1 .. k -> ToSet(s)] /\ k \in Nat
    BY <1>1, <1>3, <2>1, ListIs
  <2>3. QED
    BY <2>2
<1> HIDE DEF a, c, k
<1>5. /\ d \in Seq(ToSet(s)) /\ Len(d) = Len(c) + 1
      /\ \A i \in 1 .. Len(c) : d[i] = c[i]
      /\ d[Len(c) + 1] = s[n]
  BY <1>1, <1>4, AppendProperties
<1> HIDE DEF d
<1>6. IsList(d) /\ Len(d) = n /\ k + 1 = n
  BY <1>1, <1>3, <1>5, SeqIsList DEF k
<1>7. \A i \in 1 .. n : a[i] = d[i]
  <2>1. d[n] = s[n] /\ \A i \in 1 .. k : d[i] = s[i]
    BY <1>3, <1>5, <1>6
  <2>2. ASSUME NEW i \in 1 .. n PROVE i = n \/ i \in 1 .. k
    BY <1>1 DEF k
  <2>3. ASSUME NEW i \in 1 .. n PROVE a[i] = d[i]
    BY <1>2, <2>1, <2>2
  <2>4. QED
    BY <2>3
<1>8. a = d
  BY <1>2, <1>6, <1>7, ListsEqual
<1>9. QED
  BY <1>8 DEF a, c, d, k

-----------------------------------------------------------------------------
(* What save_session writes.                                               *)

LEMMA NoElements ==
    ASSUME NEW s, DOMAIN s = {} , s = [n \in DOMAIN s |-> s[n]]
    PROVE  s = << >> /\ FlattenSeq(s) = << >>
<1>1. s = << >>
  OBVIOUS
<1>2. FlattenSeq(<< >>) = << >>
  BY EmptySeq DEF FlattenSeq
<1>3. QED
  BY <1>1, <1>2

LEMMA BlocksOfAre ==
    ASSUME NEW b, IsBinary(b), NEW f, f.blocks \in Seq(Nat)
    PROVE  BlocksOf(b, f) \in Seq(ToSet(b.blocks))
<1> DEFINE E == ToSet(b.blocks)
           q == [k \in DOMAIN f.blocks |->
                   IF Has(b.blocks, f.blocks[k]) THEN <<b.blocks[f.blocks[k]]>> ELSE << >>]
<1>1. DOMAIN f.blocks = 1 .. Len(f.blocks) /\ Len(f.blocks) \in Nat
  BY LenProperties
<1>2. ASSUME NEW k \in DOMAIN f.blocks PROVE q[k] \in Seq(E)
  <2>1. CASE Has(b.blocks, f.blocks[k])
    <3>1. b.blocks[f.blocks[k]] \in E
      BY <2>1 DEF Has, ToSet
    <3> HIDE DEF E
    <3>2. QED
      BY <2>1, <3>1
  <2>2. CASE ~Has(b.blocks, f.blocks[k])
    BY <2>2, EmptySeq
  <2>3. QED
    BY <2>1, <2>2
<1> HIDE DEF E
<1>3. q \in Seq(Seq(E))
  <2>1. q \in [1 .. Len(f.blocks) -> Seq(E)]
    BY <1>1, <1>2
  <2> HIDE DEF q
  <2>2. QED
    BY <1>1, <2>1
<1>4. BlocksOf(b, f) = FlattenSeq(q)
  BY DEF BlocksOf
<1> HIDE DEF q
<1>5. QED
  BY <1>3, <1>4, FlattenType DEF E

LEMMA InsnsOfAre ==
    ASSUME NEW b, IsBinary(b), NEW k, k.insns \in Seq(Nat)
    PROVE  /\ InsnsOf(b, k) \in Seq(ToSet(b.insns))
           /\ k.insns = << >> => InsnsOf(b, k) = << >>
<1> DEFINE E == ToSet(b.insns)
           q == [n \in DOMAIN k.insns |->
                   IF Has(b.insns, k.insns[n]) THEN <<b.insns[k.insns[n]]>> ELSE << >>]
<1>1. DOMAIN k.insns = 1 .. Len(k.insns) /\ Len(k.insns) \in Nat
  BY LenProperties
<1>2. ASSUME NEW n \in DOMAIN k.insns PROVE q[n] \in Seq(E)
  <2>1. CASE Has(b.insns, k.insns[n])
    <3>1. b.insns[k.insns[n]] \in E
      BY <2>1 DEF Has, ToSet
    <3> HIDE DEF E
    <3>2. QED
      BY <2>1, <3>1
  <2>2. CASE ~Has(b.insns, k.insns[n])
    BY <2>2, EmptySeq
  <2>3. QED
    BY <2>1, <2>2
<1> HIDE DEF E
<1>3. q \in Seq(Seq(E))
  <2>1. q \in [1 .. Len(k.insns) -> Seq(E)]
    BY <1>1, <1>2
  <2> HIDE DEF q
  <2>2. QED
    BY <1>1, <2>1
<1>4. InsnsOf(b, k) = FlattenSeq(q)
  BY DEF InsnsOf
<1>5. k.insns = << >> => DOMAIN q = {}
  BY <1>1, EmptySeq
<1>6. q = [n \in DOMAIN q |-> q[n]]
  OBVIOUS
<1> HIDE DEF q
<1>7. QED
  BY <1>3, <1>4, <1>5, <1>6, FlattenType, NoElements DEF E

LEMMA BlocksWrittenAre ==
    ASSUME NEW b, IsBinary(b)
    PROVE  /\ IsList(BlocksWritten(b)) /\ BlocksWritten(b) \in Seq(ToSet(b.blocks))
           /\ \A n \in 1 .. Len(BlocksWritten(b)) :
                LET k == BlocksWritten(b)[n]
                IN  k \in ToSet(b.blocks) /\ {k.insns, k.succs, k.preds} \subseteq Seq(Nat)
<1> DEFINE E == ToSet(b.blocks)
           q == [n \in DOMAIN b.functions |-> BlocksOf(b, b.functions[n])]
<1>1. IsList(b.functions)
  BY DEF IsBinary, IsList
<1>2. DOMAIN b.functions = 1 .. Len(b.functions) /\ Len(b.functions) \in Nat
  BY <1>1, ListIs
<1>3. ASSUME NEW n \in DOMAIN b.functions PROVE q[n] \in Seq(E)
  <2>1. b.functions[n].blocks \in Seq(Nat)
    BY DEF IsBinary, ToSet
  <2>2. QED
    BY <2>1, BlocksOfAre
<1> HIDE DEF E
<1>4. q \in Seq(Seq(E))
  <2>1. q \in [1 .. Len(b.functions) -> Seq(E)]
    BY <1>2, <1>3
  <2> HIDE DEF q
  <2>2. QED
    BY <1>2, <2>1
<1>5. BlocksWritten(b) = FlattenSeq(q)
  BY DEF BlocksWritten
<1> HIDE DEF q
<1>6. BlocksWritten(b) \in Seq(E)
  BY <1>4, <1>5, FlattenType
<1>7. ASSUME NEW n \in 1 .. Len(BlocksWritten(b)) PROVE BlocksWritten(b)[n] \in E
  BY <1>6, ElementOfSeq
<1>8. \A k \in E : {k.insns, k.succs, k.preds} \subseteq Seq(Nat)
  BY DEF IsBinary, E
<1>9. QED
  BY <1>6, <1>7, <1>8, SeqIsList DEF E

LEMMA InsnsWrittenAre ==
    ASSUME NEW b, IsBinary(b)
    PROVE  /\ IsList(InsnsWritten(b))
           /\ (\A n \in 1 .. Len(BlocksWritten(b)) : BlocksWritten(b)[n].insns = << >>)
                => InsnsWritten(b) = << >>
<1> DEFINE E == ToSet(b.insns)
           bs == BlocksWritten(b)
           q == [n \in DOMAIN bs |-> InsnsOf(b, bs[n])]
<1>1. /\ IsList(bs) /\ DOMAIN bs = 1 .. Len(bs) /\ Len(bs) \in Nat
      /\ \A n \in 1 .. Len(bs) : bs[n].insns \in Seq(Nat)
  BY BlocksWrittenAre, ListIs
<1>2. InsnsWritten(b) = FlattenSeq(q)
  BY DEF InsnsWritten
<1> HIDE DEF E, bs
<1>3. \A n \in 1 .. Len(bs) : q[n] \in Seq(E)
  BY <1>1, InsnsOfAre DEF E
<1>4. q \in Seq(Seq(E))
  <2>1. q \in [1 .. Len(bs) -> Seq(E)]
    BY <1>1, <1>3
  <2> HIDE DEF q
  <2>2. QED
    BY <1>1, <2>1
<1>5. IsList(InsnsWritten(b))
  <2> HIDE DEF q
  <2>1. QED
    BY <1>2, <1>4, FlattenType, SeqIsList
<1>6. ASSUME \A n \in 1 .. Len(bs) : bs[n].insns = << >> PROVE InsnsWritten(b) = << >>
  <2>1. \A n \in 1 .. Len(bs) : q[n] \in {<< >>}
    BY <1>1, <1>6, InsnsOfAre
  <2>2. q \in Seq({<< >>})
    BY <1>1, <2>1
  <2> HIDE DEF q
  <2>3. QED
    BY <1>2, <2>2, FlattenNothing
<1>7. QED
  BY <1>5, <1>6 DEF bs

LEMMA EntitiesAre ==
    ASSUME NEW kind, NEW kept, IsList(kept)
    PROVE  /\ IsList(Entities(kind, kept)) /\ Len(Entities(kind, kept)) = 1 + Len(kept)
           /\ Entities(kind, kept)[1] = Table(kind, Len(kept))
           /\ \A n \in 1 .. Len(kept) :
                Entities(kind, kept)[1 + n] = Entity(kind, kept[n])
<1> DEFINE a == <<Table(kind, Len(kept))>>
           e == [n \in DOMAIN kept |-> Entity(kind, kept[n])]
<1>1. DOMAIN kept = 1 .. Len(kept) /\ Len(kept) \in Nat
  BY ListIs
<1>2. IsList(e) /\ Len(e) = Len(kept)
  BY <1>1, MadeList
<1>3. IsList(a) /\ Len(a) = 1 /\ a[1] = Table(kind, Len(kept))
  BY MadeList
<1> DEFINE r == Entities(kind, kept)
<1>4. r = a \o e
  BY DEF Entities
<1>5. \A n \in 1 .. Len(kept) : e[n] = Entity(kind, kept[n])
  BY <1>1
<1> HIDE DEF a, e, r
<1>6. Joined(r, a, e)
  BY <1>2, <1>3, <1>4, ListsTogether, Zenon
<1>7. /\ IsList(r) /\ Len(r) = 1 + Len(kept) /\ r[1] = a[1]
      /\ \A n \in 1 .. Len(kept) : r[1 + n] = e[n]
  BY <1>2, <1>3, <1>6 DEF Joined
<1>8. QED
  BY <1>3, <1>5, <1>7 DEF r

LEMMA StoredAre ==
    ASSUME NEW b, IsBinary(b)
    PROVE  /\ Len(b.sections) \in Nat /\ DOMAIN b.sections = 1 .. Len(b.sections)
           /\ IsList(StoredSections(b)) /\ Len(StoredSections(b)) = Len(b.sections)
           /\ \A n \in 1 .. Len(b.sections) : StoredSections(b)[n] = StoredSection(b.sections[n])
           /\ Len(b.functions) \in Nat /\ DOMAIN b.functions = 1 .. Len(b.functions)
           /\ IsList(StoredFunctions(b)) /\ Len(StoredFunctions(b)) = Len(b.functions)
           /\ \A n \in 1 .. Len(b.functions) :
                StoredFunctions(b)[n] = StoredFunction(b.functions[n])
<1>1. IsList(b.sections) /\ IsList(b.functions)
  BY DEF IsBinary, IsList
<1>2. /\ Len(b.sections) \in Nat /\ DOMAIN b.sections = 1 .. Len(b.sections)
      /\ Len(b.functions) \in Nat /\ DOMAIN b.functions = 1 .. Len(b.functions)
  BY <1>1, ListIs
<1>3. /\ DOMAIN StoredSections(b) = 1 .. Len(b.sections)
      /\ StoredSections(b) = [n \in DOMAIN StoredSections(b) |-> StoredSections(b)[n]]
      /\ \A n \in 1 .. Len(b.sections) : StoredSections(b)[n] = StoredSection(b.sections[n])
  BY <1>2 DEF StoredSections
<1>4. /\ DOMAIN StoredFunctions(b) = 1 .. Len(b.functions)
      /\ StoredFunctions(b) = [n \in DOMAIN StoredFunctions(b) |-> StoredFunctions(b)[n]]
      /\ \A n \in 1 .. Len(b.functions) :
           StoredFunctions(b)[n] = StoredFunction(b.functions[n])
  BY <1>2 DEF StoredFunctions
<1>5. QED
  BY <1>2, <1>3, <1>4, MadeList

HasContents(k) == Contents(k) # << >>

(* The first block with contents.                                          *)
FirstFilled(bs, r) ==
    r # 0 /\ HasContents(bs[r]) /\ \A n \in 1 .. r - 1 : ~HasContents(bs[n])

LEMMA BlockItemsAre ==
    ASSUME NEW k
    PROVE  /\ IsList(BlockItems(k)) /\ BlockItems(k)[1] = Entity("BasicBlock", StoredBlock(k))
           /\ ~HasContents(k) => Len(BlockItems(k)) = 1
           /\ HasContents(k) => Len(BlockItems(k)) = 2 /\ BlockItems(k)[2] = Ids
<1> DEFINE e == Entity("BasicBlock", StoredBlock(k))
<1>1. CASE HasContents(k)
  <2>1. BlockItems(k) = <<e>> \o <<Ids>>
    BY <1>1 DEF BlockItems, HasContents
  <2> HIDE DEF e
  <2> DEFINE x == <<e>>
             y == <<Ids>>
             r == BlockItems(k)
  <2>2. IsList(x) /\ IsList(y) /\ Len(x) = 1 /\ Len(y) = 1 /\ x[1] = e /\ y[1] = Ids /\ r = x \o y
    BY <2>1, FewInList
  <2> HIDE DEF x, y, r
  <2>3. Joined(r, x, y)
    BY <2>2, ListsTogether, Zenon
  <2>4. IsList(r) /\ r[1] = e /\ Len(r) = 2 /\ r[2] = Ids
    <3>1. 1 \in 1 .. 1 /\ 2 = 1 + 1
      OBVIOUS
    <3>2. IsList(r) /\ Len(r) = 2 /\ r[1] = x[1] /\ r[1 + 1] = y[1]
      BY <2>2, <2>3 DEF Joined
    <3>3. QED
      BY <2>2, <3>1, <3>2
  <2>5. QED
    BY <1>1, <2>4 DEF e, r
<1>2. CASE ~HasContents(k)
  <2>1. BlockItems(k) = <<e>> \o << >>
    BY <1>2 DEF BlockItems, HasContents
  <2> HIDE DEF e
  <2>2. <<e>> \o << >> = <<e>>
    OBVIOUS
  <2>3. IsList(<<e>>) /\ Len(<<e>>) = 1 /\ <<e>>[1] = e
    BY FewInList
  <2>4. QED
    BY <1>2, <2>1, <2>2, <2>3 DEF e
<1>3. QED
  BY <1>1, <1>2

(* The blocks up to the first one with contents, behind which there are    *)
(* identifiers; all blocks, when none has any.                             *)
LEMMA BlocksFlat ==
    ASSUME NEW b, IsBinary(b), NEW flat,
           flat = FlattenSeq([n \in DOMAIN BlocksWritten(b) |-> BlockItems(BlocksWritten(b)[n])])
    PROVE  LET bs == BlocksWritten(b) IN
           /\ IsList(flat) /\ Len(bs) \in Nat
           /\ \E r \in 0 .. Len(bs) :
                /\ r <= Len(flat)
                /\ \A n \in 1 .. r : flat[n] = Entity("BasicBlock", StoredBlock(bs[n]))
                /\ \/ r < Len(flat) /\ flat[r + 1] = Ids /\ FirstFilled(bs, r)
                   \/ /\ r = Len(bs) /\ r = Len(flat)
                      /\ \A n \in 1 .. Len(bs) : ~HasContents(bs[n])
<1> DEFINE bs == BlocksWritten(b)
           N == Len(bs)
           q == [n \in DOMAIN bs |-> BlockItems(bs[n])]
           T == {n \in 1 .. N : HasContents(bs[n])}
<1>1. N \in Nat /\ DOMAIN bs = 1 .. N
  BY BlocksWrittenAre, ListIs
<1>2. IsList(q) /\ Len(q) = N
  BY <1>1, MadeList
<1>3. \A n \in 1 .. N : q[n] = BlockItems(bs[n])
  BY <1>1
<1> HIDE DEF bs, N, q
<1>4. ASSUME NEW n \in 1 .. N
      PROVE  /\ IsList(q[n]) /\ q[n][1] = Entity("BasicBlock", StoredBlock(bs[n]))
             /\ ~HasContents(bs[n]) => Len(q[n]) = 1
             /\ HasContents(bs[n]) => Len(q[n]) = 2 /\ q[n][2] = Ids
  BY <1>3, BlockItemsAre
<1>5. DOMAIN q = 1 .. N
  BY <1>2, ListIs
<1>6. PICK E : q \in Seq(Seq(E))
  BY <1>2, <1>4, <1>5, ListOfLists
<1>7. flat = FlattenSeq(q)
  BY DEF q, bs
<1>8. IsList(flat) /\ Len(flat) \in Nat
  BY <1>6, <1>7, FlattenType, SeqIsList, ListIs
<1>9. CASE T = {}
  <2>1. \A n \in 1 .. N : Len(q[n]) = 1 /\ ~HasContents(bs[n])
    BY <1>4, <1>9
  <2>2. N \in 0 .. Len(q)
    BY <1>1, <1>2
  <2>3. \A n \in 1 .. N : FlattenSeq(q)[n] = q[n][1]
    BY <1>6, <2>1, <2>2, FlattenSingles
  <2>4. Len(FlattenSeq(q)) = N
    BY <1>2, <1>6, <2>1, <2>2, FlattenSingles
  <2>5. N \in 0 .. N
    BY <1>1
  <2>6. \A n \in 1 .. N : flat[n] = Entity("BasicBlock", StoredBlock(bs[n]))
    BY <1>4, <1>7, <2>3
  <2>7. N <= Len(flat) /\ N = Len(flat)
    BY <1>1, <1>7, <2>4
  <2>8. QED
    BY <1>1, <1>8, <2>1, <2>5, <2>6, <2>7 DEF bs, N
<1>10. CASE T # {}
  <2>1. PICK m \in T : \A n \in T : m <= n
    <3>1. T \in SUBSET Nat
      OBVIOUS
    <3> HIDE DEF T
    <3>2. QED
      BY <1>10, <3>1, LeastNumber
  <2>2. m \in 1 .. N /\ HasContents(bs[m])
    OBVIOUS
  <2> DEFINE j == m - 1
  <2>3. j \in 0 .. N /\ j < N /\ j + 1 = m
    BY <1>1, <2>2
  <2>4. \A n \in 1 .. j : Len(q[n]) = 1
    <3>1. ASSUME NEW n \in 1 .. j PROVE ~HasContents(bs[n]) /\ n \in 1 .. N
      BY <1>1, <2>1
    <3>2. QED
      BY <1>4, <3>1
  <2>5. Len(q[m]) = 2 /\ q[m][2] = Ids
    BY <1>4, <2>2
  <2> HIDE DEF j, T
  <2>6. /\ \A n \in 1 .. j : flat[n] = q[n][1]
        /\ j + Len(q[m]) <= Len(flat)
        /\ \A i \in 1 .. Len(q[m]) : flat[j + i] = q[m][i]
    <3>1. j \in 0 .. Len(q) /\ j < Len(q)
      BY <1>2, <2>3
    <3>2. /\ \A n \in 1 .. j : FlattenSeq(q)[n] = q[n][1]
          /\ j + Len(q[j + 1]) <= Len(FlattenSeq(q))
          /\ \A i \in 1 .. Len(q[j + 1]) : FlattenSeq(q)[j + i] = q[j + 1][i]
      BY <1>6, <2>4, <3>1, FlattenSingles
    <3>3. QED
      BY <1>7, <2>3, <3>2
  <2>7. j + 2 <= Len(flat) /\ flat[j + 1] = q[m][1] /\ flat[j + 2] = Ids
    <3>1. 1 \in 1 .. 2 /\ 2 \in 1 .. 2
      OBVIOUS
    <3>2. QED
      BY <2>5, <2>6, <3>1
  <2>8. m < Len(flat) /\ m <= Len(flat) /\ m \in 0 .. N /\ m + 1 = j + 2
    BY <1>1, <1>8, <2>2, <2>3, <2>7
  <2>9. ASSUME NEW n \in 1 .. m PROVE flat[n] = Entity("BasicBlock", StoredBlock(bs[n]))
    <3>1. n \in 1 .. N
      BY <1>1, <2>2
    <3>2. flat[n] = q[n][1]
      <4>1. CASE n = m
        BY <2>3, <2>7, <4>1
      <4>2. CASE n # m
        <5>1. n \in 1 .. j
          BY <1>1, <2>2, <2>3, <4>2
        <5>2. QED
          BY <2>6, <5>1
      <4>3. QED
        BY <4>1, <4>2
    <3>3. QED
      BY <1>4, <3>1, <3>2
  <2>10. flat[m + 1] = Ids
    BY <2>7, <2>8
  <2>11. FirstFilled(bs, m)
    <3>1. \A n \in 1 .. j : n \in 1 .. N /\ n < m
      BY <1>1, <2>2, <2>3
    <3>2. \A n \in 1 .. j : ~HasContents(bs[n])
      BY <2>1, <3>1 DEF T
    <3>3. m # 0
      BY <2>2
    <3>4. QED
      BY <2>2, <3>2, <3>3 DEF FirstFilled, j
  <2>12. QED
    BY <1>1, <1>8, <2>8, <2>9, <2>10, <2>11 DEF bs, N
<1>11. QED
  BY <1>9, <1>10

(* Where the items are of a file that is written whole: r blocks and M     *)
(* items are read from their place.                                        *)
Layout(items, b, r, M) ==
    LET s == Len(b.sections)
        f == Len(b.functions)
        bs == BlocksWritten(b)
    IN  /\ IsList(items) /\ r \in 0 .. Len(bs) /\ Len(bs) \in Nat /\ M \in 0 .. Len(items)
        /\ items[1] = Magic(1) /\ items[2] = Meta
        /\ items[3] = Table("Section", s)
        /\ \A n \in 1 .. s : items[3 + n] = Entity("Section", StoredSection(b.sections[n]))
        /\ items[4 + s] = Table("Function", f)
        /\ \A n \in 1 .. f : items[4 + s + n] = Entity("Function", StoredFunction(b.functions[n]))
        /\ items[5 + s + f] = Table("BasicBlock", Len(bs))
        /\ \A n \in 1 .. r : items[5 + s + f + n] = Entity("BasicBlock", StoredBlock(bs[n]))
        /\ \/ /\ M = 5 + s + f + r /\ M < Len(items) /\ items[M + 1] = Ids
              /\ FirstFilled(bs, r)
           \/ /\ M = 10 + s + f + r /\ M = Len(items) /\ r = Len(bs)
              /\ \A n \in 1 .. r : ~HasContents(bs[n])
              /\ items[6 + s + f + r] = Table("Instruction", 0)
              /\ items[7 + s + f + r] = Table("Symbol", 0)
              /\ items[8 + s + f + r] = Table("Type", 0)
              /\ items[9 + s + f + r] = Table("XRef", 0)
              /\ \E low : items[M] = Footer(low)

LEMMA ItemsAre ==
    ASSUME NEW b, IsBinary(b), NEW low
    PROVE  \E r, M : Layout(Items(b, low), b, r, M)
<1> DEFINE s == Len(b.sections)
           f == Len(b.functions)
           bs == BlocksWritten(b)
           insns == InsnsWritten(b)
           ents == [n \in DOMAIN insns |-> StoredInstruction(insns[n])]
           p1 == <<Magic(1), Meta>>
           p2 == Entities("Section", StoredSections(b))
           p3 == Entities("Function", StoredFunctions(b))
           p4 == <<Table("BasicBlock", Len(bs))>>
           p5 == FlattenSeq([n \in DOMAIN bs |-> BlockItems(bs[n])])
           p6 == Entities("Instruction", ents)
           p7 == <<Table("Symbol", 0), Table("Type", 0), Table("XRef", 0), Footer(low)>>
           r1 == p1 \o p2
           r2 == r1 \o p3
           r3 == r2 \o p4
           r4 == r3 \o p5
           r5 == r4 \o p6
           r6 == r5 \o p7
<1>1. Items(b, low) = r6
  BY DEF Items
<1>2. IsList(p1) /\ Len(p1) = 2 /\ p1[1] = Magic(1) /\ p1[2] = Meta
  BY FewInList
<1>3. /\ IsList(p2) /\ Len(p2) = 1 + s /\ s \in Nat /\ p2[1] = Table("Section", s)
      /\ \A n \in 1 .. s : p2[1 + n] = Entity("Section", StoredSection(b.sections[n]))
  BY StoredAre, EntitiesAre
<1>4. /\ IsList(p3) /\ Len(p3) = 1 + f /\ f \in Nat /\ p3[1] = Table("Function", f)
      /\ \A n \in 1 .. f : p3[1 + n] = Entity("Function", StoredFunction(b.functions[n]))
  BY StoredAre, EntitiesAre
<1>5. IsList(p4) /\ Len(p4) = 1 /\ p4[1] = Table("BasicBlock", Len(bs))
  BY MadeList
<1>6. /\ IsList(p5) /\ Len(bs) \in Nat
      /\ \E r \in 0 .. Len(bs) :
           /\ r <= Len(p5)
           /\ \A n \in 1 .. r : p5[n] = Entity("BasicBlock", StoredBlock(bs[n]))
           /\ \/ r < Len(p5) /\ p5[r + 1] = Ids /\ FirstFilled(bs, r)
              \/ r = Len(bs) /\ r = Len(p5) /\ \A n \in 1 .. Len(bs) : ~HasContents(bs[n])
  BY BlocksFlat
<1>7. IsList(insns) /\ DOMAIN insns = 1 .. Len(insns) /\ Len(insns) \in Nat
  BY InsnsWrittenAre, ListIs
<1>8. IsList(ents) /\ Len(ents) = Len(insns)
  BY <1>7, MadeList
<1>9. IsList(p6) /\ Len(p6) = 1 + Len(insns) /\ p6[1] = Table("Instruction", Len(insns))
  <2> HIDE DEF ents
  <2>1. QED
    BY <1>8, EntitiesAre
<1>10. /\ IsList(p7) /\ Len(p7) = 4 /\ p7[1] = Table("Symbol", 0) /\ p7[2] = Table("Type", 0)
       /\ p7[3] = Table("XRef", 0) /\ p7[4] = Footer(low)
  BY FewInList
<1> HIDE DEF p1, p2, p3, p4, p5, p6, p7
<1>11. Joined(r1, p1, p2)
  BY <1>2, <1>3, ListsTogether, Zenon
<1> HIDE DEF r1
<1>12. Joined(r2, r1, p3)
  <2>1. IsList(r1)
    BY <1>11 DEF Joined
  <2>2. QED
    BY <1>4, <2>1, ListsTogether, Zenon
<1> HIDE DEF r2
<1>13. Joined(r3, r2, p4)
  <2>1. IsList(r2)
    BY <1>12 DEF Joined
  <2>2. QED
    BY <1>5, <2>1, ListsTogether, Zenon
<1> HIDE DEF r3
<1>14. Joined(r4, r3, p5)
  <2>1. IsList(r3)
    BY <1>13 DEF Joined
  <2>2. QED
    BY <1>6, <2>1, ListsTogether, Zenon
<1> HIDE DEF r4
<1>15. Joined(r5, r4, p6)
  <2>1. IsList(r4)
    BY <1>14 DEF Joined
  <2>2. QED
    BY <1>9, <2>1, ListsTogether, Zenon
<1> HIDE DEF r5
<1>16. Joined(r6, r5, p7)
  <2>1. IsList(r5)
    BY <1>15 DEF Joined
  <2>2. QED
    BY <1>10, <2>1, ListsTogether, Zenon
<1> HIDE DEF r6
<1> HIDE DEF s, f, bs, insns
(* The lengths. *)
<1>17. Len(r1) = 3 + s /\ Len(r2) = 4 + s + f /\ Len(r3) = 5 + s + f
  BY <1>2, <1>3, <1>4, <1>5, <1>11, <1>12, <1>13 DEF Joined
<1>18. Len(p5) \in Nat
  BY <1>14 DEF Joined
<1>19. /\ Len(r4) = 5 + s + f + Len(p5) /\ Len(r5) = 6 + s + f + Len(p5) + Len(insns)
       /\ Len(r6) = 10 + s + f + Len(p5) + Len(insns)
  BY <1>3, <1>4, <1>7, <1>9, <1>10, <1>14, <1>15, <1>16, <1>17, <1>18 DEF Joined
(* What is put together stays in its place. *)
<1>20. \A n \in 1 .. 5 + s + f + Len(p5) : r6[n] = r4[n]
  <2>1. ASSUME NEW n \in 1 .. 5 + s + f + Len(p5) PROVE r6[n] = r4[n]
    <3>1. n \in 1 .. Len(r4) /\ n \in 1 .. Len(r5)
      BY <1>3, <1>4, <1>7, <1>18, <1>19
    <3>2. QED
      BY <1>15, <1>16, <3>1 DEF Joined
  <2>2. QED
    BY <2>1
<1>21. \A n \in 1 .. 5 + s + f : r6[n] = r3[n]
  <2>1. ASSUME NEW n \in 1 .. 5 + s + f PROVE r6[n] = r3[n]
    <3>1. n \in 1 .. Len(r3) /\ n \in 1 .. 5 + s + f + Len(p5)
      BY <1>3, <1>4, <1>17, <1>18
    <3>2. QED
      BY <1>14, <1>20, <3>1 DEF Joined
  <2>2. QED
    BY <2>1
<1>22. \A n \in 1 .. 4 + s + f : r6[n] = r2[n]
  <2>1. ASSUME NEW n \in 1 .. 4 + s + f PROVE r6[n] = r2[n]
    <3>1. n \in 1 .. Len(r2) /\ n \in 1 .. 5 + s + f
      <4>1. s \in Nat /\ f \in Nat /\ Len(r2) = 4 + s + f
        BY <1>3, <1>4, <1>17
      <4>2. QED
        BY <4>1
    <3>2. QED
      BY <1>13, <1>21, <3>1 DEF Joined
  <2>2. QED
    BY <2>1
<1>23. \A n \in 1 .. 3 + s : r6[n] = r1[n]
  <2>1. ASSUME NEW n \in 1 .. 3 + s PROVE r6[n] = r1[n]
    <3>1. n \in 1 .. Len(r1) /\ n \in 1 .. 4 + s + f
      BY <1>3, <1>4, <1>17
    <3>2. QED
      BY <1>12, <1>22, <3>1 DEF Joined
  <2>2. QED
    BY <2>1
(* The places. *)
<1>24. r6[1] = Magic(1) /\ r6[2] = Meta
  <2>1. 1 \in 1 .. 2 /\ 2 \in 1 .. 2 /\ 1 \in 1 .. 3 + s /\ 2 \in 1 .. 3 + s
    BY <1>3
  <2>2. QED
    BY <1>2, <1>11, <1>23, <2>1 DEF Joined
<1>25. r6[3] = Table("Section", s)
  <2>1. 1 \in 1 .. 1 + s /\ 3 \in 1 .. 3 + s /\ 2 + 1 = 3
    BY <1>3
  <2>2. r1[2 + 1] = p2[1]
    BY <1>2, <1>3, <1>11, <2>1 DEF Joined
  <2>3. QED
    BY <1>3, <1>23, <2>1, <2>2
<1>26. ASSUME NEW n \in 1 .. s PROVE r6[3 + n] = Entity("Section", StoredSection(b.sections[n]))
  <2>1. 1 + n \in 1 .. 1 + s /\ 3 + n \in 1 .. 3 + s /\ 2 + (1 + n) = 3 + n
    BY <1>3
  <2>2. r1[2 + (1 + n)] = p2[1 + n]
    BY <1>2, <1>3, <1>11, <2>1 DEF Joined
  <2>3. QED
    BY <1>3, <1>23, <2>1, <2>2
<1>27. r6[4 + s] = Table("Function", f)
  <2>1. 1 \in 1 .. 1 + f /\ 4 + s \in 1 .. 4 + s + f /\ (3 + s) + 1 = 4 + s
    BY <1>3, <1>4
  <2>2. r2[(3 + s) + 1] = p3[1]
    BY <1>4, <1>12, <1>17, <2>1 DEF Joined
  <2>3. QED
    BY <1>4, <1>22, <2>1, <2>2
<1>28. ASSUME NEW n \in 1 .. f
       PROVE  r6[4 + s + n] = Entity("Function", StoredFunction(b.functions[n]))
  <2>1. /\ 1 + n \in 1 .. 1 + f /\ 4 + s + n \in 1 .. 4 + s + f
        /\ (3 + s) + (1 + n) = 4 + s + n
    <3>1. s \in Nat /\ f \in Nat
      BY <1>3, <1>4
    <3>2. QED
      BY <3>1
  <2>2. r2[(3 + s) + (1 + n)] = p3[1 + n]
    BY <1>4, <1>12, <1>17, <2>1 DEF Joined
  <2>3. QED
    BY <1>4, <1>22, <2>1, <2>2
<1>29. r6[5 + s + f] = Table("BasicBlock", Len(bs))
  <2>1. 1 \in 1 .. 1 /\ 5 + s + f \in 1 .. 5 + s + f /\ (4 + s + f) + 1 = 5 + s + f
    BY <1>3, <1>4
  <2>2. r3[(4 + s + f) + 1] = p4[1]
    BY <1>5, <1>13, <1>17, <2>1 DEF Joined
  <2>3. QED
    BY <1>5, <1>21, <2>1, <2>2
<1>30. ASSUME NEW n \in 1 .. Len(p5) PROVE r6[5 + s + f + n] = p5[n]
  <2>1. 5 + s + f + n \in 1 .. 5 + s + f + Len(p5)
    BY <1>3, <1>4, <1>18
  <2>2. r4[5 + s + f + n] = p5[n]
    BY <1>14, <1>17 DEF Joined
  <2>3. QED
    BY <1>20, <2>1, <2>2
<1>31. IsList(r6)
  BY <1>16 DEF Joined
<1>32. PICK r \in 0 .. Len(bs) :
         /\ r <= Len(p5)
         /\ \A n \in 1 .. r : p5[n] = Entity("BasicBlock", StoredBlock(bs[n]))
         /\ \/ r < Len(p5) /\ p5[r + 1] = Ids /\ FirstFilled(bs, r)
            \/ r = Len(bs) /\ r = Len(p5) /\ \A n \in 1 .. Len(bs) : ~HasContents(bs[n])
  BY <1>6
<1>33. ASSUME NEW n \in 1 .. r
       PROVE  r6[5 + s + f + n] = Entity("BasicBlock", StoredBlock(bs[n]))
  <2>1. n \in 1 .. Len(p5)
    BY <1>6, <1>18, <1>32
  <2>2. QED
    BY <1>30, <1>32, <2>1
<1>34. CASE r < Len(p5) /\ p5[r + 1] = Ids /\ FirstFilled(bs, r)
  <2> DEFINE M == 5 + s + f + r
  <2>1. r + 1 \in 1 .. Len(p5) /\ 5 + s + f + (r + 1) = M + 1
    BY <1>3, <1>4, <1>6, <1>18, <1>34
  <2>2. r6[M + 1] = Ids
    <3>1. r6[5 + s + f + (r + 1)] = Ids
      BY <1>30, <1>34, <2>1
    <3> HIDE DEF M
    <3>2. QED
      BY <2>1, <3>1
  <2>3. M < Len(r6) /\ M \in 0 .. Len(r6)
    BY <1>3, <1>4, <1>6, <1>7, <1>18, <1>19, <1>34
  <2>4. Layout(r6, b, r, M)
    BY <1>6, <1>24, <1>25, <1>26, <1>27, <1>28, <1>29, <1>31, <1>33, <1>34, <2>2, <2>3
       DEF Layout, s, f, bs
  <2>5. QED
    BY <1>1, <2>4
<1>35. CASE r = Len(bs) /\ r = Len(p5) /\ \A n \in 1 .. Len(bs) : ~HasContents(bs[n])
  <2>1. insns = << >> /\ Len(insns) = 0
    <3>1. ASSUME NEW n \in 1 .. Len(bs) PROVE bs[n].insns = << >>
      <4>1. {bs[n].insns, bs[n].succs, bs[n].preds} \subseteq Seq(Nat)
        BY BlocksWrittenAre DEF bs
      <4>2. bs[n].insns \o bs[n].succs \o bs[n].preds = << >>
        BY <1>35 DEF HasContents, Contents
      <4> DEFINE x == bs[n].insns
                 y == bs[n].succs
                 z == bs[n].preds
      <4>3. x \in Seq(Nat) /\ y \in Seq(Nat) /\ z \in Seq(Nat) /\ (x \o y) \o z = << >>
        BY <4>1, <4>2
      <4> HIDE DEF x, y, z
      <4>4. x \o y = << >>
        BY <4>3, ConcatProperties, ConcatEqualIffEmpty
      <4>5. QED
        BY <4>3, <4>4, ConcatEqualIffEmpty DEF x
    <3>2. insns = << >>
      BY <3>1, InsnsWrittenAre DEF bs, insns
    <3>3. QED
      BY <3>2, EmptySeq
  <2> DEFINE M == 10 + s + f + r
  <2>2. M = Len(r6) /\ M \in 0 .. Len(r6) /\ r \in Nat
    BY <1>3, <1>4, <1>6, <1>19, <1>35, <2>1
  <2>3. Len(r4) = 5 + s + f + r /\ Len(r5) = 6 + s + f + r
    BY <1>3, <1>4, <1>6, <1>19, <1>35, <2>1
  <2>4. r6[6 + s + f + r] = Table("Instruction", 0)
    <3>1. /\ 6 + s + f + r \in 1 .. Len(r5) /\ (5 + s + f + r) + 1 = 6 + s + f + r
          /\ 1 \in 1 .. Len(p6)
      BY <1>3, <1>4, <1>6, <1>9, <2>1, <2>3
    <3>2. r5[(5 + s + f + r) + 1] = p6[1]
      BY <1>15, <2>3, <3>1 DEF Joined
    <3>3. r6[6 + s + f + r] = r5[6 + s + f + r]
      BY <1>16, <3>1 DEF Joined
    <3>4. QED
      BY <1>9, <2>1, <3>1, <3>2, <3>3
  <2>5. ASSUME NEW i \in 1 .. 4 PROVE r6[6 + s + f + r + i] = p7[i]
    BY <1>10, <1>16, <2>3 DEF Joined
  <2>6. /\ r6[7 + s + f + r] = Table("Symbol", 0) /\ r6[8 + s + f + r] = Table("Type", 0)
        /\ r6[9 + s + f + r] = Table("XRef", 0) /\ r6[M] = Footer(low)
    <3>1. /\ 7 + s + f + r = 6 + s + f + r + 1 /\ 8 + s + f + r = 6 + s + f + r + 2
          /\ 9 + s + f + r = 6 + s + f + r + 3 /\ M = 6 + s + f + r + 4
          /\ 1 \in 1 .. 4 /\ 2 \in 1 .. 4 /\ 3 \in 1 .. 4 /\ 4 \in 1 .. 4
      BY <1>3, <1>4, <2>2
    <3> HIDE DEF M
    <3>2. QED
      BY <1>10, <2>5, <3>1
  <2>7. \A n \in 1 .. r : ~HasContents(bs[n])
    BY <1>35
  <2>8. \E x : r6[M] = Footer(x)
    BY <2>6
  <2>9. Layout(r6, b, r, M)
    <3> HIDE DEF M
    <3>1. M = 10 + s + f + r
      BY DEF M
    <3>2. QED
      BY <1>6, <1>24, <1>25, <1>26, <1>27, <1>28, <1>29, <1>31, <1>33, <1>35, <2>2,
         <2>4, <2>6, <2>7, <2>8, <3>1
         DEF Layout, s, f, bs
  <2>10. QED
    BY <1>1, <2>9
<1>36. QED
  BY <1>32, <1>34, <1>35

-----------------------------------------------------------------------------
(* What load_session makes of it.                                          *)

Sizes(items, s, f, r, M) ==
    /\ s \in Nat /\ f \in Nat /\ r \in Nat /\ M \in Nat
    /\ IsList(items) /\ Len(items) \in Nat /\ M <= Len(items)
    /\ \/ M = 5 + s + f + r /\ M < Len(items) /\ items[M + 1] = Ids
       \/ M = 10 + s + f + r /\ M = Len(items)

LEMMA LayoutIs ==
    ASSUME NEW items, NEW b, IsBinary(b), NEW r, NEW M, Layout(items, b, r, M)
    PROVE  Sizes(items, Len(b.sections), Len(b.functions), r, M)
<1>1. Len(b.sections) \in Nat /\ Len(b.functions) \in Nat
  BY StoredAre
<1>2. /\ IsList(items) /\ M \in 0 .. Len(items)
      /\ r \in 0 .. Len(BlocksWritten(b)) /\ Len(BlocksWritten(b)) \in Nat
  BY DEF Layout
<1>3. Len(items) \in Nat
  BY <1>2, ListIs
<1>4. r \in Nat /\ M \in Nat /\ M <= Len(items)
  BY <1>2, <1>3
<1>5. \/ /\ M = 5 + Len(b.sections) + Len(b.functions) + r
         /\ M < Len(items) /\ items[M + 1] = Ids
      \/ M = 10 + Len(b.sections) + Len(b.functions) + r /\ M = Len(items)
  BY DEF Layout
<1>6. QED
  BY <1>1, <1>2, <1>3, <1>4, <1>5 DEF Sizes

(* The items that are read from their place.                               *)
Placed(n, s, f, r, M) ==
    \/ n \in 1 .. 3 \/ n = 4 + s \/ n = 5 + s + f
    \/ n \in 6 + s + f + r .. 10 + s + f + r /\ M = 10 + s + f + r
    \/ \E k \in 1 .. s : n = 3 + k
    \/ \E k \in 1 .. f : n = 4 + s + k
    \/ \E k \in 1 .. r : n = 5 + s + f + k

LEMMA PlaceIs ==
    ASSUME NEW s, NEW f, NEW r, NEW M, NEW items, Sizes(items, s, f, r, M), NEW n \in 1 .. M
    PROVE  Placed(n, s, f, r, M)
<1>1. s \in Nat /\ f \in Nat /\ r \in Nat /\ (M = 5 + s + f + r \/ M = 10 + s + f + r)
  BY DEF Sizes
<1>3. ASSUME n \in 4 .. 3 + s PROVE \E k \in 1 .. s : n = 3 + k
  <2>1. n - 3 \in 1 .. s /\ n = 3 + (n - 3)
    BY <1>1, <1>3
  <2>2. QED
    BY <2>1
<1>4. ASSUME n \in 5 + s .. 4 + s + f PROVE \E k \in 1 .. f : n = 4 + s + k
  <2>1. n - (4 + s) \in 1 .. f /\ n = 4 + s + (n - (4 + s))
    BY <1>1, <1>4
  <2>2. QED
    BY <2>1
<1>5. ASSUME n \in 6 + s + f .. 5 + s + f + r PROVE \E k \in 1 .. r : n = 5 + s + f + k
  <2>1. n - (5 + s + f) \in 1 .. r /\ n = 5 + s + f + (n - (5 + s + f))
    BY <1>1, <1>5
  <2>2. QED
    BY <2>1
<1>6. \/ n \in 1 .. 3 \/ n = 4 + s \/ n = 5 + s + f
      \/ n \in 6 + s + f + r .. 10 + s + f + r /\ M = 10 + s + f + r
      \/ n \in 4 .. 3 + s \/ n \in 5 + s .. 4 + s + f \/ n \in 6 + s + f .. 5 + s + f + r
  BY <1>1
<1>7. QED
  BY <1>3, <1>4, <1>5, <1>6 DEF Placed

(* Those that are no entities.                                             *)
LEMMA Marks ==
    ASSUME NEW items, NEW b, IsBinary(b), NEW r, NEW M, Layout(items, b, r, M),
           NEW n \in 1 .. M,
           \/ n \in 1 .. 3 \/ n = 4 + Len(b.sections)
           \/ n = 5 + Len(b.sections) + Len(b.functions)
           \/ /\ n \in 6 + Len(b.sections) + Len(b.functions) + r ..
                         10 + Len(b.sections) + Len(b.functions) + r
              /\ M = 10 + Len(b.sections) + Len(b.functions) + r
    PROVE  items[n].item # "entity" /\ items[n] # Ids
<1> DEFINE s == Len(b.sections)
           f == Len(b.functions)
<1>1. s \in Nat /\ f \in Nat /\ r \in Nat
  BY LayoutIs DEF Sizes
<1> DEFINE Mark(i) == \/ i = Magic(1) \/ i = Meta \/ \E kind, c : i = Table(kind, c)
                      \/ \E low : i = Footer(low)
<1>3. ASSUME NEW i, Mark(i) PROVE i.item # "entity" /\ i # Ids
  BY <1>3 DEF Magic, Meta, Table, Footer, Ids
<1>4. Mark(items[n])
  <2>1. CASE n \in 1 .. 3
    <3>1. n = 1 \/ n = 2 \/ n = 3
      BY <2>1
    <3>2. QED
      BY <3>1 DEF Layout
  <2>2. CASE n = 4 + s
    BY <2>2 DEF Layout
  <2>3. CASE n = 5 + s + f
    BY <2>3 DEF Layout
  <2>4. CASE n \in 6 + s + f + r .. 10 + s + f + r /\ M = 10 + s + f + r
    <3>1. \/ n = 6 + s + f + r \/ n = 7 + s + f + r \/ n = 8 + s + f + r \/ n = 9 + s + f + r
          \/ n = M
      <4> HIDE DEF s, f
      <4>1. QED
        BY <1>1, <2>4
    <3>2. /\ items[6 + s + f + r] = Table("Instruction", 0)
          /\ items[7 + s + f + r] = Table("Symbol", 0)
          /\ items[8 + s + f + r] = Table("Type", 0)
          /\ items[9 + s + f + r] = Table("XRef", 0)
          /\ \E low : items[M] = Footer(low)
      <4>1. M # 5 + s + f + r
        <5> HIDE DEF s, f
        <5>1. QED
          BY <1>1, <2>4
      <4>2. QED
        BY <4>1 DEF Layout
    <3>3. QED
      BY <3>1, <3>2
  <2>5. QED
    BY <2>1, <2>2, <2>3, <2>4
<1> HIDE DEF Mark
<1>5. QED
  BY <1>3, <1>4

LEMMA NoIdsBefore ==
    ASSUME NEW items, NEW b, IsBinary(b), NEW r, NEW M, Layout(items, b, r, M),
           NEW n \in 1 .. M
    PROVE  items[n] # Ids
<1> DEFINE s == Len(b.sections)
           f == Len(b.functions)
<1>1. \A kind, e : Entity(kind, e) # Ids
  <2>1. \A kind, e : Entity(kind, e).item = "entity"
    BY DEF Entity
  <2>2. Ids.item = "ids"
    BY DEF Ids
  <2>3. QED
    BY <2>1, <2>2
<1>2. CASE \E k \in 1 .. s : n = 3 + k
  BY <1>1, <1>2 DEF Layout
<1>3. CASE \E k \in 1 .. f : n = 4 + s + k
  BY <1>1, <1>3 DEF Layout
<1>4. CASE \E k \in 1 .. r : n = 5 + s + f + k
  BY <1>1, <1>4 DEF Layout
<1>5. CASE \/ n \in 1 .. 3 \/ n = 4 + s \/ n = 5 + s + f
           \/ n \in 6 + s + f + r .. 10 + s + f + r /\ M = 10 + s + f + r
  BY <1>5, Marks
<1>6. Placed(n, s, f, r, M)
  <2>1. Sizes(items, s, f, r, M)
    BY LayoutIs
  <2> HIDE DEF s, f
  <2>2. QED
    BY <2>1, PlaceIs
<1>7. QED
  BY <1>2, <1>3, <1>4, <1>5, <1>6 DEF Placed

Shorter(n, M) == IF n <= M THEN n ELSE M

LEMMA AlignedIs ==
    ASSUME NEW items, NEW b, IsBinary(b), NEW r, NEW M, Layout(items, b, r, M),
           NEW n \in 0 .. Len(items)
    PROVE  /\ Aligned(SubSeq(items, 1, n)) = SubSeq(items, 1, Shorter(n, M))
           /\ Aligned(SubSeq(items, 1, n)) = SubSeq(items, 1, n) => n <= M
<1> DEFINE file == SubSeq(items, 1, n)
           ids == {i \in DOMAIN file : file[i] = Ids}
<1>1. /\ IsList(items) /\ Len(items) \in Nat /\ M \in 0 .. Len(items) /\ M \in Nat
      /\ M < Len(items) => items[M + 1] = Ids
  <2>1. Sizes(items, Len(b.sections), Len(b.functions), r, M)
    BY LayoutIs
  <2>2. IsList(items) /\ Len(items) \in Nat /\ M \in Nat /\ M <= Len(items)
    BY <2>1 DEF Sizes
  <2>3. (M < Len(items) /\ items[M + 1] = Ids) \/ M = Len(items)
    BY <2>1 DEF Sizes
  <2>4. QED
    BY <2>2, <2>3
<1>2. /\ IsList(file) /\ Len(file) = n /\ DOMAIN file = 1 .. n
      /\ \A i \in 1 .. n : file[i] = items[i]
  BY <1>1, FirstOf, ListIs
<1> HIDE DEF file
<1>3. CASE n <= M
  <2>1. ids = {}
    BY <1>1, <1>2, <1>3, NoIdsBefore
  <2>2. Aligned(file) = file
    BY <2>1 DEF Aligned
  <2>3. QED
    BY <1>3, <2>2 DEF file, Shorter
<1>4. CASE n > M
  <2>1. M + 1 \in ids
    BY <1>1, <1>2, <1>4
  <2>2. \A i \in ids : M + 1 <= i
    BY <1>1, <1>2, NoIdsBefore
  <2>3. \A i \in ids : i \in Int
    BY <1>2
  <2> HIDE DEF ids
  <2>4. Min(ids) = M + 1
    BY <1>1, <2>1, <2>2, <2>3 DEF Min
  <2>5. Aligned(file) = SubSeq(file, 1, M)
    <3>1. Aligned(file) = SubSeq(file, 1, Min(ids) - 1)
      BY <2>1 DEF Aligned, ids
    <3>2. Min(ids) - 1 = M
      BY <1>1, <2>4
    <3>3. QED
      BY <3>1, <3>2
  <2>6. SubSeq(file, 1, M) = SubSeq(items, 1, M)
    <3>1. M \in 0 .. Len(file) /\ M \in 0 .. Len(items)
      BY <1>1, <1>2, <1>4
    <3>2. /\ IsList(SubSeq(file, 1, M)) /\ Len(SubSeq(file, 1, M)) = M
          /\ \A i \in 1 .. M : SubSeq(file, 1, M)[i] = file[i]
      BY <1>2, <3>1, FirstOf
    <3>3. /\ IsList(SubSeq(items, 1, M)) /\ Len(SubSeq(items, 1, M)) = M
          /\ \A i \in 1 .. M : SubSeq(items, 1, M)[i] = items[i]
      BY <1>1, <3>1, FirstOf
    <3>4. \A i \in 1 .. M : file[i] = items[i]
      BY <1>1, <1>2, <1>4
    <3>5. QED
      BY <3>2, <3>3, <3>4, ListsEqual
  <2>7. Aligned(file) # file
    <3>1. Len(SubSeq(items, 1, M)) = M
      BY <1>1, FirstOf
    <3>2. QED
      BY <1>1, <1>2, <1>4, <2>5, <2>6, <3>1
  <2>8. QED
    BY <1>1, <1>4, <2>5, <2>6, <2>7 DEF file, Shorter
<1>5. QED
  BY <1>1, <1>3, <1>4

(* The items are taken one after the other.                                *)
Chain(g, b, items) ==
    /\ g[0] = b /\ Reading(b, items) = g[Len(items)]
    /\ \A n \in 1 .. Len(items) : g[n] = Taken(g[n - 1], items[n])

LEMMA ReadBy ==
    ASSUME NEW b, NEW items, IsList(items)
    PROVE  \E g : Chain(g, b, items)
<1> DEFINE N == Len(items)
           Def(f) == f = [n \in 0 .. N |->
                            IF n = 0 THEN b ELSE Taken(f[n - 1], items[n])]
           Upto(m, f) == /\ f[0] = b
                         /\ \A n \in 1 .. m : f[n] = Taken(f[n - 1], items[n])
           P == {n \in 0 .. N : \E f : Upto(n, f)}
           g == CHOOSE f : Def(f)
<1>1. N \in Nat
  BY ListIs
<1>2. 0 \in P
  <2>1. Upto(0, [n \in 0 .. 0 |-> b])
    OBVIOUS
  <2>2. \E f : Upto(0, f)
    <3> HIDE DEF Upto
    <3>1. QED
      BY <2>1
  <2>3. QED
    BY <1>1, <2>2
<1>3. ASSUME NEW n \in 1 .. N, n - 1 \in P PROVE n \in P
  <2>1. PICK f : Upto(n - 1, f)
    BY <1>3
  <2> DEFINE e == [i \in 0 .. n |-> IF i = n THEN Taken(f[n - 1], items[n]) ELSE f[i]]
  <2>2. e[0] = b
    BY <2>1
  <2>3. ASSUME NEW i \in 1 .. n PROVE e[i] = Taken(e[i - 1], items[i])
    <3>1. CASE i = n
      <4>1. e[i] = Taken(f[n - 1], items[n]) /\ e[i - 1] = f[n - 1]
        BY <3>1
      <4> HIDE DEF e
      <4>2. QED
        BY <3>1, <4>1
    <3>2. CASE i # n
      <4>1. i \in 1 .. n - 1 /\ e[i] = f[i] /\ e[i - 1] = f[i - 1]
        BY <3>2
      <4> HIDE DEF e
      <4>2. QED
        BY <2>1, <4>1
    <3>3. QED
      BY <3>1, <3>2
  <2> HIDE DEF e
  <2>4. \E x : Upto(n, x)
    BY <2>2, <2>3
  <2>5. QED
    BY <1>1, <2>4
<1>4. N \in P
  <2>1. N \in 0 .. N
    BY <1>1
  <2> HIDE DEF P, N
  <2>2. QED
    BY <1>1, <1>2, <1>3, <2>1, Induction
<1>5. \E f : Def(f)
  <2>1. PICK f : Upto(N, f)
    BY <1>4
  <2> DEFINE e == [n \in 0 .. N |-> f[n]]
  <2>2. ASSUME NEW n \in 0 .. N
        PROVE  e[n] = IF n = 0 THEN b ELSE Taken(e[n - 1], items[n])
    <3>1. CASE n = 0
      BY <2>1, <3>1
    <3>2. CASE n # 0
      <4>1. n \in 1 .. N /\ e[n] = f[n] /\ e[n - 1] = f[n - 1]
        BY <1>1, <3>2
      <4> HIDE DEF e
      <4>2. QED
        BY <2>1, <3>2, <4>1
    <3>3. QED
      BY <3>1, <3>2
  <2>3. e = [n \in 0 .. N |-> IF n = 0 THEN b ELSE Taken(e[n - 1], items[n])]
    BY <2>2
  <2>4. Def(e)
    <3> HIDE DEF e
    <3>1. QED
      BY <2>3
  <2> HIDE DEF Def
  <2>5. QED
    BY <2>4
<1>6. Def(g)
  BY <1>5
<1>7. Reading(b, items) = g[N]
  BY DEF Reading
<1> HIDE DEF g
<1>8. ASSUME NEW n \in 0 .. N
      PROVE  g[n] = IF n = 0 THEN b ELSE Taken(g[n - 1], items[n])
  BY <1>6
<1>9. g[0] = b /\ \A n \in 1 .. N : g[n] = Taken(g[n - 1], items[n])
  <2>1. 0 \in 0 .. N /\ \A n \in 1 .. N : n \in 0 .. N /\ n # 0
    BY <1>1
  <2>2. QED
    BY <1>8, <2>1
<1>10. Chain(g, b, items)
  BY <1>7, <1>9 DEF Chain
<1>11. QED
  BY <1>10

(* Of the entities with a key the map has the last one.                    *)
MapOf(keys) == [a \in ToSet(keys) |-> Max({n \in DOMAIN keys : keys[n] = a})]

LEMMA MapsAre ==
    ASSUME NEW l
    PROVE  /\ SectionMap(l) = MapOf([n \in DOMAIN l |-> l[n].rva])
           /\ FunctionMap(l) = MapOf([n \in DOMAIN l |-> l[n].start])
<1> DEFINE v == [n \in DOMAIN l |-> l[n].rva]
           t == [n \in DOMAIN l |-> l[n].start]
<1>1. DOMAIN v = DOMAIN l /\ \A n \in DOMAIN l : v[n] = l[n].rva
  OBVIOUS
<1>2. DOMAIN t = DOMAIN l /\ \A n \in DOMAIN l : t[n] = l[n].start
  OBVIOUS
<1> HIDE DEF v, t
<1>3. {s.rva : s \in ToSet(l)} = ToSet(v)
  BY <1>1 DEF ToSet
<1>4. {f.start : f \in ToSet(l)} = ToSet(t)
  BY <1>2 DEF ToSet
<1>5. \A a : {n \in DOMAIN l : l[n].rva = a} = {n \in DOMAIN v : v[n] = a}
  BY <1>1
<1>6. \A a : {n \in DOMAIN l : l[n].start = a} = {n \in DOMAIN t : t[n] = a}
  BY <1>2
<1>7. SectionMap(l) = MapOf(v)
  BY <1>3, <1>5 DEF SectionMap, MapOf
<1>8. FunctionMap(l) = MapOf(t)
  BY <1>4, <1>6 DEF FunctionMap, MapOf
<1>9. QED
  BY <1>7, <1>8 DEF v, t

LEMMA OneMoreKey ==
    ASSUME NEW k \in Nat, NEW old, NEW new, DOMAIN old = 1 .. k, DOMAIN new = 1 .. k + 1,
           \A n \in 1 .. k : new[n] = old[n]
    PROVE  MapOf(new) = Bind(MapOf(old), new[k + 1], k + 1)
<1> DEFINE key == new[k + 1]
           D == {key} \cup ToSet(old)
<1>1. ToSet(new) = D
  <2>1. 1 .. k + 1 = (1 .. k) \cup {k + 1}
    OBVIOUS
  <2>2. QED
    BY <2>1 DEF ToSet
<1>2. Max({n \in DOMAIN new : new[n] = key}) = k + 1
  <2> DEFINE T == {n \in DOMAIN new : new[n] = key}
  <2>1. k + 1 \in T /\ \A n \in T : n \in Nat /\ k + 1 >= n
    OBVIOUS
  <2> HIDE DEF T
  <2>2. QED
    BY <2>1 DEF Max
<1>3. ASSUME NEW a \in ToSet(old), a # key
      PROVE  Max({n \in DOMAIN new : new[n] = a}) = Max({n \in DOMAIN old : old[n] = a})
  <2>1. {n \in DOMAIN new : new[n] = a} = {n \in DOMAIN old : old[n] = a}
    <3>1. \A n \in 1 .. k + 1 : n \in 1 .. k \/ n = k + 1
      OBVIOUS
    <3>2. \A n \in 1 .. k : n \in 1 .. k + 1
      OBVIOUS
    <3>3. QED
      BY <1>3, <3>1, <3>2
  <2>2. QED
    BY <2>1
<1>4. DOMAIN MapOf(old) = ToSet(old)
  BY DEF MapOf
<1>5. Bind(MapOf(old), key, k + 1) = [a \in D |-> IF a = key THEN k + 1 ELSE MapOf(old)[a]]
  BY <1>4 DEF Bind
<1>6. ASSUME NEW a \in D
      PROVE  Max({n \in DOMAIN new : new[n] = a}) = IF a = key THEN k + 1 ELSE MapOf(old)[a]
  BY <1>2, <1>3 DEF MapOf
<1> HIDE DEF D, key
<1>7. [a \in D |-> Max({n \in DOMAIN new : new[n] = a})]
        = [a \in D |-> IF a = key THEN k + 1 ELSE MapOf(old)[a]]
  BY <1>6
<1>8. MapOf(new) = [a \in D |-> Max({n \in DOMAIN new : new[n] = a})]
  BY <1>1 DEF MapOf
<1>9. QED
  BY <1>5, <1>7, <1>8 DEF key

LEMMA MapsGrow ==
    ASSUME NEW l, IsList(l), NEW m \in 1 .. Len(l)
    PROVE  /\ SectionMap(SubSeq(l, 1, m))
                = Bind(SectionMap(SubSeq(l, 1, m - 1)), l[m].rva, m)
           /\ FunctionMap(SubSeq(l, 1, m))
                = Bind(FunctionMap(SubSeq(l, 1, m - 1)), l[m].start, m)
<1> DEFINE k == m - 1
           new == SubSeq(l, 1, m)
           old == SubSeq(l, 1, k)
<1>1. Len(l) \in Nat /\ k \in Nat /\ k \in 0 .. Len(l) /\ m \in 0 .. Len(l) /\ k + 1 = m
  BY ListIs
<1> HIDE DEF k
<1>2. DOMAIN new = 1 .. k + 1 /\ \A n \in 1 .. k + 1 : new[n] = l[n]
  BY <1>1, FirstOf, ListIs
<1>3. DOMAIN old = 1 .. k /\ \A n \in 1 .. k : old[n] = l[n]
  BY <1>1, FirstOf, ListIs
<1> HIDE DEF new, old
<1>4. \A n \in 1 .. k : n \in 1 .. k + 1
  BY <1>1
<1>5. k + 1 \in 1 .. k + 1
  BY <1>1
<1>6. SectionMap(new) = Bind(SectionMap(old), l[m].rva, m)
  <2> DEFINE x == [n \in DOMAIN old |-> old[n].rva]
             y == [n \in DOMAIN new |-> new[n].rva]
  <2>1. /\ DOMAIN x = 1 .. k /\ DOMAIN y = 1 .. k + 1
        /\ \A n \in 1 .. k : y[n] = x[n]
        /\ y[k + 1] = l[m].rva
    BY <1>1, <1>2, <1>3, <1>4, <1>5
  <2>2. SectionMap(old) = MapOf(x) /\ SectionMap(new) = MapOf(y)
    BY MapsAre
  <2> HIDE DEF x, y
  <2>3. MapOf(y) = Bind(MapOf(x), y[k + 1], k + 1)
    BY <1>1, <2>1, OneMoreKey
  <2>4. QED
    BY <1>1, <2>1, <2>2, <2>3
<1>7. FunctionMap(new) = Bind(FunctionMap(old), l[m].start, m)
  <2> DEFINE x == [n \in DOMAIN old |-> old[n].start]
             y == [n \in DOMAIN new |-> new[n].start]
  <2>1. /\ DOMAIN x = 1 .. k /\ DOMAIN y = 1 .. k + 1
        /\ \A n \in 1 .. k : y[n] = x[n]
        /\ y[k + 1] = l[m].start
    BY <1>1, <1>2, <1>3, <1>4, <1>5
  <2>2. FunctionMap(old) = MapOf(x) /\ FunctionMap(new) = MapOf(y)
    BY MapsAre
  <2> HIDE DEF x, y
  <2>3. MapOf(y) = Bind(MapOf(x), y[k + 1], k + 1)
    BY <1>1, <2>1, OneMoreKey
  <2>4. QED
    BY <1>1, <2>1, <2>2, <2>3
<1>8. QED
  BY <1>6, <1>7 DEF new, old, k

StoredBlocks(b) == [n \in DOMAIN BlocksWritten(b) |-> StoredBlock(BlocksWritten(b)[n])]

LEMMA StoredBlocksAre ==
    ASSUME NEW b, IsBinary(b)
    PROVE  /\ IsList(StoredBlocks(b)) /\ Len(StoredBlocks(b)) = Len(BlocksWritten(b))
           /\ Len(BlocksWritten(b)) \in Nat
           /\ \A n \in 1 .. Len(BlocksWritten(b)) :
                StoredBlocks(b)[n] = StoredBlock(BlocksWritten(b)[n])
<1>1. DOMAIN BlocksWritten(b) = 1 .. Len(BlocksWritten(b)) /\ Len(BlocksWritten(b)) \in Nat
  BY BlocksWrittenAre, ListIs
<1>2. /\ DOMAIN StoredBlocks(b) = 1 .. Len(BlocksWritten(b))
      /\ StoredBlocks(b) = [n \in DOMAIN StoredBlocks(b) |-> StoredBlocks(b)[n]]
      /\ \A n \in 1 .. Len(BlocksWritten(b)) :
           StoredBlocks(b)[n] = StoredBlock(BlocksWritten(b)[n])
  BY <1>1 DEF StoredBlocks
<1>3. QED
  BY <1>1, <1>2, MadeList

(* The binary that is made of the first s sections, f functions and r      *)
(* blocks.                                                                 *)
Made(x, b, s, f, r) ==
    /\ DOMAIN x = DOMAIN EmptyBinary(0)
    /\ x.sections = SubSeq(StoredSections(b), 1, s)
    /\ x.functions = SubSeq(StoredFunctions(b), 1, f)
    /\ x.blocks = SubSeq(StoredBlocks(b), 1, r)
    /\ x.insns = << >>
    /\ x.sectionAt = SectionMap(x.sections) /\ x.functionAt = FunctionMap(x.functions)

Clip(x, m) == IF x <= 0 THEN 0 ELSE IF x <= m THEN x ELSE m
Got(x, b, r, n) ==
    LET s == Len(b.sections)
        f == Len(b.functions)
    IN  Made(x, b, Clip(n - 3, s), Clip(n - (4 + s), f), Clip(n - (5 + s + f), r))

LEMMA NoKeys == SectionMap(<< >>) = << >> /\ FunctionMap(<< >>) = << >>
<1>1. ToSet(<< >>) = {}
  BY DEF ToSet
<1>2. {z.rva : z \in ToSet(<< >>)} = {} /\ {x.start : x \in ToSet(<< >>)} = {}
  BY <1>1
<1>3. /\ DOMAIN SectionMap(<< >>) = {}
      /\ SectionMap(<< >>) = [a \in DOMAIN SectionMap(<< >>) |-> SectionMap(<< >>)[a]]
  BY <1>2 DEF SectionMap
<1>4. /\ DOMAIN FunctionMap(<< >>) = {}
      /\ FunctionMap(<< >>) = [a \in DOMAIN FunctionMap(<< >>) |-> FunctionMap(<< >>)[a]]
  BY <1>2 DEF FunctionMap
<1>5. QED
  BY <1>3, <1>4, NoElements

LEMMA EmptyIsBinary == IsBinary(EmptyBinary(0))
<1> DEFINE e == EmptyBinary(0)
<1>1. /\ e.sections = << >> /\ e.functions = << >> /\ e.blocks = << >> /\ e.insns = << >>
      /\ e.sectionAt = << >> /\ e.functionAt = << >>
  BY DEF EmptyBinary
<1> HIDE DEF e
<1>2. ToSet(<< >>) = {} /\ << >> \in Seq({})
  BY EmptySeq DEF ToSet
<1>3. DOMAIN e = DOMAIN EmptyBinary(0)
  BY DEF e
<1>4. IsBinary(e)
  BY <1>1, <1>2, <1>3, NoKeys DEF IsBinary
<1>5. QED
  BY <1>4 DEF e

LEMMA MadeOfNothing ==
    ASSUME NEW b, IsBinary(b), NEW r \in Nat PROVE Got(EmptyBinary(0), b, r, 0)
<1> DEFINE e == EmptyBinary(0)
           s == Len(b.sections)
           f == Len(b.functions)
<1>1. s \in Nat /\ f \in Nat
  BY StoredAre
<1> HIDE DEF s, f
<1>2. Clip(0 - 3, s) = 0 /\ Clip(0 - (4 + s), f) = 0 /\ Clip(0 - (5 + s + f), r) = 0
  BY <1>1 DEF Clip
<1>3. \A l : SubSeq(l, 1, 0) = << >>
  BY SubSeqEmpty
<1>4. /\ e.sections = << >> /\ e.functions = << >> /\ e.blocks = << >> /\ e.insns = << >>
      /\ e.sectionAt = << >> /\ e.functionAt = << >>
  BY DEF EmptyBinary
<1>5. SectionMap(<< >>) = << >> /\ FunctionMap(<< >>) = << >>
  BY NoKeys
<1>6. Made(e, b, 0, 0, 0)
  BY <1>3, <1>4, <1>5 DEF Made
<1>7. QED
  BY <1>2, <1>6 DEF Got, s, f

LEMMA MadeWithSection ==
    ASSUME NEW b, IsBinary(b), NEW x, NEW k \in 1 .. Len(b.sections), Made(x, b, k - 1, 0, 0)
    PROVE  Made(Taken(x, Entity("Section", StoredSection(b.sections[k]))), b, k, 0, 0)
<1> DEFINE e == StoredSection(b.sections[k])
           l == StoredSections(b)
           y == Taken(x, Entity("Section", e))
<1>1. /\ IsList(l) /\ Len(l) = Len(b.sections) /\ l[k] = e /\ k \in 1 .. Len(l)
      /\ k - 1 \in 0 .. Len(l) /\ k - 1 + 1 = k
  BY StoredAre
<1> HIDE DEF e
<1>2. y = CreateSection(x, e)
  BY DEF Taken, Add, Entity
<1>3. x.sections = SubSeq(l, 1, k - 1) /\ Len(x.sections) = k - 1
  BY <1>1, FirstOf DEF Made
<1>4. /\ DOMAIN y = DOMAIN x /\ y.sections = Append(x.sections, e)
      /\ y.sectionAt = Bind(x.sectionAt, e.rva, Len(x.sections) + 1)
      /\ y.functions = x.functions /\ y.blocks = x.blocks /\ y.insns = x.insns
      /\ y.functionAt = x.functionAt
  <2>1. DOMAIN x = DOMAIN EmptyBinary(0)
    BY DEF Made
  <2>2. {"sections", "sectionAt", "functions", "blocks", "insns", "functionAt"} \subseteq DOMAIN x
    BY <2>1 DEF EmptyBinary
  <2> HIDE DEF y
  <2>3. QED
    BY <1>2, <2>2 DEF CreateSection
<1> HIDE DEF l, y
<1>5. y.sections = SubSeq(l, 1, k)
  BY <1>1, <1>3, <1>4, OneMore
<1>6. y.sectionAt = SectionMap(y.sections)
  <2>1. x.sectionAt = SectionMap(SubSeq(l, 1, k - 1))
    BY <1>3 DEF Made
  <2>2. y.sectionAt = Bind(SectionMap(SubSeq(l, 1, k - 1)), l[k].rva, k)
    BY <1>1, <1>3, <1>4, <2>1
  <2>3. QED
    BY <1>1, <1>5, <2>2, MapsGrow
<1>7. Made(y, b, k, 0, 0)
  BY <1>4, <1>5, <1>6 DEF Made, l
<1>8. QED
  BY <1>7 DEF y, e

LEMMA MadeWithFunction ==
    ASSUME NEW b, IsBinary(b), NEW x, NEW k \in 1 .. Len(b.functions), NEW s,
           Made(x, b, s, k - 1, 0)
    PROVE  Made(Taken(x, Entity("Function", StoredFunction(b.functions[k]))), b, s, k, 0)
<1> DEFINE e == StoredFunction(b.functions[k])
           l == StoredFunctions(b)
           y == Taken(x, Entity("Function", e))
<1>1. /\ IsList(l) /\ Len(l) = Len(b.functions) /\ l[k] = e /\ k \in 1 .. Len(l)
      /\ k - 1 \in 0 .. Len(l) /\ k - 1 + 1 = k
  BY StoredAre
<1> HIDE DEF e
<1>2. y = CreateFunction(x, e)
  BY DEF Taken, Add, Entity
<1>3. x.functions = SubSeq(l, 1, k - 1) /\ Len(x.functions) = k - 1
  BY <1>1, FirstOf DEF Made
<1>4. /\ DOMAIN y = DOMAIN x /\ y.functions = Append(x.functions, e)
      /\ y.functionAt = Bind(x.functionAt, e.start, Len(x.functions) + 1)
      /\ y.sections = x.sections /\ y.blocks = x.blocks /\ y.insns = x.insns
      /\ y.sectionAt = x.sectionAt
  <2>1. DOMAIN x = DOMAIN EmptyBinary(0)
    BY DEF Made
  <2>2. {"sections", "sectionAt", "functions", "blocks", "insns", "functionAt"} \subseteq DOMAIN x
    BY <2>1 DEF EmptyBinary
  <2> HIDE DEF y
  <2>3. QED
    BY <1>2, <2>2 DEF CreateFunction
<1> HIDE DEF l, y
<1>5. y.functions = SubSeq(l, 1, k)
  BY <1>1, <1>3, <1>4, OneMore
<1>6. y.functionAt = FunctionMap(y.functions)
  <2>1. x.functionAt = FunctionMap(SubSeq(l, 1, k - 1))
    BY <1>3 DEF Made
  <2>2. y.functionAt = Bind(FunctionMap(SubSeq(l, 1, k - 1)), l[k].start, k)
    BY <1>1, <1>3, <1>4, <2>1
  <2>3. QED
    BY <1>1, <1>5, <2>2, MapsGrow
<1>7. Made(y, b, s, k, 0)
  BY <1>4, <1>5, <1>6 DEF Made, l
<1>8. QED
  BY <1>7 DEF y, e

LEMMA MadeWithBlock ==
    ASSUME NEW b, IsBinary(b), NEW x, NEW k \in 1 .. Len(BlocksWritten(b)), NEW s, NEW f,
           Made(x, b, s, f, k - 1)
    PROVE  Made(Taken(x, Entity("BasicBlock", StoredBlock(BlocksWritten(b)[k]))), b, s, f, k)
<1> DEFINE e == StoredBlock(BlocksWritten(b)[k])
           l == StoredBlocks(b)
           y == Taken(x, Entity("BasicBlock", e))
<1>1. /\ IsList(l) /\ Len(l) = Len(BlocksWritten(b)) /\ l[k] = e /\ k \in 1 .. Len(l)
      /\ k - 1 \in 0 .. Len(l) /\ k - 1 + 1 = k
  BY StoredBlocksAre
<1> HIDE DEF e
<1>2. y = CreateBlock(x, e)
  BY DEF Taken, Add, Entity
<1>3. x.blocks = SubSeq(l, 1, k - 1)
  BY DEF Made
<1>4. /\ DOMAIN y = DOMAIN x /\ y.blocks = Append(x.blocks, e)
      /\ y.sections = x.sections /\ y.functions = x.functions /\ y.insns = x.insns
      /\ y.sectionAt = x.sectionAt /\ y.functionAt = x.functionAt
  <2>1. DOMAIN x = DOMAIN EmptyBinary(0)
    BY DEF Made
  <2>2. {"sections", "sectionAt", "functions", "blocks", "insns", "functionAt"} \subseteq DOMAIN x
    BY <2>1 DEF EmptyBinary
  <2> HIDE DEF y
  <2>3. QED
    BY <1>2, <2>2 DEF CreateBlock
<1> HIDE DEF l, y
<1>5. y.blocks = SubSeq(l, 1, k)
  BY <1>1, <1>3, <1>4, OneMore
<1>6. Made(y, b, s, f, k)
  BY <1>4, <1>5 DEF Made, l
<1>7. QED
  BY <1>6 DEF y, e

LEMMA OneItem ==
    ASSUME NEW items, NEW b, IsBinary(b), NEW r, NEW M, Layout(items, b, r, M),
           NEW n \in 1 .. M, NEW x, Got(x, b, r, n - 1)
    PROVE  Got(Taken(x, items[n]), b, r, n)
<1> DEFINE s == Len(b.sections)
           f == Len(b.functions)
           u(m) == Clip(m - 3, s)
           v(m) == Clip(m - (4 + s), f)
           w(m) == Clip(m - (5 + s + f), r)
<1>1. Sizes(items, s, f, r, M)
  BY LayoutIs
<1>2. Made(x, b, u(n - 1), v(n - 1), w(n - 1))
  BY DEF Got
<1>3. ASSUME Made(Taken(x, items[n]), b, u(n), v(n), w(n)) PROVE Got(Taken(x, items[n]), b, r, n)
  BY <1>3 DEF Got
<1>4. CASE \/ n \in 1 .. 3 \/ n = 4 + s \/ n = 5 + s + f
           \/ n \in 6 + s + f + r .. 10 + s + f + r /\ M = 10 + s + f + r
  <2>1. items[n].item # "entity"
    BY <1>4, Marks
  <2>2. Taken(x, items[n]) = x
    BY <2>1 DEF Taken
  <2>3. u(n) = u(n - 1) /\ v(n) = v(n - 1) /\ w(n) = w(n - 1)
    <3>1. s \in Nat /\ f \in Nat /\ r \in Nat /\ n \in Nat
      BY <1>1 DEF Sizes
    <3> HIDE DEF s, f
    <3>2. QED
      BY <1>4, <3>1 DEF Clip
  <2>4. QED
    BY <1>2, <1>3, <2>2, <2>3
<1>5. CASE \E k \in 1 .. s : n = 3 + k
  <2>1. PICK k \in 1 .. s : n = 3 + k
    BY <1>5
  <2>2. items[n] = Entity("Section", StoredSection(b.sections[k]))
    BY <2>1 DEF Layout
  <2>3. /\ u(n - 1) = k - 1 /\ v(n - 1) = 0 /\ w(n - 1) = 0
        /\ u(n) = k /\ v(n) = 0 /\ w(n) = 0
    <3>1. s \in Nat /\ f \in Nat /\ r \in Nat
      BY <1>1 DEF Sizes
    <3> HIDE DEF s, f
    <3>2. QED
      BY <2>1, <3>1 DEF Clip
  <2>4. Made(x, b, k - 1, 0, 0)
    BY <1>2, <2>3
  <2>5. QED
    BY <1>3, <2>2, <2>3, <2>4, MadeWithSection
<1>6. CASE \E k \in 1 .. f : n = 4 + s + k
  <2>1. PICK k \in 1 .. f : n = 4 + s + k
    BY <1>6
  <2>2. items[n] = Entity("Function", StoredFunction(b.functions[k]))
    BY <2>1 DEF Layout
  <2>3. /\ u(n - 1) = s /\ v(n - 1) = k - 1 /\ w(n - 1) = 0
        /\ u(n) = s /\ v(n) = k /\ w(n) = 0
    <3>1. s \in Nat /\ f \in Nat /\ r \in Nat
      BY <1>1 DEF Sizes
    <3> HIDE DEF s, f
    <3>2. QED
      BY <2>1, <3>1 DEF Clip
  <2>4. Made(x, b, s, k - 1, 0)
    BY <1>2, <2>3
  <2>5. QED
    BY <1>3, <2>2, <2>3, <2>4, MadeWithFunction
<1>7. CASE \E k \in 1 .. r : n = 5 + s + f + k
  <2>1. PICK k \in 1 .. r : n = 5 + s + f + k
    BY <1>7
  <2>2. items[n] = Entity("BasicBlock", StoredBlock(BlocksWritten(b)[k]))
    BY <2>1 DEF Layout
  <2>3. /\ u(n - 1) = s /\ v(n - 1) = f /\ w(n - 1) = k - 1
        /\ u(n) = s /\ v(n) = f /\ w(n) = k
    <3>1. s \in Nat /\ f \in Nat /\ r \in Nat
      BY <1>1 DEF Sizes
    <3> HIDE DEF s, f
    <3>2. QED
      BY <2>1, <3>1 DEF Clip
  <2>4. Made(x, b, s, f, k - 1)
    BY <1>2, <2>3
  <2>5. k \in 1 .. Len(BlocksWritten(b))
    <3>1. r \in 0 .. Len(BlocksWritten(b)) /\ Len(BlocksWritten(b)) \in Nat
      BY DEF Layout
    <3>2. QED
      BY <3>1
  <2>6. QED
    BY <1>3, <2>2, <2>3, <2>4, <2>5, MadeWithBlock
<1>8. Placed(n, s, f, r, M)
  <2> HIDE DEF s, f
  <2>1. QED
    BY <1>1, PlaceIs
<1>9. QED
  BY <1>4, <1>5, <1>6, <1>7, <1>8 DEF Placed

LEMMA ReadIs ==
    ASSUME NEW items, NEW b, IsBinary(b), NEW r, NEW M, Layout(items, b, r, M),
           NEW n \in 0 .. Len(items)
    PROVE  Got(Read(SubSeq(items, 1, n)), b, r, Shorter(n, M))
<1> DEFINE m == Shorter(n, M)
           file == SubSeq(items, 1, n)
           front == SubSeq(items, 1, m)
<1>1. /\ IsList(items) /\ Len(items) \in Nat /\ M \in Nat /\ M <= Len(items) /\ r \in Nat
      /\ m \in 0 .. Len(items) /\ m <= M /\ m \in Nat
  <2>1. Sizes(items, Len(b.sections), Len(b.functions), r, M)
    BY LayoutIs
  <2>2. IsList(items) /\ Len(items) \in Nat /\ M \in Nat /\ M <= Len(items) /\ r \in Nat
    BY <2>1 DEF Sizes
  <2>3. QED
    BY <2>2 DEF Shorter
<1>2. front = Aligned(file)
  BY AlignedIs
<1> HIDE DEF m
<1>3. IsList(front) /\ Len(front) = m /\ \A i \in 1 .. m : front[i] = items[i]
  BY <1>1, FirstOf
<1> HIDE DEF file, front
<1>4. PICK g : Chain(g, EmptyBinary(0), front)
  BY <1>3, ReadBy
<1> DEFINE P == {i \in 0 .. m : Got(g[i], b, r, i)}
<1>5. 0 \in P
  <2>1. g[0] = EmptyBinary(0)
    BY <1>4 DEF Chain
  <2>2. QED
    BY <1>1, <2>1, MadeOfNothing
<1>6. ASSUME NEW i \in 1 .. m, i - 1 \in P PROVE i \in P
  <2>1. i \in 1 .. M /\ i \in 0 .. m
    BY <1>1
  <2>2. Got(g[i - 1], b, r, i - 1)
    BY <1>6
  <2>3. g[i] = Taken(g[i - 1], items[i])
    BY <1>3, <1>4 DEF Chain
  <2>4. Got(g[i], b, r, i)
    BY <2>1, <2>2, <2>3, OneItem
  <2>5. QED
    BY <2>1, <2>4
<1>7. m \in P
  <2>1. m \in 0 .. m
    BY <1>1
  <2> HIDE DEF P
  <2>2. QED
    BY <1>1, <1>5, <1>6, <2>1, Induction
<1>8. Read(file) = g[m]
  BY <1>2, <1>3, <1>4 DEF Chain, Read
<1>9. QED
  BY <1>7, <1>8 DEF m, file

-----------------------------------------------------------------------------
(* What is read from the wrong place is created behind the rest.           *)

Extends(u, v) ==
    /\ IsList(u) /\ IsList(v) /\ Len(u) <= Len(v)
    /\ \A n \in 1 .. Len(u) : v[n] = u[n]

Grows(x, y) ==
    /\ IsBinary(y)
    /\ Extends(x.sections, y.sections) /\ Extends(x.functions, y.functions)
    /\ Extends(x.blocks, y.blocks)

LEMMA TablesAre ==
    ASSUME NEW b, IsBinary(b)
    PROVE  IsList(b.sections) /\ IsList(b.functions) /\ IsList(b.blocks) /\ IsList(b.insns)
BY DEF IsBinary, IsList

LEMMA GrowsItself == ASSUME NEW x, IsBinary(x) PROVE Grows(x, x)
<1>1. ASSUME NEW u, IsList(u) PROVE Extends(u, u)
  <2>1. Len(u) \in Nat
    BY <1>1, ListIs
  <2>2. QED
    BY <1>1, <2>1 DEF Extends
<1>2. QED
  BY <1>1, TablesAre DEF Grows

LEMMA GrowsOn == ASSUME NEW x, NEW y, NEW z, Grows(x, y), Grows(y, z) PROVE Grows(x, z)
<1>1. ASSUME NEW u, NEW v, NEW w, Extends(u, v), Extends(v, w) PROVE Extends(u, w)
  <2>1. Len(u) \in Nat /\ Len(v) \in Nat /\ Len(w) \in Nat
    BY <1>1, ListIs DEF Extends
  <2>2. QED
    BY <1>1, <2>1 DEF Extends
<1>2. QED
  BY <1>1 DEF Grows

LEMMA OneBehind ==
    ASSUME NEW l, IsList(l), NEW e
    PROVE  /\ Extends(l, Append(l, e)) /\ ToSet(Append(l, e)) = ToSet(l) \cup {e}
           /\ SectionMap(Append(l, e)) = Bind(SectionMap(l), e.rva, Len(l) + 1)
           /\ FunctionMap(Append(l, e)) = Bind(FunctionMap(l), e.start, Len(l) + 1)
<1> DEFINE t == Append(l, e)
           E == ToSet(l) \cup {e}
           m == Len(l) + 1
<1>1. l \in Seq(ToSet(l)) /\ Len(l) \in Nat /\ DOMAIN l = 1 .. Len(l)
  BY ListIs DEF IsList
<1>2. l \in Seq(E)
  <2>1. ToSet(l) \subseteq E
    OBVIOUS
  <2> HIDE DEF E
  <2>2. QED
    BY <1>1, <2>1, SeqMonotonic
<1>3. /\ t \in Seq(E) /\ Len(t) = m /\ t[m] = e
      /\ \A n \in 1 .. Len(l) : t[n] = l[n]
  BY <1>1, <1>2, AppendProperties
<1> HIDE DEF t, E
<1>4. IsList(t) /\ DOMAIN t = 1 .. m
  BY <1>1, <1>3, SeqIsList, ListIs
<1>5. Extends(l, t)
  BY <1>1, <1>3, <1>4 DEF Extends
<1>6. ToSet(t) = ToSet(l) \cup {e}
  <2>1. ToSet(t) = {t[n] : n \in 1 .. m} /\ ToSet(l) = {l[n] : n \in 1 .. Len(l)}
    BY <1>1, <1>4 DEF ToSet
  <2>2. 1 .. m = (1 .. Len(l)) \cup {m}
    BY <1>1
  <2> HIDE DEF m
  <2>3. QED
    BY <1>3, <2>1, <2>2
<1>7. SubSeq(t, 1, m) = t /\ m \in 1 .. Len(t) /\ m - 1 = Len(l) /\ t[m] = e
  <2>1. m \in 1 .. Len(t) /\ m - 1 = Len(l) /\ m \in 0 .. Len(t)
    BY <1>1, <1>3
  <2> HIDE DEF m
  <2>2. QED
    BY <1>3, <1>4, <2>1, FirstOf
<1>8. SubSeq(t, 1, m - 1) = l
  <2> DEFINE u == SubSeq(t, 1, Len(l))
  <2>1. Len(l) \in 0 .. Len(t)
    BY <1>1, <1>3
  <2>2. IsList(u) /\ Len(u) = Len(l) /\ \A n \in 1 .. Len(l) : u[n] = t[n]
    BY <1>4, <2>1, FirstOf
  <2> HIDE DEF u
  <2>3. u = l
    BY <1>3, <2>2, ListsEqual
  <2>4. QED
    BY <1>7, <2>3 DEF u
<1> HIDE DEF m
<1>9. /\ SectionMap(t) = Bind(SectionMap(l), e.rva, m)
      /\ FunctionMap(t) = Bind(FunctionMap(l), e.start, m)
  BY <1>4, <1>7, <1>8, MapsGrow
<1>10. QED
  BY <1>5, <1>6, <1>9 DEF t, m

(* An entity in the form in which its kind is read.                        *)
IsMisreadItem(i) ==
    /\ i.item = "entity" /\ i.kind \in ToSet(Kinds)
    /\ i.kind = "Section" => i.entity = StoredSection(i.entity)
    /\ i.kind = "Function" => i.entity = StoredFunction(i.entity)
    /\ i.kind = "BasicBlock" =>
         /\ i.entity = StoredBlock(i.entity)
         /\ {i.entity.insns, i.entity.succs, i.entity.preds} \subseteq Seq(Nat)

(* Every field that an entity does not go into is left as it was.          *)
Only(x, y, changed) ==
    /\ DOMAIN y = DOMAIN x
    /\ \A field \in {"sections", "functions", "blocks", "insns", "sectionAt", "functionAt"} :
         field \notin changed => y[field] = x[field]

LEMMA TakenGrows ==
    ASSUME NEW x, IsBinary(x), NEW i, IsMisreadItem(i)
    PROVE  Grows(x, Taken(x, i))
<1> DEFINE y == Taken(x, i)
           e == i.entity
<1>1. y = Add(x, i)
  BY DEF Taken, IsMisreadItem
<1>2. i.kind \in {"Section", "Function", "BasicBlock", "Instruction", "Symbol", "Type", "XRef"}
  BY DEF IsMisreadItem, Kinds, ToSet
<1>3. /\ DOMAIN x = DOMAIN EmptyBinary(0)
      /\ {"sections", "functions", "blocks", "insns", "sectionAt", "functionAt"} \subseteq DOMAIN x
  BY DEF IsBinary, EmptyBinary
<1>4. /\ IsList(x.sections) /\ IsList(x.functions) /\ IsList(x.blocks) /\ IsList(x.insns)
      /\ x.sectionAt = SectionMap(x.sections) /\ x.functionAt = FunctionMap(x.functions)
      /\ \A f \in ToSet(x.functions) : f.blocks \in Seq(Nat)
      /\ \A k \in ToSet(x.blocks) : {k.insns, k.succs, k.preds} \subseteq Seq(Nat)
  BY TablesAre DEF IsBinary
<1>5. ASSUME NEW u, IsList(u) PROVE Extends(u, u) /\ u \in Seq(ToSet(u))
  <2>1. Len(u) \in Nat
    BY <1>5, ListIs
  <2>2. QED
    BY <1>5, <2>1 DEF Extends, IsList
<1>6. ASSUME NEW u, NEW v, Extends(u, v) PROVE v \in Seq(ToSet(v))
  BY <1>6 DEF Extends, IsList
<1>7. ASSUME Only(x, y, {}) PROVE Grows(x, y)
  <2>1. /\ y.sections = x.sections /\ y.functions = x.functions /\ y.blocks = x.blocks
        /\ y.insns = x.insns /\ y.sectionAt = x.sectionAt /\ y.functionAt = x.functionAt
        /\ DOMAIN y = DOMAIN x
    BY <1>7 DEF Only
  <2> HIDE DEF y
  <2>2. IsBinary(y)
    BY <2>1 DEF IsBinary
  <2>3. QED
    BY <1>4, <1>5, <2>1, <2>2 DEF Grows
<1>8. CASE i.kind = "Section"
  <2>1. y = CreateSection(x, e)
    BY <1>1, <1>8 DEF Add
  <2>2. /\ DOMAIN y = DOMAIN x /\ y.sections = Append(x.sections, e)
        /\ y.sectionAt = Bind(x.sectionAt, e.rva, Len(x.sections) + 1)
        /\ y.functions = x.functions /\ y.blocks = x.blocks /\ y.insns = x.insns
        /\ y.functionAt = x.functionAt
    <3> HIDE DEF y
    <3>1. QED
      BY <1>3, <2>1 DEF CreateSection
  <2> HIDE DEF y, e
  <2>3. Extends(x.sections, y.sections) /\ y.sectionAt = SectionMap(y.sections)
    BY <1>4, <2>2, OneBehind
  <2>4. IsBinary(y)
    BY <1>3, <1>4, <1>5, <1>6, <2>2, <2>3 DEF IsBinary
  <2>5. QED
    BY <1>4, <1>5, <2>2, <2>3, <2>4 DEF Grows, y
<1>9. CASE i.kind = "Function"
  <2>1. y = CreateFunction(x, e) /\ e = StoredFunction(e)
    BY <1>1, <1>9 DEF Add, IsMisreadItem
  <2>2. /\ DOMAIN y = DOMAIN x /\ y.functions = Append(x.functions, e)
        /\ y.functionAt = Bind(x.functionAt, e.start, Len(x.functions) + 1)
        /\ y.sections = x.sections /\ y.blocks = x.blocks /\ y.insns = x.insns
        /\ y.sectionAt = x.sectionAt
    <3> HIDE DEF y
    <3>1. QED
      BY <1>3, <2>1 DEF CreateFunction
  <2>3. e.blocks \in Seq(Nat)
    <3> HIDE DEF e, y
    <3>1. StoredFunction(e).blocks = << >>
      BY DEF StoredFunction, NewFunction
    <3>2. QED
      BY <2>1, <3>1, EmptySeq
  <2> HIDE DEF y, e
  <2>4. /\ Extends(x.functions, y.functions) /\ y.functionAt = FunctionMap(y.functions)
        /\ ToSet(y.functions) = ToSet(x.functions) \cup {e}
    BY <1>4, <2>2, OneBehind
  <2>5. \A f \in ToSet(y.functions) : f.blocks \in Seq(Nat)
    BY <1>4, <2>3, <2>4
  <2>6. IsBinary(y)
    BY <1>3, <1>4, <1>5, <1>6, <2>2, <2>4, <2>5 DEF IsBinary
  <2>7. QED
    BY <1>4, <1>5, <2>2, <2>4, <2>6 DEF Grows, y
<1>10. CASE i.kind = "BasicBlock"
  <2>1. y = CreateBlock(x, e) /\ {e.insns, e.succs, e.preds} \subseteq Seq(Nat)
    BY <1>1, <1>10 DEF Add, IsMisreadItem
  <2>2. /\ DOMAIN y = DOMAIN x /\ y.blocks = Append(x.blocks, e)
        /\ y.sections = x.sections /\ y.functions = x.functions /\ y.insns = x.insns
        /\ y.sectionAt = x.sectionAt /\ y.functionAt = x.functionAt
    <3> HIDE DEF y
    <3>1. QED
      BY <1>3, <2>1 DEF CreateBlock
  <2> HIDE DEF y, e
  <2>3. /\ Extends(x.blocks, y.blocks)
        /\ ToSet(y.blocks) = ToSet(x.blocks) \cup {e}
    BY <1>4, <2>2, OneBehind
  <2>4. \A k \in ToSet(y.blocks) : {k.insns, k.succs, k.preds} \subseteq Seq(Nat)
    BY <1>4, <2>1, <2>3
  <2>5. IsBinary(y)
    BY <1>3, <1>4, <1>5, <1>6, <2>2, <2>3, <2>4 DEF IsBinary
  <2>6. QED
    BY <1>4, <1>5, <2>2, <2>3, <2>5 DEF Grows, y
<1>11. CASE i.kind = "Instruction"
  <2>1. y = CreateInstruction(x, e)
    BY <1>1, <1>11 DEF Add
  <2>2. /\ DOMAIN y = DOMAIN x /\ y.insns = Append(x.insns, e)
        /\ y.sections = x.sections /\ y.functions = x.functions /\ y.blocks = x.blocks
        /\ y.sectionAt = x.sectionAt /\ y.functionAt = x.functionAt
    <3> HIDE DEF y
    <3>1. QED
      BY <1>3, <2>1 DEF CreateInstruction
  <2> HIDE DEF y, e
  <2>3. Extends(x.insns, y.insns)
    BY <1>4, <2>2, OneBehind
  <2>4. IsBinary(y)
    BY <1>3, <1>4, <1>5, <1>6, <2>2, <2>3 DEF IsBinary
  <2>5. QED
    BY <1>4, <1>5, <2>2, <2>4 DEF Grows, y
<1>12. CASE i.kind = "Symbol"
  <2>1. y = CreateSymbol(x, e)
    BY <1>1, <1>12 DEF Add
  <2>2. Only(x, y, {})
    <3> HIDE DEF y
    <3>1. QED
      BY <1>3, <2>1 DEF CreateSymbol, Only
  <2>3. QED
    BY <1>7, <2>2
<1>13. CASE i.kind = "XRef"
  <2>1. y = RegisterXrefs(x, <<e>>)
    BY <1>1, <1>13 DEF Add
  <2>2. Only(x, y, {})
    <3> HIDE DEF y
    <3>1. QED
      BY <1>3, <2>1 DEF RegisterXrefs, Only
  <2>3. QED
    BY <1>7, <2>2
<1>14. CASE i.kind = "Type"
  <2>1. y = x
    BY <1>1, <1>14 DEF Add
  <2>2. QED
    BY <2>1, GrowsItself
<1>15. QED
  BY <1>2, <1>8, <1>9, <1>10, <1>11, <1>12, <1>13, <1>14

LEMMA MisreadGrows ==
    ASSUME NEW x, IsBinary(x), NEW items \in Misread
    PROVE  Grows(x, Reading(x, items))
<1> DEFINE N == Len(items)
<1>1. IsMisread(items)
  BY MisreadAssumption
<1>2. IsList(items) /\ \A i \in ToSet(items) : IsMisreadItem(i)
  BY <1>1 DEF IsMisread, IsMisreadItem, IsList
<1>3. N \in Nat /\ \A n \in 1 .. N : items[n] \in ToSet(items)
  BY <1>2, ListIs DEF ToSet
<1>4. PICK g : Chain(g, x, items)
  BY <1>2, ReadBy
<1>5. /\ g[0] = x /\ Reading(x, items) = g[N]
      /\ \A n \in 1 .. N : g[n] = Taken(g[n - 1], items[n])
  BY <1>4 DEF Chain
<1> DEFINE P == {n \in 0 .. N : IsBinary(g[n]) /\ Grows(x, g[n])}
<1>6. 0 \in P
  BY <1>3, <1>5, GrowsItself
<1>7. ASSUME NEW n \in 1 .. N, n - 1 \in P PROVE n \in P
  <2>1. IsBinary(g[n - 1]) /\ Grows(x, g[n - 1])
    BY <1>7
  <2>2. Grows(g[n - 1], g[n])
    BY <1>2, <1>3, <1>5, <2>1, TakenGrows
  <2>3. Grows(x, g[n]) /\ IsBinary(g[n])
    BY <2>1, <2>2, GrowsOn DEF Grows
  <2>4. n \in 0 .. N
    BY <1>3
  <2>5. QED
    BY <2>3, <2>4
<1>8. N \in P
  <2>1. N \in 0 .. N
    BY <1>3
  <2> HIDE DEF P, N
  <2>2. QED
    BY <1>3, <1>6, <1>7, <2>1, Induction
<1>9. QED
  BY <1>5, <1>8

LEMMA ExtendsIsPrefix == ASSUME NEW u, NEW v, Extends(u, v) PROVE IsPrefix(u, v)
<1>1. IsList(u) /\ IsList(v) /\ Len(u) \in Nat /\ Len(v) \in Nat /\ Len(u) <= Len(v)
  BY ListIs DEF Extends
<1> DEFINE w == SubSeq(v, 1, Len(u))
           z == SubSeq(u, 1, Len(u))
<1>2. Len(u) \in 0 .. Len(v) /\ Len(u) \in 0 .. Len(u)
  BY <1>1
<1>3. IsList(w) /\ Len(w) = Len(u) /\ \A n \in 1 .. Len(u) : w[n] = v[n]
  BY <1>1, <1>2, FirstOf
<1>4. z = u
  BY <1>1, <1>2, FirstOf
<1> HIDE DEF w, z
<1>5. \A n \in 1 .. Len(u) : w[n] = u[n]
  BY <1>3 DEF Extends
<1>6. w = u
  BY <1>1, <1>3, <1>5, ListsEqual
<1>7. QED
  BY <1>1, <1>4, <1>6 DEF IsPrefix, w, z

LEMMA ZerosAre ==
    ASSUME NEW ids \in Seq(Nat), NEW z, z = [n \in DOMAIN ids |-> 1]
    PROVE  z \in Seq(Nat) /\ Len(z) = Len(ids) /\ (ids = << >> => z = << >>)
<1>1. DOMAIN ids = 1 .. Len(ids) /\ Len(ids) \in Nat
  BY LenProperties
<1>2. z \in [1 .. Len(ids) -> Nat]
  BY <1>1
<1>3. z \in Seq(Nat)
  BY <1>1, <1>2
<1>4. IsList(z) /\ Len(z) = Len(ids)
  BY <1>1, MadeList
<1>5. ids = << >> => DOMAIN z = {}
  BY <1>1, EmptySeq
<1>6. z = [n \in DOMAIN z |-> z[n]]
  OBVIOUS
<1>7. QED
  BY <1>3, <1>4, <1>5, <1>6, NoElements

LEMMA StoredBlockIs ==
    ASSUME NEW k, {k.insns, k.succs, k.preds} \subseteq Seq(Nat)
    PROVE  LET e == StoredBlock(k) IN
           /\ e.start = k.start /\ e.parent = k.parent
           /\ {e.insns, e.succs, e.preds} \subseteq Seq(Nat)
           /\ Len(e.insns) = Len(k.insns)
           /\ ~HasContents(k) => e.insns = << >> /\ e.succs = << >> /\ e.preds = << >>
<1> DEFINE e == StoredBlock(k)
           zeros(ids) == [n \in DOMAIN ids |-> 1]
<1>1. ASSUME NEW ids \in Seq(Nat)
      PROVE  /\ zeros(ids) \in Seq(Nat) /\ Len(zeros(ids)) = Len(ids)
             /\ ids = << >> => zeros(ids) = << >>
  BY ZerosAre
<1>2. /\ e.start = k.start /\ e.parent = k.parent /\ e.insns = zeros(k.insns)
      /\ e.succs = zeros(k.succs) /\ e.preds = zeros(k.preds)
  BY DEF StoredBlock, NewBlock
<1> HIDE DEF e, zeros
<1>3. {e.insns, e.succs, e.preds} \subseteq Seq(Nat) /\ Len(e.insns) = Len(k.insns)
  BY <1>1, <1>2
<1>4. ASSUME ~HasContents(k) PROVE k.insns = << >> /\ k.succs = << >> /\ k.preds = << >>
  <2> DEFINE x == k.insns
             y == k.succs
             z == k.preds
  <2>1. x \in Seq(Nat) /\ y \in Seq(Nat) /\ z \in Seq(Nat) /\ (x \o y) \o z = << >>
    BY <1>4 DEF HasContents, Contents
  <2> HIDE DEF x, y, z
  <2>2. x \o y \in Seq(Nat)
    BY <2>1, ConcatProperties
  <2>3. x \o y = << >> /\ z = << >>
    BY <2>1, <2>2, ConcatEqualIffEmpty
  <2>4. x = << >> /\ y = << >>
    BY <2>1, <2>3, ConcatEqualIffEmpty
  <2>5. QED
    BY <2>3, <2>4 DEF x, y, z
<1>5. QED
  BY <1>1, <1>2, <1>3, <1>4 DEF e

(* What is made is a binary, and what it has are the first entities.       *)
Parts(x, b, s, f, r) ==
    /\ Len(x.sections) = s /\ Len(x.functions) = f /\ Len(x.blocks) = r
    /\ DOMAIN x.sections = 1 .. s /\ DOMAIN x.functions = 1 .. f /\ DOMAIN x.blocks = 1 .. r
    /\ \A n \in 1 .. s : x.sections[n] = StoredSection(b.sections[n])
    /\ \A n \in 1 .. f : x.functions[n] = StoredFunction(b.functions[n])
    /\ \A n \in 1 .. r : x.blocks[n] = StoredBlock(BlocksWritten(b)[n])
    /\ s = Len(b.sections) => x.sections = StoredSections(b)
    /\ f = Len(b.functions) => x.functions = StoredFunctions(b)

LEMMA MadeIs ==
    ASSUME NEW b, IsBinary(b), NEW s \in 0 .. Len(b.sections),
           NEW f \in 0 .. Len(b.functions), NEW r \in 0 .. Len(BlocksWritten(b)),
           NEW x, Made(x, b, s, f, r)
    PROVE  IsBinary(x) /\ Parts(x, b, s, f, r)
<1>1. /\ IsList(StoredSections(b)) /\ s \in 0 .. Len(StoredSections(b)) /\ s \in Nat
      /\ Len(StoredSections(b)) = Len(b.sections)
      /\ \A n \in 1 .. s : n \in 1 .. Len(b.sections)
  BY StoredAre
<1>2. /\ IsList(StoredFunctions(b)) /\ f \in 0 .. Len(StoredFunctions(b)) /\ f \in Nat
      /\ Len(StoredFunctions(b)) = Len(b.functions)
      /\ \A n \in 1 .. f : n \in 1 .. Len(b.functions)
  BY StoredAre
<1>3. /\ IsList(StoredBlocks(b)) /\ r \in 0 .. Len(StoredBlocks(b)) /\ r \in Nat
      /\ \A n \in 1 .. r : n \in 1 .. Len(BlocksWritten(b))
  BY StoredBlocksAre
<1>4. /\ IsList(x.sections) /\ Len(x.sections) = s /\ DOMAIN x.sections = 1 .. s
      /\ \A n \in 1 .. s : x.sections[n] = StoredSection(b.sections[n])
      /\ s = Len(b.sections) => x.sections = StoredSections(b)
  <2>1. x.sections = SubSeq(StoredSections(b), 1, s)
    BY DEF Made
  <2>2. /\ IsList(x.sections) /\ Len(x.sections) = s
        /\ \A n \in 1 .. s : x.sections[n] = StoredSections(b)[n]
        /\ s = Len(StoredSections(b)) => x.sections = StoredSections(b)
    <3>1. IsList(StoredSections(b)) /\ s \in 0 .. Len(StoredSections(b))
      BY <1>1
    <3>2. QED
      BY <2>1, <3>1, FirstOf
  <2>3. QED
    BY <1>1, <2>2, ListIs, StoredAre
<1>5. /\ IsList(x.functions) /\ Len(x.functions) = f /\ DOMAIN x.functions = 1 .. f
      /\ \A n \in 1 .. f : x.functions[n] = StoredFunction(b.functions[n])
      /\ f = Len(b.functions) => x.functions = StoredFunctions(b)
  <2>1. x.functions = SubSeq(StoredFunctions(b), 1, f)
    BY DEF Made
  <2>2. /\ IsList(x.functions) /\ Len(x.functions) = f
        /\ \A n \in 1 .. f : x.functions[n] = StoredFunctions(b)[n]
        /\ f = Len(StoredFunctions(b)) => x.functions = StoredFunctions(b)
    <3>1. IsList(StoredFunctions(b)) /\ f \in 0 .. Len(StoredFunctions(b))
      BY <1>2
    <3>2. QED
      BY <2>1, <3>1, FirstOf
  <2>3. QED
    BY <1>2, <2>2, ListIs, StoredAre
<1>6. /\ IsList(x.blocks) /\ Len(x.blocks) = r /\ DOMAIN x.blocks = 1 .. r
      /\ \A n \in 1 .. r : x.blocks[n] = StoredBlock(BlocksWritten(b)[n])
  <2>1. x.blocks = SubSeq(StoredBlocks(b), 1, r)
    BY DEF Made
  <2>2. /\ IsList(x.blocks) /\ Len(x.blocks) = r
        /\ \A n \in 1 .. r : x.blocks[n] = StoredBlocks(b)[n]
    BY <1>3, <2>1, FirstOf
  <2>3. QED
    BY <1>3, <2>2, ListIs, StoredBlocksAre
<1>7. Parts(x, b, s, f, r)
  BY <1>4, <1>5, <1>6 DEF Parts
<1>8. ASSUME NEW e \in ToSet(x.functions) PROVE e.blocks \in Seq(Nat)
  <2>1. PICK n \in 1 .. f : e = StoredFunction(b.functions[n])
    BY <1>5 DEF ToSet
  <2>2. e.blocks = << >>
    BY <2>1 DEF StoredFunction, NewFunction
  <2>3. QED
    BY <2>2, EmptySeq
<1>9. ASSUME NEW e \in ToSet(x.blocks) PROVE {e.insns, e.succs, e.preds} \subseteq Seq(Nat)
  <2>1. PICK n \in 1 .. r : e = StoredBlock(BlocksWritten(b)[n])
    BY <1>6 DEF ToSet
  <2> DEFINE k == BlocksWritten(b)[n]
  <2>2. {k.insns, k.succs, k.preds} \subseteq Seq(Nat)
    BY <1>3, BlocksWrittenAre
  <2> HIDE DEF k
  <2>3. LET y == StoredBlock(k) IN {y.insns, y.succs, y.preds} \subseteq Seq(Nat)
    BY <2>2, StoredBlockIs
  <2>4. QED
    BY <2>1, <2>3 DEF k
<1>10. x.insns = << >> /\ IsList(<< >>)
  <2>1. << >> \in Seq({})
    BY EmptySeq
  <2>2. QED
    BY <2>1, SeqIsList DEF Made
<1>11. IsBinary(x)
  <2>1. /\ DOMAIN x = DOMAIN EmptyBinary(0)
        /\ x.sectionAt = SectionMap(x.sections) /\ x.functionAt = FunctionMap(x.functions)
    BY DEF Made
  <2>2. \A t \in {x.sections, x.functions, x.blocks, x.insns} : t \in Seq(ToSet(t))
    BY <1>4, <1>5, <1>6, <1>10 DEF IsList
  <2>3. QED
    BY <1>8, <1>9, <2>1, <2>2 DEF IsBinary
<1>12. QED
  BY <1>7, <1>11

(* Of a file that was cut anywhere the load makes a binary of the first    *)
(* sections, functions and blocks of the one that was saved.               *)
FirstParts(x, b) ==
    \E s \in 0 .. Len(b.sections), f \in 0 .. Len(b.functions), r \in 0 .. Len(BlocksWritten(b)) :
      /\ Made(x, b, s, f, r)
      /\ r # 0 => s = Len(b.sections) /\ f = Len(b.functions)

LEMMA ReadFirst ==
    ASSUME NEW b, IsBinary(b), NEW low, NEW n \in 0 .. Len(Items(b, low))
    PROVE  FirstParts(Read(SubSeq(Items(b, low), 1, n)), b)
<1> DEFINE items == Items(b, low)
           s == Len(b.sections)
           f == Len(b.functions)
           N == Len(BlocksWritten(b))
           x == Read(SubSeq(items, 1, n))
<1>1. PICK r, M : Layout(items, b, r, M)
  BY ItemsAre
<1> DEFINE m == Shorter(n, M)
<1>2. Got(x, b, r, m)
  BY <1>1, ReadIs
<1>3. Sizes(items, s, f, r, M)
  BY <1>1, LayoutIs
<1>4. s \in Nat /\ f \in Nat /\ r \in Nat /\ M \in Nat /\ Len(items) \in Nat
  BY <1>3 DEF Sizes
<1>5. r \in 0 .. N /\ N \in Nat
  BY <1>1 DEF Layout
<1>6. m \in Nat
  BY <1>4 DEF Shorter
<1>7. Made(x, b, Clip(m - 3, s), Clip(m - (4 + s), f), Clip(m - (5 + s + f), r))
  BY <1>2 DEF Got
<1> HIDE DEF items, s, f, x, m, N
<1>8. /\ Clip(m - 3, s) \in 0 .. s /\ Clip(m - (4 + s), f) \in 0 .. f
      /\ Clip(m - (5 + s + f), r) \in 0 .. N
      /\ Clip(m - (5 + s + f), r) # 0 => Clip(m - 3, s) = s /\ Clip(m - (4 + s), f) = f
  BY <1>4, <1>5, <1>6 DEF Clip
<1>9. QED
  BY <1>7, <1>8 DEF FirstParts, s, f, N, x, items

-----------------------------------------------------------------------------
(* A file that is written whole, of blocks that have no contents.          *)

LEMMA WholeLayout ==
    ASSUME NEW b, IsBinary(b), NEW low, Aligned(Items(b, low)) = Items(b, low)
    PROVE  LET s == Len(b.sections)
               f == Len(b.functions)
               r == Len(BlocksWritten(b))
               M == 10 + s + f + r
           IN  Layout(Items(b, low), b, r, M) /\ M = Len(Items(b, low))
<1> DEFINE items == Items(b, low)
           s == Len(b.sections)
           f == Len(b.functions)
           N == Len(BlocksWritten(b))
<1>1. PICK r, M : Layout(items, b, r, M)
  BY ItemsAre
<1>2. Sizes(items, s, f, r, M)
  BY <1>1, LayoutIs
<1>3. IsList(items) /\ Len(items) \in Nat /\ M \in Nat /\ M <= Len(items)
  BY <1>2 DEF Sizes
<1>4. Len(items) \in 0 .. Len(items)
  BY <1>3
<1>5. SubSeq(items, 1, Len(items)) = items
  BY <1>3, <1>4, FirstOf
<1>6. Len(items) <= M
  BY <1>1, <1>4, <1>5, AlignedIs
<1>7. ~(M < Len(items))
  BY <1>3, <1>6
<1>8. M = 10 + s + f + r /\ M = Len(items) /\ r = N
  BY <1>1, <1>7 DEF Layout
<1>9. QED
  BY <1>1, <1>8

LEMMA WholeRead ==
    ASSUME NEW b, IsBinary(b), NEW low, Aligned(Items(b, low)) = Items(b, low)
    PROVE  Made(Read(Items(b, low)), b, Len(b.sections), Len(b.functions),
                Len(BlocksWritten(b)))
<1> DEFINE items == Items(b, low)
           s == Len(b.sections)
           f == Len(b.functions)
           r == Len(BlocksWritten(b))
           M == 10 + s + f + r
           x == Read(items)
<1>1. Layout(items, b, r, M) /\ M = Len(items)
  BY WholeLayout
<1>2. Sizes(items, s, f, r, M)
  <2> HIDE DEF M
  <2>1. QED
    BY <1>1, LayoutIs
<1>3. s \in Nat /\ f \in Nat /\ r \in Nat /\ IsList(items)
  BY <1>2 DEF Sizes
<1>4. M \in 0 .. Len(items) /\ Shorter(M, M) = M
  <2> HIDE DEF M
  <2>1. M \in Nat /\ Len(items) = M
    BY <1>1, <1>2 DEF Sizes
  <2>2. QED
    BY <2>1 DEF Shorter
<1>5. SubSeq(items, 1, M) = items
  <2> HIDE DEF M
  <2>1. QED
    BY <1>1, <1>3, <1>4, FirstOf
<1>6. Got(x, b, r, M)
  <2> HIDE DEF M
  <2>1. Got(Read(SubSeq(items, 1, M)), b, r, Shorter(M, M))
    BY <1>1, <1>4, ReadIs
  <2>2. QED
    BY <1>4, <1>5, <2>1
<1>7. Clip(M - 3, s) = s /\ Clip(M - (4 + s), f) = f /\ Clip(M - (5 + s + f), r) = r
  <2> HIDE DEF s, f, r
  <2>1. QED
    BY <1>3 DEF Clip
<1>8. Made(x, b, Clip(M - 3, s), Clip(M - (4 + s), f), Clip(M - (5 + s + f), r))
  <2> HIDE DEF M, x, r
  <2>1. QED
    BY <1>6 DEF Got
<1>9. Made(x, b, s, f, r)
  <2> HIDE DEF M, s, f, r, x
  <2>1. QED
    BY <1>7, <1>8
<1>10. QED
  BY <1>9

(* The tables and the footer.                                              *)
TablePlaces(items, s, f, M, n) ==
    /\ items[n].item = "table" /\ items[n].kind = "Function" => n = 4 + s
    /\ items[n].item = "table" /\ items[n].kind = "BasicBlock" => n = 5 + s + f
    /\ items[n].item = "footer" => n = M

LEMMA WholeTables ==
    ASSUME NEW b, IsBinary(b), NEW items, NEW r, NEW M, Layout(items, b, r, M),
           M = 10 + Len(b.sections) + Len(b.functions) + r, NEW n \in 1 .. M
    PROVE  TablePlaces(items, Len(b.sections), Len(b.functions), M, n)
<1> DEFINE s == Len(b.sections)
           f == Len(b.functions)
<1>1. Sizes(items, s, f, r, M)
  BY LayoutIs
<1>2. s \in Nat /\ f \in Nat /\ r \in Nat /\ M \in Nat
  BY <1>1 DEF Sizes
<1>3. M # 5 + s + f + r
  <2>1. \A i, j, k \in Nat : 10 + i + j + k # 5 + i + j + k
    OBVIOUS
  <2>2. 10 + s + f + r # 5 + s + f + r
    <3> HIDE DEF s, f
    <3>1. QED
      BY <1>2, <2>1
  <2>3. QED
    BY <2>2
<1>4. /\ items[6 + s + f + r] = Table("Instruction", 0)
      /\ items[7 + s + f + r] = Table("Symbol", 0)
      /\ items[8 + s + f + r] = Table("Type", 0)
      /\ items[9 + s + f + r] = Table("XRef", 0)
      /\ \E low : items[M] = Footer(low)
  BY <1>3 DEF Layout
<1>5. Placed(n, s, f, r, M)
  <2> HIDE DEF s, f
  <2>1. QED
    BY <1>1, PlaceIs
<1>6. ASSUME \E kind, e : items[n] = Entity(kind, e)
      PROVE  items[n].item = "entity"
  BY <1>6 DEF Entity
<1>7. CASE \/ \E k \in 1 .. s : n = 3 + k
           \/ \E k \in 1 .. f : n = 4 + s + k
           \/ \E k \in 1 .. r : n = 5 + s + f + k
  <2>1. \E kind, e : items[n] = Entity(kind, e)
    <3>1. CASE \E k \in 1 .. s : n = 3 + k
      BY <3>1 DEF Layout
    <3>2. CASE \E k \in 1 .. f : n = 4 + s + k
      BY <3>2 DEF Layout
    <3>3. CASE \E k \in 1 .. r : n = 5 + s + f + k
      BY <3>3 DEF Layout
    <3>4. QED
      BY <1>7, <3>1, <3>2, <3>3
  <2>2. QED
    BY <1>6, <2>1 DEF TablePlaces
<1>8. CASE n \in 1 .. 3
  <2>1. n = 1 \/ n = 2 \/ n = 3
    BY <1>8
  <2>2. items[n] = Magic(1) \/ items[n] = Meta \/ items[n] = Table("Section", s)
    BY <2>1 DEF Layout
  <2>3. items[n].item \notin {"footer"} /\ (items[n].item = "table" => items[n].kind = "Section")
    BY <2>2 DEF Magic, Meta, Table
  <2>4. QED
    BY <2>3 DEF TablePlaces
<1>9. CASE n = 4 + s
  <2>1. items[n] = Table("Function", f)
    BY <1>9 DEF Layout
  <2>2. items[n].item = "table" /\ items[n].kind = "Function"
    BY <2>1 DEF Table
  <2>3. QED
    BY <1>9, <2>2 DEF TablePlaces
<1>10. CASE n = 5 + s + f
  <2>1. items[n] = Table("BasicBlock", Len(BlocksWritten(b)))
    BY <1>10 DEF Layout
  <2>2. items[n].item = "table" /\ items[n].kind = "BasicBlock"
    BY <2>1 DEF Table
  <2>3. QED
    BY <1>10, <2>2 DEF TablePlaces
<1>11. CASE n \in 6 + s + f + r .. 10 + s + f + r
  <2>1. \/ n = 6 + s + f + r \/ n = 7 + s + f + r \/ n = 8 + s + f + r \/ n = 9 + s + f + r
        \/ n = M
    <3>1. \A i, j, k \in Nat : \A m \in 6 + i + j + k .. 10 + i + j + k :
            \/ m = 6 + i + j + k \/ m = 7 + i + j + k \/ m = 8 + i + j + k
            \/ m = 9 + i + j + k \/ m = 10 + i + j + k
      OBVIOUS
    <3>2. \/ n = 6 + s + f + r \/ n = 7 + s + f + r \/ n = 8 + s + f + r
          \/ n = 9 + s + f + r \/ n = 10 + s + f + r
      <4> HIDE DEF s, f
      <4>1. QED
        BY <1>2, <1>11, <3>1
    <3>3. QED
      BY <3>2
  <2>2. \/ n = M /\ \E low : items[n] = Footer(low)
        \/ \E kind \in {"Instruction", "Symbol", "Type", "XRef"} : items[n] = Table(kind, 0)
    <3> HIDE DEF s, f
    <3>1. QED
      BY <1>4, <2>1
  <2>3. CASE n = M /\ \E low : items[n] = Footer(low)
    <3>1. n = M /\ items[n].item = "footer"
      BY <2>3 DEF Footer
    <3>2. QED
      BY <3>1 DEF TablePlaces
  <2>4. CASE \E kind \in {"Instruction", "Symbol", "Type", "XRef"} : items[n] = Table(kind, 0)
    <3>1. items[n].item = "table" /\ items[n].kind \notin {"Function", "BasicBlock"}
      BY <2>4 DEF Table
    <3>2. QED
      BY <3>1 DEF TablePlaces
  <2>5. QED
    BY <2>2, <2>3, <2>4
<1>12. QED
  <2> HIDE DEF s, f
  <2>1. QED
    BY <1>5, <1>7, <1>8, <1>9, <1>10, <1>11 DEF Placed, s, f

-----------------------------------------------------------------------------
(* The loads of a file that save_session has written.                      *)

LEMMA LoadsAre ==
    ASSUME NEW file, NEW l \in Loads(file), l.result = "success"
    PROVE  /\ Verify(file)
           /\ \/ /\ ~l.garbled /\ Aligned(file) = file
                 /\ l.binary = Read(file) /\ l.counts = Counts(file)
              \/ /\ l.garbled /\ Aligned(file) # file
                 /\ \E items \in Misread : l.binary = Reading(Read(file), items)
<1>1. CASE ~Verify(file)
  <2>1. l = [result |-> "bad header"]
    BY <1>1 DEF Loads
  <2>2. QED
    BY <2>1
<1>2. CASE Verify(file) /\ Aligned(file) = file
  <2>1. l = Success(Read(file), FALSE, Counts(file))
    BY <1>2, Zenon DEF Loads
  <2>2. ~l.garbled /\ l.binary = Read(file) /\ l.counts = Counts(file)
    BY <2>1 DEF Success
  <2>3. QED
    BY <1>2, <2>2
<1>3. CASE Verify(file) /\ Aligned(file) # file
  <2> DEFINE none == [kind \in ToSet(Kinds) |-> {}]
             of(items) == Success(Reading(Read(file), items), TRUE, none)
  <2>1. l \in {of(items) : items \in Misread}
             \cup {[result |-> "unknown entity type"], [result |-> "exception"]}
    BY <1>3, Zenon DEF Loads
  <2>2. \E items \in Misread : l = of(items)
    <3> HIDE DEF of
    <3>1. \/ l \in {of(items) : items \in Misread}
          \/ l = [result |-> "unknown entity type"] \/ l = [result |-> "exception"]
      BY <2>1
    <3>2. ASSUME l = [result |-> "unknown entity type"] PROVE FALSE
      BY <3>2
    <3>3. ASSUME l = [result |-> "exception"] PROVE FALSE
      BY <3>3
    <3>4. QED
      BY <3>1, <3>2, <3>3
  <2>3. PICK items \in Misread : l = Success(Reading(Read(file), items), TRUE, none)
    BY <2>2
  <2> HIDE DEF none
  <2>4. l.garbled /\ l.binary = Reading(Read(file), items)
    BY <2>3 DEF Success
  <2>5. QED
    BY <1>3, <2>4
<1>4. QED
  BY <1>1, <1>2, <1>3

LEMMA FirstIsPrefix ==
    ASSUME NEW s, IsList(s), NEW n \in 0 .. Len(s)
    PROVE  IsPrefix(SubSeq(s, 1, n), s)
<1> DEFINE t == SubSeq(s, 1, n)
<1>1. Len(s) \in Nat /\ n \in Nat /\ n <= Len(s)
  BY ListIs
<1>2. IsList(t) /\ Len(t) = n
  BY FirstOf
<1> HIDE DEF t
<1>3. n \in 0 .. Len(t) /\ Len(t) \in 0 .. Len(t)
  BY <1>1, <1>2
<1>4. SubSeq(t, 1, Len(t)) = t
  BY <1>2, <1>3, FirstOf
<1>5. t = SubSeq(s, 1, Len(t))
  BY <1>2 DEF t
<1>6. IsPrefix(t, s)
  BY <1>1, <1>2, <1>4, <1>5 DEF IsPrefix
<1>7. QED
  BY <1>6 DEF t

LEMMA ReadIsBinary ==
    ASSUME NEW b, IsBinary(b), NEW x, FirstParts(x, b)
    PROVE  /\ IsBinary(x)
           /\ IsPrefix(x.sections, StoredSections(b))
           /\ IsPrefix(x.functions, StoredFunctions(b))
           /\ \A k \in DOMAIN x.blocks :
                /\ x.blocks[k].start = BlocksWritten(b)[k].start
                /\ Len(x.blocks[k].insns) = Len(BlocksWritten(b)[k].insns)
           /\ x.blocks # << >> =>
                x.sections = StoredSections(b) /\ x.functions = StoredFunctions(b)
<1>1. PICK s \in 0 .. Len(b.sections), f \in 0 .. Len(b.functions),
           r \in 0 .. Len(BlocksWritten(b)) :
             /\ Made(x, b, s, f, r)
             /\ r # 0 => s = Len(b.sections) /\ f = Len(b.functions)
  BY DEF FirstParts
<1>2. IsBinary(x) /\ Parts(x, b, s, f, r)
  BY <1>1, MadeIs
<1>3. IsPrefix(x.sections, StoredSections(b)) /\ IsPrefix(x.functions, StoredFunctions(b))
  <2>1. /\ IsList(StoredSections(b)) /\ s \in 0 .. Len(StoredSections(b))
        /\ IsList(StoredFunctions(b)) /\ f \in 0 .. Len(StoredFunctions(b))
    BY StoredAre
  <2>2. /\ x.sections = SubSeq(StoredSections(b), 1, s)
        /\ x.functions = SubSeq(StoredFunctions(b), 1, f)
    BY <1>1 DEF Made
  <2>3. QED
    BY <2>1, <2>2, FirstIsPrefix
<1>4. ASSUME NEW k \in DOMAIN x.blocks
      PROVE  /\ x.blocks[k].start = BlocksWritten(b)[k].start
             /\ Len(x.blocks[k].insns) = Len(BlocksWritten(b)[k].insns)
  <2> DEFINE e == BlocksWritten(b)[k]
  <2>1. k \in 1 .. r /\ x.blocks[k] = StoredBlock(e)
    BY <1>2 DEF Parts
  <2>2. k \in 1 .. Len(BlocksWritten(b))
    BY <2>1, BlocksWrittenAre, ListIs
  <2>3. {e.insns, e.succs, e.preds} \subseteq Seq(Nat)
    BY <2>2, BlocksWrittenAre
  <2> HIDE DEF e
  <2>4. StoredBlock(e).start = e.start /\ Len(StoredBlock(e).insns) = Len(e.insns)
    BY <2>3, StoredBlockIs
  <2>5. QED
    BY <2>1, <2>4 DEF e
<1>5. ASSUME x.blocks # << >>
      PROVE  x.sections = StoredSections(b) /\ x.functions = StoredFunctions(b)
  <2>1. r # 0
    <3>1. IsList(x.blocks)
      BY <1>2 DEF IsBinary, IsList
    <3>2. Len(x.blocks) = r
      BY <1>2 DEF Parts
    <3>3. QED
      BY <1>5, <3>1, <3>2, EmptySeq DEF IsList
  <2>2. QED
    BY <1>1, <1>2, <2>1 DEF Parts
<1>6. QED
  BY <1>2, <1>3, <1>4, <1>5

(* The sections, the functions and the first r blocks of a binary, where   *)
(* others may come behind them.                                            *)
SameTables(x, b) ==
    /\ \A n \in DOMAIN b.sections : x.sections[n].rva = b.sections[n].rva
    /\ \A n \in DOMAIN b.functions :
         /\ x.functions[n].start = b.functions[n].start
         /\ x.functions[n].type = "Standard" <=> b.functions[n].type = "Standard"

StillThere(x, b, r) ==
    /\ IsPrefix(StoredSections(b), x.sections) /\ IsPrefix(StoredFunctions(b), x.functions)
    /\ SameTables(x, b)
    /\ \A k \in 1 .. r :
         /\ x.blocks[k].start = BlocksWritten(b)[k].start
         /\ Len(x.blocks[k].insns) = Len(BlocksWritten(b)[k].insns)

LEMMA KeepsMade ==
    ASSUME NEW b, IsBinary(b), NEW r \in 0 .. Len(BlocksWritten(b)),
           NEW x, Made(x, b, Len(b.sections), Len(b.functions), r), NEW y, Grows(x, y)
    PROVE  StillThere(y, b, r)
<1> DEFINE s == Len(b.sections)
           f == Len(b.functions)
<1>1. /\ s \in Nat /\ f \in Nat
      /\ DOMAIN b.sections = 1 .. s /\ DOMAIN b.functions = 1 .. f
  BY StoredAre
<1>2. Parts(x, b, s, f, r)
  <2>1. s \in 0 .. Len(b.sections) /\ f \in 0 .. Len(b.functions)
    BY <1>1
  <2>2. QED
    BY <2>1, MadeIs
<1>3. /\ Extends(x.sections, y.sections) /\ Extends(x.functions, y.functions)
      /\ Extends(x.blocks, y.blocks)
  BY DEF Grows
<1>4. /\ x.sections = StoredSections(b) /\ x.functions = StoredFunctions(b)
      /\ Len(x.sections) = s /\ Len(x.functions) = f /\ Len(x.blocks) = r
      /\ \A n \in 1 .. s : x.sections[n] = StoredSection(b.sections[n])
      /\ \A n \in 1 .. f : x.functions[n] = StoredFunction(b.functions[n])
      /\ \A n \in 1 .. r : x.blocks[n] = StoredBlock(BlocksWritten(b)[n])
  BY <1>2 DEF Parts
<1> HIDE DEF s, f
<1>5. IsPrefix(StoredSections(b), y.sections) /\ IsPrefix(StoredFunctions(b), y.functions)
  BY <1>3, <1>4, ExtendsIsPrefix
<1>6. ASSUME NEW n \in DOMAIN b.sections PROVE y.sections[n].rva = b.sections[n].rva
  <2>1. y.sections[n] = StoredSection(b.sections[n])
    BY <1>1, <1>3, <1>4 DEF Extends
  <2>2. QED
    BY <2>1 DEF StoredSection, NewSection
<1>7. ASSUME NEW n \in DOMAIN b.functions
      PROVE  /\ y.functions[n].start = b.functions[n].start
             /\ y.functions[n].type = "Standard" <=> b.functions[n].type = "Standard"
  <2>1. y.functions[n] = StoredFunction(b.functions[n])
    BY <1>1, <1>3, <1>4 DEF Extends
  <2>2. /\ y.functions[n].start = b.functions[n].start
        /\ y.functions[n].type = IF b.functions[n].type = "Standard" THEN "Standard" ELSE "Thunk"
    BY <2>1 DEF StoredFunction, NewFunction
  <2>3. QED
    BY <2>2
<1>8. ASSUME NEW k \in 1 .. r
      PROVE  /\ y.blocks[k].start = BlocksWritten(b)[k].start
             /\ Len(y.blocks[k].insns) = Len(BlocksWritten(b)[k].insns)
  <2> DEFINE e == BlocksWritten(b)[k]
  <2>1. y.blocks[k] = StoredBlock(e)
    BY <1>3, <1>4 DEF Extends
  <2>2. k \in 1 .. Len(BlocksWritten(b))
    BY BlocksWrittenAre, ListIs
  <2>3. {e.insns, e.succs, e.preds} \subseteq Seq(Nat)
    BY <2>2, BlocksWrittenAre
  <2> HIDE DEF e
  <2>4. StoredBlock(e).start = e.start /\ Len(StoredBlock(e).insns) = Len(e.insns)
    BY <2>3, StoredBlockIs
  <2>5. QED
    BY <2>1, <2>4 DEF e
<1>9. QED
  BY <1>5, <1>6, <1>7, <1>8 DEF StillThere, SameTables

(* Once anything is read from the wrong place, what was read from its own  *)
(* are all sections and functions, and the blocks up to the first one with *)
(* contents.                                                               *)
LEMMA GarbledBehind ==
    ASSUME NEW b, IsBinary(b), NEW low, NEW n \in 0 .. Len(Items(b, low)),
           Aligned(SubSeq(Items(b, low), 1, n)) # SubSeq(Items(b, low), 1, n)
    PROVE  \E r \in 0 .. Len(BlocksWritten(b)) :
             /\ FirstFilled(BlocksWritten(b), r)
             /\ Made(Read(SubSeq(Items(b, low), 1, n)), b, Len(b.sections), Len(b.functions), r)
<1> DEFINE items == Items(b, low)
           s == Len(b.sections)
           f == Len(b.functions)
           x == Read(SubSeq(items, 1, n))
<1>1. PICK r, M : Layout(items, b, r, M)
  BY ItemsAre
<1>2. Sizes(items, s, f, r, M)
  BY <1>1, LayoutIs
<1>3. /\ s \in Nat /\ f \in Nat /\ r \in Nat /\ M \in Nat /\ Len(items) \in Nat
      /\ n \in Nat /\ n <= Len(items)
  BY <1>2 DEF Sizes
<1>4. ~(n <= M)
  <2>1. Aligned(SubSeq(items, 1, n)) = SubSeq(items, 1, Shorter(n, M))
    BY <1>1, AlignedIs
  <2>2. n <= M => Shorter(n, M) = n
    BY DEF Shorter
  <2> HIDE DEF items
  <2>3. QED
    BY <2>1, <2>2 DEF items
<1>5. Shorter(n, M) = M /\ M < Len(items)
  <2> HIDE DEF items
  <2>1. QED
    BY <1>3, <1>4 DEF Shorter
<1>6. M = 5 + s + f + r /\ FirstFilled(BlocksWritten(b), r) /\ r \in 0 .. Len(BlocksWritten(b))
  <2>1. M # Len(items)
    <3> HIDE DEF items
    <3>1. QED
      BY <1>3, <1>5
  <2> HIDE DEF items
  <2>2. QED
    BY <1>1, <2>1 DEF Layout
<1>7. Got(x, b, r, M)
  BY <1>1, <1>5, ReadIs
<1>8. Made(x, b, Clip(M - 3, s), Clip(M - (4 + s), f), Clip(M - (5 + s + f), r))
  <2> HIDE DEF x
  <2>1. QED
    BY <1>7 DEF Got
<1>9. Clip(M - 3, s) = s /\ Clip(M - (4 + s), f) = f /\ Clip(M - (5 + s + f), r) = r
  <2> HIDE DEF s, f
  <2>1. QED
    BY <1>3, <1>6 DEF Clip
<1>10. Made(x, b, s, f, r)
  <2> HIDE DEF x, s, f
  <2>1. QED
    BY <1>8, <1>9
<1>11. QED
  BY <1>6, <1>10

LEMMA FirstFilledIs ==
    ASSUME NEW bs, IsList(bs), NEW r \in 0 .. Len(bs), FirstFilled(bs, r)
    PROVE  Min({k \in DOMAIN bs : Contents(bs[k]) # << >>}) = r
<1> DEFINE T == {k \in DOMAIN bs : Contents(bs[k]) # << >>}
<1>1. Len(bs) \in Nat /\ DOMAIN bs = 1 .. Len(bs)
  BY ListIs
<1>2. r \in 1 .. Len(bs) /\ r \in T
  BY <1>1 DEF FirstFilled, HasContents
<1>3. ASSUME NEW k \in T PROVE r <= k
  <2>1. k \in 1 .. Len(bs) /\ HasContents(bs[k])
    BY <1>1 DEF HasContents
  <2>2. k \notin 1 .. r - 1
    BY <2>1 DEF FirstFilled
  <2>3. QED
    BY <1>1, <1>2, <2>1, <2>2
<1>4. r \in T /\ \A k \in T : r <= k /\ k \in Int
  BY <1>1, <1>2, <1>3
<1> HIDE DEF T
<1>5. \A k \in T : (\A i \in T : k <= i) => k = r
  BY <1>4
<1>6. Min(T) = r
  BY <1>4, <1>5, Zenon DEF Min
<1>7. QED
  BY <1>6 DEF T

LEMMA InvImpliesPlaces == SessionInv => SavedKeepTheirPlace
<1> DEFINE sections == StoredSections(written)
           functions == StoredFunctions(written)
           blocks == BlocksWritten(written)
           filled == {k \in DOMAIN blocks : Contents(blocks[k]) # << >>}
<1> SUFFICES ASSUME SessionInv, written # NoBinary, todo = << >>,
                    NEW l \in Loads(disk), l.result = "success"
             PROVE  LET HasAll == /\ IsPrefix(sections, l.binary.sections)
                                  /\ IsPrefix(functions, l.binary.functions)
                        known == 1 .. IF l.garbled THEN Min(filled) ELSE Len(l.binary.blocks)
                    IN  /\ ~l.garbled => /\ IsPrefix(l.binary.sections, sections)
                                         /\ IsPrefix(l.binary.functions, functions)
                        /\ l.garbled \/ l.binary.blocks # << >> => HasAll
                        /\ \A k \in known :
                             /\ l.binary.blocks[k].start = blocks[k].start
                             /\ Len(l.binary.blocks[k].insns) = Len(blocks[k].insns)
  BY Zenon DEF SavedKeepTheirPlace
<1>1. IsBinary(written)
  BY DEF SessionInv
<1>2. PICK low \in LowBytes : \E n \in 0 .. Len(Items(written, low)) :
        disk = SubSeq(Items(written, low), 1, n)
  BY DEF SessionInv
<1>3. PICK n \in 0 .. Len(Items(written, low)) : disk = SubSeq(Items(written, low), 1, n)
  BY <1>2
<1>4. FirstParts(Read(disk), written)
  BY <1>1, <1>3, ReadFirst
<1> DEFINE x == l.binary
           As(k) == /\ x.blocks[k].start = blocks[k].start
                    /\ Len(x.blocks[k].insns) = Len(blocks[k].insns)
<1>5. CASE ~l.garbled
  <2>1. x = Read(disk)
    BY <1>5, LoadsAre
  <2>2. /\ IsBinary(x) /\ IsPrefix(x.sections, sections) /\ IsPrefix(x.functions, functions)
        /\ \A k \in DOMAIN x.blocks : As(k)
        /\ x.blocks # << >> => x.sections = sections /\ x.functions = functions
    BY <1>1, <1>4, <2>1, ReadIsBinary
  <2>3. DOMAIN x.blocks = 1 .. Len(x.blocks)
    BY <2>2, TablesAre, ListIs
  <2>4. IsPrefix(sections, sections) /\ IsPrefix(functions, functions)
    <3>1. ASSUME NEW u, IsList(u) PROVE IsPrefix(u, u)
      <4>1. Len(u) \in Nat
        BY <3>1, ListIs
      <4>2. Extends(u, u)
        BY <3>1, <4>1 DEF Extends
      <4>3. QED
        BY <4>2, ExtendsIsPrefix
    <3>2. QED
      BY <1>1, <3>1, StoredAre
  <2> HIDE DEF x, sections, functions, blocks, filled, As
  <2>5. x.blocks # << >> => IsPrefix(sections, x.sections) /\ IsPrefix(functions, x.functions)
    BY <2>2, <2>4
  <2>6. \A k \in 1 .. Len(x.blocks) : As(k)
    BY <2>2, <2>3
  <2>7. QED
    BY <1>5, <2>2, <2>5, <2>6, Zenon DEF x, As
<1>6. CASE l.garbled
  <2>1. Aligned(disk) # disk
    BY <1>6, LoadsAre
  <2>2. PICK items \in Misread : x = Reading(Read(disk), items)
    BY <1>6, LoadsAre
  <2>3. PICK r \in 0 .. Len(blocks) :
          /\ FirstFilled(blocks, r)
          /\ Made(Read(disk), written, Len(written.sections), Len(written.functions), r)
    BY <1>1, <1>3, <2>1, GarbledBehind
  <2>4. IsBinary(Read(disk))
    BY <1>1, <1>4, ReadIsBinary
  <2>5. StillThere(x, written, r)
    BY <1>1, <2>2, <2>3, <2>4, MisreadGrows, KeepsMade
  <2>6. Min(filled) = r
    BY <1>1, <2>3, FirstFilledIs, BlocksWrittenAre
  <2>7. /\ IsPrefix(sections, x.sections) /\ IsPrefix(functions, x.functions)
        /\ \A k \in 1 .. r : As(k)
    BY <2>5 DEF StillThere
  <2> HIDE DEF x, sections, functions, blocks, filled, As
  <2>8. QED
    BY <1>6, <2>6, <2>7, Zenon DEF x, As
<1>7. QED
  BY <1>5, <1>6

ReadBack(x, b) ==
    /\ SameTables(x, b)
    /\ x.functionAt = b.functionAt /\ x.sectionAt = b.sectionAt
    /\ ValidBinary(b) => ValidBinary(x)
    /\ Len(x.blocks) = Len(BlocksWritten(b))

LEMMA WholeBinary ==
    ASSUME NEW b, IsBinary(b), NEW low, Aligned(Items(b, low)) = Items(b, low),
           NEW x, x = Read(Items(b, low))
    PROVE  ReadBack(x, b)
<1> DEFINE s == Len(b.sections)
           f == Len(b.functions)
           bs == BlocksWritten(b)
           r == Len(bs)
<1>1. Made(x, b, s, f, r)
  BY WholeRead
<1>2. /\ s \in Nat /\ f \in Nat /\ r \in Nat
      /\ DOMAIN b.sections = 1 .. s /\ DOMAIN b.functions = 1 .. f
  BY StoredAre, StoredBlocksAre
<1>3. IsBinary(x) /\ Parts(x, b, s, f, r)
  <2>1. s \in 0 .. Len(b.sections) /\ f \in 0 .. Len(b.functions) /\ r \in 0 .. Len(bs)
    BY <1>2
  <2> HIDE DEF s, f, r
  <2>2. QED
    BY <1>1, <2>1, MadeIs DEF bs
<1>4. x.functionAt = b.functionAt
  <2> DEFINE u == [n \in DOMAIN x.functions |-> x.functions[n].start]
             v == [n \in DOMAIN b.functions |-> b.functions[n].start]
  <2>1. x.functionAt = MapOf(u) /\ b.functionAt = MapOf(v)
    BY <1>3, MapsAre DEF IsBinary
  <2>2. ASSUME NEW n \in 1 .. f PROVE x.functions[n].start = b.functions[n].start
    BY <1>3 DEF Parts, StoredFunction, NewFunction
  <2>3. DOMAIN x.functions = 1 .. f
    BY <1>3 DEF Parts
  <2>4. u = v
    BY <1>2, <2>2, <2>3
  <2> HIDE DEF u, v
  <2>5. QED
    BY <2>1, <2>4
<1>5. x.sectionAt = b.sectionAt
  <2> DEFINE u == [n \in DOMAIN x.sections |-> x.sections[n].rva]
             v == [n \in DOMAIN b.sections |-> b.sections[n].rva]
  <2>1. x.sectionAt = MapOf(u) /\ b.sectionAt = MapOf(v)
    BY <1>3, MapsAre DEF IsBinary
  <2>2. ASSUME NEW n \in 1 .. s PROVE x.sections[n].rva = b.sections[n].rva
    BY <1>3 DEF Parts, StoredSection, NewSection
  <2>3. DOMAIN x.sections = 1 .. s
    BY <1>3 DEF Parts
  <2>4. u = v
    BY <1>2, <2>2, <2>3
  <2> HIDE DEF u, v
  <2>5. QED
    BY <2>1, <2>4
<1>6. SameTables(x, b)
  <2>1. Grows(x, x)
    BY <1>3, GrowsItself
  <2>2. r \in 0 .. Len(bs)
    BY <1>2
  <2> HIDE DEF s, f, r
  <2>3. StillThere(x, b, r)
    BY <1>1, <2>1, <2>2, KeepsMade DEF s, f, bs
  <2>4. QED
    BY <2>3 DEF StillThere
<1>7. ASSUME ValidBinary(b) PROVE ValidBinary(x)
  <2>1. ASSUME NEW e \in ToSet(x.functions) PROVE ValidFunction(x, e)
    <3>1. PICK n \in 1 .. f : e = StoredFunction(b.functions[n])
      BY <1>3 DEF Parts, ToSet
    <3>2. e.section = b.functions[n].section /\ e.blocks = << >> /\ e.entry = Invalid
      BY <3>1 DEF StoredFunction, NewFunction
    <3>3. ValidFunction(b, b.functions[n])
      BY <1>2, <1>7 DEF ValidBinary, ToSet
    <3>4. DOMAIN x.sections = DOMAIN b.sections
      BY <1>2, <1>3 DEF Parts
    <3>5. e.section # Invalid => Has(x.sections, e.section)
      BY <3>2, <3>3, <3>4 DEF ValidFunction, Has
    <3>6. ToSet(<< >>) = {}
      BY DEF ToSet
    <3>7. QED
      BY <3>2, <3>5, <3>6 DEF ValidFunction
  <2>2. ASSUME NEW e \in ToSet(x.blocks) PROVE ValidBlock(x, e)
    <3>1. PICK n \in 1 .. r : e = StoredBlock(bs[n])
      BY <1>3 DEF Parts, ToSet
    <3> DEFINE k == bs[n]
    <3>2. k \in ToSet(b.blocks) /\ {k.insns, k.succs, k.preds} \subseteq Seq(Nat)
      BY <3>1, BlocksWrittenAre
    <3>3. ~HasContents(k)
      <4>1. Layout(Items(b, low), b, r, 10 + s + f + r) /\ 10 + s + f + r = Len(Items(b, low))
        BY WholeLayout
      <4>2. 10 + s + f + r # 5 + s + f + r
        <5> HIDE DEF s, f, r
        <5>1. QED
          BY <1>2
      <4>3. QED
        BY <4>1, <4>2 DEF Layout
    <3> HIDE DEF k
    <3>4. e.parent = k.parent /\ e.insns = << >> /\ e.succs = << >> /\ e.preds = << >>
      <4>1. e = StoredBlock(k)
        BY <3>1 DEF k
      <4>2. QED
        BY <3>2, <3>3, <4>1, StoredBlockIs
    <3>5. ValidBlock(b, k)
      BY <1>7, <3>2 DEF ValidBinary
    <3>6. DOMAIN x.functions = DOMAIN b.functions
      BY <1>2, <1>3 DEF Parts
    <3>7. e.parent # Invalid => Has(x.functions, e.parent)
      BY <3>4, <3>5, <3>6 DEF ValidBlock, Has
    <3>8. ToSet(<< >>) = {} /\ << >> \o << >> = << >>
      BY DEF ToSet
    <3>9. QED
      BY <3>4, <3>7, <3>8 DEF ValidBlock
  <2>3. ToSet(x.insns) = {}
    BY <1>1 DEF Made, ToSet
  <2>4. QED
    BY <2>1, <2>2, <2>3 DEF ValidBinary
<1>8. Len(x.blocks) = r
  BY <1>3 DEF Parts
<1>9. QED
  BY <1>4, <1>5, <1>6, <1>7, <1>8 DEF ReadBack

LEMMA WholeCounts ==
    ASSUME NEW b, IsBinary(b), NEW low, NEW items, items = Items(b, low),
           Aligned(items) = items
    PROVE  items[Len(items)].low = 0 =>
             /\ Counts(items)["Function"] = {Len(b.functions)}
             /\ Counts(items)["BasicBlock"] = {Len(BlocksWritten(b))}
<1> DEFINE s == Len(b.sections)
           f == Len(b.functions)
           r == Len(BlocksWritten(b))
           M == 10 + s + f + r
<1>1. Layout(items, b, r, M) /\ M = Len(items)
  BY WholeLayout
<1>2. s \in Nat /\ f \in Nat /\ r \in Nat
  BY StoredAre, StoredBlocksAre
<1>3. IsList(items) /\ DOMAIN items = 1 .. M
  BY <1>1, ListIs DEF Layout
<1>4. /\ items[1] = Magic(1) /\ items[3] = Table("Section", s)
      /\ items[4 + s] = Table("Function", f) /\ items[5 + s + f] = Table("BasicBlock", r)
  BY <1>1 DEF Layout
<1>5. 1 \in 1 .. M /\ 4 + s \in 1 .. M /\ 5 + s + f \in 1 .. M /\ M > 2
  <2> HIDE DEF s, f, r
  <2>1. QED
    BY <1>2
<1>6. ASSUME NEW n \in 1 .. M
      PROVE  /\ items[n].item = "table" /\ items[n].kind = "Function" => n = 4 + s
             /\ items[n].item = "table" /\ items[n].kind = "BasicBlock" => n = 5 + s + f
             /\ items[n].item = "footer" => n = M
  <2> DEFINE m == M
  <2>1. n \in 1 .. m /\ Layout(items, b, r, m) /\ m = 10 + Len(b.sections) + Len(b.functions) + r
    BY <1>1
  <2> HIDE DEF m
  <2>2. TablePlaces(items, s, f, m, n)
    BY <2>1, WholeTables
  <2>3. QED
    BY <2>2 DEF TablePlaces, m
<1> DEFINE Tally(kind) == {i.count : i \in {j \in ToSet(items) : j.item = "table" /\ j.kind = kind}}
<1>7. ASSUME items[Len(items)].low = 0
      PROVE  /\ Counts(items)["Function"] = Tally("Function")
             /\ Counts(items)["BasicBlock"] = Tally("BasicBlock")
  <2>1. ASSUME NEW kind
        PROVE  ~ \E i \in ToSet(items) : i.item = "footer" /\ i.low > 0 /\ Kinds[i.low] = kind
    <3>1. SUFFICES ASSUME NEW n \in 1 .. M, items[n].item = "footer", items[n].low > 0
                   PROVE  FALSE
      BY <1>3 DEF ToSet
    <3>2. n = M
      BY <1>6, <3>1
    <3>3. items[n].low = 0
      BY <1>1, <1>7, <3>2
    <3>4. QED
      BY <3>1, <3>3
  <2>2. "Function" \in ToSet(Kinds) /\ "BasicBlock" \in ToSet(Kinds)
    <3>1. /\ Kinds[2] = "Function" /\ Kinds[3] = "BasicBlock"
          /\ 2 \in DOMAIN Kinds /\ 3 \in DOMAIN Kinds
      BY DEF Kinds
    <3>2. QED
      BY <3>1 DEF ToSet
  <2>3. ASSUME NEW kind \in ToSet(Kinds) PROVE Counts(items)[kind] = Tally(kind)
    BY <2>1 DEF Counts
  <2>4. QED
    BY <2>2, <2>3
<1>8. Tally("Function") = {f}
  <2>1. ASSUME NEW c \in Tally("Function") PROVE c = f
    <3>1. PICK n \in 1 .. M : /\ items[n].item = "table" /\ items[n].kind = "Function"
                              /\ c = items[n].count
      BY <1>3 DEF ToSet
    <3>2. n = 4 + s
      BY <1>6, <3>1
    <3>3. QED
      BY <1>4, <3>1, <3>2 DEF Table
  <2>2. f \in Tally("Function")
    <3>1. items[4 + s] \in ToSet(items)
      BY <1>3, <1>5 DEF ToSet
    <3>2. /\ items[4 + s].item = "table" /\ items[4 + s].kind = "Function"
          /\ items[4 + s].count = f
      BY <1>4 DEF Table
    <3>3. QED
      BY <3>1, <3>2
  <2> HIDE DEF Tally
  <2>3. QED
    BY <2>1, <2>2
<1>9. Tally("BasicBlock") = {r}
  <2>1. ASSUME NEW c \in Tally("BasicBlock") PROVE c = r
    <3>1. PICK n \in 1 .. M : /\ items[n].item = "table" /\ items[n].kind = "BasicBlock"
                              /\ c = items[n].count
      BY <1>3 DEF ToSet
    <3>2. n = 5 + s + f
      BY <1>6, <3>1
    <3> HIDE DEF s, f, r
    <3>3. items[n] = Table("BasicBlock", r)
      BY <1>4, <3>2
    <3>4. QED
      BY <3>1, <3>3 DEF Table
  <2>2. r \in Tally("BasicBlock")
    <3>1. items[5 + s + f] \in ToSet(items)
      BY <1>3, <1>5 DEF ToSet
    <3>2. /\ items[5 + s + f].item = "table" /\ items[5 + s + f].kind = "BasicBlock"
          /\ items[5 + s + f].count = r
      BY <1>4 DEF Table
    <3>3. QED
      BY <3>1, <3>2
  <2> HIDE DEF Tally
  <2>3. QED
    BY <2>1, <2>2
<1>10. QED
  BY <1>7, <1>8, <1>9

LEMMA WholeInfo ==
    ASSUME NEW b, IsBinary(b), NEW low, NEW items, items = Items(b, low)
    PROVE  SessionInfo(items) = {[version |-> 1, entities |-> Len(b.sections)]}
<1> DEFINE s == Len(b.sections)
<1>1. PICK r, M : Layout(items, b, r, M)
  BY ItemsAre
<1>2. Sizes(items, s, Len(b.functions), r, M)
  BY <1>1, LayoutIs
<1>3. IsList(items) /\ Len(items) \in Nat /\ Len(items) > 2
  <2> DEFINE f == Len(b.functions)
  <2>1. /\ s \in Nat /\ f \in Nat /\ r \in Nat /\ M \in Nat /\ M <= Len(items)
        /\ M = 5 + s + f + r \/ M = 10 + s + f + r
        /\ IsList(items) /\ Len(items) \in Nat
    BY <1>2 DEF Sizes
  <2> HIDE DEF s, f
  <2>2. QED
    BY <2>1
<1>4. items[1] = Magic(1) /\ items[3] = Table("Section", s)
  BY <1>1 DEF Layout
<1>5. 1 \in DOMAIN items
  BY <1>3, ListIs
<1> HIDE DEF s
<1>6. {items[n] : n \in {1} \cap DOMAIN items} = {Magic(1)}
  BY <1>4, <1>5
<1>7. Magic(1).item = "magic" /\ Magic(1).version = 1 /\ items[3].count = s
  BY <1>4 DEF Magic, Table
<1>8. {j \in {Magic(1)} : j.item = "magic"} = {Magic(1)}
  BY <1>7
<1>9. QED
  BY <1>3, <1>6, <1>7, <1>8 DEF SessionInfo, s

LEMMA ItemsList == ASSUME NEW b, IsBinary(b), NEW low PROVE IsList(Items(b, low))
<1>1. PICK r, M : Layout(Items(b, low), b, r, M)
  BY ItemsAre
<1>2. QED
  BY <1>1 DEF Layout

LEMMA FullList == ASSUME NEW s, IsList(s) PROVE SubSeq(s, 1, Len(s)) = s
BY SubSeqFull DEF IsList

LEMMA InvImpliesWhole == SessionInv => WholeSessionComesBack
<1> SUFFICES ASSUME SessionInv, finished, todo = << >>
             PROVE  /\ SessionInfo(disk) = {[version |-> 1, entities |-> Len(written.sections)]}
                    /\ \A l \in Loads(disk) : l.result = "success" =>
                         /\ SameTables(l.binary, written)
                         /\ ~l.garbled =>
                              /\ l.binary.functionAt = written.functionAt
                              /\ l.binary.sectionAt = written.sectionAt
                              /\ ValidBinary(written) => ValidBinary(l.binary)
                              /\ disk[Len(disk)].low = 0 =>
                                   /\ l.counts["Function"] = {Len(written.functions)}
                                   /\ l.counts["BasicBlock"] = {Len(l.binary.blocks)}
  BY Zenon DEF WholeSessionComesBack, SameTables
<1>1. written # NoBinary
  BY DEF SessionInv
<1>2. IsBinary(written)
  BY <1>1 DEF SessionInv
<1>3. PICK low \in LowBytes : \E n \in 0 .. Len(Items(written, low)) :
        disk = SubSeq(Items(written, low), 1, n) /\ n = Len(Items(written, low))
  BY <1>1 DEF SessionInv
<1> DEFINE items == Items(written, low)
<1>4. IsList(items) /\ Len(items) \in Nat
  BY <1>2, ItemsList, ListIs
<1>5. disk = items
  BY <1>3, <1>4, FullList, Zenon
<1>6. SessionInfo(disk) = {[version |-> 1, entities |-> Len(written.sections)]}
  BY <1>2, <1>5, WholeInfo
<1>7. ASSUME NEW l \in Loads(disk), l.result = "success", ~l.garbled
      PROVE  /\ ReadBack(l.binary, written)
             /\ disk[Len(disk)].low = 0 =>
                  /\ l.counts["Function"] = {Len(written.functions)}
                  /\ l.counts["BasicBlock"] = {Len(l.binary.blocks)}
  <2>1. l.binary = Read(disk) /\ Aligned(disk) = disk /\ l.counts = Counts(disk)
    BY <1>7, LoadsAre
  <2>2. ReadBack(l.binary, written)
    BY <1>2, <1>5, <2>1, WholeBinary, Zenon
  <2>3. disk[Len(disk)].low = 0 =>
          /\ Counts(disk)["Function"] = {Len(written.functions)}
          /\ Counts(disk)["BasicBlock"] = {Len(BlocksWritten(written))}
    BY <1>2, <1>5, <2>1, WholeCounts
  <2>4. QED
    BY <2>1, <2>2, <2>3 DEF ReadBack
<1>8. ASSUME NEW l \in Loads(disk), l.result = "success", l.garbled
      PROVE  SameTables(l.binary, written)
  <2>1. PICK more \in Misread : l.binary = Reading(Read(disk), more)
    BY <1>8, LoadsAre
  <2>2. Aligned(disk) # disk
    BY <1>8, LoadsAre
  <2>3. Len(items) \in 0 .. Len(items) /\ disk = SubSeq(items, 1, Len(items))
    BY <1>4, <1>5, FullList
  <2>4. PICK r \in 0 .. Len(BlocksWritten(written)) :
          Made(Read(disk), written, Len(written.sections), Len(written.functions), r)
    BY <1>2, <2>2, <2>3, GarbledBehind
  <2>5. IsBinary(Read(disk))
    <3>1. FirstParts(Read(disk), written)
      BY <1>2, <2>3, ReadFirst
    <3>2. QED
      BY <1>2, <3>1, ReadIsBinary
  <2>6. StillThere(l.binary, written, r)
    BY <1>2, <2>1, <2>4, <2>5, MisreadGrows, KeepsMade
  <2>7. QED
    BY <2>6 DEF StillThere
<1>9. QED
  BY <1>6, <1>7, <1>8 DEF ReadBack

-----------------------------------------------------------------------------
(* The invariant.                                                          *)

LEMMA BinaryIsSome == ASSUME NEW b, IsBinary(b) PROVE b # NoBinary
<1>1. DOMAIN b = DOMAIN EmptyBinary(0)
  BY DEF IsBinary
<1>2. "base" \in DOMAIN EmptyBinary(0)
  BY DEF EmptyBinary
<1>3. "base" \notin DOMAIN NoBinary
  BY DEF NoBinary
<1>4. QED
  BY <1>1, <1>2, <1>3

(* The file while it is written.                                           *)
Cut(items, file, rest, noRoom, all) ==
    \E n \in 0 .. Len(items) :
      /\ file = SubSeq(items, 1, n)
      /\ rest # << >> /\ ~noRoom => rest = SubSeq(items, n + 1, Len(items))
      /\ all => n = Len(items)

LEMMA CutInInv ==
    SessionInv <=>
      /\ IsBinary(bin)
      /\ todo # << >> => ~finished
      /\ written = NoBinary =>
           disk \in Foreign /\ todo = << >> /\ ~finished
      /\ written # NoBinary =>
           /\ IsBinary(written)
           /\ \E low \in LowBytes : Cut(Items(written, low), disk, todo, full, finished)
BY Zenon DEF SessionInv, Cut

(* What is behind a place of a list, and what is behind the next one.      *)
LEMMA RestOf ==
    ASSUME NEW s, IsList(s), NEW n \in 0 .. Len(s), SubSeq(s, n + 1, Len(s)) # << >>
    PROVE  /\ n + 1 \in 1 .. Len(s) /\ n + 1 \in 0 .. Len(s)
           /\ Head(SubSeq(s, n + 1, Len(s))) = s[n + 1]
           /\ Tail(SubSeq(s, n + 1, Len(s))) = SubSeq(s, (n + 1) + 1, Len(s))
           /\ SubSeq(s, (n + 1) + 1, Len(s)) = << >> => n + 1 = Len(s)
           /\ SubSeq(s, 1, n + 1) = Append(SubSeq(s, 1, n), s[n + 1])
<1> DEFINE m == n + 1
<1>1. Len(s) \in Nat /\ n \in Nat /\ s \in Seq(ToSet(s))
  BY ListIs DEF IsList
<1>2. m \in 1 .. Len(s) /\ m \in 0 .. Len(s)
  <2>1. CASE Len(s) < m
    <3>1. m \in Int /\ Len(s) \in Int
      BY <1>1
    <3> HIDE DEF m
    <3>2. SubSeq(s, m, Len(s)) = << >>
      BY <2>1, <3>1, SubSeqEmpty
    <3>3. QED
      BY <3>2 DEF m
  <2>2. CASE ~(Len(s) < m)
    BY <1>1, <2>2
  <2>3. QED
    BY <2>1, <2>2
<1>3. Len(s) \in m .. Len(s) /\ m - 1 = n
  BY <1>1, <1>2
<1> HIDE DEF m
<1>4. Head(SubSeq(s, m, Len(s))) = s[m] /\ Tail(SubSeq(s, m, Len(s))) = SubSeq(s, m + 1, Len(s))
  BY <1>1, <1>2, <1>3, HeadTailOfSubSeq
<1>5. ASSUME SubSeq(s, m + 1, Len(s)) = << >> PROVE m = Len(s)
  <2>1. m + 1 \in Int /\ Len(s) \in Int /\ \A i \in m + 1 .. Len(s) : s[i] \in ToSet(s)
    BY <1>1, <1>2, ListIs DEF ToSet
  <2>2. Len(SubSeq(s, m + 1, Len(s))) = IF m + 1 <= Len(s) THEN Len(s) - (m + 1) + 1 ELSE 0
    BY <2>1, SubSeqProperties
  <2>3. Len(SubSeq(s, m + 1, Len(s))) = 0
    BY <1>5, EmptySeq
  <2>4. QED
    BY <1>1, <1>2, <2>2, <2>3
<1>6. SubSeq(s, 1, m) = Append(SubSeq(s, 1, n), s[m])
  BY <1>2, <1>3, OneMore
<1>7. QED
  BY <1>2, <1>4, <1>5, <1>6 DEF m

LEMMA SessionInitially == SessionInit => SessionInv
<1> SUFFICES ASSUME SessionInit PROVE SessionInv
  OBVIOUS
<1>1. IsBinary(bin)
  BY EmptyIsBinary DEF SessionInit
<1>2. written = NoBinary /\ disk \in Foreign /\ todo = << >> /\ ~finished
  BY DEF SessionInit, Foreign
<1>3. QED
  BY <1>1, <1>2 DEF SessionInv

LEMMA SaveOpenKeeps ==
    ASSUME SessionInv, NEW low \in LowBytes, SaveOpen(low) PROVE SessionInv'
<1> DEFINE items == Items(bin, low)
<1>1. IsBinary(bin) /\ bin # NoBinary
  BY BinaryIsSome DEF SessionInv
<1>2. /\ bin' = bin /\ written' = bin /\ disk' = << >> /\ todo' = items /\ ~finished'
      /\ full' = full
  BY DEF SaveOpen
<1>3. IsList(items) /\ Len(items) \in Nat
  BY <1>1, ItemsList, ListIs
<1>4. Cut(items, << >>, items, full, FALSE)
  <2>1. 0 \in 0 .. Len(items) /\ 0 + 1 = 1 /\ Len(items) \in 0 .. Len(items)
    BY <1>3
  <2>2. SubSeq(items, 1, 0) = << >> /\ items = SubSeq(items, 1, Len(items))
    BY <1>3, <2>1, SubSeqEmpty, FirstOf
  <2> HIDE DEF items
  <2>3. QED
    BY <2>1, <2>2 DEF Cut
<1>5. Cut(items, disk', todo', full', finished')
  <2> HIDE DEF items
  <2>1. PICK n \in 0 .. Len(items) :
          /\ << >> = SubSeq(items, 1, n)
          /\ items # << >> /\ ~full => items = SubSeq(items, n + 1, Len(items))
    BY <1>4 DEF Cut
  <2>2. QED
    BY <1>2, <2>1 DEF Cut
<1>6. QED
  BY <1>1, <1>2, <1>5, CutInInv, Zenon DEF SessionInv, Cut

LEMMA SaveWriteKeeps == ASSUME SessionInv, SaveWrite PROVE SessionInv'
<1>1. /\ todo # << >> /\ todo' = Tail(todo) /\ finished' = (~full /\ Tail(todo) = << >>)
      /\ disk' = IF full THEN disk ELSE Append(disk, Head(todo))
      /\ bin' = bin /\ full' = full /\ written' = written
  BY DEF SaveWrite
<1>2. written # NoBinary /\ IsBinary(written) /\ IsBinary(bin) /\ ~finished
  BY <1>1 DEF SessionInv
<1>3. PICK low \in LowBytes : Cut(Items(written, low), disk, todo, full, finished)
  BY <1>2, CutInInv
<1> DEFINE items == Items(written, low)
<1>4. IsList(items)
  BY <1>2, ItemsList
<1> HIDE DEF items
<1>5. PICK n \in 0 .. Len(items) :
        /\ disk = SubSeq(items, 1, n)
        /\ todo # << >> /\ ~full => todo = SubSeq(items, n + 1, Len(items))
  BY <1>3 DEF Cut, items
<1>6. CASE full
  <2>1. disk' = SubSeq(items, 1, n) /\ ~finished' /\ full'
    BY <1>1, <1>5, <1>6
  <2>2. QED
    BY <2>1 , <1>1, <1>2, <1>5, Zenon DEF SessionInv, items
<1>7. CASE ~full
  <2> DEFINE m == n + 1
  <2>1. todo = SubSeq(items, m, Len(items))
    BY <1>1, <1>5, <1>7
  <2>2. /\ m \in 0 .. Len(items) /\ Head(todo) = items[m]
        /\ Tail(todo) = SubSeq(items, m + 1, Len(items))
        /\ Tail(todo) = << >> => m = Len(items)
        /\ SubSeq(items, 1, m) = Append(SubSeq(items, 1, n), items[m])
    BY <1>1, <1>4, <2>1, RestOf
  <2> HIDE DEF m
  <2>3. disk' = SubSeq(items, 1, m)
    BY <1>1, <1>5, <1>7, <2>2
  <2>4. todo' = SubSeq(items, m + 1, Len(items)) /\ (finished' => m = Len(items))
        /\ (todo' # << >> => ~finished')
    BY <1>1, <2>2
  <2>5. QED
    BY <1>1, <1>2, <2>2, <2>3, <2>4, Zenon DEF SessionInv, items
<1>8. QED
  BY <1>6, <1>7

LEMMA CrashKeeps == ASSUME SessionInv, CrashInSession PROVE SessionInv'
<1>1. /\ todo # << >> /\ todo' = << >> /\ bin' = bin /\ written' = written /\ finished' = finished
      /\ \E k \in 0 .. Len(disk) : disk' = SubSeq(disk, 1, k)
  BY DEF CrashInSession
<1>2. written # NoBinary /\ IsBinary(written) /\ IsBinary(bin) /\ ~finished
  BY <1>1 DEF SessionInv
<1>3. PICK low \in LowBytes : Cut(Items(written, low), disk, todo, full, finished)
  BY <1>2, CutInInv
<1> DEFINE items == Items(written, low)
<1>4. IsList(items) /\ Len(items) \in Nat
  BY <1>2, ItemsList, ListIs
<1> HIDE DEF items
<1>5. PICK n \in 0 .. Len(items) : disk = SubSeq(items, 1, n)
  BY <1>3 DEF Cut, items
<1>6. IsList(disk) /\ Len(disk) = n /\ \A i \in 1 .. n : disk[i] = items[i]
  BY <1>4, <1>5, FirstOf
<1>7. PICK k \in 0 .. Len(disk) : disk' = SubSeq(disk, 1, k)
  BY <1>1
<1>8. k \in 0 .. Len(items) /\ \A i \in 1 .. k : disk[i] = items[i]
  BY <1>4, <1>6
<1>9. disk' = SubSeq(items, 1, k)
  <2> DEFINE u == SubSeq(disk, 1, k)
             v == SubSeq(items, 1, k)
  <2>1. IsList(u) /\ Len(u) = k /\ \A i \in 1 .. k : u[i] = disk[i]
    BY <1>6, FirstOf
  <2>2. IsList(v) /\ Len(v) = k /\ \A i \in 1 .. k : v[i] = items[i]
    BY <1>4, <1>8, FirstOf
  <2> HIDE DEF u, v
  <2>3. u = v
    BY <1>8, <2>1, <2>2, ListsEqual
  <2>4. QED
    BY <1>7, <2>3 DEF u, v
<1>10. QED
  BY <1>1, <1>2, <1>8, <1>9, Zenon DEF SessionInv, items

LEMMA SessionLoadKeeps == ASSUME SessionInv, SessionLoad PROVE SessionInv'
<1>1. /\ todo = << >> /\ loaded' \in Loads(disk)
      /\ bin' = IF loaded'.result = "success" THEN loaded'.binary ELSE bin
      /\ disk' = disk /\ todo' = todo /\ full' = full /\ written' = written /\ finished' = finished
  BY DEF SessionLoad
<1>2. IsBinary(bin')
  <2>1. CASE bin' = bin
    BY <2>1 DEF SessionInv
  <2>2. CASE bin' # bin
    <3>1. loaded'.result = "success" /\ bin' = loaded'.binary
      BY <1>1, <2>2
    <3>2. /\ Verify(disk)
          /\ \/ loaded'.binary = Read(disk)
             \/ \E items \in Misread : loaded'.binary = Reading(Read(disk), items)
      BY <1>1, <3>1, LoadsAre
    <3>3. written # NoBinary
      <4>1. ASSUME written = NoBinary PROVE FALSE
        <5>1. disk \in Foreign
          BY <4>1 DEF SessionInv
        <5>2. disk # << >> /\ disk[1].item = "magic" /\ disk[1].version = 1
          BY <3>2 DEF Verify
        <5>3. disk[1] = Magic(2) \/ disk[1] = Meta
          BY <5>1, <5>2 DEF Foreign
        <5>4. QED
          BY <5>2, <5>3 DEF Magic, Meta
      <4>2. QED
        BY <4>1
    <3>4. IsBinary(written)
      BY <3>3 DEF SessionInv
    <3>5. PICK low \in LowBytes : \E n \in 0 .. Len(Items(written, low)) :
            disk = SubSeq(Items(written, low), 1, n)
      BY <3>3 DEF SessionInv
    <3>6. FirstParts(Read(disk), written)
      BY <3>4, <3>5, ReadFirst
    <3>7. IsBinary(Read(disk))
      BY <3>4, <3>6, ReadIsBinary
    <3>8. ASSUME NEW items \in Misread PROVE IsBinary(Reading(Read(disk), items))
      BY <3>7, MisreadGrows DEF Grows
    <3>9. QED
      BY <3>1, <3>2, <3>7, <3>8
  <2>3. QED
    BY <2>1, <2>2
<1>3. QED
  BY <1>1, <1>2, Zenon DEF SessionInv

LEMMA SessionStep == SessionInv /\ [SessionNext]_sessionVars => SessionInv'
<1> SUFFICES ASSUME SessionInv, [SessionNext]_sessionVars PROVE SessionInv'
  OBVIOUS
<1>1. ASSUME NEW b \in Binaries, Analyze(b) PROVE SessionInv'
  <2>1. IsBinary(b)
    BY BinariesAssumption
  <2>2. /\ bin' = b /\ disk' = disk /\ todo' = todo /\ full' = full /\ written' = written
        /\ finished' = finished
    BY <1>1 DEF Analyze
  <2>3. QED
    BY <2>1, <2>2, Zenon DEF SessionInv
<1>2. ASSUME NEW low \in LowBytes, SaveOpen(low) PROVE SessionInv'
  BY <1>2, SaveOpenKeeps
<1>3. CASE SaveCannotOpen
  BY <1>3, Zenon DEF SessionInv, SaveCannotOpen
<1>4. CASE SaveWrite
  BY <1>4, SaveWriteKeeps
<1>5. CASE DiskFills
  <2>1. /\ bin' = bin /\ disk' = disk /\ todo' = todo /\ full' /\ written' = written
        /\ finished' = finished
    BY <1>5 DEF DiskFills
  <2>2. QED
    BY <2>1, Zenon DEF SessionInv
<1>6. CASE DiskFreed
  <2>1. /\ bin' = bin /\ disk' = disk /\ todo' = todo /\ todo = << >> /\ written' = written
        /\ finished' = finished
    BY <1>6 DEF DiskFreed
  <2>2. QED
    BY <2>1, Zenon DEF SessionInv
<1>7. CASE CrashInSession
  BY <1>7, CrashKeeps
<1>8. CASE SessionLoad
  BY <1>8, SessionLoadKeeps
<1>9. CASE SelectFile
  <2>1. /\ bin' = bin /\ disk' \in Foreign /\ todo' = todo /\ todo = << >>
        /\ written' = NoBinary /\ ~finished'
    BY <1>9 DEF SelectFile
  <2>2. IsBinary(bin)
    BY DEF SessionInv
  <2>3. QED
    BY <2>1, <2>2, Zenon DEF SessionInv, Foreign
<1>10. CASE UNCHANGED sessionVars
  BY <1>10, Zenon DEF SessionInv, sessionVars
<1>11. QED
  BY <1>1, <1>2, <1>3, <1>4, <1>5, <1>6, <1>7, <1>8, <1>9, <1>10 DEF SessionNext

-----------------------------------------------------------------------------
(* The theorems.                                                           *)

LEMMA InitIInv == Init => IInv
<1> SUFFICES ASSUME AnnotationsInit, PatchInit, SessionInit PROVE IInv
  BY DEF Init
<1>1. NotesType /\ IdsAreNew
  BY EmptyIsTable DEF AnnotationsInit, NotesType, IdsAreNew
<1>2. StoredType /\ FileInv
  BY DEF AnnotationsInit, NoFile, StoredType, FileInv
<1>3. PatchType /\ PatchInv
  BY EmptySeq DEF PatchInit, PatchType, PatchInv
<1>4. SessionInv
  BY SessionInitially
<1>5. QED
  BY <1>1, <1>2, <1>3, <1>4 DEF IInv, TypeOK

LEMMA NextIInv == IInv /\ [Next]_vars => IInv'
<1> SUFFICES ASSUME IInv, [Next]_vars PROVE IInv'
  OBVIOUS
<1>1. NotesType /\ StoredType /\ PatchType /\ IdsAreNew /\ FileInv /\ PatchInv /\ SessionInv
  BY DEF IInv, TypeOK
<1>2. ASSUME UNCHANGED patchVars PROVE PatchType' /\ PatchInv'
  BY <1>1, <1>2 DEF patchVars, PatchType, PatchInv
<1>3. ASSUME UNCHANGED annotationVars PROVE NotesType' /\ StoredType' /\ IdsAreNew' /\ FileInv'
  BY <1>1, <1>3 DEF annotationVars, NotesType, StoredType, IdsAreNew, FileInv
<1>4. ASSUME UNCHANGED sessionVars PROVE SessionInv'
  BY <1>1, <1>4, SessionStep
<1>5. CASE Annotates
  <2>1. AnnotationsNext /\ UNCHANGED patchVars /\ UNCHANGED sessionVars
    BY <1>5 DEF Annotates
  <2>2. NotesType' /\ IdsAreNew' /\ StoredType' /\ FileInv'
    BY <1>1, <2>1, NotesStep, FileStep
  <2>3. QED
    BY <1>2, <1>4, <2>1, <2>2 DEF IInv, TypeOK
<1>6. CASE Patching
  <2>1. PatchNext /\ UNCHANGED annotationVars /\ UNCHANGED sessionVars
    BY <1>6 DEF Patching
  <2>2. PatchType' /\ PatchInv'
    BY <1>1, <2>1, PatchStep
  <2>3. QED
    BY <1>3, <1>4, <2>1, <2>2 DEF IInv, TypeOK
<1>7. CASE KeepsSessions
  <2>1. SessionNext /\ UNCHANGED annotationVars /\ UNCHANGED patchVars
    BY <1>7 DEF KeepsSessions
  <2>2. SessionInv'
    BY <1>1, <2>1, SessionStep
  <2>3. QED
    BY <1>2, <1>3, <2>1, <2>2 DEF IInv, TypeOK
<1>8. CASE UNCHANGED vars
  <2>1. UNCHANGED annotationVars /\ UNCHANGED patchVars /\ UNCHANGED sessionVars
    BY <1>8 DEF vars
  <2>2. QED
    BY <1>2, <1>3, <1>4, <2>1 DEF IInv, TypeOK
<1>9. QED
  BY <1>5, <1>6, <1>7, <1>8 DEF Next

(* The annotations have their types, in memory and in the file, and the    *)
(* patches theirs; a file of lines is what a save, or a crash in the       *)
(* middle of one, has written.  A session file has the first items of the  *)
(* binary it was opened for, and all of them once it was written whole;    *)
(* and what the program has is always a binary that creation alone could   *)
(* have made.                                                              *)
THEOREM Inductive == Spec => []IInv
  BY InitIInv, NextIInv, PTL DEF Spec

(* The annotations, the file and the patches have their types.             *)
THEOREM TypeCorrect == Spec => []TypeOK
<1>1. IInv => TypeOK
  BY DEF IInv
<1>2. QED
  BY <1>1, Inductive, PTL

(* An identifier that is handed out is not one of an annotation there is,  *)
(* through every load and import, also of what was cut or throws.          *)
THEOREM IdentifiersAreNew == Spec => []IdsAreNew
<1>1. IInv => IdsAreNew
  BY DEF IInv
<1>2. QED
  BY <1>1, Inductive, PTL

(* What was saved with texts of one line is loaded as it was saved, for    *)
(* any number of annotations in any order; after a crash, all but the last *)
(* entry that is in the file.                                              *)
THEOREM SavedIsLoaded == Spec => []SavedComesBack
<1>1. IInv => SavedComesBack
  BY SavedRestored DEF IInv, TypeOK
<1>2. QED
  BY <1>1, Inductive, PTL

(* The original bytes a patch records are those of the file at each of its *)
(* addresses, for sections of any layout, overlapping ones included.       *)
THEOREM OriginalsAreRight == Spec => []OriginalsAreAtTheirAddress
<1>1. IInv => OriginalsAreAtTheirAddress
  BY OriginalsRight DEF IInv, TypeOK
<1>2. QED
  BY <1>1, Inductive, PTL

(* For any binaries, any place where the file was cut and any entities     *)
(* read from the wrong place: a load that reports success has the first    *)
(* sections, functions and blocks of what was saved, each in its place.    *)
(* Entities that nobody saved it may have too, but only behind the first   *)
(* block with contents, and then behind all saved sections and functions   *)
(* and the blocks up to that one.                                          *)
THEOREM SavedAreInPlace == Spec => []SavedKeepTheirPlace
<1>1. IInv => SavedKeepTheirPlace
  BY InvImpliesPlaces DEF IInv
<1>2. QED
  BY <1>1, Inductive, PTL

(* For any binaries: every load of a file that was written whole that      *)
(* reports success has the sections and functions that were saved, and     *)
(* standard functions as standard ones.  For those of which no block has   *)
(* contents it also has their maps and is as valid as what was saved, and  *)
(* the counts are right if the low byte of the file's size is 0.           *)
THEOREM WholeSessionIsLoaded == Spec => []WholeSessionComesBack
<1>1. IInv => WholeSessionComesBack
  BY InvImpliesWhole DEF IInv
<1>2. QED
  BY <1>1, Inductive, PTL
=============================================================================
