---------------------- MODULE DisassemblyCache_proofs -----------------------
(***************************************************************************)
(* Proofs about DisassemblyCache, for every set of processes and of keys,  *)
(* every set of sizes and any number of calls.                             *)
(***************************************************************************)
EXTENDS DisassemblyCache, FiniteSetTheorems, SequenceTheorems, TLAPS

-----------------------------------------------------------------------------
(* The cells of a file.                                                    *)

(* No sequence of cells is the mark for an entry that is not there.        *)
LEMMA NoneIsNoFile == None \notin Seq(Cell)
<1> SUFFICES ASSUME None \in Seq(Cell) PROVE FALSE
  OBVIOUS
<1>1. \A s \in Seq(Cell) : Len(s) = 1 => s[1] \in Cell
  BY ElementOfSeq
<1>2. Len(None) = 1 /\ None[1] = <<"no entry", 0>>
  BY DEF None
<1>3. \A c \in Cell : c[1] \in {"header", "byte", "low", "high", "piece", "zero"}
  BY DEF Cell
<1>4. None[1][1] \in {"header", "byte", "low", "high", "piece", "zero"}
  BY <1>1, <1>2, <1>3
<1>5. None[1][1] = "no entry"
  BY DEF None
<1>6. QED
  BY <1>4, <1>5

(* What a place in a file is read as.                                      *)
LEMMA AtIsCell ==
    ASSUME NEW cells \in Seq(Cell), NEW n \in Nat
    PROVE  At(cells, n) \in Cell
<1>1. Zero \in Cell
  BY DEF Zero, Cell
<1>2. CASE n \in DOMAIN cells
  <2>1. cells[n] \in Cell
    BY <1>2
  <2>2. QED
    BY <2>1, <1>2 DEF At
<1>3. CASE n \notin DOMAIN cells
  BY <1>1, <1>3 DEF At
<1>4. QED
  BY <1>2, <1>3

(* The larger of two numbers, as FiniteSetsExt defines it.                 *)
LEMMA MaxOfTwo ==
    ASSUME NEW m \in Nat, NEW n \in Nat
    PROVE  Max({m, n}) \in Nat
<1>1. \E x \in {m, n} : \A y \in {m, n} : x >= y
  OBVIOUS
<1>2. Max({m, n}) \in {m, n}
  BY <1>1 DEF Max
<1>3. QED
  BY <1>2

(* Files one behind the other.                                             *)
LEMMA Joined ==
    ASSUME NEW s \in Seq(Cell), NEW t \in Seq(Cell)
    PROVE  /\ s \o t \in Seq(Cell) /\ Len(s \o t) = Len(s) + Len(t)
           /\ \A i \in 1 .. Len(s) : (s \o t)[i] = s[i]
           /\ \A i \in 1 .. Len(t) : (s \o t)[Len(s) + i] = t[i]
BY ConcatProperties

(* The cells that put_block writes, one by one.                            *)
LEMMA CellsAt ==
    ASSUME NEW size \in Sizes
    PROVE  /\ size \in Nat \ {0}
           /\ Cells(size) \in Seq(Cell) /\ Len(Cells(size)) = 3 * size + 3
           /\ Cells(size)[1] = <<"header", size>>
           /\ \A i \in 1 .. size : Cells(size)[i + 1] = <<"byte", i>>
           /\ Cells(size)[size + 2] = <<"low", Low[size]>>
           /\ Cells(size)[size + 3] = <<"high", size - Low[size]>>
           /\ \A i \in 1 .. 2 * size : Cells(size)[size + 3 + i] = Piece(i)
<1> DEFINE a == <<<<"header", size>>>>
           b == a \o Bytes(size)
           c == Serialized(size)
<1>1. size \in Nat \ {0} /\ Low[size] \in Nat /\ size - Low[size] \in Nat
  BY SizesAssumption
<1>2. /\ Bytes(size) \in Seq(Cell) /\ Len(Bytes(size)) = size
      /\ \A i \in 1 .. size : Bytes(size)[i] = <<"byte", i>>
  <2>1. \A n \in 1 .. size : <<"byte", n>> \in Cell
    BY <1>1 DEF Cell
  <2>2. QED
    BY <1>1, <2>1 DEF Bytes
<1>3. /\ c \in Seq(Cell) /\ Len(c) = 2 * size + 2
      /\ c[1] = <<"low", Low[size]>> /\ c[2] = <<"high", size - Low[size]>>
      /\ \A i \in 1 .. 2 * size : c[2 + i] = Piece(i)
  <2> DEFINE item(i) == IF i = 1 THEN <<"low", Low[size]>>
                        ELSE IF i = 2 THEN <<"high", size - Low[size]>>
                        ELSE Piece(i - 2)
             N == 2 * size + 2
  <2>1. N \in Nat /\ 1 \in 1 .. N /\ 2 \in 1 .. N
    BY <1>1
  <2>2. ASSUME NEW i \in 1 .. N PROVE item(i) \in Cell
    <3>1. i # 1 /\ i # 2 => i - 2 \in Nat
      BY <2>1
    <3>2. QED
      BY <1>1, <3>1 DEF Piece, Cell
  <2>3. c = [i \in 1 .. N |-> item(i)]
    BY DEF Serialized
  <2> HIDE DEF item, c
  <2>4. c \in [1 .. N -> Cell] /\ \A i \in 1 .. N : c[i] = item(i)
    BY <2>2, <2>3
  <2>5. c \in Seq(Cell) /\ Len(c) = N
    <3> HIDE DEF N
    <3>1. QED
      BY <2>1, <2>4
  <2>6. ASSUME NEW i \in 1 .. 2 * size PROVE c[2 + i] = Piece(i)
    <3>1. 2 + i \in 1 .. N /\ 2 + i # 1 /\ 2 + i # 2 /\ 2 + i - 2 = i
      BY <1>1
    <3>2. c[2 + i] = Piece(2 + i - 2)
      BY <2>4, <3>1 DEF item
    <3>3. QED
      BY <3>1, <3>2
  <2>7. QED
    BY <2>1, <2>4, <2>5, <2>6 DEF item, c
<1>4. a \in Seq(Cell) /\ Len(a) = 1 /\ a[1] = <<"header", size>>
  BY <1>1 DEF Cell
<1> HIDE DEF a, c
<1>5. /\ b \in Seq(Cell) /\ Len(b) = size + 1 /\ b[1] = <<"header", size>>
      /\ \A i \in 1 .. size : b[i + 1] = <<"byte", i>>
  <2>1. /\ b \in Seq(Cell) /\ Len(b) = Len(a) + Len(Bytes(size))
        /\ \A i \in 1 .. Len(a) : b[i] = a[i]
        /\ \A i \in 1 .. Len(Bytes(size)) : b[Len(a) + i] = Bytes(size)[i]
    BY <1>2, <1>4, Joined, Zenon
  <2> HIDE DEF b
  <2>2. b[1] = a[1] /\ \A i \in 1 .. size : b[1 + i] = Bytes(size)[i]
    BY <1>1, <1>2, <1>4, <2>1
  <2>3. \A i \in 1 .. size : 1 + i = i + 1
    BY <1>1
  <2>4. QED
    BY <1>1, <1>2, <1>4, <2>1, <2>2, <2>3
<1>6. Cells(size) = b \o c
  BY DEF Cells, c, b, a
<1> HIDE DEF b
<1>7. /\ Cells(size) \in Seq(Cell) /\ Len(Cells(size)) = 3 * size + 3
      /\ \A i \in 1 .. size + 1 : Cells(size)[i] = b[i]
      /\ \A i \in 1 .. 2 * size + 2 : Cells(size)[size + 1 + i] = c[i]
  <2> DEFINE e == b \o c
  <2>1. /\ e \in Seq(Cell) /\ Len(e) = Len(b) + Len(c)
        /\ \A i \in 1 .. Len(b) : e[i] = b[i]
        /\ \A i \in 1 .. Len(c) : e[Len(b) + i] = c[i]
    BY <1>3, <1>5, Joined, Zenon
  <2>2. Cells(size) = e
    BY <1>6
  <2> HIDE DEF e
  <2>3. QED
    BY <1>1, <1>3, <1>5, <2>1, <2>2
<1>8. Cells(size)[1] = <<"header", size>> /\ \A i \in 1 .. size : Cells(size)[i + 1] = <<"byte", i>>
  <2>1. 1 \in 1 .. size + 1 /\ \A i \in 1 .. size : i + 1 \in 1 .. size + 1
    BY <1>1
  <2>2. QED
    BY <1>5, <1>7, <2>1
<1>9. /\ Cells(size)[size + 2] = <<"low", Low[size]>>
      /\ Cells(size)[size + 3] = <<"high", size - Low[size]>>
  <2>1. /\ 1 \in 1 .. 2 * size + 2 /\ 2 \in 1 .. 2 * size + 2
        /\ size + 1 + 1 = size + 2 /\ size + 1 + 2 = size + 3
    BY <1>1
  <2>2. QED
    BY <1>3, <1>7, <2>1
<1>10. ASSUME NEW i \in 1 .. 2 * size PROVE Cells(size)[size + 3 + i] = Piece(i)
  <2>1. 2 + i \in 1 .. 2 * size + 2 /\ size + 1 + (2 + i) = size + 3 + i
    BY <1>1
  <2>2. QED
    BY <1>3, <1>7, <2>1
<1>11. QED
  BY <1>1, <1>7, <1>8, <1>9, <1>10

(* Writing a cell leaves cells.                                            *)
LEMMA WrittenAreCells ==
    ASSUME NEW cells \in Seq(Cell), NEW n \in Nat \ {0}, NEW cell \in Cell
    PROVE  WriteAt(cells, n, cell) \in Seq(Cell)
<1> DEFINE M == Max({n, Len(cells)})
<1>1. M \in Nat
  BY MaxOfTwo
<1>2. ASSUME NEW i \in 1 .. M PROVE (IF i = n THEN cell ELSE At(cells, i)) \in Cell
  BY <1>1, AtIsCell
<1>3. WriteAt(cells, n, cell) = [i \in 1 .. M |-> IF i = n THEN cell ELSE At(cells, i)]
  BY DEF WriteAt
<1>4. HIDE DEF M
<1>5. [i \in 1 .. M |-> IF i = n THEN cell ELSE At(cells, i)] \in Seq(Cell)
  BY <1>1, <1>2
<1>6. QED
  BY <1>3, <1>5

(* And reading gives cells.                                                *)
LEMMA ReadAreCells ==
    ASSUME NEW read \in Seq(Cell), NEW cells \in Seq(Cell), NEW from \in Nat, NEW n \in Nat
    PROVE  read \o [i \in 1 .. n |-> At(cells, from + i)] \in Seq(Cell)
<1>1. \A i \in 1 .. n : At(cells, from + i) \in Cell
  BY AtIsCell
<1>2. [i \in 1 .. n |-> At(cells, from + i)] \in Seq(Cell)
  BY <1>1
<1>3. QED
  BY <1>2, ConcatProperties

-----------------------------------------------------------------------------
(* What a process is in the middle of, by the name of the call.            *)

PutCalls == [call : {"put"}, key : Keys, size : Sizes, next : Nat \ {0}]
GetCalls == [call : {"get"}, key : Keys, size : Sizes, part : 1 .. 4, read : Seq(Cell),
             undisturbed : BOOLEAN, whole : Sizes \cup {0}]
SweepCalls ==
    [call : {"sweep"}, targets : SUBSET Keys, todo : SUBSET Keys, watched : SUBSET Keys]

LEMMA CallsByName ==
    ASSUME NEW d \in Calls
    PROVE  /\ d.call \in {"none", "put", "get", "sweep"}
           /\ d.call = "none" => d = Idle
           /\ d.call = "put" => d \in PutCalls
           /\ d.call = "get" => d \in GetCalls
           /\ d.call = "sweep" => d \in SweepCalls
<1>1. /\ Idle.call = "none"
      /\ \A c \in PutCalls : c.call = "put"
      /\ \A c \in GetCalls : c.call = "get"
      /\ \A c \in SweepCalls : c.call = "sweep"
  BY DEF Idle, PutCalls, GetCalls, SweepCalls
<1>2. d = Idle \/ d \in PutCalls \/ d \in GetCalls \/ d \in SweepCalls
  BY DEF Calls, PutCalls, GetCalls, SweepCalls
<1>3. QED
  BY <1>1, <1>2

LEMMA CallsAreCalls ==
    /\ Idle \in Calls
    /\ PutCalls \subseteq Calls
    /\ GetCalls \subseteq Calls
    /\ SweepCalls \subseteq Calls
BY DEF Calls, PutCalls, GetCalls, SweepCalls

(* A read goes on to the next part.                                        *)
LEMMA ReadAdvances ==
    ASSUME NEW d \in GetCalls, NEW part \in 1 .. 4, NEW read \in Seq(Cell)
    PROVE  [d EXCEPT !.part = part, !.read = read] \in GetCalls
BY DEF GetCalls

(* An entry that is open is a file.                                        *)
LEMMA OpenIsFile ==
    ASSUME TypeOK, OpenInv, NEW p \in Processes, doing[p].call \in {"put", "get"}
    PROVE  doing[p].key \in Keys /\ entry[doing[p].key] \in Seq(Cell)
<1>1. doing[p] \in PutCalls \/ doing[p] \in GetCalls
  BY CallsByName DEF TypeOK
<1>2. doing[p].key \in Keys
  BY <1>1 DEF PutCalls, GetCalls
<1>3. QED
  BY <1>2 DEF TypeOK, OpenInv

-----------------------------------------------------------------------------
(* Every step keeps the types.                                             *)
LEMMA TypeStep == TypeOK /\ OpenInv /\ [Next]_vars => TypeOK'
<1> SUFFICES ASSUME TypeOK /\ OpenInv, [Next]_vars PROVE TypeOK'
  OBVIOUS
<1>1. ASSUME Open PROVE TypeOK'
  BY <1>1 DEF Open, TypeOK, NoResult
<1>2. ASSUME NEW p \in Processes, NEW k \in Keys, NEW size \in Sizes, PutOpen(p, k, size)
      PROVE  TypeOK'
  <2>1. doing' \in [Processes -> Calls]
    <3>1. [call |-> "put", key |-> k, size |-> size, next |-> 1] \in Calls
      BY CallsAreCalls DEF PutCalls
    <3>2. ASSUME NEW q \in Processes, doing[q].call = "get"
          PROVE  [doing[q] EXCEPT !.undisturbed = FALSE] \in Calls
      <4>1. doing[q] \in GetCalls
        BY <3>2, CallsByName DEF TypeOK
      <4>2. [doing[q] EXCEPT !.undisturbed = FALSE] \in GetCalls
        BY <4>1 DEF GetCalls
      <4>3. QED
        BY <4>2, CallsAreCalls
    <3>3. ASSUME NEW q \in Processes, doing[q].call = "sweep"
          PROVE  [doing[q] EXCEPT !.watched = @ \ {k}] \in Calls
      <4>1. doing[q] \in SweepCalls
        BY <3>3, CallsByName DEF TypeOK
      <4>2. [doing[q] EXCEPT !.watched = @ \ {k}] \in SweepCalls
        BY <4>1 DEF SweepCalls
      <4>3. QED
        BY <4>2, CallsAreCalls
    <3>4. \A q \in Processes : doing[q] \in Calls
      BY DEF TypeOK
    <3>5. QED
      BY <1>2, <3>1, <3>2, <3>3, <3>4 DEF PutOpen
  <2>2. entry' \in [Keys -> Seq(Cell) \cup {None}]
    <3>1. << >> \in Seq(Cell)
      BY EmptySeq
    <3>2. QED
      BY <1>2, <3>1 DEF PutOpen, TypeOK
  <2>3. /\ directory' \in BOOLEAN
        /\ puts' \in Nat
        /\ gone' \subseteq Keys
        /\ result'.of \in {"none", "put", "disassembly", "sweep"}
    BY <1>2 DEF PutOpen, TypeOK, NoResult
  <2>4. writers' \in [Keys -> SUBSET Processes] /\ whole' \in [Keys -> Sizes \cup {0}]
    BY <1>2 DEF PutOpen, TypeOK
  <2>5. QED
    BY <2>1, <2>2, <2>3, <2>4 DEF TypeOK
<1>3. ASSUME NEW p \in Processes, PutWrite(p) PROVE TypeOK'
  <2> DEFINE d == doing[p]
  <2>1. d.call = "put" /\ d \in PutCalls
    BY <1>3, CallsByName DEF PutWrite, TypeOK
  <2>2. d.key \in Keys /\ d.size \in Sizes /\ d.next \in Nat \ {0}
    BY <2>1 DEF PutCalls
  <2>3. entry[d.key] \in Seq(Cell)
    BY <2>1, OpenIsFile
  <2>4. Cells(d.size)[d.next] \in Cell
    BY <1>3, <2>2, CellsAt, ElementOfSeq DEF PutWrite
  <2>5. WriteAt(entry[d.key], d.next, Cells(d.size)[d.next]) \in Seq(Cell)
    BY <2>2, <2>3, <2>4, WrittenAreCells
  <2>6. entry' \in [Keys -> Seq(Cell) \cup {None}]
    BY <1>3, <2>2, <2>5 DEF PutWrite, TypeOK
  <2>7. [d EXCEPT !.next = @ + 1] \in PutCalls
    BY <2>1, <2>2 DEF PutCalls
  <2>8. doing' \in [Processes -> Calls]
    BY <1>3, <2>7, CallsAreCalls DEF PutWrite, GoOn, TypeOK
  <2>9. QED
    BY <1>3, <2>6, <2>8 DEF PutWrite, GoOn, NoResult, TypeOK
<1>4. ASSUME NEW p \in Processes, PutReturn(p) PROVE TypeOK'
  <2>1. doing[p] \in PutCalls
    BY <1>4, CallsByName DEF PutReturn, TypeOK
  <2>2. doing[p].size \in Sizes
    BY <2>1 DEF PutCalls
  <2>3. whole' \in [Keys -> Sizes \cup {0}]
    BY <1>4, <2>2 DEF PutReturn, TypeOK
  <2>4. QED
    BY <1>4, <2>3, CallsAreCalls DEF PutReturn, Return, TypeOK
<1>5. ASSUME NEW p \in Processes, PutCutShort(p) PROVE TypeOK'
  BY <1>5, CallsAreCalls DEF PutCutShort, Return, TypeOK
<1>6. ASSUME NEW p \in Processes, NEW k \in Keys, NEW size \in Sizes, GetOpen(p, k, size)
      PROVE  TypeOK'
  <2> DEFINE d == [call |-> "get", key |-> k, size |-> size, part |-> 1, read |-> << >>,
                   undisturbed |-> Cardinality(writers[k]) <= 1, whole |-> whole[k]]
  <2>1. whole[k] \in Sizes \cup {0} /\ << >> \in Seq(Cell)
    BY EmptySeq DEF TypeOK
  <2>2. (Cardinality(writers[k]) <= 1) \in BOOLEAN
    OBVIOUS
  <2>3. d \in GetCalls
    BY <2>1, <2>2 DEF GetCalls
  <2>4. doing' = [doing EXCEPT ![p] = Idle] \/ doing' = [doing EXCEPT ![p] = d]
    BY <1>6 DEF GetOpen, Answer, Return, GoOn
  <2>5. doing' \in [Processes -> Calls]
    BY <2>3, <2>4, CallsAreCalls DEF TypeOK
  <2>6. result'.of \in {"none", "put", "disassembly", "sweep"}
    BY <1>6 DEF GetOpen, Answer, Return, GoOn, NoResult
  <2>7. QED
    BY <1>6, <2>5, <2>6 DEF GetOpen, TypeOK
<1>7. ASSUME NEW p \in Processes, GetRead(p) PROVE TypeOK'
  <2> DEFINE d == doing[p]
             from == Len(d.read)
             header == IF from = 0 THEN At(entry[d.key], 1) ELSE d.read[1]
             n == Lengths(header[2])[d.part]
  <2>1. d.call = "get" /\ d.part <= 3 /\ d \in GetCalls
    BY <1>7, CallsByName DEF GetRead, TypeOK
  <2>2. d.part \in 1 .. 3 /\ d.read \in Seq(Cell) /\ d.key \in Keys
    BY <2>1 DEF GetCalls
  <2>3. entry[d.key] \in Seq(Cell)
    BY <2>1, OpenIsFile
  <2>4. header \in Cell
    <3>1. CASE from = 0
      BY <2>3, <3>1, AtIsCell
    <3>2. CASE from # 0
      <4>1. 1 \in 1 .. Len(d.read)
        BY <2>2, <3>2, LenProperties
      <4>2. QED
        BY <2>2, <3>2, <4>1, ElementOfSeq
    <3>3. QED
      BY <3>1, <3>2
  <2>5. header[2] \in Nat
    BY <2>4 DEF Cell
  <2>6. n \in Nat
    BY <2>2, <2>5 DEF Lengths
  <2>7. from \in Nat
    BY <2>2, LenProperties
  <2>8. d.read \o [i \in 1 .. n |-> At(entry[d.key], from + i)] \in Seq(Cell)
    BY <2>2, <2>3, <2>6, <2>7, ReadAreCells
  <2>9. ASSUME NEW read \in Seq(Cell)
        PROVE  [d EXCEPT !.part = @ + 1, !.read = read] \in Calls
    <3>1. d.part + 1 \in 1 .. 4
      BY <2>2
    <3>2. [d EXCEPT !.part = d.part + 1, !.read = read] \in GetCalls
      BY <2>1, <3>1, ReadAdvances
    <3>3. QED
      BY <3>2, CallsAreCalls
  <2>10. doing' \in [Processes -> Calls]
    BY <1>7, <2>8, <2>9 DEF GetRead, GoOn, TypeOK
  <2>11. QED
    BY <1>7, <2>10 DEF GetRead, GoOn, NoResult, TypeOK
<1>8. ASSUME NEW p \in Processes, GetNoHeader(p) PROVE TypeOK'
  BY <1>8, CallsAreCalls DEF GetNoHeader, Answer, Return, TypeOK
<1>9. ASSUME NEW p \in Processes, GetReturn(p) PROVE TypeOK'
  BY <1>9, CallsAreCalls DEF GetReturn, Answer, Return, TypeOK
<1>10. ASSUME NEW p \in Processes, NEW targets \in Targets, SweepStart(p, targets)
       PROVE  TypeOK'
  <2>1. targets \subseteq Keys
    BY DEF Targets
  <2>2. ASSUME NEW todo \in SUBSET Keys, NEW watched \in SUBSET Keys
        PROVE  [call |-> "sweep", targets |-> targets, todo |-> todo, watched |-> watched]
                 \in Calls
    BY <2>1, CallsAreCalls DEF SweepCalls
  <2>3. doing' \in [Processes -> Calls]
    BY <1>10, <2>1, <2>2 DEF SweepStart, GoOn, TypeOK
  <2>4. QED
    BY <1>10, <2>3 DEF SweepStart, GoOn, NoResult, TypeOK
<1>11. ASSUME NEW p \in Processes, NEW k \in Keys, SweepEntry(p, k) PROVE TypeOK'
  <2>1. doing[p] \in SweepCalls
    BY <1>11, CallsByName DEF SweepEntry, TypeOK
  <2>2. [doing[p] EXCEPT !.todo = @ \ {k}] \in SweepCalls
    BY <2>1 DEF SweepCalls
  <2>3. doing' \in [Processes -> Calls]
    BY <1>11, <2>2, CallsAreCalls DEF SweepEntry, GoOn, TypeOK
  <2>4. QED
    BY <1>11, <2>3 DEF SweepEntry, GoOn, NoResult, TypeOK
<1>12. ASSUME NEW p \in Processes, NEW k \in Keys, SweepThrows(p, k) PROVE TypeOK'
  BY <1>12, CallsAreCalls DEF SweepThrows, Return, TypeOK
<1>13. ASSUME NEW p \in Processes, SweepReturn(p) PROVE TypeOK'
  <2>1. doing[p] \in SweepCalls
    BY <1>13, CallsByName DEF SweepReturn, TypeOK
  <2>2. gone' \subseteq Keys
    BY <1>13, <2>1 DEF SweepReturn, SweepCalls, TypeOK
  <2>3. QED
    BY <1>13, <2>2, CallsAreCalls DEF SweepReturn, Return, TypeOK
<1>14. ASSUME NEW p \in Processes, Crash(p) PROVE TypeOK'
  BY <1>14, CallsAreCalls DEF Crash, Return, NoResult, TypeOK
<1>15. ASSUME UNCHANGED vars PROVE TypeOK'
  BY <1>15 DEF vars, TypeOK
<1>16. QED
  BY <1>1, <1>2, <1>3, <1>4, <1>5, <1>6, <1>7, <1>8, <1>9, <1>10, <1>11, <1>12, <1>13,
     <1>14, <1>15 DEF Next

-----------------------------------------------------------------------------
(* The entry of a call that has it open is there: the walks remove none    *)
(* that is open, and writing leaves a file.                                *)
LEMMA OpenStep == TypeOK /\ OpenInv /\ [Next]_vars => OpenInv'
<1> SUFFICES ASSUME TypeOK, OpenInv, [Next]_vars,
                    NEW q \in Processes, (doing[q].call \in {"get", "put"})'
             PROVE  entry'[doing'[q].key] # None
  BY DEF OpenInv
<1> USE DEF TypeOK
<1>1. ASSUME Open PROVE entry'[doing'[q].key] # None
  BY <1>1 DEF Open, OpenInv
<1>2. ASSUME NEW p \in Processes, NEW k \in Keys, NEW size \in Sizes, PutOpen(p, k, size)
      PROVE  entry'[doing'[q].key] # None
  <2>1. << >> # None
    BY DEF None
  <2>2. CASE q = p
    <3>1. doing'[q].key = k
      BY <1>2, <2>2 DEF PutOpen
    <3>2. QED
      BY <1>2, <2>1, <3>1 DEF PutOpen
  <2>3. CASE q # p
    <3>1. doing'[q].call = doing[q].call /\ doing'[q].key = doing[q].key
      <4>1. doing[q].call \in {"get", "put"} /\ doing[q] \in Calls
        <5>1. CASE doing[q].call = "sweep"
          <6>1. doing[q] \in SweepCalls
            BY <5>1, CallsByName
          <6>2. doing'[q].call = "sweep"
            BY <1>2, <2>3, <5>1, <6>1 DEF PutOpen, SweepCalls
          <6>3. QED
            BY <6>2
        <5>2. CASE doing[q].call = "none"
          BY <1>2, <2>3, <5>2 DEF PutOpen
        <5>3. QED
          BY <5>1, <5>2, CallsByName
      <4>2. CASE doing[q].call = "get"
        <5>1. doing[q] \in GetCalls
          BY <4>2, CallsByName
        <5>2. QED
          BY <1>2, <2>3, <4>2, <5>1 DEF PutOpen, GetCalls
      <4>3. CASE doing[q].call = "put"
        BY <1>2, <2>3, <4>3 DEF PutOpen
      <4>4. QED
        BY <4>1, <4>2, <4>3
    <3>2. entry[doing[q].key] # None /\ doing[q].key \in Keys
      BY <3>1, OpenIsFile DEF OpenInv
    <3>3. QED
      BY <1>2, <2>1, <3>1, <3>2 DEF PutOpen
  <2>4. QED
    BY <2>2, <2>3
<1>3. ASSUME NEW p \in Processes, PutWrite(p) PROVE entry'[doing'[q].key] # None
  <2> DEFINE d == doing[p]
  <2>1. d.call = "put" /\ d \in PutCalls
    BY <1>3, CallsByName DEF PutWrite
  <2>2. d.key \in Keys /\ d.size \in Sizes /\ d.next \in Nat \ {0}
    BY <2>1 DEF PutCalls
  <2>3. entry[d.key] \in Seq(Cell)
    BY <2>1, OpenIsFile
  <2>4. Cells(d.size)[d.next] \in Cell
    BY <1>3, <2>2, CellsAt, ElementOfSeq DEF PutWrite
  <2>5. WriteAt(entry[d.key], d.next, Cells(d.size)[d.next]) # None
    <3>1. WriteAt(entry[d.key], d.next, Cells(d.size)[d.next]) \in Seq(Cell)
      BY <2>2, <2>3, <2>4, WrittenAreCells
    <3>2. QED
      BY <3>1, NoneIsNoFile
  <2>6. doing'[q].call = doing[q].call /\ doing'[q].key = doing[q].key
    BY <1>3, <2>1 DEF PutWrite, GoOn, PutCalls
  <2>7. entry[doing[q].key] # None /\ doing[q].key \in Keys
    BY <2>6, OpenIsFile DEF OpenInv
  <2>8. QED
    BY <1>3, <2>5, <2>6, <2>7 DEF PutWrite
<1>4. ASSUME NEW p \in Processes, UNCHANGED entry, doing' = [doing EXCEPT ![p] = Idle]
      PROVE  entry'[doing'[q].key] # None
  <2>1. q # p
    BY <1>4 DEF Idle
  <2>2. QED
    BY <1>4, <2>1 DEF OpenInv
<1>5. ASSUME NEW p \in Processes, NEW k \in Keys, NEW size \in Sizes, GetOpen(p, k, size)
      PROVE  entry'[doing'[q].key] # None
  <2>1. CASE entry[k] = None
    <3>1. UNCHANGED entry /\ doing' = [doing EXCEPT ![p] = Idle]
      BY <1>5, <2>1 DEF GetOpen, Answer, Return
    <3>2. QED
      BY <1>4, <3>1
  <2>2. CASE entry[k] # None
    BY <1>5, <2>2 DEF GetOpen, GoOn, OpenInv
  <2>3. QED
    BY <2>1, <2>2
<1>6. ASSUME NEW p \in Processes, GetRead(p) PROVE entry'[doing'[q].key] # None
  <2>1. doing[p] \in GetCalls
    BY <1>6, CallsByName DEF GetRead
  <2>2. ASSUME NEW part, NEW read
        PROVE  /\ [doing[p] EXCEPT !.part = part, !.read = read].call = doing[p].call
               /\ [doing[p] EXCEPT !.part = part, !.read = read].key = doing[p].key
    BY <2>1 DEF GetCalls
  <2>3. doing'[q].call = doing[q].call /\ doing'[q].key = doing[q].key
    BY <1>6, <2>2 DEF GetRead, GoOn
  <2>4. QED
    BY <1>6, <2>3 DEF GetRead, OpenInv
<1>7. ASSUME NEW p \in Processes, NEW targets \in Targets, SweepStart(p, targets)
      PROVE  entry'[doing'[q].key] # None
  <2>1. q # p
    BY <1>7 DEF SweepStart, GoOn
  <2>2. QED
    BY <1>7, <2>1 DEF SweepStart, GoOn, OpenInv
<1>8. ASSUME NEW p \in Processes, NEW k \in Keys, SweepEntry(p, k)
      PROVE  entry'[doing'[q].key] # None
  <2>1. doing[p] \in SweepCalls
    BY <1>8, CallsByName DEF SweepEntry
  <2>2. q # p
    BY <1>8, <2>1 DEF SweepEntry, GoOn, SweepCalls
  <2>3. doing'[q] = doing[q] /\ entry[doing[q].key] # None
    BY <1>8, <2>2 DEF SweepEntry, GoOn, OpenInv
  <2>4. doing[q].key # k
    BY <1>8, <2>3 DEF SweepEntry, IsOpen
  <2>5. QED
    BY <1>8, <2>3, <2>4 DEF SweepEntry
<1>9. ASSUME UNCHANGED vars PROVE entry'[doing'[q].key] # None
  BY <1>9 DEF vars, OpenInv
<1>10. ASSUME NEW p \in Processes,
              PutReturn(p) \/ PutCutShort(p) \/ GetNoHeader(p) \/ GetReturn(p)
                \/ SweepReturn(p) \/ Crash(p) \/ \E k \in Keys : SweepThrows(p, k)
       PROVE  UNCHANGED entry /\ doing' = [doing EXCEPT ![p] = Idle]
  BY <1>10 DEF PutReturn, PutCutShort, GetNoHeader, GetReturn, SweepReturn, Crash,
               SweepThrows, Answer, Return
<1>11. QED
  BY <1>1, <1>2, <1>3, <1>4, <1>5, <1>6, <1>7, <1>8, <1>9, <1>10 DEF Next

-----------------------------------------------------------------------------
(* Nobody is writing, now, what a walk watches or what is gone.            *)

(* Only put_block writes, and from PutOpen on.                             *)
LEMMA WritingStep ==
    ASSUME TypeOK, [Next]_vars, NEW k \in Keys, Writing(k)', ~Writing(k)
    PROVE  \E p \in Processes, size \in Sizes : PutOpen(p, k, size)
<1> USE DEF TypeOK
<1> PICK q \in Processes : (doing[q].call = "put" /\ doing[q].key = k)'
  BY DEF Writing
<1> SUFFICES ASSUME \A p \in Processes, size \in Sizes : ~PutOpen(p, k, size) PROVE FALSE
  OBVIOUS
<1> ~(doing[q].call = "put" /\ doing[q].key = k)
  BY DEF Writing
<1>1. ASSUME NEW p \in Processes, NEW l \in Keys, NEW size \in Sizes, PutOpen(p, l, size)
      PROVE  FALSE
  <2>1. l # k
    BY <1>1
  <2>2. q # p
    BY <1>1, <2>1 DEF PutOpen
  <2>3. CASE doing[q].call = "get"
    <3>1. doing[q] \in GetCalls
      BY <2>3, CallsByName
    <3>2. doing'[q].call = "get"
      BY <1>1, <2>2, <2>3, <3>1 DEF PutOpen, GetCalls
    <3>3. QED
      BY <3>2
  <2>4. CASE doing[q].call = "sweep"
    <3>1. doing[q] \in SweepCalls
      BY <2>4, CallsByName
    <3>2. doing'[q].call = "sweep"
      BY <1>1, <2>2, <2>4, <3>1 DEF PutOpen, SweepCalls
    <3>3. QED
      BY <3>2
  <2>5. CASE doing[q].call \notin {"get", "sweep"}
    BY <1>1, <2>2, <2>5 DEF PutOpen
  <2>6. QED
    BY <2>3, <2>4, <2>5
<1>2. ASSUME NEW p \in Processes, PutWrite(p) PROVE FALSE
  <2>1. doing[p] \in PutCalls
    BY <1>2, CallsByName DEF PutWrite
  <2>2. doing'[q].call = doing[q].call /\ doing'[q].key = doing[q].key
    BY <1>2, <2>1 DEF PutWrite, GoOn, PutCalls
  <2>3. QED
    BY <2>2
<1>3. ASSUME NEW p \in Processes, doing' = [doing EXCEPT ![p] = Idle] PROVE FALSE
  BY <1>3 DEF Idle
<1>4. ASSUME NEW p \in Processes, NEW l \in Keys, NEW size \in Sizes, GetOpen(p, l, size)
      PROVE  FALSE
  BY <1>3, <1>4 DEF GetOpen, GoOn, Answer, Return
<1>5. ASSUME NEW p \in Processes, GetRead(p) PROVE FALSE
  <2>1. doing[p] \in GetCalls
    BY <1>5, CallsByName DEF GetRead
  <2>2. ASSUME NEW part, NEW read
        PROVE  [doing[p] EXCEPT !.part = part, !.read = read].call = "get"
    BY <2>1 DEF GetCalls
  <2>3. QED
    BY <1>5, <2>2 DEF GetRead, GoOn
<1>6. ASSUME NEW p \in Processes, NEW targets \in Targets, SweepStart(p, targets) PROVE FALSE
  BY <1>6 DEF SweepStart, GoOn
<1>7. ASSUME NEW p \in Processes, NEW l \in Keys, SweepEntry(p, l) PROVE FALSE
  <2>1. doing[p] \in SweepCalls
    BY <1>7, CallsByName DEF SweepEntry
  <2>2. [doing[p] EXCEPT !.todo = @ \ {l}].call = "sweep"
    BY <2>1 DEF SweepCalls
  <2>3. QED
    BY <1>7, <2>2 DEF SweepEntry, GoOn
<1>8. ASSUME NEW p \in Processes,
             PutReturn(p) \/ PutCutShort(p) \/ GetNoHeader(p) \/ GetReturn(p)
               \/ SweepReturn(p) \/ Crash(p) \/ \E l \in Keys : SweepThrows(p, l)
      PROVE  FALSE
  BY <1>3, <1>8 DEF PutReturn, PutCutShort, GetNoHeader, GetReturn, SweepReturn, Crash,
                    SweepThrows, Answer, Return
<1>9. ASSUME UNCHANGED doing PROVE FALSE
  BY <1>9
<1>10. QED
  BY <1>1, <1>2, <1>4, <1>5, <1>6, <1>7, <1>8, <1>9 DEF Next, Open, vars

(* An entry that is not there and that nobody writes stays so, unless it   *)
(* is put.                                                                 *)
LEMMA AbsentStep ==
    ASSUME TypeOK, [Next]_vars, NEW k \in Keys, ~Writing(k), entry[k] = None,
           \A p \in Processes, size \in Sizes : ~PutOpen(p, k, size)
    PROVE  entry'[k] = None
<1> USE DEF TypeOK
<1>1. ASSUME NEW p \in Processes, NEW l \in Keys, NEW size \in Sizes, PutOpen(p, l, size)
      PROVE  entry'[k] = None
  <2>1. l # k
    BY <1>1
  <2>2. QED
    BY <1>1, <2>1 DEF PutOpen
<1>2. ASSUME NEW p \in Processes, PutWrite(p) PROVE entry'[k] = None
  <2>1. doing[p].key # k
    BY <1>2 DEF PutWrite, Writing
  <2>2. QED
    BY <1>2, <2>1 DEF PutWrite
<1>3. ASSUME NEW p \in Processes, NEW l \in Keys, SweepEntry(p, l) PROVE entry'[k] = None
  BY <1>3 DEF SweepEntry
<1>4. ASSUME UNCHANGED entry PROVE entry'[k] = None
  BY <1>4
<1>5. QED
  BY <1>1, <1>2, <1>3, <1>4 DEF Next, vars, Open, PutReturn, PutCutShort, GetOpen, GetRead,
     GetNoHeader, GetReturn, SweepStart, SweepThrows, SweepReturn, Crash

(* What a walk in progress watches was watched before, or the walk begins; *)
(* it is not put in this step, and leaves the list of what is to be done   *)
(* only when its entry is removed.                                         *)
LEMMA WalkStep ==
    ASSUME TypeOK, [Next]_vars, NEW q \in Processes, (doing[q].call = "sweep")',
           NEW k \in Keys, k \in doing'[q].watched
    PROVE  \/ \E targets \in Targets : SweepStart(q, targets)
           \/ /\ doing[q].call = "sweep"
              /\ k \in doing[q].watched
              /\ \A p \in Processes, size \in Sizes : ~PutOpen(p, k, size)
              /\ k \in doing[q].todo /\ k \notin doing'[q].todo => entry'[k] = None
<1> USE DEF TypeOK
<1> DEFINE Goal ==
       \/ \E targets \in Targets : SweepStart(q, targets)
       \/ /\ doing[q].call = "sweep"
          /\ k \in doing[q].watched
          /\ \A p \in Processes, size \in Sizes : ~PutOpen(p, k, size)
          /\ k \in doing[q].todo /\ k \notin doing'[q].todo => entry'[k] = None
<1>1. ASSUME NEW p \in Processes, NEW l \in Keys, NEW size \in Sizes, PutOpen(p, l, size)
      PROVE  Goal
  <2>1. q # p
    BY <1>1 DEF PutOpen
  <2>2. doing[q].call = "sweep"
    <3>1. CASE doing[q].call = "get"
      <4>1. doing[q] \in GetCalls
        BY <3>1, CallsByName
      <4>2. doing'[q].call = "get"
        BY <1>1, <2>1, <3>1, <4>1 DEF PutOpen, GetCalls
      <4>3. QED
        BY <4>2
    <3>2. CASE doing[q].call \notin {"get", "sweep"}
      BY <1>1, <2>1, <3>2 DEF PutOpen
    <3>3. QED
      BY <3>1, <3>2
  <2>3. doing[q] \in SweepCalls
    BY <2>2, CallsByName
  <2>4. doing'[q] = [doing[q] EXCEPT !.watched = @ \ {l}]
    BY <1>1, <2>1, <2>2 DEF PutOpen
  <2>5. doing'[q].watched = doing[q].watched \ {l} /\ doing'[q].todo = doing[q].todo
    BY <2>3, <2>4 DEF SweepCalls
  <2>6. ASSUME NEW r \in Processes, NEW s \in Sizes, PutOpen(r, k, s) PROVE FALSE
    <3>1. r # q
      BY <2>2, <2>6 DEF PutOpen, Idle
    <3>2. doing'[q] = [doing[q] EXCEPT !.watched = @ \ {k}]
      BY <2>2, <2>6, <3>1 DEF PutOpen
    <3>3. k \notin doing'[q].watched
      BY <2>3, <3>2 DEF SweepCalls
    <3>4. QED
      BY <3>3
  <2>7. QED
    BY <2>2, <2>5, <2>6
<1>2. ASSUME UNCHANGED doing PROVE Goal
  <2>1. ASSUME NEW r \in Processes, NEW s \in Sizes, PutOpen(r, k, s) PROVE FALSE
    BY <1>2, <2>1 DEF PutOpen, Idle
  <2>2. QED
    BY <1>2, <2>1
<1>3. ASSUME NEW p \in Processes, q # p, NEW call, doing' = [doing EXCEPT ![p] = call],
             call = Idle \/ call.call # "put" \/ doing[p] # Idle
      PROVE  Goal
  <2>1. doing'[q] = doing[q]
    BY <1>3
  <2>2. ASSUME NEW r \in Processes, NEW s \in Sizes, PutOpen(r, k, s) PROVE FALSE
    <3>1. doing[q].call = "sweep" /\ doing[q] \in SweepCalls
      BY <2>1, CallsByName
    <3>2. r # q
      BY <2>2, <3>1 DEF PutOpen, Idle
    <3>3. doing'[q] = [doing[q] EXCEPT !.watched = @ \ {k}]
      BY <2>2, <3>1, <3>2 DEF PutOpen
    <3>4. k \notin doing'[q].watched
      BY <3>1, <3>3 DEF SweepCalls
    <3>5. QED
      BY <3>4
  <2>3. QED
    BY <2>1, <2>2
<1>4. ASSUME NEW p \in Processes, PutWrite(p) PROVE Goal
  <2>1. doing[p] \in PutCalls /\ doing[p] # Idle
    BY <1>4, CallsByName DEF PutWrite, Idle
  <2>2. [doing[p] EXCEPT !.next = @ + 1].call = "put"
    BY <2>1 DEF PutCalls
  <2>3. q # p
    BY <1>4, <2>2 DEF PutWrite, GoOn
  <2>4. QED
    BY <1>3, <1>4, <2>1, <2>3 DEF PutWrite, GoOn
<1>5. ASSUME NEW p \in Processes, doing' = [doing EXCEPT ![p] = Idle] PROVE Goal
  <2>1. q # p
    BY <1>5 DEF Idle
  <2>2. QED
    BY <1>3, <1>5, <2>1
<1>6. ASSUME NEW p \in Processes, NEW l \in Keys, NEW size \in Sizes, GetOpen(p, l, size)
      PROVE  Goal
  <2>1. CASE entry[l] = None
    BY <1>5, <1>6, <2>1 DEF GetOpen, Answer, Return
  <2>2. CASE entry[l] # None
    <3>1. q # p
      BY <1>6, <2>2 DEF GetOpen, GoOn
    <3>2. QED
      BY <1>3, <1>6, <2>2, <3>1 DEF GetOpen, GoOn
  <2>3. QED
    BY <2>1, <2>2
<1>7. ASSUME NEW p \in Processes, GetRead(p) PROVE Goal
  <2>1. doing[p] \in GetCalls /\ doing[p] # Idle
    BY <1>7, CallsByName DEF GetRead, Idle
  <2>2. ASSUME NEW part, NEW read
        PROVE  [doing[p] EXCEPT !.part = part, !.read = read].call = "get"
    BY <2>1 DEF GetCalls
  <2>3. q # p
    BY <1>7, <2>2 DEF GetRead, GoOn
  <2>4. QED
    BY <1>3, <1>7, <2>1, <2>3 DEF GetRead, GoOn
<1>8. ASSUME NEW p \in Processes, NEW targets \in Targets, SweepStart(p, targets) PROVE Goal
  <2>1. CASE q = p
    BY <1>8, <2>1
  <2>2. CASE q # p
    BY <1>3, <1>8, <2>2 DEF SweepStart, GoOn
  <2>3. QED
    BY <2>1, <2>2
<1>9. ASSUME NEW p \in Processes, NEW l \in Keys, SweepEntry(p, l) PROVE Goal
  <2>1. doing[p] \in SweepCalls /\ doing[p] # Idle
    BY <1>9, CallsByName DEF SweepEntry, Idle
  <2>2. CASE q # p
    BY <1>3, <1>9, <2>1, <2>2 DEF SweepEntry, GoOn
  <2>3. CASE q = p
    <3>1. doing'[q] = [doing[q] EXCEPT !.todo = @ \ {l}]
      BY <1>9, <2>3 DEF SweepEntry, GoOn
    <3>2. doing'[q].watched = doing[q].watched /\ doing'[q].todo = doing[q].todo \ {l}
      BY <2>1, <2>3, <3>1 DEF SweepCalls
    <3>3. entry'[l] = None
      BY <1>9 DEF SweepEntry
    <3>4. ASSUME NEW r \in Processes, NEW s \in Sizes, PutOpen(r, k, s) PROVE FALSE
      <4>1. r # q /\ doing[q].call = "sweep"
        BY <1>9, <2>1, <2>3, <3>4 DEF PutOpen, SweepEntry
      <4>2. doing'[q] = [doing[q] EXCEPT !.watched = @ \ {k}]
        BY <3>4, <4>1 DEF PutOpen
      <4>3. k \notin doing'[q].watched
        BY <2>1, <2>3, <4>2 DEF SweepCalls
      <4>4. QED
        BY <4>3
    <3>5. QED
      BY <1>9, <2>3, <3>2, <3>3, <3>4 DEF SweepEntry
  <2>4. QED
    BY <2>2, <2>3
<1>10. ASSUME NEW p \in Processes,
              PutReturn(p) \/ PutCutShort(p) \/ GetNoHeader(p) \/ GetReturn(p)
                \/ SweepReturn(p) \/ Crash(p) \/ \E l \in Keys : SweepThrows(p, l)
       PROVE  Goal
  BY <1>5, <1>10 DEF PutReturn, PutCutShort, GetNoHeader, GetReturn, SweepReturn, Crash,
                     SweepThrows, Answer, Return
<1>11. QED
  BY <1>1, <1>2, <1>4, <1>6, <1>7, <1>8, <1>9, <1>10 DEF Next, Open, vars

(* Every step keeps what the walks know.                                   *)
LEMMA WatchStep ==
    IInv /\ [Next]_vars
        => WatchInv' /\ RemovedStaysRemoved'
<1> SUFFICES ASSUME TypeOK, OpenInv, WatchInv, RemovedStaysRemoved, [Next]_vars
             PROVE  WatchInv' /\ RemovedStaysRemoved'
  BY DEF IInv
<1>0. TypeOK /\ \A q \in Processes : doing[q].call = "sweep" => doing[q] \in SweepCalls
  BY CallsByName DEF TypeOK
<1>1. ASSUME NEW q \in Processes, (doing[q].call = "sweep")', NEW k \in doing'[q].watched
      PROVE  ~Writing(k)' /\ (k \notin doing'[q].todo => entry'[k] = None)
  <2>1. CASE \E targets \in Targets : SweepStart(q, targets)
    <3> PICK targets \in Targets : SweepStart(q, targets)
      BY <2>1
    <3>1. doing'[q] = [call |-> "sweep", targets |-> targets,
                       todo |-> {l \in targets : entry[l] # None},
                       watched |-> {l \in targets :
                           ~\E p \in Processes : doing[p].call = "put" /\ doing[p].key = l}]
      BY <1>0 DEF SweepStart, GoOn, TypeOK
    <3>2. ~Writing(k) /\ k \in Keys /\ (k \notin doing'[q].todo => entry'[k] = None)
      BY <3>1 DEF SweepStart, Writing, Targets
    <3>3. \A p \in Processes, size \in Sizes : ~PutOpen(p, k, size)
      BY <1>0, <3>1 DEF SweepStart, PutOpen, GoOn, TypeOK
    <3>4. QED
      BY <1>0, <3>2, <3>3, WritingStep
  <2>2. CASE ~\E targets \in Targets : SweepStart(q, targets)
    <3>1. k \in Keys
      <4>1. TypeOK'
        BY TypeStep
      <4>2. doing'[q] \in SweepCalls
        BY <1>1, <4>1, CallsByName DEF TypeOK
      <4>3. QED
        BY <4>2 DEF SweepCalls
    <3>2. /\ doing[q].call = "sweep"
          /\ k \in doing[q].watched
          /\ \A p \in Processes, size \in Sizes : ~PutOpen(p, k, size)
          /\ k \in doing[q].todo /\ k \notin doing'[q].todo => entry'[k] = None
      BY <1>1, <2>2, <3>1, WalkStep
    <3>3. ~Writing(k) /\ (k \notin doing[q].todo => entry[k] = None)
      BY <3>2 DEF WatchInv
    <3>4. ~Writing(k)'
      BY <3>1, <3>2, <3>3, WritingStep
    <3>5. k \notin doing'[q].todo => entry'[k] = None
      BY <3>1, <3>2, <3>3, AbsentStep
    <3>6. QED
      BY <3>4, <3>5
  <2>3. QED
    BY <2>1, <2>2
<1>2. ASSUME NEW k \in gone' PROVE ~Writing(k)' /\ entry'[k] = None
  <2>1. CASE k \in gone
    <3>1. k \in Keys /\ ~Writing(k) /\ entry[k] = None
      BY <2>1 DEF WatchInv, RemovedStaysRemoved, TypeOK
    <3>2. \A p \in Processes, size \in Sizes : ~PutOpen(p, k, size)
      BY <1>2 DEF PutOpen
    <3>3. QED
      BY <3>1, <3>2, WritingStep, AbsentStep
  <2>2. CASE k \notin gone
    <3>1. PICK p \in Processes : SweepReturn(p)
      BY <1>2, <2>2 DEF Next, vars, Open, PutOpen, PutWrite, PutReturn, PutCutShort, GetOpen,
         GetRead, GetNoHeader, GetReturn, SweepStart, SweepEntry, SweepThrows, Crash
    <3>2. doing[p].call = "sweep" /\ doing[p].todo = {} /\ k \in doing[p].watched
      BY <1>2, <2>2, <3>1 DEF SweepReturn
    <3>3. ~Writing(k) /\ entry[k] = None /\ k \in Keys
      BY <1>0, <3>2 DEF WatchInv, SweepCalls
    <3>4. \A r \in Processes, size \in Sizes : ~PutOpen(r, k, size)
      BY <1>2 DEF PutOpen
    <3>5. QED
      BY <3>3, <3>4, WritingStep, AbsentStep
  <2>3. QED
    BY <2>1, <2>2
<1>3. QED
  BY <1>1, <1>2 DEF WatchInv, RemovedStaysRemoved

-----------------------------------------------------------------------------
(* What is in an entry.                                                    *)

(* A place in an entry that is the beginning of a block is read as the     *)
(* block has it, or as zero.                                               *)
LEMMA AtBeginning ==
    ASSUME NEW size \in Sizes, NEW cells \in Seq(Cell), Beginning(cells, size),
           NEW i \in 1 .. Len(Cells(size))
    PROVE  At(cells, i) = IF i <= Len(cells) THEN Cells(size)[i] ELSE Zero
<1>1. i \in DOMAIN cells <=> i <= Len(cells)
  BY CellsAt
<1>2. CASE i <= Len(cells)
  BY <1>1, <1>2, CellsAt DEF At, Beginning
<1>3. CASE ~(i <= Len(cells))
  BY <1>1, <1>3 DEF At
<1>4. QED
  BY <1>2, <1>3

(* Its first cell tells which block.                                       *)
LEMMA HeaderTells ==
    ASSUME NEW size \in Sizes, NEW cells \in Seq(Cell), Beginning(cells, size),
           cells # << >>, NEW s, cells[1] = <<"header", s>>
    PROVE  s = size
<1>1. 1 \in 1 .. Len(cells)
  BY EmptySeq
<1>2. cells[1] = <<"header", size>>
  BY <1>1, CellsAt DEF Beginning
<1>3. QED
  BY <1>2

(* The next cell of a block makes a longer beginning of it.                *)
LEMMA NextWritten ==
    ASSUME NEW size \in Sizes, NEW cells \in Seq(Cell), Beginning(cells, size),
           NEW n \in Nat \ {0}, Len(cells) = n - 1, n <= Len(Cells(size))
    PROVE  LET written == WriteAt(cells, n, Cells(size)[n])
           IN /\ Beginning(written, size) /\ Len(written) = n /\ written # << >>
              /\ cells # << >> => written[1] = cells[1]
<1> DEFINE written == WriteAt(cells, n, Cells(size)[n])
<1>1. Max({n, Len(cells)}) = n
  <2>1. \A y \in {n, Len(cells)} : n >= y
    OBVIOUS
  <2>2. \A x \in {n, Len(cells)} : (\A y \in {n, Len(cells)} : x >= y) => x = n
    OBVIOUS
  <2>3. QED
    BY <2>1, <2>2 DEF Max
<1>2. written = [i \in 1 .. n |-> IF i = n THEN Cells(size)[n] ELSE At(cells, i)]
  BY <1>1 DEF WriteAt
<1>3. \A i \in 1 .. n - 1 : i \in 1 .. Len(Cells(size)) /\ i <= Len(cells) /\ i # n
  <2>1. Len(Cells(size)) \in Nat
    BY CellsAt
  <2>2. QED
    BY <2>1
<1>4. ASSUME NEW i \in 1 .. n PROVE written[i] = Cells(size)[i]
  <2>1. CASE i = n
    BY <1>2, <2>1
  <2>2. CASE i # n
    <3>1. i \in 1 .. n - 1
      BY <2>2
    <3>2. At(cells, i) = Cells(size)[i]
      BY <1>3, <3>1, AtBeginning
    <3>3. QED
      BY <1>2, <2>2, <3>2
  <2>3. QED
    BY <2>1, <2>2
<1>5. Len(written) = n /\ written # << >>
  BY <1>2
<1>6. cells # << >> => written[1] = cells[1]
  <2>1. cells # << >> => 1 \in 1 .. Len(cells)
    BY EmptySeq
  <2>2. QED
    BY <1>4, <2>1 DEF Beginning
<1> HIDE DEF written
<1>7. Beginning(written, size)
  BY <1>4, <1>5 DEF Beginning
<1>8. QED
  BY <1>5, <1>6, <1>7 DEF written

(* An entry that has two writers is not one of a single one.               *)
LEMMA TwoWriters ==
    ASSUME NEW W, IsFiniteSet(W), Cardinality(W) <= 1, NEW p \in W, NEW q \in W
    PROVE  p = q
<1>1. Cardinality(W) \in Nat
  BY FS_CardinalityType
<1>2. Cardinality(W) = 0 \/ Cardinality(W) = 1
  BY <1>1
<1>3. W # {}
  OBVIOUS
<1>4. Cardinality(W) = 1
  BY <1>2, <1>3, FS_EmptySet
<1>5. \E x : W = {x}
  BY <1>4, FS_Singleton
<1>6. QED
  BY <1>5

-----------------------------------------------------------------------------
(* What a step leaves alone.                                               *)

(* Who opens an entry for writing disturbs the readers of that entry only, *)
(* and no other writer.                                                    *)
LEMMA PutOpenLeaves ==
    ASSUME TypeOK, NEW p \in Processes, NEW k \in Keys, NEW size \in Sizes, PutOpen(p, k, size),
           NEW q \in Processes, q # p
    PROVE  /\ doing'[q].call = doing[q].call
           /\ doing[q].call = "put" => doing'[q] = doing[q]
           /\ doing[q].call = "get" /\ doing[q].key = k => ~doing'[q].undisturbed
           /\ doing[q].call = "get" /\ doing[q].key # k => doing'[q] = doing[q]
<1>1. doing'[q] = IF doing[q].call = "get" /\ doing[q].key = k
                  THEN [doing[q] EXCEPT !.undisturbed = FALSE]
                  ELSE IF doing[q].call = "sweep" THEN [doing[q] EXCEPT !.watched = @ \ {k}]
                  ELSE doing[q]
  BY DEF PutOpen
<1>2. doing[q].call = "get" => doing[q] \in GetCalls
  BY CallsByName DEF TypeOK
<1>3. doing[q].call = "sweep" => doing[q] \in SweepCalls
  BY CallsByName DEF TypeOK
<1>4. \A d \in GetCalls : /\ [d EXCEPT !.undisturbed = FALSE].call = d.call
                          /\ ~[d EXCEPT !.undisturbed = FALSE].undisturbed
  BY DEF GetCalls
<1>5. \A d \in SweepCalls : [d EXCEPT !.watched = @ \ {k}].call = d.call
  BY DEF SweepCalls
<1>6. QED
  BY <1>1, <1>2, <1>3, <1>4, <1>5

(* Other steps are those of one process: what another was writing or       *)
(* reading it still is.                                                    *)
LEMMA Elsewhere ==
    ASSUME TypeOK, [Next]_vars, NEW q \in Processes,
           \A p \in Processes, k \in Keys, size \in Sizes : ~PutOpen(p, k, size)
    PROVE  \/ doing'[q] = doing[q]
           \/ doing'[q].call \in {"none", "sweep"}
           \/ PutWrite(q) \/ GetRead(q)
           \/ \E k \in Keys, size \in Sizes : GetOpen(q, k, size) /\ entry[k] # None
<1> USE DEF TypeOK
<1> DEFINE Goal ==
       \/ doing'[q] = doing[q]
       \/ doing'[q].call \in {"none", "sweep"}
       \/ PutWrite(q) \/ GetRead(q)
       \/ \E k \in Keys, size \in Sizes : GetOpen(q, k, size) /\ entry[k] # None
<1>1. ASSUME NEW p \in Processes, NEW c, doing' = [doing EXCEPT ![p] = c],
             q = p => c.call \in {"none", "sweep"} \/ Goal
      PROVE  Goal
  BY <1>1
<1>2. ASSUME NEW p \in Processes, doing' = [doing EXCEPT ![p] = Idle] PROVE Goal
  BY <1>1, <1>2 DEF Idle
<1>3. ASSUME NEW p \in Processes, PutWrite(p) \/ GetRead(p) PROVE Goal
  BY <1>3 DEF PutWrite, GetRead, GoOn
<1>4. ASSUME NEW p \in Processes, NEW k \in Keys, NEW size \in Sizes, GetOpen(p, k, size)
      PROVE  Goal
  <2>1. CASE entry[k] = None
    BY <1>2, <1>4, <2>1 DEF GetOpen, Answer, Return
  <2>2. CASE entry[k] # None
    BY <1>4, <2>2 DEF GetOpen, GoOn
  <2>3. QED
    BY <2>1, <2>2
<1>5. ASSUME NEW p \in Processes, NEW targets \in Targets, SweepStart(p, targets) PROVE Goal
  BY <1>5 DEF SweepStart, GoOn
<1>6. ASSUME NEW p \in Processes, NEW k \in Keys, SweepEntry(p, k) PROVE Goal
  <2>1. doing[p] \in SweepCalls
    BY <1>6, CallsByName DEF SweepEntry
  <2>2. [doing[p] EXCEPT !.todo = @ \ {k}].call = "sweep"
    BY <2>1 DEF SweepCalls
  <2>3. QED
    BY <1>6, <2>2 DEF SweepEntry, GoOn
<1>7. ASSUME NEW p \in Processes,
             PutReturn(p) \/ PutCutShort(p) \/ GetNoHeader(p) \/ GetReturn(p)
               \/ SweepReturn(p) \/ Crash(p) \/ \E l \in Keys : SweepThrows(p, l)
      PROVE  Goal
  BY <1>2, <1>7 DEF PutReturn, PutCutShort, GetNoHeader, GetReturn, SweepReturn, Crash,
                    SweepThrows, Answer, Return
<1>8. ASSUME UNCHANGED doing PROVE Goal
  BY <1>8
<1>9. QED
  BY <1>3, <1>4, <1>5, <1>6, <1>7, <1>8 DEF Next, Open, vars

(* An entry and its history change when it is opened for writing, written, *)
(* written to the end or removed.                                          *)
LEMMA EntryChanges ==
    ASSUME TypeOK, [Next]_vars, NEW k \in Keys
    PROVE  \/ \E p \in Processes, size \in Sizes : PutOpen(p, k, size)
           \/ \E p \in Processes : (PutWrite(p) \/ PutReturn(p)) /\ doing[p].key = k
           \/ \E p \in Processes : SweepEntry(p, k)
           \/ entry'[k] = entry[k] /\ writers'[k] = writers[k] /\ whole'[k] = whole[k]
<1> USE DEF TypeOK
<1>1. ASSUME NEW p \in Processes, NEW l \in Keys, NEW size \in Sizes, l # k, PutOpen(p, l, size)
      PROVE  entry'[k] = entry[k] /\ writers'[k] = writers[k] /\ whole'[k] = whole[k]
  BY <1>1 DEF PutOpen
<1>2. ASSUME NEW p \in Processes, PutWrite(p) \/ PutReturn(p), doing[p].key # k
      PROVE  entry'[k] = entry[k] /\ writers'[k] = writers[k] /\ whole'[k] = whole[k]
  BY <1>2 DEF PutWrite, PutReturn
<1>3. ASSUME NEW p \in Processes, NEW l \in Keys, l # k, SweepEntry(p, l)
      PROVE  entry'[k] = entry[k] /\ writers'[k] = writers[k] /\ whole'[k] = whole[k]
  BY <1>3 DEF SweepEntry
<1>4. ASSUME UNCHANGED <<entry, writers, whole>>
      PROVE  entry'[k] = entry[k] /\ writers'[k] = writers[k] /\ whole'[k] = whole[k]
  BY <1>4
<1>5. QED
  BY <1>1, <1>2, <1>3, <1>4 DEF Next, vars, Open, PutCutShort, GetOpen, GetRead, GetNoHeader,
     GetReturn, SweepStart, SweepThrows, SweepReturn, Crash

(* An entry that is open is not removed.                                   *)
LEMMA OpenIsNotRemoved ==
    ASSUME OpenInv, NEW q \in Processes, doing[q].call \in {"put", "get"},
           NEW p \in Processes, SweepEntry(p, doing[q].key)
    PROVE  FALSE
BY DEF OpenInv, SweepEntry, IsOpen

-----------------------------------------------------------------------------
(* What is in the entries.                                                 *)

(* A write by the only writer appends the next cell.                       *)
LEMMA WriteAppends ==
    ASSUME TypeOK, OpenInv, PutInv, NEW p \in Processes, PutWrite(p), Single(doing[p].key)
    PROVE  LET d == doing[p] IN
           /\ Beginning(entry'[d.key], d.size)
           /\ Len(entry'[d.key]) = d.next
           /\ entry'[d.key] # << >>
           /\ entry[d.key] # << >> => entry'[d.key][1] = entry[d.key][1]
<1> DEFINE d == doing[p]
<1>1. d.call = "put" /\ d \in PutCalls /\ d.next <= Len(Cells(d.size))
  BY CallsByName DEF PutWrite, TypeOK
<1>2. d.key \in Keys /\ d.size \in Sizes /\ d.next \in Nat \ {0}
  BY <1>1 DEF PutCalls
<1>3. entry[d.key] \in Seq(Cell)
  BY <1>1, OpenIsFile
<1>4. entry'[d.key] = WriteAt(entry[d.key], d.next, Cells(d.size)[d.next])
  BY <1>2 DEF PutWrite, TypeOK
<1>5. Beginning(entry[d.key], d.size) /\ Len(entry[d.key]) = d.next - 1
  BY <1>1 DEF PutInv, Wrote
<1> HIDE DEF d
<1>6. QED
  BY <1>1, <1>2, <1>3, <1>4, <1>5, NextWritten DEF d

LEMMA PutStep == IInv /\ [Next]_vars => PutInv'
<1> SUFFICES ASSUME TypeOK, OpenInv, EntryInv, PutInv, [Next]_vars,
                    NEW q \in Processes, doing'[q].call = "put",
                    NEW c, c = doing'[q]
             PROVE  Wrote(q, c)'
  BY DEF PutInv, IInv
<1> DEFINE Goal == Wrote(q, c)'
<1>1. ASSUME NEW p \in Processes, NEW k \in Keys, NEW size \in Sizes, PutOpen(p, k, size)
      PROVE  Goal
  <2>1. /\ writers'[k] = {r \in writers[k] : r # p /\ doing[r].call = "put" /\ doing[r].key = k}
                           \cup {p}
        /\ entry'[k] = << >>
        /\ \A l \in Keys \ {k} : writers'[l] = writers[l] /\ entry'[l] = entry[l]
    BY <1>1 DEF PutOpen, TypeOK
  <2>2. CASE q = p
    <3>1. c = [call |-> "put", key |-> k, size |-> size, next |-> 1]
      BY <1>1, <2>2 DEF PutOpen
    <3>2. Len(Cells(size)) \in Nat
      BY CellsAt
    <3>3. QED
      BY <2>1, <2>2, <3>1, <3>2 DEF Beginning, Wrote
  <2>3. CASE q # p
    <3>1. doing[q].call = "put" /\ c = doing[q]
      BY <1>1, <2>3, PutOpenLeaves
    <3>2. doing[q].key \in Keys
      BY <3>1, OpenIsFile
    <3>3. Wrote(q, c)
      BY <3>1 DEF PutInv
    <3>4. CASE doing[q].key # k
      BY <2>1, <3>1, <3>2, <3>3, <3>4 DEF Wrote, Single
    <3>5. CASE doing[q].key = k
      <4>1. q \in writers'[k] /\ p \in writers'[k]
        BY <2>1, <2>3, <3>1, <3>3, <3>5 DEF Wrote
      <4>2. IsFiniteSet(writers'[k])
        <5>1. IsFiniteSet(writers[k])
          BY DEF EntryInv
        <5>2. IsFiniteSet({r \in writers[k] : r # p /\ doing[r].call = "put" /\ doing[r].key = k})
          BY <5>1, FS_Subset
        <5>3. QED
          BY <2>1, <5>2, FS_AddElement
      <4>3. ~Single(k)'
        BY <2>3, <4>1, <4>2, TwoWriters DEF Single
      <4>4. QED
        BY <3>1, <3>3, <3>5, <4>1, <4>3 DEF Wrote
    <3>6. QED
      BY <3>4, <3>5
  <2>4. QED
    BY <2>2, <2>3
<1>2. ASSUME NEW p \in Processes, PutWrite(p), doing[q].call = "put", doing[q].key = doing[p].key
      PROVE  Goal
  <2>1. writers' = writers
    BY <1>2 DEF PutWrite
  <2>2. doing[p].call = "put" /\ doing[p] \in PutCalls /\ doing[p].next <= Len(Cells(doing[p].size))
    BY <1>2, CallsByName DEF PutWrite, TypeOK
  <2>3. doing[p].key \in Keys /\ doing[p].size \in Sizes /\ doing[p].next \in Nat
    BY <2>2 DEF PutCalls
  <2>4. p \in writers[doing[p].key] /\ q \in writers[doing[p].key]
    BY <1>2, <2>2 DEF PutInv, Wrote
  <2>5. IsFiniteSet(writers[doing[p].key])
    BY <2>3 DEF EntryInv
  <2>6. CASE q = p
    <3>1. c = [doing[p] EXCEPT !.next = @ + 1]
      BY <1>2, <2>6 DEF PutWrite, GoOn, TypeOK
    <3>2. /\ c.key = doing[p].key /\ c.size = doing[p].size
          /\ c.next = doing[p].next + 1
      BY <2>2, <3>1 DEF PutCalls
    <3>3. Len(Cells(doing[p].size)) \in Nat
      BY <2>3, CellsAt
    <3>4. Single(doing[p].key) =>
             /\ Beginning(entry'[doing[p].key], doing[p].size)
             /\ Len(entry'[doing[p].key]) = doing[p].next
      BY <1>2, WriteAppends
    <3>5. QED
      BY <2>1, <2>2, <2>3, <2>4, <2>6, <3>2, <3>3, <3>4, SMTT(30) DEF Single, Wrote
  <2>7. CASE q # p
    <3>1. c = doing[q]
      BY <1>2, <2>7 DEF PutWrite, GoOn, TypeOK
    <3>2. ~Single(doing[p].key)
      BY <2>4, <2>5, <2>7, TwoWriters DEF Single
    <3>3. QED
      BY <1>2, <2>1, <3>1, <3>2 DEF PutInv, Single, Wrote
  <2>8. QED
    BY <2>6, <2>7
<1>3. ASSUME \A p \in Processes, k \in Keys, size \in Sizes : ~PutOpen(p, k, size),
             \A p \in Processes : PutWrite(p) =>
                 ~(doing[q].call = "put" /\ doing[q].key = doing[p].key)
      PROVE  Goal
  <2>1. ~PutWrite(q)
    BY <1>3 DEF PutWrite
  <2>2. ~(\E k \in Keys, size \in Sizes : GetOpen(q, k, size) /\ entry[k] # None)
    <3>1. ASSUME NEW k \in Keys, NEW size \in Sizes, GetOpen(q, k, size), entry[k] # None
          PROVE  doing'[q].call = "get"
      BY <3>1 DEF GetOpen, GoOn, TypeOK
    <3>2. QED
      BY <3>1
  <2>3. ~GetRead(q)
    <3> SUFFICES ASSUME GetRead(q) PROVE FALSE
      OBVIOUS
    <3>1. doing[q] \in GetCalls
      BY CallsByName DEF GetRead, TypeOK
    <3>2. \A part, read : [doing[q] EXCEPT !.part = part, !.read = read].call = "get"
      BY <3>1 DEF GetCalls
    <3>3. QED
      BY <3>2 DEF GetRead, GoOn, TypeOK
  <2>4. doing'[q] = doing[q] /\ c = doing[q]
    BY <1>3, <2>1, <2>2, <2>3, Elsewhere
  <2>5. doing[q].key \in Keys
    BY <2>4, OpenIsFile
  <2>6. \A p \in Processes : ~SweepEntry(p, doing[q].key)
    BY <2>4, OpenIsNotRemoved
  <2>7. \/ \E p \in Processes : PutReturn(p)
        \/ entry'[doing[q].key] = entry[doing[q].key] /\ writers'[doing[q].key] = writers[doing[q].key]
    BY <1>3, <2>4, <2>5, <2>6, EntryChanges
  <2>8. entry'[doing[q].key] = entry[doing[q].key] /\ writers'[doing[q].key] = writers[doing[q].key]
    BY <2>7 DEF PutReturn
  <2>9. QED
    BY <2>4, <2>8 DEF PutInv, Single, Wrote
<1>4. QED
  BY <1>1, <1>2, <1>3

LEMMA EntryStep == IInv /\ [Next]_vars => EntryInv'
<1> SUFFICES ASSUME TypeOK, OpenInv, EntryInv, PutInv, [Next]_vars, NEW k \in Keys
             PROVE  /\ IsFiniteSet(writers'[k])
                    /\ entry'[k] # None /\ Single(k)' =>
                          \E size \in Sizes : Beginning(entry'[k], size)
                    /\ whole'[k] # 0 =>
                         /\ Single(k)' /\ ~Writing(k)' /\ entry'[k] # None
                         /\ Beginning(entry'[k], whole'[k])
                         /\ Len(entry'[k]) = Len(Cells(whole'[k]))
  BY DEF EntryInv, IInv
<1> DEFINE Goal ==
       /\ IsFiniteSet(writers'[k])
       /\ entry'[k] # None /\ Single(k)' => \E size \in Sizes : Beginning(entry'[k], size)
       /\ whole'[k] # 0 =>
            /\ Single(k)' /\ ~Writing(k)' /\ entry'[k] # None
            /\ Beginning(entry'[k], whole'[k])
            /\ Len(entry'[k]) = Len(Cells(whole'[k]))
<1>1. /\ IsFiniteSet(writers[k])
      /\ entry[k] # None /\ Single(k) => \E size \in Sizes : Beginning(entry[k], size)
      /\ whole[k] # 0 =>
            /\ Single(k) /\ ~Writing(k) /\ entry[k] # None
            /\ Beginning(entry[k], whole[k])
            /\ Len(entry[k]) = Len(Cells(whole[k]))
  BY DEF EntryInv
<1>2. ASSUME NEW p \in Processes, NEW size \in Sizes, PutOpen(p, k, size) PROVE Goal
  <2>1. /\ writers'[k] = {r \in writers[k] : r # p /\ doing[r].call = "put" /\ doing[r].key = k}
                           \cup {p}
        /\ entry'[k] = << >> /\ whole'[k] = 0
    BY <1>2 DEF PutOpen, TypeOK
  <2>2. IsFiniteSet({r \in writers[k] : r # p /\ doing[r].call = "put" /\ doing[r].key = k})
    BY <1>1, FS_Subset
  <2>3. IsFiniteSet(writers'[k])
    BY <2>1, <2>2, FS_AddElement
  <2>4. Beginning(<< >>, size)
    BY CellsAt DEF Beginning
  <2>5. QED
    BY <2>1, <2>3, <2>4
<1>3. ASSUME NEW p \in Processes, PutWrite(p), doing[p].key = k PROVE Goal
  <2>1. writers' = writers /\ whole' = whole
    BY <1>3 DEF PutWrite
  <2>2. Writing(k) /\ doing[p] \in PutCalls
    BY <1>3, CallsByName DEF PutWrite, Writing, TypeOK
  <2>3. doing[p].size \in Sizes
    BY <2>2 DEF PutCalls
  <2>4. Single(k) => Beginning(entry'[k], doing[p].size)
    BY <1>3, WriteAppends
  <2>5. QED
    BY <1>1, <2>1, <2>2, <2>3, <2>4 DEF Single
<1>4. ASSUME NEW p \in Processes, PutReturn(p), doing[p].key = k PROVE Goal
  <2>1. /\ writers' = writers /\ entry' = entry /\ doing' = [doing EXCEPT ![p] = Idle]
        /\ whole'[k] = IF writers[k] = {p} THEN doing[p].size ELSE 0
    BY <1>4 DEF PutReturn, Return, TypeOK
  <2>2. doing[p].call = "put" /\ doing[p] \in PutCalls /\ doing[p].next > Len(Cells(doing[p].size))
    BY <1>4, CallsByName DEF PutReturn, TypeOK
  <2>3. doing[p].size \in Sizes /\ doing[p].next \in Nat
    BY <2>2 DEF PutCalls
  <2>4. Wrote(p, doing[p])
    BY <2>2 DEF PutInv
  <2>5. CASE writers[k] = {p}
    <3>1. Cardinality(writers[k]) = 1
      BY <2>5, FS_Singleton
    <3>2. Beginning(entry[k], doing[p].size) /\ Len(entry[k]) = doing[p].next - 1
      BY <1>4, <2>4, <3>1 DEF Wrote, Single
    <3>3. Len(entry[k]) = Len(Cells(doing[p].size))
      <4>1. Len(Cells(doing[p].size)) \in Nat
        BY <2>3, CellsAt
      <4>2. QED
        BY <2>2, <2>3, <2>4, <3>2, <4>1 DEF Wrote
    <3>4. ASSUME NEW q \in Processes, doing'[q].call = "put", doing'[q].key = k PROVE FALSE
      <4>1. q # p /\ doing'[q] = doing[q]
        BY <2>1, <3>4 DEF Idle, TypeOK
      <4>2. q \in writers[k]
        BY <3>4, <4>1 DEF PutInv, Wrote
      <4>3. QED
        BY <2>5, <4>1, <4>2
    <3>5. ~Writing(k)'
      BY <3>4 DEF Writing
    <3>6. entry[k] # None
      BY <1>4, <2>2 DEF OpenInv
    <3>7. QED
      BY <1>1, <2>1, <2>3, <2>5, <3>1, <3>2, <3>3, <3>5, <3>6 DEF Single
  <2>6. CASE writers[k] # {p}
    BY <1>1, <2>1, <2>6 DEF Single
  <2>7. QED
    BY <2>5, <2>6
<1>5. ASSUME NEW p \in Processes, SweepEntry(p, k) PROVE Goal
  BY <1>5, FS_EmptySet DEF SweepEntry, TypeOK
<1>6. ASSUME entry'[k] = entry[k], writers'[k] = writers[k], whole'[k] = whole[k],
             \A p \in Processes, size \in Sizes : ~PutOpen(p, k, size)
      PROVE  Goal
  <2>1. ~Writing(k) => ~Writing(k)'
    BY <1>6, WritingStep
  <2>2. QED
    BY <1>1, <1>6, <2>1 DEF Single
<1>7. QED
  BY <1>2, <1>3, <1>4, <1>5, <1>6, EntryChanges

-----------------------------------------------------------------------------
(* What is read.                                                           *)

(* The next part of an entry that nobody else has opened for writing.      *)
LEMMA ReadGoesOn ==
    ASSUME TypeOK, OpenInv, EntryInv, ReadInv, NEW q \in Processes, GetRead(q),
           doing[q].undisturbed, NEW c, c = doing'[q]
    PROVE  /\ c.key = doing[q].key /\ c.whole = doing[q].whole /\ c.part # 1
           /\ \E size \in Sizes :
                /\ ReadOf(c, size)
                /\ entry[c.key] # << >> /\ entry[c.key][1] = <<"header", size>>
<1> DEFINE d == doing[q]
           e == entry[d.key]
           from == Len(d.read)
           header == IF from = 0 THEN At(e, 1) ELSE d.read[1]
           n == Lengths(header[2])[d.part]
           more == [i \in 1 .. n |-> At(e, from + i)]
<1>1. d.call = "get" /\ d \in GetCalls /\ d.part \in 1 .. 3 /\ header[1] = "header"
  <2>1. d.call = "get" /\ d \in GetCalls /\ d.part <= 3 /\ header[1] = "header"
    BY CallsByName DEF GetRead, TypeOK
  <2>2. d.part \in 1 .. 4
    BY <2>1 DEF GetCalls
  <2>3. QED
    BY <2>1, <2>2
<1>2. d.key \in Keys /\ d.read \in Seq(Cell) /\ e \in Seq(Cell)
  BY <1>1, OpenIsFile DEF GetCalls
<1>3. c = [d EXCEPT !.part = @ + 1, !.read = d.read \o more]
  BY DEF GetRead, GoOn, TypeOK
<1>4. /\ c.key = d.key /\ c.whole = d.whole /\ c.part = d.part + 1 /\ c.read = d.read \o more
  <2>1. ASSUME NEW part, NEW read, c = [d EXCEPT !.part = part, !.read = read]
        PROVE  c.key = d.key /\ c.whole = d.whole /\ c.part = part /\ c.read = read
    BY <1>1, <2>1 DEF GetCalls
  <2>2. c = [d EXCEPT !.part = d.part + 1, !.read = d.read \o more]
    BY <1>3
  <2> HIDE DEF more
  <2>3. QED
    BY <2>1, <2>2, Zenon
<1>5. Follows(d)
  BY <1>1 DEF ReadInv
<1>6. PICK size \in Sizes : Beginning(e, size)
  <2>1. e # None
    BY <1>1 DEF OpenInv
  <2>2. QED
    BY <1>2, <1>5, <2>1 DEF EntryInv, Follows
<1>7. size \in Nat \ {0} /\ Len(Cells(size)) = 3 * size + 3 /\ Cells(size)[1] = <<"header", size>>
  BY CellsAt
<1>8. d.whole # 0 => /\ d.whole \in Sizes /\ Beginning(e, d.whole)
                     /\ Len(e) = Len(Cells(d.whole))
  BY <1>1, <1>2, <1>5 DEF GetCalls, EntryInv, Follows
<1>9. header = <<"header", size>> /\ e # << >> /\ e[1] = <<"header", size>>
  <2>1. CASE d.part = 1
    <3>1. from = 0 /\ header = At(e, 1)
      BY <1>5, <2>1 DEF Follows
    <3>2. At(e, 1) = IF 1 <= Len(e) THEN Cells(size)[1] ELSE Zero
      <4>1. 1 \in 1 .. Len(Cells(size))
        BY <1>7
      <4> HIDE DEF e
      <4>2. QED
        BY <1>2, <1>6, <4>1, AtBeginning
    <3>3. 1 <= Len(e)
      BY <1>1, <3>1, <3>2 DEF Zero
    <3>4. e # << >>
      BY <1>2, <3>3
    <3>5. QED
      BY <1>2, <1>6, <1>7, <3>1, <3>2, <3>3, <3>4 DEF Beginning
  <2>2. CASE d.part # 1
    <3>1. PICK s \in Sizes : ReadOf(d, s) /\ e # << >> /\ e[1] = <<"header", s>>
      BY <1>5, <2>2 DEF Follows
    <3>2. s = size
      BY <1>2, <1>6, <3>1, HeaderTells
    <3>3. from # 0
      BY <1>2, <3>1, EmptySeq DEF ReadOf
    <3>4. QED
      BY <3>1, <3>2, <3>3 DEF ReadOf
  <2>3. QED
    BY <2>1, <2>2
<1>10. /\ n = IF d.part = 1 THEN 1 ELSE IF d.part = 2 THEN size ELSE 2 * size + 2
       /\ n \in Nat
  BY <1>1, <1>7, <1>9 DEF Lengths
<1>11. from = IF d.part = 1 THEN 0 ELSE IF d.part = 2 THEN 1 ELSE size + 1
  <2>1. CASE d.part = 1
    BY <1>5, <2>1 DEF Follows
  <2>2. CASE d.part # 1
    <3>1. PICK s \in Sizes : ReadOf(d, s) /\ e[1] = <<"header", s>>
      BY <1>5, <2>2 DEF Follows
    <3>2. s = size
      BY <1>9, <3>1
    <3>3. QED
      BY <1>1, <2>2, <3>1, <3>2 DEF ReadOf
  <2>3. QED
    BY <2>1, <2>2
<1>12. d.whole # 0 => d.whole = size
  <2> SUFFICES ASSUME d.whole # 0 PROVE d.whole = size
    OBVIOUS
  <2>1. size = d.whole
    BY <1>2, <1>8, <1>9, HeaderTells
  <2>2. QED
    BY <2>1
<1> HIDE DEF n
<1>13. more \in Seq(Cell) /\ Len(more) = n /\ \A i \in 1 .. n : more[i] = At(e, from + i)
  <2>1. from \in Nat
    BY <1>2
  <2>2. \A i \in 1 .. n : At(e, from + i) \in Cell
    BY <1>2, <1>10, <2>1, AtIsCell
  <2>3. more \in [1 .. n -> Cell]
    BY <2>2, Zenon
  <2>4. \A i \in 1 .. n : more[i] = At(e, from + i)
    OBVIOUS
  <2> HIDE DEF more
  <2>5. QED
    BY <1>10, <2>3, <2>4
<1> HIDE DEF more, header
<1>14. /\ c.read \in Seq(Cell) /\ Len(c.read) = from + n
       /\ \A i \in 1 .. from : c.read[i] = d.read[i]
       /\ \A i \in 1 .. n : c.read[from + i] = more[i]
  <2> DEFINE r == d.read
             all == r \o more
  <2>1. r \in Seq(Cell) /\ c.read = all /\ from = Len(r)
    BY <1>2, <1>4
  <2> HIDE DEF r
  <2>2. /\ all \in Seq(Cell) /\ Len(all) = Len(r) + Len(more)
        /\ \A i \in 1 .. Len(r) : all[i] = r[i]
        /\ \A i \in 1 .. Len(more) : all[Len(r) + i] = more[i]
    BY <1>13, <2>1, Joined, Zenon
  <2> HIDE DEF all
  <2>3. QED
    BY <1>13, <2>1, <2>2 DEF r
<1>15. c.read # << >> /\ c.read[1] = <<"header", size>>
  <2>1. CASE d.part = 1
    <3>1. 1 \in 1 .. n /\ from + 1 = 1
      BY <1>10, <1>11, <2>1
    <3>2. c.read[1] = At(e, 1)
      BY <1>13, <1>14, <3>1
    <3>3. At(e, 1) = header
      BY <1>11, <2>1 DEF header
    <3>4. Len(c.read) = 1
      BY <1>10, <1>11, <1>14, <2>1
    <3>5. QED
      BY <1>9, <1>14, <3>2, <3>3, <3>4
  <2>2. CASE d.part # 1
    <3>1. 1 \in 1 .. from
      BY <1>1, <1>7, <1>11, <2>2
    <3>2. c.read[1] = d.read[1] /\ header = d.read[1]
      BY <1>14, <3>1 DEF header
    <3>3. Len(c.read) # 0
      BY <1>10, <1>11, <1>14, <3>1
    <3>4. QED
      BY <1>9, <1>14, <3>2, <3>3
  <2>3. QED
    BY <2>1, <2>2
<1>16. Len(c.read) = IF c.part = 2 THEN 1 ELSE IF c.part = 3 THEN size + 1 ELSE 3 * size + 3
  BY <1>1, <1>4, <1>7, <1>10, <1>11, <1>14
<1>17. ASSUME c.part = 4
       PROVE  \E m \in 0 .. 3 * size + 3 :
                /\ \A i \in size + 2 .. 3 * size + 3 :
                       c.read[i] = IF i <= m THEN Cells(size)[i] ELSE Zero
                /\ c.whole # 0 => m = 3 * size + 3
  <2>1. d.part = 3 /\ from = size + 1 /\ n = 2 * size + 2
    BY <1>1, <1>4, <1>10, <1>11, <1>17
  <2>2. Len(e) \in 0 .. 3 * size + 3 /\ (c.whole # 0 => Len(e) = 3 * size + 3)
    <3>1. Len(e) \in Nat /\ Len(e) <= Len(Cells(size))
      BY <1>2, <1>6 DEF Beginning
    <3>2. d.whole # 0 => Len(e) = Len(Cells(size))
      BY <1>8, <1>12
    <3>3. QED
      BY <1>4, <1>7, <3>1, <3>2
  <2>3. ASSUME NEW i \in size + 2 .. 3 * size + 3
        PROVE  c.read[i] = IF i <= Len(e) THEN Cells(size)[i] ELSE Zero
    <3> DEFINE j == i - (size + 1)
    <3>1. j \in 1 .. n /\ from + j = i /\ i \in 1 .. Len(Cells(size))
      BY <1>7, <2>1
    <3> HIDE DEF j
    <3>2. c.read[i] = At(e, i)
      BY <1>13, <1>14, <3>1
    <3>3. QED
      BY <1>2, <1>6, <3>1, <3>2, AtBeginning
  <2>4. QED
    BY <2>2, <2>3
<1>18. c.whole # 0 => c.whole = size
  BY <1>4, <1>12
<1>19. ReadOf(c, size)
  BY <1>15, <1>16, <1>17, <1>18 DEF ReadOf
<1>20. c.part # 1
  BY <1>1, <1>4
<1>21. QED
  BY <1>4, <1>9, <1>19, <1>20

LEMMA ReadStep == IInv /\ [Next]_vars => ReadInv'
<1> SUFFICES ASSUME TypeOK, OpenInv, EntryInv, PutInv, ReadInv, [Next]_vars,
                    NEW q \in Processes, doing'[q].call = "get", doing'[q].undisturbed,
                    NEW c, c = doing'[q]
             PROVE  Follows(c)'
  BY DEF ReadInv, IInv
<1>1. ASSUME NEW p \in Processes, NEW k \in Keys, NEW size \in Sizes, PutOpen(p, k, size)
      PROVE  Follows(c)'
  <2>1. q # p
    BY <1>1 DEF PutOpen, TypeOK
  <2>2. doing[q].call = "get" /\ doing[q].key # k /\ c = doing[q]
    BY <1>1, <2>1, PutOpenLeaves
  <2>3. Follows(c) /\ c.key \in Keys
    BY <2>2, OpenIsFile DEF ReadInv
  <2>4. entry'[c.key] = entry[c.key] /\ writers'[c.key] = writers[c.key]
        /\ whole'[c.key] = whole[c.key]
    BY <1>1, <2>2, <2>3 DEF PutOpen, TypeOK
  <2>5. QED
    BY <2>3, <2>4 DEF Follows, Single
<1>2. ASSUME doing'[q] = doing[q], \A p \in Processes, k \in Keys, size \in Sizes : ~PutOpen(p, k, size)
      PROVE  Follows(c)'
  <2> DEFINE k == c.key
  <2>1. c = doing[q] /\ doing[q].call = "get" /\ k \in Keys /\ entry[k] # None
    BY <1>2, OpenIsFile DEF OpenInv
  <2>2. Follows(c)
    BY <1>2 DEF ReadInv
  <2>3. \A p \in Processes : ~SweepEntry(p, k)
    BY <2>1, OpenIsNotRemoved
  <2>4. CASE entry'[k] = entry[k] /\ writers'[k] = writers[k] /\ whole'[k] = whole[k]
    BY <2>2, <2>4 DEF Follows, Single
  <2>5. ASSUME NEW p \in Processes, PutWrite(p), doing[p].key = k PROVE Follows(c)'
    <3>1. Single(k) /\ writers' = writers /\ whole' = whole
      BY <2>2, <2>5 DEF Follows, PutWrite
    <3>2. entry'[k] # << >> /\ (entry[k] # << >> => entry'[k][1] = entry[k][1])
      BY <2>5, <3>1, WriteAppends
    <3>3. QED
      BY <2>2, <3>1, <3>2 DEF Follows, Single
  <2>6. ASSUME NEW p \in Processes, PutReturn(p), doing[p].key = k PROVE Follows(c)'
    <3>1. writers' = writers /\ entry' = entry
      BY <2>6 DEF PutReturn
    <3>2. Writing(k)
      BY <2>6 DEF PutReturn, Writing
    <3>3. whole[k] = 0
      BY <2>1, <3>2 DEF EntryInv
    <3>4. c.whole = 0
      BY <2>2, <3>3 DEF Follows
    <3>5. QED
      BY <2>2, <3>1, <3>4 DEF Follows, Single
  <2>7. QED
    BY <1>2, <2>1, <2>3, <2>4, <2>5, <2>6, EntryChanges
<1>3. ASSUME NEW k \in Keys, NEW size \in Sizes, GetOpen(q, k, size), entry[k] # None
      PROVE  Follows(c)'
  <2>1. /\ c = [call |-> "get", key |-> k, size |-> size, part |-> 1, read |-> << >>,
                undisturbed |-> Cardinality(writers[k]) <= 1, whole |-> whole[k]]
        /\ UNCHANGED <<entry, writers, whole>>
    BY <1>3 DEF GetOpen, GoOn, TypeOK
  <2>2. c.undisturbed = (Cardinality(writers[k]) <= 1)
    BY <2>1
  <2>3. Single(k)
    BY <2>2 DEF Single
  <2>4. c.key = k /\ c.part = 1 /\ c.read = << >> /\ c.whole = whole[k]
    BY <2>1
  <2>5. QED
    BY <2>1, <2>3, <2>4 DEF Follows, Single
<1>4. ASSUME GetRead(q) PROVE Follows(c)'
  <2>1. UNCHANGED <<entry, writers, whole>>
    BY <1>4 DEF GetRead
  <2>2. doing[q].undisturbed /\ doing[q].call = "get"
    <3>1. doing[q].call = "get" /\ doing[q] \in GetCalls
      BY <1>4, CallsByName DEF GetRead, TypeOK
    <3>2. ASSUME NEW part, NEW read, c = [doing[q] EXCEPT !.part = part, !.read = read]
          PROVE  c.undisturbed = doing[q].undisturbed
      BY <3>1, <3>2 DEF GetCalls
    <3>3. QED
      BY <1>4, <3>1, <3>2 DEF GetRead, GoOn, TypeOK
  <2>3. /\ c.key = doing[q].key /\ c.whole = doing[q].whole /\ c.part # 1
        /\ \E size \in Sizes :
             /\ ReadOf(c, size)
             /\ entry[c.key] # << >> /\ entry[c.key][1] = <<"header", size>>
    BY <1>4, <2>2, ReadGoesOn
  <2>4. Follows(doing[q])
    BY <2>2 DEF ReadInv
  <2>5. QED
    BY <2>1, <2>3, <2>4 DEF Follows, Single
<1>5. ASSUME PutWrite(q) PROVE FALSE
  <2>1. doing[q] \in PutCalls
    BY <1>5, CallsByName DEF PutWrite, TypeOK
  <2>2. [doing[q] EXCEPT !.next = @ + 1].call = "put"
    BY <2>1 DEF PutCalls
  <2>3. QED
    BY <1>5, <2>2 DEF PutWrite, GoOn, TypeOK
<1>6. QED
  BY <1>1, <1>2, <1>3, <1>4, <1>5, Elsewhere

-----------------------------------------------------------------------------
(* What is returned.                                                       *)

(* The instructions of a block, cut at some piece.                         *)
CutAtWorst(insns, size) == \E m \in 0 .. 2 * size : CutAt(insns, size, m)

(* A block of which all pieces are there is the block.                     *)
LEMMA AllShown ==
    ASSUME NEW size \in Nat
    PROVE  [n \in 1 .. size |-> <<Shown(2 * size, 2 * n - 1), Shown(2 * size, 2 * n)>>]
               = Decoded(size)
<1>1. ASSUME NEW n \in 1 .. size
      PROVE  /\ Shown(2 * size, 2 * n - 1) = Piece(2 * n - 1)
             /\ Shown(2 * size, 2 * n) = Piece(2 * n)
  BY DEF Shown
<1>2. QED
  BY <1>1 DEF Decoded

(* What is read of one block and matches comes out as its instructions, as *)
(* far as they were there.                                                 *)
LEMMA HitIsCut ==
    ASSUME NEW d \in GetCalls, NEW s \in Sizes, ReadOf(d, s), d.part = 4, Matches(d)
    PROVE  LET insns == Deserialized(SubSeq(d.read, d.read[1][2] + 2, Len(d.read)))
           IN /\ CutAtWorst(insns, d.size)
              /\ d.whole # 0 => insns = Decoded(d.size) /\ d.whole = d.size
<1> DEFINE blob == SubSeq(d.read, s + 2, Len(d.read))
           low == Low[s]
<1>1. /\ s \in Nat \ {0} /\ Len(Cells(s)) = 3 * s + 3
      /\ Cells(s)[s + 2] = <<"low", low>> /\ Cells(s)[s + 3] = <<"high", s - low>>
      /\ \A i \in 1 .. 2 * s : Cells(s)[s + 3 + i] = Piece(i)
      /\ low \in Nat /\ low <= s
  BY CellsAt, SizesAssumption
<1>2. d.read[1][2] = s /\ d.size = s /\ Len(d.read) = 3 * s + 3 /\ d.read \in Seq(Cell)
  BY DEF ReadOf, Matches, GetCalls
<1>3. PICK n \in 0 .. 3 * s + 3 :
        /\ \A i \in s + 2 .. 3 * s + 3 : d.read[i] = IF i <= n THEN Cells(s)[i] ELSE Zero
        /\ d.whole # 0 => n = 3 * s + 3
  BY DEF ReadOf
<1>4. Len(blob) = 2 * s + 2 /\ \A i \in 1 .. 2 * s + 2 : blob[i] = d.read[s + 1 + i]
  <2> DEFINE r == d.read
             lo == s + 2
             hi == 3 * s + 3
  <2>1. r \in Seq(Cell) /\ lo \in 1 .. Len(r) + 1 /\ hi \in lo - 1 .. Len(r)
    BY <1>1, <1>2
  <2>2. blob = SubSeq(r, lo, hi)
    BY <1>2
  <2> HIDE DEF r, blob
  <2>3. Len(blob) = hi - lo + 1 /\ \A i \in 1 .. hi - lo + 1 : blob[i] = r[lo + i - 1]
    <3>1. lo \in 1 .. Len(r) + 1 /\ hi \in lo - 1 .. Len(r) /\ lo <= hi
      BY <1>1, <2>1
    <3>2. \A i \in lo .. hi : r[i] \in Cell
      BY <1>1, <2>1
    <3>3. lo \in Int /\ hi \in Int
      BY <1>1
    <3> HIDE DEF lo, hi
    <3>4. /\ Len(SubSeq(r, lo, hi)) = hi - lo + 1
          /\ \A i \in 1 .. hi - lo + 1 : SubSeq(r, lo, hi)[i] = r[lo + i - 1]
      BY <2>1, <3>1, <3>2, <3>3, SubSeqProperties
    <3>5. QED
      BY <2>2, <3>4
  <2>4. hi - lo + 1 = 2 * s + 2 /\ \A i \in 1 .. 2 * s + 2 : lo + i - 1 = s + 1 + i
    <3>1. s \in Nat
      BY <1>1
    <3>2. \A i \in 1 .. 2 * s + 2 : lo + i - 1 = s + 1 + i
      BY <3>1
    <3>3. hi - lo + 1 = 2 * s + 2
      BY <3>1
    <3>4. QED
      BY <3>2, <3>3
  <2>5. QED
    BY <2>3, <2>4 DEF r
<1>5. ASSUME NEW i \in 1 .. 2 * s + 2
      PROVE  blob[i] = IF s + 1 + i <= n THEN Cells(s)[s + 1 + i] ELSE Zero
  <2>1. s + 1 + i \in s + 2 .. 3 * s + 3
    BY <1>1
  <2>2. QED
    BY <1>3, <1>4, <2>1
<1> HIDE DEF blob, low
<1> DEFINE m == IF n >= s + 3 THEN n - (s + 3) ELSE 0
           k == IF n >= s + 3 THEN s ELSE IF n = s + 2 THEN low ELSE 0
<1>6. m \in 0 .. 2 * s /\ k \in 0 .. s /\ (k < s => m = 0)
  BY <1>1
<1>7. /\ blob[1] = IF s + 2 <= n THEN <<"low", low>> ELSE Zero
      /\ blob[2] = IF s + 3 <= n THEN <<"high", s - low>> ELSE Zero
  <2>1. 1 \in 1 .. 2 * s + 2 /\ 2 \in 1 .. 2 * s + 2 /\ s + 1 + 1 = s + 2 /\ s + 1 + 2 = s + 3
    BY <1>1
  <2>2. QED
    BY <1>1, <1>5, <2>1
<1>8. /\ blob[1][1] \in {"low", "zero"} /\ blob[2][1] \in {"high", "zero"}
      /\ blob[1][2] + blob[2][2] = k
  <2>1. CASE n >= s + 3
    <3>1. blob[1] = <<"low", low>> /\ blob[2] = <<"high", s - low>> /\ low + (s - low) = s
      BY <1>1, <1>7, <2>1
    <3>2. QED
      BY <2>1, <3>1
  <2>2. CASE n = s + 2
    <3>1. blob[1] = <<"low", low>> /\ blob[2] = Zero /\ low + 0 = low /\ ~(n >= s + 3)
      BY <1>1, <1>7, <2>2
    <3>2. QED
      BY <2>2, <3>1 DEF Zero
  <2>3. CASE n < s + 2
    <3>1. blob[1] = Zero /\ blob[2] = Zero /\ ~(n >= s + 3) /\ n # s + 2
      BY <1>1, <1>7, <2>3
    <3>2. QED
      BY <3>1 DEF Zero
  <2>4. QED
    BY <1>1, <2>1, <2>2, <2>3
<1>9. ASSUME NEW j \in 1 .. 2 * s PROVE blob[2 + j] = Shown(m, j)
  <2>1. 2 + j \in 1 .. 2 * s + 2 /\ s + 1 + (2 + j) = s + 3 + j
    BY <1>1
  <2>2. blob[2 + j] = IF s + 3 + j <= n THEN Piece(j) ELSE Zero
    BY <1>1, <1>5, <2>1
  <2>3. s + 3 + j <= n <=> j <= m
    BY <1>1
  <2> HIDE DEF m
  <2>4. QED
    BY <2>2, <2>3 DEF Shown
<1> HIDE DEF m, k
<1> DEFINE insns == [i \in 1 .. k |-> <<Shown(m, 2 * i - 1), Shown(m, 2 * i)>>]
<1>10. Deserialized(blob) = insns
  <2>1. {i \in 1 .. blob[1][2] + blob[2][2] : 2 * i + 2 <= Len(blob)} = 1 .. k
    <3>1. \A i \in 1 .. k : 2 * i + 2 <= Len(blob)
      BY <1>1, <1>4, <1>6
    <3>2. QED
      BY <1>8, <3>1
  <2>2. Deserialized(blob) = [i \in 1 .. k |-> <<blob[2 * i + 1], blob[2 * i + 2]>>]
    BY <1>8, <2>1 DEF Deserialized
  <2>3. ASSUME NEW i \in 1 .. k
        PROVE  blob[2 * i + 1] = Shown(m, 2 * i - 1) /\ blob[2 * i + 2] = Shown(m, 2 * i)
    <3>1. /\ 2 * i - 1 \in 1 .. 2 * s /\ 2 * i \in 1 .. 2 * s
          /\ 2 + (2 * i - 1) = 2 * i + 1 /\ 2 + 2 * i = 2 * i + 2
      BY <1>1, <1>6
    <3>2. QED
      BY <1>9, <3>1
  <2>4. QED
    BY <2>2, <2>3
<1>11. CutAtWorst(insns, s)
  BY <1>6 DEF CutAtWorst, CutAt
<1>12. ASSUME d.whole # 0 PROVE insns = Decoded(s) /\ d.whole = s
  <2>1. n = 3 * s + 3 /\ d.whole = s
    BY <1>3, <1>12 DEF ReadOf
  <2>2. m = 2 * s /\ k = s
    BY <1>1, <2>1 DEF m, k
  <2>3. QED
    BY <1>1, <2>1, <2>2, AllShown
<1> HIDE DEF insns
<1>13. QED
  BY <1>2, <1>10, <1>11, <1>12 DEF blob

(* A block that was decoded is all there.                                  *)
LEMMA DecodedIsAll ==
    ASSUME NEW size \in Sizes
    PROVE  CutAtWorst(Decoded(size), size)
<1>1. size \in Nat
  BY SizesAssumption
<1>2. /\ 2 * size \in 0 .. 2 * size /\ size \in 0 .. size /\ ~(size < size)
  BY <1>1
<1>3. Decoded(size) = [n \in 1 .. size |-> <<Shown(2 * size, 2 * n - 1), Shown(2 * size, 2 * n)>>]
  BY <1>1, AllShown
<1>4. CutAt(Decoded(size), size, 2 * size)
  BY <1>2, <1>3, Zenon DEF CutAt
<1>5. QED
  BY <1>2, <1>4 DEF CutAtWorst

LEMMA HitStep == IInv /\ [Next]_vars => HitIsCutAtWorst' /\ WholeEntryServes'
<1> SUFFICES ASSUME TypeOK, OpenInv, ReadInv, HitIsCutAtWorst, WholeEntryServes, [Next]_vars
             PROVE  HitIsCutAtWorst' /\ WholeEntryServes'
  BY DEF IInv
<1> DEFINE Good(r) ==
       r.of = "disassembly" /\ r.undisturbed =>
           /\ CutAtWorst(r.insns, r.size)
           /\ r.whole # 0 \/ ~r.hit => r.insns = Decoded(r.size) /\ (r.hit => r.whole = r.size)
<1>1. SUFFICES ASSUME NEW r, r = result', r # result PROVE Good(r)
  BY DEF HitIsCutAtWorst, WholeEntryServes, Disassemblies, CutAtWorst
<1>2. ASSUME r.of # "disassembly" PROVE Good(r)
  BY <1>2
<1>3. ASSUME NEW u, NEW w, NEW size \in Sizes,
             r = [of |-> "disassembly", size |-> size, hit |-> FALSE, insns |-> Decoded(size),
                  undisturbed |-> u, whole |-> w]
      PROVE  Good(r)
  BY <1>3, DecodedIsAll
<1>4. ASSUME NEW p \in Processes, NEW k \in Keys, NEW size \in Sizes, GetOpen(p, k, size)
      PROVE  Good(r)
  <2>1. CASE entry[k] = None
    <3> DEFINE d == [call |-> "get", key |-> k, size |-> size, part |-> 1, read |-> << >>,
                     undisturbed |-> Cardinality(writers[k]) <= 1, whole |-> whole[k]]
    <3>1. r = [of |-> "disassembly", size |-> size, hit |-> FALSE, insns |-> Decoded(size),
               undisturbed |-> d.undisturbed, whole |-> d.whole]
      BY <1>1, <1>4, <2>1 DEF GetOpen, Answer, Return
    <3> HIDE DEF d
    <3>2. QED
      BY <1>3, <3>1
  <2>2. CASE entry[k] # None
    BY <1>1, <1>4, <2>2 DEF GetOpen, GoOn, NoResult
  <2>3. QED
    BY <2>1, <2>2
<1>5. ASSUME NEW p \in Processes, GetNoHeader(p) PROVE Good(r)
  <2>1. doing[p] \in GetCalls
    BY <1>5, CallsByName DEF GetNoHeader, TypeOK
  <2>2. doing[p].size \in Sizes
    BY <2>1 DEF GetCalls
  <2>3. QED
    BY <1>1, <1>3, <1>5, <2>2 DEF GetNoHeader, Answer, Return
<1>6. ASSUME NEW p \in Processes, GetReturn(p) PROVE Good(r)
  <2> DEFINE d == doing[p]
             insns == Deserialized(SubSeq(d.read, d.read[1][2] + 2, Len(d.read)))
  <2>1. d.call = "get" /\ d \in GetCalls /\ d.part = 4
    BY <1>6, CallsByName DEF GetReturn, TypeOK
  <2>2. d.size \in Sizes
    BY <2>1 DEF GetCalls
  <2>3. CASE ~Matches(d)
    BY <1>1, <1>3, <1>6, <2>2, <2>3 DEF GetReturn, Answer, Return
  <2>4. CASE Matches(d) /\ d.undisturbed
    <3>1. PICK s \in Sizes : ReadOf(d, s)
      BY <2>1, <2>4 DEF ReadInv, Follows
    <3>2. CutAtWorst(insns, d.size) /\ (d.whole # 0 => insns = Decoded(d.size) /\ d.whole = d.size)
      BY <2>1, <2>4, <3>1, HitIsCut
    <3>3. r = [of |-> "disassembly", size |-> d.size, hit |-> TRUE, insns |-> insns,
               undisturbed |-> d.undisturbed, whole |-> d.whole]
      BY <1>1, <1>6, <2>4 DEF GetReturn, Answer, Return
    <3> HIDE DEF insns, d
    <3>4. r.size = d.size /\ r.hit = TRUE /\ r.insns = insns /\ r.whole = d.whole
      BY <3>3
    <3>5. QED
      BY <3>2, <3>4
  <2>5. CASE Matches(d) /\ ~d.undisturbed
    <3>1. r = [of |-> "disassembly", size |-> d.size, hit |-> TRUE, insns |-> insns,
               undisturbed |-> d.undisturbed, whole |-> d.whole]
      BY <1>1, <1>6, <2>5 DEF GetReturn, Answer, Return
    <3> HIDE DEF insns
    <3>2. ~r.undisturbed
      BY <2>5, <3>1
    <3>3. QED
      BY <3>2
  <2>6. QED
    BY <2>3, <2>4, <2>5
<1>7. ASSUME NEW p \in Processes,
             \/ PutWrite(p) \/ PutReturn(p) \/ PutCutShort(p) \/ GetRead(p) \/ SweepReturn(p)
             \/ Crash(p)
             \/ \E targets \in Targets : SweepStart(p, targets)
             \/ \E k \in Keys, size \in Sizes : PutOpen(p, k, size)
             \/ \E k \in Keys : SweepEntry(p, k) \/ SweepThrows(p, k)
      PROVE  r.of # "disassembly"
  BY <1>1, <1>7, SMTT(30) DEF PutWrite, PutReturn, PutCutShort, GetRead, SweepReturn, Crash, SweepStart,
     PutOpen, SweepEntry, SweepThrows, GoOn, Return, NoResult
<1>8. ASSUME Open PROVE r.of # "disassembly"
  BY <1>1, <1>8 DEF Open, NoResult
<1>9. ASSUME UNCHANGED vars PROVE FALSE
  BY <1>1, <1>9 DEF vars
<1> HIDE DEF Good
<1>10. QED
  BY <1>2, <1>4, <1>5, <1>6, <1>7, <1>8, <1>9 DEF Next

-----------------------------------------------------------------------------
LEMMA InitIInv == Init => IInv
<1> SUFFICES ASSUME Init PROVE IInv
  OBVIOUS
<1>1. TypeOK
  BY CallsAreCalls DEF Init, TypeOK, NoResult
<1>2. \A p \in Processes : doing[p].call = "none"
  BY DEF Init, Idle
<1>3. OpenInv /\ WatchInv /\ RemovedStaysRemoved
  BY <1>2 DEF Init, OpenInv, WatchInv, RemovedStaysRemoved
<1>4. EntryInv
  BY FS_EmptySet DEF Init, EntryInv
<1>5. PutInv /\ ReadInv
  BY <1>2 DEF PutInv, ReadInv
<1>6. HitIsCutAtWorst /\ WholeEntryServes
  BY DEF Init, NoResult, HitIsCutAtWorst, WholeEntryServes, Disassemblies
<1>7. QED
  BY <1>1, <1>3, <1>4, <1>5, <1>6 DEF IInv

(* The inductive invariant of the processes that share a directory.        *)
THEOREM Inductive == Spec => []IInv
<1>1. Init => IInv
  BY InitIInv
<1>2. IInv /\ [Next]_vars => IInv'
  BY TypeStep, OpenStep, WatchStep, EntryStep, PutStep, ReadStep, HitStep DEF IInv
<1>3. QED
  BY <1>1, <1>2, PTL DEF Spec

(* Type correctness of the cache: whatever was cut short or overlaps, a    *)
(* file is a sequence of cells, and a call is at one of its places.        *)
THEOREM TypeCorrect == Spec => []TypeOK
<1>1. IInv => TypeOK
  BY DEF IInv
<1>2. QED
  BY <1>1, Inductive, PTL

(* For every size of block and every place in the bytes of its count: what *)
(* disassemble_cached shows, unless another process opens the entry for    *)
(* writing meanwhile or two have written it at once, are the first         *)
(* instructions of the block, at most one that is cut inside, and zeros.   *)
THEOREM HitsAreCutAtWorst == Spec => []HitIsCutAtWorst
<1>1. IInv => HitIsCutAtWorst
  BY DEF IInv
<1>2. QED
  BY <1>1, Inductive, PTL

(* And what was written to the end comes back with all its instructions.   *)
THEOREM WholeEntriesServe == Spec => []WholeEntryServes
<1>1. IInv => WholeEntryServes
  BY DEF IInv
<1>2. QED
  BY <1>1, Inductive, PTL

(* A walk that has returned has removed what was there when it began and   *)
(* was not written meanwhile, and it stays removed until it is put again,  *)
(* although no process takes a lock.                                       *)
THEOREM RemovedForGood == Spec => []RemovedStaysRemoved
<1>1. IInv => RemovedStaysRemoved
  BY DEF IInv
<1>2. QED
  BY <1>1, Inductive, PTL
=============================================================================
