---------------------- MODULE AnalysisPipeline_proofs -----------------------
(***************************************************************************)
(* Proofs about AnalysisPipeline, for every finite set of stages, every    *)
(* dependencies that go down, every configuration of the stages and any    *)
(* number of changes of the binary.                                        *)
(***************************************************************************)
EXTENDS AnalysisPipeline, FiniteSetTheorems, SequenceTheorems, TLAPS

-----------------------------------------------------------------------------
(* Closures.  The library's induction theorems take an operator, which the *)
(* provers cannot instantiate; here is induction for a set instead.        *)

(* Every set of numbers that is not empty has a least one.                 *)
LEMMA LeastNumber ==
    ASSUME NEW T \in SUBSET Nat, T # {}
    PROVE  \E m \in T : \A n \in T : m <= n
<1> DEFINE W == {0 .. m : m \in T}
           R == StrictSubsetOrdering(Nat)
<1>1. W \subseteq FiniteSubsetsOf(Nat) /\ W # {}
  <2>1. ASSUME NEW m \in T PROVE IsFiniteSet(0 .. m) /\ 0 .. m \subseteq Nat
    BY FS_Interval
  <2>2. QED
    BY <2>1 DEF FiniteSubsetsOf
<1>2. \E x \in W : \A y \in W : ~ (<<y, x>> \in R)
  <2>1. IsWellFoundedOn(R, FiniteSubsetsOf(Nat))
    BY FS_StrictSubsetOrderingWellFounded
  <2> HIDE DEF W, R
  <2>2. QED
    BY <1>1, <2>1, WFMin
<1>3. PICK m \in T : \A y \in W : <<y, 0 .. m>> \notin R
  BY <1>2
<1>4. ASSUME NEW n \in T, n < m PROVE FALSE
  <2>1. 0 .. n \subseteq 0 .. m /\ m \in 0 .. m /\ m \notin 0 .. n
    BY <1>4
  <2>2. <<0 .. n, 0 .. m>> \in R
    BY <2>1 DEF StrictSubsetOrdering
  <2>3. QED
    BY <1>3, <2>2
<1>5. ASSUME NEW n \in T PROVE m <= n
  <2>1. m \in Nat /\ n \in Nat /\ ~(n < m)
    BY <1>4
  <2>2. QED
    BY <2>1
<1>6. QED
  BY <1>3, <1>5, Zenon

(* Induction for a set of numbers.                                         *)
LEMMA Induction ==
    ASSUME NEW N \in Nat, NEW P, 0 \in P, \A n \in 1 .. N : n - 1 \in P => n \in P
    PROVE  \A n \in 0 .. N : n \in P
<1> DEFINE T == {n \in 0 .. N : n \notin P}
<1> SUFFICES ASSUME T # {} PROVE FALSE
  OBVIOUS
<1>1. PICK m \in T : \A n \in T : m <= n
  <2>1. T \in SUBSET Nat
    OBVIOUS
  <2> HIDE DEF T
  <2>2. QED
    BY <2>1, LeastNumber
<1>2. m \in 1 .. N /\ m - 1 \in 0 .. N /\ m - 1 \notin T
  BY <1>1
<1>3. QED
  BY <1>2
(* The function that Closure iterates is defined by its equation.          *)
Steps(S, next, N, f) ==
    f = [n \in 0 .. N |-> IF n = 0 THEN S ELSE f[n - 1] \cup UNION {next[s] : s \in f[n - 1]}]

LEMMA StepsExist ==
    ASSUME NEW S, NEW next, NEW N \in Nat
    PROVE  \E f : Steps(S, next, N, f)
<1> DEFINE P == {n \in Nat : \E f : Steps(S, next, n, f)}
<1>1. 0 \in P
  <2>1. Steps(S, next, 0, [n \in 0 .. 0 |-> S])
    BY DEF Steps
  <2>2. QED
    BY <2>1
<1>2. ASSUME NEW n \in 1 .. N, n - 1 \in P PROVE n \in P
  <2>1. PICK f : Steps(S, next, n - 1, f)
    BY <1>2
  <2> DEFINE more == f[n - 1] \cup UNION {next[s] : s \in f[n - 1]}
             g == [i \in 0 .. n |-> IF i = n THEN more ELSE f[i]]
  <2>2. ASSUME NEW i \in 0 .. n
        PROVE  g[i] = IF i = 0 THEN S ELSE g[i - 1] \cup UNION {next[s] : s \in g[i - 1]}
    <3>1. CASE i = 0
      <4>1. g[0] = f[0] /\ 0 \in 0 .. n - 1
        OBVIOUS
      <4>2. f[0] = S
        BY <2>1, <4>1 DEF Steps
      <4>3. QED
        BY <3>1, <4>1, <4>2
    <3>2. CASE i = n
      <4>1. g[i] = more /\ g[i - 1] = f[n - 1]
        BY <3>2
      <4>2. QED
        BY <3>2, <4>1
    <3>3. CASE i # 0 /\ i # n
      <4>1. i \in 0 .. n - 1 /\ g[i] = f[i] /\ g[i - 1] = f[i - 1]
        BY <3>3
      <4>2. f[i] = f[i - 1] \cup UNION {next[s] : s \in f[i - 1]}
        BY <2>1, <3>3, <4>1 DEF Steps
      <4> HIDE DEF g
      <4>3. QED
        BY <3>3, <4>1, <4>2
    <3>4. QED
      BY <3>1, <3>2, <3>3
  <2>3. g = [i \in 0 .. n |->
               IF i = 0 THEN S ELSE g[i - 1] \cup UNION {next[s] : s \in g[i - 1]}]
    BY <2>2
  <2>4. Steps(S, next, n, g)
    BY <2>3 DEF Steps
  <2>5. QED
    BY <2>4
<1> HIDE DEF P
<1>3. N \in P
  BY <1>1, <1>2, Induction
<1>4. QED
  BY <1>3 DEF P

IsClosed(C, next) == \A s \in C : next[s] \subseteq C

(* Closure is the least set of stages that holds the given ones and that   *)
(* next does not lead out of: it is found in as many rounds as there are   *)
(* stages, since a round that adds nothing is the last that matters.       *)
LEMMA ClosureIsLeast ==
    ASSUME NEW S \in SUBSET Stages, NEW next \in [Stages -> SUBSET Stages]
    PROVE  /\ Closure(S, next) \subseteq Stages
           /\ S \subseteq Closure(S, next)
           /\ IsClosed(Closure(S, next), next)
           /\ \A C : S \subseteq C /\ IsClosed(C, next) => Closure(S, next) \subseteq C
<1> DEFINE N == Cardinality(Stages)
<1>1. N \in Nat /\ IsFiniteSet(Stages)
  BY FS_CardinalityType, StagesAssumption
<1>2. PICK f : Steps(S, next, N, f) /\ Closure(S, next) = f[N]
  <2> DEFINE g == CHOOSE f : Steps(S, next, N, f)
  <2>1. Steps(S, next, N, g)
    BY <1>1, StepsExist
  <2>2. Closure(S, next) = g[N]
    BY DEF Closure, Steps
  <2>3. QED
    BY <2>1, <2>2
<1> HIDE DEF N
<1>3. f[0] = S
  BY <1>1, <1>2 DEF Steps
<1>4. ASSUME NEW n \in 1 .. N PROVE f[n] = f[n - 1] \cup UNION {next[s] : s \in f[n - 1]}
  <2>1. n \in 0 .. N /\ n # 0
    BY <1>1
  <2>2. f[n] = IF n = 0 THEN S ELSE f[n - 1] \cup UNION {next[s] : s \in f[n - 1]}
    BY <1>2, <2>1, Zenon DEF Steps
  <2>3. QED
    BY <2>1, <2>2
<1>5. \A n \in 0 .. N : f[n] \subseteq Stages
  <2> DEFINE P == {n \in Nat : f[n] \subseteq Stages}
  <2>1. 0 \in P
    BY <1>3
  <2>2. ASSUME NEW n \in 1 .. N, n - 1 \in P PROVE n \in P
    BY <1>4, <2>2
  <2> HIDE DEF P
  <2>3. \A n \in 0 .. N : n \in P
    BY <1>1, <2>1, <2>2, Induction
  <2>4. QED
    BY <2>3 DEF P
<1>6. \A n \in 0 .. N : S \subseteq f[n]
  <2> DEFINE P == {n \in Nat : S \subseteq f[n]}
  <2>1. 0 \in P
    BY <1>3
  <2>2. ASSUME NEW n \in 1 .. N, n - 1 \in P PROVE n \in P
    BY <1>4, <2>2
  <2> HIDE DEF P
  <2>3. \A n \in 0 .. N : n \in P
    BY <1>1, <2>1, <2>2, Induction
  <2>4. QED
    BY <2>3 DEF P
<1>7. ASSUME NEW C, S \subseteq C, IsClosed(C, next) PROVE f[N] \subseteq C
  <2> DEFINE P == {n \in Nat : f[n] \subseteq C}
  <2>1. 0 \in P
    BY <1>3, <1>7
  <2>2. ASSUME NEW n \in 1 .. N, n - 1 \in P PROVE n \in P
    BY <1>4, <1>7, <2>2 DEF IsClosed
  <2> HIDE DEF P
  <2>3. \A n \in 0 .. N : n \in P
    BY <1>1, <2>1, <2>2, Induction
  <2>4. QED
    BY <1>1, <2>3 DEF P
<1>8. IsClosed(f[N], next)
  <2> DEFINE P == {n \in Nat : IsClosed(f[n], next) \/ Cardinality(f[n]) >= n}
  <2>1. 0 \in P
    <3>1. f[0] \in SUBSET Stages
      BY <1>3
    <3>2. Cardinality(f[0]) \in Nat
      BY <1>1, <3>1, FS_Subset, FS_CardinalityType
    <3>3. QED
      BY <3>2
  <2>2. ASSUME NEW n \in 1 .. N, n - 1 \in P PROVE n \in P
    <3>1. CASE IsClosed(f[n - 1], next)
      <4>1. f[n] = f[n - 1]
        <5>1. UNION {next[s] : s \in f[n - 1]} \subseteq f[n - 1]
          BY <3>1 DEF IsClosed
        <5>2. f[n] = f[n - 1] \cup UNION {next[s] : s \in f[n - 1]}
          BY <1>4
        <5>3. QED
          BY <5>1, <5>2
      <4>2. QED
        BY <3>1, <4>1
    <3>2. CASE ~IsClosed(f[n - 1], next)
      <4>1. n - 1 \in 0 .. N /\ f[n - 1] \in SUBSET Stages /\ f[n] \in SUBSET Stages
        BY <1>1, <1>5
      <4>2. Cardinality(f[n - 1]) >= n - 1
        BY <2>2, <3>2
      <4>3. f[n - 1] \in SUBSET f[n] /\ f[n - 1] # f[n]
        BY <1>4, <3>2 DEF IsClosed
      <4>4. IsFiniteSet(f[n])
        BY <1>1, <4>1, FS_Subset
      <4>5. /\ IsFiniteSet(f[n - 1])
            /\ Cardinality(f[n - 1]) <= Cardinality(f[n])
            /\ Cardinality(f[n - 1]) # Cardinality(f[n])
        BY <4>3, <4>4, FS_Subset
      <4>6. Cardinality(f[n]) \in Nat /\ Cardinality(f[n - 1]) \in Nat
        BY <4>4, <4>5, FS_CardinalityType
      <4>7. QED
        BY <4>2, <4>5, <4>6
    <3>3. QED
      BY <3>1, <3>2
  <2> HIDE DEF P
  <2>3. N \in P
    BY <1>1, <2>1, <2>2, Induction
  <2>4. CASE Cardinality(f[N]) >= N
    <3>1. f[N] \in SUBSET Stages
      BY <1>1, <1>5
    <3>2. Cardinality(f[N]) <= N /\ Cardinality(f[N]) \in Nat
      BY <1>1, <3>1, FS_Subset, FS_CardinalityType DEF N
    <3>3. f[N] = Stages
      BY <1>1, <2>4, <3>1, <3>2, FS_Subset DEF N
    <3>4. QED
      BY <3>3 DEF IsClosed
  <2>5. QED
    BY <2>3, <2>4 DEF P
<1>9. QED
  BY <1>1, <1>2, <1>5, <1>6, <1>7, <1>8

-----------------------------------------------------------------------------
(* The frames of run_stage.                                                *)

LEMMA DepsAreBelow ==
    ASSUME NEW s \in Stages
    PROVE  /\ Deps[s] \in Seq(Stages)
           /\ DepSet(s) \subseteq Stages
           /\ \A d \in DepSet(s) : d < s
           /\ \A n \in 1 .. Len(Deps[s]) : Deps[s][n] \in DepSet(s)
           /\ \A d \in DepSet(s) : \E n \in 1 .. Len(Deps[s]) : Deps[s][n] = d
<1>1. Deps[s] \in Seq(Stages)
  BY DepsAssumption
<1>2. QED
  BY <1>1, DepsAssumption DEF DepSet

LEMMA NewFrame ==
    ASSUME NEW s \in Stages
    PROVE  /\ Frame(s) \in Frames
           /\ Frame(s).stage = s /\ Frame(s).todo = Deps[s]
           /\ DOMAIN Frame(s).inputs = DepSet(s)
           /\ \A d \in DepSet(s) : Frame(s).inputs[d] = "todo"
<1>1. DepSet(s) \in SUBSET Stages
  BY DepsAreBelow
<1>2. [d \in DepSet(s) |-> "todo"] \in [DepSet(s) -> {"todo", "null", "entry", "gone"}]
  OBVIOUS
<1>3. Frame(s) \in Frames
  BY <1>1, <1>2, DepsAreBelow DEF Frame, Frames
<1>4. QED
  BY <1>3 DEF Frame

(* A frame that is on the stack.                                           *)
LEMMA OldFrame ==
    ASSUME TypeOK, NEW i \in 1 .. Len(stack)
    PROVE  /\ stack[i] \in Frames
           /\ stack[i].stage \in Stages /\ stack[i].stage \in registered
           /\ stack[i].todo \in Seq(Stages)
           /\ stack[i].inputs \in
                [DepSet(stack[i].stage) -> {"todo", "null", "entry", "gone"}]
<1>1. stack[i] \in Frames
  BY DEF TypeOK
<1>2. stack[i].inputs \in UNION {[D -> {"todo", "null", "entry", "gone"}] : D \in SUBSET Stages}
  BY <1>1 DEF Frames
<1>3. PICK D \in SUBSET Stages : stack[i].inputs \in [D -> {"todo", "null", "entry", "gone"}]
  BY <1>2
<1>4. D = DepSet(stack[i].stage)
  BY <1>3 DEF TypeOK
<1>5. QED
  BY <1>1, <1>3, <1>4 DEF Frames, TypeOK

(* A frame whose inputs change is a frame.                                 *)
LEMMA ChangedFrame ==
    ASSUME NEW s \in Stages, NEW todo \in Seq(Stages),
           NEW inputs \in [DepSet(s) -> {"todo", "null", "entry", "gone"}]
    PROVE  [stage |-> s, todo |-> todo, inputs |-> inputs] \in Frames
<1>1. DepSet(s) \in SUBSET Stages
  BY DepsAreBelow
<1>2. QED
  BY <1>1 DEF Frames

(* What Lose makes of the stack.                                           *)
LEMMA LoseShape ==
    ASSUME TypeOK, NEW s \in Stages, Lose(s)
    PROVE  /\ stack' \in Seq(Frames)
           /\ Len(stack') = Len(stack) + 1
           /\ stack'[Len(stack) + 1] = Frame(s)
           /\ \A i \in 1 .. Len(stack) :
                /\ stack'[i].stage = stack[i].stage
                /\ stack'[i].todo = stack[i].todo
                /\ DOMAIN stack'[i].inputs = DepSet(stack[i].stage)
                /\ \A d \in DepSet(stack[i].stage) :
                     stack'[i].inputs[d] =
                       IF d = s /\ stack[i].inputs[d] = "entry" THEN "gone" ELSE stack[i].inputs[d]
<1> DEFINE lost(i) == [d \in DOMAIN stack[i].inputs |->
               IF d = s /\ stack[i].inputs[d] = "entry" THEN "gone" ELSE stack[i].inputs[d]]
           frames == [i \in 1 .. Len(stack) |-> [stack[i] EXCEPT !.inputs = lost(i)]]
<1>1. stack' = frames \o << Frame(s) >>
  BY DEF Lose
<1>2. ASSUME NEW i \in 1 .. Len(stack)
      PROVE  /\ frames[i] \in Frames
             /\ frames[i].stage = stack[i].stage
             /\ frames[i].todo = stack[i].todo
             /\ frames[i].inputs = lost(i)
             /\ DOMAIN lost(i) = DepSet(stack[i].stage)
  <2>1. /\ stack[i] \in Frames /\ stack[i].stage \in Stages /\ stack[i].todo \in Seq(Stages)
        /\ stack[i].inputs \in [DepSet(stack[i].stage) -> {"todo", "null", "entry", "gone"}]
    BY OldFrame
  <2>2. lost(i) \in [DepSet(stack[i].stage) -> {"todo", "null", "entry", "gone"}]
    BY <2>1
  <2> HIDE DEF lost
  <2>3. frames[i] = [stage |-> stack[i].stage, todo |-> stack[i].todo, inputs |-> lost(i)]
    BY <2>1 DEF Frames
  <2>4. frames[i] \in Frames
    BY <2>1, <2>2, <2>3, ChangedFrame
  <2> HIDE DEF frames
  <2>5. QED
    BY <2>2, <2>3, <2>4
<1>3. stack \in Seq(Frames) /\ Len(stack) \in Nat
  BY DEF TypeOK
<1>4. frames \in Seq(Frames) /\ Len(frames) = Len(stack)
  <2>1. frames \in [1 .. Len(stack) -> Frames]
    BY <1>2, Zenon
  <2> HIDE DEF frames
  <2>2. QED
    BY <1>3, <2>1
<1>5. \A i \in 1 .. Len(stack) : \A d \in DepSet(stack[i].stage) :
          lost(i)[d] = IF d = s /\ stack[i].inputs[d] = "entry" THEN "gone" ELSE stack[i].inputs[d]
  BY <1>2
<1>6. Frame(s) \in Frames
  BY NewFrame
<1> HIDE DEF frames, lost
<1>7. /\ stack' \in Seq(Frames) /\ Len(stack') = Len(stack) + 1
      /\ stack'[Len(stack) + 1] = Frame(s)
      /\ \A i \in 1 .. Len(stack) : stack'[i] = frames[i]
  BY <1>1, <1>3, <1>4, <1>6
<1>8. QED
  BY <1>2, <1>5, <1>7

(* What a call makes of it that need not lose an entry.                    *)
LEMMA PushShape ==
    ASSUME TypeOK, NEW s \in Stages, stack' = Append(stack, Frame(s))
    PROVE  /\ stack' \in Seq(Frames)
           /\ Len(stack') = Len(stack) + 1
           /\ stack'[Len(stack) + 1] = Frame(s)
           /\ \A i \in 1 .. Len(stack) : stack'[i] = stack[i]
<1>1. Frame(s) \in Frames /\ stack \in Seq(Frames)
  BY NewFrame DEF TypeOK
<1>2. QED
  BY <1>1

(* What is below the top.                                                  *)
LEMMA BelowTop ==
    ASSUME TypeOK, stack # << >>
    PROVE  /\ Len(stack) \in Nat \ {0}
           /\ Pop \in Seq(Frames)
           /\ Len(Pop) = Len(stack) - 1
           /\ \A i \in 1 .. Len(stack) - 1 : Pop[i] = stack[i]
<1> DEFINE m == Len(stack) - 1
<1>1. stack \in Seq(Frames) /\ Len(stack) \in Nat \ {0} /\ m \in Nat
  BY EmptySeq DEF TypeOK
<1>2. \A i \in 1 .. m : stack[i] \in Frames
  BY <1>1
<1> HIDE DEF m
<1>3. /\ SubSeq(stack, 1, m) \in Seq(Frames)
      /\ Len(SubSeq(stack, 1, m)) = IF 1 <= m THEN m - 1 + 1 ELSE 0
      /\ \A i \in 1 .. m - 1 + 1 : SubSeq(stack, 1, m)[i] = stack[1 + i - 1]
  BY <1>1, <1>2, SubSeqProperties
<1>4. Pop = SubSeq(stack, 1, m)
  BY DEF Pop, m
<1>5. Len(Pop) = m /\ \A i \in 1 .. m : Pop[i] = stack[i]
  BY <1>1, <1>3, <1>4
<1>6. QED
  BY <1>1, <1>3, <1>4, <1>5 DEF m

(* What the return of a call makes of it.                                  *)
LEMMA PopShape ==
    ASSUME TypeOK, stack # << >>, stack' = Pop
    PROVE  /\ Len(stack) \in Nat \ {0}
           /\ stack' \in Seq(Frames)
           /\ Len(stack') = Len(stack) - 1
           /\ \A i \in 1 .. Len(stack) - 1 : stack'[i] = stack[i]
BY BelowTop

(* And the answer of a dependency.                                         *)
LEMMA TakeShape ==
    ASSUME TypeOK, stack # << >>, Top.todo # << >>, NEW input \in {"entry", "null"},
           Take(input)
    PROVE  /\ Len(stack) \in Nat \ {0}
           /\ stack' \in Seq(Frames)
           /\ Len(stack') = Len(stack)
           /\ \A i \in 1 .. Len(stack) - 1 : stack'[i] = stack[i]
           /\ stack'[Len(stack)].stage = Top.stage
           /\ stack'[Len(stack)].todo = Tail(Top.todo)
           /\ DOMAIN stack'[Len(stack)].inputs = DepSet(Top.stage)
           /\ \A d \in DepSet(Top.stage) : stack'[Len(stack)].inputs[d] =
                 IF d = Head(Top.todo) THEN input ELSE Top.inputs[d]
<1> DEFINE f == [Top EXCEPT !.todo = Tail(@), !.inputs[Head(Top.todo)] = input]
<1>1. stack \in Seq(Frames) /\ Len(stack) \in Nat \ {0}
  BY DEF TypeOK
<1>2. /\ Top \in Frames /\ Top.stage \in Stages /\ Top.todo \in Seq(Stages)
      /\ Top.inputs \in [DepSet(Top.stage) -> {"todo", "null", "entry", "gone"}]
  BY <1>1, OldFrame DEF Top
<1>3. Tail(Top.todo) \in Seq(Stages)
  BY <1>2
<1> DEFINE inputs == [Top.inputs EXCEPT ![Head(Top.todo)] = input]
<1>4. /\ inputs \in [DepSet(Top.stage) -> {"todo", "null", "entry", "gone"}]
      /\ \A d \in DepSet(Top.stage) :
            inputs[d] = IF d = Head(Top.todo) THEN input ELSE Top.inputs[d]
  BY <1>2
<1>5. f = [stage |-> Top.stage, todo |-> Tail(Top.todo), inputs |-> inputs]
  <2>1. f = [Top EXCEPT !.todo = Tail(Top.todo), !.inputs = inputs]
    BY <1>2 DEF Frames
  <2> HIDE DEF f, inputs
  <2>2. QED
    BY <1>2, <2>1 DEF Frames
<1> HIDE DEF inputs, f
<1>6. f \in Frames
  BY <1>2, <1>3, <1>4, <1>5, ChangedFrame
<1>7. Pop \in Seq(Frames) /\ Len(Pop) = Len(stack) - 1
      /\ \A i \in 1 .. Len(stack) - 1 : Pop[i] = stack[i]
  BY BelowTop
<1>8. stack' = Append(Pop, f)
  BY DEF Take, f
<1>9. /\ stack' \in Seq(Frames) /\ Len(stack') = Len(stack)
      /\ \A i \in 1 .. Len(stack) - 1 : stack'[i] = stack[i]
      /\ stack'[Len(stack)] = f
  BY <1>1, <1>6, <1>7, <1>8
<1>10. QED
  BY <1>1, <1>4, <1>5, <1>9

-----------------------------------------------------------------------------
(* The plan.                                                               *)

LEMMA NextsAreStages ==
    ASSUME registered \subseteq Stages
    PROVE  /\ DirectDependencies \in [Stages -> SUBSET Stages]
           /\ DirectDependents \in [Stages -> SUBSET Stages]
BY DepsAreBelow DEF DirectDependencies, DirectDependents

(* The members of a finite set of numbers, by the number of those below:   *)
(* a greater member has a greater rank, and every rank is that of one.     *)
Rank(s, S) == Cardinality({t \in S : t < s})

LEMMA Ranks ==
    ASSUME NEW S \in SUBSET Nat, IsFiniteSet(S)
    PROVE  /\ \A s \in S : Rank(s, S) \in 0 .. Cardinality(S) - 1
           /\ \A s, t \in S : s < t => Rank(s, S) < Rank(t, S)
           /\ \A i \in 1 .. Cardinality(S) : \E s \in S : Rank(s, S) = i - 1
<1> DEFINE Below(s) == {t \in S : t < s}
           C == Cardinality(S)
           rank == [s \in S |-> Cardinality(Below(s))]
<1>1. C \in Nat
  BY FS_CardinalityType
<1>2. ASSUME NEW s \in S
      PROVE  /\ IsFiniteSet(Below(s)) /\ rank[s] = Cardinality(Below(s)) /\ rank[s] = Rank(s, S)
             /\ rank[s] \in 0 .. C - 1
  <2>1. /\ Below(s) \in SUBSET (S \ {s}) /\ rank[s] = Cardinality(Below(s))
        /\ rank[s] = Rank(s, S)
    BY DEF Rank
  <2>2. IsFiniteSet(S \ {s}) /\ Cardinality(S \ {s}) = C - 1
    BY FS_RemoveElement
  <2> HIDE DEF Below, rank, C
  <2>3. IsFiniteSet(Below(s)) /\ Cardinality(Below(s)) <= C - 1
    BY <2>1, <2>2, FS_Subset
  <2>4. Cardinality(Below(s)) \in Nat
    BY <2>3, FS_CardinalityType
  <2>5. QED
    BY <1>1, <2>1, <2>3, <2>4
<1>3. ASSUME NEW s \in S, NEW t \in S, s < t PROVE rank[s] < rank[t]
  <2>1. Below(s) \in SUBSET Below(t) /\ Below(s) # Below(t)
    <3>1. s \in Nat /\ t \in Nat
      OBVIOUS
    <3>2. s \in Below(t) /\ s \notin Below(s)
      BY <1>3, <3>1
    <3>3. ASSUME NEW r \in Below(s) PROVE r \in Below(t)
      <4>1. r \in S /\ r \in Nat /\ r < s
        OBVIOUS
      <4>2. r < t
        BY <1>3, <3>1, <4>1
      <4>3. QED
        BY <4>1, <4>2
    <3> HIDE DEF Below
    <3>4. QED
      BY <3>2, <3>3
  <2> HIDE DEF Below, rank, C
  <2>2. /\ Cardinality(Below(s)) # Cardinality(Below(t))
        /\ Cardinality(Below(s)) <= Cardinality(Below(t))
    BY <1>2, <2>1, FS_Subset
  <2>3. QED
    BY <1>1, <1>2, <2>2
<1>4. rank \in [S -> 0 .. C - 1]
  BY <1>2
<1> HIDE DEF Below, rank
<1>5. ASSUME NEW s \in S, NEW t \in S, rank[s] = rank[t] PROVE s = t
  <2>1. s \in Nat /\ t \in Nat /\ rank[s] \in 0 .. C - 1
    BY <1>2
  <2>2. ~(s < t) /\ ~(t < s)
    BY <1>1, <1>3, <1>5, <2>1
  <2>3. QED
    BY <2>1, <2>2
<1>6. rank \in Injection(S, 0 .. C - 1)
  BY <1>4, <1>5 DEF Injection, IsInjective
<1>7. IsFiniteSet(0 .. C - 1) /\ Cardinality(0 .. C - 1) = C
  <2>1. Cardinality(0 .. C - 1) = IF 0 > C - 1 THEN 0 ELSE C - 1 - 0 + 1
    BY <1>1, FS_Interval
  <2>2. QED
    BY <1>1, <2>1, FS_Interval
<1>8. rank \in Surjection(S, 0 .. C - 1)
  BY <1>6, <1>7, FS_Injection
<1>9. ASSUME NEW i \in 1 .. C PROVE \E s \in S : Rank(s, S) = i - 1
  <2>1. i - 1 \in 0 .. C - 1
    BY <1>1
  <2>2. PICK s \in S : rank[s] = i - 1
    BY <1>8, <2>1 DEF Surjection
  <2>3. QED
    BY <1>2, <2>2
<1>10. QED
  BY <1>2, <1>3, <1>9

(* build_plan: the targets and everything they are made from, once each    *)
(* and every dependency before what depends on it.                         *)
LEMMA PlanGoesUp ==
    ASSUME registered \subseteq Stages, NEW targets \in SUBSET Stages
    PROVE  LET p == BuildPlan(targets)
               needed == Closure(targets, DirectDependencies)
           IN /\ p \in Seq(needed)
              /\ \A s \in needed : \E i \in 1 .. Len(p) : p[i] = s
              /\ \A i, j \in 1 .. Len(p) : i < j => p[i] < p[j]
<1> DEFINE needed == Closure(targets, DirectDependencies)
           p == BuildPlan(targets)
           C == Cardinality(needed)
<1>1. needed \in SUBSET Stages
  BY NextsAreStages, ClosureIsLeast
<1>2. p = [i \in 1 .. C |-> CHOOSE s \in needed : Rank(s, needed) = i - 1]
  BY DEF BuildPlan, Rank
<1> HIDE DEF needed
<1>3. IsFiniteSet(needed) /\ C \in Nat /\ needed \in SUBSET Nat
  BY <1>1, StagesAssumption, FS_Subset, FS_CardinalityType
<1> HIDE DEF p, C
<1>4. /\ \A s \in needed : Rank(s, needed) \in 0 .. C - 1
      /\ \A s, t \in needed : s < t => Rank(s, needed) < Rank(t, needed)
      /\ \A i \in 1 .. C : \E s \in needed : Rank(s, needed) = i - 1
  BY <1>3, Ranks DEF C
<1>5. ASSUME NEW i \in 1 .. C PROVE p[i] \in needed /\ Rank(p[i], needed) = i - 1
  <2>1. p[i] = CHOOSE s \in needed : Rank(s, needed) = i - 1
    BY <1>2
  <2>2. \E s \in needed : Rank(s, needed) = i - 1
    BY <1>4
  <2>3. QED
    BY <2>1, <2>2
<1>6. p \in Seq(needed) /\ Len(p) = C
  <2>1. p \in [1 .. C -> needed]
    BY <1>2, <1>5
  <2>2. QED
    BY <1>3, <2>1
<1>7. ASSUME NEW s \in needed, NEW t \in needed, Rank(s, needed) <= Rank(t, needed)
      PROVE  s <= t
  <2>1. /\ s \in Nat /\ t \in Nat
        /\ Rank(s, needed) \in 0 .. C - 1 /\ Rank(t, needed) \in 0 .. C - 1
    BY <1>3, <1>4
  <2>2. t < s => Rank(t, needed) < Rank(s, needed)
    BY <1>4
  <2> DEFINE r == Rank(s, needed)
             q == Rank(t, needed)
  <2>3. r \in Int /\ q \in Int /\ r <= q /\ (t < s => q < r)
    BY <1>3, <1>7, <2>1, <2>2
  <2> HIDE DEF r, q
  <2>4. QED
    BY <2>1, <2>3
<1>8. ASSUME NEW s \in needed PROVE \E i \in 1 .. C : p[i] = s
  <2>1. Rank(s, needed) \in 0 .. C - 1
    BY <1>4
  <2>2. PICK i \in 1 .. C : i - 1 = Rank(s, needed)
    <3>1. \A r \in 0 .. C - 1 : \E i \in 1 .. C : i - 1 = r
      <4>1. ASSUME NEW r \in 0 .. C - 1 PROVE r + 1 \in 1 .. C /\ r + 1 - 1 = r
        BY <1>3
      <4>2. QED
        BY <4>1
    <3>2. QED
      BY <2>1, <3>1, Zenon
  <2>3. p[i] \in needed /\ Rank(p[i], needed) = Rank(s, needed)
    BY <1>5, <2>2
  <2>4. p[i] \in Nat /\ s \in Nat
    BY <1>3, <2>3
  <2>5. Rank(s, needed) <= Rank(p[i], needed) /\ Rank(p[i], needed) <= Rank(s, needed)
    BY <1>3, <2>1, <2>3
  <2>6. s <= p[i] /\ p[i] <= s
    BY <1>7, <2>3, <2>5
  <2>7. QED
    BY <2>4, <2>6
<1>9. ASSUME NEW i \in 1 .. C, NEW j \in 1 .. C, i < j PROVE p[i] < p[j]
  <2>1. /\ p[i] \in needed /\ p[j] \in needed
        /\ Rank(p[i], needed) = i - 1 /\ Rank(p[j], needed) = j - 1
    BY <1>5
  <2>2. p[i] <= p[j]
    <3>1. i - 1 <= j - 1
      BY <1>3, <1>9
    <3>2. Rank(p[i], needed) <= Rank(p[j], needed)
      BY <2>1, <3>1, Zenon
    <3>3. QED
      BY <1>7, <2>1, <3>2, Zenon
  <2>3. p[i] # p[j]
    BY <1>3, <1>9, <2>1
  <2>4. p[i] \in Nat /\ p[j] \in Nat
    BY <1>3, <2>1
  <2>5. QED
    BY <2>2, <2>3, <2>4
<1>10. QED
  BY <1>6, <1>8, <1>9 DEF p, needed

LEMMA PlanIsStages ==
    ASSUME registered \subseteq Stages, NEW targets \in SUBSET Stages
    PROVE  BuildPlan(targets) \in Seq(Stages)
<1>1. Closure(targets, DirectDependencies) \subseteq Stages
  BY NextsAreStages, ClosureIsLeast
<1>2. BuildPlan(targets) \in Seq(Closure(targets, DirectDependencies))
  BY PlanGoesUp
<1>3. QED
  BY <1>1, <1>2, SeqDef

-----------------------------------------------------------------------------
(* Type correctness.                                                       *)

(* What the calls that are asked for are.                                  *)
LEMMA AskedIsStage ==
    ASSUME TypeOK, StackInv, call # None \/ ret # None
    PROVE  /\ Asked \in Stages
           /\ stack # << >> =>
                Asked = Head(Top.todo) /\ Top.todo # << >> /\ Asked \in DepSet(Top.stage)
<1>1. CASE stack = << >>
  <2>1. plan \in Seq(Stages) /\ plan # << >>
    BY DEF TypeOK, StackInv
  <2>2. Asked = Head(plan)
    BY <1>1 DEF Asked, AskedBy
  <2>3. QED
    BY <1>1, <2>1, <2>2
<1>2. CASE stack # << >>
  <2>1. Len(stack) \in Nat \ {0}
    BY <1>2, BelowTop
  <2>2. Top.todo # << >> /\ Asked = Head(Top.todo)
    BY <2>1 DEF StackInv, Top, Asked, AskedBy
  <2>3. Top.todo \in Seq(Stages) /\ Top.stage \in Stages
    BY <2>1, OldFrame DEF Top
  <2>4. Top.todo[1] \in DepSet(Top.stage) /\ Head(Top.todo) = Top.todo[1]
    <3>1. Len(Top.todo) \in Nat \ {0}
      BY <2>2, <2>3, EmptySeq
    <3>2. Listed(Top)
      BY <2>1 DEF StackInv, Top
    <3>3. QED
      BY <2>3, <3>1, <3>2 DEF Listed
  <2>5. QED
    BY <2>2, <2>3, <2>4, DepsAreBelow
<1>3. QED
  BY <1>1, <1>2

LEMMA MadeIsArtifact ==
    ASSUME NEW v \in Versions, NEW w \in BOOLEAN
    PROVE  Made(v, w) \in Artifacts
BY DEF Artifacts

LEMMA WholeIsBoolean == \A f : Whole(f) \in BOOLEAN
BY DEF Whole

LEMMA TypeStep == TypeOK /\ StackInv /\ InputInv /\ [Next]_vars => TypeOK'
<1> SUFFICES ASSUME TypeOK, StackInv, InputInv, [Next]_vars PROVE TypeOK'
  OBVIOUS
<1>1. ASSUME NEW s \in Stages \ registered, Register(s) PROVE TypeOK'
  BY <1>1 DEF Register, Idle, TypeOK
<1>2. ASSUME ChangeBinary PROVE TypeOK'
  BY <1>2, StagesAssumption DEF ChangeBinary, Versions, TypeOK
<1>3. ASSUME NEW S, Uncache(S) PROVE TypeOK'
  BY <1>3 DEF Uncache, TypeOK
<1>4. ASSUME NEW stages \in Seq(Stages), Launch(stages) PROVE TypeOK'
  BY <1>4 DEF Launch, TypeOK
<1>5. ASSUME NEW s \in Stages, RunStage(s) PROVE TypeOK'
  <2>1. << s >> \in Seq(Stages)
    OBVIOUS
  <2>2. QED
    BY <1>4, <1>5, <2>1 DEF RunStage
<1>6. ASSUME NEW targets \in Targets \cup {registered}, RunStages(targets) PROVE TypeOK'
  <2>1. targets \in SUBSET Stages /\ registered \subseteq Stages
    BY ConfigAssumption DEF TypeOK
  <2>2. BuildPlan(targets) \in Seq(Stages)
    BY <2>1, PlanIsStages
  <2>3. QED
    BY <1>4, <1>6, <2>2 DEF RunStages
<1>7. ASSUME CallNext PROVE TypeOK'
  BY <1>7 DEF CallNext, TypeOK
<1>8. ASSUME Enter PROVE TypeOK'
  <2>1. call \in Stages /\ call' = None /\ ret = None
    BY <1>8 DEF Enter, TypeOK
  <2>2. UNCHANGED <<registered, version, plan, result, runs>>
    BY <1>8 DEF Enter
  <2>3. CASE call \notin registered
    BY <1>8, <2>1, <2>2, <2>3 DEF Enter, TypeOK
  <2>4. CASE call \in registered \ Cacheable
    <3>1. Lose(call) /\ UNCHANGED ret
      BY <1>8, <2>4 DEF Enter
    <3>2. cache' \in [Stages -> Artifacts \cup {Absent, Empty}]
      BY <3>1 DEF Lose, TypeOK
    <3>3. /\ stack' \in Seq(Frames)
          /\ \A i \in 1 .. Len(stack') : stack'[i].stage \in registered
                                        /\ DOMAIN stack'[i].inputs = DepSet(stack'[i].stage)
      <4>1. Len(stack) \in Nat
        BY DEF TypeOK
      <4>2. QED
        BY <2>1, <2>4, <3>1, <4>1, LoseShape, NewFrame, OldFrame
    <3>4. QED
      BY <2>1, <2>2, <3>1, <3>2, <3>3 DEF TypeOK
  <2>5. CASE call \in registered \cap Cacheable /\ cache[call].kind # "absent" /\ ~Stale(call)
    <3>1. ret' = cache[call] /\ UNCHANGED <<cache, stack>>
      BY <1>8, <2>5 DEF Enter
    <3>2. cache[call] \in Artifacts
      BY <2>1, <2>5 DEF TypeOK, InputInv, Absent
    <3>3. QED
      BY <2>1, <2>2, <3>1, <3>2 DEF TypeOK
  <2>6. CASE call \in registered \cap Cacheable /\ ~(cache[call].kind # "absent" /\ ~Stale(call))
    <3>1. stack' = Append(stack, Frame(call)) /\ UNCHANGED <<cache, ret>>
      BY <1>8, <2>6 DEF Enter
    <3>2. /\ stack' \in Seq(Frames)
          /\ \A i \in 1 .. Len(stack') : stack'[i].stage \in registered
                                        /\ DOMAIN stack'[i].inputs = DepSet(stack'[i].stage)
      <4>1. Len(stack) \in Nat
        BY DEF TypeOK
      <4>2. QED
        BY <2>1, <2>6, <3>1, <4>1, PushShape, NewFrame DEF TypeOK
    <3>3. QED
      BY <2>1, <2>2, <3>1, <3>2 DEF TypeOK
  <2>7. QED
    BY <2>3, <2>4, <2>5, <2>6
<1>9. ASSUME NextDependency PROVE TypeOK'
  <2>1. Len(stack) \in 1 .. Len(stack)
    BY <1>9, BelowTop DEF NextDependency
  <2>2. Top.todo \in Seq(Stages) /\ Top.todo # << >>
    BY <1>9, <2>1, OldFrame DEF Top, NextDependency
  <2>3. Head(Top.todo) \in Stages
    BY <2>2
  <2>4. QED
    BY <1>9, <2>3 DEF NextDependency, TypeOK
<1>10. ASSUME NEW input \in {"entry", "null"}, Receive, Take(input),
              cache' \in [Stages -> Artifacts \cup {Absent, Empty}]
       PROVE  TypeOK'
  <2>1. stack # << >> /\ ret # None
    BY <1>10 DEF Receive
  <2>2. Top.todo # << >>
    BY <2>1, AskedIsStage
  <2>3. /\ stack' \in Seq(Frames)
        /\ \A i \in 1 .. Len(stack') : stack'[i].stage \in registered
                                      /\ DOMAIN stack'[i].inputs = DepSet(stack'[i].stage)
    <3>1. /\ Len(stack) \in Nat \ {0} /\ stack' \in Seq(Frames) /\ Len(stack') = Len(stack)
          /\ \A i \in 1 .. Len(stack) - 1 : stack'[i] = stack[i]
          /\ stack'[Len(stack)].stage = Top.stage
          /\ DOMAIN stack'[Len(stack)].inputs = DepSet(Top.stage)
      BY <1>10, <2>1, <2>2, TakeShape
    <3>2. Top.stage \in registered
      BY <3>1 DEF Top, TypeOK
    <3>3. ASSUME NEW i \in 1 .. Len(stack')
          PROVE  stack'[i].stage \in registered /\ DOMAIN stack'[i].inputs = DepSet(stack'[i].stage)
      <4>1. CASE i = Len(stack)
        BY <3>1, <3>2, <4>1
      <4>2. CASE i # Len(stack)
        <5>1. i \in 1 .. Len(stack) /\ stack'[i] = stack[i]
          BY <3>1, <4>2
        <5>2. QED
          BY <5>1 DEF TypeOK
      <4>3. QED
        BY <4>1, <4>2
    <3>4. QED
      BY <3>1, <3>3
  <2>4. QED
    BY <1>10, <2>3 DEF Receive, Take, TypeOK
<1>11. ASSUME stack # << >>, stack' = Pop
       PROVE  /\ stack' \in Seq(Frames)
              /\ \A i \in 1 .. Len(stack') : stack'[i].stage \in registered
                                            /\ DOMAIN stack'[i].inputs = DepSet(stack'[i].stage)
  <2>1. /\ Len(stack) \in Nat \ {0} /\ stack' \in Seq(Frames) /\ Len(stack') = Len(stack) - 1
        /\ \A i \in 1 .. Len(stack) - 1 : stack'[i] = stack[i]
    BY <1>11, PopShape
  <2>2. QED
    BY <2>1 DEF TypeOK
<1>12. ASSUME Receive PROVE TypeOK'
  <2>1. stack # << >> /\ ret # None /\ Asked \in Stages /\ Asked = Head(Top.todo)
    BY <1>12, AskedIsStage DEF Receive
  <2>2. CASE ret # Failure
    <3>1. cache' \in [Stages -> Artifacts \cup {Absent, Empty}]
      BY <1>12, <2>1, <2>2 DEF Receive, TypeOK
    <3>2. QED
      BY <1>10, <1>12, <2>2, <3>1 DEF Receive
  <2>3. CASE ret = Failure /\ Top.stage \in SkipOnError
    <3>1. cache' \in [Stages -> Artifacts \cup {Absent, Empty}]
      BY <1>12, <2>3 DEF Receive, TypeOK
    <3>2. QED
      BY <1>10, <1>12, <2>3, <3>1 DEF Receive
  <2>4. CASE ret = Failure /\ Top.stage \notin SkipOnError
    BY <1>11, <1>12, <2>1, <2>4 DEF Receive, TypeOK
  <2>5. QED
    BY <2>2, <2>3, <2>4
<1>13. ASSUME Run PROVE TypeOK'
  <2>1. stack # << >> /\ stack' = Pop
    BY <1>13 DEF Run
  <2>2. Len(stack) \in 1 .. Len(stack)
    BY <2>1, BelowTop
  <2>3. Top.stage \in Stages
    BY <2>2, OldFrame DEF Top
  <2>4. Made(version, Whole(Top)) \in Artifacts
    BY MadeIsArtifact, WholeIsBoolean DEF TypeOK
  <2>5. ret' \in Artifacts \cup {Failure} /\ call = None /\ call' = None
    BY <1>13, <2>4 DEF Run
  <2>6. cache' \in [Stages -> Artifacts \cup {Absent, Empty}]
    BY <1>13, <2>3, <2>4 DEF Run, TypeOK
  <2>7. runs' \in [Stages -> Nat]
    <3>1. runs \in [Stages -> Nat] /\ runs[Top.stage] + 1 \in Nat
      BY <2>3 DEF TypeOK
    <3>2. runs' = [runs EXCEPT ![Top.stage] = runs[Top.stage] + 1] \/ runs' = runs
      BY <1>13 DEF Run
    <3>3. QED
      BY <3>1, <3>2
  <2>8. QED
    BY <1>11, <1>13, <2>1, <2>5, <2>6, <2>7 DEF Run, TypeOK
<1>14. ASSUME PlanStepDone PROVE TypeOK'
  <2>1. << >> \in Seq(Stages) /\ Tail(plan) \in Seq(Stages)
    BY <1>14 DEF PlanStepDone, TypeOK
  <2>2. QED
    BY <1>14, <2>1 DEF PlanStepDone, TypeOK
<1>15. ASSUME UNCHANGED vars PROVE TypeOK'
  BY <1>15 DEF vars, TypeOK
<1>16. QED
  BY <1>1, <1>2, <1>3, <1>5, <1>6, <1>7, <1>8, <1>9, <1>12, <1>13, <1>14, <1>15,
     ConfigAssumption
     DEF Next, Client, Pipeline, ClearCache, ClearStageCache, Invalidate, InvalidateFrom

-----------------------------------------------------------------------------
(* The discipline of the frames.                                           *)

(* A call that is entered and pushes its frame.                            *)
LEMMA PushKeeps ==
    ASSUME TypeOK, StackInv, call # None, call' = None, ret' = None, UNCHANGED plan,
           Len(stack') = Len(stack) + 1, stack'[Len(stack) + 1] = Frame(call),
           \A i \in 1 .. Len(stack) :
              /\ stack'[i].stage = stack[i].stage /\ stack'[i].todo = stack[i].todo
              /\ \A d \in DepSet(stack[i].stage) :
                   stack'[i].inputs[d] = "todo" => stack[i].inputs[d] = "todo"
    PROVE  StackInv'
<1>1. Len(stack) \in Nat /\ call = Asked /\ call \in Stages
  BY DEF TypeOK, StackInv
<1>2. ASSUME NEW n \in 0 .. Len(stack) PROVE AskedBy(n)' = AskedBy(n)
  BY <1>2 DEF AskedBy
<1>3. ASSUME NEW i \in 1 .. Len(stack)
      PROVE  /\ stack'[i].stage = AskedBy(i - 1)'
             /\ stack'[i].todo # << >>
             /\ \A j \in 1 .. i - 1 : stack'[i].stage < stack'[j].stage
             /\ Listed(stack'[i])
  <2>1. i - 1 \in 0 .. Len(stack) /\ \A j \in 1 .. i - 1 : j \in 1 .. Len(stack)
    BY <1>1
  <2>2. AskedBy(i - 1)' = AskedBy(i - 1)
    BY <1>2, <2>1
  <2>3. Listed(stack'[i])
    <3>1. Listed(stack[i])
      BY DEF StackInv
    <3>2. QED
      BY <3>1 DEF Listed
  <2>4. /\ stack[i].stage = AskedBy(i - 1) /\ stack[i].todo # << >>
        /\ \A j \in 1 .. i - 1 : stack[i].stage < stack[j].stage
    BY DEF StackInv
  <2>5. QED
    BY <2>1, <2>2, <2>3, <2>4
<1>4. ASSUME NEW i, i = Len(stack) + 1
      PROVE  /\ stack'[i].stage = AskedBy(i - 1)'
             /\ \A j \in 1 .. i - 1 : stack'[i].stage < stack'[j].stage
             /\ Listed(stack'[i])
  <2>1. stack'[i].stage = call /\ stack'[i].todo = Deps[call]
    BY <1>1, <1>4, NewFrame
  <2>2. call = AskedBy(i - 1)'
    <3>1. i - 1 = Len(stack)
      BY <1>1, <1>4
    <3>2. i - 1 \in 0 .. Len(stack) /\ call = AskedBy(i - 1)
      BY <1>1, <3>1 DEF Asked
    <3>3. QED
      BY <1>2, <3>2
  <2>3. ASSUME NEW j \in 1 .. Len(stack) PROVE call < stack'[j].stage
    <3>1. stack # << >> /\ Len(stack) \in 1 .. Len(stack)
      BY <1>1
    <3>2. Top.stage \in Nat /\ Top.stage \in Stages /\ call \in Nat /\ stack[j].stage \in Nat
      BY <1>1, <3>1, OldFrame, StagesAssumption DEF Top
    <3>3. call < Top.stage
      BY <1>1, <3>1, <3>2, AskedIsStage, DepsAreBelow
    <3>4. j = Len(stack) \/ Top.stage < stack[j].stage
      BY <1>1, <3>1 DEF StackInv, Top
    <3>5. QED
      BY <3>2, <3>3, <3>4 DEF Top
  <2>4. Listed(stack'[i])
    BY <1>1, <2>1, DepsAreBelow DEF Listed
  <2>5. i - 1 = Len(stack)
    BY <1>1, <1>4
  <2>6. QED
    BY <2>1, <2>2, <2>3, <2>4, <2>5
<1>5. ASSUME NEW i \in 1 .. Len(stack') PROVE i \in 1 .. Len(stack) \/ i = Len(stack) + 1
  BY <1>1
<1>6. plan' # << >>
  BY DEF StackInv
<1>7. ASSUME NEW i \in 1 .. Len(stack')
      PROVE  /\ stack'[i].stage = AskedBy(i - 1)'
             /\ i < Len(stack') => stack'[i].todo # << >>
             /\ \A j \in 1 .. i - 1 : stack'[i].stage < stack'[j].stage
             /\ Listed(stack'[i])
  <2>1. CASE i \in 1 .. Len(stack)
    BY <1>3, <2>1
  <2>2. CASE i = Len(stack) + 1
    BY <1>4, <2>2
  <2>3. QED
    BY <1>5, <2>1, <2>2
<1>8. QED
  BY <1>6, <1>7 DEF StackInv

(* The answer that the top frame takes.                                    *)
LEMMA TakeKeeps ==
    ASSUME TypeOK, StackInv, stack # << >>, ret # None, call = None, UNCHANGED <<plan, call>>,
           NEW input \in {"entry", "null"}, Take(input)
    PROVE  StackInv'
<1>1. Top.todo # << >> /\ plan # << >> /\ ret' = None
  BY AskedIsStage DEF StackInv, Take
<1> DEFINE N == Len(stack)
<1>2. /\ N \in Nat \ {0} /\ Len(stack') = N
      /\ \A i \in 1 .. N - 1 : stack'[i] = stack[i]
      /\ stack'[N].stage = Top.stage
      /\ stack'[N].todo = Tail(Top.todo)
      /\ \A d \in DepSet(Top.stage) : stack'[N].inputs[d] =
            IF d = Head(Top.todo) THEN input ELSE Top.inputs[d]
  BY <1>1, TakeShape
<1>3. Top = stack[N] /\ Top.todo \in Seq(Stages)
  BY <1>2, OldFrame DEF Top
<1>4. ASSUME NEW n \in 0 .. N - 1 PROVE AskedBy(n)' = AskedBy(n)
  BY <1>2 DEF AskedBy
<1>5. ASSUME NEW i \in 1 .. N PROVE stack'[i].stage = stack[i].stage
  BY <1>2, <1>3
<1>6. ASSUME NEW i \in 1 .. N
      PROVE  /\ stack'[i].stage = AskedBy(i - 1)'
             /\ i < N => stack'[i].todo # << >>
             /\ \A j \in 1 .. i - 1 : stack'[i].stage < stack'[j].stage
  <2>1. i - 1 \in 0 .. N - 1 /\ \A j \in 1 .. i - 1 : j \in 1 .. N
    BY <1>2
  <2>2. i < N => stack'[i] = stack[i]
    BY <1>2
  <2>3. QED
    BY <1>4, <1>5, <2>1, <2>2 DEF StackInv
<1>7. ASSUME NEW i \in 1 .. N - 1 PROVE Listed(stack'[i])
  <2>1. stack'[i] = stack[i] /\ i \in 1 .. N
    BY <1>2
  <2>2. Listed(stack[i])
    BY <2>1 DEF StackInv
  <2>3. QED
    BY <2>1, <2>2
<1>8. Listed(stack'[N])
  <2>1. /\ Len(Tail(Top.todo)) = Len(Top.todo) - 1 /\ Len(Top.todo) \in Nat \ {0}
        /\ Head(Top.todo) = Top.todo[1]
        /\ \A n \in 1 .. Len(Top.todo) - 1 : Tail(Top.todo)[n] = Top.todo[n + 1]
    BY <1>1, <1>3, EmptySeq, HeadTailProperties
  <2>2. /\ \A n \in 1 .. Len(Top.todo) : Top.todo[n] \in DepSet(Top.stage)
        /\ \A d \in DepSet(Top.stage) : Top.inputs[d] = "todo" =>
              \E n \in 1 .. Len(Top.todo) : Top.todo[n] = d
    <3>1. Listed(Top)
      BY <1>2, <1>3 DEF StackInv
    <3>2. QED
      BY <3>1 DEF Listed
  <2>3. ASSUME NEW n \in 1 .. Len(Top.todo) - 1
        PROVE  Tail(Top.todo)[n] \in DepSet(Top.stage)
    <3>1. n + 1 \in 1 .. Len(Top.todo)
      BY <2>1
    <3>2. QED
      BY <2>1, <2>2, <3>1
  <2>4. ASSUME NEW d \in DepSet(Top.stage), stack'[N].inputs[d] = "todo"
        PROVE  \E n \in 1 .. Len(Top.todo) - 1 : Tail(Top.todo)[n] = d
    <3>1. d # Head(Top.todo) /\ Top.inputs[d] = "todo"
      BY <1>2, <2>4
    <3>2. PICK n \in 1 .. Len(Top.todo) : Top.todo[n] = d
      BY <2>2, <3>1
    <3>3. n # 1 /\ n - 1 \in 1 .. Len(Top.todo) - 1 /\ n - 1 + 1 = n
      BY <2>1, <3>1, <3>2
    <3>4. Tail(Top.todo)[n - 1] = d
      BY <2>1, <3>2, <3>3
    <3>5. QED
      BY <3>3, <3>4
  <2>5. QED
    BY <1>2, <2>1, <2>3, <2>4 DEF Listed
<1>9. ASSUME NEW i \in 1 .. N PROVE i \in 1 .. N - 1 \/ i = N
  BY <1>2
<1>10. QED
  BY <1>1, <1>2, <1>6, <1>7, <1>8, <1>9 DEF StackInv

(* A call that returns: the frame below has asked for its stage.           *)
LEMMA PopKeeps ==
    ASSUME TypeOK, StackInv, stack # << >>, stack' = Pop, call = None, UNCHANGED <<plan, call>>
    PROVE  StackInv' /\ Asked' = Top.stage
<1> DEFINE N == Len(stack)
<1>1. /\ N \in Nat \ {0} /\ Len(stack') = N - 1
      /\ \A i \in 1 .. N - 1 : stack'[i] = stack[i]
  BY PopShape
<1>2. ASSUME NEW n \in 0 .. N - 1 PROVE AskedBy(n)' = AskedBy(n)
  BY <1>1 DEF AskedBy
<1>3. ASSUME NEW i \in 1 .. N - 1
      PROVE  /\ stack'[i].stage = AskedBy(i - 1)'
             /\ stack'[i].todo # << >>
             /\ \A j \in 1 .. i - 1 : stack'[i].stage < stack'[j].stage
             /\ Listed(stack'[i])
  <2>1. /\ i - 1 \in 0 .. N - 1 /\ i \in 1 .. N /\ i < N
        /\ \A j \in 1 .. i - 1 : j \in 1 .. N - 1
    BY <1>1
  <2>2. stack'[i] = stack[i] /\ \A j \in 1 .. i - 1 : stack'[j] = stack[j]
    BY <1>1, <2>1
  <2>3. /\ stack[i].stage = AskedBy(i - 1) /\ stack[i].todo # << >> /\ Listed(stack[i])
        /\ \A j \in 1 .. i - 1 : stack[i].stage < stack[j].stage
    BY <2>1 DEF StackInv
  <2>4. AskedBy(i - 1)' = AskedBy(i - 1)
    BY <1>2, <2>1
  <2>5. QED
    BY <2>1, <2>2, <2>3, <2>4
<1>4. plan' # << >>
  BY DEF StackInv
<1>5. Asked' = AskedBy(N - 1)
  BY <1>1, <1>2 DEF Asked
<1>6. Top.stage = AskedBy(N - 1)
  BY <1>1 DEF StackInv, Top
<1>7. QED
  BY <1>1, <1>3, <1>4, <1>5, <1>6 DEF StackInv

(* Only what is called, or what is left of the plan, changes.              *)
LEMMA StillKeeps ==
    ASSUME TypeOK, StackInv, stack = << >>, UNCHANGED stack,
           call' # None \/ ret' # None => plan' # << >>,
           call' # None => call' = Head(plan')
    PROVE  StackInv'
BY DEF StackInv, Asked, AskedBy

LEMMA StackStep == TypeOK /\ StackInv /\ [Next]_vars => StackInv'
<1> SUFFICES ASSUME TypeOK, StackInv, [Next]_vars PROVE StackInv'
  OBVIOUS
<1>1. ASSUME Client PROVE StackInv'
  <2>1. Idle /\ UNCHANGED <<stack, call, ret>>
    BY <1>1 DEF Client, ChangeBinary, ClearCache, Register, ClearStageCache, Invalidate,
       InvalidateFrom, Uncache, RunStage, RunStages, Launch
  <2>2. QED
    BY <2>1, StillKeeps DEF Idle
<1>2. ASSUME CallNext PROVE StackInv'
  BY <1>2, StillKeeps DEF CallNext
<1>3. ASSUME Enter PROVE StackInv'
  <2>1. call # None /\ call \in Stages /\ call' = None /\ ret = None /\ UNCHANGED plan
    BY <1>3 DEF Enter, TypeOK
  <2>2. CASE UNCHANGED stack
    BY <2>1, <2>2 DEF StackInv, Asked, AskedBy
  <2>3. CASE Lose(call) /\ UNCHANGED ret
    <3>1. /\ Len(stack') = Len(stack) + 1 /\ stack'[Len(stack) + 1] = Frame(call)
          /\ \A i \in 1 .. Len(stack) :
                /\ stack'[i].stage = stack[i].stage /\ stack'[i].todo = stack[i].todo
                /\ \A d \in DepSet(stack[i].stage) :
                     stack'[i].inputs[d] = "todo" => stack[i].inputs[d] = "todo"
      BY <2>1, <2>3, LoseShape
    <3>2. QED
      BY <2>1, <2>3, <3>1, PushKeeps
  <2>4. CASE stack' = Append(stack, Frame(call)) /\ UNCHANGED ret
    <3>1. /\ Len(stack') = Len(stack) + 1 /\ stack'[Len(stack) + 1] = Frame(call)
          /\ \A i \in 1 .. Len(stack) : stack'[i] = stack[i]
      BY <2>1, <2>4, PushShape
    <3>2. QED
      BY <2>1, <2>4, <3>1, PushKeeps
  <2>5. (call \notin registered /\ UNCHANGED stack)
        \/ (Lose(call) /\ UNCHANGED ret)
        \/ UNCHANGED stack
        \/ (stack' = Append(stack, Frame(call)) /\ UNCHANGED ret)
    BY <1>3 DEF Enter
  <2>6. QED
    BY <2>2, <2>3, <2>4, <2>5
<1>4. ASSUME NextDependency PROVE StackInv'
  <2>1. /\ stack # << >> /\ Len(stack) \in Nat \ {0} /\ Top.todo # << >>
        /\ call' = Head(Top.todo) /\ UNCHANGED <<stack, plan, ret>> /\ ret = None
    BY <1>4, BelowTop DEF NextDependency
  <2>2. \A i \in 1 .. Len(stack) : i < Len(stack) \/ i = Len(stack)
    BY <2>1
  <2>3. \A i \in 1 .. Len(stack) : stack[i].todo # << >>
    BY <2>1, <2>2 DEF StackInv, Top
  <2>4. Asked' = Head(Top.todo)
    BY <2>1 DEF Asked, AskedBy, Top
  <2>5. \A n : AskedBy(n)' = AskedBy(n)
    BY <2>1 DEF AskedBy
  <2>6. QED
    BY <2>1, <2>3, <2>4, <2>5 DEF StackInv
<1>5. ASSUME Receive PROVE StackInv'
  <2>1. stack # << >> /\ ret # None /\ call = None /\ UNCHANGED <<plan, call>>
    BY <1>5 DEF Receive, TypeOK
  <2>2. CASE Take("entry") \/ Take("null")
    BY <2>1, <2>2, TakeKeeps
  <2>3. CASE stack' = Pop
    BY <2>1, <2>3, PopKeeps
  <2>4. QED
    BY <1>5, <2>2, <2>3 DEF Receive
<1>6. ASSUME Run PROVE StackInv'
  BY <1>6, PopKeeps DEF Run
<1>7. ASSUME PlanStepDone PROVE StackInv'
  <2>1. stack = << >> /\ UNCHANGED <<stack, call>> /\ ret # None /\ ret' = None /\ call = None
    BY <1>7 DEF PlanStepDone, TypeOK
  <2>2. QED
    BY <2>1, StillKeeps
<1>8. ASSUME UNCHANGED vars PROVE StackInv'
  BY <1>8 DEF vars, StackInv, Asked, AskedBy
<1>9. QED
  BY <1>1, <1>2, <1>3, <1>4, <1>5, <1>6, <1>7, <1>8 DEF Next, Pipeline

-----------------------------------------------------------------------------
(* The cache.                                                              *)

(* run_stages makes nothing stale.                                         *)
LEMMA CurrentKept ==
    ASSUME TypeOK, StackInv, Pipeline, NEW d \in Cacheable \cap Tracking, Current(d)
    PROVE  Current(d)'
<1>1. d \in Stages /\ cache \in [Stages -> Artifacts \cup {Absent, Empty}]
  BY ConfigAssumption DEF TypeOK
<1>2. cache[d] # Absent
  BY DEF Current, Absent
<1>3. ASSUME Run PROVE Current(d)'
  <2>1. \E w \in BOOLEAN : cache'[d] = cache[d] \/ cache'[d] = Made(version, w)
    BY <1>1, <1>3, WholeIsBoolean DEF Run
  <2>2. version' = version
    BY <1>3 DEF Run
  <2>3. QED
    BY <2>1, <2>2 DEF Current, Made
<1>4. ASSUME ~Run PROVE cache'[d] = cache[d] /\ version' = version
  BY <1>1, <1>2, <1>4 DEF Pipeline, CallNext, Enter, Lose, NextDependency, Receive, PlanStepDone
<1>5. QED
  BY <1>3, <1>4 DEF Current

(* So that a frame which stays as it is stays fed.                         *)
LEMMA FedKept ==
    ASSUME TypeOK, StackInv, InputInv, Pipeline, NEW i \in 1 .. Len(stack),
           stack'[i] = stack[i]
    PROVE  Fed(stack[i])'
<1>1. Fed(stack[i])
  BY DEF InputInv
<1>2. QED
  BY <1>1, CurrentKept DEF Fed

(* What the top frame has been answered, when it is taken.                 *)
LEMMA AnswerIsCurrent ==
    ASSUME TypeOK, StackInv, InputInv, ret # None, ret # Failure, Asked \in Cacheable
    PROVE  Current(Asked) /\ cache[Asked] = ret
<1>1. ret \in Artifacts
  BY DEF TypeOK
<1>2. ret.kind = "made"
  BY <1>1 DEF Artifacts, Made
<1>3. QED
  BY <1>1, <1>2 DEF InputInv, Current

LEMMA InputStep == TypeOK /\ StackInv /\ InputInv /\ [Next]_vars => InputInv'
<1> SUFFICES ASSUME TypeOK, StackInv, InputInv, [Next]_vars PROVE InputInv'
  OBVIOUS
<1>1. Len(stack) \in Nat /\ cache \in [Stages -> Artifacts \cup {Absent, Empty}]
      /\ Cacheable \subseteq Stages
  BY ConfigAssumption DEF TypeOK
<1>2. ASSUME Client PROVE InputInv'
  <2>1. stack' = << >> /\ ret' = None
    BY <1>2 DEF Client, ChangeBinary, ClearCache, Register, ClearStageCache, Invalidate,
       InvalidateFrom, Uncache, RunStage, RunStages, Launch, Idle
  <2>2. \A s \in Cacheable : cache'[s] = cache[s] \/ cache'[s] = Absent
    BY <1>1, <1>2 DEF Client, ChangeBinary, ClearCache, Register, ClearStageCache, Invalidate,
       InvalidateFrom, Uncache, RunStage, RunStages, Launch
  <2>3. Absent # Empty /\ None \notin Artifacts
    BY NoneAssumption DEF Absent, Empty
  <2>4. Len(stack') = 0
    BY <2>1
  <2>5. QED
    BY <2>1, <2>2, <2>3, <2>4 DEF InputInv
<1>3. ASSUME CallNext \/ NextDependency PROVE InputInv'
  <2>1. UNCHANGED <<stack, cache, version, ret>> /\ ret = None
    BY <1>3 DEF CallNext, NextDependency
  <2>2. QED
    BY <2>1, NoneAssumption DEF InputInv, Fed, Current
<1>4. ASSUME Enter PROVE InputInv'
  <2>1. Pipeline /\ call \in Stages /\ ret = None /\ UNCHANGED <<plan, version>>
    BY <1>4 DEF Enter, Pipeline, TypeOK
  <2>2. \A s \in Cacheable : cache'[s] # Empty
    BY <1>1, <1>4 DEF Enter, Lose, InputInv
  <2>3. CASE call \notin registered
    <3>1. UNCHANGED stack /\ ret' = Failure
      BY <1>4, <2>3 DEF Enter
    <3>2. QED
      BY <2>1, <2>2, <3>1, FedKept, NoneAssumption DEF InputInv
  <2>4. CASE Lose(call) /\ UNCHANGED ret /\ call \notin Cacheable
    <3>1. /\ Len(stack') = Len(stack) + 1 /\ stack'[Len(stack) + 1] = Frame(call)
          /\ \A i \in 1 .. Len(stack) :
                /\ stack'[i].stage = stack[i].stage
                /\ \A d \in DepSet(stack[i].stage) :
                     stack'[i].inputs[d] =
                       IF d = call /\ stack[i].inputs[d] = "entry" THEN "gone"
                       ELSE stack[i].inputs[d]
      BY <2>1, <2>4, LoseShape
    <3>2. ASSUME NEW i \in 1 .. Len(stack) PROVE Fed(stack[i])'
      <4>1. Fed(stack[i])
        BY DEF InputInv
      <4>2. \A d \in Cacheable \cap Tracking : Current(d) => Current(d)'
        BY <2>1, CurrentKept
      <4>3. QED
        BY <2>4, <3>1, <4>1, <4>2 DEF Fed
    <3>3. ASSUME NEW i, i = Len(stack) + 1 PROVE Fed(stack[i])'
      BY <2>1, <3>1, <3>3, NewFrame DEF Fed
    <3>4. QED
      BY <1>1, <2>1, <2>2, <2>4, <3>1, <3>2, <3>3, NoneAssumption DEF InputInv
  <2>5. CASE call \in registered \cap Cacheable /\ cache[call].kind # "absent" /\ ~Stale(call)
    <3>1. ret' = cache[call] /\ UNCHANGED <<cache, stack>>
      BY <1>4, <2>5 DEF Enter
    <3>2. cache[call].at = version
      BY <2>5 DEF Stale
    <3>3. Asked' = call
      BY <1>4, <2>1, <3>1 DEF StackInv, Asked, AskedBy, Enter
    <3>4. \A i \in 1 .. Len(stack) : Fed(stack[i])'
      BY <2>1, <3>1, FedKept
    <3>5. QED
      BY <2>1, <2>2, <3>1, <3>2, <3>3, <3>4 DEF InputInv
  <2>6. CASE stack' = Append(stack, Frame(call)) /\ UNCHANGED <<cache, ret>>
    <3>1. /\ Len(stack') = Len(stack) + 1 /\ stack'[Len(stack) + 1] = Frame(call)
          /\ \A i \in 1 .. Len(stack) : stack'[i] = stack[i]
      BY <2>1, <2>6, PushShape
    <3>2. ASSUME NEW i \in 1 .. Len(stack) PROVE Fed(stack[i])'
      BY <2>1, <3>1, FedKept
    <3>3. ASSUME NEW i, i = Len(stack) + 1 PROVE Fed(stack[i])'
      BY <2>1, <3>1, <3>3, NewFrame DEF Fed
    <3>4. QED
      BY <1>1, <2>1, <2>2, <2>6, <3>1, <3>2, <3>3, NoneAssumption DEF InputInv
  <2>7. QED
    BY <1>4, <2>3, <2>4, <2>5, <2>6 DEF Enter
<1>5. ASSUME Receive PROVE InputInv'
  <2> DEFINE N == Len(stack)
  <2>1. /\ Pipeline /\ stack # << >> /\ ret # None /\ Asked = Head(Top.todo) /\ Top.todo # << >>
        /\ Asked \in DepSet(Top.stage) /\ UNCHANGED version
    BY <1>5, AskedIsStage DEF Receive, Pipeline
  <2>2. N \in Nat \ {0}
    BY <2>1, BelowTop
  <2>3. \A s \in Cacheable : cache'[s] # Empty
    <3>1. cache' = cache
          \/ (ret # Failure /\ cache[Asked] = Absent /\ cache' = [cache EXCEPT ![Asked] = Empty])
      BY <1>5, <2>1 DEF Receive
    <3>2. ASSUME ret # Failure, cache[Asked] = Absent PROVE Asked \notin Cacheable
      BY <2>1, <3>2, AnswerIsCurrent DEF Current, Absent
    <3>3. \A s \in Cacheable : cache[s] # Empty
      BY DEF InputInv
    <3>4. QED
      BY <1>1, <3>1, <3>2, <3>3
  <2>4. ASSUME NEW input \in {"entry", "null"}, Take(input),
               input = "entry" => ret # Failure,
               input = "null" => Top.stage \in SkipOnError
        PROVE  InputInv'
    <3>1. /\ Len(stack') = N
          /\ \A i \in 1 .. N - 1 : stack'[i] = stack[i]
          /\ stack'[N].stage = Top.stage
          /\ \A d \in DepSet(Top.stage) : stack'[N].inputs[d] =
                IF d = Head(Top.todo) THEN input ELSE Top.inputs[d]
      BY <2>1, <2>4, TakeShape
    <3>2. ASSUME NEW i \in 1 .. N - 1 PROVE Fed(stack[i])'
      BY <2>1, <2>2, <3>1, FedKept
    <3>3. ASSUME NEW i, i = N PROVE Fed(stack[i])'
      <4>1. Fed(Top)
        BY <2>2 DEF InputInv, Top
      <4>2. \A d \in Cacheable \cap Tracking : Current(d) => Current(d)'
        BY <2>1, CurrentKept
      <4>3. input = "entry" /\ Asked \in Cacheable => Current(Asked)
        BY <2>1, <2>4, AnswerIsCurrent
      <4>4. QED
        BY <2>1, <2>4, <3>1, <3>3, <4>1, <4>2, <4>3 DEF Fed
    <3>4. ret' = None
      BY <2>4 DEF Take
    <3>5. \A i \in 1 .. Len(stack') : i \in 1 .. N - 1 \/ i = N
      BY <2>2, <3>1
    <3>6. QED
      BY <2>3, <3>2, <3>3, <3>4, <3>5, NoneAssumption DEF InputInv
  <2>5. CASE ret = Failure /\ stack' = Pop /\ UNCHANGED ret
    <3>1. Len(stack') = N - 1 /\ \A i \in 1 .. N - 1 : stack'[i] = stack[i]
      BY <2>1, <2>5, PopShape
    <3>2. \A i \in 1 .. N - 1 : Fed(stack[i])'
      BY <2>1, <2>2, <3>1, FedKept
    <3>3. QED
      BY <2>3, <2>5, <3>1, <3>2, NoneAssumption DEF InputInv
  <2>6. QED
    BY <1>5, <2>4, <2>5 DEF Receive
<1>6. ASSUME Run PROVE InputInv'
  <2> DEFINE N == Len(stack)
  <2>1. /\ Pipeline /\ stack # << >> /\ stack' = Pop /\ call = None
        /\ UNCHANGED <<version, plan, call>>
    BY <1>6 DEF Run, Pipeline
  <2>2. /\ N \in Nat \ {0} /\ Len(stack') = N - 1
        /\ \A i \in 1 .. N - 1 : stack'[i] = stack[i]
    BY <2>1, PopShape
  <2>3. \A i \in 1 .. N - 1 : Fed(stack[i])'
    BY <2>1, <2>2, FedKept
  <2>4. Asked' = Top.stage /\ Top.stage \in Stages
    <3>1. N \in 1 .. N
      BY <2>2
    <3>2. QED
      BY <2>1, <3>1, PopKeeps, OldFrame DEF Top
  <2>5. \A s \in Cacheable : cache'[s] # Empty
    BY <1>1, <1>6 DEF Run, InputInv, Made, Empty
  <2>6. ret' \in Artifacts => ret'.at = version' /\ (Asked' \in Cacheable => cache'[Asked'] = ret')
    BY <1>1, <1>6, <2>1, <2>4, NoneAssumption DEF Run, Made
  <2>7. QED
    BY <2>2, <2>3, <2>5, <2>6 DEF InputInv
<1>7. ASSUME PlanStepDone PROVE InputInv'
  <2>1. UNCHANGED <<stack, cache, version>> /\ ret' = None
    BY <1>7 DEF PlanStepDone
  <2>2. QED
    BY <2>1, NoneAssumption DEF InputInv, Fed, Current
<1>8. ASSUME UNCHANGED vars PROVE InputInv'
  BY <1>8 DEF vars, InputInv, Fed, Current, Asked, AskedBy
<1>9. QED
  BY <1>2, <1>3, <1>4, <1>5, <1>6, <1>7, <1>8 DEF Next, Pipeline

(* What a stage whose sources are all solid is handed is whole.            *)
LEMMA GroundedTop ==
    ASSUME TypeOK, StackInv, InputInv, GroundedIsWhole, stack # << >>, Top.todo = << >>,
           NEW S \in Grounds, Top.stage \in S
    PROVE  Whole(Top)
<1> DEFINE N == Len(stack)
<1>1. N \in 1 .. N
  BY BelowTop
<1>2. /\ Listed(Top) /\ Fed(Top)
      /\ Top.inputs \in [DepSet(Top.stage) -> {"todo", "null", "entry", "gone"}]
  BY <1>1, OldFrame DEF StackInv, InputInv, Top
<1>3. S \subseteq (Cacheable \cap Tracking) \ SkipOnError /\ DepSet(Top.stage) \subseteq S
  BY DEF Grounds
<1>4. ASSUME NEW d \in DepSet(Top.stage)
      PROVE  Top.inputs[d] = "entry" /\ Current(d) /\ cache[d].whole
  <2>1. Top.inputs[d] # "todo"
    BY <1>2 DEF Listed
  <2>2. Top.inputs[d] = "entry" /\ Current(d)
    BY <1>2, <1>3, <2>1 DEF Fed
  <2>3. QED
    BY <1>3, <2>2 DEF GroundedIsWhole, Current
<1>5. QED
  BY <1>2, <1>4 DEF Whole, Current

LEMMA GroundStep ==
    TypeOK /\ StackInv /\ InputInv /\ GroundedIsWhole /\ [Next]_vars => GroundedIsWhole'
<1> SUFFICES ASSUME TypeOK, StackInv, InputInv, GroundedIsWhole, [Next]_vars,
                    NEW S \in Grounds, NEW s \in S
             PROVE  cache'[s].kind = "made" => cache'[s].whole
  BY DEF GroundedIsWhole, Grounds
<1>1. s \in Stages /\ s \in Cacheable /\ cache \in [Stages -> Artifacts \cup {Absent, Empty}]
  BY ConfigAssumption DEF Grounds, TypeOK
<1>2. cache[s].kind = "made" => cache[s].whole
  BY DEF GroundedIsWhole
<1>3. ASSUME Run, Top.stage = s, cache'[s] # cache[s] PROVE cache'[s].whole
  <2>1. stack # << >> /\ Top.todo = << >> /\ cache'[s] = Made(version, Whole(Top))
    BY <1>1, <1>3 DEF Run
  <2>2. Whole(Top)
    BY <1>3, <2>1, GroundedTop
  <2>3. QED
    BY <2>1, <2>2 DEF Made
<1>4. ASSUME ~(Run /\ Top.stage = s) PROVE cache'[s] \in {cache[s], Absent, Empty}
  <2>1. CASE Client
    BY <1>1, <2>1 DEF Client, ChangeBinary, ClearCache, Register, ClearStageCache, Invalidate,
       InvalidateFrom, Uncache, RunStage, RunStages, Launch
  <2>2. CASE Enter \/ Receive
    BY <1>1, <2>2 DEF Enter, Lose, Receive
  <2>3. CASE Run
    BY <1>1, <1>4, <2>3 DEF Run
  <2>4. CASE CallNext \/ NextDependency \/ PlanStepDone \/ UNCHANGED vars
    BY <2>4 DEF CallNext, NextDependency, PlanStepDone, vars
  <2>5. QED
    BY <2>1, <2>2, <2>3, <2>4 DEF Next, Pipeline
<1>5. QED
  BY <1>2, <1>3, <1>4 DEF Absent, Empty

(* A stage that is cached and tracks the binary is pushed only when what   *)
(* is cached for it is not current.                                        *)
LEMMA PushedIsNotCurrent ==
    ASSUME TypeOK, Enter, stack' # stack, call \in Cacheable \cap Tracking
    PROVE  ~Current(call)
BY DEF Enter, Current, Stale

LEMMA RunsStep ==
    TypeOK /\ StackInv /\ RunsInv /\ TrackedRunsOnce /\ [Next]_vars => RunsInv' /\ TrackedRunsOnce'
<1> SUFFICES ASSUME TypeOK, StackInv, RunsInv, TrackedRunsOnce, [Next]_vars,
                    NEW s \in Cacheable \cap Tracking
             PROVE  /\ runs'[s] # 0 /\ plan' # << >> =>
                         Current(s)' /\ \A i \in 1 .. Len(stack') : stack'[i].stage # s
                    /\ runs'[s] <= 1
  BY DEF RunsInv, TrackedRunsOnce
<1>1. /\ s \in Stages /\ runs \in [Stages -> Nat] /\ Len(stack) \in Nat /\ runs[s] <= 1
      /\ runs[s] # 0 /\ plan # << >> =>
            Current(s) /\ \A i \in 1 .. Len(stack) : stack[i].stage # s
  BY ConfigAssumption DEF TypeOK, RunsInv, TrackedRunsOnce
<1>2. ASSUME Client
      PROVE  /\ runs'[s] <= 1
             /\ runs'[s] # 0 => plan' = << >>
  <2>1. \/ runs' = [x \in Stages |-> 0]
        \/ runs' = runs /\ plan' = << >>
    BY <1>2 DEF Client, ChangeBinary, ClearCache, Register, ClearStageCache, Invalidate,
       InvalidateFrom, Uncache, RunStage, RunStages, Launch, Idle
  <2>2. QED
    BY <1>1, <2>1
<1>3. ASSUME Pipeline PROVE plan # << >> /\ (Current(s) => Current(s)')
  <2>1. plan # << >>
    BY <1>3 DEF Pipeline, CallNext, Enter, NextDependency, Receive, Run, PlanStepDone, StackInv
  <2>2. QED
    BY <1>3, <2>1, CurrentKept
<1>4. ASSUME Pipeline, ~Run, runs[s] # 0
      PROVE  Current(s)' /\ \A i \in 1 .. Len(stack') : stack'[i].stage # s
  <2>1. Current(s) /\ \A i \in 1 .. Len(stack) : stack[i].stage # s
    BY <1>1, <1>3, <1>4
  <2>2. CASE UNCHANGED stack
    BY <1>3, <1>4, <2>1, <2>2
  <2>3. CASE Enter /\ stack' # stack
    <3>1. call \in Stages /\ call # s
      BY <2>1, <2>3, PushedIsNotCurrent DEF Enter, TypeOK
    <3>2. Lose(call) \/ stack' = Append(stack, Frame(call))
      BY <2>3 DEF Enter
    <3>3. /\ Len(stack') = Len(stack) + 1 /\ stack'[Len(stack) + 1] = Frame(call)
          /\ \A i \in 1 .. Len(stack) : stack'[i].stage = stack[i].stage
      BY <3>1, <3>2, LoseShape, PushShape
    <3>4. Frame(call).stage = call
      BY <3>1, NewFrame
    <3>5. \A i \in 1 .. Len(stack') : i \in 1 .. Len(stack) \/ i = Len(stack) + 1
      BY <1>1, <3>3
    <3>6. QED
      BY <1>3, <1>4, <2>1, <3>1, <3>3, <3>4, <3>5
  <2>4. CASE Receive
    <3>1. stack # << >> /\ Top.todo # << >>
      BY <2>4, AskedIsStage DEF Receive
    <3>2. CASE Take("entry") \/ Take("null")
      <4>1. /\ Len(stack) \in Nat \ {0} /\ Len(stack') = Len(stack)
            /\ \A i \in 1 .. Len(stack) - 1 : stack'[i] = stack[i]
            /\ stack'[Len(stack)].stage = Top.stage
        BY <3>1, <3>2, TakeShape
      <4>2. \A i \in 1 .. Len(stack) : i \in 1 .. Len(stack) - 1 \/ i = Len(stack)
        BY <4>1
      <4>3. \A i \in 1 .. Len(stack') : stack'[i].stage = stack[i].stage
        BY <4>1, <4>2 DEF Top
      <4>4. QED
        BY <1>3, <1>4, <2>1, <4>1, <4>3
    <3>3. CASE stack' = Pop
      <4>1. /\ Len(stack') = Len(stack) - 1
            /\ \A i \in 1 .. Len(stack) - 1 : stack'[i] = stack[i]
        BY <3>1, <3>3, PopShape
      <4>2. \A i \in 1 .. Len(stack') : i \in 1 .. Len(stack) /\ stack'[i] = stack[i]
        BY <1>1, <4>1
      <4>3. QED
        BY <1>3, <1>4, <2>1, <4>2
    <3>4. QED
      BY <2>4, <3>2, <3>3 DEF Receive
  <2>5. QED
    BY <1>4, <2>2, <2>3, <2>4 DEF Pipeline, CallNext, NextDependency, PlanStepDone
<1>5. ASSUME Pipeline, ~Run PROVE runs' = runs
  BY <1>5 DEF Pipeline, CallNext, Enter, NextDependency, Receive, PlanStepDone
<1>6. ASSUME Run
      PROVE  /\ runs'[s] # 0 => Current(s)' /\ \A i \in 1 .. Len(stack') : stack'[i].stage # s
             /\ runs'[s] <= 1
  <2> DEFINE N == Len(stack)
  <2>1. /\ N \in Nat \ {0} /\ Len(stack') = N - 1
        /\ \A i \in 1 .. N - 1 : stack'[i] = stack[i]
    BY <1>6, PopShape DEF Run
  <2>2. Pipeline /\ N \in 1 .. N /\ Top.stage \in Stages
    BY <1>6, <2>1, OldFrame DEF Pipeline, Top
  <2>3. CASE runs' = runs
    BY <1>1, <1>3, <2>1, <2>2, <2>3
  <2>4. CASE Top.stage # s /\ runs' = [runs EXCEPT ![Top.stage] = @ + 1]
    BY <1>1, <1>3, <2>1, <2>2, <2>4
  <2>5. CASE Top.stage = s /\ runs' # runs
    <3>1. runs[s] = 0
      BY <1>1, <1>3, <2>2, <2>5 DEF Top
    <3>2. runs'[s] = 1
      BY <1>1, <1>6, <2>5, <3>1 DEF Run
    <3>3. \E w \in BOOLEAN : cache'[s] = Made(version, w) /\ version' = version
      <4>1. cache \in [Stages -> Artifacts \cup {Absent, Empty}]
        BY DEF TypeOK
      <4>2. QED
        BY <1>1, <1>6, <2>5, <4>1, WholeIsBoolean DEF Run
    <3>4. Current(s)'
      BY <3>3 DEF Current, Made
    <3>5. ASSUME NEW i \in 1 .. N - 1 PROVE stack[i].stage # s
      <4>1. stack[N].stage < stack[i].stage /\ i \in 1 .. N
        BY <2>1, <2>2 DEF StackInv
      <4>2. stack[i].stage \in Nat /\ stack[N].stage = s
        BY <2>5, <4>1, OldFrame, StagesAssumption DEF Top
      <4>3. QED
        BY <1>1, <4>1, <4>2, StagesAssumption
    <3>6. QED
      BY <2>1, <3>2, <3>4, <3>5
  <2>6. QED
    BY <1>6, <2>3, <2>4, <2>5 DEF Run
<1>7. CASE UNCHANGED vars
  BY <1>1, <1>7 DEF vars, Current
<1>8. CASE Pipeline /\ ~Run
  BY <1>1, <1>4, <1>5, <1>8
<1>9. QED
  BY <1>2, <1>6, <1>7, <1>8 DEF Next, Pipeline

-----------------------------------------------------------------------------
LEMMA InitIInv == Init => IInv
<1> SUFFICES ASSUME Init PROVE IInv
  OBVIOUS
<1>1. /\ registered \subseteq Stages /\ version = 0 /\ cache = [s \in Stages |-> Absent]
      /\ plan = << >> /\ stack = << >> /\ call = None /\ ret = None /\ result = "none"
      /\ runs = [s \in Stages |-> 0] /\ Len(stack) = 0
  BY ConfigAssumption DEF Init
<1>2. TypeOK
  BY <1>1, StagesAssumption DEF TypeOK, Versions
<1>3. StackInv
  BY <1>1 DEF StackInv
<1>4. InputInv
  BY <1>1, ConfigAssumption, NoneAssumption DEF InputInv, Absent, Empty
<1>5. \A s \in Stages : cache[s].kind # "made"
  BY <1>1 DEF Absent
<1>6. GroundedIsWhole /\ RunsInv /\ TrackedRunsOnce
  BY <1>1, <1>5, ConfigAssumption DEF GroundedIsWhole, Grounds, RunsInv, TrackedRunsOnce
<1>7. QED
  BY <1>2, <1>3, <1>4, <1>6 DEF IInv

(* The inductive invariant of run_stages and run_stage.                    *)
THEOREM Inductive == Spec => []IInv
<1>1. Init => IInv
  BY InitIInv
<1>2. IInv /\ [Next]_vars => IInv'
  BY TypeStep, StackStep, InputStep, GroundStep, RunsStep DEF IInv
<1>3. QED
  BY <1>1, <1>2, PTL DEF Spec, SafeSpec

(* Type correctness of the pipeline: among others, a frame of run_stage is *)
(* always that of a registered stage.                                      *)
THEOREM TypeCorrect == Spec => []TypeOK
<1>1. IInv => TypeOK
  BY DEF IInv
<1>2. QED
  BY <1>1, Inductive, PTL

(* What run_stage answers for a stage that is solid, with every stage it   *)
(* is made from, was made from the binary as it is now, of dependencies    *)
(* made from it too.                                                       *)
THEOREM AnsweredCurrent == Spec => []AnswersAreCurrent
<1>1. IInv => AnswersAreCurrent
  <2> SUFFICES ASSUME IInv, ret \in Artifacts, Solid(Asked) PROVE ret = Made(version, TRUE)
    BY DEF AnswersAreCurrent
  <2> DEFINE S == Sources(Asked)
  <2>1. Asked \in Stages
    BY AskedIsStage, NoneAssumption DEF IInv
  <2>2. Asked \in S /\ IsClosed(S, DirectDependencies)
    <3>1. DirectDependencies \in [Stages -> SUBSET Stages] /\ {Asked} \in SUBSET Stages
      BY <2>1, NextsAreStages DEF IInv, TypeOK
    <3>2. {Asked} \subseteq S /\ IsClosed(S, DirectDependencies)
      BY <3>1, ClosureIsLeast DEF Sources
    <3>3. QED
      BY <3>2
  <2> HIDE DEF S
  <2>3. S \subseteq (Cacheable \cap Tracking \cap registered) \ SkipOnError
    BY DEF S, Solid
  <2>4. ASSUME NEW s \in S PROVE DepSet(s) \subseteq S
    <3>1. s \in registered /\ s \in Stages
      BY <2>3 DEF IInv, TypeOK
    <3>2. DirectDependencies[s] = DepSet(s)
      BY <3>1 DEF DirectDependencies
    <3>3. QED
      BY <2>2, <3>2 DEF IsClosed
  <2>5. S \in Grounds
    BY <2>3, <2>4 DEF Grounds
  <2>6. ret.at = version /\ cache[Asked] = ret
    BY <2>2, <2>3 DEF IInv, InputInv
  <2>7. PICK v \in Versions, w \in BOOLEAN : ret = Made(v, w)
    BY DEF Artifacts
  <2>8. ret.whole
    <3>1. ret.kind = "made"
      BY <2>7 DEF Made
    <3>2. QED
      BY <2>2, <2>5, <2>6, <3>1 DEF IInv, GroundedIsWhole
  <2>9. QED
    BY <2>6, <2>7, <2>8 DEF Made
<1>2. QED
  BY <1>1, Inductive, PTL

(* A stage that is cached and tracks the binary runs once in a run_stages. *)
THEOREM RunOnce == Spec => []TrackedRunsOnce
<1>1. IInv => TrackedRunsOnce
  BY DEF IInv
<1>2. QED
  BY <1>1, Inductive, PTL

(* Of the pointers into the cache that a stage is handed only those to     *)
(* entries of stages that are not cached are left dangling.                *)
THEOREM CachedInputsStay == Spec => []OnlyUncachedInputsVanish
<1>1. IInv => OnlyUncachedInputsVanish
  BY OldFrame DEF IInv, InputInv, Fed, OnlyUncachedInputsVanish
<1>2. QED
  BY <1>1, Inductive, PTL

(* The breadth-first search of invalidate over the dependents finds the    *)
(* stages that are made from s, and no other.                              *)
LEMMA DependentsAreMadeFrom ==
    ASSUME registered \subseteq Stages, NEW s \in Stages, NEW t \in Stages
    PROVE  t \in Closure({s}, DirectDependents) <=> s \in Sources(t)
<1> DEFINE C == Closure({s}, DirectDependents)
           E == {x \in Stages : s \in Sources(x)}
<1>1. s \in C /\ C \subseteq Stages /\ IsClosed(C, DirectDependents)
      /\ \A D : s \in D /\ IsClosed(D, DirectDependents) => C \subseteq D
  <2>1. {s} \in SUBSET Stages /\ DirectDependents \in [Stages -> SUBSET Stages]
    BY NextsAreStages
  <2>2. /\ {s} \subseteq C /\ C \subseteq Stages /\ IsClosed(C, DirectDependents)
        /\ \A D : {s} \subseteq D /\ IsClosed(D, DirectDependents) => C \subseteq D
    BY <2>1, ClosureIsLeast
  <2> HIDE DEF C
  <2>3. QED
    BY <2>2
<1>2. ASSUME NEW x \in Stages
      PROVE  /\ x \in Sources(x) /\ IsClosed(Sources(x), DirectDependencies)
             /\ \A D : x \in D /\ IsClosed(D, DirectDependencies) => Sources(x) \subseteq D
  <2>1. {x} \in SUBSET Stages /\ DirectDependencies \in [Stages -> SUBSET Stages]
    BY NextsAreStages
  <2>2. /\ {x} \subseteq Sources(x) /\ IsClosed(Sources(x), DirectDependencies)
        /\ \A D : {x} \subseteq D /\ IsClosed(D, DirectDependencies) => Sources(x) \subseteq D
    BY <2>1, ClosureIsLeast DEF Sources
  <2>3. QED
    BY <2>2
<1>3. ASSUME NEW x \in Stages, NEW y \in Stages
      PROVE  x \in DirectDependents[y] <=> y \in DirectDependencies[x]
  BY DEF DirectDependents, DirectDependencies
<1> HIDE DEF C
<1>4. ASSUME t \in C PROVE s \in Sources(t)
  <2>1. s \in E
    BY <1>2
  <2>2. ASSUME NEW y \in E, NEW x \in DirectDependents[y] PROVE x \in E
    <3>1. x \in Stages /\ y \in Stages /\ s \in Sources(y)
      BY <2>2, NextsAreStages
    <3>2. y \in Sources(x)
      BY <1>2, <1>3, <2>2, <3>1 DEF IsClosed
    <3>3. Sources(y) \subseteq Sources(x)
      BY <1>2, <3>1, <3>2
    <3>4. QED
      BY <3>1, <3>3
  <2>3. IsClosed(E, DirectDependents)
    BY <2>2 DEF IsClosed
  <2>4. QED
    BY <1>1, <1>4, <2>1, <2>3
<1>5. ASSUME t \notin C PROVE s \notin Sources(t)
  <2> DEFINE D == Stages \ C
  <2>1. ASSUME NEW x \in D, NEW y \in DirectDependencies[x] PROVE y \in D
    <3>1. x \in Stages /\ y \in Stages /\ x \in DirectDependents[y]
      BY <1>3, <2>1, NextsAreStages
    <3>2. QED
      BY <1>1, <3>1 DEF IsClosed
  <2>2. IsClosed(D, DirectDependencies) /\ t \in D
    BY <1>5, <2>1 DEF IsClosed
  <2>3. QED
    BY <1>1, <1>2, <2>2
<1>6. QED
  BY <1>4, <1>5 DEF C

(* invalidate leaves no artifact that was made from the stage, through     *)
(* however many stages.                                                    *)
THEOREM InvalidatedWhole == Spec => InvalidationIsComplete
<1>1. TypeOK /\ [Next]_vars =>
        [Idle /\ cache' # cache => \A s \in Edited : Invalidate(s) =>
             \A t \in registered : s \in Sources(t) => cache'[t] = Absent]_vars
  <2> SUFFICES ASSUME TypeOK, NEW s \in Edited, Invalidate(s),
                      NEW t \in registered, s \in Sources(t)
               PROVE  cache'[t] = Absent
    OBVIOUS
  <2>1. s \in Stages /\ t \in Stages
    BY ConfigAssumption DEF TypeOK
  <2>2. t \in Closure({s}, DirectDependents)
    BY <2>1, DependentsAreMadeFrom DEF TypeOK
  <2>3. QED
    BY <2>1, <2>2 DEF Invalidate, Uncache
<1>2. QED
  BY <1>1, TypeCorrect, PTL DEF Spec, SafeSpec, InvalidationIsComplete
=============================================================================
