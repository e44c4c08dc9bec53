-------------------------- MODULE AnalysisDatabase --------------------------
(***************************************************************************)
(* A Binary with the two components that follow it: a GlobalIndex built    *)
(* from it, and an InvalidationEngine that marks its entities dirty.       *)
(* Neither is told when an entity is created: what the index knows is what *)
(* was there when a type was last built, and the dirty sets grow by        *)
(* explicit triggers only.                                                 *)
(*                                                                         *)
(* A client creates symbols and functions, builds the index whole or one   *)
(* type at a time, clears it, raises triggers, marks entities clean, and   *)
(* loads another binary: the engine is given it by set_binary, the index   *)
(* keeps what it has until it is built again.  Index and engine read the   *)
(* binary and never each other, so a behaviour has one of the two only:    *)
(* together they would multiply the states and add no case.                *)
(***************************************************************************)
EXTENDS GlobalIndex, Invalidation, Query

CONSTANTS
    Loadable,       \* binaries a client loads
    NewSymbols,     \* symbols it creates
    NewFunctions,   \* functions it creates
    IndexedTypes,   \* index types it builds one by one
    Ranges,         \* address ranges, [start, end)
    MaxResults,     \* SearchQuery::max_results
    MaxSymbols,     \* bound on the symbols of a binary
    MaxFunctions,   \* bound on its functions
    MaxHeld         \* bound on the builds: no list of the index gets longer

VARIABLES
    client,         \* "index" or "engine": what the client has besides the binary
    bin,            \* the binary
    idx,            \* the index over it
    dirty,          \* the engine's three sets
    current,        \* history: index types built since the last creation
    foreign         \* history: idx holds entries of a binary loaded earlier

(* Function::start_address is the key a function is found by, and          *)
(* end_address the "address after last instruction": a function with       *)
(* blocks has instructions.  An imported one has neither blocks nor end.   *)
Functions == NewFunctions \cup UNION {ToSet(b.functions) : b \in Loadable}
Symbols == NewSymbols \cup UNION {ToSet(b.symbols) : b \in Loadable}
AnyXref == UNION {ToSet(f.callsIn) \cup ToSet(f.callsOut) : f \in Functions}

FoundByStart(b) ==
    \A a \in DOMAIN b.functionAt :
        Has(b.functions, b.functionAt[a]) /\ b.functions[b.functionAt[a]].start = a

(* What a map knows of a table it was filled from: the last of each key.   *)
IsLatest(map, keys) ==
    /\ map \in [{keys[n] : n \in DOMAIN keys} -> DOMAIN keys]
    /\ \A n \in DOMAIN keys : keys[map[keys[n]]] = keys[n] /\ n <= map[keys[n]]

ASSUME DatabaseAssumption ==
    /\ MaxResults \in Nat
    /\ \A f \in Functions :
          /\ f.start \in Int /\ f.end \in Int
          /\ f.callsIn \in Seq(AnyXref) /\ f.callsOut \in Seq(AnyXref)
          /\ f.blocks # << >> => f.start < f.end
    /\ \A r \in Ranges : r.start \in Int /\ r.end \in Int
    /\ \A b \in Loadable :
          /\ DOMAIN b = DOMAIN EmptyBinary(0)
          /\ b.functions \in Seq(Functions) /\ IsLatest(b.functionAt, Starts(b))
          /\ b.symbols \in Seq(Symbols) /\ IsLatest(b.symbolAt, Addresses(b))

databaseVars == <<client, bin, idx, dirty, current, foreign>>

(* The index does not know a symbol by the empty name, and a query for any *)
(* name selects it.                                                        *)
Patterns ==
    (UNION {{SubSeq(s.name, i, j) : i, j \in 1 .. Len(s.name)} : s \in NewSymbols}) \ {<< >>}

DatabaseInit(who, binary) ==
    /\ client = who
    /\ bin = binary
    /\ idx = EmptyIndex
    /\ dirty = Clean
    /\ current = {}
    /\ foreign = FALSE

-----------------------------------------------------------------------------
(* The analysis passes.                                                    *)

AddSymbolToBinary(s) ==
    /\ Len(bin.symbols) < MaxSymbols
    /\ bin' = CreateSymbol(bin, s)
    /\ current' = current \ {"SymbolByName", "SymbolByAddress", "StringLiteral"}
    /\ UNCHANGED <<client, idx, dirty, foreign>>

(* The blocks of a function are created before it.                         *)
AddFunctionToBinary(f) ==
    /\ Len(bin.functions) < MaxFunctions
    /\ \A block \in ToSet(f.blocks) : Has(bin.blocks, block)
    /\ bin' = CreateFunction(bin, f)
    /\ current' = current \ {"FunctionByAddress", "InstructionByAddress",
                             "XRefIncoming", "XRefOutgoing"}
    /\ UNCHANGED <<client, idx, dirty, foreign>>

LoadBinary(b) ==
    /\ bin' = b
    /\ dirty' = Clean
    /\ current' = {}
    /\ foreign' = (foreign \/ [idx EXCEPT !.built = {}] # EmptyIndex)
    /\ UNCHANGED <<client, idx>>

-----------------------------------------------------------------------------
(* The index.                                                              *)

BuildAll ==
    /\ client = "index"
    /\ idx' = Build(bin)
    /\ current' = ToSet(IndexTypes)
    /\ foreign' = FALSE
    /\ UNCHANGED <<client, bin, dirty>>

BuildOne(type) ==
    /\ client = "index"
    /\ \A name \in DOMAIN idx.byName : Len(idx.byName[name]) < MaxHeld
    /\ \A a \in DOMAIN idx.incoming : Len(idx.incoming[a]) < MaxHeld
    /\ idx' = BuildIndex(idx, bin, type)
    /\ current' = current \cup {type}
    /\ UNCHANGED <<client, bin, dirty, foreign>>

Clear ==
    /\ client = "index"
    /\ idx' = EmptyIndex
    /\ current' = {}
    /\ foreign' = FALSE
    /\ UNCHANGED <<client, bin, dirty>>

ClearOne(type) ==
    /\ client = "index"
    /\ idx' = ClearIndex(idx, type)
    /\ current' = current \ {type}
    /\ UNCHANGED <<client, bin, dirty, foreign>>

-----------------------------------------------------------------------------
(* The engine.                                                             *)

Trigger(t) ==
    /\ client = "engine"
    /\ dirty' = InvalidateAll(bin, dirty, t)
    /\ UNCHANGED <<client, bin, idx, current, foreign>>

TriggerInRange(t, range) ==
    /\ client = "engine"
    /\ dirty' = InvalidateRange(bin, dirty, t, range)
    /\ UNCHANGED <<client, bin, idx, current, foreign>>

TriggerInFunction(f) ==
    /\ client = "engine"
    /\ dirty' = InvalidateFunction(bin, dirty, f)
    /\ UNCHANGED <<client, bin, idx, current, foreign>>

MarkFunctionClean(f) ==
    /\ client = "engine"
    /\ dirty' = [dirty EXCEPT !.functions = @ \ {f}]
    /\ UNCHANGED <<client, bin, idx, current, foreign>>

MarkBlockClean(block) ==
    /\ client = "engine"
    /\ dirty' = [dirty EXCEPT !.blocks = @ \ {block}]
    /\ UNCHANGED <<client, bin, idx, current, foreign>>

MarkAllClean ==
    /\ client = "engine"
    /\ dirty' = Clean
    /\ UNCHANGED <<client, bin, idx, current, foreign>>

DatabaseNext ==
    \/ \E s \in NewSymbols : AddSymbolToBinary(s)
    \/ \E f \in NewFunctions : AddFunctionToBinary(f)
    \/ \E b \in Loadable : LoadBinary(b)
    \/ BuildAll \/ Clear
    \/ \E type \in IndexedTypes : BuildOne(type) \/ ClearOne(type)
    \/ \E t \in Triggers : Trigger(t) \/ \E range \in Ranges : TriggerInRange(t, range)
    \/ \E f \in DOMAIN bin.functions : TriggerInFunction(f) \/ MarkFunctionClean(f)
    \/ \E block \in DOMAIN bin.blocks : MarkBlockClean(block)
    \/ MarkAllClean

-----------------------------------------------------------------------------

(* However many functions have been created at an address, the one it      *)
(* finds is there.                                                         *)
DatabaseInv ==
    /\ DOMAIN bin = DOMAIN EmptyBinary(0)
    /\ bin.functions \in Seq(Functions)
    /\ FoundByStart(bin)
    /\ DOMAIN dirty = DOMAIN Clean

(* What the index keeps, in whatever parts and however often it is built:  *)
(* while it has no entry of another binary, it has no key that the binary  *)
(* lacks, lists under a name nothing of another name, and has all of what  *)
(* was there when a type was last built.                                   *)
NamesIndexed(i, b, types) ==
    /\ i.byName \in [DOMAIN i.byName -> Seq(DOMAIN b.symbols)]
    /\ DOMAIN i.byName \subseteq {b.symbols[id].name : id \in DOMAIN b.symbols} \ {<< >>}
    /\ \A name \in DOMAIN i.byName : \A id \in ToSet(i.byName[name]) : b.symbols[id].name = name
    /\ "SymbolByAddress" \in types \/ "SymbolByName" \in types =>
          \A id \in DOMAIN b.symbols :
             b.symbols[id].name # << >> => id \in ToSet(Held(i.byName, b.symbols[id].name))

PlacesIndexed(i, b, types) ==
    /\ i.symbolAt \in [DOMAIN i.symbolAt -> Nat] /\ DOMAIN i.symbolAt \subseteq DOMAIN b.symbolAt
    /\ "SymbolByAddress" \in types \/ "SymbolByName" \in types => i.symbolAt = b.symbolAt
    /\ i.functionAt \in [DOMAIN i.functionAt -> Nat]
    /\ DOMAIN i.functionAt \subseteq DOMAIN b.functionAt
    /\ "FunctionByAddress" \in types => i.functionAt = b.functionAt

CallsIndexed(i, b, types) ==
    /\ i.incoming \in [DOMAIN i.incoming -> Seq(AnyXref)]
    /\ "XRefIncoming" \in types =>
          \A f \in DOMAIN b.functions : \A x \in ToSet(b.functions[f].callsIn) :
             x \in ToSet(Held(i.incoming, x.to))

IndexInv ==
    /\ bin.symbols \in Seq(Symbols)
    /\ IsLatest(bin.symbolAt, Addresses(bin)) /\ IsLatest(bin.functionAt, Starts(bin))
    /\ DOMAIN idx = DOMAIN EmptyIndex
    /\ ~foreign => /\ NamesIndexed(idx, bin, current) /\ PlacesIndexed(idx, bin, current)
                   /\ CallsIndexed(idx, bin, current)

(* An index type built since the last creation, with no entry of another   *)
(* binary, finds at every address the entity the binary itself finds       *)
(* there, although both are filled by overwriting and the index may have   *)
(* been built many times, in parts and in any order.                       *)
IndexFindsWhatBinaryFinds ==
    ~foreign =>
        /\ "SymbolByAddress" \in current \/ "SymbolByName" \in current =>
               idx.symbolAt = bin.symbolAt
        /\ "FunctionByAddress" \in current => idx.functionAt = bin.functionAt

(* A search by name finds the symbols that a query with the same pattern   *)
(* selects from the binary, whichever of the two types was built and how   *)
(* often, and one cut at MaxResults loses none of them if the index was    *)
(* built once by build() and there are at most half as many: every symbol  *)
(* is listed twice.                                                        *)
SearchAgreesWithQuery ==
    ~foreign /\ ("SymbolByAddress" \in current \/ "SymbolByName" \in current) =>
        \A p \in Patterns :
            LET selected == {id \in DOMAIN bin.symbols :
                                SymbolMatches([AnySymbol EXCEPT !.name = {p}], bin, id)}
            IN  /\ ToSet(FindSymbolsBySubstring(idx, p)) = selected
                /\ idx = Build(bin) /\ 2 * Cardinality(selected) <= MaxResults =>
                       ToSet(Search(idx, "Substring", p, MaxResults)) = selected

(* The functions a query selects, by range or by whether they are called,  *)
(* are those that a walk over the index and its references comes by; and   *)
(* a search of the binary by name ends at functions the index knows.       *)
FunctionQueriesAgree ==
    ~foreign /\ {"FunctionByAddress", "XRefIncoming"} \subseteq current =>
        /\ \A r \in Ranges :
             {bin.functions[f].start :
                 f \in {g \in DOMAIN bin.functions :
                           AddressMatchesFunction([range |-> {r}], bin, g)}}
             = {a \in r.start .. r.end - 1 : /\ NextKey(idx.functionAt, a - 1) = {a}
                                             /\ PrevKey(idx.functionAt, a + 1) = {a}}
        /\ \A f \in DOMAIN bin.functions :
             FunctionMatches([AnyFunction EXCEPT !.hasXrefsIn = {TRUE}], bin, f) =>
                 \E x \in ToSet(bin.functions[f].callsIn) : x \in ToSet(Held(idx.incoming, x.to))
        /\ \A p \in Patterns :
             FindFunctionsByName(bin, p) \subseteq {idx.functionAt[a] : a \in DOMAIN idx.functionAt}

(* The ways to look something up give one answer: the three above.         *)
QueriesAgree == IndexFindsWhatBinaryFinds /\ SearchAgreesWithQuery /\ FunctionQueriesAgree

(* After a trigger whose rule cascades, no part of a dirty function is     *)
(* clean; a range that holds a byte of a function leaves it dirty, among   *)
(* them the one its first address resolves to.                             *)
InvalidationReaches ==
    [][ /\ \A t \in Triggers : Trigger(t) /\ Rule(t).cascade =>
             /\ BlocksOf(bin, dirty'.functions) \subseteq dirty'.blocks
             /\ InsnsOf(bin, dirty'.blocks) \subseteq dirty'.insns
        /\ \A t \in Triggers, range \in Ranges : TriggerInRange(t, range) =>
             \A f \in DOMAIN bin.functions :
                 (bin.functions[f].start .. bin.functions[f].end - 1)
                     \cap (range.start .. range.end - 1) # {} => f \in dirty'.functions
        /\ \A t \in Triggers, range \in Ranges :
             /\ TriggerInRange(t, range)
             /\ range.start < range.end
             /\ ResolveAddress(bin, range.start).insn # Invalid
             => ResolveAddress(bin, range.start).function \in dirty'.functions
      ]_databaseVars

=============================================================================
