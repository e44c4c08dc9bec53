----------------------------- MODULE GlobalIndex ----------------------------
(***************************************************************************)
(* index::GlobalIndex: maps filled from a Binary, as operators on a record *)
(* of them.  build_index appends to the maps that hold lists and           *)
(* overwrites in the others; two pairs of index types share one body, so   *)
(* that each of the four fills the maps of both.  clear_index takes back   *)
(* the mark that an index is built and none of its data.                   *)
(***************************************************************************)
EXTENDS Binary

IndexTypes ==
    <<"SymbolByName", "SymbolByAddress", "FunctionByAddress", "StringLiteral",
      "XRefIncoming", "XRefOutgoing", "InstructionByAddress", "BasicBlockByAddress">>

EmptyIndex ==
    [byName |-> << >>, byPrefix |-> << >>, symbolAt |-> << >>, functionAt |-> << >>,
     insnAt |-> << >>, incoming |-> << >>, outgoing |-> << >>, strings |-> << >>,
     built |-> {}]

-----------------------------------------------------------------------------
(* build_index: one operator per body of its switch.  A loop that          *)
(* overwrites leaves the last of what has a key, one that appends lists    *)
(* all of it; the keys of a member are the one name a symbol may have, or  *)
(* all the prefixes of it.                                                 *)

BindAll(map, keys) ==
    LET after[n \in 0 .. Len(keys)] ==
            IF n = 0 THEN map ELSE Bind(after[n - 1], keys[n], n)
    IN  after[Len(keys)]

Ids(table) == [id \in 1 .. Len(table) |-> id]
Addresses(b) == [id \in 1 .. Len(b.symbols) |-> b.symbols[id].address]
Starts(b) == [id \in 1 .. Len(b.functions) |-> b.functions[id].start]
Names(b) == [id \in 1 .. Len(b.symbols) |-> {b.symbols[id].name} \ {<< >>}]
NamePrefixes(b) ==
    [id \in 1 .. Len(b.symbols) |->
        {SubSeq(b.symbols[id].name, 1, n) : n \in 1 .. Len(b.symbols[id].name)}]
Contents(b) ==
    [id \in 1 .. Len(b.symbols) |->
        IF b.symbols[id].type = "String" THEN {b.symbols[id].name} \ {<< >>} ELSE {}]

AddSymbols(i, b) ==
    [i EXCEPT !.byName = PushAll(@, Ids(b.symbols), Names(b)),
              !.byPrefix = PushAll(@, Ids(b.symbols), NamePrefixes(b)),
              !.symbolAt = BindAll(@, Addresses(b))]

AddInstructions(map, b, block) ==
    FoldLeft(LAMBDA m, id : IF Has(b.insns, id) THEN Bind(m, b.insns[id].address, id) ELSE m,
             map, block.insns)

AddCode(map, b, f) ==
    FoldLeft(LAMBDA m, id : IF Has(b.blocks, id) THEN AddInstructions(m, b, b.blocks[id]) ELSE m,
             map, f.blocks)

Xrefs(b) ==
    FlattenSeq([f \in 1 .. Len(b.functions) |-> b.functions[f].callsIn \o b.functions[f].callsOut])

(* Faulty variant: the two maps of references are mixed up.                *)
AddXrefsSwapped(i, xrefs) ==
    [i EXCEPT !.incoming = PushAll(@, xrefs, From(xrefs)),
              !.outgoing = PushAll(@, xrefs, To(xrefs))]

AddXrefs(i, xrefs) ==
    [i EXCEPT !.incoming = PushAll(@, xrefs, To(xrefs)),
              !.outgoing = PushAll(@, xrefs, From(xrefs))]

BuildBody(i, b, type) ==
    CASE type \in {"SymbolByName", "SymbolByAddress"} -> AddSymbols(i, b)
      [] type = "FunctionByAddress" -> [i EXCEPT !.functionAt = BindAll(@, Starts(b))]
      [] type = "InstructionByAddress" ->
            [i EXCEPT !.insnAt = FoldLeft(LAMBDA m, f : AddCode(m, b, f), @, b.functions)]
      [] type \in {"XRefIncoming", "XRefOutgoing"} -> AddXrefs(i, Xrefs(b))
      [] type = "StringLiteral" ->
            [i EXCEPT !.strings = PushAll(@, Ids(b.symbols), Contents(b))]
      [] OTHER -> i

BuildIndex(i, b, type) == [BuildBody(i, b, type) EXCEPT !.built = @ \cup {type}]

(* build clears first, whatever was built.                                 *)
Build(b) ==
    LET after[n \in 0 .. Len(IndexTypes)] ==
            IF n = 0 THEN EmptyIndex ELSE BuildIndex(after[n - 1], b, IndexTypes[n])
    IN  after[Len(IndexTypes)]

ClearIndex(i, type) == [i EXCEPT !.built = @ \ {type}]

-----------------------------------------------------------------------------
(* Searches.  A list of results is cut at max_results, duplicates and all; *)
(* the order in which a substring search visits an unordered map is left   *)
(* to CHOOSE, and no property depends on it.                               *)

FindSymbolsBySubstring(i, pattern) ==
    LET names == SetToSeq({name \in DOMAIN i.byName : Occurs(pattern, name)})
    IN  FlattenSeq([n \in 1 .. Len(names) |-> i.byName[names[n]]])

Search(i, kind, text, maxResults) ==
    LET found == CASE kind = "Exact" -> Held(i.byName, text)
                   [] kind = "Prefix" -> Held(i.byPrefix, text)
                   [] kind = "Substring" -> FindSymbolsBySubstring(i, text)
                   [] OTHER -> << >>
    IN  SubSeq(found, 1, IF Len(found) > maxResults THEN maxResults ELSE Len(found))

(* get_next_symbol and get_prev_symbol, the same for functions: the keys   *)
(* of the ordered map above and below an address.                          *)
NextKey(map, a) ==
    LET above == {k \in DOMAIN map : k > a} IN IF above = {} THEN {} ELSE {Min(above)}
PrevKey(map, a) ==
    LET below == {k \in DOMAIN map : k < a} IN IF below = {} THEN {} ELSE {Max(below)}

=============================================================================
