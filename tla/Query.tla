-------------------------------- MODULE Query -------------------------------
(***************************************************************************)
(* The filters of query.cpp as predicates on the entities of a Binary.  A  *)
(* std::optional of a filter is a set with one element, or none.  The DLL  *)
(* a symbol comes from and its demangled name are matched like its name    *)
(* and are left out.                                                       *)
(***************************************************************************)
EXTENDS Binary

InRange(range, a) == \A r \in range : r.start <= a /\ a < r.end

AddressMatchesFunction(filter, b, f) ==
    Has(b.functions, f) /\ InRange(filter.range, b.functions[f].start)

(* Faulty variant: symbols of the linker are taken out for any value.      *)
SymbolMatchesNoImports(filter, b, id) ==
    /\ Has(b.symbols, id)
    /\ LET s == b.symbols[id]
       IN  /\ \A p \in filter.name : Occurs(p, s.name)
           /\ \A t \in filter.type : s.type = t
           /\ s.type # "Import"
           /\ s.type = "Export" => filter.exports

SymbolMatches(filter, b, id) ==
    /\ Has(b.symbols, id)
    /\ LET s == b.symbols[id]
       IN  /\ \A p \in filter.name : Occurs(p, s.name)
           /\ \A t \in filter.type : s.type = t
           /\ s.type = "Import" => filter.imports
           /\ s.type = "Export" => filter.exports

(* A leaf calls nothing.  The name a function is matched by is "func_" and *)
(* its number, never that of its symbol, and is left out.                  *)
FunctionMatches(filter, b, id) ==
    /\ Has(b.functions, id)
    /\ LET f == b.functions[id]
       IN  /\ \A n \in filter.minSize : f.size >= n
           /\ \A n \in filter.maxSize : f.size <= n
           /\ \A t \in filter.type : f.type = t
           /\ \A wanted \in filter.hasXrefsIn : (f.callsIn # << >>) = wanted
           /\ \A wanted \in filter.hasXrefsOut : (f.callsOut # << >>) = wanted
           /\ \A wanted \in filter.isLeaf : (f.callsOut = << >>) = wanted

AnySymbol == [name |-> {}, type |-> {}, imports |-> TRUE, exports |-> TRUE]
AnyFunction ==
    [minSize |-> {}, maxSize |-> {}, type |-> {}, hasXrefsIn |-> {}, hasXrefsOut |-> {},
     isLeaf |-> {}]

=============================================================================
