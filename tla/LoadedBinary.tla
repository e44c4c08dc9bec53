---------------------------- MODULE LoadedBinary ----------------------------
(***************************************************************************)
(* What is computed from a binary that is loaded: the index and the dirty  *)
(* sets over it, the edges of its functions, its references and strings,   *)
(* the addresses of its sections, and its types.  The five read the binary *)
(* and never each other, so that a behaviour is one of one of them.        *)
(***************************************************************************)
EXTENDS AnalysisDatabase, ControlFlow, AddressSpaces, CrossReferences, TypeSystem

VARIABLE part

vars == <<part, databaseVars, flowVars, addressVars, xrefVars, typeVars>>

Init ==
    /\ FlowInit
    /\ AddressInit
    /\ XrefInit
    /\ TypesInit
    /\ \/ part = "database"
          /\ \E who \in {"index", "engine"}, b \in Loadable : DatabaseInit(who, b)
       \/ part \in {"flow", "addresses", "references", "propagation", "names"} /\ DatabaseInit("index", EmptyBinary(0))

Next ==
    /\ UNCHANGED part
    /\ \/ part = "database" /\ DatabaseNext /\ UNCHANGED <<flowVars, addressVars, xrefVars, typeVars>>
       \/ part = "flow" /\ FlowNext /\ UNCHANGED <<databaseVars, addressVars, xrefVars, typeVars>>
       \/ part = "addresses" /\ AddressNext /\ UNCHANGED <<databaseVars, flowVars, xrefVars, typeVars>>
       \/ part = "references" /\ XrefNext /\ UNCHANGED <<databaseVars, flowVars, addressVars, typeVars>>
       \/ /\ \/ part = "propagation" /\ PropagationNext
             \/ part = "names" /\ NamesNext
          /\ UNCHANGED <<databaseVars, flowVars, addressVars, xrefVars>>

Spec == Init /\ [][Next]_vars

=============================================================================
