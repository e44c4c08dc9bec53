----------------------------- MODULE TypeSystem -----------------------------
(***************************************************************************)
(* What the type system does today: TypePropagation, which settles the     *)
(* types of the variables of one function, TypeDatabase, which finds types *)
(* by name, and the places of parameters by calling convention.            *)
(*                                                                         *)
(* The identifier of a variable is its place, counted from 1 as in the     *)
(* code; that of a type is its place, counted from 1 (from 0 in the code). *)
(***************************************************************************)
EXTENDS Binary

CONSTANTS
    BaseTypes,      \* those a client names
    TypeNames,
    MaxVariables, MaxTold, MaxTypes

VARIABLES
    variables,      \* of the function that is analyzed
    stackFrame,     \* stack_frame_, of which only "analyzed" is ever set
    types,          \* TypeInfo, by identifier
    nameToId,
    told            \* history: what the propagation was told of each variable

typeVars == <<variables, stackFrame, types, nameToId, told>>

-----------------------------------------------------------------------------
(* Variables and constraints.                                              *)

NewVariable == [inferred |-> "Unknown", constraints |-> << >>, final |-> FALSE]
Constraint(kind, base) == [kind |-> kind, base |-> base]
TypesOf == {"Unknown"} \cup BaseTypes
Told == [kind : {"MustBe", "SameAs", "Concrete", "Solve"}, base : TypesOf]
NewFrame == [analyzed |-> FALSE]

Variable == [inferred : TypesOf, constraints : Seq(Told), final : BOOLEAN]

Tell(id, what) ==
    told' = IF Has(told, id) THEN [told EXCEPT ![id] = Append(@, what)] ELSE told

(* The frame of the last function is kept.                                 *)
InitializeTypes ==
    /\ variables' = << >> /\ told' = << >>
    /\ UNCHANGED <<stackFrame, types, nameToId>>

AddRegisterVar ==
    /\ Len(variables) < MaxVariables
    /\ variables' = Append(variables, NewVariable)
    /\ told' = Append(told, << >>)
    /\ UNCHANGED <<stackFrame, types, nameToId>>

AddConstraint(id, c) ==
    /\ variables' = IF Has(variables, id)
                    THEN [variables EXCEPT ![id].constraints = Append(@, c)]
                    ELSE variables
    /\ Tell(id, c)
    /\ UNCHANGED <<stackFrame, types, nameToId>>

(* Whether the variable is final or not.                                   *)
SetConcreteType(id, type) ==
    /\ variables' = IF Has(variables, id)
                    THEN [variables EXCEPT ![id].inferred = type, ![id].final = TRUE]
                    ELSE variables
    /\ Tell(id, Constraint("Concrete", type))
    /\ UNCHANGED <<stackFrame, types, nameToId>>

Those(log, kind) == {i \in DOMAIN log : log[i].kind = kind}
MustBe(v) == Those(v.constraints, "MustBe")

(* Faulty variant: a constraint weighs more than a type that was set.      *)
SettledAgain(v) ==
    IF MustBe(v) = {} THEN v
    ELSE [v EXCEPT !.inferred = v.constraints[Min(MustBe(v))].base, !.final = TRUE]

(* The first constraint that says what a variable is; the others, and any  *)
(* that contradicts it, are not looked at.                                 *)
Settled(v) ==
    IF v.final \/ MustBe(v) = {} THEN v
    ELSE [v EXCEPT !.inferred = v.constraints[Min(MustBe(v))].base, !.final = TRUE]

Solve ==
    /\ variables' = [id \in DOMAIN variables |-> Settled(variables[id])]
    /\ told' = [id \in DOMAIN told |-> Append(told[id], Constraint("Solve", "Unknown"))]
    /\ UNCHANGED <<stackFrame, types, nameToId>>

(* The blocks are walked over for nothing.                                 *)
AnalyzeStackFrame ==
    /\ stackFrame' = [NewFrame EXCEPT !.analyzed = TRUE]
    /\ UNCHANGED <<variables, types, nameToId, told>>

GetInferredType(id) == IF Has(variables, id) THEN variables[id].inferred ELSE "Unknown"

-----------------------------------------------------------------------------
(* Named types.                                                            *)

(* Nothing is built in, and the identifiers are given out again.           *)
LoadBuiltins ==
    /\ types' = << >> /\ nameToId' = << >>
    /\ UNCHANGED <<variables, stackFrame, told>>

AddType(name, kind) ==
    /\ Len(types) < MaxTypes
    /\ types' = Append(types, [name |-> name, kind |-> kind])
    /\ nameToId' = Bind(nameToId, name, Len(types) + 1)
    /\ UNCHANGED <<variables, stackFrame, told>>

AddStruct(name) == AddType(name, "Struct")
AddTypedef(name) == AddType(name, "Void")
AddEnum(name) == AddType(name, "Enum")

FindByName(name) == FindAt(nameToId, name)

-----------------------------------------------------------------------------
(* Calling conventions: one index for integers and floats.                 *)

SystemV == [integer |-> <<7, 6, 2, 1, 8, 9>>, float |-> <<0, 1, 2, 3, 4, 5, 6, 7>>, align |-> 8]
Windows == [integer |-> <<1, 2, 8, 9>>, float |-> <<0, 1, 2, 3>>, align |-> 8]

Registers(cc, isFloat) == IF isFloat THEN cc.float ELSE cc.integer

(* Faulty variant: places on the stack are counted from the first          *)
(* parameter of any kind.                                                  *)
ParamLocationFromZero(cc, index, isFloat) ==
    LET regs == Registers(cc, isFloat)
    IN  IF index < Len(regs) THEN [kind |-> "Register", at |-> regs[index + 1]]
        ELSE [kind |-> "Stack", at |-> (index % Len(regs)) * cc.align]

ParamLocation(cc, index, isFloat) ==
    LET regs == Registers(cc, isFloat)
    IN  IF index < Len(regs) THEN [kind |-> "Register", at |-> regs[index + 1]]
        ELSE [kind |-> "Stack", at |-> (index - Len(regs)) * cc.align]

-----------------------------------------------------------------------------

TypesInit ==
    /\ variables = << >> /\ told = << >>
    /\ stackFrame = NewFrame
    /\ types = << >> /\ nameToId = << >>

(* Identifiers of no variable are passed as well.                          *)
PropagationNext ==
    \/ InitializeTypes
    \/ AddRegisterVar
    \/ /\ FoldLeft(LAMBDA n, log : n + Len(log), 0, told) < MaxTold
       /\ \/ \E id \in 0 .. MaxVariables, kind \in {"MustBe", "SameAs"}, base \in BaseTypes :
                AddConstraint(id, Constraint(kind, base))
          \/ \E id \in 0 .. MaxVariables, base \in BaseTypes : SetConcreteType(id, base)
          \/ Solve
    \/ AnalyzeStackFrame

NamesNext ==
    \/ LoadBuiltins
    \/ \E name \in TypeNames : AddStruct(name) \/ AddTypedef(name) \/ AddEnum(name)

-----------------------------------------------------------------------------

(* The type that what was told speaks for: the one that was set last,      *)
(* whatever the constraints say; if none was, the first that a variable    *)
(* had to be, once there was a solve with it or after it.                  *)
Evidence(log) ==
    LET set == Those(log, "Concrete")
        must == Those(log, "MustBe")
    IN  IF set # {} THEN log[Max(set)].base
        ELSE IF must # {} /\ \E i \in Those(log, "Solve") : i > Min(must)
             THEN log[Min(must)].base
             ELSE "Unknown"

TypesTypes ==
    /\ variables \in Seq(Variable)
    /\ told \in Seq(Seq(Told))
    /\ Len(told) = Len(variables)
    /\ types \in Seq([name : TypeNames, kind : {"Struct", "Void", "Enum"}])

(* A variable is final once there is evidence for its type, and the first  *)
(* of its constraints that says what it is is the first it was told.       *)
Follows(v, log) ==
    LET must == Those(log, "MustBe") IN
    /\ v.inferred = Evidence(log)
    /\ MustBe(v) = {} <=> must = {}
    /\ must # {} => v.constraints[Min(MustBe(v))] = log[Min(must)]
    /\ v.final <=> \/ Those(log, "Concrete") # {}
                   \/ must # {} /\ \E i \in Those(log, "Solve") : i > Min(must)

SettledInv == \A id \in DOMAIN variables : Follows(variables[id], told[id])

(* A name has the greatest identifier that was given to it.                *)
NamesInv ==
    \A name \in TypeNames :
        LET its == {id \in DOMAIN types : types[id].name = name}
        IN  /\ FindByName(name) \in {Invalid} \cup its
            /\ \A id \in its : id <= FindByName(name)

TypesInv == TypesTypes /\ SettledInv /\ NamesInv

(* In whichever order types are set, constraints added and solves made, a  *)
(* variable has the type there is evidence for; a name finds the type it   *)
(* was given to last; and two parameters of one call on Windows, integers  *)
(* or floats, are never in the same place.                                 *)
TypesFollowEvidence ==
    /\ \A id \in 0 .. MaxVariables + 1 :
          GetInferredType(id) = IF Has(told, id) THEN Evidence(told[id]) ELSE "Unknown"
    /\ \A name \in TypeNames :
          FindByName(name) = Max({Invalid} \cup {id \in DOMAIN types : types[id].name = name})
    /\ variables = << >> /\ types = << >> =>
          \A i, j \in 0 .. 9, f, g \in BOOLEAN :
             i # j => LET p == ParamLocation(Windows, i, f)
                          q == ParamLocation(Windows, j, g)
                      IN  /\ p # q \/ (f # g /\ p.kind = "Register")
                          /\ ParamLocation(SystemV, i, f) # ParamLocation(SystemV, j, f)

=============================================================================
