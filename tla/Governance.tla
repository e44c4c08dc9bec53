----------------------------- MODULE Governance -----------------------------
(***************************************************************************)
(* EntityGovernance and XRefGovernance: whether an entity of a binary is   *)
(* consistent with the others.  "is" of an instruction holds its flags.    *)
(***************************************************************************)
EXTENDS Binary

(* A reference that is not given is in order.                              *)
ValidFunction(b, f) ==
    /\ f.section # Invalid => Has(b.sections, f.section)
    /\ \A id \in ToSet(f.blocks) : Has(b.blocks, id)
    /\ f.entry # Invalid => f.entry \in ToSet(f.blocks)

ValidBlock(b, k) ==
    /\ k.parent # Invalid => Has(b.functions, k.parent)
    /\ \A id \in ToSet(k.insns) : Has(b.insns, id)
    /\ \A id \in ToSet(k.succs \o k.preds) : Has(b.blocks, id)

(* Its bytes are a part of the file, or none.                              *)
ValidInstruction(b, i) == i.parent # Invalid => Has(b.blocks, i.parent)

(* Not whether the instruction refers to the target.                       *)
ValidXref(x, i) ==
    /\ x.from = i.address
    /\ x.type \in {"Call", "Jump"} => i.is \in {"call", "branch"}

ValidBinary(b) ==
    /\ \A f \in ToSet(b.functions) : ValidFunction(b, f)
    /\ \A k \in ToSet(b.blocks) : ValidBlock(b, k)
    /\ \A i \in ToSet(b.insns) : ValidInstruction(b, i)

=============================================================================
