------------------------------ MODULE Storage -------------------------------
(***************************************************************************)
(* What a user makes and Atlus keeps in files: annotations and patches of  *)
(* a loaded file, and sessions.  The three share no state, and a behaviour *)
(* is one of one of them.                                                  *)
(***************************************************************************)
EXTENDS Annotations, PatchEngine, IRSerialization

VARIABLE user

vars == <<user, annotationVars, patchVars, sessionVars>>

Init ==
    /\ user \in {"annotates", "patches", "keeps sessions"}
    /\ AnnotationsInit
    /\ PatchInit
    /\ SessionInit

Annotates == AnnotationsNext /\ UNCHANGED <<patchVars, sessionVars>>
Patching == PatchNext /\ UNCHANGED <<annotationVars, sessionVars>>
KeepsSessions == SessionNext /\ UNCHANGED <<annotationVars, patchVars>>

Next ==
    /\ UNCHANGED user
    /\ \/ user = "annotates" /\ Annotates
       \/ user = "patches" /\ Patching
       \/ user = "keeps sessions" /\ KeepsSessions

Spec == Init /\ [][Next]_vars

-----------------------------------------------------------------------------
TypeOK == NotesType /\ StoredType /\ PatchType
IInv == TypeOK /\ IdsAreNew /\ FileInv /\ PatchInv /\ SessionInv

=============================================================================
