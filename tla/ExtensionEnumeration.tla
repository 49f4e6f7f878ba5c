-------------------------- MODULE ExtensionEnumeration --------------------------
(***************************************************************************)
(* What an enumeration problem of affca promises, whatever the algorithm:  *)
(* only extensions are produced, none twice, and it stops only when the    *)
(* problem is answered: all of them for an EE problem; one of them, if     *)
(* there is one, for an SE problem.                                        *)
(***************************************************************************)

VARIABLES
    problem,       \* "EE" or "SE", fixed
    targets,       \* the extensions of the input framework, fixed
    found,         \* those produced so far
    status         \* "running" or "done"

enumVars == <<problem, targets, found, status>>

EnumInit ==
    /\ problem \in {"EE", "SE"}
    /\ found = {}
    /\ status = "running"

\* An SE problem stops with its first extension.
Emit ==
    /\ status = "running"
    /\ \E e \in targets \ found : found' = found \cup {e}
    /\ status' = IF problem = "EE" THEN "running" ELSE "done"
    /\ UNCHANGED <<problem, targets>>

Finish ==
    /\ status = "running"
    /\ found = targets
    /\ status' = "done"
    /\ UNCHANGED <<problem, targets, found>>

EnumNext == Emit \/ Finish

EnumSafeSpec == EnumInit /\ [][EnumNext]_enumVars

EnumSpec == EnumSafeSpec /\ WF_enumVars(EnumNext)
================================================================================
