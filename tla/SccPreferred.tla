------------------------------- MODULE SccPreferred -------------------------------
(***************************************************************************)
(* ee_pr_scc of algorithms/connected-components/scc_preferred.c: EE-PR by  *)
(* recursion over source components.  What an extension of the source      *)
(* component leaves undecided cannot be defended against: its victims get  *)
(* a self-attack in the residual framework.  A framework of the recursion  *)
(* is a PAF: an attack relation and a mapping to the framework read.       *)
(***************************************************************************)
EXTENDS Components, Semantics, Sequences

CONSTANT Inputs     \* the frameworks the input file may hold

VARIABLES
    base,       \* the framework read
    frames,     \* calls of compute_preferred_extensions, the innermost first:
                \* [paf, component, projection, todo, residual, result], where
                \* todo stands for component_extension
    returned,   \* the list returned last, or what is left of it
    pc          \* "call", "solve", "loop", "residual", "append", "done"

vars == <<base, frames, returned, pc>>

Paf(att, base_mapping) == [af |-> att, base_mapping |-> base_mapping]

\* "bool loops": it counts to one.
CountLoops(set) == IF set = {} THEN 0 ELSE 1

\* project_paf_with_loops; NULL is the PAF without arguments.
NoPaf == Paf(<<>>, <<>>)

ProjectPaf(paf, mask, loop_mask) ==
    LET parent_mapping == ParentMapping(mask)
        projected == Renamed(paf.af, parent_mapping)
    IN  IF CountLoops(mask \cap loop_mask) = Cardinality(mask) THEN NoPaf
        ELSE Paf([a \in DOMAIN projected |->
                     projected[a] \cup {b \in {a} : parent_mapping[b] \in loop_mask}],
                 [a \in DOMAIN projected |-> paf.base_mapping[parent_mapping[a]]])

\* The arguments that the component extension E, in base indices, leaves.
Remainder(paf, E) ==
    LET accepted == {a \in DOMAIN paf.af : paf.base_mapping[a] \in E}
    IN  DOMAIN paf.af \ (accepted \cup Victims(paf.af, accepted))

\* Fault: the victims of undecided arguments are taken as they are.
NoneUndefended(paf, component, E) == {}

\* Victims of what E leaves undecided in the component.
Undefended(paf, component, E) == Victims(paf.af, component \cap Remainder(paf, E))

\* extract_preferred_residual_framework
Residual(paf, component, E) ==
    LET remainder == Remainder(paf, E) \ component
    IN  IF remainder = {} THEN NoPaf
        ELSE ProjectPaf(paf, remainder, Undefended(paf, component, E))

Frame(paf) ==
    [paf |-> paf, component |-> {}, projection |-> NoPaf, todo |-> <<>>,
     residual |-> NoPaf, result |-> <<>>]

Top == frames[1]

Init ==
    /\ base \in Inputs
    /\ frames = <<Frame(Paf(base, [a \in Arg |-> a]))>>
    /\ returned = <<>>
    /\ pc = "call"

FindComponent ==
    /\ pc = "call"
    /\ \E component \in {SourceComponent(Top.paf.af, DOMAIN Top.paf.af)} :
           frames' = [frames EXCEPT ![1].component = component,
                                    ![1].projection = ProjectPaf(Top.paf, component, {})]
    /\ pc' = "solve"
    /\ UNCHANGED <<base, returned>>

\* preferred_extensions lists its result in some order; restore_base_indices.
Solve ==
    /\ pc = "solve"
    /\ \E exts \in {PreferredExtensions(Top.projection.af)} : \E list \in Listings(exts) :
           frames' = [frames EXCEPT ![1].todo =
               [k \in DOMAIN list |-> MapIndices(list[k], Top.projection.base_mapping)]]
    /\ pc' = "loop"
    /\ UNCHANGED <<base, returned>>

Pop(list) ==
    /\ returned' = list
    /\ frames' = Tail(frames)
    /\ pc' = IF Len(frames) = 1 THEN "done" ELSE "append"

IsWhole == Top.component = DOMAIN Top.paf.af

\* The component is all there is.
WholeComponent ==
    /\ pc = "loop" /\ IsWhole
    /\ Pop(Top.todo)
    /\ UNCHANGED base

Extract ==
    /\ pc = "loop" /\ ~IsWhole /\ Top.todo # <<>>
    /\ frames' = [frames EXCEPT
           ![1].residual = Residual(Top.paf, Top.component, Head(Top.todo))]
    /\ pc' = "residual"
    /\ UNCHANGED <<base, returned>>

Descend ==
    /\ pc = "residual" /\ Top.residual # NoPaf
    /\ frames' = <<Frame(Top.residual)>> \o frames
    /\ pc' = "call"
    /\ UNCHANGED <<base, returned>>

\* The node moves to the result.
Move ==
    /\ pc = "residual" /\ Top.residual = NoPaf
    /\ frames' = [frames EXCEPT ![1].result = Append(@, Head(Top.todo)),
                                ![1].todo = Tail(@)]
    /\ pc' = "loop"
    /\ UNCHANGED <<base, returned>>

\* One union for each extension of the residual framework, whose list is freed
\* on the way; then the component extension is advanced.
AppendUnions ==
    /\ pc = "append"
    /\ frames' = [frames EXCEPT
           ![1].result = @ \o [k \in DOMAIN returned |-> Head(Top.todo) \cup returned[k]],
           ![1].todo = Tail(@)]
    /\ returned' = <<>>
    /\ pc' = "loop"
    /\ UNCHANGED base

Finish ==
    /\ pc = "loop" /\ ~IsWhole /\ Top.todo = <<>>
    /\ Pop(Top.result)
    /\ UNCHANGED base

Returned == pc = "done" /\ UNCHANGED vars

Next ==
    \/ FindComponent \/ Solve \/ WholeComponent \/ Extract \/ Descend \/ Move \/ AppendUnions \/ Finish \/ Returned

Spec == Init /\ [][Next]_vars /\ WF_vars(Next)

-------------------------------------------------------------------------------
\* Whenever a call returns to its caller, it hands back the preferred extensions
\* of the framework with self-attacks it was called for, in base indices.
CallContract ==
    pc = "append" =>
        {returned[k] : k \in DOMAIN returned} =
            {MapIndices(e, Top.residual.base_mapping) :
                e \in PreferredExtensions(Top.residual.af)}
================================================================================
