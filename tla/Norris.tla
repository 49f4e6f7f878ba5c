--------------------------------- MODULE Norris ---------------------------------
(***************************************************************************)
(* algorithms/norris/stable.c: ee_st_norris and se_st_norris, which keep a *)
(* list of concepts of the complement context and take in one argument     *)
(* after the other.  A round (add_to_list, add_one) walks through the list *)
(* and updates, removes or branches off concepts; one action is one node   *)
(* of the walk.                                                            *)
(***************************************************************************)
EXTENDS ConceptLists, Semantics, Sequences, SequencesExt

CONSTANT Inputs     \* the frameworks the routines may be called with

VARIABLES
    prob,           \* "EE" or "SE"
    af,
    i,              \* the argument of the round
    concepts,       \* the list, from the node that *phead should point to
    cur,            \* the position of cur in it
    fresh,          \* the list from new_head
    freed,          \* the node the caller's head points to has been freed
    extensions,     \* the list EE-ST returns
    printed,        \* what SE-ST has written to the output file
    pc              \* "round", "done", "crash"

vars == <<prob, af, i, concepts, cur, fresh, freed, extensions, printed, pc>>

Top == Concept(Arg, {}, Arg)

Init ==
    /\ prob \in {"EE", "SE"}
    /\ af \in Inputs
    /\ i = 0 /\ cur = 1
    /\ concepts = <<Top>> /\ fresh = <<>>
    /\ freed = FALSE
    /\ extensions = <<>> /\ printed = <<>>
    /\ pc = "round"

Walking == pc = "round" /\ cur <= Len(concepts)

Skip ==
    /\ Walking
    /\ ~Fits(i, concepts[cur])
    /\ cur' = cur + 1
    /\ UNCHANGED <<prob, af, i, concepts, fresh, freed, extensions, printed, pc>>

\* SE-ST prints the extension and returns at once; EE-ST inserts it in front.
Deliver(S) ==
    IF prob = "SE"
    THEN pc' = "done" /\ printed' = Append(printed, S) /\ UNCHANGED extensions
    ELSE extensions' = <<S>> \o extensions /\ UNCHANGED <<pc, printed>>

\* Fault: the walk passes over the node behind the one it removes.
UnlinkAndSkip(grown) ==
    IF prob = "EE" /\ cur = 1 /\ Len(concepts) = 1
    THEN concepts' = <<grown>> /\ cur' = 2 /\ UNCHANGED freed
    ELSE concepts' = RemoveAt(concepts, cur) /\ cur' = cur + 1 /\ freed' = (freed \/ cur = 1)

\* The node is unlinked and the walk goes on behind it.  The head of the list is freed
\* by add_to_list only with a node behind it; head is assigned, not the caller's.
Unlink(grown) ==
    IF prob = "EE" /\ cur = 1 /\ Len(concepts) = 1
    THEN concepts' = <<grown>> /\ cur' = 2 /\ UNCHANGED freed
    ELSE concepts' = RemoveAt(concepts, cur) /\ cur' = cur /\ freed' = (freed \/ cur = 1)

UpdateStable ==
    /\ Walking
    /\ Fits(i, concepts[cur]) /\ Covered(af, i, concepts[cur])
    /\ LET grown == Grown(af, i, concepts[cur], concepts[cur].extent)
       IN  /\ IsStable(grown)
           /\ Deliver(grown.intent)
           /\ IF prob = "EE" THEN Unlink(grown) ELSE UNCHANGED <<concepts, cur, freed>>
    /\ UNCHANGED <<prob, af, i, fresh>>

UpdateExhausted ==
    /\ Walking
    /\ Fits(i, concepts[cur]) /\ Covered(af, i, concepts[cur])
    /\ LET grown == Grown(af, i, concepts[cur], concepts[cur].extent)
       IN  ~IsStable(grown) /\ IsExhausted(grown) /\ Unlink(grown)
    /\ UNCHANGED <<prob, af, i, fresh, extensions, printed, pc>>

Update ==
    /\ Walking
    /\ Fits(i, concepts[cur]) /\ Covered(af, i, concepts[cur])
    /\ LET grown == Grown(af, i, concepts[cur], concepts[cur].extent)
       IN  /\ ~IsStable(grown) /\ ~IsExhausted(grown)
           /\ concepts' = [concepts EXCEPT ![cur] = grown]
    /\ cur' = cur + 1
    /\ UNCHANGED <<prob, af, i, fresh, freed, extensions, printed, pc>>

\* The concept stays as it is, and one that holds i is branched off unless it
\* fails the order test, is an extension, or is exhausted.
Branch ==
    /\ Walking
    /\ Fits(i, concepts[cur]) /\ ~Covered(af, i, concepts[cur])
    /\ LET c == concepts[cur]
           extent == c.extent \cap argument_extents(af, i)
           new == Grown(af, i, c, extent)
           closed == IsNewIntentClosed(af, i, c, extent)
       IN  /\ IF closed /\ IsStable(new) THEN Deliver(new.intent)
              ELSE UNCHANGED <<extensions, printed, pc>>
           /\ fresh' = IF closed /\ ~IsStable(new) /\ ~IsExhausted(new)
                       THEN <<new>> \o fresh ELSE fresh
    /\ cur' = cur + 1
    /\ UNCHANGED <<prob, af, i, concepts, freed>>

\* The new concepts are linked behind the last node.  The caller reads its head
\* in the next round or frees it at the end.
EndRound ==
    /\ pc = "round" /\ cur > Len(concepts)
    /\ concepts' = concepts \o fresh
    /\ fresh' = <<>>
    /\ cur' = 1
    /\ i' = i + 1
    /\ pc' = IF freed THEN "crash" ELSE IF i' = N THEN "done" ELSE "round"
    /\ UNCHANGED <<prob, af, freed, extensions, printed>>

Ended == pc \in {"done", "crash"} /\ UNCHANGED vars

Next ==
    Skip \/ UpdateStable \/ UpdateExhausted \/ Update \/ Branch \/ EndRound \/ Ended

Spec == Init /\ [][Next]_vars /\ WF_vars(Next)

-------------------------------------------------------------------------------
Found == {extensions[k] : k \in DOMAIN extensions}

\* Between two rounds every stable extension that has not been delivered is the
\* future of one concept in the list, whose intent is what it holds below i;
\* removing, updating and branching lose none of them.
OneConceptEach ==
    (pc = "round" /\ cur = 1 /\ fresh = <<>>) =>
        \A S \in StableExtensions(af) \ Found :
            Cardinality({k \in DOMAIN concepts :
                            concepts[k].intent = S \cap (0 .. i-1)}) = 1

\* "remove cur from the concept list" (norris/stable.c): the list that a round
\* starts with is the one the last round has left.
ListUsable == pc # "crash"
================================================================================
