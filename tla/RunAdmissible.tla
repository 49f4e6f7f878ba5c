------------------------------ MODULE RunAdmissible ------------------------------
(***************************************************************************)
(* main of affca.c for the problems on complete, preferred and ideal       *)
(* extensions: it may sort the framework, calls the routine for the        *)
(* problem and the algorithm, maps some of the results back and prints     *)
(* them.  The routines are the instances below; one of them runs.          *)
(***************************************************************************)
EXTENDS Sorting, Semantics, Sequences

CONSTANTS
    Problems,           \* pairs of an algorithm and a problem
    Inputs,             \* frameworks that are solved as they are read,
    QuestionInputs,     \* ... if an argument is asked for or one extension wanted
    SortedInputs,       \* frameworks that are sorted first (-s)
    Questions           \* arguments that are asked for

ASSUME InputsAssumption == 
    Inputs \cup QuestionInputs \cup SortedInputs \subseteq Framework
ASSUME QuestionsAssumption == Questions \subseteq Arg

ASSUME ProblemsAssumption ==
    Problems \subseteq
        ({"next-closure"} \X {"EE-CO", "DC-CO", "EE-PR", "SE-ID"})
            \cup ({"subgraph", "subgraph_adj"} \X {"DC-CO"})
            \cup ({"cbo"} \X {"SE-PR", "DC-PR", "DS-PR"})

VARIABLES
    alg, prob,
    input,              \* the framework as it was read
    order,              \* mapping: from the indices of base to those of input
    base,               \* the framework that is solved
    argument,           \* the argument asked for; N if the problem has none
    printed,            \* the sets written to the output file
    pc,                 \* of the routine; then "print", "exit"
    i, k, attacks, current,
    pruning, tmp, tmp_complement, extensions,                    \* EE-CO
    af, parent_mapping, projected_argument, mapping,             \* DC-CO
    argument_index, next_index_to_use, answer,
    ignored, new_intent, c, first_candidate,                     \* EE-PR
    ideal, attacked, attackers, capacity,                        \* SE-ID
    smart, stack, extension                                      \* cbo

mainVars == <<alg, prob, input, order, base, argument>>
searchVars == <<pruning, tmp, tmp_complement>>
decideVars == <<af, parent_mapping, projected_argument, mapping,
                argument_index, next_index_to_use, answer>>
preferredVars == <<ignored, new_intent, c, first_candidate>>
idealVars == <<ideal, attacked, attackers, capacity>>
cboVars == <<smart, stack, extension>>
routineVars == <<i, k, attacks, current, searchVars, extensions, decideVars,
                 preferredVars, idealVars, cboVars>>
vars == <<mainVars, printed, pc, routineVars>>

Complete == INSTANCE CompleteNC WITH Inputs <- Framework

Decide == INSTANCE DcCompleteNC WITH
    Inputs <- Framework, Algorithms <- {"next-closure", "subgraph", "subgraph_adj"},
    asked <- argument, argument <- projected_argument

Preferred == INSTANCE IdealNC WITH Inputs <- Framework

Cbo == INSTANCE PreferredCbO WITH
    Inputs <- Framework, af <- base,
    prob <- CASE prob = "SE-PR" -> "SE" [] prob = "DC-PR" -> "DC" [] OTHER -> "DS"

SearchIdle ==
    /\ pruning = FALSE /\ tmp = {} /\ tmp_complement = {}
DecideIdle ==
    /\ af = <<>> /\ parent_mapping = <<>> /\ projected_argument = 0 /\ mapping = <<>>
    /\ argument_index = 0 /\ next_index_to_use = 0 /\ answer = {}
PreferredIdle ==
    /\ ignored = {} /\ new_intent = {} /\ c = {} /\ first_candidate = <<>>
    /\ ideal = {} /\ attacked = {} /\ attackers = {} /\ capacity = 0
CboIdle == smart = FALSE /\ stack = <<>> /\ extension = {}

Unsorted == [a \in Arg |-> a]

\* sort_af is given one framework to read and to write.
Read ==
    \/ /\ input \in IF prob \in {"EE-CO", "EE-PR", "SE-ID"} THEN Inputs ELSE QuestionInputs
       /\ order = Unsorted /\ base = input
    \/ /\ input \in SortedInputs
       /\ \E criterion \in criteria, ascending \in BOOLEAN :
              order \in Orders(input, criterion, ascending)
       /\ base = SortedInPlace(input, order)

\* The argument is the one at its number in the file, whatever the order.
Init ==
    /\ \E problem \in Problems : alg = problem[1] /\ prob = problem[2]
    /\ Read
    /\ argument \in IF prob \in {"DC-CO", "DC-PR", "DS-PR"} THEN Questions ELSE {N}
    /\ printed = <<>>
    /\ \/ /\ prob = "EE-CO" /\ attacks = base /\ Complete!Init
          /\ k = 0 /\ DecideIdle /\ PreferredIdle /\ CboIdle
       \/ /\ prob = "DC-CO" /\ Decide!Init
          /\ extensions = <<>> /\ PreferredIdle /\ CboIdle
       \/ /\ prob \in {"EE-PR", "SE-ID"} /\ attacks = base /\ Preferred!IdealInit
          /\ k = 0 /\ extensions = <<>> /\ SearchIdle /\ DecideIdle /\ CboIdle
       \/ /\ alg = "cbo" /\ Cbo!Init
          /\ i = 0 /\ attacks = <<>> /\ current = {} /\ extensions = <<>>
          /\ SearchIdle /\ DecideIdle /\ PreferredIdle

Solve ==
    /\ UNCHANGED <<mainVars, printed>>
    /\ \/ /\ prob = "EE-CO" /\ Complete!Next
          /\ UNCHANGED <<k, decideVars, preferredVars, idealVars, cboVars>>
       \/ /\ prob = "DC-CO" /\ Decide!Next
          /\ UNCHANGED <<extensions, preferredVars, idealVars, cboVars>>
       \/ /\ prob = "EE-PR" /\ Preferred!Preferred
          /\ UNCHANGED <<k, searchVars, extensions, decideVars, cboVars>>
       \/ /\ prob = "SE-ID" /\ Preferred!IdealNext
          /\ UNCHANGED <<k, searchVars, extensions, decideVars, cboVars>>
       \/ /\ alg = "cbo" /\ Cbo!Next
          /\ UNCHANGED <<i, attacks, current, searchVars, extensions, decideVars,
                         preferredVars, idealVars>>

\* EE-PR returns the list that SE-ID goes on with.
Return ==
    /\ pc = IF prob = "EE-PR" THEN "listed" ELSE "done"
    /\ pc' = "print"
    /\ UNCHANGED <<mainVars, printed, routineVars>>

Mapped(S) == MapIndices(S, order)

PrintComplete ==
    /\ pc = "print" /\ prob = "EE-CO" /\ extensions # <<>>
    /\ printed' = Append(printed, Mapped(Head(extensions)))
    /\ extensions' = Tail(extensions)
    /\ UNCHANGED <<mainVars, pc, i, k, attacks, current, searchVars, decideVars,
                   preferredVars, idealVars, cboVars>>

PrintPreferred ==
    /\ pc = "print" /\ prob = "EE-PR" /\ first_candidate # <<>>
    /\ printed' = Append(printed, Mapped(Head(first_candidate)))
    /\ first_candidate' = Tail(first_candidate)
    /\ UNCHANGED <<mainVars, pc, i, k, attacks, current, searchVars, extensions, decideVars,
                   ignored, new_intent, c, idealVars, cboVars>>

ListPrinted ==
    /\ pc = "print"
    /\ \/ prob = "EE-CO" /\ extensions = <<>>
       \/ prob = "EE-PR" /\ first_candidate = <<>>
    /\ pc' = "exit"
    /\ UNCHANGED <<mainVars, printed, routineVars>>

\* A single set is printed as it is, and NULL as NO, which is no set here, or not
\* at all.
PrintOne ==
    /\ pc = "print" /\ prob \notin {"EE-CO", "EE-PR"}
    /\ \E result \in {CASE prob = "DC-CO" -> answer
                        [] prob = "SE-ID" -> {ideal}
                        [] OTHER -> extension} :
           \/ result = {} /\ printed' = printed
           \/ \E S \in result : printed' = Append(printed, S)
    /\ pc' = "exit"
    /\ UNCHANGED <<mainVars, routineVars>>

Exited == pc = "exit" /\ UNCHANGED vars

Next ==
    \/ Solve \/ Return \/ PrintComplete \/ PrintPreferred \/ ListPrinted \/ PrintOne
    \/ Exited

Spec == Init /\ [][Next]_vars /\ WF_vars(Next)

-------------------------------------------------------------------------------
Running == pc \notin {"print", "exit"}

\* EE-CO's list is strictly descending in the lectic order.
Descending == Running /\ prob = "EE-CO" => Complete!Descending

\* DC-CO's swaps keep the framework searched the one it was called for, renamed.
MappingFaithful == Running /\ prob = "DC-CO" => Decide!MappingFaithful

\* add_ignore settles the grounded extension and its victims.
GroundedSettled ==
    Running /\ prob \in {"EE-PR", "SE-ID"} => Preferred!GroundedSettled

\* No candidate for a preferred extension contains another.
CandidatesIncomparable ==
    Running /\ prob \in {"EE-PR", "SE-ID"} => Preferred!CandidatesIncomparable

\* The attackers of the intersection fit the array allocated for them.
AttackersFit == Running /\ prob = "SE-ID" => Preferred!AttackersFit

\* Every call of explore_subtree_smart gets what it demands if the first one does.
FrameContract == Running /\ alg = "cbo" => Cbo!FrameContract

-------------------------------------------------------------------------------
Printed == {printed[m] : m \in DOMAIN printed}

\* The sort has left the framework that was read, in the order it has settled on.
SortedFramework == base = Renamed(input, order)

\* The framework solved is the one read; what is not mapped back is in its indices.
Answers(problem) ==
    /\ pc = "exit" /\ prob = problem
    /\ IF problem \in {"EE-CO", "EE-PR"} THEN SortedFramework ELSE base = input

\* EE-CO prints complete extensions only, each once, and all of them if the
\* peaceful arguments come last in the framework searched.
CompleteRight ==
    Answers("EE-CO") =>
        /\ Len(printed) = Cardinality(Printed)
        /\ Printed \subseteq CompleteExtensions(input)
        /\ Complete!PeacefulLast => Printed = CompleteExtensions(input)

\* EE-PR prints the preferred extensions, each once.
AllPreferred ==
    Answers("EE-PR") =>
        /\ Len(printed) = Cardinality(Printed)
        /\ Printed = PreferredExtensions(input)

\* SE-ID prints the ideal extension.
IdealResult == Answers("SE-ID") => Len(printed) = 1 /\ Ideal(input, printed[1])

\* The defender loop, if it has run, has not displaced the argument.
InFront == k < 0 => mapping[0] = projected_argument

\* DC-CO prints a complete extension that holds the argument, and NO only if there
\* is none, unless its defender loop has displaced the argument.
RightWhenInFront ==
    Answers("DC-CO") /\ alg # "subgraph_adj" /\ InFront =>
        IF \E S \in CompleteExtensions(input) : argument \in S
        THEN Len(printed) = 1 /\ argument \in printed[1] /\ CompleteExt(input, printed[1])
        ELSE printed = <<>>

\* Every argument has as many victims as attackers.
Balanced(att) ==
    \A a \in DOMAIN att : Cardinality(att[a]) = Cardinality(Transpose(att)[a])

\* With adjacency lists it does so if every argument has as many victims as
\* attackers, which the countdown of attackers takes for granted, and if the lists
\* the search is given are those of the framework it searches.
RightWhenBalanced ==
    /\ Answers("DC-CO") /\ alg = "subgraph_adj"
    /\ Balanced(base) /\ attacks = af /\ InFront
    =>  IF \E S \in CompleteExtensions(input) : argument \in S
        THEN Len(printed) = 1 /\ argument \in printed[1] /\ CompleteExt(input, printed[1])
        ELSE printed = <<>>

\* SE-PR prints a preferred extension, and so does DC-PR, holding the argument,
\* unless there is none: a processed argument never has to be added later.
\* DC-PR is right only if the closure of the argument is conflict-free.
PreferredFound ==
    /\ Answers("SE-PR") \/ Answers("DC-PR")
    /\ prob = "DC-PR" =>
           Cbo!Refused(argument) \/ IsConflictFree(base, Cbo!RootClosure(argument))
    =>
        LET wanted == {P \in PreferredExtensions(input) : prob = "DC-PR" => argument \in P}
        IN  /\ Printed \subseteq wanted
            /\ wanted # {} => Len(printed) = 1

\* What DS-PR prints is a preferred extension without the argument.  It finds one
\* if one attacks the argument; that they all do is an assumption of ds_pr_cbo.
CounterexampleRight ==
    Answers("DS-PR") =>
        LET counterexamples == {P \in PreferredExtensions(input) : argument \notin P}
        IN  /\ Printed \subseteq counterexamples
            /\ printed = <<>> =>
                   \A P \in counterexamples : ~SetAttacksArg(input, P, argument)

\* The routines end on every input, answer right or wrong.
Termination == <>(pc = "exit")
================================================================================
