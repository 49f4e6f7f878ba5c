-------------------------------- MODULE RunStable --------------------------------
(***************************************************************************)
(* main of affca.c for the problems on stable extensions: it may sort the  *)
(* framework, calls the routine for the problem and the algorithm, maps    *)
(* the result back and prints it.  The routines are the instances below;   *)
(* one of them runs.  EE-ST and SE-ST by next-closure are in StableNC.     *)
(***************************************************************************)
EXTENDS Sorting, Semantics, Sequences

CONSTANTS
    Problems,           \* pairs of an algorithm and a problem
    Inputs,             \* frameworks that are solved as they are read
    SortedInputs        \* frameworks that are sorted first (-s)

ASSUME InputsAssumption == Inputs \cup SortedInputs \subseteq Framework

ASSUME ProblemsAssumption ==
    Problems \subseteq
        ({"mis", "norris", "nourine"} \X {"EE", "SE"})
            \cup {<<"norris-bu", "EE">>, <<"mis", "DC">>, <<"next-closure", "DC">>}

VARIABLES
    alg, prob,
    input,              \* the framework as it was read
    order,              \* mapping: from the indices of base to those of input
    base,               \* the framework that is solved
    argument,           \* the argument asked for; N unless prob is "DC"
    printed,            \* the sets written to the output file
    pc,                 \* of the routine; then "print", "exit" or "crash"
    i, extensions, result,
    concepts, cur, fresh, freed,                                 \* Norris
    conflicts, imps, closure,                                    \* Nourine
    af, parent_mapping, s, conflicting, dominated, pending, extension,     \* mis
    attacks, tmp, c, mapping, p, index_argument, mask, k         \* DC by next-closure

mainVars == <<alg, prob, input, order, base, argument>>
walkVars == <<concepts, cur, fresh>>
norrisVars == <<walkVars, freed>>
nourineVars == <<conflicts, imps, closure>>
misVars == <<af, parent_mapping, s, conflicting, dominated, pending, extension>>
dcVars == <<attacks, tmp, c, mapping, p, index_argument, mask, k>>
vars == <<mainVars, printed, pc, i, extensions, result,
          norrisVars, nourineVars, misVars, dcVars>>

Norris == INSTANCE Norris WITH Inputs <- Framework, af <- base
BottomUp == INSTANCE NorrisBottomUp WITH Inputs <- Framework, af <- base
Nourine == INSTANCE Nourine WITH Inputs <- Framework, af <- base
Mis == INSTANCE MaximalIndependentSets WITH Inputs <- Framework
Decide == INSTANCE DcStableNC WITH Inputs <- Framework, af <- base

Solvers == INSTANCE Solvers

NorrisIdle == concepts = <<>> /\ cur = 1 /\ fresh = <<>> /\ freed = FALSE
NourineIdle == conflicts = <<>> /\ imps = {} /\ closure = {}
MisIdle ==
    /\ af = <<>> /\ parent_mapping = <<>> /\ s = {} /\ conflicting = {}
    /\ dominated = {} /\ pending = <<>> /\ extension = {}
DecideIdle ==
    /\ attacks = <<>> /\ tmp = {} /\ c = {} /\ mapping = <<>>
    /\ p = 0 /\ index_argument = 0 /\ mask = {} /\ k = 0

Unsorted == [a \in Arg |-> a]

\* sort_af is given one framework to read and to write.
Read ==
    \/ input \in Inputs /\ order = Unsorted /\ base = input
    \/ /\ input \in SortedInputs
       /\ \E criterion \in criteria, ascending \in BOOLEAN :
              order \in Orders(input, criterion, ascending)
       /\ base = SortedInPlace(input, order)

\* The argument is the one at its number in the file, whatever the order.
Init ==
    /\ \E problem \in Problems : alg = problem[1] /\ prob = problem[2]
    /\ Read
    /\ printed = <<>>
    /\ \/ /\ alg = "norris" /\ Norris!Init
          /\ argument = N /\ result = {} /\ NourineIdle /\ MisIdle /\ DecideIdle
       \/ /\ alg = "norris-bu" /\ BottomUp!Init
          /\ argument = N /\ result = {} /\ freed = FALSE
          /\ NourineIdle /\ MisIdle /\ DecideIdle
       \/ /\ alg = "nourine" /\ Nourine!Init
          /\ argument = N /\ NorrisIdle /\ MisIdle /\ DecideIdle
       \/ /\ alg = "mis" /\ Mis!Init
          /\ result = {} /\ NorrisIdle /\ NourineIdle /\ DecideIdle
       \/ /\ alg = "next-closure" /\ Decide!Init
          /\ extensions = <<>> /\ NorrisIdle /\ NourineIdle /\ MisIdle

Solve ==
    /\ UNCHANGED mainVars
    /\ \/ /\ alg = "norris" /\ Norris!Next
          /\ UNCHANGED <<result, nourineVars, misVars, dcVars>>
       \/ /\ alg = "norris-bu" /\ BottomUp!Next
          /\ UNCHANGED <<result, printed, freed, nourineVars, misVars, dcVars>>
       \/ /\ alg = "nourine" /\ Nourine!Next
          /\ UNCHANGED <<printed, norrisVars, misVars, dcVars>>
       \/ /\ alg = "mis" /\ Mis!Next
          /\ UNCHANGED <<result, printed, norrisVars, nourineVars, dcVars>>
       \/ /\ alg = "next-closure" /\ Decide!Next
          /\ UNCHANGED <<extensions, printed, norrisVars, nourineVars, misVars>>

Return ==
    /\ pc = "done"
    /\ pc' = "print"
    /\ UNCHANGED <<mainVars, printed, i, extensions, result,
                   norrisVars, nourineVars, misVars, dcVars>>

Mapped(S) == MapIndices(S, order)

\* The list is printed by main, mapped back, or by run_norris_bu as it is.
PrintList ==
    /\ pc = "print" /\ prob = "EE" /\ extensions # <<>>
    /\ printed' = Append(printed, IF alg = "norris-bu" THEN Head(extensions)
                                  ELSE Mapped(Head(extensions)))
    /\ extensions' = Tail(extensions)
    /\ UNCHANGED <<mainVars, pc, i, result, norrisVars, nourineVars, misVars, dcVars>>

ListPrinted ==
    /\ pc = "print" /\ prob = "EE" /\ extensions = <<>>
    /\ pc' = "exit"
    /\ UNCHANGED <<mainVars, printed, i, extensions, result,
                   norrisVars, nourineVars, misVars, dcVars>>

\* SE-ST prints the bitset it has passed to the routine, which Norris' algorithm
\* leaves empty, or dereferences what mis has returned.
PrintOne ==
    /\ pc = "print" /\ prob = "SE"
    /\ IF alg = "mis" /\ extension = {}
       THEN pc' = "crash" /\ UNCHANGED printed
       ELSE /\ pc' = "exit"
            /\ \E S \in IF alg = "mis" THEN extension ELSE {result} :
                   printed' = Append(printed, Mapped(S))
    /\ UNCHANGED <<mainVars, i, extensions, result,
                   norrisVars, nourineVars, misVars, dcVars>>

\* DC-ST prints NO, which is no set here, for NULL and for the empty set.
PrintAnswer ==
    /\ pc = "print" /\ prob = "DC"
    /\ \E answer \in {(IF alg = "mis" THEN extension ELSE {result}) \ {{}}} :
           printed' = IF answer = {} THEN printed
                      ELSE Append(printed, Mapped(CHOOSE S \in answer : TRUE))
    /\ pc' = "exit"
    /\ UNCHANGED <<mainVars, i, extensions, result,
                   norrisVars, nourineVars, misVars, dcVars>>

Exited == pc \in {"exit", "crash"} /\ UNCHANGED vars

Next ==
    \/ Solve \/ Return \/ PrintList \/ ListPrinted \/ PrintOne \/ PrintAnswer \/ Exited

Spec == Init /\ [][Next]_vars /\ WF_vars(Next)

-------------------------------------------------------------------------------
Running == pc \notin {"print", "exit", "crash"}

\* The chain of swaps in dc_st_next_closure leaves a faithful renaming.
MappingFaithful == Running /\ alg = "next-closure" => Decide!MappingFaithful

\* A call of extend that reaches the last argument has a maximal conflict-free
\* set, also when its set was started from a child.
LeafMaximal == Running /\ alg = "mis" => Mis!LeafMaximal

\* Between two rounds of Norris' algorithm every extension not delivered is the
\* future of exactly one concept of the list.
OneConceptEach == Running /\ alg = "norris" => Norris!OneConceptEach

\* Bottom up, such an extension is below exactly one concept.
OneConceptAbove == Running /\ alg = "norris-bu" => BottomUp!OneConceptAbove

\* The implications and conflicts hold of every stable extension while they are
\* sharpened.
ImplicationsHold == Running /\ alg = "nourine" => Nourine!ImplicationsHold

\* The walk through the closed sets passes over no extension.
ExtensionsAhead == Running /\ alg = "nourine" => Nourine!ExtensionsAhead

-------------------------------------------------------------------------------
Wanted == StableExtensions(input)

Printed == {printed[m] : m \in DOMAIN printed}

\* The sort has left the framework that was read, in the order it has settled on.
SortedFramework == base = Renamed(input, order)

\* The framework that is solved is the one read up to the names of arguments.
Solvable == SortedFramework /\ (alg = "norris-bu" => order = Unsorted)

\* The complement of the first closure, which no domination test has seen.
FirstClosure == Mapped(Arg \ Nourine!unit_close({}, imps))

\* EE-ST prints the stable extensions, each once.  mis may miss some if an argument
\* follows a self-attacker, and Nourine's algorithm may print the complement of the
\* first closure too.
EnumerationRight ==
    pc = "exit" /\ prob = "EE" /\ Solvable =>
        /\ Len(printed) = Cardinality(Printed)
        /\ Printed \subseteq Wanted \cup (IF alg = "nourine" THEN {FirstClosure} ELSE {})
        /\ Wanted \subseteq Printed \/ (alg = "mis" /\ ~Mis!LoopsLast)

\* What the recursions over components take a routine to list, and when they take
\* it to crash, is what it lists on the framework it is called for, and when it
\* crashes.  Only EE-ST by Nourine's algorithm itself lists the set without arguments.
ListedAsTaken ==
    prob = "EE" /\ (alg = "norris-bu" => order = Unsorted) =>
        /\ pc = "exit" =>
               Printed = {Mapped(S) : S \in Solvers!Extensions(alg, base)}
                            \cup (IF alg = "nourine" THEN {FirstClosure} \cap {{}} ELSE {})
        /\ pc \in {"exit", "crash"} => (pc = "crash" <=> Solvers!Crashes(alg, base))

\* SE-ST prints an extension unless there is none, and then no argument at all;
\* the exceptions are the same.
OneRight ==
    pc = "exit" /\ prob = "SE" /\ Solvable =>
        /\ Printed \subseteq Wanted \cup {{}}
                               \cup (IF alg = "nourine" THEN {FirstClosure} ELSE {})
        /\ (Wanted = {} <=> Printed \subseteq {{}})
               \/ (alg = "nourine" /\ FirstClosure \in Printed)

\* The argument that is decided on is the one asked for.
ArgumentKept == order[argument] = argument

\* A set DC-ST prints is a stable extension, and from mis it holds the argument.
\* Every extension that holds the argument and another one is reason enough for a
\* set with the argument; so is any with mis if the self-attackers come last.
DecisionRight ==
    pc = "exit" /\ prob = "DC" /\ SortedFramework /\ ArgumentKept =>
        /\ \A S \in Printed : S \in Wanted /\ (alg = "mis" => argument \in S)
        /\ \A S \in Wanted : argument \in S =>
               \/ \E T \in Printed : argument \in T
               \/ alg = "next-closure" /\ S = {argument}
               \/ alg = "mis" /\ ~Mis!LoopsLast

\* The programs end on every input.  Norris' algorithm crashes only after it has
\* freed the caller's head, mis only without an extension to print.
Termination ==
    <>(\/ pc = "exit"
       \/ pc = "crash" /\ alg = "norris" /\ freed
       \/ pc = "crash" /\ alg = "mis" /\ extension = {})
================================================================================
