# A specification of AFFCA

AFFCA (`src/`, a C program) computes extensions of abstract argumentation
frameworks with algorithms from formal concept analysis.  This directory holds
TLA+ modules that model its algorithms and the main program around them, TLC
configurations that check them on small frameworks, and TLAPS proofs about what
the algorithms rest on for frameworks of every size.

## The system

One run of `affca` reads a framework from a file, optionally sorts its
arguments (`-s`), solves one problem with one algorithm, and writes the result.
There is one thread, nothing is persisted, and the only input is the framework,
the problem, the algorithm and (for the DC and DS problems) an argument.  What is
hard is inside the algorithms: each prunes a walk through exponentially many
sets by tests on the order of the argument indices; several of them edit in
place the set, list or mapping they are walking through; several rename the
arguments and have to find their way back; and lists of results are shared
between a memo table and those who read it.  Whether a pruned branch held an
extension depends on the order of the arguments, and a handful of hand-made
frameworks, which is what `src/src/test` has (it prints results and asserts
none), says little about that.

Problems: EE (all extensions), CE (their number), SE (one), DC (one that holds an
argument, if any) and DS (one that does not, if any), for ST (stable), CO
(complete), PR (preferred) and ID (ideal) semantics.

| component | source (under `src/src/`) | state | operations |
|---|---|---|---|
| framework | `af/af.[ch]` | adjacency matrix of bitsets | attack and defence tests, arrows, complement, transpose, project, swap |
| sorting | `af/sort.c` | permutation of the arguments | sort by degree, in place when called by main |
| bit sets | `bitset/bitset.[ch]` | blocks of 64 bits, the last one padded | set operations and comparisons block by block |
| stable, next-closure | `algorithms/next-closure/stable.c` | current set, closure, index; DC: mapping and mask | EE-ST, SE-ST, DC-ST |
| complete, next-closure | `algorithms/next-closure/complete.c` | as above, plus the victims of the closure loop and the set the search was entered with | EE-CO, DC-CO, DC-CO on a subgraph |
| complete, adjacency lists | `algorithms/next-closure/complete_2.c` | lists of victims, countdown of attackers, work stack | DC-CO (`subgraph_adj`) |
| preferred, next-closure | `algorithms/next-closure/preferred.c` | branch candidate, candidate list, settled arguments | EE-PR |
| ideal | `algorithms/ideal/ideal.c` | shrinking set, its victims, its attackers | SE-ID |
| close-by-one | `algorithms/cbo/preferred.c` | recursion frames with their `processed` sets | SE-PR, DC-PR, DS-PR |
| independent sets | `algorithms/maximal-independent-sets/mis.c`, `algorithms/dc.c` | recursion frames | EE-ST, SE-ST, DC-ST |
| Norris | `algorithms/norris/*.c` | list of concepts, edited while walked through | EE-ST, SE-ST |
| Nourine | `algorithms/nourine/stable.c` | an implication and a set of conflicts per argument | EE-ST, SE-ST |
| components | `algorithms/connected-components/*.c` | recursion frames, memo table from argument sets to lists, shared list nodes | EE-ST, CE-ST, EE-PR by SCC; EE-ST by WCC |
| main | `affca.c` | framework read, order, options | sort, dispatch, map back, print |
| hash map | `bitset/bitset_hash_map.[ch]` | chained buckets | put, get |
| hashing, lists, stacks | `hashing`, `utils` | containers | |
| parser | `parser` | | |

Components call each other as plain functions.  SE-ID takes the list of
`ee_pr_next_closure` and edits it.  The SCC and WCC routines call an enumeration
on projected frameworks, and the SCC routines call themselves on what a
component's extension leaves.  The subgraph variants of DC-CO call the search on
a projection and close the answer in the whole framework.  `dc()` calls `mis` on
a framework of which the argument's attackers have been made self-attackers.
DS-PR calls SE-PR around each attacker.  `main` maps most results back through
the permutation of the sort, and prints and frees a list node by node.

What makes each component correct: EE problems list every extension once and
nothing else; SE problems find one unless there is none; DC and DS problems
answer the question asked about the argument, in the numbering of the input;
loops end; arrays sized by an argument about the mathematics suffice; no list is
read after it has been freed or cut.  `PROJECT.json` lists under "hazards" the
lines at which this is at stake.

## Modules

| module | models | of |
|---|---|---|
| `AF` | operators on frameworks | `af.h`, `af.c` |
| `Sorting` | the orders `qsort` may leave, and the in-place sort | `sort.c` |
| `BitSets` | the routines on blocks of 64 bits | `bitset.h`, `bitset.c` |
| `BitSetHashMap` | the memo tables of the recursions over components | `bitset_hash_map.[ch]` |
| `Semantics` | the definitions of extensions, independent of the code | |
| `LecticOrder` | the order the index loops realise, and what lies ahead of a search | |
| `ExtensionEnumeration` | abstract: what an EE or SE problem promises | |
| `NextClosure` | `next_conflict_free_closure` | `stable.c` |
| `StableNC` | EE-ST, SE-ST | `stable.c` |
| `DcStableNC` | DC-ST | `stable.c` |
| `SemiComplete`, `SemiClosureLoop` | `closure_semi_complete` as an operator, and as the loop that computes it | `complete.c` |
| `SemiCompleteNC` | both semi-complete searches | `complete.c` |
| `CompleteNC` | EE-CO | `complete.c` |
| `DcCompleteNC` | DC-CO, plain, on the subgraph, and with adjacency lists | `complete.c`, `complete_2.c` |
| `PreferredNC` | EE-PR | `preferred.c` |
| `IdealNC` | SE-ID on top of `PreferredNC` | `ideal.c` |
| `PreferredCbO` | SE-PR, DC-PR, DS-PR | `cbo/preferred.c` |
| `MaximalIndependentSets` | EE-ST, SE-ST and, through `dc()`, DC-ST | `mis.c`, `dc.c` |
| `IndependentSets` | the tests of `extend`, and the sets its recursion reaches | `mis.c` |
| `Norris` | EE-ST, SE-ST, top down | `norris/stable.c` |
| `ConceptLists` | what a round does to a concept, and the concepts a round leaves | `norris/stable.c` |
| `NorrisBottomUp` | EE-ST, bottom up | `norris/stable_bu.c` |
| `Nourine` | EE-ST, SE-ST | `nourine/stable.c` |
| `UnitImplications` | the implications, how they are sharpened, and the sets the walk lists | `nourine/stable.c` |
| `Solvers` | what the routine lists that a component is given to, and when it crashes | the `ee_st_*` routines, called through a pointer in `cc.c` |
| `Components` | source components, projections, residual arguments | `scc*.c`, `wcc.c`, `cc.c` |
| `SccStable` | EE-ST and CE-ST by SCC, with the memo table and its list nodes | `scc.c`, `scc_count.c` |
| `SccPreferred` | EE-PR by SCC | `scc_preferred.c` |
| `WccStable` | EE-ST by WCC | `wcc.c` |
| `RunStable` | `main` around `Norris`, `NorrisBottomUp`, `Nourine`, `MaximalIndependentSets` and `DcStableNC` | `affca.c` |
| `RunAdmissible` | `main` around `CompleteNC`, `DcCompleteNC`, `IdealNC` (with `PreferredNC`) and `PreferredCbO` | `affca.c` |
| `RunCc` | `main` around `SccStable`, `SccPreferred` and `WccStable` | `affca.c` |
| `MC*` | the sets of frameworks TLC starts from; `MCSccStable` puts `Solvers` into `SccStable` | |
| `*_proofs` | theorems | |

A framework is a function from arguments to the sets of their victims, and
outside `BitSets` a bitset is the set of its indices, so `attacks[a]` is the row
`graph[a]`.  Arguments are `0 .. N-1`, as inside the program.  Variables have the
names they have in the C code; where two names denote one object (a caller's
`tmp` and the callee's `current`) the module says so.  A pointer that may be null
is a set of at most one element.  Linked lists are sequences, the head first,
except in `SccStable`: there nodes are shared between the memo table and the
results built from it, so the nodes and their `next` pointers are variables.
Recursion is a stack of frames, one step per loop iteration, call or return.

One action is one iteration of a loop of the search, or one iteration of the
caller's loop.  `pc` says where control is.  The inner loops that compute one
value (an arrow, a canonicity test, a conflict test) are operators.  The one
inner loop that is not obviously equal to its operator, the closure of
`complete.c`, has a module of its own: `SemiClosureLoop` shows that it computes
`SemiClosure`, which the searches use.  Where the outcome of `qsort` depends on
the implementation (ties), or the next element of a reordered index array is
chosen (`ideal.c`), the model allows every choice.  The same holds for a pointer
that leads to freed memory: `Norris` ends in `"crash"` when it follows one.

The `Run*` modules compose the routines with `main`: `Init` chooses the problem,
the framework and whether it is sorted first; `Solve` is a step of the routine
that was chosen (one `INSTANCE` each, on the shared variables `attacks`,
`extensions`, `result` and the routine's own); `Return`, `PrintList` and the like
are `main` after it.  The properties of the composed runs speak about what has
been written (`printed`) and the framework that was read (`input`).

`SccStable` and `WccStable` are given the routine for the components as `cc.c`
gives it to them: the variable `routine` says which one, and the operators
`stable_extensions` and `crashes` (constants of the two modules) what it lists for
a projection and whether the process ends in it. `RunCc` puts `Solvers` in their
place. The enumeration of a component is one step there, with the sets the
routine lists, in any order, its mistakes included: `mis` loses extensions
behind a self-attacker, Nourine's algorithm lists its first closure without a
test for domination, and Norris' algorithm may free the head of its list. What
the operators of `Solvers` say of a routine is what `run_stable` compares with
the routine step by step (`ListedAsTaken`).

Definitions whose comment begins with "Fault:" are not part of the model.
Each is a variant of the definition it precedes, with a mistake a programmer
could make there; put in its place it violates the property that `PROJECT.json`
pairs it with, which shows that the property can fail.

## Model checking

Every initial state is one framework (and problem, order, argument); the
algorithms are deterministic except as said above, so a run checks the complete
behaviour on each framework.  There is no symmetry reduction: the algorithms
depend on the order of the arguments.

| run | inputs | shows |
|---|---|---|
| `stable_nc` | N=4, at most one self-attacker | EE-ST and SE-ST by next-closure: `Sound`, `Complete`, `NothingSkipped`, `Descending`; they implement `ExtensionEnumeration` with its progress |
| `semi_closure` | N=3, every framework, every set | the loop computes the least semi-complete superset; termination |
| `run_admissible` | N=4; see below | EE-CO, DC-CO by three algorithms, EE-PR, SE-ID, and SE-PR, DC-PR, DS-PR by close-by-one, from the framework read to the sets printed; termination |
| `run_stable` | N=4; see below | EE-ST and SE-ST by Norris (both directions), Nourine and `mis`, DC-ST by `mis` and next-closure; termination, with the two kinds of crash the code has |
| `run_cc` | N=5; see below | EE-ST by SCC with five routines for the components and by WCC with three, CE-ST and EE-PR by SCC; termination, with the crashes of the count and of Norris' algorithm |
| seven more | N=3 or 4, every framework | violated: see the next section |

Three arguments suffice for a conflict, a defence and a failed canonicity test.
Four give two levels of defence, two mutually exclusive extensions next to an
argument and its attacker, several concepts in Norris' list, and the first
frameworks on which `se_id` has something to shrink (with three arguments
`Shrink` is never enabled).  Five are needed for two components that depend on
a third one.  Of the frameworks of that size the runs take:

- `run_admissible`: self-attacks only of the last argument, which then attacks
  at most one other (`LastMayLoopOnce`).  The DC, DS and SE-PR problems ask for
  the first and the last argument on frameworks in which the two between them
  are in order of their victims: the routines see the numbers of arguments only
  through the order of their loops.
- `run_stable`: self-attacks only of the last argument, or only of the first
  while the last one attacks nothing but the first (`EndsMayLoop`): one loop
  behind and one before the others is what the canonicity test of `mis` tells
  apart.
- Both: main sorts the frameworks `Stars`, in which one argument attacks what it
  likes and another may attack it back, by every criterion in both directions
  and with every outcome of a tie.  They hold both orders under which the sorted
  framework is right and orders under which it is not.
- `run_cc`: for stable extensions `Layered`, two pairs that attack each other,
  the first of which may attack everything; different extensions of the first
  leave different arguments, of which the second pair is a source component
  again, so the memo table is hit, missed, and hit after its list was cut. Among
  them is 0<->2, 1<->4, 3->1, 3->3, which has no stable extension and for which
  `wcc-nourine` prints {0, 4} and {2, 4}. In `Misjudged`, three arguments that a
  routine may be wrong about (self-attackers before others, a first closure that
  is no extension, a head of Norris' list that is freed) stand before or behind
  a pair, or next to it: what is lost or added in one component is joined with
  what the others have.
  For preferred extensions `Cascades`, every loop-free framework on three
  arguments with two more behind it, so an undecided component attacks a later
  one.

What the composed runs state of what is printed:

- `CompleteRight`: EE-CO prints complete extensions only, each once, and all of
  them if the peaceful arguments (those without victims) come last, as the
  comment at `complete.c` 56 asks; `main` does not see to it.
- `RightWhenInFront`, `RightWhenBalanced`: DC-CO is right whenever its loop over
  defenders has not displaced the argument; with adjacency lists, only if every
  argument has as many victims as attackers as well (the countdown of attackers
  starts from the numbers of victims) and the lists are those of the framework
  searched.
- `AllPreferred`, `IdealResult`: EE-PR and SE-ID are exactly right.
- `PreferredFound`, `CounterexampleRight`: SE-PR and DC-PR by close-by-one find
  a preferred extension of the kind asked for if the argument's closure is
  conflict-free; DS-PR finds only counterexamples, and one if one attacks the
  argument.
- `EnumerationRight`, `OneRight`: EE-ST and SE-ST by the other algorithms print
  the stable extensions, each once.  The exceptions are in the property: `mis`
  may miss some if an argument follows a self-attacker, and Nourine's algorithm
  may print the complement of its first closure, which no test has seen.
- `DecisionRight`: what DC-ST prints is stable; by `mis` it holds the argument.
  By next-closure, an extension larger than the argument is never missed.
- `ListedAsTaken`: EE-ST prints what `Solvers` takes the routine to list for the
  framework it is called with, and crashes if and only if `Solvers` says so.
- `OutputRight`: the component routines print the extensions, each once, or their
  number. The exceptions are those of the routine for the components: by `mis`,
  extensions may be missing if an argument follows a self-attacker; by Nourine's
  algorithm, a set may be printed that has the first closure of some component
  in place of an extension of it, and is right everywhere else. EE-ST by SCC is
  exempt once a list was read from the memo table that is no longer the one that
  was put there.
- `MappingFaithful` (both runs): the swaps of DC-ST and DC-CO leave a permutation
  that leads back to the framework they were called for.

Invariants inside the routines say why: no candidate of EE-PR contains another
(`CandidatesIncomparable`) and the grounded part is settled (`GroundedSettled`);
the attackers of the intersection fit the array of `se_id` (`AttackersFit`); a
call of the close-by-one recursion gets the conflict-free set it demands
(`FrameContract`); a leaf of the recursion of `mis` is a maximal conflict-free
set (`LeafMaximal`); an extension not yet delivered is above, or below, exactly
one concept of Norris' list (`OneConceptEach`, `OneConceptAbove`), so none is
lost and none comes twice; the implications and conflicts of Nourine's algorithm
hold of every stable extension while they are sharpened (`ImplicationsHold`) and
its walk passes none (`ExtensionsAhead`); the component routines always take a
component that nothing left attacks (`ComponentIsSource`), the
lists of weakly connected components, whatever the routine has put into them, are
multiplied one by one (`JoinedSoFar`), and preferred extensions
are asked only of components whose undecided attackers have become self-attacks
(`CallContract`).

`MappingFaithful`, `CompleteRight` and the other properties of what is printed
hold of a sorted framework only if it is the one that was read, up to names
(`SortedFramework`); what happens otherwise is the last of the findings below.
Where `main` does not map an argument or a result back (below), they are stated
for unsorted runs or for orders that leave the argument in its place.

Fairness is weak fairness of the whole next-state relation: a sequential program
that can take a step takes it. In `RunCc` it is written out (`Fairness`): `Next`
has a step that changes something unless the process has ended. In the terminal
states the models stutter (`Returned`, `Exited`), so TLC's deadlock check says
that no run gets stuck anywhere else.

### Where the code differs from what it says

- `dc_st_question`: DC-ST by next-closure (`stable.h`: "Computes a stable
  extension containging arg (if there is any)") starts behind the set that holds
  the argument alone and does not test it, and its mask does not keep the
  argument in the sets.  With the one attack 1->2, it answers NO for 1 and
  `[ 1 ]` for 2.
- `dc_co_front`: the loop that moves the defenders of the argument to the end
  can move the argument (`complete.c` 356 claims that it cannot), after which
  another argument is moved to the front.
- `dc_pr_demand`: DC-PR by close-by-one starts its recursion with the closure of
  the argument, which may have a conflict, although `explore_subtree_smart`
  demands a conflict-free set.  With three arguments and 3->1, 3->3, DC-PR of 1
  is `[ 1 2 3 ]`.
- `mis_parent`: `extend` (`mis.c`) gives up a child if another parent generates
  it.  A self-attacker is in conflict with every argument, but not with the empty
  set, so it passes for such a parent.  With three arguments and 1->1, 3->1, 3->2,
  EE-ST by `mis` lists nothing, and SE-ST crashes on the NULL it gets, although
  {3} is stable.  `dc()` turns attackers of the argument into self-attackers, so
  DC-ST goes wrong without any in the input: 1->4, 3->1, 3->2, asked for 4.
- `norris_head`: `add_to_list` (`norris/stable.c`) removes nodes of the concept
  list ("remove cur from the concept list") and records a new head in its own
  parameter.  After the head has gone, the caller starts from freed memory.  With
  2->1, 2->3, 3->3, EE-ST by `norris` ends in a segmentation fault.
- `scc_map`: the map of EE-ST by SCC "maps a subset of arguments to a list of
  stable extensions", but a node of such a list that leaves no arguments is
  linked into the result and thereby cut off from the rest of its list.  With
  1->3, 1->4, 2->5, 3->1, 5->2, 5->4, `[ 3 4 5 ]` is printed where {3, 5} is stable.
  The variant that counts frees such lists, and crashes when it meets one again.
  The property, `MapIntact`, is stated for the routines that are right about every
  component (not `mis`, not `nourine`), so that the recursion alone breaks it.
- `sort_in_place`: `sort_af` is to "fill in the new af sorted", but `main` passes
  the framework that was read as the one to fill.  Attacks are added and none is
  removed, so what is solved is the framework read only if the order is one of
  its automorphisms.

Each of these was reproduced with the compiled program.  While modelling, these
came up besides; the properties above have them as conditions:

- DS-PR assumes that a preferred extension without an argument attacks it, and
  its comment asks to "check if this is true".  It is not, if an attacker of the
  argument attacks itself: with 1->2, 1->3, 2->1, 3->1, 3->3, 3->4, DS-PR of 4 does
  not find {2}.
- Nourine's algorithm does not test its first closure for domination: with the
  one attack 1->1 it prints the empty set. As the routine for a component it
  returns no list when that set is empty, but any other first set passes.
- `wcc.c` counts and indexes arguments with `unsigned short`: from 65536 of them
  on, its loops do not end.
- SE-ST by Norris prints the extension inside the routine, and `main` then prints
  a set nobody has filled.
- With `-s`, `main` does not rename the argument of DC-CO and of the problems by
  close-by-one, and does not map back the answers of DC-CO, of SE-ID, of the
  problems by close-by-one, of `norris-bu` and of the component routines.
- `sort.c` 39 divides by the number of attackers; 0/0 compares with nothing, so
  `qsort` may leave any order.

## Proofs

TLAPS proves the following for every number of arguments `N > 0` and every set
of input frameworks (assumptions `NAssumption`, `InputsAssumption`), or for
every size of a bit set. None of it is for a bounded instance; where a run
checks the same formula, it was checked there first.

About `StableNC`: `TypeCorrect`, `Soundness`, `Coverage`, `Completeness`,
`StrictlyDescending`, the five invariants that `stable_nc` checks, and
`Refinement`, the safety part of the refinement that it checks. The inductive
invariant `IInv` adds to the checked properties what ties them together.
`Trimmed`: inside the search, the working set has only members up to the loop
index. `OneChannel`: EE-ST writes only the list and SE-ST only the result.
`FoundBehind`: everything found is lectically at or before the set the search
stands at, which makes the list descending. `NothingSkipped` is inductive with
these. Its heart is four facts of `NextClosure_proofs`: `StableIffClosed` (the
equality with the up-arrow decides stability), `ClosureInStable` (the closure of
a subset of a stable extension stays inside the extension), `StableNoConflict`
(an argument skipped for a conflict belongs to no extension ahead on this
branch) and `AheadStep`/`AheadBack` (what lies ahead of the search at an index
lies ahead at the next one, or begins with this index). So each rejected
argument removes only sets that hold no stable extension, and completeness
follows when nothing lies ahead any more.

About `DcStableNC` (assuming only that the inputs are frameworks):
`DcMappingFaithful`, `DcResultStable` and `DcLargerNotMissed`, which are what
`MappingFaithful` and `DecisionRight` of `run_stable` say of this routine. The
invariant has a part for each phase. While the mapping is built (`Swapped`), the
front holds arguments in conflict with the one asked for, the part already
passed none, and `index_argument` tells where the argument is, whatever the
swaps have done to it. `Rename` turns this into `Prepared`: below index `p` are
exactly the arguments in conflict. So every extension that holds the argument
begins with it in the new numbering (`BeginsWith`) and, unless it is the
argument alone, lies lectically above `{p}`, where the search starts; `Underway`
says that it stays ahead. A set met on the way to such an extension holds `p`
and nothing of the front (`Between`), so the search is not given up too early,
and the set it ends with holds the argument. The exception, the argument alone,
is the finding of `dc_st_question`. The search itself is used through lemmas
about one iteration (`SearchStepTypes`, `StableStaysAhead`, `NothingReturns`).

About `SemiClosureLoop`, with no bound on the framework or the set:
`ClosureTypes` and `ClosureCorrect` (`TypeOK` and `LeastClosure` of the run
`semi_closure`), so the operator `SemiClosure` that the searches of `complete.c`
use is what the loop computes. The inductive invariant says that the victims are
those of the set (`VictimsInStep`), that the set stays inside the closure
(`WithinClosure`; an argument that a part of the closure defends is in the
closure), and that a pass which has added nothing has tested every argument
below the index against the victims as they still are (`PassedOver`).

About `RunAdmissible`: all 13 invariants of its run, so that what TLC checks on
frameworks of two to four arguments holds for every number of arguments, every
framework, every order that `-s` may leave and every argument asked for. The
assumptions are `NAssumption`, `InputsAssumption`, `QuestionsAssumption` and
`ProblemsAssumption`, which lists the pairs of an algorithm and a problem that
`main` accepts here. Each problem has an invariant of its own, proved next to
`Settled` (what `main` has fixed before the routine starts):

- EE-CO (`CompleteInv`): the sets the search stops at are semi-complete and
  `Quiet`: each part of them has a member that nothing in the part attacks. A
  quiet set that defends itself is complete (`QuietComplete`), which the code
  takes for granted: it looks for conflicts only above the index added and never
  at the closure as a whole. `ClosureQuiet` shows that this is enough. The other
  half is that every complete extension is listed or ahead. Pruning refers to
  the set the routine was *entered* with (`Entered`, kept in `tmp_complement`),
  so this set is part of the invariant. If the peaceful arguments come last,
  none of them defends another, so one that the set entered lacks, which is
  semi-complete, is in no complete extension that begins like it.
- EE-PR and SE-ID (`PreferredInv`, `IdealInv`): while the grounded part is
  settled, what is ignored are the victims of a part of the grounded extension
  that only these victims attack (`Settling`); while the search runs
  (`Exploring`), every preferred extension is in the list or ahead
  (`PreferredSought`), and the list has admissible sets only, none within
  another. SE-ID shrinks the intersection of the candidates and keeps the ideal
  extension in it (`Core`, `Shrinking`).
- Close-by-one (`CboInv`): the frames of the recursion form a `Chain`, each
  having been called with the set and the argument its caller holds; a frame
  that demands a conflict-free set gets one (`FrameContract`). `Pending` says
  where a preferred extension can still be found: ahead of some frame. A step
  pushes, advances or pops one frame, and `PushStage`, `AdvanceStage` and
  `PopStage` say what each does to it.
- DC-CO (`DecideInv`): the framework searched is a projection of the one read
  that holds all attackers of its members (`WithAttackers`), and then a
  permutation of this projection. Complete extensions go both ways
  (`ProjectedComplete`, `ProjectedBack`, `AdmissibleClosure`). The swaps keep
  the permutation whatever they displace (`SwapRenamed`), which is
  `MappingFaithful`. If the argument is in front, it stays in every set the
  search stands at, and every complete extension that holds it stays ahead
  (`FrontSearch`, `FrontCheck`), so NO is right. On adjacency lists the closure
  is another one, a countdown from the number of victims;
  `CountdownClosureRight` shows that it is the same function if every argument
  has as many victims as attackers. This passes to the projection because no
  attack leaves a set that holds its attackers then (`BalancedClosed`: the
  attacks within the set are as many as those from it). Where the argument is
  displaced the answer can be wrong: the run `dc_co_front`.

About `RunStable`: nine of the ten invariants of its run, again for every number
of arguments, every framework, every order of `-s` and every argument asked for;
`ListedAsTaken` is only model-checked.
`RunInvariant` proves `RunInv`: what `main` has settled and what the sort has
done to the framework (`Prepared`), the invariant of the routine that runs
(`Working`) and what has been printed and is left to print, one part for each
problem (`ListLeft`, `OneLeft`, `DecisionLeft`). Five routines have an invariant
of their own:

- Nourine (`NourineInv`): the implications and conflicts hold of every stable
  extension (`Sharpened`). The walk goes through the closed sets upwards, and
  the complement of an extension is closed; so the walk passes no such
  complement, and an extension that is not listed is under test or ahead
  (`NotPassed`). What is listed is an extension or the complement of the first
  closure, which is not tested for domination (`Delivered`).
- Norris bottom up (`BuInv`): a node's extent are the arguments of the rounds
  past that attack nothing in its intent (`BuNode`), no two nodes have the same
  extent, and an extension is below the node that has its harmless arguments
  (`BelowNode`). Updating narrows the intent and keeps what is below it
  (`BottomUpUpdateInv`), branching makes a node for those the update drops.
- Norris (`NorrisInv`): a node stands for the extensions that have its intent
  among the arguments of the rounds past (`StoodFor`). A node is taken off the
  list only when it is an extension and delivered, or when it stands for none. A
  step of the walk is described once, for whatever becomes of the node it meets
  (`ListStep`), with the place each node had before.
- Reverse search (`MisInv`): a maximal conflict-free set of the arguments below
  `n` comes from exactly one such set below each `m < n`, its greedy completion
  (`Ancestor`). The tests before a call of `extend` accept a set if and only if
  it is maximal and comes from the set at hand, unless a self-attacker comes
  before (the finding `mis_parent`). So no set is reached from two pending calls
  (`ReachedOnce`), and a stable extension, which is a maximal set, is listed or
  reached by one (`MisSought`). For DC-ST, `dc()` leaves out the victims of the
  argument asked for and makes its other attackers attack themselves;
  `DecidedStable` and `StableDecided` show that the stable extensions of this
  projection are extensions that hold the argument, and that it has one if there
  is such an extension.
- DC-ST by next-closure: the invariant of `DcStableNC_proofs`, of which the
  instance in `RunStable` is another reading.

That `RunOneRight` holds although Norris' SE-ST prints in the indices of the
sorted framework is a consequence of the sort in place (`SortAdds`): attacks are
only added, so a framework that is a renaming of the one read is the one read.

About `RunCc`: all four invariants of its run, for every number of arguments,
every framework and every routine for the components, with the sets `Solvers`
takes it to list, and with the exceptions that `OutputRight` names. `RunInvariant`
proves `CcInv`: of three invariants, that of the
recursion that runs; each ends with what has been printed and what is left to
print.

- Why the recursions may decompose (facts about frameworks, without a
  behaviour). `SourceFound`: the second search of `find_source_component`, from
  where the first one started last, visits a strongly connected component that
  nothing else attacks. `SourceSplits`: a stable extension is one of such a
  component and one of what that leaves. `PreferredSplits`: so is a preferred
  extension, if the victims of what is left undecided attack themselves in the
  rest. `WccParts`: `wcc` finds parts that do not attack each other. `ProjectionSolved` and `ProjectedPaf` show that solving
  a projection, with `bool loops` as it is, and mapping its indices back is
  solving the part.
- What the routine for the components makes of it. `PartRight`: for a component,
  a routine lists conflict-free sets, which are extensions of it or Nourine's
  first closure, and it lists all extensions, unless it is `mis` and an argument
  follows a self-attacker (`MisListed`, from what `Foundations_proofs` shows of
  the sets that `extend` reaches). So the invariants do not speak of extensions
  but of `Answers`: the unions of a set listed for a source component and an
  answer for what that leaves (`SourceDivides`). Three facts, by induction over
  the parts of the framework, say what these are. With a routine that is right
  they are the stable extensions (`AnswersExact`); with any, an answer is right
  outside the components of which it has the first closure (`AnswersSound`); only
  `mis` loses an extension, and not if the self-attackers come last
  (`AnswersComplete`). `WeakSound` and `WeakComplete` say the same of the product
  over weak components. What a routine lists is `Solvers` here; that its steps
  lead there is `ListedAsTaken`, which is model-checked.
- EE-ST by weak components (`WccInv`): in the middle of the in-place product the
  list before the cursor has the sets listed for the parts joined with those for
  the current one, and that behind it those still to be joined, each once
  (`Joining`). A crash in a part leaves the product unstarted.
- EE-PR by strongly connected components (`PreferredInv`): each frame of the
  stack has in its result what the extensions of the component that are done
  with give, and waits for the answer to its residual framework (`Working`,
  `Waiting`); the frame above it was called with that framework (`Calls`).
- EE-ST and CE-ST by strongly connected components. `SccBase` is what holds
  always: the frames have components that are sources or none yet. `SccLists`
  holds as long as no list has been read from the map that was not as put there
  (for the count: as long as it has not crashed on a freed list). The heap of
  list nodes is `Acyclic`, so that a walk visits a node once, and `Intact`, which
  the history variable `stale` records, means what it says: the list has the sets
  it had when it was put, which are in the history variable `put` (`AsPut`,
  `IntactList`). Each list in use is a sequence of nodes that hold each member of
  a set once (`HasList`): the sets of the component still to come, the unions found,
  what is left of the answer of a call. That linking a node to one of them
  leaves the others alone is where the sharing of nodes bites. A step of a call
  changes only nodes that hold parts of what this call is about (`Grown`), and
  every list of a call further down has sets that meet its component, which is
  disjoint from that (`LoopKept`, `PausedKept`, `NeverTwice`). The map of EE-ST
  is not among these lists: `Relink` cuts them, the finding `scc_map`, which is
  why `OutputRight` excepts `stale` for EE-ST. The maps of CE-ST are never cut:
  `SccMaps` has their contents, and the count is right whenever it ends.

`Foundations_proofs` has what these and the other proofs share: the lectic order
and what lies ahead of a search, semi-complete closures, complete and preferred
extensions, renamed and projected frameworks, rounds that reach a fixed point
(with which recursive functions over `Nat` are unfolded), the reverse search of
`mis` as a fact about sets (`CanonicalChild`, `OnlyChildren`), what a depth-first
search visits (`VisitedRight`), and printing a list through the mapping of `-s`.

About `BitSets`: what entitles the other modules to take a bitset for a set of
indices. The comparisons (`bitset_is_subset`, `bitset_is_equal`,
`is_bitset_intersection_empty`, `bitset_is_emptyset`) read whole blocks, the
padding of the last one included, so they are right only for a `Proper` bit set,
one with clear padding. `ComplementRight`, `SetMinusRight` and `SetRight` show
that the routines that could set padding clear it, whatever their arguments
were; `SetBitRight` and `IntersectionUnionRight` that the others keep it clear;
`ComparisonsDecide` that of proper bit sets the comparisons decide inclusion,
equality, disjointness and emptiness. They rest on two lemmas about division by
64: an index below the size has a place the mask keeps (`IndexPlace`), and a
place the mask keeps is that of one index below the size (`PlaceIndex`). The
assumption is a size of at least one: an array without a block has no last one
to mask. `KeyOfContents` adds that equal sets have the same `get_key`, which is
computed from whole blocks too.

About `BitSetHashMap`, for every hash function (`Routines_proofs` has these
theorems, those about `BitSets` and those about `SemiClosureLoop`):
`InitRight` and `PutRight` show that the map is a function from sets to values,
NULL where nothing was put; a put does not disturb the keys that share its
bucket. The invariant of the buckets (`WellFormed`) is that an element is in the
bucket of its key and no other element has that key, so the loop of `get` can
stop at one place only (`PlaceUnique`). This is why the modules of the
recursions have a function where the code has a `Map`.

The theorems about `BitSets` and `BitSetHashMap` are facts about operators,
without a behaviour to run, so TLC has no part in them.

Only model-checked: `Termination` and the liveness part of the refinement (out
of the prover's reach), and what the runs with a finding show, which are traces.

## Not modelled

- Memory: allocation, freeing and leaks are left out except where a freed or cut
  object is read again on a path that matters (`Norris`, `SccStable`,
  SE-ST by `mis`).
- The number of blocks is a `short` computed through `float`: bit sets of more
  than four million arguments are out of the model's reach. `WccStable` stops
  earlier, at 65536 arguments (`SmallEnough`): `wcc.c` indexes with
  `unsigned short`.
- Parsing, option parsing and messages, timing and statistics.  Lists and stacks
  are sequences.  The containers of `hashing/`, `murmur3` among them, and the
  iterator of the bit set hash map are used by no routine `main` reaches.
- Routines that nothing calls: `next_closure.c` (in no Makefile),
  `dc_co_next_closure`, what `norris/stable.c` and `nourine/stable.c` have
  commented out, `reduce_unit_implications` and `nourine/implications.c`.
- `-s` together with the component routines, which print in the indices of the
  sorted framework, and SE-ID on top of EE-PR by SCC, which is the same routine
  on a list with the same members (`OutputRight` for EE-PR by SCC).
- The steps of a routine that solves a component inside the SCC and WCC routines:
  its enumeration is one step there, with the sets it lists (`Solvers`) in an
  arbitrary order. No action of the recursion depends on the order in which a
  routine arrives at them.
