-------------------------------- MODULE StableNC --------------------------------
(***************************************************************************)
(* ee_st_next_closure and se_st_next_closure of                            *)
(* algorithms/next-closure/stable.c: all stable extensions, or one, by     *)
(* walking through the closed sets of the complement context in lectic     *)
(* order and keeping those that are their own up-arrow.                    *)
(***************************************************************************)
EXTENDS NextClosure, Semantics, Sequences

CONSTANT Inputs     \* the frameworks the input file may hold

ASSUME InputsAssumption == Inputs \subseteq Framework

VARIABLES
    prob,           \* "EE" or "SE": which of the two routines runs
    result_list,    \* ee_st: the list of extensions, the latest first
    result          \* se_st: the caller's bitset, empty unless one is found

vars == <<searchVars, prob, result_list, result>>

Init ==
    /\ attacks \in Inputs
    /\ prob \in {"EE", "SE"}
    /\ tmp = {} /\ c = {} /\ i = N - 1 /\ pc = "search"
    /\ result_list = <<>>
    /\ result = {}

Search == SearchStep /\ UNCHANGED <<prob, result_list, result>>

\* Fault: only conflict-freeness is tested.
ConflictFreeTest(att, s) == s \subseteq UpArrow(Complement(att), s)

\* c equals its up-arrow in the complement: no argument outside c is unattacked
\* by c and none inside is attacked.
IsStableTest(att, s) == s = UpArrow(Complement(att), s)

\* Fault: the index starts one too high.
NextRoundOffByOne == tmp' = c /\ i' = N /\ pc' = "search"

\* Fault: c is not copied to tmp.
NextRoundKeepsTmp == tmp' = tmp /\ i' = N - 1 /\ pc' = "search"

\* Fault: the next call goes on from the index of the last.
NextRoundResumes == tmp' = c /\ i' = i /\ pc' = "search"

\* copy_bitset(c, tmp); the next call starts from the last index.
NextRound == tmp' = c /\ i' = N - 1 /\ pc' = "search"

KeepEE ==
    /\ pc = "check" /\ prob = "EE"
    /\ IsStableTest(attacks, c)
    /\ result_list' = <<c>> \o result_list
    /\ NextRound
    /\ UNCHANGED <<attacks, c, prob, result>>

\* Fault: se_st does not return with its first extension.
KeepSEAndGoOn ==
    /\ pc = "check" /\ prob = "SE"
    /\ IsStableTest(attacks, c)
    /\ result' = c
    /\ NextRound
    /\ UNCHANGED <<attacks, c, prob, result_list>>

KeepSE ==
    /\ pc = "check" /\ prob = "SE"
    /\ IsStableTest(attacks, c)
    /\ result' = c
    /\ pc' = "done"
    /\ UNCHANGED <<attacks, tmp, c, i, prob, result_list>>

Pass ==
    /\ pc = "check"
    /\ ~IsStableTest(attacks, c)
    /\ NextRound
    /\ UNCHANGED <<attacks, c, prob, result_list, result>>

\* The routine has returned.
Returned == pc = "done" /\ UNCHANGED vars

Next == Search \/ KeepEE \/ KeepSE \/ Pass \/ Returned

Spec == Init /\ [][Next]_vars /\ WF_vars(Next)

-------------------------------------------------------------------------------
Elements(seq) == {seq[n] : n \in DOMAIN seq}

\* What has been handed to the caller so far.
Found == Elements(result_list) \cup (IF result = {} THEN {} ELSE {result})

TypeOK ==
    /\ SearchTypeOK
    /\ pc # "setup"
    /\ prob \in {"EE", "SE"}
    /\ result_list \in Seq(SUBSET Arg)
    /\ result \in SUBSET Arg

\* Every extension handed out is stable: the test on the complement context
\* (up_arrow, bitset_is_equal) decides stability of the attack relation.
Sound == \A S \in Found : Stable(attacks, S)

\* When the search ends, EE-ST has every stable extension and SE-ST has one
\* unless there is none; skipped conflicts and failed canonicity tests lose
\* nothing.
Complete ==
    pc = "done" =>
        /\ prob = "EE" => StableExtensions(attacks) = Elements(result_list)
        /\ prob = "SE" => (result = {} => StableExtensions(attacks) = {})

\* Until SE-ST has its answer, no stable extension is lost from sight: it has
\* been found, is the closure under test, or can still be reached from where
\* the search stands.
NothingSkipped ==
    result = {} => \A S \in StableExtensions(attacks) :
        \/ S \in Found
        \/ pc = "search" /\ Ahead(tmp, i, S)
        \/ pc = "check" /\ (S = c \/ LecticLess(c, S))

\* The list is strictly descending in the lectic order, so no extension is
\* listed twice although the list is never searched for a duplicate.
Descending ==
    \A m, n \in DOMAIN result_list :
        m < n => LecticLess(result_list[n], result_list[m])

Enumeration == INSTANCE ExtensionEnumeration WITH
    problem <- prob, targets <- StableExtensions(attacks), found <- Found,
    status <- IF pc = "done" THEN "done" ELSE "running"

\* The routines implement the abstract enumeration, including its progress.
ImplementsEnumeration == Enumeration!EnumSpec
================================================================================
