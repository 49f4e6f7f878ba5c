------------------------------ MODULE PreferredNC ------------------------------
(***************************************************************************)
(* ee_pr_next_closure of algorithms/next-closure/preferred.c: all          *)
(* preferred extensions.  The grounded extension and its victims are       *)
(* settled first; the search then walks through conflict-free closed sets  *)
(* in lectic order, keeps in c the last admissible set of the current      *)
(* branch, and moves it to the list of candidates when the branch is left. *)
(* The list is kept free of sets that another candidate contains.          *)
(***************************************************************************)
EXTENDS LecticOrder, Semantics, Sequences

CONSTANT Inputs     \* the frameworks the input file may hold

VARIABLES
    attacks,
    ignored,          \* victims of the grounded extension
    current,          \* next_conflict_free_intent's working copy
    new_intent,       \* the closure it has computed last
    i,
    c,                \* {} for the null pointer, else {the set pointed to}
    first_candidate,  \* the list of candidates, its head first
    pc

vars == <<attacks, ignored, current, new_intent, i, c, first_candidate, pc>>

-------------------------------------------------------------------------------
(* The helpers of preferred.c.                                               *)

InConflict(att, s, a) ==
    \/ ArgAttacksArg(att, a, a)
    \/ ArgAttacksSet(att, a, s)
    \/ SetAttacksArg(att, s, a)

Canonical(s, next, a) == \A b \in next \ s : b >= a

\* Fault: the closure is not searched for conflicts.
ConflictIgnored(att, next, a) == FALSE

\* A member above a attacks into the closure next.
ConflictAbove(att, next, a) == \E b \in next : b > a /\ ArgAttacksSet(att, b, next)

\* What s leaves unattacked does not attack s (both arrows in the complement).
IsAdmissible(att, s) ==
    UpArrow(Complement(att), s) \subseteq DownArrow(Complement(att), s)

\* Fault: the candidates that s contains stay in the list.
AddAnyCandidate(list, s) ==
    IF \E n \in DOMAIN list : s \subseteq list[n] THEN list ELSE <<s>> \o list

\* The elements of list at the given places, in their order.
Nth(places, m) == CHOOSE n \in places : Cardinality({l \in places : l <= n}) = m

Sublist(list, places) == [m \in 1 .. Cardinality(places) |-> list[Nth(places, m)]]

\* Adds s unless a candidate contains it, and drops the candidates s contains
\* from those that are passed before.
AddCandidate(list, s) ==
    LET covers == {n \in DOMAIN list : s \subseteq list[n]}
        kept == {n \in DOMAIN list :
                    (\E m \in covers : m <= n) \/ ~(list[n] \subseteq s)}
    IN  IF covers = {} THEN <<s>> \o Sublist(list, kept) ELSE Sublist(list, kept)

-------------------------------------------------------------------------------
Init ==
    /\ attacks \in Inputs
    /\ ignored = {}
    /\ current = {} /\ new_intent = {} /\ i = -1
    /\ c = {{}}
    /\ first_candidate = <<>>
    /\ pc = "ignore"

Mandatory == CHOOSE S \in c : TRUE

EnterSearch(s) == current' = s /\ i' = N - 1 /\ pc' = "search"

\* Fault: the search starts after one round.
AddIgnoreOnce ==
    /\ pc = "ignore"
    /\ c' = {UpArrow(Complement(attacks), Arg \ ignored)}
    /\ ignored' = Victims(attacks, UpArrow(Complement(attacks), Arg \ ignored))
    /\ EnterSearch(UpArrow(Complement(attacks), Arg \ ignored))
    /\ UNCHANGED <<attacks, new_intent, first_candidate>>

\* One round of add_ignore.  The sizes it compares are those of the mandatory
\* and the ignored set of the round before.
AddIgnore ==
    /\ pc = "ignore"
    /\ LET mandatory == UpArrow(Complement(attacks), Arg \ ignored)
           grown == ignored \cup Victims(attacks, mandatory)
       IN  /\ c' = {mandatory}
           /\ IF Cardinality(mandatory) = Cardinality(Mandatory)
              THEN ignored' = ignored /\ EnterSearch(mandatory)
              ELSE /\ ignored' = grown
                   /\ IF Cardinality(grown) = Cardinality(ignored)
                      THEN EnterSearch(mandatory)
                      ELSE UNCHANGED <<current, i, pc>>
    /\ UNCHANGED <<attacks, new_intent, first_candidate>>

Searching == pc = "search" /\ i >= 0

Drop ==
    /\ Searching
    /\ i \in current
    /\ current' = current \ {i}
    /\ i' = i - 1
    /\ UNCHANGED <<attacks, ignored, new_intent, c, first_candidate, pc>>

Skip ==
    /\ Searching
    /\ i \notin current
    /\ i \in ignored \/ InConflict(attacks, current, i)
    /\ i' = i - 1
    /\ UNCHANGED <<attacks, ignored, current, new_intent, c, first_candidate, pc>>

Close ==
    /\ Searching
    /\ i \notin current
    /\ i \notin ignored /\ ~InConflict(attacks, current, i)
    /\ new_intent' = DownUpArrow(Complement(attacks), current \cup {i})
    /\ IF Canonical(current, new_intent', i) /\ ~ConflictAbove(attacks, new_intent', i)
       THEN pc' = "check" /\ i' = i
       ELSE pc' = pc /\ i' = i - 1
    /\ UNCHANGED <<attacks, ignored, current, c, first_candidate>>

\* The null pointer counts as a set on the same branch.
SameBranch == \A S \in c : S \subseteq new_intent

StayOnBranch ==
    /\ pc = "check"
    /\ SameBranch
    /\ c' = IF IsAdmissible(attacks, new_intent) THEN {new_intent} ELSE c
    /\ EnterSearch(new_intent)
    /\ UNCHANGED <<attacks, ignored, new_intent, first_candidate>>

LeaveBranch ==
    /\ pc = "check"
    /\ \E S \in c :
        /\ ~(S \subseteq new_intent)
        /\ first_candidate' = AddCandidate(first_candidate, S)
    /\ c' = IF IsAdmissible(attacks, new_intent) THEN {new_intent} ELSE {}
    /\ EnterSearch(new_intent)
    /\ UNCHANGED <<attacks, ignored, new_intent>>

\* Fault: the set kept last does not join the candidates.
FinishWithoutLast ==
    /\ pc = "search" /\ i < 0
    /\ pc' = "listed"
    /\ UNCHANGED <<attacks, ignored, current, new_intent, i, c, first_candidate>>

\* return 0, and the last set kept joins the candidates.
Finish ==
    /\ pc = "search" /\ i < 0
    /\ first_candidate' = IF c = {} THEN first_candidate
                                    ELSE AddCandidate(first_candidate, Mandatory)
    /\ pc' = "listed"
    /\ UNCHANGED <<attacks, ignored, current, new_intent, i, c>>

PreferredStep ==
    AddIgnore \/ Drop \/ Skip \/ Close \/ StayOnBranch \/ LeaveBranch \/ Finish

-------------------------------------------------------------------------------
Elements(seq) == {seq[n] : n \in DOMAIN seq}

\* add_ignore settles the grounded extension in spite of its early exits: ignored
\* are the victims of the least complete extension, with which the search starts
\* (new_intent is empty until the first closure).
GroundedSettled ==
    pc # "ignore" =>
        LET grounded == {a \in Arg : \A S \in CompleteExtensions(attacks) : a \in S}
        IN  /\ ignored = Victims(attacks, grounded)
            /\ new_intent = {} => c = {grounded}

\* No candidate contains another, so no preferred extension is listed twice.
CandidatesIncomparable ==
    \A m, n \in DOMAIN first_candidate :
        first_candidate[m] \subseteq first_candidate[n] => m = n
================================================================================
