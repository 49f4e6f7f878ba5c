------------------------------ MODULE PreferredCbO ------------------------------
(***************************************************************************)
(* algorithms/cbo/preferred.c: SE-PR, DC-PR and DS-PR by depth-first       *)
(* search with close-by-one.  se_pr_cbo and dc_pr_cbo_smart descend with   *)
(* explore_subtree_smart, which branches on the defenders against one      *)
(* unattacked attacker; ds_pr_cbo asks se_pr_cbo for one preferred         *)
(* extension and then dc_pr_cbo, which descends with explore_subtree, for  *)
(* one around each attacker of the argument.                               *)
(*                                                                         *)
(* The recursion is a stack of frames, the innermost first.  One action is *)
(* one iteration of a frame's loop, with the call it may make, or one      *)
(* return.                                                                 *)
(***************************************************************************)
EXTENDS AF, Semantics, Sequences

CONSTANT Inputs     \* the frameworks the input file may hold

VARIABLES
    af,
    prob,           \* "SE", "DC" or "DS"
    argument,       \* the argument asked for; N in an SE problem
    smart,          \* which of the two recursive routines is running
    stack,
    extension,      \* what the last call returned: {} for NULL, {S} for S
    k,              \* ds_pr_cbo's index into the attackers; -1 before its loop
    pc              \* "call", "explore", "return" or "done"

vars == <<af, prob, argument, smart, stack, extension, k, pc>>

-------------------------------------------------------------------------------
not_attacks == Complement(af)

\* The closure of s in the complement context.
Closure(s) == DownUpArrow(not_attacks, s)

\* Arguments that current does not attack and that attack current.
UnattackedAttackers(current) ==
    UpArrow(not_attacks, current) \ DownArrow(not_attacks, current)

\* The first of them with the fewest attackers outside processed, else -1.
SelectBestAttacker(current, processed) ==
    LET open(a) == Cardinality(Transpose(af)[a] \ processed)
        candidates == UnattackedAttackers(current)
    IN  IF candidates = {} THEN -1
        ELSE CHOOSE a \in candidates : \A b \in candidates :
                open(a) < open(b) \/ (open(a) = open(b) /\ a <= b)

Frame(current, processed) ==
    [current |-> current, processed |-> processed, i |-> 0,
     attacker |-> SelectBestAttacker(current, processed)]

\* The frame that explore_subtree(current, m, ...) starts with.
PlainFrame(current, m) ==
    [current |-> current, processed |-> {}, i |-> m, attacker |-> -1]

\* What next adds to current is new and attacks nothing in next.
SmartGood(f, next) ==
    \A b \in next \ f.current : b \notin f.processed /\ ~ArgAttacksSet(af, b, next)

\* Fault: the attackers of i are not marked.
ProcessedWithoutAttackers(f, next) ==
    f.processed \cup (next \ f.current) \cup Victims(af, next \ f.current)

NextProcessed(f, next) ==
    f.processed \cup (next \ f.current) \cup Victims(af, next \ f.current)
                \cup Transpose(af)[f.i]

PlainCandidate(f) ==
    /\ f.i \notin f.current
    /\ ~ArgAttacksArg(af, f.i, f.i)
    /\ ~ArgAttacksSet(af, f.i, f.current)
    /\ ~SetAttacksArg(af, f.current, f.i)

\* next adds nothing below i, and nothing above i in it attacks into next.
PlainGood(f, next) ==
    /\ \A b \in next \ f.current : b >= f.i
    /\ \A b \in next : b > f.i => ~ArgAttacksSet(af, b, next)

-------------------------------------------------------------------------------
Init ==
    /\ af \in Inputs
    /\ prob \in {"SE", "DC", "DS"}
    /\ argument \in IF prob = "SE" THEN {N} ELSE Arg
    /\ smart = TRUE
    /\ stack = <<>>
    /\ extension = {}
    /\ k = -1
    /\ pc = "call"

\* The closure of {a}, or of the empty set when a is N.
RootClosure(a) == IF a = N THEN Closure({}) ELSE Closure({a})

Refused(a) == a < N /\ ArgAttacksArg(af, a, a)

\* Self-attackers, attackers of a, the closure and its victims.
RootProcessed(a) ==
    LET c == RootClosure(a)
    IN  {b \in Arg : ArgAttacksArg(af, b, b) \/ (a < N /\ ArgAttacksArg(af, b, a))}
            \cup c \cup Victims(af, c)

\* dc_pr_cbo_smart(af, argument), or se_pr_cbo within ds_pr_cbo.
CallSmart ==
    /\ pc = "call" /\ k = -1
    /\ LET a == IF prob = "DC" THEN argument ELSE N
       IN  IF Refused(a)
           THEN pc' = "return" /\ stack' = <<>>
           ELSE pc' = "explore" /\ stack' = <<Frame(RootClosure(a), RootProcessed(a))>>
    /\ extension' = {}
    /\ smart' = TRUE
    /\ UNCHANGED <<af, prob, argument, k>>

\* dc_pr_cbo(af, k) for the next attacker of the argument.
CallPlain ==
    /\ pc = "call" /\ k \in Arg
    /\ ArgAttacksArg(af, k, argument)
    /\ IF Refused(k)
       THEN pc' = "return" /\ stack' = <<>>
       ELSE pc' = "explore" /\ stack' = <<PlainFrame(RootClosure(k), 0)>>
    /\ extension' = {}
    /\ smart' = FALSE
    /\ UNCHANGED <<af, prob, argument, k>>

NoAttacker ==
    /\ pc = "call" /\ k \in Arg
    /\ ~ArgAttacksArg(af, k, argument)
    /\ k' = k + 1
    /\ UNCHANGED <<af, prob, argument, smart, stack, extension, pc>>

\* All attackers have been tried.
NoneLeft ==
    /\ pc = "call" /\ k = N
    /\ pc' = "done"
    /\ UNCHANGED <<af, prob, argument, smart, stack, extension, k>>

-------------------------------------------------------------------------------
Top == stack[1]

Advance(f) == <<[f EXCEPT !.i = f.i + 1]>> \o Tail(stack)

\* explore_subtree_smart marks an argument whose subtree holds nothing.
MarkAndAdvance(f) ==
    Advance(IF smart THEN [f EXCEPT !.processed = f.processed \cup {f.i}] ELSE f)

Conserve == UNCHANGED <<af, prob, argument, smart, k>>

\* i is processed, or does not attack the attacker to be countered.
SmartSkip ==
    /\ pc = "explore" /\ smart /\ Top.i < N
    /\ \/ Top.i \in Top.processed
       \/ Top.attacker >= 0 /\ ~ArgAttacksArg(af, Top.i, Top.attacker)
    /\ stack' = Advance(Top)
    /\ Conserve /\ UNCHANGED <<extension, pc>>

SmartTry ==
    /\ pc = "explore" /\ smart /\ Top.i < N
    /\ Top.i \notin Top.processed
    /\ Top.attacker >= 0 => ArgAttacksArg(af, Top.i, Top.attacker)
    /\ LET next == Closure(Top.current \cup {Top.i})
       IN  stack' = IF SmartGood(Top, next)
                    THEN <<Frame(next, NextProcessed(Top, next))>> \o stack
                    ELSE MarkAndAdvance(Top)
    /\ Conserve /\ UNCHANGED <<extension, pc>>

\* Fault: current is handed back although it has an attacker to counter.
SmartLeafAnyway ==
    /\ pc = "explore" /\ smart /\ Top.i = N
    /\ extension' = {Top.current}
    /\ stack' = Tail(stack)
    /\ pc' = "return"
    /\ Conserve

\* No subtree has an extension: current is one if nothing is left to counter.
SmartLeaf ==
    /\ pc = "explore" /\ smart /\ Top.i = N
    /\ extension' = IF Top.attacker < 0 THEN {Top.current} ELSE {}
    /\ stack' = Tail(stack)
    /\ pc' = "return"
    /\ Conserve

ConflictFreeFrame(f) == f.current \subseteq UpArrow(not_attacks, f.current)

PlainSkip ==
    /\ pc = "explore" /\ ~smart /\ ConflictFreeFrame(Top) /\ Top.i < N
    /\ ~PlainCandidate(Top)
    /\ stack' = Advance(Top)
    /\ Conserve /\ UNCHANGED <<extension, pc>>

PlainTry ==
    /\ pc = "explore" /\ ~smart /\ ConflictFreeFrame(Top) /\ Top.i < N
    /\ PlainCandidate(Top)
    /\ LET next == Closure(Top.current \cup {Top.i})
       IN  stack' = IF PlainGood(Top, next)
                    THEN <<PlainFrame(next, Top.i + 1)>> \o stack
                    ELSE MarkAndAdvance(Top)
    /\ Conserve /\ UNCHANGED <<extension, pc>>

\* Fault: conflict-freeness is taken for admissibility.
PlainLeafAnyway ==
    /\ pc = "explore" /\ ~smart
    /\ ~ConflictFreeFrame(Top) \/ Top.i = N
    /\ extension' = IF ConflictFreeFrame(Top) THEN {Top.current} ELSE {}
    /\ stack' = Tail(stack)
    /\ pc' = "return"
    /\ Conserve

\* A conflicting current has no extension; else the last word is whether all
\* that current leaves unattacked does not attack it.
PlainLeaf ==
    /\ pc = "explore" /\ ~smart
    /\ ~ConflictFreeFrame(Top) \/ Top.i = N
    /\ extension' =
        IF ConflictFreeFrame(Top) /\ UnattackedAttackers(Top.current) = {}
        THEN {Top.current} ELSE {}
    /\ stack' = Tail(stack)
    /\ pc' = "return"
    /\ Conserve

\* Fault: the calling frame tries the same argument again.
ResumeInPlace ==
    /\ pc = "return" /\ stack # <<>> /\ extension = {}
    /\ pc' = "explore"
    /\ Conserve /\ UNCHANGED <<extension, stack>>

\* A NULL makes the calling frame go on with its next argument.
Resume ==
    /\ pc = "return" /\ stack # <<>> /\ extension = {}
    /\ stack' = MarkAndAdvance(Top)
    /\ pc' = "explore"
    /\ Conserve /\ UNCHANGED extension

\* An extension is handed through to the root.
HandUp ==
    /\ pc = "return" /\ stack # <<>> /\ extension # {}
    /\ stack' = Tail(stack)
    /\ Conserve /\ UNCHANGED <<extension, pc>>

-------------------------------------------------------------------------------
\* SE-PR and DC-PR are answered by the one call.
Answered ==
    /\ pc = "return" /\ stack = <<>>
    /\ prob # "DS"
    /\ pc' = "done"
    /\ UNCHANGED <<af, prob, argument, smart, stack, extension, k>>

\* ds_pr_cbo: an extension without the argument is a counterexample.
Counterexample ==
    /\ pc = "return" /\ stack = <<>> /\ prob = "DS"
    /\ IF k = -1 THEN \A S \in extension : argument \notin S ELSE extension # {}
    /\ pc' = "done"
    /\ UNCHANGED <<af, prob, argument, smart, stack, extension, k>>

\* Otherwise the next attacker is tried.
NextAttacker ==
    /\ pc = "return" /\ stack = <<>> /\ prob = "DS"
    /\ IF k = -1 THEN \E S \in extension : argument \in S ELSE extension = {}
    /\ extension' = {}
    /\ k' = k + 1
    /\ pc' = "call"
    /\ UNCHANGED <<af, prob, argument, smart, stack>>

Returned == pc = "done" /\ UNCHANGED vars

Next ==
    \/ CallSmart \/ CallPlain \/ NoAttacker \/ NoneLeft
    \/ SmartSkip \/ SmartTry \/ SmartLeaf
    \/ PlainSkip \/ PlainTry \/ PlainLeaf
    \/ Resume \/ HandUp \/ Answered \/ Counterexample \/ NextAttacker \/ Returned

Spec == Init /\ [][Next]_vars /\ WF_vars(Next)

-------------------------------------------------------------------------------
\* What explore_subtree_smart demands of its callers: "current must be
\* conflict-free; processed must contain (among others) current, all
\* self-attacking arguments, and arguments in conflict with current".
Demanded(f) ==
    /\ IsConflictFree(af, f.current)
    /\ f.current \cup {a \in Arg : a \in af[a]}
        \cup {a \in Arg : ArgAttacksSet(af, a, f.current)}
        \cup Victims(af, f.current) \subseteq f.processed

\* Each call of explore_subtree_smart gets what it demands.
DemandMet == smart => \A n \in DOMAIN stack : Demanded(stack[n])

\* dc_pr_cbo_smart does not check whether the closure of its argument is
\* conflict-free.  When it is, every recursive call meets the demand, although
\* a call adds the attackers of i alone, not those of all it adds to current.
FrameContract ==
    smart /\ stack # <<>> /\ IsConflictFree(af, stack[Len(stack)].current) => DemandMet
================================================================================
