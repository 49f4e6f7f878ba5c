-------------------------- MODULE RunAdmissible_proofs --------------------------
(***************************************************************************)
(* The runs of affca on complete and preferred extensions, for every       *)
(* number of arguments and every set of input frameworks.                  *)
(***************************************************************************)
EXTENDS RunAdmissible, Foundations_proofs

(* What main has settled before the routine starts.                          *)
Settled ==
    /\ <<alg, prob>> \in Problems
    /\ input \in Framework
    /\ base \in Framework
    /\ order \in [Arg -> Arg]
    /\ Permutation(order)

LEMMA SettledStep ==
    ASSUME Settled, [Next]_vars
    PROVE  Settled'
BY DEF Settled, Next, vars, mainVars, Solve, Return, PrintComplete, PrintPreferred,
       ListPrinted, PrintOne, Exited

-------------------------------------------------------------------------------
(* EE-CO.                                                                    *)

(* The operators of the instance are those of the modules it extends.        *)
LEMMA CompleteOperators ==
    ASSUME NEW att, NEW t, NEW a
    PROVE  /\ Complete!SemiClosure(att, t) = SemiClosure(att, t)
           /\ Complete!SelfDefending(att, t) <=> SelfDefending(att, t)
           /\ Complete!ArgAttacksSet(att, a, t) <=> ArgAttacksSet(att, a, t)
           /\ Complete!SetAttacksArg(att, t, a) <=> SetAttacksArg(att, t, a)
           /\ Complete!Framework = Framework
           /\ Complete!Cardinality(t) = Cardinality(t)
<1>1. Complete!SemiClosure(att, t) = SemiClosure(att, t)
    BY DEF Complete!SemiClosure, SemiClosure, Complete!SemiCompleteSet, SemiCompleteSet,
           Complete!SetDefendsArg, SetDefendsArg, Complete!SetAttacksArg, SetAttacksArg
<1>2. Complete!SelfDefending(att, t) <=> SelfDefending(att, t)
    BY DEF Complete!SelfDefending, SelfDefending, Complete!Victims, Victims,
           Complete!Transpose, Transpose, Complete!SetAttacksArg, SetAttacksArg
<1>3. Complete!ArgAttacksSet(att, a, t) <=> ArgAttacksSet(att, a, t)
    BY DEF Complete!ArgAttacksSet, ArgAttacksSet
<1>4. Complete!SetAttacksArg(att, t, a) <=> SetAttacksArg(att, t, a)
    BY DEF Complete!SetAttacksArg, SetAttacksArg
<1>5. Complete!Framework = Framework
    BY DEF Complete!Framework, Framework, Complete!Arg, Arg
<1>6. Complete!Cardinality(t) = Cardinality(t)
    BY DEF Complete!Cardinality, Cardinality
<1> QED
    BY <1>1, <1>2, <1>3, <1>4, <1>5, <1>6

(* The set the search was entered with.                                      *)
Entered == Arg \ tmp_complement

(* The state of ee_co_next_closure: the set the search stands at is quiet,   *)
(* and so is every set it stops at; what is listed is complete; tmp is the   *)
(* part of the set entered that the search has not passed.                   *)
CompleteState ==
    /\ attacks = base
    /\ pruning = TRUE
    /\ current \in SUBSET Arg
    /\ tmp_complement \in SUBSET Arg
    /\ i \in -1 .. N-1
    /\ pc \in {"search", "check", "done", "print", "exit"}
    /\ extensions \in Seq(SUBSET Arg)
    /\ \A S \in Members(extensions) : CompleteExt(base, S)
    /\ pc = "search" =>
        /\ tmp = {b \in Entered : b <= i}
        /\ Quiet(base, Entered) /\ SemiCompleteSet(base, Entered)
    /\ pc = "check" => Quiet(base, current) /\ SemiCompleteSet(base, current)

(* The sets listed lie below the search.                                     *)
CompleteOrder ==
    /\ \A m, n \in DOMAIN extensions :
            m < n => LecticLess(extensions[n], extensions[m])
    /\ pc = "search" =>
        \A T \in SUBSET Arg : Ahead(tmp, i, T) =>
            \A S \in Members(extensions) : LecticLess(S, T)
    /\ pc = "check" => \A S \in Members(extensions) : LecticLess(S, current)

Peaceful(att) == {a \in Arg : att[a] = {}}

PeacefulLast == \A a \in Peaceful(base), b \in Arg : a < b => b \in Peaceful(base)

(* Every complete extension is listed or lies above the search.              *)
CompleteSought ==
    PeacefulLast =>
        \A S \in SUBSET Arg : CompleteExt(base, S) =>
            \/ S \in Members(extensions)
            \/ pc = "search" /\ Ahead(tmp, i, S)
            \/ pc = "check" /\ (S = current \/ LecticLess(current, S))

CompleteInv == CompleteState /\ (Running => CompleteOrder /\ CompleteSought)

LEMMA CompleteInitInv ==
    ASSUME base \in Framework, attacks = base, Complete!Init
    PROVE  CompleteInv
<1>1. /\ attacks = base /\ pruning = TRUE /\ current = SemiClosure(base, {})
      /\ tmp = {} /\ tmp_complement = {} /\ i = -1 /\ pc = "check" /\ extensions = <<>>
    BY CompleteOperators DEF Complete!Init
<1>2. Members(extensions) = {} /\ extensions \in Seq(SUBSET Arg) /\ DOMAIN extensions = {}
    BY <1>1 DEF Members
<1>3. current \in SUBSET Arg /\ SemiCompleteSet(base, current)
    BY <1>1, SemiClosureIsClosure
<1>4. Quiet(base, current)
    <2>1. Quiet(base, {})
        BY DEF Quiet
    <2>2. \A b : ~SetAttacksArg(base, {}, b)
        BY DEF SetAttacksArg
    <2>3. {} \in SUBSET Arg
        OBVIOUS
    <2> QED
        BY <1>1, <2>1, <2>2, <2>3, ClosureQuiet
<1>5. CompleteState
    BY <1>1, <1>2, <1>3, <1>4, NAssumption DEF CompleteState
<1>6. CompleteOrder
    BY <1>1, <1>2 DEF CompleteOrder
<1>7. CompleteSought
    <2> SUFFICES ASSUME NEW S \in SUBSET Arg, CompleteExt(base, S)
                 PROVE  S = current \/ LecticLess(current, S)
        BY <1>1 DEF CompleteSought
    <2>1. current \subseteq S
        BY <1>1, CompleteFacts, ClosureLeast
    <2>2. ~LecticLess(S, current)
        BY <2>1 DEF LecticLess
    <2> QED
        BY <1>3, <2>2, LecticTotal
<1> QED
    BY <1>5, <1>6, <1>7 DEF CompleteInv

(* A complete extension that begins like tmp with i holds all that tmp holds *)
(* and the closure.                                                          *)
LEMMA CompleteBegins ==
    ASSUME base \in Framework, CompleteState, pc = "search", i >= 0,
           i \notin tmp, NEW S \in SUBSET Arg, CompleteExt(base, S),
           i \in S, SameBelow(tmp, S, i)
    PROVE  /\ tmp \cup {i} \subseteq S
           /\ SemiClosure(base, tmp \cup {i}) \subseteq S
<1>1. i \in Arg /\ tmp = {b \in Entered : b <= i} /\ tmp \in SUBSET Arg
    BY NAssumption DEF CompleteState, Arg, Entered
<1>2. \A b \in tmp : b \in Arg /\ b < i
    BY <1>1, NAssumption DEF Arg
<1>3. tmp \cup {i} \subseteq S
    BY <1>2 DEF SameBelow
<1> QED
    BY <1>1, <1>3, CompleteFacts, ClosureLeast

(* What the search passes over begins no complete extension.                 *)
LEMMA CompleteSkip ==
    ASSUME base \in Framework, CompleteState, pc = "search", Complete!Skip, PeacefulLast,
           NEW S \in SUBSET Arg, CompleteExt(base, S), i \in S, SameBelow(tmp, S, i)
    PROVE  FALSE
<1>1. /\ i \in Arg /\ i \notin tmp /\ tmp = {b \in Entered : b <= i} /\ attacks = base
      /\ i >= 0 /\ tmp \in SUBSET Arg /\ DOMAIN base = Arg
    BY NAssumption DEF CompleteState, Arg, Complete!Skip, Complete!Searching, Framework, Entered
<1>2. /\ tmp \cup {i} \subseteq S
      /\ \A a, b \in S : b \notin base[a]
      /\ \A a \in Arg : a \in S <=> SetDefendsArg(base, S, a)
    BY <1>1, CompleteBegins, CompleteFacts
<1>3. \A b \in S : b < i => b \in tmp
    BY <1>1 DEF SameBelow
<1>4. i \notin Entered
    BY <1>1, NAssumption DEF Arg
<1>5. CASE Complete!InConflict(attacks, tmp, i)
    BY <1>1, <1>2, <1>5
    DEF Complete!InConflict, Complete!ArgAttacksArg, Complete!ArgAttacksSet,
        Complete!SetAttacksArg
<1>6. CASE i \in Complete!Peaceful(attacks)
    <2>1. \A b \in Arg : i < b => base[b] = {}
        BY <1>1, <1>6 DEF Complete!Peaceful, PeacefulLast, Peaceful
    <2>2. base[i] = {}
        BY <1>1, <1>6 DEF Complete!Peaceful
    <2>3. SetDefendsArg(base, Entered, i)
        <3> SUFFICES ASSUME NEW b \in Arg, i \in base[b]
                     PROVE  \E d \in Entered : b \in base[d]
            BY <1>1 DEF SetDefendsArg, SetAttacksArg
        <3>1. PICK d \in S : b \in base[d]
            BY <1>1, <1>2 DEF SetDefendsArg, SetAttacksArg
        <3>2. ~(i < d) /\ d # i
            BY <2>1, <2>2, <3>1
        <3>3. d < i
            BY <1>1, <3>2, NAssumption DEF Arg
        <3> QED
            BY <1>1, <1>3, <3>1, <3>3
    <2> QED
        BY <1>1, <1>4, <2>3 DEF CompleteState, SemiCompleteSet
<1>7. CASE tmp_complement \cap Complete!SmallerDefended(attacks, i) # {}
    <2>1. PICK b \in Arg : /\ b \notin Entered /\ b < i
                           /\ Complete!Transpose(base)[b] \subseteq base[i]
        BY <1>1, <1>7 DEF Complete!SmallerDefended, Entered
    <2>2. SetDefendsArg(base, S, b)
        BY <1>1, <1>2, <2>1 DEF Complete!Transpose, SetDefendsArg, SetAttacksArg
    <2>3. b \in tmp
        BY <1>2, <1>3, <2>1, <2>2
    <2> QED
        BY <1>1, <2>1, <2>3
<1> QED
    BY <1>5, <1>6, <1>7 DEF Complete!Skip, Complete!Pruned

(* Passing an index leaves the search below it, with everything above in     *)
(* place.                                                                    *)
LEMMA CompletePass ==
    ASSUME base \in Framework, CompleteInv, pc = "search", i \in Arg,
           tmp' = tmp \ {i}, i' = i - 1,
           UNCHANGED <<base, attacks, pruning, tmp_complement, pc, extensions>>,
           current' \in SUBSET Arg,
           PeacefulLast => \A S \in SUBSET Arg : CompleteExt(base, S) =>
                              ~(i \in S /\ i \notin tmp /\ SameBelow(tmp, S, i))
    PROVE  CompleteInv'
<1>1. CompleteState /\ CompleteOrder /\ CompleteSought
    BY DEF CompleteInv, Running
<1>2. tmp = {b \in Entered : b <= i} /\ tmp \in SUBSET Arg
    BY <1>1 DEF CompleteState, Entered
<1>3. tmp' = {b \in Entered : b <= i - 1}
    BY <1>2, NAssumption DEF Arg, Entered
<1>4. CompleteState'
    <2>1. i' \in -1 .. N-1
        BY NAssumption DEF Arg
    <2> QED
        BY <1>1, <1>3, <2>1 DEF CompleteState, Entered, Members
<1>5. CompleteOrder'
    <2>1. \A T \in SUBSET Arg : Ahead(tmp', i', T) => Ahead(tmp, i, T)
        BY <1>2, AheadBack
    <2> QED
        BY <1>1, <2>1 DEF CompleteOrder, Members
<1>6. CompleteSought'
    <2> SUFFICES ASSUME PeacefulLast, NEW S \in SUBSET Arg, CompleteExt(base, S),
                        S \notin Members(extensions)
                 PROVE  Ahead(tmp', i', S)
        BY DEF CompleteSought, PeacefulLast, Peaceful, Members
    <2>1. Ahead(tmp, i, S)
        BY <1>1 DEF CompleteSought
    <2>2. ~(i \in S /\ i \notin tmp /\ SameBelow(tmp, S, i))
        OBVIOUS
    <2> QED
        BY <1>2, <2>1, <2>2, AheadStep
<1> QED
    BY <1>4, <1>5, <1>6 DEF CompleteInv

LEMMA CompleteDropInv ==
    ASSUME base \in Framework, CompleteInv, Complete!Drop, UNCHANGED <<base, extensions>>
    PROVE  CompleteInv'
<1>1. pc = "search" /\ i \in Arg /\ i \in tmp /\ current' = current /\ current \in SUBSET Arg
    BY NAssumption DEF CompleteInv, CompleteState, Complete!Drop, Complete!Searching, Arg
<1> QED
    BY <1>1, CompletePass DEF Complete!Drop

LEMMA CompleteSkipInv ==
    ASSUME base \in Framework, CompleteInv, Complete!Skip, UNCHANGED <<base, extensions>>
    PROVE  CompleteInv'
<1>1. /\ pc = "search" /\ i \in Arg /\ i \notin tmp /\ current' = current
      /\ current \in SUBSET Arg /\ tmp' = tmp /\ CompleteState
    BY NAssumption DEF CompleteInv, CompleteState, Complete!Skip, Complete!Searching, Arg
<1>2. PeacefulLast => \A S \in SUBSET Arg : CompleteExt(base, S) =>
                         ~(i \in S /\ i \notin tmp /\ SameBelow(tmp, S, i))
    BY <1>1, CompleteSkip
<1>3. tmp' = tmp \ {i}
    BY <1>1
<1> QED
    BY <1>1, <1>2, <1>3, CompletePass DEF Complete!Skip

LEMMA CompleteCloseInv ==
    ASSUME base \in Framework, CompleteInv, Complete!Close, UNCHANGED <<base, extensions>>
    PROVE  CompleteInv'
<1> DEFINE X == tmp \cup {i}
           next == SemiClosure(base, X)
           accepted == /\ \A b \in next \ tmp : b >= i
                       /\ \A b \in next : b > i => ~(/\ ArgAttacksSet(base, b, next)
                                                     /\ SetAttacksArg(base, X, b))
<1>1. /\ CompleteState /\ CompleteOrder /\ CompleteSought
      /\ pc = "search" /\ i \in Arg /\ i \notin tmp /\ attacks = base
      /\ tmp = {b \in Entered : b <= i} /\ tmp \in SUBSET Arg
      /\ Quiet(base, Entered)
    BY NAssumption
    DEF CompleteInv, CompleteState, Running, Complete!Close, Complete!CloseTo,
        Complete!Searching, Arg, Entered
<1>2. /\ current' = next
      /\ i \notin base[i] /\ ~SetAttacksArg(base, tmp, i)
      /\ UNCHANGED <<attacks, pruning, tmp, tmp_complement>>
    BY <1>1, CompleteOperators
    DEF Complete!Close, Complete!CloseTo, Complete!InConflict, Complete!ArgAttacksArg
<1>3. IF accepted THEN pc' = "check" /\ i' = i ELSE pc' = pc /\ i' = i - 1
    BY <1>1, <1>2, CompleteOperators
    DEF Complete!Close, Complete!CloseTo, Complete!Canonical, Complete!ConflictAbove
<1>4. /\ X \in SUBSET Arg /\ next \in SUBSET Arg /\ X \subseteq next
      /\ SemiCompleteSet(base, next)
    BY <1>1, SemiClosureIsClosure
<1>5. ASSUME NEW S \in SUBSET Arg, CompleteExt(base, S), i \in S, SameBelow(tmp, S, i)
      PROVE  next \subseteq S
    BY <1>1, <1>5, CompleteBegins, NAssumption DEF Arg
<1>6. CASE ~accepted
    <2>1. ASSUME NEW S \in SUBSET Arg, CompleteExt(base, S), i \in S, SameBelow(tmp, S, i)
          PROVE  FALSE
        <3>1. next \subseteq S /\ X \subseteq S /\ \A a, b \in S : b \notin base[a]
            BY <1>4, <1>5, <2>1, CompleteFacts
        <3>2. \A b \in next : ~(ArgAttacksSet(base, b, next) /\ SetAttacksArg(base, X, b))
            BY <3>1 DEF SetAttacksArg
        <3>3. PICK b \in next \ tmp : ~(b >= i)
            BY <1>6, <3>2
        <3>4. b \in Arg /\ b < i /\ b \in S
            BY <1>1, <1>4, <3>1, <3>3, NAssumption DEF Arg
        <3> QED
            BY <2>1, <3>3, <3>4 DEF SameBelow
    <2>2. tmp' = tmp \ {i} /\ i' = i - 1 /\ pc' = pc /\ current' \in SUBSET Arg
        BY <1>1, <1>2, <1>3, <1>4, <1>6
    <2> QED
        BY <1>1, <1>2, <2>1, <2>2, CompletePass
<1>7. CASE accepted
    <2>1. pc' = "check" /\ i' = i
        BY <1>3, <1>7
    <2>2. Quiet(base, next)
        <3>1. Quiet(base, tmp)
            BY <1>1, QuietPart
        <3>2. Quiet(base, X)
            BY <1>2, <3>1, QuietAdd
        <3>3. \A b \in next \ X : b \in Arg /\ b > i
            BY <1>1, <1>4, <1>7, NAssumption DEF Arg
        <3> QED
            BY <1>4, <1>7, <3>2, <3>3, ClosureQuiet
    <2>3. CompleteState'
        BY <1>1, <1>2, <1>4, <2>1, <2>2 DEF CompleteState, Members
    <2>4. CompleteOrder'
        <3>1. Ahead(tmp, i, next)
            BY <1>1, <1>4, <1>7, NotLessWasAhead
        <3> QED
            BY <1>1, <1>2, <1>4, <2>1, <3>1 DEF CompleteOrder, Members
    <2>5. CompleteSought'
        <3> SUFFICES ASSUME PeacefulLast, NEW S \in SUBSET Arg, CompleteExt(base, S),
                            S \notin Members(extensions)
                     PROVE  S = next \/ LecticLess(next, S)
            BY <1>2, <2>1 DEF CompleteSought, PeacefulLast, Peaceful, Members
        <3>1. Ahead(tmp, i, S)
            BY <1>1 DEF CompleteSought
        <3>2. tmp \subseteq next /\ \A b \in next \ tmp : b >= i
            BY <1>4, <1>7
        <3>3. i \in S /\ i \notin tmp /\ SameBelow(tmp, S, i) => next \subseteq S
            BY <1>5
        <3> HIDE DEF next
        <3> QED
            BY <1>1, <1>4, <3>1, <3>2, <3>3, AcceptedOrAbove
    <2> QED
        BY <2>3, <2>4, <2>5 DEF CompleteInv
<1> QED
    BY <1>6, <1>7

LEMMA CompleteExhaustedInv ==
    ASSUME base \in Framework, CompleteInv, Complete!Exhausted, UNCHANGED <<base, extensions>>
    PROVE  CompleteInv'
<1>1. /\ CompleteState /\ CompleteOrder /\ CompleteSought
      /\ pc = "search" /\ i = -1 /\ pc' = "done"
      /\ UNCHANGED <<attacks, pruning, current, tmp, tmp_complement, i>>
    BY NAssumption DEF CompleteInv, CompleteState, Running, Complete!Exhausted
<1>2. CompleteState' /\ CompleteOrder'
    BY <1>1 DEF CompleteState, CompleteOrder, Members
<1>3. CompleteSought'
    <2>1. \A S : ~Ahead(tmp, i, S)
        BY <1>1, NAssumption DEF Ahead, Arg
    <2> QED
        BY <1>1, <2>1 DEF CompleteSought, PeacefulLast, Peaceful, Members
<1> QED
    BY <1>2, <1>3 DEF CompleteInv

(* Entering the search again with current.                                   *)
LEMMA CompleteEnterInv ==
    ASSUME base \in Framework, CompleteInv, pc = "check", Complete!Enter(current),
           UNCHANGED <<base, attacks, pruning, current>>,
           \/ SelfDefending(base, current) /\ extensions' = <<current>> \o extensions
           \/ ~SelfDefending(base, current) /\ extensions' = extensions
    PROVE  CompleteInv'
<1>1. /\ CompleteState /\ CompleteOrder /\ CompleteSought
      /\ attacks = base /\ DOMAIN base = Arg /\ current \in SUBSET Arg
      /\ Quiet(base, current) /\ SemiCompleteSet(base, current)
      /\ extensions \in Seq(SUBSET Arg)
    BY DEF CompleteInv, CompleteState, Running, Framework
<1>2. /\ tmp' = current /\ tmp_complement' = Arg \ current /\ i' = N - 1 /\ pc' = "search"
    <2>1. Complete!Size = N
        BY <1>1, ArgSize, CompleteOperators DEF Complete!Size
    <2> QED
        BY <1>1, <2>1 DEF Complete!Enter
<1>3. /\ Members(extensions') \subseteq Members(extensions) \cup {current}
      /\ Members(extensions) \subseteq Members(extensions')
      /\ extensions' \in Seq(SUBSET Arg)
      /\ current \in Members(extensions') => CompleteExt(base, current)
      /\ CompleteExt(base, current) => current \in Members(extensions')
    <2>1. CASE SelfDefending(base, current) /\ extensions' = <<current>> \o extensions
        <3>1. CompleteExt(base, current)
            BY <1>1, <2>1, QuietComplete
        <3>2. /\ extensions' \in Seq(SUBSET Arg)
              /\ Members(extensions') = {current} \cup Members(extensions)
            <4>1. current \in SUBSET Arg /\ extensions \in Seq(SUBSET Arg)
                BY <1>1
            <4> QED
                BY <2>1, <4>1, Prepended
        <3> QED
            BY <3>1, <3>2
    <2>2. CASE ~SelfDefending(base, current) /\ extensions' = extensions
        <3>1. ~CompleteExt(base, current)
            BY <1>1, <2>2, CompleteFacts
        <3>2. \A S \in Members(extensions) : CompleteExt(base, S)
            BY <1>1 DEF CompleteState
        <3> QED
            BY <1>1, <2>2, <3>1, <3>2
    <2> QED
        BY <2>1, <2>2
<1>4. CompleteState'
    <2>1. Entered' = current /\ i' \in -1 .. N-1
        BY <1>1, <1>2, NAssumption DEF Entered, Arg
    <2>2. tmp' = {b \in Entered' : b <= i'}
        <3>1. \A b \in current : b <= N - 1
            BY <1>1, NAssumption DEF Arg
        <3> QED
            BY <1>2, <2>1, <3>1
    <2> QED
        BY <1>1, <1>2, <1>3, <2>1, <2>2 DEF CompleteState
<1>5. \A T \in SUBSET Arg : Ahead(tmp', i', T) <=> LecticLess(current, T)
    BY <1>1, <1>2, AheadOfAll
<1>6. CompleteOrder'
    <2>1. \A m, n \in DOMAIN extensions' :
              m < n => LecticLess(extensions'[n], extensions'[m])
        <3>1. CASE extensions' = extensions
            BY <1>1, <3>1 DEF CompleteOrder
        <3>2. CASE extensions' = <<current>> \o extensions
            <4> SUFFICES ASSUME NEW m \in DOMAIN extensions', NEW n \in DOMAIN extensions',
                                m < n
                         PROVE  LecticLess(extensions'[n], extensions'[m])
                OBVIOUS
            <4>1. /\ m \in 1 .. Len(extensions) + 1 /\ n \in 1 .. Len(extensions) + 1
                  /\ Len(extensions) \in Nat
                BY <1>1, <3>2
            <4>2. /\ n-1 \in DOMAIN extensions /\ extensions'[n] = extensions[n-1]
                  /\ m = 1 => extensions'[m] = current
                  /\ m # 1 => m-1 \in DOMAIN extensions /\ extensions'[m] = extensions[m-1]
                BY <1>1, <3>2, <4>1
            <4>3. CASE m = 1
                BY <1>1, <4>2, <4>3 DEF CompleteOrder, Members
            <4>4. CASE m # 1
                BY <1>1, <4>1, <4>2, <4>4 DEF CompleteOrder
            <4> QED
                BY <4>3, <4>4
        <3> QED
            BY <3>1, <3>2
    <2>2. ASSUME NEW T \in SUBSET Arg, LecticLess(current, T), NEW S \in Members(extensions')
          PROVE  LecticLess(S, T)
        <3>1. CASE S = current
            BY <2>2, <3>1
        <3>2. CASE S # current
            <4>1. S \in Members(extensions) /\ S \in SUBSET Arg
                BY <1>1, <1>3, <3>2 DEF Members
            <4>2. LecticLess(S, current)
                BY <1>1, <4>1 DEF CompleteOrder
            <4> QED
                BY <1>1, <2>2, <4>1, <4>2, LecticTransitive
        <3> QED
            BY <3>1, <3>2
    <2> QED
        BY <1>2, <1>5, <2>1, <2>2 DEF CompleteOrder
<1>7. CompleteSought'
    <2> SUFFICES ASSUME PeacefulLast, NEW S \in SUBSET Arg, CompleteExt(base, S),
                        S \notin Members(extensions')
                 PROVE  Ahead(tmp', i', S)
        BY <1>2 DEF CompleteSought, PeacefulLast, Peaceful
    <2>1. S # current /\ S \notin Members(extensions)
        BY <1>3
    <2>2. LecticLess(current, S)
        BY <1>1, <2>1 DEF CompleteSought
    <2> QED
        BY <1>5, <2>2
<1> QED
    BY <1>4, <1>6, <1>7 DEF CompleteInv

LEMMA CompleteNextInv ==
    ASSUME base \in Framework, CompleteInv, Complete!Next, UNCHANGED base
    PROVE  CompleteInv'
<1>1. CASE Complete!Search
    BY <1>1, CompleteDropInv, CompleteSkipInv, CompleteCloseInv, CompleteExhaustedInv
    DEF Complete!Search
<1>2. CASE Complete!Keep
    <2>1. attacks = base
        BY DEF CompleteInv, CompleteState
    <2> QED
        BY <1>2, <2>1, CompleteOperators, CompleteEnterInv DEF Complete!Keep
<1>3. CASE Complete!Pass
    <2>1. attacks = base
        BY DEF CompleteInv, CompleteState
    <2> QED
        BY <1>3, <2>1, CompleteOperators, CompleteEnterInv DEF Complete!Pass
<1>4. CASE Complete!Returned
    BY <1>4
    DEF Complete!Returned, Complete!vars, Complete!searchVars, CompleteInv, CompleteState,
        CompleteOrder, CompleteSought, Running, Entered, Members, PeacefulLast, Peaceful
<1> QED
    BY <1>1, <1>2, <1>3, <1>4 DEF Complete!Next

CompleteRun ==
    prob = "EE-CO" =>
        /\ CompleteInv
        /\ Running => printed = <<>>
        /\ ~Running =>
               Printing(order, CompleteExtensions(base), extensions, printed, PeacefulLast)
        /\ pc = "exit" => extensions = <<>>

LEMMA CompleteCases ==
    ASSUME Settled, prob = "EE-CO", [Next]_vars
    PROVE  /\ UNCHANGED mainVars
           /\ \/ Complete!Next /\ UNCHANGED printed
              \/ Return /\ pc = "done"
              \/ PrintComplete
              \/ ListPrinted /\ extensions = <<>>
              \/ UNCHANGED vars
<1>1. alg # "cbo"
    BY ProblemsAssumption DEF Settled
<1>2. CASE Solve
    BY <1>1, <1>2 DEF Solve
<1>3. CASE Return
    BY <1>3 DEF Return
<1>4. CASE PrintComplete
    BY <1>4 DEF PrintComplete
<1>5. CASE PrintPreferred
    BY <1>5 DEF PrintPreferred
<1>6. CASE ListPrinted
    BY <1>6 DEF ListPrinted
<1>7. CASE PrintOne
    BY <1>7 DEF PrintOne
<1>8. CASE Exited \/ UNCHANGED vars
    BY <1>8 DEF Exited, vars
<1> QED
    BY <1>2, <1>3, <1>4, <1>5, <1>6, <1>7, <1>8 DEF Next

LEMMA CompleteExtensionsType ==
    ASSUME base \in Framework
    PROVE  CompleteExtensions(base) \in SUBSET SUBSET Arg
BY ExtensionSets

LEMMA CompleteRunStep ==
    ASSUME Settled, CompleteRun, [Next]_vars
    PROVE  CompleteRun'
<1>1. SUFFICES ASSUME prob' = "EE-CO"
               PROVE  /\ CompleteInv'
                      /\ Running' => printed' = <<>>
                      /\ ~Running' => Printing(order, CompleteExtensions(base), extensions',
                                               printed', PeacefulLast)
                      /\ pc' = "exit" => extensions' = <<>>
    <2>1. UNCHANGED <<base, order, prob>>
        BY DEF Next, vars, mainVars, Solve, Return, PrintComplete, PrintPreferred,
               ListPrinted, PrintOne, Exited
    <2> QED
        BY <2>1 DEF CompleteRun, PeacefulLast, Peaceful
<1>2. prob = "EE-CO" /\ UNCHANGED mainVars
    BY <1>1 DEF Next, vars, mainVars, Solve, Return, PrintComplete, PrintPreferred,
                ListPrinted, PrintOne, Exited
<1>3. /\ base \in Framework /\ order \in [Arg -> Arg] /\ Permutation(order)
      /\ CompleteInv /\ base' = base /\ order' = order
      /\ CompleteExtensions(base) = {S \in SUBSET Arg : CompleteExt(base, S)}
    BY <1>2, ExtensionSets DEF CompleteRun, Settled, mainVars
<1>4. CASE Complete!Next /\ UNCHANGED printed
    <2>1. pc \in {"search", "check", "done"} /\ pc' \in {"search", "check", "done"}
        BY <1>4
        DEF Complete!Next, Complete!Search, Complete!Drop, Complete!Skip, Complete!Close,
            Complete!CloseTo, Complete!Exhausted, Complete!Searching, Complete!Keep,
            Complete!Pass, Complete!Enter, Complete!Returned, Complete!vars,
            Complete!searchVars
    <2> QED
        BY <1>2, <1>3, <1>4, <2>1, CompleteNextInv DEF CompleteRun, Running
<1>5. CASE Return /\ pc = "done"
    <2>1. /\ pc' = "print" /\ printed = <<>> /\ extensions \in Seq(SUBSET Arg)
          /\ UNCHANGED <<printed, i, k, attacks, current, pruning, tmp, tmp_complement,
                         extensions>>
          /\ CompleteState /\ CompleteOrder /\ CompleteSought
        BY <1>2, <1>3, <1>5
        DEF Return, CompleteRun, CompleteInv, CompleteState, Running, routineVars, searchVars
    <2>2. CompleteInv'
        BY <1>3, <1>5, <2>1 DEF CompleteInv, CompleteState, Running, Entered
    <2>3. \A m, n \in DOMAIN extensions : extensions[m] = extensions[n] => m = n
        <3> SUFFICES ASSUME NEW m \in DOMAIN extensions, NEW n \in DOMAIN extensions,
                            extensions[m] = extensions[n], m < n
                     PROVE  FALSE
            BY <2>1
        <3> QED
            BY <2>1, LecticAsymmetric DEF CompleteOrder
    <2>4. Members(extensions) \subseteq CompleteExtensions(base)
        BY <1>3, <2>1 DEF CompleteState, Members
    <2>5. PeacefulLast => CompleteExtensions(base) \subseteq Members(extensions)
        BY <1>3, <1>5, <2>1 DEF CompleteSought
    <2>6. Printing(order, CompleteExtensions(base), extensions, printed, PeacefulLast)
        BY <2>1, <2>3, <2>4, <2>5, NonePrinted
    <2> QED
        BY <2>1, <2>2, <2>6 DEF Running
<1>6. CASE PrintComplete
    <2>1. /\ pc = "print" /\ pc' = pc /\ extensions # <<>>
          /\ UNCHANGED <<i, attacks, current, pruning, tmp, tmp_complement>>
          /\ printed' = Append(printed, MapIndices(Head(extensions), order))
          /\ extensions' = Tail(extensions)
          /\ CompleteState
          /\ Printing(order, CompleteExtensions(base), extensions, printed, PeacefulLast)
        BY <1>2, <1>3, <1>6
        DEF PrintComplete, Mapped, CompleteRun, CompleteInv, Running, searchVars
    <2>2. Printing(order, CompleteExtensions(base), extensions', printed', PeacefulLast)
        BY <1>3, <2>1, CompleteExtensionsType, PrintHead
    <2>3. extensions' \in Seq(SUBSET Arg) /\ Members(extensions') \subseteq CompleteExtensions(base)
        BY <2>2 DEF Printing
    <2>4. CompleteInv'
        BY <1>3, <2>1, <2>3 DEF CompleteInv, CompleteState, Running, Entered
    <2> QED
        BY <2>1, <2>2, <2>4 DEF Running
<1>7. CASE ListPrinted /\ extensions = <<>>
    <2>1. /\ pc = "print" /\ pc' = "exit"
          /\ UNCHANGED <<printed, i, attacks, current, pruning, tmp, tmp_complement, extensions>>
        BY <1>7 DEF ListPrinted, routineVars, searchVars
    <2>2. CompleteInv'
        BY <1>3, <2>1 DEF CompleteInv, CompleteState, Running, Entered
    <2> QED
        BY <1>2, <1>7, <2>1, <2>2 DEF CompleteRun, Running
<1>8. CASE UNCHANGED vars
    <2>1. UNCHANGED <<pc, printed, i, attacks, current, pruning, tmp, tmp_complement, extensions>>
        BY <1>8 DEF vars, routineVars, searchVars
    <2>2. CompleteInv'
        BY <1>3, <2>1
        DEF CompleteInv, CompleteState, CompleteOrder, CompleteSought, Running, Entered,
            Members, PeacefulLast, Peaceful
    <2> QED
        BY <1>2, <2>1, <2>2 DEF CompleteRun, Running
<1> QED
    BY <1>2, <1>4, <1>5, <1>6, <1>7, <1>8, CompleteCases

-------------------------------------------------------------------------------
(* EE-PR and SE-ID.                                                          *)

(* The arguments attacked from within s only.                                *)
AttackedFrom(att, s) == {b \in Arg : \A a \in Arg : b \in att[a] => a \in s}

(* The arguments whose attackers all attack s, too.                          *)
AttackedLike(att, s) ==
    {b \in Arg : \A a \in Arg : b \in att[a] => ArgAttacksSet(att, a, s)}

CountersAttackers(att, s) ==
    \A a \in Arg : ArgAttacksSet(att, a, s) => SetAttacksArg(att, s, a)

(* The arrows in the complement, in terms of the attacks.                    *)
LEMMA PreferredArrows ==
    ASSUME NEW att \in Framework, NEW s \in SUBSET Arg
    PROVE  /\ Preferred!UpArrow(Preferred!Complement(att), Preferred!Arg \ s)
                = AttackedFrom(att, s)
           /\ Preferred!DownUpArrow(Preferred!Complement(att), s) = AttackedLike(att, s)
           /\ Preferred!IsAdmissible(att, s) <=> CountersAttackers(att, s)
<1> DEFINE com == Preferred!Complement(att)
<1>1. Preferred!Arg = Arg /\ DOMAIN att = Arg
    BY DEF Preferred!Arg, Arg, Framework
<1>2. /\ DOMAIN com = Arg
      /\ \A a, b \in Arg : b \in com[a] <=> b \notin att[a]
    BY <1>1 DEF Preferred!Complement
<1> HIDE DEF com
<1>3. Preferred!UpArrow(com, Arg \ s) = AttackedFrom(att, s)
    BY <1>2 DEF Preferred!UpArrow, AttackedFrom
<1>4. \A a \in Arg : s \subseteq com[a] <=> ~ArgAttacksSet(att, a, s)
    BY <1>2 DEF ArgAttacksSet
<1>5. Preferred!DownUpArrow(com, s) = AttackedLike(att, s)
    BY <1>2, <1>4 DEF Preferred!DownUpArrow, AttackedLike
<1>6. \A a \in Arg : a \in Preferred!UpArrow(com, s) <=> ~SetAttacksArg(att, s, a)
    BY <1>2 DEF Preferred!UpArrow, SetAttacksArg
<1>7. \A a \in Arg : a \in Preferred!DownArrow(com, s) <=> ~ArgAttacksSet(att, a, s)
    BY <1>2, <1>4 DEF Preferred!DownArrow
<1>8. Preferred!UpArrow(com, s) \subseteq Arg
    BY <1>2 DEF Preferred!UpArrow
<1>9. Preferred!IsAdmissible(att, s)
        <=> Preferred!UpArrow(com, s) \subseteq Preferred!DownArrow(com, s)
    BY DEF Preferred!IsAdmissible, com
<1>10. Preferred!IsAdmissible(att, s) <=> CountersAttackers(att, s)
    BY <1>6, <1>7, <1>8, <1>9 DEF CountersAttackers
<1> QED
    BY <1>1, <1>3, <1>5, <1>10 DEF com

LEMMA PreferredOperators ==
    ASSUME NEW att, NEW s, NEW a
    PROVE  /\ Preferred!Victims(att, s) = Victims(att, s)
           /\ Preferred!ArgAttacksSet(att, a, s) <=> ArgAttacksSet(att, a, s)
           /\ Preferred!SetAttacksArg(att, s, a) <=> SetAttacksArg(att, s, a)
           /\ Preferred!ArgAttacksArg(att, a, s) <=> s \in att[a]
           /\ Preferred!CompleteExtensions(att) = CompleteExtensions(att)
           /\ Preferred!Cardinality(s) = Cardinality(s)
           /\ Preferred!Framework = Framework
           /\ Preferred!Arg = Arg
<1>1. /\ Preferred!ArgAttacksSet(att, a, s) <=> ArgAttacksSet(att, a, s)
      /\ Preferred!SetAttacksArg(att, s, a) <=> SetAttacksArg(att, s, a)
      /\ Preferred!ArgAttacksArg(att, a, s) <=> s \in att[a]
    BY DEF Preferred!ArgAttacksSet, ArgAttacksSet, Preferred!SetAttacksArg, SetAttacksArg,
           Preferred!ArgAttacksArg
<1>2. Preferred!Victims(att, s) = Victims(att, s)
    BY DEF Preferred!Victims, Victims, Preferred!SetAttacksArg, SetAttacksArg
<1>3. Preferred!Arg = Arg /\ Preferred!Framework = Framework
    BY DEF Preferred!Arg, Arg, Preferred!Framework, Framework
<1>4. Preferred!CompleteExtensions(att) = CompleteExtensions(att)
    BY DEF Preferred!CompleteExtensions, CompleteExtensions, Preferred!CompleteExt,
           CompleteExt, Preferred!ConflictFreeIn, ConflictFreeIn, Preferred!Defended, Defended
<1>5. Preferred!Cardinality(s) = Cardinality(s)
    BY DEF Preferred!Cardinality, Cardinality
<1> QED
    BY <1>1, <1>2, <1>3, <1>4, <1>5

(* A conflict-free set that counters its attackers is admissible.            *)
LEMMA CounteringAdmissible ==
    ASSUME NEW att \in Framework, NEW s \in SUBSET Arg
    PROVE  s \in AdmissibleSets(att) <=> ConflictFreeIn(att, s) /\ CountersAttackers(att, s)
<1>1. (\A a \in s : Defended(att, s, a)) <=> CountersAttackers(att, s)
    BY DEF Framework, Defended, CountersAttackers, ArgAttacksSet, SetAttacksArg
<1> QED
    BY <1>1, ExtensionSets DEF Admissible

(* What a complete extension contains it contains with all arguments that    *)
(* have no other attackers, and with all that are attacked by its victims    *)
(* only.                                                                     *)
LEMMA CompleteClosed ==
    ASSUME NEW att \in Framework, NEW P \in CompleteExtensions(att), NEW s \in SUBSET P
    PROVE  AttackedLike(att, s) \subseteq P /\ AttackedFrom(att, Victims(att, s)) \subseteq P
<1>1. /\ P \in SUBSET Arg
      /\ \A a \in Arg : a \in P <=> SetDefendsArg(att, P, a)
      /\ DOMAIN att = Arg
    BY ExtensionSets, CompleteFacts DEF Framework
<1>2. ASSUME NEW b \in AttackedLike(att, s)
      PROVE  b \in P
    <2>1. \A a \in Arg : b \in att[a] => \E x \in P : x \in att[a]
        BY <1>2 DEF AttackedLike, ArgAttacksSet
    <2>2. \A a \in Arg : b \in att[a] => SetAttacksArg(att, P, a)
        BY <1>1, <2>1 DEF SetDefendsArg
    <2> QED
        BY <1>1, <1>2, <2>2 DEF SetDefendsArg, AttackedLike
<1>3. ASSUME NEW b \in AttackedFrom(att, Victims(att, s))
      PROVE  b \in P
    <2>1. \A a \in Arg : b \in att[a] => SetAttacksArg(att, P, a)
        BY <1>3 DEF AttackedFrom, Victims, SetAttacksArg
    <2> QED
        BY <1>1, <1>3, <2>1 DEF SetDefendsArg, AttackedFrom
<1> QED
    BY <1>2, <1>3

Grounded == {a \in Arg : \A S \in CompleteExtensions(base) : a \in S}

(* While add_ignore runs: c holds arguments that every complete extension    *)
(* contains, ignored are their victims, and they are attacked by these only. *)
Settling ==
    /\ first_candidate = <<>> /\ new_intent = {}
    /\ \E M \in SUBSET Arg :
          /\ c = {M}
          /\ ignored = Victims(base, M)
          /\ M \subseteq AttackedFrom(base, ignored)
          /\ M \subseteq Grounded

(* Complete extensions exist, and what is attacked by its own victims only   *)
(* is the least of them.                                                     *)
LEMMA GroundedFacts ==
    ASSUME base \in Framework
    PROVE  /\ CompleteExtensions(base) # {}
           /\ Grounded \in SUBSET Arg
           /\ ConflictFreeIn(base, Grounded)
           /\ AttackedFrom(base, Victims(base, Grounded)) \subseteq Grounded
           /\ \A M \in SUBSET Arg :
                M \subseteq Grounded /\ M = AttackedFrom(base, Victims(base, M))
                    => M = Grounded
<1>1. PICK P \in PreferredExtensions(base) : {} \subseteq P
    BY EmptyAdmissible, PreferredAbove
<1>2. P \in CompleteExtensions(base)
    BY <1>1, PreferredComplete, ExtensionSets
<1>3. ConflictFreeIn(base, Grounded)
    BY <1>2, ExtensionSets DEF CompleteExt, ConflictFreeIn, Grounded
<1>4. AttackedFrom(base, Victims(base, Grounded)) \subseteq Grounded
    <2>1. \A S \in CompleteExtensions(base) : Grounded \in SUBSET S
        BY DEF Grounded
    <2>2. \A S \in CompleteExtensions(base) :
              AttackedFrom(base, Victims(base, Grounded)) \subseteq S
        BY <2>1, CompleteClosed
    <2> QED
        BY <2>2 DEF Grounded, AttackedFrom
<1>5. ASSUME NEW M \in SUBSET Arg, M \subseteq Grounded,
             M = AttackedFrom(base, Victims(base, M))
      PROVE  M = Grounded
    <2>1. ConflictFreeIn(base, M)
        BY <1>3, <1>5 DEF ConflictFreeIn
    <2>2. \A a \in Arg : a \in AttackedFrom(base, Victims(base, M)) <=> Defended(base, M, a)
        BY DEF AttackedFrom, Victims, SetAttacksArg, Defended, Framework
    <2>3. \A a \in Arg : a \in M <=> Defended(base, M, a)
        BY <1>5, <2>2
    <2>4. M \in CompleteExtensions(base)
        BY <2>1, <2>3, ExtensionSets DEF CompleteExt, Framework
    <2> QED
        BY <1>5, <2>4 DEF Grounded
<1> QED
    BY <1>2, <1>3, <1>4, <1>5 DEF Grounded

(* A round of add_ignore.                                                    *)
LEMMA AddIgnoreStep ==
    ASSUME base \in Framework, attacks = base, Settling, Preferred!AddIgnore
    PROVE  \E M \in SUBSET Arg :
              /\ c' = {M} /\ ignored' = Victims(base, M)
              /\ M \subseteq AttackedFrom(base, ignored')
              /\ first_candidate' = <<>> /\ new_intent' = {} /\ attacks' = attacks
              /\ \/ /\ UNCHANGED <<current, i, pc>> /\ pc = "ignore"
                    /\ M \subseteq Grounded
                 \/ /\ current' = M /\ i' = N - 1 /\ pc' = "search"
                    /\ M = Grounded
<1>1. PICK M \in SUBSET Arg :
          /\ c = {M}
          /\ ignored = Victims(base, M)
          /\ M \subseteq AttackedFrom(base, ignored)
          /\ M \subseteq Grounded
    BY DEF Settling
<1> DEFINE mandatory == AttackedFrom(base, ignored)
           grown == ignored \cup Victims(base, mandatory)
<1>2. /\ mandatory \in SUBSET Arg /\ ignored \in SUBSET Arg /\ grown \in SUBSET Arg
      /\ Preferred!UpArrow(Preferred!Complement(base), Preferred!Arg \ ignored) = mandatory
    <2>1. mandatory \in SUBSET Arg /\ ignored \in SUBSET Arg
        BY <1>1 DEF AttackedFrom, Victims, Framework
    <2>2. Victims(base, mandatory) \in SUBSET Arg
        BY DEF Victims, Framework
    <2> QED
        BY <2>1, <2>2, PreferredArrows
<1>3. mandatory \subseteq Grounded
    <2>1. \A S \in CompleteExtensions(base) : M \in SUBSET S
        BY <1>1 DEF Grounded
    <2>2. \A S \in CompleteExtensions(base) : mandatory \subseteq S
        BY <1>1, <2>1, CompleteClosed
    <2> QED
        BY <1>2, <2>2 DEF Grounded
<1>4. grown = Victims(base, mandatory)
    BY <1>1 DEF Victims, SetAttacksArg
<1>5. mandatory \subseteq AttackedFrom(base, grown)
    BY DEF AttackedFrom
<1>6. Preferred!Mandatory = M
    BY <1>1 DEF Preferred!Mandatory
<1>7. /\ c' = {mandatory}
      /\ IF Cardinality(mandatory) = Cardinality(M)
         THEN ignored' = ignored /\ Preferred!EnterSearch(mandatory)
         ELSE /\ ignored' = grown
              /\ IF Cardinality(grown) = Cardinality(ignored)
                 THEN Preferred!EnterSearch(mandatory)
                 ELSE UNCHANGED <<current, i, pc>>
      /\ UNCHANGED <<attacks, new_intent, first_candidate>>
      /\ pc = "ignore"
    BY <1>2, <1>6, PreferredOperators DEF Preferred!AddIgnore
<1>8. /\ Cardinality(mandatory) = Cardinality(M) => mandatory = M
      /\ Cardinality(grown) = Cardinality(ignored) => grown = ignored
    BY <1>1, <1>2, ArgFinite
<1>9. CASE Cardinality(mandatory) = Cardinality(M)
    <2>1. mandatory = M /\ mandatory = AttackedFrom(base, Victims(base, mandatory))
        BY <1>1, <1>8, <1>9
    <2>2. mandatory = Grounded
        BY <1>2, <1>3, <2>1, GroundedFacts
    <2>3. /\ c' = {mandatory} /\ ignored' = Victims(base, mandatory)
          /\ current' = mandatory /\ i' = N - 1 /\ pc' = "search"
          /\ UNCHANGED <<attacks, new_intent, first_candidate>>
        BY <1>1, <1>7, <1>9, <2>1 DEF Preferred!EnterSearch
    <2> QED
        BY <1>2, <2>1, <2>2, <2>3 DEF Settling
<1>10. CASE Cardinality(mandatory) # Cardinality(M) /\ Cardinality(grown) = Cardinality(ignored)
    <2>1. mandatory = AttackedFrom(base, Victims(base, mandatory))
        BY <1>4, <1>8, <1>10
    <2>2. mandatory = Grounded
        BY <1>2, <1>3, <2>1, GroundedFacts
    <2>3. /\ c' = {mandatory} /\ ignored' = Victims(base, mandatory)
          /\ current' = mandatory /\ i' = N - 1 /\ pc' = "search"
          /\ UNCHANGED <<attacks, new_intent, first_candidate>>
        BY <1>4, <1>7, <1>10 DEF Preferred!EnterSearch
    <2> QED
        BY <1>2, <2>1, <2>2, <2>3 DEF Settling
<1>11. CASE Cardinality(mandatory) # Cardinality(M) /\ Cardinality(grown) # Cardinality(ignored)
    <2>1. /\ c' = {mandatory} /\ ignored' = Victims(base, mandatory)
          /\ UNCHANGED <<attacks, new_intent, first_candidate, current, i, pc>>
          /\ pc = "ignore"
        BY <1>4, <1>7, <1>11
    <2>2. mandatory \subseteq AttackedFrom(base, ignored')
        BY <1>4, <1>5, <2>1
    <2> QED
        BY <1>2, <1>3, <2>1, <2>2 DEF Settling
<1> QED
    BY <1>9, <1>10, <1>11

(* Part of a list, in its order: each element is taken from a place of its   *)
(* own.                                                                      *)
LEMMA SublistFacts ==
    ASSUME NEW list \in Seq(SUBSET Arg), NEW places \in SUBSET DOMAIN list,
           NEW new, new = Preferred!Sublist(list, places)
    PROVE  /\ new \in Seq(SUBSET Arg)
           /\ \E place \in [DOMAIN new -> places] :
                /\ \A m \in DOMAIN new : new[m] = list[place[m]]
                /\ \A m, l \in DOMAIN new : place[m] = place[l] => m = l
                /\ \A n \in places : \E m \in DOMAIN new : place[m] = n
<1> DEFINE K == Cardinality(places)
           rank(n) == Cardinality({l \in places : l <= n})
           nth(m) == Preferred!Nth(places, m)
           place == [m \in 1 .. K |-> nth(m)]
<1>1. places \in SUBSET Nat /\ IsFiniteSet(places)
    <2>1. Len(list) \in Nat /\ DOMAIN list = 1 .. Len(list)
        OBVIOUS
    <2>2. IsFiniteSet(DOMAIN list)
        BY <2>1, FS_Interval
    <2> QED
        BY <2>1, <2>2, FS_Subset
<1>2. /\ K \in Nat
      /\ \A n \in places : rank(n) \in 1 .. K
      /\ \A m \in 1 .. K : \E n \in places : rank(n) = m
      /\ \A m, n \in places : rank(m) = rank(n) => m = n
    BY <1>1, Ranked
<1>3. \A m : nth(m) = CHOOSE n \in places : rank(n) = m
    BY PreferredOperators DEF Preferred!Nth
<1>4. \A m \in 1 .. K : nth(m) \in places /\ rank(nth(m)) = m
    BY <1>2, <1>3
<1>5. new = [m \in 1 .. K |-> list[nth(m)]]
    BY PreferredOperators DEF Preferred!Sublist
<1> HIDE DEF K, nth, rank
<1>6. new \in Seq(SUBSET Arg) /\ DOMAIN new = 1 .. K
    <2>1. \A m \in 1 .. K : list[nth(m)] \in SUBSET Arg
        BY <1>4
    <2> QED
        BY <1>2, <1>5, <2>1
<1>7. /\ place \in [DOMAIN new -> places]
      /\ \A m \in DOMAIN new : new[m] = list[place[m]]
    BY <1>4, <1>5, <1>6
<1>8. \A m, l \in DOMAIN new : place[m] = place[l] => m = l
    BY <1>4, <1>6
<1>9. \A n \in places : \E m \in DOMAIN new : place[m] = n
    <2>1. \A n \in places : nth(rank(n)) = n
        BY <1>2, <1>4
    <2> QED
        BY <1>2, <1>6, <2>1
<1> QED
    BY <1>6, <1>7, <1>8, <1>9


(* A list of admissible sets of which none contains another.                 *)
Candidates(list) ==
    /\ list \in Seq(SUBSET Arg)
    /\ Members(list) \subseteq AdmissibleSets(base)
    /\ \A m, n \in DOMAIN list : list[m] \subseteq list[n] => m = n

(* Adding a candidate loses no preferred extension, though it does not drop  *)
(* all the candidates that the new one contains.                             *)
LEMMA AddCandidateFacts ==
    ASSUME base \in Framework, NEW list, Candidates(list), NEW S \in AdmissibleSets(base),
           NEW new, new = Preferred!AddCandidate(list, S)
    PROVE  /\ Candidates(new)
           /\ \A P \in PreferredExtensions(base) :
                P \in Members(list) \cup {S} => P \in Members(new)
<1> DEFINE covers == {n \in DOMAIN list : S \subseteq list[n]}
           kept == {n \in DOMAIN list :
                        (\E m \in covers : m <= n) \/ ~(list[n] \subseteq S)}
           rest == Preferred!Sublist(list, kept)
<1>1. /\ list \in Seq(SUBSET Arg) /\ Members(list) \subseteq AdmissibleSets(base)
      /\ \A m, n \in DOMAIN list : list[m] \subseteq list[n] => m = n
      /\ S \in SUBSET Arg
    BY ExtensionSets DEF Candidates
<1>2. PICK place \in [DOMAIN rest -> kept] :
          /\ \A m \in DOMAIN rest : rest[m] = list[place[m]]
          /\ \A m, l \in DOMAIN rest : place[m] = place[l] => m = l
          /\ \A n \in kept : \E m \in DOMAIN rest : place[m] = n
    <2>1. kept \in SUBSET DOMAIN list /\ rest = Preferred!Sublist(list, kept)
        OBVIOUS
    <2> HIDE DEF rest, kept
    <2> QED
        BY <1>1, <2>1, SublistFacts
<1>3. rest \in Seq(SUBSET Arg)
    BY <1>1, SublistFacts
<1>4. new = IF covers = {} THEN <<S>> \o rest ELSE rest
    BY DEF Preferred!AddCandidate
<1> HIDE DEF rest
<1>5. Candidates(rest)
    <2>1. \A x \in Members(rest) : x \in AdmissibleSets(base)
        BY <1>1, <1>2 DEF Members
    <2>2. \A m, n \in DOMAIN rest : rest[m] \subseteq rest[n] => m = n
        BY <1>1, <1>2
    <2> QED
        BY <1>3, <2>1, <2>2 DEF Candidates
<1>6. ASSUME NEW P \in PreferredExtensions(base), NEW n \in DOMAIN list, list[n] = P
      PROVE  P \in Members(rest)
    <2>1. n \in kept
        <3>1. P \subseteq S => P = S
            BY PreferredComplete, ExtensionSets
        <3>2. n \in Nat
            BY <1>1
        <3> QED
            BY <1>6, <3>1, <3>2
    <2> QED
        BY <1>2, <1>6, <2>1 DEF Members
<1>7. CASE covers = {}
    <2>1. /\ new = <<S>> \o rest
          /\ \A m \in DOMAIN rest : ~(rest[m] \subseteq S) /\ ~(S \subseteq rest[m])
        BY <1>2, <1>4, <1>7
    <2>2. /\ new \in Seq(SUBSET Arg)
          /\ DOMAIN new = 1 .. Len(rest) + 1
          /\ new[1] = S
          /\ \A m \in DOMAIN new : m # 1 => m-1 \in DOMAIN rest /\ new[m] = rest[m-1]
          /\ Members(new) = {S} \cup Members(rest)
        BY <1>1, <1>3, <2>1, Prepended
    <2>3. ASSUME NEW m \in DOMAIN new, NEW n \in DOMAIN new, new[m] \subseteq new[n]
          PROVE  m = n
        <3>1. CASE m = 1 \/ n = 1
            BY <2>1, <2>2, <2>3, <3>1
        <3>2. CASE m # 1 /\ n # 1
            <4>1. m-1 = n-1
                BY <1>5, <2>2, <2>3, <3>2 DEF Candidates
            <4>2. m \in Int /\ n \in Int
                BY <2>2
            <4> QED
                BY <4>1, <4>2
        <3> QED
            BY <3>1, <3>2
    <2>4. Candidates(new)
        BY <1>5, <2>2, <2>3 DEF Candidates
    <2> QED
        BY <1>6, <2>2, <2>4 DEF Members
<1>8. CASE covers # {}
    <2>1. new = rest
        BY <1>4, <1>8
    <2>2. ASSUME S \in PreferredExtensions(base)
          PROVE  \E n \in DOMAIN list : list[n] = S
        <3>1. PICK n \in DOMAIN list : S \subseteq list[n]
            BY <1>8
        <3>2. list[n] \in AdmissibleSets(base)
            BY <1>1 DEF Members
        <3> QED
            BY <2>2, <3>1, <3>2, ExtensionSets
    <2> QED
        BY <1>5, <1>6, <2>1, <2>2 DEF Members
<1> QED
    BY <1>7, <1>8

(* Every preferred extension is a candidate, or kept in c, or lies above the *)
(* search.                                                                   *)
PreferredSought ==
    \A P \in PreferredExtensions(base) :
        \/ P \in Members(first_candidate)
        \/ pc \in {"search", "check"} /\ c = {P}
        \/ pc = "search" /\ Ahead(current, i, P)
        \/ pc = "check" /\ (P = new_intent \/ LecticLess(new_intent, P))

(* Once the grounded extension is settled; the set the search stands at has  *)
(* no conflict.                                                              *)
Exploring ==
    /\ ignored = Victims(base, Grounded)
    /\ new_intent = {} => c = {Grounded}
    /\ c = {} \/ \E S \in AdmissibleSets(base) : c = {S}
    /\ Candidates(first_candidate)
    /\ pc = "search" => ConflictFreeIn(base, current) /\ \A b \in current : b <= i
    /\ pc = "check" => ConflictFreeIn(base, new_intent) /\ new_intent # {}
    /\ PreferredSought

PreferredInv ==
    /\ attacks = base
    /\ current \in SUBSET Arg
    /\ new_intent \in SUBSET Arg
    /\ i \in -1 .. N-1
    /\ IF pc = "ignore" THEN Settling ELSE Exploring

LEMMA PreferredInitInv ==
    ASSUME base \in Framework, attacks = base, Preferred!Init
    PROVE  PreferredInv
<1>1. /\ first_candidate = <<>> /\ new_intent = {} /\ c = {{}} /\ ignored = {}
      /\ pc = "ignore" /\ current = {} /\ i = -1
    BY DEF Preferred!Init
<1>2. Victims(base, {}) = {}
    BY DEF Victims, SetAttacksArg
<1>3. Settling
    BY <1>1, <1>2 DEF Settling
<1> QED
    BY <1>1, <1>3, NAssumption DEF PreferredInv

LEMMA AddIgnoreInv ==
    ASSUME base \in Framework, PreferredInv, Preferred!AddIgnore, UNCHANGED base
    PROVE  PreferredInv'
<1>1. attacks = base /\ Settling /\ current \in SUBSET Arg /\ i \in -1 .. N-1
    BY DEF PreferredInv, Preferred!AddIgnore
<1>2. PICK M \in SUBSET Arg :
          /\ c' = {M} /\ ignored' = Victims(base, M)
          /\ M \subseteq AttackedFrom(base, ignored')
          /\ first_candidate' = <<>> /\ new_intent' = {} /\ attacks' = attacks
          /\ \/ /\ UNCHANGED <<current, i, pc>> /\ pc = "ignore"
                /\ M \subseteq Grounded
             \/ /\ current' = M /\ i' = N - 1 /\ pc' = "search"
                /\ M = Grounded
    BY <1>1, AddIgnoreStep
<1>3. Grounded' = Grounded
    BY DEF Grounded
<1>4. CASE UNCHANGED <<current, i, pc>> /\ pc = "ignore"
            /\ M \subseteq Grounded
    <2>1. Settling'
        BY <1>2, <1>3, <1>4 DEF Settling
    <2> QED
        BY <1>1, <1>2, <1>4, <2>1 DEF PreferredInv
<1>5. CASE current' = M /\ i' = N - 1 /\ pc' = "search" /\ M = Grounded
    <2>1. ConflictFreeIn(base, M) /\ M \in AdmissibleSets(base)
        <3>1. CountersAttackers(base, M)
            <4> SUFFICES ASSUME NEW a \in Arg, ArgAttacksSet(base, a, M)
                         PROVE  SetAttacksArg(base, M, a)
                BY DEF CountersAttackers
            <4>1. PICK b \in M : b \in base[a]
                BY DEF ArgAttacksSet
            <4> QED
                BY <1>2, <4>1 DEF AttackedFrom, Victims
        <3> QED
            BY <1>5, <3>1, GroundedFacts, CounteringAdmissible
    <2>2. ASSUME NEW P \in PreferredExtensions(base)
          PROVE  c' = {P} \/ Ahead(M, N-1, P)
        <3>1. P \in SUBSET Arg /\ M \subseteq P
            BY <1>5, PreferredComplete, ExtensionSets DEF Grounded
        <3>2. ~LecticLess(P, M)
            BY <3>1 DEF LecticLess
        <3> QED
            BY <1>2, <3>1, <3>2, LecticTotal, AheadOfAll
    <2>3. Candidates(<<>>)
        BY DEF Candidates, Members
    <2>4. \A b \in M : b <= N-1
        BY NAssumption DEF Arg
    <2>5. Exploring'
        BY <1>2, <1>3, <1>5, <2>1, <2>2, <2>3, <2>4
        DEF Exploring, PreferredSought, Candidates, Members
    <2> QED
        BY <1>1, <1>2, <1>5, <2>5, NAssumption DEF PreferredInv
<1> QED
    BY <1>2, <1>4, <1>5

(* What the search uses of a preferred extension.                            *)
LEMMA PreferredFacts ==
    ASSUME base \in Framework, NEW P \in PreferredExtensions(base)
    PROVE  /\ P \in SUBSET Arg
           /\ \A a, b \in P : b \notin base[a]
           /\ Victims(base, Grounded) \cap P = {}
           /\ \A X \in SUBSET P : AttackedLike(base, X) \subseteq P
           /\ \A S \in AdmissibleSets(base) : P \subseteq S => S = P
<1>1. P \in SUBSET Arg /\ P \in CompleteExtensions(base)
    BY PreferredComplete, ExtensionSets
<1>2. \A a, b \in P : b \notin base[a]
    BY <1>1, ExtensionSets, CompleteFacts
<1>3. Victims(base, Grounded) \cap P = {}
    BY <1>1, <1>2 DEF Grounded, Victims, SetAttacksArg
<1>4. \A X \in SUBSET P : AttackedLike(base, X) \subseteq P
    BY <1>1, CompleteClosed
<1>5. \A S \in AdmissibleSets(base) : P \subseteq S => S = P
    BY ExtensionSets
<1> QED
    BY <1>1, <1>2, <1>3, <1>4, <1>5

(* Passing an index leaves the search below it, with everything above in     *)
(* place.                                                                    *)
LEMMA PreferredPass ==
    ASSUME base \in Framework, PreferredInv, pc = "search", i \in Arg,
           current' = current \ {i}, i' = i - 1, new_intent' \in SUBSET Arg,
           new_intent' = new_intent \/ new_intent' # {},
           UNCHANGED <<base, attacks, ignored, c, first_candidate, pc>>,
           \A P \in PreferredExtensions(base) :
                ~(i \in P /\ i \notin current /\ SameBelow(current, P, i))
    PROVE  PreferredInv'
<1>1. Exploring /\ current \in SUBSET Arg /\ attacks = base
    BY DEF PreferredInv
<1>2. PreferredSought'
    <2> SUFFICES ASSUME NEW P \in PreferredExtensions(base),
                        P \notin Members(first_candidate), c # {P}
                 PROVE  Ahead(current', i', P)
        BY DEF PreferredSought, Members
    <2>1. P \in SUBSET Arg /\ Ahead(current, i, P)
        BY <1>1, PreferredFacts DEF Exploring, PreferredSought
    <2> QED
        BY <1>1, <2>1, AheadStep
<1>3. ConflictFreeIn(base, current')
    BY <1>1 DEF Exploring, ConflictFreeIn
<1>4. \A b \in current' : b <= i'
    BY <1>1, NAssumption DEF Exploring, Arg
<1>5. Exploring'
    BY <1>1, <1>2, <1>3, <1>4 DEF Exploring, Candidates, Members, Grounded
<1>6. i' \in -1 .. N-1
    BY NAssumption DEF Arg
<1> QED
    BY <1>1, <1>5, <1>6 DEF PreferredInv

LEMMA PreferredSearching ==
    ASSUME PreferredInv, Preferred!Searching
    PROVE  /\ pc = "search" /\ i \in Arg /\ attacks = base /\ Exploring
           /\ current \in SUBSET Arg /\ new_intent \in SUBSET Arg
           /\ \A b \in current : b \in Arg /\ b <= i
           /\ ConflictFreeIn(base, current)
BY NAssumption DEF PreferredInv, Exploring, Preferred!Searching, Arg

LEMMA PreferredDropInv ==
    ASSUME base \in Framework, PreferredInv, Preferred!Drop, UNCHANGED base
    PROVE  PreferredInv'
<1>1. pc = "search" /\ i \in Arg /\ i \in current /\ new_intent \in SUBSET Arg
    BY PreferredSearching DEF Preferred!Drop
<1> QED
    BY <1>1, PreferredPass DEF Preferred!Drop

(* A preferred extension that begins like current with i holds current.      *)
LEMMA PreferredBegins ==
    ASSUME base \in Framework, PreferredInv, Preferred!Searching, i \notin current,
           NEW P \in PreferredExtensions(base), i \in P, SameBelow(current, P, i)
    PROVE  /\ current \cup {i} \subseteq P
           /\ AttackedLike(base, current \cup {i}) \subseteq P
<1>1. \A b \in current : b \in Arg /\ b < i
    BY PreferredSearching, NAssumption DEF Arg
<1>2. current \cup {i} \subseteq P
    BY <1>1 DEF SameBelow
<1> QED
    BY <1>2, PreferredFacts

LEMMA PreferredSkipInv ==
    ASSUME base \in Framework, PreferredInv, Preferred!Skip, UNCHANGED base
    PROVE  PreferredInv'
<1>1. /\ Preferred!Searching /\ i \notin current
      /\ i \in ignored \/ Preferred!InConflict(attacks, current, i)
      /\ i' = i - 1
      /\ UNCHANGED <<attacks, ignored, current, new_intent, c, first_candidate, pc>>
    BY DEF Preferred!Skip
<1>2. /\ pc = "search" /\ i \in Arg /\ attacks = base /\ Exploring
      /\ current \in SUBSET Arg /\ new_intent \in SUBSET Arg
    BY <1>1, PreferredSearching
<1>3. ASSUME NEW P \in PreferredExtensions(base), i \in P, SameBelow(current, P, i)
      PROVE  FALSE
    <2>1. /\ current \cup {i} \subseteq P
          /\ \A a, b \in P : b \notin base[a]
          /\ Victims(base, Grounded) \cap P = {}
        BY <1>1, <1>3, PreferredBegins, PreferredFacts
    <2>2. CASE i \in ignored
        BY <1>2, <1>3, <2>1, <2>2 DEF Exploring
    <2>3. CASE Preferred!InConflict(attacks, current, i)
        BY <1>2, <2>1, <2>3
        DEF Preferred!InConflict, Preferred!ArgAttacksArg, Preferred!ArgAttacksSet,
            Preferred!SetAttacksArg
    <2> QED
        BY <1>1, <2>2, <2>3
<1>4. current' = current \ {i}
    BY <1>1
<1> QED
    BY <1>1, <1>2, <1>3, <1>4, PreferredPass

LEMMA PreferredCloseInv ==
    ASSUME base \in Framework, PreferredInv, Preferred!Close, UNCHANGED base
    PROVE  PreferredInv'
<1> DEFINE X == current \cup {i}
           next == AttackedLike(base, X)
           accepted == /\ \A b \in next \ current : b >= i
                       /\ \A b \in next : b > i => ~ArgAttacksSet(base, b, next)
<1>1. /\ Preferred!Searching /\ i \notin current
      /\ pc = "search" /\ i \in Arg /\ attacks = base /\ Exploring
      /\ current \in SUBSET Arg
      /\ \A b \in current : b \in Arg /\ b <= i
      /\ ConflictFreeIn(base, current)
    BY PreferredSearching DEF Preferred!Close
<1>2. X \in SUBSET Arg /\ next \in SUBSET Arg /\ X \subseteq next
    BY <1>1 DEF AttackedLike, ArgAttacksSet
<1>3. new_intent' = next
    BY <1>1, <1>2, PreferredArrows DEF Preferred!Close
<1>4. /\ i \notin base[i]
      /\ \A b \in current : b \notin base[i] /\ i \notin base[b]
    BY <1>1
    DEF Preferred!Close, Preferred!InConflict, Preferred!ArgAttacksArg,
        Preferred!ArgAttacksSet, Preferred!SetAttacksArg
<1>5. /\ IF accepted THEN pc' = "check" /\ i' = i ELSE pc' = pc /\ i' = i - 1
      /\ UNCHANGED <<attacks, ignored, current, c, first_candidate>>
    BY <1>1, <1>3, PreferredOperators
    DEF Preferred!Close, Preferred!Canonical, Preferred!ConflictAbove
<1>6. CASE ~accepted
    <2>1. ASSUME NEW P \in PreferredExtensions(base), i \in P, SameBelow(current, P, i)
          PROVE  FALSE
        <3>1. next \subseteq P /\ \A a, b \in P : b \notin base[a]
            BY <1>1, <2>1, PreferredBegins, PreferredFacts
        <3>2. \A b \in next : ~ArgAttacksSet(base, b, next)
            BY <3>1 DEF ArgAttacksSet
        <3>3. PICK b \in next \ current : ~(b >= i)
            BY <1>6, <3>2
        <3> HIDE DEF next
        <3>4. b \in Arg /\ b \in P
            BY <1>2, <3>1, <3>3
        <3>5. b < i
            BY <1>1, <3>3, <3>4, NAssumption DEF Arg
        <3> QED
            BY <2>1, <3>3, <3>4, <3>5 DEF SameBelow
    <2>2. current' = current \ {i} /\ i' = i - 1 /\ pc' = pc
        BY <1>1, <1>5, <1>6
    <2>3. new_intent' \in SUBSET Arg /\ new_intent' # {}
        BY <1>2, <1>3
    <2> QED
        BY <1>1, <1>5, <2>1, <2>2, <2>3, PreferredPass
<1>7. CASE accepted
    <2>1. pc' = "check" /\ i' = i
        BY <1>5, <1>7
    <2>2. ConflictFreeIn(base, next)
        <3> SUFFICES ASSUME NEW a \in next, NEW b \in next, b \in base[a]
                     PROVE  FALSE
            BY DEF ConflictFreeIn
        <3>1. a \in Arg /\ b \in Arg /\ ~(a > i)
            BY <1>2, <1>7 DEF ArgAttacksSet
        <3>2. a \in X
            BY <1>1, <1>7, <3>1, NAssumption DEF Arg
        <3>3. ArgAttacksSet(base, a, X)
            BY <3>1 DEF AttackedLike
        <3> QED
            BY <1>1, <1>4, <3>2, <3>3 DEF ArgAttacksSet, ConflictFreeIn
    <2>3. PreferredSought'
        <3> SUFFICES ASSUME NEW P \in PreferredExtensions(base),
                            P \notin Members(first_candidate), c # {P}
                     PROVE  P = next \/ LecticLess(next, P)
            BY <1>3, <1>5, <2>1 DEF PreferredSought, Members
        <3>1. P \in SUBSET Arg /\ Ahead(current, i, P)
            BY <1>1, PreferredFacts DEF Exploring, PreferredSought
        <3>2. current \subseteq next /\ \A b \in next \ current : b >= i
            BY <1>2, <1>7
        <3>3. i \in P /\ i \notin current /\ SameBelow(current, P, i) => next \subseteq P
            BY <1>1, PreferredBegins
        <3> HIDE DEF next
        <3> QED
            BY <1>1, <1>2, <3>1, <3>2, <3>3, AcceptedOrAbove
    <2>4. next # {}
        BY <1>2
    <2>5. Exploring'
        BY <1>1, <1>3, <1>5, <2>1, <2>2, <2>3, <2>4
        DEF Exploring, Candidates, Members, Grounded
    <2> QED
        BY <1>1, <1>2, <1>3, <1>5, <2>1, <2>5, NAssumption DEF PreferredInv, Arg
<1> QED
    BY <1>6, <1>7

LEMMA PreferredChecking ==
    ASSUME PreferredInv, pc = "check"
    PROVE  /\ attacks = base /\ Exploring
           /\ new_intent \in SUBSET Arg /\ new_intent # {}
           /\ ConflictFreeIn(base, new_intent)
BY DEF PreferredInv, Exploring

LEMMA StayOnBranchInv ==
    ASSUME base \in Framework, PreferredInv, Preferred!StayOnBranch, UNCHANGED base
    PROVE  PreferredInv'
<1>1. /\ pc = "check" /\ Preferred!SameBranch
      /\ c' = IF Preferred!IsAdmissible(attacks, new_intent) THEN {new_intent} ELSE c
      /\ current' = new_intent /\ i' = N - 1 /\ pc' = "search"
      /\ UNCHANGED <<attacks, ignored, new_intent, first_candidate>>
    BY DEF Preferred!StayOnBranch, Preferred!EnterSearch
<1>2. /\ attacks = base /\ Exploring
      /\ new_intent \in SUBSET Arg /\ new_intent # {}
      /\ ConflictFreeIn(base, new_intent)
    BY <1>1, PreferredChecking
<1>3. c' = IF new_intent \in AdmissibleSets(base) THEN {new_intent} ELSE c
    BY <1>1, <1>2, PreferredArrows, CounteringAdmissible
<1>4. PreferredSought'
    <2> SUFFICES ASSUME NEW P \in PreferredExtensions(base),
                        P \notin Members(first_candidate)
                 PROVE  c' = {P} \/ Ahead(new_intent, N-1, P)
        BY <1>1 DEF PreferredSought, Members
    <2>1. P \in SUBSET Arg /\ P \in AdmissibleSets(base)
        BY PreferredComplete
    <2>2. CASE c = {P}
        <3>1. P \subseteq new_intent
            BY <1>1, <2>2 DEF Preferred!SameBranch
        <3> QED
            BY <1>3, <2>2, <3>1, PreferredFacts
    <2>3. CASE P = new_intent
        BY <1>3, <2>1, <2>3
    <2>4. CASE LecticLess(new_intent, P)
        BY <1>2, <2>1, <2>4, AheadOfAll
    <2> QED
        BY <1>1, <1>2, <2>2, <2>3, <2>4 DEF Exploring, PreferredSought
<1>5. \A b \in new_intent : b <= N-1
    BY <1>2, NAssumption DEF Arg
<1>6. Exploring'
    BY <1>1, <1>2, <1>3, <1>4, <1>5 DEF Exploring, Candidates, Members, Grounded
<1> QED
    BY <1>1, <1>2, <1>6, NAssumption DEF PreferredInv

LEMMA LeaveBranchInv ==
    ASSUME base \in Framework, PreferredInv, Preferred!LeaveBranch, UNCHANGED base
    PROVE  PreferredInv'
<1>1. PICK S \in c :
          /\ ~(S \subseteq new_intent)
          /\ first_candidate' = Preferred!AddCandidate(first_candidate, S)
    BY DEF Preferred!LeaveBranch
<1>2. /\ pc = "check"
      /\ c' = IF Preferred!IsAdmissible(attacks, new_intent) THEN {new_intent} ELSE {}
      /\ current' = new_intent /\ i' = N - 1 /\ pc' = "search"
      /\ UNCHANGED <<attacks, ignored, new_intent>>
    BY DEF Preferred!LeaveBranch, Preferred!EnterSearch
<1>3. /\ attacks = base /\ Exploring
      /\ new_intent \in SUBSET Arg /\ new_intent # {}
      /\ ConflictFreeIn(base, new_intent)
    BY <1>2, PreferredChecking
<1>4. c' = IF new_intent \in AdmissibleSets(base) THEN {new_intent} ELSE {}
    BY <1>2, <1>3, PreferredArrows, CounteringAdmissible
<1>5. S \in AdmissibleSets(base) /\ c = {S} /\ Candidates(first_candidate)
    BY <1>1, <1>3 DEF Exploring
<1>6. /\ Candidates(first_candidate')
      /\ \A P \in PreferredExtensions(base) :
            P \in Members(first_candidate) \cup {S} => P \in Members(first_candidate')
    BY <1>1, <1>5, AddCandidateFacts
<1>7. PreferredSought'
    <2> SUFFICES ASSUME NEW P \in PreferredExtensions(base),
                        P \notin Members(first_candidate')
                 PROVE  c' = {P} \/ Ahead(new_intent, N-1, P)
        BY <1>2 DEF PreferredSought, Members
    <2>1. P \in SUBSET Arg /\ P \in AdmissibleSets(base)
        BY PreferredComplete
    <2>2. P \notin Members(first_candidate) /\ c # {P}
        BY <1>5, <1>6
    <2>3. P = new_intent \/ LecticLess(new_intent, P)
        BY <1>2, <1>3, <2>2 DEF Exploring, PreferredSought
    <2> QED
        BY <1>3, <1>4, <2>1, <2>3, AheadOfAll
<1>8. \A b \in new_intent : b <= N-1
    BY <1>3, NAssumption DEF Arg
<1>9. Exploring'
    BY <1>2, <1>3, <1>4, <1>6, <1>7, <1>8 DEF Exploring, Candidates, Members, Grounded
<1> QED
    BY <1>2, <1>3, <1>9, NAssumption DEF PreferredInv

LEMMA PreferredFinishInv ==
    ASSUME base \in Framework, PreferredInv, Preferred!Finish, UNCHANGED base
    PROVE  PreferredInv'
<1>1. /\ pc = "search" /\ i < 0 /\ pc' = "listed"
      /\ first_candidate' = IF c = {} THEN first_candidate
                            ELSE Preferred!AddCandidate(first_candidate, Preferred!Mandatory)
      /\ UNCHANGED <<attacks, ignored, current, new_intent, i, c>>
    BY DEF Preferred!Finish
<1>2. Exploring
    BY <1>1 DEF PreferredInv
<1>3. /\ Candidates(first_candidate')
      /\ \A P \in PreferredExtensions(base) :
            P \in Members(first_candidate) \/ c = {P} => P \in Members(first_candidate')
    <2>1. CASE c = {}
        BY <1>1, <1>2, <2>1 DEF Exploring
    <2>2. CASE c # {}
        <3>1. PICK S \in AdmissibleSets(base) : c = {S}
            BY <1>2, <2>2 DEF Exploring
        <3>2. Preferred!Mandatory = S
            BY <3>1 DEF Preferred!Mandatory
        <3>3. Candidates(first_candidate)
            BY <1>2 DEF Exploring
        <3>4. \A P : c = {P} => P = S
            BY <3>1
        <3> QED
            BY <1>1, <2>2, <3>2, <3>3, <3>4, AddCandidateFacts
    <2> QED
        BY <2>1, <2>2
<1>4. \A P : ~Ahead(current, i, P)
    BY <1>1, NAssumption DEF Ahead, Arg, PreferredInv
<1>5. PreferredSought'
    BY <1>1, <1>2, <1>3, <1>4 DEF Exploring, PreferredSought, Members
<1>6. Exploring'
    BY <1>1, <1>2, <1>3, <1>5 DEF Exploring, Candidates, Members, Grounded
<1> QED
    BY <1>1, <1>6 DEF PreferredInv

LEMMA PreferredStepInv ==
    ASSUME base \in Framework, PreferredInv, Preferred!PreferredStep, UNCHANGED base
    PROVE  PreferredInv'
BY AddIgnoreInv, PreferredDropInv, PreferredSkipInv, PreferredCloseInv, StayOnBranchInv,
   LeaveBranchInv, PreferredFinishInv
DEF Preferred!PreferredStep

(* When the search is over, the candidates are the preferred extensions.     *)
LEMMA PreferredListed ==
    ASSUME base \in Framework, PreferredInv, pc \notin {"ignore", "search", "check"}
    PROVE  /\ Members(first_candidate) = PreferredExtensions(base)
           /\ first_candidate \in Seq(SUBSET Arg)
           /\ \A m, n \in DOMAIN first_candidate :
                first_candidate[m] = first_candidate[n] => m = n
<1>1. Exploring /\ Candidates(first_candidate)
    BY DEF PreferredInv, Exploring
<1>2. \A P \in PreferredExtensions(base) : P \in Members(first_candidate)
    BY <1>1 DEF Exploring, PreferredSought
<1>3. ASSUME NEW S \in Members(first_candidate)
      PROVE  S \in PreferredExtensions(base)
    <2>1. S \in AdmissibleSets(base)
        BY <1>1 DEF Candidates
    <2>2. PICK P \in PreferredExtensions(base) : S \subseteq P
        BY <2>1, PreferredAbove
    <2>3. S = P
        BY <1>1, <1>2, <2>2 DEF Candidates, Members
    <2> QED
        BY <2>2, <2>3
<1> QED
    BY <1>1, <1>2, <1>3 DEF Candidates

(* While SE-ID shrinks the intersection: every admissible set in all         *)
(* preferred extensions is still within it.                                  *)
Core == {T \in AdmissibleSets(base) : \A P \in PreferredExtensions(base) : T \subseteq P}

Shrinking ==
    /\ ideal \in SUBSET Arg
    /\ \A P \in PreferredExtensions(base) : ideal \subseteq P
    /\ \A T \in Core : T \subseteq ideal
    /\ attacked = Victims(base, ideal)
    /\ attackers = {a \in Arg : ArgAttacksSet(base, a, ideal)}
    /\ capacity \in Nat /\ Cardinality(attackers) <= capacity

IdealInv ==
    /\ PreferredInv
    /\ pc = "shrink" => Shrinking
    /\ pc = "done" => Ideal(base, ideal)

LEMMA PreferredSettles ==
    ASSUME base \in Framework, PreferredInv, pc \in {"listed", "shrink", "done"},
           pc' \in {"shrink", "done"},
           UNCHANGED <<base, attacks, ignored, current, new_intent, i, c, first_candidate>>
    PROVE  PreferredInv'
BY DEF PreferredInv, Exploring, PreferredSought, Candidates, Members, Grounded

LEMMA IntersectInv ==
    ASSUME base \in Framework, IdealInv, Preferred!Intersect, UNCHANGED base
    PROVE  IdealInv'
<1> DEFINE all == {a \in Arg : \A P \in PreferredExtensions(base) : a \in P}
<1>1. /\ pc = "listed" /\ attacks = base
      /\ Members(first_candidate) = PreferredExtensions(base)
    BY PreferredListed DEF Preferred!Intersect, IdealInv, PreferredInv
<1>2. ideal' = all
    BY <1>1, PreferredOperators DEF Preferred!Intersect, Preferred!Elements, Members
<1>3. \A T \in Core : T \subseteq all
    BY ExtensionSets DEF Core
<1>4. pc' \in {"shrink", "done"} /\ PreferredInv'
    <2>1. pc' \in {"shrink", "done"}
        BY DEF Preferred!Intersect
    <2> QED
        BY <1>1, <2>1, PreferredSettles DEF Preferred!Intersect, IdealInv
<1>5. CASE all = {}
    <2>1. pc' = "done"
        BY <1>2, <1>5 DEF Preferred!Intersect
    <2>2. {} \in Core
        BY EmptyAdmissible DEF Core
    <2>3. Ideal(base, all)
        BY <1>3, <1>5, <2>2 DEF Ideal, Core
    <2> QED
        BY <1>2, <1>4, <2>1, <2>3 DEF IdealInv
<1>6. CASE all # {}
    <2> DEFINE hostile == {a \in Arg : ArgAttacksSet(base, a, all)}
    <2>1. /\ pc' = "shrink"
          /\ attacked' = Victims(base, all)
          /\ attackers' = hostile
          /\ capacity' = N - Cardinality(all)
        BY <1>1, <1>2, <1>6, PreferredOperators DEF Preferred!Intersect, Preferred!Attackers
    <2>2. PICK P \in PreferredExtensions(base) : {} \subseteq P
        BY EmptyAdmissible, PreferredAbove
    <2>3. hostile \subseteq Arg \ all
        BY <2>2, PreferredFacts DEF ArgAttacksSet
    <2>4. N - Cardinality(all) \in Nat /\ Cardinality(hostile) <= N - Cardinality(all)
        <3>1. all \in SUBSET Arg /\ Arg \ all \in SUBSET Arg /\ Arg \in SUBSET Arg
            OBVIOUS
        <3> HIDE DEF all, hostile
        <3>2. /\ Cardinality(Arg \ all) \in Nat /\ IsFiniteSet(Arg)
              /\ Cardinality(hostile) <= Cardinality(Arg \ all)
            BY <2>3, <3>1, ArgFinite
        <3>3. Cardinality(Arg \ all) = Cardinality(Arg) - Cardinality(Arg \cap all)
            BY <3>2, FS_Difference
        <3>4. Arg \cap all = all
            BY <3>1
        <3> QED
            BY <3>2, <3>3, <3>4, ArgSize
    <2>5. \A Q \in PreferredExtensions(base) : all \subseteq Q
        OBVIOUS
    <2>6. Shrinking'
        BY <1>2, <1>3, <2>1, <2>4, <2>5 DEF Shrinking, Core
    <2> QED
        BY <1>4, <2>1, <2>6 DEF IdealInv
<1> QED
    BY <1>5, <1>6

(* No admissible set within the intersection holds a victim of an attacker   *)
(* that the intersection does not attack back.                               *)
LEMMA ShrinkInv ==
    ASSUME base \in Framework, IdealInv, Preferred!Shrink, UNCHANGED base
    PROVE  IdealInv'
<1>1. pc = "shrink" /\ pc' = "shrink" /\ attacks = base /\ Shrinking /\ PreferredInv
    BY DEF Preferred!Shrink, Preferred!vars, IdealInv, PreferredInv
<1>2. PICK a \in attackers \ attacked : ideal' = ideal \ base[a]
    BY <1>1 DEF Preferred!Shrink
<1>3. /\ attacked' = Victims(base, ideal')
      /\ attackers' = {b \in attackers : ArgAttacksSet(base, b, ideal')}
      /\ capacity' = capacity
    BY <1>1, PreferredOperators DEF Preferred!Shrink
<1>4. ASSUME NEW T \in Core
      PROVE  T \subseteq ideal'
    <2> SUFFICES ASSUME NEW t \in T, t \in base[a]
                 PROVE  FALSE
        BY <1>1, <1>2 DEF Shrinking
    <2>1. a \in Arg /\ T \subseteq ideal /\ a \notin Victims(base, ideal)
        BY <1>1, <1>2 DEF Shrinking
    <2>2. PICK d \in T : a \in base[d]
        BY <2>1, ExtensionSets DEF Core, Admissible, Defended, Framework
    <2> QED
        BY <2>1, <2>2 DEF Victims, SetAttacksArg, Framework
<1>5. attackers' = {b \in Arg : ArgAttacksSet(base, b, ideal')}
    BY <1>1, <1>2, <1>3 DEF Shrinking, ArgAttacksSet
<1>6. Cardinality(attackers') <= capacity
    <2>1. attackers \in SUBSET Arg /\ attackers' \in SUBSET attackers
        BY <1>1, <1>3 DEF Shrinking
    <2>2. /\ Cardinality(attackers') <= Cardinality(attackers)
          /\ Cardinality(attackers) \in Nat /\ Cardinality(attackers') \in Nat
        BY <2>1, ArgFinite
    <2> QED
        BY <1>1, <2>2 DEF Shrinking
<1>7. Shrinking'
    BY <1>1, <1>2, <1>3, <1>4, <1>5, <1>6 DEF Shrinking, Core
<1>8. PreferredInv'
    BY <1>1, PreferredSettles DEF Preferred!Shrink, Preferred!vars
<1> QED
    BY <1>1, <1>7, <1>8 DEF IdealInv

LEMMA IdealReturnInv ==
    ASSUME base \in Framework, IdealInv, Preferred!Return, UNCHANGED base
    PROVE  IdealInv'
<1>1. /\ pc = "shrink" /\ pc' = "done" /\ attackers \subseteq attacked /\ ideal' = ideal
      /\ Shrinking /\ PreferredInv
    BY DEF Preferred!Return, Preferred!idealVars, IdealInv
<1>2. PICK P \in PreferredExtensions(base) : {} \subseteq P
    BY EmptyAdmissible, PreferredAbove
<1>3. ConflictFreeIn(base, ideal)
    BY <1>1, <1>2, PreferredFacts DEF Shrinking, ConflictFreeIn
<1>4. CountersAttackers(base, ideal)
    BY <1>1 DEF Shrinking, CountersAttackers, Victims
<1>5. ideal \in Core
    BY <1>1, <1>3, <1>4, CounteringAdmissible DEF Core, Shrinking
<1>6. Ideal(base, ideal)
    BY <1>1, <1>5 DEF Ideal, Core, Shrinking
<1>7. PreferredInv'
    BY <1>1, PreferredSettles DEF Preferred!Return
<1> QED
    BY <1>1, <1>6, <1>7 DEF IdealInv

LEMMA IdealNextInv ==
    ASSUME base \in Framework, IdealInv, Preferred!IdealNext, UNCHANGED base
    PROVE  IdealInv'
<1>1. CASE Preferred!Preferred
    <2>1. pc' \in {"ignore", "search", "check", "listed"}
        BY <1>1
        DEF Preferred!Preferred, Preferred!PreferredStep, Preferred!AddIgnore,
            Preferred!EnterSearch, Preferred!Drop, Preferred!Skip, Preferred!Close,
            Preferred!Searching, Preferred!StayOnBranch, Preferred!LeaveBranch,
            Preferred!Finish
    <2>2. PreferredInv'
        BY <1>1, PreferredStepInv DEF Preferred!Preferred, IdealInv
    <2> QED
        BY <2>1, <2>2 DEF IdealInv
<1>2. CASE Preferred!Returned
    <2>1. /\ pc = "done"
          /\ UNCHANGED <<pc, attacks, ignored, current, new_intent, i, c, first_candidate, ideal>>
        BY <1>2 DEF Preferred!Returned, Preferred!vars, Preferred!idealVars
    <2>2. PreferredInv'
        BY <2>1, PreferredSettles DEF IdealInv
    <2> QED
        BY <2>1, <2>2 DEF IdealInv
<1> QED
    BY <1>1, <1>2, IntersectInv, ShrinkInv, IdealReturnInv DEF Preferred!IdealNext

PreferredRun ==
    prob \in {"EE-PR", "SE-ID"} =>
        /\ Running => IdealInv /\ printed = <<>>
        /\ prob = "EE-PR" =>
            /\ ~Running =>
                   Printing(order, PreferredExtensions(base), first_candidate, printed, TRUE)
            /\ pc = "exit" => first_candidate = <<>>
        /\ prob = "SE-ID" =>
            /\ pc = "print" => printed = <<>> /\ Ideal(base, ideal)
            /\ pc = "exit" => Len(printed) = 1 /\ Ideal(base, printed[1])

LEMMA PreferredCases ==
    ASSUME Settled, prob \in {"EE-PR", "SE-ID"}, [Next]_vars
    PROVE  /\ UNCHANGED mainVars
           /\ \/ Preferred!IdealNext /\ UNCHANGED printed
              \/ Return /\ pc = IF prob = "EE-PR" THEN "listed" ELSE "done"
              \/ PrintPreferred /\ prob = "EE-PR"
              \/ ListPrinted /\ prob = "EE-PR" /\ first_candidate = <<>>
              \/ PrintOne /\ prob = "SE-ID"
              \/ UNCHANGED vars
<1>1. alg # "cbo"
    BY ProblemsAssumption DEF Settled
<1>2. CASE Solve
    BY <1>1, <1>2 DEF Solve, Preferred!IdealNext
<1>3. CASE Return
    BY <1>3 DEF Return
<1>4. CASE PrintComplete
    BY <1>4 DEF PrintComplete
<1>5. CASE PrintPreferred
    BY <1>5 DEF PrintPreferred
<1>6. CASE ListPrinted
    BY <1>6 DEF ListPrinted
<1>7. CASE PrintOne
    BY <1>7 DEF PrintOne
<1>8. CASE Exited \/ UNCHANGED vars
    BY <1>8 DEF Exited, vars
<1> QED
    BY <1>2, <1>3, <1>4, <1>5, <1>6, <1>7, <1>8 DEF Next

LEMMA PreferredRunStep ==
    ASSUME Settled, PreferredRun, [Next]_vars
    PROVE  PreferredRun'
<1>1. UNCHANGED mainVars
    BY DEF Next, vars, mainVars, Solve, Return, PrintComplete, PrintPreferred,
           ListPrinted, PrintOne, Exited
<1>2. SUFFICES ASSUME prob \in {"EE-PR", "SE-ID"}
               PROVE  PreferredRun'
    BY <1>1 DEF PreferredRun, mainVars
<1>3. /\ base \in Framework /\ order \in [Arg -> Arg] /\ Permutation(order)
      /\ UNCHANGED <<prob, base, order>>
    BY <1>1 DEF Settled, mainVars
<1>4. CASE Preferred!IdealNext /\ UNCHANGED printed
    <2>1. Running /\ Running'
        BY <1>4
        DEF Running, Preferred!IdealNext, Preferred!Preferred, Preferred!PreferredStep,
            Preferred!AddIgnore, Preferred!EnterSearch, Preferred!Drop, Preferred!Skip,
            Preferred!Close, Preferred!Searching, Preferred!StayOnBranch,
            Preferred!LeaveBranch, Preferred!Finish, Preferred!Intersect, Preferred!Shrink,
            Preferred!Return, Preferred!Returned, Preferred!vars
    <2> QED
        BY <1>2, <1>3, <1>4, <2>1, IdealNextInv DEF PreferredRun, Running
<1>5. CASE Return /\ pc = IF prob = "EE-PR" THEN "listed" ELSE "done"
    <2>1. /\ pc' = "print" /\ IdealInv /\ printed = <<>>
          /\ UNCHANGED <<printed, first_candidate, ideal>>
        BY <1>2, <1>5 DEF Return, routineVars, preferredVars, idealVars, PreferredRun, Running
    <2>2. CASE prob = "EE-PR"
        <3>1. /\ Members(first_candidate) = PreferredExtensions(base)
              /\ first_candidate \in Seq(SUBSET Arg)
              /\ \A m, n \in DOMAIN first_candidate :
                    first_candidate[m] = first_candidate[n] => m = n
            BY <1>3, <1>5, <2>1, <2>2, PreferredListed DEF IdealInv
        <3>2. Printing(order, PreferredExtensions(base), first_candidate, printed, TRUE)
            BY <2>1, <3>1, NonePrinted
        <3> QED
            BY <1>3, <2>1, <2>2, <3>2 DEF PreferredRun, Running
    <2>3. CASE prob = "SE-ID"
        BY <1>3, <1>5, <2>1, <2>3 DEF PreferredRun, Running, IdealInv
    <2> QED
        BY <1>2, <2>2, <2>3
<1>6. CASE PrintPreferred /\ prob = "EE-PR"
    <2>1. /\ pc = "print" /\ pc' = pc /\ first_candidate # <<>>
          /\ printed' = Append(printed, MapIndices(Head(first_candidate), order))
          /\ first_candidate' = Tail(first_candidate)
          /\ Printing(order, PreferredExtensions(base), first_candidate, printed, TRUE)
        BY <1>2, <1>6 DEF PrintPreferred, Mapped, PreferredRun, Running
    <2>2. PreferredExtensions(base) \in SUBSET SUBSET Arg
        BY <1>3, PreferredComplete
    <2>3. Printing(order, PreferredExtensions(base), first_candidate', printed', TRUE)
        BY <1>3, <2>1, <2>2, PrintHead
    <2> QED
        BY <1>3, <1>6, <2>1, <2>3 DEF PreferredRun, Running
<1>7. CASE ListPrinted /\ prob = "EE-PR" /\ first_candidate = <<>>
    <2>1. pc = "print" /\ pc' = "exit" /\ UNCHANGED <<printed, first_candidate>>
        BY <1>7 DEF ListPrinted, routineVars, preferredVars
    <2> QED
        BY <1>3, <1>7, <2>1 DEF PreferredRun, Running
<1>8. CASE PrintOne /\ prob = "SE-ID"
    <2>1. pc = "print" /\ pc' = "exit" /\ printed' = Append(printed, ideal)
        BY <1>8 DEF PrintOne
    <2>2. printed = <<>> /\ Ideal(base, ideal)
        BY <1>8, <2>1 DEF PreferredRun
    <2>3. Len(printed') = 1 /\ printed'[1] = ideal
        BY <2>1, <2>2
    <2> QED
        BY <1>3, <1>8, <2>1, <2>2, <2>3 DEF PreferredRun, Running
<1>9. CASE UNCHANGED vars
    <2>1. UNCHANGED <<pc, printed, first_candidate, ideal, attacks, ignored, current,
                      new_intent, i, c, attacked, attackers, capacity>>
        BY <1>9 DEF vars, routineVars, preferredVars, idealVars
    <2>2. IdealInv => IdealInv'
        BY <1>3, <2>1
        DEF IdealInv, PreferredInv, Settling, Exploring, PreferredSought, Candidates,
            Members, Grounded, Shrinking, Core
    <2> QED
        BY <1>2, <1>3, <2>1, <2>2 DEF PreferredRun, Running
<1> QED
    BY <1>2, <1>4, <1>5, <1>6, <1>7, <1>8, <1>9, PreferredCases

-------------------------------------------------------------------------------
(* SE-PR, DC-PR and DS-PR.                                                   *)

LEMMA CboOperators ==
    ASSUME base \in Framework, NEW s, NEW a
    PROVE  /\ Cbo!ArgAttacksSet(base, a, s) <=> ArgAttacksSet(base, a, s)
           /\ Cbo!SetAttacksArg(base, s, a) <=> SetAttacksArg(base, s, a)
           /\ Cbo!ArgAttacksArg(base, a, s) <=> s \in base[a]
           /\ Cbo!IsConflictFree(base, s) <=> ConflictFreeIn(base, s)
           /\ Cbo!Victims(base, s) = Victims(base, s)
           /\ a \in Arg => Cbo!Transpose(base)[a] = {b \in Arg : a \in base[b]}
           /\ Cbo!Cardinality(s) = Cardinality(s)
           /\ Cbo!Arg = Arg
<1>1. /\ Cbo!ArgAttacksSet(base, a, s) <=> ArgAttacksSet(base, a, s)
      /\ Cbo!SetAttacksArg(base, s, a) <=> SetAttacksArg(base, s, a)
      /\ Cbo!ArgAttacksArg(base, a, s) <=> s \in base[a]
    BY DEF Cbo!ArgAttacksSet, ArgAttacksSet, Cbo!SetAttacksArg, SetAttacksArg,
           Cbo!ArgAttacksArg
<1>2. Cbo!IsConflictFree(base, s) <=> ConflictFreeIn(base, s)
    BY DEF Cbo!IsConflictFree, Cbo!ArgAttacksSet, ConflictFreeIn
<1>3. Cbo!Victims(base, s) = Victims(base, s)
    BY DEF Cbo!Victims, Victims, Cbo!SetAttacksArg, SetAttacksArg
<1>4. a \in Arg => Cbo!Transpose(base)[a] = {b \in Arg : a \in base[b]}
    BY DEF Cbo!Transpose, Framework
<1>5. Cbo!Arg = Arg
    BY DEF Cbo!Arg, Arg
<1>6. Cbo!Cardinality(s) = Cardinality(s)
    BY DEF Cbo!Cardinality, Cardinality
<1> QED
    BY <1>1, <1>2, <1>3, <1>4, <1>5, <1>6

Uncountered(s) == {a \in Arg : ArgAttacksSet(base, a, s) /\ ~SetAttacksArg(base, s, a)}

(* What a call for the argument a, or for none, starts with.                 *)
StartOf(a) == AttackedLike(base, IF a = N THEN {} ELSE {a})

LEMMA CboArrows ==
    ASSUME base \in Framework, NEW s \in SUBSET Arg
    PROVE  /\ Cbo!Closure(s) = AttackedLike(base, s)
           /\ Cbo!UnattackedAttackers(s) = Uncountered(s)
           /\ s \subseteq Cbo!UpArrow(Cbo!not_attacks, s) <=> ConflictFreeIn(base, s)
           /\ \A a \in Arg \cup {N} : Cbo!RootClosure(a) = StartOf(a)
<1> DEFINE com == Cbo!Complement(base)
<1>1. DOMAIN base = Arg
    BY DEF Framework
<1>2. /\ DOMAIN com = Arg
      /\ \A a, b \in Arg : b \in com[a] <=> b \notin base[a]
      /\ com = Cbo!not_attacks
    BY <1>1 DEF Cbo!Complement, Cbo!not_attacks
<1> HIDE DEF com
<1>3. \A t \in SUBSET Arg : \A a \in Arg : t \subseteq com[a] <=> ~ArgAttacksSet(base, a, t)
    BY <1>2 DEF ArgAttacksSet
<1>4. \A t \in SUBSET Arg : Cbo!DownUpArrow(com, t) = AttackedLike(base, t)
    BY <1>2, <1>3 DEF Cbo!DownUpArrow, AttackedLike
<1>5. \A t \in SUBSET Arg : Cbo!Closure(t) = AttackedLike(base, t)
    BY <1>2, <1>4 DEF Cbo!Closure
<1>6. /\ \A a \in Arg : a \in Cbo!UpArrow(com, s) <=> ~SetAttacksArg(base, s, a)
      /\ Cbo!UpArrow(com, s) \subseteq Arg
    BY <1>2 DEF Cbo!UpArrow, SetAttacksArg
<1>7. \A a \in Arg : a \in Cbo!DownArrow(com, s) <=> ~ArgAttacksSet(base, a, s)
    BY <1>2, <1>3 DEF Cbo!DownArrow
<1>8. Cbo!UnattackedAttackers(s) = Uncountered(s)
    BY <1>2, <1>6, <1>7 DEF Cbo!UnattackedAttackers, Uncountered
<1>9. s \subseteq Cbo!UpArrow(com, s) <=> ConflictFreeIn(base, s)
    BY <1>6 DEF ConflictFreeIn, SetAttacksArg
<1>10. ASSUME NEW a \in Arg \cup {N}
       PROVE  Cbo!RootClosure(a) = StartOf(a)
    <2>1. a # N => a \in Arg
        OBVIOUS
    <2> QED
        BY <1>5, <2>1 DEF Cbo!RootClosure, StartOf
<1> QED
    BY <1>2, <1>5, <1>8, <1>9, <1>10

(* The attacker to be countered next is one of them, and -1 if there is none.*)
LEMMA BestAttacker ==
    ASSUME base \in Framework, NEW s \in SUBSET Arg, NEW processed
    PROVE  LET best == Cbo!SelectBestAttacker(s, processed)
           IN  IF Uncountered(s) = {} THEN best = -1 ELSE best \in Uncountered(s)
<1> DEFINE open(a) == Cbo!Cardinality(Cbo!Transpose(base)[a] \ processed)
           all == Cbo!UnattackedAttackers(s)
           fits(a) == \A b \in all : open(a) < open(b) \/ (open(a) = open(b) /\ a <= b)
<1>1. /\ Cbo!SelectBestAttacker(s, processed)
            = IF all = {} THEN -1 ELSE CHOOSE a \in all : fits(a)
      /\ all = Uncountered(s)
    BY CboArrows DEF Cbo!SelectBestAttacker
<1>2. SUFFICES ASSUME all # {}
               PROVE  \E a \in all : fits(a)
    BY <1>1
<1>3. all \subseteq Arg /\ \A a \in all : open(a) \in Nat
    <2>1. \A a \in Arg : open(a) = Cardinality({b \in Arg : a \in base[b]} \ processed)
        BY CboOperators
    <2>2. \A a \in Arg : {b \in Arg : a \in base[b]} \ processed \in SUBSET Arg
        OBVIOUS
    <2> HIDE DEF open, all
    <2>3. \A a \in Arg : open(a) \in Nat
        BY <2>1, <2>2, ArgFinite
    <2> QED
        BY <1>1, <2>3 DEF Uncountered
<1> HIDE DEF open, all
<1>4. PICK least \in {open(a) : a \in all} :
          \A y \in {open(a) : a \in all} : ~ (<<y, least>> \in OpToRel(<, Nat))
    <2>1. {open(a) : a \in all} \in SUBSET Nat /\ {open(a) : a \in all} # {}
        BY <1>2, <1>3
    <2> QED
        BY <2>1, NatLessThanWellFounded, WFMin
<1>5. \A a \in all : ~(open(a) < least)
    BY <1>3, <1>4 DEF OpToRel
<1>6. PICK a \in {x \in all : open(x) = least} :
          \A b \in {x \in all : open(x) = least} : a <= b
    <2>1. {x \in all : open(x) = least} \subseteq Arg /\ {x \in all : open(x) = least} # {}
        BY <1>3
    <2> QED
        BY <2>1, LeastArgument
<1>7. ASSUME NEW b \in all
      PROVE  open(a) < open(b) \/ (open(a) = open(b) /\ a <= b)
    BY <1>3, <1>5, <1>6
<1> QED
    BY <1>6, <1>7

Frames == [current : SUBSET Arg, processed : SUBSET Arg, i : 0 .. N, attacker : -1 .. N-1]

(* g is a frame that f, or a frame called by f, has called.                  *)
Below(g, f) ==
    /\ f.i \in Arg \ f.current /\ f.i \in g.current
    /\ f.current \subseteq g.current

Called(f) == AttackedLike(base, f.current \cup {f.i})

Chain(stk, start) ==
    /\ stk \in Seq(Frames)
    /\ stk # <<>> => stk[Len(stk)].current = start
    /\ \A m, n \in DOMAIN stk :
          m < n => Below(stk[m], stk[n]) /\ (n = m+1 => stk[m].current = Called(stk[n]))

LEMMA CalledFacts ==
    ASSUME NEW f \in Frames, f.i \in Arg
    PROVE  /\ Called(f) \in SUBSET Arg
           /\ f.current \cup {f.i} \subseteq Called(f)
BY DEF Frames, Called, AttackedLike, ArgAttacksSet

LEMMA ChainPush ==
    ASSUME NEW stk, NEW start, Chain(stk, start), stk # <<>>, stk[1].i \in Arg \ stk[1].current,
           NEW f \in Frames, f.current = Called(stk[1])
    PROVE  Chain(<<f>> \o stk, start)
<1> DEFINE new == <<f>> \o stk
<1>1. stk \in Seq(Frames) /\ 1 \in DOMAIN stk /\ stk[1] \in Frames /\ DOMAIN stk = 1 .. Len(stk)
      /\ Len(stk) \in Nat
    BY Unstacked DEF Chain
<1>2. /\ new \in Seq(Frames) /\ new # <<>> /\ DOMAIN new = 1 .. Len(stk) + 1
      /\ Len(new) = Len(stk) + 1 /\ new[1] = f
      /\ \A n \in DOMAIN new : n # 1 => n-1 \in DOMAIN stk /\ new[n] = stk[n-1]
    BY <1>1, Stacked
<1> HIDE DEF new
<1>3. new[Len(new)].current = start
    <2>1. Len(new) \in DOMAIN new /\ Len(new) # 1 /\ Len(new) - 1 = Len(stk)
        BY <1>1, <1>2
    <2>2. new[Len(new)] = stk[Len(stk)]
        BY <1>2, <2>1
    <2> QED
        BY <2>2 DEF Chain
<1>4. Below(f, stk[1])
    <2>1. Called(stk[1]) \in SUBSET Arg /\ stk[1].current \cup {stk[1].i} \subseteq Called(stk[1])
        BY <1>1, CalledFacts
    <2> QED
        BY <2>1 DEF Below
<1>5. ASSUME NEW m \in DOMAIN new, NEW n \in DOMAIN new, m < n
      PROVE  Below(new[m], new[n]) /\ (n = m+1 => new[m].current = Called(new[n]))
    <2>1. m \in Int /\ n \in Int /\ n # 1 /\ n-1 \in DOMAIN stk /\ new[n] = stk[n-1]
        BY <1>2, <1>5
    <2>2. CASE m = 1
        <3>1. n-1 # 1 => Below(stk[1], stk[n-1])
            BY <1>1, <1>5, <2>1, <2>2 DEF Chain
        <3>2. Below(f, stk[n-1])
            <4>1. CASE n-1 = 1
                BY <1>4, <4>1
            <4>2. CASE n-1 # 1
                BY <1>4, <3>1, <4>2 DEF Below
            <4> QED
                BY <4>1, <4>2
        <3>3. n = m+1 => n-1 = 1
            BY <2>1, <2>2
        <3> QED
            BY <1>2, <2>1, <2>2, <3>2, <3>3
    <2>3. CASE m # 1
        <3>1. m-1 \in DOMAIN stk /\ new[m] = stk[m-1] /\ m-1 < n-1
            BY <1>2, <1>5, <2>1, <2>3
        <3>2. n = m+1 => n-1 = (m-1)+1
            BY <2>1
        <3> QED
            BY <2>1, <3>1, <3>2 DEF Chain
    <2> QED
        BY <2>2, <2>3
<1>6. Chain(new, start)
    BY <1>2, <1>3, <1>5 DEF Chain
<1> QED
    BY <1>6 DEF new

LEMMA ChainPop ==
    ASSUME NEW stk, NEW start, Chain(stk, start), stk # <<>>
    PROVE  /\ Chain(Tail(stk), start)
           /\ Tail(stk) # <<>> =>
                /\ Below(stk[1], Tail(stk)[1])
                /\ stk[1].current = Called(Tail(stk)[1])
           /\ Tail(stk) = <<>> => stk[1].current = start
<1> DEFINE new == Tail(stk)
<1>1. stk \in Seq(Frames) /\ DOMAIN stk = 1 .. Len(stk) /\ Len(stk) \in Nat
    BY DEF Chain
<1>2. /\ new \in Seq(Frames) /\ DOMAIN new = 1 .. Len(stk) - 1
      /\ Len(new) = Len(stk) - 1
      /\ \A n \in DOMAIN new : n+1 \in DOMAIN stk /\ new[n] = stk[n+1]
      /\ 1 \in DOMAIN stk
      /\ new # <<>> => Len(new) # 0
    BY <1>1, Unstacked
<1>3. new = <<>> => Len(stk) = 1
    BY <1>1, <1>2
<1> HIDE DEF new
<1>4. new # <<>> => new[Len(new)].current = start
    <2> SUFFICES ASSUME new # <<>>
                 PROVE  new[Len(new)].current = start
        OBVIOUS
    <2>1. Len(new) \in DOMAIN new /\ Len(new) + 1 = Len(stk)
        BY <1>1, <1>2
    <2>2. new[Len(new)] = stk[Len(stk)]
        BY <1>2, <2>1
    <2> QED
        BY <2>2 DEF Chain
<1>5. ASSUME NEW m \in DOMAIN new, NEW n \in DOMAIN new, m < n
      PROVE  Below(new[m], new[n]) /\ (n = m+1 => new[m].current = Called(new[n]))
    <2>1. /\ m+1 \in DOMAIN stk /\ new[m] = stk[m+1] /\ n+1 \in DOMAIN stk /\ new[n] = stk[n+1]
          /\ m+1 < n+1 /\ (n = m+1 => n+1 = (m+1)+1)
        BY <1>2, <1>5
    <2> QED
        BY <2>1 DEF Chain
<1>6. Chain(new, start)
    BY <1>2, <1>4, <1>5 DEF Chain
<1>7. ASSUME new # <<>>
      PROVE  Below(stk[1], new[1]) /\ stk[1].current = Called(new[1])
    <2>1. 1 \in DOMAIN new
        BY <1>1, <1>2, <1>7
    <2>2. new[1] = stk[2] /\ 2 \in DOMAIN stk
        BY <1>2, <2>1
    <2> QED
        BY <1>2, <2>2 DEF Chain
<1>8. new = <<>> => stk[1].current = start
    BY <1>3, <1>1 DEF Chain
<1> QED
    BY <1>6, <1>7, <1>8 DEF new

LEMMA ChainAdvance ==
    ASSUME NEW stk, NEW start, Chain(stk, start), stk # <<>>,
           NEW f \in Frames, f.current = stk[1].current
    PROVE  Chain(<<f>> \o Tail(stk), start)
<1> DEFINE new == <<f>> \o Tail(stk)
<1>1. /\ new \in Seq(Frames) /\ new # <<>>
      /\ DOMAIN new = DOMAIN stk /\ Len(new) = Len(stk)
      /\ new[1] = f
      /\ \A n \in DOMAIN stk : n # 1 => new[n] = stk[n]
    BY TopReplaced DEF Chain
<1> HIDE DEF new
<1>2. /\ stk \in Seq(Frames) /\ DOMAIN stk = 1 .. Len(stk) /\ Len(stk) \in DOMAIN stk
    BY DEF Chain
<1>3. \A n \in DOMAIN stk : new[n].current = stk[n].current
    BY <1>1
<1>4. new[Len(new)].current = start
    BY <1>1, <1>2, <1>3 DEF Chain
<1>5. ASSUME NEW m \in DOMAIN stk, NEW n \in DOMAIN stk, m < n
      PROVE  Below(new[m], new[n]) /\ (n = m+1 => new[m].current = Called(new[n]))
    <2>1. n # 1 /\ new[n] = stk[n]
        BY <1>1, <1>2, <1>5
    <2>2. Below(stk[m], stk[n]) /\ (n = m+1 => stk[m].current = Called(stk[n]))
        BY <1>5 DEF Chain
    <2> QED
        BY <1>3, <2>1, <2>2 DEF Below
<1>6. Chain(new, start)
    BY <1>1, <1>4, <1>5 DEF Chain
<1> QED
    BY <1>6 DEF new

(* What holds of each call of explore_subtree_smart that gets what it        *)
(* demands: no preferred extension around current holds a processed argument *)
(* besides, and what the loop has passed is processed or of no use against   *)
(* the attacker.                                                             *)
Demands(f) ==
    /\ ConflictFreeIn(base, f.current)
    /\ f.current \cup {a \in Arg : a \in base[a]}
        \cup {a \in Arg : ArgAttacksSet(base, a, f.current)}
        \cup Victims(base, f.current) \subseteq f.processed

SmartFrame(f) ==
    /\ Demands(f)
    /\ \A P \in PreferredExtensions(base) :
            f.current \subseteq P => P \cap f.processed \subseteq f.current
    /\ IF f.attacker = -1 THEN Uncountered(f.current) = {}
                          ELSE f.attacker \in Uncountered(f.current)
    /\ \A b \in Arg : b < f.i =>
            b \in f.processed \/ (f.attacker # -1 /\ f.attacker \notin base[b])

NoneAround(s) == \A P \in PreferredExtensions(base) : ~(s \subseteq P)

(* A new frame.                                                              *)
LEMMA NewFrame ==
    ASSUME base \in Framework, NEW s \in SUBSET Arg, NEW processed \in SUBSET Arg,
           NEW f, f = Cbo!Frame(s, processed)
    PROVE  /\ f \in Frames
           /\ f.current = s /\ f.processed = processed /\ f.i = 0
           /\ Demands(f) /\ (\A P \in PreferredExtensions(base) :
                                s \subseteq P => P \cap processed \subseteq s)
                => SmartFrame(f)
<1> DEFINE best == Cbo!SelectBestAttacker(s, processed)
<1>1. IF Uncountered(s) = {} THEN best = -1 ELSE best \in Uncountered(s)
    BY BestAttacker
<1>2. f = [current |-> s, processed |-> processed, i |-> 0, attacker |-> best]
    BY DEF Cbo!Frame
<1>3. Uncountered(s) \subseteq Arg /\ -1 \notin Arg
    BY NAssumption DEF Uncountered, Arg
<1> HIDE DEF best
<1>4. best \in -1 .. N-1
    BY <1>1, <1>3, NAssumption DEF Arg
<1>5. f \in Frames
    BY <1>2, <1>4, NAssumption DEF Frames
<1>6. \A b \in Arg : ~(b < f.i)
    BY <1>2, NAssumption DEF Arg
<1>7. IF f.attacker = -1 THEN Uncountered(f.current) = {} ELSE f.attacker \in Uncountered(f.current)
    BY <1>1, <1>2, <1>3
<1> QED
    BY <1>2, <1>5, <1>6, <1>7 DEF SmartFrame

LEMMA FrameTypes ==
    ASSUME base \in Framework
    PROVE  /\ \A a \in Arg \cup {N} :
                /\ StartOf(a) \in SUBSET Arg
                /\ Cbo!RootClosure(a) = StartOf(a)
                /\ Cbo!RootProcessed(a) \in SUBSET Arg
           /\ \A f \in Frames : f.i \in Arg =>
                /\ Called(f) \in SUBSET Arg
                /\ Cbo!Closure(f.current \cup {f.i}) = Called(f)
                /\ Cbo!NextProcessed(f, Called(f)) \in SUBSET Arg
<1>1. ASSUME NEW a \in Arg \cup {N}
      PROVE  /\ StartOf(a) \in SUBSET Arg
             /\ Cbo!RootClosure(a) = StartOf(a)
             /\ Cbo!RootProcessed(a) \in SUBSET Arg
    <2>1. StartOf(a) \in SUBSET Arg /\ Victims(base, StartOf(a)) \in SUBSET Arg
        BY DEF StartOf, AttackedLike, Victims, Framework
    <2>2. Cbo!RootClosure(a) = StartOf(a)
        BY CboArrows
    <2>3. Cbo!Victims(base, StartOf(a)) = Victims(base, StartOf(a)) /\ Cbo!Arg = Arg
        BY CboOperators
    <2>4. Cbo!RootProcessed(a) \in SUBSET Arg
        BY <2>1, <2>2, <2>3 DEF Cbo!RootProcessed
    <2> QED
        BY <2>1, <2>2, <2>4
<1>2. ASSUME NEW f \in Frames, f.i \in Arg
      PROVE  /\ Called(f) \in SUBSET Arg
             /\ Cbo!Closure(f.current \cup {f.i}) = Called(f)
             /\ Cbo!NextProcessed(f, Called(f)) \in SUBSET Arg
    <2>1. Called(f) \in SUBSET Arg /\ f.current \cup {f.i} \in SUBSET Arg
          /\ f.processed \in SUBSET Arg
        BY <1>2, CalledFacts DEF Frames
    <2>2. Cbo!Closure(f.current \cup {f.i}) = Called(f)
        BY <2>1, CboArrows DEF Called
    <2> DEFINE added == Called(f) \ f.current
    <2>3. Cbo!Victims(base, added) = Victims(base, added) /\ Victims(base, added) \in SUBSET Arg
        BY CboOperators DEF Victims, Framework
    <2>4. Cbo!Transpose(base)[f.i] \in SUBSET Arg
        BY <1>2, CboOperators
    <2>5. Cbo!NextProcessed(f, Called(f)) \in SUBSET Arg
        BY <2>1, <2>3, <2>4 DEF Cbo!NextProcessed
    <2> QED
        BY <2>1, <2>2, <2>5
<1> QED
    BY <1>1, <1>2

(* The outermost call for the argument a, or for none.                       *)
LEMMA RootFrame ==
    ASSUME base \in Framework, NEW a \in Arg \cup {N}, ConflictFreeIn(base, StartOf(a))
    PROVE  SmartFrame(Cbo!Frame(StartOf(a), Cbo!RootProcessed(a)))
<1> DEFINE s == StartOf(a)
           processed == {b \in Arg : b \in base[b] \/ (a < N /\ a \in base[b])}
                            \cup s \cup Victims(base, s)
<1>1. s \in SUBSET Arg /\ DOMAIN base = Arg
    BY DEF StartOf, AttackedLike, Framework
<1>2. Cbo!RootProcessed(a) = processed
    <2>1. Cbo!RootClosure(a) = s
        BY <1>1, CboArrows
    <2> QED
        BY <2>1, CboOperators DEF Cbo!RootProcessed
<1>3. processed \in SUBSET Arg
    BY <1>1 DEF Victims
<1>4. a # N => a \in Arg /\ a < N /\ a \in s
    BY NAssumption DEF Arg, StartOf, AttackedLike, ArgAttacksSet
<1>5. \A b \in Arg : ArgAttacksSet(base, b, s) => a # N /\ a \in base[b]
    BY DEF StartOf, AttackedLike, ArgAttacksSet
<1> DEFINE f == Cbo!Frame(s, processed)
<1>6. f.current = s /\ f.processed = processed
    BY <1>1, <1>3, NewFrame
<1>7. {b \in Arg : ArgAttacksSet(base, b, s)} \subseteq processed
    BY <1>4, <1>5
<1>8. Demands(f)
    BY <1>6, <1>7 DEF Demands
<1>9. ASSUME NEW P \in PreferredExtensions(base), s \subseteq P
      PROVE  P \cap processed \subseteq s
    <2>1. \A x, y \in P : y \notin base[x]
        BY PreferredFacts
    <2>2. ASSUME NEW b \in P, b \in processed, b \notin s
          PROVE  FALSE
        <3>1. b \notin Victims(base, s)
            BY <1>9, <2>1, <2>2 DEF Victims, SetAttacksArg
        <3>2. b \notin base[b]
            BY <2>1
        <3>3. ~(a < N /\ a \in base[b])
            <4>1. a < N => a # N
                BY <1>4, NAssumption
            <4> QED
                BY <1>4, <1>9, <2>1, <4>1
        <3> QED
            BY <2>2, <3>1, <3>2, <3>3
    <2> QED
        BY <2>2
<1> HIDE DEF s, processed, f
<1>10. SmartFrame(f)
    BY <1>1, <1>3, <1>8, <1>9, NewFrame DEF f
<1> QED
    BY <1>2, <1>10 DEF f, s

(* A call that is tried and good gets what it demands, although the          *)
(* attackers of i alone are added and not those of all that joins current.   *)
LEMMA CalledFrame ==
    ASSUME base \in Framework, NEW f \in Frames, SmartFrame(f), f.i \in Arg,
           f.i \notin f.processed, Cbo!SmartGood(f, Called(f))
    PROVE  SmartFrame(Cbo!Frame(Called(f), Cbo!NextProcessed(f, Called(f))))
<1> DEFINE next == Called(f)
           added == next \ f.current
           processed == f.processed \cup added \cup Victims(base, added)
                            \cup {b \in Arg : f.i \in base[b]}
           new == Cbo!Frame(next, processed)
<1>1. next \in SUBSET Arg /\ f.current \cup {f.i} \subseteq next /\ DOMAIN base = Arg
    BY CalledFacts DEF Framework
<1>2. Cbo!NextProcessed(f, next) = processed
    BY CboOperators DEF Cbo!NextProcessed
<1>3. processed \in SUBSET Arg /\ f.current \in SUBSET Arg
    BY <1>1 DEF Victims, Frames
<1>4. \A b \in added : b \notin f.processed /\ \A x \in next : x \notin base[b]
    BY CboOperators DEF Cbo!SmartGood, ArgAttacksSet
<1>5. Victims(base, next) \subseteq processed
    <2>1. Victims(base, next) \subseteq Victims(base, f.current) \cup Victims(base, added)
        BY DEF Victims, SetAttacksArg
    <2> QED
        BY <2>1 DEF SmartFrame, Demands
<1>6. {b \in Arg : ArgAttacksSet(base, b, next)} \subseteq processed
    <2> SUFFICES ASSUME NEW b \in Arg, ArgAttacksSet(base, b, next)
                 PROVE  b \in processed
        OBVIOUS
    <2>1. ArgAttacksSet(base, b, f.current \cup {f.i})
        BY DEF Called, AttackedLike, ArgAttacksSet
    <2>2. ArgAttacksSet(base, b, f.current) \/ f.i \in base[b]
        BY <2>1 DEF ArgAttacksSet
    <2> QED
        BY <2>2 DEF SmartFrame, Demands
<1>7. ConflictFreeIn(base, next)
    <2> SUFFICES ASSUME NEW x \in next, NEW y \in next, y \in base[x]
                 PROVE  FALSE
        BY DEF ConflictFreeIn
    <2>1. x \in f.current
        BY <1>4
    <2>2. y \in f.processed
        BY <1>1, <2>1 DEF SmartFrame, Demands, Victims, SetAttacksArg
    <2>3. y \in f.current
        BY <1>4, <2>2
    <2> QED
        BY <2>1, <2>3 DEF SmartFrame, Demands, ConflictFreeIn
<1>8. new.current = next /\ new.processed = processed
    BY DEF Cbo!Frame
<1>9. Demands(new)
    <2>1. next \cup {a \in Arg : a \in base[a]} \subseteq processed
        BY DEF SmartFrame, Demands
    <2> QED
        BY <1>5, <1>6, <1>7, <1>8, <2>1 DEF Demands
<1>10. ASSUME NEW P \in PreferredExtensions(base), next \subseteq P
       PROVE  P \cap processed \subseteq next
    <2>1. /\ \A x, y \in P : y \notin base[x]
          /\ P \cap f.processed \subseteq f.current
        BY <1>1, <1>10, PreferredFacts DEF SmartFrame
    <2>2. P \cap Victims(base, added) = {} /\ f.i \in P
        BY <1>1, <1>10, <2>1 DEF Victims, SetAttacksArg
    <2> QED
        BY <1>1, <2>1, <2>2
<1> HIDE DEF next, processed, new
<1>11. SmartFrame(new)
    BY <1>1, <1>3, <1>9, <1>10, NewFrame DEF new
<1> QED
    BY <1>2, <1>11 DEF new, next

(* No preferred extension is around a call that is not made.                 *)
LEMMA NotCalled ==
    ASSUME base \in Framework, NEW f \in Frames, SmartFrame(f), f.i \in Arg,
           ~Cbo!SmartGood(f, Called(f))
    PROVE  NoneAround(f.current \cup {f.i})
<1> SUFFICES ASSUME NEW P \in PreferredExtensions(base), f.current \cup {f.i} \subseteq P
             PROVE  FALSE
    BY DEF NoneAround
<1>1. Called(f) \subseteq P /\ \A x, y \in P : y \notin base[x]
    BY PreferredFacts DEF Called
<1>2. PICK b \in Called(f) \ f.current : b \in f.processed \/ ArgAttacksSet(base, b, Called(f))
    BY CboOperators DEF Cbo!SmartGood
<1>3. b \in f.processed
    BY <1>1, <1>2 DEF ArgAttacksSet
<1> QED
    BY <1>1, <1>2, <1>3 DEF SmartFrame

(* Marking i, or passing it.                                                 *)
LEMMA AdvancedFrame ==
    ASSUME NEW f \in Frames, f.i \in Arg, NEW marked \in {{}, {f.i}},
           NEW g, g = [[f EXCEPT !.processed = f.processed \cup marked] EXCEPT !.i = f.i + 1],
           SmartFrame(f),
           \/ f.i \in f.processed \cup marked
           \/ f.attacker # -1 /\ f.attacker \notin base[f.i],
           marked = {} \/ NoneAround(f.current \cup {f.i})
    PROVE  SmartFrame(g)
<1>1. /\ g.current = f.current /\ g.processed = f.processed \cup marked
      /\ g.i = f.i + 1 /\ g.attacker = f.attacker
    BY DEF Frames
<1>2. Demands(g)
    BY <1>1 DEF SmartFrame, Demands
<1>3. ASSUME NEW P \in PreferredExtensions(base), f.current \subseteq P
      PROVE  P \cap (f.processed \cup marked) \subseteq f.current
    <2>1. P \cap f.processed \subseteq f.current
        BY <1>3 DEF SmartFrame
    <2>2. marked = {} \/ f.i \notin P
        BY <1>3 DEF NoneAround
    <2> QED
        BY <2>1, <2>2
<1>4. ASSUME NEW b \in Arg, b < f.i + 1
      PROVE  b \in f.processed \cup marked \/ (f.attacker # -1 /\ f.attacker \notin base[b])
    <2>1. b = f.i \/ b < f.i
        BY <1>4, NAssumption DEF Arg
    <2> QED
        BY <2>1 DEF SmartFrame
<1> QED
    BY <1>1, <1>2, <1>3, <1>4 DEF SmartFrame

(* When the loop has ended, current is preferred, or has an attacker that no *)
(* argument is left to counter.                                              *)
LEMMA LeafFrame ==
    ASSUME base \in Framework, NEW f \in Frames, SmartFrame(f), f.i = N
    PROVE  IF f.attacker = -1 THEN f.current \in PreferredExtensions(base)
                              ELSE NoneAround(f.current)
<1>1. f.current \in SUBSET Arg /\ \A b \in Arg : b < N
    BY NAssumption DEF Frames, Arg
<1>2. CASE f.attacker = -1
    <2>1. CountersAttackers(base, f.current) /\ ConflictFreeIn(base, f.current)
        BY <1>2 DEF SmartFrame, Demands, Uncountered, CountersAttackers
    <2>2. f.current \in AdmissibleSets(base)
        BY <1>1, <2>1, CounteringAdmissible
    <2>3. PICK P \in PreferredExtensions(base) : f.current \subseteq P
        BY <2>2, PreferredAbove
    <2>4. P \subseteq f.current
        <3>1. P \subseteq Arg /\ P \cap f.processed \subseteq f.current
            BY <2>3, PreferredFacts DEF SmartFrame
        <3>2. \A b \in Arg : b \in f.processed
            BY <1>1, <1>2 DEF SmartFrame
        <3> QED
            BY <3>1, <3>2
    <2>5. P = f.current
        BY <2>3, <2>4
    <2> QED
        BY <1>2, <2>3, <2>5
<1>3. CASE f.attacker # -1
    <2> SUFFICES ASSUME NEW P \in PreferredExtensions(base), f.current \subseteq P
                 PROVE  FALSE
        BY <1>3 DEF NoneAround
    <2>1. /\ f.attacker \in Arg /\ ArgAttacksSet(base, f.attacker, f.current)
          /\ ~SetAttacksArg(base, f.current, f.attacker)
        BY <1>3 DEF SmartFrame, Uncountered
    <2>2. P \in SUBSET Arg /\ CountersAttackers(base, P)
        BY PreferredComplete, CounteringAdmissible
    <2>3. ArgAttacksSet(base, f.attacker, P)
        BY <2>1 DEF ArgAttacksSet
    <2>4. PICK d \in P : f.attacker \in base[d]
        BY <2>1, <2>2, <2>3 DEF CountersAttackers, SetAttacksArg
    <2>5. d \in Arg /\ d \notin f.current
        BY <2>1, <2>2, <2>4 DEF SetAttacksArg
    <2>6. d \in f.processed
        BY <1>1, <2>4, <2>5 DEF SmartFrame
    <2> QED
        BY <2>4, <2>5, <2>6 DEF SmartFrame
<1> QED
    BY <1>2, <1>3

(* Every frame holds what the outermost call started with.                   *)
LEMMA ChainStart ==
    ASSUME NEW stk, NEW start, Chain(stk, start), NEW n \in DOMAIN stk
    PROVE  start \subseteq stk[n].current
<1>1. DOMAIN stk = 1 .. Len(stk) /\ Len(stk) \in Nat /\ stk # <<>>
    BY DEF Chain
<1>2. CASE n = Len(stk)
    BY <1>1, <1>2 DEF Chain
<1>3. CASE n # Len(stk)
    <2>1. n < Len(stk) /\ Len(stk) \in DOMAIN stk
        BY <1>1, <1>3
    <2> QED
        BY <1>1, <2>1 DEF Chain, Below
<1> QED
    BY <1>2, <1>3

-------------------------------------------------------------------------------
(* The search of dc_pr_cbo.                                                  *)

(* P lies ahead of the frame at n: what it adds to current is not below i,   *)
(* and not i itself if the frame has called for i.                           *)
AheadOf(stk, n, P, exploring) ==
    /\ stk[n].current \subseteq P
    /\ \A b \in P \ stk[n].current :
          b >= stk[n].i /\ (n # 1 \/ ~exploring => b # stk[n].i)

Pending(stk, P, exploring) == \E n \in DOMAIN stk : AheadOf(stk, n, P, exploring)

(* A frame that tries or passes i loses only what holds i.                   *)
LEMMA PendingAdvance ==
    ASSUME NEW stk, NEW start, Chain(stk, start), stk # <<>>,
           NEW P \in SUBSET Arg, NEW exploring \in BOOLEAN, Pending(stk, P, exploring),
           stk[1].i \in Arg,
           exploring /\ stk[1].current \subseteq P /\ stk[1].i \in P => stk[1].i \in stk[1].current,
           NEW g \in Frames, g.current = stk[1].current, g.i = stk[1].i + 1
    PROVE  Pending(<<g>> \o Tail(stk), P, TRUE)
<1> DEFINE new == <<g>> \o Tail(stk)
<1>1. /\ DOMAIN new = DOMAIN stk /\ new[1] = g
      /\ \A n \in DOMAIN stk : n # 1 => new[n] = stk[n]
    BY TopReplaced DEF Chain
<1> HIDE DEF new
<1>2. PICK n \in DOMAIN stk : AheadOf(stk, n, P, exploring)
    BY DEF Pending
<1>3. CASE n = 1
    <2>1. ASSUME NEW b \in P \ g.current
          PROVE  b >= g.i
        <3>1. b >= stk[1].i /\ b \in Arg
            BY <1>2, <1>3, <2>1 DEF AheadOf
        <3>2. b # stk[1].i
            BY <1>2, <1>3, <2>1 DEF AheadOf
        <3> QED
            BY <3>1, <3>2, NAssumption DEF Arg
    <2>2. AheadOf(new, 1, P, TRUE)
        BY <1>1, <1>2, <1>3, <2>1 DEF AheadOf
    <2> QED
        BY <1>1, <1>2, <1>3, <2>2 DEF Pending, new
<1>4. CASE n # 1
    <2>1. AheadOf(new, n, P, TRUE)
        BY <1>1, <1>2, <1>4 DEF AheadOf
    <2> QED
        BY <1>1, <2>1 DEF Pending, new
<1> QED
    BY <1>3, <1>4

LEMMA PendingPush ==
    ASSUME base \in Framework, NEW stk, NEW start, Chain(stk, start), stk # <<>>,
           stk[1].i \in Arg \ stk[1].current,
           NEW P \in PreferredExtensions(base), Pending(stk, P, TRUE),
           NEW g \in Frames, g.current = Called(stk[1]), g.i = stk[1].i + 1
    PROVE  Pending(<<g>> \o stk, P, TRUE)
<1> DEFINE new == <<g>> \o stk
<1>1. stk \in Seq(Frames) /\ DOMAIN stk = 1 .. Len(stk) /\ Len(stk) \in Nat
      /\ 1 \in DOMAIN stk /\ stk[1] \in Frames
    BY Unstacked DEF Chain
<1>2. /\ DOMAIN new = 1 .. Len(stk) + 1 /\ new[1] = g
      /\ \A n \in DOMAIN new : n # 1 => n-1 \in DOMAIN stk /\ new[n] = stk[n-1]
    BY <1>1, Stacked
<1> HIDE DEF new
<1>3. PICK n \in DOMAIN stk : AheadOf(stk, n, P, TRUE)
    BY DEF Pending
<1>4. n+1 \in DOMAIN new /\ n+1 # 1 /\ 1 \in DOMAIN new
    BY <1>1, <1>2, <1>3
<1>5. new[n+1] = stk[n]
    <2>1. new[n+1] = stk[(n+1)-1] /\ n \in Int
        BY <1>1, <1>2, <1>4
    <2>2. (n+1)-1 = n
        BY <2>1
    <2> QED
        BY <2>1, <2>2
<1>6. CASE n = 1 /\ stk[1].i \in P
    <2>1. Called(stk[1]) \subseteq P /\ P \subseteq Arg
          /\ stk[1].current \cup {stk[1].i} \subseteq Called(stk[1])
        BY <1>1, <1>3, <1>6, PreferredFacts, CalledFacts DEF AheadOf, Called
    <2>2. ASSUME NEW b \in P \ g.current
          PROVE  b >= g.i
        <3>1. b >= stk[1].i /\ b # stk[1].i /\ b \in Arg
            BY <1>3, <1>6, <2>1, <2>2 DEF AheadOf
        <3> QED
            BY <3>1, NAssumption DEF Arg
    <2>3. AheadOf(new, 1, P, TRUE)
        BY <1>2, <2>1, <2>2 DEF AheadOf
    <2> QED
        BY <1>4, <2>3 DEF Pending, new
<1>7. CASE ~(n = 1 /\ stk[1].i \in P)
    <2>1. AheadOf(new, n+1, P, TRUE)
        BY <1>3, <1>4, <1>5, <1>7 DEF AheadOf
    <2> QED
        BY <1>4, <2>1 DEF Pending, new
<1> QED
    BY <1>6, <1>7

LEMMA PendingPop ==
    ASSUME NEW stk, NEW start, Chain(stk, start), stk # <<>>,
           NEW P, Pending(stk, P, TRUE), ~AheadOf(stk, 1, P, TRUE)
    PROVE  Pending(Tail(stk), P, FALSE)
<1> DEFINE new == Tail(stk)
<1>1. stk \in Seq(Frames) /\ DOMAIN stk = 1 .. Len(stk) /\ Len(stk) \in Nat
    BY DEF Chain
<1>2. /\ DOMAIN new = 1 .. Len(stk) - 1
      /\ \A n \in DOMAIN new : n+1 \in DOMAIN stk /\ new[n] = stk[n+1]
    BY <1>1, Unstacked
<1> HIDE DEF new
<1>3. PICK n \in DOMAIN stk : AheadOf(stk, n, P, TRUE) /\ n # 1
    BY DEF Pending
<1>4. n-1 \in DOMAIN new /\ n \in Int
    BY <1>1, <1>2, <1>3
<1>5. new[n-1] = stk[n]
    <2>1. new[n-1] = stk[(n-1)+1] /\ (n-1)+1 = n
        BY <1>2, <1>4
    <2> QED
        BY <2>1
<1>6. AheadOf(new, n-1, P, FALSE)
    BY <1>3, <1>5 DEF AheadOf
<1> QED
    BY <1>4, <1>6 DEF Pending, new

(* What is returned first is preferred: a larger set would have been found   *)
(* before, for it holds what an outer frame has called for.                  *)
LEMMA PendingFound ==
    ASSUME base \in Framework, NEW stk, NEW start, Chain(stk, start), stk # <<>>,
           stk[1].i = N, stk[1].current \in AdmissibleSets(base),
           \A P \in PreferredExtensions(base) : start \subseteq P => Pending(stk, P, TRUE)
    PROVE  stk[1].current \in PreferredExtensions(base)
<1>1. PICK P \in PreferredExtensions(base) : stk[1].current \subseteq P
    BY PreferredAbove
<1>2. 1 \in DOMAIN stk /\ DOMAIN stk = 1 .. Len(stk)
    BY Unstacked DEF Chain
<1>3. start \subseteq P
    BY <1>1, <1>2, ChainStart
<1>4. PICK n \in DOMAIN stk : AheadOf(stk, n, P, TRUE)
    BY <1>3 DEF Pending
<1>5. CASE n = 1
    <2>1. \A b \in P \ stk[1].current : b >= N /\ b \in Arg
        BY <1>4, <1>5, PreferredFacts DEF AheadOf
    <2>2. \A b \in Arg : ~(b >= N)
        BY NAssumption DEF Arg
    <2>3. P = stk[1].current
        BY <1>1, <2>1, <2>2
    <2> QED
        BY <2>3
<1>6. CASE n # 1
    <2>1. 1 < n
        BY <1>2, <1>6
    <2>2. stk[n].i \in P \ stk[n].current
        BY <1>1, <1>2, <2>1 DEF Chain, Below
    <2> QED
        BY <1>4, <1>6, <2>2 DEF AheadOf
<1> QED
    BY <1>5, <1>6

(* A set that the innermost frame lies within lies ahead of that frame, if   *)
(* of any.                                                                   *)
LEMMA PendingTop ==
    ASSUME NEW stk, NEW start, Chain(stk, start), stk # <<>>,
           NEW P, NEW exploring, Pending(stk, P, exploring), stk[1].current \subseteq P
    PROVE  AheadOf(stk, 1, P, exploring)
<1>1. 1 \in DOMAIN stk /\ DOMAIN stk = 1 .. Len(stk)
    BY Unstacked DEF Chain
<1>2. PICK n \in DOMAIN stk : AheadOf(stk, n, P, exploring)
    BY DEF Pending
<1>3. CASE n # 1
    <2>1. 1 < n
        BY <1>1, <1>3
    <2>2. stk[n].i \in P \ stk[n].current
        BY <1>1, <2>1 DEF Chain, Below
    <2> QED
        BY <1>2, <1>3, <2>2 DEF AheadOf
<1> QED
    BY <1>2, <1>3

-------------------------------------------------------------------------------
(* The stages of a call, smart (sm) or not, made for the argument asked for  *)
(* or for the attacker kk.                                                   *)

(* The argument that the one smart call is made for; N if there is none.     *)
Asked == IF prob = "DC-PR" THEN argument ELSE N

Caller(sm, kk) == IF sm THEN Asked ELSE kk

SelfAttacking(a) == a \in Arg /\ a \in base[a]

(* No attacker before kk is in a preferred extension.                        *)
Tried(kk) == \A b \in Arg : b < kk /\ argument \in base[b] => NoneAround({b})

(* The frames of the call.                                                   *)
Calling(sm, kk, stk) ==
    /\ Chain(stk, StartOf(Caller(sm, kk)))
    /\ IF sm THEN /\ kk = -1
                  /\ SelfAttacking(Asked) => stk = <<>>
                  /\ \A n \in DOMAIN stk : stk[n].current \subseteq stk[n].processed
                  /\ ConflictFreeIn(base, StartOf(Asked)) =>
                        \A n \in DOMAIN stk : SmartFrame(stk[n])
             ELSE kk \in Arg /\ prob = "DS-PR" /\ argument \in base[kk] /\ Tried(kk)

(* An extension around the start lies ahead of some frame.                   *)
Sought(sm, kk, stk, exploring) ==
    ~sm => \A P \in PreferredExtensions(base) :
              StartOf(kk) \subseteq P => Pending(stk, P, exploring)

CboReady(kk, stk, ext) ==
    /\ stk = <<>> /\ ext = {}
    /\ \/ kk = -1
       \/ kk \in 0 .. N /\ prob = "DS-PR" /\ Tried(kk)

CboExploring(sm, kk, stk, ext) ==
    /\ Calling(sm, kk, stk) /\ Sought(sm, kk, stk, TRUE)
    /\ stk # <<>> /\ ext = {}

(* The call has returned NULL to the frame that has made it.                 *)
CboFailed(sm, kk, stk) ==
    /\ Calling(sm, kk, stk) /\ Sought(sm, kk, stk, FALSE)
    /\ stk # <<>> => stk[1].i \in Arg \ stk[1].current
    /\ sm /\ ConflictFreeIn(base, StartOf(Asked)) =>
          NoneAround(IF stk = <<>> THEN StartOf(Asked) ELSE stk[1].current \cup {stk[1].i})

CboFound(sm, kk, stk, ext) ==
    /\ Calling(sm, kk, stk)
    /\ sm => ~SelfAttacking(Asked)
    /\ ~sm \/ ConflictFreeIn(base, StartOf(Asked)) =>
          \E S \in PreferredExtensions(base) :
              ext = {S} /\ StartOf(Caller(sm, kk)) \subseteq S

(* What the routine may return.                                              *)
Outcome(ext) ==
    /\ prob # "DS-PR" /\ (SelfAttacking(Asked) \/ ConflictFreeIn(base, StartOf(Asked))) =>
        IF ext = {} THEN NoneAround(StartOf(Asked))
        ELSE \E S \in PreferredExtensions(base) : ext = {S} /\ StartOf(Asked) \subseteq S
    /\ prob = "DS-PR" =>
        IF ext = {} THEN \A b \in Arg : argument \in base[b] => NoneAround({b})
        ELSE \E S \in PreferredExtensions(base) : ext = {S} /\ argument \notin S

CboInv ==
    /\ argument \in Arg \cup {N} /\ (prob # "SE-PR" => argument \in Arg)
    /\ pc \in {"call", "explore", "return", "done"}
    /\ pc = "call" => CboReady(k, stack, extension)
    /\ pc = "explore" => CboExploring(smart, k, stack, extension)
    /\ pc = "return" /\ extension = {} => CboFailed(smart, k, stack)
    /\ pc = "return" /\ extension # {} => CboFound(smart, k, stack, extension)
    /\ pc = "done" => stack = <<>> /\ Outcome(extension)

(* The stages depend on what main has settled and on their parameters.       *)
LEMMA CboStage ==
    ASSUME UNCHANGED <<base, prob, argument>>,
           argument \in Arg \cup {N}, prob # "SE-PR" => argument \in Arg,
           \/ pc' = "call" /\ CboReady(k', stack', extension')
           \/ pc' = "explore" /\ CboExploring(smart', k', stack', extension')
           \/ pc' = "return" /\ extension' = {} /\ CboFailed(smart', k', stack')
           \/ pc' = "return" /\ extension' # {} /\ CboFound(smart', k', stack', extension')
           \/ pc' = "done" /\ stack' = <<>> /\ Outcome(extension')
    PROVE  CboInv'
<1>1. (argument \in Arg \cup {N} /\ (prob # "SE-PR" => argument \in Arg))'
    OBVIOUS
<1>2. CboReady(k', stack', extension') => CboReady(k, stack, extension)'
    BY DEF CboReady, Tried, NoneAround
<1>3. Calling(smart', k', stack') => Calling(smart, k, stack)'
    <2>1. Chain(stack', StartOf(Caller(smart', k'))) => Chain(stack, StartOf(Caller(smart, k)))'
        <3>1. StartOf(Caller(smart', k')) = StartOf(Caller(smart, k))'
            BY DEF Caller, Asked, StartOf, AttackedLike, ArgAttacksSet
        <3>2. \A s, t : t = s' /\ Chain(stack', t) => Chain(stack, s)'
            BY DEF Chain, Called, AttackedLike, ArgAttacksSet
        <3> QED
            BY <3>1, <3>2 DEF Chain, Called, AttackedLike, ArgAttacksSet
    <2>2. \A n \in DOMAIN stack' : SmartFrame(stack'[n]) => SmartFrame(stack[n])'
        BY DEF SmartFrame, Demands, Uncountered, Victims, ConflictFreeIn, ArgAttacksSet,
               SetAttacksArg
    <2>3. ConflictFreeIn(base, StartOf(Asked))' <=> ConflictFreeIn(base, StartOf(Asked))
        BY DEF ConflictFreeIn, StartOf, AttackedLike, ArgAttacksSet, Asked
    <2>4. SelfAttacking(Asked)' <=> SelfAttacking(Asked)
        BY DEF SelfAttacking, Asked
    <2>5. Tried(k') => Tried(k)'
        BY DEF Tried, NoneAround
    <2> QED
        BY <2>1, <2>2, <2>3, <2>4, <2>5 DEF Calling
<1>4. \A e \in BOOLEAN : Sought(smart', k', stack', e) => Sought(smart, k, stack, e)'
    BY DEF Sought, StartOf, AttackedLike, ArgAttacksSet
<1>5. CboExploring(smart', k', stack', extension') => CboExploring(smart, k, stack, extension)'
    BY <1>3, <1>4 DEF CboExploring
<1>6. CboFailed(smart', k', stack') => CboFailed(smart, k, stack)'
    BY <1>3, <1>4
    DEF CboFailed, NoneAround, Asked, StartOf, AttackedLike, ArgAttacksSet, ConflictFreeIn
<1>7. CboFound(smart', k', stack', extension') => CboFound(smart, k, stack, extension)'
    BY <1>3
    DEF CboFound, Asked, Caller, SelfAttacking, StartOf, AttackedLike, ArgAttacksSet,
        ConflictFreeIn
<1>8. Outcome(extension') => Outcome(extension)'
    BY DEF Outcome, NoneAround, Asked, SelfAttacking, StartOf, AttackedLike, ArgAttacksSet,
           ConflictFreeIn
<1> QED
    BY <1>1, <1>2, <1>5, <1>6, <1>7, <1>8 DEF CboInv

(* A frame marks i or not and goes on.                                       *)
LEMMA AdvanceStage ==
    ASSUME base \in Framework, NEW sm \in BOOLEAN, NEW kk, NEW stk, stk # <<>>,
           Calling(sm, kk, stk), stk[1].i \in Arg,
           NEW exploring \in BOOLEAN, Sought(sm, kk, stk, exploring),
           NEW marked \in {{}, {stk[1].i}},
           sm => \/ stk[1].i \in stk[1].processed \cup marked
                 \/ stk[1].attacker # -1 /\ stk[1].attacker \notin base[stk[1].i],
           sm /\ ConflictFreeIn(base, StartOf(Asked)) =>
               marked = {} \/ NoneAround(stk[1].current \cup {stk[1].i}),
           \A P \in PreferredExtensions(base) :
               ~sm /\ exploring /\ Pending(stk, P, exploring)
                   /\ stk[1].current \subseteq P /\ stk[1].i \in P
                   => stk[1].i \in stk[1].current,
           NEW g, g = [[stk[1] EXCEPT !.processed = stk[1].processed \cup marked]
                            EXCEPT !.i = stk[1].i + 1]
    PROVE  CboExploring(sm, kk, <<g>> \o Tail(stk), {})
<1> DEFINE new == <<g>> \o Tail(stk)
           start == StartOf(Caller(sm, kk))
<1>1. /\ Chain(stk, start) /\ stk \in Seq(Frames) /\ 1 \in DOMAIN stk /\ stk[1] \in Frames
      /\ ~(sm /\ SelfAttacking(Asked))
    BY Unstacked DEF Calling, Chain
<1>2. /\ g \in Frames /\ g.current = stk[1].current /\ g.i = stk[1].i + 1
      /\ g.processed = stk[1].processed \cup marked
    <2>1. ASSUME NEW f \in Frames, f.i \in Arg, NEW m \in SUBSET Arg,
                 g = [[f EXCEPT !.processed = f.processed \cup m] EXCEPT !.i = f.i + 1]
          PROVE  /\ g \in Frames /\ g.current = f.current /\ g.i = f.i + 1
                 /\ g.processed = f.processed \cup m
        <3>1. f.i + 1 \in 0 .. N
            BY <2>1, NAssumption DEF Arg
        <3>2. f.processed \cup m \in SUBSET Arg
            BY DEF Frames
        <3> QED
            BY <2>1, <3>1, <3>2 DEF Frames
    <2>2. marked \in SUBSET Arg
        OBVIOUS
    <2> QED
        BY <1>1, <2>1, <2>2
<1>3. /\ new # <<>> /\ DOMAIN new = DOMAIN stk /\ new[1] = g
      /\ \A n \in DOMAIN stk : n # 1 => new[n] = stk[n]
    BY <1>1, <1>2, TopReplaced
<1>4. Chain(new, start)
    BY <1>1, <1>2, ChainAdvance
<1> HIDE DEF new, start
<1>5. sm => \A n \in DOMAIN new : new[n].current \subseteq new[n].processed
    BY <1>1, <1>2, <1>3 DEF Calling
<1>6. ASSUME sm, ConflictFreeIn(base, StartOf(Asked)), NEW n \in DOMAIN new
      PROVE  SmartFrame(new[n])
    <2>1. SmartFrame(stk[n]) /\ SmartFrame(stk[1])
        BY <1>1, <1>3, <1>6 DEF Calling
    <2>2. marked = {} \/ NoneAround(stk[1].current \cup {stk[1].i})
        BY <1>6
    <2>3. \/ stk[1].i \in stk[1].processed \cup marked
          \/ stk[1].attacker # -1 /\ stk[1].attacker \notin base[stk[1].i]
        BY <1>6
    <2>4. SmartFrame(g)
        <3>1. PICK f \in Frames : f = stk[1]
            BY <1>1
        <3>2. /\ SmartFrame(f) /\ f.i \in Arg /\ marked \in {{}, {f.i}}
              /\ g = [[f EXCEPT !.processed = f.processed \cup marked] EXCEPT !.i = f.i + 1]
              /\ \/ f.i \in f.processed \cup marked
                 \/ f.attacker # -1 /\ f.attacker \notin base[f.i]
              /\ marked = {} \/ NoneAround(f.current \cup {f.i})
            BY <2>1, <2>2, <2>3, <3>1
        <3> HIDE <3>1
        <3> QED
            BY <3>2, AdvancedFrame
    <2> QED
        BY <1>3, <2>1, <2>4
<1>7. Calling(sm, kk, new)
    BY <1>1, <1>4, <1>5, <1>6 DEF Calling, start
<1>8. Sought(sm, kk, new, TRUE)
    <2> SUFFICES ASSUME ~sm, NEW P \in PreferredExtensions(base), StartOf(kk) \subseteq P
                 PROVE  Pending(new, P, TRUE)
        BY DEF Sought
    <2>1. Pending(stk, P, exploring) /\ P \in SUBSET Arg
        BY PreferredFacts DEF Sought
    <2>2. exploring /\ stk[1].current \subseteq P /\ stk[1].i \in P => stk[1].i \in stk[1].current
        BY <2>1
    <2> QED
        BY <1>1, <1>2, <2>1, <2>2, PendingAdvance DEF new
<1> QED
    BY <1>3, <1>7, <1>8 DEF CboExploring, new

(* A frame calls for i.                                                      *)
LEMMA PushStage ==
    ASSUME base \in Framework, NEW sm \in BOOLEAN, NEW kk, NEW stk, stk # <<>>,
           Calling(sm, kk, stk), Sought(sm, kk, stk, TRUE),
           stk[1].i \in Arg \ stk[1].current,
           NEW g \in Frames, g.current = Called(stk[1]),
           sm => g.current \subseteq g.processed,
           sm /\ ConflictFreeIn(base, StartOf(Asked)) => SmartFrame(g),
           ~sm => g.i = stk[1].i + 1
    PROVE  CboExploring(sm, kk, <<g>> \o stk, {})
<1> DEFINE new == <<g>> \o stk
           start == StartOf(Caller(sm, kk))
<1>1. Chain(stk, start) /\ stk \in Seq(Frames) /\ ~(sm /\ SelfAttacking(Asked))
    BY DEF Calling, Chain
<1>2. /\ new # <<>> /\ new[1] = g
      /\ \A n \in DOMAIN new : n # 1 => n-1 \in DOMAIN stk /\ new[n] = stk[n-1]
    BY <1>1, Stacked
<1>3. Chain(new, start)
    BY <1>1, ChainPush
<1> HIDE DEF new, start
<1>4. sm => \A n \in DOMAIN new : new[n].current \subseteq new[n].processed
    BY <1>2 DEF Calling
<1>5. sm /\ ConflictFreeIn(base, StartOf(Asked)) => \A n \in DOMAIN new : SmartFrame(new[n])
    BY <1>2 DEF Calling
<1>6. Calling(sm, kk, new)
    BY <1>1, <1>3, <1>4, <1>5 DEF Calling, start
<1>7. Sought(sm, kk, new, TRUE)
    <2> SUFFICES ASSUME ~sm, NEW P \in PreferredExtensions(base), StartOf(kk) \subseteq P
                 PROVE  Pending(new, P, TRUE)
        BY DEF Sought
    <2>1. Pending(stk, P, TRUE)
        BY DEF Sought
    <2> QED
        BY <1>1, <2>1, PendingPush DEF new
<1> QED
    BY <1>2, <1>6, <1>7 DEF CboExploring, new

(* A call returns to the frame that has made it.                             *)
LEMMA PopCalling ==
    ASSUME NEW sm \in BOOLEAN, NEW kk, NEW stk, stk # <<>>, Calling(sm, kk, stk)
    PROVE  /\ Calling(sm, kk, Tail(stk))
           /\ sm => ~SelfAttacking(Asked)
           /\ 1 \in DOMAIN stk /\ stk[1] \in Frames
<1> DEFINE new == Tail(stk)
<1>1. Chain(stk, StartOf(Caller(sm, kk))) /\ stk \in Seq(Frames)
    BY DEF Calling, Chain
<1>2. /\ \A n \in DOMAIN new : n+1 \in DOMAIN stk /\ new[n] = stk[n+1]
      /\ 1 \in DOMAIN stk /\ stk[1] \in Frames
    BY <1>1, Unstacked
<1>3. Chain(new, StartOf(Caller(sm, kk)))
    BY <1>1, ChainPop
<1> HIDE DEF new
<1>4. Calling(sm, kk, new)
    BY <1>2, <1>3 DEF Calling
<1> QED
    BY <1>2, <1>4 DEF Calling, new

LEMMA PopStage ==
    ASSUME base \in Framework, NEW sm \in BOOLEAN, NEW kk, NEW stk, stk # <<>>,
           Calling(sm, kk, stk), Sought(sm, kk, stk, TRUE),
           sm /\ ConflictFreeIn(base, StartOf(Asked)) => NoneAround(stk[1].current),
           ~sm => \A P \in PreferredExtensions(base) : ~AheadOf(stk, 1, P, TRUE)
    PROVE  CboFailed(sm, kk, Tail(stk))
<1> DEFINE new == Tail(stk)
<1>1. Chain(stk, StartOf(Caller(sm, kk)))
    BY DEF Calling
<1>2. /\ new # <<>> => Below(stk[1], new[1]) /\ stk[1].current = Called(new[1])
      /\ new = <<>> => stk[1].current = StartOf(Caller(sm, kk))
    BY <1>1, ChainPop
<1>3. Calling(sm, kk, new)
    BY PopCalling
<1>4. Sought(sm, kk, new, FALSE)
    BY <1>1, PendingPop DEF Sought
<1> HIDE DEF new
<1>5. new # <<>> => new[1].i \in Arg \ new[1].current
    BY <1>2 DEF Below
<1>6. ASSUME sm, ConflictFreeIn(base, StartOf(Asked))
      PROVE  NoneAround(IF new = <<>> THEN StartOf(Asked) ELSE new[1].current \cup {new[1].i})
    <2>1. CASE new = <<>>
        BY <1>2, <1>6, <2>1 DEF Caller
    <2>2. CASE new # <<>>
        <3>1. \A P \in PreferredExtensions(base) :
                  new[1].current \cup {new[1].i} \subseteq P => stk[1].current \subseteq P
            BY <1>2, <2>2, PreferredFacts DEF Called
        <3> QED
            BY <1>6, <2>2, <3>1 DEF NoneAround
    <2> QED
        BY <2>1, <2>2
<1> QED
    BY <1>3, <1>4, <1>5, <1>6 DEF CboFailed, new

LEMMA StartFacts ==
    ASSUME base \in Framework
    PROVE  /\ ConflictFreeIn(base, StartOf(N))
           /\ \E P \in PreferredExtensions(base) : StartOf(N) \subseteq P
           /\ \A P \in PreferredExtensions(base) : StartOf(N) \subseteq P
           /\ \A a \in Arg : a \in StartOf(a)
           /\ \A a \in Arg : \A P \in PreferredExtensions(base) :
                 a \in P => StartOf(a) \subseteq P
           /\ \A a \in Arg : a # N /\ a < N
<1>1. \A a \in Arg : a # N /\ a < N
    BY NAssumption DEF Arg
<1>2. StartOf(N) = AttackedLike(base, {}) /\ \A a \in Arg : StartOf(a) = AttackedLike(base, {a})
    BY <1>1 DEF StartOf
<1>3. ConflictFreeIn(base, StartOf(N))
    BY <1>2 DEF ConflictFreeIn, AttackedLike, ArgAttacksSet
<1>4. \E P \in PreferredExtensions(base) : StartOf(N) \subseteq P
    <2>1. PICK P \in PreferredExtensions(base) : {} \subseteq P
        BY EmptyAdmissible, PreferredAbove
    <2> QED
        BY <1>2, <2>1, PreferredFacts
<1>7. ASSUME NEW P \in PreferredExtensions(base)
      PROVE  StartOf(N) \subseteq P
    BY <1>2, PreferredFacts
<1>5. \A a \in Arg : a \in StartOf(a)
    BY <1>2 DEF AttackedLike, ArgAttacksSet
<1>6. ASSUME NEW a \in Arg, NEW P \in PreferredExtensions(base), a \in P
      PROVE  StartOf(a) \subseteq P
    <2>1. AttackedLike(base, {a}) \subseteq P
        <3>1. {a} \in SUBSET P
            BY <1>6
        <3> QED
            BY <3>1, PreferredFacts
    <2> QED
        BY <1>2, <2>1
<1> QED
    BY <1>1, <1>3, <1>4, <1>5, <1>6, <1>7

(* The routine for the problems that close-by-one solves.                    *)
CboProblem ==
    /\ prob \in {"SE-PR", "DC-PR", "DS-PR"}
    /\ base \in Framework
    /\ CboInv

LEMMA ChainRoot ==
    ASSUME NEW g \in Frames
    PROVE  /\ Chain(<<g>>, g.current)
           /\ <<g>> # <<>> /\ DOMAIN <<g>> = {1} /\ <<g>>[1] = g
BY DEF Chain

LEMMA ChainNone ==
    ASSUME NEW start
    PROVE  Chain(<<>>, start) /\ DOMAIN <<>> = {}
BY DEF Chain

LEMMA CallSmartInv ==
    ASSUME CboProblem, Cbo!CallSmart, UNCHANGED <<base, prob, argument>>
    PROVE  CboInv'
<1> DEFINE g == Cbo!Frame(Cbo!RootClosure(Asked), Cbo!RootProcessed(Asked))
<1>1. /\ base \in Framework /\ argument \in Arg \cup {N} /\ (prob # "SE-PR" => argument \in Arg)
      /\ Asked \in Arg \cup {N} /\ pc = "call" /\ k = -1
    BY DEF CboProblem, CboInv, Asked, Cbo!CallSmart
<1>2. /\ extension' = {} /\ smart' = TRUE /\ k' = k
      /\ IF SelfAttacking(Asked) THEN pc' = "return" /\ stack' = <<>>
                                 ELSE pc' = "explore" /\ stack' = <<g>>
    <2>1. \A a \in Arg \cup {N} : Cbo!Refused(a) <=> SelfAttacking(a)
        BY <1>1, CboOperators, StartFacts, NAssumption DEF Cbo!Refused, SelfAttacking
    <2>2. (IF (CASE prob = "SE-PR" -> "SE" [] prob = "DC-PR" -> "DC" [] OTHER -> "DS") = "DC"
           THEN argument ELSE N) = Asked
        BY DEF CboProblem, Asked
    <2> QED
        BY <1>1, <2>1, <2>2 DEF Cbo!CallSmart
<1> HIDE DEF g
<1>3. CASE SelfAttacking(Asked)
    <2>1. NoneAround(StartOf(Asked))
        BY <1>1, <1>3, StartFacts, PreferredFacts DEF NoneAround, SelfAttacking
    <2>2. CboFailed(TRUE, -1, <<>>)
        <3>1. Chain(<<>>, StartOf(Caller(TRUE, -1))) /\ DOMAIN <<>> = {}
            BY ChainNone
        <3>2. Calling(TRUE, -1, <<>>)
            BY <3>1 DEF Calling
        <3> QED
            BY <2>1, <3>2 DEF CboFailed, Sought
    <2> QED
        BY <1>1, <1>2, <1>3, <2>2, CboStage
<1>4. CASE ~SelfAttacking(Asked)
    <2>1. /\ StartOf(Asked) \in SUBSET Arg /\ Cbo!RootClosure(Asked) = StartOf(Asked)
          /\ Cbo!RootProcessed(Asked) \in SUBSET Arg
        BY <1>1, FrameTypes
    <2>2. /\ g \in Frames /\ g.current = StartOf(Asked)
          /\ g.processed = Cbo!RootProcessed(Asked)
        BY <1>1, <2>1, NewFrame DEF g
    <2>3. g.current \subseteq g.processed
        BY <2>1, <2>2 DEF Cbo!RootProcessed
    <2>4. ConflictFreeIn(base, StartOf(Asked)) => SmartFrame(g)
        BY <1>1, <2>1, RootFrame DEF g
    <2>5. Chain(<<g>>, StartOf(Asked)) /\ <<g>> # <<>> /\ DOMAIN <<g>> = {1} /\ <<g>>[1] = g
        BY <2>2, ChainRoot
    <2>6. Calling(TRUE, -1, <<g>>)
        BY <1>4, <2>3, <2>4, <2>5 DEF Calling, Caller
    <2>7. CboExploring(TRUE, -1, <<g>>, {})
        BY <2>5, <2>6 DEF CboExploring, Sought
    <2> QED
        BY <1>1, <1>2, <1>4, <2>7, CboStage
<1> QED
    BY <1>3, <1>4

LEMMA CallPlainInv ==
    ASSUME CboProblem, Cbo!CallPlain, UNCHANGED <<base, prob, argument>>
    PROVE  CboInv'
<1> DEFINE g == Cbo!PlainFrame(Cbo!RootClosure(k), 0)
<1>1. /\ base \in Framework /\ argument \in Arg \cup {N} /\ (prob # "SE-PR" => argument \in Arg)
      /\ k \in Arg /\ pc = "call" /\ prob = "DS-PR" /\ Tried(k) /\ argument \in base[k]
    <2>1. Cbo!Arg = Arg /\ (Cbo!ArgAttacksArg(base, k, argument) <=> argument \in base[k])
        BY CboOperators DEF CboProblem
    <2> QED
        BY <2>1, NAssumption DEF CboProblem, CboInv, CboReady, Cbo!CallPlain, Arg
<1>2. /\ extension' = {} /\ smart' = FALSE /\ k' = k
      /\ IF SelfAttacking(k) THEN pc' = "return" /\ stack' = <<>>
                             ELSE pc' = "explore" /\ stack' = <<g>>
    <2>1. Cbo!Refused(k) <=> SelfAttacking(k)
        BY <1>1, CboOperators, StartFacts DEF Cbo!Refused, SelfAttacking
    <2> QED
        BY <1>1, <2>1 DEF Cbo!CallPlain
<1> HIDE DEF g
<1>3. CASE SelfAttacking(k)
    <2>1. \A P \in PreferredExtensions(base) : ~(StartOf(k) \subseteq P)
        BY <1>1, <1>3, StartFacts, PreferredFacts DEF SelfAttacking
    <2>2. CboFailed(FALSE, k, <<>>)
        BY <1>1, <2>1, ChainNone DEF CboFailed, Calling, Sought
    <2> QED
        BY <1>1, <1>2, <1>3, <2>2, CboStage
<1>4. CASE ~SelfAttacking(k)
    <2>1. StartOf(k) \in SUBSET Arg /\ Cbo!RootClosure(k) = StartOf(k)
        BY <1>1, FrameTypes
    <2>2. g \in Frames /\ g.current = StartOf(k) /\ g.i = 0
        BY <2>1, NAssumption DEF g, Cbo!PlainFrame, Frames
    <2>3. Chain(<<g>>, StartOf(k)) /\ <<g>> # <<>> /\ DOMAIN <<g>> = {1} /\ <<g>>[1] = g
        BY <2>2, ChainRoot
    <2>4. Calling(FALSE, k, <<g>>)
        BY <1>1, <2>3 DEF Calling, Caller
    <2>5. ASSUME NEW P \in PreferredExtensions(base), StartOf(k) \subseteq P
          PROVE  Pending(<<g>>, P, TRUE)
        <3>1. \A b \in P : b >= 0
            BY <1>1, PreferredFacts, NAssumption DEF Arg
        <3>2. AheadOf(<<g>>, 1, P, TRUE)
            BY <2>2, <2>3, <2>5, <3>1 DEF AheadOf
        <3> QED
            BY <2>3, <3>2 DEF Pending
    <2>6. CboExploring(FALSE, k, <<g>>, {})
        BY <2>3, <2>4, <2>5 DEF CboExploring, Sought
    <2> QED
        BY <1>1, <1>2, <1>4, <2>6, CboStage
<1> QED
    BY <1>3, <1>4

LEMMA NoAttackerInv ==
    ASSUME CboProblem, Cbo!NoAttacker \/ Cbo!NoneLeft, UNCHANGED <<base, prob, argument>>
    PROVE  CboInv'
<1>1. /\ base \in Framework /\ argument \in Arg \cup {N} /\ (prob # "SE-PR" => argument \in Arg)
      /\ pc = "call" /\ CboReady(k, stack, extension)
      /\ UNCHANGED <<stack, extension>>
    BY DEF CboProblem, CboInv, Cbo!NoAttacker, Cbo!NoneLeft
<1>2. CASE Cbo!NoAttacker
    <2>1. k \in Arg /\ argument \notin base[k] /\ k' = k + 1 /\ pc' = pc
        BY <1>1, <1>2, CboOperators DEF Cbo!NoAttacker
    <2>2. prob = "DS-PR" /\ Tried(k) /\ k+1 \in 0 .. N
        BY <1>1, <2>1, NAssumption DEF CboReady, Arg
    <2>3. \A b \in Arg : b < k+1 => b < k \/ b = k
        BY <2>1, NAssumption DEF Arg
    <2>4. CboReady(k', stack', extension')
        BY <1>1, <2>1, <2>2, <2>3 DEF CboReady, Tried
    <2> QED
        BY <1>1, <2>1, <2>4, CboStage
<1>3. CASE Cbo!NoneLeft
    <2>1. k = N /\ pc' = "done"
        BY <1>3 DEF Cbo!NoneLeft
    <2>2. prob = "DS-PR" /\ Tried(N) /\ extension = {} /\ stack = <<>>
        BY <1>1, <2>1, NAssumption DEF CboReady
    <2>3. Outcome(extension')
        BY <1>1, <2>2, StartFacts DEF Outcome, Tried
    <2> QED
        BY <1>1, <2>1, <2>2, <2>3, CboStage
<1> QED
    BY <1>2, <1>3

LEMMA ExploreFacts ==
    ASSUME CboProblem, pc = "explore"
    PROVE  /\ base \in Framework
           /\ argument \in Arg \cup {N} /\ (prob # "SE-PR" => argument \in Arg)
           /\ Calling(smart, k, stack) /\ Sought(smart, k, stack, TRUE)
           /\ stack # <<>> /\ extension = {}
           /\ stack[1] \in Frames /\ 1 \in DOMAIN stack
           /\ stack[1].i < N => stack[1].i \in Arg
           /\ Cbo!Top = stack[1]
           /\ [stack[1] EXCEPT !.processed = stack[1].processed \cup {}] = stack[1]
<1>1. CboExploring(smart, k, stack, extension) /\ base \in Framework
    BY DEF CboProblem, CboInv
<1>2. /\ Chain(stack, StartOf(Caller(smart, k))) /\ stack \in Seq(Frames) /\ stack # <<>>
      /\ extension = {}
    BY <1>1 DEF CboExploring, Calling, Chain
<1>3. stack[1] \in Frames /\ 1 \in DOMAIN stack
    BY <1>2, Unstacked
<1>4. stack[1].i < N => stack[1].i \in Arg
    BY <1>3, NAssumption DEF Frames, Arg
<1>5. [stack[1] EXCEPT !.processed = stack[1].processed \cup {}] = stack[1]
    <2>1. ASSUME NEW f \in Frames
          PROVE  [f EXCEPT !.processed = f.processed \cup {}] = f
        BY DEF Frames
    <2> QED
        BY <1>3, <2>1
<1> QED
    BY <1>1, <1>2, <1>3, <1>4, <1>5 DEF CboProblem, CboInv, CboExploring, Cbo!Top

LEMMA SmartSkipInv ==
    ASSUME CboProblem, Cbo!SmartSkip, UNCHANGED <<base, prob, argument>>
    PROVE  CboInv'
<1> DEFINE f == stack[1]
           g == [f EXCEPT !.i = f.i + 1]
<1>1. pc = "explore" /\ smart /\ pc' = pc /\ smart' = smart /\ k' = k /\ extension' = extension
    BY DEF Cbo!SmartSkip, Cbo!Conserve
<1>2. /\ f.i \in Arg /\ f \in Frames
      /\ f.i \in f.processed \/ (f.attacker >= 0 /\ f.attacker \notin base[f.i])
      /\ stack' = <<g>> \o Tail(stack)
    BY <1>1, ExploreFacts, CboOperators DEF Cbo!SmartSkip, Cbo!Advance
<1>3. f.attacker >= 0 => f.attacker # -1
    OBVIOUS
<1>4. g = [[f EXCEPT !.processed = f.processed \cup {}] EXCEPT !.i = f.i + 1]
    BY <1>1, ExploreFacts
<1> HIDE DEF g
<1>5. CboExploring(TRUE, k, <<g>> \o Tail(stack), {})
    <2>1. /\ Calling(TRUE, k, stack) /\ Sought(TRUE, k, stack, TRUE)
          /\ base \in Framework /\ stack # <<>>
        BY <1>1, ExploreFacts DEF Sought
    <2>2. \/ f.i \in f.processed \cup {}
          \/ f.attacker # -1 /\ f.attacker \notin base[f.i]
        BY <1>2, <1>3
    <2> QED
        BY <1>2, <1>4, <2>1, <2>2, AdvanceStage
<1> QED
    BY <1>1, <1>2, <1>5, ExploreFacts, CboStage

LEMMA SmartTryInv ==
    ASSUME CboProblem, Cbo!SmartTry, UNCHANGED <<base, prob, argument>>
    PROVE  CboInv'
<1> DEFINE f == stack[1]
           next == Called(f)
           new == Cbo!Frame(next, Cbo!NextProcessed(f, next))
           g == [[f EXCEPT !.processed = f.processed \cup {f.i}] EXCEPT !.i = f.i + 1]
<1>1. pc = "explore" /\ smart /\ pc' = pc /\ smart' = smart /\ k' = k /\ extension' = extension
    BY DEF Cbo!SmartTry, Cbo!Conserve
<1>2. /\ Calling(TRUE, k, stack) /\ Sought(TRUE, k, stack, TRUE)
      /\ base \in Framework /\ stack # <<>> /\ f \in Frames /\ 1 \in DOMAIN stack
    BY <1>1, ExploreFacts DEF Sought
<1>3. f.i \in Arg /\ f.i \notin f.processed
    BY <1>1, ExploreFacts DEF Cbo!SmartTry
<1>4. /\ next \in SUBSET Arg /\ Cbo!Closure(f.current \cup {f.i}) = next
      /\ Cbo!NextProcessed(f, next) \in SUBSET Arg
    BY <1>2, <1>3, FrameTypes
<1>5. stack' = IF Cbo!SmartGood(f, next) THEN <<new>> \o stack ELSE <<g>> \o Tail(stack)
    <2>1. Cbo!Top = stack[1]
        BY <1>1, ExploreFacts
    <2> QED
        BY <1>1, <1>4, <2>1 DEF Cbo!SmartTry, Cbo!MarkAndAdvance, Cbo!Advance
<1>6. f.i \notin f.current
    BY <1>2, <1>3 DEF Calling
<1> HIDE DEF g, new
<1>7. CASE Cbo!SmartGood(f, next)
    <2>1. /\ new \in Frames /\ new.current = next
          /\ new.processed = Cbo!NextProcessed(f, next)
        BY <1>2, <1>4, NewFrame DEF new
    <2>2. new.current \subseteq new.processed
        <3>1. f.current \subseteq f.processed
            BY <1>2 DEF Calling
        <3> QED
            BY <2>1, <3>1 DEF Cbo!NextProcessed
    <2>3. ConflictFreeIn(base, StartOf(Asked)) => SmartFrame(new)
        <3>1. ConflictFreeIn(base, StartOf(Asked)) => SmartFrame(f)
            BY <1>2 DEF Calling
        <3> QED
            BY <1>2, <1>3, <1>7, <3>1, CalledFrame DEF new
    <2>4. CboExploring(TRUE, k, <<new>> \o stack, {})
        BY <1>2, <1>3, <1>6, <2>1, <2>2, <2>3, PushStage
    <2> QED
        BY <1>1, <1>5, <1>7, <2>4, ExploreFacts, CboStage
<1>8. CASE ~Cbo!SmartGood(f, next)
    <2>1. ConflictFreeIn(base, StartOf(Asked)) => NoneAround(f.current \cup {f.i})
        <3>1. ConflictFreeIn(base, StartOf(Asked)) => SmartFrame(f)
            BY <1>2 DEF Calling
        <3> QED
            BY <1>2, <1>3, <1>8, <3>1, NotCalled
    <2>2. f.i \in f.processed \cup {f.i} /\ {f.i} \in {{}, {f.i}}
        OBVIOUS
    <2>3. CboExploring(TRUE, k, <<g>> \o Tail(stack), {})
        BY <1>2, <1>3, <2>1, <2>2, AdvanceStage DEF g
    <2> QED
        BY <1>1, <1>5, <1>8, <2>3, ExploreFacts, CboStage
<1> QED
    BY <1>7, <1>8

LEMMA SmartLeafInv ==
    ASSUME CboProblem, Cbo!SmartLeaf, UNCHANGED <<base, prob, argument>>
    PROVE  CboInv'
<1> DEFINE f == stack[1]
<1>1. pc = "explore" /\ smart /\ pc' = "return" /\ smart' = smart /\ k' = k
    BY DEF Cbo!SmartLeaf, Cbo!Conserve
<1>2. /\ Calling(TRUE, k, stack) /\ Sought(TRUE, k, stack, TRUE)
      /\ base \in Framework /\ stack # <<>> /\ f \in Frames /\ 1 \in DOMAIN stack
    BY <1>1, ExploreFacts DEF Sought
<1>3. /\ f.i = N /\ stack' = Tail(stack)
      /\ extension' = IF f.attacker = -1 THEN {f.current} ELSE {}
    <2>1. f.attacker < 0 <=> f.attacker = -1
        BY <1>2, NAssumption DEF Frames
    <2> QED
        BY <1>1, <2>1, ExploreFacts DEF Cbo!SmartLeaf
<1>4. ConflictFreeIn(base, StartOf(Asked)) =>
          IF f.attacker = -1 THEN f.current \in PreferredExtensions(base)
                             ELSE NoneAround(f.current)
    <2>1. ConflictFreeIn(base, StartOf(Asked)) => SmartFrame(f)
        BY <1>2 DEF Calling
    <2> QED
        BY <1>2, <1>3, <2>1, LeafFrame
<1>5. CASE f.attacker = -1
    <2>1. Calling(TRUE, k, Tail(stack)) /\ ~SelfAttacking(Asked)
        BY <1>2, PopCalling
    <2>2. StartOf(Caller(TRUE, k)) \subseteq f.current
        BY <1>2, ChainStart DEF Calling
    <2>3. CboFound(TRUE, k, Tail(stack), {f.current})
        BY <1>4, <1>5, <2>1, <2>2 DEF CboFound
    <2> QED
        BY <1>1, <1>3, <1>5, <2>3, ExploreFacts, CboStage
<1>6. CASE f.attacker # -1
    <2>1. CboFailed(TRUE, k, Tail(stack))
        BY <1>2, <1>4, <1>6, PopStage
    <2> QED
        BY <1>1, <1>3, <1>6, <2>1, ExploreFacts, CboStage
<1> QED
    BY <1>5, <1>6

LEMMA PlainFacts ==
    ASSUME CboProblem, pc = "explore", ~smart
    PROVE  /\ Calling(FALSE, k, stack) /\ Sought(FALSE, k, stack, TRUE)
           /\ base \in Framework /\ stack # <<>> /\ stack[1] \in Frames /\ 1 \in DOMAIN stack
           /\ Chain(stack, StartOf(k))
           /\ Cbo!ConflictFreeFrame(stack[1]) <=> ConflictFreeIn(base, stack[1].current)
           /\ Cbo!UnattackedAttackers(stack[1].current) = Uncountered(stack[1].current)
<1>1. /\ Calling(FALSE, k, stack) /\ Sought(FALSE, k, stack, TRUE)
      /\ base \in Framework /\ stack # <<>> /\ stack[1] \in Frames /\ 1 \in DOMAIN stack
    BY ExploreFacts DEF Calling, Sought, Caller
<1>2. Chain(stack, StartOf(k))
    BY <1>1 DEF Calling, Caller
<1>3. stack[1].current \in SUBSET Arg
    BY <1>1 DEF Frames
<1> QED
    BY <1>1, <1>2, <1>3, CboArrows DEF Cbo!ConflictFreeFrame

LEMMA PlainSkipInv ==
    ASSUME CboProblem, Cbo!PlainSkip, UNCHANGED <<base, prob, argument>>
    PROVE  CboInv'
<1> DEFINE f == stack[1]
           g == [f EXCEPT !.i = f.i + 1]
<1>1. pc = "explore" /\ ~smart /\ pc' = pc /\ smart' = smart /\ k' = k /\ extension' = extension
    BY DEF Cbo!PlainSkip, Cbo!Conserve
<1>2. /\ f.i \in Arg /\ ~Cbo!PlainCandidate(f) /\ stack' = <<g>> \o Tail(stack)
    BY <1>1, ExploreFacts DEF Cbo!PlainSkip, Cbo!Advance
<1>3. g = [[f EXCEPT !.processed = f.processed \cup {}] EXCEPT !.i = f.i + 1]
    BY <1>1, ExploreFacts
<1>4. base \in Framework
    BY <1>1, PlainFacts
<1> HIDE DEF g
<1>5. ASSUME NEW P \in PreferredExtensions(base), f.current \subseteq P, f.i \in P
      PROVE  f.i \in f.current
    <2>1. \A x, y \in P : y \notin base[x]
        BY <1>4, PreferredFacts
    <2>2. ~ArgAttacksSet(base, f.i, f.current) /\ ~SetAttacksArg(base, f.current, f.i)
        BY <1>5, <2>1 DEF ArgAttacksSet, SetAttacksArg
    <2> QED
        BY <1>2, <1>4, <1>5, <2>1, <2>2, CboOperators DEF Cbo!PlainCandidate
<1>6. CboExploring(FALSE, k, <<g>> \o Tail(stack), {})
    BY <1>1, <1>2, <1>3, <1>5, PlainFacts, AdvanceStage
<1> QED
    BY <1>1, <1>2, <1>6, ExploreFacts, CboStage DEF CboExploring, Calling, Sought, Caller

LEMMA PlainTryInv ==
    ASSUME CboProblem, Cbo!PlainTry, UNCHANGED <<base, prob, argument>>
    PROVE  CboInv'
<1> DEFINE f == stack[1]
           next == Called(f)
           new == Cbo!PlainFrame(next, f.i + 1)
           g == [f EXCEPT !.i = f.i + 1]
<1>1. pc = "explore" /\ ~smart /\ pc' = pc /\ smart' = smart /\ k' = k /\ extension' = extension
    BY DEF Cbo!PlainTry, Cbo!Conserve
<1>2. /\ Calling(FALSE, k, stack) /\ Sought(FALSE, k, stack, TRUE)
      /\ base \in Framework /\ stack # <<>> /\ f \in Frames /\ 1 \in DOMAIN stack
      /\ Chain(stack, StartOf(k))
    BY <1>1, PlainFacts
<1>3. f.i \in Arg /\ f.i \notin f.current
    BY <1>1, ExploreFacts DEF Cbo!PlainTry, Cbo!PlainCandidate
<1>4. next \in SUBSET Arg /\ Cbo!Closure(f.current \cup {f.i}) = next
    BY <1>2, <1>3, FrameTypes
<1>5. stack' = IF Cbo!PlainGood(f, next) THEN <<new>> \o stack ELSE <<g>> \o Tail(stack)
    <2>1. Cbo!Top = stack[1]
        BY <1>1, ExploreFacts
    <2> QED
        BY <1>1, <1>4, <2>1 DEF Cbo!PlainTry, Cbo!MarkAndAdvance, Cbo!Advance
<1>6. g = [[f EXCEPT !.processed = f.processed \cup {}] EXCEPT !.i = f.i + 1]
    BY <1>1, ExploreFacts
<1> HIDE DEF g, new
<1>7. CASE Cbo!PlainGood(f, next)
    <2>1. new \in Frames /\ new.current = next /\ new.i = f.i + 1
        BY <1>3, <1>4, NAssumption DEF new, Cbo!PlainFrame, Frames, Arg
    <2>2. CboExploring(FALSE, k, <<new>> \o stack, {})
        BY <1>2, <1>3, <2>1, PushStage
    <2> QED
        BY <1>1, <1>5, <1>7, <2>2, ExploreFacts, CboStage
        DEF CboExploring, Calling, Sought, Caller
<1>8. CASE ~Cbo!PlainGood(f, next)
    <2>1. ASSUME NEW P \in PreferredExtensions(base), Pending(stack, P, TRUE),
                 f.current \subseteq P, f.i \in P
          PROVE  f.i \in f.current
        <3>1. next \subseteq P /\ P \subseteq Arg /\ \A x, y \in P : y \notin base[x]
            BY <1>2, <2>1, PreferredFacts DEF Called
        <3>2. AheadOf(stack, 1, P, TRUE)
            BY <1>2, <2>1, PendingTop
        <3>3. \A b \in next \ f.current : b >= f.i
            BY <3>1, <3>2 DEF AheadOf
        <3>4. \A b \in next : ~ArgAttacksSet(base, b, next)
            BY <3>1 DEF ArgAttacksSet
        <3> QED
            BY <1>2, <1>8, <3>3, <3>4, CboOperators DEF Cbo!PlainGood
    <2>2. CboExploring(FALSE, k, <<g>> \o Tail(stack), {})
        BY <1>2, <1>3, <1>6, <2>1, AdvanceStage
    <2> QED
        BY <1>1, <1>5, <1>8, <2>2, ExploreFacts, CboStage
        DEF CboExploring, Calling, Sought, Caller
<1> QED
    BY <1>7, <1>8

LEMMA PlainLeafInv ==
    ASSUME CboProblem, Cbo!PlainLeaf, UNCHANGED <<base, prob, argument>>
    PROVE  CboInv'
<1> DEFINE f == stack[1]
           found == ConflictFreeIn(base, f.current) /\ Uncountered(f.current) = {}
<1>1. pc = "explore" /\ ~smart /\ pc' = "return" /\ smart' = smart /\ k' = k
    BY DEF Cbo!PlainLeaf, Cbo!Conserve
<1>2. /\ Calling(FALSE, k, stack) /\ Sought(FALSE, k, stack, TRUE)
      /\ base \in Framework /\ stack # <<>> /\ f \in Frames /\ 1 \in DOMAIN stack
      /\ Chain(stack, StartOf(k)) /\ f.current \in SUBSET Arg
    BY <1>1, PlainFacts DEF Frames
<1>3. /\ ~ConflictFreeIn(base, f.current) \/ f.i = N
      /\ stack' = Tail(stack)
      /\ extension' = IF found THEN {f.current} ELSE {}
    <2>1. Cbo!Top = stack[1]
        BY <1>1, ExploreFacts
    <2> QED
        BY <1>1, <2>1, PlainFacts DEF Cbo!PlainLeaf
<1>4. CASE found
    <2>1. f.current \in AdmissibleSets(base)
        BY <1>2, <1>4, CounteringAdmissible DEF Uncountered, CountersAttackers
    <2>2. f.current \in PreferredExtensions(base)
        BY <1>2, <1>3, <1>4, <2>1, PendingFound DEF Sought
    <2>3. Calling(FALSE, k, Tail(stack)) /\ StartOf(k) \subseteq f.current
        BY <1>2, PopCalling, ChainStart
    <2>4. CboFound(FALSE, k, Tail(stack), {f.current})
        BY <2>2, <2>3 DEF CboFound, Caller
    <2>5. CboFound(smart, k, Tail(stack), {f.current})
        BY <1>1, <2>4 DEF CboFound, Calling, Caller
    <2> QED
        BY <1>1, <1>3, <1>4, <2>5, ExploreFacts, CboStage
<1>5. CASE ~found
    <2>1. ASSUME NEW P \in PreferredExtensions(base), AheadOf(stack, 1, P, TRUE)
          PROVE  FALSE
        <3>1. f.current \subseteq P /\ P \in AdmissibleSets(base) /\ P \in SUBSET Arg
            BY <1>2, <2>1, PreferredComplete DEF AheadOf
        <3>2. ConflictFreeIn(base, P) /\ CountersAttackers(base, P)
            BY <1>2, <3>1, CounteringAdmissible
        <3>3. ConflictFreeIn(base, f.current)
            BY <3>1, <3>2 DEF ConflictFreeIn
        <3>4. P = f.current
            <4>1. \A b \in Arg : ~(b >= f.i)
                BY <1>3, <3>3, NAssumption DEF Arg
            <4> QED
                BY <2>1, <3>1, <4>1 DEF AheadOf
        <3>5. Uncountered(f.current) = {}
            BY <3>2, <3>4 DEF Uncountered, CountersAttackers
        <3> QED
            BY <1>5, <3>3, <3>5
    <2>2. CboFailed(FALSE, k, Tail(stack))
        BY <1>2, <2>1, PopStage
    <2>3. CboFailed(smart, k, Tail(stack))
        BY <1>1, <2>2 DEF CboFailed, Calling, Caller, Sought
    <2> QED
        BY <1>1, <1>3, <1>5, <2>3, ExploreFacts, CboStage
<1> QED
    BY <1>4, <1>5

LEMMA ResumeInv ==
    ASSUME CboProblem, Cbo!Resume, UNCHANGED <<base, prob, argument>>
    PROVE  CboInv'
<1> DEFINE f == stack[1]
           marked == IF smart THEN {f.i} ELSE {}
           g == [[f EXCEPT !.processed = f.processed \cup marked] EXCEPT !.i = f.i + 1]
<1>1. /\ pc = "return" /\ stack # <<>> /\ extension = {} /\ pc' = "explore"
      /\ smart' = smart /\ k' = k /\ extension' = extension
      /\ argument \in Arg \cup {N} /\ (prob # "SE-PR" => argument \in Arg)
      /\ base \in Framework /\ CboFailed(smart, k, stack)
    BY DEF Cbo!Resume, Cbo!Conserve, CboProblem, CboInv
<1>2. /\ Chain(stack, StartOf(Caller(smart, k))) /\ stack \in Seq(Frames)
      /\ f.i \in Arg \ f.current
      /\ smart /\ ConflictFreeIn(base, StartOf(Asked)) => NoneAround(f.current \cup {f.i})
    BY <1>1 DEF CboFailed, Calling, Chain
<1>3. stack[1] \in Frames
    BY <1>1, <1>2, Unstacked
<1>4. stack' = <<g>> \o Tail(stack)
    <2>1. ASSUME NEW h \in Frames
          PROVE  [h EXCEPT !.processed = h.processed \cup {}] = h
        BY DEF Frames
    <2> QED
        BY <1>3, <2>1 DEF Cbo!Resume, Cbo!MarkAndAdvance, Cbo!Advance, Cbo!Top
<1> HIDE DEF g
<1>5. CASE smart
    <2>1. Calling(TRUE, k, stack) /\ Sought(TRUE, k, stack, FALSE)
        BY <1>1, <1>5 DEF CboFailed, Calling, Caller, Sought
    <2>2. /\ f.i \in f.processed \cup marked /\ marked \in {{}, {f.i}}
          /\ ConflictFreeIn(base, StartOf(Asked)) =>
                marked = {} \/ NoneAround(f.current \cup {f.i})
        BY <1>2, <1>5
    <2>3. CboExploring(TRUE, k, <<g>> \o Tail(stack), {})
        BY <1>1, <1>2, <2>1, <2>2, AdvanceStage DEF g
    <2>4. CboExploring(smart, k, <<g>> \o Tail(stack), {})
        BY <1>5, <2>3 DEF CboExploring, Calling, Caller, Sought
    <2> QED
        BY <1>1, <1>4, <2>4, CboStage
<1>6. CASE ~smart
    <2>1. Calling(FALSE, k, stack) /\ Sought(FALSE, k, stack, FALSE)
        BY <1>1, <1>6 DEF CboFailed, Calling, Caller, Sought
    <2>2. marked \in {{}, {f.i}}
        BY <1>6
    <2>3. CboExploring(FALSE, k, <<g>> \o Tail(stack), {})
        BY <1>1, <1>2, <2>1, <2>2, AdvanceStage DEF g
    <2>4. CboExploring(smart, k, <<g>> \o Tail(stack), {})
        BY <1>6, <2>3 DEF CboExploring, Calling, Caller, Sought
    <2> QED
        BY <1>1, <1>4, <2>4, CboStage
<1> QED
    BY <1>5, <1>6

LEMMA HandUpInv ==
    ASSUME CboProblem, Cbo!HandUp, UNCHANGED <<base, prob, argument>>
    PROVE  CboInv'
<1>1. /\ pc = "return" /\ stack # <<>> /\ extension # {} /\ pc' = pc
      /\ smart' = smart /\ k' = k /\ extension' = extension /\ stack' = Tail(stack)
      /\ argument \in Arg \cup {N} /\ (prob # "SE-PR" => argument \in Arg)
      /\ CboFound(smart, k, stack, extension)
    BY DEF Cbo!HandUp, Cbo!Conserve, CboProblem, CboInv
<1>2. Calling(smart, k, Tail(stack))
    <2>1. CASE smart
        <3>1. Calling(TRUE, k, stack)
            BY <1>1, <2>1 DEF CboFound, Calling, Caller
        <3>2. Calling(TRUE, k, Tail(stack))
            BY <1>1, <3>1, PopCalling
        <3> QED
            BY <2>1, <3>2 DEF Calling, Caller
    <2>2. CASE ~smart
        <3>1. Calling(FALSE, k, stack)
            BY <1>1, <2>2 DEF CboFound, Calling, Caller
        <3>2. Calling(FALSE, k, Tail(stack))
            BY <1>1, <3>1, PopCalling
        <3> QED
            BY <2>2, <3>2 DEF Calling, Caller
    <2> QED
        BY <2>1, <2>2
<1>3. CboFound(smart, k, Tail(stack), extension)
    BY <1>1, <1>2 DEF CboFound
<1> QED
    BY <1>1, <1>3, CboStage

(* What the outermost call has returned.                                     *)
LEMMA CboReturned ==
    ASSUME CboProblem, pc = "return", stack = <<>>
    PROVE  /\ smart => k = -1
           /\ ~smart => k \in Arg /\ prob = "DS-PR" /\ argument \in base[k] /\ Tried(k)
           /\ extension = {} /\ (~smart \/ ConflictFreeIn(base, StartOf(Asked))
                                    \/ SelfAttacking(Asked)) =>
                 NoneAround(StartOf(Caller(smart, k)))
           /\ extension # {} =>
                /\ smart => ~SelfAttacking(Asked)
                /\ ~smart \/ ConflictFreeIn(base, StartOf(Asked)) =>
                      \E S \in PreferredExtensions(base) :
                          extension = {S} /\ StartOf(Caller(smart, k)) \subseteq S
<1>1. /\ base \in Framework
      /\ extension = {} => CboFailed(smart, k, stack)
      /\ extension # {} => CboFound(smart, k, stack, extension)
    BY DEF CboProblem, CboInv
<1>2. Calling(smart, k, stack)
    BY <1>1 DEF CboFailed, CboFound
<1>3. ASSUME extension = {}, ~smart
      PROVE  NoneAround(StartOf(k))
    <2>1. \A P : ~Pending(stack, P, FALSE)
        BY DEF Pending
    <2> QED
        BY <1>1, <1>3, <2>1 DEF CboFailed, Sought, NoneAround
<1>4. SelfAttacking(Asked) => NoneAround(StartOf(Asked))
    BY <1>1, StartFacts, PreferredFacts DEF NoneAround, SelfAttacking
<1> QED
    BY <1>1, <1>2, <1>3, <1>4 DEF Calling, Caller, CboFailed, CboFound

LEMMA AnsweredInv ==
    ASSUME CboProblem, Cbo!Answered, UNCHANGED <<base, prob, argument>>
    PROVE  CboInv'
<1>1. /\ pc = "return" /\ stack = <<>> /\ prob # "DS-PR" /\ pc' = "done"
      /\ extension' = extension /\ stack' = stack
      /\ argument \in Arg \cup {N} /\ (prob # "SE-PR" => argument \in Arg)
    BY DEF Cbo!Answered, CboProblem, CboInv
<1>2. Outcome(extension)
    BY <1>1, CboReturned DEF Outcome, Caller
<1> QED
    BY <1>1, <1>2, CboStage

LEMMA CounterexampleInv ==
    ASSUME CboProblem, Cbo!Counterexample, UNCHANGED <<base, prob, argument>>
    PROVE  CboInv'
<1>1. /\ pc = "return" /\ stack = <<>> /\ prob = "DS-PR" /\ pc' = "done"
      /\ extension' = extension /\ stack' = stack
      /\ IF k = -1 THEN \A S \in extension : argument \notin S ELSE extension # {}
      /\ argument \in Arg \cup {N} /\ (prob # "SE-PR" => argument \in Arg)
      /\ base \in Framework
    BY DEF Cbo!Counterexample, CboProblem, CboInv
<1>2. Asked = N /\ ConflictFreeIn(base, StartOf(N)) /\ ~NoneAround(StartOf(N))
    BY <1>1, StartFacts DEF Asked, NoneAround
<1>3. CASE smart
    <2>1. k = -1 /\ Caller(smart, k) = N
        BY <1>1, <1>2, <1>3, CboReturned DEF Caller
    <2>2. extension # {}
        BY <1>1, <1>2, <2>1, CboReturned
    <2>3. PICK S \in PreferredExtensions(base) : extension = {S}
        BY <1>1, <1>2, <2>2, CboReturned
    <2>4. Outcome(extension)
        BY <1>1, <2>1, <2>3 DEF Outcome
    <2> QED
        BY <1>1, <2>4, CboStage
<1>4. CASE ~smart
    <2>1. k \in Arg /\ argument \in base[k] /\ k # -1 /\ Caller(smart, k) = k
        BY <1>1, <1>4, CboReturned, NAssumption DEF Caller, Arg
    <2>2. PICK S \in PreferredExtensions(base) : extension = {S} /\ StartOf(k) \subseteq S
        BY <1>1, <1>4, <2>1, CboReturned
    <2>3. argument \notin S
        BY <1>1, <2>1, <2>2, StartFacts, PreferredFacts
    <2>4. Outcome(extension)
        BY <1>1, <2>2, <2>3 DEF Outcome
    <2> QED
        BY <1>1, <2>4, CboStage
<1> QED
    BY <1>3, <1>4

LEMMA NextAttackerInv ==
    ASSUME CboProblem, Cbo!NextAttacker, UNCHANGED <<base, prob, argument>>
    PROVE  CboInv'
<1>1. /\ pc = "return" /\ stack = <<>> /\ prob = "DS-PR" /\ pc' = "call"
      /\ extension' = {} /\ k' = k + 1 /\ stack' = stack
      /\ k # -1 => extension = {}
      /\ argument \in Arg \cup {N} /\ (prob # "SE-PR" => argument \in Arg)
      /\ base \in Framework
    BY DEF Cbo!NextAttacker, CboProblem, CboInv
<1>2. CASE smart
    <2>1. k' = 0
        BY <1>1, <1>2, CboReturned
    <2>2. Tried(0)
        BY NAssumption DEF Tried, Arg
    <2>3. CboReady(k', stack', extension')
        BY <1>1, <2>1, <2>2, NAssumption DEF CboReady
    <2> QED
        BY <1>1, <2>3, CboStage
<1>3. CASE ~smart
    <2>1. k \in Arg /\ k # -1 /\ Tried(k) /\ Caller(smart, k) = k
        BY <1>1, <1>3, CboReturned, NAssumption DEF Caller, Arg
    <2>2. NoneAround(StartOf(k))
        BY <1>1, <1>3, <2>1, CboReturned
    <2>3. NoneAround({k})
        BY <1>1, <2>1, <2>2, StartFacts DEF NoneAround
    <2>4. k+1 \in 0 .. N /\ \A b \in Arg : b < k+1 => b < k \/ b = k
        BY <2>1, NAssumption DEF Arg
    <2>5. Tried(k+1)
        BY <2>1, <2>3, <2>4 DEF Tried
    <2>6. CboReady(k', stack', extension')
        BY <1>1, <2>4, <2>5 DEF CboReady
    <2> QED
        BY <1>1, <2>6, CboStage
<1> QED
    BY <1>2, <1>3

LEMMA CboNextInv ==
    ASSUME CboProblem, Cbo!Next, UNCHANGED <<base, prob, argument>>
    PROVE  CboInv'
<1>1. CASE Cbo!Returned
    <2>1. /\ pc = "done" /\ pc' = pc /\ extension' = extension /\ Outcome(extension)
          /\ stack = <<>> /\ stack' = stack
          /\ argument \in Arg \cup {N} /\ (prob # "SE-PR" => argument \in Arg)
        BY <1>1 DEF Cbo!Returned, Cbo!vars, CboProblem, CboInv
    <2> QED
        BY <2>1, CboStage
<1> QED
    BY <1>1, CallSmartInv, CallPlainInv, NoAttackerInv, SmartSkipInv, SmartTryInv,
       SmartLeafInv, PlainSkipInv, PlainTryInv, PlainLeafInv, ResumeInv, HandUpInv,
       AnsweredInv, CounterexampleInv, NextAttackerInv DEF Cbo!Next

CboRun ==
    alg = "cbo" =>
        /\ argument \in Arg \cup {N} /\ (prob # "SE-PR" => argument \in Arg)
        /\ Running => CboInv /\ printed = <<>>
        /\ pc = "print" => printed = <<>> /\ Outcome(extension)
        /\ pc = "exit" => \/ printed = <<>> /\ Outcome({})
                          \/ \E S : printed = <<S>> /\ Outcome({S})

LEMMA CboCases ==
    ASSUME Settled, alg = "cbo", [Next]_vars
    PROVE  /\ UNCHANGED mainVars /\ prob \in {"SE-PR", "DC-PR", "DS-PR"}
           /\ \/ Cbo!Next /\ UNCHANGED printed
              \/ Return /\ pc = "done"
              \/ /\ pc = "print" /\ pc' = "exit"
                 /\ \/ extension = {} /\ printed' = printed
                    \/ \E S \in extension : printed' = Append(printed, S)
              \/ UNCHANGED vars
<1>1. prob \in {"SE-PR", "DC-PR", "DS-PR"}
    BY ProblemsAssumption DEF Settled
<1>2. CASE Solve
    BY <1>1, <1>2 DEF Solve
<1>3. CASE Return
    BY <1>1, <1>3 DEF Return
<1>4. CASE PrintComplete \/ PrintPreferred \/ ListPrinted
    BY <1>1, <1>4 DEF PrintComplete, PrintPreferred, ListPrinted
<1>5. CASE PrintOne
    <2>1. (CASE prob = "DC-CO" -> answer [] prob = "SE-ID" -> {ideal} [] OTHER -> extension)
            = extension
        BY <1>1
    <2> QED
        BY <1>1, <1>5, <2>1 DEF PrintOne
<1>6. CASE Exited \/ UNCHANGED vars
    BY <1>1, <1>6 DEF Exited, vars
<1> QED
    BY <1>2, <1>3, <1>4, <1>5, <1>6 DEF Next

LEMMA CboRunStep ==
    ASSUME Settled, CboRun, [Next]_vars
    PROVE  CboRun'
<1>1. UNCHANGED mainVars
    BY DEF Next, vars, mainVars, Solve, Return, PrintComplete, PrintPreferred,
           ListPrinted, PrintOne, Exited
<1>2. SUFFICES ASSUME alg = "cbo"
               PROVE  CboRun'
    BY <1>1 DEF CboRun, mainVars
<1>3. /\ base \in Framework /\ prob \in {"SE-PR", "DC-PR", "DS-PR"}
      /\ UNCHANGED <<alg, prob, base, argument>>
      /\ argument \in Arg \cup {N} /\ (prob # "SE-PR" => argument \in Arg)
      /\ (argument \in Arg \cup {N} /\ (prob # "SE-PR" => argument \in Arg))'
    BY <1>1, <1>2, CboCases DEF Settled, mainVars, CboRun
<1>4. \A ext : Outcome(ext) => Outcome(ext)'
    BY <1>3 DEF Outcome, NoneAround, Asked, SelfAttacking, StartOf, AttackedLike,
                ArgAttacksSet, ConflictFreeIn
<1>5. CASE Cbo!Next /\ UNCHANGED printed
    <2>1. Running /\ Running'
        BY <1>5
        DEF Running, Cbo!Next, Cbo!CallSmart, Cbo!CallPlain, Cbo!NoAttacker, Cbo!NoneLeft,
            Cbo!SmartSkip, Cbo!SmartTry, Cbo!SmartLeaf, Cbo!PlainSkip, Cbo!PlainTry,
            Cbo!PlainLeaf, Cbo!Resume, Cbo!HandUp, Cbo!Answered, Cbo!Counterexample,
            Cbo!NextAttacker, Cbo!Returned, Cbo!vars
    <2>2. CboProblem /\ printed = <<>>
        BY <1>2, <1>3, <2>1 DEF CboProblem, CboRun
    <2>3. CboInv'
        BY <1>3, <1>5, <2>2, CboNextInv
    <2> QED
        BY <1>3, <1>5, <2>1, <2>2, <2>3 DEF CboRun, Running
<1>6. CASE Return /\ pc = "done"
    <2>1. /\ pc' = "print" /\ printed = <<>> /\ Outcome(extension)
          /\ UNCHANGED <<printed, extension>>
        BY <1>2, <1>6 DEF Return, routineVars, cboVars, CboRun, Running, CboInv
    <2>2. Outcome(extension)'
        BY <1>3, <2>1 DEF Outcome, NoneAround, Asked, SelfAttacking, StartOf, AttackedLike,
                          ArgAttacksSet, ConflictFreeIn
    <2> QED
        BY <1>3, <2>1, <2>2 DEF CboRun, Running
<1>7. ASSUME pc = "print", pc' = "exit",
             \/ extension = {} /\ printed' = printed
             \/ \E S \in extension : printed' = Append(printed, S)
      PROVE  CboRun'
    <2>1. printed = <<>> /\ Outcome(extension)
        BY <1>2, <1>7 DEF CboRun
    <2>2. CASE extension = {} /\ printed' = printed
        <3>1. Outcome({})'
            BY <1>4, <2>1, <2>2
        <3> QED
            BY <1>3, <1>7, <2>1, <2>2, <3>1 DEF CboRun, Running
    <2>3. ASSUME NEW S \in extension, printed' = Append(printed, S)
          PROVE  CboRun'
        <3>1. Outcome({S})
            <4>1. extension = {S} \/ \A ext : Outcome(ext)
                BY <1>3, <2>1, <2>3 DEF Outcome
            <4> QED
                BY <2>1, <4>1
        <3>2. Outcome({S})'
            BY <1>4, <3>1
        <3>3. printed' = <<S>>
            BY <2>1, <2>3
        <3> QED
            BY <1>3, <1>7, <3>2, <3>3 DEF CboRun, Running
    <2> QED
        BY <1>7, <2>2, <2>3
<1>8. CASE UNCHANGED vars
    <2>1. UNCHANGED <<pc, printed, smart, stack, extension, k>>
        BY <1>8 DEF vars, routineVars, cboVars
    <2>2. CboInv => CboInv'
        BY <1>3, <2>1, CboStage DEF CboInv
    <2>3. Outcome(extension) => Outcome(extension)'
        BY <1>3, <2>1 DEF Outcome, NoneAround, Asked, SelfAttacking, StartOf, AttackedLike,
                          ArgAttacksSet, ConflictFreeIn
    <2>4. \A S : Outcome({S}) => Outcome({S})'
        BY <1>4
    <2>5. Outcome({}) => Outcome({})'
        BY <1>4
    <2> QED
        BY <1>2, <1>3, <2>1, <2>2, <2>3, <2>4, <2>5 DEF CboRun, Running
<1> QED
    BY <1>2, <1>5, <1>6, <1>7, <1>8, CboCases

-------------------------------------------------------------------------------
(* Frameworks in which every argument has as many victims as attackers.      *)

LEMMA ImageSize ==
    ASSUME NEW S, IsFiniteSet(S), NEW m, NEW T,
           \A x \in S : m[x] \in T,
           \A x, y \in S : m[x] = m[y] => x = y,
           \A y \in T : \E x \in S : m[x] = y
    PROVE  IsFiniteSet(T) /\ Cardinality(T) = Cardinality(S)
<1> DEFINE h == [x \in S |-> m[x]]
<1>1. h \in [S -> T] /\ \A x \in S : h[x] = m[x]
    OBVIOUS
<1> HIDE DEF h
<1>2. h \in Bijection(S, T)
    BY <1>1 DEF Bijection, Injection, Surjection, IsInjective
<1> QED
    BY <1>2, FS_Bijection DEF ExistsBijection

(* Then nothing leaves a set that holds its attackers: the attacks within    *)
(* it are as many as those from it.                                          *)
LEMMA BalancedClosed ==
    ASSUME NEW E, IsFiniteSet(E), NEW att \in [E -> SUBSET E], Balanced(att),
           NEW A \in SUBSET E, \A a \in A, x \in E : a \in att[x] => x \in A
    PROVE  \A a \in A : att[a] \subseteq A
<1> DEFINE from == {p \in A \X E : p[2] \in att[p[1]]}
           into == {p \in E \X A : p[2] \in att[p[1]]}
           back(a) == Transpose(att)[a]
<1>1. DOMAIN att = E /\ \A a \in E : back(a) = {x \in E : a \in att[x]}
    BY DEF Transpose
<1>2. \A a \in E : \E h : h \in Bijection(att[a], back(a))
    <2> TAKE a \in E
    <2>1. IsFiniteSet(att[a]) /\ IsFiniteSet(back(a))
        BY <1>1, FS_Subset
    <2>2. Cardinality(att[a]) = Cardinality(back(a))
        BY <1>1 DEF Balanced
    <2> HIDE DEF back
    <2> QED
        BY <2>1, <2>2, FS_SameCardinalityBij DEF ExistsBijection
<1> DEFINE bij == [a \in E |-> CHOOSE h : h \in Bijection(att[a], back(a))]
           m == [p \in from |-> <<bij[p[1]][p[2]], p[1]>>]
<1> HIDE DEF back
<1>3. \A a \in E : bij[a] \in Bijection(att[a], back(a))
    BY <1>2
<1> HIDE DEF bij
<1>4. \A a \in E : /\ \A b \in att[a] : bij[a][b] \in back(a)
                   /\ \A b, d \in att[a] : bij[a][b] = bij[a][d] => b = d
                   /\ \A x \in back(a) : \E b \in att[a] : bij[a][b] = x
    BY <1>3 DEF Bijection, Injection, Surjection, IsInjective
<1>5. IsFiniteSet(from) /\ into \subseteq from
    <2>1. IsFiniteSet(A) /\ IsFiniteSet(A \X E)
        BY FS_Subset, FS_Product
    <2> QED
        BY <2>1, FS_Subset
<1>6. \A p \in from : m[p] \in into
    <2> TAKE p \in from
    <2>1. p[1] \in A /\ p[2] \in att[p[1]] /\ m[p] = <<bij[p[1]][p[2]], p[1]>>
        OBVIOUS
    <2>2. bij[p[1]][p[2]] \in E /\ p[1] \in att[bij[p[1]][p[2]]]
        BY <1>1, <1>4, <2>1
    <2> QED
        BY <2>1, <2>2
<1>7. \A p, q \in from : m[p] = m[q] => p = q
    <2> SUFFICES ASSUME NEW p \in from, NEW q \in from, m[p] = m[q]
                 PROVE  p = q
        OBVIOUS
    <2>1. /\ p[1] \in A /\ p[2] \in att[p[1]] /\ q[2] \in att[q[1]]
          /\ p[1] = q[1] /\ bij[p[1]][p[2]] = bij[q[1]][q[2]]
        OBVIOUS
    <2>2. p[2] = q[2]
        BY <1>4, <2>1
    <2>3. p = <<p[1], p[2]>> /\ q = <<q[1], q[2]>>
        OBVIOUS
    <2> QED
        BY <2>1, <2>2, <2>3
<1>8. \A q \in into : \E p \in from : m[p] = q
    <2> TAKE q \in into
    <2>1. q[1] \in E /\ q[2] \in A /\ q[1] \in back(q[2]) /\ q = <<q[1], q[2]>>
        BY <1>1
    <2>2. PICK b \in att[q[2]] : bij[q[2]][b] = q[1]
        BY <1>4, <2>1
    <2>3. <<q[2], b>> \in from
        BY <2>1, <2>2
    <2>4. m[<<q[2], b>>] = <<bij[q[2]][b], q[2]>>
        BY <2>3
    <2> QED
        BY <2>1, <2>2, <2>3, <2>4
<1> HIDE DEF m
<1>9. Cardinality(into) = Cardinality(from)
    <2> HIDE DEF into, from
    <2> QED
        BY <1>5, <1>6, <1>7, <1>8, ImageSize
<1>10. into = from
    <2> HIDE DEF into, from
    <2> QED
        BY <1>5, <1>9, FS_Subset
<1> SUFFICES ASSUME NEW a \in A, NEW b \in att[a]
             PROVE  b \in A
    OBVIOUS
<1>11. <<a, b>> \in from
    OBVIOUS
<1> QED
    BY <1>10, <1>11

(* The part of it that holds all attackers is balanced as well.              *)
LEMMA BalancedProjected ==
    ASSUME NEW E, IsFiniteSet(E), NEW att \in [E -> SUBSET E], Balanced(att),
           NEW D, NEW m, WithAttackers(att, D, m), NEW f, f = Renamed(att, m)
    PROVE  Balanced(f)
<1> DEFINE A == {m[a] : a \in D}
<1>1. /\ DOMAIN m = D /\ DOMAIN att = E /\ \A a \in D : m[a] \in E
      /\ \A a, b \in D : m[a] = m[b] => a = b
    BY DEF WithAttackers
<1>2. /\ f \in [D -> SUBSET D]
      /\ \A a, b \in D : b \in f[a] <=> m[b] \in att[m[a]]
    BY <1>1, RenamedRow
<1>3. A \in SUBSET E /\ \A a \in A, x \in E : a \in att[x] => x \in A
    BY <1>1 DEF WithAttackers
<1>4. \A a \in A : att[a] \subseteq A
    <2> HIDE DEF A
    <2> QED
        BY <1>3, BalancedClosed
<1> SUFFICES ASSUME NEW a \in D
             PROVE  Cardinality(f[a]) = Cardinality(Transpose(f)[a])
    BY <1>2 DEF Balanced
<1> DEFINE rear == Transpose(f)[a]
<1>5. rear = {x \in D : a \in f[x]}
    BY <1>2 DEF Transpose
<1>6. Transpose(att)[m[a]] = {x \in E : m[a] \in att[x]}
    BY <1>1 DEF Transpose
<1> HIDE DEF rear
<1>7. IsFiniteSet(att[m[a]]) /\ IsFiniteSet(Transpose(att)[m[a]])
    BY <1>1, <1>6, FS_Subset
<1>8. IsFiniteSet(D)
    <2> DEFINE h == [x \in D |-> m[x]]
    <2>1. h \in Injection(D, E)
        BY <1>1 DEF Injection, IsInjective
    <2> QED
        BY <2>1, FS_Injection
<1>9. IsFiniteSet(f[a]) /\ IsFiniteSet(rear)
    BY <1>2, <1>5, <1>8, FS_Subset
<1>10. Cardinality(att[m[a]]) = Cardinality(f[a])
    <2>1. \A x \in f[a] : m[x] \in att[m[a]]
        BY <1>2
    <2>2. \A x, y \in f[a] : m[x] = m[y] => x = y
        BY <1>1, <1>2
    <2>3. \A y \in att[m[a]] : \E x \in f[a] : m[x] = y
        <3> TAKE y \in att[m[a]]
        <3>1. y \in A
            BY <1>4
        <3>2. PICK x \in D : m[x] = y
            BY <3>1
        <3> QED
            BY <1>2, <3>2
    <2> QED
        BY <1>9, <2>1, <2>2, <2>3, ImageSize
<1>11. Cardinality(Transpose(att)[m[a]]) = Cardinality(rear)
    <2>1. \A x \in rear : m[x] \in Transpose(att)[m[a]]
        BY <1>1, <1>2, <1>5, <1>6
    <2>2. \A x, y \in rear : m[x] = m[y] => x = y
        BY <1>1, <1>5
    <2>3. \A y \in Transpose(att)[m[a]] : \E x \in rear : m[x] = y
        BY <1>2, <1>3, <1>5, <1>6
    <2> QED
        BY <1>9, <2>1, <2>2, <2>3, ImageSize
<1>12. Cardinality(att[m[a]]) = Cardinality(Transpose(att)[m[a]])
    BY <1>1 DEF Balanced
<1> QED
    BY <1>10, <1>11, <1>12 DEF rear

(* Counting down the attackers of an argument from the number of its victims *)
(* is deciding whether it is defended, if the two numbers are the same.      *)
LEMMA CountdownRight ==
    ASSUME NEW D, IsFiniteSet(D), NEW att \in [D -> SUBSET D], Balanced(att),
           NEW r \in SUBSET D, NEW a \in D
    PROVE  Decide!CountedDown(att, r, a) <=> att[a] # {} /\ SetDefendsArg(att, r, a)
<1> DEFINE back == Transpose(att)[a]
           hit == back \cap Victims(att, r)
<1>1. DOMAIN att = D /\ back = {x \in D : a \in att[x]}
    BY DEF Transpose
<1>2. Decide!CountedDown(att, r, a) <=> att[a] # {} /\ Cardinality(hit) >= Cardinality(att[a])
    BY DEF Decide!CountedDown, Decide!Transpose, Transpose, Decide!Victims, Victims,
           Decide!SetAttacksArg, SetAttacksArg, Decide!Cardinality, Cardinality
<1>3. Cardinality(att[a]) = Cardinality(back)
    BY <1>1 DEF Balanced
<1>4. hit \subseteq back /\ IsFiniteSet(back)
    BY <1>1, FS_Subset
<1>5. SetDefendsArg(att, r, a) <=> hit = back
    BY <1>1 DEF Victims, SetDefendsArg, SetAttacksArg
<1> HIDE DEF hit, back
<1>6. Cardinality(hit) >= Cardinality(back) <=> hit = back
    <2>1. Cardinality(hit) <= Cardinality(back) /\ Cardinality(back) \in Nat
          /\ Cardinality(hit) \in Nat
        BY <1>4, FS_Subset, FS_CardinalityType
    <2>2. Cardinality(back) = Cardinality(hit) => back = hit
        BY <1>4, FS_Subset
    <2> QED
        BY <2>1, <2>2
<1> QED
    BY <1>2, <1>3, <1>5, <1>6

(* The rounds of closure_semi_complete_adj then reach the closure.           *)
LEMMA CountdownClosureRight ==
    ASSUME NEW D, IsFiniteSet(D), NEW att \in [D -> SUBSET D], Balanced(att),
           NEW s \in SUBSET D
    PROVE  Decide!CountdownClosure(att, att, s) = SemiClosure(att, s)
<1> DEFINE start == s \cup {a \in D : Decide!Transpose(att)[a] = {}}
           Step(r) == r \cup {a \in D : Decide!CountedDown(att, r, a)}
           w == CHOOSE f : f = [n \in Nat |->
                    IF n = 0 THEN start ELSE UNION {Step(r) : r \in {f[n-1]}}]
           last == Cardinality(D)
<1>1. PICK g \in [SUBSET D -> SUBSET D] : \A r \in SUBSET D : g[r] = Step(r)
    <2>1. [r \in SUBSET D |-> Step(r)] \in [SUBSET D -> SUBSET D]
        OBVIOUS
    <2> QED
        BY <2>1
<1>2. Decide!CountdownClosure(att, att, s) = w[last]
    BY DEF Decide!CountdownClosure, Decide!Cardinality, Cardinality
<1>3. start \in SUBSET D /\ s \subseteq start
    OBVIOUS
<1>4. \A r \in SUBSET D : r \subseteq g[r]
    BY <1>1
<1>5. \A a \in D : Decide!Transpose(att)[a] = {} <=> \A x \in D : a \notin att[x]
    BY DEF Decide!Transpose
<1>6. \A a \in start : a \in s \/ \A x \in D : a \notin att[x]
    BY <1>5
<1>7. \A a \in D : (\A x \in D : a \notin att[x]) => a \in start
    BY <1>5
<1>8. \A f : UNION {Step(r) : r \in {f}} = Step(f)
    OBVIOUS
<1>9. \A r \in SUBSET D : g[r] = r \cup {a \in D : att[a] # {} /\ SetDefendsArg(att, r, a)}
    BY <1>1, CountdownRight
<1> HIDE DEF start, Step, last
<1>10. w = [n \in Nat |-> IF n = 0 THEN start ELSE UNION {Step(r) : r \in {w[n-1]}}]
    <2>1. PICK f \in [Nat -> SUBSET D] : f[0] = start /\ \A n \in Nat : f[n+1] = g[f[n]]
        <3> DEFINE Sets == SUBSET D
        <3>1. start \in Sets /\ g \in [Sets -> Sets]
            BY <1>3
        <3> HIDE DEF w, Sets
        <3>2. \E f \in [Nat -> Sets] : f[0] = start /\ \A n \in Nat : f[n+1] = g[f[n]]
            BY <3>1, Rounds
        <3> QED
            BY <3>2 DEF Sets
    <2>2. ASSUME NEW n \in Nat, n # 0
          PROVE  f[n] = UNION {Step(r) : r \in {f[n-1]}}
        <3>1. n-1 \in Nat /\ n-1+1 = n
            BY <2>2
        <3>2. f[n-1] \in SUBSET D
            BY <3>1
        <3>3. f[n] = g[f[n-1]]
            BY <2>1, <3>1
        <3> QED
            BY <1>1, <1>8, <3>2, <3>3
    <2>3. f = [n \in Nat |-> IF n = 0 THEN start ELSE UNION {Step(r) : r \in {f[n-1]}}]
        BY <2>1, <2>2
    <2> QED
        BY <2>3
<1> HIDE DEF w
<1>11. w[0] = start /\ \A n \in Nat : w[n] \in SUBSET D => w[n+1] = g[w[n]]
    <2>1. w[0] = start
        BY <1>10
    <2>2. ASSUME NEW n \in Nat, w[n] \in SUBSET D
          PROVE  w[n+1] = g[w[n]]
        <3>1. n+1 \in Nat /\ n+1 # 0 /\ n+1-1 = n
            OBVIOUS
        <3>2. \A m \in Nat : m # 0 => w[m] = UNION {Step(r) : r \in {w[m-1]}}
            BY <1>10
        <3>3. w[n+1] = UNION {Step(r) : r \in {w[n]}}
            <4>1. w[n+1] = UNION {Step(r) : r \in {w[n+1-1]}}
                BY <3>1, <3>2
            <4> QED
                BY <3>1, <4>1
        <3>4. w[n+1] = Step(w[n])
            BY <1>8, <3>3
        <3> QED
            BY <1>1, <2>2, <3>4
    <2> QED
        BY <2>1, <2>2
<1>12. LeastFixedPoint(D, start, g, w[last])
    <2>1. AddingRounds(D, start, g, w)
        BY <1>3, <1>4, <1>11 DEF AddingRounds
    <2>2. last \in Nat /\ Cardinality(start) \in Nat
        BY <1>3, FS_CardinalityType, FS_Subset DEF last
    <2>3. Cardinality(start) + last >= Cardinality(D)
        BY <2>2 DEF last
    <2> QED
        BY <2>1, <2>2, <2>3, GrowthStops
<1> DEFINE end == w[last]
<1>13. /\ end \in SUBSET D /\ start \subseteq end /\ g[end] = end
       /\ \A S \in SUBSET D : start \subseteq S /\ (\A r \in SUBSET S : g[r] \subseteq S)
                                => end \subseteq S
    BY <1>12 DEF LeastFixedPoint
<1> HIDE DEF end
<1>14. DOMAIN att = D
    OBVIOUS
<1>15. SemiClosure(att, s) \subseteq end
    <2>1. SemiCompleteSet(att, end)
        <3> SUFFICES ASSUME NEW a \in D, SetDefendsArg(att, end, a)
                     PROVE  a \in end
            BY <1>14 DEF SemiCompleteSet
        <3>1. CASE att[a] = {}
            <4>1. Cardinality(Transpose(att)[a]) = 0
                <5>1. Cardinality(att[a]) = Cardinality(Transpose(att)[a])
                    BY <1>14 DEF Balanced
                <5> QED
                    BY <3>1, <5>1, FS_EmptySet
            <4>2. Transpose(att)[a] = {x \in D : a \in att[x]}
                BY <1>14 DEF Transpose
            <4>3. IsFiniteSet(Transpose(att)[a])
                BY <4>2, FS_Subset
            <4>4. Transpose(att)[a] = {}
                BY <4>1, <4>3, FS_EmptySet
            <4>5. a \in start
                BY <1>7, <4>2, <4>4
            <4> QED
                BY <1>13, <4>5
        <3>2. CASE att[a] # {}
            <4>1. a \in g[end]
                BY <1>9, <1>13, <3>2
            <4> QED
                BY <1>13, <4>1
        <3> QED
            BY <3>1, <3>2
    <2>2. s \subseteq end
        BY <1>3, <1>13
    <2> QED
        BY <1>13, <2>1, <2>2, ClosureLeastIn
<1>16. end \subseteq SemiClosure(att, s)
    <2>1. /\ SemiClosure(att, s) \in SUBSET D /\ s \subseteq SemiClosure(att, s)
          /\ SemiCompleteSet(att, SemiClosure(att, s))
        BY SemiClosureIsClosureIn
    <2>2. start \subseteq SemiClosure(att, s)
        <3> SUFFICES ASSUME NEW a \in start, a \notin s
                     PROVE  a \in SemiClosure(att, s)
            BY <2>1
        <3>1. a \in D /\ \A x \in D : a \notin att[x]
            BY <1>3, <1>6
        <3>2. SetDefendsArg(att, {}, a)
            BY <1>14, <3>1 DEF SetDefendsArg
        <3> QED
            BY <3>1, <3>2, ClosureKeepsDefendedIn
    <2>3. ASSUME NEW r \in SUBSET SemiClosure(att, s)
          PROVE  g[r] \subseteq SemiClosure(att, s)
        <3>1. r \in SUBSET D
            BY <2>1
        <3>2. \A a \in D : SetDefendsArg(att, r, a) => a \in SemiClosure(att, s)
            BY <3>1, ClosureKeepsDefendedIn
        <3> QED
            BY <1>9, <3>1, <3>2
    <2> QED
        BY <1>13, <2>1, <2>2, <2>3
<1> QED
    BY <1>2, <1>15, <1>16 DEF end

-------------------------------------------------------------------------------
(* DC-CO.                                                                    *)

LEMMA DecideOperators ==
    ASSUME NEW att, NEW t, NEW a, NEW b
    PROVE  /\ Decide!SemiClosure(att, t) = SemiClosure(att, t)
           /\ Decide!SelfDefending(att, t) <=> SelfDefending(att, t)
           /\ Decide!ArgAttacksSet(att, a, t) <=> ArgAttacksSet(att, a, t)
           /\ Decide!SetAttacksArg(att, t, a) <=> SetAttacksArg(att, t, a)
           /\ Decide!IsConflictFree(att, t) <=> ConflictFreeIn(att, t)
           /\ Decide!MapIndices(t, a) = MapIndices(t, a)
           /\ Decide!Renamed(att, a) = Renamed(att, a)
           /\ Decide!SwapArguments(att, a, b) = SwapArguments(att, a, b)
           /\ Decide!Cardinality(t) = Cardinality(t)
<1>1. Decide!SemiClosure(att, t) = SemiClosure(att, t)
    BY DEF Decide!SemiClosure, SemiClosure, Decide!SemiCompleteSet, SemiCompleteSet,
           Decide!SetDefendsArg, SetDefendsArg, Decide!SetAttacksArg, SetAttacksArg
<1>2. Decide!SelfDefending(att, t) <=> SelfDefending(att, t)
    BY DEF Decide!SelfDefending, SelfDefending, Decide!Victims, Victims,
           Decide!Transpose, Transpose, Decide!SetAttacksArg, SetAttacksArg
<1>3. /\ Decide!ArgAttacksSet(att, a, t) <=> ArgAttacksSet(att, a, t)
      /\ Decide!SetAttacksArg(att, t, a) <=> SetAttacksArg(att, t, a)
    BY DEF Decide!ArgAttacksSet, ArgAttacksSet, Decide!SetAttacksArg, SetAttacksArg
<1>4. Decide!IsConflictFree(att, t) <=> ConflictFreeIn(att, t)
    BY DEF Decide!IsConflictFree, ConflictFreeIn, Decide!ArgAttacksSet
<1>5. Decide!MapIndices(t, a) = MapIndices(t, a) /\ Decide!Cardinality(t) = Cardinality(t)
    BY DEF Decide!MapIndices, MapIndices, Decide!Cardinality, Cardinality
<1>6. \A m : Decide!Renamed(att, m) = Renamed(att, m)
    BY DEF Decide!Renamed, Renamed
<1>7. Decide!SwapArguments(att, a, b) = SwapArguments(att, a, b)
    BY <1>6 DEF Decide!SwapArguments, SwapArguments
<1> QED
    BY <1>1, <1>2, <1>3, <1>4, <1>5, <1>6, <1>7

(* The arguments of the framework that is searched.                          *)
Searched == DOMAIN af

(* What the routine has settled before its first closure.                    *)
DecideFixed ==
    /\ alg \in {"next-closure", "subgraph", "subgraph_adj"}
    /\ argument \in Arg
    /\ Cardinality(Searched) \in 1 .. N
    /\ Searched = 0 .. Cardinality(Searched) - 1
    /\ WithAttackers(base, Searched, parent_mapping)
    /\ alg = "next-closure" => \A x \in Arg : \E a \in Searched : parent_mapping[a] = x
    /\ af = Renamed(base, parent_mapping)
    /\ projected_argument \in Searched
    /\ parent_mapping[projected_argument] = argument

(* The swaps of the defender loop stay within the framework: what it has not *)
(* come to yet lies below the places it fills.                               *)
DecideMapping ==
    /\ PermutationOf(Searched, mapping)
    /\ attacks = Renamed(af, mapping)
    /\ pruning = FALSE
    /\ argument_index \in Searched
    /\ k \in -1 .. Cardinality(Searched) - 1
    /\ next_index_to_use \in k .. Cardinality(Searched) - 1

(* The closures are those of the definition.                                 *)
Fair == alg # "subgraph_adj" \/ Balanced(base)

(* What the run promises only if the argument is in front and, on adjacency  *)
(* lists, if these are those of the framework searched.                      *)
Reliable == Fair /\ InFront /\ (alg = "subgraph_adj" => attacks = af)

(* The answer is right.                                                      *)
Answered ==
    \/ \E S \in SUBSET Arg : answer = {S} /\ CompleteExt(base, S) /\ argument \in S
    \/ answer = {} /\ \A S \in SUBSET Arg : CompleteExt(base, S) => argument \notin S

(* The closure of the argument has not decided.                              *)
Undecided ==
    /\ answer = {}
    /\ Fair =>
        /\ projected_argument \notin af[projected_argument]
        /\ ~SelfDefending(af, {projected_argument})

DecideEntered == Searched \ tmp_complement

(* The sets the search stands at hold the argument in front and are quiet,   *)
(* and every complete extension that holds it lies ahead.                    *)
FrontSearch ==
    /\ i \in -1 .. Cardinality(Searched) - 1
    /\ 0 \in DecideEntered
    /\ tmp = {b \in DecideEntered : b <= i}
    /\ Quiet(attacks, DecideEntered)
    /\ \A T \in SUBSET Searched : CompleteExt(attacks, T) /\ 0 \in T => Ahead(tmp, i, T)

FrontCheck ==
    /\ current \in SUBSET Searched
    /\ 0 \in current
    /\ Quiet(attacks, current)
    /\ SemiCompleteSet(attacks, current) \/ ~SelfDefending(attacks, current)
    /\ \A T \in SUBSET Searched :
        CompleteExt(attacks, T) /\ 0 \in T => T = current \/ LecticLess(current, T)

DecidePhase ==
    /\ pc \in {"closure", "sort", "defenders", "check", "search", "done", "print", "exit"}
    /\ pc \in {"closure", "sort"} => attacks = af /\ k = Cardinality(Searched) - 1
    /\ pc = "closure" => answer = {}
    /\ pc \in {"sort", "defenders", "check", "search"} => Undecided
    /\ pc \in {"check", "search"} => k = -1
    /\ pc = "search" /\ Reliable => FrontSearch
    /\ pc = "check" /\ Reliable => FrontCheck
    /\ pc \in {"done", "print", "exit"} /\ Reliable => Answered

DecideInv == DecideFixed /\ DecideMapping /\ DecidePhase

(* The projection on the arguments that lead to the one asked for.           *)
LEMMA AncestorsRight ==
    ASSUME base \in Framework, argument \in Arg,
           NEW mask, mask = Decide!Ancestors(base, argument)
    PROVE  /\ mask \in SUBSET Arg /\ argument \in mask
           /\ \A a \in mask, x \in Arg : a \in base[x] => x \in mask
<1> DEFINE back == [b \in Arg |-> {x \in Arg : b \in base[x]}]
<1>1. DOMAIN base = Arg
    BY DEF Framework
<1>2. Decide!Backward(base, DOMAIN base) = back
    BY <1>1 DEF Decide!Backward
<1>3. mask = Visited(back, argument)
    <2>1. \A f, a : Decide!Visited(f, a) = Visited(f, a)
        BY DEF Decide!Visited, Visited, Decide!Cardinality, Cardinality
    <2>2. mask = Decide!Visited(Decide!Backward(base, DOMAIN base), argument)
        BY DEF Decide!Ancestors
    <2> HIDE DEF back
    <2> QED
        BY <1>2, <2>1, <2>2
<1>4. back \in [Arg -> SUBSET Arg]
    OBVIOUS
<1>5. IsFiniteSet(Arg)
    BY ArgFinite
<1> HIDE DEF back
<1>6. /\ mask \in SUBSET Arg /\ argument \in mask
      /\ \A a \in mask : back[a] \subseteq mask
    BY <1>3, <1>4, <1>5, VisitedRight
<1> QED
    BY <1>6 DEF back

(* The framework searched is a projection that keeps all attackers.         *)
LEMMA DecideProjected ==
    ASSUME base \in Framework, Decide!Init
    PROVE  DecideFixed
<1>1. /\ alg \in {"next-closure", "subgraph", "subgraph_adj"} /\ argument \in Arg
      /\ parent_mapping = IF alg = "next-closure" THEN [a \in 0 .. N-1 |-> a]
                          ELSE Decide!ParentMapping(Decide!Ancestors(base, argument))
      /\ af = Renamed(base, parent_mapping)
      /\ projected_argument = CHOOSE a \in Searched : parent_mapping[a] = argument
    BY DecideOperators DEF Decide!Init, Decide!Identity, Decide!Arg, Arg, Searched
<1>2. DOMAIN base = Arg /\ Searched = DOMAIN parent_mapping
    BY <1>1 DEF Framework, Searched, Renamed
<1>3. /\ Cardinality(Searched) \in 1 .. N
      /\ Searched = 0 .. Cardinality(Searched) - 1
      /\ WithAttackers(base, Searched, parent_mapping)
      /\ alg = "next-closure" => \A x \in Arg : \E a \in Searched : parent_mapping[a] = x
      /\ \E a \in Searched : parent_mapping[a] = argument
    <2>1. CASE alg = "next-closure"
        <3>1. parent_mapping = [a \in Arg |-> a]
            BY <1>1, <2>1 DEF Arg
        <3>2. Searched = Arg
            BY <1>2, <3>1
        <3>3. Cardinality(Searched) = N
            BY <3>2, ArgSize
        <3>4. WithAttackers(base, Searched, parent_mapping)
            BY <1>2, <3>1, <3>2 DEF WithAttackers
        <3>5. \A x \in Arg : x \in Searched /\ parent_mapping[x] = x
            BY <3>1, <3>2
        <3> QED
            BY <1>1, <3>2, <3>3, <3>4, <3>5, NAssumption DEF Arg
    <2>2. CASE alg # "next-closure"
        <3>1. PICK mask : mask = Decide!Ancestors(base, argument)
            OBVIOUS
        <3>2. /\ mask \in SUBSET Arg /\ argument \in mask
              /\ \A a \in mask, x \in Arg : a \in base[x] => x \in mask
            BY <1>1, <3>1, AncestorsRight
        <3>3. parent_mapping = ParentMapping(mask)
            BY <1>1, <2>2, <3>1
            DEF Decide!ParentMapping, ParentMapping, Decide!Cardinality, Cardinality
        <3>4. mask \in SUBSET Nat /\ IsFiniteSet(mask)
            <4>1. Arg \subseteq Nat
                BY NAssumption DEF Arg
            <4> QED
                BY <3>2, <4>1, ArgFinite
        <3>5. /\ Cardinality(mask) \in Nat
              /\ parent_mapping \in [0 .. Cardinality(mask)-1 -> mask]
              /\ \A x, y \in 0 .. Cardinality(mask)-1 :
                    parent_mapping[x] = parent_mapping[y] => x = y
              /\ \A a \in mask : \E x \in 0 .. Cardinality(mask)-1 : parent_mapping[x] = a
            BY <3>3, <3>4, ParentMappingRight
        <3>6. Searched = 0 .. Cardinality(mask)-1
            BY <1>2, <3>5
        <3>7. Cardinality(mask) \in 1 .. N
            <4>1. Cardinality(mask) <= N
                BY <3>2, ArgFinite, ArgSize
            <4>2. Cardinality(mask) # 0
                BY <3>2, <3>4, FS_EmptySet
            <4> QED
                BY <3>5, <4>1, <4>2, NAssumption
        <3>8. Cardinality(Searched) = Cardinality(mask)
            BY <3>6, <3>7, FS_Interval
        <3>9. WithAttackers(base, Searched, parent_mapping)
            <4>1. parent_mapping \in [Searched -> Arg]
                BY <3>2, <3>5, <3>6
            <4> QED
                BY <1>2, <3>2, <3>5, <3>6, <4>1 DEF WithAttackers
        <3>10. \E a \in Searched : parent_mapping[a] = argument
            BY <3>2, <3>5, <3>6
        <3> QED
            BY <2>2, <3>6, <3>7, <3>8, <3>9, <3>10
    <2> QED
        BY <2>1, <2>2
<1>4. projected_argument \in Searched /\ parent_mapping[projected_argument] = argument
    BY <1>1, <1>3
<1> QED
    BY <1>1, <1>3, <1>4 DEF DecideFixed

(* The framework searched and its size.                                      *)
LEMMA SearchedFacts ==
    ASSUME base \in Framework, DecideFixed
    PROVE  /\ af \in [Searched -> SUBSET Searched]
           /\ Cardinality(Searched) \in Nat \ {0}
           /\ Searched = 0 .. Cardinality(Searched) - 1
           /\ Searched \subseteq Arg /\ IsFiniteSet(Searched)
           /\ base \in [Arg -> SUBSET Arg]
           /\ parent_mapping \in [Searched -> Arg]
           /\ projected_argument \in Searched
<1>1. /\ Cardinality(Searched) \in 1 .. N
      /\ Searched = 0 .. Cardinality(Searched) - 1
      /\ WithAttackers(base, Searched, parent_mapping)
      /\ af = Renamed(base, parent_mapping)
      /\ projected_argument \in Searched
    BY DEF DecideFixed
<1>2. Searched \subseteq Arg
    BY <1>1, NAssumption DEF Arg
<1>3. base \in [Arg -> SUBSET Arg] /\ parent_mapping \in [Searched -> Arg]
    BY <1>1 DEF Framework, WithAttackers
<1>4. Renamed(base, parent_mapping) \in [Searched -> SUBSET Searched]
    <2>1. DOMAIN parent_mapping = Searched
        BY <1>3
    <2> HIDE DEF Searched
    <2> QED
        BY <2>1, RenamedRow
<1>5. IsFiniteSet(Searched)
    BY <1>2, ArgFinite
<1> QED
    BY <1>1, <1>2, <1>3, <1>4, <1>5, NAssumption

LEMMA DecideInitInv ==
    ASSUME base \in Framework, Decide!Init
    PROVE  DecideInv
<1>1. DecideFixed
    BY DecideProjected
<1>2. /\ af \in [Searched -> SUBSET Searched] /\ Cardinality(Searched) \in Nat \ {0}
      /\ Searched = 0 .. Cardinality(Searched) - 1
      /\ projected_argument \in Searched
    BY <1>1, SearchedFacts
<1>3. /\ attacks = af /\ pruning = FALSE /\ argument_index = projected_argument
      /\ answer = {} /\ pc = "closure"
    BY DEF Decide!Init
<1>4. Decide!Size = Cardinality(Searched)
    BY <1>3, DecideOperators DEF Decide!Size, Searched
<1>5. /\ mapping = [a \in Searched |-> a] /\ k = Cardinality(Searched) - 1
      /\ next_index_to_use = Cardinality(Searched) - 1
    BY <1>2, <1>4 DEF Decide!Init, Decide!Identity
<1>6. DecideMapping
    <2>1. Renamed(af, mapping) = af /\ PermutationOf(Searched, mapping)
        <3> HIDE DEF Searched
        <3> QED
            BY <1>2, <1>5, RenamedIdentity
    <2> QED
        BY <1>2, <1>3, <1>5, <2>1 DEF DecideMapping
<1>7. DecidePhase
    BY <1>3, <1>5 DEF DecidePhase
<1> QED
    BY <1>1, <1>6, <1>7 DEF DecideInv

(* Where a run is fair, ClosureIn closes.                                    *)
LEMMA FairClosures ==
    ASSUME base \in Framework, DecideFixed, Fair
    PROVE  /\ \A X \in SUBSET Searched : Decide!ClosureIn(af, af, X) = SemiClosure(af, X)
           /\ \A Y \in SUBSET Arg : Decide!ClosureIn(base, base, Y) = SemiClosure(base, Y)
<1>1. CASE alg # "subgraph_adj"
    BY <1>1, DecideOperators DEF Decide!ClosureIn
<1>2. CASE alg = "subgraph_adj"
    <2>1. /\ af \in [Searched -> SUBSET Searched] /\ IsFiniteSet(Searched)
          /\ base \in [Arg -> SUBSET Arg] /\ IsFiniteSet(Arg)
          /\ WithAttackers(base, Searched, parent_mapping)
          /\ af = Renamed(base, parent_mapping)
          /\ Balanced(base)
        BY <1>2, SearchedFacts, ArgFinite DEF DecideFixed, Fair
    <2> HIDE DEF Searched
    <2>2. Balanced(af)
        BY <2>1, BalancedProjected
    <2>3. \A X \in SUBSET Searched : Decide!CountdownClosure(af, af, X) = SemiClosure(af, X)
        BY <2>1, <2>2, CountdownClosureRight
    <2>4. \A Y \in SUBSET Arg : Decide!CountdownClosure(base, base, Y) = SemiClosure(base, Y)
        BY <2>1, CountdownClosureRight
    <2> QED
        BY <1>2, <2>3, <2>4 DEF Decide!ClosureIn
<1> QED
    BY <1>1, <1>2

(* A complete extension of the framework searched is handed back as one of   *)
(* the framework read.                                                       *)
LEMMA ResultRight ==
    ASSUME base \in Framework, DecideFixed, Fair,
           NEW S, CompleteExt(af, S), projected_argument \in S
    PROVE  /\ Decide!Result(S) \in SUBSET Arg
           /\ CompleteExt(base, Decide!Result(S))
           /\ argument \in Decide!Result(S)
<1> DEFINE T == MapIndices(S, parent_mapping)
<1>1. /\ base \in [Arg -> SUBSET Arg] /\ WithAttackers(base, Searched, parent_mapping)
      /\ af = Renamed(base, parent_mapping)
      /\ parent_mapping[projected_argument] = argument
    BY SearchedFacts DEF DecideFixed
<1>2. CompleteExt(Renamed(base, parent_mapping), S)
    BY <1>1
<1>3. /\ T \in SUBSET Arg /\ Admissible(base, T)
      /\ (\A x \in Arg : \E a \in Searched : parent_mapping[a] = x) => CompleteExt(base, T)
    <2> HIDE DEF Searched
    <2> QED
        BY <1>1, <1>2, ProjectedBack
<1>4. argument \in T
    BY <1>1 DEF MapIndices
<1> HIDE DEF T
<1>5. CASE alg = "next-closure"
    <2>1. Decide!Result(S) = T
        BY <1>5, DecideOperators DEF Decide!Result, T
    <2>2. \A x \in Arg : \E a \in Searched : parent_mapping[a] = x
        BY <1>5 DEF DecideFixed
    <2> QED
        BY <1>3, <1>4, <2>1, <2>2
<1>6. CASE alg # "next-closure"
    <2>1. Decide!Result(S) = Decide!ClosureIn(base, base, T)
        BY <1>6, DecideOperators DEF Decide!Result, T
    <2>2. Decide!Result(S) = SemiClosure(base, T)
        BY <1>3, <2>1, FairClosures
    <2>3. T \subseteq SemiClosure(base, T) /\ CompleteExt(base, SemiClosure(base, T))
        BY <1>3, AdmissibleClosure
    <2>4. SemiClosure(base, T) \in SUBSET Arg
        BY <1>3, SemiClosureIsClosure
    <2> QED
        BY <1>4, <2>2, <2>3, <2>4
<1> QED
    BY <1>5, <1>6

(* If no complete extension of the framework searched holds the argument,    *)
(* none of the framework read does.                                          *)
LEMMA NoneRight ==
    ASSUME base \in Framework, DecideFixed, NEW S \in SUBSET Arg, CompleteExt(base, S),
           argument \in S
    PROVE  \E T \in SUBSET Searched : CompleteExt(af, T) /\ projected_argument \in T
<1>1. /\ base \in [Arg -> SUBSET Arg] /\ WithAttackers(base, Searched, parent_mapping)
      /\ af = Renamed(base, parent_mapping)
      /\ projected_argument \in Searched
      /\ parent_mapping[projected_argument] = argument
    BY SearchedFacts DEF DecideFixed
<1> HIDE DEF Searched
<1>2. CompleteExt(af, Standing(Searched, parent_mapping, S))
    BY <1>1, ProjectedComplete
<1>3. projected_argument \in Standing(Searched, parent_mapping, S)
    BY <1>1 DEF Standing
<1>4. Standing(Searched, parent_mapping, S) \subseteq Searched
    BY DEF Standing
<1> QED
    BY <1>2, <1>3, <1>4

(* The closure of the argument, if it is conflict-free and defends itself,   *)
(* is complete; if it has a conflict, no complete extension holds the        *)
(* argument; else the argument alone has no conflict and does not defend     *)
(* itself.                                                                   *)
LEMMA ClosureDecides ==
    ASSUME base \in Framework, DecideFixed,
           NEW p, p = projected_argument, NEW next, next = SemiClosure(af, {p})
    PROVE  /\ p \in next
           /\ ConflictFreeIn(af, next) /\ SelfDefending(af, next) => CompleteExt(af, next)
           /\ ~ConflictFreeIn(af, next) =>
                \A T \in SUBSET Searched : CompleteExt(af, T) => p \notin T
           /\ ConflictFreeIn(af, next) => p \notin af[p]
           /\ ~SelfDefending(af, next) => ~SelfDefending(af, {p})
<1>1. af \in [Searched -> SUBSET Searched] /\ p \in Searched
    BY SearchedFacts
<1> HIDE DEF Searched
<1>2. {p} \in SUBSET Searched
    BY <1>1
<1>3. next \in SUBSET Searched /\ {p} \subseteq next /\ SemiCompleteSet(af, next)
    BY <1>1, <1>2, SemiClosureIsClosureIn
<1>4. ASSUME ConflictFreeIn(af, next)
      PROVE  Quiet(af, next) /\ p \notin af[p]
    BY <1>3, <1>4 DEF ConflictFreeIn, Quiet
<1>5. ASSUME ConflictFreeIn(af, next), SelfDefending(af, next)
      PROVE  CompleteExt(af, next)
    BY <1>1, <1>3, <1>4, <1>5, QuietCompleteIn
<1>6. ASSUME NEW T \in SUBSET Searched, CompleteExt(af, T), p \in T
      PROVE  ConflictFreeIn(af, next)
    <2>1. SemiCompleteSet(af, T) /\ \A a, b \in T : b \notin af[a]
        BY <1>1, <1>6, CompleteFactsIn
    <2>2. next \subseteq T
        <3>1. {p} \subseteq T
            BY <1>6
        <3> QED
            BY <1>1, <2>1, <3>1, ClosureLeastIn
    <2> QED
        BY <2>1, <2>2 DEF ConflictFreeIn
<1>7. ASSUME SelfDefending(af, {p})
      PROVE  SelfDefending(af, next)
    <2> SUFFICES ASSUME NEW a \in next, NEW b \in Searched, a \in af[b]
                 PROVE  SetAttacksArg(af, next, b)
        BY <1>1, <1>3, SelfDefendingIn
    <2>1. DOMAIN af = Searched
        BY <1>1
    <2>2. CASE a = p
        <3>1. SetAttacksArg(af, {p}, b)
            BY <1>1, <1>2, <1>7, <2>2, SelfDefendingIn
        <3> QED
            BY <1>3, <3>1 DEF SetAttacksArg
    <2>3. CASE a # p
        <3>1. SetDefendsArg(af, next, a)
            BY <1>1, <1>2, <2>3, AddedIsDefendedIn
        <3> QED
            BY <2>1, <3>1 DEF SetDefendsArg
    <2> QED
        BY <2>2, <2>3
<1> QED
    BY <1>3, <1>4, <1>5, <1>6, <1>7

LEMMA FirstClosureInv ==
    ASSUME base \in Framework, DecideInv, Decide!FirstClosure
    PROVE  DecideInv'
<1> DEFINE closure == Decide!ClosureIn(af, af, {projected_argument})
<1>1. /\ DecideFixed /\ DecideMapping /\ pc = "closure" /\ attacks = af
      /\ k = Cardinality(Searched) - 1 /\ answer = {}
    BY DEF DecideInv, DecidePhase, Decide!FirstClosure
<1>2. /\ UNCHANGED <<attacks, pruning, alg, base, argument, af, parent_mapping,
                     projected_argument, mapping, argument_index, next_index_to_use, k>>
      /\ pc' \in {"done", "sort"}
      /\ ~ConflictFreeIn(af, closure) => pc' = "done" /\ answer' = {}
      /\ ConflictFreeIn(af, closure) /\ SelfDefending(af, closure) =>
            pc' = "done" /\ answer' = {Decide!Result(closure)}
      /\ ConflictFreeIn(af, closure) /\ ~SelfDefending(af, closure) =>
            pc' = "sort" /\ answer' = {}
      /\ pc' = "sort" =>
            /\ ConflictFreeIn(af, closure) /\ ~SelfDefending(af, closure)
            /\ answer' = {}
    BY DecideOperators DEF Decide!FirstClosure, Decide!dcVars
<1> HIDE DEF closure
<1>3. DecideFixed' /\ DecideMapping'
    BY <1>1, <1>2 DEF DecideFixed, DecideMapping, Searched, WithAttackers
<1>4. ASSUME Fair
      PROVE  closure = SemiClosure(af, {projected_argument})
    <2>1. {projected_argument} \in SUBSET Searched
        BY <1>1, SearchedFacts
    <2> QED
        BY <1>1, <1>4, <2>1, FairClosures DEF closure
<1>5. CASE pc' = "sort"
    <2>1. Undecided'
        <3>1. answer' = {}
            BY <1>2, <1>5
        <3>2. ASSUME Fair
              PROVE  /\ projected_argument \notin af[projected_argument]
                     /\ ~SelfDefending(af, {projected_argument})
            BY <1>1, <1>2, <1>4, <1>5, <3>2, ClosureDecides
        <3>3. Fair' <=> Fair
            BY <1>2 DEF Fair, Balanced, Transpose
        <3> QED
            BY <1>2, <3>1, <3>2, <3>3 DEF Undecided, SelfDefending, Victims, SetAttacksArg,
                                           Transpose
    <2> QED
        BY <1>1, <1>2, <1>3, <1>5, <2>1 DEF DecideInv, DecidePhase, Searched
<1>6. CASE pc' = "done"
    <2>1. ASSUME Fair
          PROVE  Answered'
        <3>1. CASE ~ConflictFreeIn(af, closure)
            <4>1. answer' = {}
                BY <1>2, <3>1
            <4>2. \A T \in SUBSET Searched : CompleteExt(af, T) => projected_argument \notin T
                BY <1>1, <1>4, <2>1, <3>1, ClosureDecides
            <4>3. \A S \in SUBSET Arg : CompleteExt(base, S) => argument \notin S
                BY <1>1, <4>2, NoneRight
            <4> QED
                BY <1>2, <4>1, <4>3 DEF Answered
        <3>2. CASE ConflictFreeIn(af, closure) /\ SelfDefending(af, closure)
            <4>1. answer' = {Decide!Result(closure)}
                BY <1>2, <3>2
            <4>2. CompleteExt(af, closure) /\ projected_argument \in closure
                BY <1>1, <1>4, <2>1, <3>2, ClosureDecides
            <4>3. PICK S \in SUBSET Arg : S = Decide!Result(closure) /\ CompleteExt(base, S)
                                            /\ argument \in S
                BY <1>1, <2>1, <4>2, ResultRight
            <4> QED
                BY <1>2, <4>1, <4>3 DEF Answered
        <3> QED
            BY <1>2, <1>6, <3>1, <3>2
    <2>2. Fair' <=> Fair
        BY <1>2 DEF Fair, Balanced, Transpose
    <2> QED
        BY <1>2, <1>3, <1>6, <2>1, <2>2 DEF DecideInv, DecidePhase, Reliable
<1> QED
    BY <1>2, <1>5, <1>6

(* The reliability of the run does not change any more once the argument     *)
(* has been moved.                                                           *)
LEMMA FairStays ==
    ASSUME UNCHANGED <<alg, base>>
    PROVE  Fair' <=> Fair
BY DEF Fair, Balanced, Transpose

LEMMA UndecidedStays ==
    ASSUME Undecided, UNCHANGED <<alg, base, af, projected_argument, answer>>
    PROVE  Undecided'
<1>1. Fair' <=> Fair
    BY FairStays
<1> QED
    BY <1>1 DEF Undecided, SelfDefending, Victims, SetAttacksArg, Transpose

LEMMA DecideFixedStays ==
    ASSUME DecideFixed, UNCHANGED <<alg, argument, base, af, parent_mapping, projected_argument>>
    PROVE  DecideFixed' /\ Searched' = Searched
BY DEF DecideFixed, Searched, WithAttackers

LEMMA DecideMappingStep ==
    ASSUME Searched' = Searched, UNCHANGED <<af, pruning>>, pruning = FALSE,
           PermutationOf(Searched, mapping'), attacks' = Renamed(af, mapping'),
           argument_index' \in Searched,
           k' \in -1 .. Cardinality(Searched) - 1,
           next_index_to_use' \in k' .. Cardinality(Searched) - 1
    PROVE  DecideMapping'
<1>1. PermutationOf(Searched', mapping')
    <2> HIDE DEF Searched
    <2> QED
        OBVIOUS
<1>2. /\ argument_index' \in Searched'
      /\ k' \in -1 .. Cardinality(Searched') - 1
      /\ next_index_to_use' \in k' .. Cardinality(Searched') - 1
    <2> HIDE DEF Searched
    <2> QED
        OBVIOUS
<1> QED
    BY <1>1, <1>2 DEF DecideMapping, Searched, PermutationOf

LEMMA SortInv ==
    ASSUME base \in Framework, DecideInv, Decide!Sort
    PROVE  DecideInv'
<1>1. /\ DecideFixed /\ DecideMapping /\ Undecided /\ k = Cardinality(Searched) - 1
      /\ IsFiniteSet(Searched) /\ projected_argument \in Searched
    BY SearchedFacts DEF DecideInv, DecidePhase, Decide!Sort
<1>2. /\ UNCHANGED <<pruning, alg, base, argument, af, parent_mapping, projected_argument,
                     next_index_to_use, k, answer>>
      /\ pc' = "defenders"
      /\ mapping' \in [Searched -> Searched]
      /\ \A a, b \in Searched : mapping'[a] = mapping'[b] => a = b
      /\ attacks' = Renamed(af, mapping')
      /\ argument_index' = CHOOSE a \in Searched : mapping'[a] = projected_argument
    BY DecideOperators DEF Decide!Sort, Decide!Sorted, Searched
<1>3. PermutationOf(Searched, mapping')
    <2> HIDE DEF Searched
    <2> QED
        BY <1>1, <1>2, InjectivePermutationOf
<1>4. argument_index' \in Searched
    BY <1>1, <1>2, <1>3 DEF PermutationOf
<1>5. DecideFixed' /\ DecideMapping'
    <2>1. DecideFixed' /\ Searched' = Searched
        BY <1>1, <1>2, DecideFixedStays
    <2>2. /\ pruning = FALSE /\ k' \in -1 .. Cardinality(Searched) - 1
          /\ next_index_to_use' \in k' .. Cardinality(Searched) - 1
        BY <1>1, <1>2 DEF DecideMapping
    <2> QED
        BY <1>2, <1>3, <1>4, <2>1, <2>2, DecideMappingStep
<1>6. Undecided'
    BY <1>1, <1>2, UndecidedStays
<1> QED
    BY <1>1, <1>2, <1>5, <1>6 DEF DecideInv, DecidePhase

(* A swap keeps the framework searched the one it was called for, renamed.   *)
LEMMA SwapInv ==
    ASSUME base \in Framework, DecideFixed, DecideMapping, NEW x \in Searched, NEW y \in Searched,
           Decide!Swap(x, y), UNCHANGED <<af, projected_argument>>
    PROVE  /\ PermutationOf(Searched, mapping')
           /\ attacks' = Renamed(af, mapping')
           /\ mapping'[x] = mapping[y]
<1>1. /\ attacks' = SwapArguments(attacks, x, y)
      /\ mapping' = [mapping EXCEPT ![x] = mapping[y], ![y] = mapping[x]]
    BY DecideOperators DEF Decide!Swap
<1>2. PermutationOf(Searched, mapping) /\ attacks = Renamed(af, mapping)
    BY DEF DecideMapping
<1> HIDE DEF Searched
<1>3. mapping \in [Searched -> Searched]
    BY <1>2 DEF PermutationOf
<1>4. /\ mapping' \in [Searched -> Searched]
      /\ mapping'[x] = mapping[y] /\ mapping'[y] = mapping[x]
      /\ \A a \in Searched : a # x /\ a # y => mapping'[a] = mapping[a]
    BY <1>1, <1>3
<1>5. PICK n : n = mapping'
    OBVIOUS
<1>6. PermutationOf(Searched, n) /\ SwapArguments(attacks, x, y) = Renamed(af, n)
    BY <1>2, <1>4, <1>5, SwapRenamed
<1> QED
    BY <1>1, <1>4, <1>5, <1>6

LEMMA MoveDefenderInv ==
    ASSUME base \in Framework, DecideInv, Decide!MoveDefender
    PROVE  DecideInv'
<1>1. /\ DecideFixed /\ DecideMapping /\ Undecided /\ k >= 0
      /\ Searched = 0 .. Cardinality(Searched) - 1 /\ Cardinality(Searched) \in Nat \ {0}
      /\ argument_index \in Searched
      /\ k \in -1 .. Cardinality(Searched) - 1
      /\ next_index_to_use \in k .. Cardinality(Searched) - 1
    BY SearchedFacts DEF DecideInv, DecideMapping, DecidePhase, Decide!MoveDefender
<1>2. /\ UNCHANGED <<pruning, pc, alg, base, argument, af, parent_mapping, projected_argument,
                     argument_index, answer>>
      /\ pc = "defenders" /\ k' = k - 1 /\ next_index_to_use' = next_index_to_use - 1
      /\ Decide!Swap(next_index_to_use, k)
    BY DEF Decide!MoveDefender
<1>3. k \in Searched /\ next_index_to_use \in Searched
    BY <1>1
<1>4. PermutationOf(Searched, mapping') /\ attacks' = Renamed(af, mapping')
    BY <1>1, <1>2, <1>3, SwapInv
<1>5. DecideFixed' /\ DecideMapping'
    <2>1. /\ k' \in -1 .. Cardinality(Searched) - 1
          /\ next_index_to_use' \in k' .. Cardinality(Searched) - 1
        BY <1>1, <1>2
    <2>2. DecideFixed' /\ Searched' = Searched
        BY <1>1, <1>2, DecideFixedStays
    <2>3. pruning = FALSE
        BY <1>1 DEF DecideMapping
    <2> QED
        BY <1>1, <1>2, <1>4, <2>1, <2>2, <2>3, DecideMappingStep
<1>6. Undecided'
    BY <1>1, <1>2, UndecidedStays
<1> QED
    BY <1>2, <1>5, <1>6 DEF DecideInv, DecidePhase

LEMMA LeaveInPlaceInv ==
    ASSUME base \in Framework, DecideInv, Decide!LeaveInPlace
    PROVE  DecideInv'
<1>1. /\ DecideFixed /\ DecideMapping /\ Undecided /\ k >= 0
      /\ Cardinality(Searched) \in Nat \ {0}
      /\ k \in -1 .. Cardinality(Searched) - 1
      /\ next_index_to_use \in k .. Cardinality(Searched) - 1
    BY SearchedFacts DEF DecideInv, DecideMapping, DecidePhase, Decide!LeaveInPlace
<1>2. /\ UNCHANGED <<attacks, pruning, pc, alg, base, argument, af, parent_mapping,
                     projected_argument, mapping, argument_index, next_index_to_use, answer>>
      /\ pc = "defenders" /\ k' = k - 1
    BY DEF Decide!LeaveInPlace, Decide!searchVars
<1>3. DecideFixed' /\ DecideMapping'
    <2>1. /\ k' \in -1 .. Cardinality(Searched) - 1
          /\ next_index_to_use' \in k' .. Cardinality(Searched) - 1
        BY <1>1, <1>2
    <2> QED
        BY <1>1, <1>2, <2>1
        DEF DecideFixed, DecideMapping, Searched, WithAttackers, PermutationOf
<1>4. Undecided'
    BY <1>1, <1>2, UndecidedStays
<1> QED
    BY <1>2, <1>3, <1>4 DEF DecideInv, DecidePhase

(* The argument alone, in front.                                             *)
LEMMA FrontStart ==
    ASSUME base \in Framework, DecideFixed, Undecided, Fair,
           NEW m, PermutationOf(Searched, m), m[0] = projected_argument,
           NEW f, f = Renamed(af, m)
    PROVE  /\ {0} \in SUBSET Searched
           /\ Quiet(f, {0})
           /\ ~SelfDefending(f, {0})
           /\ \A T \in SUBSET Searched : 0 \in T => T = {0} \/ LecticLess({0}, T)
<1> DEFINE p == projected_argument
<1>1. /\ af \in [Searched -> SUBSET Searched] /\ p \in Searched
      /\ 0 \in Searched /\ Searched \subseteq Arg
    BY SearchedFacts
<1>2. p \notin af[p] /\ ~SelfDefending(af, {p})
    BY DEF Undecided
<1> HIDE DEF Searched
<1>3. /\ f \in [Searched -> SUBSET Searched]
      /\ \A a, b \in Searched : b \in f[a] <=> m[b] \in af[m[a]]
    <2>1. DOMAIN m = Searched
        BY DEF PermutationOf
    <2> QED
        BY <2>1, RenamedRow
<1>4. Quiet(f, {0})
    <2>1. 0 \notin f[0]
        BY <1>1, <1>2, <1>3
    <2> QED
        BY <2>1 DEF Quiet
<1>5. ASSUME SelfDefending(f, {0})
      PROVE  SelfDefending(af, {p})
    <2>1. {0} \in SUBSET Searched /\ {p} \in SUBSET Searched
        BY <1>1
    <2>2. \A b \in Searched : 0 \in f[b] => b \in f[0]
        BY <1>3, <1>5, <2>1, SelfDefendingIn DEF SetAttacksArg
    <2>3. ASSUME NEW x \in Searched, p \in af[x]
          PROVE  x \in af[p]
        <3>1. PICK b \in Searched : m[b] = x
            BY DEF PermutationOf
        <3> QED
            BY <1>1, <1>3, <2>2, <2>3, <3>1
    <2>4. \A a \in {p}, b \in Searched : a \in af[b] => SetAttacksArg(af, {p}, b)
        BY <2>3 DEF SetAttacksArg
    <2> QED
        BY <1>1, <2>1, <2>4, SelfDefendingIn
<1>6. ASSUME NEW T \in SUBSET Searched, 0 \in T, T # {0}
      PROVE  LecticLess({0}, T)
    <2>1. T \in SUBSET Arg /\ {0} \in SUBSET Arg
        BY <1>1
    <2>2. ~LecticLess(T, {0})
        BY <1>6 DEF LecticLess
    <2> QED
        BY <1>6, <2>1, <2>2, LecticTotal
<1> QED
    BY <1>1, <1>2, <1>4, <1>5, <1>6

LEMMA MoveArgumentInv ==
    ASSUME base \in Framework, DecideInv, Decide!MoveArgument
    PROVE  DecideInv'
<1>1. /\ DecideFixed /\ DecideMapping /\ Undecided
      /\ Searched = 0 .. Cardinality(Searched) - 1 /\ Cardinality(Searched) \in Nat \ {0}
      /\ argument_index \in Searched
      /\ k \in -1 .. Cardinality(Searched) - 1
      /\ next_index_to_use \in k .. Cardinality(Searched) - 1
    BY SearchedFacts DEF DecideInv, DecideMapping, DecidePhase, Decide!MoveArgument
<1>2. /\ UNCHANGED <<pruning, alg, base, argument, af, parent_mapping, projected_argument,
                     argument_index, next_index_to_use, k, answer>>
      /\ pc' = "check" /\ k < 0 /\ current' = {0}
      /\ Decide!Swap(0, argument_index)
    BY DEF Decide!MoveArgument
<1>3. PermutationOf(Searched, mapping') /\ attacks' = Renamed(af, mapping')
    <2>1. 0 \in Searched
        BY <1>1
    <2> QED
        BY <1>1, <1>2, <2>1, SwapInv
<1>4. DecideFixed' /\ DecideMapping'
    <2>1. DecideFixed' /\ Searched' = Searched
        BY <1>1, <1>2, DecideFixedStays
    <2>2. pruning = FALSE
        BY <1>1 DEF DecideMapping
    <2> QED
        BY <1>1, <1>2, <1>3, <2>1, <2>2, DecideMappingStep
<1>5. Undecided'
    BY <1>1, <1>2, UndecidedStays
<1>6. ASSUME Reliable'
      PROVE  FrontCheck'
    <2>1. mapping'[0] = projected_argument /\ Fair
        BY <1>2, <1>6, FairStays DEF Reliable, InFront
    <2>2. /\ {0} \in SUBSET Searched
          /\ Quiet(attacks', {0})
          /\ ~SelfDefending(attacks', {0})
          /\ \A T \in SUBSET Searched : 0 \in T => T = {0} \/ LecticLess({0}, T)
        BY <1>1, <1>3, <2>1, FrontStart
    <2>3. Searched' = Searched
        BY <1>2 DEF Searched
    <2> HIDE DEF Searched
    <2> QED
        BY <1>2, <2>2, <2>3 DEF FrontCheck, Quiet, SelfDefending, Victims, SetAttacksArg,
                                Transpose
<1>7. k' = -1
    BY <1>1, <1>2
<1> QED
    BY <1>2, <1>4, <1>5, <1>6, <1>7 DEF DecideInv, DecidePhase

(* What holds while a reliable run searches.                                 *)
LEMMA FrontFacts ==
    ASSUME base \in Framework, DecideInv, pc \in {"check", "search"}, Reliable
    PROVE  /\ DecideFixed /\ Undecided /\ Fair
           /\ attacks \in [Searched -> SUBSET Searched]
           /\ attacks = Renamed(af, mapping) /\ af \in [Searched -> SUBSET Searched]
           /\ PermutationOf(Searched, mapping)
           /\ mapping[0] = projected_argument /\ pruning = FALSE
           /\ Searched \subseteq Arg /\ 0 \in Searched
           /\ Cardinality(Searched) \in Nat
           /\ Searched = 0 .. Cardinality(Searched) - 1
           /\ DOMAIN attacks = Searched /\ Decide!Size = Cardinality(Searched)
           /\ \A X \in SUBSET Searched : Decide!ClosureIn(attacks, af, X)
                                            = SemiClosure(attacks, X)
<1>1. DecideFixed /\ DecideMapping /\ Undecided /\ k = -1 /\ Fair /\ InFront
    BY DEF DecideInv, DecidePhase, Reliable
<1>2. /\ af \in [Searched -> SUBSET Searched] /\ Searched \subseteq Arg
      /\ Cardinality(Searched) \in Nat \ {0}
      /\ Searched = 0 .. Cardinality(Searched) - 1
    BY <1>1, SearchedFacts
<1>3. /\ PermutationOf(Searched, mapping) /\ attacks = Renamed(af, mapping)
      /\ pruning = FALSE
    BY <1>1 DEF DecideMapping
<1>4. 0 \in Searched /\ mapping[0] = projected_argument
    BY <1>1, <1>2 DEF InFront
<1>5. attacks \in [Searched -> SUBSET Searched]
    <2> HIDE DEF Searched
    <2>1. DOMAIN mapping = Searched
        BY <1>3 DEF PermutationOf
    <2> QED
        BY <1>3, <2>1, RenamedRow
<1>6. DOMAIN attacks = Searched /\ Decide!Size = Cardinality(Searched)
    BY <1>5, DecideOperators DEF Decide!Size
<1>7. ASSUME NEW X \in SUBSET Searched
      PROVE  Decide!ClosureIn(attacks, af, X) = SemiClosure(attacks, X)
    <2>1. CASE alg = "subgraph_adj"
        <3>1. attacks = af
            BY <2>1 DEF Reliable
        <3> QED
            BY <1>1, <3>1, FairClosures
    <2>2. CASE alg # "subgraph_adj"
        BY <2>2, DecideOperators DEF Decide!ClosureIn
    <2> QED
        BY <2>1, <2>2
<1> QED
    BY <1>1, <1>2, <1>3, <1>4, <1>5, <1>6, <1>7

(* A step of the search keeps what has been settled; what it has to show is  *)
(* where a reliable run stands.                                              *)
LEMMA SearchInv ==
    ASSUME base \in Framework, DecideInv, pc \in {"check", "search"},
           UNCHANGED <<attacks, pruning, Decide!dcVars>>,
           pc' \in {"check", "search", "done"}, pc' # "done" => answer' = answer,
           Reliable => /\ pc' = "search" => FrontSearch'
                       /\ pc' = "check" => FrontCheck'
                       /\ pc' = "done" => Answered'
    PROVE  DecideInv'
<1>1. /\ DecideFixed /\ DecideMapping /\ Undecided /\ k = -1
      /\ UNCHANGED <<attacks, pruning, alg, base, argument, af, parent_mapping,
                     projected_argument, mapping, argument_index, next_index_to_use, k>>
    BY DEF DecideInv, DecidePhase, Decide!dcVars
<1>2. DecideFixed' /\ Searched' = Searched
    BY <1>1, DecideFixedStays
<1>3. DecideMapping'
    BY <1>1 DEF DecideMapping, Searched, PermutationOf
<1>4. pc' # "done" => Undecided'
    BY <1>1, UndecidedStays
<1>5. Reliable' <=> Reliable
    BY <1>1, FairStays DEF Reliable, InFront
<1> QED
    BY <1>1, <1>2, <1>3, <1>4, <1>5 DEF DecideInv, DecidePhase

(* A complete extension that begins like tmp with i holds both.              *)
LEMMA FrontBegins ==
    ASSUME base \in Framework, DecideInv, pc = "search", Reliable, i >= 0, i \notin tmp,
           NEW T \in SUBSET Searched, CompleteExt(attacks, T), i \in T,
           SameBelow(tmp, T, i)
    PROVE  /\ tmp \cup {i} \subseteq T
           /\ \A a, b \in T : b \notin attacks[a]
           /\ SemiClosure(attacks, tmp \cup {i}) \subseteq T
<1>1. /\ attacks \in [Searched -> SUBSET Searched] /\ Searched \subseteq Arg
      /\ FrontSearch
    BY FrontFacts DEF DecideInv, DecidePhase
<1>2. /\ i \in -1 .. Cardinality(Searched) - 1
      /\ tmp = {b \in DecideEntered : b <= i} /\ DecideEntered \subseteq Searched
    BY <1>1 DEF FrontSearch, DecideEntered
<1> HIDE DEF Searched
<1>3. \A b \in tmp : b \in Arg /\ b < i
    BY <1>1, <1>2, NAssumption DEF Arg
<1>4. tmp \cup {i} \subseteq T
    BY <1>3 DEF SameBelow
<1>5. SemiCompleteSet(attacks, T) /\ \A a, b \in T : b \notin attacks[a]
    BY <1>1, CompleteFactsIn
<1>6. SemiClosure(attacks, tmp \cup {i}) \subseteq T
    BY <1>1, <1>4, <1>5, ClosureLeastIn
<1> QED
    BY <1>4, <1>5, <1>6

(* Leaving index i behind.                                                   *)
LEMMA FrontPass ==
    ASSUME base \in Framework, DecideInv, pc = "search", i >= 0, pc' = "search",
           tmp' = tmp \ {i}, i' = i - 1,
           UNCHANGED <<attacks, pruning, tmp_complement, answer, Decide!dcVars>>,
           Reliable => \A T \in SUBSET Searched : CompleteExt(attacks, T) =>
                             ~(i \in T /\ i \notin tmp /\ SameBelow(tmp, T, i))
    PROVE  DecideInv'
<1>1. ASSUME Reliable
      PROVE  FrontSearch'
    <2>1. /\ Searched \subseteq Arg /\ Cardinality(Searched) \in Nat
          /\ Searched = 0 .. Cardinality(Searched) - 1 /\ FrontSearch
        BY <1>1, FrontFacts DEF DecideInv, DecidePhase
    <2>2. Searched' = Searched /\ attacks' = attacks
        BY DEF Searched, Decide!dcVars
    <2>3. DecideEntered' = DecideEntered /\ DecideEntered \subseteq Searched
        BY <2>2 DEF DecideEntered
    <2>4. tmp = {b \in DecideEntered : b <= i} /\ i \in Searched
        BY <2>1 DEF FrontSearch
    <2> HIDE DEF Searched
    <2>5. tmp \in SUBSET Arg /\ i \in Arg
        BY <2>1, <2>3, <2>4
    <2>6. tmp' = {b \in DecideEntered : b <= i - 1}
        <3>1. \A b \in DecideEntered : b \in Arg
            BY <2>1, <2>3
        <3>2. \A b \in DecideEntered : b <= i /\ b # i <=> b <= i - 1
            BY <2>5, <3>1, NAssumption DEF Arg
        <3> QED
            BY <2>4, <3>2
    <2>7. ASSUME NEW T \in SUBSET Searched, CompleteExt(attacks, T), 0 \in T
          PROVE  Ahead(tmp', i', T)
        <3>1. Ahead(tmp, i, T) /\ T \in SUBSET Arg
            BY <2>1, <2>7 DEF FrontSearch
        <3>2. ~(i \in T /\ i \notin tmp /\ SameBelow(tmp, T, i))
            BY <1>1, <2>7
        <3> QED
            BY <2>5, <3>1, <3>2, AheadStep
    <2>8. i' \in -1 .. Cardinality(Searched) - 1
        BY <2>1 DEF FrontSearch
    <2> QED
        BY <2>1, <2>2, <2>3, <2>6, <2>7, <2>8 DEF FrontSearch, Quiet
<1> QED
    BY <1>1, SearchInv

LEMMA DecideDropInv ==
    ASSUME base \in Framework, DecideInv, Decide!Drop, UNCHANGED <<Decide!dcVars, answer>>
    PROVE  DecideInv'
<1>1. /\ pc = "search" /\ pc' = "search" /\ i >= 0 /\ i \in tmp
      /\ tmp' = tmp \ {i} /\ i' = i - 1
      /\ UNCHANGED <<attacks, pruning, tmp_complement>>
    BY DEF Decide!Drop, Decide!Searching
<1> QED
    BY <1>1, FrontPass

LEMMA DecideSkipInv ==
    ASSUME base \in Framework, DecideInv, Decide!Skip, UNCHANGED <<Decide!dcVars, answer>>
    PROVE  DecideInv'
<1>1. /\ pc = "search" /\ pc' = "search" /\ i >= 0 /\ i \notin tmp
      /\ tmp' = tmp \ {i} /\ i' = i - 1
      /\ UNCHANGED <<attacks, pruning, tmp_complement>>
    BY DEF Decide!Skip, Decide!Searching
<1>2. ASSUME Reliable, NEW T \in SUBSET Searched, CompleteExt(attacks, T), i \in T,
             SameBelow(tmp, T, i)
      PROVE  FALSE
    <2>1. tmp \cup {i} \subseteq T /\ \A a, b \in T : b \notin attacks[a]
        BY <1>1, <1>2, FrontBegins
    <2>2. Decide!InConflict(attacks, tmp, i)
        BY <1>1, <1>2, FrontFacts DEF Decide!Skip
    <2> QED
        BY <2>1, <2>2
        DEF Decide!InConflict, Decide!ArgAttacksArg, Decide!ArgAttacksSet,
            Decide!SetAttacksArg
<1> QED
    BY <1>1, <1>2, FrontPass

LEMMA DecideCloseInv ==
    ASSUME base \in Framework, DecideInv, Decide!Close, UNCHANGED <<Decide!dcVars, answer>>
    PROVE  DecideInv'
<1> DEFINE X == tmp \cup {i}
           next == Decide!ClosureIn(attacks, af, X)
           accepted == /\ \A b \in next \ tmp : b >= i
                       /\ \A b \in next : b > i => ~(/\ ArgAttacksSet(attacks, b, next)
                                                     /\ SetAttacksArg(attacks, X, b))
<1>1. /\ pc = "search" /\ i >= 0 /\ i \notin tmp
      /\ current' = next
      /\ i \notin attacks[i] /\ ~SetAttacksArg(attacks, tmp, i)
      /\ UNCHANGED <<attacks, pruning, tmp, tmp_complement>>
    BY DecideOperators
    DEF Decide!Close, Decide!CloseTo, Decide!Searching, Decide!InConflict,
        Decide!ArgAttacksArg
<1>2. IF accepted THEN pc' = "check" /\ i' = i ELSE pc' = pc /\ i' = i - 1
    BY <1>1, DecideOperators
    DEF Decide!Close, Decide!CloseTo, Decide!Canonical, Decide!ConflictAbove
<1> HIDE DEF next
<1>3. ASSUME Reliable
      PROVE  /\ attacks \in [Searched -> SUBSET Searched] /\ Searched \subseteq Arg
             /\ i \in Searched /\ FrontSearch
             /\ tmp = {b \in DecideEntered : b <= i} /\ DecideEntered \subseteq Searched
             /\ 0 \in tmp
             /\ X \in SUBSET Searched /\ next = SemiClosure(attacks, X)
             /\ next \in SUBSET Searched /\ X \subseteq next
             /\ SemiCompleteSet(attacks, next)
    <2>1. /\ attacks \in [Searched -> SUBSET Searched] /\ Searched \subseteq Arg
          /\ FrontSearch /\ Searched = 0 .. Cardinality(Searched) - 1
          /\ Cardinality(Searched) \in Nat
          /\ \A Y \in SUBSET Searched : Decide!ClosureIn(attacks, af, Y)
                                            = SemiClosure(attacks, Y)
        BY <1>1, <1>3, FrontFacts DEF DecideInv, DecidePhase
    <2>2. /\ i \in Searched /\ tmp = {b \in DecideEntered : b <= i} /\ 0 \in tmp
          /\ DecideEntered \subseteq Searched
        BY <1>1, <2>1 DEF FrontSearch, DecideEntered
    <2> HIDE DEF Searched
    <2>3. X \in SUBSET Searched
        BY <2>2
    <2>4. next = SemiClosure(attacks, X)
        BY <2>1, <2>3 DEF next
    <2>5. next \in SUBSET Searched /\ X \subseteq next /\ SemiCompleteSet(attacks, next)
        BY <2>1, <2>3, <2>4, SemiClosureIsClosureIn
    <2> QED
        BY <2>1, <2>2, <2>3, <2>4, <2>5
<1>4. ASSUME Reliable, NEW T \in SUBSET Searched, CompleteExt(attacks, T), i \in T,
             SameBelow(tmp, T, i)
      PROVE  X \subseteq T /\ next \subseteq T /\ \A a, b \in T : b \notin attacks[a]
    BY <1>1, <1>3, <1>4, FrontBegins
<1>5. CASE ~accepted
    <2>1. ASSUME Reliable, NEW T \in SUBSET Searched, CompleteExt(attacks, T), i \in T,
                 SameBelow(tmp, T, i)
          PROVE  FALSE
        <3>1. X \subseteq T /\ next \subseteq T /\ \A a, b \in T : b \notin attacks[a]
            BY <1>4, <2>1
        <3>2. \A b \in next : ~(ArgAttacksSet(attacks, b, next) /\ SetAttacksArg(attacks, X, b))
            BY <3>1 DEF SetAttacksArg
        <3>3. PICK b \in next \ tmp : ~(b >= i)
            BY <1>5, <3>2
        <3>4. b \in Arg /\ i \in Arg /\ b \in T
            BY <1>3, <2>1, <3>1, <3>3
        <3>5. b < i
            BY <3>3, <3>4, NAssumption DEF Arg
        <3> QED
            BY <2>1, <3>3, <3>4, <3>5 DEF SameBelow
    <2>2. tmp' = tmp \ {i} /\ i' = i - 1 /\ pc' = "search"
        BY <1>1, <1>2, <1>5
    <2> QED
        BY <1>1, <2>1, <2>2, FrontPass
<1>6. CASE accepted
    <2>1. pc' = "check" /\ i' = i
        BY <1>2, <1>6
    <2>2. ASSUME Reliable
          PROVE  FrontCheck'
        <3>1. Quiet(attacks, next)
            <4>1. Quiet(attacks, tmp)
                BY <1>3, <2>2, QuietPart DEF FrontSearch
            <4>2. Quiet(attacks, X)
                BY <1>1, <4>1, QuietAdd
            <4>3. i \in Arg /\ next \in SUBSET Arg
                BY <1>3, <2>2
            <4>4. \A b \in next \ X : b > i
                BY <1>6, <4>3, NAssumption DEF Arg
            <4>5. \A b \in next \ X : ~(/\ ArgAttacksSet(attacks, b, next)
                                        /\ SetAttacksArg(attacks, X, b))
                BY <1>6, <4>4
            <4> HIDE DEF Searched, X
            <4> QED
                BY <1>3, <2>2, <4>2, <4>5, ClosureQuietIn
        <3>2. ASSUME NEW T \in SUBSET Searched, CompleteExt(attacks, T), 0 \in T
              PROVE  T = next \/ LecticLess(next, T)
            <4>1. Ahead(tmp, i, T)
                BY <1>3, <2>2, <3>2 DEF FrontSearch
            <4>2. tmp \subseteq next /\ \A b \in next \ tmp : b >= i
                BY <1>3, <1>6, <2>2
            <4>3. i \in T /\ i \notin tmp /\ SameBelow(tmp, T, i) => next \subseteq T
                BY <1>4, <2>2, <3>2
            <4>4. /\ T \in SUBSET Arg /\ next \in SUBSET Arg /\ tmp \in SUBSET Arg
                  /\ i \in Arg
                BY <1>3, <2>2
            <4> QED
                BY <4>1, <4>2, <4>3, <4>4, AcceptedOrAbove
        <3>3. Searched' = Searched /\ attacks' = attacks /\ current' = next
            BY <1>1 DEF Searched, Decide!dcVars
        <3>4. 0 \in next
            BY <1>3, <2>2
        <3> HIDE DEF Searched
        <3> QED
            BY <1>3, <2>2, <3>1, <3>2, <3>3, <3>4
            DEF FrontCheck, Quiet, SemiCompleteSet, SetDefendsArg, SetAttacksArg
    <2> QED
        BY <1>1, <2>1, <2>2, SearchInv
<1> QED
    BY <1>5, <1>6

LEMMA DecideExhaustedInv ==
    ASSUME base \in Framework, DecideInv, Decide!Exhausted,
           UNCHANGED <<Decide!dcVars, answer>>
    PROVE  DecideInv'
<1>1. /\ pc = "search" /\ pc' = "done" /\ i < 0
      /\ UNCHANGED <<attacks, pruning, base, argument, answer>>
    BY DEF Decide!Exhausted, Decide!dcVars
<1>2. ASSUME Reliable
      PROVE  Answered'
    <2>1. /\ DecideFixed /\ FrontSearch /\ Searched \subseteq Arg /\ 0 \in Searched
          /\ af \in [Searched -> SUBSET Searched] /\ PermutationOf(Searched, mapping)
          /\ mapping[0] = projected_argument /\ attacks = Renamed(af, mapping)
          /\ answer = {}
        BY <1>1, <1>2, FrontFacts DEF DecideInv, DecidePhase, Undecided
    <2>2. ASSUME NEW S \in SUBSET Arg, CompleteExt(base, S), argument \in S
          PROVE  FALSE
        <3>1. PICK T \in SUBSET Searched : CompleteExt(af, T) /\ projected_argument \in T
            BY <2>1, <2>2, NoneRight
        <3>2. /\ CompleteExt(attacks, Standing(Searched, mapping, T))
              /\ 0 \in Standing(Searched, mapping, T)
              /\ Standing(Searched, mapping, T) \in SUBSET Searched
            <4> HIDE DEF Searched
            <4>1. WithAttackers(af, Searched, mapping)
                BY <2>1, PermutationWithAttackers
            <4>2. CompleteExt(Renamed(af, mapping), Standing(Searched, mapping, T))
                BY <2>1, <3>1, <4>1, ProjectedComplete
            <4> QED
                BY <2>1, <3>1, <4>2 DEF Standing
        <3>3. Ahead(tmp, i, Standing(Searched, mapping, T))
            BY <2>1, <3>2 DEF FrontSearch
        <3>4. i \in Int
            BY <2>1 DEF FrontSearch
        <3> QED
            BY <1>1, <3>3, <3>4, NAssumption DEF Ahead, Arg
    <2> QED
        BY <1>1, <2>1, <2>2 DEF Answered
<1> QED
    BY <1>1, <1>2, SearchInv

LEMMA DecideAnswerInv ==
    ASSUME base \in Framework, DecideInv, Decide!Answer
    PROVE  DecideInv'
<1> DEFINE back == MapIndices(current, mapping)
<1>1. /\ pc = "check" /\ pc' = "done" /\ SelfDefending(attacks, current)
      /\ answer' = {Decide!Result(back)}
      /\ UNCHANGED <<attacks, pruning, base, argument, Decide!dcVars>>
    BY DecideOperators DEF Decide!Answer, Decide!dcVars
<1> HIDE DEF back
<1>2. ASSUME Reliable
      PROVE  Answered'
    <2>1. /\ DecideFixed /\ Fair /\ FrontCheck /\ Searched \subseteq Arg
          /\ attacks \in [Searched -> SUBSET Searched]
          /\ af \in [Searched -> SUBSET Searched] /\ PermutationOf(Searched, mapping)
          /\ mapping[0] = projected_argument /\ attacks = Renamed(af, mapping)
        BY <1>1, <1>2, FrontFacts DEF DecideInv, DecidePhase
    <2> HIDE DEF Searched
    <2>2. /\ current \in SUBSET Searched /\ 0 \in current
          /\ CompleteExt(Renamed(af, mapping), current)
        BY <1>1, <2>1, QuietCompleteIn DEF FrontCheck
    <2>3. WithAttackers(af, Searched, mapping) /\ \A x \in Searched : \E a \in Searched : mapping[a] = x
        BY <2>1, PermutationWithAttackers DEF PermutationOf
    <2>4. CompleteExt(af, back)
        BY <2>1, <2>2, <2>3, ProjectedBack DEF back
    <2>5. projected_argument \in back
        BY <2>1, <2>2 DEF back, MapIndices
    <2>6. PICK S \in SUBSET Arg : /\ S = Decide!Result(back)
                                  /\ CompleteExt(base, S) /\ argument \in S
        BY <2>1, <2>4, <2>5, ResultRight
    <2> QED
        BY <1>1, <2>6 DEF Answered
<1> QED
    BY <1>1, <1>2, SearchInv

LEMMA DecidePassInv ==
    ASSUME base \in Framework, DecideInv, Decide!Pass
    PROVE  DecideInv'
<1>1. /\ pc = "check" /\ pc' = "search" /\ ~SelfDefending(attacks, current)
      /\ tmp' = current /\ tmp_complement' = DOMAIN attacks \ current
      /\ i' = Decide!Size - 1
      /\ UNCHANGED <<attacks, pruning, current, Decide!dcVars, answer>>
    BY DecideOperators DEF Decide!Pass, Decide!Enter
<1>2. ASSUME Reliable
      PROVE  FrontSearch'
    <2>1. /\ FrontCheck /\ Searched \subseteq Arg
          /\ attacks \in [Searched -> SUBSET Searched]
          /\ DOMAIN attacks = Searched /\ Decide!Size = Cardinality(Searched)
          /\ Cardinality(Searched) \in Nat /\ Searched = 0 .. Cardinality(Searched) - 1
        BY <1>1, <1>2, FrontFacts DEF DecideInv, DecidePhase
    <2>2. Searched' = Searched /\ attacks' = attacks
        BY <1>1 DEF Searched, Decide!dcVars
    <2>3. DecideEntered' = current
        BY <1>1, <2>1, <2>2 DEF DecideEntered, FrontCheck
    <2>4. \A b \in current : b <= Cardinality(Searched) - 1
        <3>1. \A b \in Searched : b <= Cardinality(Searched) - 1
            BY <2>1
        <3> HIDE DEF Searched
        <3> QED
            BY <2>1, <3>1 DEF FrontCheck
    <2>5. tmp' = {b \in DecideEntered' : b <= i'}
        BY <1>1, <2>1, <2>3, <2>4
    <2>6. ASSUME NEW T \in SUBSET Searched, CompleteExt(attacks, T), 0 \in T
          PROVE  Ahead(tmp', i', T)
        <3>1. T # current
            <4> HIDE DEF Searched
            <4> QED
                BY <1>1, <2>1, <2>6, CompleteFactsIn
        <3>2. LecticLess(current, T)
            BY <2>1, <2>6, <3>1 DEF FrontCheck
        <3>3. PICK l \in Arg : l \in T /\ l \notin current /\ SameBelow(current, T, l)
            BY <3>2 DEF LecticLess
        <3>4. l <= i'
            BY <1>1, <2>1, <3>3
        <3> QED
            BY <1>1, <3>3, <3>4 DEF Ahead
    <2>7. i' \in -1 .. Cardinality(Searched) - 1
        BY <1>1, <2>1
    <2> HIDE DEF Searched
    <2> QED
        BY <2>1, <2>2, <2>3, <2>5, <2>6, <2>7 DEF FrontSearch, FrontCheck, Quiet
<1> QED
    BY <1>1, <1>2, SearchInv

(* Returning and printing leave the routine's state alone.                   *)
LEMMA DecideStays ==
    ASSUME DecideInv,
           UNCHANGED <<alg, base, argument, i, k, attacks, current, searchVars, decideVars>>,
           pc' = pc \/ {pc, pc'} \subseteq {"done", "print", "exit"}
    PROVE  DecideInv'
<1>1. /\ DecideFixed /\ DecideMapping /\ DecidePhase
      /\ UNCHANGED <<pruning, tmp, tmp_complement, af, parent_mapping, projected_argument,
                     mapping, argument_index, next_index_to_use, answer>>
    BY DEF DecideInv, searchVars, decideVars
<1>2. DecideFixed' /\ Searched' = Searched
    BY <1>1, DecideFixedStays
<1>3. DecideMapping'
    BY <1>1 DEF DecideMapping, Searched, PermutationOf
<1>4. Undecided => Undecided'
    BY <1>1, UndecidedStays
<1>5. Reliable' <=> Reliable
    BY <1>1, FairStays DEF Reliable, InFront
<1>6. FrontSearch' <=> FrontSearch
    BY <1>1 DEF FrontSearch, DecideEntered, Searched, Quiet
<1>7. FrontCheck' <=> FrontCheck
    BY <1>1 DEF FrontCheck, Searched, Quiet, SemiCompleteSet, SetDefendsArg, SetAttacksArg,
                SelfDefending, Victims, Transpose
<1>8. Answered' <=> Answered
    BY <1>1 DEF Answered
<1> QED
    BY <1>1, <1>2, <1>3, <1>4, <1>5, <1>6, <1>7, <1>8 DEF DecideInv, DecidePhase, Searched

LEMMA DecideNextInv ==
    ASSUME base \in Framework, DecideInv, Decide!Next
    PROVE  DecideInv'
<1>1. CASE Decide!Search
    BY <1>1, DecideDropInv, DecideSkipInv, DecideCloseInv, DecideExhaustedInv
    DEF Decide!Search
<1>2. CASE Decide!Returned
    <2>1. UNCHANGED <<alg, base, argument, i, k, attacks, current, searchVars, decideVars, pc>>
        BY <1>2 DEF Decide!Returned, Decide!vars, Decide!searchVars, Decide!dcVars,
                    searchVars, decideVars
    <2> QED
        BY <2>1, DecideStays
<1> QED
    BY <1>1, <1>2, FirstClosureInv, SortInv, MoveDefenderInv, LeaveInPlaceInv,
       MoveArgumentInv, DecideAnswerInv, DecidePassInv
    DEF Decide!Next

DecideRun ==
    prob = "DC-CO" =>
        /\ DecideInv
        /\ pc # "exit" => printed = <<>>
        /\ pc = "exit" => \/ answer = {} /\ printed = <<>>
                          \/ \E S \in answer : printed = <<S>>

LEMMA DecideCases ==
    ASSUME Settled, prob = "DC-CO", [Next]_vars
    PROVE  /\ UNCHANGED mainVars
           /\ \/ Decide!Next /\ UNCHANGED printed
              \/ Return /\ pc = "done"
              \/ PrintOne
              \/ UNCHANGED vars
<1>1. alg # "cbo"
    BY ProblemsAssumption DEF Settled
<1>2. CASE Solve
    BY <1>1, <1>2 DEF Solve
<1>3. CASE Return
    BY <1>3 DEF Return
<1>4. CASE PrintComplete
    BY <1>4 DEF PrintComplete
<1>5. CASE PrintPreferred
    BY <1>5 DEF PrintPreferred
<1>6. CASE ListPrinted
    BY <1>6 DEF ListPrinted
<1>7. CASE PrintOne
    BY <1>7 DEF PrintOne
<1>8. CASE Exited \/ UNCHANGED vars
    BY <1>8 DEF Exited, vars
<1> QED
    BY <1>2, <1>3, <1>4, <1>5, <1>6, <1>7, <1>8 DEF Next

LEMMA DecideRunStep ==
    ASSUME Settled, DecideRun, [Next]_vars
    PROVE  DecideRun'
<1>1. SUFFICES ASSUME prob' = "DC-CO"
               PROVE  DecideRun'
    BY DEF DecideRun
<1>2. prob = "DC-CO" /\ UNCHANGED mainVars
    BY <1>1 DEF Next, vars, mainVars, Solve, Return, PrintComplete, PrintPreferred,
                ListPrinted, PrintOne, Exited
<1>3. base \in Framework /\ DecideInv /\ UNCHANGED <<alg, base, argument>>
    BY <1>2 DEF DecideRun, Settled, mainVars
<1>4. CASE Decide!Next /\ UNCHANGED printed
    <2>1. DecideInv'
        BY <1>3, <1>4, DecideNextInv
    <2>2. pc # "exit" /\ pc' # "exit"
        BY <1>4
        DEF Decide!Next, Decide!FirstClosure, Decide!Sort, Decide!MoveDefender,
            Decide!LeaveInPlace, Decide!MoveArgument, Decide!Search, Decide!Drop,
            Decide!Skip, Decide!Close, Decide!CloseTo, Decide!Exhausted,
            Decide!Searching, Decide!Answer, Decide!Pass, Decide!Enter,
            Decide!Returned, Decide!vars, Decide!searchVars
    <2> QED
        BY <1>2, <1>4, <2>1, <2>2 DEF DecideRun
<1>5. CASE Return /\ pc = "done"
    <2>1. /\ UNCHANGED <<i, k, attacks, current, searchVars, decideVars, printed>>
          /\ pc' = "print"
        BY <1>2, <1>5 DEF Return, routineVars
    <2>2. DecideInv'
        BY <1>3, <1>5, <2>1, DecideStays
    <2> QED
        BY <1>2, <1>5, <2>1, <2>2 DEF DecideRun
<1>6. CASE PrintOne
    <2>1. /\ UNCHANGED <<i, k, attacks, current, searchVars, decideVars>>
          /\ pc = "print" /\ pc' = "exit"
        BY <1>6 DEF PrintOne, routineVars
    <2>2. DecideInv'
        BY <1>3, <2>1, DecideStays
    <2>3. printed = <<>> /\ answer' = answer
        BY <1>2, <2>1 DEF DecideRun, decideVars
    <2>4. \/ answer = {} /\ printed' = printed
          \/ \E S \in answer : printed' = Append(printed, S)
        BY <1>2, <1>6 DEF PrintOne
    <2>5. \A S : Append(printed, S) = <<S>>
        BY <2>3
    <2> QED
        BY <1>2, <2>1, <2>2, <2>3, <2>4, <2>5 DEF DecideRun
<1>7. CASE UNCHANGED vars
    <2>1. /\ UNCHANGED <<i, k, attacks, current, searchVars, decideVars, printed, pc>>
          /\ answer' = answer
        BY <1>7 DEF vars, routineVars, decideVars
    <2>2. DecideInv'
        BY <1>3, <2>1, DecideStays
    <2> QED
        BY <1>2, <2>1, <2>2 DEF DecideRun
<1> QED
    BY <1>2, <1>4, <1>5, <1>6, <1>7, DecideCases

-------------------------------------------------------------------------------
(* What holds initially.                                                     *)

LEMMA InitSettled ==
    ASSUME Init
    PROVE  Settled
<1>1. <<alg, prob>> \in Problems
    <2>1. PICK problem \in Problems : alg = problem[1] /\ prob = problem[2]
        BY DEF Init
    <2>2. problem = <<problem[1], problem[2]>>
        BY ProblemsAssumption
    <2> QED
        BY <2>1, <2>2
<1>2. input \in Framework
    BY InputsAssumption DEF Init, Read
<1>3. order \in [Arg -> Arg] /\ Permutation(order)
    <2>1. CASE order = Unsorted
        BY <2>1 DEF Unsorted, Permutation
    <2>2. CASE order # Unsorted
        <3>1. PICK criterion \in criteria, ascending \in BOOLEAN :
                  order \in Orders(input, criterion, ascending)
            BY <2>2 DEF Init, Read
        <3>2. order \in Permutations(Arg)
            BY <1>2, <3>1 DEF Orders, Framework
        <3> QED
            BY <3>2, InjectivePermutation DEF Permutations
    <2> QED
        BY <2>1, <2>2
<1>4. base \in Framework
    <2>1. CASE attacks = base /\ Complete!Init
        BY <2>1, CompleteOperators DEF Complete!Init
    <2>2. CASE Decide!Init
        BY <2>2 DEF Decide!Init
    <2>3. CASE attacks = base /\ Preferred!IdealInit
        BY <2>3 DEF Preferred!IdealInit, Preferred!Init
    <2>4. CASE Cbo!Init
        BY <2>4 DEF Cbo!Init
    <2> QED
        BY <2>1, <2>2, <2>3, <2>4 DEF Init
<1> QED
    BY <1>1, <1>2, <1>3, <1>4 DEF Settled

LEMMA CompleteRunInit ==
    ASSUME Init
    PROVE  CompleteRun
<1>1. SUFFICES ASSUME prob = "EE-CO"
               PROVE  CompleteInv /\ Running /\ printed = <<>> /\ pc # "exit"
    BY DEF CompleteRun
<1>2. alg # "cbo"
    BY <1>1, InitSettled, ProblemsAssumption DEF Settled
<1>3. attacks = base /\ Complete!Init /\ printed = <<>> /\ base \in Framework
    BY <1>1, <1>2, InitSettled DEF Init, Settled
<1>4. pc = "check"
    BY <1>3 DEF Complete!Init
<1> QED
    BY <1>3, <1>4, CompleteInitInv DEF Running

THEOREM CompleteRunInvariant == Spec => [](Settled /\ CompleteRun)
<1>1. Init => Settled /\ CompleteRun
    BY InitSettled, CompleteRunInit
<1>2. Settled /\ CompleteRun /\ [Next]_vars => (Settled /\ CompleteRun)'
    BY SettledStep, CompleteRunStep
<1> QED
    BY <1>1, <1>2, PTL DEF Spec

(* EE-CO's list is strictly descending in the lectic order, for every        *)
(* framework: no complete extension is listed twice, with or without the     *)
(* order its pruning asks for.                                               *)
THEOREM RunDescending == Spec => []Descending
<1>1. Settled /\ CompleteRun => Descending
    <2> SUFFICES ASSUME CompleteRun, Running, prob = "EE-CO"
                 PROVE  Complete!Descending
        BY DEF Descending
    <2>1. \A m, n \in DOMAIN extensions :
              m < n => LecticLess(extensions[n], extensions[m])
        BY DEF CompleteRun, CompleteInv, CompleteOrder
    <2> QED
        BY <2>1 DEF Complete!Descending, Complete!LecticLess, LecticLess,
                    Complete!SameBelow, SameBelow, Complete!Arg, Arg
<1> QED
    BY <1>1, CompleteRunInvariant, PTL

(* EE-CO prints complete extensions of the framework read only, each once,   *)
(* whatever the order of the arguments, and all of them if the peaceful      *)
(* arguments come last in the framework searched: the two prunings and the   *)
(* test for conflicts lose nothing else.                                     *)
THEOREM RunCompleteRight == Spec => []CompleteRight
<1>1. ASSUME Settled, CompleteRun, Answers("EE-CO")
      PROVE  /\ Len(printed) = Cardinality(Printed)
             /\ Printed \subseteq CompleteExtensions(input)
             /\ Complete!PeacefulLast => Printed = CompleteExtensions(input)
    <2>1. /\ prob = "EE-CO" /\ pc = "exit" /\ base = Renamed(input, order)
          /\ input \in Framework /\ base \in Framework
          /\ order \in [Arg -> Arg] /\ Permutation(order)
        BY <1>1 DEF Answers, SortedFramework, Settled
    <2>2. /\ extensions = <<>> /\ attacks = base
          /\ Printing(order, CompleteExtensions(base), extensions, printed, PeacefulLast)
        BY <1>1, <2>1 DEF CompleteRun, CompleteInv, CompleteState, Running
    <2>3. /\ Len(printed) = Cardinality(Members(printed))
          /\ \A x \in Members(printed) :
                \E S \in CompleteExtensions(base) : x = MapIndices(S, order)
          /\ PeacefulLast => \A S \in CompleteExtensions(base) :
                                MapIndices(S, order) \in Members(printed)
        BY <2>1, <2>2, CompleteExtensionsType, AllPrinted
    <2>4. Printed = Members(printed)
        BY DEF Printed, Members
    <2>5. ASSUME NEW S \in SUBSET Arg
          PROVE  S \in CompleteExtensions(base)
                    <=> MapIndices(S, order) \in CompleteExtensions(input)
        BY <2>1, RenamedComplete, ExtensionSets, MapIndicesFacts
    <2>6. Printed \subseteq CompleteExtensions(input)
        <3>1. CompleteExtensions(base) \subseteq SUBSET Arg
            BY <2>1, ExtensionSets
        <3> QED
            BY <2>3, <2>4, <2>5, <3>1
    <2>7. ASSUME Complete!PeacefulLast, NEW x \in CompleteExtensions(input)
          PROVE  x \in Printed
        <3>1. PeacefulLast
            BY <2>1, <2>2, <2>7
            DEF Complete!PeacefulLast, PeacefulLast, Complete!Peaceful, Peaceful,
                Complete!Arg, Arg, Framework
        <3>2. x \in SUBSET Arg
            BY <2>1, <2>7, ExtensionSets
        <3>3. PICK S \in SUBSET Arg : MapIndices(S, order) = x
            BY <2>1, <3>2, Preimage
        <3> QED
            BY <2>3, <2>4, <2>5, <2>7, <3>1, <3>3
    <2> QED
        BY <2>3, <2>4, <2>6, <2>7
<1>2. Settled /\ CompleteRun => CompleteRight
    BY <1>1 DEF CompleteRight
<1> QED
    BY <1>2, CompleteRunInvariant, PTL

LEMMA PreferredRunInit ==
    ASSUME Init
    PROVE  PreferredRun
<1>1. SUFFICES ASSUME prob \in {"EE-PR", "SE-ID"}
               PROVE  Running /\ IdealInv /\ printed = <<>>
    BY DEF PreferredRun, Running
<1>2. alg # "cbo"
    BY <1>1, InitSettled, ProblemsAssumption DEF Settled
<1>3. attacks = base /\ Preferred!IdealInit /\ printed = <<>> /\ base \in Framework
    BY <1>1, <1>2, InitSettled DEF Init, Settled
<1>4. PreferredInv /\ pc = "ignore"
    BY <1>3, PreferredInitInv DEF Preferred!IdealInit, Preferred!Init
<1> QED
    BY <1>3, <1>4 DEF IdealInv, Running

THEOREM PreferredRunInvariant == Spec => [](Settled /\ PreferredRun)
<1>1. Init => Settled /\ PreferredRun
    BY InitSettled, PreferredRunInit
<1>2. Settled /\ PreferredRun /\ [Next]_vars => (Settled /\ PreferredRun)'
    BY SettledStep, PreferredRunStep
<1> QED
    BY <1>1, <1>2, PTL DEF Spec

(* The early exits of add_ignore leave the grounded extension and its        *)
(* victims, however many arguments there are.                                *)
THEOREM RunGroundedSettled == Spec => []GroundedSettled
<1>1. Settled /\ PreferredRun => GroundedSettled
    <2> SUFFICES ASSUME Settled, PreferredRun, Running, prob \in {"EE-PR", "SE-ID"},
                        pc # "ignore"
                 PROVE  Preferred!GroundedSettled
        BY DEF GroundedSettled, Preferred!GroundedSettled
    <2>1. /\ attacks = base /\ ignored = Victims(base, Grounded)
          /\ new_intent = {} => c = {Grounded}
        BY DEF PreferredRun, IdealInv, PreferredInv, Exploring
    <2> QED
        BY <2>1, PreferredOperators DEF Preferred!GroundedSettled, Grounded
<1> QED
    BY <1>1, PreferredRunInvariant, PTL

(* No candidate for a preferred extension contains another at any time,      *)
(* though a new one does not drop all the candidates it contains.            *)
THEOREM RunCandidatesIncomparable == Spec => []CandidatesIncomparable
<1>1. Settled /\ PreferredRun => CandidatesIncomparable
    <2> SUFFICES ASSUME Settled, PreferredRun, Running, prob \in {"EE-PR", "SE-ID"}
                 PROVE  Preferred!CandidatesIncomparable
        BY DEF CandidatesIncomparable
    <2>1. pc # "ignore" => Candidates(first_candidate)
        BY DEF PreferredRun, IdealInv, PreferredInv, Exploring
    <2>2. pc = "ignore" => first_candidate = <<>>
        BY DEF PreferredRun, IdealInv, PreferredInv, Settling
    <2> QED
        BY <2>1, <2>2 DEF Preferred!CandidatesIncomparable, Candidates
<1> QED
    BY <1>1, PreferredRunInvariant, PTL

(* EE-PR prints exactly the preferred extensions of the framework read, each *)
(* once, whatever the order of the arguments.                                *)
THEOREM RunAllPreferred == Spec => []AllPreferred
<1>1. ASSUME Settled, PreferredRun, Answers("EE-PR")
      PROVE  /\ Len(printed) = Cardinality(Printed)
             /\ Printed = PreferredExtensions(input)
    <2>1. /\ prob = "EE-PR" /\ pc = "exit" /\ base = Renamed(input, order)
          /\ input \in Framework /\ base \in Framework
          /\ order \in [Arg -> Arg] /\ Permutation(order)
        BY <1>1 DEF Answers, SortedFramework, Settled
    <2>2. Printing(order, PreferredExtensions(base), <<>>, printed, TRUE)
        <3>1. /\ first_candidate = <<>>
              /\ Printing(order, PreferredExtensions(base), first_candidate, printed, TRUE)
            BY <1>1, <2>1 DEF PreferredRun, Running
        <3> QED
            BY <3>1
    <2>3. /\ PreferredExtensions(base) \in SUBSET SUBSET Arg
          /\ PreferredExtensions(input) \in SUBSET SUBSET Arg
        BY <2>1, PreferredComplete
    <2>4. /\ Len(printed) = Cardinality(Members(printed))
          /\ \A x \in Members(printed) :
                \E S \in PreferredExtensions(base) : x = MapIndices(S, order)
          /\ \A S \in PreferredExtensions(base) : MapIndices(S, order) \in Members(printed)
        <3> DEFINE E == PreferredExtensions(base)
        <3> HIDE DEF E
        <3>1. E \in SUBSET SUBSET Arg /\ Printing(order, E, <<>>, printed, TRUE)
            BY <2>2, <2>3 DEF E
        <3>2. /\ Len(printed) = Cardinality(Members(printed))
              /\ \A x \in Members(printed) : \E S \in E : x = MapIndices(S, order)
              /\ TRUE => \A S \in E : MapIndices(S, order) \in Members(printed)
            BY <2>1, <3>1, AllPrinted, Zenon
        <3> QED
            BY <3>2 DEF E
    <2>5. Printed = Members(printed)
        BY DEF Printed, Members
    <2>6. ASSUME NEW S \in SUBSET Arg
          PROVE  S \in PreferredExtensions(base)
                    <=> MapIndices(S, order) \in PreferredExtensions(input)
        BY <2>1, RenamedPreferred
    <2>7. ASSUME NEW x \in PreferredExtensions(input)
          PROVE  x \in Printed
        <3>1. PICK S \in SUBSET Arg : MapIndices(S, order) = x
            BY <2>1, <2>3, Preimage
        <3> QED
            BY <2>4, <2>5, <2>6, <3>1
    <2> QED
        BY <2>3, <2>4, <2>5, <2>6, <2>7
<1>2. Settled /\ PreferredRun => AllPreferred
    BY <1>1 DEF AllPreferred
<1> QED
    BY <1>2, PreferredRunInvariant, PTL

(* The attackers of the shrinking intersection fit the array allocated for   *)
(* them.                                                                     *)
THEOREM RunAttackersFit == Spec => []AttackersFit
<1>1. Settled /\ PreferredRun => AttackersFit
    <2> SUFFICES ASSUME PreferredRun, Running, prob = "SE-ID", pc = "shrink"
                 PROVE  Preferred!AttackersFit
        BY DEF AttackersFit, Preferred!AttackersFit
    <2>1. Cardinality(attackers) <= capacity
        BY DEF PreferredRun, IdealInv, Shrinking
    <2> QED
        BY <2>1, PreferredOperators DEF Preferred!AttackersFit
<1> QED
    BY <1>1, PreferredRunInvariant, PTL

(* SE-ID prints the ideal extension, whichever attackers the rounds take.    *)
THEOREM RunIdealResult == Spec => []IdealResult
<1>1. Settled /\ PreferredRun => IdealResult
    BY DEF PreferredRun, IdealResult, Answers
<1> QED
    BY <1>1, PreferredRunInvariant, PTL


LEMMA CboRunInit ==
    ASSUME Init
    PROVE  CboRun
<1>1. SUFFICES ASSUME alg = "cbo"
               PROVE  Running /\ CboInv /\ printed = <<>>
    BY DEF CboRun, CboInv, Running
<1>2. prob \in {"SE-PR", "DC-PR", "DS-PR"}
    BY <1>1, InitSettled, ProblemsAssumption DEF Settled
<1>3. Cbo!Init /\ printed = <<>>
    BY <1>1, <1>2 DEF Init
<1>4. argument \in Arg \cup {N} /\ (prob # "SE-PR" => argument \in Arg)
    BY <1>2, QuestionsAssumption DEF Init
<1>5. pc = "call" /\ CboReady(k, stack, extension)
    BY <1>3 DEF Cbo!Init, CboReady
<1> QED
    BY <1>3, <1>4, <1>5 DEF CboInv, Running

THEOREM CboRunInvariant == Spec => [](Settled /\ CboRun)
<1>1. Init => Settled /\ CboRun
    BY InitSettled, CboRunInit
<1>2. Settled /\ CboRun /\ [Next]_vars => (Settled /\ CboRun)'
    BY SettledStep, CboRunStep
<1> QED
    BY <1>1, <1>2, PTL DEF Spec

(* Each call of explore_subtree_smart gets what it demands of its caller if  *)
(* the first one does, although a call marks the attackers of i alone and    *)
(* not those of all that joins current.                                      *)
THEOREM RunFrameContract == Spec => []FrameContract
<1>1. ASSUME Settled, CboRun, Running, alg = "cbo",
             smart, stack # <<>>, Cbo!IsConflictFree(base, stack[Len(stack)].current),
             NEW n \in DOMAIN stack
      PROVE  Cbo!Demanded(stack[n])
    <2>1. base \in Framework /\ CboInv
        BY <1>1 DEF Settled, CboRun
    <2>2. Calling(smart, k, stack)
        BY <1>1, <2>1
        DEF Running, CboInv, CboReady, CboExploring, CboFailed, CboFound
    <2>3. ConflictFreeIn(base, StartOf(Asked))
        BY <1>1, <2>1, <2>2, CboOperators DEF Calling, Chain, Caller
    <2>4. Demands(stack[n])
        BY <1>1, <2>2, <2>3 DEF Calling, SmartFrame
    <2> QED
        BY <2>1, <2>4, CboOperators DEF Demands, Cbo!Demanded
<1>2. Settled /\ CboRun => FrameContract
    BY <1>1 DEF FrameContract, Cbo!FrameContract, Cbo!DemandMet
<1> QED
    BY <1>2, CboRunInvariant, PTL

(* SE-PR always prints a preferred extension, and DC-PR one that holds the   *)
(* argument, or none if there is none: an argument that the search has       *)
(* processed never has to join a preferred extension later.                  *)
THEOREM RunPreferredFound == Spec => []PreferredFound
<1>1. ASSUME Settled, CboRun, Answers("SE-PR") \/ Answers("DC-PR"),
             prob = "DC-PR" =>
                Cbo!Refused(argument) \/ IsConflictFree(base, Cbo!RootClosure(argument)),
             NEW wanted,
             wanted = {P \in PreferredExtensions(input) : prob = "DC-PR" => argument \in P}
      PROVE  /\ Printed \subseteq wanted
             /\ wanted # {} => Len(printed) = 1
    <2>1. /\ pc = "exit" /\ prob \in {"SE-PR", "DC-PR"} /\ base = input /\ alg = "cbo"
          /\ base \in Framework
        BY <1>1, ProblemsAssumption DEF Answers, Settled
    <2>2. prob = "DC-PR" => argument \in Arg /\ Asked = argument
        BY <1>1, <2>1 DEF CboRun, Asked
    <2>3. prob # "DC-PR" => Asked = N
        BY DEF Asked
    <2>4. SelfAttacking(Asked) \/ ConflictFreeIn(base, StartOf(Asked))
        <3>1. CASE prob = "DC-PR"
            <4>1. /\ Cbo!Refused(argument) <=> SelfAttacking(argument)
                  /\ IsConflictFree(base, Cbo!RootClosure(argument))
                        <=> ConflictFreeIn(base, StartOf(argument))
                BY <2>1, <2>2, <3>1, CboOperators, FrameTypes, StartFacts
                DEF Cbo!Refused, SelfAttacking, IsConflictFree, ArgAttacksSet, ConflictFreeIn
            <4> QED
                BY <1>1, <2>2, <3>1, <4>1
        <3>2. CASE prob # "DC-PR"
            BY <2>1, <2>3, <3>2, StartFacts
        <3> QED
            BY <3>1, <3>2
    <2>5. \A P \in PreferredExtensions(base) : P \in wanted <=> StartOf(Asked) \subseteq P
        BY <1>1, <2>1, <2>2, <2>3, StartFacts
    <2>6. wanted \subseteq PreferredExtensions(base)
        BY <1>1, <2>1
    <2>7. CASE printed = <<>> /\ Outcome({})
        <3>1. NoneAround(StartOf(Asked))
            BY <2>1, <2>4, <2>7 DEF Outcome
        <3> QED
            BY <2>5, <2>6, <2>7, <3>1 DEF NoneAround, Printed
    <2>8. ASSUME NEW S, printed = <<S>>, Outcome({S})
          PROVE  Printed \subseteq wanted /\ Len(printed) = 1
        <3>1. S \in PreferredExtensions(base) /\ StartOf(Asked) \subseteq S
            BY <2>1, <2>4, <2>8 DEF Outcome
        <3>2. Printed = {S} /\ Len(printed) = 1
            BY <2>8 DEF Printed
        <3> QED
            BY <2>5, <3>1, <3>2
    <2> QED
        BY <1>1, <2>1, <2>7, <2>8 DEF CboRun
<1>2. ASSUME Settled, CboRun
      PROVE  PreferredFound
    <2> DEFINE wanted == {P \in PreferredExtensions(input) : prob = "DC-PR" => argument \in P}
    <2> HIDE DEF wanted
    <2>1. ASSUME Answers("SE-PR") \/ Answers("DC-PR"),
                 prob = "DC-PR" => \/ Cbo!Refused(argument)
                                   \/ IsConflictFree(base, Cbo!RootClosure(argument))
          PROVE  Printed \subseteq wanted /\ (wanted # {} => Len(printed) = 1)
        BY <1>1, <1>2, <2>1 DEF wanted
    <2> QED
        BY <2>1 DEF PreferredFound, wanted
<1> QED
    BY <1>2, CboRunInvariant, PTL

(* What DS-PR prints is a preferred extension without the argument, and it   *)
(* prints none only if no preferred extension attacks the argument.          *)
THEOREM RunCounterexampleRight == Spec => []CounterexampleRight
<1>1. ASSUME Settled, CboRun, Answers("DS-PR"),
             NEW counterexamples,
             counterexamples = {P \in PreferredExtensions(input) : argument \notin P}
      PROVE  /\ Printed \subseteq counterexamples
             /\ printed = <<>> =>
                    \A P \in counterexamples : ~SetAttacksArg(input, P, argument)
    <2>1. /\ pc = "exit" /\ prob = "DS-PR" /\ base = input /\ alg = "cbo"
          /\ base \in Framework
        BY <1>1, ProblemsAssumption DEF Answers, Settled
    <2>2. CASE printed = <<>> /\ Outcome({})
        <3>1. \A b \in Arg : argument \in base[b] => NoneAround({b})
            BY <2>1, <2>2 DEF Outcome
        <3>2. ASSUME NEW P \in counterexamples, SetAttacksArg(input, P, argument)
              PROVE  FALSE
            <4>1. P \in PreferredExtensions(base) /\ P \in SUBSET Arg
                BY <1>1, <2>1, PreferredFacts
            <4>2. PICK b \in P : argument \in base[b]
                BY <2>1, <3>2 DEF SetAttacksArg
            <4> QED
                BY <3>1, <4>1, <4>2 DEF NoneAround
        <3> QED
            BY <2>2, <3>2 DEF Printed
    <2>3. ASSUME NEW S, printed = <<S>>, Outcome({S})
          PROVE  Printed \subseteq counterexamples /\ printed # <<>>
        <3>1. S \in PreferredExtensions(base) /\ argument \notin S
            BY <2>1, <2>3 DEF Outcome
        <3>2. Printed = {S} /\ printed # <<>>
            BY <2>3 DEF Printed
        <3> QED
            BY <1>1, <2>1, <3>1, <3>2
    <2> QED
        BY <1>1, <2>1, <2>2, <2>3 DEF CboRun
<1>2. ASSUME Settled, CboRun
      PROVE  CounterexampleRight
    BY <1>1, <1>2 DEF CounterexampleRight
<1> QED
    BY <1>2, CboRunInvariant, PTL

LEMMA DecideRunInit ==
    ASSUME Init
    PROVE  DecideRun
<1> SUFFICES ASSUME prob = "DC-CO"
             PROVE  DecideRun
    BY DEF DecideRun
<1>1. Settled
    BY InitSettled
<1>2. alg # "cbo"
    BY <1>1, ProblemsAssumption DEF Settled
<1>3. Decide!Init /\ printed = <<>> /\ base \in Framework
    BY <1>1, <1>2 DEF Init, Settled
<1>4. pc = "closure"
    BY <1>3 DEF Decide!Init
<1> QED
    BY <1>3, <1>4, DecideInitInv DEF DecideRun

(* DC-CO's invariant: the framework searched is the one asked about,         *)
(* projected and permuted; where the closures are those of the definition    *)
(* and the argument is in front, every complete extension that holds the     *)
(* argument still lies ahead of the search, and the answer is right.         *)
THEOREM DecideRunInvariant == Spec => [](Settled /\ DecideRun)
<1>1. Init => Settled /\ DecideRun
    BY InitSettled, DecideRunInit
<1>2. (Settled /\ DecideRun) /\ [Next]_vars => (Settled /\ DecideRun)'
    BY SettledStep, DecideRunStep
<1> QED
    BY <1>1, <1>2, PTL DEF Spec

(* DC-CO's swaps and its sort keep the framework searched the one it was     *)
(* called for, renamed along the mapping it maps its answer back with.       *)
THEOREM RunMappingFaithful == Spec => []MappingFaithful
<1>1. Settled /\ DecideRun => MappingFaithful
    BY DecideOperators
    DEF DecideRun, DecideInv, DecideMapping, PermutationOf, Searched, MappingFaithful,
        Decide!MappingFaithful
<1> QED
    BY <1>1, DecideRunInvariant, PTL

(* What a reliable run has printed when it exits.                            *)
LEMMA ReliableRight ==
    ASSUME Settled, DecideRun, Answers("DC-CO"), Reliable
    PROVE  IF \E S \in CompleteExtensions(input) : argument \in S
           THEN Len(printed) = 1 /\ argument \in printed[1] /\ CompleteExt(input, printed[1])
           ELSE printed = <<>>
<1>1. /\ base = input /\ base \in Framework /\ Answered
      /\ \/ answer = {} /\ printed = <<>>
         \/ \E S \in answer : printed = <<S>>
    BY DEF Answers, Settled, DecideRun, DecideInv, DecidePhase
<1>2. CompleteExtensions(input) = {S \in SUBSET Arg : CompleteExt(base, S)}
    BY <1>1, ExtensionSets
<1>3. CASE answer = {}
    BY <1>1, <1>2, <1>3 DEF Answered
<1>4. CASE answer # {}
    <2>1. PICK S \in SUBSET Arg : answer = {S} /\ CompleteExt(base, S) /\ argument \in S
        BY <1>1, <1>4 DEF Answered
    <2>2. printed = <<S>>
        BY <1>1, <2>1
    <2> QED
        BY <1>1, <1>2, <2>1, <2>2
<1> QED
    BY <1>3, <1>4

(* DC-CO prints a complete extension that holds the argument, and NO only if *)
(* there is none, unless its defender loop has displaced the argument.       *)
THEOREM RunRightWhenInFront == Spec => []RightWhenInFront
<1>1. Settled /\ DecideRun => RightWhenInFront
    <2> SUFFICES ASSUME Settled, DecideRun, Answers("DC-CO"), alg # "subgraph_adj", InFront
                 PROVE  IF \E S \in CompleteExtensions(input) : argument \in S
                        THEN /\ Len(printed) = 1 /\ argument \in printed[1]
                             /\ CompleteExt(input, printed[1])
                        ELSE printed = <<>>
        BY DEF RightWhenInFront
    <2>1. Reliable
        BY DEF Reliable, Fair
    <2> QED
        BY <2>1, ReliableRight
<1> QED
    BY <1>1, DecideRunInvariant, PTL

(* On adjacency lists the countdown of a closure starts from the number of   *)
(* victims; where every argument has as many victims as attackers, and the   *)
(* lists are those of the framework searched, DC-CO is right all the same.   *)
THEOREM RunRightWhenBalanced == Spec => []RightWhenBalanced
<1>1. Settled /\ DecideRun => RightWhenBalanced
    <2> SUFFICES ASSUME Settled, DecideRun, Answers("DC-CO"), alg = "subgraph_adj",
                        Balanced(base), attacks = af, InFront
                 PROVE  IF \E S \in CompleteExtensions(input) : argument \in S
                        THEN /\ Len(printed) = 1 /\ argument \in printed[1]
                             /\ CompleteExt(input, printed[1])
                        ELSE printed = <<>>
        BY DEF RightWhenBalanced
    <2>1. Reliable
        BY DEF Reliable, Fair
    <2> QED
        BY <2>1, ReliableRight
<1> QED
    BY <1>1, DecideRunInvariant, PTL
===============================================================================
