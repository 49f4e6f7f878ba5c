---------------------------- MODULE RunStable_proofs ----------------------------
(***************************************************************************)
(* The runs of affca on stable extensions, for every number of arguments   *)
(* and every set of input frameworks.  Each routine that RunStable may run *)
(* has an inductive invariant of its own: Nourine's algorithm, Norris'     *)
(* algorithm bottom up and top down, the decision by next closure, and the *)
(* reverse search through the maximal conflict-free sets.  They meet in    *)
(* RunInv at the end, from which the properties the runs check follow.     *)
(***************************************************************************)
EXTENDS RunStable, Foundations_proofs

(* What main has settled before the routine starts.                          *)
Settled ==
    /\ <<alg, prob>> \in Problems
    /\ base \in Framework
    /\ input \in Framework
    /\ order \in [Arg -> Arg]
    /\ Permutation(order)

LEMMA SettledStep ==
    ASSUME Settled, [Next]_vars
    PROVE  Settled'
BY DEF Settled, Next, vars, mainVars, Solve, Return, PrintList, ListPrinted, PrintOne,
       PrintAnswer, Exited

LEMMA InitSettled ==
    ASSUME Init
    PROVE  Settled
<1>1. base \in Framework
    BY DEF Init, Norris!Init, BottomUp!Init, Nourine!Init, Mis!Init, Decide!Init
<1>2. <<alg, prob>> \in Problems
    BY ProblemsAssumption DEF Init
<1>3. input \in Framework /\ DOMAIN input = Arg
    BY InputsAssumption DEF Init, Read, Framework
<1>4. \/ order = Unsorted
      \/ order \in Permutations(Arg)
    BY <1>3 DEF Init, Read, Orders
<1>5. order \in [Arg -> Arg] /\ \A a, b \in Arg : order[a] = order[b] => a = b
    BY <1>4 DEF Unsorted, Permutations
<1>6. Permutation(order)
    BY <1>5, InjectivePermutation
<1> QED
    BY <1>1, <1>2, <1>3, <1>5, <1>6 DEF Settled

(* What stability says of a set in the framework searched.                   *)
LEMMA StableFacts ==
    ASSUME NEW att \in Framework
    PROVE  /\ StableExtensions(att) = {S \in SUBSET Arg : Stable(att, S)}
           /\ \A S \in StableExtensions(att) :
                /\ S \in SUBSET Arg /\ S # {}
                /\ \A a, b \in S : b \notin att[a]
                /\ \A a \in Arg : a \in S \/ \E b \in S : a \in att[b]
<1>1. DOMAIN att = Arg /\ 0 \in Arg
    BY NAssumption DEF Framework, Arg
<1>2. StableExtensions(att) = {S \in SUBSET Arg : Stable(att, S)}
    BY <1>1 DEF StableExtensions
<1>3. \A S : Stable(att, S) <=> \A a \in Arg : a \in S <=> \A b \in S : a \notin att[b]
    BY <1>1 DEF Stable
<1> QED
    BY <1>1, <1>2, <1>3

-------------------------------------------------------------------------------
(* Nourine's algorithm.                                                      *)

Closed(X, list) == \A m \in list : m.lhs \subseteq X => m.rhs \in X

(* An implication of the list, as a pair of premise and conclusion.          *)
Implications == [lhs : SUBSET Arg, rhs : Arg]

(* unit_close returns the least superset that is closed under the list.      *)
LEMMA UnitCloseRight ==
    ASSUME NEW x \in SUBSET Arg, NEW list \in SUBSET Implications
    PROVE  /\ Nourine!unit_close(x, list) \in SUBSET Arg
           /\ x \subseteq Nourine!unit_close(x, list)
           /\ Closed(Nourine!unit_close(x, list), list)
           /\ \A S \in SUBSET Arg : x \subseteq S /\ Closed(S, list)
                                        => Nourine!unit_close(x, list) \subseteq S
<1> DEFINE Step(r) == r \cup {imp.rhs : imp \in {m \in list : m.lhs \subseteq r}}
           w == CHOOSE f : f = [n \in Nat |->
                    IF n = 0 THEN x ELSE UNION {Step(r) : r \in {f[n-1]}}]
<1>1. PICK g \in [SUBSET Arg -> SUBSET Arg] : \A r \in SUBSET Arg : g[r] = Step(r)
    <2>1. [r \in SUBSET Arg |-> Step(r)] \in [SUBSET Arg -> SUBSET Arg]
        BY DEF Implications
    <2> QED
        BY <2>1
<1>2. Nourine!unit_close(x, list) = w[N]
    BY DEF Nourine!unit_close
<1>3. \A r \in SUBSET Arg : r \subseteq g[r]
    BY <1>1
<1>4. \A f : UNION {Step(r) : r \in {f}} = Step(f)
    OBVIOUS
<1>5. \A r : Step(r) = r <=> Closed(r, list)
    BY DEF Closed
<1>6. ASSUME NEW S, Closed(S, list), NEW r \in SUBSET S
      PROVE  Step(r) \subseteq S
    BY <1>6 DEF Closed
<1> HIDE DEF Step
<1>7. w = [n \in Nat |-> IF n = 0 THEN x ELSE UNION {Step(r) : r \in {w[n-1]}}]
    <2>1. PICK f \in [Nat -> SUBSET Arg] : f[0] = x /\ \A n \in Nat : f[n+1] = g[f[n]]
        <3> DEFINE Sets == SUBSET Arg
        <3>1. x \in Sets /\ g \in [Sets -> Sets]
            OBVIOUS
        <3> HIDE DEF w, Sets
        <3>2. \E f \in [Nat -> Sets] : f[0] = x /\ \A n \in Nat : f[n+1] = g[f[n]]
            BY <3>1, Rounds
        <3> QED
            BY <3>2 DEF Sets
    <2>2. ASSUME NEW n \in Nat, n # 0
          PROVE  f[n] = UNION {Step(r) : r \in {f[n-1]}}
        <3>1. n-1 \in Nat /\ n-1+1 = n
            BY <2>2
        <3>2. f[n-1] \in SUBSET Arg
            BY <3>1
        <3>3. f[n] = g[f[n-1]]
            BY <2>1, <3>1
        <3> QED
            BY <1>1, <1>4, <3>2, <3>3
    <2>3. f = [n \in Nat |-> IF n = 0 THEN x ELSE UNION {Step(r) : r \in {f[n-1]}}]
        BY <2>1, <2>2
    <2> QED
        BY <2>3
<1> HIDE DEF w
<1>8. w[0] = x /\ \A n \in Nat : w[n] \in SUBSET Arg => w[n+1] = g[w[n]]
    <2>1. w[0] = x
        BY <1>7
    <2>2. ASSUME NEW n \in Nat, w[n] \in SUBSET Arg
          PROVE  w[n+1] = g[w[n]]
        <3>1. n+1 \in Nat /\ n+1 # 0 /\ n+1-1 = n
            OBVIOUS
        <3>2. \A m \in Nat : m # 0 => w[m] = UNION {Step(r) : r \in {w[m-1]}}
            BY <1>7
        <3>3. w[n+1] = UNION {Step(r) : r \in {w[n]}}
            <4>1. w[n+1] = UNION {Step(r) : r \in {w[n+1-1]}}
                BY <3>1, <3>2
            <4> QED
                BY <3>1, <4>1
        <3>4. w[n+1] = Step(w[n])
            BY <1>4, <3>3
        <3> QED
            BY <1>1, <2>2, <3>4
    <2> QED
        BY <2>1, <2>2
<1>9. LeastFixedPoint(Arg, x, g, w[N])
    <2>1. AddingRounds(Arg, x, g, w)
        BY <1>3, <1>8 DEF AddingRounds
    <2>2. /\ IsFiniteSet(Arg) /\ Cardinality(Arg) = N /\ N \in Nat
          /\ Cardinality(x) \in Nat
        BY ArgFinite, ArgSize, NAssumption
    <2>3. Cardinality(x) + N >= Cardinality(Arg)
        BY <2>2
    <2> QED
        BY <2>1, <2>2, <2>3, GrowthStops
<1> DEFINE end == w[N]
<1>10. /\ end \in SUBSET Arg /\ x \subseteq end /\ g[end] = end
       /\ \A S \in SUBSET Arg : x \subseteq S /\ (\A r \in SUBSET S : g[r] \subseteq S)
                                => end \subseteq S
    BY <1>9 DEF LeastFixedPoint
<1> HIDE DEF end
<1>11. Closed(end, list)
    BY <1>1, <1>5, <1>10
<1>12. ASSUME NEW S \in SUBSET Arg, x \subseteq S, Closed(S, list)
       PROVE  end \subseteq S
    <2>1. \A r \in SUBSET S : g[r] \subseteq S
        BY <1>1, <1>6, <1>12
    <2> QED
        BY <1>10, <1>12, <2>1
<1>13. Nourine!unit_close(x, list) = end
    BY <1>2 DEF end
<1> QED
    BY <1>10, <1>11, <1>12, <1>13

(* The operators of the instance are those of the modules it extends.        *)
LEMMA NourineOperators ==
    ASSUME base \in Framework
    PROVE  /\ Nourine!StableExtensions(base) = StableExtensions(base)
           /\ \A a \in Arg : Nourine!Attackers(base, a) = {b \in Arg : a \in base[b]}
           /\ \A a, b \in Arg : b \in Nourine!ConflictFramework(base)[a]
                    <=> \/ a \in base[a] \/ b \in base[b]
                        \/ b \in base[a] \/ a \in base[b]
           /\ Nourine!ConflictFramework(base) \in [Arg -> SUBSET Arg]
           /\ \A S : Nourine!IsConflictFree(base, S) <=> \A a, b \in S : b \notin base[a]
           /\ \A S, T : Nourine!LecticLess(S, T) <=> LecticLess(S, T)
           /\ \A S, T, n : Nourine!Ahead(S, n, T) <=> Ahead(S, n, T)
           /\ Nourine!Framework = Framework
           /\ Nourine!Arg = Arg
<1>1. DOMAIN base = Arg
    BY DEF Framework
<1>2. Nourine!StableExtensions(base) = StableExtensions(base)
    BY DEF Nourine!StableExtensions, Nourine!Stable, StableExtensions, Stable
<1>3. \A a \in Arg : Nourine!Attackers(base, a) = {b \in Arg : a \in base[b]}
    BY <1>1 DEF Nourine!Attackers
<1>4. Nourine!ConflictFramework(base) = [a \in Arg |-> {b \in Arg :
        \/ a \in base[a] \/ b \in base[b] \/ b \in base[a] \/ a \in base[b]}]
    BY <1>1 DEF Nourine!ConflictFramework
<1>5. \A S : Nourine!IsConflictFree(base, S) <=> \A a, b \in S : b \notin base[a]
    BY DEF Nourine!IsConflictFree, Nourine!ArgAttacksSet
<1>6. Nourine!Arg = Arg /\ Nourine!Framework = Framework
    BY DEF Nourine!Arg, Arg, Nourine!Framework, Framework
<1>7. \A S, T : Nourine!LecticLess(S, T) <=> LecticLess(S, T)
    BY <1>6 DEF Nourine!LecticLess, Nourine!SameBelow, LecticLess, SameBelow
<1>8. \A S, T, n : Nourine!Ahead(S, n, T) <=> Ahead(S, n, T)
    BY <1>6 DEF Nourine!Ahead, Nourine!SameBelow, Ahead, SameBelow
<1> QED
    BY <1>2, <1>3, <1>4, <1>5, <1>6, <1>7, <1>8

(* The closure the walk starts from.                                         *)
FirstClosed == Nourine!unit_close({}, imps)

(* The state of the routine.  Of a set under test other than the first       *)
(* closure, no argument has all its attackers in the set.                    *)
NourineState ==
    /\ conflicts \in [Arg -> SUBSET Arg]
    /\ imps \in SUBSET Implications
    /\ closure \in SUBSET Arg
    /\ i \in -1 .. N-1
    /\ extensions \in Seq(SUBSET Arg)
    /\ result \in SUBSET Arg
    /\ pc \in {"update", "remove", "test", "search", "done", "print", "exit"}

(* The implications and conflicts hold of every stable extension.            *)
Sharpened ==
    \A S \in StableExtensions(base) :
        /\ \A imp \in imps : imp.lhs \cap S = {} => imp.rhs \notin S
        /\ \A a \in S : conflicts[a] \cap S = {}

(* No argument of X has all its attackers in X: the test for domination.     *)
NotDominated(X) == \A j \in X : ~({b \in Arg : j \in base[b]} \subseteq X)

(* Before the walk nothing has been found.                                   *)
BeforeWalk == pc \in {"update", "remove"} => extensions = <<>> /\ result = {}

(* A set under test is the first closure or not dominated.                   *)
Candidate ==
    /\ pc = "test" => closure = FirstClosed \/ NotDominated(closure)
    /\ pc = "search" => \A b \in closure : b <= i

(* What may be listed: a stable extension, or the complement of the first    *)
(* closure, which is not tested for domination.                              *)
Delivered(S) == S \in StableExtensions(base) \/ S = Arg \ FirstClosed

(* EE-ST lists only such sets, none twice, and all of them lie behind the    *)
(* walk.                                                                     *)
NourineEE ==
    prob = "EE" =>
        /\ result = {}
        /\ \A S \in Members(extensions) : Delivered(S)
        /\ \A m, n \in DOMAIN extensions : extensions[m] = extensions[n] => m = n
        /\ \A S \in Members(extensions) :
            /\ pc = "test" => LecticLess(Arg \ S, closure)
            /\ pc = "search" => ~Ahead(closure, i, Arg \ S)

(* SE-ST ends with an extension, with nothing if there is none, or with the  *)
(* first closure's complement.                                               *)
NourineSE ==
    prob = "SE" =>
        /\ extensions = <<>>
        /\ pc # "done" => result = {}
        /\ pc = "done" =>
            \/ result = {} /\ StableExtensions(base) = {}
            \/ result \in StableExtensions(base)
            \/ result = Arg \ FirstClosed

(* No stable extension has been passed over.                                 *)
NotPassed ==
    \A S \in StableExtensions(base) :
        /\ pc = "test" => \/ S \in Members(extensions)
                          \/ Arg \ S = closure \/ LecticLess(closure, Arg \ S)
        /\ pc = "search" => S \in Members(extensions) \/ Ahead(closure, i, Arg \ S)
        /\ pc = "done" /\ prob = "EE" => S \in Members(extensions)

(* The inductive invariant of Nourine's algorithm.                           *)
NourineInv ==
    /\ NourineState /\ Sharpened /\ BeforeWalk /\ Candidate
    /\ NourineEE /\ NourineSE /\ NotPassed

LEMMA NourineInitInv ==
    ASSUME base \in Framework, Nourine!Init
    PROVE  NourineInv
<1>1. /\ conflicts = Nourine!ConflictFramework(base)
      /\ imps = Nourine!create_unit_implications(base)
      /\ closure = {} /\ i = N - 1
      /\ extensions = <<>> /\ result = {} /\ pc = "update"
    BY DEF Nourine!Init
<1>2. Members(extensions) = {} /\ extensions \in Seq(SUBSET Arg) /\ DOMAIN extensions = {}
    BY <1>1 DEF Members
<1>3. \A imp \in imps : \/ \E a \in Arg : /\ a \in base[a]
                                          /\ imp = Nourine!Implication({}, a)
                        \/ \E a, b \in Arg :
                            /\ b \in base[a]
                            /\ imp = Nourine!Implication(
                                Nourine!Attackers(base, a) \ Nourine!ConflictFramework(base)[b], b)
    <2> SUFFICES ASSUME NEW imp \in imps
                 PROVE  \/ \E a \in Arg : a \in base[a] /\ imp = Nourine!Implication({}, a)
                        \/ \E a, b \in Arg :
                            /\ b \in base[a]
                            /\ imp = Nourine!Implication(
                                Nourine!Attackers(base, a) \ Nourine!ConflictFramework(base)[b], b)
        OBVIOUS
    <2>1. CASE imp \in Nourine!SelfConflict(base)
        BY <2>1 DEF Nourine!SelfConflict, Framework
    <2>2. CASE imp \notin Nourine!SelfConflict(base)
        <3>1. PICK attack \in Nourine!OneWay(base) :
                imp = Nourine!Implication(Nourine!Attackers(base, attack[1])
                            \ Nourine!ConflictFramework(base)[attack[2]], attack[2])
            BY <1>1, <2>2 DEF Nourine!create_unit_implications
        <3>2. /\ attack \in Arg \X Arg
              /\ attack[2] \in base[attack[1]]
            BY DEF Nourine!OneWay, Framework
        <3>3. attack[1] \in Arg /\ attack[2] \in Arg
            BY <3>2
        <3> QED
            BY <3>1, <3>2, <3>3
    <2> QED
        BY <2>1, <2>2
<1>4. NourineState
    <2>1. imps \in SUBSET Implications
        BY <1>3, NourineOperators DEF Implications, Nourine!Implication
    <2> QED
        BY <1>1, <1>2, <2>1, NourineOperators, NAssumption DEF NourineState
<1>5. Sharpened
    <2> SUFFICES ASSUME NEW S \in StableExtensions(base)
                 PROVE  /\ \A imp \in imps : imp.lhs \cap S = {} => imp.rhs \notin S
                        /\ \A a \in S : conflicts[a] \cap S = {}
        BY DEF Sharpened
    <2>1. /\ S \in SUBSET Arg
          /\ \A a, b \in S : b \notin base[a]
          /\ \A a \in Arg : a \in S \/ \E b \in S : a \in base[b]
        BY StableFacts
    <2>2. \A a \in S : conflicts[a] \cap S = {}
        BY <1>1, <2>1, NourineOperators
    <2>3. ASSUME NEW imp \in imps, imp.lhs \cap S = {}, imp.rhs \in S
          PROVE  FALSE
        <3>1. CASE \E a \in Arg : a \in base[a] /\ imp = Nourine!Implication({}, a)
            BY <2>1, <2>3, <3>1 DEF Nourine!Implication
        <3>2. ASSUME NEW a \in Arg, NEW b \in Arg, b \in base[a],
                     imp = Nourine!Implication(
                                Nourine!Attackers(base, a) \ Nourine!ConflictFramework(base)[b], b)
              PROVE  FALSE
            <4>1. /\ imp.lhs = Nourine!Attackers(base, a) \ Nourine!ConflictFramework(base)[b]
                  /\ imp.rhs = b
                BY <3>2 DEF Nourine!Implication
            <4>2. b \in S /\ a \notin S
                BY <2>1, <2>3, <3>2, <4>1
            <4>3. PICK d \in S : a \in base[d]
                BY <2>1, <4>2
            <4>4. d \in Nourine!Attackers(base, a)
                BY <2>1, <4>3, NourineOperators
            <4>5. d \notin Nourine!ConflictFramework(base)[b]
                BY <2>1, <4>2, NourineOperators
            <4> QED
                BY <2>3, <4>1, <4>4, <4>5
        <3> QED
            BY <1>3, <3>1, <3>2
    <2> QED
        BY <2>2, <2>3
<1> QED
    BY <1>1, <1>2, <1>4, <1>5
    DEF NourineInv, BeforeWalk, Candidate, NourineEE, NourineSE, NotPassed

(* The complement of a stable extension is closed under the implications.    *)
LEMMA ComplementClosed ==
    ASSUME base \in Framework, NourineState, Sharpened, NEW S \in StableExtensions(base)
    PROVE  /\ S \in SUBSET Arg /\ Arg \ S \in SUBSET Arg
           /\ Closed(Arg \ S, imps)
<1>1. S \in SUBSET Arg
    BY StableFacts
<1> QED
    BY <1>1 DEF Sharpened, Closed, NourineState, Implications

LEMMA UpdateConflictsInv ==
    ASSUME base \in Framework, NourineInv, Nourine!UpdateConflicts,
           UNCHANGED <<alg, base>>
    PROVE  NourineInv'
<1>1. /\ pc = "update" /\ pc' = "remove"
      /\ conflicts' = Nourine!Symmetric([a \in Arg |-> Nourine!unit_close(conflicts[a], imps)])
      /\ UNCHANGED <<prob, base, imps, closure, i, extensions, result>>
    <2>1. DOMAIN conflicts = Arg
        BY DEF NourineInv, NourineState
    <2> QED
        BY <2>1 DEF Nourine!UpdateConflicts, Nourine!Sharper
<1>2. NourineState /\ Sharpened
    BY DEF NourineInv
<1> DEFINE rows == [a \in Arg |-> Nourine!unit_close(conflicts[a], imps)]
<1>3. \A a \in Arg : conflicts[a] \in SUBSET Arg /\ imps \in SUBSET Implications
    BY <1>2 DEF NourineState
<1>4. \A a \in Arg : rows[a] \in SUBSET Arg
    BY <1>3, UnitCloseRight
<1>5. \A S \in StableExtensions(base) : \A a \in S : rows[a] \cap S = {}
    <2> SUFFICES ASSUME NEW S \in StableExtensions(base), NEW a \in S
                 PROVE  rows[a] \cap S = {}
        OBVIOUS
    <2>1. /\ S \in SUBSET Arg /\ Arg \ S \in SUBSET Arg
          /\ Closed(Arg \ S, imps)
        BY <1>2, ComplementClosed
    <2>2. a \in Arg /\ conflicts[a] \subseteq Arg \ S
        BY <1>2, <1>3, <2>1 DEF Sharpened
    <2>3. Nourine!unit_close(conflicts[a], imps) \subseteq Arg \ S
        BY <1>3, <2>1, <2>2, UnitCloseRight
    <2> QED
        BY <2>2, <2>3
<1>6. conflicts' = [a \in Arg |-> rows[a] \cup
        {b \in Arg \ {a} : a \in rows[a] \/ b \in rows[b] \/ a \in rows[b]}]
    BY <1>1, NourineOperators DEF Nourine!Symmetric
<1> HIDE DEF rows
<1>7. conflicts' \in [Arg -> SUBSET Arg]
    BY <1>4, <1>6
<1>8. ASSUME NEW S \in StableExtensions(base), NEW a \in S
      PROVE  conflicts'[a] \cap S = {}
    <2>1. S \in SUBSET Arg /\ a \in Arg
        BY StableFacts
    <2>2. conflicts'[a] = rows[a] \cup
            {b \in Arg \ {a} : a \in rows[a] \/ b \in rows[b] \/ a \in rows[b]}
        BY <1>6, <2>1
    <2> QED
        BY <1>5, <2>1, <2>2
<1>9. Sharpened'
    BY <1>1, <1>2, <1>8 DEF Sharpened
<1>10. NourineState'
    BY <1>1, <1>2, <1>7 DEF NourineState
<1> QED
    BY <1>1, <1>9, <1>10
    DEF NourineInv, BeforeWalk, Candidate, NourineEE, NourineSE, NotPassed, Delivered,
        FirstClosed, Members

LEMMA RemoveConflictsInv ==
    ASSUME base \in Framework, NourineInv, Nourine!RemoveConflicts,
           UNCHANGED <<alg, base>>
    PROVE  NourineInv'
<1>1. /\ pc = "remove" /\ pc' = "update"
      /\ imps' = {Nourine!WithoutConflicts(conflicts, imp) : imp \in imps}
      /\ UNCHANGED <<prob, base, conflicts, closure, i, extensions, result>>
    BY DEF Nourine!RemoveConflicts
<1>2. NourineState /\ Sharpened
    BY DEF NourineInv
<1>3. ASSUME NEW imp \in Implications
      PROVE  /\ Nourine!WithoutConflicts(conflicts, imp) \in Implications
             /\ Nourine!WithoutConflicts(conflicts, imp).lhs = imp.lhs \ conflicts[imp.rhs]
             /\ Nourine!WithoutConflicts(conflicts, imp).rhs = imp.rhs
    BY DEF Nourine!WithoutConflicts, Implications
<1>4. imps \in SUBSET Implications
    BY <1>2 DEF NourineState
<1>5. NourineState'
    <2>1. imps' \in SUBSET Implications
        BY <1>1, <1>3, <1>4
    <2> QED
        BY <1>1, <1>2, <2>1 DEF NourineState
<1>6. Sharpened'
    <2>1. ASSUME NEW S \in StableExtensions(base), NEW imp \in imps
          PROVE  Nourine!WithoutConflicts(conflicts, imp).lhs \cap S = {}
                    => Nourine!WithoutConflicts(conflicts, imp).rhs \notin S
        BY <1>2, <1>3, <1>4 DEF Sharpened
    <2> QED
        BY <1>1, <1>2, <2>1 DEF Sharpened
<1> QED
    BY <1>1, <1>5, <1>6
    DEF NourineInv, BeforeWalk, Candidate, NourineEE, NourineSE, NotPassed, Members

(* What the walk finds may be the first closure's complement; any other set  *)
(* under test that has a conflict-free complement is an extension.           *)
LEMMA FoundDelivered ==
    ASSUME base \in Framework, NourineInv, pc = "test", Nourine!ExtensionFound
    PROVE  Arg \ closure \in SUBSET Arg /\ Delivered(Arg \ closure)
<1>1. /\ closure \in SUBSET Arg
      /\ closure = FirstClosed \/ NotDominated(closure)
    BY DEF NourineInv, NourineState, Candidate
<1>2. \A a, b \in Arg \ closure : b \notin base[a]
    BY NourineOperators DEF Nourine!ExtensionFound
<1>3. CASE NotDominated(closure)
    <2>1. \A a \in Arg : a \in Arg \ closure <=> \A b \in Arg \ closure : a \notin base[b]
        BY <1>1, <1>2, <1>3 DEF NotDominated
    <2>2. Stable(base, Arg \ closure)
        BY <2>1 DEF Stable, Framework
    <2> QED
        BY <1>1, <2>2, StableFacts DEF Delivered
<1> QED
    BY <1>1, <1>3 DEF Delivered

LEMMA StartWalkInv ==
    ASSUME base \in Framework, prob \in {"EE", "SE"}, NourineInv, Nourine!StartWalk,
           UNCHANGED <<alg, base>>
    PROVE  NourineInv'
<1>1. /\ pc = "remove" /\ closure' = FirstClosed
      /\ UNCHANGED <<prob, base, conflicts, imps, i, extensions, result>>
    BY DEF Nourine!StartWalk, FirstClosed
<1>2. pc' = "test"
    BY DEF Nourine!StartWalk
<1>3. NourineState /\ Sharpened /\ extensions = <<>> /\ result = {}
    BY <1>1 DEF NourineInv, BeforeWalk
<1>4. /\ FirstClosed \in SUBSET Arg
      /\ \A S \in SUBSET Arg : Closed(S, imps) => FirstClosed \subseteq S
    BY <1>3, UnitCloseRight DEF NourineState, FirstClosed
<1>5. ASSUME NEW S \in StableExtensions(base)
      PROVE  Arg \ S = FirstClosed \/ LecticLess(FirstClosed, Arg \ S)
    <2>1. Arg \ S \in SUBSET Arg /\ FirstClosed \subseteq Arg \ S
        BY <1>3, <1>4, ComplementClosed
    <2>2. ~LecticLess(Arg \ S, FirstClosed)
        BY <2>1 DEF LecticLess
    <2> QED
        BY <1>4, <2>1, <2>2, LecticTotal
<1>6. Members(extensions) = {} /\ DOMAIN extensions = {}
    BY <1>3 DEF Members
<1>7. FirstClosed' = FirstClosed
    BY <1>1 DEF FirstClosed
<1>8. NourineState'
    BY <1>1, <1>2, <1>3, <1>4 DEF NourineState
<1>9. NotPassed'
    BY <1>1, <1>2, <1>5 DEF NotPassed
<1>10. NourineEE' /\ NourineSE'
    BY <1>1, <1>2, <1>3, <1>6 DEF NourineEE, NourineSE, Members
<1> QED
    BY <1>1, <1>2, <1>3, <1>7, <1>8, <1>9, <1>10
    DEF NourineInv, Sharpened, BeforeWalk, Candidate

(* The set under test is passed, and the search for the next starts.         *)
LEMMA SearchBegins ==
    ASSUME base \in Framework, NourineInv, pc = "test"
    PROVE  /\ \A b \in closure : b <= N-1
           /\ \A T \in SUBSET Arg : Ahead(closure, N-1, T) <=> LecticLess(closure, T)
           /\ \A T \in SUBSET Arg : LecticLess(T, closure) \/ T = closure
                                        => ~Ahead(closure, N-1, T)
<1>1. closure \in SUBSET Arg
    BY DEF NourineInv, NourineState
<1>2. \A T \in SUBSET Arg : Ahead(closure, N-1, T) <=> LecticLess(closure, T)
    BY <1>1, AheadOfAll
<1>3. \A T \in SUBSET Arg : LecticLess(T, closure) \/ T = closure => ~LecticLess(closure, T)
    BY <1>1, LecticAsymmetric
<1> QED
    BY <1>1, <1>2, <1>3, NAssumption DEF Arg

LEMMA NourineKeepInv ==
    ASSUME base \in Framework, prob \in {"EE", "SE"}, NourineInv, Nourine!Keep,
           UNCHANGED <<alg, base>>
    PROVE  NourineInv'
<1> DEFINE E == Arg \ closure
<1>1. /\ pc = "test" /\ prob # "SE" /\ Nourine!ExtensionFound
      /\ extensions' = <<E>> \o extensions
      /\ i' = N - 1 /\ pc' = "search"
      /\ UNCHANGED <<prob, base, conflicts, imps, closure, result>>
    BY NourineOperators DEF Nourine!Keep, Nourine!NextClosure
<1>2. prob = "EE"
    BY <1>1
<1>3. /\ NourineState /\ Sharpened /\ NourineEE /\ NotPassed
      /\ closure \in SUBSET Arg /\ extensions \in Seq(SUBSET Arg)
    BY DEF NourineInv, NourineState
<1>4. E \in SUBSET Arg /\ Delivered(E) /\ Arg \ E = closure
    BY <1>1, <1>3, FoundDelivered
<1> HIDE DEF E
<1>5. /\ extensions' \in Seq(SUBSET Arg)
      /\ DOMAIN extensions' = 1 .. Len(extensions) + 1
      /\ extensions'[1] = E
      /\ \A n \in DOMAIN extensions' :
            n # 1 => n-1 \in DOMAIN extensions /\ extensions'[n] = extensions[n-1]
      /\ Members(extensions') = {E} \cup Members(extensions)
    BY <1>1, <1>3, <1>4, Prepended
<1>6. /\ \A S \in Members(extensions) : Delivered(S) /\ LecticLess(Arg \ S, closure)
      /\ \A m, n \in DOMAIN extensions : extensions[m] = extensions[n] => m = n
      /\ result = {}
    BY <1>1, <1>2, <1>3 DEF NourineEE
<1>7. E \notin Members(extensions)
    <2>1. ~LecticLess(closure, closure)
        BY <1>3, LecticAsymmetric
    <2> QED
        BY <1>4, <1>6, <2>1
<1>8. FirstClosed' = FirstClosed /\ (\A S : Delivered(S)' <=> Delivered(S))
    BY <1>1 DEF FirstClosed, Delivered
<1>9. NourineState'
    BY <1>1, <1>3, <1>5, NAssumption DEF NourineState
<1>10. \A m, n \in DOMAIN extensions' : extensions'[m] = extensions'[n] => m = n
    <2> SUFFICES ASSUME NEW m \in DOMAIN extensions', NEW n \in DOMAIN extensions',
                        extensions'[m] = extensions'[n], m # n
                 PROVE  FALSE
        OBVIOUS
    <2>1. m \in Int /\ n \in Int
        BY <1>5
    <2>2. CASE m = 1
        BY <1>5, <1>7, <2>2 DEF Members
    <2>3. CASE n = 1
        BY <1>5, <1>7, <2>3 DEF Members
    <2>4. CASE m # 1 /\ n # 1
        <3>1. /\ m-1 \in DOMAIN extensions /\ n-1 \in DOMAIN extensions
              /\ extensions[m-1] = extensions[n-1]
            BY <1>5, <2>4
        <3> QED
            BY <1>6, <2>1, <3>1
    <2> QED
        BY <2>2, <2>3, <2>4
<1>11. \A S \in Members(extensions') : Delivered(S) /\ ~Ahead(closure, N-1, Arg \ S)
    <2> SUFFICES ASSUME NEW S \in Members(extensions')
                 PROVE  Delivered(S) /\ ~Ahead(closure, N-1, Arg \ S)
        OBVIOUS
    <2>1. Arg \ S \in SUBSET Arg
        OBVIOUS
    <2>2. Delivered(S) /\ (LecticLess(Arg \ S, closure) \/ Arg \ S = closure)
        BY <1>4, <1>5, <1>6
    <2> QED
        BY <1>1, <2>1, <2>2, SearchBegins
<1>12. NourineEE'
    BY <1>1, <1>6, <1>8, <1>10, <1>11 DEF NourineEE
<1>13. NotPassed'
    <2> SUFFICES ASSUME NEW S \in StableExtensions(base)
                 PROVE  S \in Members(extensions') \/ Ahead(closure, N-1, Arg \ S)
        BY <1>1 DEF NotPassed
    <2>1. S \in SUBSET Arg /\ Arg \ S \in SUBSET Arg
        BY StableFacts
    <2>2. \/ S \in Members(extensions)
          \/ Arg \ S = closure \/ LecticLess(closure, Arg \ S)
        BY <1>1, <1>3 DEF NotPassed
    <2>3. Arg \ S = closure => S = E
        BY <2>1 DEF E
    <2> QED
        BY <1>1, <1>5, <2>1, <2>2, <2>3, SearchBegins
<1>14. Candidate'
    BY <1>1, SearchBegins DEF Candidate
<1> QED
    BY <1>1, <1>2, <1>3, <1>9, <1>12, <1>13, <1>14
    DEF NourineInv, Sharpened, BeforeWalk, NourineSE

LEMMA NourineKeepOneInv ==
    ASSUME base \in Framework, NourineInv, Nourine!KeepOne, UNCHANGED <<alg, base>>
    PROVE  NourineInv'
<1>1. /\ pc = "test" /\ prob = "SE" /\ Nourine!ExtensionFound
      /\ result' = Arg \ closure /\ pc' = "done"
      /\ UNCHANGED <<prob, base, conflicts, imps, closure, i, extensions>>
    BY NourineOperators DEF Nourine!KeepOne
<1>2. Arg \ closure \in SUBSET Arg /\ Delivered(Arg \ closure)
    BY <1>1, FoundDelivered
<1>3. FirstClosed' = FirstClosed
    BY <1>1 DEF FirstClosed
<1>4. NourineState /\ Sharpened /\ NourineSE
    BY DEF NourineInv
<1>5. NourineState'
    BY <1>1, <1>2, <1>4 DEF NourineState
<1>6. NourineSE'
    BY <1>1, <1>2, <1>3, <1>4 DEF NourineSE, Delivered
<1> QED
    BY <1>1, <1>4, <1>5, <1>6
    DEF NourineInv, Sharpened, BeforeWalk, Candidate, NourineEE, NotPassed

LEMMA NourinePassInv ==
    ASSUME base \in Framework, NourineInv, Nourine!Pass, UNCHANGED <<alg, base>>
    PROVE  NourineInv'
<1>1. /\ pc = "test" /\ ~Nourine!ExtensionFound
      /\ i' = N - 1 /\ pc' = "search"
      /\ UNCHANGED <<prob, base, conflicts, imps, closure, extensions, result>>
    BY DEF Nourine!Pass, Nourine!NextClosure
<1>2. NourineState /\ Sharpened /\ NourineEE /\ NourineSE /\ NotPassed
    BY DEF NourineInv
<1>3. FirstClosed' = FirstClosed /\ (\A S : Delivered(S)' <=> Delivered(S))
    BY <1>1 DEF FirstClosed, Delivered
<1>4. NourineState'
    BY <1>1, <1>2, NAssumption DEF NourineState
<1>5. ASSUME NEW S \in StableExtensions(base)
      PROVE  S \in Members(extensions) \/ Ahead(closure, N-1, Arg \ S)
    <2>1. S \in SUBSET Arg /\ Arg \ S \in SUBSET Arg /\ \A a, b \in S : b \notin base[a]
        BY StableFacts
    <2>2. Arg \ S # closure
        BY <1>1, <2>1, NourineOperators DEF Nourine!ExtensionFound
    <2>3. S \in Members(extensions) \/ LecticLess(closure, Arg \ S)
        BY <1>1, <1>2, <2>2 DEF NotPassed
    <2> QED
        BY <1>1, <2>1, <2>3, SearchBegins
<1>6. NotPassed'
    BY <1>1, <1>5 DEF NotPassed
<1>7. NourineEE'
    <2>1. ASSUME prob = "EE", NEW S \in Members(extensions)
          PROVE  ~Ahead(closure, N-1, Arg \ S)
        <3>1. LecticLess(Arg \ S, closure) /\ Arg \ S \in SUBSET Arg
            BY <1>1, <1>2, <2>1 DEF NourineEE
        <3> QED
            BY <1>1, <3>1, SearchBegins
    <2> QED
        BY <1>1, <1>2, <1>3, <2>1 DEF NourineEE
<1>8. Candidate'
    BY <1>1, SearchBegins DEF Candidate
<1> QED
    BY <1>1, <1>2, <1>4, <1>6, <1>7, <1>8
    DEF NourineInv, Sharpened, BeforeWalk, NourineSE

LEMMA NourineDropInv ==
    ASSUME base \in Framework, NourineInv, Nourine!Drop, UNCHANGED <<alg, base>>
    PROVE  NourineInv'
<1>1. /\ pc = "search" /\ i >= 0 /\ i \in closure
      /\ closure' = closure \ {i} /\ i' = i - 1 /\ pc' = pc
      /\ UNCHANGED <<prob, base, conflicts, imps, extensions, result>>
    BY DEF Nourine!Drop
<1>2. /\ NourineState /\ Sharpened /\ NourineEE /\ NourineSE /\ NotPassed
      /\ closure \in SUBSET Arg /\ i \in Arg /\ \A b \in closure : b <= i
    BY <1>1, NAssumption DEF NourineInv, NourineState, Candidate, Arg
<1>3. FirstClosed' = FirstClosed /\ (\A S : Delivered(S)' <=> Delivered(S))
    BY <1>1 DEF FirstClosed, Delivered
<1>4. NourineState'
    BY <1>1, <1>2, NAssumption DEF NourineState, Arg
<1>5. ASSUME NEW T \in SUBSET Arg
      PROVE  Ahead(closure, i, T) <=> Ahead(closure \ {i}, i - 1, T)
    BY <1>1, <1>2, AheadStep, AheadBack
<1>6. NotPassed'
    <2> SUFFICES ASSUME NEW S \in StableExtensions(base)
                 PROVE  S \in Members(extensions) \/ Ahead(closure \ {i}, i - 1, Arg \ S)
        BY <1>1 DEF NotPassed
    <2>1. Arg \ S \in SUBSET Arg
        OBVIOUS
    <2> QED
        BY <1>1, <1>2, <1>5, <2>1 DEF NotPassed
<1>7. NourineEE'
    <2>1. ASSUME prob = "EE", NEW S \in Members(extensions)
          PROVE  ~Ahead(closure \ {i}, i - 1, Arg \ S)
        BY <1>1, <1>2, <1>5, <2>1 DEF NourineEE
    <2> QED
        BY <1>1, <1>2, <1>3, <2>1 DEF NourineEE
<1>8. Candidate'
    BY <1>1, <1>2 DEF Candidate, Arg
<1> QED
    BY <1>1, <1>2, <1>4, <1>6, <1>7, <1>8
    DEF NourineInv, Sharpened, BeforeWalk, NourineSE

(* A stable extension whose complement begins like the set with i is not     *)
(* passed over: its complement holds the closure, and that is admitted.      *)
LEMMA NourineTryInv ==
    ASSUME base \in Framework, NourineInv, Nourine!Try, UNCHANGED <<alg, base>>
    PROVE  NourineInv'
<1> DEFINE next == Nourine!unit_close(closure \cup {i}, imps)
<1>1. /\ pc = "search" /\ i >= 0 /\ i \notin closure
      /\ UNCHANGED <<prob, base, conflicts, imps, extensions, result>>
      /\ \/ /\ Nourine!Admitted(next)
            /\ closure' = next /\ pc' = "test" /\ i' = i
         \/ /\ ~Nourine!Admitted(next)
            /\ i' = i - 1 /\ closure' = closure /\ pc' = pc
    BY DEF Nourine!Try
<1>2. /\ NourineState /\ Sharpened /\ NourineEE /\ NourineSE /\ NotPassed
      /\ closure \in SUBSET Arg /\ i \in Arg /\ \A b \in closure : b <= i
    BY <1>1, NAssumption DEF NourineInv, NourineState, Candidate, Arg
<1>3. /\ next \in SUBSET Arg
      /\ closure \cup {i} \subseteq next
      /\ \A S \in SUBSET Arg : closure \cup {i} \subseteq S /\ Closed(S, imps)
                                    => next \subseteq S
    <2>1. closure \cup {i} \in SUBSET Arg /\ imps \in SUBSET Implications
        BY <1>2 DEF NourineState
    <2> QED
        BY <2>1, UnitCloseRight
<1> HIDE DEF next
<1>4. Nourine!Admitted(next) <=> /\ \A j \in next : j >= i \/ j \in closure
                                 /\ NotDominated(next)
    BY <1>3, NourineOperators DEF Nourine!Admitted, NotDominated
<1>5. FirstClosed' = FirstClosed /\ (\A S : Delivered(S)' <=> Delivered(S))
    BY <1>1 DEF FirstClosed, Delivered
<1>6. NourineState'
    BY <1>1, <1>2, <1>3, NAssumption DEF NourineState, Arg
<1>7. ASSUME NEW S \in StableExtensions(base), i \in Arg \ S, SameBelow(closure, Arg \ S, i)
      PROVE  next \subseteq Arg \ S /\ Nourine!Admitted(next)
    <2>1. /\ S \in SUBSET Arg
          /\ \A a \in Arg : a \in S \/ \E b \in S : a \in base[b]
        BY StableFacts
    <2>2. Arg \ S \in SUBSET Arg /\ Closed(Arg \ S, imps)
        BY <1>2, ComplementClosed
    <2>3. closure \cup {i} \subseteq Arg \ S
        BY <1>1, <1>2, <1>7 DEF SameBelow, Arg
    <2>4. next \subseteq Arg \ S
        BY <1>3, <2>2, <2>3
    <2>5. NotDominated(next)
        BY <1>3, <2>1, <2>4 DEF NotDominated
    <2>6. \A j \in next : j >= i \/ j \in closure
        BY <1>2, <1>3, <1>7, <2>4 DEF SameBelow, Arg
    <2> QED
        BY <1>4, <2>4, <2>5, <2>6
<1>8. CASE Nourine!Admitted(next)
    <2>1. closure' = next /\ pc' = "test" /\ i' = i
        BY <1>1, <1>8
    <2>2. \A b \in next \ closure : b >= i
        BY <1>4, <1>8
    <2>3. NotPassed'
        <3> SUFFICES ASSUME NEW S \in StableExtensions(base), S \notin Members(extensions)
                     PROVE  Arg \ S = next \/ LecticLess(next, Arg \ S)
            BY <1>1, <2>1 DEF NotPassed
        <3>1. Arg \ S \in SUBSET Arg /\ Ahead(closure, i, Arg \ S)
            BY <1>1, <1>2 DEF NotPassed
        <3> QED
            BY <1>2, <1>3, <1>7, <2>2, <3>1, AcceptedOrAbove
    <2>4. NourineEE'
        <3>1. ASSUME prob = "EE", NEW S \in Members(extensions)
              PROVE  LecticLess(Arg \ S, next)
            <4>1. Arg \ S \in SUBSET Arg /\ ~Ahead(closure, i, Arg \ S)
                BY <1>1, <1>2, <3>1 DEF NourineEE
            <4>2. ~(Arg \ S = next \/ LecticLess(next, Arg \ S))
                BY <1>1, <1>2, <1>3, <2>2, <4>1, NotLessWasAhead
            <4> QED
                BY <1>3, <4>1, <4>2, LecticTotal
        <3> QED
            BY <1>1, <1>2, <1>5, <2>1, <3>1 DEF NourineEE
    <2>5. Candidate'
        BY <1>4, <1>8, <2>1 DEF Candidate, NotDominated
    <2> QED
        BY <1>1, <1>2, <1>6, <2>1, <2>3, <2>4, <2>5
        DEF NourineInv, Sharpened, BeforeWalk, NourineSE
<1>9. CASE ~Nourine!Admitted(next)
    <2>1. i' = i - 1 /\ closure' = closure /\ pc' = pc
        BY <1>1, <1>9
    <2>2. closure \ {i} = closure
        BY <1>1
    <2>3. NotPassed'
        <3> SUFFICES ASSUME NEW S \in StableExtensions(base), S \notin Members(extensions)
                     PROVE  Ahead(closure, i - 1, Arg \ S)
            BY <1>1, <2>1 DEF NotPassed
        <3>1. Arg \ S \in SUBSET Arg /\ Ahead(closure, i, Arg \ S)
            BY <1>1, <1>2 DEF NotPassed
        <3>2. ~(i \in Arg \ S /\ i \notin closure /\ SameBelow(closure, Arg \ S, i))
            BY <1>7, <1>9
        <3>3. Ahead(closure \ {i}, i - 1, Arg \ S)
            BY <1>2, <3>1, <3>2, AheadStep
        <3> QED
            BY <2>2, <3>3
    <2>4. NourineEE'
        <3>1. ASSUME prob = "EE", NEW S \in Members(extensions)
              PROVE  ~Ahead(closure, i - 1, Arg \ S)
            <4>1. Arg \ S \in SUBSET Arg /\ ~Ahead(closure, i, Arg \ S)
                BY <1>1, <1>2, <3>1 DEF NourineEE
            <4>2. ~Ahead(closure \ {i}, i - 1, Arg \ S)
                BY <1>2, <4>1, AheadBack
            <4> QED
                BY <2>2, <4>2
        <3> QED
            BY <1>1, <1>2, <1>5, <2>1, <3>1 DEF NourineEE
    <2>5. Candidate'
        BY <1>1, <1>2, <2>1 DEF Candidate, Arg
    <2> QED
        BY <1>1, <1>2, <1>6, <2>1, <2>3, <2>4, <2>5
        DEF NourineInv, Sharpened, BeforeWalk, NourineSE
<1> QED
    BY <1>8, <1>9

LEMMA NourineWalkOverInv ==
    ASSUME base \in Framework, NourineInv, Nourine!WalkOver, UNCHANGED <<alg, base>>
    PROVE  NourineInv'
<1>1. /\ pc = "search" /\ i < 0 /\ pc' = "done"
      /\ UNCHANGED <<prob, base, conflicts, imps, closure, i, extensions, result>>
    BY DEF Nourine!WalkOver
<1>2. /\ NourineState /\ Sharpened /\ NourineEE /\ NourineSE /\ NotPassed
      /\ i \in -1 .. N-1
    BY DEF NourineInv, NourineState
<1>3. \A T : ~Ahead(closure, i, T)
    BY <1>1, <1>2, NAssumption DEF Ahead, Arg
<1>4. \A S \in StableExtensions(base) : S \in Members(extensions)
    BY <1>1, <1>2, <1>3 DEF NotPassed
<1>5. prob = "SE" => StableExtensions(base) = {} /\ result = {}
    BY <1>1, <1>2, <1>4 DEF NourineSE, Members
<1>6. NourineState'
    BY <1>1, <1>2 DEF NourineState
<1>7. NourineEE' /\ NourineSE' /\ NotPassed'
    BY <1>1, <1>2, <1>4, <1>5
    DEF NourineEE, NourineSE, NotPassed, Delivered, FirstClosed
<1> QED
    BY <1>1, <1>2, <1>6, <1>7 DEF NourineInv, Sharpened, BeforeWalk, Candidate

LEMMA NourineNextInv ==
    ASSUME base \in Framework, prob \in {"EE", "SE"}, NourineInv, Nourine!Next,
           UNCHANGED <<alg, base>>
    PROVE  NourineInv'
<1>1. ASSUME Nourine!Returned
      PROVE  NourineInv'
    BY <1>1
    DEF Nourine!Returned, Nourine!vars, NourineInv, NourineState, Sharpened, BeforeWalk,
        Candidate, NourineEE, NourineSE, NotPassed, Delivered, FirstClosed
<1> QED
    BY <1>1, UpdateConflictsInv, RemoveConflictsInv, StartWalkInv, NourineKeepInv,
       NourineKeepOneInv, NourinePassInv, NourineDropInv, NourineTryInv, NourineWalkOverInv
    DEF Nourine!Next

-------------------------------------------------------------------------------
(* Norris' algorithm bottom up.                                              *)

(* The arguments below n that attack nothing in X, and what X leaves alone.  *)
HarmlessBelow(att, X, n) == {j \in Arg : j < n /\ att[j] \cap X = {}}

Unattacked(att, X) == {a \in Arg : \A b \in X : a \notin att[b]}

BuConcepts == [extent : SUBSET Arg, intent : SUBSET Arg]

(* A node that has taken in the arguments below n: its intent is no          *)
(* extension.                                                                *)
BuNode(att, node, n) ==
    /\ node \in BuConcepts
    /\ node.extent = HarmlessBelow(att, node.intent, n)
    /\ Unattacked(att, node.intent) # node.intent

(* How far node m of the list has come in round n.                           *)
Taken(m, at, n) == IF m < at THEN n + 1 ELSE n

BuState ==
    /\ i \in 0 .. N
    /\ cur \in Nat \ {0}
    /\ concepts \in Seq(BuConcepts) /\ fresh \in Seq(BuConcepts)
    /\ extensions \in Seq(SUBSET Arg)
    /\ pc \in {"round", "done", "print", "exit"}
    /\ pc = "round" =>
        /\ i < N /\ cur <= Len(concepts) + 1
        /\ \A m \in DOMAIN concepts : BuNode(base, concepts[m], Taken(m, cur, i))
        /\ \A m \in DOMAIN fresh : BuNode(base, fresh[m], i + 1)

(* No two nodes have the same extent, and a new one that of its parent, with *)
(* the argument of the round.                                                *)
BuDistinct ==
    pc = "round" =>
        /\ \A m, n \in DOMAIN concepts :
            m # n => concepts[m].extent \ {i} # concepts[n].extent \ {i}
        /\ \A m, n \in DOMAIN fresh : m # n => fresh[m].extent # fresh[n].extent
        /\ \A m \in DOMAIN fresh : \E n \in DOMAIN concepts :
            /\ n < cur /\ i \notin concepts[n].extent
            /\ fresh[m].extent = concepts[n].extent \cup {i}

(* What is listed is stable, listed once, and below no node any more.        *)
BuFound ==
    /\ \A m, n \in DOMAIN extensions : extensions[m] = extensions[n] => m = n
    /\ \A S \in Members(extensions) :
        /\ S \in StableExtensions(base)
        /\ pc = "round" =>
            /\ \A m \in DOMAIN concepts : concepts[m].extent
                    # HarmlessBelow(base, S, Taken(m, cur, i))
            /\ \A m \in DOMAIN fresh : fresh[m].extent # HarmlessBelow(base, S, i + 1)

(* Any other stable extension is below a node with its harmless arguments.   *)
BelowNode(S) ==
    \/ \E m \in DOMAIN concepts :
        S \subseteq concepts[m].intent
            /\ concepts[m].extent = HarmlessBelow(base, S, Taken(m, cur, i))
    \/ \E m \in DOMAIN fresh :
        S \subseteq fresh[m].intent /\ fresh[m].extent = HarmlessBelow(base, S, i + 1)

(* No extension is lost: one that is not listed is below a node.             *)
BuSought ==
    \A S \in StableExtensions(base) \ Members(extensions) : pc = "round" /\ BelowNode(S)

(* The inductive invariant of the algorithm bottom up.                       *)
BuInv == BuState /\ BuDistinct /\ BuFound /\ BuSought

LEMMA BottomUpOperators ==
    ASSUME base \in Framework
    PROVE  /\ BottomUp!StableExtensions(base) = StableExtensions(base)
           /\ \A n \in 0 .. N : \A S :
                BottomUp!Harmless(S) \cap (0 .. n-1) = HarmlessBelow(base, S, n)
           /\ \A a : BottomUp!not_attacks(a) = Arg \ base[a]
           /\ \A X : BottomUp!arrow_up(X) = Unattacked(base, X)
           /\ BottomUp!IsConflictFree(base, Arg) <=> \A a, b \in Arg : b \notin base[a]
           /\ BottomUp!Arg = Arg
<1>1. DOMAIN base = Arg
    BY DEF Framework
<1>2. BottomUp!StableExtensions(base) = StableExtensions(base)
    BY DEF BottomUp!StableExtensions, BottomUp!Stable, StableExtensions, Stable
<1>3. BottomUp!Arg = Arg
    BY DEF BottomUp!Arg, Arg
<1>4. \A n \in 0 .. N : \A S :
        BottomUp!Harmless(S) \cap (0 .. n-1) = HarmlessBelow(base, S, n)
    BY <1>3, NAssumption DEF BottomUp!Harmless, HarmlessBelow, Arg
<1>5. \A a : BottomUp!not_attacks(a) = Arg \ base[a]
    BY <1>3 DEF BottomUp!not_attacks
<1>6. \A X : BottomUp!arrow_up(X) = Unattacked(base, X)
    BY <1>3, <1>5 DEF BottomUp!arrow_up, Unattacked
<1>7. BottomUp!IsConflictFree(base, Arg) <=> \A a, b \in Arg : b \notin base[a]
    BY DEF BottomUp!IsConflictFree, BottomUp!ArgAttacksSet
<1> QED
    BY <1>2, <1>3, <1>4, <1>5, <1>6, <1>7

(* A set is stable if and only if it is what it leaves unattacked.           *)
LEMMA UnattackedFacts ==
    ASSUME base \in Framework
    PROVE  /\ \A S \in SUBSET Arg : S \in StableExtensions(base) <=> Unattacked(base, S) = S
           /\ \A S, T : S \subseteq T => Unattacked(base, T) \subseteq Unattacked(base, S)
           /\ \A S, T \in StableExtensions(base) : S \subseteq T => S = T
<1>1. \A S \in SUBSET Arg : Stable(base, S) <=> Unattacked(base, S) = S
    <2>1. \A S \in SUBSET Arg :
            Stable(base, S) <=> \A a \in Arg : a \in S <=> a \in Unattacked(base, S)
        BY DEF Stable, Unattacked, Framework
    <2>2. \A S : Unattacked(base, S) \subseteq Arg
        BY DEF Unattacked
    <2> QED
        BY <2>1, <2>2
<1>2. \A S, T : S \subseteq T => Unattacked(base, T) \subseteq Unattacked(base, S)
    BY DEF Unattacked
<1>3. \A S \in SUBSET Arg : S \in StableExtensions(base) <=> Unattacked(base, S) = S
    BY <1>1, StableFacts
<1>4. ASSUME NEW S \in StableExtensions(base), NEW T \in StableExtensions(base),
             S \subseteq T
      PROVE  S = T
    <2>1. Unattacked(base, S) = S /\ Unattacked(base, T) = T
        BY <1>3, StableFacts
    <2> QED
        BY <1>2, <1>4, <2>1
<1> QED
    BY <1>2, <1>3, <1>4

(* The harmless arguments below the next one.                                *)
LEMMA HarmlessStep ==
    ASSUME NEW n \in Arg, NEW X
    PROVE  /\ n \notin HarmlessBelow(base, X, n) /\ HarmlessBelow(base, X, n) \subseteq Arg
           /\ base[n] \cap X = {} => HarmlessBelow(base, X, n + 1) =
                   HarmlessBelow(base, X, n) \cup {n}
           /\ base[n] \cap X # {} => HarmlessBelow(base, X, n + 1) = HarmlessBelow(base, X, n)
           /\ HarmlessBelow(base, X, n + 1) \ {n} = HarmlessBelow(base, X, n)
BY DEF HarmlessBelow, Arg

LEMMA BottomUpInitInv ==
    ASSUME base \in Framework, BottomUp!Init
    PROVE  BuInv
<1>1. /\ i = 0 /\ cur = 1 /\ fresh = <<>>
      /\ \/ /\ \A a, b \in Arg : b \notin base[a]
            /\ pc = "done" /\ concepts = <<>> /\ extensions = <<Arg>>
         \/ /\ ~\A a, b \in Arg : b \notin base[a]
            /\ pc = "round" /\ concepts = <<BottomUp!Concept({}, Arg)>> /\ extensions = <<>>
    BY BottomUpOperators DEF BottomUp!Init
<1>2. CASE pc = "done"
    <2>1. /\ \A a, b \in Arg : b \notin base[a]
          /\ concepts = <<>> /\ extensions = <<Arg>>
        BY <1>1, <1>2
    <2>2. Members(extensions) = {Arg} /\ DOMAIN extensions = {1}
        BY <2>1 DEF Members
    <2>3. StableExtensions(base) = {Arg}
        <3>1. Unattacked(base, Arg) = Arg
            BY <2>1 DEF Unattacked
        <3>2. Arg \in StableExtensions(base)
            BY <3>1, UnattackedFacts
        <3> QED
            BY <3>2, UnattackedFacts, StableFacts
    <2> QED
        BY <1>1, <1>2, <2>1, <2>2, <2>3, NAssumption
        DEF BuInv, BuState, BuDistinct, BuFound, BuSought
<1>3. CASE pc = "round"
    <2>1. /\ ~\A a, b \in Arg : b \notin base[a]
          /\ concepts = <<BottomUp!Concept({}, Arg)>> /\ extensions = <<>>
        BY <1>1, <1>3
    <2> DEFINE top == BottomUp!Concept({}, Arg)
    <2>2. /\ top \in BuConcepts /\ top.extent = {} /\ top.intent = Arg
        BY DEF BottomUp!Concept, BuConcepts
    <2> HIDE DEF top
    <2>3. /\ concepts \in Seq(BuConcepts) /\ DOMAIN concepts = {1} /\ concepts[1] = top
          /\ Len(concepts) = 1
          /\ fresh \in Seq(BuConcepts) /\ DOMAIN fresh = {}
          /\ extensions \in Seq(SUBSET Arg) /\ DOMAIN extensions = {}
          /\ Members(extensions) = {}
        BY <1>1, <2>1, <2>2 DEF top, Members
    <2>4. \A X : HarmlessBelow(base, X, 0) = {}
        BY DEF HarmlessBelow, Arg
    <2>5. Unattacked(base, Arg) # Arg
        BY <2>1 DEF Unattacked
    <2>6. BuNode(base, top, 0)
        BY <2>2, <2>4, <2>5 DEF BuNode
    <2>7. Taken(1, cur, i) = 0
        BY <1>1 DEF Taken
    <2>8. BuState
        BY <1>1, <1>3, <2>3, <2>6, <2>7, NAssumption DEF BuState
    <2>9. BuDistinct /\ BuFound
        BY <2>3 DEF BuDistinct, BuFound
    <2>10. BuSought
        BY <1>3, <2>2, <2>3, <2>4, <2>7, StableFacts DEF BuSought, BelowNode
    <2> QED
        BY <2>8, <2>9, <2>10 DEF BuInv
<1> QED
    BY <1>1, <1>2, <1>3

(* The node of the walk, and what the other nodes have in common.            *)
LEMMA BuWalking ==
    ASSUME base \in Framework, BuInv, BottomUp!Walking
    PROVE  /\ pc = "round" /\ i \in Arg /\ cur \in DOMAIN concepts
           /\ cur \in Nat /\ cur <= Len(concepts)
           /\ concepts[cur] \in BuConcepts
           /\ BuNode(base, concepts[cur], i) /\ Taken(cur, cur, i) = i
           /\ i \notin concepts[cur].extent
           /\ concepts[cur].extent = HarmlessBelow(base, concepts[cur].intent, i)
           /\ BottomUp!Covered(concepts[cur]) <=> base[i] \cap concepts[cur].intent = {}
           /\ DOMAIN concepts = 1 .. Len(concepts) /\ Len(concepts) \in Nat
<1>1. pc = "round" /\ cur <= Len(concepts) /\ BuState
    BY DEF BottomUp!Walking, BuInv
<1>2. /\ i \in Arg /\ cur \in DOMAIN concepts /\ cur \in Nat
      /\ DOMAIN concepts = 1 .. Len(concepts) /\ Len(concepts) \in Nat
    BY <1>1, NAssumption DEF BuState, Arg
<1>3. Taken(cur, cur, i) = i
    BY <1>2 DEF Taken
<1>4. BuNode(base, concepts[cur], i)
    BY <1>1, <1>2, <1>3 DEF BuState
<1>5. /\ concepts[cur] \in BuConcepts
      /\ concepts[cur].extent = HarmlessBelow(base, concepts[cur].intent, i)
      /\ concepts[cur].intent \in SUBSET Arg
    BY <1>4 DEF BuNode, BuConcepts
<1>6. i \notin concepts[cur].extent
    BY <1>2, <1>5 DEF HarmlessBelow, Arg
<1>7. BottomUp!Covered(concepts[cur]) <=> base[i] \cap concepts[cur].intent = {}
    BY <1>5, BottomUpOperators DEF BottomUp!Covered
<1> QED
    BY <1>1, <1>2, <1>3, <1>4, <1>5, <1>6, <1>7

LEMMA BottomUpUpdateInv ==
    ASSUME base \in Framework, BuInv, BottomUp!Update, UNCHANGED base
    PROVE  BuInv'
<1> DEFINE node == concepts[cur]
           grown == [node EXCEPT !.extent = @ \cup {i}]
<1>1. /\ BottomUp!Walking /\ BottomUp!Covered(node)
      /\ concepts' = [concepts EXCEPT ![cur] = grown]
      /\ cur' = cur + 1
      /\ UNCHANGED <<base, i, fresh, extensions, pc>>
    <2>1. BottomUp!Update
        OBVIOUS
    <2> QED
        BY <2>1 DEF BottomUp!Update, BottomUp!Walking
<1>2. /\ pc = "round" /\ i \in Arg /\ cur \in DOMAIN concepts /\ cur \in Nat
      /\ cur <= Len(concepts) /\ node \in BuConcepts
          /\ BuNode(base, node, i) /\ Taken(cur, cur, i) = i
      /\ i \notin node.extent
      /\ node.extent = HarmlessBelow(base, node.intent, i)
      /\ base[i] \cap node.intent = {}
      /\ DOMAIN concepts = 1 .. Len(concepts) /\ Len(concepts) \in Nat
    BY <1>1, BuWalking
<1>3. BuState /\ BuDistinct /\ BuFound /\ BuSought
    BY DEF BuInv
<1>4. /\ grown \in BuConcepts
      /\ grown.extent = node.extent \cup {i} /\ grown.intent = node.intent
    BY <1>2 DEF BuConcepts
<1> HIDE DEF node, grown
<1>5. /\ concepts' \in Seq(BuConcepts) /\ DOMAIN concepts' = DOMAIN concepts
      /\ Len(concepts') = Len(concepts)
      /\ concepts'[cur] = grown
      /\ \A m \in DOMAIN concepts : m # cur => concepts'[m] = concepts[m]
    BY <1>1, <1>2, <1>3, <1>4 DEF BuState
<1>6. /\ \A m \in DOMAIN concepts : m # cur => Taken(m, cur + 1, i) = Taken(m, cur, i)
      /\ Taken(cur, cur + 1, i) = i + 1
    BY <1>1, <1>2 DEF Taken
<1>7. BuNode(base, grown, i + 1)
    BY <1>2, <1>4, HarmlessStep DEF BuNode
<1>8. BuState'
    <2>1. \A m \in DOMAIN concepts : BuNode(base, concepts'[m], Taken(m, cur + 1, i))
        BY <1>2, <1>3, <1>5, <1>6, <1>7 DEF BuState
    <2> QED
        BY <1>1, <1>2, <1>3, <1>5, <2>1 DEF BuState
<1>9. \A m \in DOMAIN concepts : concepts'[m].extent \ {i} = concepts[m].extent \ {i}
    BY <1>2, <1>4, <1>5 DEF node
<1>10. BuDistinct'
    <2>1. \A m \in DOMAIN fresh : \E n \in DOMAIN concepts :
            /\ n < cur + 1 /\ i \notin concepts'[n].extent
            /\ fresh[m].extent = concepts'[n].extent \cup {i}
        <3> SUFFICES ASSUME NEW m \in DOMAIN fresh
                     PROVE  \E n \in DOMAIN concepts :
                                /\ n < cur + 1 /\ i \notin concepts'[n].extent
                                /\ fresh[m].extent = concepts'[n].extent \cup {i}
            OBVIOUS
        <3>1. PICK n \in DOMAIN concepts :
                /\ n < cur /\ i \notin concepts[n].extent
                /\ fresh[m].extent = concepts[n].extent \cup {i}
            BY <1>2, <1>3 DEF BuDistinct
        <3>2. n < cur + 1 /\ n # cur
            BY <1>2, <3>1
        <3> QED
            BY <1>5, <3>1, <3>2
    <2> QED
        BY <1>1, <1>2, <1>3, <1>5, <1>9, <2>1 DEF BuDistinct
<1>11. ASSUME NEW S, HarmlessBelow(base, S, i + 1) = node.extent \cup {i}
       PROVE  HarmlessBelow(base, S, i) = node.extent
    <2>1. HarmlessBelow(base, S, i + 1) \ {i} = HarmlessBelow(base, S, i)
        BY <1>2, HarmlessStep
    <2> QED
        BY <1>2, <1>11, <2>1
<1>12. BuFound'
    <2>1. ASSUME NEW S \in Members(extensions), NEW m \in DOMAIN concepts
          PROVE  concepts'[m].extent # HarmlessBelow(base, S, Taken(m, cur + 1, i))
        <3>1. concepts[m].extent # HarmlessBelow(base, S, Taken(m, cur, i))
            BY <1>2, <1>3, <2>1 DEF BuFound
        <3> QED
            BY <1>2, <1>4, <1>5, <1>6, <1>11, <3>1 DEF node
    <2> QED
        BY <1>1, <1>2, <1>3, <1>5, <2>1 DEF BuFound
<1>13. BuSought'
    <2> SUFFICES ASSUME NEW S \in StableExtensions(base) \ Members(extensions)
                 PROVE  BelowNode(S)'
        BY <1>1, <1>2 DEF BuSought
    <2>1. BelowNode(S)
        BY <1>3 DEF BuSought
    <2>2. CASE \E m \in DOMAIN fresh :
                S \subseteq fresh[m].intent /\ fresh[m].extent = HarmlessBelow(base, S, i + 1)
        BY <1>1, <2>2 DEF BelowNode
    <2>3. CASE \E m \in DOMAIN concepts :
                S \subseteq concepts[m].intent
                    /\ concepts[m].extent = HarmlessBelow(base, S, Taken(m, cur, i))
        <3>1. PICK m \in DOMAIN concepts :
                S \subseteq concepts[m].intent
                    /\ concepts[m].extent = HarmlessBelow(base, S, Taken(m, cur, i))
            BY <2>3
        <3>2. S \subseteq concepts'[m].intent
                /\ concepts'[m].extent = HarmlessBelow(base, S, Taken(m, cur + 1, i))
            <4>1. CASE m # cur
                BY <1>5, <1>6, <3>1, <4>1
            <4>2. CASE m = cur
                <5>1. S \subseteq node.intent /\ node.extent = HarmlessBelow(base, S, i)
                    BY <1>2, <3>1, <4>2 DEF node
                <5>2. base[i] \cap S = {}
                    BY <1>2, <5>1
                <5>3. HarmlessBelow(base, S, i + 1) = node.extent \cup {i}
                    BY <1>2, <5>1, <5>2, HarmlessStep
                <5> QED
                    BY <1>4, <1>5, <1>6, <4>2, <5>1, <5>3
            <4> QED
                BY <4>1, <4>2
        <3> QED
            BY <1>1, <1>5, <3>2 DEF BelowNode
    <2> QED
        BY <2>1, <2>2, <2>3 DEF BelowNode
<1> QED
    BY <1>8, <1>10, <1>12, <1>13 DEF BuInv

(* A node whose intent is narrowed: its extent grows by the argument, and    *)
(* each extension below it for which the argument is harmless stays below    *)
(* the narrowed one.                                                         *)
LEMMA Narrowed ==
    ASSUME base \in Framework, NEW n \in Arg, NEW node, BuNode(base, node, n),
           base[n] \cap node.intent # {},
           NEW intent, intent = node.intent \cap (Arg \ base[n])
    PROVE  /\ intent \in SUBSET Arg
           /\ node.extent = HarmlessBelow(base, node.intent, n + 1)
           /\ (\A j \in 0 .. n-1 : j \notin node.extent => base[j] \cap intent # {})
                <=> node.extent \cup {n} = HarmlessBelow(base, intent, n + 1)
           /\ \A S \in StableExtensions(base) :
                S \subseteq node.intent /\ node.extent = HarmlessBelow(base, S, n)
                        /\ base[n] \cap S = {}
                    => /\ S \subseteq intent
                       /\ node.extent \cup {n} = HarmlessBelow(base, intent, n + 1)
                       /\ node.extent \cup {n} = HarmlessBelow(base, S, n + 1)
                       /\ Unattacked(base, intent) \subseteq intent
<1>1. /\ node.extent = HarmlessBelow(base, node.intent, n) /\ node.intent \in SUBSET Arg
      /\ n \notin node.extent
    BY HarmlessStep DEF BuNode, BuConcepts
<1>2. node.extent = HarmlessBelow(base, node.intent, n + 1)
    BY <1>1, HarmlessStep
<1>3. base[n] \cap intent = {}
    OBVIOUS
<1>4. HarmlessBelow(base, intent, n + 1) = HarmlessBelow(base, intent, n) \cup {n}
    BY <1>3, HarmlessStep
<1>5. node.extent \subseteq HarmlessBelow(base, intent, n)
    BY <1>1 DEF HarmlessBelow
<1>6. n \notin HarmlessBelow(base, intent, n)
    BY HarmlessStep
<1>7. (\A j \in 0 .. n-1 : j \notin node.extent => base[j] \cap intent # {})
            <=> HarmlessBelow(base, intent, n) \subseteq node.extent
    <2>1. \A j : j \in 0 .. n-1 <=> j \in Arg /\ j < n
        BY NAssumption DEF Arg
    <2> QED
        BY <2>1 DEF HarmlessBelow
<1>8. HarmlessBelow(base, intent, n) \subseteq node.extent
            <=> node.extent \cup {n} = HarmlessBelow(base, intent, n + 1)
    BY <1>1, <1>4, <1>5, <1>6
<1>9. ASSUME NEW S \in StableExtensions(base), S \subseteq node.intent,
             node.extent = HarmlessBelow(base, S, n), base[n] \cap S = {}
      PROVE  /\ S \subseteq intent
             /\ node.extent \cup {n} = HarmlessBelow(base, intent, n + 1)
             /\ node.extent \cup {n} = HarmlessBelow(base, S, n + 1)
             /\ Unattacked(base, intent) \subseteq intent
    <2>1. S \in SUBSET Arg /\ Unattacked(base, S) = S
        BY UnattackedFacts, StableFacts
    <2>2. S \subseteq intent
        BY <1>9, <2>1
    <2>3. HarmlessBelow(base, intent, n) \subseteq node.extent
        BY <1>9, <2>2 DEF HarmlessBelow
    <2>4. Unattacked(base, intent) \subseteq S
        BY <2>1, <2>2, UnattackedFacts
    <2>5. HarmlessBelow(base, S, n + 1) = HarmlessBelow(base, S, n) \cup {n}
        BY <1>9, HarmlessStep
    <2> QED
        BY <1>8, <1>9, <2>2, <2>3, <2>4, <2>5
<1> QED
    BY <1>1, <1>2, <1>7, <1>8, <1>9

LEMMA BottomUpBranchInv ==
    ASSUME base \in Framework, BuInv, BottomUp!Branch, UNCHANGED base
    PROVE  BuInv'
<1> DEFINE node == concepts[cur]
           intent == node.intent \cap (Arg \ base[i])
           up == Unattacked(base, intent)
           new == BottomUp!Concept(node.extent \cup {i}, intent)
           closed == BottomUp!IsNewExtentClosed(node, intent)
<1>1. /\ BottomUp!Walking /\ ~BottomUp!Covered(node)
      /\ extensions' = IF closed /\ intent = up THEN <<intent>> \o extensions ELSE extensions
      /\ fresh' = IF closed /\ intent # up /\ up \subseteq intent
                  THEN <<new>> \o fresh ELSE fresh
      /\ cur' = cur + 1
      /\ UNCHANGED <<base, i, concepts, pc>>
    <2>1. BottomUp!Branch
        OBVIOUS
    <2> QED
        BY <2>1, BottomUpOperators DEF BottomUp!Branch, BottomUp!Walking
<1>2. /\ pc = "round" /\ i \in Arg /\ cur \in DOMAIN concepts /\ cur \in Nat
      /\ cur <= Len(concepts) /\ node \in BuConcepts /\ BuNode(base, node, i)
      /\ Taken(cur, cur, i) = i
      /\ i \notin node.extent
      /\ base[i] \cap node.intent # {}
      /\ DOMAIN concepts = 1 .. Len(concepts) /\ Len(concepts) \in Nat
    BY <1>1, BuWalking
<1>3. BuState /\ BuDistinct /\ BuFound /\ BuSought
    BY DEF BuInv
<1>4. /\ new.extent = node.extent \cup {i} /\ new.intent = intent
      /\ intent \in SUBSET Arg => new \in BuConcepts
    BY <1>2 DEF BuConcepts, BottomUp!Concept
<1>5. closed <=> \A j \in 0 .. i-1 : j \notin node.extent => base[j] \cap intent # {}
    BY <1>2, BottomUpOperators DEF BottomUp!IsNewExtentClosed
<1> HIDE DEF closed, new
<1>6. /\ intent \in SUBSET Arg
      /\ node.extent = HarmlessBelow(base, node.intent, i + 1)
      /\ closed <=> node.extent \cup {i} = HarmlessBelow(base, intent, i + 1)
      /\ \A S \in StableExtensions(base) :
            S \subseteq node.intent /\ node.extent = HarmlessBelow(base, S, i)
                /\ base[i] \cap S = {}
                => /\ S \subseteq intent /\ closed
                   /\ node.extent \cup {i} = HarmlessBelow(base, S, i + 1)
                   /\ up \subseteq intent
    <2>1. intent = node.intent \cap (Arg \ base[i]) /\ up = Unattacked(base, intent)
        OBVIOUS
    <2> HIDE DEF node, intent, up
    <2> QED
        BY <1>2, <1>5, <2>1, Narrowed
<1> HIDE DEF node, intent, up
<1> DEFINE kept == closed /\ intent = up
           added == closed /\ intent # up /\ up \subseteq intent
<1>7. BuNode(base, node, i + 1)
    BY <1>2, <1>6 DEF BuNode
<1>8. added => BuNode(base, new, i + 1)
    BY <1>4, <1>6 DEF BuNode, up
<1>9. /\ \A m \in DOMAIN concepts : m # cur => Taken(m, cur + 1, i) = Taken(m, cur, i)
      /\ Taken(cur, cur + 1, i) = i + 1
    BY <1>2 DEF Taken
<1>10. kept => intent \in StableExtensions(base)
    BY <1>6, UnattackedFacts DEF up
<1>11. \A S : HarmlessBelow(base, S, i + 1) \ {i} = HarmlessBelow(base, S, i)
    BY <1>2, HarmlessStep
<1>12. kept => /\ node.extent = HarmlessBelow(base, intent, i)
               /\ HarmlessBelow(base, intent, i + 1) = node.extent \cup {i}
    <2> SUFFICES ASSUME kept
                 PROVE  node.extent = HarmlessBelow(base, intent, i)
        BY <1>6
    <2>1. HarmlessBelow(base, intent, i + 1) = node.extent \cup {i}
        BY <1>6
    <2> QED
        BY <1>2, <1>11, <2>1
<1>13. ASSUME added
       PROVE  /\ fresh' \in Seq(BuConcepts) /\ DOMAIN fresh' = 1 .. Len(fresh) + 1
              /\ fresh'[1] = new
              /\ \A m \in DOMAIN fresh' :
                    m # 1 => m-1 \in DOMAIN fresh /\ fresh'[m] = fresh[m-1]
              /\ \A m \in DOMAIN fresh : m+1 \in DOMAIN fresh' /\ fresh'[m+1] = fresh[m]
    <2>1. fresh' = <<new>> \o fresh /\ new \in BuConcepts /\ fresh \in Seq(BuConcepts)
        BY <1>1, <1>3, <1>4, <1>6, <1>13 DEF BuState
    <2> QED
        BY <2>1, Stacked
<1>14. ~added => fresh' = fresh
    BY <1>1
<1>15. ASSUME kept
       PROVE  /\ extensions' \in Seq(SUBSET Arg)
              /\ DOMAIN extensions' = 1 .. Len(extensions) + 1
              /\ extensions'[1] = intent
              /\ \A n \in DOMAIN extensions' :
                    n # 1 => n-1 \in DOMAIN extensions /\ extensions'[n] = extensions[n-1]
              /\ Members(extensions') = {intent} \cup Members(extensions)
    <2>1. extensions' = <<intent>> \o extensions
        BY <1>1, <1>15
    <2>2. extensions \in Seq(SUBSET Arg)
        BY <1>3 DEF BuState
    <2> QED
        BY <1>6, <2>1, <2>2, Prepended
<1>16. ~kept => extensions' = extensions
    BY <1>1
<1>17. ~kept => Members(extensions') = Members(extensions)
    BY <1>16
<1> HIDE DEF kept, added
<1>18. BuState'
    <2>1. \A m \in DOMAIN concepts : BuNode(base, concepts[m], Taken(m, cur + 1, i))
        <3> SUFFICES ASSUME NEW m \in DOMAIN concepts
                     PROVE  BuNode(base, concepts[m], Taken(m, cur + 1, i))
            OBVIOUS
        <3>1. CASE m = cur
            BY <1>7, <1>9, <3>1 DEF node
        <3>2. CASE m # cur
            BY <1>2, <1>3, <1>9, <3>2 DEF BuState
        <3> QED
            BY <3>1, <3>2
    <2>2. fresh' \in Seq(BuConcepts) /\ \A m \in DOMAIN fresh' : BuNode(base, fresh'[m], i + 1)
        BY <1>2, <1>3, <1>8, <1>13, <1>14 DEF BuState
    <2>3. extensions' \in Seq(SUBSET Arg)
        BY <1>3, <1>15, <1>16 DEF BuState
    <2> QED
        BY <1>1, <1>2, <1>3, <2>1, <2>2, <2>3 DEF BuState
<1>19. \A m \in DOMAIN fresh : fresh[m].extent # node.extent \cup {i}
    <2> SUFFICES ASSUME NEW m \in DOMAIN fresh, fresh[m].extent = node.extent \cup {i}
                 PROVE  FALSE
        OBVIOUS
    <2>1. PICK n \in DOMAIN concepts :
            /\ n < cur /\ i \notin concepts[n].extent
            /\ fresh[m].extent = concepts[n].extent \cup {i}
        BY <1>2, <1>3 DEF BuDistinct
    <2>2. concepts[n].extent \ {i} = node.extent \ {i}
        BY <1>2, <2>1
    <2> QED
        BY <1>2, <1>3, <2>1, <2>2 DEF BuDistinct, node
<1>20. BuDistinct'
    <2>1. ASSUME NEW m \in DOMAIN fresh
          PROVE  \E n \in DOMAIN concepts :
                    /\ n < cur + 1 /\ i \notin concepts[n].extent
                    /\ fresh[m].extent = concepts[n].extent \cup {i}
        <3>1. PICK n \in DOMAIN concepts :
                /\ n < cur /\ i \notin concepts[n].extent
                /\ fresh[m].extent = concepts[n].extent \cup {i}
            BY <1>2, <1>3 DEF BuDistinct
        <3>2. n < cur + 1
            BY <1>2, <3>1
        <3> QED
            BY <3>1, <3>2
    <2>2. CASE ~added
        BY <1>1, <1>2, <1>3, <1>14, <2>1, <2>2 DEF BuDistinct
    <2>3. CASE added
        <3>1. ASSUME NEW m \in DOMAIN fresh'
              PROVE  \E n \in DOMAIN concepts :
                        /\ n < cur + 1 /\ i \notin concepts[n].extent
                        /\ fresh'[m].extent = concepts[n].extent \cup {i}
            <4>1. CASE m = 1
                <5>1. fresh'[m].extent = node.extent \cup {i}
                    BY <1>4, <1>13, <2>3, <4>1
                <5>2. cur < cur + 1 /\ i \notin concepts[cur].extent
                    BY <1>2 DEF node
                <5> QED
                    BY <1>2, <5>1, <5>2 DEF node
            <4>2. CASE m # 1
                BY <1>13, <2>1, <2>3, <3>1, <4>2
            <4> QED
                BY <4>1, <4>2
        <3>2. ASSUME NEW m \in DOMAIN fresh', NEW n \in DOMAIN fresh', m # n
              PROVE  fresh'[m].extent # fresh'[n].extent
            <4>1. m \in Int /\ n \in Int
                BY <1>13, <2>3
            <4>2. CASE m = 1
                <5>1. n-1 \in DOMAIN fresh /\ fresh'[n] = fresh[n-1]
                    BY <1>13, <2>3, <3>2, <4>2
                <5> QED
                    BY <1>4, <1>13, <1>19, <2>3, <4>2, <5>1
            <4>3. CASE n = 1
                <5>1. m-1 \in DOMAIN fresh /\ fresh'[m] = fresh[m-1]
                    BY <1>13, <2>3, <3>2, <4>3
                <5> QED
                    BY <1>4, <1>13, <1>19, <2>3, <4>3, <5>1
            <4>4. CASE m # 1 /\ n # 1
                <5>1. /\ m-1 \in DOMAIN fresh /\ fresh'[m] = fresh[m-1]
                      /\ n-1 \in DOMAIN fresh /\ fresh'[n] = fresh[n-1]
                      /\ m-1 # n-1
                    BY <1>13, <2>3, <3>2, <4>1, <4>4
                <5> QED
                    BY <1>2, <1>3, <5>1 DEF BuDistinct
            <4> QED
                BY <4>2, <4>3, <4>4
        <3> QED
            BY <1>1, <1>2, <1>3, <3>1, <3>2 DEF BuDistinct
    <2> QED
        BY <2>2, <2>3
<1>21. ASSUME NEW S, node.extent # HarmlessBelow(base, S, i)
       PROVE  /\ node.extent # HarmlessBelow(base, S, i + 1)
              /\ node.extent \cup {i} # HarmlessBelow(base, S, i + 1)
    BY <1>2, <1>11, <1>21
<1>22. ASSUME NEW S \in Members(extensions)
       PROVE  /\ S \in StableExtensions(base)
              /\ node.extent # HarmlessBelow(base, S, i)
              /\ \A m \in DOMAIN concepts :
                    concepts[m].extent # HarmlessBelow(base, S, Taken(m, cur, i))
              /\ \A m \in DOMAIN fresh : fresh[m].extent # HarmlessBelow(base, S, i + 1)
    BY <1>2, <1>3, <1>22 DEF BuFound, node
<1>23. BuFound'
    <2>1. \A m, n \in DOMAIN extensions' : extensions'[m] = extensions'[n] => m = n
        <3>1. CASE ~kept
            BY <1>3, <1>16, <3>1 DEF BuFound
        <3>2. CASE kept
            <4>1. intent \notin Members(extensions)
                BY <1>12, <1>22, <3>2
            <4> SUFFICES ASSUME NEW m \in DOMAIN extensions', NEW n \in DOMAIN extensions',
                                extensions'[m] = extensions'[n], m # n
                         PROVE  FALSE
                OBVIOUS
            <4>2. m \in Int /\ n \in Int
                BY <1>15, <3>2
            <4>3. CASE m = 1
                <5>1. n-1 \in DOMAIN extensions /\ extensions'[n] = extensions[n-1]
                    BY <1>15, <3>2, <4>3
                <5> QED
                    BY <1>15, <3>2, <4>1, <4>3, <5>1 DEF Members
            <4>4. CASE n = 1
                <5>1. m-1 \in DOMAIN extensions /\ extensions'[m] = extensions[m-1]
                    BY <1>15, <3>2, <4>4
                <5> QED
                    BY <1>15, <3>2, <4>1, <4>4, <5>1 DEF Members
            <4>5. CASE m # 1 /\ n # 1
                <5>1. /\ m-1 \in DOMAIN extensions /\ n-1 \in DOMAIN extensions
                      /\ extensions[m-1] = extensions[n-1]
                    BY <1>15, <3>2, <4>5
                <5> QED
                    BY <1>3, <4>2, <5>1 DEF BuFound
            <4> QED
                BY <4>3, <4>4, <4>5
        <3> QED
            BY <3>1, <3>2
    <2>2. ASSUME NEW S \in Members(extensions')
          PROVE  /\ S \in StableExtensions(base)
                 /\ \A m \in DOMAIN concepts :
                        concepts[m].extent # HarmlessBelow(base, S, Taken(m, cur + 1, i))
                 /\ \A m \in DOMAIN fresh' : fresh'[m].extent # HarmlessBelow(base, S, i + 1)
        <3>1. CASE S \in Members(extensions)
            <4>1. ASSUME NEW m \in DOMAIN concepts
                  PROVE  concepts[m].extent # HarmlessBelow(base, S, Taken(m, cur + 1, i))
                BY <1>9, <1>21, <1>22, <3>1 DEF node
            <4>2. ASSUME NEW m \in DOMAIN fresh'
                  PROVE  fresh'[m].extent # HarmlessBelow(base, S, i + 1)
                <5>1. CASE ~added
                    BY <1>14, <1>22, <3>1, <4>2, <5>1
                <5>2. CASE added /\ m = 1
                    BY <1>4, <1>13, <1>21, <1>22, <3>1, <5>2
                <5>3. CASE added /\ m # 1
                    BY <1>13, <1>22, <3>1, <4>2, <5>3
                <5> QED
                    BY <5>1, <5>2, <5>3
            <4> QED
                BY <1>22, <3>1, <4>1, <4>2
        <3>2. CASE S \notin Members(extensions)
            <4>1. kept /\ S = intent
                BY <1>15, <1>17, <2>2, <3>2
            <4>2. HarmlessBelow(base, S, i) = node.extent
                    /\ HarmlessBelow(base, S, i + 1) = node.extent \cup {i}
                BY <1>12, <4>1
            <4>3. ASSUME NEW m \in DOMAIN concepts
                  PROVE  concepts[m].extent # HarmlessBelow(base, S, Taken(m, cur + 1, i))
                <5>1. CASE m = cur
                    BY <1>2, <1>9, <4>2, <5>1 DEF node
                <5>2. CASE m # cur
                    <6>1. concepts[m].extent \ {i} # node.extent \ {i}
                        BY <1>2, <1>3, <5>2 DEF BuDistinct, node
                    <6>2. Taken(m, cur + 1, i) \in {i, i + 1}
                        BY DEF Taken
                    <6> QED
                        BY <1>2, <4>2, <6>1, <6>2
                <5> QED
                    BY <5>1, <5>2
            <4>4. fresh' = fresh
                BY <1>14, <4>1 DEF kept, added
            <4> QED
                BY <1>10, <1>19, <4>1, <4>2, <4>3, <4>4
        <3> QED
            BY <3>1, <3>2
    <2> QED
        BY <1>1, <2>1, <2>2 DEF BuFound
<1>24. ASSUME NEW S \in StableExtensions(base) \ Members(extensions')
       PROVE  \/ \E m \in DOMAIN concepts :
                    /\ S \subseteq concepts[m].intent
                    /\ concepts[m].extent = HarmlessBelow(base, S, Taken(m, cur + 1, i))
              \/ \E m \in DOMAIN fresh' :
                    /\ S \subseteq fresh'[m].intent
                    /\ fresh'[m].extent = HarmlessBelow(base, S, i + 1)
    <2>1. S \notin Members(extensions)
        BY <1>15, <1>17
    <2>2. BelowNode(S)
        BY <1>3, <2>1 DEF BuSought
    <2>3. CASE \E m \in DOMAIN fresh :
                S \subseteq fresh[m].intent /\ fresh[m].extent = HarmlessBelow(base, S, i + 1)
        <3>1. PICK m \in DOMAIN fresh :
                S \subseteq fresh[m].intent /\ fresh[m].extent = HarmlessBelow(base, S, i + 1)
            BY <2>3
        <3> QED
            BY <1>13, <1>14, <3>1
    <2>4. ASSUME NEW m \in DOMAIN concepts, S \subseteq concepts[m].intent,
                 concepts[m].extent = HarmlessBelow(base, S, Taken(m, cur, i)), m # cur
          PROVE  concepts[m].extent = HarmlessBelow(base, S, Taken(m, cur + 1, i))
        BY <1>9, <2>4
    <2>5. ASSUME S \subseteq node.intent, node.extent = HarmlessBelow(base, S, i)
          PROVE  \/ node.extent = HarmlessBelow(base, S, i + 1)
                 \/ \E m \in DOMAIN fresh' :
                        /\ S \subseteq fresh'[m].intent
                        /\ fresh'[m].extent = HarmlessBelow(base, S, i + 1)
        <3>1. CASE base[i] \cap S # {}
            BY <1>2, <2>5, <3>1, HarmlessStep
        <3>2. CASE base[i] \cap S = {}
            <4>1. /\ S \subseteq intent /\ closed
                  /\ node.extent \cup {i} = HarmlessBelow(base, S, i + 1)
                  /\ up \subseteq intent
                BY <1>6, <2>5, <3>2
            <4>2. ~kept
                <5>1. kept => S = intent
                    BY <1>10, <4>1, UnattackedFacts
                <5> QED
                    BY <1>15, <5>1
            <4>3. added
                BY <4>1, <4>2 DEF kept, added
            <4>4. 1 \in DOMAIN fresh'
                <5>1. Len(fresh) \in Nat
                    BY <1>3 DEF BuState
                <5> QED
                    BY <1>13, <4>3, <5>1
            <4> QED
                BY <1>4, <1>13, <4>1, <4>3, <4>4
        <3> QED
            BY <3>1, <3>2
    <2> QED
        BY <1>2, <1>9, <2>2, <2>3, <2>4, <2>5 DEF BelowNode, node
<1>25. BuSought'
    BY <1>1, <1>2, <1>24 DEF BuSought, BelowNode
<1> QED
    BY <1>18, <1>20, <1>23, <1>25 DEF BuInv

(* At the end no node is left with an extension below it: its intent would   *)
(* be that extension.                                                        *)
LEMMA NoneBelow ==
    ASSUME base \in Framework, NEW node, BuNode(base, node, N),
           NEW S \in StableExtensions(base), S \subseteq node.intent,
           node.extent = HarmlessBelow(base, S, N)
    PROVE  FALSE
<1>1. /\ node.extent = HarmlessBelow(base, node.intent, N) /\ node.intent \in SUBSET Arg
      /\ Unattacked(base, node.intent) # node.intent
    BY DEF BuNode, BuConcepts
<1>2. /\ S \in SUBSET Arg /\ Unattacked(base, S) = S
      /\ \A a, b \in S : b \notin base[a]
      /\ \A a \in Arg : a \in S \/ \E b \in S : a \in base[b]
    BY UnattackedFacts, StableFacts
<1>3. ASSUME NEW a \in node.intent, a \notin S
      PROVE  FALSE
    <2>1. PICK b \in S : a \in base[b]
        BY <1>1, <1>2, <1>3
    <2>2. b \in HarmlessBelow(base, S, N)
        <3>1. base[b] \cap S = {}
            BY <1>2
        <3>2. b \in Arg /\ b < N
            BY <1>2, NAssumption DEF Arg
        <3> QED
            BY <3>1, <3>2 DEF HarmlessBelow
    <2> QED
        BY <1>1, <1>3, <2>1, <2>2 DEF HarmlessBelow
<1>4. node.intent = S
    BY <1>3
<1> QED
    BY <1>1, <1>2, <1>4

LEMMA BottomUpEndRoundInv ==
    ASSUME base \in Framework, BuInv, BottomUp!EndRound, UNCHANGED base
    PROVE  BuInv'
<1>1. /\ pc = "round" /\ cur > Len(concepts)
      /\ concepts' = fresh \o concepts /\ fresh' = <<>> /\ cur' = 1 /\ i' = i + 1
      /\ pc' = IF i' = N THEN "done" ELSE "round"
      /\ UNCHANGED <<base, extensions>>
    BY DEF BottomUp!EndRound
<1>2. BuState /\ BuDistinct /\ BuFound /\ BuSought
    BY DEF BuInv
<1>3. /\ i \in 0 .. N /\ i < N /\ cur \in Nat /\ Len(concepts) \in Nat /\ Len(fresh) \in Nat
      /\ concepts \in Seq(BuConcepts) /\ fresh \in Seq(BuConcepts)
      /\ DOMAIN concepts = 1 .. Len(concepts) /\ DOMAIN fresh = 1 .. Len(fresh)
      /\ i \in Arg
    BY <1>1, <1>2, NAssumption DEF BuState, Arg
<1>4. \A m \in DOMAIN concepts : Taken(m, cur, i) = i + 1
    BY <1>1, <1>3 DEF Taken
<1>5. \A m \in DOMAIN concepts' : Taken(m, cur', i') = i + 1
    BY <1>1, <1>3 DEF Taken
<1>6. /\ concepts' \in Seq(BuConcepts)
      /\ DOMAIN concepts' = 1 .. Len(fresh) + Len(concepts)
      /\ \A m \in DOMAIN fresh : m \in DOMAIN concepts' /\ concepts'[m] = fresh[m]
      /\ \A m \in DOMAIN concepts :
            m + Len(fresh) \in DOMAIN concepts' /\ concepts'[m + Len(fresh)] = concepts[m]
      /\ \A m \in DOMAIN concepts' :
            \/ m \in DOMAIN fresh /\ concepts'[m] = fresh[m]
            \/ /\ m - Len(fresh) \in DOMAIN concepts
               /\ concepts'[m] = concepts[m - Len(fresh)]
    BY <1>1, <1>3
<1>7. \A m \in DOMAIN concepts' : BuNode(base, concepts'[m], i + 1)
    <2>1. /\ \A m \in DOMAIN concepts : BuNode(base, concepts[m], i + 1)
          /\ \A m \in DOMAIN fresh : BuNode(base, fresh[m], i + 1)
        BY <1>1, <1>2, <1>4 DEF BuState
    <2> QED
        BY <1>6, <2>1
<1>8. BuState'
    <2>1. fresh' \in Seq(BuConcepts) /\ DOMAIN fresh' = {}
        BY <1>1
    <2>2. pc' = "round" => i' < N
        BY <1>1, <1>3, NAssumption
    <2>3. cur' <= Len(concepts') + 1 /\ cur' \in Nat \ {0}
        BY <1>1, <1>3, <1>6
    <2>4. i' \in 0 .. N /\ pc' \in {"round", "done"}
        BY <1>1, <1>3, NAssumption
    <2> QED
        BY <1>1, <1>2, <1>5, <1>6, <1>7, <2>1, <2>2, <2>3, <2>4 DEF BuState
<1>9. /\ \A m, n \in DOMAIN concepts :
            m # n => concepts[m].extent \ {i} # concepts[n].extent \ {i}
      /\ \A m, n \in DOMAIN fresh : m # n => fresh[m].extent # fresh[n].extent
      /\ \A m \in DOMAIN fresh : \E n \in DOMAIN concepts :
            /\ i \notin concepts[n].extent
            /\ fresh[m].extent = concepts[n].extent \cup {i}
    BY <1>1, <1>2 DEF BuDistinct
<1>10. ASSUME NEW m \in DOMAIN fresh, NEW n \in DOMAIN concepts
       PROVE  fresh[m].extent # concepts[n].extent
    <2>1. PICK l \in DOMAIN concepts :
            /\ i \notin concepts[l].extent
            /\ fresh[m].extent = concepts[l].extent \cup {i}
        BY <1>9
    <2> QED
        BY <1>9, <2>1
<1>11. ASSUME NEW m \in DOMAIN concepts', NEW n \in DOMAIN concepts', m # n
       PROVE  concepts'[m].extent # concepts'[n].extent
    <2>0. m \in Int /\ n \in Int
        BY <1>6
    <2>1. CASE m \in DOMAIN fresh /\ concepts'[m] = fresh[m]
        <3>1. CASE n \in DOMAIN fresh /\ concepts'[n] = fresh[n]
            BY <1>9, <1>11, <2>1, <3>1
        <3> QED
            BY <1>6, <1>10, <2>1, <3>1
    <2>2. CASE m - Len(fresh) \in DOMAIN concepts /\ concepts'[m] = concepts[m - Len(fresh)]
        <3>1. CASE n \in DOMAIN fresh /\ concepts'[n] = fresh[n]
            BY <1>10, <2>2, <3>1
        <3>2. CASE n - Len(fresh) \in DOMAIN concepts
                        /\ concepts'[n] = concepts[n - Len(fresh)]
            <4>1. m - Len(fresh) # n - Len(fresh)
                BY <1>3, <1>11, <2>0
            <4> QED
                BY <1>9, <2>2, <3>2, <4>1
        <3> QED
            BY <1>6, <3>1, <3>2
    <2> QED
        BY <1>6, <2>1, <2>2
<1>12. ASSUME pc' = "round", NEW m \in DOMAIN concepts'
       PROVE  concepts'[m].extent \ {i'} = concepts'[m].extent
    <2>1. i' \in Arg
        BY <1>1, <1>3, <1>12, NAssumption DEF Arg
    <2>2. BuNode(base, concepts'[m], i')
        BY <1>1, <1>7
    <2> QED
        BY <2>1, <2>2, HarmlessStep DEF BuNode
<1>13. BuDistinct'
    <2>1. DOMAIN fresh' = {}
        BY <1>1
    <2> QED
        BY <1>11, <1>12, <2>1 DEF BuDistinct
<1>14. ASSUME NEW S \in Members(extensions), NEW m \in DOMAIN concepts'
       PROVE  concepts'[m].extent # HarmlessBelow(base, S, i + 1)
    <2>1. /\ \A n \in DOMAIN concepts : concepts[n].extent # HarmlessBelow(base, S, i + 1)
          /\ \A n \in DOMAIN fresh : fresh[n].extent # HarmlessBelow(base, S, i + 1)
        BY <1>1, <1>2, <1>4, <1>14 DEF BuFound
    <2> QED
        BY <1>6, <2>1
<1>15. BuFound'
    <2>1. DOMAIN fresh' = {}
        BY <1>1
    <2> QED
        BY <1>1, <1>2, <1>5, <1>14, <2>1 DEF BuFound
<1>16. ASSUME NEW S \in StableExtensions(base) \ Members(extensions)
       PROVE  \E m \in DOMAIN concepts' :
                S \subseteq concepts'[m].intent
                    /\ concepts'[m].extent = HarmlessBelow(base, S, i + 1)
    <2>1. BelowNode(S)
        BY <1>2 DEF BuSought
    <2>2. CASE \E m \in DOMAIN fresh :
                S \subseteq fresh[m].intent
                    /\ fresh[m].extent = HarmlessBelow(base, S, i + 1)
        BY <1>6, <2>2
    <2>3. CASE \E m \in DOMAIN concepts :
                S \subseteq concepts[m].intent
                    /\ concepts[m].extent = HarmlessBelow(base, S, i + 1)
        <3>1. PICK m \in DOMAIN concepts :
                S \subseteq concepts[m].intent
                    /\ concepts[m].extent = HarmlessBelow(base, S, i + 1)
            BY <2>3
        <3> QED
            BY <1>6, <3>1
    <2> QED
        BY <1>4, <2>1, <2>2, <2>3 DEF BelowNode
<1>17. BuSought'
    <2> SUFFICES ASSUME NEW S \in StableExtensions(base) \ Members(extensions)
                 PROVE  pc' = "round" /\ BelowNode(S)'
        BY <1>1 DEF BuSought
    <2>1. PICK m \in DOMAIN concepts' :
            S \subseteq concepts'[m].intent
                /\ concepts'[m].extent = HarmlessBelow(base, S, i + 1)
        BY <1>16
    <2>2. i + 1 # N
        <3>1. BuNode(base, concepts'[m], i + 1)
            BY <1>7
        <3> QED
            BY <2>1, <3>1, NoneBelow
    <2>3. pc' = "round"
        BY <1>1, <2>2
    <2>4. BelowNode(S)'
        BY <1>1, <1>5, <2>1 DEF BelowNode
    <2> QED
        BY <2>3, <2>4
<1> QED
    BY <1>8, <1>13, <1>15, <1>17 DEF BuInv

LEMMA BottomUpNextInv ==
    ASSUME base \in Framework, BuInv, BottomUp!Next, UNCHANGED base
    PROVE  BuInv'
<1>1. ASSUME BottomUp!Returned
      PROVE  BuInv'
    BY <1>1
    DEF BottomUp!Returned, BottomUp!vars, BuInv, BuState, BuDistinct, BuFound, BuSought,
        BelowNode
<1> QED
    BY <1>1, BottomUpUpdateInv, BottomUpBranchInv, BottomUpEndRoundInv DEF BottomUp!Next

(* Between two rounds the node an extension is below is the only one with    *)
(* its extent.                                                               *)
LEMMA BottomUpOneConceptAbove ==
    ASSUME base \in Framework, BuInv
    PROVE  BottomUp!OneConceptAbove
<1> SUFFICES ASSUME pc = "round", cur = 1, fresh = <<>>,
                    NEW S \in StableExtensions(base) \ Members(extensions)
             PROVE  \E m \in DOMAIN concepts :
                        /\ concepts[m].extent = BottomUp!Harmless(S) \cap (0 .. i-1)
                        /\ S \subseteq concepts[m].intent
                        /\ \A l \in DOMAIN concepts :
                            concepts[l].extent = concepts[m].extent => l = m
    BY BottomUpOperators DEF BottomUp!OneConceptAbove, Members
<1>1. BuState /\ BuDistinct /\ BelowNode(S)
    BY DEF BuInv, BuSought
<1>2. /\ DOMAIN fresh = {} /\ DOMAIN concepts = 1 .. Len(concepts)
      /\ Len(concepts) \in Nat /\ i \in 0 .. N
    BY <1>1 DEF BuState
<1>3. \A m \in DOMAIN concepts : Taken(m, cur, i) = i
    BY <1>2 DEF Taken
<1>4. PICK m \in DOMAIN concepts :
        S \subseteq concepts[m].intent /\ concepts[m].extent = HarmlessBelow(base, S, i)
    BY <1>1, <1>2, <1>3 DEF BelowNode
<1>5. \A l \in DOMAIN concepts : concepts[l].extent = concepts[m].extent => l = m
    BY <1>1 DEF BuDistinct
<1> QED
    BY <1>2, <1>4, <1>5, BottomUpOperators

-------------------------------------------------------------------------------
(* Norris' algorithm.                                                        *)

NorConcepts == [extent : SUBSET Arg, intent : SUBSET Arg, not_attacked : SUBSET Arg]

Harmless(att, X) == {b \in Arg : att[b] \cap X = {}}

Below(X, n) == {j \in X : j < n}

(* A node that has taken in the arguments below n.                           *)
NorNode(att, node, n) ==
    /\ node \in NorConcepts
    /\ node.extent = Harmless(att, node.intent)
    /\ node.not_attacked = Unattacked(att, node.intent)
    /\ \A j \in node.intent : j < n

NorState ==
    /\ i \in 0 .. N
    /\ cur \in Nat \ {0}
    /\ concepts \in Seq(NorConcepts) /\ fresh \in Seq(NorConcepts)
    /\ extensions \in Seq(SUBSET Arg)
    /\ pc \in {"round", "done", "crash", "print", "exit"}
    /\ pc = "round" =>
        /\ i < N /\ cur <= Len(concepts) + 1
        /\ \A m \in DOMAIN concepts : NorNode(base, concepts[m], Taken(m, cur, i))
        /\ \A m \in DOMAIN fresh : NorNode(base, fresh[m], i + 1)

(* No two nodes have the same intent, and a new one that of its parent, with *)
(* the argument of the round.                                                *)
NorDistinct ==
    pc = "round" =>
        /\ \A m, n \in DOMAIN concepts :
            m # n => concepts[m].intent \ {i} # concepts[n].intent \ {i}
        /\ \A m, n \in DOMAIN fresh : m # n => fresh[m].intent # fresh[n].intent
        /\ \A m \in DOMAIN fresh : \E n \in DOMAIN concepts :
            /\ n < cur /\ i \notin concepts[n].intent
            /\ fresh[m].intent = concepts[n].intent \cup {i}

(* What is listed is stable and listed once.  Among the nodes only one with  *)
(* the whole extension as its intent, which no argument fits any more, may   *)
(* still stand for it; and no other node is an extension.                    *)
NorFound ==
    /\ \A m, n \in DOMAIN extensions : extensions[m] = extensions[n] => m = n
    /\ \A S \in Members(extensions) :
        /\ S \in StableExtensions(base)
        /\ pc = "round" =>
            /\ \A m \in DOMAIN concepts :
                concepts[m].intent = Below(S, Taken(m, cur, i)) => concepts[m].intent = S
            /\ \A m \in DOMAIN fresh : fresh[m].intent # Below(S, i + 1)
    /\ pc = "round" =>
        /\ \A m \in DOMAIN concepts :
            concepts[m].intent \in StableExtensions(base)
                => concepts[m].intent \in Members(extensions)
        /\ \A m \in DOMAIN fresh : fresh[m].intent \notin StableExtensions(base)

(* A node stands for any other stable extension.                             *)
StoodFor(S) ==
    \/ \E m \in DOMAIN concepts : concepts[m].intent = Below(S, Taken(m, cur, i))
    \/ \E m \in DOMAIN fresh : fresh[m].intent = Below(S, i + 1)

(* No extension is lost: a node stands for one that is not listed.           *)
NorSought ==
    \A S \in StableExtensions(base) \ Members(extensions) :
        /\ pc = "round" => StoodFor(S)
        /\ ~(pc = "done" /\ prob = "EE")

(* SE-ST prints one extension, if there is one.                              *)
NorPrinted ==
    /\ pc = "round" \/ (pc = "done" /\ prob = "EE") => printed = <<>>
    /\ prob = "SE" =>
        /\ extensions = <<>>
        /\ pc = "done" => \/ printed = <<>> /\ StableExtensions(base) = {}
                          \/ \E S \in StableExtensions(base) : printed = <<S>>

(* The inductive invariant of Norris' algorithm.                             *)
NorrisInv == NorState /\ NorDistinct /\ NorFound /\ NorSought /\ NorPrinted

LEMMA NorrisOperators ==
    ASSUME base \in Framework
    PROVE  /\ Norris!StableExtensions(base) = StableExtensions(base)
           /\ \A n \in 0 .. N : \A S \in SUBSET Arg : S \cap (0 .. n-1) = Below(S, n)
           /\ \A a : Norris!argument_extents(base, a) = {b \in Arg : a \notin base[b]}
           /\ Norris!Arg = Arg
           /\ \A x : Norris!Cardinality(x) = Cardinality(x)
<1>1. Norris!StableExtensions(base) = StableExtensions(base)
    BY DEF Norris!StableExtensions, Norris!Stable, StableExtensions, Stable
<1>2. Norris!Arg = Arg
    BY DEF Norris!Arg, Arg
<1>3. ASSUME NEW n \in 0 .. N, NEW S \in SUBSET Arg
      PROVE  S \cap (0 .. n-1) = Below(S, n)
    <2>1. \A j \in Arg : j \in 0 .. n-1 <=> j < n
        BY NAssumption DEF Arg
    <2> QED
        BY <2>1 DEF Below
<1>4. \A a : Norris!argument_extents(base, a) = {b \in Arg : a \notin base[b]}
    BY DEF Norris!argument_extents, Framework
<1>5. \A x : Norris!Cardinality(x) = Cardinality(x)
    BY DEF Norris!Cardinality, Cardinality
<1> QED
    BY <1>1, <1>2, <1>3, <1>4, <1>5

(* The nodes' own tests: a node is called stable if its intent is, and the   *)
(* extension it stands for goes where the argument says.                     *)
LEMMA Extended ==
    ASSUME base \in Framework, i \in Arg, NEW node, NorNode(base, node, i),
           NEW extent, extent = node.extent \cap Norris!argument_extents(base, i),
           NEW new, new = Norris!Grown(base, i, node, extent)
    PROVE  /\ NorNode(base, new, i + 1)
           /\ new.intent = node.intent \cup {i} /\ i \notin node.intent
           /\ Norris!Covered(base, i, node) => new = Norris!Grown(base, i, node, node.extent)
           /\ Norris!IsStable(new) <=> new.intent \in StableExtensions(base)
           /\ \A S \in StableExtensions(base) :
                node.intent = Below(S, i) =>
                    /\ Norris!Fits(i, node) /\ Norris!Covered(base, i, node) => i \in S
                    /\ i \in S =>
                        /\ Norris!Fits(i, node) /\ Norris!IsNewIntentClosed(base, i, node, extent)
                        /\ new.intent = Below(S, i + 1)
                        /\ Norris!IsStable(new) \/ Norris!IsExhausted(new) => new.intent = S
                    /\ i \notin S => node.intent = Below(S, i + 1)
<1>1. /\ node \in NorConcepts
      /\ node.extent = Harmless(base, node.intent)
      /\ node.not_attacked = Unattacked(base, node.intent)
      /\ node.intent \in SUBSET Arg /\ \A j \in node.intent : j < i
    BY DEF NorNode, NorConcepts
<1>0. /\ i \in Nat /\ \A j \in Arg : j \in Nat
      /\ \A j \in Arg : j < i + 1 <=> j < i \/ j = i
    BY NAssumption DEF Arg
<1>2. new = [extent |-> extent, intent |-> node.intent \cup {i},
             not_attacked |-> node.not_attacked \ base[i]]
    BY DEF Norris!Grown, Norris!Concept
<1>3. /\ new.extent = extent /\ new.intent = node.intent \cup {i}
      /\ new.not_attacked = node.not_attacked \ base[i]
    BY <1>2
<1>4. i \notin node.intent
    BY <1>0, <1>1
<1>5. extent = Harmless(base, new.intent)
    <2>1. \A b : b \in extent <=> /\ b \in Arg /\ base[b] \cap node.intent = {}
                                  /\ i \notin base[b]
        BY <1>1, NorrisOperators DEF Harmless
    <2>2. \A b : base[b] \cap (node.intent \cup {i}) = {}
                    <=> base[b] \cap node.intent = {} /\ i \notin base[b]
        OBVIOUS
    <2> QED
        BY <1>3, <2>1, <2>2 DEF Harmless
<1>6. new.not_attacked = Unattacked(base, new.intent)
    BY <1>1, <1>3 DEF Unattacked
<1>7. new \in NorConcepts
    <2>1. node.not_attacked \in SUBSET Arg /\ extent \in SUBSET Arg
        BY <1>1, NorrisOperators DEF NorConcepts
    <2> QED
        BY <1>1, <1>2, <2>1 DEF NorConcepts
<1>8. \A j \in new.intent : j < i + 1
    BY <1>0, <1>1, <1>3
<1>9. NorNode(base, new, i + 1)
    BY <1>3, <1>5, <1>6, <1>7, <1>8 DEF NorNode
<1>10. Norris!Covered(base, i, node) => new = Norris!Grown(base, i, node, node.extent)
    <2> SUFFICES ASSUME Norris!Covered(base, i, node)
                 PROVE  extent = node.extent
        OBVIOUS
    <2> QED
        BY DEF Norris!Covered
<1>11. Norris!IsStable(new) <=> new.intent \in StableExtensions(base)
    <2>1. new.intent \in SUBSET Arg
        BY <1>1, <1>3
    <2> QED
        BY <1>6, <2>1, UnattackedFacts DEF Norris!IsStable
<1>12. ASSUME NEW S \in StableExtensions(base), node.intent = Below(S, i)
       PROVE  /\ Norris!Fits(i, node) /\ Norris!Covered(base, i, node) => i \in S
              /\ i \in S =>
                    /\ Norris!Fits(i, node) /\ Norris!IsNewIntentClosed(base, i, node, extent)
                    /\ new.intent = Below(S, i + 1)
                    /\ Norris!IsStable(new) \/ Norris!IsExhausted(new) => new.intent = S
              /\ i \notin S => node.intent = Below(S, i + 1)
    <2>1. /\ S \in SUBSET Arg /\ Unattacked(base, S) = S
          /\ \A a, b \in S : b \notin base[a]
          /\ \A a \in Arg : a \in S \/ \E b \in S : a \in base[b]
        BY UnattackedFacts, StableFacts
    <2>2. node.intent \subseteq S
        BY <1>12 DEF Below
    <2>3. S \subseteq node.extent
        BY <1>1, <2>1, <2>2 DEF Harmless
    <2>4. Norris!Fits(i, node) /\ Norris!Covered(base, i, node) => i \in S
        <3> SUFFICES ASSUME Norris!Covered(base, i, node)
                     PROVE  i \in S
            OBVIOUS
        <3>1. \A b \in S : i \notin base[b]
            BY <2>3, NorrisOperators DEF Norris!Covered
        <3> QED
            BY <2>1, <3>1
    <2>5. i \notin S => node.intent = Below(S, i + 1)
        BY <1>0, <1>12, <2>1 DEF Below
    <2>6. ASSUME i \in S
          PROVE  /\ Norris!Fits(i, node) /\ Norris!IsNewIntentClosed(base, i, node, extent)
                 /\ new.intent = Below(S, i + 1)
                 /\ Norris!IsStable(new) \/ Norris!IsExhausted(new) => new.intent = S
        <3>1. i \in node.not_attacked
            BY <1>1, <2>1, <2>2, <2>6 DEF Unattacked
        <3>2. Norris!Fits(i, node)
            BY <2>3, <2>6, <3>1 DEF Norris!Fits, Norris!ConflictFree
        <3>3. new.intent = Below(S, i + 1)
            BY <1>0, <1>3, <1>12, <2>1, <2>6 DEF Below
        <3>4. S \subseteq extent
            BY <2>1, <2>3, <2>6, NorrisOperators
        <3>5. ASSUME NEW j \in (0 .. i-1) \ node.intent
              PROVE  ~(extent \subseteq Norris!argument_extents(base, j))
            <4>1. j \in Arg /\ j < i
                BY NAssumption DEF Arg
            <4>2. j \notin S
                BY <1>12, <4>1 DEF Below
            <4>3. PICK d \in S : j \in base[d]
                BY <2>1, <4>1, <4>2
            <4> QED
                BY <3>4, <4>3, NorrisOperators
        <3>6. Norris!IsNewIntentClosed(base, i, node, extent)
            BY <3>5 DEF Norris!IsNewIntentClosed
        <3>7. new.intent \subseteq S
            BY <3>3 DEF Below
        <3>8. S \subseteq new.not_attacked
            <4>1. Unattacked(base, S) \subseteq Unattacked(base, new.intent)
                BY <3>7, UnattackedFacts
            <4> QED
                BY <1>6, <2>1, <4>1
        <3>9. Norris!IsStable(new) => new.intent = S
            BY <3>7, <3>8 DEF Norris!IsStable
        <3>10. Norris!IsExhausted(new) => new.intent = S
            BY <1>3, <3>4, <3>7, <3>8 DEF Norris!IsExhausted, Norris!ConflictFree
        <3> QED
            BY <3>2, <3>3, <3>6, <3>9, <3>10
    <2> QED
        BY <2>4, <2>5, <2>6
<1> QED
    BY <1>3, <1>4, <1>9, <1>10, <1>11, <1>12

LEMMA NorrisInitInv ==
    ASSUME base \in Framework, printed = <<>>, Norris!Init
    PROVE  NorrisInv
<1>1. /\ prob \in {"EE", "SE"}
      /\ i = 0 /\ cur = 1 /\ concepts = <<Norris!Top>> /\ fresh = <<>>
      /\ extensions = <<>> /\ pc = "round"
    BY DEF Norris!Init
<1> DEFINE top == Norris!Top
<1>2. /\ top \in NorConcepts /\ top.intent = {} /\ top.extent = Arg /\ top.not_attacked = Arg
    BY NorrisOperators DEF Norris!Top, Norris!Concept, NorConcepts
<1> HIDE DEF top
<1>3. /\ concepts \in Seq(NorConcepts) /\ DOMAIN concepts = {1} /\ concepts[1] = top
      /\ Len(concepts) = 1
      /\ fresh \in Seq(NorConcepts) /\ DOMAIN fresh = {}
      /\ extensions \in Seq(SUBSET Arg) /\ DOMAIN extensions = {}
      /\ Members(extensions) = {}
    BY <1>1, <1>2 DEF top, Members
<1>4. NorNode(base, top, 0)
    BY <1>2 DEF NorNode, Harmless, Unattacked
<1>5. Taken(1, cur, i) = 0
    BY <1>1 DEF Taken
<1>6. NorState
    BY <1>1, <1>3, <1>4, <1>5, NAssumption DEF NorState
<1>7. {} \notin StableExtensions(base)
    BY StableFacts
<1>8. NorDistinct /\ NorFound
    BY <1>2, <1>3, <1>7 DEF NorDistinct, NorFound
<1>9. \A S \in StableExtensions(base) : Below(S, 0) = {}
    BY StableFacts, NAssumption DEF Below, Arg
<1>10. NorSought
    BY <1>1, <1>2, <1>3, <1>5, <1>9 DEF NorSought, StoodFor
<1>11. NorPrinted
    BY <1>1 DEF NorPrinted
<1> QED
    BY <1>6, <1>8, <1>10, <1>11 DEF NorrisInv

(* A list without repetitions.                                               *)
Once(list) == \A m, n \in DOMAIN list : list[m] = list[n] => m = n

(* A set that is new to a list without repetitions.                          *)
LEMMA PrependedNew ==
    ASSUME NEW s1 \in Seq(SUBSET Arg), NEW e \in SUBSET Arg, e \notin Members(s1), Once(s1)
    PROVE  Once(<<e>> \o s1)
<1> DEFINE s2 == <<e>> \o s1
<1>1. /\ DOMAIN s2 = 1 .. Len(s1) + 1 /\ s2[1] = e
      /\ \A n \in DOMAIN s2 : n # 1 => n-1 \in DOMAIN s1 /\ s2[n] = s1[n-1]
    BY Prepended
<1> SUFFICES ASSUME NEW m \in DOMAIN s2, NEW n \in DOMAIN s2, s2[m] = s2[n], m # n
             PROVE  FALSE
    BY DEF Once
<1> HIDE DEF s2
<1>2. m \in Int /\ n \in Int
    BY <1>1
<1>3. CASE m = 1
    BY <1>1, <1>3 DEF Members
<1>4. CASE n = 1
    BY <1>1, <1>4 DEF Members
<1>5. CASE m # 1 /\ n # 1
    <2>1. m-1 \in DOMAIN s1 /\ n-1 \in DOMAIN s1 /\ s1[m-1] = s1[n-1]
        BY <1>1, <1>5
    <2> QED
        BY <1>2, <2>1 DEF Once
<1> QED
    BY <1>3, <1>4, <1>5

(* The node of the walk, and what it becomes with the argument.              *)
NodeOfWalk == pc = "round" /\ cur <= Len(concepts)

LEMMA Walked ==
    ASSUME NorrisInv, NodeOfWalk
    PROVE  /\ i \in Arg /\ i \in Nat /\ cur \in DOMAIN concepts /\ cur \in Nat
           /\ cur <= Len(concepts)
           /\ DOMAIN concepts = 1 .. Len(concepts) /\ Len(concepts) \in Nat
           /\ DOMAIN fresh = 1 .. Len(fresh) /\ Len(fresh) \in Nat
           /\ concepts[cur] \in NorConcepts /\ NorNode(base, concepts[cur], i)
           /\ Taken(cur, cur, i) = i /\ Taken(cur, cur + 1, i) = i + 1
           /\ \A m \in DOMAIN concepts :
                m # cur => Taken(m, cur + 1, i) = Taken(m, cur, i)
           /\ \A m : Taken(m, cur, i) \in {i, i + 1}
           /\ i \notin concepts[cur].intent
<1>1. NorState /\ pc = "round" /\ cur <= Len(concepts)
    BY DEF NorrisInv, NodeOfWalk
<1>2. /\ i \in Arg /\ i \in Nat /\ cur \in DOMAIN concepts /\ cur \in Nat
      /\ DOMAIN concepts = 1 .. Len(concepts) /\ Len(concepts) \in Nat
      /\ DOMAIN fresh = 1 .. Len(fresh) /\ Len(fresh) \in Nat
    BY <1>1, NAssumption DEF NorState, Arg
<1>3. /\ Taken(cur, cur, i) = i /\ Taken(cur, cur + 1, i) = i + 1
      /\ \A m \in DOMAIN concepts : m # cur => Taken(m, cur + 1, i) = Taken(m, cur, i)
      /\ \A m : Taken(m, cur, i) \in {i, i + 1}
    BY <1>2 DEF Taken
<1>4. NorNode(base, concepts[cur], i)
    BY <1>1, <1>2, <1>3 DEF NorState
<1>5. concepts[cur] \in NorConcepts /\ \A j \in concepts[cur].intent : j < i
    BY <1>4 DEF NorNode
<1>6. i \notin concepts[cur].intent
    BY <1>2, <1>5
<1> QED
    BY <1>1, <1>2, <1>3, <1>4, <1>5, <1>6

(* What the node becomes is not listed yet, and no other node stands for it. *)
LEMMA Newcomer ==
    ASSUME base \in Framework, NorrisInv, NodeOfWalk, NEW new, new = concepts[cur].intent \cup {i}
    PROVE  /\ new \in SUBSET Arg
           /\ Below(new, i + 1) = new /\ Below(new, i) = concepts[cur].intent
           /\ \A S \in Members(extensions) : new # Below(S, i + 1) /\ new # S
           /\ \A m \in DOMAIN concepts :
                m # cur => concepts[m].intent # Below(new, Taken(m, cur, i))
           /\ \A m \in DOMAIN fresh : fresh[m].intent # new
<1> DEFINE intent == concepts[cur].intent
<1>1. /\ i \in Arg /\ i \in Nat /\ cur \in DOMAIN concepts /\ cur \in Nat
      /\ NorNode(base, concepts[cur], i)
      /\ Taken(cur, cur, i) = i
      /\ \A m : Taken(m, cur, i) \in {i, i + 1}
      /\ i \notin intent /\ pc = "round"
    BY Walked DEF NodeOfWalk
<1>2. intent \in SUBSET Arg /\ \A j \in intent : j < i
    BY <1>1 DEF NorNode, NorConcepts
<1>3. \A j \in Arg : j \in Nat
    BY NAssumption DEF Arg
<1> HIDE DEF intent
<1>4. new = intent \cup {i}
    BY DEF intent
<1>5. new \in SUBSET Arg /\ Below(new, i + 1) = new /\ Below(new, i) = intent
    <2>1. new \in SUBSET Arg
        BY <1>1, <1>2, <1>4
    <2>2. \A j \in intent : j < i /\ j < i + 1 /\ j # i
        BY <1>1, <1>2, <1>3
    <2>3. i < i + 1 /\ ~(i < i)
        BY <1>1
    <2>4. \A j \in new : j < i + 1
        BY <1>4, <2>2, <2>3
    <2>5. Below(new, i + 1) = new
        BY <2>4 DEF Below
    <2>6. \A j \in new : j < i <=> j \in intent
        BY <1>4, <2>2, <2>3
    <2>7. Below(new, i) = intent
        BY <1>4, <2>6 DEF Below
    <2> QED
        BY <2>1, <2>5, <2>7
<1>6. NorDistinct /\ NorFound
    BY DEF NorrisInv
<1>7. ASSUME NEW S \in Members(extensions), new = Below(S, i + 1)
      PROVE  FALSE
    <2>1. S \in StableExtensions(base)
        BY <1>6 DEF NorFound
    <2>2. i \in S /\ Below(S, i) = intent
        <3>1. S \in SUBSET Arg
            BY <2>1, StableFacts
        <3>2. i \in S
            BY <1>4, <1>7 DEF Below
        <3>3. \A j \in S : j < i => j < i + 1
            BY <1>1, <1>3, <3>1
        <3>4. \A j \in S : j < i + 1 => j < i \/ j = i
            BY <1>1, <1>3, <3>1
        <3>5. ~(i < i)
            BY <1>1
        <3>6. \A j : j \in Below(S, i) <=> j \in intent
            BY <1>1, <1>2, <1>4, <1>7, <3>2, <3>3, <3>4, <3>5 DEF Below
        <3> QED
            BY <3>2, <3>6
    <2>3. intent = Below(S, Taken(cur, cur, i))
        BY <1>1, <2>2
    <2>4. intent = S
        BY <1>1, <1>6, <2>3 DEF NorFound, intent
    <2> QED
        BY <1>1, <2>2, <2>4
<1>8. ASSUME NEW m \in DOMAIN concepts, m # cur,
             concepts[m].intent = Below(new, Taken(m, cur, i))
      PROVE  FALSE
    <2>1. concepts[m].intent \in {intent, new}
        BY <1>1, <1>5, <1>8
    <2>2. concepts[m].intent \ {i} = intent \ {i}
        BY <1>4, <2>1
    <2> QED
        BY <1>1, <1>6, <1>8, <2>2 DEF NorDistinct, intent
<1>9. ASSUME NEW m \in DOMAIN fresh, fresh[m].intent = new
      PROVE  FALSE
    <2>1. PICK n \in DOMAIN concepts :
            /\ n < cur /\ i \notin concepts[n].intent
            /\ fresh[m].intent = concepts[n].intent \cup {i}
        BY <1>1, <1>6 DEF NorDistinct
    <2>2. concepts[n].intent \ {i} = intent \ {i} /\ n # cur
        BY <1>1, <1>4, <1>9, <2>1
    <2> QED
        BY <1>1, <1>6, <2>2 DEF NorDistinct, intent
<1> QED
    BY <1>5, <1>7, <1>8, <1>9 DEF intent

(* The list after the new node has been delivered, if it is an extension.    *)
LEMMA NorDelivered ==
    ASSUME base \in Framework, NorrisInv, NodeOfWalk,
           NEW new, new = concepts[cur].intent \cup {i},
           extensions' = IF new \in StableExtensions(base)
                         THEN <<new>> \o extensions ELSE extensions
    PROVE  /\ extensions' \in Seq(SUBSET Arg)
           /\ Members(extensions') = Members(extensions) \cup ({new} \cap StableExtensions(base))
           /\ \A m, n \in DOMAIN extensions' : extensions'[m] = extensions'[n] => m = n
           /\ \A S \in Members(extensions') : S \in StableExtensions(base)
<1>1. NorState /\ NorFound
    BY DEF NorrisInv
<1>2. /\ new \in SUBSET Arg /\ new \notin Members(extensions)
      /\ extensions \in Seq(SUBSET Arg)
      /\ \A m, n \in DOMAIN extensions : extensions[m] = extensions[n] => m = n
      /\ \A S \in Members(extensions) : S \in StableExtensions(base)
    <2>1. new \in SUBSET Arg /\ \A S \in Members(extensions) : new # S
        BY Newcomer
    <2> QED
        BY <1>1, <2>1 DEF NorState, NorFound
<1>3. CASE new \in StableExtensions(base)
    <2>1. extensions' = <<new>> \o extensions
        BY <1>3
    <2>2. extensions' \in Seq(SUBSET Arg) /\ Members(extensions') = {new} \cup Members(extensions)
        <3>1. <<new>> \o extensions \in Seq(SUBSET Arg)
            BY <1>2
        <3>2. Members(<<new>> \o extensions) = {new} \cup Members(extensions)
            BY <1>2, Prepended
        <3> QED
            BY <2>1, <3>1, <3>2
    <2>4. {new} \cap StableExtensions(base) = {new}
        BY <1>3
    <2>3. \A m, n \in DOMAIN extensions' : extensions'[m] = extensions'[n] => m = n
        <3>1. Once(extensions)
            BY <1>2 DEF Once
        <3>2. Once(<<new>> \o extensions)
            BY <1>2, <3>1, PrependedNew
        <3> QED
            BY <2>1, <3>2 DEF Once
    <2>5. Members(extensions') = Members(extensions) \cup ({new} \cap StableExtensions(base))
        BY <2>2, <2>4
    <2>6. \A S \in Members(extensions') : S \in StableExtensions(base)
        BY <1>2, <1>3, <2>2
    <2> QED
        BY <2>2, <2>3, <2>5, <2>6
<1>4. CASE new \notin StableExtensions(base)
    <2>1. extensions' = extensions
        BY <1>4
    <2> QED
        BY <1>2, <1>4, <2>1
<1> QED
    BY <1>3, <1>4

(* A step of the walk takes the nodes over, from[m] being the position the   *)
(* node at m has had, and puts node in the place of the one it has met,      *)
(* unless it leaves that one out.                                            *)
ListStep(from, node) ==
    /\ concepts' \in Seq(NorConcepts) /\ cur' \in Nat \ {0} /\ cur' <= Len(concepts') + 1
    /\ \A m \in DOMAIN concepts' :
        /\ from[m] \in DOMAIN concepts
        /\ concepts'[m] = IF from[m] = cur THEN node ELSE concepts[from[m]]
        /\ Taken(m, cur', i) = IF from[m] = cur THEN i + 1 ELSE Taken(from[m], cur, i)
        /\ from[m] = cur => m < cur'
    /\ \A m, n \in DOMAIN concepts' : from[m] = from[n] => m = n
    /\ \A n \in DOMAIN concepts :
        n # cur => \E m \in DOMAIN concepts' : from[m] = n /\ (n < cur => m < cur')

Stays(from) == \E m \in DOMAIN concepts' : from[m] = cur

(* Two lists put together.                                                   *)
LEMMA Joined ==
    ASSUME NEW E, NEW s1 \in Seq(E), NEW s2 \in Seq(E)
    PROVE  /\ s1 \o s2 \in Seq(E) /\ Len(s1 \o s2) = Len(s1) + Len(s2)
           /\ DOMAIN (s1 \o s2) = 1 .. Len(s1) + Len(s2)
           /\ \A m \in 1 .. Len(s1) : (s1 \o s2)[m] = s1[m]
           /\ \A m \in DOMAIN (s1 \o s2) :
                m > Len(s1) => (s1 \o s2)[m] = s2[m - Len(s1)]
OBVIOUS

LEMMA NodeReplaced ==
    ASSUME NorrisInv, NodeOfWalk, NEW node \in NorConcepts,
           concepts' = [concepts EXCEPT ![cur] = node], cur' = cur + 1,
           NEW from, from = [m \in DOMAIN concepts |-> m]
    PROVE  ListStep(from, node) /\ Stays(from)
<1>1. /\ cur \in DOMAIN concepts /\ cur \in Nat /\ cur <= Len(concepts)
      /\ DOMAIN concepts = 1 .. Len(concepts) /\ Len(concepts) \in Nat
      /\ Taken(cur, cur + 1, i) = i + 1
      /\ \A m \in DOMAIN concepts : m # cur => Taken(m, cur + 1, i) = Taken(m, cur, i)
    BY Walked
<1>2. concepts \in Seq(NorConcepts) /\ cur # 0
    BY DEF NorrisInv, NorState
<1>3. /\ concepts' \in Seq(NorConcepts) /\ DOMAIN concepts' = DOMAIN concepts
      /\ Len(concepts') = Len(concepts)
      /\ concepts'[cur] = node
      /\ \A m \in DOMAIN concepts : m # cur => concepts'[m] = concepts[m]
    BY <1>1, <1>2
<1>4. \A m \in DOMAIN concepts : from[m] = m
    OBVIOUS
<1>5. \A n \in DOMAIN concepts : n < cur => n < cur + 1
    BY <1>1
<1>6. cur + 1 \in Nat \ {0} /\ cur + 1 <= Len(concepts) + 1 /\ cur < cur + 1
    BY <1>1
<1> QED
    BY <1>1, <1>3, <1>4, <1>5, <1>6 DEF ListStep, Stays

LEMMA NodeRemoved ==
    ASSUME NorrisInv, NodeOfWalk, NEW node,
           concepts' = Norris!RemoveAt(concepts, cur), cur' = cur,
           NEW from, from = [m \in DOMAIN concepts |-> IF m < cur THEN m ELSE m + 1]
    PROVE  ListStep(from, node) /\ ~Stays(from)
<1>1. /\ cur \in DOMAIN concepts /\ cur \in Nat /\ cur <= Len(concepts)
      /\ DOMAIN concepts = 1 .. Len(concepts) /\ Len(concepts) \in Nat
    BY Walked
<1>2. concepts \in Seq(NorConcepts) /\ cur # 0
    BY DEF NorrisInv, NorState
<1> DEFINE front == SubSeq(concepts, 1, cur-1)
           back == SubSeq(concepts, cur+1, Len(concepts))
<1>3. concepts' = front \o back
    BY DEF Norris!RemoveAt
<1>4. /\ front \in Seq(NorConcepts) /\ Len(front) = cur - 1
      /\ \A m \in 1 .. cur-1 : front[m] = concepts[m]
    BY <1>1, <1>2
<1>5. /\ back \in Seq(NorConcepts) /\ Len(back) = Len(concepts) - cur
      /\ \A m \in 1 .. Len(concepts) - cur : back[m] = concepts[m + cur]
    BY <1>1, <1>2
<1> HIDE DEF front, back
<1>6. /\ concepts' \in Seq(NorConcepts) /\ Len(concepts') = Len(concepts) - 1
      /\ DOMAIN concepts' = 1 .. Len(concepts) - 1
    <2>1. /\ concepts' \in Seq(NorConcepts) /\ Len(concepts') = Len(front) + Len(back)
          /\ DOMAIN concepts' = 1 .. Len(front) + Len(back)
        <3>1. front \in Seq(NorConcepts) /\ back \in Seq(NorConcepts)
            BY <1>4, <1>5
        <3>2. /\ front \o back \in Seq(NorConcepts)
              /\ Len(front \o back) = Len(front) + Len(back)
              /\ DOMAIN (front \o back) = 1 .. Len(front) + Len(back)
            BY <3>1, Joined
        <3> QED
            BY <1>3, <3>2
    <2>2. Len(front) + Len(back) = Len(concepts) - 1
        BY <1>1, <1>4, <1>5
    <2> QED
        BY <2>1, <2>2
<1>7. \A m \in DOMAIN concepts' : concepts'[m] = concepts[from[m]]
    <2> TAKE m \in DOMAIN concepts'
    <2>1. CASE m < cur
        <3>1. m \in 1 .. cur-1
            BY <1>1, <1>6, <2>1
        <3>2. concepts'[m] = front[m]
            BY <1>3, <1>4, <1>5, <3>1, Joined
        <3>3. from[m] = m
            BY <1>1, <2>1, <3>1
        <3> QED
            BY <1>4, <3>1, <3>2, <3>3
    <2>2. CASE ~(m < cur)
        <3>1. m - (cur-1) \in 1 .. Len(concepts) - cur
            BY <1>1, <1>6, <2>2
        <3>2. concepts'[m] = back[m - (cur-1)]
            <4>1. m > Len(front) /\ cur - 1 \in Nat
                BY <1>1, <1>2, <1>4, <1>6, <2>2
            <4> QED
                BY <1>3, <1>4, <1>5, <4>1, Joined
        <3>3. m - (cur-1) + cur = m + 1
            BY <1>1, <1>6
        <3>4. from[m] = m + 1
            BY <1>1, <1>6, <2>2
        <3> QED
            BY <1>5, <3>1, <3>2, <3>3, <3>4
    <2> QED
        BY <2>1, <2>2
<1>8. \A m \in DOMAIN concepts' :
        /\ from[m] \in DOMAIN concepts /\ from[m] # cur
        /\ m < cur <=> from[m] < cur
    BY <1>1, <1>6
<1>9. \A m, n \in DOMAIN concepts' : from[m] = from[n] => m = n
    BY <1>1, <1>6
<1>10. ASSUME NEW n \in DOMAIN concepts, n # cur
       PROVE  \E m \in DOMAIN concepts' : from[m] = n /\ (n < cur => m < cur')
    <2>1. CASE n < cur
        <3>1. n \in DOMAIN concepts' /\ from[n] = n
            BY <1>1, <1>6, <2>1
        <3> QED
            BY <2>1, <3>1
    <2>2. CASE ~(n < cur)
        <3>1. n-1 \in DOMAIN concepts' /\ from[n-1] = n
            BY <1>1, <1>6, <1>10, <2>2
        <3> QED
            BY <2>2, <3>1
    <2> QED
        BY <2>1, <2>2
<1>11. \A m \in DOMAIN concepts' : Taken(m, cur', i) = Taken(from[m], cur, i)
    BY <1>8 DEF Taken
<1>12. cur' \in Nat \ {0} /\ cur' <= Len(concepts') + 1
    BY <1>1, <1>2, <1>6
<1> HIDE DEF ListStep
<1> QED
    BY <1>6, <1>7, <1>8, <1>9, <1>10, <1>11, <1>12 DEF ListStep, Stays

(* A step of the walk that does not end it: an extension that the node has   *)
(* become is listed; the node stays or is left out, or a new one is added.   *)
WalkStep(from, node, grown, new, added) ==
    /\ UNCHANGED <<base, i, pc, prob, printed>>
    /\ grown = concepts[cur].intent \cup {i}
    /\ ListStep(from, node)
    /\ Stays(from) => /\ NorNode(base, node, i + 1)
                      /\ node.intent \in {concepts[cur].intent, grown}
    /\ extensions' = IF grown \in StableExtensions(base)
                     THEN <<grown>> \o extensions ELSE extensions
    /\ prob = "SE" => grown \notin StableExtensions(base)
    /\ fresh' = IF added THEN <<new>> \o fresh ELSE fresh
    /\ added => /\ NorNode(base, new, i + 1) /\ new.intent = grown
                /\ grown \notin StableExtensions(base)
                /\ Stays(from) /\ node.intent = concepts[cur].intent
    /\ \A S \in StableExtensions(base) :
        concepts[cur].intent = Below(S, i) /\ S # grown =>
            \/ Stays(from) /\ node.intent = Below(S, i + 1)
            \/ added /\ grown = Below(S, i + 1)

LEMMA NorWalkInv ==
    ASSUME base \in Framework, NorrisInv, NodeOfWalk,
           NEW from, NEW node, NEW grown, NEW new, NEW added \in BOOLEAN,
           WalkStep(from, node, grown, new, added)
    PROVE  NorrisInv'
<1> SUFFICES ASSUME UNCHANGED <<base, i, pc, prob, printed>>,
                    grown = concepts[cur].intent \cup {i},
                    ListStep(from, node),
                    Stays(from) => /\ NorNode(base, node, i + 1)
                                   /\ node.intent \in {concepts[cur].intent, grown},
                    extensions' = IF grown \in StableExtensions(base)
                                  THEN <<grown>> \o extensions ELSE extensions,
                    prob = "SE" => grown \notin StableExtensions(base),
                    fresh' = IF added THEN <<new>> \o fresh ELSE fresh,
                    added => /\ NorNode(base, new, i + 1) /\ new.intent = grown
                             /\ grown \notin StableExtensions(base)
                             /\ Stays(from) /\ node.intent = concepts[cur].intent,
                    \A S \in StableExtensions(base) :
                        concepts[cur].intent = Below(S, i) /\ S # grown =>
                            \/ Stays(from) /\ node.intent = Below(S, i + 1)
                            \/ added /\ grown = Below(S, i + 1)
             PROVE  NorrisInv'
    BY DEF WalkStep
<1> DEFINE intent == concepts[cur].intent
           Extensions == StableExtensions(base)
<1>1. NorState /\ NorDistinct /\ NorFound /\ NorSought /\ NorPrinted
    BY DEF NorrisInv
<1>2. /\ pc = "round" /\ i \in Nat /\ i \in Arg /\ cur \in DOMAIN concepts /\ cur \in Nat
      /\ Taken(cur, cur, i) = i
      /\ i \notin intent
    BY Walked DEF NodeOfWalk
<1>3. /\ grown \in SUBSET Arg
      /\ Below(grown, i + 1) = grown /\ Below(grown, i) = intent
      /\ \A S \in Members(extensions) : grown # Below(S, i + 1) /\ grown # S
      /\ \A m \in DOMAIN concepts : m # cur => concepts[m].intent # Below(grown, Taken(m, cur, i))
      /\ \A m \in DOMAIN fresh : fresh[m].intent # grown
    BY Newcomer
<1>4. /\ extensions' \in Seq(SUBSET Arg)
      /\ Members(extensions') = Members(extensions) \cup ({grown} \cap Extensions)
      /\ \A m, n \in DOMAIN extensions' : extensions'[m] = extensions'[n] => m = n
      /\ \A S \in Members(extensions') : S \in Extensions
    BY NorDelivered
<1>5. /\ concepts' \in Seq(NorConcepts) /\ cur' \in Nat \ {0} /\ cur' <= Len(concepts') + 1
      /\ \A m \in DOMAIN concepts' :
            /\ from[m] \in DOMAIN concepts
            /\ concepts'[m] = IF from[m] = cur THEN node ELSE concepts[from[m]]
            /\ Taken(m, cur', i) = IF from[m] = cur THEN i + 1 ELSE Taken(from[m], cur, i)
            /\ from[m] = cur => m < cur'
      /\ \A m, n \in DOMAIN concepts' : from[m] = from[n] => m = n
      /\ \A n \in DOMAIN concepts :
            n # cur => \E m \in DOMAIN concepts' : from[m] = n /\ (n < cur => m < cur')
    BY DEF ListStep
<1>6. Stays(from) <=> \E m \in DOMAIN concepts' : from[m] = cur
    BY DEF Stays
<1>7. UNCHANGED <<base, i, pc, prob, printed>>
    OBVIOUS
<1>8. /\ \A m \in DOMAIN concepts : NorNode(base, concepts[m], Taken(m, cur, i))
      /\ \A m \in DOMAIN fresh : NorNode(base, fresh[m], i + 1)
      /\ fresh \in Seq(NorConcepts) /\ i < N /\ i \in 0 .. N
    BY <1>1, <1>2 DEF NorState
<1>9. ASSUME added
      PROVE  /\ fresh' \in Seq(NorConcepts) /\ DOMAIN fresh' = 1 .. Len(fresh) + 1
             /\ fresh'[1] = new
             /\ \A m \in DOMAIN fresh' : m # 1 => m-1 \in DOMAIN fresh /\ fresh'[m] = fresh[m-1]
             /\ \A m \in DOMAIN fresh : m+1 \in DOMAIN fresh' /\ fresh'[m+1] = fresh[m]
    <2>1. fresh' = <<new>> \o fresh /\ new \in NorConcepts
        BY <1>9 DEF NorNode
    <2>2. /\ fresh' \in Seq(NorConcepts) /\ DOMAIN fresh' = 1 .. Len(fresh) + 1
          /\ fresh'[1] = new
          /\ \A m \in DOMAIN fresh' : m # 1 => m-1 \in DOMAIN fresh /\ fresh'[m] = fresh[m-1]
        BY <1>8, <2>1, Stacked
    <2>3. DOMAIN fresh = 1 .. Len(fresh) /\ Len(fresh) \in Nat
        BY <1>8
    <2>4. ASSUME NEW m \in DOMAIN fresh
          PROVE  m+1 \in DOMAIN fresh' /\ fresh'[m+1] = fresh[m]
        <3>1. m+1 \in 1 .. Len(fresh) + 1 /\ m+1 # 1 /\ m+1-1 = m
            BY <2>3
        <3> QED
            BY <2>2, <3>1
    <2> QED
        BY <2>2, <2>4
<1>10. ~added => fresh' = fresh
    OBVIOUS
<1>11. NorState'
    <2>1. ASSUME NEW m \in DOMAIN concepts'
          PROVE  NorNode(base, concepts'[m], Taken(m, cur', i))
        <3>1. CASE from[m] = cur
            BY <1>5, <1>6, <3>1
        <3>2. CASE from[m] # cur
            BY <1>5, <1>8, <3>2
        <3> QED
            BY <3>1, <3>2
    <2>2. \A m \in DOMAIN fresh' : NorNode(base, fresh'[m], i + 1)
        BY <1>8, <1>9, <1>10
    <2>3. fresh' \in Seq(NorConcepts)
        BY <1>8, <1>9, <1>10
    <2> QED
        BY <1>2, <1>4, <1>5, <1>7, <1>8, <2>1, <2>2, <2>3 DEF NorState
<1>12. NorDistinct'
    <2>1. \A m \in DOMAIN concepts' : concepts'[m].intent \ {i} = concepts[from[m]].intent \ {i}
        <3> TAKE m \in DOMAIN concepts'
        <3>1. CASE from[m] = cur
            <4>1. node.intent \in {intent, grown}
                BY <1>6, <3>1
            <4>2. node.intent \ {i} = intent \ {i}
                BY <4>1
            <4> QED
                BY <1>5, <3>1, <4>2
        <3>2. CASE from[m] # cur
            BY <1>5, <3>2
        <3> QED
            BY <3>1, <3>2
    <2>2. \A m, n \in DOMAIN concepts' :
            m # n => concepts'[m].intent \ {i} # concepts'[n].intent \ {i}
        BY <1>1, <1>2, <1>5, <2>1 DEF NorDistinct
    <2>3. ASSUME NEW m \in DOMAIN fresh
          PROVE  \E n \in DOMAIN concepts' :
                    /\ n < cur' /\ i \notin concepts'[n].intent
                    /\ fresh[m].intent = concepts'[n].intent \cup {i}
        <3>1. PICK n \in DOMAIN concepts :
                /\ n < cur /\ i \notin concepts[n].intent
                /\ fresh[m].intent = concepts[n].intent \cup {i}
            BY <1>1, <1>2 DEF NorDistinct
        <3>2. n # cur
            BY <1>2, <3>1
        <3>3. PICK l \in DOMAIN concepts' : from[l] = n /\ l < cur'
            BY <1>5, <3>1, <3>2
        <3> QED
            BY <1>5, <3>1, <3>2, <3>3
    <2>4. added => \E n \in DOMAIN concepts' :
                    /\ n < cur' /\ i \notin concepts'[n].intent
                    /\ new.intent = concepts'[n].intent \cup {i}
        <3> SUFFICES ASSUME added
                     PROVE  \E n \in DOMAIN concepts' :
                                /\ n < cur' /\ i \notin concepts'[n].intent
                                /\ new.intent = concepts'[n].intent \cup {i}
            OBVIOUS
        <3>1. PICK l \in DOMAIN concepts' : from[l] = cur
            BY <1>6
        <3>2. l < cur' /\ concepts'[l] = node /\ node.intent = intent /\ new.intent = grown
            BY <1>5, <3>1
        <3> QED
            BY <1>2, <3>1, <3>2
    <2>5. \A m, n \in DOMAIN fresh : m # n => fresh[m].intent # fresh[n].intent
        BY <1>1, <1>2 DEF NorDistinct
    <2>6. ASSUME added
          PROVE  /\ \A m, n \in DOMAIN fresh' : m # n => fresh'[m].intent # fresh'[n].intent
                 /\ \A m \in DOMAIN fresh' : \E n \in DOMAIN concepts' :
                        /\ n < cur' /\ i \notin concepts'[n].intent
                        /\ fresh'[m].intent = concepts'[n].intent \cup {i}
        <3>0. Len(fresh) \in Nat
            BY <1>8
        <3>1. ASSUME NEW m \in DOMAIN fresh', NEW n \in DOMAIN fresh', m # n
              PROVE  fresh'[m].intent # fresh'[n].intent
            <4>0. m \in Int /\ n \in Int
                BY <1>9, <2>6, <3>0
            <4>1. CASE m = 1
                BY <1>3, <1>9, <2>6, <3>1, <4>1
            <4>2. CASE n = 1
                BY <1>3, <1>9, <2>6, <3>1, <4>2
            <4>3. CASE m # 1 /\ n # 1
                <5>1. /\ m-1 \in DOMAIN fresh /\ n-1 \in DOMAIN fresh /\ m-1 # n-1
                      /\ fresh'[m] = fresh[m-1] /\ fresh'[n] = fresh[n-1]
                    BY <1>9, <2>6, <3>1, <4>0, <4>3
                <5> QED
                    BY <2>5, <5>1
            <4> QED
                BY <4>1, <4>2, <4>3
        <3>2. ASSUME NEW m \in DOMAIN fresh'
              PROVE  \E n \in DOMAIN concepts' :
                        /\ n < cur' /\ i \notin concepts'[n].intent
                        /\ fresh'[m].intent = concepts'[n].intent \cup {i}
            <4>1. CASE m = 1
                BY <1>9, <2>4, <2>6, <4>1
            <4>2. CASE m # 1
                BY <1>9, <2>3, <2>6, <4>2
            <4> QED
                BY <4>1, <4>2
        <3> QED
            BY <3>1, <3>2
    <2>7. ASSUME ~added
          PROVE  /\ \A m, n \in DOMAIN fresh' : m # n => fresh'[m].intent # fresh'[n].intent
                 /\ \A m \in DOMAIN fresh' : \E n \in DOMAIN concepts' :
                        /\ n < cur' /\ i \notin concepts'[n].intent
                        /\ fresh'[m].intent = concepts'[n].intent \cup {i}
        BY <1>10, <2>3, <2>5, <2>7
    <2>8. /\ \A m, n \in DOMAIN fresh' : m # n => fresh'[m].intent # fresh'[n].intent
          /\ \A m \in DOMAIN fresh' : \E n \in DOMAIN concepts' :
                /\ n < cur' /\ i \notin concepts'[n].intent
                /\ fresh'[m].intent = concepts'[n].intent \cup {i}
        BY <2>6, <2>7
    <2>9. i' = i
        BY <1>7
    <2>10. \A m, n \in DOMAIN concepts' :
                m # n => concepts'[m].intent \ {i'} # concepts'[n].intent \ {i'}
        BY <2>2, <2>9, Zenon
    <2>11. \A m \in DOMAIN fresh' : \E n \in DOMAIN concepts' :
                /\ n < cur' /\ i' \notin concepts'[n].intent
                /\ fresh'[m].intent = concepts'[n].intent \cup {i'}
        <3> TAKE m \in DOMAIN fresh'
        <3>1. PICK n \in DOMAIN concepts' :
                /\ n < cur' /\ i \notin concepts'[n].intent
                /\ fresh'[m].intent = concepts'[n].intent \cup {i}
            BY <2>8
        <3>2. /\ n < cur' /\ i' \notin concepts'[n].intent
              /\ fresh'[m].intent = concepts'[n].intent \cup {i'}
            BY <2>9, <3>1
        <3> QED
            BY <3>2
    <2> QED
        BY <2>8, <2>10, <2>11, Zenon DEF NorDistinct
<1>13. NorFound'
    <2>0. \A S \in Members(extensions) :
            /\ \A m \in DOMAIN concepts :
                concepts[m].intent = Below(S, Taken(m, cur, i)) => concepts[m].intent = S
            /\ \A m \in DOMAIN fresh : fresh[m].intent # Below(S, i + 1)
        BY <1>1, <1>2 DEF NorFound
    <2>1. ASSUME NEW S \in Members(extensions), NEW m \in DOMAIN concepts',
                 concepts'[m].intent = Below(S, Taken(m, cur', i))
          PROVE  concepts'[m].intent = S
        <3>1. CASE from[m] = cur
            <4>1. concepts'[m] = node /\ Taken(m, cur', i) = i + 1
                    /\ node.intent \in {intent, grown}
                BY <1>5, <1>6, <3>1
            <4>2. node.intent = intent
                BY <1>3, <2>1, <4>1
            <4>3. Below(S, i) = intent
                <5>0. S \in SUBSET Arg
                    BY <1>1, StableFacts DEF NorFound
                <5>1. \A j \in S : j < i <=> j < i + 1 /\ j # i
                    BY <1>2, <5>0, NAssumption DEF Arg
                <5>2. intent = Below(S, i + 1)
                    BY <2>1, <4>1, <4>2
                <5> QED
                    BY <1>2, <5>1, <5>2 DEF Below
            <4> QED
                BY <1>2, <2>0, <4>1, <4>2, <4>3
        <3>2. CASE from[m] # cur
            BY <1>5, <2>0, <2>1, <3>2
        <3> QED
            BY <3>1, <3>2
    <2>2. ASSUME NEW m \in DOMAIN concepts', concepts'[m].intent = Below(grown, Taken(m, cur', i))
          PROVE  concepts'[m].intent = grown
        <3>1. CASE from[m] = cur
            BY <1>3, <1>5, <2>2, <3>1
        <3>2. CASE from[m] # cur
            <4>1. from[m] \in DOMAIN concepts /\ concepts'[m] = concepts[from[m]]
                    /\ Taken(m, cur', i) = Taken(from[m], cur, i)
                BY <1>5, <3>2
            <4>2. concepts[from[m]].intent = Below(grown, Taken(from[m], cur, i))
                BY <2>2, <4>1
            <4> QED
                BY <1>3, <3>2, <4>1, <4>2
        <3> QED
            BY <3>1, <3>2
    <2>3. ASSUME NEW S \in Members(extensions'), NEW m \in DOMAIN fresh'
          PROVE  fresh'[m].intent # Below(S, i + 1)
        <3>1. CASE ~added
            BY <1>3, <1>4, <1>10, <2>0, <2>3, <3>1
        <3>2. CASE added
            <4>1. S \in Members(extensions)
                BY <1>4, <2>3, <3>2
            <4>2. CASE m = 1
                BY <1>3, <1>9, <3>2, <4>1, <4>2
            <4>3. CASE m # 1
                BY <1>9, <2>0, <2>3, <3>2, <4>1, <4>3
            <4> QED
                BY <4>2, <4>3
        <3> QED
            BY <3>1, <3>2
    <2>4. ASSUME NEW m \in DOMAIN concepts', concepts'[m].intent \in Extensions
          PROVE  concepts'[m].intent \in Members(extensions')
        <3>0. \A n \in DOMAIN concepts :
                concepts[n].intent \in Extensions => concepts[n].intent \in Members(extensions)
            BY <1>1, <1>2 DEF NorFound
        <3>1. CASE from[m] = cur
            <4>1. concepts'[m] = node /\ node.intent \in {intent, grown}
                BY <1>5, <1>6, <3>1
            <4> QED
                BY <1>2, <1>4, <2>4, <3>0, <4>1
        <3>2. CASE from[m] # cur
            BY <1>4, <1>5, <2>4, <3>0, <3>2
        <3> QED
            BY <3>1, <3>2
    <2>5. ASSUME NEW m \in DOMAIN fresh'
          PROVE  fresh'[m].intent \notin Extensions
        <3>0. \A n \in DOMAIN fresh : fresh[n].intent \notin Extensions
            BY <1>1, <1>2 DEF NorFound
        <3>1. CASE added
            BY <1>9, <3>0, <3>1
        <3>2. CASE ~added
            BY <1>10, <3>0, <3>2
        <3> QED
            BY <3>1, <3>2
    <2> HIDE DEF Extensions
    <2>6. \A S \in Members(extensions'), m \in DOMAIN concepts' :
            concepts'[m].intent = Below(S, Taken(m, cur', i)) => concepts'[m].intent = S
        BY <1>4, <2>1, <2>2
    <2>7. Extensions = StableExtensions(base)
        BY DEF Extensions
    <2> QED
        BY <1>2, <1>4, <1>7, <2>3, <2>4, <2>5, <2>6, <2>7 DEF NorFound
<1>14. NorSought'
    <2> SUFFICES ASSUME NEW S \in StableExtensions(base), S \notin Members(extensions')
                 PROVE  StoodFor(S)'
        BY <1>2, <1>7 DEF NorSought
    <2>1. S \notin Members(extensions) /\ S # grown
        BY <1>4
    <2>2. StoodFor(S)
        BY <1>1, <1>2, <2>1 DEF NorSought
    <2>3. ASSUME NEW m \in DOMAIN fresh, fresh[m].intent = Below(S, i + 1)
          PROVE  StoodFor(S)'
        <3>1. \E l \in DOMAIN fresh' : fresh'[l] = fresh[m]
            BY <1>9, <1>10
        <3>2. \E l \in DOMAIN fresh' : fresh'[l].intent = Below(S, i' + 1)
            BY <1>7, <2>3, <3>1
        <3> QED
            BY <3>2 DEF StoodFor
    <2>4. ASSUME NEW m \in DOMAIN concepts, concepts[m].intent = Below(S, Taken(m, cur, i))
          PROVE  StoodFor(S)'
        <3>1. CASE m # cur
            <4>1. PICK l \in DOMAIN concepts' : from[l] = m
                BY <1>5, <3>1
            <4>2. concepts'[l].intent = Below(S, Taken(l, cur', i'))
                BY <1>5, <1>7, <2>4, <3>1, <4>1
            <4> QED
                BY <4>2 DEF StoodFor
        <3>2. CASE m = cur
            <4>1. \/ Stays(from) /\ node.intent = Below(S, i + 1)
                  \/ added /\ grown = Below(S, i + 1)
                BY <1>2, <2>1, <2>4, <3>2
            <4>2. CASE Stays(from) /\ node.intent = Below(S, i + 1)
                <5>1. PICK l \in DOMAIN concepts' : from[l] = cur
                    BY <1>6, <4>2
                <5>2. concepts'[l].intent = Below(S, Taken(l, cur', i'))
                    BY <1>5, <1>7, <4>2, <5>1
                <5> QED
                    BY <5>2 DEF StoodFor
            <4>3. CASE added /\ grown = Below(S, i + 1)
                <5>1. 1 \in DOMAIN fresh' /\ fresh'[1] = new
                    BY <1>8, <1>9, <4>3
                <5> QED
                    BY <1>7, <4>3, <5>1 DEF StoodFor
            <4> QED
                BY <4>1, <4>2, <4>3
        <3> QED
            BY <3>1, <3>2
    <2> QED
        BY <2>2, <2>3, <2>4 DEF StoodFor
<1>15. NorPrinted'
    BY <1>1, <1>2, <1>7 DEF NorPrinted
<1> QED
    BY <1>11, <1>12, <1>13, <1>14, <1>15 DEF NorrisInv

(* The walk ends with the extension that has been found, if one is enough.   *)
LEMMA NorAnsweredInv ==
    ASSUME base \in Framework, NorrisInv, NodeOfWalk, prob = "SE",
           NEW grown \in StableExtensions(base), printed' = Append(printed, grown),
           pc' = "done", cur' \in {cur, cur + 1},
           UNCHANGED <<base, i, concepts, fresh, extensions, prob>>
    PROVE  NorrisInv'
<1>1. NorState /\ NorFound /\ NorPrinted /\ pc = "round"
    BY DEF NorrisInv, NodeOfWalk
<1>2. printed = <<>> /\ extensions = <<>>
    BY <1>1 DEF NorPrinted
<1>3. printed' = <<grown>>
    BY <1>2
<1>4. cur' \in Nat \ {0}
    BY <1>1 DEF NorState
<1>5. NorState'
    BY <1>1, <1>4 DEF NorState
<1>6. NorDistinct'
    BY DEF NorDistinct
<1>7. NorFound'
    BY <1>1 DEF NorFound
<1>8. NorSought'
    BY DEF NorSought
<1>9. NorPrinted'
    BY <1>2, <1>3 DEF NorPrinted
<1> QED
    BY <1>5, <1>6, <1>7, <1>8, <1>9 DEF NorrisInv

(* What the tests at a node mean for the extensions it stands for.           *)
LEMMA NodeTests ==
    ASSUME base \in Framework, NorrisInv, NodeOfWalk,
           NEW node, node = concepts[cur],
           NEW extent, extent = node.extent \cap Norris!argument_extents(base, i),
           NEW new, new = Norris!Grown(base, i, node, extent)
    PROVE  /\ node \in NorConcepts /\ NorNode(base, node, i + 1)
           /\ new \in NorConcepts /\ NorNode(base, new, i + 1)
           /\ new.intent = node.intent \cup {i}
           /\ Norris!Covered(base, i, node) => new = Norris!Grown(base, i, node, node.extent)
           /\ Norris!IsStable(new) <=> new.intent \in StableExtensions(base)
           /\ Norris!IsStable(new) => Norris!Fits(i, node) /\ Norris!IsNewIntentClosed(base, i, node, extent)
           /\ \A S \in StableExtensions(base) :
                node.intent = Below(S, i) =>
                    \/ ~(Norris!Fits(i, node) /\ Norris!Covered(base, i, node)) /\ node.intent = Below(S, i + 1)
                    \/ /\ Norris!Fits(i, node) /\ Norris!IsNewIntentClosed(base, i, node, extent)
                       /\ new.intent = Below(S, i + 1)
                       /\ Norris!IsStable(new) \/ Norris!IsExhausted(new) => new.intent = S
<1>1. /\ i \in Arg /\ i \in Nat /\ NorNode(base, node, i) /\ node \in NorConcepts
      /\ i \notin node.intent
    BY Walked
<1>2. node.intent \subseteq Arg /\ \A j \in node.intent : j < i
    BY <1>1 DEF NorNode, NorConcepts
<1>3. NorNode(base, node, i + 1)
    <2>1. \A j \in node.intent : j < i + 1
        BY <1>1, <1>2, NAssumption DEF Arg
    <2> QED
        BY <1>1, <2>1 DEF NorNode
<1>4. /\ NorNode(base, new, i + 1)
      /\ new.intent = node.intent \cup {i}
      /\ Norris!Covered(base, i, node) => new = Norris!Grown(base, i, node, node.extent)
      /\ Norris!IsStable(new) <=> new.intent \in StableExtensions(base)
      /\ \A S \in StableExtensions(base) :
            node.intent = Below(S, i) =>
                /\ Norris!Fits(i, node) /\ Norris!Covered(base, i, node) => i \in S
                /\ i \in S =>
                    /\ Norris!Fits(i, node) /\ Norris!IsNewIntentClosed(base, i, node, extent)
                    /\ new.intent = Below(S, i + 1)
                    /\ Norris!IsStable(new) \/ Norris!IsExhausted(new) => new.intent = S
                /\ i \notin S => node.intent = Below(S, i + 1)
    BY <1>1, Extended
<1>5. Below(new.intent, i) = node.intent
    BY <1>4, Newcomer
<1>6. Norris!IsStable(new) => Norris!Fits(i, node) /\ Norris!IsNewIntentClosed(base, i, node, extent)
    BY <1>4, <1>5
<1>7. new \in NorConcepts
    BY <1>4 DEF NorNode
<1> QED
    BY <1>1, <1>3, <1>4, <1>6, <1>7

LEMMA NorSkipInv ==
    ASSUME base \in Framework, NorrisInv, Norris!Skip, UNCHANGED base
    PROVE  NorrisInv'
<1> DEFINE node == concepts[cur]
           extent == node.extent \cap Norris!argument_extents(base, i)
           new == Norris!Grown(base, i, node, extent)
           from == [m \in DOMAIN concepts |-> m]
           grown == node.intent \cup {i}
<1>1. /\ NodeOfWalk /\ ~Norris!Fits(i, node) /\ cur' = cur + 1
      /\ UNCHANGED <<base, i, pc, prob, printed, concepts, fresh, extensions>>
    BY DEF Norris!Skip, Norris!Walking, NodeOfWalk
<1>2. /\ node \in NorConcepts /\ NorNode(base, node, i + 1)
      /\ grown \notin StableExtensions(base)
      /\ \A S \in StableExtensions(base) :
            node.intent = Below(S, i) => node.intent = Below(S, i + 1)
    <2> HIDE DEF node, extent, new
    <2>1. node = concepts[cur] /\ extent = node.extent \cap Norris!argument_extents(base, i)
            /\ new = Norris!Grown(base, i, node, extent)
        BY DEF node, extent, new
    <2> QED
        BY <1>1, <2>1, NodeTests
<1>3. ListStep(from, node) /\ Stays(from)
    <2>1. concepts \in Seq(NorConcepts)
        BY DEF NorrisInv, NorState
    <2>2. concepts' = [concepts EXCEPT ![cur] = node]
        BY <1>1, <2>1
    <2> HIDE DEF node
    <2> QED
        BY <1>1, <1>2, <2>2, NodeReplaced
<1>4. grown = concepts[cur].intent \cup {i} /\ node.intent = concepts[cur].intent
    OBVIOUS
<1> HIDE DEF node, from, grown
<1>5. WalkStep(from, node, grown, node, FALSE)
    BY <1>1, <1>2, <1>3, <1>4 DEF WalkStep
<1> QED
    BY <1>1, <1>5, NorWalkInv

LEMMA NorUnlinkInv ==
    ASSUME base \in Framework, NorrisInv, NodeOfWalk,
           Norris!Fits(i, concepts[cur]), Norris!Covered(base, i, concepts[cur]),
           NEW new, new = Norris!Grown(base, i, concepts[cur], concepts[cur].extent),
           Norris!IsStable(new) \/ Norris!IsExhausted(new), Norris!Unlink(new),
           extensions' = IF Norris!IsStable(new) THEN <<new.intent>> \o extensions ELSE extensions,
           prob = "SE" => ~Norris!IsStable(new),
           UNCHANGED <<base, i, pc, prob, printed, fresh>>
    PROVE  NorrisInv'
<1> DEFINE node == concepts[cur]
           extent == node.extent \cap Norris!argument_extents(base, i)
           stays == [m \in DOMAIN concepts |-> m]
           leaves == [m \in DOMAIN concepts |-> IF m < cur THEN m ELSE m + 1]
           grown == node.intent \cup {i}
<1>1. new = Norris!Grown(base, i, node, extent)
    BY DEF Norris!Covered
<1>2. /\ new \in NorConcepts /\ NorNode(base, new, i + 1) /\ new.intent = grown
      /\ Norris!IsStable(new) <=> grown \in StableExtensions(base)
      /\ \A S \in StableExtensions(base) : node.intent = Below(S, i) => S = grown
    <2>1. node = concepts[cur] /\ extent = node.extent \cap Norris!argument_extents(base, i)
            /\ Norris!Fits(i, node) /\ Norris!Covered(base, i, node)
        OBVIOUS
    <2> HIDE DEF node, extent
    <2>2. /\ new \in NorConcepts /\ NorNode(base, new, i + 1)
          /\ new.intent = node.intent \cup {i}
          /\ Norris!IsStable(new) <=> new.intent \in StableExtensions(base)
          /\ \A S \in StableExtensions(base) :
                node.intent = Below(S, i) =>
                    \/ ~(Norris!Fits(i, node) /\ Norris!Covered(base, i, node))
                    \/ Norris!IsStable(new) \/ Norris!IsExhausted(new) => new.intent = S
        BY <1>1, <2>1, NodeTests
    <2> QED
        BY <2>1, <2>2
<1>3. grown = concepts[cur].intent \cup {i} /\ node.intent = concepts[cur].intent
    OBVIOUS
<1>4. extensions' = IF grown \in StableExtensions(base) THEN <<grown>> \o extensions
                                                        ELSE extensions
    BY <1>2
<1>5. CASE cur = 1 /\ Len(concepts) = 1 /\ prob = "EE"
    <2>1. concepts' = <<new>> /\ cur' = cur + 1
        BY <1>5 DEF Norris!Unlink
    <2>2. concepts \in Seq(NorConcepts)
        BY DEF NorrisInv, NorState
    <2>3. concepts' = [concepts EXCEPT ![cur] = new]
        BY <1>5, <2>1, <2>2
    <2>4. ListStep(stays, new) /\ Stays(stays)
        <3> HIDE DEF node
        <3> QED
            BY <1>2, <2>1, <2>3, NodeReplaced
    <2> HIDE DEF node, grown, stays
    <2>5. WalkStep(stays, new, grown, new, FALSE)
        BY <1>2, <1>3, <1>4, <2>4 DEF WalkStep
    <2> QED
        BY <2>5, NorWalkInv
<1>6. CASE ~(cur = 1 /\ Len(concepts) = 1 /\ prob = "EE")
    <2>1. concepts' = Norris!RemoveAt(concepts, cur) /\ cur' = cur
        BY <1>6 DEF Norris!Unlink
    <2>2. ListStep(leaves, new) /\ ~Stays(leaves)
        BY <2>1, NodeRemoved
    <2> HIDE DEF node, grown, leaves
    <2>3. WalkStep(leaves, new, grown, new, FALSE)
        BY <1>2, <1>3, <1>4, <2>2 DEF WalkStep
    <2> QED
        BY <2>3, NorWalkInv
<1> QED
    BY <1>5, <1>6

LEMMA NorUpdateStableInv ==
    ASSUME base \in Framework, prob \in {"EE", "SE"}, NorrisInv, Norris!UpdateStable, UNCHANGED base
    PROVE  NorrisInv'
<1> DEFINE node == concepts[cur]
           new == Norris!Grown(base, i, node, node.extent)
<1>1. /\ NodeOfWalk /\ Norris!Fits(i, node) /\ Norris!Covered(base, i, node)
      /\ Norris!IsStable(new) /\ Norris!Deliver(new.intent)
      /\ prob = "EE" => Norris!Unlink(new)
      /\ prob # "EE" => UNCHANGED <<concepts, cur>>
      /\ UNCHANGED <<base, i, prob, fresh>>
    BY DEF Norris!UpdateStable, Norris!Walking, NodeOfWalk
<1>2. new.intent \in StableExtensions(base)
    <2>1. /\ node = concepts[cur] /\ new = Norris!Grown(base, i, node, node.extent)
          /\ Norris!Grown(base, i, node, node.extent)
                = Norris!Grown(base, i, node, node.extent \cap Norris!argument_extents(base, i))
        BY <1>1 DEF Norris!Covered
    <2> HIDE DEF node, new
    <2> QED
        BY <1>1, <2>1, NodeTests
<1>3. CASE prob = "SE"
    <2>1. pc' = "done" /\ printed' = Append(printed, new.intent) /\ UNCHANGED extensions
        BY <1>1, <1>3 DEF Norris!Deliver
    <2>2. UNCHANGED <<concepts, cur>>
        BY <1>1, <1>3
    <2> HIDE DEF new
    <2> QED
        BY <1>1, <1>2, <1>3, <2>1, <2>2, NorAnsweredInv
<1>4. CASE prob # "SE"
    <2>1. extensions' = <<new.intent>> \o extensions /\ UNCHANGED <<pc, printed>>
        BY <1>1, <1>4 DEF Norris!Deliver
    <2>2. Norris!Unlink(new) /\ new = Norris!Grown(base, i, concepts[cur], concepts[cur].extent)
        BY <1>1, <1>4
    <2> HIDE DEF new
    <2> QED
        BY <1>1, <1>4, <2>1, <2>2, NorUnlinkInv
<1> QED
    BY <1>3, <1>4

LEMMA NorUpdateExhaustedInv ==
    ASSUME base \in Framework, NorrisInv, Norris!UpdateExhausted, UNCHANGED base
    PROVE  NorrisInv'
<1> DEFINE new == Norris!Grown(base, i, concepts[cur], concepts[cur].extent)
<1>1. /\ NodeOfWalk /\ Norris!Fits(i, concepts[cur]) /\ Norris!Covered(base, i, concepts[cur])
      /\ ~Norris!IsStable(new) /\ Norris!IsExhausted(new) /\ Norris!Unlink(new)
      /\ UNCHANGED <<base, i, prob, fresh, extensions, pc, printed>>
    BY DEF Norris!UpdateExhausted, Norris!Walking, NodeOfWalk
<1>2. new = Norris!Grown(base, i, concepts[cur], concepts[cur].extent)
    OBVIOUS
<1> HIDE DEF new
<1> QED
    BY <1>1, <1>2, NorUnlinkInv

LEMMA NorUpdateInv ==
    ASSUME base \in Framework, NorrisInv, Norris!Update, UNCHANGED base
    PROVE  NorrisInv'
<1> DEFINE node == concepts[cur]
           extent == node.extent \cap Norris!argument_extents(base, i)
           new == Norris!Grown(base, i, node, extent)
           from == [m \in DOMAIN concepts |-> m]
           grown == node.intent \cup {i}
<1>1. /\ NodeOfWalk /\ Norris!Fits(i, node) /\ Norris!Covered(base, i, node)
      /\ new = Norris!Grown(base, i, node, node.extent)
      /\ ~Norris!IsStable(new) /\ concepts' = [concepts EXCEPT ![cur] = new] /\ cur' = cur + 1
      /\ UNCHANGED <<base, i, pc, prob, printed, fresh, extensions>>
    <2>1. extent = node.extent <=> Norris!Covered(base, i, node)
        BY DEF Norris!Covered
    <2> QED
        BY <2>1 DEF Norris!Update, Norris!Walking, NodeOfWalk
<1>2. /\ new \in NorConcepts /\ NorNode(base, new, i + 1) /\ new.intent = grown
      /\ grown \notin StableExtensions(base)
      /\ \A S \in StableExtensions(base) : node.intent = Below(S, i) => grown = Below(S, i + 1)
    <2>1. node = concepts[cur] /\ extent = node.extent \cap Norris!argument_extents(base, i)
            /\ new = Norris!Grown(base, i, node, extent)
        OBVIOUS
    <2> HIDE DEF node, extent, new
    <2>2. /\ new \in NorConcepts /\ NorNode(base, new, i + 1)
          /\ new.intent = node.intent \cup {i}
          /\ Norris!IsStable(new) <=> new.intent \in StableExtensions(base)
          /\ \A S \in StableExtensions(base) :
                node.intent = Below(S, i) =>
                    \/ ~(Norris!Fits(i, node) /\ Norris!Covered(base, i, node))
                    \/ new.intent = Below(S, i + 1)
        BY <1>1, <2>1, NodeTests
    <2> QED
        BY <1>1, <2>2
<1>3. grown = concepts[cur].intent \cup {i} /\ node.intent = concepts[cur].intent
    OBVIOUS
<1> HIDE DEF node, new
<1>4. ListStep(from, new) /\ Stays(from)
    BY <1>1, <1>2, NodeReplaced
<1> HIDE DEF from, grown
<1>5. WalkStep(from, new, grown, new, FALSE)
    BY <1>1, <1>2, <1>3, <1>4 DEF WalkStep
<1> QED
    BY <1>1, <1>5, NorWalkInv

LEMMA NorBranchInv ==
    ASSUME base \in Framework, prob \in {"EE", "SE"}, NorrisInv, Norris!Branch, UNCHANGED base
    PROVE  NorrisInv'
<1> DEFINE node == concepts[cur]
           extent == node.extent \cap Norris!argument_extents(base, i)
           new == Norris!Grown(base, i, node, extent)
           closed == Norris!IsNewIntentClosed(base, i, node, extent)
           added == closed /\ ~Norris!IsStable(new) /\ ~Norris!IsExhausted(new)
           from == [m \in DOMAIN concepts |-> m]
           grown == node.intent \cup {i}
<1>1. /\ NodeOfWalk /\ Norris!Fits(i, node) /\ ~Norris!Covered(base, i, node)
      /\ closed /\ Norris!IsStable(new) => Norris!Deliver(new.intent)
      /\ ~(closed /\ Norris!IsStable(new)) => UNCHANGED <<extensions, printed, pc>>
      /\ fresh' = IF added THEN <<new>> \o fresh ELSE fresh
      /\ cur' = cur + 1
      /\ UNCHANGED <<base, i, prob, concepts>>
    BY DEF Norris!Branch, Norris!Walking, NodeOfWalk
<1>2. /\ node \in NorConcepts /\ NorNode(base, node, i + 1)
      /\ NorNode(base, new, i + 1) /\ new.intent = grown
      /\ Norris!IsStable(new) <=> grown \in StableExtensions(base)
      /\ Norris!IsStable(new) => closed
      /\ \A S \in StableExtensions(base) :
            node.intent = Below(S, i) /\ S # grown =>
                node.intent = Below(S, i + 1) \/ (added /\ grown = Below(S, i + 1))
    <2>1. /\ node = concepts[cur] /\ extent = node.extent \cap Norris!argument_extents(base, i)
          /\ new = Norris!Grown(base, i, node, extent) /\ closed = Norris!IsNewIntentClosed(base, i, node, extent)
        OBVIOUS
    <2> HIDE DEF node, extent, new, closed
    <2>2. /\ node \in NorConcepts /\ NorNode(base, node, i + 1)
          /\ NorNode(base, new, i + 1)
          /\ new.intent = node.intent \cup {i}
          /\ Norris!IsStable(new) <=> new.intent \in StableExtensions(base)
          /\ Norris!IsStable(new) => closed
          /\ \A S \in StableExtensions(base) :
                node.intent = Below(S, i) =>
                    \/ node.intent = Below(S, i + 1)
                    \/ /\ closed /\ new.intent = Below(S, i + 1)
                       /\ Norris!IsStable(new) \/ Norris!IsExhausted(new) => new.intent = S
        BY <1>1, <2>1, NodeTests
    <2> QED
        BY <1>1, <2>2
<1>3. grown = concepts[cur].intent \cup {i} /\ node.intent = concepts[cur].intent
    OBVIOUS
<1>4. ListStep(from, node) /\ Stays(from)
    <2>1. concepts \in Seq(NorConcepts)
        BY DEF NorrisInv, NorState
    <2>2. concepts' = [concepts EXCEPT ![cur] = node]
        BY <1>1, <2>1
    <2> HIDE DEF node
    <2> QED
        BY <1>1, <1>2, <2>2, NodeReplaced
<1>5. added => ~Norris!IsStable(new)
    OBVIOUS
<1>6. added \in BOOLEAN
    OBVIOUS
<1> HIDE DEF node, extent, new, closed, added, from, grown
<1>7. CASE prob = "SE" /\ grown \in StableExtensions(base)
    <2>1. pc' = "done" /\ printed' = Append(printed, grown) /\ UNCHANGED extensions
        BY <1>1, <1>2, <1>7 DEF Norris!Deliver
    <2>2. UNCHANGED fresh
        BY <1>1, <1>2, <1>5, <1>7
    <2> QED
        BY <1>1, <1>7, <2>1, <2>2, NorAnsweredInv
<1>8. CASE ~(prob = "SE" /\ grown \in StableExtensions(base))
    <2>1. /\ extensions' = IF grown \in StableExtensions(base) THEN <<grown>> \o extensions
                                                               ELSE extensions
          /\ UNCHANGED <<pc, printed>>
        BY <1>1, <1>2, <1>8 DEF Norris!Deliver
    <2>2. WalkStep(from, node, grown, new, added)
        BY <1>1, <1>2, <1>3, <1>4, <1>5, <1>8, <2>1 DEF WalkStep
    <2> QED
        BY <1>1, <1>6, <2>2, NorWalkInv
<1> QED
    BY <1>7, <1>8

LEMMA NorEndRoundInv ==
    ASSUME base \in Framework, prob \in {"EE", "SE"}, NorrisInv, Norris!EndRound, UNCHANGED base
    PROVE  NorrisInv'
<1>1. /\ pc = "round" /\ cur > Len(concepts)
      /\ concepts' = concepts \o fresh /\ fresh' = <<>> /\ cur' = 1 /\ i' = i + 1
      /\ pc' = IF freed THEN "crash" ELSE IF i' = N THEN "done" ELSE "round"
      /\ UNCHANGED <<base, prob, extensions, printed>>
    BY DEF Norris!EndRound
<1>2. NorState /\ NorDistinct /\ NorFound /\ NorSought /\ NorPrinted
    BY DEF NorrisInv
<1>3. /\ i \in 0 .. N /\ i < N /\ cur \in Nat /\ Len(concepts) \in Nat /\ Len(fresh) \in Nat
      /\ concepts \in Seq(NorConcepts) /\ fresh \in Seq(NorConcepts)
      /\ DOMAIN concepts = 1 .. Len(concepts) /\ DOMAIN fresh = 1 .. Len(fresh)
      /\ i \in Arg /\ i \in Nat
    BY <1>1, <1>2, NAssumption DEF NorState, Arg
<1>4. \A m \in DOMAIN concepts : Taken(m, cur, i) = i + 1
    BY <1>1, <1>3 DEF Taken
<1>5. /\ concepts' \in Seq(NorConcepts)
      /\ DOMAIN concepts' = 1 .. Len(concepts) + Len(fresh)
      /\ \A m \in DOMAIN concepts : m \in DOMAIN concepts' /\ concepts'[m] = concepts[m]
      /\ \A m \in DOMAIN fresh :
            m + Len(concepts) \in DOMAIN concepts' /\ concepts'[m + Len(concepts)] = fresh[m]
      /\ \A m \in DOMAIN concepts' :
            \/ m \in DOMAIN concepts /\ concepts'[m] = concepts[m]
            \/ /\ m - Len(concepts) \in DOMAIN fresh
               /\ concepts'[m] = fresh[m - Len(concepts)]
    BY <1>1, <1>3
<1>6. \A m \in DOMAIN concepts' : Taken(m, cur', i') = i + 1
    BY <1>1, <1>3, <1>5 DEF Taken
<1>7. \A m \in DOMAIN concepts' : NorNode(base, concepts'[m], i + 1)
    <2>1. /\ \A m \in DOMAIN concepts : NorNode(base, concepts[m], i + 1)
          /\ \A m \in DOMAIN fresh : NorNode(base, fresh[m], i + 1)
        BY <1>1, <1>2, <1>4 DEF NorState
    <2> QED
        BY <1>5, <2>1
<1>8. NorState'
    <2>1. fresh' \in Seq(NorConcepts) /\ DOMAIN fresh' = {}
        BY <1>1
    <2>2. pc' = "round" => i' < N
        BY <1>1, <1>3, NAssumption
    <2>3. cur' <= Len(concepts') + 1 /\ cur' \in Nat \ {0}
        BY <1>1, <1>5
    <2>4. i' \in 0 .. N /\ pc' \in {"round", "done", "crash"}
        BY <1>1, <1>3, NAssumption
    <2> QED
        BY <1>1, <1>2, <1>5, <1>6, <1>7, <2>1, <2>2, <2>3, <2>4 DEF NorState
<1>9. /\ \A m, n \in DOMAIN concepts :
            m # n => concepts[m].intent \ {i} # concepts[n].intent \ {i}
      /\ \A m, n \in DOMAIN fresh : m # n => fresh[m].intent # fresh[n].intent
      /\ \A m \in DOMAIN fresh : \E n \in DOMAIN concepts :
            /\ i \notin concepts[n].intent
            /\ fresh[m].intent = concepts[n].intent \cup {i}
    BY <1>1, <1>2 DEF NorDistinct
<1>10. ASSUME NEW m \in DOMAIN fresh, NEW n \in DOMAIN concepts
       PROVE  fresh[m].intent # concepts[n].intent
    <2>1. PICK l \in DOMAIN concepts :
            /\ i \notin concepts[l].intent
            /\ fresh[m].intent = concepts[l].intent \cup {i}
        BY <1>9
    <2> QED
        BY <1>9, <2>1
<1>11. ASSUME NEW m \in DOMAIN concepts', NEW n \in DOMAIN concepts', m # n
       PROVE  concepts'[m].intent # concepts'[n].intent
    <2>0. m \in Int /\ n \in Int
        BY <1>5
    <2>1. CASE m \in DOMAIN concepts /\ concepts'[m] = concepts[m]
        <3>1. CASE n \in DOMAIN concepts /\ concepts'[n] = concepts[n]
            BY <1>9, <1>11, <2>1, <3>1
        <3> QED
            BY <1>5, <1>10, <2>1, <3>1
    <2>2. CASE m - Len(concepts) \in DOMAIN fresh /\ concepts'[m] = fresh[m - Len(concepts)]
        <3>1. CASE n \in DOMAIN concepts /\ concepts'[n] = concepts[n]
            BY <1>10, <2>2, <3>1
        <3>2. CASE n - Len(concepts) \in DOMAIN fresh
                        /\ concepts'[n] = fresh[n - Len(concepts)]
            <4>1. m - Len(concepts) # n - Len(concepts)
                BY <1>3, <1>11, <2>0
            <4> QED
                BY <1>9, <2>2, <3>2, <4>1
        <3> QED
            BY <1>5, <3>1, <3>2
    <2> QED
        BY <1>5, <2>1, <2>2
<1>12. NorDistinct'
    <2>1. \A m \in DOMAIN concepts' : concepts'[m].intent \ {i'} = concepts'[m].intent
        <3> TAKE m \in DOMAIN concepts'
        <3>1. \A j \in concepts'[m].intent : j < i + 1
            BY <1>7 DEF NorNode
        <3>2. ~(i + 1 < i + 1)
            BY <1>3
        <3> QED
            BY <1>1, <3>1, <3>2
    <2>2. \A m, n \in DOMAIN concepts' :
            m # n => concepts'[m].intent \ {i'} # concepts'[n].intent \ {i'}
        BY <1>11, <2>1
    <2>3. DOMAIN fresh' = {}
        BY <1>1
    <2> QED
        BY <2>2, <2>3 DEF NorDistinct
<1>13. NorFound'
    <2>1. UNCHANGED <<base, extensions>> /\ DOMAIN fresh' = {}
        BY <1>1
    <2>2. /\ \A m, n \in DOMAIN extensions : extensions[m] = extensions[n] => m = n
          /\ \A S \in Members(extensions) :
                /\ S \in StableExtensions(base)
                /\ \A m \in DOMAIN concepts :
                        concepts[m].intent = Below(S, i + 1) => concepts[m].intent = S
                /\ \A m \in DOMAIN fresh : fresh[m].intent # Below(S, i + 1)
          /\ \A m \in DOMAIN concepts :
                concepts[m].intent \in StableExtensions(base)
                    => concepts[m].intent \in Members(extensions)
          /\ \A m \in DOMAIN fresh : fresh[m].intent \notin StableExtensions(base)
        BY <1>1, <1>2, <1>4 DEF NorFound
    <2>3. \A S \in Members(extensions), m \in DOMAIN concepts' :
            concepts'[m].intent = Below(S, i + 1) => concepts'[m].intent = S
        BY <1>5, <2>2
    <2>4. \A m \in DOMAIN concepts' :
            concepts'[m].intent \in StableExtensions(base)
                => concepts'[m].intent \in Members(extensions)
        BY <1>5, <2>2
    <2> QED
        BY <1>6, <2>1, <2>2, <2>3, <2>4 DEF NorFound
<1>14. ASSUME NEW S \in StableExtensions(base) \ Members(extensions)
       PROVE  \E m \in DOMAIN concepts' : concepts'[m].intent = Below(S, i + 1)
    <2>1. StoodFor(S)
        BY <1>1, <1>2 DEF NorSought
    <2>2. \/ \E m \in DOMAIN concepts : concepts[m].intent = Below(S, i + 1)
          \/ \E m \in DOMAIN fresh : fresh[m].intent = Below(S, i + 1)
        BY <1>4, <2>1 DEF StoodFor
    <2> QED
        BY <1>5, <2>2
<1>15. i + 1 = N => StableExtensions(base) \subseteq Members(extensions)
    <2> SUFFICES ASSUME i + 1 = N, NEW S \in StableExtensions(base) \ Members(extensions)
                 PROVE  FALSE
        OBVIOUS
    <2>1. PICK m \in DOMAIN concepts' : concepts'[m].intent = Below(S, i + 1)
        BY <1>14
    <2>2. Below(S, i + 1) = S
        <3>1. \A j \in S : j < N
            BY StableFacts, NAssumption DEF Arg
        <3> QED
            BY <3>1 DEF Below
    <2>3. \/ m \in DOMAIN concepts /\ concepts'[m] = concepts[m]
          \/ /\ m - Len(concepts) \in DOMAIN fresh
             /\ concepts'[m] = fresh[m - Len(concepts)]
        BY <1>5
    <2> QED
        BY <1>1, <1>2, <2>1, <2>2, <2>3 DEF NorFound
<1>16. NorSought'
    <2>1. pc' = "done" => i + 1 = N
        BY <1>1
    <2>2. ASSUME NEW S \in StableExtensions(base) \ Members(extensions)
          PROVE  StoodFor(S)'
        BY <1>6, <1>14 DEF StoodFor
    <2>3. UNCHANGED <<base, extensions>>
        BY <1>1
    <2>4. StableExtensions(base)' = StableExtensions(base)
            /\ Members(extensions)' = Members(extensions)
        BY <2>3
    <2> QED
        BY <1>15, <2>1, <2>2, <2>4 DEF NorSought
<1>17. NorPrinted'
    <2>1. printed' = <<>> /\ prob' = prob /\ (prob = "SE" => extensions' = <<>>)
        BY <1>1, <1>2 DEF NorPrinted
    <2>2. prob = "SE" /\ pc' = "done" => StableExtensions(base) = {}
        <3>1. extensions = <<>> => Members(extensions) = {}
            BY DEF Members
        <3> QED
            BY <1>1, <1>15, <2>1, <3>1
    <2>3. base' = base
        BY <1>1
    <2>4. StableExtensions(base)' = StableExtensions(base)
        BY <2>3
    <2> QED
        BY <2>1, <2>2, <2>4 DEF NorPrinted
<1> QED
    BY <1>8, <1>12, <1>13, <1>16, <1>17 DEF NorrisInv

LEMMA NorrisNextInv ==
    ASSUME base \in Framework, prob \in {"EE", "SE"}, NorrisInv, Norris!Next, UNCHANGED base
    PROVE  NorrisInv'
<1>1. ASSUME Norris!Ended
      PROVE  NorrisInv'
    BY <1>1
    DEF Norris!Ended, Norris!vars, NorrisInv, NorState, NorDistinct, NorFound, NorSought,
        NorPrinted, StoodFor
<1> QED
    BY <1>1, NorSkipInv, NorUpdateStableInv, NorUpdateExhaustedInv, NorUpdateInv, NorBranchInv,
       NorEndRoundInv
    DEF Norris!Next

(* Between two rounds a node stands for each extension that is not listed,   *)
(* and no other has its intent.                                              *)
LEMMA NorrisOneConceptEach ==
    ASSUME base \in Framework, NorrisInv
    PROVE  Norris!OneConceptEach
<1>0. Norris!Found = Members(extensions)
    BY DEF Norris!Found, Members
<1> SUFFICES ASSUME pc = "round", cur = 1, fresh = <<>>,
                    NEW S \in StableExtensions(base) \ Members(extensions)
             PROVE  Cardinality({m \in DOMAIN concepts :
                                    concepts[m].intent = S \cap (0 .. i-1)}) = 1
    BY <1>0, NorrisOperators DEF Norris!OneConceptEach
<1>1. NorState /\ NorDistinct /\ StoodFor(S)
    BY DEF NorrisInv, NorSought
<1>2. /\ DOMAIN fresh = {} /\ DOMAIN concepts = 1 .. Len(concepts)
      /\ Len(concepts) \in Nat /\ i \in 0 .. N
    BY <1>1 DEF NorState
<1>3. \A m \in DOMAIN concepts : Taken(m, cur, i) = i
    BY <1>2 DEF Taken
<1>4. PICK m \in DOMAIN concepts : concepts[m].intent = Below(S, i)
    BY <1>1, <1>2, <1>3 DEF StoodFor
<1>5. \A l \in DOMAIN concepts : concepts[l].intent = concepts[m].intent => l = m
    BY <1>1 DEF NorDistinct
<1>6. S \cap (0 .. i-1) = Below(S, i)
    BY <1>2, StableFacts, NorrisOperators
<1>7. {l \in DOMAIN concepts : concepts[l].intent = S \cap (0 .. i-1)} = {m}
    BY <1>4, <1>5, <1>6
<1> QED
    BY <1>7, FS_Singleton

-------------------------------------------------------------------------------
(* DC-ST by next closure: the routine is the one of DcStableNC, for which    *)
(* the invariant has been proved; the instances are two readings of it.      *)

Dc == INSTANCE DcStableNC_proofs WITH Inputs <- Framework, af <- base

LEMMA DecideOperators ==
    /\ Dc!Arg = Arg /\ Decide!Arg = Arg
    /\ Dc!Framework = Framework /\ Decide!Framework = Framework
    /\ Dc!SelfAttacks <=> Decide!SelfAttacks
    /\ \A a : Dc!Conflicting(a) <=> Decide!Conflicting(a)
    /\ \A f, m : Dc!Renamed(f, m) = Decide!Renamed(f, m)
    /\ \A S, m : Dc!MapIndices(S, m) = Decide!MapIndices(S, m)
    /\ \A f, S : Dc!IsStableTest(f, S) <=> Decide!IsStableTest(f, S)
    /\ \A f, S, a : Dc!InConflict(f, S, a) <=> Decide!InConflict(f, S, a)
    /\ \A f, S : Dc!Closure(f, S) = Decide!Closure(f, S)
    /\ \A S, T, a : Dc!Canonical(S, T, a) <=> Decide!Canonical(S, T, a)
<1>1. /\ Dc!Arg = Arg /\ Decide!Arg = Arg
      /\ Dc!Framework = Framework /\ Decide!Framework = Framework
    BY DEF Dc!Arg, Decide!Arg, Arg, Dc!Framework, Decide!Framework, Framework
<1>2. /\ Dc!SelfAttacks <=> Decide!SelfAttacks
      /\ \A a : Dc!Conflicting(a) <=> Decide!Conflicting(a)
    BY DEF Dc!SelfAttacks, Decide!SelfAttacks, Dc!Conflicting, Decide!Conflicting,
           Dc!ArgAttacksArg, Decide!ArgAttacksArg
<1>3. /\ \A f, m : Dc!Renamed(f, m) = Decide!Renamed(f, m)
      /\ \A S, m : Dc!MapIndices(S, m) = Decide!MapIndices(S, m)
    BY DEF Dc!Renamed, Decide!Renamed, Dc!MapIndices, Decide!MapIndices
<1>4. \A f, S : Dc!IsStableTest(f, S) <=> Decide!IsStableTest(f, S)
    BY DEF Dc!IsStableTest, Decide!IsStableTest, Dc!UpArrow, Decide!UpArrow,
           Dc!Complement, Decide!Complement
<1>5. \A f, S, a : Dc!InConflict(f, S, a) <=> Decide!InConflict(f, S, a)
    BY DEF Dc!InConflict, Decide!InConflict, Dc!ArgAttacksArg, Decide!ArgAttacksArg,
           Dc!ArgAttacksSet, Decide!ArgAttacksSet, Dc!SetAttacksArg, Decide!SetAttacksArg
<1>6. \A f, S : Dc!Closure(f, S) = Decide!Closure(f, S)
    BY DEF Dc!Closure, Decide!Closure, Dc!DownUpArrow, Decide!DownUpArrow,
           Dc!Complement, Decide!Complement
<1>7. \A S, T, a : Dc!Canonical(S, T, a) <=> Decide!Canonical(S, T, a)
    BY DEF Dc!Canonical, Decide!Canonical
<1> QED
    BY <1>1, <1>2, <1>3, <1>4, <1>5, <1>6, <1>7

LEMMA DecideInitInv ==
    ASSUME Decide!Init
    PROVE  Dc!IInv
<1>1. Dc!Init
    BY DecideOperators DEF Decide!Init, Dc!Init, Dc!NoAttacks, Decide!NoAttacks
<1>2. Framework \subseteq Dc!Framework
    BY DecideOperators
<1> QED
    BY <1>1, <1>2, Dc!InitIInv, NAssumption

LEMMA DecideNextInv ==
    ASSUME Dc!IInv, Decide!Next
    PROVE  Dc!IInv'
<1>1. Decide!Search => Dc!Search
    BY DecideOperators
    DEF Decide!Search, Dc!Search, Decide!SearchStep, Dc!SearchStep, Decide!setupVars,
        Dc!setupVars, Decide!Drop, Dc!Drop, Decide!SkipConflict, Dc!SkipConflict,
        Decide!Close, Dc!Close, Decide!Exhausted, Dc!Exhausted, Decide!Searching,
        Dc!Searching
<1>2. Decide!Refuse => Dc!Refuse
    BY DecideOperators DEF Decide!Refuse, Dc!Refuse, Decide!setupVars, Dc!setupVars
<1>3. Decide!MoveConflicting => Dc!MoveConflicting
    BY DecideOperators
    DEF Decide!MoveConflicting, Dc!MoveConflicting, Decide!searchVars, Dc!searchVars
<1>4. Decide!LeaveInPlace => Dc!LeaveInPlace
    BY DecideOperators
    DEF Decide!LeaveInPlace, Dc!LeaveInPlace, Decide!searchVars, Dc!searchVars
<1>5. Decide!Rename => Dc!Rename
    BY DecideOperators
    DEF Decide!Rename, Dc!Rename, Decide!Round, Dc!Round
<1>6. Decide!Answer => Dc!Answer
    BY DecideOperators
    DEF Decide!Answer, Dc!Answer, Decide!setupVars, Dc!setupVars
<1>7. Decide!Pass => Dc!Pass
    BY DecideOperators
    DEF Decide!Pass, Dc!Pass, Decide!setupVars, Dc!setupVars, Decide!Round, Dc!Round
<1>8. Decide!Returned => Dc!Returned
    BY DEF Decide!Returned, Dc!Returned, Decide!vars, Dc!vars, Decide!setupVars,
           Dc!setupVars, Decide!searchVars, Dc!searchVars
<1>9. Dc!Next
    BY <1>1, <1>2, <1>3, <1>4, <1>5, <1>6, <1>7, <1>8 DEF Decide!Next, Dc!Next
<1> QED
    BY <1>9, Dc!NextIInv, NAssumption

LEMMA DecideMapping ==
    ASSUME Dc!IInv
    PROVE  Decide!MappingFaithful
<1>1. Dc!MappingFaithful
    BY Dc!MappingLeft, NAssumption
<1> QED
    BY <1>1, DecideOperators DEF Dc!MappingFaithful, Decide!MappingFaithful

(* What the caller finds when the routine has returned.                      *)
LEMMA DecideAnswer ==
    ASSUME Dc!IInv, base \in Framework
    PROVE  /\ result \in SUBSET Arg
           /\ result # {} => result \in StableExtensions(base)
           /\ pc = "done" => \A S \in StableExtensions(base) :
                argument \in S /\ S # {argument} => argument \in result
<1>1. /\ Dc!StableExtensions(base) = StableExtensions(base)
      /\ \A S : Dc!Stable(base, S) <=> Stable(base, S)
    BY DEF Dc!StableExtensions, Dc!Stable, StableExtensions, Stable
<1>2. /\ result \in SUBSET Arg
      /\ result # {} => Dc!Stable(base, result)
      /\ pc = "done" => \A S \in Dc!StableExtensions(base) :
           argument \in S /\ S # {argument} => argument \in result
    BY DecideOperators DEF Dc!IInv, Dc!Types, Dc!ResultStable, Dc!LargerNotMissed
<1> QED
    BY <1>1, <1>2, StableFacts

-------------------------------------------------------------------------------
(* Reverse search for the maximal conflict-free sets.                        *)

(* The calls of the search: the running one with the set X at m, if live,    *)
(* and those to come.                                                        *)
Calls(n) == [i : 0 .. n, s : SUBSET (0 .. n-1)]

(* T comes from the set X below m.                                           *)
Comes(cf, n, T, X, m) == Ancestor(cf, n, T, m) = X

ComesFrom(cf, n, T, call) == Comes(cf, n, T, call.s, call.i)

(* No set of arguments is reached from two calls, nor from one if listed.    *)
ReachedOnce(cf, n, live, X, m, calls, list) ==
    \A T \in SUBSET (0 .. n-1) :
        /\ live /\ Comes(cf, n, T, X, m) =>
            /\ T \notin Members(list)
            /\ \A l \in DOMAIN calls : ~ComesFrom(cf, n, T, calls[l])
        /\ \A l \in DOMAIN calls : ComesFrom(cf, n, T, calls[l]) =>
            /\ T \notin Members(list)
            /\ \A j \in DOMAIN calls : ComesFrom(cf, n, T, calls[j]) => j = l

(* The sets sought are listed or still reached.                              *)
Reached(cf, n, live, X, m, calls, list, sought) ==
    \A T \in sought :
        \/ T \in Members(list)
        \/ live /\ Comes(cf, n, T, X, m)
        \/ \E l \in DOMAIN calls : ComesFrom(cf, n, T, calls[l])

LEMMA ComesStep ==
    ASSUME NEW cf, NEW n, Conflicts(cf, n), NEW T \in SUBSET (0 .. n-1),
           NEW m \in 0 .. n-1, NEW Z, Comes(cf, n, T, Z, m+1)
    PROVE  Comes(cf, n, T, ParentSet(cf, n, Z, m), m)
BY AncestorSteps DEF Comes

(* The running call goes on with a set generated from its own.               *)
LEMMA OnceAdvance ==
    ASSUME NEW cf, NEW n, Conflicts(cf, n), NEW m \in 0 .. n-1, NEW X, NEW Z,
           ParentSet(cf, n, Z, m) = X, NEW calls, NEW list,
           ReachedOnce(cf, n, TRUE, X, m, calls, list)
    PROVE  ReachedOnce(cf, n, TRUE, Z, m+1, calls, list)
<1>1. \A T \in SUBSET (0 .. n-1) : Comes(cf, n, T, Z, m+1) => Comes(cf, n, T, X, m)
    BY ComesStep
<1> QED
    BY <1>1 DEF ReachedOnce

(* It puts off another one.                                                  *)
LEMMA OnceBranch ==
    ASSUME NEW cf, NEW n, Conflicts(cf, n), NEW m \in 0 .. n-1, NEW X,
           NEW Z \in SUBSET (0 .. n-1),
           ParentSet(cf, n, X, m) = X, ParentSet(cf, n, Z, m) = X, X # Z,
           NEW calls \in Seq(Calls(n)), NEW list,
           ReachedOnce(cf, n, TRUE, X, m, calls, list)
    PROVE  ReachedOnce(cf, n, TRUE, X, m+1, <<[i |-> m+1, s |-> Z]>> \o calls, list)
<1> DEFINE put == [i |-> m+1, s |-> Z]
           new == <<put>> \o calls
<1>1. put \in Calls(n) /\ put.i = m+1 /\ put.s = Z
    BY DEF Calls, Conflicts
<1> HIDE DEF put
<1>2. /\ new[1] = put
      /\ \A l \in DOMAIN new : l # 1 => l-1 \in DOMAIN calls /\ new[l] = calls[l-1]
      /\ \A l \in DOMAIN new : l \in Nat
    BY <1>1, Stacked
<1> HIDE DEF new
<1>3. ASSUME NEW T \in SUBSET (0 .. n-1)
      PROVE  /\ Comes(cf, n, T, X, m+1) => Comes(cf, n, T, X, m)
             /\ ComesFrom(cf, n, T, put) => Comes(cf, n, T, X, m)
             /\ ~(Comes(cf, n, T, X, m+1) /\ ComesFrom(cf, n, T, put))
    BY <1>1, ComesStep DEF ComesFrom, Comes
<1>4. ASSUME NEW T \in SUBSET (0 .. n-1)
      PROVE  /\ Comes(cf, n, T, X, m) =>
                  /\ T \notin Members(list)
                  /\ \A l \in DOMAIN calls : ~ComesFrom(cf, n, T, calls[l])
             /\ \A l \in DOMAIN calls : ComesFrom(cf, n, T, calls[l]) =>
                  /\ T \notin Members(list)
                  /\ \A j \in DOMAIN calls : ComesFrom(cf, n, T, calls[j]) => j = l
    BY DEF ReachedOnce
<1>5. ASSUME NEW T \in SUBSET (0 .. n-1)
      PROVE  /\ Comes(cf, n, T, X, m+1) =>
                  /\ T \notin Members(list)
                  /\ \A l \in DOMAIN new : ~ComesFrom(cf, n, T, new[l])
             /\ \A l \in DOMAIN new : ComesFrom(cf, n, T, new[l]) =>
                  /\ T \notin Members(list)
                  /\ \A j \in DOMAIN new : ComesFrom(cf, n, T, new[j]) => j = l
    <2>1. Comes(cf, n, T, X, m+1) =>
                  /\ T \notin Members(list)
                  /\ \A l \in DOMAIN new : ~ComesFrom(cf, n, T, new[l])
        BY <1>2, <1>3, <1>4
    <2>2. ASSUME NEW l \in DOMAIN new, ComesFrom(cf, n, T, new[l])
          PROVE  /\ T \notin Members(list)
                 /\ \A j \in DOMAIN new : ComesFrom(cf, n, T, new[j]) => j = l
        <3>1. T \notin Members(list)
            BY <1>2, <1>3, <1>4, <2>2
        <3>2. ASSUME NEW j \in DOMAIN new, ComesFrom(cf, n, T, new[j])
              PROVE  j = l
            <4>1. CASE j = 1 \/ l = 1
                BY <1>2, <1>3, <1>4, <2>2, <3>2, <4>1
            <4>2. CASE j # 1 /\ l # 1
                <5>1. /\ j-1 \in DOMAIN calls /\ new[j] = calls[j-1]
                      /\ l-1 \in DOMAIN calls /\ new[l] = calls[l-1]
                    BY <1>2, <4>2
                <5>2. j-1 = l-1
                    BY <1>4, <2>2, <3>2, <5>1
                <5> QED
                    BY <1>2, <5>2
            <4> QED
                BY <4>1, <4>2
        <3> QED
            BY <3>1, <3>2
    <2> QED
        BY <2>1, <2>2
<1>6. ReachedOnce(cf, n, TRUE, X, m+1, new, list)
    BY <1>5 DEF ReachedOnce
<1> QED
    BY <1>6 DEF new, put

(* It ends, with its set listed or not.                                      *)
LEMMA OnceEnd ==
    ASSUME NEW cf, NEW n, Conflicts(cf, n), NEW X \in SUBSET (0 .. n-1),
           NEW calls, NEW list, NEW X2, NEW m2,
           ReachedOnce(cf, n, TRUE, X, n, calls, list)
    PROVE  /\ X \notin Members(list)
           /\ ReachedOnce(cf, n, FALSE, X2, m2, calls, list)
           /\ \A new : Members(new) = {X} \cup Members(list) =>
                ReachedOnce(cf, n, FALSE, X2, m2, calls, new)
<1>1. \A T \in SUBSET (0 .. n-1) : Comes(cf, n, T, X, n) <=> T = X
    BY AncestorSteps DEF Comes
<1> QED
    BY <1>1 DEF ReachedOnce

(* The call put off last is made.                                            *)
LEMMA OnceCalled ==
    ASSUME NEW cf, NEW n, Conflicts(cf, n),
           NEW calls \in Seq(Calls(n)), calls # <<>>, NEW list, NEW X, NEW m,
           ReachedOnce(cf, n, FALSE, X, m, calls, list)
    PROVE  ReachedOnce(cf, n, TRUE, Head(calls).s, Head(calls).i, Tail(calls), list)
<1> DEFINE new == Tail(calls)
<1>1. /\ Head(calls) = calls[1] /\ 1 \in DOMAIN calls
      /\ \A l \in DOMAIN new : l \in Nat /\ l+1 # 1 /\ l+1 \in DOMAIN calls /\ new[l] = calls[l+1]
    <2>1. Head(calls) = calls[1]
        OBVIOUS
    <2>2. /\ DOMAIN new = 1 .. Len(calls) - 1 /\ 1 \in DOMAIN calls
          /\ \A l \in DOMAIN new : l+1 \in DOMAIN calls /\ new[l] = calls[l+1]
        BY Unstacked
    <2>3. Len(calls) \in Nat
        OBVIOUS
    <2> HIDE DEF new
    <2> QED
        BY <2>1, <2>2, <2>3
<1> HIDE DEF new
<1>2. ASSUME NEW T \in SUBSET (0 .. n-1)
      PROVE  \A l \in DOMAIN calls : ComesFrom(cf, n, T, calls[l]) =>
                  /\ T \notin Members(list)
                  /\ \A j \in DOMAIN calls : ComesFrom(cf, n, T, calls[j]) => j = l
    BY DEF ReachedOnce
<1>3. ASSUME NEW T \in SUBSET (0 .. n-1)
      PROVE  /\ Comes(cf, n, T, calls[1].s, calls[1].i) =>
                  /\ T \notin Members(list)
                  /\ \A l \in DOMAIN new : ~ComesFrom(cf, n, T, new[l])
             /\ \A l \in DOMAIN new : ComesFrom(cf, n, T, new[l]) =>
                  /\ T \notin Members(list)
                  /\ \A j \in DOMAIN new : ComesFrom(cf, n, T, new[j]) => j = l
    <2>1. ASSUME Comes(cf, n, T, calls[1].s, calls[1].i)
          PROVE  /\ T \notin Members(list)
                 /\ \A l \in DOMAIN new : ~ComesFrom(cf, n, T, new[l])
        <3>1. ComesFrom(cf, n, T, calls[1])
            BY <2>1 DEF ComesFrom
        <3> QED
            BY <1>1, <1>2, <3>1
    <2>2. ASSUME NEW l \in DOMAIN new, ComesFrom(cf, n, T, new[l])
          PROVE  /\ T \notin Members(list)
                 /\ \A j \in DOMAIN new : ComesFrom(cf, n, T, new[j]) => j = l
        <3>1. l+1 \in DOMAIN calls /\ new[l] = calls[l+1] /\ l \in Nat
            BY <1>1
        <3>2. \A j \in DOMAIN new : ComesFrom(cf, n, T, new[j]) => j+1 = l+1 /\ j \in Nat
            BY <1>1, <1>2, <2>2, <3>1
        <3> QED
            BY <1>2, <2>2, <3>1, <3>2
    <2> QED
        BY <2>1, <2>2
<1>4. ReachedOnce(cf, n, TRUE, calls[1].s, calls[1].i, new, list)
    BY <1>3 DEF ReachedOnce
<1> QED
    BY <1>1, <1>4 DEF new

-------------------------------------------------------------------------------
(* The state of the search.                                                  *)
MisLive == pc \in {"ask", "grow"}

(* The framework searched: that of main, or what dc() projects it to.        *)
MisSetup ==
    /\ parent_mapping = Mis!ParentMapping(Mis!Remaining)
    /\ af = Mis!WithLoops(Mis!Renamed(base, parent_mapping))
    /\ prob \in {"EE", "SE", "DC"}
    /\ argument \in IF prob = "DC" THEN Arg ELSE {N}

(* The running call: what is dominated is exact, what is in conflict up to   *)
(* self-attackers.                                                           *)
CallAt(att, cf, n, X, m, attacked, excluded) ==
    /\ m \in 0 .. n
    /\ Good(cf, X, m)
    /\ attacked = X \cup {a \in 0 .. n-1 : \E b \in X : a \in att[b]}
    /\ \A a \in 0 .. n-1 : a \notin cf[a] => (a \in excluded <=> ~Joins(cf, X, a))

MisState ==
    /\ Mis!Size \in Nat
    /\ af \in [0 .. Mis!Size-1 -> SUBSET (0 .. Mis!Size-1)]
    /\ pending \in Seq(Calls(Mis!Size))
    /\ \A m \in DOMAIN pending : Good(Mis!conflicts, pending[m].s, pending[m].i)
    /\ extensions \in Seq(SUBSET (0 .. Mis!Size-1))
    /\ pc \in {"ask", "grow", "back", "done"}
    /\ pc \in {"grow", "back"} => ~Mis!Refused
    /\ MisLive => CallAt(af, Mis!conflicts, Mis!Size, s, i, dominated, conflicting)

(* No maximal set is reached from two calls, and none again that is listed.  *)
MisOnce == ReachedOnce(Mis!conflicts, Mis!Size, MisLive, s, i, pending, extensions)

(* What is listed is stable.                                                 *)
MisFound ==
    /\ \A S \in Members(extensions) : S \in StableExtensions(af)
    /\ \A m, l \in DOMAIN extensions : extensions[m] = extensions[l] => m = l

(* No extension is given up if the self-attackers come last.                 *)
MisSought ==
    Mis!LoopsLast /\ extension = {} /\ ~Mis!Refused =>
        /\ Reached(Mis!conflicts, Mis!Size, MisLive, s, i, pending, extensions,
                   StableExtensions(af))
        /\ pc = "done" => pending = <<>>

(* What a search for one extension leaves when it ends.                      *)
MisAnswer ==
    /\ prob = "EE" => extension = {}
    /\ prob # "EE" => extensions = <<>>
    /\ pc # "done" => extension = {}
    /\ extension # {} =>
        /\ ~Mis!Refused
        /\ \E T \in StableExtensions(af) :
             extension = {Mis!MapIndices(T, parent_mapping)
                            \cup (IF prob = "DC" THEN {argument} ELSE {})}

(* The inductive invariant of the reverse search.                            *)
MisInv == MisSetup /\ MisState /\ MisOnce /\ MisFound /\ MisSought /\ MisAnswer

LEMMA MisGraph ==
    ASSUME MisState
    PROVE  /\ DOMAIN af = 0 .. Mis!Size-1
           /\ Conflicts(Mis!conflicts, Mis!Size)
           /\ \A a, b \in 0 .. Mis!Size-1 : b \in Mis!conflicts[a] <=>
                \/ a \in af[a] \/ b \in af[b] \/ b \in af[a] \/ a \in af[b]
           /\ StableExtensions(af) = {T \in SUBSET (0 .. Mis!Size-1) : Stable(af, T)}
           /\ \A T : Stable(af, T) <=>
                \A a \in 0 .. Mis!Size-1 : a \in T <=> \A b \in T : a \notin af[b]
           /\ \A X : Mis!Victims(af, X) = {a \in 0 .. Mis!Size-1 : \E b \in X : a \in af[b]}
           /\ \A X : Mis!TrueAttackers(af, X) = {a \in 0 .. Mis!Size-1 : \E b \in X : b \in af[a]}
           /\ \A X : Mis!FullSet(X) <=> X = 0 .. Mis!Size-1
           /\ Mis!LoopsLast => \A a, b \in 0 .. Mis!Size-1 :
                a < b /\ a \in Mis!conflicts[a] => b \in Mis!conflicts[b]
<1> DEFINE n == Mis!Size
           cf == Mis!conflicts
<1>1. n \in Nat /\ DOMAIN af = 0 .. n-1 /\ \A a \in 0 .. n-1 : af[a] \in SUBSET (0 .. n-1)
    BY DEF MisState
<1> HIDE DEF n
<1>2. cf = [a \in 0 .. n-1 |-> {b \in 0 .. n-1 :
                \/ a \in af[a] \/ b \in af[b] \/ b \in af[a] \/ a \in af[b]}]
    BY <1>1 DEF Mis!conflicts, Mis!ConflictFramework
<1> HIDE DEF cf
<1>3. \A a, b \in 0 .. n-1 : b \in cf[a] <=>
                \/ a \in af[a] \/ b \in af[b] \/ b \in af[a] \/ a \in af[b]
    BY <1>2
<1>4. Conflicts(cf, n)
    <2>1. cf \in [0 .. n-1 -> SUBSET (0 .. n-1)]
        BY <1>2
    <2> QED
        BY <1>1, <1>3, <2>1 DEF Conflicts
<1>5. /\ StableExtensions(af) = {T \in SUBSET (0 .. n-1) : Stable(af, T)}
      /\ \A T : Stable(af, T) <=> \A a \in 0 .. n-1 : a \in T <=> \A b \in T : a \notin af[b]
    BY <1>1 DEF StableExtensions, Stable
<1>6. /\ \A X : Mis!Victims(af, X) = {a \in 0 .. n-1 : \E b \in X : a \in af[b]}
      /\ \A X : Mis!TrueAttackers(af, X) = {a \in 0 .. n-1 : \E b \in X : b \in af[a]}
      /\ \A X : Mis!FullSet(X) <=> X = 0 .. n-1
    BY <1>1 DEF Mis!Victims, Mis!SetAttacksArg, Mis!TrueAttackers, Mis!ArgAttacksSet,
                Mis!FullSet
<1>7. Mis!LoopsLast => \A a, b \in 0 .. n-1 : a < b /\ a \in cf[a] => b \in cf[b]
    <2>1. \A a \in 0 .. n-1 : a \in cf[a] <=> a \in af[a]
        BY <1>3
    <2> QED
        BY <1>1, <2>1 DEF Mis!LoopsLast, Mis!SelfAttackersLast
<1> QED
    BY <1>1, <1>3, <1>4, <1>5, <1>6, <1>7 DEF n, cf

(* A stable extension of the framework searched is a maximal set; one that   *)
(* dominates everything is stable.                                           *)
LEMMA StableGood ==
    ASSUME MisState
    PROVE  /\ \A T \in StableExtensions(af) :
                T \in SUBSET (0 .. Mis!Size-1) /\ Good(Mis!conflicts, T, Mis!Size)
           /\ \A X, m, attacked, excluded :
                /\ CallAt(af, Mis!conflicts, Mis!Size, X, m, attacked, excluded)
                /\ attacked = 0 .. Mis!Size-1
                => X \in StableExtensions(af)
           /\ \A X, attacked, excluded :
                /\ CallAt(af, Mis!conflicts, Mis!Size, X, Mis!Size, attacked, excluded)
                /\ attacked # 0 .. Mis!Size-1
                => X \notin StableExtensions(af)
<1> DEFINE n == Mis!Size
           cf == Mis!conflicts
<1>1. /\ n \in Nat /\ DOMAIN af = 0 .. n-1
      /\ \A a, b \in 0 .. n-1 : b \in cf[a] <=>
                \/ a \in af[a] \/ b \in af[b] \/ b \in af[a] \/ a \in af[b]
      /\ StableExtensions(af) = {T \in SUBSET (0 .. n-1) : Stable(af, T)}
      /\ \A T : Stable(af, T) <=> \A a \in 0 .. n-1 : a \in T <=> \A b \in T : a \notin af[b]
    BY MisGraph DEF MisState
<1> HIDE DEF n, cf
<1>2. ASSUME NEW T \in StableExtensions(af)
      PROVE  T \in SUBSET (0 .. n-1) /\ Good(cf, T, n)
    <2>1. T \in SUBSET (0 .. n-1) /\ \A a \in 0 .. n-1 : a \in T <=> \A b \in T : a \notin af[b]
        BY <1>1, <1>2
    <2>2. \A a, b \in T : b \notin cf[a]
        BY <1>1, <2>1
    <2>3. \A a \in 0 .. n-1 : a \in T \/ ~Joins(cf, T, a)
        BY <1>1, <2>1 DEF Joins
    <2> QED
        BY <2>1, <2>2, <2>3 DEF Good
<1>3. ASSUME NEW X, NEW m, NEW attacked, NEW excluded,
             CallAt(af, cf, n, X, m, attacked, excluded)
      PROVE  attacked = 0 .. n-1 => X \in StableExtensions(af)
    <2>1. /\ X \in SUBSET (0 .. n-1)
          /\ attacked = X \cup {a \in 0 .. n-1 : \E b \in X : a \in af[b]}
          /\ \A a, b \in X : b \notin cf[a]
        BY <1>1, <1>3 DEF CallAt, Good
    <2>2. \A a, b \in X : a \notin af[b]
        BY <1>1, <2>1
    <2> QED
        BY <1>1, <2>1, <2>2
<1>4. ASSUME NEW X, NEW attacked, NEW excluded,
             CallAt(af, cf, n, X, n, attacked, excluded), X \in StableExtensions(af)
      PROVE  attacked = 0 .. n-1
    <2>1. /\ X \in SUBSET (0 .. n-1)
          /\ attacked = X \cup {a \in 0 .. n-1 : \E b \in X : a \in af[b]}
          /\ \A a \in 0 .. n-1 : a \in X <=> \A b \in X : a \notin af[b]
        BY <1>1, <1>4 DEF CallAt, Good
    <2> QED
        BY <2>1
<1> QED
    BY <1>2, <1>3, <1>4 DEF n, cf

(* The tests for a child are those of the module IndependentSets.            *)
LEMMA MisTests ==
    /\ \A cf, X, m : Mis!Child(cf, X, m) = Child(cf, X, m)
    /\ \A cf, X, m : Mis!IsCanonical(cf, X, m) <=> IsCanonical(cf, X, m)
BY DEF Mis!Child, Mis!Absent, Mis!MaximalBelow, Mis!CanonicalParent, Mis!Deviations,
       Mis!IsCanonical, Child, Absent, MaximalBelow, CanonicalParent, Deviations,
       IsCanonical

(* A set sought that comes from the running call stays within reach.         *)
LEMMA SoughtStep ==
    ASSUME NEW n, Conflicts(Mis!conflicts, n), NEW m \in 0 .. n-1,
           NEW X, Good(Mis!conflicts, X, m), NEW T, Good(Mis!conflicts, T, n),
           Comes(Mis!conflicts, n, T, X, m),
           \A a, b \in 0 .. n-1 :
                a < b /\ a \in Mis!conflicts[a] => b \in Mis!conflicts[b]
    PROVE  /\ Joins(Mis!conflicts, X, m) => Comes(Mis!conflicts, n, T, X \cup {m}, m+1)
           /\ ~Joins(Mis!conflicts, X, m) =>
                \/ Comes(Mis!conflicts, n, T, X, m+1)
                \/ /\ Mis!IsCanonical(Mis!conflicts, X, m)
                   /\ Comes(Mis!conflicts, n, T, Mis!Child(Mis!conflicts, X, m), m+1)
<1> DEFINE cf == Mis!conflicts
           Z == Ancestor(cf, n, T, m+1)
<1>1. m+1 \in 0 .. n /\ T \in SUBSET (0 .. n-1) /\ n \in Nat
    BY DEF Good, Conflicts
<1>2. Good(cf, Z, m+1) /\ ParentSet(cf, n, Z, m) = X
    <2>1. Good(cf, Z, m+1)
        BY <1>1, AncestorGood
    <2>2. Ancestor(cf, n, T, m) = ParentSet(cf, n, Z, m)
        BY <1>1, AncestorSteps
    <2> QED
        BY <2>1, <2>2 DEF Comes
<1>3. \A a \in 0 .. m-1 : a \in cf[a] => m \in cf[m]
    BY <1>1
<1> HIDE DEF Z
<1>4. /\ Joins(cf, X, m) => Z = X \cup {m}
      /\ ~Joins(cf, X, m) => Z = X \/ (Z = Mis!Child(Mis!conflicts, X, m) /\ Mis!IsCanonical(Mis!conflicts, X, m))
    BY <1>2, <1>3, OnlyChildren, MisTests
<1> QED
    BY <1>4 DEF Comes, Z

-------------------------------------------------------------------------------
(* What dc() leaves of the framework.                                        *)
LEMMA MisProjection ==
    ASSUME base \in Framework, MisSetup
    PROVE  /\ Mis!Remaining \in SUBSET Arg
           /\ Mis!Size \in Nat
           /\ parent_mapping \in [0 .. Mis!Size-1 -> Mis!Remaining]
           /\ \A a, b \in 0 .. Mis!Size-1 : parent_mapping[a] = parent_mapping[b] => a = b
           /\ \A x \in Mis!Remaining : \E a \in 0 .. Mis!Size-1 : parent_mapping[a] = x
           /\ Mis!Size = Cardinality(Mis!Remaining)
           /\ af \in [0 .. Mis!Size-1 -> SUBSET (0 .. Mis!Size-1)]
           /\ \A a, b \in 0 .. Mis!Size-1 : b \in af[a] <=>
                \/ parent_mapping[b] \in base[parent_mapping[a]]
                \/ /\ b = a /\ prob = "DC" /\ ~Mis!Refused
                   /\ argument \in base[parent_mapping[a]]
<1> DEFINE rest == Mis!Remaining
           n == Cardinality(rest)
<1>1. rest \in SUBSET Arg /\ rest \in SUBSET Nat /\ IsFiniteSet(rest)
    <2>1. rest \in SUBSET Arg
        BY DEF Mis!Remaining, Mis!Arg, Arg
    <2>2. IsFiniteSet(rest)
        BY <2>1, ArgFinite, FS_Subset
    <2> QED
        BY <2>1, <2>2, NAssumption DEF Arg
<1>2. parent_mapping = ParentMapping(rest)
    <2>1. parent_mapping = Mis!ParentMapping(rest)
        BY DEF MisSetup
    <2> HIDE DEF rest
    <2> QED
        BY <2>1 DEF Mis!ParentMapping, ParentMapping, Mis!Cardinality, Cardinality
<1> HIDE DEF rest
<1>3. /\ n \in Nat
      /\ parent_mapping \in [0 .. n-1 -> rest]
      /\ \A a, b \in 0 .. n-1 : parent_mapping[a] = parent_mapping[b] => a = b
      /\ \A x \in rest : \E a \in 0 .. n-1 : parent_mapping[a] = x
    BY <1>1, <1>2, ParentMappingRight
<1> HIDE DEF n
<1> DEFINE att == Mis!Renamed(base, parent_mapping)
<1>4. att = [a \in 0 .. n-1 |-> {b \in 0 .. n-1 :
                                    parent_mapping[b] \in base[parent_mapping[a]]}]
    BY <1>3 DEF Mis!Renamed
<1> HIDE DEF att
<1>5. af = [a \in 0 .. n-1 |->
        IF prob = "DC" /\ ~Mis!Refused /\ argument \in base[parent_mapping[a]]
        THEN att[a] \cup {a} ELSE att[a]]
    BY <1>4 DEF MisSetup, Mis!WithLoops, Mis!ArgAttacksArg, att
<1>6. DOMAIN af = 0 .. n-1
    BY <1>5
<1>7. Mis!Size = n
    <2>1. Cardinality(0 .. n-1) = IF 0 > n-1 THEN 0 ELSE n-1-0+1
        BY <1>3, FS_Interval
    <2>2. Cardinality(0 .. n-1) = n
        BY <1>3, <2>1
    <2> QED
        BY <1>6, <2>2 DEF Mis!Size, Mis!Cardinality, Cardinality
<1>8. \A a, b \in 0 .. n-1 : b \in af[a] <=>
                \/ parent_mapping[b] \in base[parent_mapping[a]]
                \/ /\ b = a /\ prob = "DC" /\ ~Mis!Refused
                   /\ argument \in base[parent_mapping[a]]
    BY <1>4, <1>5
<1>9. af \in [0 .. n-1 -> SUBSET (0 .. n-1)]
    BY <1>4, <1>5
<1>10. Mis!Size = Cardinality(rest)
    BY <1>7 DEF n
<1> QED
    BY <1>1, <1>3, <1>7, <1>8, <1>9, <1>10 DEF rest

LEMMA MisInitInv ==
    ASSUME base \in Framework, Mis!Init
    PROVE  MisInv
<1>1. MisSetup
    BY DEF Mis!Init, MisSetup, Mis!Arg, Arg
<1>2. /\ Mis!Size \in Nat
      /\ af \in [0 .. Mis!Size-1 -> SUBSET (0 .. Mis!Size-1)]
    BY <1>1, MisProjection
<1>3. /\ i = 0 /\ s = {} /\ conflicting = {} /\ dominated = {}
      /\ pending = <<>> /\ extensions = <<>> /\ extension = {}
      /\ pc = IF prob = "DC" THEN "ask" ELSE "grow"
    BY DEF Mis!Init
<1>4. /\ pending \in Seq(Calls(Mis!Size)) /\ DOMAIN pending = {}
      /\ extensions \in Seq(SUBSET (0 .. Mis!Size-1)) /\ DOMAIN extensions = {}
      /\ Members(extensions) = {}
    BY <1>3 DEF Members
<1>5. CallAt(af, Mis!conflicts, Mis!Size, s, i, dominated, conflicting)
    <2>1. Good(Mis!conflicts, {}, 0)
        BY DEF Good
    <2>2. 0 \in 0 .. Mis!Size
        BY <1>2
    <2>3. \A a : a \notin Mis!conflicts[a] => Joins(Mis!conflicts, {}, a)
        BY DEF Joins
    <2> QED
        BY <1>3, <2>1, <2>2, <2>3 DEF CallAt
<1>6. pc = "grow" => ~Mis!Refused
    BY <1>3 DEF Mis!Refused
<1>7. MisState
    BY <1>2, <1>3, <1>4, <1>5, <1>6 DEF MisState
<1>8. MisOnce
    BY <1>4 DEF MisOnce, ReachedOnce
<1>9. MisFound
    BY <1>4 DEF MisFound
<1>10. MisSought
    <2>1. Conflicts(Mis!conflicts, Mis!Size)
        BY <1>7, MisGraph
    <2>2. ASSUME NEW T \in StableExtensions(af)
          PROVE  Comes(Mis!conflicts, Mis!Size, T, {}, 0)
        <3>1. Good(Mis!conflicts, T, Mis!Size)
            BY <1>7, <2>2, StableGood
        <3> QED
            BY <2>1, <3>1, AncestorGood DEF Comes
    <2>3. MisLive /\ pc # "done"
        BY <1>3 DEF MisLive
    <2> QED
        BY <1>3, <2>2, <2>3 DEF MisSought, Reached
<1>11. MisAnswer
    BY <1>3 DEF MisAnswer
<1> QED
    BY <1>1, <1>7, <1>8, <1>9, <1>10, <1>11 DEF MisInv

LEMMA MisSame ==
    ASSUME UNCHANGED Mis!problemVars
    PROVE  /\ Mis!Size' = Mis!Size /\ Mis!conflicts' = Mis!conflicts
           /\ Mis!LoopsLast' <=> Mis!LoopsLast
           /\ Mis!Refused' <=> Mis!Refused
           /\ MisSetup' <=> MisSetup
           /\ UNCHANGED <<prob, base, argument, parent_mapping, af>>
<1>1. UNCHANGED <<prob, base, argument, parent_mapping, af>>
    BY DEF Mis!problemVars
<1>2. Mis!Size' = Mis!Size /\ Mis!conflicts' = Mis!conflicts
    BY <1>1 DEF Mis!Size, Mis!conflicts
<1>3. /\ Mis!LoopsLast' <=> Mis!LoopsLast
      /\ Mis!Refused' <=> Mis!Refused
    BY <1>1 DEF Mis!LoopsLast, Mis!SelfAttackersLast, Mis!Refused
<1>4. MisSetup' <=> MisSetup
    BY <1>1 DEF MisSetup, Mis!WithLoops, Mis!Remaining, Mis!Refused, Mis!ArgAttacksArg
<1> QED
    BY <1>1, <1>2, <1>3, <1>4

-------------------------------------------------------------------------------
(* One lemma per action.                                                     *)

LEMMA MisRefuseInv ==
    ASSUME MisInv, Mis!Refuse
    PROVE  MisInv'
<1>1. /\ pc = "ask" /\ pc' = "done" /\ Mis!Refused
      /\ UNCHANGED Mis!problemVars
      /\ UNCHANGED <<i, s, conflicting, dominated, pending, extensions, extension>>
    BY DEF Mis!Refuse, Mis!callVars
<1>2. MisSetup' /\ MisState'
    BY <1>1, MisSame DEF MisInv, MisState, MisLive
<1>3. MisOnce'
    <2>1. ~MisLive'
        BY <1>1 DEF MisLive
    <2> QED
        BY <1>1, <2>1, MisSame DEF MisInv, MisOnce, ReachedOnce
<1>4. MisFound' /\ MisSought'
    BY <1>1, MisSame DEF MisInv, MisFound, MisSought
<1>5. MisAnswer'
    BY <1>1, MisSame DEF MisInv, MisAnswer
<1> QED
    BY <1>2, <1>3, <1>4, <1>5 DEF MisInv

LEMMA MisCallInv ==
    ASSUME MisInv, Mis!Call
    PROVE  MisInv'
<1>1. /\ pc = "ask" /\ pc' = "grow" /\ ~Mis!Refused
      /\ UNCHANGED Mis!problemVars
      /\ UNCHANGED <<i, s, conflicting, dominated, pending, extensions, extension>>
    BY DEF Mis!Call, Mis!callVars
<1>2. MisLive /\ MisLive'
    BY <1>1 DEF MisLive
<1>3. MisSetup' /\ MisState'
    BY <1>1, <1>2, MisSame DEF MisInv, MisState
<1>4. MisOnce' /\ MisFound' /\ MisSought'
    BY <1>1, <1>2, MisSame DEF MisInv, MisOnce, MisFound, MisSought
<1>5. MisAnswer'
    BY <1>1, MisSame DEF MisInv, MisAnswer
<1> QED
    BY <1>3, <1>4, <1>5 DEF MisInv

(* What the actions that grow the set start from.                            *)
LEMMA MisGrowing ==
    ASSUME MisInv, pc = "grow"
    PROVE  /\ MisLive /\ ~Mis!Refused /\ extension = {}
           /\ Conflicts(Mis!conflicts, Mis!Size)
           /\ CallAt(af, Mis!conflicts, Mis!Size, s, i, dominated, conflicting)
           /\ Good(Mis!conflicts, s, i) /\ i \in 0 .. Mis!Size
           /\ s \in SUBSET (0 .. Mis!Size-1)
           /\ ReachedOnce(Mis!conflicts, Mis!Size, TRUE, s, i, pending, extensions)
           /\ Mis!LoopsLast =>
                Reached(Mis!conflicts, Mis!Size, TRUE, s, i, pending, extensions,
                        StableExtensions(af))
<1>1. MisLive /\ MisLive = TRUE
    BY DEF MisLive
<1>2. /\ ~Mis!Refused /\ extension = {} /\ Mis!Size \in Nat
      /\ CallAt(af, Mis!conflicts, Mis!Size, s, i, dominated, conflicting)
    BY <1>1 DEF MisInv, MisState, MisAnswer
<1>3. Conflicts(Mis!conflicts, Mis!Size)
    BY MisGraph DEF MisInv
<1>4. Good(Mis!conflicts, s, i) /\ i \in 0 .. Mis!Size
    BY <1>2 DEF CallAt
<1>5. s \in SUBSET (0 .. Mis!Size-1)
    BY <1>2, <1>4 DEF Good
<1>6. ReachedOnce(Mis!conflicts, Mis!Size, TRUE, s, i, pending, extensions)
    BY <1>1 DEF MisInv, MisOnce
<1>7. Mis!LoopsLast => Reached(Mis!conflicts, Mis!Size, TRUE, s, i, pending, extensions,
                               StableExtensions(af))
    BY <1>1, <1>2 DEF MisInv, MisSought
<1> QED
    BY <1>1, <1>2, <1>3, <1>4, <1>5, <1>6, <1>7

LEMMA MisAddInv ==
    ASSUME MisInv, Mis!Add
    PROVE  MisInv'
<1> DEFINE n == Mis!Size
           cf == Mis!conflicts
<1>1. /\ pc = "grow" /\ pc' = "grow" /\ i < n /\ i \notin conflicting /\ i \notin cf[i]
      /\ s' = s \cup {i} /\ i' = i + 1
      /\ conflicting' = conflicting \cup cf[i]
      /\ dominated' = dominated \cup {i} \cup af[i]
      /\ UNCHANGED Mis!problemVars
      /\ UNCHANGED <<pending, extensions, extension>>
    BY DEF Mis!Add, Mis!Growing
<1>2. /\ MisLive /\ ~Mis!Refused /\ Conflicts(cf, n)
      /\ CallAt(af, cf, n, s, i, dominated, conflicting)
      /\ Good(cf, s, i) /\ i \in 0 .. n
      /\ ReachedOnce(cf, n, TRUE, s, i, pending, extensions)
      /\ Mis!LoopsLast => Reached(cf, n, TRUE, s, i, pending, extensions,
                                  StableExtensions(af))
    BY <1>1, MisGrowing
<1>3. MisLive' /\ MisLive' = TRUE
    BY <1>1 DEF MisLive
<1>4. n \in Nat /\ i \in 0 .. n-1 /\ i+1 \in 0 .. n
      /\ \A a \in 0 .. n-1 : af[a] \in SUBSET (0 .. n-1)
    BY <1>1, <1>2 DEF MisInv, MisState
<1>5. Joins(cf, s, i)
    BY <1>1, <1>2, <1>4 DEF CallAt
<1>6. Good(cf, s', i') /\ ParentSet(cf, n, s', i) = s
    BY <1>1, <1>2, <1>4, <1>5, AddedGood
<1>7. CallAt(af, cf, n, s', i', dominated', conflicting')
    <2>1. dominated' = s' \cup {a \in 0 .. n-1 : \E b \in s' : a \in af[b]}
        BY <1>1, <1>2, <1>4 DEF CallAt
    <2>2. ASSUME NEW a \in 0 .. n-1, a \notin cf[a]
          PROVE  a \in conflicting' <=> ~Joins(cf, s', a)
        <3>1. a \in conflicting <=> ~Joins(cf, s, a)
            BY <1>2, <2>2 DEF CallAt
        <3>2. ~Joins(cf, s', a) <=> (~Joins(cf, s, a) \/ a \in cf[i])
            BY <1>1, <2>2 DEF Joins
        <3> QED
            BY <1>1, <3>1, <3>2
    <2> QED
        BY <1>1, <1>4, <1>6, <2>1, <2>2 DEF CallAt
<1>8. MisSetup' /\ MisState'
    <2>1. MisSetup'
        BY <1>1, MisSame DEF MisInv
    <2>2. CallAt(af', cf', n', s', i', dominated', conflicting')
        BY <1>1, <1>7, MisSame
    <2> QED
        BY <1>1, <1>2, <2>1, <2>2, MisSame DEF MisInv, MisState
<1>9. MisOnce'
    <2>1. ReachedOnce(cf, n, TRUE, s', i', pending, extensions)
        BY <1>1, <1>2, <1>4, <1>6, OnceAdvance
    <2> QED
        BY <1>1, <1>3, <2>1, MisSame DEF MisOnce
<1>10. MisFound' /\ MisAnswer'
    BY <1>1, MisSame DEF MisInv, MisFound, MisAnswer
<1>11. MisSought'
    <2>1. SUFFICES ASSUME Mis!LoopsLast
                   PROVE  Reached(cf, n, TRUE, s', i', pending, extensions,
                                  StableExtensions(af))
        BY <1>1, <1>3, MisSame DEF MisSought
    <2>2. ASSUME NEW T \in StableExtensions(af), Comes(cf, n, T, s, i)
          PROVE  Comes(cf, n, T, s', i')
        <3>1. Good(cf, T, n)
            BY <2>2, StableGood DEF MisInv
        <3>2. \A a, b \in 0 .. n-1 : a < b /\ a \in cf[a] => b \in cf[b]
            BY <2>1, MisGraph DEF MisInv
        <3> QED
            BY <1>1, <1>2, <1>4, <1>5, <2>2, <3>1, <3>2, SoughtStep
    <2> QED
        BY <1>2, <2>1, <2>2 DEF Reached
<1> QED
    BY <1>8, <1>9, <1>10, <1>11 DEF MisInv

(* The argument does not join, and there is no other set to put off.         *)
PassedOver ==
    /\ pc = "grow" /\ pc' = "grow" /\ i < Mis!Size /\ i' = i + 1
    /\ ~Joins(Mis!conflicts, s, i)
    /\ UNCHANGED Mis!problemVars
    /\ UNCHANGED <<s, conflicting, dominated, extensions, extension>>

LEMMA PassedOverInv ==
    ASSUME MisInv, PassedOver,
           pending' = IF Mis!IsCanonical(Mis!conflicts, s, i)
                      THEN <<[i |-> i + 1, s |-> Mis!Child(Mis!conflicts, s, i)]>> \o pending
                      ELSE pending
    PROVE  MisInv'
<1> DEFINE n == Mis!Size
           cf == Mis!conflicts
           child == Mis!Child(Mis!conflicts, s, i)
           put == [i |-> i + 1, s |-> child]
<1>1. /\ pc = "grow" /\ pc' = "grow" /\ i < n /\ i' = i + 1 /\ ~Joins(cf, s, i)
      /\ UNCHANGED Mis!problemVars
      /\ UNCHANGED <<s, conflicting, dominated, extensions, extension>>
      /\ pending' = IF Mis!IsCanonical(Mis!conflicts, s, i) THEN <<put>> \o pending ELSE pending
    BY DEF PassedOver
<1>2. /\ MisLive /\ ~Mis!Refused /\ Conflicts(cf, n)
      /\ CallAt(af, cf, n, s, i, dominated, conflicting)
      /\ Good(cf, s, i) /\ i \in 0 .. n /\ s \in SUBSET (0 .. n-1)
      /\ ReachedOnce(cf, n, TRUE, s, i, pending, extensions)
      /\ Mis!LoopsLast => Reached(cf, n, TRUE, s, i, pending, extensions,
                                  StableExtensions(af))
    BY <1>1, MisGrowing
<1>3. MisLive' /\ MisLive' = TRUE
    BY <1>1 DEF MisLive
<1>4. /\ n \in Nat /\ i \in 0 .. n-1 /\ i+1 \in 0 .. n
      /\ pending \in Seq(Calls(n))
      /\ \A m \in DOMAIN pending : Good(cf, pending[m].s, pending[m].i)
    BY <1>1, <1>2 DEF MisInv, MisState
<1>5. Good(cf, s, i+1) /\ ParentSet(cf, n, s, i) = s
    BY <1>1, <1>2, <1>4, PassedGood
<1>6. ASSUME Mis!IsCanonical(Mis!conflicts, s, i)
      PROVE  /\ Good(cf, child, i+1) /\ child \in SUBSET (0 .. n-1)
             /\ ParentSet(cf, n, child, i) = s /\ s # child
             /\ put \in Calls(n) /\ put.i = i+1 /\ put.s = child
             /\ pending' = <<put>> \o pending
    <2>1. /\ Good(cf, child, i+1) /\ ParentSet(cf, n, child, i) = s
          /\ i \in child /\ i \notin s
        BY <1>2, <1>4, <1>6, CanonicalChild, MisTests
    <2>2. child \in SUBSET (0 .. n-1)
        BY <1>4, <2>1 DEF Good
    <2> HIDE DEF child
    <2> QED
        BY <1>1, <1>4, <1>6, <2>1, <2>2 DEF Calls
<1> HIDE DEF child, put
<1>7. CallAt(af, cf, n, s, i+1, dominated, conflicting)
    BY <1>2, <1>4, <1>5 DEF CallAt
<1>8. /\ pending' \in Seq(Calls(n))
      /\ \A m \in DOMAIN pending' : Good(cf, pending'[m].s, pending'[m].i)
    <2>1. CASE Mis!IsCanonical(Mis!conflicts, s, i)
        <3> DEFINE new == <<put>> \o pending
        <3>1. /\ new \in Seq(Calls(n)) /\ new[1] = put
              /\ \A m \in DOMAIN new : m # 1 => m-1 \in DOMAIN pending /\ new[m] = pending[m-1]
            BY <1>4, <1>6, <2>1, Stacked
        <3> HIDE DEF new
        <3>2. \A m \in DOMAIN new : Good(cf, new[m].s, new[m].i)
            BY <1>4, <1>6, <2>1, <3>1
        <3>3. pending' = new
            BY <1>6, <2>1 DEF new
        <3> QED
            BY <3>1, <3>2, <3>3
    <2>2. CASE ~Mis!IsCanonical(Mis!conflicts, s, i)
        BY <1>1, <1>4, <2>2
    <2> QED
        BY <2>1, <2>2
<1>9. MisSetup' /\ MisState'
    <2>1. MisSetup'
        BY <1>1, MisSame DEF MisInv
    <2>2. CallAt(af', cf', n', s', i', dominated', conflicting')
        BY <1>1, <1>7, MisSame
    <2> QED
        BY <1>1, <1>2, <1>8, <2>1, <2>2, MisSame DEF MisInv, MisState
<1>10. MisOnce'
    <2>1. ReachedOnce(cf, n, TRUE, s, i+1, pending', extensions)
        <3>1. CASE Mis!IsCanonical(Mis!conflicts, s, i)
            <4>1. ReachedOnce(cf, n, TRUE, s, i+1, <<[i |-> i+1, s |-> child]>> \o pending,
                              extensions)
                BY <1>2, <1>4, <1>5, <1>6, <3>1, OnceBranch
            <4> QED
                BY <1>6, <3>1, <4>1 DEF put
        <3>2. CASE ~Mis!IsCanonical(Mis!conflicts, s, i)
            BY <1>1, <1>2, <1>4, <1>5, <3>2, OnceAdvance
        <3> QED
            BY <3>1, <3>2
    <2> QED
        BY <1>1, <1>3, <2>1, MisSame DEF MisOnce
<1>11. MisFound' /\ MisAnswer'
    BY <1>1, MisSame DEF MisInv, MisFound, MisAnswer
<1>12. MisSought'
    <2>1. SUFFICES ASSUME Mis!LoopsLast
                   PROVE  Reached(cf, n, TRUE, s, i+1, pending', extensions,
                                  StableExtensions(af))
        BY <1>1, <1>3, MisSame DEF MisSought
    <2>2. ASSUME NEW T \in StableExtensions(af), Comes(cf, n, T, s, i)
          PROVE  \/ Comes(cf, n, T, s, i+1)
                 \/ Mis!IsCanonical(Mis!conflicts, s, i) /\ ComesFrom(cf, n, T, put)
        <3>1. Good(cf, T, n)
            BY <2>2, StableGood DEF MisInv
        <3>2. \A a, b \in 0 .. n-1 : a < b /\ a \in cf[a] => b \in cf[b]
            BY <2>1, MisGraph DEF MisInv
        <3>3. \/ Comes(cf, n, T, s, i+1)
              \/ Mis!IsCanonical(Mis!conflicts, s, i) /\ Comes(cf, n, T, child, i+1)
            BY <1>1, <1>2, <1>4, <2>2, <3>1, <3>2, SoughtStep DEF child
        <3> QED
            BY <1>6, <3>3 DEF ComesFrom
    <2>3. /\ \A m \in DOMAIN pending : \E l \in DOMAIN pending' : pending'[l] = pending[m]
          /\ Mis!IsCanonical(Mis!conflicts, s, i) => \E l \in DOMAIN pending' : pending'[l] = put
        <3>1. CASE Mis!IsCanonical(Mis!conflicts, s, i)
            <4> DEFINE new == <<put>> \o pending
            <4>1. 1 \in DOMAIN new /\ new[1] = put
                BY <1>4, <1>6, <3>1
            <4>2. \A m \in DOMAIN pending : m+1 \in DOMAIN new /\ new[m+1] = pending[m]
                BY <1>4, <1>6, <3>1
            <4> HIDE DEF new
            <4>3. pending' = new
                BY <1>6, <3>1 DEF new
            <4> QED
                BY <4>1, <4>2, <4>3
        <3>2. CASE ~Mis!IsCanonical(Mis!conflicts, s, i)
            BY <1>1, <3>2
        <3> QED
            BY <3>1, <3>2
    <2>4. ASSUME NEW T \in StableExtensions(af)
          PROVE  \/ T \in Members(extensions)
                 \/ Comes(cf, n, T, s, i+1)
                 \/ \E l \in DOMAIN pending' : ComesFrom(cf, n, T, pending'[l])
        <3>1. \/ T \in Members(extensions)
              \/ Comes(cf, n, T, s, i)
              \/ \E l \in DOMAIN pending : ComesFrom(cf, n, T, pending[l])
            BY <1>2, <2>1 DEF Reached
        <3> QED
            BY <2>2, <2>3, <3>1
    <2> QED
        BY <2>4 DEF Reached
<1> QED
    BY <1>9, <1>10, <1>11, <1>12 DEF MisInv

LEMMA MisPassInv ==
    ASSUME MisInv, Mis!PassSelfAttacker
    PROVE  MisInv'
<1>1. /\ pc = "grow" /\ pc' = "grow" /\ i < Mis!Size /\ i \in Mis!conflicts[i]
      /\ i' = i + 1
      /\ UNCHANGED Mis!problemVars
      /\ UNCHANGED <<s, conflicting, dominated, pending, extensions, extension>>
    BY DEF Mis!PassSelfAttacker, Mis!Growing
<1>2. ~Joins(Mis!conflicts, s, i) /\ ~Mis!IsCanonical(Mis!conflicts, s, i)
    BY <1>1 DEF Joins, Mis!IsCanonical
<1> QED
    BY <1>1, <1>2, PassedOverInv DEF PassedOver

LEMMA MisBranchInv ==
    ASSUME MisInv, Mis!Branch
    PROVE  MisInv'
<1>1. /\ pc = "grow" /\ pc' = "grow" /\ i < Mis!Size /\ i \in conflicting
      /\ i' = i + 1
      /\ UNCHANGED Mis!problemVars
      /\ UNCHANGED <<s, conflicting, dominated, extensions, extension>>
      /\ pending' = IF Mis!IsCanonical(Mis!conflicts, s, i)
                    THEN <<[i |-> i + 1, s |-> Mis!Child(Mis!conflicts, s, i)]>> \o pending
                    ELSE pending
    <2>1. /\ pc = "grow" /\ pc' = "grow" /\ i < Mis!Size /\ i \in conflicting
          /\ i' = i + 1
          /\ UNCHANGED Mis!problemVars
          /\ UNCHANGED <<s, conflicting, dominated, extensions, extension>>
        <3>1. Mis!Size \in Nat
            BY DEF MisInv, MisState
        <3> QED
            BY <3>1 DEF Mis!Branch, Mis!Grown
    <2>2. pending' = IF Mis!IsCanonical(Mis!conflicts, s, i)
                     THEN <<[i |-> i + 1, s |-> (s \ Mis!conflicts[i]) \cup {i}]>> \o pending
                     ELSE pending
        BY DEF Mis!Branch, Mis!Child
    <2>3. Mis!Child(Mis!conflicts, s, i) = (s \ Mis!conflicts[i]) \cup {i}
        BY DEF Mis!Child
    <2> QED
        BY <2>1, <2>2, <2>3
<1>2. ~Joins(Mis!conflicts, s, i)
    <2>1. /\ i \in 0 .. Mis!Size /\ Mis!Size \in Nat
          /\ \A a \in 0 .. Mis!Size-1 : a \notin Mis!conflicts[a] =>
                (a \in conflicting <=> ~Joins(Mis!conflicts, s, a))
        BY <1>1, MisGrowing DEF CallAt, Conflicts
    <2>2. i \in 0 .. Mis!Size-1
        BY <1>1, <2>1
    <2>3. i \in Mis!conflicts[i] => ~Joins(Mis!conflicts, s, i)
        BY DEF Joins
    <2> QED
        BY <1>1, <2>1, <2>2, <2>3
<1> QED
    BY <1>1, <1>2, PassedOverInv DEF PassedOver

LEMMA MisReturnOneInv ==
    ASSUME MisInv, Mis!ReturnOne
    PROVE  MisInv'
<1> DEFINE answer == Mis!MapIndices(s, parent_mapping)
                        \cup (IF prob = "DC" THEN {argument} ELSE {})
<1>1. /\ pc = "grow" /\ pc' = "done" /\ prob # "EE" /\ Mis!FullSet(dominated)
      /\ extension' = {answer}
      /\ UNCHANGED Mis!problemVars
      /\ UNCHANGED <<i, s, conflicting, dominated, pending, extensions>>
    BY DEF Mis!ReturnOne, Mis!Grown, Mis!callVars
<1>2. s \in StableExtensions(af) /\ ~Mis!Refused
    <2>1. dominated = 0 .. Mis!Size-1
        BY <1>1, MisGraph DEF MisInv
    <2> QED
        BY <1>1, <2>1, MisGrowing, StableGood DEF MisInv
<1>3. ~MisLive'
    BY <1>1 DEF MisLive
<1>4. MisSetup' /\ MisState'
    BY <1>1, <1>3, MisSame DEF MisInv, MisState
<1>5. MisOnce'
    BY <1>1, <1>3, MisSame DEF MisInv, MisOnce, ReachedOnce
<1>6. MisFound'
    BY <1>1, MisSame DEF MisInv, MisFound
<1> HIDE DEF answer
<1>7. MisSought'
    BY <1>1 DEF MisSought
<1>8. MisAnswer'
    <2>1. prob # "EE" => extensions = <<>>
        BY DEF MisInv, MisAnswer
    <2>2. \E T \in StableExtensions(af') :
             extension' = {Mis!MapIndices(T, parent_mapping')
                            \cup (IF prob' = "DC" THEN {argument'} ELSE {})}
        BY <1>1, <1>2, MisSame DEF answer
    <2> QED
        BY <1>1, <1>2, <2>1, <2>2, MisSame DEF MisAnswer
<1> QED
    BY <1>4, <1>5, <1>6, <1>7, <1>8 DEF MisInv

(* A list with one more element in front.                                    *)
LEMMA Headed ==
    ASSUME NEW E, NEW list \in Seq(E), NEW e \in E
    PROVE  /\ <<e>> \o list \in Seq(E)
           /\ Members(<<e>> \o list) = {e} \cup Members(list)
           /\ (\A m, l \in DOMAIN list : list[m] = list[l] => m = l) /\ e \notin Members(list)
                => \A m, l \in DOMAIN (<<e>> \o list) :
                        (<<e>> \o list)[m] = (<<e>> \o list)[l] => m = l
<1> DEFINE new == <<e>> \o list
<1>1. /\ new \in Seq(E) /\ 1 \in DOMAIN new /\ new[1] = e
      /\ \A m \in DOMAIN new : m \in Nat
      /\ \A m \in DOMAIN new : m # 1 => m-1 \in DOMAIN list /\ new[m] = list[m-1]
    BY Stacked
<1>2. \A m \in DOMAIN list : m+1 \in DOMAIN new /\ new[m+1] = list[m]
    OBVIOUS
<1> HIDE DEF new
<1>3. Members(new) = {e} \cup Members(list)
    BY <1>1, <1>2 DEF Members
<1>4. ASSUME \A m, l \in DOMAIN list : list[m] = list[l] => m = l, e \notin Members(list),
             NEW m \in DOMAIN new, NEW l \in DOMAIN new, new[m] = new[l]
      PROVE  m = l
    <2>1. CASE m = 1 \/ l = 1
        BY <1>1, <1>4, <2>1 DEF Members
    <2>2. CASE m # 1 /\ l # 1
        <3>1. m-1 = l-1
            BY <1>1, <1>4, <2>2
        <3> QED
            BY <1>1, <3>1
    <2> QED
        BY <2>1, <2>2
<1> QED
    BY <1>1, <1>3, <1>4 DEF new

LEMMA MisKeepInv ==
    ASSUME MisInv, Mis!Keep
    PROVE  MisInv'
<1> DEFINE n == Mis!Size
           cf == Mis!conflicts
           new == <<s>> \o extensions
<1>1. /\ pc = "grow" /\ pc' = "back" /\ prob = "EE" /\ i = n /\ Mis!FullSet(dominated)
      /\ extensions' = new
      /\ UNCHANGED Mis!problemVars
      /\ UNCHANGED <<i, s, conflicting, dominated, pending, extension>>
    BY DEF Mis!Keep, Mis!Grown, Mis!callVars
<1>2. /\ MisLive /\ ~Mis!Refused /\ Conflicts(cf, n)
      /\ CallAt(af, cf, n, s, i, dominated, conflicting)
      /\ s \in SUBSET (0 .. n-1)
      /\ ReachedOnce(cf, n, TRUE, s, i, pending, extensions)
      /\ Mis!LoopsLast => Reached(cf, n, TRUE, s, i, pending, extensions,
                                  StableExtensions(af))
    BY <1>1, MisGrowing
<1>3. s \in StableExtensions(af)
    <2>1. dominated = 0 .. n-1
        BY <1>1, MisGraph DEF MisInv
    <2> QED
        BY <1>2, <2>1, StableGood DEF MisInv
<1>4. ~MisLive' /\ MisLive' = FALSE
    BY <1>1 DEF MisLive
<1>5. /\ extensions \in Seq(SUBSET (0 .. n-1))
      /\ \A m, l \in DOMAIN extensions : extensions[m] = extensions[l] => m = l
      /\ \A S \in Members(extensions) : S \in StableExtensions(af)
    BY DEF MisInv, MisState, MisFound
<1>6. s \notin Members(extensions)
    BY <1>1, <1>2, OnceEnd
<1>7. /\ new \in Seq(SUBSET (0 .. n-1))
      /\ Members(new) = {s} \cup Members(extensions)
      /\ \A m, l \in DOMAIN new : new[m] = new[l] => m = l
    <2> DEFINE E == SUBSET (0 .. n-1)
    <2>1. s \in E /\ extensions \in Seq(E)
        BY <1>2, <1>5
    <2>2. \A m, l \in DOMAIN extensions : extensions[m] = extensions[l] => m = l
        BY <1>5
    <2> HIDE DEF E
    <2>3. /\ new \in Seq(E)
          /\ Members(new) = {s} \cup Members(extensions)
          /\ \A m, l \in DOMAIN new : new[m] = new[l] => m = l
        BY <2>1, <2>2, <1>6, Headed
    <2> QED
        BY <2>3 DEF E
<1> HIDE DEF new
<1>8. MisSetup' /\ MisState'
    BY <1>1, <1>2, <1>4, <1>7, MisSame DEF MisInv, MisState
<1>9. MisOnce'
    <2>1. ReachedOnce(cf, n, FALSE, s, i, pending, new)
        BY <1>1, <1>2, <1>7, OnceEnd
    <2> QED
        BY <1>1, <1>4, <2>1, MisSame DEF MisOnce
<1>10. MisFound'
    BY <1>1, <1>3, <1>5, <1>7, MisSame DEF MisFound
<1>11. MisSought'
    <2>1. SUFFICES ASSUME Mis!LoopsLast
                   PROVE  Reached(cf, n, FALSE, s, i, pending, new, StableExtensions(af))
        BY <1>1, <1>4, MisSame DEF MisSought
    <2>2. ASSUME NEW T \in StableExtensions(af), Comes(cf, n, T, s, i)
          PROVE  T = s
        <3>1. T \in SUBSET (0 .. n-1)
            BY <2>2, StableGood DEF MisInv
        <3> QED
            BY <1>1, <1>2, <2>2, <3>1, AncestorSteps DEF Comes
    <2> QED
        BY <1>2, <1>7, <2>1, <2>2 DEF Reached
<1>12. MisAnswer'
    BY <1>1, MisSame DEF MisInv, MisAnswer
<1> QED
    BY <1>8, <1>9, <1>10, <1>11, <1>12 DEF MisInv

LEMMA MisDiscardInv ==
    ASSUME MisInv, Mis!Discard
    PROVE  MisInv'
<1> DEFINE n == Mis!Size
           cf == Mis!conflicts
<1>1. /\ pc = "grow" /\ pc' = "back" /\ i = n /\ ~Mis!FullSet(dominated)
      /\ UNCHANGED Mis!problemVars
      /\ UNCHANGED <<i, s, conflicting, dominated, pending, extensions, extension>>
    BY DEF Mis!Discard, Mis!Grown, Mis!callVars
<1>2. /\ MisLive /\ ~Mis!Refused /\ Conflicts(cf, n)
      /\ CallAt(af, cf, n, s, i, dominated, conflicting)
      /\ s \in SUBSET (0 .. n-1)
      /\ ReachedOnce(cf, n, TRUE, s, i, pending, extensions)
      /\ Mis!LoopsLast => Reached(cf, n, TRUE, s, i, pending, extensions,
                                  StableExtensions(af))
    BY <1>1, MisGrowing
<1>3. s \notin StableExtensions(af)
    <2>1. dominated # 0 .. n-1
        BY <1>1, MisGraph DEF MisInv
    <2> QED
        BY <1>1, <1>2, <2>1, StableGood DEF MisInv
<1>4. ~MisLive' /\ MisLive' = FALSE
    BY <1>1 DEF MisLive
<1>5. MisSetup' /\ MisState'
    BY <1>1, <1>2, <1>4, MisSame DEF MisInv, MisState
<1>6. MisOnce'
    <2>1. ReachedOnce(cf, n, FALSE, s, i, pending, extensions)
        BY <1>1, <1>2, OnceEnd
    <2> QED
        BY <1>1, <1>4, <2>1, MisSame DEF MisOnce
<1>7. MisFound' /\ MisAnswer'
    BY <1>1, MisSame DEF MisInv, MisFound, MisAnswer
<1>8. MisSought'
    <2>1. SUFFICES ASSUME Mis!LoopsLast
                   PROVE  Reached(cf, n, FALSE, s, i, pending, extensions,
                                  StableExtensions(af))
        BY <1>1, <1>4, MisSame DEF MisSought
    <2>2. ASSUME NEW T \in StableExtensions(af)
          PROVE  ~Comes(cf, n, T, s, i)
        <3>1. T \in SUBSET (0 .. n-1)
            BY <2>2, StableGood DEF MisInv
        <3> QED
            BY <1>1, <1>2, <1>3, <2>2, <3>1, AncestorSteps DEF Comes
    <2> QED
        BY <1>2, <2>1, <2>2 DEF Reached
<1> QED
    BY <1>5, <1>6, <1>7, <1>8 DEF MisInv

LEMMA MisSecondCallInv ==
    ASSUME MisInv, Mis!SecondCall
    PROVE  MisInv'
<1> DEFINE n == Mis!Size
           cf == Mis!conflicts
           top == Head(pending)
           rest == Tail(pending)
<1>1. /\ pc = "back" /\ pc' = "grow" /\ pending # <<>>
      /\ i' = top.i /\ s' = top.s /\ pending' = rest
      /\ dominated' = s' \cup Mis!Victims(af, s')
      /\ conflicting' = Mis!TrueAttackers(af, s') \cup Mis!Victims(af, s')
      /\ UNCHANGED Mis!problemVars
      /\ UNCHANGED <<extensions, extension>>
    BY DEF Mis!SecondCall
<1>2. /\ Conflicts(cf, n) /\ n \in Nat /\ ~Mis!Refused
      /\ pending \in Seq(Calls(n))
      /\ \A m \in DOMAIN pending : Good(cf, pending[m].s, pending[m].i)
    BY <1>1, MisGraph DEF MisInv, MisState
<1>3. ~MisLive /\ MisLive = FALSE /\ MisLive' /\ MisLive' = TRUE
    BY <1>1 DEF MisLive
<1>4. /\ top = pending[1] /\ 1 \in DOMAIN pending /\ top \in Calls(n)
      /\ rest \in Seq(Calls(n))
      /\ \A m \in DOMAIN rest : m+1 \in DOMAIN pending /\ rest[m] = pending[m+1]
      /\ \A m \in DOMAIN pending : m # 1 => m-1 \in DOMAIN rest /\ rest[m-1] = pending[m]
    <2>1. top = pending[1]
        BY <1>1, <1>2
    <2>2. /\ 1 \in DOMAIN pending /\ pending[1] \in Calls(n) /\ rest \in Seq(Calls(n))
          /\ \A m \in DOMAIN rest : m+1 \in DOMAIN pending /\ rest[m] = pending[m+1]
        BY <1>1, <1>2, Unstacked
    <2>3. \A m \in DOMAIN pending : m # 1 => m-1 \in DOMAIN rest /\ rest[m-1] = pending[m]
        BY <1>1, <1>2
    <2> QED
        BY <2>1, <2>2, <2>3
<1> HIDE DEF top, rest
<1>5. Good(cf, s', i') /\ i' \in 0 .. n /\ s' \in SUBSET (0 .. n-1)
    BY <1>1, <1>2, <1>4 DEF Calls
<1>6. CallAt(af, cf, n, s', i', dominated', conflicting')
    <2> DEFINE X == s'
    <2>1. /\ dominated' = X \cup {a \in 0 .. n-1 : \E b \in X : a \in af[b]}
          /\ conflicting' = {a \in 0 .. n-1 : \E b \in X : b \in af[a]}
                              \cup {a \in 0 .. n-1 : \E b \in X : a \in af[b]}
        BY <1>1, MisGraph DEF MisInv
    <2>2. \A a, b \in 0 .. n-1 : b \in cf[a] <=>
                \/ a \in af[a] \/ b \in af[b] \/ b \in af[a] \/ a \in af[b]
        BY MisGraph DEF MisInv
    <2>3. X \in SUBSET (0 .. n-1) /\ \A b \in X : b \notin cf[b]
        BY <1>5 DEF Good
    <2> HIDE DEF X
    <2>4. ASSUME NEW a \in 0 .. n-1, a \notin cf[a]
          PROVE  a \in conflicting' <=> ~Joins(cf, X, a)
        <3>1. \A b \in X : a \in cf[b] <=> b \in af[a] \/ a \in af[b]
            BY <2>2, <2>3, <2>4
        <3> QED
            BY <2>1, <2>4, <3>1 DEF Joins
    <2> QED
        BY <1>5, <2>1, <2>4 DEF CallAt, X
<1>7. \A m \in DOMAIN rest : Good(cf, rest[m].s, rest[m].i)
    BY <1>2, <1>4
<1>8. MisSetup' /\ MisState'
    <2>1. MisSetup'
        BY <1>1, MisSame DEF MisInv
    <2>2. CallAt(af', cf', n', s', i', dominated', conflicting')
        BY <1>1, <1>6, MisSame
    <2> QED
        BY <1>1, <1>2, <1>4, <1>7, <2>1, <2>2, MisSame DEF MisInv, MisState
<1>9. MisOnce'
    <2>1. ReachedOnce(cf, n, FALSE, s, i, pending, extensions)
        BY <1>3 DEF MisInv, MisOnce
    <2>2. ReachedOnce(cf, n, TRUE, s', i', rest, extensions)
        BY <1>1, <1>2, <2>1, OnceCalled DEF top, rest
    <2> QED
        BY <1>1, <1>3, <2>2, MisSame DEF MisOnce
<1>10. MisFound' /\ MisAnswer'
    BY <1>1, MisSame DEF MisInv, MisFound, MisAnswer
<1>11. MisSought'
    <2>1. SUFFICES ASSUME Mis!LoopsLast, extension = {}
                   PROVE  Reached(cf, n, TRUE, s', i', rest, extensions,
                                  StableExtensions(af))
        BY <1>1, <1>3, MisSame DEF MisSought
    <2>2. ASSUME NEW T \in StableExtensions(af), NEW m \in DOMAIN pending,
                 ComesFrom(cf, n, T, pending[m])
          PROVE  \/ Comes(cf, n, T, s', i')
                 \/ \E l \in DOMAIN rest : ComesFrom(cf, n, T, rest[l])
        BY <1>1, <1>4, <2>2 DEF ComesFrom
    <2>3. Reached(cf, n, FALSE, s, i, pending, extensions, StableExtensions(af))
        BY <1>2, <1>3, <2>1 DEF MisInv, MisSought
    <2> QED
        BY <2>2, <2>3 DEF Reached
<1> QED
    BY <1>8, <1>9, <1>10, <1>11 DEF MisInv

LEMMA MisNextInv ==
    ASSUME MisInv, Mis!Next
    PROVE  MisInv'
<1>1. CASE Mis!ReturnToRoot
    <2>1. /\ pc = "back" /\ pc' = "done" /\ pending = <<>>
          /\ UNCHANGED Mis!problemVars
          /\ UNCHANGED <<i, s, conflicting, dominated, pending, extensions, extension>>
        BY <1>1 DEF Mis!ReturnToRoot, Mis!callVars
    <2>2. ~MisLive /\ ~MisLive' /\ MisLive = MisLive'
        BY <2>1 DEF MisLive
    <2>3. MisSetup' /\ MisState'
        BY <2>1, <2>2, MisSame DEF MisInv, MisState
    <2>4. MisOnce' /\ MisFound' /\ MisAnswer' /\ MisSought'
        BY <2>1, <2>2, MisSame DEF MisInv, MisOnce, MisFound, MisAnswer, MisSought
    <2> QED
        BY <2>3, <2>4 DEF MisInv
<1>2. CASE Mis!Returned
    <2>1. /\ pc' = pc
          /\ UNCHANGED Mis!problemVars
          /\ UNCHANGED <<i, s, conflicting, dominated, pending, extensions, extension>>
        BY <1>2 DEF Mis!Returned, Mis!vars, Mis!callVars
    <2>2. MisLive = MisLive'
        BY <2>1 DEF MisLive
    <2>3. MisSetup' /\ MisState'
        BY <2>1, <2>2, MisSame DEF MisInv, MisState
    <2>4. MisOnce' /\ MisFound' /\ MisAnswer' /\ MisSought'
        BY <2>1, <2>2, MisSame DEF MisInv, MisOnce, MisFound, MisAnswer, MisSought
    <2> QED
        BY <2>3, <2>4 DEF MisInv
<1> QED
    BY <1>1, <1>2, MisRefuseInv, MisCallInv, MisAddInv, MisPassInv, MisReturnOneInv,
       MisKeepInv, MisDiscardInv, MisBranchInv, MisSecondCallInv DEF Mis!Next

(* A call that reaches the last argument has a maximal conflict-free set.    *)
LEMMA MisLeaf ==
    ASSUME MisInv
    PROVE  Mis!LeafMaximal
<1> SUFFICES ASSUME pc = "grow", i = Mis!Size
             PROVE  /\ Mis!ConflictFreeIn(af, s)
                    /\ \A a \in DOMAIN af \ s :
                          a \in af[a] \/ \E b \in s : a \in af[b] \/ b \in af[a]
    BY DEF Mis!LeafMaximal
<1> DEFINE D == 0 .. Mis!Size-1
           cf == Mis!conflicts
<1>1. /\ DOMAIN af = D
      /\ \A a, b \in D : b \in cf[a] <=>
            \/ a \in af[a] \/ b \in af[b] \/ b \in af[a] \/ a \in af[b]
    BY MisGraph DEF MisInv
<1>2. Good(cf, s, Mis!Size)
    BY MisGrowing
<1>3. /\ s \in SUBSET D
      /\ \A a, b \in s : b \notin cf[a]
      /\ \A a \in D : a \in s \/ ~Joins(cf, s, a)
    BY <1>2 DEF Good
<1> HIDE DEF D, cf
<1>4. Mis!ConflictFreeIn(af, s)
    BY <1>1, <1>3 DEF Mis!ConflictFreeIn
<1>5. ASSUME NEW a \in D \ s
      PROVE  a \in af[a] \/ \E b \in s : a \in af[b] \/ b \in af[a]
    <2>1. a \in cf[a] \/ \E b \in s : a \in cf[b]
        BY <1>3, <1>5 DEF Joins
    <2> QED
        BY <1>1, <1>3, <2>1
<1> QED
    BY <1>1, <1>4, <1>5

-------------------------------------------------------------------------------
(* The answers in terms of the framework that is solved.                     *)

(* EE-ST and SE-ST search the framework itself.                              *)
LEMMA MisWhole ==
    ASSUME base \in Framework, MisSetup, prob # "DC" \/ Mis!Refused
    PROVE  Mis!Size = N /\ parent_mapping = [a \in Arg |-> a] /\ af = base
<1>1. Mis!Remaining = Arg
    BY DEF Mis!Remaining, Mis!Arg, Arg
<1>2. ASSUME NEW x \in Arg
      PROVE  Cardinality({b \in Arg : b < x}) = x
    <2>1. x \in Nat /\ {b \in Arg : b < x} = 0 .. x-1
        BY <1>2, NAssumption DEF Arg
    <2>2. Cardinality(0 .. x-1) = IF 0 > x-1 THEN 0 ELSE x-1-0+1
        BY <2>1, FS_Interval
    <2>3. Cardinality(0 .. x-1) = x
        <3>1. CASE x = 0
            BY <2>2, <3>1
        <3>2. CASE x # 0
            BY <2>1, <2>2, <3>2
        <3> QED
            BY <3>1, <3>2
    <2> QED
        BY <2>1, <2>3
<1>3. Cardinality(Arg) = N /\ N \in Nat
    BY ArgSize, NAssumption
<1>4. parent_mapping = [x \in 0 .. N-1 |-> CHOOSE a \in Arg : Cardinality({b \in Arg : b < a}) = x]
    BY <1>1, <1>3 DEF MisSetup, Mis!ParentMapping, Mis!Cardinality, Cardinality
<1>5. ASSUME NEW x \in Arg
      PROVE  (CHOOSE a \in Arg : Cardinality({b \in Arg : b < a}) = x) = x
    <2> DEFINE below(a) == Cardinality({b \in Arg : b < a})
    <2>1. \A a \in Arg : below(a) = a
        BY <1>2
    <2> HIDE DEF below
    <2>2. (CHOOSE a \in Arg : below(a) = x) = x
        BY <1>5, <2>1
    <2> QED
        BY <2>2 DEF below
<1>6. parent_mapping = [a \in Arg |-> a]
    BY <1>4, <1>5 DEF Arg
<1>7. Mis!Size = N
    BY <1>1, <1>3, MisProjection
<1>8. \A a, b \in Arg : b \in af[a] <=> b \in base[a]
    BY <1>6, <1>7, MisProjection DEF Arg
<1>9. af \in [Arg -> SUBSET Arg] /\ base \in [Arg -> SUBSET Arg]
    BY <1>7, MisProjection DEF Arg, Framework
<1>10. af = base
    <2>1. \A a \in Arg : af[a] = base[a]
        BY <1>8, <1>9
    <2> QED
        BY <1>9, <2>1
<1> QED
    BY <1>6, <1>7, <1>10

(* What dc() asks about is answered for the framework it was asked of.       *)
Deciding(n, rest, m) ==
    /\ rest = Arg \ base[argument] /\ argument \in rest
    /\ m \in [0 .. n-1 -> rest]
    /\ \A a, b \in 0 .. n-1 : m[a] = m[b] => a = b
    /\ \A x \in rest : \E a \in 0 .. n-1 : m[a] = x
    /\ \A a, b \in 0 .. n-1 : b \in af[a] <=>
            m[b] \in base[m[a]] \/ (b = a /\ argument \in base[m[a]])
    /\ \A T : T \in StableExtensions(af) <=>
            /\ T \in SUBSET (0 .. n-1)
            /\ \A a \in 0 .. n-1 : a \in T <=> \A b \in T : a \notin af[b]

LEMMA MisDeciding ==
    ASSUME base \in Framework, MisSetup, prob = "DC", ~Mis!Refused
    PROVE  Deciding(Mis!Size, Mis!Remaining, parent_mapping)
<1>1. /\ Mis!Remaining = Arg \ base[argument]
      /\ argument \in Mis!Remaining
    BY DEF Mis!Remaining, Mis!Refused, Mis!ArgAttacksArg, MisSetup, Mis!Arg, Arg
<1>2. DOMAIN af = 0 .. Mis!Size-1
    BY MisProjection
<1>3. \A T : T \in StableExtensions(af) <=>
            /\ T \in SUBSET (0 .. Mis!Size-1)
            /\ \A a \in 0 .. Mis!Size-1 : a \in T <=> \A b \in T : a \notin af[b]
    BY <1>2 DEF StableExtensions, Stable
<1> QED
    BY <1>1, <1>3, MisProjection DEF Deciding

LEMMA DecidedStable ==
    ASSUME base \in Framework, NEW n, NEW rest, NEW m, Deciding(n, rest, m),
           NEW T \in StableExtensions(af)
    PROVE  MapIndices(T, m) \cup {argument} \in StableExtensions(base)
<1> DEFINE U == MapIndices(T, m)
<1>1. /\ T \in SUBSET (0 .. n-1)
      /\ \A a \in 0 .. n-1 : a \in T <=> \A b \in T : a \notin af[b]
      /\ rest = Arg \ base[argument] /\ argument \in rest
      /\ \A a \in 0 .. n-1 : m[a] \in rest
      /\ \A a, b \in 0 .. n-1 : m[a] = m[b] => a = b
      /\ \A x \in rest : \E a \in 0 .. n-1 : m[a] = x
      /\ \A a, b \in 0 .. n-1 : b \in af[a] <=>
            m[b] \in base[m[a]] \/ (b = a /\ argument \in base[m[a]])
    BY DEF Deciding
<1>2. /\ U \in SUBSET rest /\ \A a \in 0 .. n-1 : m[a] \in U <=> a \in T
      /\ \A x \in U : \E a \in T : x = m[a]
    BY <1>1 DEF MapIndices
<1> HIDE DEF U
<1>3. argument \in U
    <2>1. PICK a \in 0 .. n-1 : m[a] = argument
        BY <1>1
    <2> SUFFICES ASSUME a \notin T
                 PROVE  FALSE
        BY <1>2, <2>1
    <2>2. PICK b \in T : a \in af[b]
        BY <1>1
    <2>3. argument \in base[m[b]]
        BY <1>1, <2>1, <2>2
    <2>4. b \in af[b]
        BY <1>1, <2>3
    <2> QED
        BY <1>1, <2>4
<1>4. ASSUME NEW x \in Arg
      PROVE  x \in U <=> \A z \in U : x \notin base[z]
    <2>1. CASE x \notin rest
        BY <1>1, <1>2, <1>3, <2>1
    <2>2. CASE x \in rest
        <3>1. PICK a \in 0 .. n-1 : m[a] = x
            BY <1>1, <2>2
        <3>2. ASSUME a \in T, NEW z \in U
              PROVE  x \notin base[z]
            <4>1. PICK b \in T : z = m[b]
                BY <1>2, <3>2
            <4> QED
                BY <1>1, <3>1, <3>2, <4>1
        <3>3. ASSUME a \notin T
              PROVE  \E z \in U : x \in base[z]
            <4>1. PICK b \in T : a \in af[b]
                BY <1>1, <3>3
            <4>2. x \in base[m[b]]
                BY <1>1, <3>1, <3>3, <4>1
            <4> QED
                BY <1>1, <1>2, <4>1, <4>2
        <3> QED
            BY <1>2, <3>1, <3>2, <3>3
    <2> QED
        BY <2>1, <2>2
<1>5. U \cup {argument} = U /\ U \in SUBSET Arg
    BY <1>1, <1>2, <1>3
<1>6. U \in StableExtensions(base)
    BY <1>4, <1>5 DEF StableExtensions, Stable, Framework
<1> QED
    BY <1>5, <1>6 DEF U

LEMMA StableDecided ==
    ASSUME base \in Framework, NEW n, NEW rest, NEW m, Deciding(n, rest, m),
           NEW S \in StableExtensions(base), argument \in S
    PROVE  StableExtensions(af) # {}
<1> DEFINE T == {a \in 0 .. n-1 : m[a] \in S}
<1>1. /\ rest = Arg \ base[argument]
      /\ \A a \in 0 .. n-1 : m[a] \in rest
      /\ \A x \in rest : \E a \in 0 .. n-1 : m[a] = x
      /\ \A a, b \in 0 .. n-1 : b \in af[a] <=>
            m[b] \in base[m[a]] \/ (b = a /\ argument \in base[m[a]])
    BY DEF Deciding
<1>2. /\ S \in SUBSET Arg
      /\ \A x \in Arg : x \in S <=> \A z \in S : x \notin base[z]
    BY DEF StableExtensions, Stable, Framework
<1>3. S \subseteq rest
    BY <1>1, <1>2
<1>4. ASSUME NEW a \in 0 .. n-1
      PROVE  a \in T <=> \A b \in T : a \notin af[b]
    <2>1. ASSUME a \in T, NEW b \in T
          PROVE  a \notin af[b]
        BY <1>1, <1>2, <2>1
    <2>2. ASSUME a \notin T
          PROVE  \E b \in T : a \in af[b]
        <3>1. PICK z \in S : m[a] \in base[z]
            BY <1>1, <1>2, <2>2
        <3>2. PICK b \in 0 .. n-1 : m[b] = z
            BY <1>1, <1>3, <3>1
        <3> QED
            BY <1>1, <3>1, <3>2
    <2> QED
        BY <2>1, <2>2
<1>5. T \in SUBSET (0 .. n-1)
    OBVIOUS
<1> HIDE DEF T
<1>6. T \in StableExtensions(af)
    BY <1>4, <1>5 DEF Deciding
<1> QED
    BY <1>6

(* What main finds when mis has returned.                                    *)
LEMMA MisDone ==
    ASSUME base \in Framework, MisInv, pc = "done"
    PROVE  /\ prob = "EE" =>
                /\ extensions \in Seq(SUBSET Arg)
                /\ \A m, l \in DOMAIN extensions : extensions[m] = extensions[l] => m = l
                /\ Members(extensions) \subseteq StableExtensions(base)
                /\ Mis!LoopsLast => StableExtensions(base) \subseteq Members(extensions)
           /\ prob = "SE" =>
                \/ extension = {} /\ (Mis!LoopsLast => StableExtensions(base) = {})
                \/ \E T \in StableExtensions(base) : extension = {T}
           /\ prob = "DC" =>
                \/ /\ extension = {}
                   /\ Mis!LoopsLast => \A S \in StableExtensions(base) : argument \notin S
                \/ \E T \in StableExtensions(base) : argument \in T /\ extension = {T}
<1>1. MisSetup /\ MisState /\ MisFound /\ MisSought /\ MisAnswer
    BY DEF MisInv
<1>2. Mis!LoopsLast /\ extension = {} /\ ~Mis!Refused =>
            StableExtensions(af) \subseteq Members(extensions)
    BY <1>1 DEF MisSought, MisLive, Reached
<1>3. ASSUME prob = "EE"
      PROVE  /\ extensions \in Seq(SUBSET Arg)
             /\ \A m, l \in DOMAIN extensions : extensions[m] = extensions[l] => m = l
             /\ Members(extensions) \subseteq StableExtensions(base)
             /\ Mis!LoopsLast => StableExtensions(base) \subseteq Members(extensions)
    <2>1. af = base /\ Mis!Size = N /\ ~Mis!Refused /\ extension = {}
        BY <1>1, <1>3, MisWhole DEF Mis!Refused, MisAnswer
    <2> QED
        BY <1>1, <1>2, <2>1 DEF MisState, MisFound, Arg
<1>4. ASSUME prob = "SE"
      PROVE  \/ extension = {} /\ (Mis!LoopsLast => StableExtensions(base) = {})
             \/ \E T \in StableExtensions(base) : extension = {T}
    <2>1. /\ af = base /\ parent_mapping = [a \in Arg |-> a] /\ ~Mis!Refused
          /\ extensions = <<>>
        BY <1>1, <1>4, MisWhole DEF Mis!Refused, MisAnswer
    <2>2. CASE extension = {}
        BY <1>2, <2>1, <2>2 DEF Members
    <2>3. CASE extension # {}
        <3>1. PICK T \in StableExtensions(af) : extension =
                {Mis!MapIndices(T, parent_mapping) \cup (IF prob = "DC" THEN {argument} ELSE {})}
            BY <1>1, <2>3 DEF MisAnswer
        <3>2. T \in SUBSET Arg
            BY <2>1, <3>1, StableFacts
        <3>3. Mis!MapIndices(T, parent_mapping) = T
            BY <2>1, <3>2 DEF Mis!MapIndices
        <3> QED
            BY <1>4, <2>1, <3>1, <3>3
    <2> QED
        BY <2>2, <2>3
<1>5. ASSUME prob = "DC"
      PROVE  \/ /\ extension = {}
                /\ Mis!LoopsLast => \A S \in StableExtensions(base) : argument \notin S
             \/ \E T \in StableExtensions(base) : argument \in T /\ extension = {T}
    <2>1. CASE Mis!Refused
        <3>1. argument \in base[argument]
            BY <2>1 DEF Mis!Refused, Mis!ArgAttacksArg
        <3> QED
            BY <1>1, <2>1, <3>1, StableFacts DEF MisAnswer
    <2>2. CASE ~Mis!Refused /\ extension = {}
        <3>1. Deciding(Mis!Size, Mis!Remaining, parent_mapping)
            BY <1>1, <1>5, <2>2, MisDeciding
        <3>2. Mis!LoopsLast => StableExtensions(af) = {}
            BY <1>1, <1>2, <1>5, <2>2 DEF MisAnswer, Members
        <3> QED
            BY <2>2, <3>1, <3>2, StableDecided
    <2>3. CASE ~Mis!Refused /\ extension # {}
        <3>1. Deciding(Mis!Size, Mis!Remaining, parent_mapping)
            BY <1>1, <1>5, <2>3, MisDeciding
        <3>2. PICK T \in StableExtensions(af) : extension =
                {Mis!MapIndices(T, parent_mapping) \cup (IF prob = "DC" THEN {argument} ELSE {})}
            BY <1>1, <2>3 DEF MisAnswer
        <3>3. MapIndices(T, parent_mapping) \cup {argument} \in StableExtensions(base)
            BY <3>1, DecidedStable
        <3>4. Mis!MapIndices(T, parent_mapping) = MapIndices(T, parent_mapping)
            BY DEF Mis!MapIndices, MapIndices
        <3> QED
            BY <1>5, <3>2, <3>3, <3>4
    <2> QED
        BY <2>1, <2>2, <2>3
<1> QED
    BY <1>3, <1>4, <1>5

-------------------------------------------------------------------------------
(* Sorting in place.                                                         *)

Stepping(E, start, g) == start \in E /\ g \in [Nat -> [E -> E]]

Stepped(E, start, g, n, f) ==
    f \in [-1 .. n-1 -> E] /\ f[-1] = start /\ \A j \in 0 .. n-1 : f[j] = g[j][f[j-1]]

(* A list of steps, one for each index, defines the values between them.     *)
LEMMA StepsDefine ==
    ASSUME NEW E, NEW start, NEW g, Stepping(E, start, g), NEW n \in Nat
    PROVE  \E f : Stepped(E, start, g, n, f)
<1> DEFINE Right(l) == {f \in [-1 .. l-1 -> E] :
                            f[-1] = start /\ \A j \in 0 .. l-1 : f[j] = g[j][f[j-1]]}
           Q == {l \in Nat : Right(l) # {}}
<1>0. start \in E /\ g \in [Nat -> [E -> E]]
    BY DEF Stepping
<1>1. 0 \in Q
    <2>1. [j \in -1 .. -1 |-> start] \in Right(0)
        BY <1>0
    <2> QED
        BY <2>1
<1>2. ASSUME NEW l \in Q
      PROVE  l+1 \in Q
    <2>1. PICK f \in [-1 .. l-1 -> E] :
                f[-1] = start /\ \A j \in 0 .. l-1 : f[j] = g[j][f[j-1]]
        OBVIOUS
    <2> DEFINE h == [j \in -1 .. l |-> IF j = l THEN g[l][f[l-1]] ELSE f[j]]
    <2>2. f[l-1] \in E /\ g[l][f[l-1]] \in E
        BY <1>0, <2>1
    <2>3. h \in [-1 .. l+1-1 -> E]
        BY <2>1, <2>2
    <2>4. h[-1] = start /\ h[l] = g[l][h[l-1]]
        BY <2>1
    <2>5. \A j \in 0 .. l-1 : h[j] = g[j][h[j-1]]
        BY <2>1
    <2>6. \A j \in 0 .. l+1-1 : j = l \/ j \in 0 .. l-1
        OBVIOUS
    <2> HIDE DEF h
    <2>7. h \in Right(l+1)
        BY <2>3, <2>4, <2>5, <2>6
    <2> QED
        BY <2>7
<1> HIDE DEF Right
<1>3. Q = Nat
    BY <1>1, <1>2, EveryNumber
<1> QED
    BY <1>3 DEF Right, Stepped

(* A function that makes these steps stays among the values.                 *)
LEMMA StepsStay ==
    ASSUME NEW E, NEW start, NEW g, Stepping(E, start, g), NEW n \in Nat \ {0}, NEW w,
           w[-1] = start, \A j \in 0 .. n-1 : w[j-1] \in E => w[j] = g[j][w[j-1]]
    PROVE  w[n-1] \in E
<1> DEFINE Q == {l \in Nat : l <= n => w[l-1] \in E}
<1>1. 0 \in Q
    BY DEF Stepping
<1>2. ASSUME NEW l \in Q
      PROVE  l+1 \in Q
    <2> SUFFICES ASSUME l+1 <= n
                 PROVE  w[l] \in E
        OBVIOUS
    <2>1. l \in 0 .. n-1 /\ w[l-1] \in E
        OBVIOUS
    <2>2. w[l] = g[l][w[l-1]]
        BY <2>1
    <2> QED
        BY <2>1, <2>2 DEF Stepping
<1>3. n \in Q
    BY <1>1, <1>2, EveryNumber
<1> QED
    BY <1>3

(* The frameworks with these attacks and perhaps others.                     *)
Enlarged(att) == {F \in Framework : \A a \in Arg : att[a] \subseteq F[a]}

LEMMA RowAdded ==
    ASSUME NEW att \in Framework, NEW m \in [Arg -> Arg], NEW n \in Arg
    PROVE  FillRow(att, m, n) \in Enlarged(att)
<1> DEFINE Filled(F, j) == IF m[j] \in F[m[n]]
                           THEN [F EXCEPT ![n] = @ \cup {j}] ELSE F
           w == CHOOSE f : f = [j \in -1 .. N-1 |-> IF j = -1 THEN att
                                                    ELSE Filled(f[j-1], j)]
           E == Enlarged(att)
           g == [j \in Nat |-> [F \in E |-> IF j \in Arg THEN Filled(F, j) ELSE F]]
<1>1. DOMAIN att = Arg /\ Cardinality(DOMAIN att) - 1 = N - 1 /\ N \in Nat \ {0}
    BY ArgSize, NAssumption DEF Framework
<1>2. FillRow(att, m, n) = w[N-1]
    BY <1>1 DEF FillRow
<1>3. ASSUME NEW F \in E, NEW j \in Arg
      PROVE  Filled(F, j) \in E
    <2>1. [F EXCEPT ![n] = @ \cup {j}] \in E
        BY <1>3 DEF Enlarged, Framework
    <2> QED
        BY <2>1
<1>4. att \in E
    BY DEF Enlarged
<1> HIDE DEF Filled, E
<1>5. g \in [Nat -> [E -> E]] /\ \A j \in Arg : \A F \in E : g[j][F] = Filled(F, j)
    BY <1>3, NAssumption DEF Arg
<1> HIDE DEF g
<1>6. w = [j \in -1 .. N-1 |-> IF j = -1 THEN att ELSE Filled(w[j-1], j)]
    <2>1. PICK f \in [-1 .. N-1 -> E] :
                f[-1] = att /\ \A j \in 0 .. N-1 : f[j] = g[j][f[j-1]]
        <3> HIDE DEF w
        <3>1. \E f : Stepped(E, att, g, N, f)
            BY <1>1, <1>4, <1>5, StepsDefine DEF Stepping
        <3> QED
            BY <3>1 DEF Stepped
    <2>2. \A j \in 0 .. N-1 : f[j] = Filled(f[j-1], j)
        BY <1>1, <1>5, <2>1 DEF Arg
    <2>3. \A j \in -1 .. N-1 : j = -1 \/ j \in 0 .. N-1
        BY <1>1
    <2>4. f = [j \in -1 .. N-1 |-> IF j = -1 THEN att ELSE Filled(f[j-1], j)]
        BY <2>1, <2>2, <2>3
    <2> QED
        BY <2>4
<1> HIDE DEF w
<1>7. w[-1] = att /\ \A j \in 0 .. N-1 : w[j] = Filled(w[j-1], j)
    BY <1>1, <1>6
<1>8. \A j \in 0 .. N-1 : w[j-1] \in E => w[j] = g[j][w[j-1]]
    BY <1>5, <1>7 DEF Arg
<1>9. w[N-1] \in E
    BY <1>1, <1>4, <1>5, <1>7, <1>8, StepsStay DEF Stepping
<1> QED
    BY <1>2, <1>9 DEF E

(* A sort in place removes no attack.                                        *)
LEMMA SortAdds ==
    ASSUME NEW att \in Framework, NEW m \in [Arg -> Arg]
    PROVE  SortedInPlace(att, m) \in Enlarged(att)
<1> DEFINE w == CHOOSE f : f = [n \in -1 .. N-1 |-> IF n = -1 THEN att
                                                    ELSE FillRow(f[n-1], m, n)]
           E == Enlarged(att)
           g == [n \in Nat |-> [F \in E |-> IF n \in Arg THEN FillRow(F, m, n) ELSE F]]
<1>1. DOMAIN att = Arg /\ Cardinality(DOMAIN att) - 1 = N - 1 /\ N \in Nat \ {0}
    BY ArgSize, NAssumption DEF Framework
<1>2. SortedInPlace(att, m) = w[N-1]
    BY <1>1 DEF SortedInPlace
<1>3. ASSUME NEW F \in E, NEW n \in Arg
      PROVE  FillRow(F, m, n) \in E
    BY <1>3, RowAdded DEF Enlarged
<1>4. att \in E
    BY DEF Enlarged
<1> HIDE DEF E
<1>5. g \in [Nat -> [E -> E]] /\ \A n \in Arg : \A F \in E : g[n][F] = FillRow(F, m, n)
    BY <1>3, NAssumption DEF Arg
<1> HIDE DEF g
<1>6. w = [n \in -1 .. N-1 |-> IF n = -1 THEN att ELSE FillRow(w[n-1], m, n)]
    <2>1. PICK f \in [-1 .. N-1 -> E] :
                f[-1] = att /\ \A n \in 0 .. N-1 : f[n] = g[n][f[n-1]]
        <3> HIDE DEF w
        <3>1. \E f : Stepped(E, att, g, N, f)
            BY <1>1, <1>4, <1>5, StepsDefine DEF Stepping
        <3> QED
            BY <3>1 DEF Stepped
    <2>2. \A n \in 0 .. N-1 : f[n] = FillRow(f[n-1], m, n)
        BY <1>1, <1>5, <2>1 DEF Arg
    <2>3. \A n \in -1 .. N-1 : n = -1 \/ n \in 0 .. N-1
        BY <1>1
    <2>4. f = [n \in -1 .. N-1 |-> IF n = -1 THEN att ELSE FillRow(f[n-1], m, n)]
        BY <2>1, <2>2, <2>3
    <2> QED
        BY <2>4
<1> HIDE DEF w
<1>7. w[-1] = att /\ \A n \in 0 .. N-1 : w[n] = FillRow(w[n-1], m, n)
    BY <1>1, <1>6
<1>8. \A n \in 0 .. N-1 : w[n-1] \in E => w[n] = g[n][w[n-1]]
    BY <1>5, <1>7 DEF Arg
<1>9. w[N-1] \in E
    BY <1>1, <1>4, <1>5, <1>7, <1>8, StepsStay DEF Stepping
<1> QED
    BY <1>2, <1>9 DEF E

(* If a framework with these attacks and perhaps others is a renaming, there *)
(* are no others: it is the same framework.                                  *)
LEMMA RenamedSame ==
    ASSUME NEW att \in Framework, NEW m \in [Arg -> Arg], Permutation(m),
           NEW F \in Enlarged(att), F = Renamed(att, m)
    PROVE  F = att
<1> DEFINE Pairs(x) == {pair \in Arg \X Arg : pair[2] \in x[pair[1]]}
           f == [pair \in Pairs(F) |-> <<m[pair[1]], m[pair[2]]>>]
<1>1. F \in Framework /\ \A a \in Arg : att[a] \subseteq F[a]
    BY DEF Enlarged
<1>2. \A a, b \in Arg : b \in F[a] <=> m[b] \in att[m[a]]
    BY RenamedFramework
<1>3. f \in [Pairs(F) -> Pairs(att)]
    BY <1>2
<1>4. ASSUME NEW x \in Pairs(F), NEW y \in Pairs(F), f[x] = f[y]
      PROVE  x = y
    <2>1. m[x[1]] = m[y[1]] /\ m[x[2]] = m[y[2]]
        BY <1>4
    <2>2. x[1] = y[1] /\ x[2] = y[2]
        BY <2>1 DEF Permutation
    <2> QED
        BY <2>2
<1>5. ASSUME NEW y \in Pairs(att)
      PROVE  \E x \in Pairs(F) : f[x] = y
    <2>1. PICK a \in Arg, b \in Arg : m[a] = y[1] /\ m[b] = y[2]
        BY DEF Permutation
    <2>2. <<a, b>> \in Pairs(F)
        BY <1>2, <2>1
    <2>3. f[<<a, b>>] = y
        BY <2>1, <2>2
    <2> QED
        BY <2>2, <2>3
<1> HIDE DEF f
<1>6. IsFiniteSet(Pairs(F)) /\ IsFiniteSet(Pairs(att))
    <2>1. IsFiniteSet(Arg \X Arg)
        BY ArgFinite, FS_Product
    <2> QED
        BY <2>1, FS_Subset
<1>7. Pairs(att) \subseteq Pairs(F)
    BY <1>1
<1> HIDE DEF Pairs
<1>8. Cardinality(Pairs(F)) = Cardinality(Pairs(att))
    <2>1. f \in Bijection(Pairs(F), Pairs(att))
        BY <1>3, <1>4, <1>5 DEF Bijection, Injection, Surjection, IsInjective
    <2> QED
        BY <1>6, <2>1, FS_Bijection DEF ExistsBijection
<1>9. Pairs(F) = Pairs(att)
    BY <1>6, <1>7, <1>8, FS_Subset
<1>10. \A a, b \in Arg : b \in F[a] <=> b \in att[a]
    <2> TAKE a, b \in Arg
    <2>1. \A x \in {F, att} : <<a, b>> \in Pairs(x) <=> b \in x[a]
        BY DEF Pairs
    <2> QED
        BY <1>9, <2>1
<1>11. \A a \in Arg : F[a] = att[a]
    BY <1>1, <1>10 DEF Framework
<1> QED
    BY <1>1, <1>11 DEF Framework

-------------------------------------------------------------------------------
(* The run of main.                                                          *)

(* What main has settled, with what the sort has done to the framework.      *)
Prepared == Settled /\ base \in Enlarged(input)

LEMMA InitPrepared ==
    ASSUME Init
    PROVE  Prepared
<1>1. Settled
    BY InitSettled
<1>2. base = input \/ base = SortedInPlace(input, order)
    BY DEF Init, Read
<1>3. input \in Enlarged(input)
    BY <1>1 DEF Settled, Enlarged
<1> QED
    BY <1>1, <1>2, <1>3, SortAdds DEF Prepared, Settled

LEMMA MainStays ==
    ASSUME [Next]_vars
    PROVE  UNCHANGED mainVars /\ UNCHANGED <<alg, prob, input, order, base, argument>>
BY DEF Next, vars, mainVars, Solve, Return, PrintList, ListPrinted, PrintOne, PrintAnswer,
       Exited

LEMMA PreparedStep ==
    ASSUME Prepared, [Next]_vars
    PROVE  Prepared'
BY SettledStep, MainStays DEF Prepared

LEMMA ProblemKinds ==
    ASSUME Settled
    PROVE  /\ alg \in {"norris", "norris-bu", "nourine", "mis", "next-closure"}
           /\ alg \in {"norris", "nourine"} => prob \in {"EE", "SE"}
           /\ alg = "mis" => prob \in {"EE", "SE", "DC"}
           /\ alg = "norris-bu" => prob = "EE"
           /\ alg = "next-closure" => prob = "DC"
BY ProblemsAssumption DEF Settled

(* The routine that runs keeps its invariant, and only Norris' SE-ST prints. *)
Working ==
    Running =>
        /\ alg = "norris" => NorrisInv /\ result = {}
        /\ alg = "norris-bu" => BuInv /\ printed = <<>>
        /\ alg = "nourine" => NourineInv /\ printed = <<>>
        /\ alg = "mis" => MisInv /\ printed = <<>>
        /\ alg = "next-closure" => Dc!IInv /\ printed = <<>>

(* The sets that are printed at least, and at most.                          *)
Must == IF alg = "mis" /\ ~Mis!LoopsLast THEN {} ELSE StableExtensions(base)

(* The sets that may be printed.                                             *)
May == StableExtensions(base) \cup (IF alg = "nourine" THEN {Arg \ FirstClosed} ELSE {})

(* The order the list is printed along.                                      *)
PrintedAlong == IF alg = "norris-bu" THEN Unsorted ELSE order

(* What an enumeration has printed and has left to print.                    *)
ListLeft ==
    prob = "EE" /\ pc \in {"print", "exit"} =>
        /\ \E E \in SUBSET SUBSET Arg :
            /\ Must \subseteq E /\ E \subseteq May
            /\ Printing(PrintedAlong, E, extensions, printed, TRUE)
        /\ pc = "exit" => extensions = <<>>

(* What SE-ST has found or printed.                                          *)
OneLeft ==
    prob = "SE" =>
        /\ pc = "print" =>
            \/ /\ alg = "norris" /\ result = {}
               /\ \/ printed = <<>> /\ StableExtensions(base) = {}
                  \/ \E S \in StableExtensions(base) : printed = <<S>>
            \/ /\ alg = "nourine" /\ printed = <<>>
               /\ \/ result = {} /\ StableExtensions(base) = {}
                  \/ result \in May
            \/ /\ alg = "mis" /\ printed = <<>>
               /\ \/ extension = {}
                  \/ \E S \in StableExtensions(base) : extension = {S}
        /\ pc = "exit" =>
            \/ printed = <<{}>> /\ StableExtensions(base) = {}
            \/ alg = "norris" /\ \E S \in StableExtensions(base) : printed = Append(<<S>>, {})
            \/ \E S \in May : printed = <<MapIndices(S, order)>>

(* What a decision may do without.                                           *)
Excused(S) == (alg = "next-closure" /\ S = {argument}) \/ (alg = "mis" /\ ~Mis!LoopsLast)

(* The answer to DC-ST, as the framework that is solved has it.              *)
Decision(answer) ==
    /\ answer \subseteq StableExtensions(base)
    /\ answer = {} \/ \E T : answer = {T}
    /\ alg = "mis" => \A T \in answer : argument \in T
    /\ \A S \in StableExtensions(base) :
        argument \in S => Excused(S) \/ \E T \in answer : argument \in T

(* What DC-ST has found or printed.                                          *)
DecisionLeft ==
    prob = "DC" =>
        /\ pc = "print" => /\ printed = <<>>
                           /\ Decision((IF alg = "mis" THEN extension ELSE {result}) \ {{}})
        /\ pc = "exit" => \E answer : /\ Decision(answer)
                                      /\ answer = {} => printed = <<>>
                                      /\ \A T \in answer : printed = <<MapIndices(T, order)>>

(* The inductive invariant of the run.                                       *)
RunInv == Prepared /\ Working /\ ListLeft /\ OneLeft /\ DecisionLeft

LEMMA RunInitInv ==
    ASSUME Init
    PROVE  RunInv
<1>1. Prepared /\ Settled /\ base \in Framework
    BY InitPrepared DEF Prepared, Settled
<1>2. printed = <<>>
    BY DEF Init
<1>3. alg = "norris" => NorrisInv /\ result = {}
    BY <1>1, <1>2, NorrisInitInv DEF Init
<1>4. alg = "norris-bu" => BuInv
    BY <1>1, BottomUpInitInv DEF Init
<1>5. alg = "nourine" => NourineInv
    BY <1>1, NourineInitInv DEF Init
<1>6. alg = "mis" => MisInv
    BY <1>1, MisInitInv DEF Init
<1>7. alg = "next-closure" => Dc!IInv
    BY DecideInitInv DEF Init
<1>8. pc \notin {"print", "exit"}
    BY DEF Init, Norris!Init, BottomUp!Init, Nourine!Init, Mis!Init, Decide!Init
<1> QED
    BY <1>1, <1>2, <1>3, <1>4, <1>5, <1>6, <1>7, <1>8
    DEF RunInv, Working, ListLeft, OneLeft, DecisionLeft

-------------------------------------------------------------------------------
(* While the routine runs.                                                   *)

Inside(at, next) ==
    /\ at \notin {"print", "exit"} /\ next \notin {"print", "exit"}
    /\ at = "crash" => next = "crash"

LEMMA NorrisInside ==
    ASSUME Norris!Next
    PROVE  Inside(pc, pc')
BY DEF Norris!Next, Norris!Skip, Norris!UpdateStable, Norris!UpdateExhausted, Norris!Update,
       Norris!Branch, Norris!EndRound, Norris!Ended, Norris!Walking, Norris!Deliver,
       Norris!vars, Inside

LEMMA BottomUpInside ==
    ASSUME BottomUp!Next
    PROVE  Inside(pc, pc')
BY DEF BottomUp!Next, BottomUp!Update, BottomUp!Branch, BottomUp!EndRound, BottomUp!Returned,
       BottomUp!Walking, BottomUp!vars, Inside

LEMMA NourineInside ==
    ASSUME Nourine!Next
    PROVE  Inside(pc, pc')
BY DEF Nourine!Next, Nourine!UpdateConflicts, Nourine!RemoveConflicts, Nourine!StartWalk,
       Nourine!Keep, Nourine!KeepOne, Nourine!Pass, Nourine!Drop, Nourine!Try,
       Nourine!WalkOver, Nourine!Returned, Nourine!NextClosure, Nourine!vars, Inside

LEMMA MisInside ==
    ASSUME Mis!Next
    PROVE  Inside(pc, pc')
BY DEF Mis!Next, Mis!Refuse, Mis!Call, Mis!Add, Mis!PassSelfAttacker, Mis!ReturnOne, Mis!Keep,
       Mis!Discard, Mis!Branch, Mis!SecondCall, Mis!ReturnToRoot, Mis!Returned, Mis!Growing,
       Mis!Grown, Mis!vars, Inside

LEMMA DecideInside ==
    ASSUME Decide!Next
    PROVE  Inside(pc, pc')
BY DEF Decide!Next, Decide!Search, Decide!Refuse, Decide!MoveConflicting, Decide!LeaveInPlace,
       Decide!Rename, Decide!Answer, Decide!Pass, Decide!Returned, Decide!SearchStep,
       Decide!Drop, Decide!SkipConflict, Decide!Close, Decide!Exhausted, Decide!Searching,
       Decide!Round, Decide!searchVars, Decide!vars, Inside

LEMMA SolveStep ==
    ASSUME RunInv, Solve
    PROVE  Working' /\ pc' \notin {"print", "exit"}
<1>1. Settled /\ base \in Framework /\ UNCHANGED <<alg, prob, input, order, base, argument>>
    BY DEF RunInv, Prepared, Settled, Solve, mainVars
<1>2. Inside(pc, pc')
    BY NorrisInside, BottomUpInside, NourineInside, MisInside, DecideInside DEF Solve
<1>3. Running' => Running
    BY <1>2 DEF Running, Inside
<1> SUFFICES ASSUME Running
             PROVE  /\ alg = "norris" => NorrisInv' /\ result' = {}
                    /\ alg = "norris-bu" => BuInv' /\ printed' = <<>>
                    /\ alg = "nourine" => NourineInv' /\ printed' = <<>>
                    /\ alg = "mis" => MisInv' /\ printed' = <<>>
                    /\ alg = "next-closure" => Dc!IInv' /\ printed' = <<>>
    BY <1>1, <1>2, <1>3 DEF Working, Inside
<1>4. CASE alg = "norris"
    <2>1. Norris!Next /\ result' = result /\ NorrisInv /\ result = {}
        BY <1>4 DEF Solve, RunInv, Working
    <2>2. prob \in {"EE", "SE"}
        BY <1>1, <1>4, ProblemKinds
    <2> QED
        BY <1>1, <1>4, <2>1, <2>2, NorrisNextInv
<1>5. CASE alg = "norris-bu"
    <2>1. BottomUp!Next /\ printed' = printed /\ BuInv /\ printed = <<>>
        BY <1>5 DEF Solve, RunInv, Working
    <2> QED
        BY <1>1, <1>5, <2>1, BottomUpNextInv
<1>6. CASE alg = "nourine"
    <2>1. Nourine!Next /\ printed' = printed /\ NourineInv /\ printed = <<>>
        BY <1>6 DEF Solve, RunInv, Working
    <2>2. prob \in {"EE", "SE"}
        BY <1>1, <1>6, ProblemKinds
    <2> QED
        BY <1>1, <1>6, <2>1, <2>2, NourineNextInv
<1>7. CASE alg = "mis"
    <2>1. Mis!Next /\ printed' = printed /\ MisInv /\ printed = <<>>
        BY <1>7 DEF Solve, RunInv, Working
    <2> QED
        BY <1>7, <2>1, MisNextInv
<1>8. CASE alg = "next-closure"
    <2>1. Decide!Next /\ printed' = printed /\ Dc!IInv /\ printed = <<>>
        BY <1>8 DEF Solve, RunInv, Working
    <2> QED
        BY <1>8, <2>1, DecideNextInv
<1> QED
    BY <1>1, <1>4, <1>5, <1>6, <1>7, <1>8, ProblemKinds

-------------------------------------------------------------------------------
(* When it has returned.                                                     *)

LEMMA StableSets ==
    ASSUME base \in Framework
    PROVE  StableExtensions(base) \in SUBSET SUBSET Arg
BY StableFacts

(* The list of an EE-ST routine.                                             *)
LEMMA ListReturned ==
    ASSUME RunInv, pc = "done", prob = "EE"
    PROVE  /\ extensions \in Seq(SUBSET Arg) /\ printed = <<>>
           /\ \A m, n \in DOMAIN extensions : extensions[m] = extensions[n] => m = n
           /\ Must \subseteq Members(extensions) /\ Members(extensions) \subseteq May
<1>1. Settled /\ Working /\ Running /\ base \in Framework
    BY DEF RunInv, Prepared, Settled, Running
<1>2. CASE alg = "norris"
    <2>1. NorState /\ NorFound /\ NorSought /\ NorPrinted
        BY <1>1, <1>2 DEF Working, NorrisInv
    <2>2. StableExtensions(base) \subseteq Members(extensions)
        BY <2>1 DEF NorSought
    <2>3. Must = StableExtensions(base) /\ May = StableExtensions(base)
        BY <1>2 DEF Must, May
    <2> QED
        BY <2>1, <2>2, <2>3 DEF NorState, NorFound, NorPrinted
<1>3. CASE alg = "norris-bu"
    <2>1. BuState /\ BuFound /\ BuSought /\ printed = <<>>
        BY <1>1, <1>3 DEF Working, BuInv
    <2>2. StableExtensions(base) \subseteq Members(extensions)
        BY <2>1 DEF BuSought
    <2>3. Must = StableExtensions(base) /\ May = StableExtensions(base)
        BY <1>3 DEF Must, May
    <2> QED
        BY <2>1, <2>2, <2>3 DEF BuState, BuFound
<1>4. CASE alg = "nourine"
    <2>1. NourineState /\ NourineEE /\ NotPassed /\ printed = <<>>
        BY <1>1, <1>4 DEF Working, NourineInv
    <2>2. StableExtensions(base) \subseteq Members(extensions)
        BY <2>1 DEF NotPassed
    <2>3. /\ Must = StableExtensions(base)
          /\ May = StableExtensions(base) \cup {Arg \ FirstClosed}
        BY <1>4 DEF Must, May
    <2>4. Members(extensions) \subseteq May
        BY <2>1, <2>3 DEF NourineEE, Delivered
    <2> QED
        BY <2>1, <2>2, <2>3, <2>4 DEF NourineState, NourineEE
<1>5. CASE alg = "mis"
    <2>1. MisInv /\ printed = <<>>
        BY <1>1, <1>5 DEF Working
    <2> QED
        BY <1>1, <1>5, <2>1, MisDone DEF Must, May
<1> QED
    BY <1>1, <1>2, <1>3, <1>4, <1>5, ProblemKinds

LEMMA ReturnStep ==
    ASSUME RunInv, Return
    PROVE  Working' /\ ListLeft' /\ OneLeft' /\ DecisionLeft'
<1>1. /\ pc = "done" /\ pc' = "print"
      /\ UNCHANGED <<alg, prob, input, order, base, argument, printed, extensions, result,
                     extension, imps, af>>
    BY DEF Return, mainVars, norrisVars, nourineVars, misVars
<1>2. Settled /\ Working /\ Running /\ base \in Framework
    BY <1>1 DEF RunInv, Prepared, Settled, Running
<1>3. UNCHANGED <<Must, May, PrintedAlong>>
    BY <1>1 DEF Must, May, PrintedAlong, Mis!LoopsLast, Mis!SelfAttackersLast, FirstClosed, Nourine!unit_close
<1>4. Working'
    BY <1>1 DEF Working, Running
<1>5. ListLeft'
    <2> SUFFICES ASSUME prob = "EE"
                 PROVE  \E E \in SUBSET SUBSET Arg :
                            /\ Must \subseteq E /\ E \subseteq May
                            /\ Printing(PrintedAlong, E, extensions, printed, TRUE)
        BY <1>1, <1>3 DEF ListLeft
    <2> DEFINE E == Members(extensions)
    <2>1. /\ extensions \in Seq(SUBSET Arg) /\ printed = <<>>
          /\ \A m, n \in DOMAIN extensions : extensions[m] = extensions[n] => m = n
          /\ Must \subseteq E /\ E \subseteq May
        BY <1>1, ListReturned
    <2>2. E \in SUBSET SUBSET Arg
        BY <2>1 DEF Members
    <2>3. Printing(PrintedAlong, E, extensions, printed, TRUE)
        BY <2>1, NonePrinted
    <2> QED
        BY <2>1, <2>2, <2>3
<1>6. OneLeft'
    <2> SUFFICES ASSUME prob = "SE"
                 PROVE  \/ /\ alg = "norris" /\ result = {}
                           /\ \/ printed = <<>> /\ StableExtensions(base) = {}
                              \/ \E S \in StableExtensions(base) : printed = <<S>>
                        \/ /\ alg = "nourine" /\ printed = <<>>
                           /\ \/ result = {} /\ StableExtensions(base) = {}
                              \/ result \in May
                        \/ /\ alg = "mis" /\ printed = <<>>
                           /\ \/ extension = {}
                              \/ \E S \in StableExtensions(base) : extension = {S}
        BY <1>1, <1>3 DEF OneLeft
    <2>1. CASE alg = "norris"
        BY <1>1, <1>2, <2>1 DEF Working, NorrisInv, NorPrinted
    <2>2. CASE alg = "nourine"
        <3>1. NourineSE /\ printed = <<>>
            BY <1>2, <2>2 DEF Working, NourineInv
        <3>2. May = StableExtensions(base) \cup {Arg \ FirstClosed}
            BY <2>2 DEF May
        <3> QED
            BY <1>1, <2>2, <3>1, <3>2 DEF NourineSE
    <2>3. CASE alg = "mis"
        BY <1>1, <1>2, <2>3, MisDone DEF Working
    <2> QED
        BY <1>2, <2>1, <2>2, <2>3, ProblemKinds
<1>7. DecisionLeft'
    <2> DEFINE answer == (IF alg = "mis" THEN extension ELSE {result}) \ {{}}
    <2> SUFFICES ASSUME prob = "DC"
                 PROVE  printed = <<>> /\ Decision(answer)
        BY <1>1 DEF DecisionLeft, Decision, Excused, Mis!LoopsLast, Mis!SelfAttackersLast
    <2>1. \A S \in StableExtensions(base) : S # {}
        BY <1>2, StableFacts
    <2>2. CASE alg = "mis"
        <3>1. /\ printed = <<>>
              /\ \/ /\ extension = {}
                    /\ Mis!LoopsLast => \A S \in StableExtensions(base) : argument \notin S
                 \/ \E T \in StableExtensions(base) : argument \in T /\ extension = {T}
            BY <1>1, <1>2, <2>2, MisDone DEF Working
        <3> QED
            BY <2>1, <2>2, <3>1 DEF Decision, Excused
    <2>3. CASE alg = "next-closure"
        <3>1. /\ printed = <<>>
              /\ result # {} => result \in StableExtensions(base)
              /\ \A S \in StableExtensions(base) :
                    argument \in S /\ S # {argument} => argument \in result
            BY <1>1, <1>2, <2>3, DecideAnswer DEF Working
        <3>2. (answer = {} /\ result = {}) \/ (answer = {result} /\ result # {})
            BY <2>3
        <3> QED
            BY <2>3, <3>1, <3>2 DEF Decision, Excused
    <2> QED
        BY <1>2, <2>2, <2>3, ProblemKinds
<1> QED
    BY <1>4, <1>5, <1>6, <1>7

-------------------------------------------------------------------------------
(* Printing.                                                                 *)

LEMMA PrintedAlongRight ==
    ASSUME Settled
    PROVE  /\ PrintedAlong \in [Arg -> Arg] /\ Permutation(PrintedAlong)
           /\ alg = "norris-bu" =>
                \A S \in SUBSET Arg : MapIndices(S, PrintedAlong) = S
<1>1. Unsorted \in [Arg -> Arg] /\ Permutation(Unsorted)
    BY DEF Unsorted, Permutation
<1>2. \A S \in SUBSET Arg : MapIndices(S, Unsorted) = S
    BY DEF MapIndices, Unsorted
<1> QED
    BY <1>1, <1>2 DEF PrintedAlong, Settled

LEMMA PrintListStep ==
    ASSUME RunInv, PrintList
    PROVE  Working' /\ ListLeft' /\ OneLeft' /\ DecisionLeft'
<1>1. /\ pc = "print" /\ pc' = pc /\ prob = "EE" /\ extensions # <<>>
      /\ printed' = Append(printed, IF alg = "norris-bu" THEN Head(extensions)
                                    ELSE MapIndices(Head(extensions), order))
      /\ extensions' = Tail(extensions)
      /\ UNCHANGED <<alg, prob, input, order, base, argument, imps, af>>
    BY DEF PrintList, Mapped, mainVars, nourineVars, misVars
<1>2. Settled /\ ListLeft
    BY DEF RunInv, Prepared
<1>3. UNCHANGED <<Must, May, PrintedAlong>>
    BY <1>1 DEF Must, May, PrintedAlong, Mis!LoopsLast, Mis!SelfAttackersLast, FirstClosed, Nourine!unit_close
<1>4. PICK E \in SUBSET SUBSET Arg :
            /\ Must \subseteq E /\ E \subseteq May
            /\ Printing(PrintedAlong, E, extensions, printed, TRUE)
    BY <1>1, <1>2 DEF ListLeft
<1>5. printed' = Append(printed, MapIndices(Head(extensions), PrintedAlong))
    <2>1. Head(extensions) \in SUBSET Arg
        <3>1. extensions \in Seq(SUBSET Arg)
            BY <1>4 DEF Printing
        <3> QED
            BY <1>1, <3>1
    <2> QED
        BY <1>1, <1>2, <2>1, PrintedAlongRight DEF PrintedAlong
<1>6. Printing(PrintedAlong, E, extensions', printed', TRUE)
    <2>1. PrintedAlong \in [Arg -> Arg] /\ Permutation(PrintedAlong)
        BY <1>2, PrintedAlongRight
    <2>2. Printing(PrintedAlong, E, Tail(extensions),
                   Append(printed, MapIndices(Head(extensions), PrintedAlong)), TRUE)
        BY <1>1, <1>4, <2>1, PrintHead
    <2> QED
        BY <1>1, <1>5, <2>2
<1>7. Working' /\ OneLeft' /\ DecisionLeft'
    BY <1>1 DEF Working, Running, OneLeft, DecisionLeft
<1>8. ListLeft'
    BY <1>1, <1>3, <1>4, <1>6 DEF ListLeft
<1> QED
    BY <1>7, <1>8

LEMMA ListPrintedStep ==
    ASSUME RunInv, ListPrinted
    PROVE  Working' /\ ListLeft' /\ OneLeft' /\ DecisionLeft'
<1>1. /\ pc = "print" /\ pc' = "exit" /\ prob = "EE" /\ extensions = <<>>
      /\ UNCHANGED <<alg, prob, input, order, base, argument, imps, af, printed, extensions>>
    BY DEF ListPrinted, mainVars, nourineVars, misVars
<1>2. ListLeft
    BY DEF RunInv
<1>3. UNCHANGED <<Must, May, PrintedAlong>>
    BY <1>1 DEF Must, May, PrintedAlong, Mis!LoopsLast, Mis!SelfAttackersLast, FirstClosed, Nourine!unit_close
<1>4. PICK E \in SUBSET SUBSET Arg :
            /\ Must \subseteq E /\ E \subseteq May
            /\ Printing(PrintedAlong, E, extensions, printed, TRUE)
    BY <1>1, <1>2 DEF ListLeft
<1>5. Working' /\ OneLeft' /\ DecisionLeft'
    BY <1>1 DEF Working, Running, OneLeft, DecisionLeft
<1>6. ListLeft'
    BY <1>1, <1>3, <1>4 DEF ListLeft
<1> QED
    BY <1>5, <1>6

LEMMA PrintOneStep ==
    ASSUME RunInv, PrintOne
    PROVE  Working' /\ ListLeft' /\ OneLeft' /\ DecisionLeft'
<1>1. /\ pc = "print" /\ prob = "SE"
      /\ UNCHANGED <<alg, prob, input, order, base, argument, imps, af>>
      /\ \/ alg = "mis" /\ extension = {} /\ pc' = "crash"
         \/ /\ ~(alg = "mis" /\ extension = {}) /\ pc' = "exit"
            /\ \E S \in IF alg = "mis" THEN extension ELSE {result} :
                   printed' = Append(printed, MapIndices(S, order))
    BY DEF PrintOne, Mapped, mainVars, nourineVars, misVars
<1>2. Settled /\ OneLeft /\ base \in Framework
    BY DEF RunInv, Prepared, Settled
<1>3. UNCHANGED May
    BY <1>1 DEF May, FirstClosed, Nourine!unit_close
<1>4. Working' /\ ListLeft' /\ DecisionLeft'
    BY <1>1 DEF Working, Running, ListLeft, DecisionLeft
<1>5. OneLeft'
    <2> SUFFICES ASSUME pc' = "exit"
                 PROVE  \/ printed' = <<{}>> /\ StableExtensions(base) = {}
                        \/ /\ alg = "norris"
                           /\ \E S \in StableExtensions(base) : printed' = Append(<<S>>, {})
                        \/ \E S \in May : printed' = <<MapIndices(S, order)>>
        BY <1>1, <1>3 DEF OneLeft
    <2>1. PICK S \in IF alg = "mis" THEN extension ELSE {result} :
                printed' = Append(printed, MapIndices(S, order))
        BY <1>1
    <2>2. MapIndices({}, order) = {}
        BY DEF MapIndices
    <2>3. \/ /\ alg = "norris" /\ result = {}
             /\ \/ printed = <<>> /\ StableExtensions(base) = {}
                \/ \E T \in StableExtensions(base) : printed = <<T>>
          \/ /\ alg = "nourine" /\ printed = <<>>
             /\ \/ result = {} /\ StableExtensions(base) = {}
                \/ result \in May
          \/ /\ alg = "mis" /\ printed = <<>>
             /\ \/ extension = {}
                \/ \E T \in StableExtensions(base) : extension = {T}
        BY <1>1, <1>2 DEF OneLeft
    <2>4. \A x : Append(<<>>, x) = <<x>>
        OBVIOUS
    <2>6. CASE alg = "norris"
        <3>1. S = {} /\ printed' = Append(printed, {})
            BY <2>1, <2>2, <2>3, <2>6
        <3> QED
            BY <2>3, <2>4, <2>6, <3>1
    <2>7. CASE alg = "nourine"
        <3>1. printed' = <<MapIndices(result, order)>>
            BY <2>1, <2>3, <2>4, <2>7
        <3> QED
            BY <2>2, <2>3, <2>7, <3>1
    <2>8. CASE alg = "mis"
        <3>1. printed' = <<MapIndices(S, order)>> /\ S \in StableExtensions(base)
            BY <2>1, <2>3, <2>4, <2>8
        <3> QED
            BY <3>1 DEF May
    <2> QED
        BY <2>3, <2>6, <2>7, <2>8
<1> QED
    BY <1>4, <1>5

LEMMA PrintAnswerStep ==
    ASSUME RunInv, PrintAnswer
    PROVE  Working' /\ ListLeft' /\ OneLeft' /\ DecisionLeft'
<1> DEFINE answer == (IF alg = "mis" THEN extension ELSE {result}) \ {{}}
<1>1. /\ pc = "print" /\ pc' = "exit" /\ prob = "DC"
      /\ UNCHANGED <<alg, prob, input, order, base, argument, af>>
      /\ printed' = IF answer = {} THEN printed
                    ELSE Append(printed, MapIndices(CHOOSE S \in answer : TRUE, order))
    BY DEF PrintAnswer, Mapped, mainVars, misVars
<1>2. Decision(answer) /\ printed = <<>>
    BY <1>1 DEF RunInv, DecisionLeft
<1>3. Working' /\ ListLeft' /\ OneLeft'
    BY <1>1 DEF Working, Running, ListLeft, OneLeft
<1> HIDE DEF answer
<1>4. DecisionLeft'
    <2>1. \A A : Decision(A)' <=> Decision(A)
        BY <1>1 DEF Decision, Excused, Mis!LoopsLast, Mis!SelfAttackersLast
    <2>2. answer = {} => printed' = <<>>
        BY <1>1, <1>2
    <2>3. ASSUME NEW T \in answer
          PROVE  printed' = <<MapIndices(T, order)>>
        <3>1. answer = {T}
            BY <1>2, <2>3 DEF Decision
        <3>2. (CHOOSE S \in answer : TRUE) = T
            BY <3>1
        <3>3. \A x : Append(<<>>, x) = <<x>>
            OBVIOUS
        <3> QED
            BY <1>1, <1>2, <3>1, <3>2, <3>3
    <2>4. /\ Decision(answer)
          /\ answer = {} => printed' = <<>>
          /\ \A T \in answer : printed' = <<MapIndices(T, order)>>
        BY <1>2, <2>2, <2>3
    <2>5. \E A : /\ Decision(A)
                 /\ A = {} => printed' = <<>>
                 /\ \A T \in A : printed' = <<MapIndices(T, order)>>
        BY <2>4
    <2> QED
        BY <1>1, <2>1, <2>5 DEF DecisionLeft
<1> QED
    BY <1>3, <1>4

LEMMA RunStutters ==
    ASSUME RunInv, UNCHANGED vars
    PROVE  Working' /\ ListLeft' /\ OneLeft' /\ DecisionLeft'
<1>1. /\ UNCHANGED <<mainVars, alg, prob, input, order, base, argument, printed, pc, i>>
      /\ UNCHANGED <<extensions, result>>
      /\ UNCHANGED <<concepts, cur, fresh, freed, conflicts, imps, closure>>
      /\ UNCHANGED <<af, parent_mapping, s, conflicting, dominated, pending, extension>>
      /\ UNCHANGED <<attacks, tmp, c, mapping, p, index_argument, mask, k>>
    BY DEF vars, mainVars, walkVars, norrisVars, nourineVars, misVars, dcVars
<1>2. UNCHANGED <<Must, May, PrintedAlong>>
    BY <1>1 DEF Must, May, PrintedAlong, Mis!LoopsLast, Mis!SelfAttackersLast, FirstClosed, Nourine!unit_close
<1>3. ListLeft' /\ OneLeft'
    BY <1>1, <1>2 DEF RunInv, ListLeft, OneLeft
<1>4. DecisionLeft'
    <2>1. \A A : Decision(A)' <=> Decision(A)
        BY <1>1 DEF Decision, Excused, Mis!LoopsLast, Mis!SelfAttackersLast
    <2> QED
        BY <1>1, <2>1 DEF RunInv, DecisionLeft, Decision, Excused, Mis!LoopsLast, Mis!SelfAttackersLast
<1>5. Working'
    <2> SUFFICES ASSUME Running
                 PROVE  /\ alg = "norris" => NorrisInv'
                        /\ alg = "norris-bu" => BuInv'
                        /\ alg = "nourine" => NourineInv'
                        /\ alg = "mis" => MisInv'
                        /\ alg = "next-closure" => Dc!IInv'
        BY <1>1 DEF RunInv, Working, Running
    <2>1. NorrisInv' <=> NorrisInv
        BY <1>1 DEF NorrisInv, NorState, NorDistinct, NorFound, NorSought, NorPrinted, StoodFor
    <2>2. BuInv' <=> BuInv
        BY <1>1 DEF BuInv, BuState, BuDistinct, BuFound, BuSought, BelowNode
    <2>3. NourineInv' <=> NourineInv
        <3>1. FirstClosed' = FirstClosed
            BY <1>1 DEF FirstClosed, Nourine!unit_close
        <3>2. NourineState' <=> NourineState
            BY <1>1 DEF NourineState
        <3>3. (Sharpened' <=> Sharpened) /\ (BeforeWalk' <=> BeforeWalk)
            BY <1>1 DEF Sharpened, BeforeWalk
        <3>4. (Candidate' <=> Candidate) /\ (NotPassed' <=> NotPassed)
            BY <1>1, <3>1 DEF Candidate, NotPassed, NotDominated
        <3>5. NourineEE' <=> NourineEE
            BY <1>1, <3>1 DEF NourineEE, Delivered
        <3>6. NourineSE' <=> NourineSE
            BY <1>1, <3>1 DEF NourineSE
        <3> QED
            BY <3>2, <3>3, <3>4, <3>5, <3>6 DEF NourineInv
    <2>4. MisInv => MisInv'
        <3>1. UNCHANGED Mis!problemVars /\ (MisLive' <=> MisLive) /\ MisLive' = MisLive
            BY <1>1 DEF Mis!problemVars, MisLive
        <3> QED
            BY <1>1, <3>1, MisSame
            DEF MisInv, MisState, MisOnce, MisFound, MisSought, MisAnswer
    <2>5. Dc!IInv => Dc!IInv'
        <3>1. UNCHANGED Dc!vars
            BY <1>1 DEF Dc!vars, Dc!setupVars, Dc!searchVars
        <3> QED
            BY <3>1, Dc!NextIInv, NAssumption
    <2> QED
        BY <2>1, <2>2, <2>3, <2>4, <2>5 DEF RunInv, Working
<1> QED
    BY <1>3, <1>4, <1>5

LEMMA RunNextInv ==
    ASSUME RunInv, [Next]_vars
    PROVE  RunInv'
<1>1. Prepared'
    BY PreparedStep DEF RunInv
<1>2. CASE Solve
    <2>1. Working' /\ pc' \notin {"print", "exit"}
        BY <1>2, SolveStep
    <2> QED
        BY <1>1, <2>1 DEF RunInv, ListLeft, OneLeft, DecisionLeft
<1>3. CASE Return
    BY <1>1, <1>3, ReturnStep DEF RunInv
<1>4. CASE PrintList
    BY <1>1, <1>4, PrintListStep DEF RunInv
<1>5. CASE ListPrinted
    BY <1>1, <1>5, ListPrintedStep DEF RunInv
<1>6. CASE PrintOne
    BY <1>1, <1>6, PrintOneStep DEF RunInv
<1>7. CASE PrintAnswer
    BY <1>1, <1>7, PrintAnswerStep DEF RunInv
<1>8. CASE Exited \/ UNCHANGED vars
    BY <1>1, <1>8, RunStutters DEF RunInv, Exited
<1> QED
    BY <1>2, <1>3, <1>4, <1>5, <1>6, <1>7, <1>8 DEF Next

(* The inductive invariant of the whole run: main's part, that of the        *)
(* routine that runs, and what is left to print.                             *)
THEOREM RunInvariant == Spec => []RunInv
<1>1. Init => RunInv
    BY RunInitInv
<1>2. RunInv /\ [Next]_vars => RunInv'
    BY RunNextInv
<1> QED
    BY <1>1, <1>2, PTL DEF Spec

-------------------------------------------------------------------------------
(* What the runs check.                                                      *)

(* The chain of swaps in dc_st_next_closure leaves a permutation with the    *)
(* arguments in conflict in front and the argument asked for behind them,    *)
(* whatever the framework and the argument.                                  *)
THEOREM RunMappingFaithful == Spec => []MappingFaithful
<1>1. RunInv => MappingFaithful
    BY DecideMapping DEF RunInv, Working, MappingFaithful
<1> QED
    BY <1>1, RunInvariant, PTL

(* Reverse search only tests maximal sets: whenever a call of extend has     *)
(* come to the last argument, the set is free of conflicts and can take in   *)
(* no argument, also when the call was made with a set that was cut back to  *)
(* what is compatible with its new argument.                                 *)
THEOREM RunLeafMaximal == Spec => []LeafMaximal
<1>1. RunInv => LeafMaximal
    BY MisLeaf DEF RunInv, Working, LeafMaximal
<1> QED
    BY <1>1, RunInvariant, PTL

(* Between two rounds of Norris' algorithm each extension not delivered has  *)
(* exactly one node that it can grow from: removing, updating and branching  *)
(* neither lose one nor set a second node to find it again.                  *)
THEOREM RunOneConceptEach == Spec => []OneConceptEach
<1>1. RunInv => OneConceptEach
    BY NorrisOneConceptEach DEF RunInv, Prepared, Settled, Working, OneConceptEach
<1> QED
    BY <1>1, RunInvariant, PTL

(* Bottom up, such an extension is below exactly one node.                   *)
THEOREM RunOneConceptAbove == Spec => []OneConceptAbove
<1>1. RunInv => OneConceptAbove
    BY BottomUpOneConceptAbove DEF RunInv, Prepared, Settled, Working, OneConceptAbove
<1> QED
    BY <1>1, RunInvariant, PTL

(* Conflicts and implications stay true of every stable extension in each    *)
(* of the two steps in which they sharpen each other.                        *)
THEOREM RunImplicationsHold == Spec => []ImplicationsHold
<1>1. ASSUME RunInv
      PROVE  ImplicationsHold
    <2> SUFFICES ASSUME Running, alg = "nourine"
                 PROVE  Nourine!ImplicationsHold
        BY DEF ImplicationsHold
    <2>1. Sharpened /\ base \in Framework
        BY <1>1 DEF RunInv, Prepared, Settled, Working, NourineInv
    <2> QED
        BY <2>1, NourineOperators DEF Sharpened, Nourine!ImplicationsHold
<1> QED
    BY <1>1, RunInvariant, PTL

(* The walk through the closed sets in the lectic order passes over no       *)
(* extension: one that is not listed is under test, or still ahead.          *)
THEOREM RunExtensionsAhead == Spec => []ExtensionsAhead
<1>1. ASSUME RunInv
      PROVE  ExtensionsAhead
    <2> SUFFICES ASSUME Running, alg = "nourine"
                 PROVE  Nourine!ExtensionsAhead
        BY DEF ExtensionsAhead
    <2>1. /\ NourineState /\ NourineEE /\ NotPassed /\ base \in Framework
          /\ prob \in {"EE", "SE"}
        BY <1>1, ProblemKinds DEF RunInv, Prepared, Settled, Working, NourineInv
    <2> SUFFICES ASSUME prob # "SE" \/ pc # "done", pc \notin {"update", "remove"},
                        NEW S \in StableExtensions(base), S \notin Nourine!Found
                 PROVE  \/ pc = "test" /\ (Arg \ S = closure \/ LecticLess(closure, Arg \ S))
                        \/ pc = "search" /\ Ahead(closure, i, Arg \ S)
        BY <2>1, NourineOperators DEF Nourine!ExtensionsAhead
    <2>2. S \notin Members(extensions)
        <3>1. S # {}
            BY <2>1, StableFacts
        <3> QED
            BY <3>1 DEF Nourine!Found, Members
    <2>3. Running /\ pc \in {"test", "search", "done"}
        BY <2>1 DEF NourineState, Running
    <2> QED
        BY <2>1, <2>2, <2>3 DEF NotPassed
<1> QED
    BY <1>1, RunInvariant, PTL

(* The stable extensions of the framework read are the images of those of    *)
(* the framework that is solved, if that is the one read but for the names.  *)
LEMMA WantedImages ==
    ASSUME Settled, SortedFramework
    PROVE  /\ \A S \in StableExtensions(base) :
                S \in SUBSET Arg /\ MapIndices(S, order) \in Wanted
           /\ \A x \in Wanted : \E S \in StableExtensions(base) : MapIndices(S, order) = x
           /\ \A x \in Wanted : x \in SUBSET Arg /\ x # {}
<1>1. /\ base \in Framework /\ input \in Framework /\ base = Renamed(input, order)
      /\ order \in [Arg -> Arg] /\ Permutation(order)
    BY DEF Settled, SortedFramework
<1>2. /\ StableExtensions(base) = {S \in SUBSET Arg : Stable(base, S)}
      /\ Wanted = {S \in SUBSET Arg : Stable(input, S)}
      /\ \A x \in Wanted : x \in SUBSET Arg /\ x # {}
    BY <1>1, StableFacts DEF Wanted
<1>3. ASSUME NEW S \in SUBSET Arg
      PROVE  /\ MapIndices(S, order) \in SUBSET Arg
             /\ Stable(base, S) <=> Stable(input, MapIndices(S, order))
    BY <1>1, RenamedStable, MapIndicesFacts
<1>4. ASSUME NEW x \in Wanted
      PROVE  \E S \in StableExtensions(base) : MapIndices(S, order) = x
    <2>1. PICK S \in SUBSET Arg : MapIndices(S, order) = x
        BY <1>1, <1>2, Preimage
    <2> QED
        BY <1>2, <1>3, <2>1
<1> QED
    BY <1>2, <1>3, <1>4

(* What may be printed is wanted, but for Nourine's first closure.           *)
LEMMA MayImages ==
    ASSUME Settled, SortedFramework, NEW S \in May
    PROVE  \/ S \in StableExtensions(base) /\ MapIndices(S, order) \in Wanted
           \/ alg = "nourine" /\ MapIndices(S, order) = FirstClosure
BY WantedImages DEF May, FirstClosure, FirstClosed, Mapped

(* EE-ST, by every algorithm and from every framework: each set is printed   *)
(* once; only stable extensions of the framework read are, but for the       *)
(* complement of the first closure by Nourine's algorithm; and all of them   *)
(* are, but by mis when an argument follows a self-attacker.                 *)
THEOREM RunEnumerationRight == Spec => []EnumerationRight
<1>1. ASSUME RunInv, pc = "exit", prob = "EE", Solvable
      PROVE  /\ Len(printed) = Cardinality(Printed)
             /\ Printed \subseteq Wanted \cup (IF alg = "nourine" THEN {FirstClosure} ELSE {})
             /\ Wanted \subseteq Printed \/ (alg = "mis" /\ ~Mis!LoopsLast)
    <2>1. Settled /\ SortedFramework /\ PrintedAlong = order /\ order \in [Arg -> Arg]
        BY <1>1 DEF RunInv, Prepared, Settled, Solvable, PrintedAlong
    <2>2. PICK E \in SUBSET SUBSET Arg :
                /\ Must \subseteq E /\ E \subseteq May
                /\ Printing(order, E, <<>>, printed, TRUE)
        BY <1>1, <2>1 DEF RunInv, ListLeft
    <2>3. /\ Len(printed) = Cardinality(Members(printed))
          /\ \A x \in Members(printed) : \E S \in E : x = MapIndices(S, order)
          /\ \A S \in E : MapIndices(S, order) \in Members(printed)
        BY <2>1, <2>2, AllPrinted
    <2>4. Printed = Members(printed)
        BY DEF Printed, Members
    <2>5. ASSUME NEW x \in Printed
          PROVE  x \in Wanted \/ (alg = "nourine" /\ x = FirstClosure)
        <3>1. PICK S \in E : x = MapIndices(S, order)
            BY <2>3, <2>4
        <3> QED
            BY <2>1, <2>2, <3>1, MayImages
    <2>6. ASSUME ~(alg = "mis" /\ ~Mis!LoopsLast), NEW x \in Wanted
          PROVE  x \in Printed
        <3>1. PICK S \in StableExtensions(base) : MapIndices(S, order) = x
            BY <2>1, WantedImages
        <3>2. S \in E
            BY <2>2, <2>6 DEF Must
        <3> QED
            BY <2>3, <2>4, <3>1, <3>2
    <2> QED
        BY <2>3, <2>4, <2>5, <2>6
<1>2. RunInv => EnumerationRight
    BY <1>1 DEF EnumerationRight
<1> QED
    BY <1>2, RunInvariant, PTL

(* SE-ST prints a stable extension of the framework read, or no argument if  *)
(* there is none, with the same exception.  That Norris' algorithm prints it *)
(* in the indices of the sorted framework does no harm: a sort in place only *)
(* adds attacks, so one that has left a renaming has changed nothing.        *)
THEOREM RunOneRight == Spec => []OneRight
<1>1. ASSUME RunInv, pc = "exit", prob = "SE", Solvable
      PROVE  /\ Printed \subseteq Wanted \cup {{}}
                                  \cup (IF alg = "nourine" THEN {FirstClosure} ELSE {})
             /\ \/ Wanted = {} <=> Printed \subseteq {{}}
                \/ alg = "nourine" /\ FirstClosure \in Printed
    <2>1. Settled /\ SortedFramework /\ OneLeft /\ base \in Enlarged(input)
        BY <1>1 DEF RunInv, Prepared, Solvable
    <2>2. \A x : printed = <<x>> => Printed = {x}
        BY DEF Printed
    <2>3. \A x \in Wanted : x # {}
        BY <2>1, WantedImages
    <2>4. \/ printed = <<{}>> /\ StableExtensions(base) = {}
          \/ \E S \in StableExtensions(base) : printed = Append(<<S>>, {})
          \/ \E S \in May : printed = <<MapIndices(S, order)>>
        BY <1>1, <2>1 DEF OneLeft
    <2>5. CASE printed = <<{}>> /\ StableExtensions(base) = {}
        <3>1. Wanted = {}
            BY <2>1, <2>5, WantedImages
        <3> QED
            BY <2>2, <2>5, <3>1
    <2>6. CASE \E S \in StableExtensions(base) : printed = Append(<<S>>, {})
        <3>1. PICK S \in StableExtensions(base) : printed = Append(<<S>>, {})
            BY <2>6
        <3>2. base = input
            BY <2>1, RenamedSame DEF Settled, SortedFramework
        <3>3. S \in Wanted /\ S \in SUBSET Arg
            BY <2>1, <3>1, <3>2, WantedImages DEF Wanted
        <3>4. Printed = {S, {}}
            <4>1. <<S>> \in Seq(SUBSET Arg) /\ {} \in SUBSET Arg
                BY <3>3
            <4>2. DOMAIN printed = {1, 2} /\ printed[1] = S /\ printed[2] = {}
                BY <3>1, <4>1
            <4> QED
                BY <4>2 DEF Printed
        <3> QED
            BY <2>3, <3>3, <3>4
    <2>7. CASE \E S \in May : printed = <<MapIndices(S, order)>>
        <3>1. PICK S \in May : printed = <<MapIndices(S, order)>>
            BY <2>7
        <3>2. Printed = {MapIndices(S, order)}
            BY <2>2, <3>1
        <3>3. \/ MapIndices(S, order) \in Wanted
              \/ alg = "nourine" /\ MapIndices(S, order) = FirstClosure
            BY <2>1, MayImages
        <3> QED
            BY <2>3, <3>2, <3>3
    <2> QED
        BY <2>4, <2>5, <2>6, <2>7
<1>2. RunInv => OneRight
    BY <1>1 DEF OneRight
<1> QED
    BY <1>2, RunInvariant, PTL

(* DC-ST decides on the argument asked for: a set it prints is a stable      *)
(* extension, and from mis one that holds the argument; it prints one with   *)
(* the argument if there is an extension with it and another one, by mis     *)
(* any with it if the self-attackers come last.                              *)
THEOREM RunDecisionRight == Spec => []DecisionRight
<1>1. ASSUME RunInv, pc = "exit", prob = "DC", SortedFramework, ArgumentKept
      PROVE  /\ \A S \in Printed : S \in Wanted /\ (alg = "mis" => argument \in S)
             /\ \A S \in Wanted : argument \in S =>
                    \/ \E T \in Printed : argument \in T
                    \/ alg = "next-closure" /\ S = {argument}
                    \/ alg = "mis" /\ ~Mis!LoopsLast
    <2>1. /\ Settled /\ DecisionLeft
          /\ order \in [Arg -> Arg] /\ Permutation(order)
        BY <1>1 DEF RunInv, Prepared, Settled
    <2>2. PICK answer : /\ Decision(answer)
                        /\ answer = {} => printed = <<>>
                        /\ \A T \in answer : printed = <<MapIndices(T, order)>>
        BY <1>1, <2>1 DEF DecisionLeft
    <2>3. \A x : printed = <<x>> => Printed = {x}
        BY DEF Printed
    <2>4. answer = {} => Printed = {}
        BY <2>2 DEF Printed
    <2>5. \A T \in answer : Printed = {MapIndices(T, order)} /\ T \in StableExtensions(base)
        BY <2>2, <2>3 DEF Decision
    <2>6. ASSUME NEW T \in SUBSET Arg, argument \in T
          PROVE  argument \in MapIndices(T, order)
        BY <1>1, <2>6 DEF ArgumentKept, MapIndices
    <2>7. ASSUME NEW S \in Printed
          PROVE  S \in Wanted /\ (alg = "mis" => argument \in S)
        <3>1. PICK T \in answer : TRUE
            BY <2>4, <2>7
        <3>2. S = MapIndices(T, order) /\ T \in StableExtensions(base)
            BY <2>5, <2>7, <3>1
        <3>3. T \in SUBSET Arg /\ MapIndices(T, order) \in Wanted
            BY <1>1, <2>1, <3>2, WantedImages
        <3>4. alg = "mis" => argument \in T
            BY <2>2, <3>1 DEF Decision
        <3> QED
            BY <2>6, <3>2, <3>3, <3>4
    <2>8. ASSUME NEW S \in Wanted, argument \in S
          PROVE  \/ \E T \in Printed : argument \in T
                 \/ alg = "next-closure" /\ S = {argument}
                 \/ alg = "mis" /\ ~Mis!LoopsLast
        <3>1. PICK X \in StableExtensions(base) : MapIndices(X, order) = S
            BY <1>1, <2>1, WantedImages
        <3>2. X \in SUBSET Arg /\ S \in SUBSET Arg
            BY <1>1, <2>1, <2>8, <3>1, WantedImages
        <3>3. argument \in X
            <4>1. argument \in Arg
                BY <2>8, <3>2
            <4>2. order[argument] \in MapIndices(X, order) <=> argument \in X
                BY <2>1, <3>2, <4>1, MapIndicesFacts
            <4> QED
                BY <1>1, <2>8, <3>1, <4>2 DEF ArgumentKept
        <3>4. CASE Excused(X)
            <4>1. X = {argument} => S = {argument}
                BY <1>1, <3>1 DEF ArgumentKept, MapIndices
            <4> QED
                BY <3>4, <4>1 DEF Excused
        <3>5. CASE \E T \in answer : argument \in T
            <4>1. PICK T \in answer : argument \in T
                BY <3>5
            <4>2. T \in SUBSET Arg
                BY <1>1, <2>1, <2>5, <4>1, WantedImages
            <4> QED
                BY <2>5, <2>6, <4>1, <4>2
        <3> QED
            BY <2>2, <3>1, <3>3, <3>4, <3>5 DEF Decision
    <2> QED
        BY <2>7, <2>8
<1>2. RunInv => DecisionRight
    BY <1>1 DEF DecisionRight
<1> QED
    BY <1>2, RunInvariant, PTL

=================================================================================
