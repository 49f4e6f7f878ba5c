---------------------------- MODULE DcStableNC_proofs ----------------------------
(***************************************************************************)
(* DC-ST by next closure, for every number of arguments and every set of   *)
(* input frameworks: the chain of swaps leaves a renaming, what is         *)
(* returned is a stable extension in the indices of the input, and no      *)
(* extension that holds the argument and another one is missed.            *)
(*                                                                         *)
(* The invariant has two halves.  While the mapping is built (Swapped),    *)
(* the front holds arguments in conflict, the passed part behind it none,  *)
(* and the argument is where index_argument says.  During the search       *)
(* (Underway) the sets ahead lie lectically above the argument alone, and  *)
(* every extension sought lies ahead of it.                                *)
(***************************************************************************)
EXTENDS DcStableNC, NextClosure_proofs

Types ==
    /\ af \in Framework
    /\ argument \in Arg
    /\ attacks \in Framework
    /\ mapping \in [Arg -> Arg]
    /\ p \in 0 .. N
    /\ index_argument \in Arg
    /\ mask = 0 .. p-1
    /\ k \in 0 .. N
    /\ result \in SUBSET Arg
    /\ tmp \in SUBSET Arg
    /\ c \in SUBSET Arg
    /\ i \in -1 .. N-1
    /\ pc \in {"setup", "search", "check", "done"}

Swapped ==
    /\ pc = "setup" /\ ~SelfAttacks =>
        /\ p <= k
        /\ mapping[index_argument] = argument
        /\ \A a \in Arg : a < p => Conflicting(mapping[a])
        /\ \A a \in Arg : p <= a /\ a < k => ~Conflicting(mapping[a])
        /\ \A a \in Arg : k <= a => mapping[a] = a
    /\ pc = "setup" => result = {}

(* What Rename has established.                                              *)
Prepared ==
    pc # "setup" /\ ~SelfAttacks =>
        /\ p \in Arg
        /\ attacks = Renamed(af, mapping)
        /\ mapping[p] = argument
        /\ \A a \in Arg : Conflicting(mapping[a]) <=> a < p

(* The extensions sought, in the numbering of the search.                    *)
Sought(S) == S \in SUBSET Arg /\ Stable(attacks, S) /\ p \in S /\ S # {p}

Underway ==
    /\ pc \in {"search", "check"} => ~SelfAttacks /\ result = {}
    /\ pc = "search" =>
        /\ \A S \in SUBSET Arg : Sought(S) => Ahead(tmp, i, S)
        /\ \A T \in SUBSET Arg : Ahead(tmp, i, T) => LecticLess({p}, T)
    /\ pc = "check" =>
        /\ \A S \in SUBSET Arg : Sought(S) => S = c \/ LecticLess(c, S)
        /\ LecticLess({p}, c)

IInv ==
    /\ Types
    /\ Permutation(mapping)
    /\ Trimmed
    /\ Swapped
    /\ Prepared
    /\ Underway
    /\ ResultStable
    /\ LargerNotMissed

-------------------------------------------------------------------------------
(* The front.                                                                *)

(* A stable extension of the renamed framework that holds q, before which    *)
(* everything is in conflict with q, begins with q.                          *)
LEMMA BeginsWith ==
    ASSUME NEW f \in Framework, NEW m \in [Arg -> Arg], NEW q \in Arg,
           NEW S \in SUBSET Arg, Stable(Renamed(f, m), S), q \in S,
           \A a \in Arg : a < q => m[q] \in f[m[a]] \/ m[a] \in f[m[q]]
    PROVE  /\ \A x \in S : q <= x
           /\ S # {q} => LecticLess({q}, S)
<1>1. \A a, b \in S : b \notin Renamed(f, m)[a]
    BY RenamedFramework DEF Stable, Framework
<1>2. \A a, b \in S : m[b] \notin f[m[a]]
    BY <1>1, RenamedFramework
<1>3. ASSUME NEW x \in S, ~(q <= x)
      PROVE  FALSE
    <2>1. x < q
        BY <1>3, NAssumption DEF Arg
    <2> QED
        BY <1>2, <1>3, <2>1
<1>4. ASSUME S # {q}
      PROVE  LecticLess({q}, S)
    <2>1. PICK n \in S \ {q} : \A x \in S \ {q} : n <= x
        BY <1>4, LeastArgument
    <2>2. q < n
        BY <1>3, <2>1, NAssumption DEF Arg
    <2>3. ASSUME NEW j \in Arg, j < n
          PROVE  j \in {q} <=> j \in S
        <3>1. ~(n <= j)
            BY <2>3, NAssumption DEF Arg
        <3> QED
            BY <2>1, <3>1
    <2> QED
        BY <2>1, <2>2, <2>3 DEF LecticLess, SameBelow
<1> QED
    BY <1>3, <1>4

(* A set between q alone and an extension that begins with q does so too.    *)
LEMMA Between ==
    ASSUME NEW q \in Arg, NEW S \in SUBSET Arg, NEW T \in SUBSET Arg,
           LecticLess({q}, S), S = T \/ LecticLess(S, T),
           q \in T, \A x \in T : q <= x
    PROVE  q \in S /\ S \cap (0 .. q-1) = {}
<1>1. CASE S = T
    BY <1>1, NAssumption DEF Arg
<1>2. CASE LecticLess(S, T)
    <2>1. PICK j \in Arg : j \in T /\ j \notin S /\ SameBelow(S, T, j)
        BY <1>2 DEF LecticLess
    <2>2. ASSUME NEW x \in S, x < q
          PROVE  FALSE
        <3>1. x \in Arg /\ x \notin T
            BY <2>2, NAssumption DEF Arg
        <3>2. x < j
            BY <2>1, <2>2, <3>1, NAssumption DEF Arg
        <3> QED
            BY <2>1, <2>2, <3>1, <3>2 DEF SameBelow
    <2>3. PICK l \in Arg : l \in S /\ l # q /\ SameBelow({q}, S, l)
        BY DEF LecticLess
    <2>4. q < l
        BY <2>2, <2>3, NAssumption DEF Arg
    <2>5. q \in S
        BY <2>3, <2>4 DEF SameBelow
    <2> QED
        BY <2>2, <2>5, NAssumption DEF Arg
<1> QED
    BY <1>1, <1>2

(* In the search, what is sought begins with the argument.                   *)
LEMMA SoughtBegins ==
    ASSUME Types, Prepared, pc # "setup", ~SelfAttacks, NEW S, Sought(S)
    PROVE  /\ \A x \in S : p <= x
           /\ LecticLess({p}, S)
<1>1. /\ p \in Arg /\ attacks = Renamed(af, mapping) /\ mapping[p] = argument
      /\ \A a \in Arg : a < p => Conflicting(mapping[a])
    BY DEF Prepared
<1>2. \A a \in Arg : a < p => \/ mapping[p] \in af[mapping[a]]
                              \/ mapping[a] \in af[mapping[p]]
    BY <1>1 DEF Conflicting, ArgAttacksArg
<1>3. /\ S \in SUBSET Arg /\ Stable(Renamed(af, mapping), S) /\ p \in S /\ S # {p}
      /\ af \in Framework /\ mapping \in [Arg -> Arg]
    BY <1>1 DEF Sought, Types
<1> QED
    BY <1>1, <1>2, <1>3, BeginsWith

(* If there is an extension as DC-ST should find one, something is sought.   *)
LEMMA SoughtExists ==
    ASSUME Types, Permutation(mapping), Prepared, pc # "setup", ~SelfAttacks,
           NEW S \in StableExtensions(af), argument \in S, S # {argument}
    PROVE  \E T \in SUBSET Arg : Sought(T)
<1>1. /\ p \in Arg /\ attacks = Renamed(af, mapping) /\ mapping[p] = argument
      /\ mapping \in [Arg -> Arg] /\ af \in Framework
    BY DEF Prepared, Types
<1>2. S \in SUBSET Arg /\ Stable(af, S)
    BY <1>1 DEF StableExtensions, Framework
<1>3. PICK T \in SUBSET Arg : MapIndices(T, mapping) = S
    BY <1>1, <1>2, Preimage
<1>4. Stable(attacks, T)
    BY <1>1, <1>2, <1>3, RenamedStable
<1>5. p \in T
    BY <1>1, <1>3 DEF MapIndices, Permutation
<1>6. T # {p}
    BY <1>1, <1>3 DEF MapIndices
<1> QED
    BY <1>4, <1>5, <1>6 DEF Sought

-------------------------------------------------------------------------------
(* One lemma per action: it keeps the inductive invariant.                   *)

LEMMA InitIInv ==
    ASSUME Inputs \subseteq Framework, Init
    PROVE  IInv
<1>1. Types
    BY NAssumption DEF Init, Types, Framework, NoAttacks, Arg
<1>2. Permutation(mapping)
    BY DEF Init, Permutation
<1>3. Swapped
    BY NAssumption DEF Init, Swapped, Arg
<1>4. Trimmed /\ Prepared /\ Underway /\ ResultStable /\ LargerNotMissed
    BY DEF Init, Trimmed, Prepared, Underway, ResultStable, LargerNotMissed
<1> QED
    BY <1>1, <1>2, <1>3, <1>4 DEF IInv

(* A self-attacker is in no stable extension.                                *)
LEMMA RefuseIInv == ASSUME IInv, Refuse PROVE IInv'
<1>1. Types' /\ Permutation(mapping)'
    BY DEF IInv, Types, Permutation, Refuse, setupVars
<1>2. pc' = "done" /\ SelfAttacks /\ SelfAttacks' /\ result' = {}
    BY DEF IInv, Swapped, Refuse, setupVars, SelfAttacks, ArgAttacksArg
<1>3. Trimmed' /\ Swapped' /\ Prepared' /\ Underway' /\ ResultStable'
    BY <1>2 DEF Trimmed, Swapped, Prepared, Underway, ResultStable
<1>4. LargerNotMissed'
    <2> SUFFICES ASSUME NEW S \in StableExtensions(af), argument \in S
                 PROVE  FALSE
        BY DEF LargerNotMissed, Refuse, setupVars
    <2>1. DOMAIN af = Arg /\ argument \in Arg /\ Stable(af, S)
        BY DEF IInv, Types, Framework, StableExtensions
    <2> QED
        BY <1>2, <2>1 DEF Stable, SelfAttacks, ArgAttacksArg
<1> QED
    BY <1>1, <1>3, <1>4 DEF IInv

(* The argument is in conflict with itself only if it attacks itself, so it  *)
(* is never the one that is moved to the front.                              *)
LEMMA ArgumentBehindFront ==
    ASSUME IInv, pc = "setup", ~SelfAttacks
    PROVE  /\ ~Conflicting(argument)
           /\ p <= index_argument
<1>1. ~Conflicting(argument)
    BY DEF Conflicting, SelfAttacks
<1>2. index_argument \in Arg /\ p \in 0 .. N /\ mapping[index_argument] = argument
    BY DEF IInv, Types, Swapped
<1>3. ~(index_argument < p)
    BY <1>1, <1>2 DEF IInv, Swapped
<1> QED
    BY <1>1, <1>2, <1>3, NAssumption DEF Arg

LEMMA MoveConflictingIInv == ASSUME IInv, MoveConflicting PROVE IInv'
<1>1. /\ pc = "setup" /\ ~SelfAttacks /\ pc' = pc /\ af' = af /\ argument' = argument
      /\ k \in Arg /\ p \in Arg /\ p <= k /\ k' = k + 1 /\ p' = p + 1
      /\ mapping \in [Arg -> Arg] /\ Permutation(mapping) /\ mapping[k] = k
      /\ Conflicting(k)
    BY NAssumption DEF IInv, Types, Swapped, MoveConflicting, searchVars, Arg
<1>2. /\ mapping' \in [Arg -> Arg] /\ Permutation(mapping')
      /\ mapping'[p] = k /\ mapping'[k] = mapping[p]
      /\ \A a \in Arg : a # p /\ a # k => mapping'[a] = mapping[a]
    BY <1>1, SwapPermutation DEF MoveConflicting
<1>3. \A x : Conflicting(x)' <=> Conflicting(x)
    BY <1>1 DEF Conflicting
<1>4. mapping'[index_argument'] = argument /\ index_argument' \in Arg
    <2>1. CASE mapping'[k] = argument
        BY <1>1, <2>1 DEF MoveConflicting
    <2>2. CASE mapping'[k] # argument
        <3>1. /\ index_argument' = index_argument /\ index_argument \in Arg
              /\ mapping[index_argument] = argument
            BY <1>1, <2>2 DEF MoveConflicting, IInv, Types, Swapped
        <3>2. index_argument # k
            BY <1>1, <3>1, ArgumentBehindFront
        <3>3. index_argument # p
            BY <1>2, <2>2, <3>1
        <3> QED
            BY <1>2, <3>1, <3>2, <3>3
    <2> QED
        BY <2>1, <2>2
<1>5. Types'
    <2>1. p' \in 0 .. N /\ k' \in 0 .. N /\ mask' = 0 .. p'-1
        <3>1. mask = 0 .. p-1 /\ mask' = mask \cup {p}
            BY DEF IInv, Types, MoveConflicting
        <3>2. /\ k \in Nat /\ k < N /\ p \in Nat /\ p < N /\ N \in Nat
              /\ k' = k + 1 /\ p' = p + 1
            BY <1>1, NAssumption DEF Arg
        <3>3. p' \in 0 .. N /\ k' \in 0 .. N
            BY <3>2
        <3>4. (0 .. p-1) \cup {p} = 0 .. (p+1)-1
            BY <3>2
        <3> QED
            BY <3>1, <3>2, <3>3, <3>4
    <2> QED
        BY <1>1, <1>2, <1>4, <2>1 DEF IInv, Types, MoveConflicting, searchVars
<1>6. \A a \in Arg : a < p' => Conflicting(mapping'[a])
    <2> SUFFICES ASSUME NEW a \in Arg, a < p'
                 PROVE  Conflicting(mapping'[a])
        OBVIOUS
    <2>1. CASE a = p
        BY <1>1, <1>2, <2>1
    <2>2. CASE a # p
        <3>1. a < p /\ a # k
            BY <1>1, <2>2, NAssumption DEF Arg
        <3> QED
            BY <1>1, <1>2, <2>2, <3>1 DEF IInv, Swapped
    <2> QED
        BY <2>1, <2>2
<1>7. \A a \in Arg : p' <= a /\ a < k' => ~Conflicting(mapping'[a])
    <2> SUFFICES ASSUME NEW a \in Arg, p' <= a, a < k'
                 PROVE  ~Conflicting(mapping'[a])
        OBVIOUS
    <2>1. p < a /\ a <= k
        BY <1>1, NAssumption DEF Arg
    <2>2. CASE a = k
        <3>1. p <= p /\ p < k
            BY <1>1, <2>1, <2>2, NAssumption DEF Arg
        <3> QED
            BY <1>1, <1>2, <2>2, <3>1 DEF IInv, Swapped
    <2>3. CASE a # k
        <3>1. a < k /\ a # p /\ p <= a
            BY <1>1, <2>1, <2>3, NAssumption DEF Arg
        <3> QED
            BY <1>1, <1>2, <2>3, <3>1 DEF IInv, Swapped
    <2> QED
        BY <2>2, <2>3
<1>8. \A a \in Arg : k' <= a => mapping'[a] = a
    <2> SUFFICES ASSUME NEW a \in Arg, k' <= a
                 PROVE  mapping'[a] = a
        OBVIOUS
    <2>1. k <= a /\ a # k /\ a # p
        BY <1>1, NAssumption DEF Arg
    <2> QED
        BY <1>1, <1>2, <2>1 DEF IInv, Swapped
<1>9. result' = {} /\ p' <= k'
    BY <1>1, NAssumption DEF IInv, Swapped, MoveConflicting, Arg
<1>10. Swapped'
    BY <1>1, <1>4, <1>6, <1>7, <1>8, <1>9 DEF Swapped, Conflicting
<1>11. Trimmed' /\ Prepared' /\ Underway' /\ ResultStable' /\ LargerNotMissed'
    BY <1>1, <1>9 DEF Trimmed, Prepared, Underway, ResultStable, LargerNotMissed
<1> QED
    BY <1>2, <1>5, <1>10, <1>11 DEF IInv, Permutation

LEMMA LeaveInPlaceIInv == ASSUME IInv, LeaveInPlace PROVE IInv'
<1>1. /\ pc = "setup" /\ ~SelfAttacks /\ pc' = pc /\ af' = af /\ argument' = argument
      /\ k \in Arg /\ p \in 0 .. N /\ p <= k /\ k' = k + 1 /\ p' = p
      /\ mapping' = mapping /\ mapping[k] = k /\ index_argument' = index_argument
      /\ result' = result /\ ~Conflicting(k)
    BY NAssumption DEF IInv, Types, Swapped, LeaveInPlace, searchVars, Arg
<1>2. Types' /\ Permutation(mapping)'
    <2>1. k' \in 0 .. N
        BY <1>1, NAssumption DEF Arg
    <2>2. Types'
        BY <1>1, <2>1 DEF IInv, Types, LeaveInPlace, searchVars
    <2> QED
        BY <1>1, <2>2 DEF IInv, Permutation
<1>3. \A a \in Arg : p' <= a /\ a < k' => ~Conflicting(mapping'[a])
    <2> SUFFICES ASSUME NEW a \in Arg, p <= a, a < k + 1
                 PROVE  ~Conflicting(mapping[a])
        BY <1>1
    <2>1. a < k \/ a = k
        BY <1>1, NAssumption DEF Arg
    <2> QED
        BY <1>1, <2>1 DEF IInv, Swapped
<1>4. \A a \in Arg : k' <= a => k <= a
    BY <1>1, NAssumption DEF Arg
<1>5. p' <= k'
    BY <1>1, NAssumption DEF Arg
<1>6. Swapped'
    BY <1>1, <1>3, <1>4, <1>5 DEF IInv, Swapped, Conflicting
<1>7. Trimmed' /\ Prepared' /\ Underway' /\ ResultStable' /\ LargerNotMissed'
    BY <1>1 DEF IInv, Swapped, Trimmed, Prepared, Underway, ResultStable, LargerNotMissed
<1> QED
    BY <1>2, <1>6, <1>7 DEF IInv

(* The swap of the argument completes the renaming, and the search starts    *)
(* below everything sought.                                                  *)
LEMMA RenameIInv == ASSUME IInv, Rename PROVE IInv'
<1>1. /\ pc = "setup" /\ ~SelfAttacks /\ k = N /\ af' = af /\ argument' = argument
      /\ k' = k /\ p' = p /\ mask' = mask /\ mask = 0 .. p-1 /\ c' = c
      /\ index_argument' = index_argument /\ result' = result /\ result = {}
      /\ attacks' = Renamed(af, mapping') /\ af \in Framework
      /\ mapping \in [Arg -> Arg] /\ Permutation(mapping)
      /\ index_argument \in Arg /\ mapping[index_argument] = argument
    BY DEF IInv, Types, Swapped, Rename
<1>2. ~Conflicting(argument) /\ p <= index_argument /\ p \in Arg
    <2>1. ~Conflicting(argument) /\ p <= index_argument
        BY <1>1, ArgumentBehindFront
    <2>2. p \in 0 .. N
        BY DEF IInv, Types
    <2> QED
        BY <1>1, <2>1, <2>2, NAssumption DEF Arg
<1>3. /\ mapping' \in [Arg -> Arg] /\ Permutation(mapping')
      /\ mapping'[p] = argument /\ mapping'[index_argument] = mapping[p]
      /\ \A a \in Arg : a # p /\ a # index_argument => mapping'[a] = mapping[a]
    <2>1. mapping' = [mapping EXCEPT ![p] = mapping[index_argument],
                                     ![index_argument] = mapping[p]]
        BY <1>1 DEF Rename
    <2> QED
        BY <1>1, <1>2, <2>1, SwapPermutation
<1>4. \A a \in Arg : Conflicting(mapping'[a]) <=> a < p
    <2>1. \A a \in Arg : a < p => Conflicting(mapping[a])
        BY <1>1 DEF IInv, Swapped
    <2>2. \A a \in Arg : p <= a => ~Conflicting(mapping[a])
        BY <1>1, NAssumption DEF IInv, Swapped, Arg
    <2> SUFFICES ASSUME NEW a \in Arg
                 PROVE  Conflicting(mapping'[a]) <=> a < p
        OBVIOUS
    <2>3. CASE a < p
        <3>1. a # p /\ a # index_argument
            BY <1>1, <1>2, <2>3, NAssumption DEF Arg
        <3> QED
            BY <1>3, <2>1, <2>3, <3>1
    <2>4. CASE a = p
        BY <1>2, <1>3, <2>4, NAssumption DEF Arg
    <2>5. CASE p < a /\ a = index_argument
        <3>1. p <= p /\ ~(a < p)
            BY <1>2, <2>5, NAssumption DEF Arg
        <3> QED
            BY <1>2, <1>3, <2>2, <2>5, <3>1
    <2>6. CASE p < a /\ a # index_argument
        <3>1. a # p /\ p <= a /\ ~(a < p)
            BY <1>2, <2>6, NAssumption DEF Arg
        <3> QED
            BY <1>3, <2>2, <2>6, <3>1
    <2> QED
        BY <1>2, <2>3, <2>4, <2>5, <2>6, NAssumption DEF Arg
<1>5. tmp' = {p} /\ i' = N - 1 /\ pc' = "search"
    <2>1. {p} \cap mask = {}
        BY <1>1, <1>2, NAssumption DEF Arg
    <2> QED
        BY <2>1 DEF Rename, Round
<1>6. attacks' \in Framework
    BY <1>1, <1>3, RenamedFramework
<1>7. Types'
    <2>1. tmp' \in SUBSET Arg /\ i' \in -1 .. N-1
        BY <1>2, <1>5, NAssumption DEF Arg
    <2> QED
        BY <1>1, <1>3, <1>5, <1>6, <2>1 DEF IInv, Types
<1>8. Trimmed'
    BY <1>2, <1>5, NAssumption DEF Trimmed, Arg
<1>9. Prepared'
    BY <1>1, <1>2, <1>3, <1>4 DEF Prepared, Conflicting
<1>10. ~SelfAttacks'
    BY <1>1 DEF SelfAttacks
<1>11. \A S \in SUBSET Arg : Sought(S)' => Ahead({p}, N-1, S)
    <2> SUFFICES ASSUME NEW S \in SUBSET Arg, Sought(S)'
                 PROVE  Ahead({p}, N-1, S)
        OBVIOUS
    <2>1. LecticLess({p}, S)
        <3>1. \A a \in Arg : a < p => \/ argument \in af[mapping'[a]]
                                      \/ mapping'[a] \in af[argument]
            BY <1>4 DEF Conflicting, ArgAttacksArg
        <3>2. Stable(Renamed(af, mapping'), S) /\ p \in S /\ S # {p}
            BY <1>1 DEF Sought
        <3> QED
            BY <1>1, <1>2, <1>3, <3>1, <3>2, BeginsWith
    <2> QED
        BY <1>2, <2>1, AheadOfAll
<1>12. \A T \in SUBSET Arg : Ahead({p}, N-1, T) => LecticLess({p}, T)
    BY <1>2, AheadOfAll
<1>13. Underway'
    BY <1>1, <1>5, <1>10, <1>11, <1>12 DEF Underway
<1>14. Swapped' /\ ResultStable' /\ LargerNotMissed'
    BY <1>1, <1>5 DEF Swapped, ResultStable, LargerNotMissed
<1> QED
    BY <1>3, <1>7, <1>8, <1>9, <1>13, <1>14 DEF IInv, Permutation

(* The search passes nothing sought, and when it has run dry there was       *)
(* nothing sought.                                                           *)
LEMMA SearchIInv == ASSUME IInv, Search PROVE IInv'
<1>1. /\ SearchStep /\ pc = "search" /\ ~SelfAttacks /\ attacks' = attacks
      /\ af' = af /\ argument' = argument /\ mapping' = mapping /\ p' = p
      /\ mask' = mask /\ result' = result /\ result = {}
      /\ index_argument' = index_argument /\ k' = k
      /\ pc' \in {"search", "check", "done"}
    BY DEF IInv, Underway, Search, SearchStep, Drop, SkipConflict, Close, Exhausted,
           Searching, setupVars
<1>2. SearchTypeOK /\ Trimmed
    BY DEF IInv, Types, SearchTypeOK
<1>3. SearchTypeOK' /\ Trimmed'
    BY <1>1, <1>2, SearchStepTypes
<1>4. Types' /\ Permutation(mapping)'
    <2>1. Types'
        BY <1>1, <1>3 DEF IInv, Types, SearchTypeOK
    <2> QED
        BY <1>1, <2>1 DEF IInv, Permutation
<1>5. ~SelfAttacks' /\ Swapped' /\ Prepared' /\ ResultStable'
    BY <1>1 DEF IInv, SelfAttacks, Swapped, Prepared, Conflicting, ResultStable
<1>6. /\ p \in Arg
      /\ \A S : Sought(S)' <=> Sought(S)
      /\ \A S \in SUBSET Arg : Sought(S) => Stable(attacks, S) /\ Ahead(tmp, i, S)
      /\ \A T \in SUBSET Arg : Ahead(tmp, i, T) => LecticLess({p}, T)
    BY <1>1 DEF IInv, Prepared, Underway, Sought
<1>7. \A S \in SUBSET Arg : Sought(S) =>
            \/ pc' = "search" /\ Ahead(tmp', i', S)
            \/ pc' = "check" /\ (S = c' \/ LecticLess(c', S))
    BY <1>1, <1>2, <1>6, StableStaysAhead
<1>8. \A T \in SUBSET Arg :
            \/ pc' = "search" /\ Ahead(tmp', i', T)
            \/ pc' = "check" /\ T = c'
            => LecticLess({p}, T)
    BY <1>1, <1>2, <1>6, NothingReturns
<1>9. Underway'
    <2>1. c' \in SUBSET Arg
        BY <1>4 DEF Types
    <2> QED
        BY <1>1, <1>5, <1>6, <1>7, <1>8, <2>1 DEF Underway
<1>10. LargerNotMissed'
    <2> SUFFICES ASSUME pc' = "done", NEW S \in StableExtensions(af),
                        argument \in S, S # {argument}
                 PROVE  FALSE
        BY <1>1 DEF LargerNotMissed
    <2>1. \E T \in SUBSET Arg : Sought(T)
        BY <1>1, SoughtExists DEF IInv
    <2> QED
        BY <1>7, <2>1
<1> QED
    BY <1>3, <1>4, <1>5, <1>9, <1>10 DEF IInv

(* Where the set checked stands among what is sought.                        *)
LEMMA CheckedBegins ==
    ASSUME IInv, pc = "check", NEW S, Sought(S)
    PROVE  p \in c /\ c \cap mask = {}
<1>1. ~SelfAttacks /\ p \in Arg /\ S \in SUBSET Arg /\ p \in S /\ c \in SUBSET Arg
    BY DEF IInv, Types, Prepared, Underway, Sought
<1>2. \A x \in S : p <= x
    BY <1>1, SoughtBegins DEF IInv
<1>3. LecticLess({p}, c) /\ (c = S \/ LecticLess(c, S))
    BY <1>1 DEF IInv, Underway
<1>4. p \in c /\ c \cap (0 .. p-1) = {}
    BY <1>1, <1>2, <1>3, Between
<1> QED
    BY <1>4 DEF IInv, Types

(* What is handed back is stable in the framework read, and holds the        *)
(* argument if some larger extension does.                                   *)
LEMMA AnswerIInv == ASSUME IInv, Answer PROVE IInv'
<1>1. /\ pc = "check" /\ pc' = "done" /\ ~SelfAttacks /\ attacks' = attacks
      /\ tmp' = tmp /\ c' = c /\ i' = i
      /\ af' = af /\ argument' = argument /\ mapping' = mapping /\ p' = p
      /\ mask' = mask /\ index_argument' = index_argument /\ k' = k
      /\ result' = MapIndices(c, mapping) /\ IsStableTest(attacks, c)
    BY DEF IInv, Underway, Answer, setupVars
<1>2. /\ af \in Framework /\ attacks \in Framework /\ c \in SUBSET Arg
      /\ mapping \in [Arg -> Arg] /\ Permutation(mapping) /\ p \in Arg
      /\ attacks = Renamed(af, mapping) /\ mapping[p] = argument
    BY <1>1 DEF IInv, Types, Prepared
<1>3. Stable(af, result')
    <2>1. Stable(attacks, c)
        BY <1>1, <1>2, StableIffClosed DEF IsStableTest
    <2> QED
        BY <1>1, <1>2, <2>1, RenamedStable
<1>4. ResultStable'
    BY <1>1, <1>3 DEF ResultStable
<1>5. Types' /\ Permutation(mapping)'
    <2>1. result' \in SUBSET Arg
        BY <1>1, <1>2 DEF MapIndices
    <2>2. Types'
        BY <1>1, <2>1 DEF IInv, Types
    <2> QED
        BY <1>1, <2>2 DEF IInv, Permutation
<1>6. Trimmed' /\ Swapped' /\ Prepared' /\ Underway'
    BY <1>1 DEF IInv, SelfAttacks, Trimmed, Swapped, Prepared, Conflicting, Underway
<1>7. LargerNotMissed'
    <2> SUFFICES ASSUME NEW S \in StableExtensions(af), argument \in S, S # {argument}
                 PROVE  argument \in result'
        BY <1>1 DEF LargerNotMissed
    <2>1. PICK T \in SUBSET Arg : Sought(T)
        BY <1>1, SoughtExists DEF IInv
    <2>2. p \in c
        BY <1>1, <2>1, CheckedBegins
    <2> QED
        BY <1>1, <1>2, <2>2 DEF MapIndices
<1> QED
    BY <1>4, <1>5, <1>6, <1>7 DEF IInv

(* A set passed over was not sought; a set that reaches into the front has   *)
(* nothing sought above it.                                                  *)
LEMMA PassIInv == ASSUME IInv, Pass PROVE IInv'
<1>1. /\ pc = "check" /\ ~SelfAttacks /\ attacks' = attacks /\ c' = c
      /\ tmp' = c /\ i' = N - 1 /\ pc' \in {"search", "done"}
      /\ pc' = "search" <=> c \cap mask = {}
      /\ af' = af /\ argument' = argument /\ mapping' = mapping /\ p' = p
      /\ mask' = mask /\ index_argument' = index_argument /\ k' = k
      /\ result' = result /\ result = {} /\ ~IsStableTest(attacks, c)
    BY DEF IInv, Underway, Pass, Round, setupVars
<1>2. attacks \in Framework /\ c \in SUBSET Arg /\ p \in Arg
    BY <1>1 DEF IInv, Types, Prepared
<1>3. Types' /\ Permutation(mapping)'
    <2>1. i' \in -1 .. N-1
        BY <1>1, NAssumption
    <2>2. Types'
        BY <1>1, <2>1 DEF IInv, Types
    <2> QED
        BY <1>1, <2>2 DEF IInv, Permutation
<1>4. Trimmed'
    BY <1>1, <1>2, NAssumption DEF Trimmed, Arg
<1>5. ~SelfAttacks' /\ Swapped' /\ Prepared' /\ ResultStable'
    BY <1>1 DEF IInv, SelfAttacks, Swapped, Prepared, Conflicting, ResultStable
<1>6. \A S : Sought(S)' <=> Sought(S)
    BY <1>1 DEF Sought
<1>7. \A S \in SUBSET Arg : Sought(S) => LecticLess(c, S)
    <2> SUFFICES ASSUME NEW S \in SUBSET Arg, Sought(S), S = c
                 PROVE  FALSE
        BY <1>1 DEF IInv, Underway
    <2>1. Stable(attacks, c)
        BY DEF Sought
    <2> QED
        BY <1>1, <1>2, <2>1, StableIffClosed DEF IsStableTest
<1>8. Underway'
    <2>1. \A S \in SUBSET Arg : Sought(S) => Ahead(c, N-1, S)
        BY <1>2, <1>7, AheadOfAll
    <2>2. \A T \in SUBSET Arg : Ahead(c, N-1, T) => LecticLess({p}, T)
        <3> SUFFICES ASSUME NEW T \in SUBSET Arg, Ahead(c, N-1, T)
                     PROVE  LecticLess({p}, T)
            OBVIOUS
        <3>1. LecticLess(c, T)
            BY <1>2, AheadOfAll
        <3>2. LecticLess({p}, c) /\ {p} \in SUBSET Arg
            BY <1>1, <1>2 DEF IInv, Underway
        <3> QED
            BY <1>2, <3>1, <3>2, LecticTransitive
    <2> QED
        BY <1>1, <1>5, <1>6, <2>1, <2>2 DEF Underway
<1>9. LargerNotMissed'
    <2> SUFFICES ASSUME pc' = "done", NEW S \in StableExtensions(af),
                        argument \in S, S # {argument}
                 PROVE  FALSE
        BY <1>1 DEF LargerNotMissed
    <2>1. PICK T \in SUBSET Arg : Sought(T)
        BY <1>1, SoughtExists DEF IInv
    <2>2. c \cap mask = {}
        BY <1>1, <2>1, CheckedBegins
    <2> QED
        BY <1>1, <2>2
<1> QED
    BY <1>3, <1>4, <1>5, <1>8, <1>9 DEF IInv

LEMMA StutterIInv == ASSUME IInv, UNCHANGED vars PROVE IInv'
<1>1. /\ af' = af /\ argument' = argument /\ mapping' = mapping /\ p' = p
      /\ index_argument' = index_argument /\ mask' = mask /\ k' = k
      /\ result' = result /\ attacks' = attacks /\ tmp' = tmp /\ c' = c
      /\ i' = i /\ pc' = pc
    BY DEF vars, searchVars, setupVars
<1>2. Types' /\ Permutation(mapping)' /\ Trimmed'
    BY <1>1 DEF IInv, Types, Permutation, Trimmed
<1>3. Swapped' /\ Prepared' /\ ResultStable' /\ LargerNotMissed'
    BY <1>1 DEF IInv, SelfAttacks, Swapped, Prepared, Conflicting, ResultStable,
                LargerNotMissed
<1>4. Underway'
    BY <1>1 DEF IInv, SelfAttacks, Underway, Sought
<1> QED
    BY <1>2, <1>3, <1>4 DEF IInv

-------------------------------------------------------------------------------
LEMMA NextIInv == ASSUME IInv, [Next]_vars PROVE IInv'
<1>1. CASE Refuse
    BY <1>1, RefuseIInv
<1>2. CASE MoveConflicting
    BY <1>2, MoveConflictingIInv
<1>3. CASE LeaveInPlace
    BY <1>3, LeaveInPlaceIInv
<1>4. CASE Rename
    BY <1>4, RenameIInv
<1>5. CASE Search
    BY <1>5, SearchIInv
<1>6. CASE Answer
    BY <1>6, AnswerIInv
<1>7. CASE Pass
    BY <1>7, PassIInv
<1>8. CASE Returned \/ UNCHANGED vars
    BY <1>8, StutterIInv DEF Returned
<1> QED
    BY <1>1, <1>2, <1>3, <1>4, <1>5, <1>6, <1>7, <1>8 DEF Next

(* Every reachable state of dc_st_next_closure satisfies the invariant.      *)
THEOREM DcStableInvariant ==
    ASSUME Inputs \subseteq Framework
    PROVE  Spec => []IInv
<1>1. Init => IInv
    BY InitIInv
<1>2. IInv /\ [Next]_vars => IInv'
    BY NextIInv
<1> QED
    BY <1>1, <1>2, PTL DEF Spec

(* The invariant holds the renaming that the swaps leave.                    *)
LEMMA MappingLeft ==
    ASSUME IInv
    PROVE  MappingFaithful
<1> SUFFICES ASSUME IInv, pc # "setup", ~SelfAttacks
             PROVE  /\ \A b \in Arg : \E a \in Arg : mapping[a] = b
                    /\ mask = 0 .. p-1
                    /\ {mapping[a] : a \in mask} = {a \in Arg : Conflicting(a)}
                    /\ mapping[p] = argument
    BY DEF MappingFaithful
<1>1. /\ p \in Arg /\ mask = 0 .. p-1 /\ mapping[p] = argument
      /\ mapping \in [Arg -> Arg] /\ Permutation(mapping)
      /\ \A a \in Arg : Conflicting(mapping[a]) <=> a < p
    BY DEF IInv, Types, Prepared
<1>2. \A a : a \in mask <=> a \in Arg /\ a < p
    <2>1. p \in Arg /\ mask = 0 .. p-1
        BY <1>1
    <2>2. p \in Nat /\ p < N /\ N \in Nat
        BY <2>1, NAssumption DEF Arg
    <2>3. \A a : a \in 0 .. p-1 <=> a \in 0 .. N-1 /\ a < p
        BY <2>2
    <2> QED
        BY <2>1, <2>3 DEF Arg
<1>3. {mapping[a] : a \in mask} = {a \in Arg : Conflicting(a)}
    <2>1. \A a \in mask : mapping[a] \in Arg /\ Conflicting(mapping[a])
        BY <1>1, <1>2
    <2>2. ASSUME NEW b \in Arg, Conflicting(b)
          PROVE  \E a \in mask : mapping[a] = b
        <3>1. PICK a \in Arg : mapping[a] = b
            BY <1>1 DEF Permutation
        <3> QED
            BY <1>1, <1>2, <2>2, <3>1
    <2> QED
        BY <2>1, <2>2
<1> QED
    BY <1>1, <1>3 DEF Permutation

(* The chain of swaps leaves a permutation with the conflicting arguments    *)
(* under the mask and the argument right behind them.                        *)
THEOREM DcMappingFaithful ==
    ASSUME Inputs \subseteq Framework
    PROVE  Spec => []MappingFaithful
BY DcStableInvariant, MappingLeft, PTL

(* Only stable extensions of the framework read are returned, in its         *)
(* numbering.                                                                *)
THEOREM DcResultStable ==
    ASSUME Inputs \subseteq Framework
    PROVE  Spec => []ResultStable
BY DcStableInvariant, PTL DEF IInv

(* Whenever some stable extension holds the argument and another one, the    *)
(* one returned holds the argument.                                          *)
THEOREM DcLargerNotMissed ==
    ASSUME Inputs \subseteq Framework
    PROVE  Spec => []LargerNotMissed
BY DcStableInvariant, PTL DEF IInv
================================================================================
