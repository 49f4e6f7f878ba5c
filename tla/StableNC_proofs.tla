----------------------------- MODULE StableNC_proofs -----------------------------
(***************************************************************************)
(* EE-ST and SE-ST by next closure are correct for every number of         *)
(* arguments and every set of input frameworks.                            *)
(*                                                                         *)
(* The inductive invariant joins the type invariant with three parts:      *)
(* what the index loop has cleared (Trimmed), where results may be         *)
(* (OneChannel), and the place of every stable extension in the lectic     *)
(* order relative to the search: found ones lie behind it (FoundBehind),   *)
(* all others ahead of it (NothingSkipped).                                *)
(***************************************************************************)
EXTENDS StableNC, NextClosure_proofs

(* EE-ST fills the list only, SE-ST the bitset only, and SE-ST stops there.  *)
OneChannel ==
    /\ prob = "EE" => result = {}
    /\ prob = "SE" => result_list = <<>>
    /\ pc # "done" => result = {}

(* The extensions listed are lectically below everything still to come.      *)
FoundBehind ==
    \A S \in Elements(result_list) :
        /\ pc = "search" => ~Ahead(tmp, i, S)
        /\ pc = "check" => LecticLess(S, c)

IInv ==
    /\ TypeOK
    /\ Trimmed
    /\ OneChannel
    /\ Sound
    /\ NothingSkipped
    /\ FoundBehind
    /\ Descending

-------------------------------------------------------------------------------
(* What prepending one extension does to the list.                           *)
LEMMA Prepend ==
    ASSUME NEW S, NEW L \in Seq(S), NEW e \in S
    PROVE  /\ <<e>> \o L \in Seq(S)
           /\ Len(<<e>> \o L) = Len(L) + 1
           /\ (<<e>> \o L)[1] = e
           /\ \A n \in 2 .. Len(L) + 1 : (<<e>> \o L)[n] = L[n-1]
           /\ Elements(<<e>> \o L) = {e} \cup Elements(L)
<1>1. <<e>> \in Seq(S) /\ Len(<<e>>) = 1 /\ <<e>>[1] = e
    OBVIOUS
<1>2. <<e>> \o L \in Seq(S) /\ Len(<<e>> \o L) = Len(L) + 1
    BY <1>1
<1>3. (<<e>> \o L)[1] = e
    BY <1>1
<1>4. \A n \in 2 .. Len(L) + 1 : (<<e>> \o L)[n] = L[n-1]
    BY <1>1
<1>5. DOMAIN L = 1 .. Len(L) /\ DOMAIN (<<e>> \o L) = 1 .. Len(L) + 1 /\ Len(L) \in Nat
    BY <1>2
<1>6. Elements(<<e>> \o L) \subseteq {e} \cup Elements(L)
    <2> SUFFICES ASSUME NEW n \in 1 .. Len(L) + 1
                 PROVE  (<<e>> \o L)[n] \in {e} \cup Elements(L)
        BY <1>5 DEF Elements
    <2>1. CASE n = 1
        BY <1>3, <2>1
    <2>2. CASE n # 1
        <3>1. n \in 2 .. Len(L) + 1 /\ n - 1 \in DOMAIN L
            BY <1>5, <2>2
        <3> QED
            BY <1>4, <3>1 DEF Elements
    <2> QED
        BY <2>1, <2>2
<1>7. {e} \cup Elements(L) \subseteq Elements(<<e>> \o L)
    <2>1. e \in Elements(<<e>> \o L)
        BY <1>3, <1>5 DEF Elements
    <2>2. ASSUME NEW n \in DOMAIN L PROVE L[n] \in Elements(<<e>> \o L)
        <3>1. n + 1 \in 2 .. Len(L) + 1 /\ (n + 1) - 1 = n
            BY <1>5, <2>2
        <3>2. (<<e>> \o L)[n + 1] = L[n]
            BY <1>4, <3>1
        <3>3. n + 1 \in DOMAIN (<<e>> \o L)
            BY <1>5, <3>1
        <3> QED
            BY <3>2, <3>3 DEF Elements
    <2> QED
        BY <2>1, <2>2 DEF Elements
<1> QED
    BY <1>2, <1>3, <1>4, <1>6, <1>7

(* Both routines start with every stable extension ahead of them.            *)
LEMMA InitIInv == Init => IInv
<1> SUFFICES ASSUME Init PROVE IInv
    OBVIOUS
<1>1. attacks \in Framework
    BY InputsAssumption DEF Init
<1>2. TypeOK
    BY <1>1, NAssumption DEF Init, TypeOK, SearchTypeOK, Arg
<1>3. Elements(result_list) = {} /\ Found = {}
    BY DEF Init, Elements, Found
<1>4. NothingSkipped
    <2> SUFFICES ASSUME NEW S \in StableExtensions(attacks)
                 PROVE  Ahead(tmp, i, S)
        BY DEF NothingSkipped, Init
    <2>1. S \in SUBSET Arg /\ Stable(attacks, S) /\ S # {}
        BY <1>1, StableNotEmpty DEF StableExtensions, Framework
    <2>2. PICK k \in S : \A x \in S : k <= x
        BY <2>1, LeastArgument
    <2>3. SameBelow({}, S, k)
        BY <2>1, <2>2, NAssumption DEF SameBelow, Arg
    <2>4. k <= N - 1 /\ k \in Arg
        BY <2>1, <2>2, NAssumption DEF Arg
    <2> QED
        BY <2>2, <2>3, <2>4 DEF Ahead, Init
<1>5. Trimmed /\ OneChannel /\ Sound /\ FoundBehind /\ Descending
    BY <1>3 DEF Init, Trimmed, OneChannel, Sound, FoundBehind, Descending
<1> QED
    BY <1>2, <1>4, <1>5 DEF IInv

-------------------------------------------------------------------------------
(* One lemma per action: it keeps the inductive invariant.  First two facts  *)
(* that the search actions share.                                            *)

(* Below a trimmed index, a set that agrees with tmp below i contains tmp.   *)
LEMMA AgreesContains ==
    ASSUME IInv, Searching, i \notin tmp, NEW S \in SUBSET Arg, SameBelow(tmp, S, i)
    PROVE  tmp \subseteq S
<1> SUFFICES ASSUME NEW b \in tmp PROVE b \in S
    OBVIOUS
<1>1. b \in Arg /\ b <= i /\ b # i /\ i \in -1 .. N-1
    BY DEF IInv, TypeOK, SearchTypeOK, Trimmed, Searching
<1>2. b < i
    BY <1>1, NAssumption DEF Arg
<1> QED
    BY <1>1, <1>2 DEF SameBelow

(* Moving past i without closing, when no stable extension first differs     *)
(* from tmp at i.                                                            *)
LEMMA LeaveIInv ==
    ASSUME IInv, Searching, tmp' = tmp \ {i}, i' = i - 1, pc' = pc,
           c' \in SUBSET Arg, UNCHANGED <<attacks, prob, result_list, result>>,
           \A S \in StableExtensions(attacks) :
               ~(i \in S /\ i \notin tmp /\ SameBelow(tmp, S, i))
    PROVE  IInv'
<1>1. i \in Arg /\ tmp \in SUBSET Arg /\ attacks \in Framework
    BY NAssumption DEF IInv, TypeOK, SearchTypeOK, Searching, Arg
<1>2. TypeOK'
    BY <1>1, NAssumption DEF IInv, TypeOK, SearchTypeOK, Arg
<1>3. Trimmed'
    BY <1>1, NAssumption DEF IInv, Trimmed, Searching, Arg
<1>4. OneChannel' /\ Sound' /\ Descending' /\ Found' = Found
    BY DEF IInv, OneChannel, Sound, Descending, Found, Elements
<1>5. NothingSkipped'
    <2> SUFFICES ASSUME result = {}, NEW S \in StableExtensions(attacks), S \notin Found
                 PROVE  Ahead(tmp', i', S)
        BY <1>4 DEF NothingSkipped, Searching
    <2>1. S \in SUBSET Arg /\ Ahead(tmp, i, S)
        BY <1>1 DEF IInv, NothingSkipped, Searching, StableExtensions, Framework
    <2> QED
        BY <1>1, <2>1, AheadStep
<1>6. FoundBehind'
    <2> SUFFICES ASSUME NEW S \in Elements(result_list), Ahead(tmp', i', S)
                 PROVE  FALSE
        BY DEF FoundBehind, Searching, Elements
    <2>1. S \in SUBSET Arg
        BY DEF IInv, TypeOK, Elements
    <2>2. Ahead(tmp, i, S)
        BY <1>1, <2>1, AheadBack
    <2> QED
        BY <2>2 DEF IInv, FoundBehind, Searching
<1> QED
    BY <1>2, <1>3, <1>4, <1>5, <1>6 DEF IInv

(* A set that first differs from tmp at i has i where tmp has not.           *)
LEMMA DropIInv ==
    ASSUME IInv, Drop, UNCHANGED <<prob, result_list, result>>
    PROVE  IInv'
<1>1. c' \in SUBSET Arg
    BY DEF IInv, TypeOK, SearchTypeOK, Drop
<1> QED
    BY <1>1, LeaveIInv DEF Drop

(* An argument in conflict with tmp extends tmp to no stable extension.      *)
LEMMA SkipConflictIInv ==
    ASSUME IInv, SkipConflict, UNCHANGED <<prob, result_list, result>>
    PROVE  IInv'
<1>1. attacks \in Framework /\ c' \in SUBSET Arg
    BY DEF IInv, TypeOK, SearchTypeOK, SkipConflict
<1>2. ASSUME NEW S \in StableExtensions(attacks), i \in S, SameBelow(tmp, S, i)
      PROVE  FALSE
    <2>1. S \in SUBSET Arg /\ Stable(attacks, S)
        BY <1>1 DEF StableExtensions, Framework
    <2>2. tmp \subseteq S
        BY <1>2, <2>1, AgreesContains DEF SkipConflict
    <2> QED
        BY <1>1, <1>2, <2>1, <2>2, StableNoConflict DEF SkipConflict
<1>3. tmp' = tmp \ {i}
    BY DEF SkipConflict
<1> QED
    BY <1>1, <1>2, <1>3, LeaveIInv DEF SkipConflict

(* A closure that fails the canonicity test holds an argument below i that a *)
(* stable extension agreeing with tmp below i cannot hold.                   *)
LEMMA RejectIInv ==
    ASSUME IInv, Close, ~Canonical(tmp, c', i), UNCHANGED <<prob, result_list, result>>
    PROVE  IInv'
<1>1. attacks \in Framework /\ tmp \cup {i} \in SUBSET Arg /\ i \in Arg
    BY NAssumption DEF IInv, TypeOK, SearchTypeOK, Close, Searching, Arg
<1>2. c' \in SUBSET Arg /\ c' = Closure(attacks, tmp \cup {i})
    BY <1>1, ClosureExtends DEF Close
<1>3. ASSUME NEW S \in StableExtensions(attacks), i \in S, SameBelow(tmp, S, i)
      PROVE  FALSE
    <2>1. S \in SUBSET Arg /\ Stable(attacks, S)
        BY <1>1 DEF StableExtensions, Framework
    <2>2. tmp \cup {i} \subseteq S
        BY <1>3, <2>1, AgreesContains DEF Close
    <2>3. c' \subseteq S
        BY <1>1, <1>2, <2>1, <2>2, ClosureInStable
    <2>4. PICK b \in c' \ tmp : ~(b >= i)
        BY DEF Canonical
    <2>5. b \in S /\ b \notin tmp /\ b < i /\ b \in Arg
        BY <1>1, <1>2, <2>3, <2>4, NAssumption DEF Arg
    <2> QED
        BY <1>3, <2>5 DEF SameBelow
<1>4. tmp' = tmp \ {i}
    BY DEF Close
<1> QED
    BY <1>2, <1>3, <1>4, LeaveIInv DEF Close

(* An accepted closure is the lectically next set worth testing: what was    *)
(* found lies below it, and every stable extension ahead of the search is    *)
(* the closure itself or lies above it.                                      *)
LEMMA AcceptIInv ==
    ASSUME IInv, Close, Canonical(tmp, c', i), UNCHANGED <<prob, result_list, result>>
    PROVE  IInv'
<1>1. attacks \in Framework /\ tmp \cup {i} \in SUBSET Arg /\ i \in Arg /\ tmp \in SUBSET Arg
    BY NAssumption DEF IInv, TypeOK, SearchTypeOK, Close, Searching, Arg
<1>2. c' \in SUBSET Arg /\ c' = Closure(attacks, tmp \cup {i}) /\ tmp \cup {i} \subseteq c'
    BY <1>1, ClosureExtends DEF Close
<1>3. pc' = "check" /\ i' = i /\ pc = "search" /\ i \notin tmp
    BY DEF Close, Searching
<1>4. TypeOK' /\ Trimmed'
    BY <1>2, <1>3, NAssumption DEF IInv, TypeOK, SearchTypeOK, Trimmed, Close, Arg
<1>5. OneChannel' /\ Sound' /\ Descending' /\ Found' = Found
    BY <1>3 DEF IInv, OneChannel, Sound, Descending, Found, Close, Elements
<1>6. NothingSkipped'
    <2> SUFFICES ASSUME result = {}, NEW S \in StableExtensions(attacks), S \notin Found
                 PROVE  S = c' \/ LecticLess(c', S)
        BY <1>3, <1>5 DEF NothingSkipped, Close
    <2>1. S \in SUBSET Arg /\ Stable(attacks, S) /\ Ahead(tmp, i, S)
        BY <1>1, <1>3 DEF IInv, NothingSkipped, StableExtensions, Framework
    <2>2. PICK k \in Arg : k <= i /\ k \in S /\ k \notin tmp /\ SameBelow(tmp, S, k)
        BY <2>1 DEF Ahead
    <2>3. CASE k = i
        <3>1. tmp \cup {i} \subseteq S
            BY <1>3, <2>1, <2>2, <2>3, AgreesContains DEF Close
        <3>2. c' \subseteq S
            BY <1>1, <1>2, <2>1, <3>1, ClosureInStable
        <3>3. ~LecticLess(S, c')
            BY <3>2 DEF LecticLess
        <3> QED
            BY <1>2, <2>1, <3>3, LecticTotal
    <2>4. CASE k # i
        <3>1. k < i
            BY <1>1, <2>2, <2>4, NAssumption DEF Arg
        <3>2. \A j \in Arg : j < i => (j \in c' <=> j \in tmp)
            BY <1>1, <1>2, NAssumption DEF Canonical, Arg
        <3>3. k \notin c' /\ SameBelow(c', S, k)
            BY <1>1, <2>2, <3>1, <3>2, NAssumption DEF SameBelow, Arg
        <3> QED
            BY <2>2, <3>3 DEF LecticLess
    <2> QED
        BY <2>3, <2>4
<1>7. FoundBehind'
    <2> SUFFICES ASSUME NEW S \in Elements(result_list)
                 PROVE  LecticLess(S, c')
        BY <1>3 DEF FoundBehind, Close, Elements
    <2>1. S \in SUBSET Arg /\ ~Ahead(tmp, i, S)
        BY <1>3 DEF IInv, TypeOK, Elements, FoundBehind
    <2>2. ~(S = c' \/ LecticLess(c', S))
        BY <1>1, <1>2, <1>3, <2>1, NotLessWasAhead DEF Canonical
    <2> QED
        BY <1>2, <2>1, <2>2, LecticTotal
<1> QED
    BY <1>4, <1>5, <1>6, <1>7 DEF IInv

(* Below index 0 nothing is ahead any more.                                  *)
LEMMA ExhaustedIInv ==
    ASSUME IInv, Exhausted, UNCHANGED <<prob, result_list, result>>
    PROVE  IInv'
<1>1. TypeOK' /\ Trimmed'
    BY DEF IInv, TypeOK, SearchTypeOK, Trimmed, Exhausted
<1>2. OneChannel' /\ Sound' /\ Descending' /\ FoundBehind' /\ Found' = Found
    BY DEF IInv, OneChannel, Sound, Descending, FoundBehind, Found, Exhausted, Elements
<1>3. \A S : ~Ahead(tmp, i, S)
    BY NAssumption DEF Ahead, Exhausted, IInv, TypeOK, SearchTypeOK, Arg
<1>4. NothingSkipped'
    BY <1>2, <1>3 DEF IInv, NothingSkipped, Exhausted
<1> QED
    BY <1>1, <1>2, <1>4 DEF IInv

(* EE-ST lists a stable closure once: all earlier ones lie below it.         *)
LEMMA KeepEEIInv == ASSUME IInv, KeepEE PROVE IInv'
<1>1. attacks \in Framework /\ c \in SUBSET Arg /\ result_list \in Seq(SUBSET Arg)
    BY DEF IInv, TypeOK, SearchTypeOK
<1>2. Stable(attacks, c)
    BY <1>1, StableIffClosed DEF KeepEE, IsStableTest
<1> DEFINE L == <<c>> \o result_list
<1>3. /\ result_list' = L /\ L \in Seq(SUBSET Arg) /\ Len(L) = Len(result_list) + 1
      /\ L[1] = c /\ \A n \in 2 .. Len(result_list) + 1 : L[n] = result_list[n-1]
      /\ Elements(L) = {c} \cup Elements(result_list)
    BY <1>1, Prepend DEF KeepEE
<1> HIDE DEF L
<1>4. TypeOK' /\ Trimmed'
    BY <1>1, <1>3, NAssumption
    DEF IInv, TypeOK, SearchTypeOK, Trimmed, KeepEE, NextRound, Arg
<1>5. OneChannel'
    BY DEF IInv, OneChannel, KeepEE, NextRound
<1>6. Found' = Found \cup {c}
    BY <1>3 DEF Found, KeepEE
<1>7. Sound'
    BY <1>2, <1>6 DEF IInv, Sound, KeepEE
<1>8. NothingSkipped'
    <2> SUFFICES ASSUME result = {}, NEW S \in StableExtensions(attacks), S \notin Found,
                        S # c
                 PROVE  Ahead(c, N-1, S)
        BY <1>6 DEF NothingSkipped, KeepEE, NextRound
    <2>1. S \in SUBSET Arg /\ LecticLess(c, S)
        BY <1>1 DEF IInv, NothingSkipped, KeepEE, StableExtensions, Framework
    <2> QED
        BY <1>1, <2>1, AheadOfAll
<1>9. FoundBehind'
    <2> SUFFICES ASSUME NEW S \in {c} \cup Elements(result_list)
                 PROVE  ~Ahead(c, N-1, S)
        BY <1>3 DEF FoundBehind, KeepEE, NextRound
    <2>1. S \in SUBSET Arg /\ (S = c \/ LecticLess(S, c))
        BY <1>1 DEF IInv, FoundBehind, KeepEE, Elements
    <2>2. ~LecticLess(c, S)
        BY <1>1, <2>1, LecticAsymmetric DEF LecticLess
    <2> QED
        BY <1>1, <2>1, <2>2, AheadOfAll
<1>10. Descending'
    <2>1. Len(result_list) \in Nat /\ DOMAIN result_list = 1 .. Len(result_list)
          /\ DOMAIN L = 1 .. Len(result_list) + 1
        BY <1>1, <1>3
    <2> SUFFICES ASSUME NEW m \in DOMAIN L, NEW n \in DOMAIN L, m < n
                 PROVE  LecticLess(L[n], L[m])
        BY <1>3 DEF Descending
    <2>2. n \in 2 .. Len(result_list) + 1 /\ n - 1 \in DOMAIN result_list
          /\ L[n] = result_list[n-1]
        BY <1>3, <2>1
    <2>3. CASE m = 1
        <3>1. L[n] \in Elements(result_list)
            BY <2>2 DEF Elements
        <3> QED
            BY <1>3, <2>3, <3>1 DEF IInv, FoundBehind, KeepEE
    <2>4. CASE m # 1
        <3>1. m \in 2 .. Len(result_list) + 1 /\ m - 1 \in DOMAIN result_list
              /\ L[m] = result_list[m-1] /\ m - 1 < n - 1
            BY <1>3, <2>1, <2>4
        <3> QED
            BY <2>2, <3>1 DEF IInv, Descending
    <2> QED
        BY <2>3, <2>4
<1> QED
    BY <1>4, <1>5, <1>7, <1>8, <1>9, <1>10 DEF IInv

(* SE-ST answers with a stable extension, which is never empty.              *)
LEMMA KeepSEIInv == ASSUME IInv, KeepSE PROVE IInv'
<1>1. attacks \in Framework /\ c \in SUBSET Arg
    BY DEF IInv, TypeOK, SearchTypeOK
<1>2. Stable(attacks, c) /\ c # {}
    BY <1>1, StableIffClosed, StableNotEmpty DEF KeepSE, IsStableTest
<1>3. TypeOK' /\ Trimmed'
    BY <1>1 DEF IInv, TypeOK, SearchTypeOK, Trimmed, KeepSE
<1>4. OneChannel' /\ Elements(result_list) = {}
    BY DEF IInv, OneChannel, KeepSE, Elements
<1>5. Sound'
    BY <1>2, <1>4 DEF Sound, Found, Elements, KeepSE
<1>6. NothingSkipped' /\ FoundBehind' /\ Descending'
    BY <1>2 DEF IInv, NothingSkipped, FoundBehind, Descending, KeepSE, Elements
<1> QED
    BY <1>3, <1>4, <1>5, <1>6 DEF IInv

(* A closure that is not its own up-arrow is no stable extension.            *)
LEMMA PassIInv == ASSUME IInv, Pass PROVE IInv'
<1>1. attacks \in Framework /\ c \in SUBSET Arg
    BY DEF IInv, TypeOK, SearchTypeOK
<1>2. ~Stable(attacks, c)
    BY <1>1, StableIffClosed DEF Pass, IsStableTest
<1>3. TypeOK' /\ Trimmed'
    BY <1>1, NAssumption DEF IInv, TypeOK, SearchTypeOK, Trimmed, Pass, NextRound, Arg
<1>4. OneChannel' /\ Sound' /\ Descending' /\ Found' = Found
    BY DEF IInv, OneChannel, Sound, Descending, Found, Pass, NextRound, Elements
<1>5. NothingSkipped'
    <2> SUFFICES ASSUME result = {}, NEW S \in StableExtensions(attacks), S \notin Found
                 PROVE  Ahead(c, N-1, S)
        BY <1>4 DEF NothingSkipped, Pass, NextRound
    <2>1. S \in SUBSET Arg /\ LecticLess(c, S)
        BY <1>1, <1>2 DEF IInv, NothingSkipped, Pass, StableExtensions, Framework
    <2> QED
        BY <1>1, <2>1, AheadOfAll
<1>6. FoundBehind'
    <2> SUFFICES ASSUME NEW S \in Elements(result_list)
                 PROVE  ~Ahead(c, N-1, S)
        BY DEF FoundBehind, Pass, NextRound, Elements
    <2>1. S \in SUBSET Arg /\ LecticLess(S, c)
        BY DEF IInv, TypeOK, FoundBehind, Pass, Elements
    <2> QED
        BY <1>1, <2>1, LecticAsymmetric, AheadOfAll
<1> QED
    BY <1>3, <1>4, <1>5, <1>6 DEF IInv

-------------------------------------------------------------------------------
LEMMA NextIInv == IInv /\ [Next]_vars => IInv'
<1> SUFFICES ASSUME IInv, [Next]_vars PROVE IInv'
    OBVIOUS
<1>1. CASE Search
    BY <1>1, DropIInv, SkipConflictIInv, RejectIInv, AcceptIInv, ExhaustedIInv
    DEF Search, SearchStep
<1>2. CASE KeepEE
    BY <1>2, KeepEEIInv
<1>3. CASE KeepSE
    BY <1>3, KeepSEIInv
<1>4. CASE Pass
    BY <1>4, PassIInv
<1>5. CASE UNCHANGED vars
    BY <1>5 DEF vars, searchVars, IInv, TypeOK, SearchTypeOK, Trimmed, OneChannel, Sound,
       NothingSkipped, FoundBehind, Descending, Found, Elements
<1> QED
    BY <1>1, <1>2, <1>3, <1>4, <1>5 DEF Next, Returned

THEOREM Invariance == Spec => []IInv
BY InitIInv, NextIInv, PTL DEF Spec

(* Every variable of the two routines keeps its type.                        *)
THEOREM TypeCorrect == Spec => []TypeOK
<1>1. IInv => TypeOK
    BY DEF IInv
<1> QED
    BY <1>1, Invariance, PTL

(* EE-ST and SE-ST hand out stable extensions only.                          *)
THEOREM Soundness == Spec => []Sound
<1>1. IInv => Sound
    BY DEF IInv
<1> QED
    BY <1>1, Invariance, PTL

(* No stable extension is lost from sight by a skip or a failed test.        *)
THEOREM Coverage == Spec => []NothingSkipped
<1>1. IInv => NothingSkipped
    BY DEF IInv
<1> QED
    BY <1>1, Invariance, PTL

(* When the search ends, EE-ST has listed all stable extensions and SE-ST    *)
(* has one unless there is none.                                             *)
THEOREM Completeness == Spec => []Complete
<1>1. ASSUME IInv, pc = "done", result = {}
      PROVE  StableExtensions(attacks) \subseteq Elements(result_list)
    BY <1>1 DEF IInv, NothingSkipped, Found
<1>2. ASSUME IInv
      PROVE  Elements(result_list) \subseteq StableExtensions(attacks)
    <2>1. DOMAIN attacks = Arg /\ \A S \in Elements(result_list) : S \in SUBSET Arg
        BY <1>2 DEF IInv, TypeOK, SearchTypeOK, Framework, Elements
    <2> QED
        BY <1>2, <2>1 DEF IInv, Sound, Found, StableExtensions
<1>3. IInv => Complete
    BY <1>1, <1>2 DEF IInv, Complete, OneChannel, Elements
<1> QED
    BY <1>3, Invariance, PTL

(* No extension is listed twice.                                             *)
THEOREM StrictlyDescending == Spec => []Descending
<1>1. IInv => Descending
    BY DEF IInv
<1> QED
    BY <1>1, Invariance, PTL

(* Both routines implement the abstract enumeration: a kept closure is an    *)
(* Emit of an extension not emitted before, running out of indices is a      *)
(* Finish with every extension emitted, and all else is invisible.           *)
THEOREM Refinement == Spec => Enumeration!EnumSafeSpec
<1> USE DEF Enumeration!enumVars
<1>1. Init => Enumeration!EnumInit
    BY DEF Init, Enumeration!EnumInit, Found, Elements
<1>2. ASSUME IInv, SearchStep, UNCHANGED <<prob, result_list, result>>, ~Exhausted
      PROVE  UNCHANGED Enumeration!enumVars
    <2>1. pc # "done" /\ pc' # "done" /\ attacks' = attacks
        BY <1>2 DEF SearchStep, Drop, SkipConflict, Close, Searching
    <2> QED
        BY <1>2, <2>1 DEF Found, Elements
<1>3. ASSUME IInv, Exhausted, UNCHANGED <<prob, result_list, result>>
      PROVE  Enumeration!Finish
    <2>1. \A S : ~Ahead(tmp, i, S)
        BY <1>3, NAssumption DEF Ahead, Exhausted, IInv, TypeOK, SearchTypeOK, Arg
    <2>2. StableExtensions(attacks) \subseteq Found
        BY <1>3, <2>1 DEF IInv, NothingSkipped, OneChannel, Exhausted
    <2>3. \A S \in Found : S \in SUBSET Arg
        BY <1>3 DEF IInv, TypeOK, Found, Elements
    <2>4. DOMAIN attacks = Arg
        BY <1>3 DEF IInv, TypeOK, SearchTypeOK, Framework
    <2>5. Found \subseteq StableExtensions(attacks)
        BY <1>3, <2>3, <2>4 DEF IInv, Sound, StableExtensions
    <2>6. Found' = Found /\ attacks' = attacks
        BY <1>3 DEF Found, Elements, Exhausted
    <2> QED
        BY <1>3, <2>2, <2>5, <2>6 DEF Enumeration!Finish, Exhausted
<1>4. ASSUME IInv, pc = "check", IsStableTest(attacks, c)
      PROVE  c \in StableExtensions(attacks) \ Found
    <2>1. attacks \in Framework /\ c \in SUBSET Arg
        BY <1>4 DEF IInv, TypeOK, SearchTypeOK
    <2>2. c \in StableExtensions(attacks)
        BY <1>4, <2>1, StableIffClosed DEF IsStableTest, StableExtensions, Framework
    <2>3. Found = Elements(result_list)
        BY <1>4 DEF IInv, OneChannel, Found
    <2>4. \A S \in Elements(result_list) : S # c
        BY <1>4 DEF IInv, FoundBehind, LecticLess
    <2> QED
        BY <2>2, <2>3, <2>4
<1>5. ASSUME IInv, KeepEE
      PROVE  Enumeration!Emit
    <2>1. result_list \in Seq(SUBSET Arg) /\ c \in SUBSET Arg
        BY <1>5 DEF IInv, TypeOK, SearchTypeOK
    <2>2. Elements(result_list') = {c} \cup Elements(result_list)
        BY <1>5, <2>1, Prepend DEF KeepEE
    <2>3. Found' = Found \cup {c}
        BY <1>5, <2>2 DEF Found, KeepEE
    <2>4. c \in StableExtensions(attacks) \ Found
        BY <1>4, <1>5 DEF KeepEE
    <2>5. pc = "check" /\ pc' = "search" /\ prob = "EE" /\ prob' = prob /\ attacks' = attacks
        BY <1>5 DEF KeepEE, NextRound
    <2> QED
        BY <2>3, <2>4, <2>5 DEF Enumeration!Emit
<1>6. ASSUME IInv, KeepSE
      PROVE  Enumeration!Emit
    <2>1. attacks \in Framework /\ c \in StableExtensions(attacks) \ Found /\ c # {}
        BY <1>4, <1>6, StableNotEmpty
        DEF KeepSE, IInv, TypeOK, SearchTypeOK, StableExtensions
    <2>2. Found' = Found \cup {c}
        BY <1>6, <2>1 DEF Found, Elements, KeepSE, IInv, OneChannel
    <2>3. pc = "check" /\ pc' = "done" /\ prob = "SE" /\ prob' = prob /\ attacks' = attacks
        BY <1>6 DEF KeepSE
    <2> QED
        BY <2>1, <2>2, <2>3 DEF Enumeration!Emit
<1>7. ASSUME IInv, Pass \/ UNCHANGED vars
      PROVE  UNCHANGED Enumeration!enumVars
    <2>1. /\ attacks' = attacks /\ prob' = prob
          /\ result_list' = result_list /\ result' = result
          /\ pc = "done" <=> pc' = "done"
        BY <1>7 DEF Pass, NextRound, vars, searchVars
    <2> QED
        BY <2>1 DEF Found, Elements
<1>8. ASSUME IInv, [Next]_vars
      PROVE  [Enumeration!EnumNext]_(Enumeration!enumVars)
    BY <1>2, <1>3, <1>5, <1>6, <1>7, <1>8
    DEF Next, Search, SearchStep, Returned, Enumeration!EnumNext
<1> QED
    BY <1>1, <1>8, Invariance, PTL DEF Spec, Enumeration!EnumSafeSpec
=============================================================================
