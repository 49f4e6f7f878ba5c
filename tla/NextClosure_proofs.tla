--------------------------- MODULE NextClosure_proofs ---------------------------
(***************************************************************************)
(* Facts about the closure operator of the complement context and about    *)
(* one iteration of the search that the proofs about its callers rest on.  *)
(***************************************************************************)
EXTENDS NextClosure, Foundations_proofs

-------------------------------------------------------------------------------
(* The closure is extensive and stays within the framework.                  *)
LEMMA ClosureExtends ==
    ASSUME NEW att \in Framework, NEW s \in SUBSET Arg
    PROVE  Closure(att, s) \in SUBSET Arg /\ s \subseteq Closure(att, s)
BY DEF Closure, DownUpArrow, Complement, Framework

(* c = up_arrow(c) in the complement context decides stability.              *)
LEMMA StableIffClosed ==
    ASSUME NEW att \in Framework, NEW s \in SUBSET Arg
    PROVE  s = UpArrow(Complement(att), s) <=> Stable(att, s)
<1>1. DOMAIN att = Arg /\ DOMAIN Complement(att) = Arg
    BY DEF Framework, Complement
<1>2. \A a \in Arg : Complement(att)[a] = Arg \ att[a]
    BY <1>1 DEF Complement
<1>3. UpArrow(Complement(att), s) = {b \in Arg : \A a \in s : b \notin att[a]}
    BY <1>1, <1>2 DEF UpArrow
<1>4. Stable(att, s) <=> \A a \in Arg : a \in s <=> \A b \in s : a \notin att[b]
    BY <1>1 DEF Stable
<1> QED
    BY <1>3, <1>4

(* A stable extension that contains s contains the closure of s: passing     *)
(* from a set to its closure skips no stable extension.                      *)
LEMMA ClosureInStable ==
    ASSUME NEW att \in Framework, NEW S \in SUBSET Arg, Stable(att, S),
           NEW s \in SUBSET S
    PROVE  Closure(att, s) \subseteq S
<1>1. DOMAIN att = Arg /\ DOMAIN Complement(att) = Arg
    BY DEF Framework, Complement
<1>2. \A a \in Arg : Complement(att)[a] = Arg \ att[a]
    BY <1>1 DEF Complement
<1>3. SUFFICES ASSUME NEW b \in Closure(att, s), b \notin S
               PROVE  FALSE
    OBVIOUS
<1>4. b \in Arg
    BY <1>1, <1>3 DEF Closure, DownUpArrow
<1>5. PICK a \in S : b \in att[a]
    BY <1>1, <1>3, <1>4 DEF Stable
<1>6. s \subseteq Complement(att)[a]
    BY <1>1, <1>2, <1>5 DEF Stable
<1>7. b \in Complement(att)[a]
    BY <1>1, <1>3, <1>5, <1>6 DEF Closure, DownUpArrow
<1> QED
    BY <1>2, <1>5, <1>7

(* No two members of a stable extension are in conflict: the three tests of  *)
(* the search reject no argument of an extension it is heading for.          *)
LEMMA StableNoConflict ==
    ASSUME NEW att \in Framework, NEW S \in SUBSET Arg, Stable(att, S),
           NEW s \in SUBSET S, NEW a \in S
    PROVE  ~InConflict(att, s, a)
BY DEF InConflict, ArgAttacksArg, ArgAttacksSet, SetAttacksArg, Stable, Framework

(* There is an argument, and a stable extension attacks what it leaves out.  *)
LEMMA StableNotEmpty ==
    ASSUME NEW att \in Framework, NEW S, Stable(att, S)
    PROVE  S # {}
<1>1. 0 \in DOMAIN att
    BY NAssumption DEF Framework, Arg
<1> QED
    BY <1>1 DEF Stable

-------------------------------------------------------------------------------
(* One iteration of the search.                                              *)

(* The search has cleared every index above i.                               *)
Trimmed == pc = "search" => \A b \in tmp : b <= i

(* The search keeps its types and clears the indices it passes.              *)
LEMMA SearchStepTypes ==
    ASSUME SearchTypeOK, Trimmed, SearchStep
    PROVE  SearchTypeOK' /\ Trimmed'
<1>1. CASE Drop
    BY <1>1, NAssumption DEF SearchTypeOK, Trimmed, Drop, Searching, Arg
<1>2. CASE SkipConflict
    BY <1>2, NAssumption DEF SearchTypeOK, Trimmed, SkipConflict, Searching, Arg
<1>3. CASE Close
    <2>1. i \in Arg /\ tmp \cup {i} \in SUBSET Arg
        BY <1>3, NAssumption DEF SearchTypeOK, Close, Searching, Arg
    <2>2. c' \in SUBSET Arg
        BY <1>3, <2>1, ClosureExtends DEF SearchTypeOK, Close
    <2>3. (pc' = "check" /\ i' = i) \/ (pc' = "search" /\ i' = i - 1)
        BY <1>3 DEF Close, Searching
    <2>4. \A b \in tmp : b <= i - 1
        BY <1>3, <2>1, NAssumption DEF SearchTypeOK, Trimmed, Close, Searching, Arg
    <2> QED
        BY <1>3, <2>1, <2>2, <2>3, <2>4, NAssumption
        DEF SearchTypeOK, Trimmed, Close, Arg
<1>4. CASE Exhausted
    BY <1>4 DEF SearchTypeOK, Trimmed, Exhausted
<1> QED
    BY <1>1, <1>2, <1>3, <1>4 DEF SearchStep

(* A stable extension ahead of the search stays ahead, is the set the search *)
(* stops at, or lies above it.                                               *)
LEMMA StableStaysAhead ==
    ASSUME SearchTypeOK, Trimmed, SearchStep, pc = "search",
           NEW S \in SUBSET Arg, Stable(attacks, S), Ahead(tmp, i, S)
    PROVE  \/ pc' = "search" /\ Ahead(tmp', i', S)
           \/ pc' = "check" /\ (S = c' \/ LecticLess(c', S))
<1>1. i \in Arg /\ tmp \in SUBSET Arg /\ attacks \in Framework
    <2>1. i >= 0
        BY NAssumption DEF Ahead, SearchTypeOK, Arg
    <2> QED
        BY <2>1, NAssumption DEF SearchTypeOK, Arg
<1>2. ASSUME i \notin tmp, i \in S, SameBelow(tmp, S, i)
      PROVE  tmp \cup {i} \subseteq S /\ Closure(attacks, tmp \cup {i}) \subseteq S
    <2>1. \A b \in tmp : b \in Arg /\ b < i
        BY <1>1, <1>2, NAssumption DEF Trimmed, Arg
    <2>2. tmp \cup {i} \subseteq S
        BY <1>2, <2>1 DEF SameBelow
    <2> QED
        BY <1>1, <2>2, ClosureInStable
<1>3. ASSUME ~(i \in S /\ i \notin tmp /\ SameBelow(tmp, S, i)),
             tmp' = tmp \ {i}, i' = i - 1
      PROVE  Ahead(tmp', i', S)
    BY <1>1, <1>3, AheadStep
<1>4. CASE Drop
    BY <1>3, <1>4 DEF Drop
<1>5. CASE SkipConflict
    <2>1. ~(i \in S /\ SameBelow(tmp, S, i))
        BY <1>1, <1>2, <1>5, StableNoConflict DEF SkipConflict
    <2>2. tmp' = tmp \ {i} /\ i' = i - 1 /\ pc' = "search"
        BY <1>5 DEF SkipConflict
    <2> QED
        BY <1>3, <2>1, <2>2
<1>6. CASE Close /\ ~Canonical(tmp, c', i)
    <2>1. c' = Closure(attacks, tmp \cup {i}) /\ c' \in SUBSET Arg
        BY <1>1, <1>6, ClosureExtends DEF Close
    <2>2. PICK b \in c' \ tmp : ~(b >= i)
        BY <1>6 DEF Canonical
    <2>3. b \in Arg /\ b < i
        <3>1. b \in Arg
            BY <2>1, <2>2
        <3> QED
            BY <1>1, <2>2, <3>1, NAssumption DEF Arg
    <2>4. ~(i \in S /\ SameBelow(tmp, S, i))
        BY <1>2, <1>6, <2>1, <2>2, <2>3 DEF Close, SameBelow
    <2>5. tmp' = tmp \ {i} /\ i' = i - 1 /\ pc' = "search"
        BY <1>6 DEF Close
    <2> QED
        BY <1>3, <2>4, <2>5
<1>7. CASE Close /\ Canonical(tmp, c', i)
    <2>1. /\ c' = Closure(attacks, tmp \cup {i}) /\ c' \in SUBSET Arg
          /\ tmp \cup {i} \subseteq c' /\ i \notin tmp /\ pc' = "check"
        BY <1>1, <1>7, ClosureExtends DEF Close
    <2>2. PICK k \in Arg : k <= i /\ k \in S /\ k \notin tmp /\ SameBelow(tmp, S, k)
        BY DEF Ahead
    <2>3. CASE k = i
        <3>1. c' \subseteq S
            BY <1>2, <2>1, <2>2, <2>3
        <3>2. ~LecticLess(S, c')
            BY <3>1 DEF LecticLess
        <3> QED
            BY <2>1, <3>2, LecticTotal
    <2>4. CASE k # i
        <3>1. k < i
            BY <1>1, <2>2, <2>4, NAssumption DEF Arg
        <3>2. \A j \in Arg : j < i => (j \in c' <=> j \in tmp)
            <4>1. \A b \in c' \ tmp : b >= i
                BY <1>7 DEF Canonical
            <4>2. ASSUME NEW j \in Arg, j < i, j \in c', j \notin tmp
                  PROVE  FALSE
                <5>1. j >= i
                    BY <4>1, <4>2
                <5> QED
                    BY <1>1, <4>2, <5>1, NAssumption DEF Arg
            <4> QED
                BY <2>1, <4>2
        <3>3. k \notin c' /\ SameBelow(c', S, k)
            BY <1>1, <2>2, <3>1, <3>2, NAssumption DEF SameBelow, Arg
        <3> QED
            BY <2>1, <2>2, <3>3 DEF LecticLess
    <2> QED
        BY <2>3, <2>4
<1>8. ~Exhausted
    BY <1>1, NAssumption DEF Exhausted, Arg
<1> QED
    BY <1>4, <1>5, <1>6, <1>7, <1>8 DEF SearchStep

(* What is ahead of the search, or the set it stops at, was ahead before.    *)
LEMMA NothingReturns ==
    ASSUME SearchTypeOK, SearchStep, pc = "search", NEW T \in SUBSET Arg,
           \/ pc' = "search" /\ Ahead(tmp', i', T)
           \/ pc' = "check" /\ T = c'
    PROVE  Ahead(tmp, i, T)
<1>1. Searching => i \in Arg /\ tmp \in SUBSET Arg /\ attacks \in Framework
    BY NAssumption DEF Searching, SearchTypeOK, Arg
<1>2. CASE Drop \/ SkipConflict \/ (Close /\ pc' = "search")
    <2>1. Searching /\ tmp' = tmp \ {i} /\ i' = i - 1 /\ pc' = "search"
        BY <1>2 DEF Drop, SkipConflict, Close, Searching
    <2> QED
        BY <1>1, <2>1, AheadBack
<1>3. CASE Close /\ pc' = "check"
    <2>1. Searching /\ i \notin tmp /\ Canonical(tmp, c', i)
        BY <1>3 DEF Close, Searching
    <2>2. c' \in SUBSET Arg /\ tmp \cup {i} \subseteq c'
        BY <1>1, <1>3, <2>1, ClosureExtends DEF Close
    <2> QED
        BY <1>1, <1>3, <2>1, <2>2, NotLessWasAhead DEF Canonical
<1>4. ~Exhausted
    BY DEF Exhausted
<1> QED
    BY <1>2, <1>3, <1>4 DEF SearchStep
================================================================================
