-------------------------- MODULE Foundations_proofs --------------------------
(***************************************************************************)
(* Facts that do not speak of any state: about the lectic order and what a *)
(* search along it has still ahead, about renaming a framework, about the  *)
(* sets that the reverse search of mis reaches, and about the semantics.   *)
(* The proofs about the routines rest on them.                             *)
(***************************************************************************)
EXTENDS LecticOrder, SemiComplete, Components, IndependentSets, Semantics, Sequences,
        FiniteSetTheorems, WellFoundedInduction, TLAPS

-------------------------------------------------------------------------------
(* The lectic order.                                                         *)

(* A nonempty set of arguments has a least member: the index at which two    *)
(* sets of the lectic order first differ exists.                             *)
LEMMA LeastArgument ==
    ASSUME NEW S, S \subseteq Arg, S # {}
    PROVE  \E m \in S : \A x \in S : m <= x
<1>1. S \subseteq Nat
    BY NAssumption DEF Arg
<1>2. PICK m \in S : \A y \in S : ~ (<<y, m>> \in OpToRel(<, Nat))
    BY <1>1, NatLessThanWellFounded, WFMin
<1>3. \A y \in S : ~(y < m)
    BY <1>1, <1>2 DEF OpToRel
<1> QED
    BY <1>1, <1>3

(* Of two different sets one is lectically less: no two distinct sets are    *)
(* confused by the order in which the search meets them.                     *)
LEMMA LecticTotal ==
    ASSUME NEW S \in SUBSET Arg, NEW T \in SUBSET Arg, S # T
    PROVE  LecticLess(S, T) \/ LecticLess(T, S)
<1> DEFINE D == (S \ T) \cup (T \ S)
<1>1. PICK k \in D : \A x \in D : k <= x
    BY LeastArgument
<1>2. k \in Arg
    OBVIOUS
<1>3. SameBelow(S, T, k) /\ SameBelow(T, S, k)
    BY <1>1, NAssumption DEF SameBelow, Arg
<1> QED
    BY <1>2, <1>3 DEF LecticLess

(* The lectic order is strict, so a set met once is never met again.         *)
LEMMA LecticAsymmetric ==
    ASSUME NEW S \in SUBSET Arg, NEW T \in SUBSET Arg, LecticLess(S, T)
    PROVE  ~LecticLess(T, S) /\ S # T
<1>1. PICK k \in Arg : k \in T /\ k \notin S /\ SameBelow(S, T, k)
    BY DEF LecticLess
<1>2. ASSUME NEW j \in Arg, j \in S, j \notin T, SameBelow(T, S, j)
      PROVE  FALSE
    BY <1>1, <1>2, NAssumption DEF SameBelow, Arg
<1> QED
    BY <1>1, <1>2 DEF LecticLess

(* The lectic order is transitive.                                           *)
LEMMA LecticTransitive ==
    ASSUME NEW S \in SUBSET Arg, NEW T \in SUBSET Arg, NEW U \in SUBSET Arg,
           LecticLess(S, T), LecticLess(T, U)
    PROVE  LecticLess(S, U)
<1>1. PICK k \in Arg : k \in T /\ k \notin S /\ SameBelow(S, T, k)
    BY DEF LecticLess
<1>2. PICK j \in Arg : j \in U /\ j \notin T /\ SameBelow(T, U, j)
    BY DEF LecticLess
<1>3. k < j \/ j < k
    BY <1>1, <1>2, NAssumption DEF Arg
<1>4. CASE k < j
    <2>1. k \in U /\ SameBelow(S, U, k)
        BY <1>1, <1>2, <1>4, NAssumption DEF SameBelow, Arg
    <2> QED
        BY <1>1, <2>1 DEF LecticLess
<1>5. CASE j < k
    <2>1. j \notin S /\ SameBelow(S, U, j)
        BY <1>1, <1>2, <1>5, NAssumption DEF SameBelow, Arg
    <2> QED
        BY <1>2, <2>1 DEF LecticLess
<1> QED
    BY <1>3, <1>4, <1>5

(* From the last index, ahead means lectically greater.                      *)
LEMMA AheadOfAll ==
    ASSUME NEW s \in SUBSET Arg, NEW S \in SUBSET Arg
    PROVE  Ahead(s, N-1, S) <=> LecticLess(s, S)
BY NAssumption DEF Ahead, LecticLess, Arg

(* Leaving index j behind loses only sets that first differ from s at j.     *)
LEMMA AheadStep ==
    ASSUME NEW s \in SUBSET Arg, NEW S \in SUBSET Arg, NEW j \in Arg,
           Ahead(s, j, S), ~(j \in S /\ j \notin s /\ SameBelow(s, S, j))
    PROVE  Ahead(s \ {j}, j - 1, S)
<1>1. PICK k \in Arg : k <= j /\ k \in S /\ k \notin s /\ SameBelow(s, S, k)
    BY DEF Ahead
<1>2. k # j
    BY <1>1
<1>3. k <= j - 1
    BY <1>1, <1>2, NAssumption DEF Arg
<1>4. SameBelow(s \ {j}, S, k)
    BY <1>1, NAssumption DEF SameBelow, Arg
<1> QED
    BY <1>1, <1>3, <1>4 DEF Ahead

(* Moving the index down brings nothing back.                                *)
LEMMA AheadBack ==
    ASSUME NEW s \in SUBSET Arg, NEW S \in SUBSET Arg, NEW j \in Arg,
           Ahead(s \ {j}, j - 1, S)
    PROVE  Ahead(s, j, S)
<1>1. PICK k \in Arg : k <= j - 1 /\ k \in S /\ k \notin (s \ {j})
                        /\ SameBelow(s \ {j}, S, k)
    BY DEF Ahead
<1>2. k <= j /\ k \notin s
    BY <1>1, NAssumption DEF Arg
<1>3. SameBelow(s, S, k)
    BY <1>1, NAssumption DEF SameBelow, Arg
<1> QED
    BY <1>1, <1>2, <1>3 DEF Ahead

(* A set found by adding j canonically to s, together with everything        *)
(* lectically above it, was ahead of the search at j.                        *)
LEMMA NotLessWasAhead ==
    ASSUME NEW s \in SUBSET Arg, NEW next \in SUBSET Arg, NEW T \in SUBSET Arg,
           NEW j \in Arg, j \notin s, s \cup {j} \subseteq next,
           \A b \in next \ s : b >= j, T = next \/ LecticLess(next, T)
    PROVE  Ahead(s, j, T)
<1>1. SameBelow(s, next, j)
    BY NAssumption DEF SameBelow, Arg
<1>2. CASE T = next
    BY <1>1, <1>2, NAssumption DEF Ahead, Arg
<1>3. CASE LecticLess(next, T)
    <2>1. PICK k \in Arg : k \in T /\ k \notin next /\ SameBelow(next, T, k)
        BY <1>3 DEF LecticLess
    <2>2. CASE k < j
        <3>1. k \notin s /\ k <= j
            BY <2>1, <2>2, NAssumption DEF Arg
        <3>2. SameBelow(s, T, k)
            BY <1>1, <2>1, <2>2, NAssumption DEF SameBelow, Arg
        <3> QED
            BY <2>1, <3>1, <3>2 DEF Ahead
    <2>3. CASE ~(k < j)
        <3>1. j < k
            BY <2>1, <2>3, NAssumption DEF Arg
        <3>2. j \in T /\ j <= j
            BY <2>1, <3>1, NAssumption DEF SameBelow, Arg
        <3>3. SameBelow(s, T, j)
            BY <1>1, <2>1, <3>1, NAssumption DEF SameBelow, Arg
        <3> QED
            BY <3>2, <3>3 DEF Ahead
    <2> QED
        BY <2>2, <2>3
<1> QED
    BY <1>2, <1>3

(* A search that stands at j of s and accepts next, to which j has led, has  *)
(* reached S or has it above, if S was ahead and holds next where it begins  *)
(* like s with j.                                                            *)
LEMMA AcceptedOrAbove ==
    ASSUME NEW s \in SUBSET Arg, NEW j \in Arg, NEW next \in SUBSET Arg,
           NEW S \in SUBSET Arg, s \subseteq next, \A b \in next \ s : b >= j,
           Ahead(s, j, S),
           j \in S /\ j \notin s /\ SameBelow(s, S, j) => next \subseteq S
    PROVE  S = next \/ LecticLess(next, S)
<1>1. PICK k \in Arg : k <= j /\ k \in S /\ k \notin s /\ SameBelow(s, S, k)
    BY DEF Ahead
<1>2. CASE k = j
    <2>1. ~LecticLess(S, next)
        BY <1>1, <1>2 DEF LecticLess
    <2> QED
        BY <2>1, LecticTotal
<1>3. CASE k # j
    <2>1. ASSUME NEW l \in Arg, l <= k, l \in next
          PROVE  l \in s
        BY <1>1, <1>3, <2>1, NAssumption DEF Arg
    <2>2. k \notin next /\ SameBelow(next, S, k)
        <3>1. k \notin next
            BY <1>1, <2>1, NAssumption DEF Arg
        <3>2. ASSUME NEW l \in Arg, l < k
              PROVE  l \in next <=> l \in s
            BY <1>1, <2>1, <3>2, NAssumption DEF Arg
        <3> QED
            BY <1>1, <3>1, <3>2 DEF SameBelow
    <2> QED
        BY <1>1, <2>2 DEF LecticLess
<1> QED
    BY <1>2, <1>3

-------------------------------------------------------------------------------
(* Renaming.                                                                 *)

(* The mapping stands for a permutation of the arguments.                    *)
Permutation(m) ==
    /\ \A b \in Arg : \E a \in Arg : m[a] = b
    /\ \A a, b \in Arg : m[a] = m[b] => a = b

(* Filling in a framework along a mapping gives a framework.                 *)
LEMMA RenamedFramework ==
    ASSUME NEW att \in Framework, NEW m \in [Arg -> Arg]
    PROVE  /\ Renamed(att, m) \in Framework
           /\ \A a, b \in Arg : b \in Renamed(att, m)[a] <=> m[b] \in att[m[a]]
BY DEF Renamed, Framework

(* A set is stable in the renamed framework if and only if the set it stands *)
(* for is stable in the framework read.                                      *)
LEMMA RenamedStable ==
    ASSUME NEW att \in Framework, NEW m \in [Arg -> Arg], Permutation(m),
           NEW S \in SUBSET Arg
    PROVE  Stable(Renamed(att, m), S) <=> Stable(att, MapIndices(S, m))
<1>1. DOMAIN att = Arg /\ DOMAIN Renamed(att, m) = Arg
    BY RenamedFramework DEF Framework
<1>2. \A a \in Arg : m[a] \in Arg /\ (m[a] \in MapIndices(S, m) <=> a \in S)
    BY DEF Permutation, MapIndices
<1>3. \A a, b \in Arg : b \in Renamed(att, m)[a] <=> m[b] \in att[m[a]]
    BY RenamedFramework
<1>4. \A a \in Arg : (\A b \in S : a \notin Renamed(att, m)[b])
                        <=> (\A y \in MapIndices(S, m) : m[a] \notin att[y])
    BY <1>3 DEF MapIndices
<1>5. Stable(Renamed(att, m), S)
        <=> \A a \in Arg : m[a] \in MapIndices(S, m)
                              <=> \A y \in MapIndices(S, m) : m[a] \notin att[y]
    BY <1>1, <1>2, <1>4 DEF Stable
<1>6. Stable(att, MapIndices(S, m))
        <=> \A x \in Arg : x \in MapIndices(S, m)
                              <=> \A y \in MapIndices(S, m) : x \notin att[y]
    BY <1>1 DEF Stable
<1>7. \A x \in Arg : \E a \in Arg : m[a] = x
    BY DEF Permutation
<1> QED
    BY <1>2, <1>5, <1>6, <1>7

(* Exchanging two values of a permutation gives a permutation.               *)
LEMMA SwapPermutation ==
    ASSUME NEW m \in [Arg -> Arg], Permutation(m), NEW x \in Arg, NEW y \in Arg,
           NEW new, new = [m EXCEPT ![x] = m[y], ![y] = m[x]]
    PROVE  /\ new \in [Arg -> Arg]
           /\ Permutation(new)
           /\ new[x] = m[y] /\ new[y] = m[x]
           /\ \A a \in Arg : a # x /\ a # y => new[a] = m[a]
<1>1. /\ new \in [Arg -> Arg]
      /\ new[x] = m[y] /\ new[y] = m[x]
      /\ \A a \in Arg : a # x /\ a # y => new[a] = m[a]
    OBVIOUS
<1>2. ASSUME NEW b \in Arg
      PROVE  \E a \in Arg : new[a] = b
    BY <1>1 DEF Permutation
<1>3. ASSUME NEW a \in Arg, NEW b \in Arg, new[a] = new[b]
      PROVE  a = b
    BY <1>1, <1>3 DEF Permutation
<1> QED
    BY <1>1, <1>2, <1>3 DEF Permutation

(* Every set of the input's numbering has one that stands for it.            *)
LEMMA Preimage ==
    ASSUME NEW m \in [Arg -> Arg], Permutation(m), NEW S \in SUBSET Arg
    PROVE  \E T \in SUBSET Arg : MapIndices(T, m) = S
<1> DEFINE T == {a \in Arg : m[a] \in S}
<1>1. MapIndices(T, m) = S
    BY DEF Permutation, MapIndices
<1> QED
    BY <1>1

-------------------------------------------------------------------------------
(* The least semi-complete superset.  Lemmas with "In" in their names are    *)
(* about frameworks on any set D of arguments, such as projections.          *)

(* What a set defends, a larger set defends.                                 *)
LEMMA DefenceMonotone ==
    ASSUME NEW att, NEW t, NEW u, t \subseteq u, NEW a, SetDefendsArg(att, t, a)
    PROVE  SetDefendsArg(att, u, a)
BY DEF SetDefendsArg, SetAttacksArg

(* An argument defended by a part of the closure is in the closure: adding   *)
(* it never leaves the least semi-complete superset.                         *)
LEMMA ClosureKeepsDefendedIn ==
    ASSUME NEW D, NEW att \in [D -> SUBSET D], NEW t \in SUBSET D, NEW u \in SUBSET D,
           u \subseteq SemiClosure(att, t), NEW a \in D, SetDefendsArg(att, u, a)
    PROVE  a \in SemiClosure(att, t)
<1>1. DOMAIN att = D
    OBVIOUS
<1>2. ASSUME NEW v \in SUBSET D, t \subseteq v, SemiCompleteSet(att, v)
      PROVE  a \in v
    <2>1. u \subseteq v
        BY <1>1, <1>2 DEF SemiClosure
    <2>2. SetDefendsArg(att, v, a)
        BY <2>1, DefenceMonotone
    <2> QED
        BY <1>1, <1>2, <2>2 DEF SemiCompleteSet
<1> QED
    BY <1>1, <1>2 DEF SemiClosure

LEMMA ClosureKeepsDefended ==
    ASSUME NEW att \in Framework, NEW t \in SUBSET Arg, NEW u \in SUBSET Arg,
           u \subseteq SemiClosure(att, t), NEW a \in Arg, SetDefendsArg(att, u, a)
    PROVE  a \in SemiClosure(att, t)
BY ClosureKeepsDefendedIn DEF Framework

(* A semi-complete superset holds the closure.                               *)
LEMMA ClosureLeastIn ==
    ASSUME NEW D, NEW att \in [D -> SUBSET D], NEW t, NEW u \in SUBSET D,
           t \subseteq u, SemiCompleteSet(att, u)
    PROVE  SemiClosure(att, t) \subseteq u
BY DEF SemiClosure

LEMMA ClosureLeast ==
    ASSUME NEW att \in Framework, NEW t, NEW u \in SUBSET Arg,
           t \subseteq u, SemiCompleteSet(att, u)
    PROVE  SemiClosure(att, t) \subseteq u
BY ClosureLeastIn DEF Framework

(* The closure is a semi-complete superset within the framework.             *)
LEMMA SemiClosureIsClosureIn ==
    ASSUME NEW D, NEW att \in [D -> SUBSET D], NEW t \in SUBSET D
    PROVE  /\ SemiClosure(att, t) \in SUBSET D
           /\ t \subseteq SemiClosure(att, t)
           /\ SemiCompleteSet(att, SemiClosure(att, t))
<1>1. DOMAIN att = D
    OBVIOUS
<1>2. SemiClosure(att, t) \in SUBSET D /\ t \subseteq SemiClosure(att, t)
    BY <1>1 DEF SemiClosure
<1>3. \A a \in D : SetDefendsArg(att, SemiClosure(att, t), a)
                        => a \in SemiClosure(att, t)
    BY <1>2, ClosureKeepsDefendedIn
<1> QED
    BY <1>1, <1>2, <1>3 DEF SemiCompleteSet

LEMMA SemiClosureIsClosure ==
    ASSUME NEW att \in Framework, NEW t \in SUBSET Arg
    PROVE  /\ SemiClosure(att, t) \in SUBSET Arg
           /\ t \subseteq SemiClosure(att, t)
           /\ SemiCompleteSet(att, SemiClosure(att, t))
BY SemiClosureIsClosureIn DEF Framework

(* What the closure adds it defends: without it, the rest of the closure     *)
(* would be a smaller semi-complete superset.                                *)
LEMMA AddedIsDefendedIn ==
    ASSUME NEW D, NEW att \in [D -> SUBSET D], NEW t \in SUBSET D,
           NEW a \in SemiClosure(att, t), a \notin t
    PROVE  SetDefendsArg(att, SemiClosure(att, t), a)
<1> DEFINE next == SemiClosure(att, t)
           rest == next \ {a}
<1>1. next \in SUBSET D /\ t \subseteq next /\ SemiCompleteSet(att, next)
    BY SemiClosureIsClosureIn
<1>2. SUFFICES ASSUME ~SetDefendsArg(att, next, a)
               PROVE  FALSE
    OBVIOUS
<1>3. SemiCompleteSet(att, rest)
    <2> SUFFICES ASSUME NEW b \in DOMAIN att, SetDefendsArg(att, rest, b)
                 PROVE  b \in rest
        BY DEF SemiCompleteSet
    <2>1. SetDefendsArg(att, next, b)
        BY DefenceMonotone
    <2> QED
        BY <1>1, <1>2, <2>1 DEF SemiCompleteSet
<1>4. next \subseteq rest
    BY <1>1, <1>3, ClosureLeastIn
<1> QED
    BY <1>4

LEMMA AddedIsDefended ==
    ASSUME NEW att \in Framework, NEW t \in SUBSET Arg,
           NEW a \in SemiClosure(att, t), a \notin t
    PROVE  SetDefendsArg(att, SemiClosure(att, t), a)
BY AddedIsDefendedIn DEF Framework

-------------------------------------------------------------------------------
(* Semi-complete sets and complete extensions.                               *)

(* No part of S is attacked throughout by itself: what the tests of the      *)
(* search for complete extensions leave of conflict-freeness.  A single      *)
(* attack between two members is not excluded.                               *)
Quiet(att, S) ==
    \A V \in SUBSET S : V # {} => \E a \in V : \A b \in V : a \notin att[b]

(* The closure of a quiet set is quiet, unless it adds an argument that is   *)
(* attacked by the set and attacks the closure.                              *)
LEMMA ClosureQuietIn ==
    ASSUME NEW D, NEW att \in [D -> SUBSET D], NEW X \in SUBSET D, Quiet(att, X),
           NEW next, next = SemiClosure(att, X),
           \A b \in next \ X : ~(ArgAttacksSet(att, b, next) /\ SetAttacksArg(att, X, b))
    PROVE  Quiet(att, next)
<1>1. /\ DOMAIN att = D
      /\ next \in SUBSET D /\ X \subseteq next /\ SemiCompleteSet(att, next)
    BY SemiClosureIsClosureIn
<1> DEFINE U == {a \in next \ X : SetAttacksArg(att, next, a) /\ ArgAttacksSet(att, a, next)}
<1>2. ASSUME NEW a \in U, NEW b \in next, a \in att[b]
      PROVE  b \in next \ X
    BY <1>2 DEF SetAttacksArg
<1>3. SemiCompleteSet(att, next \ U)
    <2> SUFFICES ASSUME NEW a \in D, SetDefendsArg(att, next \ U, a), a \in U
                 PROVE  FALSE
        <3>1. \A a \in D : SetDefendsArg(att, next \ U, a) => a \in next
            BY <1>1, DefenceMonotone DEF SemiCompleteSet
        <3> QED
            BY <1>1, <3>1 DEF SemiCompleteSet
    <2>1. PICK b \in next : a \in att[b]
        BY DEF SetAttacksArg
    <2>2. b \in next \ X
        BY <1>2, <2>1
    <2>3. PICK d \in next \ U : b \in att[d]
        BY <1>1, <2>1 DEF SetDefendsArg, SetAttacksArg
    <2>4. ArgAttacksSet(att, b, next)
        BY <2>1 DEF ArgAttacksSet
    <2>5. d \notin X
        BY <2>2, <2>3, <2>4 DEF SetAttacksArg
    <2>6. SetDefendsArg(att, next, b)
        BY <2>2, AddedIsDefendedIn
    <2>7. SetAttacksArg(att, next, d)
        BY <1>1, <2>3, <2>6 DEF SetDefendsArg
    <2>8. ArgAttacksSet(att, d, next)
        BY <2>2, <2>3 DEF ArgAttacksSet
    <2> QED
        BY <2>3, <2>5, <2>7, <2>8
<1>4. U = {}
    <2>1. next \subseteq next \ U
        BY <1>1, <1>3, ClosureLeastIn
    <2> QED
        BY <2>1
<1>5. SUFFICES ASSUME NEW V \in SUBSET next, V # {},
                      \A a \in V : \E b \in V : a \in att[b]
               PROVE  FALSE
    BY DEF Quiet
<1> DEFINE W == {a \in V : ArgAttacksSet(att, a, V)}
<1>6. \A a \in V : \E b \in W : a \in att[b]
    BY <1>5 DEF ArgAttacksSet
<1>7. W \subseteq X
    <2> SUFFICES ASSUME NEW a \in W, a \notin X
                 PROVE  FALSE
        OBVIOUS
    <2>1. SetAttacksArg(att, next, a) /\ ArgAttacksSet(att, a, next)
        BY <1>5 DEF SetAttacksArg, ArgAttacksSet
    <2> QED
        BY <1>4, <2>1
<1>8. W # {}
    BY <1>5, <1>6
<1> QED
    BY <1>6, <1>7, <1>8 DEF Quiet

LEMMA ClosureQuiet ==
    ASSUME NEW att \in Framework, NEW X \in SUBSET Arg, Quiet(att, X),
           NEW next, next = SemiClosure(att, X),
           \A b \in next \ X : ~(ArgAttacksSet(att, b, next) /\ SetAttacksArg(att, X, b))
    PROVE  Quiet(att, next)
BY ClosureQuietIn DEF Framework

(* A part of a quiet set is quiet.                                           *)
LEMMA QuietPart ==
    ASSUME NEW att, NEW S, Quiet(att, S), NEW T \in SUBSET S
    PROVE  Quiet(att, T)
BY DEF Quiet

(* A quiet set stays quiet with one more argument that is in conflict        *)
(* neither with itself nor with the set.                                     *)
LEMMA QuietAdd ==
    ASSUME NEW att, NEW S, Quiet(att, S), NEW a, a \notin att[a],
           ~SetAttacksArg(att, S, a)
    PROVE  Quiet(att, S \cup {a})
<1>1. SUFFICES ASSUME NEW V \in SUBSET (S \cup {a}), V # {}
               PROVE  \E b \in V : \A d \in V : b \notin att[d]
    BY DEF Quiet
<1>2. CASE a \in V
    BY <1>2 DEF SetAttacksArg
<1>3. CASE a \notin V
    <2>1. V \in SUBSET S
        BY <1>3
    <2> QED
        BY <1>1, <2>1 DEF Quiet
<1> QED
    BY <1>2, <1>3

(* A set defends itself if it attacks every argument that attacks a member.  *)
LEMMA SelfDefendingIn ==
    ASSUME NEW D, NEW att \in [D -> SUBSET D], NEW S \in SUBSET D
    PROVE  SelfDefending(att, S)
                <=> \A a \in S, b \in D : a \in att[b] => SetAttacksArg(att, S, b)
<1>1. DOMAIN att = D /\ DOMAIN Transpose(att) = D
    BY DEF Transpose
<1>2. \A b \in D : b \in Victims(Transpose(att), S) <=> \E a \in S : a \in att[b]
    <2> TAKE b \in D
    <2>1. \A a \in S : b \in Transpose(att)[a] <=> a \in att[b]
        BY DEF Transpose
    <2> QED
        BY <1>1, <2>1 DEF Victims, SetAttacksArg
<1>3. \A b \in D : b \in Victims(att, S) <=> SetAttacksArg(att, S, b)
    BY <1>1 DEF Victims
<1>4. Victims(att, S) \subseteq D /\ Victims(Transpose(att), S) \subseteq D
    BY <1>1 DEF Victims
<1> QED
    BY <1>2, <1>3, <1>4 DEF SelfDefending

(* A quiet semi-complete set that attacks all its attackers has no conflict: *)
(* the members it attacks would attack each other.  So what EE-CO keeps is   *)
(* a complete extension.                                                     *)
LEMMA QuietCompleteIn ==
    ASSUME NEW D, NEW att \in [D -> SUBSET D], NEW S \in SUBSET D, Quiet(att, S),
           SemiCompleteSet(att, S), SelfDefending(att, S)
    PROVE  CompleteExt(att, S)
<1>1. DOMAIN att = D /\ DOMAIN Transpose(att) = D
    BY DEF Transpose
<1>2. ASSUME NEW a \in S, NEW b \in D, a \in att[b]
      PROVE  \E d \in S : b \in att[d]
    <2>1. b \in Victims(Transpose(att), S)
        BY <1>1, <1>2 DEF Victims, SetAttacksArg, Transpose
    <2> QED
        BY <2>1 DEF SelfDefending, Victims, SetAttacksArg
<1>3. ConflictFreeIn(att, S)
    <2> DEFINE V == {a \in S : \E b \in S : a \in att[b]}
    <2>1. \A a \in V : \E b \in V : a \in att[b]
        BY <1>2
    <2>2. V = {}
        BY <2>1 DEF Quiet
    <2> QED
        BY <2>2 DEF ConflictFreeIn
<1>4. \A a \in D : a \in S <=> Defended(att, S, a)
    BY <1>1, <1>2 DEF Defended, SemiCompleteSet, SetDefendsArg, SetAttacksArg
<1> QED
    BY <1>1, <1>3, <1>4 DEF CompleteExt

LEMMA QuietComplete ==
    ASSUME NEW att \in Framework, NEW S \in SUBSET Arg, Quiet(att, S),
           SemiCompleteSet(att, S), SelfDefending(att, S)
    PROVE  CompleteExt(att, S)
BY QuietCompleteIn DEF Framework

(* What a complete extension has of all this.                                *)
LEMMA CompleteFactsIn ==
    ASSUME NEW D, NEW att \in [D -> SUBSET D], NEW S \in SUBSET D, CompleteExt(att, S)
    PROVE  /\ \A a, b \in S : b \notin att[a]
           /\ SemiCompleteSet(att, S)
           /\ SelfDefending(att, S)
           /\ \A a \in D : a \in S <=> SetDefendsArg(att, S, a)
<1>1. DOMAIN att = D /\ DOMAIN Transpose(att) = D
    BY DEF Transpose
<1>2. \A a \in D : a \in S <=> SetDefendsArg(att, S, a)
    BY <1>1 DEF CompleteExt, Defended, SetDefendsArg, SetAttacksArg
<1>3. SelfDefending(att, S)
    BY <1>1, <1>2 DEF SelfDefending, Victims, SetAttacksArg, SetDefendsArg, Transpose
<1> QED
    BY <1>1, <1>2, <1>3 DEF CompleteExt, ConflictFreeIn, SemiCompleteSet

LEMMA CompleteFacts ==
    ASSUME NEW att \in Framework, NEW S \in SUBSET Arg, CompleteExt(att, S)
    PROVE  /\ \A a, b \in S : b \notin att[a]
           /\ SemiCompleteSet(att, S)
           /\ SelfDefending(att, S)
           /\ \A a \in Arg : a \in S <=> SetDefendsArg(att, S, a)
BY CompleteFactsIn DEF Framework

-------------------------------------------------------------------------------
(* Renaming the other semantics.                                             *)

LEMMA MapIndicesFacts ==
    ASSUME NEW m \in [Arg -> Arg], Permutation(m), NEW S \in SUBSET Arg
    PROVE  /\ MapIndices(S, m) \in SUBSET Arg
           /\ \A a \in Arg : m[a] \in MapIndices(S, m) <=> a \in S
           /\ \A T \in SUBSET Arg :
                 /\ MapIndices(S, m) \subseteq MapIndices(T, m) <=> S \subseteq T
                 /\ MapIndices(S, m) = MapIndices(T, m) => S = T
<1>1. MapIndices(S, m) \in SUBSET Arg
    BY DEF MapIndices
<1>2. \A T \in SUBSET Arg : \A a \in Arg : m[a] \in MapIndices(T, m) <=> a \in T
    BY DEF Permutation, MapIndices
<1>3. ASSUME NEW T \in SUBSET Arg
      PROVE  MapIndices(S, m) \subseteq MapIndices(T, m) <=> S \subseteq T
    <2>1. ASSUME S \subseteq T
          PROVE  MapIndices(S, m) \subseteq MapIndices(T, m)
        BY <2>1 DEF MapIndices
    <2>2. ASSUME MapIndices(S, m) \subseteq MapIndices(T, m)
          PROVE  S \subseteq T
        BY <1>2, <2>2
    <2> QED
        BY <2>1, <2>2
<1>4. ASSUME NEW T \in SUBSET Arg, MapIndices(S, m) = MapIndices(T, m)
      PROVE  S = T
    BY <1>2, <1>4
<1> QED
    BY <1>1, <1>2, <1>3, <1>4

(* Attack and defence are those of the renamed arguments.                    *)
LEMMA RenamedDefended ==
    ASSUME NEW att \in Framework, NEW m \in [Arg -> Arg], Permutation(m),
           NEW S \in SUBSET Arg
    PROVE  /\ ConflictFreeIn(Renamed(att, m), S)
                <=> ConflictFreeIn(att, MapIndices(S, m))
           /\ \A a \in Arg : Defended(Renamed(att, m), S, a)
                                <=> Defended(att, MapIndices(S, m), m[a])
<1>1. DOMAIN att = Arg /\ DOMAIN Renamed(att, m) = Arg
    BY RenamedFramework DEF Framework
<1>2. \A a, b \in Arg : b \in Renamed(att, m)[a] <=> m[b] \in att[m[a]]
    BY RenamedFramework
<1>3. ConflictFreeIn(Renamed(att, m), S) <=> ConflictFreeIn(att, MapIndices(S, m))
    BY <1>2 DEF ConflictFreeIn, MapIndices
<1>4. ASSUME NEW a \in Arg
      PROVE  Defended(Renamed(att, m), S, a) <=> Defended(att, MapIndices(S, m), m[a])
    <2>1. \A b \in Arg : (\E d \in S : b \in Renamed(att, m)[d])
                            <=> \E e \in MapIndices(S, m) : m[b] \in att[e]
        BY <1>2 DEF MapIndices
    <2>2. \A b \in Arg : m[b] \in Arg /\ (a \in Renamed(att, m)[b] <=> m[a] \in att[m[b]])
        BY <1>2
    <2>3. \A x \in Arg : \E b \in Arg : m[b] = x
        BY DEF Permutation
    <2> QED
        BY <1>1, <2>1, <2>2, <2>3 DEF Defended
<1> QED
    BY <1>3, <1>4

LEMMA RenamedComplete ==
    ASSUME NEW att \in Framework, NEW m \in [Arg -> Arg], Permutation(m),
           NEW S \in SUBSET Arg
    PROVE  CompleteExt(Renamed(att, m), S) <=> CompleteExt(att, MapIndices(S, m))
<1>1. DOMAIN att = Arg /\ DOMAIN Renamed(att, m) = Arg
    BY RenamedFramework DEF Framework
<1>2. (\A a \in Arg : a \in S <=> Defended(Renamed(att, m), S, a))
        <=> \A x \in Arg : x \in MapIndices(S, m) <=> Defended(att, MapIndices(S, m), x)
    <2>1. \A a \in Arg : m[a] \in MapIndices(S, m) <=> a \in S
        BY MapIndicesFacts
    <2>2. \A x \in Arg : \E a \in Arg : m[a] = x
        BY DEF Permutation
    <2> QED
        BY <2>1, <2>2, RenamedDefended
<1>3. \A T \in SUBSET Arg, f \in {att, Renamed(att, m)} :
        T = {a \in DOMAIN f : Defended(f, T, a)}
            <=> \A a \in Arg : a \in T <=> Defended(f, T, a)
    BY <1>1
<1>4. MapIndices(S, m) \in SUBSET Arg
    BY MapIndicesFacts
<1> QED
    BY <1>2, <1>3, <1>4, RenamedDefended DEF CompleteExt

LEMMA RenamedAdmissible ==
    ASSUME NEW att \in Framework, NEW m \in [Arg -> Arg], Permutation(m),
           NEW S \in SUBSET Arg
    PROVE  Admissible(Renamed(att, m), S) <=> Admissible(att, MapIndices(S, m))
<1>1. (\A a \in S : Defended(Renamed(att, m), S, a))
        <=> \A x \in MapIndices(S, m) : Defended(att, MapIndices(S, m), x)
    BY RenamedDefended DEF MapIndices
<1> QED
    BY <1>1, RenamedDefended DEF Admissible

(* The sets of extensions of a framework on the arguments.                   *)
LEMMA ExtensionSets ==
    ASSUME NEW att \in Framework
    PROVE  /\ CompleteExtensions(att) = {S \in SUBSET Arg : CompleteExt(att, S)}
           /\ AdmissibleSets(att) = {S \in SUBSET Arg : Admissible(att, S)}
           /\ PreferredExtensions(att) =
                {S \in AdmissibleSets(att) :
                    \A T \in AdmissibleSets(att) : S \subseteq T => T = S}
BY DEF Framework, CompleteExtensions, AdmissibleSets, PreferredExtensions

LEMMA RenamedPreferred ==
    ASSUME NEW att \in Framework, NEW m \in [Arg -> Arg], Permutation(m),
           NEW S \in SUBSET Arg
    PROVE  S \in PreferredExtensions(Renamed(att, m))
                <=> MapIndices(S, m) \in PreferredExtensions(att)
<1> DEFINE base == Renamed(att, m)
           Image(T) == MapIndices(T, m)
<1>1. base \in Framework
    BY RenamedFramework
<1>2. \A T \in SUBSET Arg : /\ Image(T) \in SUBSET Arg
                            /\ T \in AdmissibleSets(base) <=> Image(T) \in AdmissibleSets(att)
    BY <1>1, RenamedAdmissible, ExtensionSets, MapIndicesFacts
<1>3. \A T \in SUBSET Arg : /\ Image(S) \subseteq Image(T) <=> S \subseteq T
                            /\ Image(T) = Image(S) <=> T = S
    BY MapIndicesFacts
<1>4. \A x \in AdmissibleSets(att) : \E T \in SUBSET Arg : Image(T) = x
    <2>1. AdmissibleSets(att) \subseteq SUBSET Arg
        BY ExtensionSets
    <2>2. \A x \in SUBSET Arg : \E T \in SUBSET Arg : Image(T) = x
        BY Preimage
    <2> QED
        BY <2>1, <2>2
<1>5. AdmissibleSets(base) \subseteq SUBSET Arg
    BY <1>1, ExtensionSets
<1> HIDE DEF base, Image
<1>6. S \in PreferredExtensions(base)
        <=> /\ S \in AdmissibleSets(base)
            /\ \A T \in AdmissibleSets(base) : S \subseteq T => T = S
    BY <1>1, ExtensionSets
<1>7. Image(S) \in PreferredExtensions(att)
        <=> /\ Image(S) \in AdmissibleSets(att)
            /\ \A T \in AdmissibleSets(att) : Image(S) \subseteq T => T = Image(S)
    BY ExtensionSets
<1>8. S \in PreferredExtensions(base) <=> Image(S) \in PreferredExtensions(att)
    BY <1>2, <1>3, <1>4, <1>5, <1>6, <1>7
<1> QED
    BY <1>8 DEF base, Image

-------------------------------------------------------------------------------
(* Preferred extensions.                                                     *)

LEMMA ArgFinite ==
    ASSUME NEW S \in SUBSET Arg
    PROVE  /\ IsFiniteSet(S) /\ Cardinality(S) \in Nat
           /\ \A T \in SUBSET S :
                /\ Cardinality(T) <= Cardinality(S)
                /\ Cardinality(T) = Cardinality(S) => T = S
<1>1. IsFiniteSet(Arg)
    BY NAssumption, FS_Interval DEF Arg
<1>2. IsFiniteSet(S)
    BY <1>1, FS_Subset
<1>3. \A T \in SUBSET S : Cardinality(T) <= Cardinality(S)
    BY <1>2, FS_Subset
<1>4. \A T \in SUBSET S : Cardinality(T) = Cardinality(S) => S = T
    BY <1>2, FS_Subset
<1> QED
    BY <1>2, <1>3, <1>4, FS_CardinalityType

(* Among finitely many arguments, an injective mapping is onto.              *)
LEMMA InjectivePermutation ==
    ASSUME NEW m \in [Arg -> Arg], \A a, b \in Arg : m[a] = m[b] => a = b
    PROVE  Permutation(m)
<1> DEFINE image == {m[a] : a \in Arg}
<1>1. m \in Bijection(Arg, image)
    BY DEF Bijection, Injection, Surjection, IsInjective
<1>2. Arg \in SUBSET Arg /\ image \in SUBSET Arg
    OBVIOUS
<1>3. IsFiniteSet(Arg)
    BY <1>2, ArgFinite
<1>4. Cardinality(image) = Cardinality(Arg)
    BY <1>1, <1>3, FS_Bijection DEF ExistsBijection
<1>5. image = Arg
    BY <1>2, <1>4, ArgFinite
<1> QED
    BY <1>5 DEF Permutation

(* Every admissible set is within a preferred extension: one of those with   *)
(* the fewest arguments left out.                                            *)
LEMMA PreferredAbove ==
    ASSUME NEW att \in Framework, NEW S \in AdmissibleSets(att)
    PROVE  \E P \in PreferredExtensions(att) : S \subseteq P
<1> DEFINE above == {T \in AdmissibleSets(att) : S \subseteq T}
           missing == {Cardinality(Arg \ T) : T \in above}
<1>1. AdmissibleSets(att) \subseteq SUBSET Arg
    BY ExtensionSets
<1>2. missing \subseteq Nat /\ missing # {}
    <2>1. \A T \in above : Cardinality(Arg \ T) \in Nat
        BY ArgFinite
    <2> QED
        BY <2>1
<1>3. PICK least \in missing : \A y \in missing : ~ (<<y, least>> \in OpToRel(<, Nat))
    BY <1>2, NatLessThanWellFounded, WFMin
<1>4. \A y \in missing : ~(y < least)
    BY <1>2, <1>3 DEF OpToRel
<1>5. PICK P \in above : least = Cardinality(Arg \ P)
    BY <1>3
<1>6. ASSUME NEW T \in AdmissibleSets(att), P \subseteq T
      PROVE  T = P
    <2>1. T \in above /\ Arg \ T \subseteq Arg \ P
        BY <1>5, <1>6
    <2>2. Cardinality(Arg \ T) \in missing
        BY <2>1
    <2>3. /\ Cardinality(Arg \ T) <= Cardinality(Arg \ P)
          /\ Cardinality(Arg \ T) \in Nat /\ Cardinality(Arg \ P) \in Nat
        BY <2>1, ArgFinite
    <2>4. Cardinality(Arg \ T) = Cardinality(Arg \ P)
        <3>1. ~(Cardinality(Arg \ T) < Cardinality(Arg \ P))
            BY <1>4, <1>5, <2>2
        <3> QED
            BY <2>3, <3>1
    <2>5. Arg \ T = Arg \ P
        BY <2>1, <2>4, ArgFinite
    <2> QED
        BY <1>1, <1>6, <2>5
<1>7. P \in PreferredExtensions(att)
    BY <1>5, <1>6, ExtensionSets
<1> QED
    BY <1>5, <1>7

(* An argument that an admissible set defends can join it.                   *)
LEMMA AdmissibleAdd ==
    ASSUME NEW att \in Framework, NEW S \in AdmissibleSets(att),
           NEW a \in Arg, Defended(att, S, a)
    PROVE  S \cup {a} \in AdmissibleSets(att)
<1>1. /\ DOMAIN att = Arg /\ S \in SUBSET Arg
      /\ \A x, y \in S : y \notin att[x]
      /\ \A x \in S : \A b \in Arg : x \in att[b] => \E d \in S : b \in att[d]
      /\ \A b \in Arg : a \in att[b] => \E d \in S : b \in att[d]
    BY ExtensionSets DEF Framework, Admissible, ConflictFreeIn, Defended
<1>2. \A x \in S : a \notin att[x]
    BY <1>1
<1>3. \A x \in S : x \notin att[a]
    BY <1>1, <1>2
<1>4. a \notin att[a]
    BY <1>1, <1>3
<1>5. ConflictFreeIn(att, S \cup {a})
    BY <1>1, <1>2, <1>3, <1>4 DEF ConflictFreeIn
<1>6. \A x \in S \cup {a} : Defended(att, S \cup {a}, x)
    BY <1>1 DEF Defended
<1>7. S \cup {a} \in SUBSET Arg
    BY <1>1
<1>8. Admissible(att, S \cup {a})
    BY <1>5, <1>6 DEF Admissible
<1>9. AdmissibleSets(att) = {T \in SUBSET Arg : Admissible(att, T)}
    BY ExtensionSets
<1> QED
    BY <1>7, <1>8, <1>9

(* A preferred extension is complete.                                        *)
LEMMA PreferredComplete ==
    ASSUME NEW att \in Framework, NEW P \in PreferredExtensions(att)
    PROVE  P \in SUBSET Arg /\ P \in AdmissibleSets(att) /\ CompleteExt(att, P)
<1>1. P \in SUBSET Arg /\ P \in AdmissibleSets(att) /\ Admissible(att, P)
    BY ExtensionSets
<1>2. ASSUME NEW a \in Arg, Defended(att, P, a)
      PROVE  a \in P
    <2>1. P \cup {a} \in AdmissibleSets(att)
        BY <1>1, <1>2, AdmissibleAdd
    <2>2. \A T \in AdmissibleSets(att) : P \subseteq T => T = P
        BY ExtensionSets
    <2>3. P \cup {a} = P
        BY <2>1, <2>2
    <2> QED
        BY <2>3
<1>3. P = {a \in DOMAIN att : Defended(att, P, a)}
    BY <1>1, <1>2 DEF Admissible, Framework
<1> QED
    BY <1>1, <1>3 DEF CompleteExt, Admissible

(* The empty set is admissible.                                              *)
LEMMA EmptyAdmissible ==
    ASSUME NEW att \in Framework
    PROVE  {} \in AdmissibleSets(att)
BY ExtensionSets DEF Admissible, ConflictFreeIn

(* The elements of a sequence.                                               *)
Members(seq) == {seq[n] : n \in DOMAIN seq}

(* A list with one more element in front.                                    *)
LEMMA Prepended ==
    ASSUME NEW s \in Seq(SUBSET Arg), NEW e \in SUBSET Arg
    PROVE  /\ <<e>> \o s \in Seq(SUBSET Arg)
           /\ DOMAIN (<<e>> \o s) = 1 .. Len(s) + 1
           /\ (<<e>> \o s)[1] = e
           /\ \A n \in DOMAIN (<<e>> \o s) :
                n # 1 => n-1 \in DOMAIN s /\ (<<e>> \o s)[n] = s[n-1]
           /\ Members(<<e>> \o s) = {e} \cup Members(s)
<1> DEFINE t == <<e>> \o s
<1>1. /\ t \in Seq(SUBSET Arg)
      /\ DOMAIN t = 1 .. Len(s) + 1
      /\ t[1] = e
    OBVIOUS
<1>2. \A n \in DOMAIN s : n+1 \in DOMAIN t /\ t[n+1] = s[n]
    OBVIOUS
<1>3. \A n \in DOMAIN t : n # 1 => n-1 \in DOMAIN s /\ t[n] = s[n-1]
    OBVIOUS
<1>4. 1 \in DOMAIN t
    OBVIOUS
<1> HIDE DEF t
<1>5. \A n \in DOMAIN t : t[n] \in {e} \cup Members(s)
    BY <1>1, <1>3 DEF Members
<1>6. \A n \in DOMAIN s : s[n] \in Members(t)
    BY <1>2 DEF Members
<1>7. e \in Members(t)
    BY <1>1, <1>4 DEF Members
<1>8. Members(t) = {e} \cup Members(s)
    BY <1>5, <1>6, <1>7 DEF Members
<1> QED
    BY <1>1, <1>3, <1>8 DEF t

(* A sequence without repetitions is as long as the set of its elements.     *)
LEMMA NoRepetitions ==
    ASSUME NEW s, s \in Seq(SUBSET Arg), \A m, n \in DOMAIN s : s[m] = s[n] => m = n
    PROVE  Len(s) = Cardinality(Members(s))
<1> DEFINE elements == Members(s)
<1>1. Len(s) \in Nat /\ DOMAIN s = 1 .. Len(s)
    OBVIOUS
<1>2. s \in Bijection(1 .. Len(s), elements)
    <2>1. s \in [1 .. Len(s) -> elements]
        BY <1>1 DEF Members
    <2>2. \A y \in elements : \E x \in 1 .. Len(s) : s[x] = y
        BY <1>1 DEF Members
    <2> QED
        BY <1>1, <2>1, <2>2 DEF Bijection, Injection, Surjection, IsInjective
<1>3. IsFiniteSet(1 .. Len(s)) /\ Cardinality(1 .. Len(s)) = Len(s)
    BY <1>1, FS_Interval
<1> QED
    BY <1>2, <1>3, FS_Bijection DEF ExistsBijection

LEMMA ArgSize == Cardinality(Arg) = N
<1>1. Cardinality(0 .. N-1) = IF 0 > N-1 THEN 0 ELSE N-1-0+1
    BY NAssumption, FS_Interval
<1> QED
    BY <1>1, NAssumption DEF Arg

-------------------------------------------------------------------------------
(* Printing a list.                                                          *)

(* Of the sets E some are still in the list and others have been put out     *)
(* along the mapping m, none twice; if whole, each is in one or the other.   *)
Printing(m, E, list, out, whole) ==
    /\ list \in Seq(SUBSET Arg) /\ Members(list) \subseteq E
    /\ \A x, y \in DOMAIN list : list[x] = list[y] => x = y
    /\ out \in Seq(SUBSET Arg)
    /\ \A x \in DOMAIN out : \E S \in E \ Members(list) : out[x] = MapIndices(S, m)
    /\ \A x, y \in DOMAIN out : out[x] = out[y] => x = y
    /\ whole => \A S \in E : S \in Members(list)
                                \/ \E x \in DOMAIN out : out[x] = MapIndices(S, m)

LEMMA PrintHead ==
    ASSUME NEW m \in [Arg -> Arg], Permutation(m), NEW E \in SUBSET SUBSET Arg,
           NEW list, NEW out, NEW whole, Printing(m, E, list, out, whole), list # <<>>
    PROVE  Printing(m, E, Tail(list), Append(out, MapIndices(Head(list), m)), whole)
<1> DEFINE head == Head(list)
           image == MapIndices(head, m)
           rest == Tail(list)
           new == Append(out, image)
<1>1. list \in Seq(SUBSET Arg) /\ out \in Seq(SUBSET Arg)
    BY DEF Printing
<1>2. /\ rest \in Seq(SUBSET Arg) /\ head = list[1] /\ 1 \in DOMAIN list
      /\ \A x \in DOMAIN rest : x+1 \in DOMAIN list /\ rest[x] = list[x+1] /\ x+1 # 1
      /\ \A x \in DOMAIN list : x # 1 => x-1 \in DOMAIN rest /\ rest[x-1] = list[x]
    BY <1>1
<1>3. head \in SUBSET Arg /\ image \in SUBSET Arg /\ head \in E
    <2>1. head \in SUBSET Arg
        BY <1>1, <1>2
    <2>2. head \in E
        BY <1>2 DEF Printing, Members
    <2> QED
        BY <2>1, <2>2, MapIndicesFacts
<1> DEFINE end == Len(out) + 1
<1>4. /\ new \in Seq(SUBSET Arg) /\ DOMAIN new = DOMAIN out \cup {end}
      /\ end \notin DOMAIN out /\ new[end] = image
      /\ \A x \in DOMAIN out : new[x] = out[x]
    BY <1>1, <1>3
<1> HIDE DEF head, rest, new, image, end
<1>5. head \notin Members(rest) /\ Members(list) = Members(rest) \cup {head}
    <2>1. head \notin Members(rest)
        BY <1>2 DEF Printing, Members
    <2>2. \A S \in Members(rest) : S \in Members(list)
        BY <1>2 DEF Members
    <2>3. \A S \in Members(list) : S = head \/ S \in Members(rest)
        BY <1>2 DEF Members
    <2>4. head \in Members(list)
        BY <1>2 DEF Members
    <2> QED
        BY <2>1, <2>2, <2>3, <2>4
<1>6. \A x, y \in DOMAIN rest : rest[x] = rest[y] => x = y
    <2> SUFFICES ASSUME NEW x \in DOMAIN rest, NEW y \in DOMAIN rest, rest[x] = rest[y]
                 PROVE  x = y
        OBVIOUS
    <2>1. x+1 = y+1
        BY <1>2 DEF Printing
    <2>2. x \in Nat /\ y \in Nat
        BY <1>2
    <2> QED
        BY <2>1, <2>2
<1>7. \A x \in DOMAIN new : \E S \in E \ Members(rest) : new[x] = MapIndices(S, m)
    <2> SUFFICES ASSUME NEW x \in DOMAIN new
                 PROVE  \E S \in E \ Members(rest) : new[x] = MapIndices(S, m)
        OBVIOUS
    <2>1. CASE x = end
        BY <1>3, <1>4, <1>5, <2>1 DEF image
    <2>2. CASE x # end
        BY <1>4, <1>5, <2>2 DEF Printing
    <2> QED
        BY <2>1, <2>2
<1>8. \A x \in DOMAIN out : out[x] # image
    <2> SUFFICES ASSUME NEW x \in DOMAIN out
                 PROVE  out[x] # image
        OBVIOUS
    <2>1. PICK S \in E \ Members(list) : out[x] = MapIndices(S, m)
        BY DEF Printing
    <2>2. S \in SUBSET Arg /\ S # head
        BY <1>5, <2>1
    <2> QED
        BY <1>3, <2>1, <2>2, MapIndicesFacts DEF image
<1>9. \A x, y \in DOMAIN new : new[x] = new[y] => x = y
    BY <1>4, <1>8 DEF Printing
<1>10. ASSUME whole, NEW S \in E
       PROVE  S \in Members(rest) \/ \E x \in DOMAIN new : new[x] = MapIndices(S, m)
    <2>1. CASE S = head
        BY <1>4, <2>1 DEF image
    <2>2. CASE S # head
        BY <1>4, <1>5, <1>10, <2>2 DEF Printing
    <2> QED
        BY <2>1, <2>2
<1>11. Members(rest) \subseteq E
    BY <1>5 DEF Printing
<1>12. Printing(m, E, rest, new, whole)
    BY <1>2, <1>4, <1>6, <1>7, <1>9, <1>10, <1>11 DEF Printing
<1> QED
    BY <1>12 DEF rest, new, image, head

LEMMA AllPrinted ==
    ASSUME NEW m \in [Arg -> Arg], NEW E \in SUBSET SUBSET Arg,
           NEW out, NEW whole, Printing(m, E, <<>>, out, whole)
    PROVE  /\ Len(out) = Cardinality(Members(out))
           /\ \A x \in Members(out) : \E S \in E : x = MapIndices(S, m)
           /\ whole => \A S \in E : MapIndices(S, m) \in Members(out)
<1>1. Members(<<>>) = {}
    BY DEF Members
<1>2. \A x \in Members(out) : \E S \in E : x = MapIndices(S, m)
    BY DEF Printing, Members
<1>3. whole => \A S \in E : MapIndices(S, m) \in Members(out)
    BY <1>1 DEF Printing, Members
<1>4. out \in Seq(SUBSET Arg) /\ \A x, y \in DOMAIN out : out[x] = out[y] => x = y
    BY DEF Printing
<1>5. Len(out) = Cardinality(Members(out))
    BY <1>4, NoRepetitions
<1> QED
    BY <1>2, <1>3, <1>5

(* Before anything is printed.                                               *)
LEMMA NonePrinted ==
    ASSUME NEW m, NEW E, NEW list \in Seq(SUBSET Arg), NEW whole, Members(list) \subseteq E,
           \A x, y \in DOMAIN list : list[x] = list[y] => x = y,
           whole => E \subseteq Members(list)
    PROVE  Printing(m, E, list, <<>>, whole)
BY DEF Printing

-------------------------------------------------------------------------------
(* Counting off.                                                             *)

(* Among finitely many numbers each has its place, and each place its number.*)
LEMMA Ranked ==
    ASSUME NEW places \in SUBSET Nat, IsFiniteSet(places)
    PROVE  /\ Cardinality(places) \in Nat
           /\ \A n \in places :
                Cardinality({l \in places : l <= n}) \in 1 .. Cardinality(places)
           /\ \A m \in 1 .. Cardinality(places) :
                \E n \in places : Cardinality({l \in places : l <= n}) = m
           /\ \A m, n \in places :
                Cardinality({l \in places : l <= m}) = Cardinality({l \in places : l <= n})
                    => m = n
<1> DEFINE upto(n) == {l \in places : l <= n}
           K == Cardinality(places)
           rank == [n \in places |-> Cardinality(upto(n))]
<1>1. K \in Nat /\ IsFiniteSet(1 .. K) /\ Cardinality(1 .. K) = K
    BY FS_CardinalityType, FS_Interval
<1>2. ASSUME NEW n \in places
      PROVE  rank[n] \in 1 .. K
    <2>1. upto(n) \in SUBSET places /\ upto(n) # {}
        OBVIOUS
    <2>2. IsFiniteSet(upto(n)) /\ Cardinality(upto(n)) <= K
        BY <2>1, FS_Subset
    <2>3. Cardinality(upto(n)) \in Nat /\ Cardinality(upto(n)) # 0
        BY <2>1, <2>2, FS_CardinalityType, FS_EmptySet
    <2> QED
        BY <1>1, <2>2, <2>3
<1>3. ASSUME NEW m \in places, NEW n \in places, rank[m] = rank[n], m < n
      PROVE  FALSE
    <2>1. upto(m) \in SUBSET upto(n) /\ n \in upto(n) /\ n \notin upto(m)
        <3>1. /\ m \in Nat /\ n \in Nat /\ n <= n /\ ~(n <= m)
              /\ \A l \in places : l <= m => l <= n
            BY <1>3
        <3> QED
            BY <3>1
    <2>2. IsFiniteSet(upto(n))
        <3>1. upto(n) \in SUBSET places
            OBVIOUS
        <3> QED
            BY <3>1, FS_Subset
    <2>3. Cardinality(upto(n)) = Cardinality(upto(m))
        BY <1>3
    <2> HIDE DEF upto
    <2>4. upto(n) = upto(m)
        BY <2>1, <2>2, <2>3, FS_Subset
    <2> QED
        BY <2>1, <2>4
<1>4. rank \in Injection(places, 1 .. K)
    <2>1. \A m, n \in places : rank[m] = rank[n] => m = n
        <3> SUFFICES ASSUME NEW m \in places, NEW n \in places, rank[m] = rank[n], m # n
                     PROVE  FALSE
            OBVIOUS
        <3>1. m < n \/ n < m
            OBVIOUS
        <3> QED
            BY <1>3, <3>1
    <2>2. rank \in [places -> 1 .. K]
        BY <1>2
    <2> QED
        BY <2>1, <2>2 DEF Injection, IsInjective
<1>5. rank \in Surjection(places, 1 .. K)
    BY <1>1, <1>4, FS_Injection
<1>6. \A m \in 1 .. K : \E n \in places : rank[n] = m
    BY <1>5 DEF Surjection
<1>7. \A m, n \in places : rank[m] = rank[n] => m = n
    BY <1>4 DEF Injection, IsInjective
<1> QED
    BY <1>1, <1>2, <1>6, <1>7

-------------------------------------------------------------------------------
(* Stacks: sequences that change at their head.                              *)

LEMMA Stacked ==
    ASSUME NEW E, NEW s \in Seq(E), NEW f \in E
    PROVE  /\ <<f>> \o s \in Seq(E) /\ <<f>> \o s # <<>>
           /\ DOMAIN (<<f>> \o s) = 1 .. Len(s) + 1
           /\ Len(<<f>> \o s) = Len(s) + 1
           /\ (<<f>> \o s)[1] = f
           /\ \A n \in DOMAIN (<<f>> \o s) :
                n # 1 => n-1 \in DOMAIN s /\ (<<f>> \o s)[n] = s[n-1]
OBVIOUS

LEMMA Unstacked ==
    ASSUME NEW E, NEW s \in Seq(E), s # <<>>
    PROVE  /\ Tail(s) \in Seq(E)
           /\ DOMAIN Tail(s) = 1 .. Len(s) - 1
           /\ Len(Tail(s)) = Len(s) - 1
           /\ \A n \in DOMAIN Tail(s) : n+1 \in DOMAIN s /\ Tail(s)[n] = s[n+1]
           /\ 1 \in DOMAIN s /\ s[1] \in E
OBVIOUS

LEMMA TopReplaced ==
    ASSUME NEW E, NEW s \in Seq(E), s # <<>>, NEW f \in E, NEW new, new = <<f>> \o Tail(s)
    PROVE  /\ new \in Seq(E) /\ new # <<>>
           /\ DOMAIN new = DOMAIN s /\ Len(new) = Len(s)
           /\ new[1] = f
           /\ \A n \in DOMAIN s : n # 1 => new[n] = s[n]
<1>1. /\ Tail(s) \in Seq(E) /\ Len(Tail(s)) = Len(s) - 1 /\ Len(s) \in Nat
      /\ \A n \in DOMAIN Tail(s) : n+1 \in DOMAIN s /\ Tail(s)[n] = s[n+1]
    BY Unstacked
<1>2. /\ new \in Seq(E) /\ new # <<>>
      /\ Len(new) = Len(Tail(s)) + 1 /\ new[1] = f
      /\ \A n \in DOMAIN new : n # 1 => n-1 \in DOMAIN Tail(s) /\ new[n] = Tail(s)[n-1]
    BY <1>1, Stacked
<1>3. Len(new) = Len(s) /\ DOMAIN new = 1 .. Len(new) /\ DOMAIN s = 1 .. Len(s)
    BY <1>1, <1>2
<1>4. ASSUME NEW n \in DOMAIN s, n # 1
      PROVE  new[n] = s[n]
    <2>1. n-1 \in DOMAIN Tail(s) /\ new[n] = Tail(s)[n-1]
        BY <1>2, <1>3, <1>4
    <2>2. Tail(s)[n-1] = s[(n-1)+1] /\ n \in Int
        BY <1>1, <1>3, <2>1
    <2>3. (n-1)+1 = n
        BY <2>2
    <2> QED
        BY <2>1, <2>2, <2>3
<1> QED
    BY <1>2, <1>3, <1>4


-------------------------------------------------------------------------------
(* Projections and permutations of frameworks of any size.                   *)

(* m numbers arguments of att, among them all attackers of each, with D.     *)
WithAttackers(att, D, m) ==
    /\ m \in [D -> DOMAIN att]
    /\ \A a, b \in D : m[a] = m[b] => a = b
    /\ \A a \in D, x \in DOMAIN att : m[a] \in att[x] => \E b \in D : m[b] = x

Standing(D, m, T) == {a \in D : m[a] \in T}

LEMMA RenamedRow ==
    ASSUME NEW att, NEW D, NEW m, DOMAIN m = D
    PROVE  /\ Renamed(att, m) \in [D -> SUBSET D]
           /\ \A a, b \in D : b \in Renamed(att, m)[a] <=> m[b] \in att[m[a]]
BY DEF Renamed

(* Defence of what is projected needs nothing else.                          *)
LEMMA ProjectedDefence ==
    ASSUME NEW E, NEW att \in [E -> SUBSET E], NEW D, NEW m, WithAttackers(att, D, m),
           NEW T \in SUBSET E, NEW a \in D
    PROVE  Defended(att, T, m[a]) <=> Defended(Renamed(att, m), Standing(D, m, T), a)
<1>1. /\ DOMAIN m = D /\ DOMAIN att = E
      /\ \A b \in D : m[b] \in E
      /\ \A b \in D, x \in E : m[b] \in att[x] => \E d \in D : m[d] = x
    BY DEF WithAttackers
<1>2. /\ DOMAIN Renamed(att, m) = D
      /\ \A d, b \in D : b \in Renamed(att, m)[d] <=> m[b] \in att[m[d]]
    BY <1>1, RenamedRow
<1>3. ASSUME Defended(att, T, m[a]), NEW b \in D, a \in Renamed(att, m)[b]
      PROVE  \E d \in Standing(D, m, T) : b \in Renamed(att, m)[d]
    <2>1. m[a] \in att[m[b]] /\ m[b] \in E
        BY <1>1, <1>2, <1>3
    <2>2. PICK x \in T : m[b] \in att[x]
        BY <1>1, <1>3, <2>1 DEF Defended
    <2>3. x \in E
        BY <1>1, <2>2
    <2>4. PICK d \in D : m[d] = x
        BY <1>1, <2>2, <2>3
    <2> QED
        BY <1>2, <2>2, <2>4 DEF Standing
<1>4. ASSUME Defended(Renamed(att, m), Standing(D, m, T), a), NEW x \in E, m[a] \in att[x]
      PROVE  \E y \in T : x \in att[y]
    <2>1. PICK b \in D : m[b] = x
        BY <1>1, <1>4
    <2>2. PICK d \in Standing(D, m, T) : b \in Renamed(att, m)[d]
        BY <1>2, <1>4, <2>1 DEF Defended
    <2> QED
        BY <1>2, <2>1, <2>2 DEF Standing
<1> QED
    BY <1>1, <1>2, <1>3, <1>4 DEF Defended

(* A complete extension, seen in the projection, is complete.                *)
LEMMA ProjectedComplete ==
    ASSUME NEW E, NEW att \in [E -> SUBSET E], NEW D, NEW m, WithAttackers(att, D, m),
           NEW T, CompleteExt(att, T)
    PROVE  CompleteExt(Renamed(att, m), Standing(D, m, T))
<1>1. DOMAIN m = D /\ DOMAIN att = E /\ \A b \in D : m[b] \in E
    BY DEF WithAttackers
<1>2. /\ DOMAIN Renamed(att, m) = D
      /\ \A d, b \in D : b \in Renamed(att, m)[d] <=> m[b] \in att[m[d]]
    BY <1>1, RenamedRow
<1>3. ConflictFreeIn(Renamed(att, m), Standing(D, m, T))
    BY <1>2 DEF CompleteExt, ConflictFreeIn, Standing
<1>4. \A a \in D : a \in Standing(D, m, T)
                        <=> Defended(Renamed(att, m), Standing(D, m, T), a)
    <2>1. T \in SUBSET E
        BY <1>1 DEF CompleteExt
    <2> QED
        BY <1>1, <2>1, ProjectedDefence DEF CompleteExt, Standing
<1>5. Standing(D, m, T) \subseteq D
    BY DEF Standing
<1> QED
    BY <1>2, <1>3, <1>4, <1>5 DEF CompleteExt

(* A complete extension of the projection is admissible, and complete if     *)
(* nothing is left out.                                                      *)
LEMMA ProjectedBack ==
    ASSUME NEW E, NEW att \in [E -> SUBSET E], NEW D, NEW m, WithAttackers(att, D, m),
           NEW S, CompleteExt(Renamed(att, m), S)
    PROVE  /\ S \in SUBSET D /\ MapIndices(S, m) \in SUBSET E
           /\ Standing(D, m, MapIndices(S, m)) = S
           /\ Admissible(att, MapIndices(S, m))
           /\ (\A x \in E : \E a \in D : m[a] = x) => CompleteExt(att, MapIndices(S, m))
<1> DEFINE T == MapIndices(S, m)
<1>1. DOMAIN m = D /\ DOMAIN att = E /\ \A b \in D : m[b] \in E
    BY DEF WithAttackers
<1>2. /\ DOMAIN Renamed(att, m) = D
      /\ \A d, b \in D : b \in Renamed(att, m)[d] <=> m[b] \in att[m[d]]
    BY <1>1, RenamedRow
<1>3. S \subseteq D
    BY <1>2 DEF CompleteExt
<1>4. T \subseteq E
    BY <1>1, <1>3 DEF MapIndices
<1>5. Standing(D, m, T) = S
    BY <1>3 DEF Standing, MapIndices, WithAttackers
<1>6. \A a \in D : a \in S <=> Defended(att, T, m[a])
    <2>1. \A a \in D : a \in S <=> Defended(Renamed(att, m), S, a)
        BY <1>2 DEF CompleteExt
    <2> HIDE DEF T
    <2>2. \A a \in D : Defended(att, T, m[a]) <=> Defended(Renamed(att, m), S, a)
        BY <1>4, <1>5, ProjectedDefence
    <2> QED
        BY <2>1, <2>2
<1>7. ConflictFreeIn(att, T)
    BY <1>2, <1>3 DEF CompleteExt, ConflictFreeIn, MapIndices
<1>8. \A x \in T : Defended(att, T, x)
    BY <1>3, <1>6 DEF MapIndices
<1>9. ASSUME \A x \in E : \E a \in D : m[a] = x
      PROVE  CompleteExt(att, T)
    <2>1. \A x \in E : Defended(att, T, x) => x \in T
        BY <1>6, <1>9 DEF MapIndices
    <2> HIDE DEF T
    <2> QED
        BY <1>1, <1>4, <1>7, <1>8, <2>1 DEF CompleteExt
<1> QED
    BY <1>3, <1>4, <1>5, <1>7, <1>8, <1>9 DEF Admissible

(* The closure of an admissible set is a complete extension: it lies within  *)
(* a preferred one.                                                          *)
LEMMA AdmissibleClosure ==
    ASSUME NEW att \in Framework, NEW S \in SUBSET Arg, Admissible(att, S)
    PROVE  S \subseteq SemiClosure(att, S) /\ CompleteExt(att, SemiClosure(att, S))
<1> DEFINE next == SemiClosure(att, S)
<1>1. next \in SUBSET Arg /\ S \subseteq next /\ SemiCompleteSet(att, next) /\ DOMAIN att = Arg
    BY SemiClosureIsClosure DEF Framework
<1>2. PICK P \in PreferredExtensions(att) : S \subseteq P
    <2>1. S \in AdmissibleSets(att)
        BY ExtensionSets
    <2> QED
        BY <2>1, PreferredAbove
<1>3. P \in SUBSET Arg /\ CompleteExt(att, P)
    BY PreferredComplete
<1>4. next \subseteq P /\ \A a, b \in P : b \notin att[a]
    BY <1>2, <1>3, CompleteFacts, ClosureLeast
<1>5. ASSUME NEW a \in next
      PROVE  Defended(att, next, a)
    <2>1. CASE a \in S
        BY <1>1, <2>1 DEF Admissible, Defended
    <2>2. CASE a \notin S
        <3>1. SetDefendsArg(att, next, a)
            BY <2>2, AddedIsDefended
        <3> QED
            BY <3>1 DEF SetDefendsArg, SetAttacksArg, Defended
    <2> QED
        BY <2>1, <2>2
<1>6. \A a \in Arg : Defended(att, next, a) => a \in next
    BY <1>1 DEF SemiCompleteSet, SetDefendsArg, SetAttacksArg, Defended
<1>7. ConflictFreeIn(att, next)
    BY <1>4 DEF ConflictFreeIn
<1> HIDE DEF next
<1>8. CompleteExt(att, next)
    BY <1>1, <1>5, <1>6, <1>7 DEF CompleteExt
<1> QED
    BY <1>1, <1>8 DEF next

-------------------------------------------------------------------------------
(* m is a permutation of D.                                                  *)
PermutationOf(D, m) ==
    /\ m \in [D -> D]
    /\ \A b \in D : \E a \in D : m[a] = b
    /\ \A a, b \in D : m[a] = m[b] => a = b

LEMMA PermutationWithAttackers ==
    ASSUME NEW D, NEW att \in [D -> SUBSET D], NEW m, PermutationOf(D, m)
    PROVE  WithAttackers(att, D, m)
BY DEF PermutationOf, WithAttackers

LEMMA InjectivePermutationOf ==
    ASSUME NEW D, IsFiniteSet(D), NEW m \in [D -> D], \A a, b \in D : m[a] = m[b] => a = b
    PROVE  PermutationOf(D, m)
<1> DEFINE image == {m[a] : a \in D}
<1>1. m \in Bijection(D, image)
    BY DEF Bijection, Injection, Surjection, IsInjective
<1>2. Cardinality(image) = Cardinality(D)
    BY <1>1, FS_Bijection DEF ExistsBijection
<1>3. image \in SUBSET D
    OBVIOUS
<1>4. image = D
    BY <1>2, <1>3, FS_Subset
<1> QED
    BY <1>4 DEF PermutationOf

(* Renaming along the identity changes nothing.                              *)
LEMMA RenamedIdentity ==
    ASSUME NEW D, NEW att \in [D -> SUBSET D], NEW m, m = [a \in D |-> a]
    PROVE  Renamed(att, m) = att /\ PermutationOf(D, m)
BY DEF Renamed, PermutationOf

(* Exchanging two arguments of a renamed framework and of the mapping keeps  *)
(* the one the other renamed.                                                *)
LEMMA SwapRenamed ==
    ASSUME NEW D, NEW m, PermutationOf(D, m), NEW att, NEW f, f = Renamed(att, m),
           NEW x \in D, NEW y \in D, NEW n \in [D -> D], n[x] = m[y], n[y] = m[x],
           \A a \in D : a # x /\ a # y => n[a] = m[a]
    PROVE  /\ PermutationOf(D, n)
           /\ SwapArguments(f, x, y) = Renamed(att, n)
<1>1. m \in [D -> D] /\ DOMAIN m = D
    BY DEF PermutationOf
<1>2. \A b \in D : \E a \in D : n[a] = b
    BY <1>1 DEF PermutationOf
<1>3. \A a, b \in D : n[a] = n[b] => a = b
    BY <1>1 DEF PermutationOf
<1> DEFINE swap == [z \in D |-> CASE z = x -> y [] z = y -> x [] OTHER -> z]
<1>4. \A z \in D : swap[z] \in D /\ m[swap[z]] = n[z]
    BY <1>1
<1>5. /\ f \in [D -> SUBSET D]
      /\ \A a, b \in D : b \in f[a] <=> m[b] \in att[m[a]]
    BY <1>1, RenamedRow
<1>6. SwapArguments(f, x, y) = Renamed(f, swap)
    BY <1>5 DEF SwapArguments
<1> HIDE DEF swap
<1>7. DOMAIN swap = D
    BY DEF swap
<1>8. /\ Renamed(f, swap) \in [D -> SUBSET D]
      /\ \A a, b \in D : b \in Renamed(f, swap)[a] <=> swap[b] \in f[swap[a]]
    BY <1>7, RenamedRow
<1>9. /\ Renamed(att, n) \in [D -> SUBSET D]
      /\ \A a, b \in D : b \in Renamed(att, n)[a] <=> n[b] \in att[n[a]]
    <2>1. DOMAIN n = D
        BY <1>1
    <2> QED
        BY <2>1, RenamedRow
<1>10. \A a, b \in D : b \in Renamed(f, swap)[a] <=> b \in Renamed(att, n)[a]
    <2> TAKE a, b \in D
    <2>1. b \in Renamed(f, swap)[a] <=> swap[b] \in f[swap[a]]
        BY <1>8
    <2>2. swap[b] \in f[swap[a]] <=> m[swap[b]] \in att[m[swap[a]]]
        BY <1>4, <1>5
    <2>3. b \in Renamed(att, n)[a] <=> n[b] \in att[n[a]]
        BY <1>9
    <2> QED
        BY <1>4, <2>1, <2>2, <2>3
<1>11. Renamed(f, swap) = Renamed(att, n)
    <2>1. \A a \in D : Renamed(f, swap)[a] = Renamed(att, n)[a]
        <3> TAKE a \in D
        <3>1. Renamed(f, swap)[a] \in SUBSET D /\ Renamed(att, n)[a] \in SUBSET D
            BY <1>8, <1>9
        <3> QED
            BY <1>10, <3>1
    <2>2. DOMAIN Renamed(f, swap) = D /\ DOMAIN Renamed(att, n) = D
        BY <1>8, <1>9
    <2>3. Renamed(f, swap) = [a \in D |-> Renamed(f, swap)[a]]
        BY <1>8
    <2>4. Renamed(att, n) = [a \in D |-> Renamed(att, n)[a]]
        BY <1>9
    <2> QED
        BY <2>1, <2>3, <2>4
<1> QED
    BY <1>2, <1>3, <1>6, <1>11 DEF PermutationOf

-------------------------------------------------------------------------------
(* The projected arguments are listed in index order, each once.             *)
LEMMA ParentMappingRight ==
    ASSUME NEW mask \in SUBSET Nat, IsFiniteSet(mask)
    PROVE  /\ Cardinality(mask) \in Nat
           /\ ParentMapping(mask) \in [0 .. Cardinality(mask)-1 -> mask]
           /\ \A x, y \in 0 .. Cardinality(mask)-1 :
                ParentMapping(mask)[x] = ParentMapping(mask)[y] => x = y
           /\ \A a \in mask : \E x \in 0 .. Cardinality(mask)-1 : ParentMapping(mask)[x] = a
<1> DEFINE below(a) == {b \in mask : b < a}
           upto(a) == {l \in mask : l <= a}
           size == Cardinality(mask)
<1>1. /\ size \in Nat
      /\ \A a \in mask : Cardinality(upto(a)) \in 1 .. size
      /\ \A x \in 1 .. size : \E a \in mask : Cardinality(upto(a)) = x
      /\ \A a, b \in mask : Cardinality(upto(a)) = Cardinality(upto(b)) => a = b
    BY Ranked
<1>2. \A a \in mask : Cardinality(below(a)) = Cardinality(upto(a)) - 1
    <2> TAKE a \in mask
    <2>1. IsFiniteSet(below(a)) /\ a \notin below(a)
        BY FS_Subset
    <2>2. upto(a) = below(a) \cup {a}
        <3>1. a \in Nat /\ \A l \in mask : l \in Nat
            OBVIOUS
        <3>2. \A l \in mask : l <= a <=> (l < a \/ l = a)
            BY <3>1
        <3>3. a <= a
            BY <3>1
        <3> QED
            BY <3>2, <3>3
    <2>3. Cardinality(below(a)) \in Nat /\ Cardinality(below(a) \cup {a}) = Cardinality(below(a)) + 1
        BY <2>1, FS_AddElement, FS_CardinalityType
    <2> HIDE DEF below, upto
    <2> QED
        BY <2>2, <2>3
<1> HIDE DEF upto
<1>3. \A a \in mask : Cardinality(below(a)) \in 0 .. size-1
    BY <1>1, <1>2
<1>4. \A x \in 0 .. size-1 : \E a \in mask : Cardinality(below(a)) = x
    <2> TAKE x \in 0 .. size-1
    <2>1. PICK a \in mask : Cardinality(upto(a)) = x + 1
        BY <1>1
    <2> HIDE DEF below
    <2> QED
        BY <1>2, <2>1
<1>5. \A a, b \in mask : Cardinality(below(a)) = Cardinality(below(b)) => a = b
    <2> TAKE a, b \in mask
    <2>1. Cardinality(upto(a)) \in Nat /\ Cardinality(upto(b)) \in Nat
        BY <1>1
    <2> HIDE DEF below
    <2> QED
        BY <1>1, <1>2, <2>1
<1> DEFINE parent == [x \in 0 .. size-1 |-> CHOOSE a \in mask : Cardinality(below(a)) = x]
<1>6. \A x \in 0 .. size-1 : parent[x] \in mask /\ Cardinality(below(parent[x])) = x
    BY <1>4
<1>7. parent = ParentMapping(mask)
    BY DEF ParentMapping
<1>8. \A a \in mask : parent[Cardinality(below(a))] = a
    BY <1>3, <1>5, <1>6
<1> HIDE DEF below, size
<1>9. DOMAIN parent = 0 .. size-1
    OBVIOUS
<1> HIDE DEF parent
<1>10. \A x, y \in 0 .. size-1 : parent[x] = parent[y] => x = y
    BY <1>6
<1>11. parent \in [0 .. size-1 -> mask]
    BY <1>6, <1>9 DEF parent
<1>12. \A a \in mask : \E x \in 0 .. size-1 : parent[x] = a
    BY <1>3, <1>8
<1> QED
    BY <1>1, <1>7, <1>10, <1>11, <1>12 DEF size
-------------------------------------------------------------------------------
(* Rounds that reach a fixed point.                                          *)

(* Induction, with the property given as a set.                              *)
LEMMA EveryNumber ==
    ASSUME NEW Q \in SUBSET Nat, 0 \in Q, \A n \in Q : n+1 \in Q
    PROVE  Q = Nat
<1>1. SUFFICES ASSUME Nat \ Q # {}
      PROVE  FALSE
    OBVIOUS
<1>2. PICK least \in Nat \ Q : \A y \in Nat \ Q : ~ (<<y, least>> \in OpToRel(<, Nat))
    BY <1>1, NatLessThanWellFounded, WFMin
<1>3. \A y \in Nat \ Q : ~(y < least)
    BY <1>2 DEF OpToRel
<1>4. least # 0
    OBVIOUS
<1>5. least - 1 \in Nat /\ least - 1 < least /\ least - 1 + 1 = least
    BY <1>4
<1>6. least - 1 \in Q
    BY <1>3, <1>5
<1> QED
    BY <1>5, <1>6

(* A first element and a step define a sequence of rounds.                   *)
LEMMA Rounds ==
    ASSUME NEW S, NEW s \in S, NEW g \in [S -> S]
    PROVE  \E f \in [Nat -> S] : f[0] = s /\ \A n \in Nat : f[n+1] = g[f[n]]
<1> DEFINE Part(n) == {h \in [0 .. n -> S] : h[0] = s /\ \A m \in 0 .. n-1 : h[m+1] = g[h[m]]}
           f == [n \in Nat |-> (CHOOSE h \in Part(n) : TRUE)[n]]
<1>1. \A n \in Nat : \E h \in Part(n) : TRUE
    <2> DEFINE Q == {n \in Nat : Part(n) # {}}
    <2>1. 0 \in Q
        <3>1. [m \in 0 .. 0 |-> s] \in Part(0)
            OBVIOUS
        <3> QED
            BY <3>1
    <2>2. ASSUME NEW n \in Q
          PROVE  n+1 \in Q
        <3>1. PICK h \in Part(n) : TRUE
            OBVIOUS
        <3> DEFINE l == [m \in 0 .. n+1 |-> IF m = n+1 THEN g[h[n]] ELSE h[m]]
        <3>2. l \in Part(n+1)
            OBVIOUS
        <3> QED
            BY <3>2
    <2>3. Q = Nat
        <3> HIDE DEF Q
        <3> QED
        BY <2>1, <2>2, EveryNumber DEF Q
    <2> QED
        BY <2>3
<1>0. \A n \in Nat : (CHOOSE h \in Part(n) : TRUE) \in Part(n)
    BY <1>1
<1> HIDE DEF Part
<1>2. ASSUME NEW n \in Nat, NEW h \in Part(n), NEW l \in Part(n+1)
      PROVE  h[n] = l[n]
    <2> DEFINE Q == {m \in Nat : m <= n => h[m] = l[m]}
    <2>1. 0 \in Q
        BY DEF Part
    <2>2. ASSUME NEW m \in Q
          PROVE  m+1 \in Q
        <3>1. SUFFICES ASSUME m+1 <= n
              PROVE  h[m+1] = l[m+1]
            OBVIOUS
        <3>2. m \in 0 .. n-1 /\ m \in 0 .. n+1-1 /\ h[m] = l[m]
            BY <3>1
        <3> QED
            BY <3>2 DEF Part
    <2>3. Q = Nat
        <3> HIDE DEF Q
        <3> QED
            BY <2>1, <2>2, EveryNumber DEF Q
    <2> QED
        BY <2>3
<1>3. \A n \in Nat : f[n] \in S
    BY <1>0 DEF Part
<1>4. f[0] = s
    <2>1. (CHOOSE h \in Part(0) : TRUE) \in Part(0)
        BY <1>0
    <2> QED
        BY <2>1 DEF Part
<1>5. ASSUME NEW n \in Nat
      PROVE  f[n+1] = g[f[n]]
    <2>1. /\ (CHOOSE h \in Part(n) : TRUE) \in Part(n)
          /\ (CHOOSE h \in Part(n+1) : TRUE) \in Part(n+1)
        BY <1>0, n+1 \in Nat
    <2>2. PICK l \in Part(n+1) : l = CHOOSE h \in Part(n+1) : TRUE
        BY <2>1
    <2>3. f[n] = l[n]
        BY <1>2, <2>1, <2>2
    <2>4. f[n+1] = l[n+1]
        BY <2>2
    <2>5. n \in 0 .. n+1-1
        OBVIOUS
    <2>6. l[n+1] = g[l[n]]
        BY <2>5 DEF Part
    <2> QED
        BY <2>3, <2>4, <2>6
<1> QED
    <2>1. f \in [Nat -> S]
        BY <1>3
    <2> HIDE DEF f
    <2> QED
        BY <2>1, <1>4, <1>5


(* Rounds that only add members of a finite set have reached a fixed point   *)
(* after as many rounds as there are members left to add, and the least one  *)
(* that holds what they started with.                                        *)
AddingRounds(D, s, g, w) ==
    /\ s \in SUBSET D /\ g \in [SUBSET D -> SUBSET D]
    /\ \A r \in SUBSET D : r \subseteq g[r]
    /\ w[0] = s /\ \A n \in Nat : w[n] \in SUBSET D => w[n+1] = g[w[n]]

LeastFixedPoint(D, s, g, r) ==
    /\ r \in SUBSET D /\ s \subseteq r /\ g[r] = r
    /\ \A S \in SUBSET D : s \subseteq S /\ (\A u \in SUBSET S : g[u] \subseteq S) => r \subseteq S

LEMMA GrowthStops ==
    ASSUME NEW D, IsFiniteSet(D), NEW s, NEW g, NEW w, AddingRounds(D, s, g, w),
           NEW k \in Nat, Cardinality(s) + k >= Cardinality(D)
    PROVE  LeastFixedPoint(D, s, g, w[k])
<1> USE DEF AddingRounds
<1>1. \A n \in Nat : w[n] \in SUBSET D /\ s \subseteq w[n]
    <2> DEFINE Q == {n \in Nat : w[n] \in SUBSET D /\ s \subseteq w[n]}
    <2>1. 0 \in Q
        OBVIOUS
    <2>2. ASSUME NEW n \in Q
          PROVE  n+1 \in Q
        <3>1. w[n] \in SUBSET D /\ w[n+1] = g[w[n]] /\ s \subseteq w[n]
            OBVIOUS
        <3>2. g[w[n]] \in SUBSET D /\ w[n] \subseteq g[w[n]]
            BY <3>1
        <3> QED
            BY <3>1, <3>2
    <2>3. Q = Nat
        <3> HIDE DEF Q
        <3> QED
            BY <2>1, <2>2, EveryNumber DEF Q
    <2> QED
        BY <2>3
<1>2. \A n \in Nat : w[n+1] = g[w[n]] /\ w[n] \subseteq w[n+1]
    BY <1>1
<1>3. \A n \in Nat : IsFiniteSet(w[n]) /\ Cardinality(w[n]) \in Nat
    BY <1>1, FS_Subset, FS_CardinalityType
<1>4. \A n \in Nat : /\ Cardinality(w[n]) <= Cardinality(D)
                     /\ Cardinality(w[n]) = Cardinality(D) => w[n] = D
    BY <1>1, FS_Subset
<1>5. Cardinality(D) \in Nat
    BY FS_CardinalityType
<1>6. \A n \in Nat : g[w[n]] = w[n] \/ Cardinality(w[n]) >= Cardinality(s) + n
    <2> DEFINE Q == {n \in Nat : g[w[n]] = w[n] \/ Cardinality(w[n]) >= Cardinality(s) + n}
    <2>1. 0 \in Q
        BY <1>3
    <2>2. ASSUME NEW n \in Q
          PROVE  n+1 \in Q
        <3>1. CASE g[w[n]] = w[n]
            BY <1>2, <3>1
        <3>2. CASE g[w[n]] # w[n]
            <4>1. n \in Nat /\ n+1 \in Nat
                OBVIOUS
            <4>2. /\ Cardinality(w[n]) <= Cardinality(w[n+1])
                  /\ Cardinality(w[n]) # Cardinality(w[n+1])
                BY <1>2, <1>3, <3>2, <4>1, FS_Subset
            <4>3. /\ Cardinality(w[n]) \in Nat /\ Cardinality(w[n+1]) \in Nat
                  /\ Cardinality(s) \in Nat
                BY <1>3, <4>1
            <4> QED
                BY <3>2, <4>2, <4>3
        <3> QED
            BY <3>1, <3>2
    <2>3. Q = Nat
        <3> HIDE DEF Q
        <3> QED
            BY <2>1, <2>2, EveryNumber DEF Q
    <2> QED
        BY <2>3
<1>7. g[w[k]] = w[k]
    <2>1. SUFFICES ASSUME Cardinality(w[k]) >= Cardinality(s) + k
          PROVE  g[w[k]] = w[k]
        BY <1>6
    <2>2. /\ Cardinality(w[k]) \in Nat /\ Cardinality(w[k]) <= Cardinality(D)
          /\ Cardinality(s) \in Nat
        BY <1>3, <1>4
    <2>3. Cardinality(w[k]) = Cardinality(D)
        BY <1>5, <2>1, <2>2
    <2>4. w[k] = D
        BY <1>4, <2>3
    <2>5. g[D] \in SUBSET D /\ D \subseteq g[D]
        OBVIOUS
    <2> QED
        BY <2>4, <2>5
<1>8. ASSUME NEW S \in SUBSET D, s \subseteq S, \A r \in SUBSET S : g[r] \subseteq S
      PROVE  w[k] \subseteq S
    <2> DEFINE Q == {n \in Nat : w[n] \in SUBSET S}
    <2>1. 0 \in Q
        BY <1>8
    <2>2. ASSUME NEW n \in Q
          PROVE  n+1 \in Q
        BY <1>2, <1>8
    <2>3. Q = Nat
        <3> HIDE DEF Q
        <3> QED
            BY <2>1, <2>2, EveryNumber DEF Q
    <2> QED
        BY <2>3
<1> QED
    BY <1>1, <1>7, <1>8 DEF LeastFixedPoint

(* The depth-first search marks what can be reached: the least set that      *)
(* holds the start and all neighbours of its members.                        *)
LEMMA VisitedRight ==
    ASSUME NEW D, IsFiniteSet(D), NEW neighbours \in [D -> SUBSET D], NEW a \in D
    PROVE  /\ Visited(neighbours, a) \in SUBSET D
           /\ a \in Visited(neighbours, a)
           /\ \A b \in Visited(neighbours, a) : neighbours[b] \subseteq Visited(neighbours, a)
           /\ \A S \in SUBSET D : a \in S /\ (\A b \in S : neighbours[b] \subseteq S)
                                        => Visited(neighbours, a) \subseteq S
<1> DEFINE start == {a}
           Step(r) == UNION {neighbours[b] \cup {b} : b \in r}
           w == CHOOSE f : f = [n \in Nat |-> IF n = 0 THEN start ELSE Step(f[n-1])]
           last == Cardinality(D) - 1
<1>1. PICK g \in [SUBSET D -> SUBSET D] : \A r \in SUBSET D : g[r] = Step(r)
    <2>1. [r \in SUBSET D |-> Step(r)] \in [SUBSET D -> SUBSET D]
        OBVIOUS
    <2> QED
        BY <2>1
<1>2. Visited(neighbours, a) = w[last]
    BY DEF Visited
<1>3. start \in SUBSET D
    OBVIOUS
<1>4. \A r \in SUBSET D : r \subseteq g[r]
    BY <1>1
<1> HIDE DEF start, Step, last
<1>5. w = [n \in Nat |-> IF n = 0 THEN start ELSE Step(w[n-1])]
    <2>1. PICK f \in [Nat -> SUBSET D] : f[0] = start /\ \A n \in Nat : f[n+1] = g[f[n]]
        <3> DEFINE Sets == SUBSET D
        <3>1. start \in Sets /\ g \in [Sets -> Sets]
            BY <1>3
        <3> HIDE DEF w, Sets
        <3>2. \E f \in [Nat -> Sets] : f[0] = start /\ \A n \in Nat : f[n+1] = g[f[n]]
            BY <3>1, Rounds
        <3> QED
            BY <3>2 DEF Sets
    <2>2. ASSUME NEW n \in Nat, n # 0
          PROVE  f[n] = Step(f[n-1])
        <3>1. n-1 \in Nat /\ n-1+1 = n
            BY <2>2
        <3>2. f[n-1] \in SUBSET D
            BY <3>1
        <3>3. f[n] = g[f[n-1]]
            BY <2>1, <3>1
        <3> QED
            BY <1>1, <3>2, <3>3
    <2>3. f = [n \in Nat |-> IF n = 0 THEN start ELSE Step(f[n-1])]
        BY <2>1, <2>2
    <2> QED
        BY <2>3
<1> HIDE DEF w
<1>6. w[0] = start /\ \A n \in Nat : w[n] \in SUBSET D => w[n+1] = g[w[n]]
    <2>1. w[0] = start
        BY <1>5
    <2>2. ASSUME NEW n \in Nat, w[n] \in SUBSET D
          PROVE  w[n+1] = g[w[n]]
        <3>1. n+1 \in Nat /\ n+1 # 0 /\ n+1-1 = n
            OBVIOUS
        <3>2. \A m \in Nat : m # 0 => w[m] = Step(w[m-1])
            BY <1>5
        <3>3. w[n+1] = Step(w[n+1-1])
            BY <3>1, <3>2
        <3> QED
            BY <1>1, <2>2, <3>1, <3>3
    <2> QED
        BY <2>1, <2>2
<1>7. last \in Nat /\ Cardinality(start) + last >= Cardinality(D)
    <2>1. Cardinality(start) = 1
        BY FS_Singleton DEF start
    <2>2. Cardinality(D) \in Nat /\ Cardinality(D) # 0
        BY FS_CardinalityType, FS_EmptySet
    <2> QED
        BY <2>1, <2>2 DEF last
<1>8. /\ w[last] \in SUBSET D /\ start \subseteq w[last] /\ g[w[last]] = w[last]
      /\ \A S \in SUBSET D : start \subseteq S /\ (\A r \in SUBSET S : g[r] \subseteq S)
                                => w[last] \subseteq S
    <2>1. AddingRounds(D, start, g, w)
        BY <1>3, <1>4, <1>6 DEF AddingRounds
    <2>2. IsFiniteSet(D)
        OBVIOUS
    <2>3. LeastFixedPoint(D, start, g, w[last])
        BY <1>7, <2>1, <2>2, GrowthStops
    <2> QED
        BY <2>3 DEF LeastFixedPoint
<1>9. \A b \in w[last] : neighbours[b] \subseteq w[last]
    BY <1>1, <1>8 DEF Step
<1>10. ASSUME NEW S \in SUBSET D, a \in S, \A b \in S : neighbours[b] \subseteq S
       PROVE  w[last] \subseteq S
    <2>1. \A r \in SUBSET S : g[r] \subseteq S
        BY <1>1, <1>10 DEF Step
    <2> QED
        BY <1>8, <1>10, <2>1 DEF start
<1> QED
    BY <1>2, <1>8, <1>9, <1>10 DEF start

-------------------------------------------------------------------------------
(* Reverse search for the maximal conflict-free sets.                        *)

(* Rounds, where the step depends on the number of the round.                *)
RoundsFrom(S, first, g, f) ==
    /\ f \in [Nat -> S]
    /\ f[0] = first
    /\ \A n \in Nat : f[n+1] = g[n][f[n]]

LEMMA NumberedRounds ==
    ASSUME NEW S, NEW first \in S, NEW g \in [Nat -> [S -> S]]
    PROVE  \E f : RoundsFrom(S, first, g, f)
<1> DEFINE P == Nat \X S
           h == [x \in P |-> <<x[1] + 1, g[x[1]][x[2]]>>]
<1>1. <<0, first>> \in P /\ h \in [P -> P]
    <2>1. ASSUME NEW x \in P
          PROVE  <<x[1] + 1, g[x[1]][x[2]]>> \in P
        <3>1. x[1] \in Nat /\ x[2] \in S
            OBVIOUS
        <3> QED
            BY <3>1
    <2> QED
        BY <2>1
<1>2. \A x \in P : h[x] = <<x[1] + 1, g[x[1]][x[2]]>>
    OBVIOUS
<1> HIDE DEF h
<1>3. PICK F \in [Nat -> P] : F[0] = <<0, first>> /\ \A n \in Nat : F[n+1] = h[F[n]]
    <2> DEFINE start == <<0, first>>
    <2>1. start \in P /\ h \in [P -> P]
        BY <1>1
    <2> HIDE DEF P, start
    <2>2. \E F \in [Nat -> P] : F[0] = start /\ \A n \in Nat : F[n+1] = h[F[n]]
        BY <2>1, Rounds, SMTT(60)
    <2> QED
        BY <2>2 DEF start
<1>4. \A n \in Nat : F[n][1] = n
    <2> DEFINE Q == {n \in Nat : F[n][1] = n}
    <2>1. 0 \in Q
        BY <1>3
    <2>2. \A n \in Q : n+1 \in Q
        BY <1>2, <1>3
    <2>3. Q \in SUBSET Nat
        OBVIOUS
    <2> HIDE DEF Q
    <2>4. Q = Nat
        BY <2>1, <2>2, <2>3, EveryNumber
    <2> QED
        BY <2>4 DEF Q
<1> DEFINE f == [n \in Nat |-> F[n][2]]
<1>5. f \in [Nat -> S] /\ f[0] = first
    BY <1>3
<1>6. ASSUME NEW n \in Nat
      PROVE  f[n+1] = g[n][f[n]]
    <2>1. n+1 \in Nat /\ F[n] \in P /\ F[n+1] = h[F[n]]
        BY <1>3
    <2>2. F[n+1] = <<F[n][1] + 1, g[F[n][1]][F[n][2]]>>
        BY <1>2, <2>1
    <2> QED
        BY <1>4, <2>1, <2>2
<1> QED
    BY <1>5, <1>6 DEF RoundsFrom

(* What is in conflict with each of n arguments: a self-attacker with all.   *)
Conflicts(cf, n) ==
    /\ n \in Nat
    /\ cf \in [0 .. n-1 -> SUBSET (0 .. n-1)]
    /\ \A a, b \in 0 .. n-1 : a \in cf[b] => b \in cf[a]
    /\ \A a, b \in 0 .. n-1 : a \in cf[a] => b \in cf[a]

(* Argument a can join X.                                                    *)
Joins(cf, X, a) == a \notin cf[a] /\ \A b \in X : a \notin cf[b]

(* X is a maximal conflict-free set of the arguments below m.                *)
Good(cf, X, m) ==
    /\ X \in SUBSET (0 .. m-1)
    /\ \A a, b \in X : b \notin cf[a]
    /\ \A a \in 0 .. m-1 : a \in X \/ ~Joins(cf, X, a)

(* The greedy completion of Y: argument j joins in round j if it can.        *)
CompletedBy(cf, n, Y, f) ==
    /\ f \in [Nat -> SUBSET (0 .. n-1)]
    /\ f[0] = Y
    /\ \A j \in Nat : f[j+1] = f[j] \cup {a \in {j} : a \in 0 .. n-1 /\ Joins(cf, f[j], a)}

Completed(cf, n, Y) == CHOOSE f : CompletedBy(cf, n, Y, f)

LEMMA CompletedRounds ==
    ASSUME NEW cf, NEW n, Conflicts(cf, n), NEW Y \in SUBSET (0 .. n-1)
    PROVE  CompletedBy(cf, n, Y, Completed(cf, n, Y))
<1> DEFINE S == SUBSET (0 .. n-1)
           g == [j \in Nat |-> [X \in S |->
                    X \cup {a \in {j} : a \in 0 .. n-1 /\ Joins(cf, X, a)}]]
<1>1. g \in [Nat -> [S -> S]] /\ Y \in S
    OBVIOUS
<1>2. \A j \in Nat : \A X \in S :
        g[j][X] = X \cup {a \in {j} : a \in 0 .. n-1 /\ Joins(cf, X, a)}
    OBVIOUS
<1> HIDE DEF g, S
<1>3. PICK f : RoundsFrom(S, Y, g, f)
    BY <1>1, NumberedRounds
<1>4. CompletedBy(cf, n, Y, f)
    <2>1. f \in [Nat -> SUBSET (0 .. n-1)] /\ f[0] = Y
        BY <1>3 DEF S, RoundsFrom
    <2>2. ASSUME NEW j \in Nat
          PROVE  f[j+1] = f[j] \cup {a \in {j} : a \in 0 .. n-1 /\ Joins(cf, f[j], a)}
        BY <1>2, <1>3 DEF RoundsFrom
    <2> QED
        BY <2>1, <2>2 DEF CompletedBy
<1> QED
    BY <1>4 DEF Completed

(* Completing a conflict-free set of arguments below m up to m leaves a      *)
(* maximal conflict-free set; what joins late could have joined before.      *)
LEMMA CompletedGood ==
    ASSUME NEW cf, NEW n, Conflicts(cf, n), NEW m \in 0 .. n,
           NEW Y \in SUBSET (0 .. m-1), \A a, b \in Y : b \notin cf[a]
    PROVE  /\ Y \subseteq Completed(cf, n, Y)[m]
           /\ Good(cf, Completed(cf, n, Y)[m], m)
           /\ \A j \in 0 .. m : Completed(cf, n, Y)[j] \subseteq Completed(cf, n, Y)[m]
<1> DEFINE f == Completed(cf, n, Y)
           D == 0 .. n-1
<1>1. Y \in SUBSET D
    BY DEF Conflicts
<1>2. CompletedBy(cf, n, Y, f)
    BY <1>1, CompletedRounds
<1> HIDE DEF f
<1>3. /\ f \in [Nat -> SUBSET D] /\ f[0] = Y
      /\ \A j \in Nat : f[j+1] = f[j] \cup {a \in {j} : a \in D /\ Joins(cf, f[j], a)}
    BY <1>2 DEF CompletedBy
<1>4. \A a, b \in D : a \in cf[b] => b \in cf[a]
    BY DEF Conflicts
<1> DEFINE Q == {j \in Nat : j <= m =>
                    /\ Y \subseteq f[j] /\ f[j] \in SUBSET (0 .. m-1)
                    /\ \A a, b \in f[j] : b \notin cf[a]
                    /\ \A a \in 0 .. j-1 : a \in f[j] \/ ~Joins(cf, f[j], a)
                    /\ \A l \in 0 .. j : f[l] \subseteq f[j]}
<1>5. 0 \in Q
    BY <1>3
<1>6. ASSUME NEW j \in Q
      PROVE  j+1 \in Q
    <2>1. SUFFICES ASSUME j+1 <= m
                   PROVE  /\ Y \subseteq f[j+1] /\ f[j+1] \in SUBSET (0 .. m-1)
                          /\ \A a, b \in f[j+1] : b \notin cf[a]
                          /\ \A a \in 0 .. j : a \in f[j+1] \/ ~Joins(cf, f[j+1], a)
                          /\ \A l \in 0 .. j+1 : f[l] \subseteq f[j+1]
        OBVIOUS
    <2>2. /\ j \in Nat /\ j <= m /\ j \in 0 .. m-1 /\ j \in D /\ n \in Nat
          /\ Y \subseteq f[j] /\ f[j] \in SUBSET (0 .. m-1)
          /\ \A a, b \in f[j] : b \notin cf[a]
          /\ \A a \in 0 .. j-1 : a \in f[j] \/ ~Joins(cf, f[j], a)
          /\ \A l \in 0 .. j : f[l] \subseteq f[j]
        BY <2>1 DEF Conflicts
    <2>3. f[j+1] = f[j] \cup {a \in {j} : Joins(cf, f[j], a)}
        BY <1>3, <2>2
    <2> HIDE DEF Q
    <2>4. f[j] \subseteq f[j+1] /\ f[j+1] \in SUBSET (0 .. m-1)
        BY <2>2, <2>3
    <2>5. \A a, b \in f[j+1] : b \notin cf[a]
        <3>1. CASE Joins(cf, f[j], j)
            <4>1. \A b \in f[j] : j \notin cf[b] /\ b \notin cf[j]
                BY <1>4, <2>2, <3>1 DEF Joins
            <4>2. f[j+1] = f[j] \cup {j} /\ j \notin cf[j]
                BY <2>3, <3>1 DEF Joins
            <4> QED
                BY <2>2, <4>1, <4>2
        <3>2. CASE ~Joins(cf, f[j], j)
            BY <2>2, <2>3, <3>2
        <3> QED
            BY <3>1, <3>2
    <2>6. ASSUME NEW a \in 0 .. j, a \notin f[j+1]
          PROVE  ~Joins(cf, f[j+1], a)
        <3>1. a = j \/ a \in 0 .. j-1
            BY <2>2
        <3>2. ~Joins(cf, f[j], a)
            BY <2>2, <2>3, <2>6, <3>1
        <3> QED
            BY <2>4, <3>2 DEF Joins
    <2>7. \A l \in 0 .. j+1 : l = j+1 \/ l \in 0 .. j
        BY <2>2
    <2> QED
        BY <2>2, <2>4, <2>5, <2>6, <2>7
<1>7. Q \in SUBSET Nat
    OBVIOUS
<1> HIDE DEF Q
<1>8. m \in Q
    BY <1>5, <1>6, <1>7, EveryNumber DEF Conflicts
<1>9. /\ Y \subseteq f[m] /\ f[m] \in SUBSET (0 .. m-1)
      /\ \A a, b \in f[m] : b \notin cf[a]
      /\ \A a \in 0 .. m-1 : a \in f[m] \/ ~Joins(cf, f[m], a)
      /\ \A l \in 0 .. m : f[l] \subseteq f[m]
    BY <1>8 DEF Q, Conflicts
<1> QED
    BY <1>9 DEF Good, f

(* Two maximal sets of which one holds the other are the same.               *)
LEMMA GoodMaximal ==
    ASSUME NEW cf, NEW m, NEW X, NEW Y, Good(cf, X, m), Good(cf, Y, m), X \subseteq Y
    PROVE  X = Y
<1>1. ASSUME NEW a \in Y, a \notin X
      PROVE  FALSE
    BY <1>1 DEF Good, Joins
<1> QED
    BY <1>1

-------------------------------------------------------------------------------
(* The set below m that a set below m + 1 is generated from.                 *)
ParentSet(cf, n, X, m) == IF m \in X THEN Completed(cf, n, X \ {m})[m] ELSE X

LEMMA ParentGood ==
    ASSUME NEW cf, NEW n, Conflicts(cf, n), NEW m \in 0 .. n-1, NEW X, Good(cf, X, m+1)
    PROVE  Good(cf, ParentSet(cf, n, X, m), m)
<1>1. X \in SUBSET (0 .. m) /\ n \in Nat /\ m \in 0 .. n
    BY DEF Good, Conflicts
<1>2. CASE m \in X
    <2>1. X \ {m} \in SUBSET (0 .. m-1)
        BY <1>1
    <2>3. \A a, b \in X \ {m} : b \notin cf[a]
        BY DEF Good
    <2>2. Good(cf, Completed(cf, n, X \ {m})[m], m)
        BY <1>1, <2>1, <2>3, CompletedGood
    <2> QED
        BY <1>2, <2>2 DEF ParentSet
<1>3. CASE m \notin X
    <2>1. X \in SUBSET (0 .. m-1)
        BY <1>1, <1>3
    <2>2. \A a \in 0 .. m-1 : a \in 0 .. m
        BY <1>1
    <2>3. Good(cf, X, m)
        BY <1>1, <2>1, <2>2 DEF Good
    <2> QED
        BY <1>3, <2>3 DEF ParentSet
<1> QED
    BY <1>2, <1>3

(* An argument that can join makes the next set; its parent is the set.      *)
LEMMA AddedGood ==
    ASSUME NEW cf, NEW n, Conflicts(cf, n), NEW m \in 0 .. n-1, NEW X, Good(cf, X, m),
           Joins(cf, X, m)
    PROVE  /\ Good(cf, X \cup {m}, m+1)
           /\ ParentSet(cf, n, X \cup {m}, m) = X
<1>1. /\ X \in SUBSET (0 .. m-1) /\ n \in Nat /\ m \in 0 .. n /\ m \notin X
      /\ \A a, b \in 0 .. n-1 : a \in cf[b] => b \in cf[a]
    BY DEF Good, Conflicts
<1>2. \A b \in X : m \notin cf[b] /\ b \notin cf[m]
    BY <1>1 DEF Joins
<1>3. \A a, b \in X \cup {m} : b \notin cf[a]
    BY <1>2 DEF Good, Joins
<1>4. \A a \in 0 .. m : a \in X \cup {m} \/ ~Joins(cf, X \cup {m}, a)
    <2> SUFFICES ASSUME NEW a \in 0 .. m, a \notin X \cup {m}
                 PROVE  ~Joins(cf, X \cup {m}, a)
        OBVIOUS
    <2>1. a \in 0 .. m-1
        BY <1>1
    <2> QED
        BY <2>1 DEF Good, Joins
<1>5. (X \cup {m}) \ {m} = X
    BY <1>1
<1>6. X \subseteq Completed(cf, n, X)[m] /\ Good(cf, Completed(cf, n, X)[m], m)
    BY <1>1, CompletedGood DEF Good
<1>7. Completed(cf, n, X)[m] = X
    BY <1>6, GoodMaximal
<1> QED
    BY <1>1, <1>3, <1>4, <1>5, <1>7 DEF Good, ParentSet

(* A set stays maximal when the next argument cannot join.                   *)
LEMMA PassedGood ==
    ASSUME NEW cf, NEW n, Conflicts(cf, n), NEW m \in 0 .. n-1, NEW X, Good(cf, X, m),
           ~Joins(cf, X, m)
    PROVE  /\ Good(cf, X, m+1)
           /\ ParentSet(cf, n, X, m) = X
<1>1. X \in SUBSET (0 .. m-1) /\ m \notin X
    BY DEF Good, Conflicts
<1>2. \A a \in 0 .. m : a = m \/ a \in 0 .. m-1
    BY DEF Conflicts
<1>3. X \in SUBSET (0 .. m)
    BY <1>1 DEF Conflicts
<1> QED
    BY <1>1, <1>2, <1>3 DEF Good, ParentSet

-------------------------------------------------------------------------------
(* The completion of canonical_parent, as the loop over j computes it.       *)
CanonicalBy(cf, X, m, f) ==
    /\ f[0] = X \ cf[m]
    /\ \A j \in 0 .. m-1 : f[j+1] =
        f[j] \cup {a \in {j} \cap Absent(cf, X, m) : f[j] \cap cf[a] = {}}

LEMMA CanonicalRounds ==
    ASSUME NEW cf, NEW n, Conflicts(cf, n), NEW m \in 0 .. n-1,
           NEW X \in SUBSET (0 .. n-1)
    PROVE  CanonicalBy(cf, X, m, CanonicalParent(cf, X, m))
<1> DEFINE rest == Absent(cf, X, m)
           S == SUBSET (0 .. n-1)
           g == [j \in Nat |-> [Z \in S |->
                    Z \cup {a \in {j} \cap rest : Z \cap cf[a] = {}}]]
           w == CHOOSE f : f = [j \in 0 .. m |->
                    IF j = 0 THEN X \ cf[m]
                    ELSE f[j-1] \cup {a \in {j-1} \cap rest : f[j-1] \cap cf[a] = {}}]
<1>1. CanonicalParent(cf, X, m) = w
    BY DEF CanonicalParent
<1>2. rest \in SUBSET (0 .. n-1) /\ m \in Nat /\ n \in Nat
    BY DEF Absent, Conflicts
<1>3. g \in [Nat -> [S -> S]] /\ X \ cf[m] \in S
    BY <1>2
<1>4. \A j \in Nat : \A Z \in S : g[j][Z] = Z \cup {a \in {j} \cap rest : Z \cap cf[a] = {}}
    OBVIOUS
<1> DEFINE start == X \ cf[m]
<1> HIDE DEF g, S, rest, start
<1>5. PICK f : RoundsFrom(S, start, g, f)
    BY <1>3, NumberedRounds DEF start
<1>6. /\ f \in [Nat -> S] /\ f[0] = start
      /\ \A j \in Nat : f[j+1] = f[j] \cup {a \in {j} \cap rest : f[j] \cap cf[a] = {}}
    BY <1>4, <1>5 DEF RoundsFrom
<1> DEFINE h == [j \in 0 .. m |-> f[j]]
           Later(r, j) == r[j-1] \cup {a \in {j-1} \cap rest : r[j-1] \cap cf[a] = {}}
<1>7. h = [j \in 0 .. m |-> IF j = 0 THEN start ELSE Later(h, j)]
    <2>1. ASSUME NEW j \in 0 .. m
          PROVE  h[j] = IF j = 0 THEN start ELSE Later(h, j)
        <3>1. CASE j = 0
            BY <1>6, <2>1, <3>1
        <3>2. CASE j # 0
            <4>1. j-1 \in Nat /\ j-1 \in 0 .. m /\ j-1+1 = j
                BY <1>2, <3>2
            <4>2. f[j] = f[j-1] \cup {a \in {j-1} \cap rest : f[j-1] \cap cf[a] = {}}
                <5>1. f[j-1+1] = f[j-1] \cup {a \in {j-1} \cap rest : f[j-1] \cap cf[a] = {}}
                    BY <1>6, <4>1
                <5> QED
                    BY <4>1, <5>1
            <4>3. h[j] = f[j] /\ h[j-1] = f[j-1]
                BY <4>1
            <4> QED
                BY <3>2, <4>2, <4>3
        <3> QED
            BY <3>1, <3>2
    <2> QED
        BY <2>1
<1>8. w = [j \in 0 .. m |-> IF j = 0 THEN start ELSE Later(w, j)]
    BY <1>7 DEF start
<1> HIDE DEF w, h
<1>9. w[0] = start
    BY <1>2, <1>8
<1>10. ASSUME NEW j \in 0 .. m-1
       PROVE  w[j+1] = w[j] \cup {a \in {j} \cap rest : w[j] \cap cf[a] = {}}
    <2>1. j+1 \in 0 .. m /\ j+1 # 0 /\ j+1-1 = j
        BY <1>2
    <2>2. w[j+1] = Later(w, j+1)
        BY <1>8, <2>1
    <2> QED
        BY <2>1, <2>2
<1> QED
    BY <1>1, <1>9, <1>10 DEF start, rest, CanonicalBy

(* The tests of the loop over j that do not look at the completion.          *)
LEMMA ChildFacts ==
    ASSUME NEW cf, NEW n, Conflicts(cf, n), NEW m \in 0 .. n-1,
           NEW X, Good(cf, X, m), m \notin cf[m]
    PROVE  /\ Child(cf, X, m) = (X \ cf[m]) \cup {m}
           /\ m \notin X
           /\ \A j \in 0 .. m-1 :
                j \in Absent(cf, X, m) <=> j \notin X \ cf[m]
           /\ Absent(cf, X, m) \in SUBSET (0 .. m-1)
           /\ MaximalBelow(cf, X, m) <=> Good(cf, Child(cf, X, m), m+1)
<1> DEFINE child == (X \ cf[m]) \cup {m}
<1>1. /\ n \in Nat /\ X \in SUBSET (0 .. m-1) /\ m \notin X
      /\ \A a, b \in X : b \notin cf[a]
      /\ \A a, b \in 0 .. n-1 : a \in cf[b] => b \in cf[a]
      /\ \A a \in X : a \in 0 .. n-1
    BY DEF Good, Conflicts
<1>2. Child(cf, X, m) = child
    BY DEF Child
<1>3. /\ \A j \in 0 .. m-1 : j \in Absent(cf, X, m) <=> j \notin X \ cf[m]
      /\ Absent(cf, X, m) \in SUBSET (0 .. m-1)
    BY <1>1, <1>2 DEF Absent
<1>4. child \in SUBSET (0 .. m) /\ m \in child /\ m \in 0 .. n-1
    <2>1. \A a \in child : a \in X \/ a = m
        OBVIOUS
    <2>2. m \in 0 .. m /\ \A a \in X : a \in 0 .. m
        BY <1>1
    <2>3. child \in SUBSET (0 .. m)
        BY <2>1, <2>2
    <2> QED
        BY <2>3
<1>5. \A a, b \in child : b \notin cf[a]
    <2>1. \A a \in X \ cf[m] : m \notin cf[a]
        BY <1>1
    <2> QED
        BY <1>1, <2>1
<1>6. ASSUME NEW j \in 0 .. m-1
      PROVE  Joins(cf, child, j) <=> child \cap cf[j] = {}
    <2>1. j \in 0 .. n-1 /\ child \subseteq 0 .. n-1
        BY <1>1
    <2>2. \A b \in child : j \in cf[b] <=> b \in cf[j]
        BY <1>1, <2>1
    <2>3. j \in cf[j] => m \in cf[j]
        BY <1>4, <2>1 DEF Conflicts
    <2> QED
        BY <1>4, <2>2, <2>3 DEF Joins
<1>7. MaximalBelow(cf, X, m) <=> \A j \in 0 .. m-1 : j \in child \/ ~Joins(cf, child, j)
    <2>1. MaximalBelow(cf, X, m) <=> \A j \in Absent(cf, X, m) : child \cap cf[j] # {}
        BY <1>2 DEF MaximalBelow
    <2>2. \A j \in 0 .. m-1 : j \in Absent(cf, X, m) <=> j \notin child
        BY <1>1, <1>3
    <2> QED
        BY <1>3, <1>6, <2>1, <2>2
<1>8. Good(cf, child, m+1) <=> \A j \in 0 .. m-1 : j \in child \/ ~Joins(cf, child, j)
    <2>1. 0 .. m+1-1 = 0 .. m /\ \A j \in 0 .. m : j = m \/ j \in 0 .. m-1
        BY <1>1
    <2>2. \A j \in 0 .. m-1 : j \in 0 .. m
        BY <1>1
    <2> HIDE DEF child
    <2> QED
        BY <1>4, <1>5, <2>1, <2>2 DEF Good
<1> QED
    BY <1>1, <1>2, <1>3, <1>7, <1>8

(* A child that passes all tests is a maximal set, generated from the set.   *)
LEMMA CanonicalChild ==
    ASSUME NEW cf, NEW n, Conflicts(cf, n), NEW m \in 0 .. n-1,
           NEW X, Good(cf, X, m), IsCanonical(cf, X, m)
    PROVE  /\ Good(cf, Child(cf, X, m), m+1)
           /\ ParentSet(cf, n, Child(cf, X, m), m) = X
           /\ m \in Child(cf, X, m) /\ m \notin X
<1> DEFINE start == X \ cf[m]
           f == Completed(cf, n, start)
           g == CanonicalParent(cf, X, m)
<1>1. /\ m \notin cf[m] /\ MaximalBelow(cf, X, m)
      /\ \A j \in Absent(cf, X, m) \ X : g[j] \cap cf[j] # {}
    BY DEF IsCanonical, Deviations
<1>2. /\ Good(cf, Child(cf, X, m), m+1)
      /\ Child(cf, X, m) = start \cup {m} /\ m \notin X
      /\ \A j \in 0 .. m-1 : j \in Absent(cf, X, m) <=> j \notin start
      /\ Absent(cf, X, m) \in SUBSET (0 .. m-1)
    BY <1>1, ChildFacts
<1>3. /\ n \in Nat /\ X \in SUBSET (0 .. m-1) /\ X \in SUBSET (0 .. n-1)
      /\ \A a, b \in X : b \notin cf[a]
      /\ \A a, b \in 0 .. n-1 : a \in cf[b] => b \in cf[a]
    BY DEF Good, Conflicts
<1>4. /\ g[0] = start
      /\ \A j \in 0 .. m-1 : g[j+1] =
            g[j] \cup {a \in {j} \cap Absent(cf, X, m) : g[j] \cap cf[a] = {}}
    <2>1. CanonicalBy(cf, X, m, CanonicalParent(cf, X, m))
        BY <1>3, CanonicalRounds
    <2> QED
        BY <2>1 DEF CanonicalBy
<1>5. /\ start \in SUBSET (0 .. m-1) /\ start \in SUBSET (0 .. n-1)
      /\ \A a, b \in start : b \notin cf[a]
      /\ m \in 0 .. n
    <2>1. start \subseteq X
        OBVIOUS
    <2>2. m \in 0 .. n
        BY <1>3
    <2> HIDE DEF start
    <2>3. start \in SUBSET (0 .. m-1) /\ start \in SUBSET (0 .. n-1)
        BY <1>3, <2>1
    <2>4. \A a, b \in start : b \notin cf[a]
        BY <1>3, <2>1
    <2> QED
        BY <2>2, <2>3, <2>4
<1>6. CompletedBy(cf, n, start, f)
    BY <1>5, CompletedRounds
<1>7. /\ f[0] = start
      /\ \A j \in Nat : f[j+1] = f[j] \cup {a \in {j} : a \in 0 .. n-1 /\ Joins(cf, f[j], a)}
    BY <1>6 DEF CompletedBy
<1> DEFINE Q == {j \in Nat : j <= m => f[j] = g[j] /\ f[j] \subseteq X /\ start \subseteq f[j]}
<1> HIDE DEF f, g, start
<1>8. 0 \in Q
    BY <1>4, <1>7 DEF start
<1>9. ASSUME NEW j \in Q
      PROVE  j+1 \in Q
    <2>1. SUFFICES ASSUME j+1 <= m
                   PROVE  /\ f[j+1] = g[j+1] /\ f[j+1] \subseteq X
                          /\ start \subseteq f[j+1]
        OBVIOUS
    <2>2. /\ j \in Nat /\ j \in 0 .. m-1 /\ j \in 0 .. n-1
          /\ f[j] = g[j] /\ f[j] \subseteq X /\ start \subseteq f[j]
        BY <1>3, <2>1
    <2> HIDE DEF Q
    <2>3. /\ f[j+1] = f[j] \cup {a \in {j} : Joins(cf, f[j], j)}
          /\ g[j+1] = f[j] \cup {a \in {j} \cap Absent(cf, X, m) : f[j] \cap cf[j] = {}}
        BY <1>4, <1>7, <2>2
    <2>5. CASE j \in X
        <3>1. j \notin cf[j] /\ \A b \in f[j] : j \notin cf[b] /\ b \notin cf[j]
            BY <1>3, <2>2, <2>5
        <3>2. f[j+1] = f[j] \cup {j}
            BY <2>3, <3>1 DEF Joins
        <3>3. g[j+1] = f[j] \cup {j}
            <4>1. CASE j \in start
                BY <2>2, <2>3, <4>1
            <4>2. CASE j \notin start
                BY <1>2, <2>2, <2>3, <3>1, <4>2
            <4> QED
                BY <4>1, <4>2
        <3> QED
            BY <2>2, <2>5, <3>2, <3>3
    <2>6. CASE j \notin X
        <3>1. j \notin start
            BY <2>6 DEF start
        <3>2. f[j] \cap cf[j] # {}
            BY <1>1, <1>2, <2>2, <2>6, <3>1
        <3>3. ~Joins(cf, f[j], j)
            <4>1. PICK b \in f[j] : b \in cf[j]
                BY <3>2
            <4>2. j \in cf[b]
                BY <1>3, <2>2, <4>1
            <4> QED
                BY <4>1, <4>2 DEF Joins
        <3> QED
            BY <2>2, <2>3, <3>2, <3>3
    <2> QED
        BY <2>5, <2>6
<1>10. Q \in SUBSET Nat
    OBVIOUS
<1> HIDE DEF Q
<1>11. m \in Q /\ m \in Nat
    BY <1>3, <1>8, <1>9, <1>10, EveryNumber
<1>12. f[m] \subseteq X
    BY <1>11 DEF Q
<1>13. Good(cf, f[m], m)
    BY <1>5, CompletedGood DEF f
<1>14. f[m] = X
    BY <1>12, <1>13, GoodMaximal
<1>15. (start \cup {m}) \ {m} = start /\ m \in start \cup {m}
    BY <1>2 DEF start
<1> QED
    BY <1>2, <1>14, <1>15 DEF ParentSet, f

(* Unless a self-attacker comes before m, the maximal sets generated from X  *)
(* are the ones the search goes on with.                                     *)
LEMMA OnlyChildren ==
    ASSUME NEW cf, NEW n, Conflicts(cf, n), NEW m \in 0 .. n-1,
           NEW X, Good(cf, X, m), NEW Z, Good(cf, Z, m+1),
           ParentSet(cf, n, Z, m) = X,
           \A a \in 0 .. m-1 : a \in cf[a] => m \in cf[m]
    PROVE  /\ Joins(cf, X, m) => Z = X \cup {m}
           /\ ~Joins(cf, X, m) =>
                Z = X \/ (Z = Child(cf, X, m) /\ IsCanonical(cf, X, m))
<1> DEFINE rest == Z \ {m}
           f == Completed(cf, n, rest)
           g == CanonicalParent(cf, X, m)
<1>1. /\ n \in Nat /\ Z \in SUBSET (0 .. m) /\ X \in SUBSET (0 .. m-1) /\ m \in 0 .. m
      /\ \A a, b \in Z : b \notin cf[a]
      /\ \A a \in 0 .. m : a \in Z \/ ~Joins(cf, Z, a)
      /\ \A a, b \in 0 .. n-1 : a \in cf[b] => b \in cf[a]
      /\ \A a, b \in X : b \notin cf[a]
    BY DEF Good, Conflicts
<1>2. CASE m \notin Z
    <2>1. Z = X
        BY <1>2 DEF ParentSet
    <2> QED
        BY <1>1, <1>2, <2>1
<1>3. CASE m \in Z
    <2>1. X = f[m] /\ m \notin X /\ m \notin cf[m]
        BY <1>1, <1>3 DEF ParentSet
    <2>2. /\ rest \in SUBSET (0 .. m-1) /\ rest \in SUBSET (0 .. n-1) /\ m \in 0 .. n
          /\ \A a, b \in rest : b \notin cf[a]
        <3>1. rest \subseteq Z /\ m \notin rest
            OBVIOUS
        <3> HIDE DEF rest
        <3> QED
            BY <1>1, <3>1
    <2>3. rest \subseteq f[m] /\ \A j \in 0 .. m : f[j] \subseteq f[m]
        BY <2>2, CompletedGood
    <2>4. rest \subseteq X \ cf[m]
        BY <1>1, <1>3, <2>1, <2>3
    (* What X has besides Z would have joined Z but for m.                   *)
    <2>5. ASSUME NEW b \in X, b \notin Z
          PROVE  m \in cf[b] /\ b \in cf[m]
        <3>1. b \in 0 .. m /\ b \notin cf[b]
            BY <1>1
        <3>2. PICK y \in Z : b \in cf[y]
            BY <1>1, <2>5, <3>1 DEF Joins
        <3>3. y = m
            BY <1>1, <2>4, <3>2
        <3> QED
            BY <1>1, <3>1, <3>2, <3>3
    <2>6. CASE Joins(cf, X, m)
        <3>1. X \subseteq Z
            BY <2>5, <2>6 DEF Joins
        <3> QED
            BY <1>3, <2>4, <2>6, <3>1
    <2>7. CASE ~Joins(cf, X, m)
        <3>1. X \ cf[m] \subseteq rest
            BY <2>1, <2>5
        <3>2. rest = X \ cf[m]
            BY <2>4, <3>1
        <3>3. Child(cf, X, m) = Z
            BY <1>3, <3>2 DEF Child
        <3>4. /\ MaximalBelow(cf, X, m)
              /\ \A j \in 0 .. m-1 : j \in Absent(cf, X, m) <=> j \notin rest
              /\ Absent(cf, X, m) \in SUBSET (0 .. m-1)
            BY <2>1, <3>2, <3>3, ChildFacts
        <3>5. CanonicalBy(cf, X, m, g)
            BY <1>1, CanonicalRounds
        <3>6. /\ g[0] = rest
              /\ \A j \in 0 .. m-1 : g[j+1] =
                    g[j] \cup {a \in {j} \cap Absent(cf, X, m) : g[j] \cap cf[a] = {}}
            BY <3>2, <3>5 DEF CanonicalBy
        <3>7. CompletedBy(cf, n, rest, f)
            BY <2>2, CompletedRounds
        <3>8. /\ f[0] = rest /\ \A j \in Nat : f[j] \in SUBSET (0 .. n-1)
              /\ \A j \in Nat : f[j+1] =
                    f[j] \cup {a \in {j} : a \in 0 .. n-1 /\ Joins(cf, f[j], a)}
            BY <3>7 DEF CompletedBy
        <3> DEFINE Q == {j \in Nat : j <= m => f[j] = g[j] /\ rest \subseteq f[j]}
        <3> HIDE DEF f, g, rest
        <3>9. ASSUME NEW j \in 0 .. m-1, NEW Y \in SUBSET (0 .. n-1)
              PROVE  Joins(cf, Y, j) <=> Y \cap cf[j] = {}
            <4>1. j \in 0 .. n-1 /\ j \notin cf[j]
                BY <1>1, <2>1
            <4>2. \A b \in Y : j \in cf[b] <=> b \in cf[j]
                BY <1>1, <4>1
            <4> QED
                BY <4>1, <4>2 DEF Joins
        <3>10. 0 \in Q
            BY <3>6, <3>8
        <3>11. ASSUME NEW j \in Q
               PROVE  j+1 \in Q
            <4>1. SUFFICES ASSUME j+1 <= m
                           PROVE  f[j+1] = g[j+1] /\ rest \subseteq f[j+1]
                OBVIOUS
            <4>2. /\ j \in Nat /\ j \in 0 .. m-1 /\ j \in 0 .. n-1
                  /\ f[j] = g[j] /\ rest \subseteq f[j] /\ f[j] \in SUBSET (0 .. n-1)
                BY <1>1, <3>8, <4>1
            <4> HIDE DEF Q
            <4>3. f[j+1] = f[j] \cup {a \in {j} : f[j] \cap cf[j] = {}}
                BY <3>8, <3>9, <4>2
            <4>4. g[j+1] = f[j] \cup {a \in {j} \cap Absent(cf, X, m) : f[j] \cap cf[j] = {}}
                BY <3>6, <4>2
            <4>5. j \notin Absent(cf, X, m) => j \in f[j]
                BY <3>4, <4>2
            <4> QED
                BY <4>2, <4>3, <4>4, <4>5
        <3>12. Q = Nat
            <4>1. Q \in SUBSET Nat
                OBVIOUS
            <4> HIDE DEF Q
            <4> QED
                BY <3>10, <3>11, <4>1, EveryNumber
        <3>13. ASSUME NEW j \in Absent(cf, X, m) \ X
               PROVE  g[j] \cap cf[j] # {}
            <4>1. j \in 0 .. m-1 /\ j \in Nat /\ j \in 0 .. n-1 /\ j+1 \in 0 .. m /\ j <= m
                BY <1>1, <3>4
            <4>2. f[j] = g[j] /\ f[j] \in SUBSET (0 .. n-1)
                BY <3>8, <3>12, <4>1
            <4>3. j \notin f[j+1]
                BY <2>1, <2>3, <4>1
            <4>4. ~Joins(cf, f[j], j)
                BY <3>8, <4>1, <4>3
            <4> QED
                BY <3>9, <4>1, <4>2, <4>4
        <3>14. Deviations(cf, X, m) = {}
            BY <3>13 DEF Deviations, g
        <3>15. IsCanonical(cf, X, m)
            BY <2>1, <3>4, <3>14 DEF IsCanonical
        <3> QED
            BY <2>7, <3>3, <3>15
    <2> QED
        BY <2>6, <2>7
<1> QED
    BY <1>2, <1>3

-------------------------------------------------------------------------------
(* The sets that a set of n arguments comes from, one for each m.            *)
LineageBy(cf, n, T, f) ==
    /\ f \in [Nat -> SUBSET (0 .. n-1)]
    /\ f[0] = T
    /\ \A l \in Nat : f[l+1] = ParentSet(cf, n, f[l], n-1-l)

(* The set below m that T comes from.                                        *)
Ancestor(cf, n, T, m) == (CHOOSE f : LineageBy(cf, n, T, f))[n-m]

LEMMA AncestorSteps ==
    ASSUME NEW cf, NEW n, Conflicts(cf, n), NEW T \in SUBSET (0 .. n-1)
    PROVE  /\ Ancestor(cf, n, T, n) = T
           /\ \A m \in 0 .. n-1 :
                Ancestor(cf, n, T, m) = ParentSet(cf, n, Ancestor(cf, n, T, m+1), m)
<1> DEFINE S == SUBSET (0 .. n-1)
           g == [l \in Nat |-> [X \in S |-> ParentSet(cf, n, X, n-1-l)]]
<1>1. n \in Nat
    BY DEF Conflicts
<1>2. ASSUME NEW l \in Nat, NEW X \in S
      PROVE  ParentSet(cf, n, X, n-1-l) \in S
    <2>1. CASE n-1-l \in X
        <3>1. X \ {n-1-l} \in SUBSET (0 .. n-1) /\ n-1-l \in Nat
            BY <1>1, <2>1
        <3>2. CompletedBy(cf, n, X \ {n-1-l}, Completed(cf, n, X \ {n-1-l}))
            BY <3>1, CompletedRounds
        <3> QED
            BY <2>1, <3>1, <3>2 DEF CompletedBy, ParentSet
    <2>2. CASE n-1-l \notin X
        BY <2>2 DEF ParentSet
    <2> QED
        BY <2>1, <2>2
<1>3. g \in [Nat -> [S -> S]]
    BY <1>2
<1>4. \A l \in Nat : \A X \in S : g[l][X] = ParentSet(cf, n, X, n-1-l)
    OBVIOUS
<1>5. T \in S
    OBVIOUS
<1> HIDE DEF g, S
<1>6. PICK f : RoundsFrom(S, T, g, f)
    BY <1>3, <1>5, NumberedRounds
<1>7. LineageBy(cf, n, T, f)
    BY <1>4, <1>6 DEF RoundsFrom, LineageBy, S
<1> DEFINE h == CHOOSE r : LineageBy(cf, n, T, r)
<1>8. LineageBy(cf, n, T, h)
    BY <1>7
<1>9. \A m : Ancestor(cf, n, T, m) = h[n-m]
    BY DEF Ancestor
<1> HIDE DEF h
<1>10. ASSUME NEW m \in 0 .. n-1
       PROVE  h[n-m] = ParentSet(cf, n, h[n-(m+1)], m)
    <2>1. n-(m+1) \in Nat /\ n-(m+1)+1 = n-m /\ n-1-(n-(m+1)) = m
        BY <1>1
    <2>2. h[n-(m+1)+1] = ParentSet(cf, n, h[n-(m+1)], n-1-(n-(m+1)))
        BY <1>8, <2>1 DEF LineageBy
    <2> QED
        BY <2>1, <2>2
<1>11. n-n = 0 /\ h[0] = T
    BY <1>1, <1>8 DEF LineageBy
<1> QED
    BY <1>9, <1>10, <1>11

LEMMA AncestorGood ==
    ASSUME NEW cf, NEW n, Conflicts(cf, n), NEW T, Good(cf, T, n)
    PROVE  /\ \A m \in 0 .. n : Good(cf, Ancestor(cf, n, T, m), m)
           /\ Ancestor(cf, n, T, 0) = {}
<1>1. n \in Nat /\ T \in SUBSET (0 .. n-1)
    BY DEF Conflicts, Good
<1>2. /\ Ancestor(cf, n, T, n) = T
      /\ \A m \in 0 .. n-1 :
            Ancestor(cf, n, T, m) = ParentSet(cf, n, Ancestor(cf, n, T, m+1), m)
    BY <1>1, AncestorSteps
<1> DEFINE Q == {l \in Nat : l <= n => Good(cf, Ancestor(cf, n, T, n-l), n-l)}
<1>3. 0 \in Q
    BY <1>1, <1>2
<1>4. ASSUME NEW l \in Q
      PROVE  l+1 \in Q
    <2>1. SUFFICES ASSUME l+1 <= n
                   PROVE  Good(cf, Ancestor(cf, n, T, n-(l+1)), n-(l+1))
        OBVIOUS
    <2> DEFINE m == n-(l+1)
    <2>2. m \in 0 .. n-1 /\ m+1 = n-l /\ Good(cf, Ancestor(cf, n, T, m+1), m+1)
        BY <1>1, <2>1
    <2> HIDE DEF m, Q
    <2>3. Good(cf, Ancestor(cf, n, T, m), m)
        BY <1>2, <2>2, ParentGood
    <2> QED
        BY <2>3 DEF m
<1>5. Q \in SUBSET Nat
    OBVIOUS
<1> HIDE DEF Q
<1>6. Q = Nat
    BY <1>3, <1>4, <1>5, EveryNumber
<1>7. ASSUME NEW m \in 0 .. n
      PROVE  Good(cf, Ancestor(cf, n, T, m), m)
    <2>1. n-m \in Nat /\ n-m <= n /\ n-(n-m) = m
        BY <1>1
    <2> QED
        BY <1>6, <2>1 DEF Q
<1>8. Ancestor(cf, n, T, 0) = {}
    <2>1. Good(cf, Ancestor(cf, n, T, 0), 0)
        BY <1>1, <1>7
    <2> QED
        BY <2>1 DEF Good
<1> QED
    BY <1>7, <1>8

================================================================================
