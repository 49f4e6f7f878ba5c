------------------------------ MODULE RunCc_proofs ------------------------------
(***************************************************************************)
(* The invariants of RunCc for every framework: the recursions over        *)
(* components hand back the extensions of what they are called for, and    *)
(* the program prints the answer.                                          *)
(*                                                                         *)
(*   - Source components: find_source_component's search finds one, and    *)
(*     the stable extensions of a part of the framework split over it.     *)
(*   - Weak components (WccStable): the in-place product of the lists.     *)
(*   - Preferred extensions (SccPreferred): how the projections with       *)
(*     self-attacks number what an extension leaves; the stack of calls.   *)
(*   - Stable extensions (SccStable): linked lists in a heap whose nodes   *)
(*     the maps and the results share; the stack of calls; the two maps.   *)
(*   - What is printed: the unions of what the routine lists for the       *)
(*     components are the stable extensions, but for the sets it loses     *)
(*     (mis) and the first closures it does not test (Nourine).            *)
(*   - The program: CcInv, an inductive invariant, and the theorems.       *)
(***************************************************************************)
EXTENDS RunCc, Foundations_proofs

-------------------------------------------------------------------------------
(* Searching.                                                                *)

(* A set of numbers has a least member, and a greatest if it is finite.      *)
LEMMA LeastNumber ==
    ASSUME NEW S \in SUBSET Nat, S # {}
    PROVE  \E a \in S : \A b \in S : a <= b
<1>1. PICK a \in S : \A b \in S : ~(<<b, a>> \in OpToRel(<, Nat))
    BY NatLessThanWellFounded, WFMin
<1>2. \A b \in S : ~(b < a) /\ a \in Nat /\ b \in Nat
    BY <1>1 DEF OpToRel
<1> QED
    BY <1>2

LEMMA GreatestNumber ==
    ASSUME NEW S \in SUBSET Nat, IsFiniteSet(S), S # {}
    PROVE  \E a \in S : \A b \in S : b <= a
<1> DEFINE K == Cardinality(S)
<1>1. K \in Nat /\ K # 0
    BY FS_CardinalityType, FS_EmptySet
<1>2. PICK a \in S : Cardinality({l \in S : l <= a}) = K
    BY <1>1, Ranked
<1>3. {l \in S : l <= a} = S
    BY <1>2, FS_Subset
<1> QED
    BY <1>3

(* What is reached from an argument that is reached is reached.              *)
LEMMA VisitedWithin ==
    ASSUME NEW D, IsFiniteSet(D), NEW neighbours \in [D -> SUBSET D], NEW a \in D,
           NEW b \in Visited(neighbours, a)
    PROVE  Visited(neighbours, b) \subseteq Visited(neighbours, a)
<1>1. /\ Visited(neighbours, a) \in SUBSET D
      /\ \A x \in Visited(neighbours, a) : neighbours[x] \subseteq Visited(neighbours, a)
    BY VisitedRight
<1>2. b \in D
    BY <1>1
<1>3. \A S \in SUBSET D :
        b \in S /\ (\A x \in S : neighbours[x] \subseteq S) => Visited(neighbours, b) \subseteq S
    BY <1>2, VisitedRight
<1> QED
    BY <1>1, <1>3

(* Two searches within A, of which the second can go back wherever the first *)
(* can go.                                                                   *)
GoesBack(A, f, g) ==
    \A a \in A : f[a] \subseteq A /\ \A b \in f[a] : a \in g[b]

LEMMA VisitedBack ==
    ASSUME NEW D, IsFiniteSet(D), NEW A \in SUBSET D, NEW f \in [D -> SUBSET D],
           NEW g \in [D -> SUBSET D], GoesBack(A, f, g), NEW a \in A
    PROVE  /\ Visited(f, a) \subseteq A
           /\ \A b \in Visited(f, a) : a \in Visited(g, b)
<1>1. \A S \in SUBSET D : a \in S /\ (\A b \in S : f[b] \subseteq S) => Visited(f, a) \subseteq S
    BY VisitedRight
<1>2. \A b \in A : f[b] \subseteq A /\ \A c \in f[b] : b \in g[c]
    BY DEF GoesBack
<1>3. Visited(f, a) \subseteq A
    BY <1>1, <1>2
<1> DEFINE Y == {b \in A : a \in Visited(g, b)}
<1>4. a \in Y
    BY VisitedRight
<1>5. ASSUME NEW b \in Y, NEW c \in f[b]
      PROVE  c \in Y
    <2>1. b \in A /\ c \in A /\ b \in g[c] /\ a \in Visited(g, b)
        BY <1>2, <1>5
    <2>2. b \in Visited(g, c)
        BY <2>1, VisitedRight
    <2>3. Visited(g, b) \subseteq Visited(g, c)
        BY <2>1, <2>2, VisitedWithin
    <2> QED
        BY <2>1, <2>3
<1>6. Y \in SUBSET D
    OBVIOUS
<1> HIDE DEF Y
<1>7. Visited(f, a) \subseteq Y
    BY <1>1, <1>4, <1>5, <1>6
<1> QED
    BY <1>3, <1>7 DEF Y

(* The two searches of find_source_component.                                *)
LEMMA SearchesWithin ==
    ASSUME NEW D, NEW att \in [D -> SUBSET D], NEW A \in SUBSET D
    PROVE  /\ Forward(att, A) \in [D -> SUBSET D] /\ Backward(att, A) \in [D -> SUBSET D]
           /\ \A a \in D : /\ Forward(att, A)[a] = att[a] \cap A
                           /\ Backward(att, A)[a] = {b \in A : a \in att[b]}
           /\ GoesBack(A, Forward(att, A), Backward(att, A))
           /\ GoesBack(A, Backward(att, A), Forward(att, A))
BY DEF Forward, Backward, GoesBack

(* What find_source_component promises: a strongly connected component of A  *)
(* that no other argument of A attacks.                                      *)
Source(att, A, C) ==
    /\ C # {} /\ C \subseteq A
    /\ \A a \in A, b \in C : b \in att[a] => a \in C
    /\ \A a \in C : Visited(Forward(att, C), a) = C

(* The second depth-first search of find_source_component, started where the*)
(* first one started last, marks a source component, in every graph.        *)
THEOREM SourceFound ==
    ASSUME NEW D \in SUBSET Nat, IsFiniteSet(D), NEW att \in [D -> SUBSET D],
           NEW A \in SUBSET D, A # {}
    PROVE  Source(att, A, SourceComponent(att, A))
<1> DEFINE F == Forward(att, A)
           B == Backward(att, A)
           starts == Starts(F, A)
           source == CHOOSE a \in starts : \A b \in starts : b <= a
           C == Visited(B, source)
<1>1. /\ F \in [D -> SUBSET D] /\ B \in [D -> SUBSET D]
      /\ \A a \in D : F[a] = att[a] \cap A /\ B[a] = {b \in A : a \in att[b]}
      /\ GoesBack(A, F, B) /\ GoesBack(A, B, F)
    BY SearchesWithin
<1>2. starts = {a \in A : \A b \in A : b < a => a \notin Visited(F, b)}
    BY DEF Starts
<1>3. SourceComponent(att, A) = C
    BY DEF SourceComponent
<1> HIDE DEF F, B
<1>4. \E a \in A : \A b \in A : a <= b
    BY LeastNumber
<1>5. starts # {}
    <2>1. PICK a \in A : \A b \in A : a <= b
        BY <1>4
    <2>2. \A b \in A : ~(b < a)
        BY <2>1
    <2> QED
        BY <1>2, <2>1, <2>2
<1>6. source \in starts /\ \A b \in starts : b <= source
    <2>1. starts \in SUBSET D /\ starts \in SUBSET Nat
        BY <1>2
    <2>2. IsFiniteSet(starts)
        BY <2>1, FS_Subset
    <2> HIDE DEF starts
    <2>3. \E a \in starts : \A b \in starts : b <= a
        BY <1>5, <2>1, <2>2, GreatestNumber
    <2> QED
        BY <2>3
<1> HIDE DEF starts, source
<1>7. source \in A /\ source \in D
    BY <1>2, <1>6
<1>8. ASSUME NEW b \in C
      PROVE  b \in A /\ b \in Visited(F, source) /\ source \in Visited(F, b)
    <2>1. C \subseteq A /\ source \in Visited(F, b)
        BY <1>1, <1>7, VisitedBack
    <2>2. b \in A /\ b \in D
        BY <2>1
    <2> DEFINE R == {a \in A : b \in Visited(F, a)}
    <2>3. b \in R
        BY <1>1, <2>2, VisitedRight
    <2>4. PICK least \in R : \A a \in R : least <= a
        <3>1. R \in SUBSET Nat
            OBVIOUS
        <3> HIDE DEF R
        <3> QED
            BY <2>3, <3>1, LeastNumber
    <2>5. least \in A /\ b \in Visited(F, least)
        OBVIOUS
    <2>6. ASSUME NEW a \in A, least \in Visited(F, a)
          PROVE  a \in R
        <3>1. Visited(F, least) \subseteq Visited(F, a)
            BY <1>1, <2>6, VisitedWithin
        <3> QED
            BY <2>5, <3>1
    <2>7. least \in starts
        <3>1. ASSUME NEW a \in A, a < least
              PROVE  least \notin Visited(F, a)
            <4>1. a \in Nat /\ least \in Nat
                OBVIOUS
            <4>2. ~(a < least) \/ a \notin R
                BY <2>4, <4>1
            <4> QED
                BY <2>6, <3>1, <4>2
        <3> QED
            BY <1>2, <2>5, <3>1
    <2>8. source \in Visited(F, least)
        <3>1. Visited(F, b) \subseteq Visited(F, least)
            BY <1>1, <2>5, VisitedWithin
        <3> QED
            BY <2>1, <3>1
    <2>9. source = least
        <3>1. least <= source /\ least \in Nat /\ source \in Nat
            BY <1>6, <1>7, <2>7
        <3>2. ~(least < source)
            BY <1>2, <1>6, <2>5, <2>8
        <3> QED
            BY <3>1, <3>2
    <2> QED
        BY <2>1, <2>2, <2>5, <2>9
<1>9. source \in C /\ C \subseteq A /\ \A b \in C : B[b] \subseteq C
    <2>1. C \subseteq A
        BY <1>8
    <2> QED
        BY <1>1, <1>7, <2>1, VisitedRight
<1> HIDE DEF C
<1>10. \A a \in A, b \in C : b \in att[a] => a \in C
    BY <1>1, <1>9
<1>11. ASSUME NEW a \in C
       PROVE  Visited(Forward(att, C), a) = C
    <2> DEFINE G == Forward(att, C)
    <2>1. C \in SUBSET D
        BY <1>9
    <2>2. G \in [D -> SUBSET D] /\ \A b \in D : G[b] = att[b] \cap C
        BY <2>1 DEF Forward
    <2>3. GoesBack(C, G, Backward(att, C)) /\ Backward(att, C) \in [D -> SUBSET D]
        BY <2>1, SearchesWithin
    <2> HIDE DEF G
    <2>4. Visited(G, a) \subseteq C
        BY <2>1, <2>2, <2>3, VisitedBack
    <2>5. ASSUME NEW b \in C
          PROVE  b \in Visited(G, a)
        <3>1. b \in Visited(F, a)
            <4>1. Visited(F, source) \subseteq Visited(F, a)
                BY <1>1, <1>8, <1>9, VisitedWithin
            <4> QED
                BY <1>8, <4>1
        <3> DEFINE S == Visited(G, a) \cup (A \ C)
        <3>2. S \in SUBSET D /\ a \in S
            BY <2>1, <2>2, <2>4, VisitedRight
        <3>3. ASSUME NEW x \in S, NEW y \in F[x]
              PROVE  y \in S
            <4>1. y \in A /\ x \in A /\ y \in att[x]
                BY <1>1, <1>9, <2>4, <3>3
            <4>2. CASE y \in C
                <5>1. x \in C
                    BY <1>10, <4>1, <4>2
                <5>2. x \in Visited(G, a)
                    BY <5>1
                <5>3. y \in G[x]
                    BY <2>2, <4>1, <4>2, <5>1
                <5>4. G[x] \subseteq Visited(G, a)
                    BY <2>1, <2>2, <5>2, VisitedRight
                <5> QED
                    BY <5>3, <5>4
            <4>3. CASE y \notin C
                BY <4>1, <4>3
            <4> QED
                BY <4>2, <4>3
        <3>4. Visited(F, a) \subseteq S
            <4>1. a \in D
                BY <2>1
            <4> HIDE DEF S
            <4> QED
                BY <1>1, <3>2, <3>3, <4>1, VisitedRight
        <3> QED
            BY <2>5, <3>1, <3>4
    <2>6. Visited(G, a) = C
        BY <2>4, <2>5
    <2> QED
        BY <2>6 DEF G
<1> QED
    BY <1>3, <1>9, <1>10, <1>11 DEF Source

-------------------------------------------------------------------------------
(* Stable extensions of a part of a framework.                               *)

(* The stable extensions of the framework that A induces, in the indices of  *)
(* the whole.                                                                *)
StableIn(att, A) == {S \in SUBSET A : \A a \in A : a \in S <=> \A b \in S : a \notin att[b]}

(* m numbers the members of A by those of D.                                 *)
Numbering(m, D, A) ==
    /\ m \in [D -> A]
    /\ \A x, y \in D : m[x] = m[y] => x = y
    /\ \A a \in A : \E x \in D : m[x] = a

(* The listing of A that a projection numbers its arguments by.              *)
LEMMA ParentNumbers ==
    ASSUME NEW A \in SUBSET Nat, IsFiniteSet(A)
    PROVE  \E D \in SUBSET Nat :
            /\ IsFiniteSet(D) /\ D = 0 .. Cardinality(A)-1
            /\ Numbering(ParentMapping(A), D, A)
<1>1. Cardinality(A) \in Nat
    BY ParentMappingRight
<1>2. IsFiniteSet(0 .. Cardinality(A)-1) /\ 0 .. Cardinality(A)-1 \in SUBSET Nat
    BY <1>1, FS_Interval
<1> QED
    BY <1>2, ParentMappingRight DEF Numbering

(* Sets of new indices and the sets of old ones they stand for.              *)
LEMMA Numbered ==
    ASSUME NEW D, NEW A, NEW m, Numbering(m, D, A)
    PROVE  /\ \A S \in SUBSET D : /\ MapIndices(S, m) \in SUBSET A
                                  /\ \A x \in D : m[x] \in MapIndices(S, m) <=> x \in S
           /\ \A S, T \in SUBSET D : MapIndices(S, m) \subseteq MapIndices(T, m) <=> S \subseteq T
           /\ \A S, T \in SUBSET D : MapIndices(S, m) = MapIndices(T, m) => S = T
<1> USE DEF Numbering
<1>1. ASSUME NEW S \in SUBSET D
      PROVE  /\ MapIndices(S, m) \in SUBSET A
             /\ \A x \in D : m[x] \in MapIndices(S, m) <=> x \in S
    BY DEF MapIndices
<1>3. ASSUME NEW S \in SUBSET D, NEW T \in SUBSET D
      PROVE  MapIndices(S, m) \subseteq MapIndices(T, m) <=> S \subseteq T
    <2>1. S \subseteq T => MapIndices(S, m) \subseteq MapIndices(T, m)
        BY DEF MapIndices
    <2>2. MapIndices(S, m) \subseteq MapIndices(T, m) => S \subseteq T
        BY <1>1
    <2> QED
        BY <2>1, <2>2
<1>4. ASSUME NEW S \in SUBSET D, NEW T \in SUBSET D, MapIndices(S, m) = MapIndices(T, m)
      PROVE  S = T
    BY <1>1, <1>4
<1> QED
    BY <1>1, <1>3, <1>4

LEMMA NumberedOnto ==
    ASSUME NEW D, NEW A, NEW m, Numbering(m, D, A), NEW T \in SUBSET A
    PROVE  \E S \in SUBSET D : MapIndices(S, m) = T
<1> DEFINE S == {x \in D : m[x] \in T}
<1>1. \A a \in T : \E x \in S : m[x] = a
    BY DEF Numbering
<1>2. MapIndices(S, m) = T
    BY <1>1 DEF MapIndices
<1> QED
    BY <1>2

(* Solving a projection and mapping the extensions back gives those of the   *)
(* part it was made for.                                                     *)
Solved(att, A, m) ==
    /\ {MapIndices(e, m) : e \in StableExtensions(Renamed(att, m))} = StableIn(att, A)
    /\ StableExtensions(Renamed(att, m))
         = {e \in SUBSET DOMAIN m : MapIndices(e, m) \in StableIn(att, A)}

LEMMA NumberingSolved ==
    ASSUME NEW D, NEW att \in [D -> SUBSET D], NEW A \in SUBSET D,
           NEW E, NEW m, Numbering(m, E, A)
    PROVE  Solved(att, A, m)
<1> DEFINE ren == Renamed(att, m)
<1>1. /\ DOMAIN m = E /\ DOMAIN ren = E
      /\ \A x, y \in E : y \in ren[x] <=> m[y] \in att[m[x]]
    BY DEF Renamed, Numbering
<1> HIDE DEF ren
<1>2. ASSUME NEW S \in SUBSET E
      PROVE  MapIndices(S, m) \in SUBSET A /\ \A x \in E : m[x] \in MapIndices(S, m) <=> x \in S
    BY Numbered
<1>3. ASSUME NEW S \in SUBSET E
      PROVE  Stable(ren, S) <=> MapIndices(S, m) \in StableIn(att, A)
    <2> DEFINE T == MapIndices(S, m)
               good(a) == a \in T <=> \A b \in T : a \notin att[b]
    <2>1. T \in SUBSET A /\ \A x \in E : m[x] \in T <=> x \in S
        BY <1>2
    <2>2. \A x \in E : (\A y \in S : x \notin ren[y]) <=> \A b \in T : m[x] \notin att[b]
        BY <1>1 DEF MapIndices
    <2>3. (\A x \in E : m[x] \in A) /\ \A a \in A : \E x \in E : m[x] = a
        BY DEF Numbering
    <2> HIDE DEF T
    <2>4. T \in StableIn(att, A) <=> \A a \in A : good(a)
        BY <2>1 DEF StableIn
    <2>5. Stable(ren, S) <=> \A x \in E : good(m[x])
        BY <1>1, <2>1, <2>2 DEF Stable
    <2> HIDE DEF good
    <2>6. (\A x \in E : good(m[x])) <=> \A a \in A : good(a)
        BY <2>3
    <2> QED
        BY <2>4, <2>5, <2>6 DEF T
<1>4. StableExtensions(ren) = {S \in SUBSET E : MapIndices(S, m) \in StableIn(att, A)}
    BY <1>1, <1>3 DEF StableExtensions
<1>5. {MapIndices(e, m) : e \in StableExtensions(ren)} = StableIn(att, A)
    <2>1. \A T \in StableIn(att, A) : T \in SUBSET A
        BY DEF StableIn
    <2>2. ASSUME NEW T \in StableIn(att, A)
          PROVE  \E e \in StableExtensions(ren) : MapIndices(e, m) = T
        <3>1. PICK S \in SUBSET E : MapIndices(S, m) = T
            BY <2>1, NumberedOnto
        <3> QED
            BY <1>4, <3>1
    <2> QED
        BY <1>4, <2>2
<1> QED
    BY <1>1, <1>4, <1>5 DEF ren, Solved

LEMMA ProjectionSolved ==
    ASSUME NEW D \in SUBSET Nat, IsFiniteSet(D), NEW att \in [D -> SUBSET D],
           NEW A \in SUBSET D
    PROVE  Solved(att, A, ParentMapping(A))
<1>1. A \in SUBSET Nat /\ IsFiniteSet(A)
    BY FS_Subset
<1>2. \E E : Numbering(ParentMapping(A), E, A)
    BY <1>1, ParentNumbers
<1> QED
    BY <1>2, NumberingSolved, Zenon

(* The whole framework is a part of itself.                                  *)
LEMMA StableInWhole ==
    ASSUME NEW D, NEW att \in [D -> SUBSET D]
    PROVE  StableIn(att, D) = StableExtensions(att)
BY DEF StableIn, StableExtensions, Stable

(* What an extension e of the part C of A leaves of the other arguments.     *)
Left(att, A, C, e) == A \ (C \cup Victims(att, e))

(* A stable extension of A is one of a source C and one of what that leaves. *)
Splits(att, A, C) ==
    /\ \A S \in SUBSET A :
            S \in StableIn(att, A) <=> /\ S \cap C \in StableIn(att, C)
                                       /\ S \ C \in StableIn(att, Left(att, A, C, S \cap C))
    /\ \A e \in StableIn(att, C) : \A T \in StableIn(att, Left(att, A, C, e)) :
            /\ e \cup T \in StableIn(att, A) /\ (e \cup T) \cap C = e /\ (e \cup T) \ C = T

(* What the recursion of compute_extensions and count_extensions rests on:  *)
(* no argument of A outside C attacks one inside.                           *)
THEOREM SourceSplits ==
    ASSUME NEW D, NEW att \in [D -> SUBSET D], NEW A \in SUBSET D, NEW C \in SUBSET A,
           \A a \in A, b \in C : b \in att[a] => a \in C
    PROVE  Splits(att, A, C)
<1>1. ASSUME NEW S \in SUBSET A
      PROVE  S \in StableIn(att, A) <=> /\ S \cap C \in StableIn(att, C)
                                        /\ S \ C \in StableIn(att, Left(att, A, C, S \cap C))
    <2> DEFINE e == S \cap C
               L == Left(att, A, C, e)
               T == S \ C
    <2>1. \A b \in A : b \in L <=> b \notin C /\ \A c \in e : b \notin att[c]
        BY DEF Left, Victims, SetAttacksArg
    <2>2. \A a \in C : (\A b \in S : a \notin att[b]) <=> \A b \in e : a \notin att[b]
        OBVIOUS
    <2>3. L \subseteq A
        BY DEF Left
    <2> HIDE DEF L
    <2>4. \A a \in L : (\A b \in S : a \notin att[b]) <=> \A b \in T : a \notin att[b]
        BY <2>1, <2>3
    <2>5. ASSUME S \in StableIn(att, A)
          PROVE  e \in StableIn(att, C) /\ T \in StableIn(att, L)
        <3>1. \A a \in A : a \in S <=> \A b \in S : a \notin att[b]
            BY <2>5 DEF StableIn
        <3>2. T \subseteq L
            BY <2>1, <3>1
        <3>3. \A a \in L : a \in T <=> a \in S
            BY <2>1, <2>3
        <3> QED
            BY <2>2, <2>3, <2>4, <3>1, <3>2, <3>3 DEF StableIn
    <2>6. ASSUME e \in StableIn(att, C), T \in StableIn(att, L)
          PROVE  S \in StableIn(att, A)
        <3>1. /\ \A a \in C : a \in e <=> \A b \in e : a \notin att[b]
              /\ \A a \in L : a \in T <=> \A b \in T : a \notin att[b]
              /\ T \subseteq L
            BY <2>6 DEF StableIn
        <3>2. ASSUME NEW a \in A
              PROVE  a \in S <=> \A b \in S : a \notin att[b]
            <4>1. CASE a \in C
                BY <2>2, <3>1, <4>1
            <4>2. CASE a \in L
                BY <2>1, <2>4, <3>1, <4>2
            <4>3. CASE a \notin C /\ a \notin L
                BY <2>1, <3>1, <4>3
            <4> QED
                BY <4>1, <4>2, <4>3
        <3> QED
            BY <3>2 DEF StableIn
    <2> QED
        BY <2>5, <2>6 DEF L
<1>2. ASSUME NEW e \in StableIn(att, C), NEW T \in StableIn(att, Left(att, A, C, e))
      PROVE  e \cup T \in StableIn(att, A) /\ (e \cup T) \cap C = e /\ (e \cup T) \ C = T
    <2>1. e \subseteq C /\ T \subseteq A /\ T \cap C = {}
        BY DEF StableIn, Left
    <2>2. (e \cup T) \cap C = e /\ (e \cup T) \ C = T /\ e \cup T \in SUBSET A
        BY <2>1
    <2> QED
        BY <1>1, <2>2
<1> QED
    BY <1>1, <1>2 DEF Splits

-------------------------------------------------------------------------------
(* Lists that hold each member of a set once.                                *)

Once(list) == \A x, y \in DOMAIN list : list[x] = list[y] => x = y

Listed(list, set) == list \in Seq(set) /\ Members(list) = set /\ Once(list)

LEMMA ListedSize ==
    ASSUME NEW set, NEW list, Listed(list, set)
    PROVE  IsFiniteSet(set) /\ Len(list) = Cardinality(set) /\ Len(list) \in Nat
<1>1. Len(list) \in Nat /\ DOMAIN list = 1 .. Len(list)
    BY DEF Listed
<1>2. list \in Bijection(1 .. Len(list), set)
    <2>1. list \in [1 .. Len(list) -> set]
        BY <1>1 DEF Listed
    <2>2. \A y \in set : \E x \in 1 .. Len(list) : list[x] = y
        BY <1>1 DEF Listed, Members
    <2>3. \A x, y \in 1 .. Len(list) : list[x] = list[y] => x = y
        BY <1>1 DEF Listed, Once
    <2> QED
        BY <2>1, <2>2, <2>3 DEF Bijection, Injection, Surjection, IsInjective
<1>3. IsFiniteSet(1 .. Len(list)) /\ Cardinality(1 .. Len(list)) = Len(list)
    <2>1. \A k \in Nat : IsFiniteSet(1 .. k) /\ Cardinality(1 .. k) = k
        BY FS_Interval
    <2> QED
        BY <1>1, <2>1
<1> QED
    BY <1>1, <1>2, <1>3, FS_Bijection DEF ExistsBijection

(* Whatever the order is in which a list has the members of a set.           *)
LEMMA ListingOnce ==
    ASSUME NEW set, IsFiniteSet(set), NEW list \in Listings(set)
    PROVE  Listed(list, set)
<1> DEFINE K == Cardinality(set)
<1>1. K \in Nat /\ IsFiniteSet(1 .. K) /\ Cardinality(1 .. K) = K
    BY FS_CardinalityType, FS_Interval
<1>2. list \in [1 .. K -> set] /\ \A e \in set : \E k \in 1 .. K : list[k] = e
    BY DEF Listings
<1> HIDE DEF K
<1>3. list \in Surjection(1 .. K, set)
    BY <1>2 DEF Surjection
<1>4. list \in Injection(1 .. K, set)
    BY <1>1, <1>3, FS_Surjection DEF K
<1>5. DOMAIN list = 1 .. K
    BY <1>2
<1>6. Once(list)
    BY <1>4, <1>5 DEF Once, Injection, IsInjective
<1>7. Members(list) = set
    BY <1>2, <1>5 DEF Members
<1>8. list \in Seq(set)
    BY <1>1, <1>2
<1> QED
    BY <1>6, <1>7, <1>8 DEF Listed

(* restore_indices on a list of a projection.                                *)
Mapped(list, m) == [k \in DOMAIN list |-> MapIndices(list[k], m)]

LEMMA ListedMapped ==
    ASSUME NEW E, NEW A, NEW m, Numbering(m, E, A), NEW F \in SUBSET SUBSET E,
           NEW list, Listed(list, F)
    PROVE  Listed(Mapped(list, m), {MapIndices(e, m) : e \in F})
<1> DEFINE new == [k \in DOMAIN list |-> MapIndices(list[k], m)]
           image == {MapIndices(e, m) : e \in F}
<1>1. /\ Len(list) \in Nat /\ DOMAIN list = 1 .. Len(list)
      /\ \A k \in DOMAIN list : list[k] \in F
    BY DEF Listed
<1>2. \A S, T \in F : MapIndices(S, m) = MapIndices(T, m) => S = T
    BY Numbered
<1>3. \A k \in DOMAIN list : new[k] = MapIndices(list[k], m) /\ new[k] \in image
    BY <1>1
<1>4. DOMAIN new = DOMAIN list
    OBVIOUS
<1>5. Once(new)
    BY <1>1, <1>2, <1>3, <1>4 DEF Once, Listed
<1>6. \A e \in F : \E k \in DOMAIN list : list[k] = e
    BY DEF Listed, Members
<1>7. Members(new) = image
    BY <1>3, <1>4, <1>6 DEF Members
<1>8. new \in [1 .. Len(list) -> image]
    BY <1>1, <1>3
<1>9. new \in Seq(image)
    BY <1>1, <1>8
<1> QED
    BY <1>5, <1>7, <1>9 DEF Listed, Mapped

-------------------------------------------------------------------------------
(* What the routines list for the framework of a component.                  *)

(* The reverse search from one argument to the next.                         *)
LEMMA ReachedRounds ==
    ASSUME NEW att
    PROVE  /\ ReachedSets(att)[0] = {{}}
           /\ \A m \in Nat : ReachedSets(att)[m+1] =
                UNION {Successors(ConflictFramework(att), X, m) : X \in ReachedSets(att)[m]}
<1> DEFINE cf == ConflictFramework(att)
           S == SUBSET SUBSET Nat
           g == [m \in Nat |-> [R \in S |-> UNION {Successors(cf, X, m) : X \in R}]]
           w == CHOOSE f : f = [m \in Nat |->
                    IF m = 0 THEN {{}} ELSE UNION {Successors(cf, X, m-1) : X \in f[m-1]}]
<1>1. ReachedSets(att) = w
    BY DEF ReachedSets
<1> HIDE DEF cf
<1>2. g \in [Nat -> [S -> S]] /\ {{}} \in S
    <2>1. \A m \in Nat : \A X \in SUBSET Nat : Successors(cf, X, m) \in SUBSET SUBSET Nat
        BY DEF Successors, Child
    <2>2. ASSUME NEW m \in Nat, NEW R \in SUBSET SUBSET Nat
          PROVE  UNION {Successors(cf, X, m) : X \in R} \in SUBSET SUBSET Nat
        <3> DEFINE T == {Successors(cf, X, m) : X \in R}
        <3>1. \A X \in R : X \in SUBSET Nat
            OBVIOUS
        <3>2. \A t \in T : t \in SUBSET SUBSET Nat
            BY <2>1, <3>1
        <3> HIDE DEF T
        <3>3. UNION T \in SUBSET SUBSET Nat
            BY <3>2
        <3> QED
            BY <3>3 DEF T
    <2> QED
        BY <2>2
<1>3. \A m \in Nat : \A R \in S : g[m][R] = UNION {Successors(cf, X, m) : X \in R}
    OBVIOUS
<1> DEFINE first == {{}}
<1> HIDE DEF g, S, first
<1>4. PICK f : RoundsFrom(S, first, g, f)
    BY <1>2, NumberedRounds DEF first
<1>5. /\ f \in [Nat -> S] /\ f[0] = first
      /\ \A m \in Nat : f[m+1] = UNION {Successors(cf, X, m) : X \in f[m]}
    BY <1>3, <1>4 DEF RoundsFrom
<1> DEFINE Later(r, m) == UNION {Successors(cf, X, m-1) : X \in r[m-1]}
<1>6. f = [m \in Nat |-> IF m = 0 THEN first ELSE Later(f, m)]
    <2>1. ASSUME NEW m \in Nat
          PROVE  f[m] = IF m = 0 THEN first ELSE Later(f, m)
        <3>1. CASE m = 0
            BY <1>5, <3>1
        <3>2. CASE m # 0
            <4>1. m-1 \in Nat /\ m-1+1 = m
                BY <3>2
            <4>2. f[m-1+1] = UNION {Successors(cf, X, m-1) : X \in f[m-1]}
                BY <1>5, <4>1
            <4> QED
                BY <3>2, <4>1, <4>2
        <3> QED
            BY <3>1, <3>2
    <2> QED
        BY <1>5, <2>1
<1>7. w = [m \in Nat |-> IF m = 0 THEN first ELSE Later(w, m)]
    BY <1>6 DEF first
<1> HIDE DEF w
<1>8. w[0] = {{}}
    BY <1>7 DEF first
<1>9. ASSUME NEW m \in Nat
      PROVE  w[m+1] = UNION {Successors(cf, X, m) : X \in w[m]}
    <2>1. m+1 \in Nat /\ m+1 # 0 /\ m+1-1 = m
        OBVIOUS
    <2>2. w[m+1] = Later(w, m+1)
        BY <1>7, <2>1
    <2> QED
        BY <2>1, <2>2
<1> QED
    BY <1>1, <1>8, <1>9 DEF cf

(* What mis lists is stable.  It lists every stable extension if no argument *)
(* follows a self-attacker.                                                  *)
LEMMA MisListed ==
    ASSUME NEW size \in Nat, NEW D, D = 0 .. size-1, NEW att \in [D -> SUBSET D]
    PROVE  /\ MisExtensions(att) \subseteq StableExtensions(att)
           /\ SelfAttackersLast(att) => StableExtensions(att) \subseteq MisExtensions(att)
<1> DEFINE cf == ConflictFramework(att)
           reached(m) == ReachedSets(att)[m]
<1>1. /\ DOMAIN att = 0 .. size-1 /\ Cardinality(DOMAIN att) = size
      /\ \A a, b \in 0 .. size-1 : b \in cf[a] <=>
            \/ a \in att[a] \/ b \in att[b] \/ b \in att[a] \/ a \in att[b]
    <2>1. 0 \in Int /\ size-1 \in Int /\ size-1 - 0 + 1 = size /\ (0 > size-1 <=> size = 0)
        OBVIOUS
    <2>2. Cardinality(0 .. size-1) = size
        BY <2>1, FS_Interval
    <2> QED
        BY <2>2 DEF ConflictFramework
<1>2. Conflicts(cf, size)
    BY <1>1 DEF Conflicts, ConflictFramework
<1>3. \A a \in 0 .. size-1 : a \in cf[a] <=> a \in att[a]
    BY <1>1
<1>4. /\ reached(0) = {{}}
      /\ \A m \in Nat : reached(m+1) = UNION {Successors(cf, X, m) : X \in reached(m)}
    BY ReachedRounds
<1>5. \A T : T \in StableExtensions(att) <=>
        T \in SUBSET (0 .. size-1) /\ \A a \in 0 .. size-1 : a \in T <=> \A b \in T : a \notin att[b]
    BY <1>1 DEF StableExtensions, Stable
<1>6. MisExtensions(att) =
        {X \in reached(size) : X \cup {b \in 0 .. size-1 : \E a \in X : b \in att[a]} = 0 .. size-1}
    BY <1>1 DEF MisExtensions, Victims, SetAttacksArg
<1> HIDE DEF cf, reached
<1>7. ASSUME NEW m \in 0 .. size-1, NEW X, Good(cf, X, m)
      PROVE  Successors(cf, X, m) =
                IF Joins(cf, X, m) THEN {X \cup {m}}
                ELSE {X} \cup {Child(cf, X, x) : x \in {b \in {m} : IsCanonical(cf, X, b)}}
    <2>1. X \in SUBSET (0 .. size-1)
        BY <1>7 DEF Good
    <2>2. X \cap cf[m] = {} <=> \A b \in X : m \notin cf[b]
        BY <1>2, <2>1 DEF Conflicts
    <2> QED
        BY <2>2 DEF Successors, Joins
<1>8. \A m \in 0 .. size : \A X \in reached(m) : Good(cf, X, m)
    <2> DEFINE Q == {m \in Nat : m <= size => \A X \in reached(m) : Good(cf, X, m)}
    <2>1. 0 \in Q
        BY <1>4 DEF Good
    <2>2. ASSUME NEW m \in Q, m+1 <= size, NEW Z \in reached(m+1)
          PROVE  Good(cf, Z, m+1)
        <3>1. m \in 0 .. size-1 /\ m <= size
            BY <2>2
        <3>2. PICK X \in reached(m) : Z \in Successors(cf, X, m)
            BY <1>4, <2>2
        <3>3. Good(cf, X, m)
            BY <3>1
        <3>4. CASE Joins(cf, X, m)
            <4>1. Good(cf, X \cup {m}, m+1)
                BY <1>2, <3>1, <3>3, <3>4, AddedGood
            <4>2. Z = X \cup {m}
                BY <1>7, <3>1, <3>2, <3>3, <3>4
            <4> QED
                BY <4>1, <4>2
        <3>5. CASE ~Joins(cf, X, m)
            <4>1. Good(cf, X, m+1)
                BY <1>2, <3>1, <3>3, <3>5, PassedGood
            <4>2. IsCanonical(cf, X, m) => Good(cf, Child(cf, X, m), m+1)
                BY <1>2, <3>1, <3>3, CanonicalChild
            <4> QED
                BY <1>7, <3>1, <3>2, <3>3, <3>5, <4>1, <4>2
        <3> QED
            BY <3>4, <3>5
    <2>3. \A m \in Q : m+1 \in Q
        BY <2>2
    <2>4. Q \in SUBSET Nat
        OBVIOUS
    <2> HIDE DEF Q
    <2>5. Q = Nat
        BY <2>1, <2>3, <2>4, EveryNumber
    <2> QED
        BY <2>5 DEF Q
<1>9. ASSUME NEW X \in MisExtensions(att)
      PROVE  X \in StableExtensions(att)
    <2>1. /\ X \in reached(size) /\ size \in 0 .. size
          /\ X \cup {b \in 0 .. size-1 : \E a \in X : b \in att[a]} = 0 .. size-1
        BY <1>6
    <2>2. X \in SUBSET (0 .. size-1) /\ \A a, b \in X : b \notin cf[a]
        BY <1>8, <2>1 DEF Good
    <2>3. \A a, b \in X : a \notin att[b]
        BY <1>1, <2>2
    <2> QED
        BY <1>5, <2>1, <2>2, <2>3
<1>10. ASSUME SelfAttackersLast(att), NEW T \in StableExtensions(att)
       PROVE  T \in MisExtensions(att)
    <2>1. T \in SUBSET (0 .. size-1) /\ \A a \in 0 .. size-1 : a \in T <=> \A b \in T : a \notin att[b]
        BY <1>5, <1>10
    <2>2. Good(cf, T, size)
        <3>1. \A a, b \in T : b \notin cf[a]
            BY <1>1, <2>1
        <3>2. \A a \in 0 .. size-1 : a \in T \/ ~Joins(cf, T, a)
            BY <1>1, <2>1 DEF Joins
        <3> QED
            BY <2>1, <3>1, <3>2 DEF Good
    <2>3. /\ \A m \in 0 .. size : Good(cf, Ancestor(cf, size, T, m), m)
          /\ Ancestor(cf, size, T, 0) = {} /\ Ancestor(cf, size, T, size) = T
          /\ \A m \in 0 .. size-1 :
                Ancestor(cf, size, T, m) = ParentSet(cf, size, Ancestor(cf, size, T, m+1), m)
        BY <1>2, <2>1, <2>2, AncestorGood, AncestorSteps
    <2> DEFINE Q == {m \in Nat : m <= size => Ancestor(cf, size, T, m) \in reached(m)}
    <2>4. 0 \in Q
        BY <1>4, <2>3
    <2>5. ASSUME NEW m \in Q, m+1 <= size
          PROVE  Ancestor(cf, size, T, m+1) \in reached(m+1)
        <3> DEFINE X == Ancestor(cf, size, T, m)
                   Z == Ancestor(cf, size, T, m+1)
        <3>1. m \in 0 .. size-1 /\ m <= size /\ m \in 0 .. size /\ m+1 \in 0 .. size /\ m \in Nat
            BY <2>5
        <3>2. X \in reached(m) /\ Good(cf, X, m) /\ Good(cf, Z, m+1) /\ ParentSet(cf, size, Z, m) = X
            BY <2>3, <3>1
        <3>3. \A a \in 0 .. m-1 : a \in cf[a] => m \in cf[m]
            BY <1>1, <1>3, <1>10, <3>1 DEF SelfAttackersLast
        <3> HIDE DEF X, Z
        <3>4. /\ Joins(cf, X, m) => Z = X \cup {m}
              /\ ~Joins(cf, X, m) => Z = X \/ (Z = Child(cf, X, m) /\ IsCanonical(cf, X, m))
            BY <1>2, <3>1, <3>2, <3>3, OnlyChildren
        <3>5. Z \in Successors(cf, X, m)
            BY <1>7, <3>1, <3>2, <3>4
        <3>6. Z \in reached(m+1)
            BY <1>4, <3>1, <3>2, <3>5
        <3> QED
            BY <3>6 DEF Z
    <2>6. \A m \in Q : m+1 \in Q
        BY <2>5
    <2>7. Q \in SUBSET Nat
        OBVIOUS
    <2> HIDE DEF Q
    <2>8. Q = Nat
        BY <2>4, <2>6, <2>7, EveryNumber
    <2>9. T \in reached(size)
        BY <2>3, <2>8 DEF Q
    <2> QED
        BY <1>6, <2>1, <2>9
<1> QED
    BY <1>9, <1>10

(* parent_mapping keeps the order of the arguments.                          *)
LEMMA ParentIncreasing ==
    ASSUME NEW mask \in SUBSET Nat, IsFiniteSet(mask),
           NEW x \in 0 .. Cardinality(mask)-1, NEW y \in 0 .. Cardinality(mask)-1, x < y
    PROVE  ParentMapping(mask)[x] < ParentMapping(mask)[y]
<1> DEFINE below(a) == {b \in mask : b < a}
           size == Cardinality(mask)
           m == ParentMapping(mask)
<1>1. /\ size \in Nat /\ m \in [0 .. size-1 -> mask] /\ m[x] # m[y]
      /\ m[x] \in mask /\ m[y] \in mask /\ x \in 0 .. size-1 /\ y \in 0 .. size-1
    BY ParentMappingRight
<1>2. \A z \in 0 .. size-1 : m[z] = CHOOSE a \in mask : Cardinality(below(a)) = z
    BY DEF ParentMapping
<1>3. \A a \in mask : IsFiniteSet(below(a)) /\ Cardinality(below(a)) \in Nat
    BY FS_Subset, FS_CardinalityType
<1>4. \A z \in 0 .. size-1 : \E a \in mask : Cardinality(below(a)) = z
    <2> TAKE z \in 0 .. size-1
    <2>1. PICK a \in mask : Cardinality({l \in mask : l <= a}) = z + 1
        BY Ranked
    <2>2. {l \in mask : l <= a} = below(a) \cup {a} /\ a \notin below(a)
        <3>1. a \in Nat /\ \A l \in mask : l \in Nat
            OBVIOUS
        <3>2. a <= a /\ ~(a < a) /\ \A l \in mask : l <= a <=> (l < a \/ l = a)
            BY <3>1
        <3> QED
            BY <3>2
    <2> HIDE DEF below
    <2>3. Cardinality(below(a) \cup {a}) = Cardinality(below(a)) + 1
        BY <1>3, <2>2, FS_AddElement
    <2> QED
        BY <1>3, <2>1, <2>2, <2>3
<1>5. Cardinality(below(m[x])) = x /\ Cardinality(below(m[y])) = y
    BY <1>1, <1>2, <1>4
<1>6. ASSUME m[y] < m[x]
      PROVE  FALSE
    <2>1. below(m[y]) \subseteq below(m[x])
        <3>1. m[x] \in Nat /\ m[y] \in Nat /\ \A b \in mask : b \in Nat
            BY <1>1
        <3>2. \A b \in mask : b < m[y] => b < m[x]
            <4> DEFINE u == m[x]
                       v == m[y]
            <4>1. u \in Nat /\ v \in Nat /\ v < u
                BY <1>6, <3>1
            <4> HIDE DEF u, v
            <4>2. \A b \in mask : b < v => b < u
                BY <3>1, <4>1
            <4> QED
                BY <4>2 DEF u, v
        <3> HIDE DEF m
        <3> QED
            BY <3>2
    <2>2. Cardinality(below(m[y])) <= Cardinality(below(m[x]))
        BY <1>1, <1>3, <2>1, FS_Subset
    <2> QED
        BY <1>1, <1>5, <2>2
<1>7. m[x] \in Nat /\ m[y] \in Nat
    BY <1>1
<1> HIDE DEF m
<1> QED
    BY <1>1, <1>6, <1>7 DEF m

(* The operators of the modules that Solvers instantiates.                   *)
LEMMA SolverOperators ==
    /\ \A att : Implications!StableExtensions(att) = StableExtensions(att)
    /\ \A att, S : Implications!IsConflictFree(att, S) <=> IsConflictFree(att, S)
BY DEF Implications!StableExtensions, Implications!Stable, StableExtensions, Stable,
       Implications!IsConflictFree, Implications!ArgAttacksSet, IsConflictFree, ArgAttacksSet

(* What a routine lists for a part of a framework, in the indices of the     *)
(* whole, and the first closure of Nourine's algorithm there.                *)
PartExtensions(r, att, C) ==
    {MapIndices(e, ParentMapping(C)) : e \in Extensions(r, Renamed(att, ParentMapping(C)))}

ClosureOf(att, C) ==
    MapIndices(Implications!FirstSet(Renamed(att, ParentMapping(C))), ParentMapping(C))

(* What a routine lists for a framework whose arguments are 0 .. size-1.     *)
LEMMA ExtensionsRight ==
    ASSUME NEW size \in Nat, size # 0, NEW r,
           NEW att \in [0 .. size-1 -> SUBSET (0 .. size-1)]
    PROVE  /\ \A e \in Extensions(r, att) :
                /\ e \in SUBSET (0 .. size-1) /\ e # {} /\ IsConflictFree(att, e)
                /\ \/ e \in StableExtensions(att)
                   \/ r = "nourine" /\ e = Implications!FirstSet(att)
           /\ \/ StableExtensions(att) \subseteq Extensions(r, att)
              \/ r = "mis" /\ ~SelfAttackersLast(att)
           /\ r \notin {"mis", "nourine"} => Extensions(r, att) = StableExtensions(att)
<1> DEFINE D == 0 .. size-1
<1>0. D # {} /\ DOMAIN att = D
    <2>1. 0 \in D
        OBVIOUS
    <2> QED
        BY <2>1
<1>1. \A e \in StableExtensions(att) : e \in SUBSET D /\ e # {} /\ IsConflictFree(att, e)
    BY <1>0 DEF StableExtensions, Stable, IsConflictFree, ArgAttacksSet
<1>2. CASE r = "mis"
    BY <1>1, <1>2, MisListed DEF Extensions
<1>3. CASE r = "nourine"
    <2>1. Extensions(r, att) = Implications!WalkedSets(att) \ {{}}
        BY <1>3 DEF Extensions, NourineExtensions
    <2>2. \A e : e \in Implications!WalkedSets(att) <=>
            \/ e \in StableExtensions(att)
            \/ e = Implications!FirstSet(att) /\ IsConflictFree(att, e)
        BY SolverOperators DEF Implications!WalkedSets
    <2>3. Implications!FirstSet(att) \in SUBSET D
        BY <1>0 DEF Implications!FirstSet
    <2> QED
        BY <1>1, <1>3, <2>1, <2>2, <2>3
<1>4. CASE r \notin {"mis", "nourine"}
    BY <1>1, <1>4 DEF Extensions
<1> QED
    BY <1>2, <1>3, <1>4

(* What a routine lists for a part holds the stable extensions of the part   *)
(* and nothing else, but for the exceptions of mis and Nourine's algorithm.  *)
LEMMA PartRight ==
    ASSUME NEW D \in SUBSET Nat, IsFiniteSet(D), NEW att \in [D -> SUBSET D],
           NEW C \in SUBSET D, C # {}, NEW r
    PROVE  /\ \A S \in PartExtensions(r, att, C) :
                /\ S \in SUBSET C /\ S # {} /\ \A a, b \in S : b \notin att[a]
                /\ S \in StableIn(att, C) \/ (r = "nourine" /\ S = ClosureOf(att, C))
           /\ \/ StableIn(att, C) \subseteq PartExtensions(r, att, C)
              \/ r = "mis" /\ ~SelfAttackersLast(att)
           /\ r \notin {"mis", "nourine"} => PartExtensions(r, att, C) = StableIn(att, C)
<1> DEFINE m == ParentMapping(C)
           ren == Renamed(att, m)
           size == Cardinality(C)
           E == 0 .. size-1
<1>1. C \in SUBSET Nat /\ IsFiniteSet(C)
    BY FS_Subset
<1>2. size \in Nat /\ size # 0 /\ E # {}
    <2>1. size \in Nat /\ size # 0
        BY <1>1, FS_CardinalityType, FS_EmptySet
    <2>2. 0 \in E
        BY <2>1
    <2> QED
        BY <2>1, <2>2
<1>3. Numbering(m, E, C) /\ DOMAIN m = E
    BY <1>1, ParentMappingRight DEF Numbering
<1>4. /\ ren \in [E -> SUBSET E]
      /\ \A x, y \in E : y \in ren[x] <=> m[y] \in att[m[x]]
      /\ \A x \in E : m[x] \in C
    BY <1>3 DEF Renamed, Numbering
<1>5. /\ {MapIndices(e, m) : e \in StableExtensions(ren)} = StableIn(att, C)
      /\ StableExtensions(ren) = {e \in SUBSET E : MapIndices(e, m) \in StableIn(att, C)}
    BY <1>3, ProjectionSolved DEF Solved
<1>6. \A x, y \in E : x < y => m[x] < m[y]
    BY <1>1, ParentIncreasing
<1>7. SelfAttackersLast(att) => SelfAttackersLast(ren)
    <2> SUFFICES ASSUME SelfAttackersLast(att), NEW x \in E, NEW y \in E, x < y, x \in ren[x]
                 PROVE  y \in ren[y]
        BY <1>4 DEF SelfAttackersLast
    <2>1. m[x] \in D /\ m[y] \in D /\ m[x] < m[y] /\ m[x] \in att[m[x]]
        BY <1>4, <1>6
    <2> QED
        BY <1>4, <2>1 DEF SelfAttackersLast
<1>8. /\ \A e \in Extensions(r, ren) :
            /\ e \in SUBSET E /\ e # {} /\ IsConflictFree(ren, e)
            /\ e \in StableExtensions(ren) \/ (r = "nourine" /\ e = Implications!FirstSet(ren))
      /\ \/ StableExtensions(ren) \subseteq Extensions(r, ren)
         \/ r = "mis" /\ ~SelfAttackersLast(ren)
      /\ r \notin {"mis", "nourine"} => Extensions(r, ren) = StableExtensions(ren)
    <2>1. ren \in [E -> SUBSET E] /\ size \in Nat /\ size # 0
        BY <1>2, <1>4
    <2> HIDE DEF ren, size
    <2> QED
        BY <2>1, ExtensionsRight
<1>9. ClosureOf(att, C) = MapIndices(Implications!FirstSet(ren), m)
    BY DEF ClosureOf
<1>10. PartExtensions(r, att, C) = {MapIndices(e, m) : e \in Extensions(r, ren)}
    BY DEF PartExtensions
<1> HIDE DEF ren, m, E, size
<1>11. ASSUME NEW S \in PartExtensions(r, att, C)
       PROVE  /\ S \in SUBSET C /\ S # {} /\ \A a, b \in S : b \notin att[a]
              /\ S \in StableIn(att, C) \/ (r = "nourine" /\ S = ClosureOf(att, C))
    <2>1. PICK e \in Extensions(r, ren) : S = MapIndices(e, m)
        BY <1>10
    <2>2. S = {m[x] : x \in e}
        BY <2>1 DEF MapIndices
    <2>3. e \in SUBSET E /\ e # {} /\ \A x, y \in e : y \notin ren[x]
        BY <1>8 DEF IsConflictFree, ArgAttacksSet
    <2>4. S \in SUBSET C /\ S # {}
        BY <1>4, <2>2, <2>3
    <2>5. \A a, b \in S : b \notin att[a]
        BY <1>4, <2>2, <2>3
    <2> QED
        BY <1>5, <1>8, <1>9, <2>1, <2>4, <2>5
<1>12. StableIn(att, C) \subseteq PartExtensions(r, att, C) \/ (r = "mis" /\ ~SelfAttackersLast(att))
    BY <1>5, <1>7, <1>8, <1>10
<1>13. r \notin {"mis", "nourine"} => PartExtensions(r, att, C) = StableIn(att, C)
    BY <1>5, <1>8, <1>10
<1> QED
    BY <1>11, <1>12, <1>13

(* The routine's list for a projection, with the indices of the whole.       *)
LEMMA SolvedListed ==
    ASSUME NEW D \in SUBSET Nat, IsFiniteSet(D), NEW att \in [D -> SUBSET D],
           NEW C \in SUBSET D, C # {}, NEW r, NEW m, m = ParentMapping(C),
           NEW list, list \in Listings(Extensions(r, Renamed(att, m)))
    PROVE  Listed(Mapped(list, m), PartExtensions(r, att, C)) /\ list \in Seq(SUBSET Nat)
<1> DEFINE F == Extensions(r, Renamed(att, m))
           E == 0 .. Cardinality(C)-1
<1>1. C \in SUBSET Nat /\ IsFiniteSet(C) /\ Cardinality(C) \in Nat /\ Cardinality(C) # 0
    BY FS_Subset, FS_CardinalityType, FS_EmptySet
<1>2. Numbering(m, E, C) /\ DOMAIN m = E /\ E # {} /\ IsFiniteSet(E)
    <2>1. 0 \in E
        BY <1>1
    <2>2. IsFiniteSet(E)
        BY <1>1, FS_Interval
    <2>3. Numbering(m, E, C)
        BY <1>1, ParentMappingRight DEF Numbering
    <2>4. DOMAIN m = E
        BY <2>3 DEF Numbering
    <2> QED
        BY <2>1, <2>2, <2>3, <2>4
<1>3. F \in SUBSET SUBSET E /\ {MapIndices(e, m) : e \in F} = PartExtensions(r, att, C)
    <2>1. Renamed(att, m) \in [E -> SUBSET E]
        BY <1>2 DEF Renamed
    <2> DEFINE ren == Renamed(att, m)
    <2> HIDE DEF ren
    <2>2. \A e \in Extensions(r, ren) : e \in SUBSET E
        <3> DEFINE size == Cardinality(C)
        <3>1. size \in Nat /\ size # 0 /\ ren \in [0 .. size-1 -> SUBSET (0 .. size-1)]
            BY <1>1, <1>2, <2>1 DEF ren
        <3> HIDE DEF size
        <3>2. \A e \in Extensions(r, ren) : e \in SUBSET (0 .. size-1)
            BY <3>1, ExtensionsRight
        <3> QED
            BY <3>2 DEF size
    <2> QED
        BY <2>2 DEF PartExtensions, ren
<1>4. IsFiniteSet(F)
    BY <1>2, <1>3, FS_SUBSET, FS_Subset
<1>5. Listed(list, F)
    BY <1>4, ListingOnce
<1>6. E \subseteq Nat
    BY <1>1
<1> DEFINE H == SUBSET Nat
<1>7. F \subseteq H
    BY <1>3, <1>6
<1> HIDE DEF F, E, H
<1>8. list \in Seq(H)
    BY <1>5, <1>7 DEF Listed
<1> QED
    BY <1>2, <1>3, <1>5, <1>8, ListedMapped DEF H

-------------------------------------------------------------------------------
(* What the recursion over source components hands back.                     *)

(* A source component that the search in A finds.                            *)
From(att, A, C) == Source(att, A, C) /\ C = SourceComponent(att, A)

(* In a strongly connected part the search finds all of it.                  *)
LEMMA SourceItself ==
    ASSUME NEW D \in SUBSET Nat, IsFiniteSet(D), NEW att \in [D -> SUBSET D],
           NEW C \in SUBSET D, C # {}, \A a \in C : Visited(Forward(att, C), a) = C
    PROVE  SourceComponent(att, C) = C
<1> DEFINE X == SourceComponent(att, C)
<1>1. X # {} /\ X \subseteq C /\ \A a \in C, b \in X : b \in att[a] => a \in X
    BY SourceFound DEF Source
<1> HIDE DEF X
<1>2. ASSUME NEW c \in C \ X
      PROVE  FALSE
    <2>1. /\ Forward(att, C) \in [D -> SUBSET D]
          /\ \A a \in D : Forward(att, C)[a] = att[a] \cap C
        BY SearchesWithin
    <2>2. \A a \in C \ X : Forward(att, C)[a] \subseteq C \ X
        BY <1>1, <2>1
    <2>3. C \ X \in SUBSET D /\ c \in D
        OBVIOUS
    <2>4. \A S \in SUBSET D :
            c \in S /\ (\A x \in S : Forward(att, C)[x] \subseteq S)
                => Visited(Forward(att, C), c) \subseteq S
        BY <2>1, <2>3, VisitedRight
    <2>5. Visited(Forward(att, C), c) \subseteq C \ X
        BY <2>2, <2>3, <2>4
    <2> QED
        BY <1>1, <2>5
<1> QED
    BY <1>1, <1>2 DEF X

(* The sets that a call for a set of arguments hands back: unions of a set   *)
(* that was listed for its component and one that the call for what this     *)
(* leaves hands back, at most k calls deep.                                  *)
Unions(r, att, F, A) ==
    {S \in SUBSET A :
        /\ S \cap SourceComponent(att, A) \in PartExtensions(r, att, SourceComponent(att, A))
        /\ S \ SourceComponent(att, A)
             \in F[Left(att, A, SourceComponent(att, A), S \cap SourceComponent(att, A))]}

CallsBy(r, att, D, f) ==
    /\ f \in [Nat -> [SUBSET D -> SUBSET SUBSET D]]
    /\ \A A \in SUBSET D : f[0][A] = {{}}
    /\ \A k \in Nat : \A A \in SUBSET D :
         f[k+1][A] = IF A = {} THEN {{}} ELSE Unions(r, att, f[k], A)

CallsTo(r, att) == CHOOSE f : CallsBy(r, att, DOMAIN att, f)

(* No call is deeper than there are arguments.                               *)
Answers(r, att, A) == CallsTo(r, att)[Cardinality(DOMAIN att)][A]

LEMMA CallRounds ==
    ASSUME NEW D, NEW att \in [D -> SUBSET D], NEW r
    PROVE  CallsBy(r, att, D, CallsTo(r, att))
<1> DEFINE S == [SUBSET D -> SUBSET SUBSET D]
           first == [A \in SUBSET D |-> {{}}]
           Next1(F) == [A \in SUBSET D |-> IF A = {} THEN {{}} ELSE Unions(r, att, F, A)]
           g == [k \in Nat |-> [F \in S |-> Next1(F)]]
<1>1. first \in S /\ \A F : Next1(F) \in S
    <2>1. \A F : \A A \in SUBSET D : Unions(r, att, F, A) \in SUBSET SUBSET D
        BY DEF Unions
    <2> QED
        BY <2>1
<1>2. \A F : \A A \in SUBSET D : Next1(F)[A] = IF A = {} THEN {{}} ELSE Unions(r, att, F, A)
    OBVIOUS
<1>3. \A A \in SUBSET D : first[A] = {{}}
    OBVIOUS
<1> HIDE DEF S, first, Next1
<1>4. g \in [Nat -> [S -> S]] /\ \A k \in Nat : \A F \in S : g[k][F] = Next1(F)
    BY <1>1
<1> HIDE DEF g
<1>5. PICK f : RoundsFrom(S, first, g, f)
    BY <1>1, <1>4, NumberedRounds
<1>6. f \in [Nat -> S] /\ f[0] = first /\ \A k \in Nat : f[k+1] = Next1(f[k])
    BY <1>4, <1>5 DEF RoundsFrom
<1>7. CallsBy(r, att, D, f)
    <2>1. \A A \in SUBSET D : f[0][A] = {{}}
        BY <1>3, <1>6
    <2>2. \A k \in Nat : \A A \in SUBSET D :
            f[k+1][A] = IF A = {} THEN {{}} ELSE Unions(r, att, f[k], A)
        <3>1. \A k \in Nat : f[k+1] = Next1(f[k])
            BY <1>6
        <3> QED
            BY <1>2, <3>1
    <2>3. f \in [Nat -> [SUBSET D -> SUBSET SUBSET D]]
        BY <1>6 DEF S
    <2> QED
        BY <2>1, <2>2, <2>3 DEF CallsBy
<1> QED
    BY <1>7 DEF CallsTo

LEMMA AnswersRight ==
    ASSUME NEW D \in SUBSET Nat, IsFiniteSet(D), NEW att \in [D -> SUBSET D], NEW r
    PROVE  /\ Answers(r, att, {}) = {{}}
           /\ \A A \in SUBSET D : Answers(r, att, A) \subseteq SUBSET A
           /\ \A A \in SUBSET D : A # {} => {} \notin Answers(r, att, A)
           /\ \A A \in SUBSET D : \A C : \A S \in SUBSET A :
                A # {} /\ From(att, A, C) =>
                    (S \in Answers(r, att, A) <=>
                        /\ S \cap C \in PartExtensions(r, att, C)
                        /\ S \ C \in Answers(r, att, Left(att, A, C, S \cap C)))
<1> DEFINE f == CallsTo(r, att)
           size == Cardinality(D)
<1>1. CallsBy(r, att, D, f)
    BY CallRounds
<1>2. size \in Nat /\ DOMAIN att = D
    BY FS_CardinalityType
<1>3. \A A : Answers(r, att, A) = f[size][A]
    BY <1>2 DEF Answers
<1> HIDE DEF f
<1>4. ASSUME NEW A \in SUBSET D, A # {}
      PROVE  /\ SourceComponent(att, A) # {} /\ SourceComponent(att, A) \subseteq A
             /\ \A e : /\ Left(att, A, SourceComponent(att, A), e) \in SUBSET D
                       /\ Cardinality(Left(att, A, SourceComponent(att, A), e)) < Cardinality(A)
                       /\ Cardinality(Left(att, A, SourceComponent(att, A), e)) \in Nat
    <2>1. SourceComponent(att, A) # {} /\ SourceComponent(att, A) \subseteq A
        BY <1>4, SourceFound DEF Source
    <2>2. ASSUME NEW e
          PROVE  /\ Left(att, A, SourceComponent(att, A), e) \in SUBSET D
                 /\ Cardinality(Left(att, A, SourceComponent(att, A), e)) < Cardinality(A)
                 /\ Cardinality(Left(att, A, SourceComponent(att, A), e)) \in Nat
        <3> DEFINE L == Left(att, A, SourceComponent(att, A), e)
        <3>1. L \subseteq A /\ L # A
            BY <2>1 DEF Left
        <3> HIDE DEF L
        <3>2. IsFiniteSet(A) /\ IsFiniteSet(L)
            BY <3>1, FS_Subset
        <3>3. Cardinality(L) <= Cardinality(A) /\ Cardinality(L) # Cardinality(A)
            BY <3>1, <3>2, FS_Subset
        <3>4. Cardinality(L) \in Nat /\ Cardinality(A) \in Nat
            BY <3>2, FS_CardinalityType
        <3>5. Cardinality(L) < Cardinality(A)
            BY <3>3, <3>4
        <3> QED
            BY <3>1, <3>4, <3>5 DEF L
    <2> QED
        BY <2>1, <2>2, Zenon
<1>5. \A k \in Nat : \A A \in SUBSET D : Cardinality(A) <= k => f[k+1][A] = f[k][A]
    <2> DEFINE Q == {k \in Nat : \A A \in SUBSET D : Cardinality(A) <= k => f[k+1][A] = f[k][A]}
    <2>1. 0 \in Q
        <3> SUFFICES ASSUME NEW A \in SUBSET D, Cardinality(A) <= 0
                     PROVE  f[0+1][A] = f[0][A]
            OBVIOUS
        <3>1. A = {}
            <4>1. IsFiniteSet(A)
                BY FS_Subset
            <4>2. Cardinality(A) \in Nat
                BY <4>1, FS_CardinalityType
            <4>3. Cardinality(A) = 0
                BY <4>2
            <4> QED
                BY <4>1, <4>3, FS_EmptySet
        <3>2. 0 \in Nat /\ {} \in SUBSET D
            OBVIOUS
        <3>3. f[0][{}] = {{}} /\ f[0+1][{}] = {{}}
            BY <1>1, <3>2 DEF CallsBy
        <3> QED
            BY <3>1, <3>3
    <2>2. ASSUME NEW k \in Q, NEW A \in SUBSET D, Cardinality(A) <= k+1
          PROVE  f[k+1+1][A] = f[k+1][A]
        <3>1. k \in Nat /\ k+1 \in Nat /\ \A L \in SUBSET D : Cardinality(L) <= k => f[k+1][L] = f[k][L]
            OBVIOUS
        <3>2. /\ f[k+1+1][A] = IF A = {} THEN {{}} ELSE Unions(r, att, f[k+1], A)
              /\ f[k+1][A] = IF A = {} THEN {{}} ELSE Unions(r, att, f[k], A)
            BY <1>1, <3>1 DEF CallsBy
        <3>3. CASE A = {}
            BY <3>2, <3>3
        <3>4. CASE A # {}
            <4> DEFINE C == SourceComponent(att, A)
            <4>1. Cardinality(A) \in Nat
                BY FS_Subset, FS_CardinalityType
            <4>2. \A e : f[k+1][Left(att, A, C, e)] = f[k][Left(att, A, C, e)]
                <5> TAKE e
                <5> DEFINE L == Left(att, A, C, e)
                <5>1. L \in SUBSET D /\ Cardinality(L) < Cardinality(A) /\ Cardinality(L) \in Nat
                    BY <1>4, <3>4
                <5> HIDE DEF L
                <5>2. Cardinality(L) <= k
                    BY <2>2, <3>1, <4>1, <5>1
                <5>3. f[k+1][L] = f[k][L]
                    BY <3>1, <5>1, <5>2
                <5> QED
                    BY <5>3 DEF L
            <4>3. Unions(r, att, f[k+1], A) = Unions(r, att, f[k], A)
                BY <4>2 DEF Unions
            <4> QED
                BY <3>2, <3>4, <4>3
        <3> QED
            BY <3>3, <3>4
    <2>3. ASSUME NEW k \in Q
          PROVE  k+1 \in Q
        <3>1. k+1 \in Nat
            OBVIOUS
        <3>2. \A A \in SUBSET D : Cardinality(A) <= k+1 => f[k+1+1][A] = f[k+1][A]
            BY <2>2
        <3> QED
            BY <3>1, <3>2
    <2>4. Q \in SUBSET Nat
        OBVIOUS
    <2> HIDE DEF Q
    <2>5. Q = Nat
        BY <2>1, <2>3, <2>4, EveryNumber
    <2> QED
        BY <2>5 DEF Q
<1>6. Answers(r, att, {}) = {{}}
    <2>1. size = 0 \/ (size-1 \in Nat /\ size-1+1 = size)
        BY <1>2
    <2>2. {} \in SUBSET D
        OBVIOUS
    <2>3. f[size][{}] = {{}}
        <3>1. CASE size = 0
            BY <1>1, <2>2, <3>1 DEF CallsBy
        <3>2. CASE size-1 \in Nat /\ size-1+1 = size
            <4>1. f[size-1+1][{}] = {{}}
                BY <1>1, <2>2, <3>2 DEF CallsBy
            <4> QED
                BY <3>2, <4>1
        <3> QED
            BY <2>1, <3>1, <3>2
    <2> QED
        BY <1>3, <2>3
<1>7. ASSUME NEW A \in SUBSET D, A # {}
      PROVE  Answers(r, att, A) = Unions(r, att, f[size], A)
    <2>1. Cardinality(A) <= size /\ Cardinality(A) \in Nat /\ Cardinality(A) # 0
        BY <1>7, FS_Subset, FS_CardinalityType, FS_EmptySet
    <2>2. size-1 \in Nat /\ size-1+1 = size
        BY <1>2, <2>1
    <2>3. f[size-1+1][A] = Unions(r, att, f[size-1], A)
        BY <1>1, <1>7, <2>2 DEF CallsBy
    <2> DEFINE C == SourceComponent(att, A)
    <2>4. \A e : f[size][Left(att, A, C, e)] = f[size-1][Left(att, A, C, e)]
        <3> TAKE e
        <3> DEFINE L == Left(att, A, C, e)
        <3>1. L \in SUBSET D /\ Cardinality(L) < Cardinality(A) /\ Cardinality(L) \in Nat
            BY <1>4, <1>7
        <3> HIDE DEF L
        <3>2. Cardinality(L) <= size-1
            BY <1>2, <2>1, <3>1
        <3>3. f[size-1+1][L] = f[size-1][L]
            BY <1>5, <2>2, <3>1, <3>2
        <3>4. f[size][L] = f[size-1][L]
            BY <2>2, <3>3
        <3> QED
            BY <3>4 DEF L
    <2>5. Unions(r, att, f[size], A) = Unions(r, att, f[size-1], A)
        BY <2>4 DEF Unions
    <2>6. f[size][A] = Unions(r, att, f[size-1], A)
        BY <2>2, <2>3
    <2> QED
        BY <1>3, <2>5, <2>6
<1>8. ASSUME NEW A \in SUBSET D
      PROVE  Answers(r, att, A) \subseteq SUBSET A
    <2>1. CASE A = {}
        BY <1>6, <2>1
    <2>2. CASE A # {}
        BY <1>7, <2>2 DEF Unions
    <2> QED
        BY <2>1, <2>2
<1>9. ASSUME NEW A \in SUBSET D, NEW C, NEW S \in SUBSET A, A # {}, From(att, A, C)
      PROVE  S \in Answers(r, att, A) <=>
                /\ S \cap C \in PartExtensions(r, att, C)
                /\ S \ C \in Answers(r, att, Left(att, A, C, S \cap C))
    <2>1. C = SourceComponent(att, A)
        BY <1>9 DEF From
    <2>2. Answers(r, att, A) = Unions(r, att, f[size], A)
        BY <1>7, <1>9
    <2>3. S \in Unions(r, att, f[size], A) <=>
                /\ S \cap C \in PartExtensions(r, att, C)
                /\ S \ C \in f[size][Left(att, A, C, S \cap C)]
        BY <2>1 DEF Unions
    <2> QED
        BY <1>3, <2>2, <2>3
<1>10. ASSUME NEW A \in SUBSET D, A # {}
       PROVE  {} \notin Answers(r, att, A)
    <2> DEFINE C == SourceComponent(att, A)
    <2>1. C # {} /\ C \in SUBSET D
        BY <1>4, <1>10
    <2> HIDE DEF C
    <2>2. {} \notin PartExtensions(r, att, C)
        BY <2>1, PartRight
    <2>3. {} \cap C = {}
        OBVIOUS
    <2>4. Answers(r, att, A) = Unions(r, att, f[size], A)
        BY <1>7, <1>10
    <2>5. {} \notin Unions(r, att, f[size], A)
        BY <2>2, <2>3 DEF C, Unions
    <2> QED
        BY <2>4, <2>5
<1>11. \A A \in SUBSET D : \A C : \A S \in SUBSET A :
        A # {} /\ From(att, A, C) =>
            (S \in Answers(r, att, A) <=>
                /\ S \cap C \in PartExtensions(r, att, C)
                /\ S \ C \in Answers(r, att, Left(att, A, C, S \cap C)))
    BY <1>9
<1>12. \A A \in SUBSET D : Answers(r, att, A) \subseteq SUBSET A
    BY <1>8
<1>13. \A A \in SUBSET D : A # {} => {} \notin Answers(r, att, A)
    BY <1>10
<1> QED
    BY <1>6, <1>11, <1>12, <1>13

(* An answer for A is one of a source C and one of what that leaves.         *)
Divides(r, att, A, C) ==
    /\ \A S \in SUBSET A :
            S \in Answers(r, att, A) <=>
                /\ S \cap C \in Answers(r, att, C)
                /\ S \ C \in Answers(r, att, Left(att, A, C, S \cap C))
    /\ \A e \in Answers(r, att, C) : \A T \in Answers(r, att, Left(att, A, C, e)) :
            /\ e \cup T \in Answers(r, att, A) /\ (e \cup T) \cap C = e /\ (e \cup T) \ C = T

LEMMA SourceDivides ==
    ASSUME NEW D \in SUBSET Nat, IsFiniteSet(D), NEW att \in [D -> SUBSET D], NEW r,
           NEW A \in SUBSET D, NEW C, From(att, A, C)
    PROVE  /\ Answers(r, att, C) = PartExtensions(r, att, C)
           /\ Divides(r, att, A, C)
<1>1. /\ C # {} /\ C \in SUBSET A /\ C \in SUBSET D /\ A # {}
      /\ \A a \in C : Visited(Forward(att, C), a) = C
    BY DEF From, Source
<1>2. From(att, C, C)
    BY <1>1, SourceItself DEF From, Source
<1>3. /\ Answers(r, att, {}) = {{}}
      /\ \A X \in SUBSET D : Answers(r, att, X) \subseteq SUBSET X
    BY AnswersRight
<1>4. \A S \in SUBSET C :
        S \in Answers(r, att, C) <=>
            /\ S \cap C \in PartExtensions(r, att, C)
            /\ S \ C \in Answers(r, att, Left(att, C, C, S \cap C))
    BY <1>1, <1>2, AnswersRight
<1>5. \A S \in SUBSET A :
        S \in Answers(r, att, A) <=>
            /\ S \cap C \in PartExtensions(r, att, C)
            /\ S \ C \in Answers(r, att, Left(att, A, C, S \cap C))
    BY <1>1, AnswersRight
<1>6. Answers(r, att, C) = PartExtensions(r, att, C)
    <2>1. \A S \in SUBSET C : S \in Answers(r, att, C) <=> S \in PartExtensions(r, att, C)
        <3> TAKE S \in SUBSET C
        <3>1. S \cap C = S /\ S \ C = {} /\ Left(att, C, C, S \cap C) = {}
            BY DEF Left
        <3>2. S \in Answers(r, att, C) <=> S \in PartExtensions(r, att, C) /\ {} \in Answers(r, att, {})
            BY <1>4, <3>1
        <3> QED
            BY <1>3, <3>2
    <2>2. \A S \in Answers(r, att, C) : S \in SUBSET C
        BY <1>1, <1>3
    <2>3. \A S \in PartExtensions(r, att, C) : S \in SUBSET C
        BY <1>1, PartRight
    <2> QED
        BY <2>1, <2>2, <2>3
<1>7. ASSUME NEW e \in Answers(r, att, C), NEW T \in Answers(r, att, Left(att, A, C, e))
      PROVE  e \cup T \in Answers(r, att, A) /\ (e \cup T) \cap C = e /\ (e \cup T) \ C = T
    <2>1. Left(att, A, C, e) \in SUBSET D /\ Left(att, A, C, e) \subseteq A \ C
        BY <1>1 DEF Left
    <2>2. e \subseteq C /\ T \subseteq A /\ T \cap C = {}
        BY <1>1, <1>3, <2>1
    <2>3. (e \cup T) \cap C = e /\ (e \cup T) \ C = T /\ e \cup T \in SUBSET A
        BY <1>1, <2>2
    <2> QED
        BY <1>5, <1>6, <2>3
<1> QED
    BY <1>5, <1>6, <1>7 DEF Divides

(* Induction over the parts of a framework, the property given as a set.     *)
LEMMA PartInduction ==
    ASSUME NEW D, IsFiniteSet(D), NEW Q \in SUBSET SUBSET D,
           \A A \in SUBSET D : (\A L \in SUBSET A : L # A => L \in Q) => A \in Q
    PROVE  Q = SUBSET D
<1> SUFFICES ASSUME (SUBSET D) \ Q # {}
             PROVE  FALSE
    OBVIOUS
<1> DEFINE sizes == {Cardinality(A) : A \in (SUBSET D) \ Q}
<1>1. \A A \in SUBSET D : IsFiniteSet(A) /\ Cardinality(A) \in Nat
    BY FS_Subset, FS_CardinalityType
<1>2. sizes \in SUBSET Nat /\ sizes # {}
    BY <1>1
<1> HIDE DEF sizes
<1>3. PICK k \in sizes : \A x \in sizes : k <= x
    BY <1>2, LeastNumber
<1>4. PICK A \in (SUBSET D) \ Q : k = Cardinality(A)
    BY DEF sizes
<1>5. ASSUME NEW L \in SUBSET A, L # A, L \notin Q
      PROVE  FALSE
    <2>1. L \in (SUBSET D) \ Q /\ IsFiniteSet(A) /\ IsFiniteSet(L)
        BY <1>1, <1>5
    <2>2. Cardinality(L) <= Cardinality(A) /\ Cardinality(L) # Cardinality(A)
        BY <1>5, <2>1, FS_Subset
    <2>3. Cardinality(L) \in sizes
        BY <2>1 DEF sizes
    <2> QED
        BY <1>1, <1>3, <1>4, <2>1, <2>2, <2>3
<1>6. \A L \in SUBSET A : L # A => L \in Q
    BY <1>5
<1>7. A \in Q
    BY <1>4, <1>6
<1> QED
    BY <1>4, <1>7

(* Parts that hold their members together.                                   *)
Strong(att, C) == \A a \in C : Visited(Forward(att, C), a) = C

(* An answer attacks nothing in it.  What it neither holds nor attacks is in *)
(* a component of which it has Nourine's first closure.                      *)
Sound(r, att, A, S) ==
    /\ \A a, b \in S : b \notin att[a]
    /\ \A a \in A \ (S \cup Victims(att, S)) :
         r = "nourine" /\ \E C \in SUBSET A : a \in C /\ Strong(att, C) /\ S \cap C = ClosureOf(att, C)

(* compute_extensions: whatever the routine lists for the components, the    *)
(* unions that the recursion finds are sound in this sense.                  *)
THEOREM AnswersSound ==
    ASSUME NEW D \in SUBSET Nat, IsFiniteSet(D), NEW att \in [D -> SUBSET D], NEW r,
           NEW A \in SUBSET D, NEW S \in Answers(r, att, A)
    PROVE  Sound(r, att, A, S)
<1> DEFINE Q == {X \in SUBSET D : \A T \in Answers(r, att, X) : Sound(r, att, X, T)}
<1>1. ASSUME NEW X \in SUBSET D, \A L \in SUBSET X : L # X => L \in Q, NEW T \in Answers(r, att, X)
      PROVE  Sound(r, att, X, T)
    <2>1. CASE X = {}
        <3>1. T = {}
            BY <1>1, <2>1, AnswersRight
        <3> QED
            BY <2>1, <3>1 DEF Sound
    <2>2. CASE X # {}
        <3> DEFINE C == SourceComponent(att, X)
                   e == T \cap C
                   L == Left(att, X, C, e)
                   U == T \ C
        <3>1. From(att, X, C)
            BY <2>2, SourceFound DEF From
        <3> HIDE DEF C
        <3>2. /\ C # {} /\ C \in SUBSET X /\ C \in SUBSET D /\ Strong(att, C)
              /\ \A a \in X, b \in C : b \in att[a] => a \in C
            BY <3>1 DEF From, Source, Strong
        <3>3. T \in SUBSET X
            BY AnswersRight
        <3>4. e \in PartExtensions(r, att, C) /\ U \in Answers(r, att, L)
            BY <2>2, <3>1, <3>3, AnswersRight
        <3>5. L \in SUBSET X /\ L # X /\ \A b \in X : b \in L <=> b \notin C /\ \A c \in e : b \notin att[c]
            BY <3>2 DEF Left, Victims, SetAttacksArg
        <3>6. U \in SUBSET L
            <4>1. L \in SUBSET D
                BY <3>5
            <4> HIDE DEF L
            <4> QED
                BY <3>4, <4>1, AnswersRight
        <3>7. Sound(r, att, L, U)
            BY <1>1, <3>4, <3>5
        <3>8. /\ \A a, b \in e : b \notin att[a]
              /\ e \in StableIn(att, C) \/ (r = "nourine" /\ e = ClosureOf(att, C))
            BY <3>2, <3>4, PartRight
        <3>9. T = e \cup U /\ e \in SUBSET C
            BY <3>3
        <3> HIDE DEF e, L, U
        <3>10. \A a, b \in T : b \notin att[a]
            <4>1. \A a, b \in U : b \notin att[a]
                BY <3>7 DEF Sound
            <4>2. \A a \in e, b \in U : b \notin att[a]
                BY <3>5, <3>6
            <4>3. \A a \in U, b \in e : b \notin att[a]
                BY <3>2, <3>5, <3>6, <3>9
            <4> QED
                BY <3>8, <3>9, <4>1, <4>2, <4>3
        <3>11. \A a \in D : a \in Victims(att, T) <=> \E b \in T : a \in att[b]
            BY DEF Victims, SetAttacksArg
        <3>12. ASSUME NEW a \in X \ (T \cup Victims(att, T))
               PROVE  /\ r = "nourine"
                      /\ \E P \in SUBSET X : a \in P /\ Strong(att, P) /\ T \cap P = ClosureOf(att, P)
            <4>1. a \in D /\ a \notin T /\ \A b \in T : a \notin att[b]
                BY <3>11
            <4>2. CASE a \in C
                <5>1. e \notin StableIn(att, C)
                    BY <3>9, <4>1, <4>2 DEF StableIn
                <5>2. T \cap C = e
                    BY DEF e
                <5> QED
                    BY <3>2, <3>8, <4>2, <5>1, <5>2
            <4>3. CASE a \notin C
                <5>1. a \in L \ U
                    BY <3>5, <3>9, <4>1, <4>3
                <5>2. a \notin Victims(att, U)
                    BY <3>9, <4>1 DEF Victims, SetAttacksArg
                <5>3. /\ r = "nourine"
                      /\ \E P \in SUBSET L : a \in P /\ Strong(att, P) /\ U \cap P = ClosureOf(att, P)
                    BY <3>7, <5>1, <5>2 DEF Sound
                <5>4. PICK P \in SUBSET L : a \in P /\ Strong(att, P) /\ U \cap P = ClosureOf(att, P)
                    BY <5>3
                <5>5. T \cap P = U \cap P /\ P \in SUBSET X
                    BY <3>5, <3>9
                <5> QED
                    BY <5>3, <5>4, <5>5
            <4> QED
                BY <4>2, <4>3
        <3> QED
            BY <3>10, <3>12 DEF Sound
    <2> QED
        BY <2>1, <2>2
<1>2. Q \in SUBSET SUBSET D
    OBVIOUS
<1>3. \A X \in SUBSET D : (\A L \in SUBSET X : L # X => L \in Q) => X \in Q
    BY <1>1
<1> HIDE DEF Q
<1>4. Q = SUBSET D
    BY <1>2, <1>3, PartInduction
<1> QED
    BY <1>4 DEF Q

(* compute_extensions: no stable extension is missing from the unions, but   *)
(* for those that mis loses if an argument follows a self-attacker.          *)
THEOREM AnswersComplete ==
    ASSUME NEW D \in SUBSET Nat, IsFiniteSet(D), NEW att \in [D -> SUBSET D], NEW r,
           r = "mis" => SelfAttackersLast(att), NEW A \in SUBSET D
    PROVE  StableIn(att, A) \subseteq Answers(r, att, A)
<1> DEFINE Q == {X \in SUBSET D : \A T \in StableIn(att, X) : T \in Answers(r, att, X)}
<1>1. ASSUME NEW X \in SUBSET D, \A L \in SUBSET X : L # X => L \in Q, NEW T \in StableIn(att, X)
      PROVE  T \in Answers(r, att, X)
    <2>1. T \in SUBSET X
        BY DEF StableIn
    <2>2. CASE X = {}
        <3>1. T = {}
            BY <2>1, <2>2
        <3>2. Answers(r, att, {}) = {{}}
            BY AnswersRight
        <3> QED
            BY <2>2, <3>1, <3>2
    <2>3. CASE X # {}
        <3> DEFINE C == SourceComponent(att, X)
                   e == T \cap C
                   L == Left(att, X, C, e)
                   U == T \ C
        <3>1. From(att, X, C)
            BY <2>3, SourceFound DEF From
        <3> HIDE DEF C
        <3>2. /\ C # {} /\ C \in SUBSET X /\ C \in SUBSET D
              /\ \A a \in X, b \in C : b \in att[a] => a \in C
            BY <3>1 DEF From, Source
        <3>3. e \in StableIn(att, C) /\ U \in StableIn(att, L)
            BY <2>1, <3>2, SourceSplits DEF Splits
        <3>4. e \in PartExtensions(r, att, C)
            BY <3>2, <3>3, PartRight
        <3>5. L \in SUBSET X /\ L # X
            BY <3>2 DEF Left
        <3>6. U \in Answers(r, att, L)
            BY <1>1, <3>3, <3>5
        <3> QED
            BY <2>1, <2>3, <3>1, <3>4, <3>6, AnswersRight
    <2> QED
        BY <2>2, <2>3
<1>2. Q \in SUBSET SUBSET D
    OBVIOUS
<1>3. \A X \in SUBSET D : (\A L \in SUBSET X : L # X => L \in Q) => X \in Q
    BY <1>1
<1> HIDE DEF Q
<1>4. Q = SUBSET D
    BY <1>2, <1>3, PartInduction
<1> QED
    BY <1>4 DEF Q

(* If the routine is right about every framework, so is the recursion.       *)
LEMMA AnswersExact ==
    ASSUME NEW D \in SUBSET Nat, IsFiniteSet(D), NEW att \in [D -> SUBSET D], NEW r,
           r \notin {"mis", "nourine"}, NEW A \in SUBSET D
    PROVE  Answers(r, att, A) = StableIn(att, A)
<1>1. StableIn(att, A) \subseteq Answers(r, att, A)
    BY AnswersComplete
<1>2. ASSUME NEW S \in Answers(r, att, A)
      PROVE  S \in StableIn(att, A)
    <2>1. S \in SUBSET A
        BY AnswersRight
    <2>2. /\ \A a, b \in S : b \notin att[a]
          /\ A \ (S \cup Victims(att, S)) = {}
        BY AnswersSound DEF Sound
    <2>3. \A a \in A : a \in Victims(att, S) <=> \E b \in S : a \in att[b]
        BY DEF Victims, SetAttacksArg
    <2> QED
        BY <2>1, <2>2, <2>3 DEF StableIn
<1> QED
    BY <1>1, <1>2

-------------------------------------------------------------------------------
(* Weakly connected components.                                              *)

LEMMA UndirectedWithin ==
    ASSUME NEW D, NEW att \in [D -> SUBSET D]
    PROVE  /\ Undirected(att) \in [D -> SUBSET D] /\ GoesBack(D, Undirected(att), Undirected(att))
           /\ \A a \in D : att[a] \subseteq Undirected(att)[a]
BY DEF Undirected, GoesBack

(* An undirected search comes to the same arguments from all of them.        *)
LEMMA SameVisit ==
    ASSUME NEW D, IsFiniteSet(D), NEW f \in [D -> SUBSET D], GoesBack(D, f, f),
           NEW a \in D, NEW b \in Visited(f, a)
    PROVE  b \in D /\ Visited(f, b) = Visited(f, a)
<1>1. b \in D /\ a \in Visited(f, b)
    BY VisitedBack
<1> QED
    BY <1>1, VisitedWithin

LEMMA OneVisit ==
    ASSUME NEW D, IsFiniteSet(D), NEW f \in [D -> SUBSET D], GoesBack(D, f, f),
           NEW a \in D, NEW b \in D, NEW c, c \in Visited(f, a), c \in Visited(f, b)
    PROVE  b \in Visited(f, a)
<1>1. Visited(f, c) = Visited(f, a) /\ Visited(f, c) = Visited(f, b)
    BY SameVisit
<1>2. b \in Visited(f, b)
    BY VisitedRight
<1> QED
    BY <1>1, <1>2

(* Each argument is visited from one of the starts, and from no other.       *)
LEMMA StartsPartition ==
    ASSUME NEW D \in SUBSET Nat, IsFiniteSet(D), NEW f \in [D -> SUBSET D], GoesBack(D, f, f)
    PROVE  /\ Starts(f, D) \in SUBSET D
           /\ \A d \in D : \E a \in Starts(f, D) : d \in Visited(f, a)
           /\ \A a, b \in Starts(f, D) : a # b => Visited(f, a) \cap Visited(f, b) = {}
<1> DEFINE starts == Starts(f, D)
<1>1. starts = {a \in D : \A b \in D : b < a => a \notin Visited(f, b)}
    BY DEF Starts
<1> HIDE DEF starts
<1>2. ASSUME NEW d \in D
      PROVE  \E a \in starts : d \in Visited(f, a)
    <2> DEFINE R == {a \in D : d \in Visited(f, a)}
    <2>1. d \in R
        BY VisitedRight
    <2>2. PICK least \in R : \A a \in R : least <= a
        <3>1. R \in SUBSET Nat
            OBVIOUS
        <3> HIDE DEF R
        <3> QED
            BY <2>1, <3>1, LeastNumber
    <2>3. least \in D /\ d \in Visited(f, least)
        OBVIOUS
    <2>4. ASSUME NEW a \in D, least \in Visited(f, a)
          PROVE  a \in R
        <3>1. Visited(f, least) \subseteq Visited(f, a)
            BY <2>4, VisitedWithin
        <3> QED
            BY <2>3, <3>1
    <2>5. ASSUME NEW a \in D, a < least
          PROVE  least \notin Visited(f, a)
        <3>1. a \in Nat /\ least \in Nat
            OBVIOUS
        <3>2. ~(a < least) \/ a \notin R
            BY <2>2, <3>1
        <3> QED
            BY <2>4, <2>5, <3>2
    <2> QED
        BY <1>1, <2>3, <2>5
<1>3. ASSUME NEW a \in starts, NEW b \in starts, a < b, NEW c \in Visited(f, a), c \in Visited(f, b)
      PROVE  FALSE
    <2>1. a \in D /\ b \in D
        BY <1>1
    <2>2. b \in Visited(f, a)
        BY <1>3, <2>1, OneVisit, Zenon
    <2> QED
        BY <1>1, <1>3, <2>1, <2>2
<1>4. ASSUME NEW a \in starts, NEW b \in starts, a # b
      PROVE  Visited(f, a) \cap Visited(f, b) = {}
    <2>1. a \in Nat /\ b \in Nat
        BY <1>1
    <2>2. a < b \/ b < a
        BY <1>4, <2>1
    <2> QED
        BY <1>3, <2>2
<1>5. starts \in SUBSET D
    BY <1>1
<1> QED
    BY <1>2, <1>4, <1>5 DEF starts

(* comps lists the parts of D, none empty and none in two, with no attack    *)
(* from one to another.                                                      *)
PartsOf(att, D, comps) ==
    /\ comps \in Seq(SUBSET D) /\ comps # <<>>
    /\ \A x \in DOMAIN comps : comps[x] # {}
    /\ \A x, y \in DOMAIN comps : x # y => comps[x] \cap comps[y] = {}
    /\ \A d \in D : \E x \in DOMAIN comps : d \in comps[x]
    /\ \A x \in DOMAIN comps : \A a \in comps[x] : att[a] \subseteq comps[x]
    /\ \A x \in DOMAIN comps : \E d \in D : comps[x] = Visited(Undirected(att), d)

(* The starts numbered from the last one, as wcc prepends their components.  *)
LEMMA FromTheLast ==
    ASSUME NEW starts \in SUBSET Nat, IsFiniteSet(starts)
    PROVE  /\ Cardinality(starts) \in Nat
           /\ \A a \in starts : Cardinality({b \in starts : b > a}) + 1 \in 1 .. Cardinality(starts)
           /\ \A x \in 1 .. Cardinality(starts) :
                \E a \in starts : Cardinality({b \in starts : b > a}) = x - 1
           /\ \A a, b \in starts : Cardinality({c \in starts : c > a})
                                        = Cardinality({c \in starts : c > b}) => a = b
<1> DEFINE behind(a) == {b \in starts : b > a}
           upto(a) == {l \in starts : l <= a}
           size == Cardinality(starts)
<1>1. /\ size \in Nat
      /\ \A a \in starts : Cardinality(upto(a)) \in 1 .. size
      /\ \A x \in 1 .. size : \E a \in starts : Cardinality(upto(a)) = x
      /\ \A a, b \in starts : Cardinality(upto(a)) = Cardinality(upto(b)) => a = b
    BY Ranked
<1>2. \A a \in starts : Cardinality(behind(a)) = size - Cardinality(upto(a))
    <2> TAKE a \in starts
    <2>1. \A l \in starts : l > a <=> ~(l <= a)
        BY SMT
    <2>2. behind(a) \cup upto(a) = starts /\ behind(a) \cap upto(a) = {}
        BY <2>1
    <2>3. behind(a) \subseteq starts /\ upto(a) \subseteq starts
        OBVIOUS
    <2> HIDE DEF behind, upto
    <2>4. /\ IsFiniteSet(behind(a)) /\ IsFiniteSet(upto(a))
          /\ Cardinality(behind(a)) \in Nat /\ Cardinality(upto(a)) \in Nat
        BY <2>3, FS_Subset, FS_CardinalityType
    <2>5. size = Cardinality(behind(a)) + Cardinality(upto(a)) - Cardinality({})
        BY <2>2, <2>4, FS_Union
    <2>6. Cardinality({}) = 0
        BY FS_EmptySet
    <2> QED
        BY <2>4, <2>5, <2>6
<1> HIDE DEF behind, upto, size
<1>3. \A a \in starts : Cardinality(behind(a)) + 1 \in 1 .. size
    BY <1>1, <1>2
<1>4. ASSUME NEW x \in 1 .. size
      PROVE  \E a \in starts : Cardinality(behind(a)) = x - 1
    <2>1. size - x + 1 \in 1 .. size /\ size - (size - x + 1) = x - 1
        BY <1>1
    <2>2. PICK a \in starts : Cardinality(upto(a)) = size - x + 1
        BY <1>1, <2>1
    <2>3. Cardinality(behind(a)) = size - Cardinality(upto(a))
        BY <1>2
    <2> QED
        BY <2>1, <2>2, <2>3
<1>5. ASSUME NEW a \in starts, NEW b \in starts, Cardinality(behind(a)) = Cardinality(behind(b))
      PROVE  a = b
    <2>1. Cardinality(upto(a)) \in Nat /\ Cardinality(upto(b)) \in Nat
        BY <1>1
    <2>2. size - Cardinality(upto(a)) = size - Cardinality(upto(b))
        BY <1>2, <1>5
    <2>3. Cardinality(upto(a)) = Cardinality(upto(b))
        BY <1>1, <2>1, <2>2
    <2> QED
        BY <1>1, <2>3
<1> QED
    BY <1>1, <1>3, <1>4, <1>5 DEF behind, size

(* The searches of wcc partition the arguments into parts that are not empty*)
(* and do not attack each other.                                            *)
THEOREM WccParts ==
    ASSUME NEW D \in SUBSET Nat, IsFiniteSet(D), D # {}, NEW att \in [D -> SUBSET D]
    PROVE  PartsOf(att, D, Wcc!Wcc(att))
<1> DEFINE f == Undirected(att)
           starts == Starts(f, DOMAIN att)
           before(a) == Cardinality({b \in starts : b > a})
           size == Cardinality(starts)
           start(x) == CHOOSE a \in starts : before(a) = x - 1
           comps == [x \in 1 .. size |-> Visited(f, start(x))]
<1>1. f \in [D -> SUBSET D] /\ GoesBack(D, f, f) /\ \A a \in D : att[a] \subseteq f[a]
    BY UndirectedWithin
<1>2. Wcc!Wcc(att) = comps
    BY DEF Wcc!Wcc, Wcc!Starts, Starts, Wcc!Undirected, Undirected, Wcc!Visited, Visited,
           Wcc!Cardinality, Cardinality
<1> HIDE DEF f
<1>3. /\ starts \in SUBSET D
      /\ \A d \in D : \E a \in starts : d \in Visited(f, a)
      /\ \A a, b \in starts : a # b => Visited(f, a) \cap Visited(f, b) = {}
    <2>1. starts = Starts(f, D)
        OBVIOUS
    <2> HIDE DEF starts
    <2> QED
        BY <1>1, <2>1, StartsPartition
<1> HIDE DEF starts
<1>4. /\ size \in Nat
      /\ \A a \in starts : before(a) + 1 \in 1 .. size
      /\ \A x \in 1 .. size : \E a \in starts : before(a) = x - 1
      /\ \A a, b \in starts : before(a) = before(b) => a = b
    <2>1. starts \in SUBSET Nat /\ IsFiniteSet(starts)
        BY <1>3, FS_Subset
    <2> QED
        BY <2>1, FromTheLast
<1>5. \A x \in 1 .. size : start(x) \in starts /\ before(start(x)) = x - 1
    BY <1>4
<1> HIDE DEF before, size, start
<1>6. \A x, y \in 1 .. size : x # y => start(x) # start(y)
    BY <1>4, <1>5
<1>7. \A a \in starts : \E x \in 1 .. size : start(x) = a
    <2> SUFFICES ASSUME NEW a \in starts
                 PROVE  \E x \in 1 .. size : start(x) = a
        OBVIOUS
    <2>1. before(a) + 1 \in 1 .. size /\ before(a) \in Int
        <3>1. before(a) \in Nat
            <4>1. IsFiniteSet({b \in starts : b > a})
                BY <1>3, FS_Subset
            <4> QED
                BY <4>1, FS_CardinalityType DEF before
        <3> QED
            BY <1>4, <3>1
    <2>2. before(start(before(a) + 1)) = before(a) + 1 - 1
        BY <1>5, <2>1
    <2>3. before(start(before(a) + 1)) = before(a)
        BY <2>1, <2>2
    <2>4. start(before(a) + 1) \in starts
        BY <1>5, <2>1
    <2>5. start(before(a) + 1) = a
        BY <1>4, <2>3, <2>4
    <2> QED
        BY <2>1, <2>5
<1>8. /\ DOMAIN comps = 1 .. size
      /\ \A x \in 1 .. size : comps[x] = Visited(f, start(x)) /\ start(x) \in D
    BY <1>3, <1>5
<1> HIDE DEF comps
<1> HIDE DEF start
<1>9. \A x \in 1 .. size : /\ comps[x] \in SUBSET D /\ comps[x] # {}
                           /\ \A a \in comps[x] : f[a] \subseteq comps[x]
    <2>1. \A a \in D : /\ Visited(f, a) \in SUBSET D /\ a \in Visited(f, a)
                      /\ \A b \in Visited(f, a) : f[b] \subseteq Visited(f, a)
        BY <1>1, VisitedRight
    <2> QED
        BY <1>8, <2>1
<1>10. comps \in [1 .. size -> SUBSET D]
    BY <1>8, <1>9 DEF comps
<1>11. ASSUME NEW d \in D
       PROVE  \E x \in DOMAIN comps : d \in comps[x]
    <2>1. PICK a \in starts : d \in Visited(f, a)
        BY <1>3
    <2>2. PICK x \in 1 .. size : start(x) = a
        BY <1>7
    <2> QED
        BY <1>8, <2>1, <2>2
<1>12. comps \in Seq(SUBSET D) /\ comps # <<>>
    <2>1. comps \in Seq(SUBSET D)
        BY <1>4, <1>10
    <2>2. \E x \in DOMAIN comps : TRUE
        BY <1>11
    <2> QED
        BY <2>1, <2>2
<1>13. ASSUME NEW x \in DOMAIN comps, NEW y \in DOMAIN comps, x # y
       PROVE  comps[x] \cap comps[y] = {}
    <2>1. start(x) \in starts /\ start(y) \in starts /\ start(x) # start(y)
        BY <1>5, <1>6, <1>8, <1>13
    <2>2. Visited(f, start(x)) \cap Visited(f, start(y)) = {}
        BY <1>3, <2>1
    <2>3. comps[x] = Visited(f, start(x)) /\ comps[y] = Visited(f, start(y))
        BY <1>8
    <2> QED
        BY <2>2, <2>3
<1>14. \A x \in DOMAIN comps : \A a \in comps[x] : att[a] \subseteq comps[x]
    BY <1>1, <1>8, <1>9
<1>15. \A x \in DOMAIN comps : \E d \in D : comps[x] = Visited(Undirected(att), d)
    BY <1>8 DEF f
<1> QED
    BY <1>2, <1>8, <1>9, <1>11, <1>12, <1>13, <1>14, <1>15 DEF PartsOf

-------------------------------------------------------------------------------
(* The in-place product of the lists.                                        *)

(* The unions R of sets P of members of X and sets Q of members of Y.        *)
Product(X, Y, P, Q, R) ==
    /\ P \subseteq SUBSET X /\ Q \subseteq SUBSET Y
    /\ \A S \in R : S \subseteq X \cup Y /\ S \cap X \in P /\ S \cap Y \in Q
    /\ \A S \in P, T \in Q : S \cup T \in R /\ (S \cup T) \cap X = S /\ (S \cup T) \cap Y = T

Covered(comps, k) == UNION {comps[m] : m \in 1 .. k}

LEMMA CoveredNext ==
    ASSUME NEW D, NEW att \in [D -> SUBSET D], NEW comps, PartsOf(att, D, comps)
    PROVE  /\ Len(comps) \in Nat \ {0}
           /\ Covered(comps, 1) = comps[1] /\ Covered(comps, Len(comps)) = D
           /\ \A k \in 1 .. Len(comps) : Covered(comps, k) \in SUBSET D /\ comps[k] \in SUBSET D
           /\ \A k \in 2 .. Len(comps) :
                /\ Covered(comps, k) = Covered(comps, k-1) \cup comps[k]
                /\ Covered(comps, k-1) \cap comps[k] = {}
<1>1. /\ Len(comps) \in Nat \ {0} /\ DOMAIN comps = 1 .. Len(comps)
      /\ \A x \in 1 .. Len(comps) : comps[x] \in SUBSET D
    BY DEF PartsOf
<1>2. \A x, y \in 1 .. Len(comps) : x # y => comps[x] \cap comps[y] = {}
    BY <1>1 DEF PartsOf
<1>3. ASSUME NEW k \in 1 .. Len(comps)
      PROVE  Covered(comps, k) \in SUBSET D
    <2>1. \A m \in 1 .. k : m \in 1 .. Len(comps)
        BY <1>1
    <2> QED
        BY <1>1, <2>1 DEF Covered
<1>4. Covered(comps, 1) = comps[1]
    <2>1. 1 .. 1 = {1}
        OBVIOUS
    <2> QED
        BY <2>1 DEF Covered
<1>5. Covered(comps, Len(comps)) = D
    <2>1. Covered(comps, Len(comps)) \in SUBSET D
        BY <1>1, <1>3
    <2>2. \A d \in D : d \in Covered(comps, Len(comps))
        BY <1>1 DEF PartsOf, Covered
    <2> QED
        BY <2>1, <2>2
<1>6. ASSUME NEW k \in 2 .. Len(comps)
      PROVE  /\ Covered(comps, k) = Covered(comps, k-1) \cup comps[k]
             /\ Covered(comps, k-1) \cap comps[k] = {}
    <2>1. 1 .. k = 1 .. k-1 \cup {k}
        BY <1>1
    <2>2. \A m \in 1 .. k-1 : m \in 1 .. Len(comps) /\ k \in 1 .. Len(comps) /\ m # k
        BY <1>1
    <2>3. Covered(comps, k) = Covered(comps, k-1) \cup comps[k]
        BY <2>1 DEF Covered
    <2>4. \A m \in 1 .. k-1 : comps[m] \cap comps[k] = {}
        BY <1>2, <2>2
    <2>5. Covered(comps, k-1) \cap comps[k] = {}
        BY <2>4 DEF Covered
    <2> QED
        BY <2>3, <2>5
<1> QED
    BY <1>1, <1>3, <1>4, <1>5, <1>6

(* The unions of sets listed for the first k components, one for each.       *)
WeakAnswers(r, att, comps, k) ==
    {e \in SUBSET Covered(comps, k) :
        \A m \in 1 .. k : e \cap comps[m] \in PartExtensions(r, att, comps[m])}

(* What the product of wcc rests on.                                        *)
LEMMA WeakProduct ==
    ASSUME NEW D \in SUBSET Nat, IsFiniteSet(D), NEW att \in [D -> SUBSET D], NEW r,
           NEW comps, PartsOf(att, D, comps)
    PROVE  /\ WeakAnswers(r, att, comps, 1) = PartExtensions(r, att, comps[1])
           /\ \A k \in 2 .. Len(comps) :
                Product(Covered(comps, k-1), comps[k], WeakAnswers(r, att, comps, k-1),
                        PartExtensions(r, att, comps[k]), WeakAnswers(r, att, comps, k))
<1>1. /\ Len(comps) \in Nat \ {0} /\ DOMAIN comps = 1 .. Len(comps)
      /\ \A x \in 1 .. Len(comps) : comps[x] \in SUBSET D /\ comps[x] # {}
      /\ \A x, y \in 1 .. Len(comps) : x # y => comps[x] \cap comps[y] = {}
    <2>1. /\ comps \in Seq(SUBSET D) /\ comps # <<>>
          /\ \A x \in DOMAIN comps : comps[x] # {}
          /\ \A x, y \in DOMAIN comps : x # y => comps[x] \cap comps[y] = {}
        BY DEF PartsOf
    <2> QED
        BY <2>1
<1>2. \A x \in 1 .. Len(comps) : PartExtensions(r, att, comps[x]) \subseteq SUBSET comps[x]
    <2> TAKE x \in 1 .. Len(comps)
    <2> DEFINE C == comps[x]
    <2>1. C \in SUBSET D /\ C # {}
        BY <1>1
    <2> HIDE DEF C
    <2>2. \A S \in PartExtensions(r, att, C) : S \in SUBSET C
        BY <2>1, PartRight
    <2> QED
        BY <2>2 DEF C
<1>3. /\ Covered(comps, 1) = comps[1]
      /\ \A k \in 2 .. Len(comps) : /\ Covered(comps, k) = Covered(comps, k-1) \cup comps[k]
                                    /\ Covered(comps, k-1) \cap comps[k] = {}
    BY CoveredNext
<1>4. WeakAnswers(r, att, comps, 1) = PartExtensions(r, att, comps[1])
    <2>1. \A m : m \in 1 .. 1 <=> m = 1
        OBVIOUS
    <2>2. 1 \in 1 .. Len(comps)
        BY <1>1
    <2>3. WeakAnswers(r, att, comps, 1) =
            {e \in SUBSET comps[1] : e \cap comps[1] \in PartExtensions(r, att, comps[1])}
        BY <1>3, <2>1 DEF WeakAnswers
    <2> DEFINE E == PartExtensions(r, att, comps[1])
    <2>4. E \subseteq SUBSET comps[1]
        BY <1>2, <2>2
    <2> DEFINE C == comps[1]
    <2> HIDE DEF E
    <2>5. {e \in SUBSET C : e \cap C \in E} = E
        <3> HIDE DEF C
        <3>1. \A e \in SUBSET C : e \cap C = e
            OBVIOUS
        <3>2. \A e \in E : e \in SUBSET C
            BY <2>4 DEF C
        <3>3. \A e : (e \in SUBSET C /\ e \cap C \in E) <=> e \in E
            BY <3>1, <3>2
        <3> QED
            BY <3>3
    <2> QED
        BY <2>3, <2>5 DEF E
<1>5. ASSUME NEW k \in 2 .. Len(comps)
      PROVE  Product(Covered(comps, k-1), comps[k], WeakAnswers(r, att, comps, k-1),
                     PartExtensions(r, att, comps[k]), WeakAnswers(r, att, comps, k))
    <2> DEFINE X == Covered(comps, k-1)
               Y == comps[k]
               P == WeakAnswers(r, att, comps, k-1)
               Q == PartExtensions(r, att, comps[k])
               R == WeakAnswers(r, att, comps, k)
    <2>1. /\ \A m \in 1 .. k-1 : m \in 1 .. k /\ m \in 1 .. Len(comps) /\ m # k
          /\ k \in 1 .. k /\ k \in 1 .. Len(comps)
          /\ \A m \in 1 .. k : m \in 1 .. k-1 \/ m = k
        BY <1>1
    <2>2. Covered(comps, k) = X \cup Y /\ X \cap Y = {}
        BY <1>3
    <2>3. Q \subseteq SUBSET Y
        BY <1>2, <2>1
    <2>4. \A e : e \in P <=> /\ e \in SUBSET X
                             /\ \A m \in 1 .. k-1 : e \cap comps[m] \in PartExtensions(r, att, comps[m])
        BY DEF WeakAnswers
    <2>5. \A e : e \in R <=> /\ e \in SUBSET (X \cup Y)
                             /\ \A m \in 1 .. k : e \cap comps[m] \in PartExtensions(r, att, comps[m])
        BY <2>2 DEF WeakAnswers
    <2>6. \A m \in 1 .. k-1 : comps[m] \subseteq X
        BY DEF Covered
    <2> HIDE DEF X, P, R
    <2>7. ASSUME NEW S \in R
          PROVE  S \subseteq X \cup Y /\ S \cap X \in P /\ S \cap Y \in Q
        <3>1. \A m \in 1 .. k-1 : (S \cap X) \cap comps[m] = S \cap comps[m]
            BY <2>6
        <3>2. S \cap X \in P
            BY <2>1, <2>4, <2>5, <3>1
        <3>3. S \cap Y \in Q
            BY <2>1, <2>5
        <3> QED
            BY <2>5, <3>2, <3>3
    <2>8. ASSUME NEW S \in P, NEW T \in Q
          PROVE  S \cup T \in R /\ (S \cup T) \cap X = S /\ (S \cup T) \cap Y = T
        <3>1. S \in SUBSET X /\ T \in SUBSET Y
            BY <2>3, <2>4
        <3>2. (S \cup T) \cap X = S /\ (S \cup T) \cap Y = T
            BY <2>2, <3>1
        <3>3. \A m \in 1 .. k-1 : (S \cup T) \cap comps[m] = S \cap comps[m]
            BY <2>2, <2>6, <3>1
        <3>4. \A m \in 1 .. k : (S \cup T) \cap comps[m] \in PartExtensions(r, att, comps[m])
            BY <2>1, <2>4, <3>2, <3>3
        <3>5. S \cup T \in R
            BY <2>5, <3>1, <3>4
        <3> QED
            BY <3>2, <3>5
    <2>9. P \subseteq SUBSET X
        BY <2>4
    <2>10. Product(X, Y, P, Q, R)
        BY <2>3, <2>7, <2>8, <2>9 DEF Product
    <2> QED
        BY <2>10 DEF X, P, R
<1> QED
    BY <1>4, <1>5

(* The element of list at place is replaced by its unions with those of more.*)
Spliced(list, place, more) ==
    SubSeq(list, 1, place - 1) \o [m \in DOMAIN more |-> list[place] \cup more[m]]
        \o SubSeq(list, place + 1, Len(list))

Splices(E, list, place, more, new) ==
    /\ new \in Seq(E)
    /\ Len(new) = Len(list) + Len(more) - 1
    /\ \A x \in 1 .. place-1 : new[x] = list[x]
    /\ \A x \in 1 .. Len(more) : new[place + x - 1] = list[place] \cup more[x]
    /\ \A x \in place+1 .. Len(list) : new[x + Len(more) - 1] = list[x]

LEMMA SplicedPlaces ==
    ASSUME NEW E, \A x, y \in E : x \cup y \in E, NEW list \in Seq(E), NEW more \in Seq(E),
           NEW place \in 1 .. Len(list)
    PROVE  Splices(E, list, place, more, Spliced(list, place, more))
<1> DEFINE front == SubSeq(list, 1, place - 1)
           middle == [m \in DOMAIN more |-> list[place] \cup more[m]]
           back == SubSeq(list, place + 1, Len(list))
           new == front \o middle \o back
<1>1. Len(list) \in Nat /\ Len(more) \in Nat /\ place \in Nat /\ place <= Len(list) /\ place >= 1
    OBVIOUS
<1>2. /\ front \in Seq(E) /\ Len(front) = place - 1
      /\ \A x \in 1 .. place-1 : front[x] = list[x]
    <2>1. \A x \in 1 .. place-1 : x \in 1 .. Len(list)
        BY <1>1
    <2> QED
        BY <1>1, <2>1
<1>3. /\ middle \in Seq(E) /\ Len(middle) = Len(more)
      /\ \A x \in 1 .. Len(more) : middle[x] = list[place] \cup more[x]
    <2>1. DOMAIN more = 1 .. Len(more) /\ list[place] \in E
        OBVIOUS
    <2>2. \A x \in 1 .. Len(more) : list[place] \cup more[x] \in E
        BY <2>1
    <2>3. middle \in [1 .. Len(more) -> E]
        BY <2>1, <2>2
    <2> QED
        BY <1>1, <2>1, <2>3
<1>4. /\ back \in Seq(E) /\ Len(back) = Len(list) - place
      /\ \A x \in 1 .. Len(list) - place : back[x] = list[place + x]
    <2>1. \A x \in place + 1 .. Len(list) : x \in 1 .. Len(list)
        BY <1>1
    <2>2. \A x \in 1 .. Len(list) - place : place + 1 + x - 1 = place + x
        BY <1>1
    <2> QED
        BY <1>1, <2>1, <2>2
<1> HIDE DEF front, middle, back
<1> DEFINE mid == front \o middle
<1>5. /\ mid \in Seq(E) /\ Len(mid) = place - 1 + Len(more)
      /\ \A x \in 1 .. place-1 : mid[x] = list[x]
      /\ \A x \in 1 .. Len(more) : mid[place - 1 + x] = middle[x]
    <2>1. /\ mid \in Seq(E) /\ Len(mid) = Len(front) + Len(middle)
          /\ \A x \in 1 .. Len(front) : mid[x] = front[x]
          /\ \A x \in 1 .. Len(middle) : mid[Len(front) + x] = middle[x]
        <3>1. front \in Seq(E) /\ middle \in Seq(E)
            BY <1>2, <1>3
        <3> QED
            BY <3>1
    <2> HIDE DEF mid
    <2> QED
        BY <1>2, <1>3, <2>1
<1> HIDE DEF mid
<1>6. /\ new \in Seq(E) /\ Len(new) = Len(mid) + Len(back)
      /\ \A x \in 1 .. Len(mid) : new[x] = mid[x]
      /\ \A x \in 1 .. Len(back) : new[Len(mid) + x] = back[x]
    <2>1. mid \in Seq(E) /\ back \in Seq(E)
        BY <1>4, <1>5
    <2>2. new = mid \o back
        BY DEF mid
    <2> HIDE DEF new
    <2> QED
        BY <2>1, <2>2
<1> HIDE DEF new
<1>7. /\ Len(new) = Len(list) + Len(more) - 1
      /\ \A x \in 1 .. place-1 : new[x] = list[x]
    <2>1. \A x \in 1 .. place-1 : x \in 1 .. Len(mid)
        BY <1>1, <1>5
    <2> QED
        BY <1>1, <1>4, <1>5, <1>6, <2>1
<1>8. /\ \A x \in 1 .. Len(more) : new[place + x - 1] = middle[x]
      /\ \A x \in 1 .. Len(back) : new[place - 1 + Len(more) + x] = back[x]
    <2>1. \A x \in 1 .. Len(more) : place - 1 + x \in 1 .. Len(mid) /\ place - 1 + x = place + x - 1
        BY <1>1, <1>5
    <2> QED
        BY <1>5, <1>6, <2>1
<1>9. ASSUME NEW x \in place+1 .. Len(list)
      PROVE  new[x + Len(more) - 1] = list[x]
    <2>1. /\ x - place \in 1 .. Len(back) /\ place + (x - place) = x
          /\ place - 1 + Len(more) + (x - place) = x + Len(more) - 1
        BY <1>1, <1>4
    <2>2. new[x + Len(more) - 1] = back[x - place]
        BY <1>8, <2>1
    <2> QED
        BY <1>4, <2>1, <2>2
<1>10. Spliced(list, place, more) = new
    BY DEF Spliced, new, mid, front, middle, back
<1>11. \A x \in 1 .. Len(more) : new[place + x - 1] = list[place] \cup more[x]
    BY <1>3, <1>8
<1> QED
    BY <1>6, <1>7, <1>9, <1>10, <1>11 DEF Splices

(* The list before place has the sets of R whose part in X is not behind     *)
(* place, where sets of P are that are still to be extended.                 *)
Joining(D, X, P, R, list, place) ==
    /\ list \in Seq(SUBSET D) /\ Once(list) /\ place \in 1 .. Len(list) + 1
    /\ \A x \in place .. Len(list) : list[x] \in P
    /\ \A x \in 1 .. place-1 : /\ list[x] \in R
                               /\ \A y \in place .. Len(list) : list[y] # list[x] \cap X
    /\ \A e \in R : \/ \E x \in 1 .. place-1 : list[x] = e
                    \/ \E y \in place .. Len(list) : list[y] = e \cap X

LEMMA JoinStep ==
    ASSUME NEW D, NEW X \in SUBSET D, NEW C \in SUBSET D, NEW P, NEW Q, NEW R,
           Product(X, C, P, Q, R), NEW list, NEW place, Joining(D, X, P, R, list, place),
           place <= Len(list), NEW more, Listed(more, Q)
    PROVE  Joining(D, X, P, R, Spliced(list, place, more), place + Len(more))
<1> DEFINE new == Spliced(list, place, more)
           K == Len(more)
           L == Len(list)
           p == list[place]
<1>1. /\ K \in Nat /\ L \in Nat /\ place \in 1 .. L
      /\ DOMAIN list = 1 .. L /\ DOMAIN more = 1 .. K
      /\ \A x \in 1 .. K : more[x] \in Q
      /\ \A q \in Q : \E x \in 1 .. K : more[x] = q
    <2>1. list \in Seq(SUBSET D) /\ place \in 1 .. Len(list) + 1
        BY DEF Joining
    <2>2. more \in Seq(Q) /\ Members(more) = Q
        BY DEF Listed
    <2> QED
        BY <2>1, <2>2 DEF Members
<1>2. /\ new \in Seq(SUBSET D)
      /\ Len(new) = L + K - 1
      /\ \A x \in 1 .. place-1 : new[x] = list[x]
      /\ \A x \in 1 .. K : new[place + x - 1] = p \cup more[x]
      /\ \A x \in place+1 .. L : new[x + K - 1] = list[x]
    <2> DEFINE E == SUBSET D
    <2>1. list \in Seq(E) /\ \A x, y \in E : x \cup y \in E
        BY DEF Joining
    <2>2. more \in Seq(E)
        <3>1. Q \subseteq E
            BY DEF Product
        <3> QED
            BY <3>1 DEF Listed
    <2> HIDE DEF E
    <2>3. Splices(E, list, place, more, new)
        BY <1>1, <2>1, <2>2, SplicedPlaces
    <2> HIDE DEF new
    <2> QED
        BY <2>3 DEF Splices, E
<1> DEFINE u(x) == p \cup more[x]
<1> HIDE DEF new
<1>3. /\ p \in P
      /\ \A x \in 1 .. K : /\ u(x) \in R
                           /\ u(x) \cap X = p /\ u(x) \cap C = more[x]
    <2>1. place \in place .. L
        BY <1>1
    <2>2. p \in P
        BY <2>1 DEF Joining
    <2> HIDE DEF p
    <2> QED
        BY <1>1, <2>2 DEF Product
<1>4. Once(list) /\ Once(more)
    BY DEF Joining, Listed
<1>40. \A x \in 1 .. K : new[place + x - 1] = u(x)
    BY <1>2
<1> HIDE DEF K, L, p, u
<1> DEFINE Front(x) == x \in 1 .. place-1
           Middle(x) == x \in place .. place+K-1
           Back(x) == x \in place+K .. L+K-1
           from(x) == x - K + 1
           mid(x) == x - place + 1
<1>5. \A x \in 1 .. L+K-1 : Front(x) \/ Middle(x) \/ Back(x)
    BY <1>1
<1>6. \A x : Front(x) => x \in 1 .. L /\ x \in 1 .. place - 1 /\ new[x] = list[x]
    BY <1>1, <1>2
<1>7. \A x : Middle(x) => mid(x) \in 1 .. K /\ new[x] = u(mid(x))
    <2> SUFFICES ASSUME NEW x, Middle(x)
                 PROVE  mid(x) \in 1 .. K /\ new[x] = u(mid(x))
        OBVIOUS
    <2>1. mid(x) \in 1 .. K /\ place + mid(x) - 1 = x
        BY <1>1
    <2> QED
        BY <1>40, <2>1
<1>8. \A x : Back(x) => from(x) \in place + 1 .. L /\ new[x] = list[from(x)]
    <2> SUFFICES ASSUME NEW x, Back(x)
                 PROVE  from(x) \in place + 1 .. L /\ new[x] = list[from(x)]
        OBVIOUS
    <2>1. from(x) \in place + 1 .. L /\ from(x) + K - 1 = x
        BY <1>1
    <2> QED
        BY <1>2, <2>1
<1>9. /\ \A x, y : Middle(x) /\ Middle(y) /\ mid(x) = mid(y) => x = y
      /\ \A x, y : Back(x) /\ Back(y) /\ from(x) = from(y) => x = y
      /\ \A x \in 1 .. K : Middle(place + x - 1)
      /\ \A x \in place + 1 .. L : Back(x + K - 1)
    <2>1. \A x, y : Middle(x) /\ Middle(y) /\ mid(x) = mid(y) => x = y
        BY <1>1
    <2>2. \A x, y : Back(x) /\ Back(y) /\ from(x) = from(y) => x = y
        BY <1>1
    <2>3. \A x \in 1 .. K : Middle(place + x - 1)
        BY <1>1
    <2>4. \A x \in place + 1 .. L : Back(x + K - 1)
        BY <1>1
    <2> HIDE DEF Middle, Back, mid, from
    <2> QED
        BY <2>1, <2>2, <2>3, <2>4
<1>10. \A y \in place + 1 .. L : /\ y \in 1 .. L /\ y \in place .. L /\ y # place
                                 /\ \A x : Front(x) => x # y
    BY <1>1
<1> HIDE DEF Front, Middle, Back, from, mid
<1>11. \A x \in place + 1 .. L : list[x] \in P /\ list[x] # p
    <2>1. \A x \in place + 1 .. L : list[x] \in P
        BY <1>10 DEF Joining, L
    <2> QED
        BY <1>1, <1>4, <1>10, <2>1 DEF Once, p
<1>12. \A x : Front(x) => /\ list[x] \in R /\ list[x] \cap X # p
                          /\ \A y \in place + 1 .. L : list[y] # list[x] \cap X
    <2>1. \A x : Front(x) => /\ list[x] \in R
                             /\ \A y \in place .. L : list[y] # list[x] \cap X
        BY <1>6 DEF Joining, L
    <2>2. place \in place .. L
        BY <1>1
    <2> QED
        BY <1>10, <2>1, <2>2 DEF p
<1>13. \A x, y : Front(x) /\ Middle(y) => new[x] # new[y]
    <2> SUFFICES ASSUME NEW x, NEW y, Front(x), Middle(y)
                 PROVE  new[x] # new[y]
        OBVIOUS
    <2>1. new[y] \cap X = p
        BY <1>3, <1>7
    <2>2. new[x] \cap X # p
        BY <1>6, <1>12
    <2> QED
        BY <2>1, <2>2
<1>14. \A x, y : Front(x) /\ Back(y) => new[x] # new[y]
    <2> SUFFICES ASSUME NEW x, NEW y, Front(x), Back(y)
                 PROVE  new[x] # new[y]
        OBVIOUS
    <2>1. x \in DOMAIN list /\ from(y) \in DOMAIN list /\ x # from(y)
        BY <1>1, <1>6, <1>8, <1>10
    <2>2. list[x] # list[from(y)]
        BY <1>4, <2>1 DEF Once
    <2> QED
        BY <1>6, <1>8, <2>2
<1>15. \A x, y : Middle(x) /\ Back(y) => new[x] # new[y]
    <2> SUFFICES ASSUME NEW x, NEW y, Middle(x), Back(y)
                 PROVE  new[x] # new[y]
        OBVIOUS
    <2>1. new[x] \cap X = p
        BY <1>3, <1>7
    <2>2. new[y] \subseteq X /\ new[y] # p
        BY <1>8, <1>11 DEF Product
    <2> QED
        BY <2>1, <2>2
<1>16. Once(new)
    <2> SUFFICES ASSUME NEW x \in DOMAIN new, NEW y \in DOMAIN new, new[x] = new[y]
                 PROVE  x = y
        BY DEF Once
    <2>1. x \in 1 .. L+K-1 /\ y \in 1 .. L+K-1
        BY <1>2
    <2>2. CASE Front(x) /\ Front(y)
        <3>1. x \in DOMAIN list /\ y \in DOMAIN list /\ list[x] = list[y]
            BY <1>1, <1>6, <2>2
        <3> QED
            BY <1>4, <3>1 DEF Once
    <2>3. CASE Middle(x) /\ Middle(y)
        <3>1. mid(x) \in DOMAIN more /\ mid(y) \in DOMAIN more /\ u(mid(x)) = u(mid(y))
            BY <1>1, <1>7, <2>3
        <3>3. more[mid(x)] = more[mid(y)]
            BY <1>1, <1>3, <3>1
        <3>2. mid(x) = mid(y)
            BY <1>4, <3>1, <3>3 DEF Once
        <3> QED
            BY <1>9, <2>3, <3>2
    <2>4. CASE Back(x) /\ Back(y)
        <3>1. from(x) \in DOMAIN list /\ from(y) \in DOMAIN list /\ list[from(x)] = list[from(y)]
            BY <1>1, <1>8, <1>10, <2>4
        <3>2. from(x) = from(y)
            BY <1>4, <3>1 DEF Once
        <3> QED
            BY <1>9, <2>4, <3>2
    <2>5. (Front(x) \/ Middle(x) \/ Back(x)) /\ (Front(y) \/ Middle(y) \/ Back(y))
        BY <1>5, <2>1
    <2> QED
        BY <1>13, <1>14, <1>15, <2>2, <2>3, <2>4, <2>5
<1>17. /\ \A x \in 1 .. place+K-1 : Front(x) \/ Middle(x)
       /\ \A x : Front(x) \/ Middle(x) => x \in 1 .. place+K-1
       /\ \A x : Back(x) <=> x \in place+K .. L+K-1
    BY <1>1 DEF Front, Middle, Back
<1>18. \A x : Back(x) => new[x] \in P
    BY <1>8, <1>11
<1>19. ASSUME NEW x, Front(x) \/ Middle(x)
       PROVE  new[x] \in R /\ \A y : Back(y) => new[y] # new[x] \cap X
    <2>1. CASE Front(x)
        <3>1. new[x] = list[x] /\ list[x] \in R
            BY <1>6, <1>12, <2>1
        <3>2. \A y \in place + 1 .. L : list[y] # list[x] \cap X
            BY <1>12, <2>1
        <3> QED
            BY <1>8, <3>1, <3>2
    <2>2. CASE Middle(x)
        <3>1. new[x] \in R /\ new[x] \cap X = p
            BY <1>3, <1>7, <2>2
        <3> QED
            BY <1>8, <1>11, <3>1
    <2> QED
        BY <1>19, <2>1, <2>2
<1>20. ASSUME NEW e \in R
       PROVE  \/ \E x : (Front(x) \/ Middle(x)) /\ new[x] = e
              \/ \E y : Back(y) /\ new[y] = e \cap X
    <2>1. CASE \E x \in 1 .. place-1 : list[x] = e
        BY <1>6, <2>1 DEF Front
    <2>2. CASE e \cap X = p
        <3>1. e \cap C \in Q /\ e = p \cup (e \cap C)
            <4>1. e \subseteq X \cup C
                BY DEF Product
            <4> QED
                BY <2>2, <4>1 DEF Product
        <3>2. PICK x \in 1 .. K : more[x] = e \cap C
            BY <1>1, <3>1
        <3>3. Middle(place + x - 1) /\ new[place + x - 1] = e
            BY <1>9, <1>40, <3>1, <3>2 DEF u
        <3> QED
            BY <3>3
    <2>3. CASE \E y \in place .. L : y # place /\ list[y] = e \cap X
        <3>1. PICK y \in place .. L : y # place /\ list[y] = e \cap X
            BY <2>3
        <3>2. y \in place + 1 .. L
            BY <1>1, <3>1
        <3> QED
            BY <1>2, <1>9, <3>1, <3>2
    <2>4. \/ \E x \in 1 .. place-1 : list[x] = e
          \/ \E y \in place .. L : list[y] = e \cap X
        BY DEF Joining, L
    <2> QED
        BY <2>1, <2>2, <2>3, <2>4 DEF p
<1>21. /\ place + K \in 1 .. Len(new) + 1 /\ Len(new) = L + K - 1
    BY <1>1, <1>2
<1> DEFINE end == place + K
<1>22. /\ end \in 1 .. Len(new) + 1
       /\ \A x : Back(x) <=> x \in end .. Len(new)
       /\ \A x : Front(x) \/ Middle(x) <=> x \in 1 .. end - 1
    <2>1. end \in 1 .. Len(new) + 1 /\ \A x : x \in end .. Len(new) <=> x \in place+K .. L+K-1
        BY <1>21
    <2>2. \A x : x \in 1 .. end - 1 <=> x \in 1 .. place+K-1
        BY <1>1
    <2> HIDE DEF end
    <2>3. \A x : Back(x) <=> x \in end .. Len(new)
        BY <1>17, <2>1
    <2>4. \A x : Front(x) \/ Middle(x) <=> x \in 1 .. end - 1
        BY <1>17, <2>2
    <2> QED
        BY <2>1, <2>3, <2>4
<1> HIDE DEF end
<1>23. Joining(D, X, P, R, new, end)
    <2>1. new \in Seq(SUBSET D)
        BY <1>2
    <2>2. \A x \in end .. Len(new) : new[x] \in P
        BY <1>18, <1>22
    <2>3. \A x \in 1 .. end-1 : /\ new[x] \in R
                                /\ \A y \in end .. Len(new) : new[y] # new[x] \cap X
        BY <1>19, <1>22
    <2>4. \A e \in R : \/ \E x \in 1 .. end-1 : new[x] = e
                       \/ \E y \in end .. Len(new) : new[y] = e \cap X
        BY <1>20, <1>22
    <2> QED
        BY <1>16, <1>22, <2>1, <2>2, <2>3, <2>4 DEF Joining
<1> QED
    BY <1>23 DEF new, K, end

(* Between two components.                                                   *)
LEMMA JoinStart ==
    ASSUME NEW D, NEW X \in SUBSET D, NEW C \in SUBSET D, NEW P, NEW Q, NEW R,
           Product(X, C, P, Q, R), NEW list, Listed(list, P)
    PROVE  Joining(D, X, P, R, list, 1)
<1>1. /\ list \in Seq(P) /\ Once(list) /\ Members(list) = P
      /\ Len(list) \in Nat /\ DOMAIN list = 1 .. Len(list)
    BY DEF Listed
<1>2. list \in Seq(SUBSET D)
    <2> DEFINE F == SUBSET D
    <2>1. P \subseteq F
        BY DEF Product
    <2> HIDE DEF F
    <2>2. list \in Seq(F)
        BY <1>1, <2>1
    <2> QED
        BY <2>2 DEF F
<1>3. \A x \in 1 .. Len(list) : list[x] \in P
    BY <1>1
<1>4. ASSUME NEW e \in R
      PROVE  \E y \in 1 .. Len(list) : list[y] = e \cap X
    <2>1. e \cap X \in P
        BY DEF Product
    <2> QED
        BY <1>1, <2>1 DEF Members
<1>5. 1 .. 1-1 = {} /\ 1 \in 1 .. Len(list) + 1
    BY <1>1
<1> QED
    BY <1>1, <1>2, <1>3, <1>4, <1>5 DEF Joining

LEMMA JoinDone ==
    ASSUME NEW D, NEW X, NEW P, NEW R, NEW list, NEW place,
           Joining(D, X, P, R, list, place), place > Len(list)
    PROVE  Listed(list, R)
<1>1. /\ Len(list) \in Nat /\ DOMAIN list = 1 .. Len(list) /\ Once(list)
      /\ place \in 1 .. Len(list) + 1
    BY DEF Joining
<1>2. place .. Len(list) = {} /\ 1 .. place-1 = DOMAIN list
    BY <1>1
<1>3. /\ \A x \in DOMAIN list : list[x] \in R
      /\ \A e \in R : \E x \in DOMAIN list : list[x] = e
    BY <1>2 DEF Joining
<1>4. list \in Seq(R)
    <2>1. list \in Seq(SUBSET D)
        BY DEF Joining
    <2>2. list \in [1 .. Len(list) -> R]
        BY <1>1, <1>3, <2>1
    <2> QED
        BY <1>1, <2>2
<1> QED
    BY <1>1, <1>3, <1>4 DEF Listed, Members

(* A component for which nothing was listed: there are no unions.            *)
LEMMA NoneInComponent ==
    ASSUME NEW r, NEW att, NEW comps, Len(comps) \in Nat, NEW k \in 1 .. Len(comps),
           PartExtensions(r, att, comps[k]) = {}
    PROVE  WeakAnswers(r, att, comps, Len(comps)) = {}
BY DEF WeakAnswers

-------------------------------------------------------------------------------
(* Printing what a routine has returned.                                     *)

LEMMA NextPrinted ==
    ASSUME NEW E, NEW out \in Seq(E), NEW list \in Seq(E), list # <<>>
    PROVE  /\ Append(out, Head(list)) \in Seq(E) /\ Tail(list) \in Seq(E)
           /\ Append(out, Head(list)) \o Tail(list) = out \o list
<1> DEFINE a == Append(out, Head(list))
           t == Tail(list)
           r == a \o t
           q == out \o list
<1>1. /\ a \in Seq(E) /\ Len(a) = Len(out) + 1 /\ a[Len(out) + 1] = list[1]
      /\ \A x \in 1 .. Len(out) : a[x] = out[x]
      /\ Len(out) \in Nat
    OBVIOUS
<1>2. t \in Seq(E) /\ Len(t) = Len(list) - 1 /\ \A x \in 1 .. Len(list) - 1 : t[x] = list[x+1]
    OBVIOUS
<1>3. Len(list) \in Nat \ {0}
    OBVIOUS
<1>4. /\ q \in Seq(E) /\ Len(q) = Len(out) + Len(list)
      /\ \A x \in 1 .. Len(out) : q[x] = out[x]
      /\ \A x \in 1 .. Len(list) : q[Len(out) + x] = list[x]
    OBVIOUS
<1> HIDE DEF a, t, q
<1>5. /\ r \in Seq(E) /\ Len(r) = Len(a) + Len(t)
      /\ \A x \in 1 .. Len(a) : r[x] = a[x]
      /\ \A x \in 1 .. Len(t) : r[Len(a) + x] = t[x]
    <2>1. a \in Seq(E) /\ t \in Seq(E)
        BY <1>1, <1>2
    <2> QED
        BY <2>1
<1> HIDE DEF r
<1>6. ASSUME NEW x \in 1 .. Len(q)
      PROVE  r[x] = q[x]
    <2>1. CASE x \in 1 .. Len(out)
        BY <1>1, <1>4, <1>5, <2>1
    <2>2. CASE x = Len(out) + 1
        <3>1. x \in 1 .. Len(a) /\ 1 \in 1 .. Len(list)
            BY <1>1, <1>3, <2>2
        <3>2. r[x] = list[1]
            BY <1>1, <1>5, <2>2, <3>1
        <3>3. q[x] = list[1]
            BY <1>4, <2>2, <3>1
        <3> QED
            BY <3>2, <3>3
    <2>3. CASE x > Len(out) + 1
        <3>1. x - Len(out) - 1 \in 1 .. Len(t) /\ Len(a) + (x - Len(out) - 1) = x
            BY <1>1, <1>2, <1>3, <1>4, <2>3
        <3>2. x - Len(out) \in 1 .. Len(list) /\ Len(out) + (x - Len(out)) = x
            BY <1>1, <1>3, <1>4, <2>3
        <3>3. r[x] = t[x - Len(out) - 1]
            BY <1>5, <3>1
        <3>4. t[x - Len(out) - 1] = list[x - Len(out)]
            <4>1. x - Len(out) - 1 \in 1 .. Len(list) - 1 /\ x - Len(out) - 1 + 1 = x - Len(out)
                BY <1>1, <1>2, <3>1
            <4> QED
                BY <1>2, <4>1
        <3>5. q[x] = list[x - Len(out)]
            BY <1>4, <3>2
        <3> QED
            BY <3>3, <3>4, <3>5
    <2> QED
        BY <1>1, <1>3, <1>4, <2>1, <2>2, <2>3
<1>7. Len(r) = Len(q)
    BY <1>1, <1>2, <1>3, <1>4, <1>5
<1>8. r = q
    BY <1>4, <1>5, <1>6, <1>7
<1> QED
    BY <1>1, <1>2, <1>8 DEF r, a, t, q

(* What has been printed and what is left of the list hold each member of    *)
(* set once.                                                                 *)
Output(out, list, set) ==
    out \in Seq(set) /\ list \in Seq(set) /\ Listed(out \o list, set)

\* The same, in the words of OutputRight.
ListsOf(out, set) ==
    Len(out) = Cardinality(set) /\ {out[k] : k \in DOMAIN out} = set

LEMMA OutputStart ==
    ASSUME NEW list, NEW set, Listed(list, set)
    PROVE  Output(<<>>, list, set)
<1>1. list \in Seq(set)
    BY DEF Listed
<1>2. <<>> \o list = list /\ <<>> \in Seq(set)
    BY <1>1
<1> QED
    BY <1>1, <1>2 DEF Output

LEMMA OutputStep ==
    ASSUME NEW out, NEW list, NEW set, Output(out, list, set), list # <<>>
    PROVE  Output(Append(out, Head(list)), Tail(list), set)
<1>1. out \in Seq(set) /\ list \in Seq(set)
    BY DEF Output
<1>2. /\ Append(out, Head(list)) \in Seq(set) /\ Tail(list) \in Seq(set)
      /\ Append(out, Head(list)) \o Tail(list) = out \o list
    BY <1>1, NextPrinted
<1> QED
    BY <1>2 DEF Output

LEMMA OutputEnd ==
    ASSUME NEW out, NEW set, Output(out, <<>>, set)
    PROVE  ListsOf(out, set)
<1>1. out \in Seq(set)
    BY DEF Output
<1>2. out \o <<>> = out
    BY <1>1
<1>3. Listed(out, set)
    BY <1>2 DEF Output
<1>4. Len(out) = Cardinality(set)
    BY <1>3, ListedSize
<1>5. Members(out) = set
    BY <1>3 DEF Listed
<1> QED
    BY <1>4, <1>5 DEF ListsOf, Members

-------------------------------------------------------------------------------
(* wcc_stable_extensions.                                                    *)

LEMMA WccOperators ==
    /\ \A S, m : Wcc!MapIndices(S, m) = MapIndices(S, m)
    /\ \A A : Wcc!ParentMapping(A) = ParentMapping(A)
    /\ \A att, m : Wcc!Renamed(att, m) = Renamed(att, m)
    /\ \A component : Wcc!Projection(component) = Renamed(af, ParentMapping(component))
    /\ \A set : Wcc!Listings(set) = Listings(set)
    /\ \A s : Wcc!Elements(s) = Members(s) /\ Wcc!Cardinality(s) = Cardinality(s)
<1>1. \A s : Wcc!Cardinality(s) = Cardinality(s)
    BY DEF Wcc!Cardinality, Cardinality
<1>2. \A S, m : Wcc!MapIndices(S, m) = MapIndices(S, m)
    BY DEF Wcc!MapIndices, MapIndices
<1>3. \A A : Wcc!ParentMapping(A) = ParentMapping(A)
    BY DEF Wcc!ParentMapping, ParentMapping, Wcc!Cardinality, Cardinality
<1>4. \A att, m : Wcc!Renamed(att, m) = Renamed(att, m)
    BY DEF Wcc!Renamed, Renamed
<1>5. \A component : Wcc!Projection(component) = Renamed(af, ParentMapping(component))
    BY <1>3, <1>4 DEF Wcc!Projection
<1>6. \A set : Wcc!Listings(set) = Listings(set)
    BY <1>1 DEF Wcc!Listings, Listings
<1>7. \A s : Wcc!Elements(s) = Members(s)
    BY DEF Wcc!Elements, Members
<1> QED
    BY <1>1, <1>2, <1>3, <1>4, <1>5, <1>6, <1>7

(* While the components are solved, the lists have the indices of the        *)
(* projections; afterwards those of the framework.                           *)
Solving ==
    /\ extension_lists \in Seq(Seq(SUBSET Nat)) /\ Len(extension_lists) <= Len(components)
    /\ \A k \in DOMAIN extension_lists :
         Listed(Mapped(extension_lists[k], ParentMapping(components[k])),
                PartExtensions(routine, af, components[k]))
    /\ res = <<>>

Joined(k) == WeakAnswers(routine, af, components, k)

JoinStage ==
    /\ DOMAIN extension_lists = DOMAIN components
    /\ \A k \in DOMAIN components :
         Listed(extension_lists[k], PartExtensions(routine, af, components[k]))
    /\ i \in 2 .. Len(components) + 1
    /\ i <= Len(components) =>
         Joining(Arg, Covered(components, i-1), Joined(i-1), Joined(i), res, cur)
    /\ i > Len(components) => Listed(res, Joined(Len(components)))

WccInv ==
    /\ af \in Framework /\ components = Wcc!Wcc(af)
    /\ pc \in {"solve", "join", "done", "crash", "print", "exit"}
    /\ pc \in {"solve", "join", "done"} => printed = <<>>
    /\ pc = "solve" => Solving
    /\ pc = "join" => JoinStage
    /\ pc = "done" => Listed(res, Joined(Len(components)))
    /\ pc = "print" => Output(printed, res, Joined(Len(components)))
    /\ pc = "exit" => ListsOf(printed, Joined(Len(components)))

LEMMA WccComponents ==
    ASSUME af \in Framework, components = Wcc!Wcc(af)
    PROVE  /\ PartsOf(af, Arg, components) /\ af \in [Arg -> SUBSET Arg]
           /\ Arg \in SUBSET Nat /\ IsFiniteSet(Arg)
           /\ DOMAIN components = 1 .. Len(components) /\ Len(components) \in Nat \ {0}
           /\ \A k \in DOMAIN components : components[k] \in SUBSET Arg
           /\ DOMAIN af = Arg
<1>1. Arg \in SUBSET Nat /\ IsFiniteSet(Arg) /\ Arg # {}
    <2>1. 0 \in Arg /\ Arg \in SUBSET Nat
        BY NAssumption DEF Arg
    <2> QED
        BY <2>1, ArgFinite
<1>2. af \in [Arg -> SUBSET Arg]
    BY DEF Framework
<1>3. PartsOf(af, Arg, components)
    BY <1>1, <1>2, WccParts
<1>4. /\ DOMAIN components = 1 .. Len(components) /\ Len(components) \in Nat \ {0}
      /\ \A k \in DOMAIN components : components[k] \in SUBSET Arg
    BY <1>3 DEF PartsOf
<1>5. DOMAIN af = Arg
    BY <1>2
<1> QED
    BY <1>1, <1>2, <1>3, <1>4, <1>5

LEMMA WccInit ==
    ASSUME Wcc!Init, printed = <<>>
    PROVE  WccInv
<1>1. af \in Framework
    BY InputsAssumption DEF Wcc!Init
<1>2. /\ components = Wcc!Wcc(af) /\ extension_lists = <<>> /\ res = <<>> /\ pc = "solve"
    BY DEF Wcc!Init
<1>3. Len(components) \in Nat
    BY <1>1, <1>2, WccComponents
<1>4. Solving
    BY <1>2, <1>3 DEF Solving
<1> QED
    BY <1>1, <1>2, <1>4 DEF WccInv

LEMMA WccSolveNext ==
    ASSUME WccInv, Wcc!SolveNext, UNCHANGED printed
    PROVE  WccInv'
<1>1. /\ af \in Framework /\ components = Wcc!Wcc(af) /\ pc = "solve" /\ printed = <<>> /\ Solving
      /\ af' = af /\ components' = components /\ printed' = printed /\ res' = res
      /\ routine' = routine
    BY DEF WccInv, Wcc!SolveNext
<1>2. /\ PartsOf(af, Arg, components) /\ af \in [Arg -> SUBSET Arg]
      /\ Arg \in SUBSET Nat /\ IsFiniteSet(Arg)
      /\ DOMAIN components = 1 .. Len(components) /\ Len(components) \in Nat \ {0}
      /\ \A k \in DOMAIN components : components[k] \in SUBSET Arg
      /\ DOMAIN af = Arg
    BY <1>1, WccComponents
<1> DEFINE next == Len(extension_lists) + 1
           C == components[next]
           m == ParentMapping(C)
<1>3. /\ extension_lists \in Seq(Seq(SUBSET Nat)) /\ next \in DOMAIN components
      /\ DOMAIN extension_lists = 1 .. Len(extension_lists) /\ Len(extension_lists) \in Nat
      /\ \A k \in DOMAIN extension_lists :
            Listed(Mapped(extension_lists[k], ParentMapping(components[k])),
                   PartExtensions(routine, af, components[k]))
      /\ res = <<>>
    <2>1. Len(extension_lists) < Len(components)
        BY DEF Wcc!SolveNext
    <2> QED
        BY <1>1, <1>2, <2>1 DEF Solving
<1>4. /\ C \in SUBSET Arg /\ C # {}
      /\ Wcc!Projection(C) = Renamed(af, m)
    BY <1>2, <1>3, WccOperators DEF PartsOf
<1>5. CASE Crashes(routine, Renamed(af, m))
    <2>1. pc' = "crash"
        BY <1>4, <1>5 DEF Wcc!SolveNext
    <2> QED
        BY <1>1, <2>1 DEF WccInv
<1>6. CASE ~Crashes(routine, Renamed(af, m))
  <2>1. PICK list : /\ list \in Listings(Extensions(routine, Renamed(af, m)))
                    /\ extension_lists' = Append(extension_lists, list)
                    /\ pc' = IF list = <<>> THEN "done" ELSE "solve"
    <3>1. \E exts \in {Extensions(routine, Wcc!Projection(C))} :
            \E list \in Wcc!Listings(exts) :
                /\ extension_lists' = Append(extension_lists, list)
                /\ pc' = IF list = <<>> THEN "done" ELSE "solve"
        BY <1>4, <1>6 DEF Wcc!SolveNext
    <3> HIDE DEF C
    <3> QED
        BY <1>4, <3>1, WccOperators
  <2>2. Listed(Mapped(list, m), PartExtensions(routine, af, C)) /\ list \in Seq(SUBSET Nat)
    <3> HIDE DEF C
    <3> QED
        BY <1>2, <1>4, <2>1, SolvedListed
  <2> HIDE DEF m
  <2>3. /\ extension_lists' \in Seq(Seq(SUBSET Nat)) /\ Len(extension_lists') = next
        /\ DOMAIN extension_lists' = DOMAIN extension_lists \cup {next}
        /\ extension_lists'[next] = list
        /\ \A k \in DOMAIN extension_lists : extension_lists'[k] = extension_lists[k] /\ k # next
    <3> DEFINE F == Seq(SUBSET Nat)
    <3>1. extension_lists \in Seq(F) /\ list \in F
        BY <1>3, <2>2
    <3> HIDE DEF F
    <3>2. /\ extension_lists' \in Seq(F) /\ Len(extension_lists') = next
          /\ DOMAIN extension_lists' = DOMAIN extension_lists \cup {next}
          /\ extension_lists'[next] = list
          /\ \A k \in DOMAIN extension_lists : extension_lists'[k] = extension_lists[k] /\ k # next
        BY <1>3, <2>1, <3>1
    <3> QED
        BY <3>2 DEF F
  <2> HIDE DEF next
  <2>4. CASE list # <<>>
    <3>1. pc' = "solve"
        BY <2>1, <2>4
    <3>2. Len(extension_lists') <= Len(components)
        BY <1>2, <1>3, <2>3
    <3>3. Solving'
        BY <1>1, <1>3, <2>2, <2>3, <3>2 DEF Solving, C, m
    <3> QED
        BY <1>1, <3>1, <3>3 DEF WccInv
  <2>5. CASE list = <<>>
    <3>1. pc' = "done"
        BY <2>1, <2>5
    <3>2. Mapped(list, m) = <<>>
        BY <2>5 DEF Mapped
    <3>3. PartExtensions(routine, af, C) = {}
        BY <2>2, <3>2 DEF Listed, Members
    <3>4. Joined(Len(components)) = {}
        BY <1>2, <1>3, <3>3, NoneInComponent DEF Joined
    <3>5. Listed(<<>>, {})
        BY DEF Listed, Members, Once
    <3>6. Joined(Len(components))' = Joined(Len(components))
        BY <1>1 DEF Joined
    <3> QED
        BY <1>1, <1>3, <3>1, <3>4, <3>5, <3>6 DEF WccInv
  <2> QED
    BY <2>4, <2>5
<1> QED
    BY <1>5, <1>6

(* The state of the product after a component.                               *)
LEMMA JoinNext ==
    ASSUME af \in Framework, components = Wcc!Wcc(af), NEW k \in 1 .. Len(components),
           NEW list, Listed(list, Joined(k))
    PROVE  /\ k + 1 \in 2 .. Len(components) + 1
           /\ k + 1 <= Len(components) =>
                Joining(Arg, Covered(components, k+1-1), Joined(k+1-1), Joined(k+1), list, 1)
           /\ k + 1 > Len(components) => Listed(list, Joined(Len(components)))
<1>1. /\ PartsOf(af, Arg, components) /\ af \in [Arg -> SUBSET Arg]
      /\ Arg \in SUBSET Nat /\ IsFiniteSet(Arg)
      /\ Len(components) \in Nat \ {0}
    BY WccComponents
<1>2. k \in Nat /\ k + 1 \in 2 .. Len(components) + 1 /\ k + 1 - 1 = k
    BY <1>1
<1>3. CASE k + 1 <= Len(components)
    <2>1. k + 1 \in 2 .. Len(components) /\ k + 1 \in 1 .. Len(components)
        BY <1>1, <1>2, <1>3
    <2>2. Covered(components, k) \in SUBSET Arg /\ components[k+1] \in SUBSET Arg
        <3>1. \A x \in 1 .. Len(components) :
                Covered(components, x) \in SUBSET Arg /\ components[x] \in SUBSET Arg
            BY <1>1, CoveredNext
        <3> QED
            BY <2>1, <3>1
    <2>3. Product(Covered(components, k+1-1), components[k+1], Joined(k+1-1),
                  PartExtensions(routine, af, components[k+1]), Joined(k+1))
        <3>1. \A x \in 2 .. Len(components) :
                Product(Covered(components, x-1), components[x], Joined(x-1),
                        PartExtensions(routine, af, components[x]), Joined(x))
            BY <1>1, WeakProduct DEF Joined
        <3> QED
            BY <2>1, <3>1
    <2> DEFINE Q == PartExtensions(routine, af, components[k+1])
               P == Joined(k)
               R == Joined(k+1)
               X == Covered(components, k)
               Y == components[k+1]
    <2>4. Product(X, Y, P, Q, R) /\ X \in SUBSET Arg /\ Y \in SUBSET Arg /\ Listed(list, P)
        BY <1>2, <2>2, <2>3
    <2> HIDE DEF P, Q, R, X, Y
    <2>5. Joining(Arg, X, P, R, list, 1)
        BY <2>4, JoinStart
    <2> QED
        BY <1>1, <1>2, <1>3, <2>5 DEF X, P, R
<1>4. CASE k + 1 > Len(components)
    <2>1. k = Len(components)
        BY <1>1, <1>2, <1>4
    <2> QED
        BY <1>1, <1>2, <1>4, <2>1
<1> QED
    BY <1>1, <1>2, <1>3, <1>4

LEMMA WccRestore ==
    ASSUME WccInv, Wcc!Restore, UNCHANGED printed
    PROVE  WccInv'
<1>1. /\ af \in Framework /\ components = Wcc!Wcc(af) /\ pc = "solve" /\ printed = <<>> /\ Solving
      /\ af' = af /\ components' = components /\ printed' = printed /\ pc' = "join"
      /\ i' = 2 /\ cur' = 1 /\ Len(extension_lists) = Len(components) /\ routine' = routine
    BY DEF WccInv, Wcc!Restore
<1>2. /\ PartsOf(af, Arg, components) /\ af \in [Arg -> SUBSET Arg]
      /\ DOMAIN components = 1 .. Len(components) /\ Len(components) \in Nat \ {0}
      /\ Arg \in SUBSET Nat /\ IsFiniteSet(Arg)
    BY <1>1, WccComponents
<1>3. /\ DOMAIN extension_lists = DOMAIN components
      /\ \A k \in DOMAIN components :
            Listed(Mapped(extension_lists[k], ParentMapping(components[k])),
                   PartExtensions(routine, af, components[k]))
    BY <1>1, <1>2 DEF Solving
<1>4. extension_lists' = [k \in DOMAIN extension_lists |->
                             Mapped(extension_lists[k], ParentMapping(components[k]))]
    <2>1. extension_lists' = [k \in DOMAIN extension_lists |->
             [m \in DOMAIN extension_lists[k] |->
                 Wcc!MapIndices(extension_lists[k][m], Wcc!ParentMapping(components[k]))]]
        BY DEF Wcc!Restore
    <2>2. \A k : [m \in DOMAIN extension_lists[k] |->
                    Wcc!MapIndices(extension_lists[k][m], Wcc!ParentMapping(components[k]))]
                        = Mapped(extension_lists[k], ParentMapping(components[k]))
        BY WccOperators DEF Mapped
    <2> QED
        BY <2>1, <2>2
<1>5. /\ DOMAIN extension_lists' = DOMAIN components
      /\ \A k \in DOMAIN components :
            Listed(extension_lists'[k], PartExtensions(routine, af, components[k]))
    BY <1>3, <1>4
<1>6. Listed(res', Joined(1))
    <2>1. 1 \in DOMAIN components
        BY <1>2
    <2>2. res' = extension_lists'[1]
        BY DEF Wcc!Restore
    <2>3. Joined(1) = PartExtensions(routine, af, components[1])
        BY <1>2, WeakProduct DEF Joined
    <2> QED
        BY <1>5, <2>1, <2>2, <2>3
<1>7. /\ 2 \in 2 .. Len(components) + 1
      /\ 2 <= Len(components) =>
            Joining(Arg, Covered(components, 2-1), Joined(2-1), Joined(2), res', 1)
      /\ 2 > Len(components) => Listed(res', Joined(Len(components)))
    <2>1. 1 \in 1 .. Len(components) /\ 1 + 1 = 2
        BY <1>2
    <2> QED
        BY <1>1, <1>2, <1>6, <2>1, JoinNext
<1>8. \A k : Joined(k)' = Joined(k)
    BY <1>1 DEF Joined
<1>9. JoinStage'
    BY <1>1, <1>5, <1>7, <1>8 DEF JoinStage
<1> QED
    BY <1>1, <1>9 DEF WccInv

LEMMA WccJoinOne ==
    ASSUME WccInv, Wcc!JoinOne, UNCHANGED printed
    PROVE  WccInv'
<1>1. /\ af \in Framework /\ components = Wcc!Wcc(af) /\ pc = "join" /\ printed = <<>> /\ JoinStage
      /\ af' = af /\ components' = components /\ printed' = printed /\ pc' = pc
      /\ extension_lists' = extension_lists /\ i' = i
      /\ i <= Len(components) /\ cur <= Len(res)
      /\ cur' = cur + Len(extension_lists[i]) /\ routine' = routine
    BY DEF WccInv, Wcc!JoinOne
<1>2. /\ PartsOf(af, Arg, components) /\ af \in [Arg -> SUBSET Arg]
      /\ DOMAIN components = 1 .. Len(components) /\ Len(components) \in Nat \ {0}
      /\ Arg \in SUBSET Nat /\ IsFiniteSet(Arg)
    BY <1>1, WccComponents
<1>3. res' = Spliced(res, cur, extension_lists[i])
    BY DEF Wcc!JoinOne, Spliced
<1>4. /\ i \in 2 .. Len(components) + 1
      /\ Joining(Arg, Covered(components, i-1), Joined(i-1), Joined(i), res, cur)
    BY <1>1 DEF JoinStage
<1>5. i \in 2 .. Len(components) /\ i \in DOMAIN components /\ i-1 \in 1 .. Len(components)
    BY <1>1, <1>2, <1>4
<1> DEFINE X == Covered(components, i-1)
           C == components[i]
           P == Joined(i-1)
           Q == PartExtensions(routine, af, components[i])
           R == Joined(i)
           more == extension_lists[i]
<1>6. Listed(more, Q)
    BY <1>1, <1>5 DEF JoinStage
<1>7. X \in SUBSET Arg /\ C \in SUBSET Arg /\ Product(X, C, P, Q, R)
    <2>1. \A x \in 1 .. Len(components) :
            Covered(components, x) \in SUBSET Arg /\ components[x] \in SUBSET Arg
        BY <1>2, CoveredNext
    <2>2. \A x \in 2 .. Len(components) :
            Product(Covered(components, x-1), components[x], Joined(x-1),
                    PartExtensions(routine, af, components[x]), Joined(x))
        BY <1>2, WeakProduct DEF Joined
    <2> QED
        BY <1>5, <2>1, <2>2
<1>8. Joining(Arg, X, P, R, res', cur')
    <2>1. Joining(Arg, X, P, R, res, cur) /\ cur <= Len(res)
        BY <1>1, <1>4
    <2>2. res' = Spliced(res, cur, more) /\ cur' = cur + Len(more)
        BY <1>1, <1>3
    <2> HIDE DEF X, C, P, Q, R, more
    <2> QED
        BY <1>6, <1>7, <2>1, <2>2, JoinStep
<1>9. \A k : Joined(k)' = Joined(k)
    BY <1>1 DEF Joined
<1>10. /\ DOMAIN extension_lists' = DOMAIN components'
       /\ \A k \in DOMAIN components' :
            Listed(extension_lists'[k], PartExtensions(routine', af', components'[k]))
    BY <1>1 DEF JoinStage
<1>11. JoinStage'
    BY <1>1, <1>2, <1>5, <1>8, <1>9, <1>10 DEF JoinStage
<1> QED
    BY <1>1, <1>11 DEF WccInv

LEMMA WccNextComponent ==
    ASSUME WccInv, Wcc!NextComponent, UNCHANGED printed
    PROVE  WccInv'
<1>1. /\ af \in Framework /\ components = Wcc!Wcc(af) /\ pc = "join" /\ printed = <<>> /\ JoinStage
      /\ af' = af /\ components' = components /\ printed' = printed /\ pc' = pc
      /\ extension_lists' = extension_lists /\ res' = res
      /\ i <= Len(components) /\ cur > Len(res) /\ i' = i + 1 /\ cur' = 1
      /\ routine' = routine
    BY DEF WccInv, Wcc!NextComponent
<1>2. /\ PartsOf(af, Arg, components) /\ af \in [Arg -> SUBSET Arg]
      /\ DOMAIN components = 1 .. Len(components) /\ Len(components) \in Nat \ {0}
    BY <1>1, WccComponents
<1>3. /\ i \in 2 .. Len(components) + 1
      /\ Joining(Arg, Covered(components, i-1), Joined(i-1), Joined(i), res, cur)
    BY <1>1 DEF JoinStage
<1>4. i \in 2 .. Len(components) /\ i \in 1 .. Len(components)
    BY <1>1, <1>2, <1>3
<1>5. Listed(res, Joined(i))
    BY <1>1, <1>3, JoinDone
<1>6. /\ i' \in 2 .. Len(components) + 1
      /\ i' <= Len(components) =>
            Joining(Arg, Covered(components, i'-1), Joined(i'-1), Joined(i'), res, 1)
      /\ i' > Len(components) => Listed(res, Joined(Len(components)))
    BY <1>1, <1>2, <1>4, <1>5, JoinNext
<1>7. \A k : Joined(k)' = Joined(k)
    BY <1>1 DEF Joined
<1>8. /\ DOMAIN extension_lists' = DOMAIN components'
      /\ \A k \in DOMAIN components' :
            Listed(extension_lists'[k], PartExtensions(routine', af', components'[k]))
    BY <1>1 DEF JoinStage
<1>9. JoinStage'
    BY <1>1, <1>6, <1>7, <1>8 DEF JoinStage
<1> QED
    BY <1>1, <1>9 DEF WccInv

LEMMA WccReturn ==
    ASSUME WccInv, Wcc!Return, UNCHANGED printed
    PROVE  WccInv'
<1>1. /\ af \in Framework /\ components = Wcc!Wcc(af) /\ pc = "join" /\ printed = <<>> /\ JoinStage
      /\ af' = af /\ components' = components /\ printed' = printed /\ pc' = "done" /\ res' = res
      /\ i > Len(components) /\ routine' = routine
    BY DEF WccInv, Wcc!Return
<1>2. \A k : Joined(k)' = Joined(k)
    BY <1>1 DEF Joined
<1> QED
    BY <1>1, <1>2 DEF WccInv, JoinStage

LEMMA WccStep ==
    ASSUME WccInv, Wcc!Next, UNCHANGED printed
    PROVE  WccInv'
<1>1. ASSUME Wcc!Returned
      PROVE  WccInv'
    <2>1. /\ UNCHANGED <<routine, af, components, extension_lists, res, cur, i, pc, printed>>
          /\ pc # "solve" /\ pc # "join"
        BY <1>1 DEF Wcc!Returned, Wcc!vars
    <2>2. \A k : Joined(k)' = Joined(k)
        BY <2>1 DEF Joined
    <2> QED
        BY <2>1, <2>2 DEF WccInv
<1> QED
    BY <1>1, WccSolveNext, WccRestore, WccJoinOne, WccNextComponent, WccReturn DEF Wcc!Next

(* What JoinedSoFar says follows.                                            *)
LEMMA WccExtensions ==
    ASSUME NEW C
    PROVE  Wcc!ComponentExtensions(C) = PartExtensions(routine, af, C)
<1> DEFINE m == ParentMapping(C)
           E == Extensions(routine, Renamed(af, m))
<1>1. Wcc!ParentMapping(C) = m /\ Wcc!Projection(C) = Renamed(af, m)
    BY WccOperators
<1>2. Wcc!ComponentExtensions(C) = {Wcc!MapIndices(e, m) : e \in E}
    BY <1>1 DEF Wcc!ComponentExtensions
<1>3. \A e : Wcc!MapIndices(e, m) = MapIndices(e, m)
    BY WccOperators
<1>4. PartExtensions(routine, af, C) = {MapIndices(e, m) : e \in E}
    BY DEF PartExtensions
<1> HIDE DEF m, E
<1> QED
    BY <1>2, <1>3, <1>4

LEMMA WccJoined ==
    ASSUME WccInv
    PROVE  Wcc!JoinedSoFar
<1> SUFFICES ASSUME pc = "join"
             PROVE  Wcc!JoinedSoFar
    BY DEF Wcc!JoinedSoFar
<1> DEFINE covered(k) == UNION {components[m] : m \in 1 .. k}
           unions(k) == {e \in SUBSET covered(k) : \A m \in 1 .. k :
                 e \cap components[m] \in Wcc!ComponentExtensions(components[m])}
           old == {res[k] : k \in cur .. Len(res)}
           new == {res[k] : k \in 1 .. cur - 1}
<1>1. af \in Framework /\ components = Wcc!Wcc(af) /\ JoinStage
    BY DEF WccInv
<1>2. /\ PartsOf(af, Arg, components) /\ af \in [Arg -> SUBSET Arg]
      /\ Len(components) \in Nat \ {0}
    BY <1>1, WccComponents
<1>3. i \in 2 .. Len(components) + 1
    BY <1>1 DEF JoinStage
<1>4. \A k : covered(k) = Covered(components, k)
    BY DEF Covered
<1>5. \A k : unions(k) = Joined(k)
    BY <1>4, WccExtensions DEF Joined, WeakAnswers
<1> HIDE DEF covered, unions
<1>7. /\ Wcc!Cardinality(Wcc!Elements(res)) = Cardinality(Members(res))
      /\ Wcc!Elements(res) = Members(res)
    BY WccOperators
<1>8. CASE i > Len(components)
    <2>1. i - 1 = Len(components) /\ i - 1 \in 1 .. Len(components) /\ ~(i <= Len(components))
        BY <1>2, <1>3, <1>8
    <2>2. Listed(res, Joined(i - 1))
        BY <1>1, <1>8, <2>1 DEF JoinStage
    <2>3. Members(res) = unions(i - 1)
        BY <1>5, <2>2 DEF Listed
    <2>4. Cardinality(Members(res)) = Len(res)
        BY <2>2, ListedSize DEF Listed
    <2> QED
        BY <1>7, <2>1, <2>3, <2>4 DEF Wcc!JoinedSoFar, unions, covered
<1>9. CASE i <= Len(components)
    <2>1. i \in 2 .. Len(components) /\ i - 1 \in 1 .. Len(components) /\ i \in 1 .. Len(components)
          /\ ~(i > Len(components))
        BY <1>2, <1>3, <1>9
    <2> DEFINE X == Covered(components, i-1)
    <2>2. Joining(Arg, X, unions(i-1), unions(i), res, cur)
        BY <1>1, <1>5, <1>9 DEF JoinStage
    <2>3. covered(i-1) = X
        BY <1>4
    <2> DEFINE R == unions(i)
    <2> HIDE DEF X, R
    <2>4. Cardinality(Members(res)) = Len(res)
        BY <2>2, NoRepetitions DEF Joining, Once
    <2>5. old \subseteq unions(i-1)
        BY <2>2 DEF Joining
    <2>6. new = {e \in unions(i) : e \cap covered(i-1) \notin old}
        <3>1. \A x \in 1 .. cur-1 : /\ res[x] \in R
                                   /\ \A y \in cur .. Len(res) : res[y] # res[x] \cap X
            BY <2>2 DEF Joining, R
        <3>2. \A e \in R : \/ \E x \in 1 .. cur-1 : res[x] = e
                          \/ \E y \in cur .. Len(res) : res[y] = e \cap X
            BY <2>2 DEF Joining, R
        <3>3. \A e : e \cap X \in old <=> \E y \in cur .. Len(res) : res[y] = e \cap X
            OBVIOUS
        <3>4. \A e : e \in new <=> \E x \in 1 .. cur-1 : res[x] = e
            OBVIOUS
        <3> HIDE DEF old, new
        <3>5. new = {e \in R : e \cap X \notin old}
            <4>1. \A e \in new : e \in R /\ e \cap X \notin old
                BY <3>1, <3>3, <3>4
            <4>2. \A e \in R : e \cap X \notin old => e \in new
                BY <3>2, <3>3, <3>4
            <4> QED
                BY <4>1, <4>2
        <3> QED
            BY <2>3, <3>5 DEF R
    <2> QED
        BY <1>7, <2>1, <2>4, <2>5, <2>6 DEF Wcc!JoinedSoFar, unions, covered
<1> QED
    BY <1>2, <1>3, <1>8, <1>9

-------------------------------------------------------------------------------
(* Preferred extensions of a part of a framework.                            *)

AdmissibleIn(att, A) ==
    {S \in SUBSET A :
        \A a \in S : \A b \in A : /\ b \in S => a \notin att[b]
                                  /\ a \in att[b] => \E d \in S : b \in att[d]}

PreferredIn(att, A) ==
    {S \in AdmissibleIn(att, A) : \A T \in AdmissibleIn(att, A) : S \subseteq T => T = S}

LEMMA PreferredInWhole ==
    ASSUME NEW D, NEW att \in [D -> SUBSET D]
    PROVE  PreferredIn(att, D) = PreferredExtensions(att)
<1>1. ASSUME NEW S \in SUBSET D
      PROVE  S \in AdmissibleIn(att, D) <=> Admissible(att, S)
    BY DEF AdmissibleIn, Admissible, ConflictFreeIn, Defended
<1>2. AdmissibleIn(att, D) = AdmissibleSets(att)
    BY <1>1 DEF AdmissibleIn, AdmissibleSets
<1> QED
    BY <1>2 DEF PreferredIn, PreferredExtensions

(* What attacks the undecided arguments of the component C attacks itself in *)
(* the residual framework.                                                   *)
Looped(att, L) == [a \in DOMAIN att |-> att[a] \cup ({a} \cap L)]

Undecided(att, C, P) == C \ (P \cup Victims(att, P))

Loops(att, C, P) == Victims(att, Undecided(att, C, P))

ResidualPart(att, C, P) == DOMAIN att \ (C \cup Victims(att, P))

(* No argument outside C attacks one of C.                                   *)
Unattacked(att, C) == \A a \in DOMAIN att, b \in C : b \in att[a] => a \in C

(* An admissible set is one of the component and one of the residual         *)
(* framework.                                                                *)
LEMMA AdmissibleSplits ==
    ASSUME NEW D, NEW att \in [D -> SUBSET D], NEW C \in SUBSET D, Unattacked(att, C),
           NEW P \in AdmissibleIn(att, C), NEW T \in SUBSET ResidualPart(att, C, P)
    PROVE  P \cup T \in AdmissibleIn(att, D)
             <=> T \in AdmissibleIn(Looped(att, Loops(att, C, P)), ResidualPart(att, C, P))
<1> DEFINE V == Victims(att, P)
           U == Undecided(att, C, P)
           L == Loops(att, C, P)
           R == ResidualPart(att, C, P)
           lop == Looped(att, L)
           S == P \cup T
<1>1. /\ \A a \in D : a \in V <=> \E b \in P : a \in att[b]
      /\ V \subseteq D
    BY DEF Victims, SetAttacksArg, AdmissibleIn
<1>2. U = C \ (P \cup V)
    BY DEF Undecided
<1>3. \A a \in D : a \in L <=> \E b \in U : a \in att[b]
    BY <1>2 DEF Loops, Victims, SetAttacksArg
<1>4. R = D \ (C \cup V) /\ T \subseteq R
    BY DEF ResidualPart
<1>5. \A a, b \in D : b \in lop[a] <=> b \in att[a] \/ (a = b /\ a \in L)
    BY DEF Looped
<1>6. /\ P \subseteq C
      /\ \A a \in P : \A b \in C : /\ b \in P => a \notin att[b]
                                   /\ a \in att[b] => \E d \in P : b \in att[d]
    BY DEF AdmissibleIn
<1>7. \A a \in D, b \in C : b \in att[a] => a \in C
    BY DEF Unattacked
<1> HIDE DEF V, U, L, R, lop
<1>8. ASSUME S \in AdmissibleIn(att, D)
      PROVE  T \in AdmissibleIn(lop, R)
    <2>1. \A a \in S : \A b \in D : /\ b \in S => a \notin att[b]
                                    /\ a \in att[b] => \E d \in S : b \in att[d]
        BY <1>8 DEF AdmissibleIn
    <2>2. ASSUME NEW t \in T
          PROVE  t \notin L
        <3>1. SUFFICES ASSUME t \in L
                       PROVE  FALSE
            OBVIOUS
        <3>2. PICK u \in U : t \in att[u]
            BY <1>3, <1>4, <3>1
        <3>3. u \in D /\ u \in C
            BY <1>2, <3>2
        <3>4. PICK d \in S : u \in att[d]
            BY <2>1, <3>2, <3>3
        <3>5. d \in D
            BY <1>4, <1>6, <3>4
        <3>6. d \in P
            BY <1>4, <1>7, <3>3, <3>4, <3>5
        <3> QED
            BY <1>1, <1>2, <3>2, <3>3, <3>4, <3>6
    <2>3. ASSUME NEW t \in T, NEW b \in R
          PROVE  /\ b \in T => t \notin lop[b]
                 /\ t \in lop[b] => \E d \in T : b \in lop[d]
        <3>1. t \in D /\ b \in D /\ t \in S
            BY <1>4
        <3>2. b \in T => t \notin lop[b]
            BY <1>5, <2>1, <2>2, <3>1
        <3>3. ASSUME t \in lop[b]
              PROVE  \E d \in T : b \in lop[d]
            <4>1. t \in att[b]
                BY <1>5, <2>2, <3>1, <3>3
            <4>2. PICK d \in S : b \in att[d]
                BY <2>1, <3>1, <4>1
            <4>3. d \in T
                BY <1>1, <1>4, <3>1, <4>2
            <4> QED
                BY <1>4, <1>5, <3>1, <4>2, <4>3
        <3> QED
            BY <3>2, <3>3
    <2> QED
        BY <1>4, <2>3 DEF AdmissibleIn
<1>9. ASSUME T \in AdmissibleIn(lop, R)
      PROVE  S \in AdmissibleIn(att, D)
    <2>1. \A a \in T : \A b \in R : /\ b \in T => a \notin lop[b]
                                    /\ a \in lop[b] => \E d \in T : b \in lop[d]
        BY <1>9 DEF AdmissibleIn
    <2>2. \A t \in T : t \in D /\ t \in R /\ t \notin C /\ t \notin V
        BY <1>4
    <2>3. \A t \in T : t \notin L
        BY <1>5, <2>1, <2>2
    <2>4. ASSUME NEW a \in S, NEW b \in D
          PROVE  /\ b \in S => a \notin att[b]
                 /\ a \in att[b] => \E d \in S : b \in att[d]
        <3>1. CASE a \in P
            <4>1. a \in att[b] => b \in C
                BY <1>6, <1>7, <3>1
            <4> QED
                BY <1>6, <2>2, <3>1, <4>1
        <3>2. CASE a \in T
            <4>1. b \in P => a \notin att[b]
                BY <1>1, <2>2, <3>2
            <4>2. b \in T => a \notin att[b]
                BY <1>5, <2>1, <2>2, <3>2
            <4>3. ASSUME a \in att[b]
                  PROVE  \E d \in S : b \in att[d]
                <5>1. CASE b \in V
                    BY <1>1, <5>1
                <5>2. CASE b \in R
                    <6>1. PICK d \in T : b \in lop[d]
                        BY <1>5, <2>1, <2>2, <3>2, <4>3, <5>2
                    <6>2. b \in att[d]
                        BY <1>5, <2>2, <2>3, <6>1
                    <6> QED
                        BY <6>2
                <5>3. CASE b \in U
                    BY <1>3, <2>2, <2>3, <3>2, <4>3, <5>3
                <5> QED
                    BY <1>2, <1>4, <4>1, <4>3, <5>1, <5>2, <5>3
            <4> QED
                BY <4>1, <4>2, <4>3
        <3> QED
            BY <3>1, <3>2
    <2>5. S \in SUBSET D
        BY <1>6, <2>2
    <2> QED
        BY <2>4, <2>5 DEF AdmissibleIn
<1> QED
    BY <1>8, <1>9 DEF R, L, lop

LEMMA AdmissibleParts ==
    ASSUME NEW D, NEW att \in [D -> SUBSET D], NEW C \in SUBSET D, Unattacked(att, C),
           NEW S \in AdmissibleIn(att, D)
    PROVE  /\ S \cap C \in AdmissibleIn(att, C)
           /\ S \ C \in SUBSET ResidualPart(att, C, S \cap C)
           /\ \A P \in AdmissibleIn(att, C) :
                S \cap C \subseteq P => P \cup (S \ C) \in AdmissibleIn(att, D)
<1>1. /\ S \in SUBSET D
      /\ \A a \in S : \A b \in D : /\ b \in S => a \notin att[b]
                                   /\ a \in att[b] => \E d \in S : b \in att[d]
    BY DEF AdmissibleIn
<1>2. \A a \in D, b \in C : b \in att[a] => a \in C
    BY DEF Unattacked
<1>3. S \cap C \in AdmissibleIn(att, C)
    BY <1>1, <1>2 DEF AdmissibleIn
<1>4. S \ C \in SUBSET ResidualPart(att, C, S \cap C)
    BY <1>1 DEF ResidualPart, Victims, SetAttacksArg
<1>5. ASSUME NEW P \in AdmissibleIn(att, C), S \cap C \subseteq P
      PROVE  P \cup (S \ C) \in AdmissibleIn(att, D)
    <2>1. /\ P \subseteq C
          /\ \A a \in P : \A b \in C : /\ b \in P => a \notin att[b]
                                       /\ a \in att[b] => \E d \in P : b \in att[d]
        BY DEF AdmissibleIn
    <2> DEFINE Q == P \cup (S \ C)
    <2>2. \A a \in S : a \in Q
        BY <1>5
    <2>3. ASSUME NEW a \in Q, NEW b \in D
          PROVE  /\ b \in Q => a \notin att[b]
                 /\ a \in att[b] => \E d \in Q : b \in att[d]
        <3>1. CASE a \in P
            BY <1>2, <2>1, <3>1
        <3>2. CASE a \in S \ C
            <4>1. a \in att[b] => \E d \in S : b \in att[d]
                BY <1>1, <3>2
            <4>2. ASSUME b \in P, a \in att[b]
                  PROVE  FALSE
                <5>1. PICK d \in S : b \in att[d]
                    BY <4>1, <4>2
                <5>2. d \in P
                    BY <1>1, <1>2, <1>5, <2>1, <4>2, <5>1
                <5> QED
                    BY <2>1, <4>2, <5>1, <5>2
            <4>3. b \in S => a \notin att[b]
                BY <1>1, <3>2
            <4> QED
                BY <2>2, <4>1, <4>2, <4>3
        <3> QED
            BY <3>1, <3>2
    <2>4. Q \in SUBSET D
        BY <1>1, <2>1
    <2> QED
        BY <2>3, <2>4 DEF AdmissibleIn
<1> QED
    BY <1>3, <1>4, <1>5

(* A preferred extension is one of the component and one of the residual     *)
(* framework.                                                                *)
ResidualPreferred(att, C, P) ==
    PreferredIn(Looped(att, Loops(att, C, P)), ResidualPart(att, C, P))

PreferredSplit(att, D, C) ==
    /\ \A S \in PreferredIn(att, D) :
         S \cap C \in PreferredIn(att, C) /\ S \ C \in ResidualPreferred(att, C, S \cap C)
    /\ \A P \in PreferredIn(att, C) : \A T \in ResidualPreferred(att, C, P) :
         P \cup T \in PreferredIn(att, D) /\ T \cap C = {}

(* What the recursion of compute_preferred_extensions rests on: the arguments*)
(* that an extension leaves undecided in the component turn their victims into*)
(* self-attackers, and nothing more need be known of them outside.          *)
THEOREM PreferredSplits ==
    ASSUME NEW D, NEW att \in [D -> SUBSET D], NEW C \in SUBSET D, Unattacked(att, C)
    PROVE  PreferredSplit(att, D, C)
<1> DEFINE lop(P) == Looped(att, Loops(att, C, P))
           R(P) == ResidualPart(att, C, P)
<1>1. \A P : R(P) \cap C = {}
    BY DEF ResidualPart
<1>2. \A P : R(P) \subseteq D
    BY DEF ResidualPart
<1>3. \A P \in AdmissibleIn(att, C) : \A T \in SUBSET R(P) :
        P \cup T \in AdmissibleIn(att, D) <=> T \in AdmissibleIn(lop(P), R(P))
    BY AdmissibleSplits
<1>4. \A S \in AdmissibleIn(att, D) :
        /\ S \cap C \in AdmissibleIn(att, C) /\ S \ C \in SUBSET R(S \cap C)
        /\ \A P \in AdmissibleIn(att, C) :
                S \cap C \subseteq P => P \cup (S \ C) \in AdmissibleIn(att, D)
    BY AdmissibleParts
<1>5. /\ \A P, T : T \in AdmissibleIn(lop(P), R(P)) => T \in SUBSET R(P)
      /\ \A P \in AdmissibleIn(att, C) : P \subseteq C
      /\ \A S \in AdmissibleIn(att, D) : S \subseteq D
    BY DEF AdmissibleIn
<1>6. \A P : ResidualPreferred(att, C, P) = PreferredIn(lop(P), R(P))
    BY DEF ResidualPreferred
<1> HIDE DEF lop, R
<1>7. ASSUME NEW S \in PreferredIn(att, D)
      PROVE  S \cap C \in PreferredIn(att, C) /\ S \ C \in PreferredIn(lop(S \cap C), R(S \cap C))
    <2> DEFINE P == S \cap C
               T == S \ C
    <2>1. S \in AdmissibleIn(att, D) /\ \A X \in AdmissibleIn(att, D) : S \subseteq X => X = S
        BY DEF PreferredIn
    <2>2. P \in AdmissibleIn(att, C) /\ T \in SUBSET R(P)
        BY <1>4, <2>1
    <2>3. S = P \cup T
        OBVIOUS
    <2>4. T \in AdmissibleIn(lop(P), R(P))
        <3> HIDE DEF P, T
        <3> QED
            BY <1>3, <2>1, <2>2, <2>3
    <2>5. ASSUME NEW Q \in AdmissibleIn(att, C), P \subseteq Q
          PROVE  Q = P
        <3>1. Q \cup T \in AdmissibleIn(att, D)
            BY <1>4, <2>1, <2>5
        <3>2. Q \cup T = S
            BY <2>1, <2>5, <3>1
        <3>3. Q \subseteq C
            BY <1>5
        <3> QED
            BY <2>5, <3>2, <3>3
    <2>6. ASSUME NEW X \in AdmissibleIn(lop(P), R(P)), T \subseteq X
          PROVE  X = T
        <3>1. X \in SUBSET R(P)
            BY <1>5
        <3>2. P \cup X \in AdmissibleIn(att, D)
            <4> HIDE DEF P, T
            <4> QED
                BY <1>3, <2>2, <3>1
        <3>3. P \cup X = S
            BY <2>1, <2>6, <3>2
        <3>4. X \cap C = {}
            BY <1>1, <3>1
        <3> QED
            BY <2>6, <3>3, <3>4
    <2> HIDE DEF P, T
    <2>7. P \in PreferredIn(att, C) /\ T \in PreferredIn(lop(P), R(P))
        BY <2>2, <2>4, <2>5, <2>6 DEF PreferredIn
    <2> QED
        BY <2>7 DEF P, T
<1>8. ASSUME NEW P \in PreferredIn(att, C), NEW T \in PreferredIn(lop(P), R(P))
      PROVE  P \cup T \in PreferredIn(att, D) /\ T \cap C = {}
    <2>1. P \in AdmissibleIn(att, C) /\ \A Q \in AdmissibleIn(att, C) : P \subseteq Q => Q = P
        BY DEF PreferredIn
    <2>2. /\ T \in AdmissibleIn(lop(P), R(P))
          /\ \A X \in AdmissibleIn(lop(P), R(P)) : T \subseteq X => X = T
        BY DEF PreferredIn
    <2>3. T \in SUBSET R(P) /\ T \cap C = {} /\ P \subseteq C
        BY <1>1, <1>5, <2>1, <2>2
    <2>4. P \cup T \in AdmissibleIn(att, D)
        BY <1>3, <2>1, <2>2, <2>3
    <2>5. ASSUME NEW X \in AdmissibleIn(att, D), P \cup T \subseteq X
          PROVE  X = P \cup T
        <3> DEFINE Q == X \cap C
                   Y == X \ C
        <3>1. Q \in AdmissibleIn(att, C) /\ Y \in SUBSET R(Q)
            BY <1>4
        <3>2. P \subseteq Q /\ T \subseteq Y
            BY <2>3, <2>5
        <3>3. X = Q \cup Y
            OBVIOUS
        <3> HIDE DEF Q, Y
        <3>4. Q = P
            BY <2>1, <3>1, <3>2
        <3>5. Y \in AdmissibleIn(lop(P), R(P))
            BY <1>3, <2>1, <3>1, <3>3, <3>4
        <3>6. Y = T
            BY <2>2, <3>2, <3>5
        <3> QED
            BY <3>3, <3>4, <3>6
    <2> QED
        BY <2>3, <2>4, <2>5 DEF PreferredIn
<1> QED
    BY <1>6, <1>7, <1>8 DEF PreferredSplit

(* Solving a framework whose arguments are numbered.                         *)
LEMMA NumberingAdmissible ==
    ASSUME NEW att, NEW A, NEW E, NEW m, Numbering(m, E, A), NEW ren,
           \A x, y \in E : y \in ren[x] <=> m[y] \in att[m[x]], NEW S \in SUBSET E
    PROVE  S \in AdmissibleIn(ren, E) <=> MapIndices(S, m) \in AdmissibleIn(att, A)
<1> DEFINE T == MapIndices(S, m)
           good(a) == a \in T => \A b \in A :
                        /\ b \in T => a \notin att[b]
                        /\ a \in att[b] => \E d \in T : b \in att[d]
           fine(x) == x \in S => \A y \in E :
                        /\ y \in S => x \notin ren[y]
                        /\ x \in ren[y] => \E d \in S : y \in ren[d]
<1>1. T \in SUBSET A /\ \A x \in E : m[x] \in T <=> x \in S
    BY Numbered
<1>2. (\A x \in E : m[x] \in A) /\ \A a \in A : \E x \in E : m[x] = a
    BY DEF Numbering
<1>3. \A a \in T : \E x \in S : m[x] = a
    BY DEF MapIndices
<1> HIDE DEF T
<1>4. ASSUME NEW y \in E
      PROVE  (\E d \in S : y \in ren[d]) <=> \E d \in T : m[y] \in att[d]
    BY <1>1, <1>3
<1>5. ASSUME NEW x \in E
      PROVE  fine(x) <=> good(m[x])
    <2> DEFINE ok(y) == /\ y \in S => x \notin ren[y]
                        /\ x \in ren[y] => \E d \in S : y \in ren[d]
               OK(b) == /\ b \in T => m[x] \notin att[b]
                        /\ m[x] \in att[b] => \E d \in T : b \in att[d]
    <2>1. \A y \in E : ok(y) <=> OK(m[y])
        BY <1>1, <1>4
    <2>2. fine(x) <=> (x \in S => \A y \in E : ok(y))
        OBVIOUS
    <2>3. good(m[x]) <=> (m[x] \in T => \A b \in A : OK(b))
        OBVIOUS
    <2> HIDE DEF ok, OK, good, fine
    <2>4. (\A y \in E : ok(y)) <=> \A b \in A : OK(b)
        BY <1>2, <2>1
    <2> QED
        BY <1>1, <2>2, <2>3, <2>4
<1>6. T \in AdmissibleIn(att, A) <=> \A a \in A : good(a)
    BY <1>1 DEF AdmissibleIn
<1>7. S \in AdmissibleIn(ren, E) <=> \A x \in E : fine(x)
    BY DEF AdmissibleIn
<1> HIDE DEF good, fine
<1>8. (\A x \in E : fine(x)) <=> \A a \in A : good(a)
    BY <1>2, <1>5
<1> QED
    BY <1>6, <1>7, <1>8 DEF T

LEMMA NumberingPreferred ==
    ASSUME NEW att, NEW A, NEW E, NEW m, Numbering(m, E, A), NEW ren \in [E -> SUBSET E],
           \A x, y \in E : y \in ren[x] <=> m[y] \in att[m[x]]
    PROVE  /\ PreferredExtensions(ren) \in SUBSET SUBSET E
           /\ {MapIndices(e, m) : e \in PreferredExtensions(ren)} = PreferredIn(att, A)
<1>1. PreferredExtensions(ren) = PreferredIn(ren, E)
    BY PreferredInWhole
<1>2. \A S \in SUBSET E : S \in AdmissibleIn(ren, E) <=> MapIndices(S, m) \in AdmissibleIn(att, A)
    BY NumberingAdmissible
<1>3. \A T \in SUBSET A : \E S \in SUBSET E : MapIndices(S, m) = T
    <2>1. ASSUME NEW T \in SUBSET A
          PROVE  \E S \in SUBSET E : MapIndices(S, m) = T
        BY NumberedOnto
    <2> QED
        BY <2>1
<1>4. \A S, T \in SUBSET E : MapIndices(S, m) \subseteq MapIndices(T, m) <=> S \subseteq T
    BY Numbered
<1>5. \A S, T \in SUBSET E : MapIndices(S, m) = MapIndices(T, m) => S = T
    BY Numbered
<1>6. /\ \A S \in AdmissibleIn(ren, E) : S \in SUBSET E
      /\ \A T \in AdmissibleIn(att, A) : T \in SUBSET A
    BY DEF AdmissibleIn
<1>7. ASSUME NEW S \in PreferredIn(ren, E)
      PROVE  MapIndices(S, m) \in PreferredIn(att, A)
    <2>1. S \in SUBSET E /\ S \in AdmissibleIn(ren, E)
          /\ \A X \in AdmissibleIn(ren, E) : S \subseteq X => X = S
        BY <1>6 DEF PreferredIn
    <2>2. ASSUME NEW T \in AdmissibleIn(att, A), MapIndices(S, m) \subseteq T
          PROVE  T = MapIndices(S, m)
        <3>1. PICK X \in SUBSET E : MapIndices(X, m) = T
            BY <1>3, <1>6
        <3>2. X \in AdmissibleIn(ren, E) /\ S \subseteq X
            BY <1>2, <1>4, <2>1, <2>2, <3>1
        <3> QED
            BY <2>1, <3>1, <3>2
    <2> QED
        BY <1>2, <2>1, <2>2 DEF PreferredIn
<1>8. ASSUME NEW T \in PreferredIn(att, A)
      PROVE  \E S \in PreferredIn(ren, E) : MapIndices(S, m) = T
    <2>1. T \in AdmissibleIn(att, A) /\ \A X \in AdmissibleIn(att, A) : T \subseteq X => X = T
        BY DEF PreferredIn
    <2>2. PICK S \in SUBSET E : MapIndices(S, m) = T
        BY <1>3, <1>6, <2>1
    <2>3. S \in AdmissibleIn(ren, E)
        BY <1>2, <2>1, <2>2
    <2>4. ASSUME NEW X \in AdmissibleIn(ren, E), S \subseteq X
          PROVE  X = S
        <3>1. X \in SUBSET E
            BY <1>6
        <3>2. MapIndices(X, m) \in AdmissibleIn(att, A) /\ T \subseteq MapIndices(X, m)
            BY <1>2, <1>4, <2>2, <2>4, <3>1
        <3> QED
            BY <1>5, <2>1, <2>2, <3>1, <3>2
    <2>5. S \in PreferredIn(ren, E)
        BY <2>3, <2>4 DEF PreferredIn
    <2> QED
        BY <2>2, <2>5
<1>9. {MapIndices(e, m) : e \in PreferredIn(ren, E)} = PreferredIn(att, A)
    BY <1>7, <1>8
<1>10. PreferredIn(ren, E) \in SUBSET SUBSET E
    BY <1>6 DEF PreferredIn
<1> QED
    BY <1>1, <1>9, <1>10

-------------------------------------------------------------------------------
(* The frameworks of the recursion.                                          *)

LEMMA PreferredOperators ==
    /\ \A S, m : Preferred!MapIndices(S, m) = MapIndices(S, m)
    /\ \A A : Preferred!ParentMapping(A) = ParentMapping(A)
    /\ \A att, m : Preferred!Renamed(att, m) = Renamed(att, m)
    /\ \A att, S : Preferred!Victims(att, S) = Victims(att, S)
    /\ \A att : Preferred!PreferredExtensions(att) = PreferredExtensions(att)
    /\ \A set : Preferred!Listings(set) = Listings(set)
    /\ \A s : Preferred!Cardinality(s) = Cardinality(s)
    /\ \A att, A : Preferred!SourceComponent(att, A) = SourceComponent(att, A)
    /\ Preferred!Arg = Arg /\ Preferred!Framework = Framework
<1>1. \A s : Preferred!Cardinality(s) = Cardinality(s)
    BY DEF Preferred!Cardinality, Cardinality
<1>2. \A S, m : Preferred!MapIndices(S, m) = MapIndices(S, m)
    BY DEF Preferred!MapIndices, MapIndices
<1>3. \A A : Preferred!ParentMapping(A) = ParentMapping(A)
    BY DEF Preferred!ParentMapping, ParentMapping, Preferred!Cardinality, Cardinality
<1>4. \A att, m : Preferred!Renamed(att, m) = Renamed(att, m)
    BY DEF Preferred!Renamed, Renamed
<1>5. \A att : Preferred!PreferredExtensions(att) = PreferredExtensions(att)
    BY DEF Preferred!PreferredExtensions, Preferred!AdmissibleSets, Preferred!Admissible,
           Preferred!ConflictFreeIn, Preferred!Defended,
           PreferredExtensions, AdmissibleSets, Admissible, ConflictFreeIn, Defended
<1>6. \A set : Preferred!Listings(set) = Listings(set)
    BY <1>1 DEF Preferred!Listings, Listings
<1>7. \A att, S : Preferred!Victims(att, S) = Victims(att, S)
    BY DEF Preferred!Victims, Victims, Preferred!SetAttacksArg, SetAttacksArg
<1>8. \A att, A : Preferred!SourceComponent(att, A) = SourceComponent(att, A)
    BY DEF Preferred!SourceComponent, SourceComponent, Preferred!Starts, Starts,
           Preferred!Visited, Visited, Preferred!Forward, Forward, Preferred!Backward, Backward,
           Preferred!Cardinality, Cardinality
<1>9. Preferred!Arg = Arg /\ Preferred!Framework = Framework
    BY DEF Preferred!Arg, Arg, Preferred!Framework, Framework
<1> QED
    BY <1>1, <1>2, <1>3, <1>4, <1>5, <1>6, <1>7, <1>8, <1>9

(* base_mapping names different arguments of the framework read.             *)
Injects(m, D) == m \in [D -> Arg] /\ \A x, y \in D : m[x] = m[y] => x = y

PafOk(paf) ==
    /\ DOMAIN paf.af \in SUBSET Nat /\ IsFiniteSet(DOMAIN paf.af)
    /\ paf.af \in [DOMAIN paf.af -> SUBSET DOMAIN paf.af]
    /\ Injects(paf.base_mapping, DOMAIN paf.af)

(* The preferred extensions of a framework of the recursion, in the indices  *)
(* of the framework read.                                                    *)
AnswerOf(paf) == {MapIndices(e, paf.base_mapping) : e \in PreferredExtensions(paf.af)}

InBase(F, m) == {MapIndices(S, m) : S \in F}

LEMMA AnswerIn ==
    ASSUME NEW paf, PafOk(paf)
    PROVE  /\ AnswerOf(paf) = InBase(PreferredIn(paf.af, DOMAIN paf.af), paf.base_mapping)
           /\ AnswerOf(paf) \in SUBSET SUBSET Arg
<1> DEFINE D == DOMAIN paf.af
<1>1. PreferredIn(paf.af, D) = PreferredExtensions(paf.af)
    BY PreferredInWhole DEF PafOk
<1>2. PreferredIn(paf.af, D) \in SUBSET SUBSET D
    BY DEF PreferredIn, AdmissibleIn
<1>3. \A S \in SUBSET D : MapIndices(S, paf.base_mapping) \in SUBSET Arg
    BY DEF MapIndices, PafOk, Injects
<1> QED
    BY <1>1, <1>2, <1>3 DEF AnswerOf, InBase

LEMMA NothingPreferred ==
    /\ PafOk(Preferred!NoPaf) /\ AnswerOf(Preferred!NoPaf) = {{}}
    /\ DOMAIN Preferred!NoPaf.af = {}
    /\ \A att : PreferredIn(att, {}) = {{}}
    /\ \A att, a : a \in att[a] => PreferredIn(att, {a}) = {{}}
<1> DEFINE none == Preferred!NoPaf
<1>1. none.af = <<>> /\ none.base_mapping = <<>>
    BY DEF Preferred!NoPaf, Preferred!Paf
<1>2. DOMAIN <<>> = {} /\ <<>> \in [{} -> SUBSET {}] /\ <<>> \in [{} -> Arg]
    OBVIOUS
<1>3. \A att : PreferredIn(att, {}) = {{}}
    <2> TAKE att
    <2>1. AdmissibleIn(att, {}) = {{}}
        BY DEF AdmissibleIn
    <2> QED
        BY <2>1 DEF PreferredIn
<1>4. PafOk(none)
    <2>1. IsFiniteSet({})
        BY FS_EmptySet
    <2> QED
        BY <1>1, <1>2, <2>1 DEF PafOk, Injects
<1>5. AnswerOf(none) = {{}}
    <2>1. PreferredExtensions(<<>>) = {{}}
        BY <1>2, <1>3, PreferredInWhole
    <2>2. MapIndices({}, <<>>) = {}
        BY DEF MapIndices
    <2> HIDE DEF none
    <2> QED
        BY <1>1, <2>1, <2>2 DEF AnswerOf
<1>6. ASSUME NEW att, NEW a, a \in att[a]
      PROVE  PreferredIn(att, {a}) = {{}}
    <2>1. AdmissibleIn(att, {a}) = {{}}
        BY <1>6 DEF AdmissibleIn
    <2> QED
        BY <2>1 DEF PreferredIn
<1> QED
    BY <1>1, <1>2, <1>3, <1>4, <1>5, <1>6

(* project_paf_with_loops.                                                   *)
Projects(paf, A, L, q) ==
    /\ PafOk(q) /\ (q = Preferred!NoPaf \/ DOMAIN q.af # {})
    /\ AnswerOf(q) = InBase(PreferredIn(Looped(paf.af, L), A), paf.base_mapping)

LEMMA ProjectedToNone ==
    ASSUME NEW paf, PafOk(paf), NEW A, A \in SUBSET DOMAIN paf.af, NEW L,
           Preferred!CountLoops(A \cap L) = Cardinality(A)
    PROVE  Projects(paf, A, L, Preferred!NoPaf)
<1> DEFINE lop == Looped(paf.af, L)
<1>1. IsFiniteSet(A)
    BY FS_Subset DEF PafOk
<1>2. A = {} \/ \E a \in A : A = {a} /\ a \in L
    <2>1. CASE A \cap L = {}
        <3>1. Cardinality(A) = 0
            BY <2>1 DEF Preferred!CountLoops
        <3> QED
            BY <1>1, <3>1, FS_EmptySet
    <2>2. CASE A \cap L # {}
        <3>1. Cardinality(A) = 1
            BY <2>2 DEF Preferred!CountLoops
        <3>2. PICK a : A = {a}
            BY <1>1, <3>1, FS_Singleton
        <3> QED
            BY <2>2, <3>2
    <2> QED
        BY <2>1, <2>2
<1>3. \A a \in A : a \in L => a \in lop[a]
    BY DEF Looped
<1>4. PreferredIn(lop, A) = {{}}
    BY <1>2, <1>3, NothingPreferred
<1>5. MapIndices({}, paf.base_mapping) = {}
    BY DEF MapIndices
<1> HIDE DEF lop
<1>6. InBase(PreferredIn(lop, A), paf.base_mapping) = {{}}
    BY <1>4, <1>5 DEF InBase
<1> QED
    BY <1>6, NothingPreferred DEF Projects, lop

LEMMA MappedTwice ==
    ASSUME NEW S, NEW m, NEW bm, NEW both, \A x \in S : both[x] = bm[m[x]]
    PROVE  MapIndices(S, both) = MapIndices(MapIndices(S, m), bm)
<1>1. \A y : y \in MapIndices(S, both) <=> \E x \in S : y = bm[m[x]]
    BY DEF MapIndices
<1>2. \A y : y \in MapIndices(MapIndices(S, m), bm) <=> \E x \in S : y = bm[m[x]]
    BY DEF MapIndices
<1> QED
    BY <1>1, <1>2

Projection(paf, A, L, E, q) ==
    /\ q.af \in [E -> SUBSET E] /\ Injects(q.base_mapping, E)
    /\ AnswerOf(q) = InBase(PreferredIn(Looped(paf.af, L), A), paf.base_mapping)

LEMMA ProjectionPreferred ==
    ASSUME NEW paf, NEW D, DOMAIN paf.af = D, Injects(paf.base_mapping, D),
           NEW A \in SUBSET D, NEW L, NEW E, Numbering(ParentMapping(A), E, A),
           Preferred!CountLoops(A \cap L) # Cardinality(A)
    PROVE  Projection(paf, A, L, E, Preferred!ProjectPaf(paf, A, L))
<1> DEFINE q == Preferred!ProjectPaf(paf, A, L)
           pm == ParentMapping(A)
           projected == Renamed(paf.af, pm)
           bm == paf.base_mapping
           lop == Looped(paf.af, L)
<1>4. /\ q.af = [a \in DOMAIN projected |-> projected[a] \cup {b \in {a} : pm[b] \in L}]
      /\ q.base_mapping = [a \in DOMAIN projected |-> bm[pm[a]]]
    BY PreferredOperators DEF Preferred!ProjectPaf, Preferred!Paf
<1>5. DOMAIN pm = E /\ (\A x \in E : pm[x] \in A) /\ \A x, y \in E : pm[x] = pm[y] => x = y
    BY DEF Numbering
<1>6. /\ DOMAIN projected = E
      /\ \A x \in E : projected[x] = {y \in E : pm[y] \in paf.af[pm[x]]}
    BY <1>5 DEF Renamed
<1>a. Numbering(pm, E, A)
    OBVIOUS
<1> HIDE DEF q, pm, projected, bm
<1>7. /\ DOMAIN q.af = E /\ DOMAIN q.base_mapping = E
      /\ \A x \in E : /\ q.af[x] = projected[x] \cup {b \in {x} : pm[b] \in L}
                      /\ q.base_mapping[x] = bm[pm[x]]
    BY <1>4, <1>6
<1>8. q.af \in [E -> SUBSET E]
    <2>1. \A x \in E : q.af[x] \in SUBSET E
        BY <1>6, <1>7
    <2> QED
        BY <1>4, <1>6, <1>7, <2>1
<1>9. \A x, y \in E : y \in q.af[x] <=> pm[y] \in lop[pm[x]]
    <2>1. \A x \in E : lop[pm[x]] = paf.af[pm[x]] \cup ({pm[x]} \cap L)
        BY <1>5 DEF Looped
    <2> HIDE DEF lop
    <2> QED
        BY <1>5, <1>6, <1>7, <2>1
<1>10. Injects(q.base_mapping, E)
    <2>1. bm \in [D -> Arg] /\ \A x, y \in D : bm[x] = bm[y] => x = y
        BY DEF Injects, bm
    <2>2. \A x \in E : pm[x] \in D /\ q.base_mapping[x] = bm[pm[x]]
        BY <1>5, <1>7
    <2>3. \A x \in E : q.base_mapping[x] \in Arg
        BY <2>1, <2>2
    <2>4. q.base_mapping \in [E -> Arg]
        BY <1>4, <1>6, <1>7, <2>3
    <2>5. \A x, y \in E : q.base_mapping[x] = q.base_mapping[y] => x = y
        BY <1>5, <2>1, <2>2
    <2> QED
        BY <2>4, <2>5 DEF Injects
<1> HIDE DEF lop
<1> DEFINE F == PreferredExtensions(q.af)
<1>13. F \in SUBSET SUBSET E /\ {MapIndices(e, pm) : e \in F} = PreferredIn(lop, A)
    BY <1>8, <1>9, <1>a, NumberingPreferred
<1> HIDE DEF F
<1>14. ASSUME NEW e \in F
       PROVE  MapIndices(e, q.base_mapping) = MapIndices(MapIndices(e, pm), bm)
    <2>1. e \subseteq E
        BY <1>13
    <2>2. \A x \in e : q.base_mapping[x] = bm[pm[x]]
        BY <1>7, <2>1
    <2> QED
        BY <2>2, MappedTwice
<1>15. AnswerOf(q) = InBase(PreferredIn(lop, A), bm)
    <2>1. AnswerOf(q) = {MapIndices(MapIndices(e, pm), bm) : e \in F}
        BY <1>14 DEF AnswerOf, F
    <2>2. \A e \in F : MapIndices(e, pm) \in PreferredIn(lop, A)
        BY <1>13
    <2>3. \A S \in PreferredIn(lop, A) : \E e \in F : MapIndices(e, pm) = S
        BY <1>13
    <2> QED
        BY <2>1, <2>2, <2>3 DEF InBase
<1> QED
    BY <1>8, <1>10, <1>15 DEF Projection, q, lop, bm

LEMMA ProjectedPaf ==
    ASSUME NEW paf, PafOk(paf), NEW A, A \in SUBSET DOMAIN paf.af, NEW L
    PROVE  Projects(paf, A, L, Preferred!ProjectPaf(paf, A, L))
<1> DEFINE q == Preferred!ProjectPaf(paf, A, L)
           pm == ParentMapping(A)
<1>1. CASE Preferred!CountLoops(A \cap L) = Cardinality(A)
    <2>1. q = Preferred!NoPaf
        BY <1>1, PreferredOperators DEF Preferred!ProjectPaf
    <2> QED
        BY <1>1, <2>1, ProjectedToNone
<1>2. CASE Preferred!CountLoops(A \cap L) # Cardinality(A)
    <2>1. A \in SUBSET Nat /\ IsFiniteSet(A)
        BY FS_Subset DEF PafOk
    <2>2. PICK E \in SUBSET Nat : IsFiniteSet(E) /\ E = 0 .. Cardinality(A)-1 /\ Numbering(pm, E, A)
        BY <2>1, ParentNumbers
    <2>3. A # {}
        <3>1. SUFFICES ASSUME A = {}
                       PROVE  FALSE
            OBVIOUS
        <3>2. A \cap L = {} /\ Cardinality(A) = 0
            BY <3>1, FS_EmptySet
        <3> QED
            BY <1>2, <3>2 DEF Preferred!CountLoops
    <2>4. E # {}
        BY <2>2, <2>3 DEF Numbering
    <2> HIDE DEF q
    <2>5. Injects(paf.base_mapping, DOMAIN paf.af)
        BY DEF PafOk
    <2>6. Projection(paf, A, L, E, q)
        BY <1>2, <2>2, <2>5, ProjectionPreferred DEF q
    <2>7. DOMAIN q.af = E
        BY <2>6 DEF Projection
    <2>8. PafOk(q)
        BY <2>2, <2>6, <2>7 DEF PafOk, Projection
    <2> QED
        BY <2>4, <2>6, <2>7, <2>8 DEF Projects, Projection, q
<1> QED
    BY <1>1, <1>2

LEMMA ResidualRight ==
    ASSUME NEW paf, PafOk(paf), NEW C, C \in SUBSET DOMAIN paf.af, NEW P, P \in SUBSET C
    PROVE  Projects(paf, ResidualPart(paf.af, C, P), Loops(paf.af, C, P),
                    Preferred!Residual(paf, C, MapIndices(P, paf.base_mapping)))
<1> DEFINE att == paf.af
           bm == paf.base_mapping
           D == DOMAIN paf.af
           E == MapIndices(P, paf.base_mapping)
           R == ResidualPart(paf.af, C, P)
           L == Loops(paf.af, C, P)
           accepted == {a \in D : bm[a] \in E}
           rest == Preferred!Remainder(paf, E)
           q == Preferred!Residual(paf, C, E)
<1>1. accepted = P
    <2>1. \A x, y \in D : bm[x] = bm[y] => x = y
        BY DEF PafOk, Injects
    <2> QED
        BY <2>1 DEF MapIndices
<1>2. rest = D \ (P \cup Victims(att, P))
    BY <1>1, PreferredOperators DEF Preferred!Remainder
<1>3. rest \ C = R /\ C \cap rest = Undecided(att, C, P)
    BY <1>2 DEF ResidualPart, Undecided
<1>4. Preferred!Undefended(paf, C, E) = L
    BY <1>3, PreferredOperators DEF Preferred!Undefended, Loops
<1>5. q = IF R = {} THEN Preferred!NoPaf ELSE Preferred!ProjectPaf(paf, R, L)
    BY <1>3, <1>4 DEF Preferred!Residual
<1>6. R \in SUBSET D
    BY DEF ResidualPart
<1> HIDE DEF R, L, q
<1>7. CASE R # {}
    BY <1>5, <1>6, <1>7, ProjectedPaf DEF R, L, q
<1>8. CASE R = {}
    <2>1. q = Preferred!NoPaf
        BY <1>5, <1>8
    <2>2. PreferredIn(Looped(att, L), R) = {{}}
        BY <1>8, NothingPreferred
    <2>3. MapIndices({}, bm) = {}
        BY DEF MapIndices
    <2>4. InBase(PreferredIn(Looped(att, L), R), bm) = {{}}
        BY <2>2, <2>3 DEF InBase
    <2> QED
        BY <2>1, <2>4, NothingPreferred DEF Projects, R, L, q
<1> QED
    BY <1>7, <1>8

(* The preferred extensions of a framework of the recursion are those of its *)
(* source component, each with those of the residual framework it leaves.    *)
InComponent(paf, C) == MapIndices(C, paf.base_mapping)

PafSplit(paf, C, proj) ==
    /\ \A E \in AnswerOf(proj) : E \subseteq InComponent(paf, C)
    /\ \A E \in AnswerOf(proj) : \A T \in AnswerOf(Preferred!Residual(paf, C, E)) :
            E \cup T \in AnswerOf(paf) /\ T \cap InComponent(paf, C) = {}
    /\ \A S \in AnswerOf(paf) :
            /\ S \cap InComponent(paf, C) \in AnswerOf(proj)
            /\ S \ InComponent(paf, C)
                \in AnswerOf(Preferred!Residual(paf, C, S \cap InComponent(paf, C)))

(* The images under an injective mapping.                                    *)
LEMMA Images ==
    ASSUME NEW D, NEW m, \A x, y \in D : m[x] = m[y] => x = y
    PROVE  /\ \A S, T \in SUBSET D :
                /\ MapIndices(S \cup T, m) = MapIndices(S, m) \cup MapIndices(T, m)
                /\ MapIndices(S \cap T, m) = MapIndices(S, m) \cap MapIndices(T, m)
                /\ MapIndices(S \ T, m) = MapIndices(S, m) \ MapIndices(T, m)
                /\ S \subseteq T => MapIndices(S, m) \subseteq MapIndices(T, m)
                /\ MapIndices(S, m) = MapIndices(T, m) => S = T
           /\ MapIndices({}, m) = {}
<1>1. ASSUME NEW S \in SUBSET D, NEW T \in SUBSET D
      PROVE  /\ MapIndices(S \cup T, m) = MapIndices(S, m) \cup MapIndices(T, m)
             /\ MapIndices(S \cap T, m) = MapIndices(S, m) \cap MapIndices(T, m)
             /\ MapIndices(S \ T, m) = MapIndices(S, m) \ MapIndices(T, m)
             /\ S \subseteq T => MapIndices(S, m) \subseteq MapIndices(T, m)
             /\ MapIndices(S, m) = MapIndices(T, m) => S = T
    <2>1. MapIndices(S \cup T, m) = MapIndices(S, m) \cup MapIndices(T, m)
        BY DEF MapIndices
    <2>2. MapIndices(S \cap T, m) = MapIndices(S, m) \cap MapIndices(T, m)
        BY DEF MapIndices
    <2>3. MapIndices(S \ T, m) = MapIndices(S, m) \ MapIndices(T, m)
        BY DEF MapIndices
    <2>4. S \subseteq T => MapIndices(S, m) \subseteq MapIndices(T, m)
        BY DEF MapIndices
    <2>5. ASSUME MapIndices(S, m) = MapIndices(T, m)
          PROVE  S = T
        <3>1. \A x \in S : \E y \in T : m[x] = m[y]
            BY <2>5 DEF MapIndices
        <3>2. \A x \in T : \E y \in S : m[x] = m[y]
            BY <2>5 DEF MapIndices
        <3> QED
            BY <3>1, <3>2
    <2> QED
        BY <2>1, <2>2, <2>3, <2>4, <2>5
<1>2. MapIndices({}, m) = {}
    BY DEF MapIndices
<1> QED
    BY <1>1, <1>2

LEMMA PafSplits ==
    ASSUME NEW paf, PafOk(paf), NEW C, C \in SUBSET DOMAIN paf.af, Unattacked(paf.af, C)
    PROVE  PafSplit(paf, C, Preferred!ProjectPaf(paf, C, {}))
<1> DEFINE att == paf.af
           bm == paf.base_mapping
           D == DOMAIN paf.af
           CB == InComponent(paf, C)
           proj == Preferred!ProjectPaf(paf, C, {})
           res_of(E) == Preferred!Residual(paf, C, E)
           img(S) == MapIndices(S, bm)
<1>1. att \in [D -> SUBSET D] /\ \A x, y \in D : bm[x] = bm[y] => x = y
    BY DEF PafOk, Injects
<1>2. PreferredSplit(att, D, C)
    BY <1>1, PreferredSplits
<1>3. Looped(att, {}) = att
    BY <1>1 DEF Looped
<1>4. AnswerOf(proj) = InBase(PreferredIn(att, C), bm)
    BY <1>3, ProjectedPaf DEF Projects
<1>5. AnswerOf(paf) = InBase(PreferredIn(att, D), bm)
    BY AnswerIn
<1>6. \A P \in SUBSET C : AnswerOf(res_of(img(P))) = InBase(ResidualPreferred(att, C, P), bm)
    <2>1. ASSUME NEW P \in SUBSET C
          PROVE  AnswerOf(res_of(img(P))) = InBase(ResidualPreferred(att, C, P), bm)
        BY ResidualRight DEF Projects, ResidualPreferred
    <2> QED
        BY <2>1
<1>7. /\ \A P \in PreferredIn(att, C) : P \in SUBSET C
      /\ \A S \in PreferredIn(att, D) : S \in SUBSET D
    BY DEF PreferredIn, AdmissibleIn
<1>8. \A P \in SUBSET C : \A T \in ResidualPreferred(att, C, P) : T \in SUBSET D
    BY DEF ResidualPreferred, PreferredIn, AdmissibleIn, ResidualPart
<1>9. CB = img(C)
    BY DEF InComponent
<1>10. /\ \A S, T \in SUBSET D : /\ img(S \cup T) = img(S) \cup img(T)
                                 /\ img(S \cap T) = img(S) \cap img(T)
                                 /\ img(S \ T) = img(S) \ img(T)
                                 /\ S \subseteq T => img(S) \subseteq img(T)
       /\ img({}) = {}
    BY <1>1, Images
<1>11. /\ \A F, X : X \in InBase(F, bm) <=> \E S \in F : X = img(S)
       /\ \A F : \A S \in F : img(S) \in InBase(F, bm)
    BY DEF InBase
<1> HIDE DEF CB, proj, res_of, img, att, D, bm
<1>12. ASSUME NEW E \in AnswerOf(proj)
       PROVE  E \subseteq CB
    <2>1. PICK P \in PreferredIn(att, C) : E = img(P)
        BY <1>4, <1>11
    <2> QED
        BY <1>7, <1>9, <1>10, <2>1 DEF D
<1>13. ASSUME NEW E \in AnswerOf(proj), NEW T \in AnswerOf(res_of(E))
       PROVE  E \cup T \in AnswerOf(paf) /\ T \cap CB = {}
    <2>1. PICK P \in PreferredIn(att, C) : E = img(P)
        BY <1>4, <1>11
    <2>2. PICK Q \in ResidualPreferred(att, C, P) : T = img(Q)
        BY <1>6, <1>7, <1>11, <2>1
    <2>3. P \cup Q \in PreferredIn(att, D) /\ Q \cap C = {}
        BY <1>2 DEF PreferredSplit
    <2>4. P \in SUBSET D /\ Q \in SUBSET D /\ C \in SUBSET D
        BY <1>7, <1>8 DEF D
    <2>5. E \cup T = img(P \cup Q) /\ T \cap CB = img(Q \cap C)
        BY <1>9, <1>10, <2>1, <2>2, <2>4
    <2>6. img(P \cup Q) \in AnswerOf(paf)
        BY <1>5, <1>11, <2>3
    <2>7. img(Q \cap C) = {}
        BY <1>10, <2>3
    <2> QED
        BY <2>5, <2>6, <2>7
<1>14. ASSUME NEW S \in AnswerOf(paf)
       PROVE  S \cap CB \in AnswerOf(proj) /\ S \ CB \in AnswerOf(res_of(S \cap CB))
    <2>1. PICK W \in PreferredIn(att, D) : S = img(W)
        BY <1>5, <1>11
    <2>2. W \cap C \in PreferredIn(att, C) /\ W \ C \in ResidualPreferred(att, C, W \cap C)
        BY <1>2 DEF PreferredSplit
    <2>3. W \in SUBSET D /\ C \in SUBSET D
        BY <1>7 DEF D
    <2>4. S \cap CB = img(W \cap C) /\ S \ CB = img(W \ C)
        BY <1>9, <1>10, <2>1, <2>3
    <2>5. img(W \cap C) \in AnswerOf(proj)
        BY <1>4, <1>11, <2>2
    <2>6. W \cap C \in SUBSET C
        OBVIOUS
    <2>7. AnswerOf(res_of(img(W \cap C))) = InBase(ResidualPreferred(att, C, W \cap C), bm)
        BY <1>6, <2>6
    <2>8. img(W \ C) \in AnswerOf(res_of(img(W \cap C)))
        BY <1>11, <2>2, <2>7
    <2> QED
        BY <2>4, <2>5, <2>8
<1> QED
    BY <1>12, <1>13, <1>14 DEF PafSplit, CB, proj, res_of

-------------------------------------------------------------------------------
(* The loop over the extensions of the source component.                     *)

LEMMA Concatenated ==
    ASSUME NEW E, NEW a \in Seq(E), NEW b \in Seq(E)
    PROVE  /\ a \o b \in Seq(E) /\ Len(a \o b) = Len(a) + Len(b)
           /\ \A x \in 1 .. Len(a) : (a \o b)[x] = a[x]
           /\ \A x \in 1 .. Len(b) : (a \o b)[Len(a) + x] = b[x]
           /\ \A x \in 1 .. Len(a) + Len(b) : x > Len(a) => x - Len(a) \in 1 .. Len(b)
           /\ Len(a) \in Nat /\ Len(b) \in Nat
OBVIOUS

(* Two lists in a row.                                                       *)
LEMMA ListsInRow ==
    ASSUME NEW E, NEW a \in Seq(E), NEW b \in Seq(E)
    PROVE  /\ Members(a \o b) = Members(a) \cup Members(b)
           /\ Once(a) /\ Once(b) /\ Members(a) \cap Members(b) = {} => Once(a \o b)
<1> DEFINE t == a \o b
<1>1. /\ t \in Seq(E) /\ Len(t) = Len(a) + Len(b)
      /\ \A x \in 1 .. Len(a) : t[x] = a[x]
      /\ \A x \in 1 .. Len(b) : t[Len(a) + x] = b[x]
      /\ \A x \in 1 .. Len(a) + Len(b) : x > Len(a) => x - Len(a) \in 1 .. Len(b)
      /\ Len(a) \in Nat /\ Len(b) \in Nat
    BY Concatenated
<1>2. /\ DOMAIN a = 1 .. Len(a) /\ DOMAIN b = 1 .. Len(b)
      /\ DOMAIN t = 1 .. Len(a) + Len(b)
    BY <1>1
<1> HIDE DEF t
<1>3. ASSUME NEW x \in DOMAIN t
      PROVE  \/ x \in DOMAIN a /\ t[x] = a[x]
             \/ /\ x \notin DOMAIN a
                /\ x - Len(a) \in DOMAIN b /\ t[x] = b[x - Len(a)] /\ x = Len(a) + (x - Len(a))
    <2>1. CASE x <= Len(a)
        BY <1>1, <1>2, <2>1
    <2>2. CASE x > Len(a)
        <3>1. x - Len(a) \in 1 .. Len(b) /\ x \notin DOMAIN a
            BY <1>1, <1>2, <2>2
        <3>2. Len(a) + (x - Len(a)) = x
            BY <1>1, <1>2
        <3>3. t[Len(a) + (x - Len(a))] = b[x - Len(a)]
            BY <1>1, <3>1
        <3> QED
            BY <1>2, <3>1, <3>2, <3>3
    <2> QED
        BY <1>1, <1>2, <2>1, <2>2
<1>4. \A x \in DOMAIN a : x \in DOMAIN t /\ t[x] = a[x]
    BY <1>1, <1>2
<1>5. \A x \in DOMAIN b : Len(a) + x \in DOMAIN t /\ t[Len(a) + x] = b[x]
    BY <1>1, <1>2
<1>6. Members(t) = Members(a) \cup Members(b)
    BY <1>3, <1>4, <1>5 DEF Members
<1>7. ASSUME Once(a), Once(b), Members(a) \cap Members(b) = {},
             NEW x \in DOMAIN t, NEW y \in DOMAIN t, t[x] = t[y]
      PROVE  x = y
    <2>1. \A k \in DOMAIN a : \A l \in DOMAIN b : a[k] # b[l]
        BY <1>7 DEF Members
    <2>2. CASE x \in DOMAIN a /\ y \in DOMAIN a
        BY <1>3, <1>7, <2>2 DEF Once
    <2>3. CASE x \notin DOMAIN a /\ y \notin DOMAIN a
        <3>1. x - Len(a) = y - Len(a)
            BY <1>3, <1>7, <2>3 DEF Once
        <3> QED
            BY <1>3, <2>3, <3>1
    <2>4. CASE x \in DOMAIN a /\ y \notin DOMAIN a
        BY <1>3, <1>7, <2>1, <2>4
    <2>5. CASE x \notin DOMAIN a /\ y \in DOMAIN a
        BY <1>3, <1>7, <2>1, <2>5
    <2> QED
        BY <2>2, <2>3, <2>4, <2>5
<1> QED
    BY <1>6, <1>7 DEF Once, t

(* The first member of a list and the others.                                *)
LEMMA HeadOnce ==
    ASSUME NEW E, NEW a \in Seq(E), a # <<>>, Once(a)
    PROVE  /\ Head(a) \in E /\ Tail(a) \in Seq(E) /\ Once(Tail(a)) /\ Head(a) \in Members(a)
           /\ Members(Tail(a)) = Members(a) \ {Head(a)}
<1> DEFINE t == Tail(a)
<1>1. /\ t \in Seq(E) /\ DOMAIN t = 1 .. Len(a) - 1 /\ DOMAIN a = 1 .. Len(a)
      /\ \A x \in DOMAIN t : x+1 \in DOMAIN a /\ t[x] = a[x+1]
      /\ 1 \in DOMAIN a /\ a[1] \in E /\ Head(a) = a[1] /\ Len(a) \in Nat
    BY Unstacked
<1>2. \A x \in DOMAIN a : x # 1 => x-1 \in DOMAIN t /\ t[x-1] = a[x]
    <2>1. ASSUME NEW x \in DOMAIN a, x # 1
          PROVE  x-1 \in DOMAIN t /\ t[x-1] = a[x]
        <3>1. x-1 \in DOMAIN t /\ (x-1)+1 = x
            BY <1>1, <2>1
        <3> QED
            BY <1>1, <3>1
    <2> QED
        BY <2>1
<1> HIDE DEF t
<1>3. Once(t)
    <2>1. ASSUME NEW x \in DOMAIN t, NEW y \in DOMAIN t, t[x] = t[y]
          PROVE  x = y
        <3>1. x+1 = y+1
            BY <1>1, <2>1 DEF Once
        <3>2. x \in Nat /\ y \in Nat
            BY <1>1
        <3> QED
            BY <3>1, <3>2
    <2> QED
        BY <2>1 DEF Once
<1>4. ASSUME NEW x \in DOMAIN t
      PROVE  t[x] # a[1] /\ t[x] \in Members(a)
    <2>1. x+1 \in DOMAIN a /\ t[x] = a[x+1] /\ x+1 # 1
        BY <1>1
    <2> QED
        BY <1>1, <2>1 DEF Once, Members
<1>5. ASSUME NEW e \in Members(a), e # a[1]
      PROVE  e \in Members(t)
    <2>1. PICK x \in DOMAIN a : a[x] = e
        BY DEF Members
    <2>2. x-1 \in DOMAIN t /\ t[x-1] = e
        BY <1>2, <1>5, <2>1
    <2> QED
        BY <2>2 DEF Members
<1>6. Members(t) = Members(a) \ {a[1]}
    <2>1. \A e \in Members(t) : \E x \in DOMAIN t : t[x] = e
        BY DEF Members
    <2> QED
        BY <1>4, <1>5, <2>1
<1>7. Head(a) \in Members(a)
    BY <1>1 DEF Members
<1> QED
    BY <1>1, <1>3, <1>6, <1>7 DEF t

(* The extensions in part, of the arguments B, that are still in todo are    *)
(* those for which result does not have the extensions in whole yet.         *)
Work(todo, result, B, whole, part) ==
    /\ todo \in Seq(part) /\ Once(todo) /\ result \in Seq(whole) /\ Once(result)
    /\ \A S \in Members(result) : S \cap B \notin Members(todo)
    /\ \A S \in whole : S \in Members(result) \/ S \cap B \in Members(todo)

LEMMA WorkStart ==
    ASSUME NEW B, NEW whole, NEW part, \A S \in whole : S \cap B \in part,
           NEW todo, Listed(todo, part)
    PROVE  Work(todo, <<>>, B, whole, part)
<1>1. <<>> \in Seq(whole) /\ Once(<<>>) /\ Members(<<>>) = {}
    BY DEF Once, Members
<1> QED
    BY <1>1 DEF Work, Listed

LEMMA WorkDone ==
    ASSUME NEW B, NEW whole, NEW part, NEW result, Work(<<>>, result, B, whole, part)
    PROVE  Listed(result, whole)
<1>1. Members(<<>>) = {}
    BY DEF Members
<1>2. \A S \in whole : S \in Members(result)
    BY <1>1 DEF Work
<1>3. result \in Seq(whole) /\ Once(result)
    BY DEF Work
<1>4. \A x \in DOMAIN result : result[x] \in whole
    BY <1>3
<1> QED
    BY <1>2, <1>3, <1>4 DEF Listed, Members

(* One extension of the component with those of what it leaves.              *)
LEMMA WorkStep ==
    ASSUME NEW B, NEW whole, NEW part, NEW todo, NEW result, Work(todo, result, B, whole, part),
           todo # <<>>, NEW rest, NEW list, Listed(list, rest),
           \A E \in part : E \subseteq B,
           \A T \in rest : Head(todo) \cup T \in whole /\ T \cap B = {},
           \A S \in whole : S \cap B = Head(todo) => S \ B \in rest
    PROVE  Work(Tail(todo), result \o [k \in DOMAIN list |-> Head(todo) \cup list[k]],
                B, whole, part)
<1> DEFINE e == Head(todo)
           more == [k \in DOMAIN list |-> e \cup list[k]]
           new == result \o more
<1>1. /\ e \in part /\ Tail(todo) \in Seq(part) /\ Once(Tail(todo)) /\ e \in Members(todo)
      /\ Members(Tail(todo)) = Members(todo) \ {e}
    BY HeadOnce DEF Work
<1> HIDE DEF e
<1>2. /\ list \in Seq(rest) /\ Once(list) /\ Members(list) = rest
      /\ DOMAIN list = 1 .. Len(list) /\ Len(list) \in Nat
    BY DEF Listed
<1>3. \A k \in DOMAIN list : list[k] \in rest
    BY <1>2 DEF Members
<1>4. \A T \in rest : e \cup T \in whole /\ T \cap B = {}
    BY DEF e
<1>5. e \subseteq B
    BY <1>1
<1>6. /\ DOMAIN more = DOMAIN list
      /\ \A k \in DOMAIN list : /\ more[k] = e \cup list[k]
                                /\ more[k] \in whole
                                /\ more[k] \cap B = e /\ more[k] \ B = list[k]
    <2>1. DOMAIN more = DOMAIN list /\ \A k \in DOMAIN list : more[k] = e \cup list[k]
        OBVIOUS
    <2>2. ASSUME NEW T \in rest
          PROVE  (e \cup T) \cap B = e /\ (e \cup T) \ B = T
        <3>1. T \cap B = {}
            BY <1>4
        <3> QED
            BY <1>5, <3>1
    <2> HIDE DEF more
    <2> QED
        BY <1>3, <1>4, <2>1, <2>2
<1>7. more \in Seq(whole)
    <2>1. more \in [1 .. Len(list) -> whole]
        BY <1>2, <1>6
    <2> QED
        BY <1>2, <2>1
<1> HIDE DEF more
<1>8. Once(more)
    <2>1. ASSUME NEW x \in DOMAIN list, NEW y \in DOMAIN list, more[x] = more[y]
          PROVE  x = y
        <3>1. list[x] = list[y]
            BY <1>6, <2>1
        <3> QED
            BY <1>2, <3>1 DEF Once
    <2> QED
        BY <1>6, <2>1 DEF Once
<1>9. \A S \in Members(more) : S \cap B = e
    BY <1>6 DEF Members
<1>10. result \in Seq(whole) /\ Once(result)
    BY DEF Work
<1>11. Members(result) \cap Members(more) = {}
    BY <1>1, <1>9 DEF Work
<1>12. new \in Seq(whole) /\ Once(new) /\ Members(new) = Members(result) \cup Members(more)
    <2>1. new \in Seq(whole)
        BY <1>7, <1>10, Concatenated
    <2> QED
        BY <1>7, <1>8, <1>10, <1>11, <2>1, ListsInRow
<1> HIDE DEF new
<1>13. ASSUME NEW S \in whole, S \notin Members(new)
       PROVE  S \cap B \in Members(Tail(todo))
    <2>1. S \cap B \in Members(todo)
        BY <1>12, <1>13 DEF Work
    <2>2. ASSUME S \cap B = e
          PROVE  FALSE
        <3>1. S \ B \in rest
            BY <2>2 DEF e
        <3>2. PICK k \in DOMAIN list : list[k] = S \ B
            BY <1>2, <3>1 DEF Members
        <3>3. more[k] = S
            <4>1. S = (S \cap B) \cup (S \ B)
                OBVIOUS
            <4>2. more[k] = e \cup (S \ B)
                BY <1>6, <3>2
            <4> QED
                BY <2>2, <4>1, <4>2
        <3> QED
            BY <1>6, <1>12, <1>13, <3>3 DEF Members
    <2> QED
        BY <1>1, <2>1, <2>2
<1>14. \A S \in Members(new) : S \cap B \notin Members(Tail(todo))
    BY <1>1, <1>9, <1>12 DEF Work
<1> QED
    BY <1>1, <1>12, <1>13, <1>14 DEF Work, new, more, e

-------------------------------------------------------------------------------
(* The calls of compute_preferred_extensions.                                *)

LEMMA TopChanged ==
    ASSUME NEW X, NEW s \in Seq(X), s # <<>>, NEW f
    PROVE  LET t == [s EXCEPT ![1] = f]
           IN  /\ t \in Seq(X \cup {f}) /\ t # <<>> /\ DOMAIN t = DOMAIN s
               /\ Len(t) = Len(s) /\ t[1] = f /\ 1 \in DOMAIN s
               /\ \A k \in DOMAIN s : k # 1 => t[k] = s[k]
<1> DEFINE t == [s EXCEPT ![1] = f]
<1>1. DOMAIN s = 1 .. Len(s) /\ Len(s) \in Nat /\ Len(s) # 0
    OBVIOUS
<1>2. 1 \in DOMAIN s
    BY <1>1
<1>3. /\ DOMAIN t = DOMAIN s /\ t[1] = f
      /\ \A k \in DOMAIN s : k # 1 => t[k] = s[k]
    BY <1>2
<1>4. \A k \in DOMAIN s : s[k] \in X
    BY <1>1
<1>5. t \in [1 .. Len(s) -> X \cup {f}]
    <2>1. \A k \in DOMAIN s : t[k] \in X \cup {f}
        BY <1>3, <1>4
    <2> QED
        BY <1>1, <1>3, <2>1
<1>6. t \in Seq(X \cup {f}) /\ Len(t) = Len(s)
    BY <1>1, <1>3, <1>5
<1>7. t # <<>>
    BY <1>2, <1>3
<1> QED
    BY <1>2, <1>3, <1>6, <1>7

LEMMA Pushed ==
    ASSUME NEW X, NEW s \in Seq(X), NEW f
    PROVE  LET t == <<f>> \o s
           IN  /\ t \in Seq(X \cup {f}) /\ t # <<>> /\ DOMAIN t = 1 .. Len(s) + 1
               /\ Len(t) = Len(s) + 1 /\ t[1] = f
               /\ \A k \in DOMAIN t : k # 1 => k-1 \in DOMAIN s /\ t[k] = s[k-1]
<1>1. s \in Seq(X \cup {f})
    <2>1. DOMAIN s = 1 .. Len(s) /\ Len(s) \in Nat /\ \A k \in DOMAIN s : s[k] \in X
        OBVIOUS
    <2>2. s \in [1 .. Len(s) -> X \cup {f}]
        BY <2>1
    <2> QED
        BY <2>1, <2>2
<1> QED
    BY <1>1, Stacked

IsFrame(f) ==
    f = [paf |-> f.paf, component |-> f.component, projection |-> f.projection,
         todo |-> f.todo, residual |-> f.residual, result |-> f.result]

(* After find_source_component.                                              *)
Chosen(f) ==
    /\ f.component \in SUBSET DOMAIN f.paf.af /\ Unattacked(f.paf.af, f.component)
    /\ f.projection = Preferred!ProjectPaf(f.paf, f.component, {})

(* In the loop.                                                              *)
Working(f) ==
    /\ Chosen(f)
    /\ IF f.component = DOMAIN f.paf.af THEN Listed(f.todo, AnswerOf(f.paf))
       ELSE Work(f.todo, f.result, InComponent(f.paf, f.component),
                 AnswerOf(f.paf), AnswerOf(f.projection))

(* The residual framework has been extracted.                                *)
Waiting(f) ==
    /\ Working(f) /\ f.component # DOMAIN f.paf.af /\ f.todo # <<>>
    /\ f.residual = Preferred!Residual(f.paf, f.component, Head(f.todo))

(* The innermost call, of which list is what the call it made has returned.  *)
Stage(stage, f, list) ==
    /\ stage \in {"call", "solve"} => f.result = <<>>
    /\ stage = "solve" => Chosen(f)
    /\ stage = "loop" => Working(f)
    /\ stage = "residual" => Waiting(f)
    /\ stage = "append" => Waiting(f) /\ Listed(list, AnswerOf(f.residual))

CallOk(f) == IsFrame(f) /\ PafOk(f.paf) /\ DOMAIN f.paf.af # {}

Calls(s, base) ==
    /\ \E X : s \in Seq(X)
    /\ s # <<>>
    /\ s[Len(s)].paf = Preferred!Paf(base, [a \in Arg |-> a])
    /\ \A k \in DOMAIN s : /\ CallOk(s[k])
                           /\ k # 1 => Waiting(s[k]) /\ s[k].residual = s[k-1].paf

(* The bottom call is about the framework read.                              *)
LEMMA WholePaf ==
    ASSUME NEW att, att \in Framework
    PROVE  LET paf == Preferred!Paf(att, [a \in Arg |-> a])
           IN  PafOk(paf) /\ DOMAIN paf.af # {} /\ AnswerOf(paf) = PreferredExtensions(att)
<1> DEFINE paf == Preferred!Paf(att, [a \in Arg |-> a])
<1>1. paf.af = att /\ paf.base_mapping = [a \in Arg |-> a]
    BY DEF Preferred!Paf
<1>2. DOMAIN att = Arg /\ att \in [Arg -> SUBSET Arg]
    BY DEF Framework
<1>3. Arg \in SUBSET Nat /\ 0 \in Arg /\ IsFiniteSet(Arg)
    <2>1. IsFiniteSet(Arg)
        BY ArgFinite
    <2> QED
        BY <2>1, NAssumption DEF Arg
<1> HIDE DEF paf
<1>4. PafOk(paf)
    BY <1>1, <1>2, <1>3 DEF PafOk, Injects
<1>5. \A e \in PreferredExtensions(att) : MapIndices(e, paf.base_mapping) = e
    <2>1. ASSUME NEW e \in PreferredExtensions(att)
          PROVE  MapIndices(e, paf.base_mapping) = e
        <3>1. e \subseteq Arg
            BY <1>2 DEF PreferredExtensions, AdmissibleSets
        <3> QED
            BY <1>1, <3>1 DEF MapIndices
    <2> QED
        BY <2>1
<1>6. AnswerOf(paf) = PreferredExtensions(att)
    BY <1>1, <1>5 DEF AnswerOf
<1> QED
    BY <1>1, <1>2, <1>3, <1>4, <1>6 DEF paf

(* The innermost call changes its frame.                                     *)
LEMMA CallsStep ==
    ASSUME NEW s, NEW base, Calls(s, base), NEW f, CallOk(f), f.paf = s[1].paf
    PROVE  LET t == [s EXCEPT ![1] = f]
           IN  Calls(t, base) /\ t[1] = f /\ Len(t) = Len(s)
<1> DEFINE t == [s EXCEPT ![1] = f]
<1>1. PICK X : s \in Seq(X)
    BY DEF Calls
<1>2. s # <<>>
    BY DEF Calls
<1>3. /\ t \in Seq(X \cup {f}) /\ t # <<>> /\ DOMAIN t = DOMAIN s
      /\ Len(t) = Len(s) /\ t[1] = f /\ 1 \in DOMAIN s
      /\ \A k \in DOMAIN s : k # 1 => t[k] = s[k]
    BY <1>1, <1>2, TopChanged
<1>4. DOMAIN s = 1 .. Len(s) /\ Len(s) \in Nat
    BY <1>1
<1> HIDE DEF t
<1>5. \A k \in DOMAIN s : t[k].paf = s[k].paf
    BY <1>3
<1>6. t[Len(t)].paf = Preferred!Paf(base, [a \in Arg |-> a])
    <2>1. Len(s) \in DOMAIN s
        BY <1>3, <1>4
    <2> QED
        BY <1>3, <1>5, <2>1 DEF Calls
<1>7. ASSUME NEW k \in DOMAIN t
      PROVE  CallOk(t[k]) /\ (k # 1 => Waiting(t[k]) /\ t[k].residual = t[k-1].paf)
    <2>1. CASE k = 1
        BY <1>3, <2>1
    <2>2. CASE k # 1
        <3>1. k-1 \in DOMAIN s
            BY <1>3, <1>4, <2>2
        <3>2. t[k] = s[k] /\ t[k-1].paf = s[k-1].paf
            BY <1>3, <1>5, <2>2, <3>1
        <3> QED
            BY <1>3, <2>2, <3>2 DEF Calls
    <2> QED
        BY <2>1, <2>2
<1> QED
    BY <1>3, <1>6, <1>7 DEF Calls, t

LEMMA CallsPushed ==
    ASSUME NEW s, NEW base, Calls(s, base), NEW f, CallOk(f),
           Waiting(s[1]), s[1].residual = f.paf
    PROVE  LET t == <<f>> \o s
           IN  Calls(t, base) /\ t[1] = f
<1> DEFINE t == <<f>> \o s
<1>1. PICK X : s \in Seq(X)
    BY DEF Calls
<1>2. s # <<>>
    BY DEF Calls
<1>3. /\ t \in Seq(X \cup {f}) /\ t # <<>> /\ DOMAIN t = 1 .. Len(s) + 1
      /\ Len(t) = Len(s) + 1 /\ t[1] = f
      /\ \A k \in DOMAIN t : k # 1 => k-1 \in DOMAIN s /\ t[k] = s[k-1]
    BY <1>1, Pushed
<1>4. DOMAIN s = 1 .. Len(s) /\ Len(s) \in Nat /\ Len(s) # 0
    BY <1>1, <1>2
<1> HIDE DEF t
<1>5. t[Len(t)] = s[Len(s)]
    <2>1. Len(t) \in DOMAIN t /\ Len(t) # 1 /\ Len(t) - 1 = Len(s)
        BY <1>3, <1>4
    <2> QED
        BY <1>3, <2>1
<1>6. ASSUME NEW k \in DOMAIN t
      PROVE  CallOk(t[k]) /\ (k # 1 => Waiting(t[k]) /\ t[k].residual = t[k-1].paf)
    <2>1. CASE k = 1
        BY <1>3, <2>1
    <2>2. CASE k = 2
        <3>1. 2-1 = 1 /\ 1 \in DOMAIN s
            BY <1>4
        <3>2. t[k] = s[1] /\ t[k-1] = f
            BY <1>3, <2>2, <3>1
        <3> QED
            BY <2>2, <3>1, <3>2 DEF Calls
    <2>3. CASE k # 1 /\ k # 2
        <3>1. k-1 \in DOMAIN s /\ k-1 # 1 /\ k-1 \in DOMAIN t
            BY <1>3, <1>4, <2>3
        <3>2. t[k] = s[k-1] /\ t[k-1] = s[k-1-1]
            BY <1>3, <2>3, <3>1
        <3> QED
            BY <2>3, <3>1, <3>2 DEF Calls
    <2> QED
        BY <2>1, <2>2, <2>3
<1> QED
    BY <1>3, <1>5, <1>6 DEF Calls, t

(* A call returns to the one that is waiting for it.                         *)
LEMMA CallsPopped ==
    ASSUME NEW s, NEW base, Calls(s, base)
    PROVE  /\ Len(s) = 1 => s[1].paf = Preferred!Paf(base, [a \in Arg |-> a])
           /\ Len(s) # 1 => /\ Calls(Tail(s), base) /\ Waiting(Tail(s)[1])
                            /\ Tail(s)[1].residual = s[1].paf
<1> DEFINE t == Tail(s)
<1>1. PICK X : s \in Seq(X)
    BY DEF Calls
<1>2. s # <<>>
    BY DEF Calls
<1>3. /\ t \in Seq(X) /\ DOMAIN t = 1 .. Len(s) - 1 /\ Len(t) = Len(s) - 1
      /\ \A k \in DOMAIN t : k+1 \in DOMAIN s /\ t[k] = s[k+1]
      /\ 1 \in DOMAIN s
    BY <1>1, <1>2, Unstacked
<1>4. DOMAIN s = 1 .. Len(s) /\ Len(s) \in Nat /\ Len(s) # 0
    BY <1>1, <1>2
<1>5. CASE Len(s) = 1
    BY <1>5 DEF Calls
<1>6. CASE Len(s) # 1
    <2> HIDE DEF t
    <2>1. Len(t) \in DOMAIN t /\ Len(t) + 1 = Len(s) /\ 1 \in DOMAIN t /\ 1+1 = 2
          /\ 2 \in DOMAIN s /\ 2 # 1 /\ 2-1 = 1
        BY <1>3, <1>4, <1>6
    <2>2. t[Len(t)] = s[Len(s)] /\ t[1] = s[2]
        BY <1>3, <2>1
    <2>3. t # <<>>
        BY <2>1
    <2>4. Waiting(t[1]) /\ t[1].residual = s[1].paf
        BY <2>1, <2>2 DEF Calls
    <2>5. ASSUME NEW k \in DOMAIN t
          PROVE  CallOk(t[k]) /\ (k # 1 => Waiting(t[k]) /\ t[k].residual = t[k-1].paf)
        <3>1. k+1 \in DOMAIN s /\ t[k] = s[k+1] /\ k+1 # 1 /\ (k+1)-1 = k
            BY <1>3
        <3>2. CallOk(s[k+1]) /\ Waiting(s[k+1]) /\ s[k+1].residual = s[k].paf
            BY <3>1 DEF Calls
        <3>3. ASSUME k # 1
              PROVE  t[k-1] = s[k]
            <4>1. k-1 \in DOMAIN t /\ (k-1)+1 = k
                BY <1>3, <1>4, <3>3
            <4> QED
                BY <1>3, <4>1
        <3> QED
            BY <3>1, <3>2, <3>3
    <2>6. Calls(t, base)
        BY <1>3, <2>2, <2>3, <2>5 DEF Calls
    <2> QED
        BY <1>6, <2>4, <2>6 DEF t
<1> QED
    BY <1>5, <1>6

Recursing == {"call", "solve", "loop", "residual", "append"}

PreferredInv ==
    /\ af \in Framework
    /\ pc \in Recursing \cup {"done", "print", "exit"}
    /\ pc \in Recursing => Calls(frames, af) /\ Stage(pc, frames[1], returned)
    /\ pc \notin {"print", "exit"} => printed = <<>>
    /\ pc = "done" => Listed(returned, PreferredExtensions(af))
    /\ pc = "print" => Output(printed, returned, PreferredExtensions(af))
    /\ pc = "exit" => ListsOf(printed, PreferredExtensions(af))

LEMMA PreferredInit ==
    ASSUME Preferred!Init, printed = <<>>
    PROVE  PreferredInv
<1> DEFINE f == Preferred!Frame(Preferred!Paf(af, [a \in Arg |-> a]))
<1>1. af \in Framework /\ frames = <<f>> /\ returned = <<>> /\ pc = "call"
    BY InputsAssumption, PreferredOperators DEF Preferred!Init
<1>2. IsFrame(f) /\ f.paf = Preferred!Paf(af, [a \in Arg |-> a]) /\ f.result = <<>>
    BY DEF Preferred!Frame, IsFrame
<1> HIDE DEF f
<1>3. CallOk(f)
    BY <1>1, <1>2, WholePaf DEF CallOk
<1>4. <<f>> \in Seq({f}) /\ <<f>> # <<>> /\ Len(<<f>>) = 1 /\ DOMAIN <<f>> = {1} /\ <<f>>[1] = f
    OBVIOUS
<1>5. Calls(frames, af)
    BY <1>1, <1>2, <1>3, <1>4 DEF Calls
<1>6. Stage(pc, frames[1], returned)
    BY <1>1, <1>2, <1>4 DEF Stage
<1> QED
    BY <1>1, <1>5, <1>6 DEF PreferredInv, Recursing

(* A step that changes the innermost frame.                                  *)
LEMMA PreferredTop ==
    ASSUME PreferredInv, pc \in Recursing, NEW f, CallOk(f), f.paf = frames[1].paf,
           frames' = [frames EXCEPT ![1] = f], pc' \in Recursing,
           Stage(pc', f, returned'), UNCHANGED <<af, printed>>
    PROVE  PreferredInv'
<1>1. Calls(frames, af)
    BY DEF PreferredInv
<1>2. Calls(frames', af) /\ frames'[1] = f
    BY <1>1, CallsStep
<1>3. pc \notin {"done", "print", "exit"} /\ pc' \notin {"done", "print", "exit"}
    BY DEF Recursing
<1> QED
    BY <1>2, <1>3 DEF PreferredInv

(* A call is over.                                                           *)
LEMMA PreferredPop ==
    ASSUME PreferredInv, pc \in Recursing, NEW list, Listed(list, AnswerOf(frames[1].paf)),
           Preferred!Pop(list), UNCHANGED <<af, printed>>
    PROVE  PreferredInv'
<1>1. Calls(frames, af) /\ af \in Framework /\ printed = <<>>
    BY DEF PreferredInv, Recursing
<1>2. returned' = list /\ frames' = Tail(frames)
      /\ pc' = IF Len(frames) = 1 THEN "done" ELSE "append"
    BY DEF Preferred!Pop
<1>3. CASE Len(frames) = 1
    <2>1. frames[1].paf = Preferred!Paf(af, [a \in Arg |-> a])
        BY <1>1, <1>3, CallsPopped
    <2>2. AnswerOf(frames[1].paf) = PreferredExtensions(af)
        BY <1>1, <2>1, WholePaf
    <2>3. Listed(returned', PreferredExtensions(af)) /\ pc' = "done"
        BY <1>2, <1>3, <2>2
    <2> QED
        BY <1>1, <2>3 DEF PreferredInv, Recursing
<1>4. CASE Len(frames) # 1
    <2>1. /\ Calls(frames', af) /\ Waiting(frames'[1])
          /\ frames'[1].residual = frames[1].paf
        BY <1>1, <1>2, <1>4, CallsPopped
    <2>2. pc' = "append"
        BY <1>2, <1>4
    <2>3. Stage(pc', frames'[1], returned')
        BY <1>2, <2>1, <2>2 DEF Stage
    <2> QED
        BY <1>1, <2>1, <2>2, <2>3 DEF PreferredInv, Recursing
<1> QED
    BY <1>3, <1>4

WithComponent(f, a, b) == [f EXCEPT !.component = a, !.projection = b]
WithTodo(f, a) == [f EXCEPT !.todo = a]
WithResidual(f, a) == [f EXCEPT !.residual = a]
WithResult(f, a, b) == [f EXCEPT !.result = a, !.todo = b]

LEMMA FrameChanged ==
    ASSUME NEW f, IsFrame(f)
    PROVE  /\ \A a, b : LET g == WithComponent(f, a, b)
                       IN  /\ IsFrame(g) /\ g.paf = f.paf /\ g.component = a
                           /\ g.projection = b /\ g.result = f.result
           /\ \A a : LET g == WithTodo(f, a)
                    IN  /\ IsFrame(g) /\ g.paf = f.paf /\ g.component = f.component
                        /\ g.projection = f.projection /\ g.todo = a /\ g.result = f.result
           /\ \A a : LET g == WithResidual(f, a)
                    IN  /\ IsFrame(g) /\ g.paf = f.paf /\ g.component = f.component
                        /\ g.projection = f.projection /\ g.todo = f.todo
                        /\ g.result = f.result /\ g.residual = a
           /\ \A a, b : LET g == WithResult(f, a, b)
                       IN  /\ IsFrame(g) /\ g.paf = f.paf /\ g.component = f.component
                           /\ g.projection = f.projection /\ g.todo = b /\ g.result = a
<1> DEFINE fields == {"paf", "component", "projection", "todo", "residual", "result"}
<1>1. DOMAIN f = fields /\ f = [x \in fields |-> f[x]]
    BY DEF IsFrame
<1>2. ASSUME NEW h, DOMAIN h = fields, h = [x \in fields |-> h[x]]
      PROVE  IsFrame(h)
    BY <1>2 DEF IsFrame
<1>3. ASSUME NEW a, NEW b
      PROVE  LET g == WithComponent(f, a, b)
             IN  /\ IsFrame(g) /\ g.paf = f.paf /\ g.component = a
                 /\ g.projection = b /\ g.result = f.result
    <2> DEFINE g == WithComponent(f, a, b)
    <2>1. /\ DOMAIN g = fields /\ g = [x \in fields |-> g[x]]
          /\ g.paf = f.paf /\ g.component = a /\ g.projection = b /\ g.result = f.result
        BY <1>1 DEF WithComponent
    <2> HIDE DEF g, fields
    <2> QED
        BY <1>2, <2>1 DEF g
<1>4. ASSUME NEW a
      PROVE  LET g == WithTodo(f, a)
             IN  /\ IsFrame(g) /\ g.paf = f.paf /\ g.component = f.component
                 /\ g.projection = f.projection /\ g.todo = a /\ g.result = f.result
    <2> DEFINE g == WithTodo(f, a)
    <2>1. /\ DOMAIN g = fields /\ g = [x \in fields |-> g[x]]
          /\ g.paf = f.paf /\ g.component = f.component
          /\ g.projection = f.projection /\ g.todo = a /\ g.result = f.result
        BY <1>1 DEF WithTodo
    <2> HIDE DEF g, fields
    <2> QED
        BY <1>2, <2>1 DEF g
<1>5. ASSUME NEW a
      PROVE  LET g == WithResidual(f, a)
             IN  /\ IsFrame(g) /\ g.paf = f.paf /\ g.component = f.component
                 /\ g.projection = f.projection /\ g.todo = f.todo
                 /\ g.result = f.result /\ g.residual = a
    <2> DEFINE g == WithResidual(f, a)
    <2>1. /\ DOMAIN g = fields /\ g = [x \in fields |-> g[x]]
          /\ g.paf = f.paf /\ g.component = f.component /\ g.projection = f.projection
          /\ g.todo = f.todo /\ g.result = f.result /\ g.residual = a
        BY <1>1 DEF WithResidual
    <2> HIDE DEF g, fields
    <2> QED
        BY <1>2, <2>1 DEF g
<1>6. ASSUME NEW a, NEW b
      PROVE  LET g == WithResult(f, a, b)
             IN  /\ IsFrame(g) /\ g.paf = f.paf /\ g.component = f.component
                 /\ g.projection = f.projection /\ g.todo = b /\ g.result = a
    <2> DEFINE g == WithResult(f, a, b)
    <2>1. /\ DOMAIN g = fields /\ g = [x \in fields |-> g[x]]
          /\ g.paf = f.paf /\ g.component = f.component
          /\ g.projection = f.projection /\ g.todo = b /\ g.result = a
        BY <1>1 DEF WithResult
    <2> HIDE DEF g, fields
    <2> QED
        BY <1>2, <2>1 DEF g
<1> QED
    BY <1>3, <1>4, <1>5, <1>6

LEMMA PreferredFindComponent ==
    ASSUME PreferredInv, Preferred!FindComponent, UNCHANGED printed
    PROVE  PreferredInv'
<1> DEFINE f == frames[1]
           D == DOMAIN f.paf.af
           C == SourceComponent(f.paf.af, D)
           proj == Preferred!ProjectPaf(f.paf, C, {})
           new == [f EXCEPT !.component = C, !.projection = proj]
<1>1. pc = "call" /\ pc' = "solve" /\ UNCHANGED <<af, returned>>
      /\ frames' = [frames EXCEPT ![1].component = C, ![1].projection = proj]
    BY PreferredOperators DEF Preferred!FindComponent, Preferred!Top
<1>2. Calls(frames, af) /\ Stage(pc, f, returned)
    BY <1>1 DEF PreferredInv, Recursing
<1>3. PICK X : frames \in Seq(X)
    BY <1>2 DEF Calls
<1>4. frames # <<>> /\ 1 \in DOMAIN frames
    BY <1>2, <1>3 DEF Calls
<1>5. IsFrame(f) /\ PafOk(f.paf) /\ D # {} /\ CallOk(f)
    BY <1>2, <1>4 DEF Calls, CallOk
<1>6. D \in SUBSET Nat /\ IsFiniteSet(D) /\ f.paf.af \in [D -> SUBSET D]
    BY <1>5 DEF PafOk
<1>7. Source(f.paf.af, D, C)
    BY <1>5, <1>6, SourceFound
<1>8. C \in SUBSET D /\ Unattacked(f.paf.af, C)
    BY <1>7 DEF Source, Unattacked
<1> HIDE DEF C, proj
<1>9. frames' = [frames EXCEPT ![1] = new]
    BY <1>1, <1>4
<1>n. new = WithComponent(f, C, proj)
    BY DEF WithComponent
<1> HIDE DEF new, f
<1>10. /\ IsFrame(new) /\ new.paf = f.paf /\ new.component = C /\ new.projection = proj
       /\ new.result = f.result
    BY <1>5, <1>n, FrameChanged
<1>11. Chosen(new)
    BY <1>8, <1>10 DEF Chosen, proj
<1>12. CallOk(new)
    BY <1>5, <1>10 DEF CallOk
<1>13. Stage(pc', new, returned')
    BY <1>1, <1>2, <1>10, <1>11 DEF Stage
<1> QED
    BY <1>1, <1>9, <1>10, <1>12, <1>13, PreferredTop DEF Recursing, f

LEMMA PreferredSolve ==
    ASSUME PreferredInv, Preferred!Solve, UNCHANGED printed
    PROVE  PreferredInv'
<1> DEFINE f == frames[1]
           exts == PreferredExtensions(f.projection.af)
           bm == f.projection.base_mapping
<1>a. PICK list \in Preferred!Listings(Preferred!PreferredExtensions(f.projection.af)) :
        frames' = [frames EXCEPT ![1].todo =
                      [k \in DOMAIN list |-> Preferred!MapIndices(list[k], bm)]]
    BY DEF Preferred!Solve, Preferred!Top
<1>1. /\ list \in Listings(exts)
      /\ frames' = [frames EXCEPT ![1].todo = [k \in DOMAIN list |-> MapIndices(list[k], bm)]]
    BY <1>a, PreferredOperators
<1> DEFINE todo == Mapped(list, bm)
           new == [f EXCEPT !.todo = todo]
<1>2. pc = "solve" /\ pc' = "loop" /\ UNCHANGED <<af, returned>>
      /\ frames' = [frames EXCEPT ![1].todo = todo]
    BY <1>1 DEF Preferred!Solve, Mapped
<1>3. Calls(frames, af) /\ Stage(pc, f, returned)
    BY <1>2 DEF PreferredInv, Recursing
<1>4. PICK X : frames \in Seq(X)
    BY <1>3 DEF Calls
<1>5. frames # <<>> /\ 1 \in DOMAIN frames
    BY <1>3, <1>4 DEF Calls
<1>6. IsFrame(f) /\ PafOk(f.paf) /\ CallOk(f) /\ Chosen(f) /\ f.result = <<>>
    BY <1>2, <1>3, <1>5 DEF Calls, CallOk, Stage
<1>7. /\ PafOk(f.projection)
      /\ AnswerOf(f.projection) = InBase(PreferredIn(Looped(f.paf.af, {}), f.component),
                                       f.paf.base_mapping)
    BY <1>6, ProjectedPaf DEF Chosen, Projects
<1>8. Listed(todo, AnswerOf(f.projection))
    <2> DEFINE E == DOMAIN f.projection.af
    <2>1. IsFiniteSet(E) /\ f.projection.af \in [E -> SUBSET E] /\ Injects(bm, E)
        BY <1>7 DEF PafOk
    <2>2. exts \in SUBSET SUBSET E
        BY <2>1 DEF PreferredExtensions, AdmissibleSets
    <2>3. IsFiniteSet(exts)
        BY <2>1, <2>2, FS_SUBSET, FS_Subset
    <2>4. Listed(list, exts)
        BY <1>1, <2>3, ListingOnce
    <2> DEFINE A == {bm[x] : x \in E}
    <2>5. Numbering(bm, E, A)
        BY <2>1 DEF Injects, Numbering
    <2> HIDE DEF A, E, todo, exts
    <2>6. Listed(todo, {MapIndices(e, bm) : e \in exts})
        BY <2>2, <2>4, <2>5, ListedMapped DEF todo
    <2> QED
        BY <2>6 DEF AnswerOf, exts
<1> HIDE DEF todo
<1>9. frames' = [frames EXCEPT ![1] = new]
    BY <1>2, <1>5
<1>n. new = WithTodo(f, todo)
    BY DEF WithTodo
<1> HIDE DEF new, f
<1>10. /\ IsFrame(new) /\ new.paf = f.paf /\ new.component = f.component
       /\ new.projection = f.projection /\ new.result = f.result /\ new.todo = todo
    BY <1>6, <1>n, FrameChanged
<1>11. Chosen(new)
    BY <1>6, <1>10 DEF Chosen
<1>12. Working(new)
    <2>1. CASE f.component = DOMAIN f.paf.af
        <3>1. f.paf.af \in [f.component -> SUBSET f.component]
            BY <1>6, <2>1 DEF PafOk
        <3>2. Looped(f.paf.af, {}) = f.paf.af
            BY <3>1 DEF Looped
        <3>3. AnswerOf(f.projection) = AnswerOf(f.paf)
            BY <1>6, <1>7, <2>1, <3>2, AnswerIn
        <3> QED
            BY <1>8, <1>10, <1>11, <2>1, <3>3 DEF Working
    <2>2. CASE f.component # DOMAIN f.paf.af
        <3>1. PafSplit(f.paf, f.component, f.projection)
            BY <1>6, PafSplits DEF Chosen
        <3>2. Work(todo, <<>>, InComponent(f.paf, f.component),
                   AnswerOf(f.paf), AnswerOf(f.projection))
            BY <1>8, <3>1, WorkStart DEF PafSplit
        <3> QED
            BY <1>6, <1>10, <1>11, <2>2, <3>2 DEF Working
    <2> QED
        BY <2>1, <2>2
<1>13. CallOk(new) /\ Stage(pc', new, returned')
    BY <1>2, <1>6, <1>10, <1>12 DEF CallOk, Stage
<1> QED
    BY <1>2, <1>9, <1>10, <1>13, PreferredTop DEF Recursing, f

(* What is known of the innermost call.                                      *)
LEMMA InnermostCall ==
    ASSUME PreferredInv, pc \in Recursing
    PROVE  /\ CallOk(frames[1]) /\ Stage(pc, frames[1], returned) /\ Calls(frames, af)
           /\ 1 \in DOMAIN frames /\ IsFrame(frames[1]) /\ PafOk(frames[1].paf)
           /\ \A f : f.paf = frames[1].paf /\ IsFrame(f) => CallOk(f)
<1>1. Calls(frames, af) /\ Stage(pc, frames[1], returned)
    BY DEF PreferredInv
<1>2. PICK X : frames \in Seq(X)
    BY <1>1 DEF Calls
<1>3. 1 \in DOMAIN frames
    BY <1>1, <1>2 DEF Calls
<1> QED
    BY <1>1, <1>3 DEF Calls, CallOk

LEMMA PreferredReturns ==
    ASSUME PreferredInv, UNCHANGED printed,
           Preferred!WholeComponent \/ Preferred!Finish
    PROVE  PreferredInv'
<1> DEFINE f == frames[1]
<1>1. pc = "loop" /\ UNCHANGED af
    BY DEF Preferred!WholeComponent, Preferred!Finish
<1>2. Working(f) /\ pc \in Recursing
    BY <1>1, InnermostCall DEF Stage, Recursing
<1>3. CASE Preferred!WholeComponent
    <2>1. Preferred!Pop(f.todo) /\ f.component = DOMAIN f.paf.af
        BY <1>3 DEF Preferred!WholeComponent, Preferred!IsWhole, Preferred!Top
    <2>2. Listed(f.todo, AnswerOf(f.paf))
        BY <1>2, <2>1 DEF Working
    <2> QED
        BY <1>1, <1>2, <2>1, <2>2, PreferredPop
<1>4. CASE Preferred!Finish
    <2>1. Preferred!Pop(f.result) /\ f.component # DOMAIN f.paf.af /\ f.todo = <<>>
        BY <1>4 DEF Preferred!Finish, Preferred!IsWhole, Preferred!Top
    <2>2. Listed(f.result, AnswerOf(f.paf))
        BY <1>2, <2>1, WorkDone DEF Working
    <2> QED
        BY <1>1, <1>2, <2>1, <2>2, PreferredPop
<1> QED
    BY <1>3, <1>4

LEMMA PreferredExtract ==
    ASSUME PreferredInv, UNCHANGED printed, Preferred!Extract
    PROVE  PreferredInv'
<1> DEFINE f == frames[1]
           q == Preferred!Residual(f.paf, f.component, Head(f.todo))
           new == WithResidual(f, q)
<1>1. /\ pc = "loop" /\ pc' = "residual" /\ UNCHANGED <<af, returned>>
      /\ f.component # DOMAIN f.paf.af /\ f.todo # <<>>
      /\ frames' = [frames EXCEPT ![1].residual = q]
    BY DEF Preferred!Extract, Preferred!IsWhole, Preferred!Top
<1>2. /\ Working(f) /\ IsFrame(f) /\ 1 \in DOMAIN frames
      /\ \A g : g.paf = f.paf /\ IsFrame(g) => CallOk(g)
    BY <1>1, InnermostCall DEF Stage, Recursing
<1>3. frames' = [frames EXCEPT ![1] = new]
    BY <1>1, <1>2 DEF WithResidual
<1> HIDE DEF f, new, q
<1>4. /\ IsFrame(new) /\ new.paf = f.paf /\ new.component = f.component
      /\ new.projection = f.projection /\ new.todo = f.todo
      /\ new.result = f.result /\ new.residual = q
    BY <1>2, FrameChanged DEF new
<1>5. Working(new)
    BY <1>2, <1>4 DEF Working, Chosen
<1>6. Waiting(new)
    BY <1>1, <1>4, <1>5 DEF Waiting, q
<1>7. CallOk(new) /\ Stage(pc', new, returned')
    BY <1>1, <1>2, <1>4, <1>6 DEF Stage
<1> QED
    BY <1>1, <1>3, <1>4, <1>7, PreferredTop DEF Recursing, f

LEMMA PreferredDescend ==
    ASSUME PreferredInv, UNCHANGED printed, Preferred!Descend
    PROVE  PreferredInv'
<1> DEFINE f == frames[1]
           new == Preferred!Frame(f.residual)
<1>1. /\ pc = "residual" /\ pc' = "call" /\ UNCHANGED <<af, returned>>
      /\ f.residual # Preferred!NoPaf /\ frames' = <<new>> \o frames
    BY DEF Preferred!Descend, Preferred!Top
<1>2. Waiting(f) /\ PafOk(f.paf) /\ Calls(frames, af)
    BY <1>1, InnermostCall DEF Stage, Recursing
<1>3. IsFrame(new) /\ new.paf = f.residual /\ new.result = <<>>
    BY DEF Preferred!Frame, IsFrame
<1> HIDE DEF new
<1>4. PafOk(f.residual) /\ DOMAIN f.residual.af # {}
    <2>1. /\ Work(f.todo, f.result, InComponent(f.paf, f.component),
                  AnswerOf(f.paf), AnswerOf(f.projection))
          /\ Chosen(f) /\ f.todo # <<>>
        BY <1>2 DEF Waiting, Working
    <2>2. Head(f.todo) \in AnswerOf(f.projection)
        BY <2>1, HeadOnce DEF Work
    <2>3. Looped(f.paf.af, {}) = f.paf.af
        BY <1>2 DEF PafOk, Looped
    <2>4. AnswerOf(f.projection) = InBase(PreferredIn(f.paf.af, f.component), f.paf.base_mapping)
        BY <1>2, <2>1, <2>3, ProjectedPaf DEF Chosen, Projects
    <2>5. PICK P \in PreferredIn(f.paf.af, f.component) :
            Head(f.todo) = MapIndices(P, f.paf.base_mapping)
        BY <2>2, <2>4 DEF InBase
    <2>6. P \in SUBSET f.component
        BY DEF PreferredIn, AdmissibleIn
    <2>7. f.component \in SUBSET DOMAIN f.paf.af
        BY <2>1 DEF Chosen
    <2>8. f.residual
            = Preferred!Residual(f.paf, f.component, MapIndices(P, f.paf.base_mapping))
        BY <1>2, <2>5 DEF Waiting
    <2> HIDE DEF f
    <2>9. Projects(f.paf, ResidualPart(f.paf.af, f.component, P),
                   Loops(f.paf.af, f.component, P),
                   Preferred!Residual(f.paf, f.component, MapIndices(P, f.paf.base_mapping)))
        BY <1>2, <2>6, <2>7, ResidualRight
    <2> QED
        BY <1>1, <2>8, <2>9 DEF Projects
<1>5. CallOk(new)
    BY <1>3, <1>4 DEF CallOk
<1>6. Calls(frames', af) /\ frames'[1] = new
    BY <1>1, <1>2, <1>3, <1>5, CallsPushed
<1>7. Stage(pc', frames'[1], returned')
    BY <1>1, <1>3, <1>6 DEF Stage
<1> QED
    BY <1>1, <1>6, <1>7 DEF PreferredInv, Recursing

(* The unions of the next extension of the component with rest.              *)
LEMMA PreferredUnions ==
    ASSUME PreferredInv, UNCHANGED <<af, printed>>, pc \in {"residual", "append"},
           NEW list, Listed(list, AnswerOf(frames[1].residual)), pc' = "loop",
           frames' = [frames EXCEPT
              ![1].result = @ \o [k \in DOMAIN list |-> Head(frames[1].todo) \cup list[k]],
              ![1].todo = Tail(@)]
    PROVE  PreferredInv'
<1> DEFINE f == frames[1]
           e == Head(f.todo)
           result == f.result \o [k \in DOMAIN list |-> e \cup list[k]]
           new == WithResult(f, result, Tail(f.todo))
           B == InComponent(f.paf, f.component)
           whole == AnswerOf(f.paf)
           part == AnswerOf(f.projection)
           rest == AnswerOf(f.residual)
<1>1. /\ Waiting(f) /\ PafOk(f.paf) /\ IsFrame(f) /\ 1 \in DOMAIN frames
      /\ \A g : g.paf = f.paf /\ IsFrame(g) => CallOk(g)
    BY InnermostCall DEF Stage, Recursing
<1>2. frames' = [frames EXCEPT ![1] = new]
    BY <1>1 DEF WithResult
<1>3. /\ Work(f.todo, f.result, B, whole, part) /\ Chosen(f) /\ f.todo # <<>>
      /\ f.component # DOMAIN f.paf.af
      /\ f.residual = Preferred!Residual(f.paf, f.component, e)
    BY <1>1 DEF Waiting, Working
<1>4. PafSplit(f.paf, f.component, f.projection)
    BY <1>1, <1>3, PafSplits DEF Chosen
<1>5. e \in part
    BY <1>3, HeadOnce DEF Work
<1>6. /\ \A E \in part : E \subseteq B
      /\ \A T \in rest : e \cup T \in whole /\ T \cap B = {}
      /\ \A S \in whole : S \cap B = e => S \ B \in rest
    <2> HIDE DEF e, f
    <2>1. \A S \in whole : S \cap B = e => S \ B \in rest
        BY <1>3, <1>4 DEF PafSplit
    <2> QED
        BY <1>3, <1>4, <1>5, <2>1 DEF PafSplit
<1>7. Listed(list, rest)
    OBVIOUS
<1> HIDE DEF whole, part, rest, B
<1>8. Work(Tail(f.todo), result, B, whole, part)
    BY <1>3, <1>6, <1>7, WorkStep
<1> HIDE DEF f, result, new
<1>9. /\ IsFrame(new) /\ new.paf = f.paf /\ new.component = f.component
      /\ new.projection = f.projection /\ new.todo = Tail(f.todo) /\ new.result = result
    BY <1>1, FrameChanged DEF new
<1>10. Working(new)
    BY <1>3, <1>8, <1>9 DEF Working, Chosen, B, whole, part
<1>11. CallOk(new) /\ Stage(pc', new, returned')
    BY <1>1, <1>9, <1>10 DEF Stage
<1> QED
    BY <1>2, <1>9, <1>11, PreferredTop DEF Recursing, f

LEMMA AppendedOne ==
    ASSUME NEW E, NEW s \in Seq(E), NEW e
    PROVE  s \o <<e>> = Append(s, e)
<1> DEFINE F == E \cup {e}
<1>1. DOMAIN s = 1 .. Len(s) /\ Len(s) \in Nat /\ \A k \in DOMAIN s : s[k] \in F
    OBVIOUS
<1>2. s \in [1 .. Len(s) -> F]
    BY <1>1
<1>3. s \in Seq(F) /\ e \in F
    BY <1>1, <1>2
<1> HIDE DEF F
<1>4. /\ s \o <<e>> \in Seq(F) /\ Append(s, e) \in Seq(F)
      /\ Len(s \o <<e>>) = Len(s) + 1 /\ Len(Append(s, e)) = Len(s) + 1
      /\ \A k \in 1 .. Len(s) + 1 : (s \o <<e>>)[k] = Append(s, e)[k]
    BY <1>3
<1> DEFINE a == s \o <<e>>
           b == Append(s, e)
<1> HIDE DEF a, b
<1>5. /\ a \in Seq(F) /\ b \in Seq(F) /\ Len(a) = Len(b)
      /\ \A k \in 1 .. Len(b) : a[k] = b[k]
    BY <1>4 DEF a, b
<1>6. a = b
    BY <1>5
<1> QED
    BY <1>6 DEF a, b

LEMMA PreferredAppends ==
    ASSUME PreferredInv, UNCHANGED printed, Preferred!AppendUnions \/ Preferred!Move
    PROVE  PreferredInv'
<1> DEFINE f == frames[1]
           e == Head(f.todo)
<1>1. CASE Preferred!AppendUnions
    <2>1. /\ pc = "append" /\ pc' = "loop" /\ UNCHANGED af
          /\ frames' = [frames EXCEPT
                ![1].result = @ \o [k \in DOMAIN returned |-> e \cup returned[k]],
                ![1].todo = Tail(@)]
        BY <1>1 DEF Preferred!AppendUnions, Preferred!Top
    <2>2. Listed(returned, AnswerOf(f.residual))
        BY <2>1, InnermostCall DEF Stage, Recursing
    <2> QED
        BY <2>1, <2>2, PreferredUnions
<1>2. CASE Preferred!Move
    <2>1. /\ pc = "residual" /\ pc' = "loop" /\ UNCHANGED af /\ f.residual = Preferred!NoPaf
          /\ frames' = [frames EXCEPT ![1].result = Append(@, e), ![1].todo = Tail(@)]
        BY <1>2 DEF Preferred!Move, Preferred!Top
    <2>2. Waiting(f) /\ 1 \in DOMAIN frames
        BY <2>1, InnermostCall DEF Stage, Recursing
    <2> DEFINE list == <<{}>>
               more == [k \in DOMAIN list |-> e \cup list[k]]
    <2>3. Listed(list, AnswerOf(f.residual))
        <3>1. AnswerOf(f.residual) = {{}}
            BY <2>1, NothingPreferred
        <3>2. list \in Seq({{}}) /\ DOMAIN list = {1} /\ list[1] = {}
            OBVIOUS
        <3> QED
            BY <3>1, <3>2 DEF Listed, Members, Once
    <2>4. more = <<e>>
        <3>1. DOMAIN list = 1 .. 1 /\ list[1] = {}
            OBVIOUS
        <3>2. e \cup {} = e
            OBVIOUS
        <3> QED
            BY <3>1, <3>2
    <2>5. f.result \o more = Append(f.result, e)
        <3>1. f.result \in Seq(AnswerOf(f.paf))
            BY <2>2 DEF Waiting, Working, Work
        <3> QED
            BY <2>4, <3>1, AppendedOne
    <2>6. frames' = [frames EXCEPT ![1].result = @ \o more, ![1].todo = Tail(@)]
        BY <2>1, <2>2, <2>5
    <2> HIDE DEF list
    <2> QED
        BY <2>1, <2>3, <2>6, PreferredUnions
<1> QED
    BY <1>1, <1>2

LEMMA PreferredStep ==
    ASSUME PreferredInv, Preferred!Next, UNCHANGED printed
    PROVE  PreferredInv'
<1>1. CASE Preferred!FindComponent
    BY <1>1, PreferredFindComponent
<1>2. CASE Preferred!Solve
    BY <1>2, PreferredSolve
<1>3. CASE Preferred!WholeComponent \/ Preferred!Finish
    BY <1>3, PreferredReturns
<1>4. CASE Preferred!Extract
    BY <1>4, PreferredExtract
<1>5. CASE Preferred!Descend
    BY <1>5, PreferredDescend
<1>6. CASE Preferred!Move \/ Preferred!AppendUnions
    BY <1>6, PreferredAppends
<1>7. CASE Preferred!Returned
    BY <1>7 DEF Preferred!Returned, Preferred!vars, PreferredInv
<1> QED
    BY <1>1, <1>2, <1>3, <1>4, <1>5, <1>6, <1>7 DEF Preferred!Next

LEMMA PreferredCallContract ==
    PreferredInv => Preferred!CallContract
<1> SUFFICES ASSUME PreferredInv, pc = "append"
             PROVE  Members(returned)
                        = {Preferred!MapIndices(e, frames[1].residual.base_mapping) :
                              e \in Preferred!PreferredExtensions(frames[1].residual.af)}
    BY DEF Preferred!CallContract, Preferred!Top, Members
<1>1. Listed(returned, AnswerOf(frames[1].residual))
    BY InnermostCall DEF Stage, Recursing
<1> QED
    BY <1>1, PreferredOperators DEF Listed, AnswerOf

-------------------------------------------------------------------------------
(* Linked lists.                                                             *)

(* The list from p to l consists of the nodes s.                             *)
IsList(heap, p, l, s) ==
    /\ s \in Seq(DOMAIN heap)
    /\ p = (IF s = <<>> THEN 0 ELSE s[1])
    /\ l = (IF s = <<>> THEN 0 ELSE s[Len(s)])
    /\ \A k \in DOMAIN s : heap[s[k]].next = (IF k = Len(s) THEN 0 ELSE s[k+1])

Holds(heap, s, set) ==
    /\ \A k \in DOMAIN s : heap[s[k]].c \in set
    /\ \A S \in set : \E k \in DOMAIN s : heap[s[k]].c = S
    /\ \A j, k \in DOMAIN s : heap[s[j]].c = heap[s[k]].c => j = k

(* The list from p to l holds each member of set once.                       *)
HasList(heap, p, l, set) == \E s : IsList(heap, p, l, s) /\ Holds(heap, s, set)

Nodes == [c : SUBSET Arg, next : Nat]

LEMMA ListKept ==
    ASSUME NEW heap, NEW new, DOMAIN heap \subseteq DOMAIN new, NEW p, NEW l, NEW set,
           \A x \in DOMAIN heap : heap[x].c \in set => new[x] = heap[x],
           HasList(heap, p, l, set)
    PROVE  HasList(new, p, l, set)
<1>1. PICK s : IsList(heap, p, l, s) /\ Holds(heap, s, set)
    BY DEF HasList
<1>2. s \in Seq(DOMAIN new)
    <2>1. s \in Seq(DOMAIN heap)
        BY <1>1 DEF IsList
    <2> DEFINE D == DOMAIN heap
               E == DOMAIN new
    <2> HIDE DEF D, E
    <2>2. D \subseteq E /\ s \in Seq(D)
        BY <2>1 DEF D, E
    <2>3. DOMAIN s = 1 .. Len(s) /\ Len(s) \in Nat /\ \A k \in DOMAIN s : s[k] \in E
        BY <2>2
    <2>4. s \in [1 .. Len(s) -> E]
        BY <2>2, <2>3
    <2>5. s \in Seq(E)
        BY <2>3, <2>4
    <2> QED
        BY <2>5 DEF E
<1>3. \A k \in DOMAIN s : s[k] \in DOMAIN heap
    BY <1>1 DEF IsList
<1>4. \A k \in DOMAIN s : new[s[k]] = heap[s[k]]
    BY <1>1, <1>3 DEF Holds
<1>5. IsList(new, p, l, s)
    BY <1>1, <1>2, <1>4 DEF IsList
<1>6. Holds(new, s, set)
    BY <1>1, <1>4 DEF Holds
<1> QED
    BY <1>5, <1>6 DEF HasList

(* The ends of a list.                                                       *)
LEMMA ListEnds ==
    ASSUME NEW heap \in Seq(Nodes), NEW p, NEW l, NEW set, HasList(heap, p, l, set)
    PROVE  /\ p = 0 <=> set = {}
           /\ l = 0 <=> set = {}
           /\ p # 0 => p \in DOMAIN heap /\ heap[p].c \in set
           /\ l # 0 => l \in DOMAIN heap /\ heap[l].c \in set /\ heap[l].next = 0
           /\ p \in Nat /\ l \in Nat
<1>1. PICK s : IsList(heap, p, l, s) /\ Holds(heap, s, set)
    BY DEF HasList
<1>2. DOMAIN s = 1 .. Len(s) /\ Len(s) \in Nat /\ \A k \in DOMAIN s : s[k] \in DOMAIN heap
    BY <1>1 DEF IsList
<1>3. \A x \in DOMAIN heap : x \in Nat /\ x # 0
    OBVIOUS
<1>4. CASE s = <<>>
    <2>1. DOMAIN s = {}
        BY <1>4
    <2>2. set = {}
        BY <1>1, <2>1 DEF Holds
    <2>3. p = 0 /\ l = 0
        BY <1>1, <1>4 DEF IsList
    <2> QED
        BY <2>2, <2>3
<1>5. CASE s # <<>>
    <2>1. 1 \in DOMAIN s /\ Len(s) \in DOMAIN s
        <3>1. s \in Seq(DOMAIN heap)
            BY <1>1 DEF IsList
        <3>2. Len(s) # 0
            BY <1>5, <3>1
        <3> QED
            BY <1>2, <3>2
    <2>2. p = s[1] /\ l = s[Len(s)] /\ heap[s[Len(s)]].next = 0
        BY <1>1, <1>5, <2>1 DEF IsList
    <2>3. heap[s[1]].c \in set /\ heap[s[Len(s)]].c \in set
        BY <1>1, <2>1 DEF Holds
    <2> QED
        BY <1>2, <1>3, <2>1, <2>2, <2>3
<1> QED
    BY <1>4, <1>5

(* What is behind the first node.                                            *)
LEMMA ListTail ==
    ASSUME NEW heap \in Seq(Nodes), NEW p, NEW l, NEW set, HasList(heap, p, l, set), p # 0
    PROVE  \E m : HasList(heap, heap[p].next, m, set \ {heap[p].c})
<1>1. PICK s : IsList(heap, p, l, s) /\ Holds(heap, s, set)
    BY DEF HasList
<1>2. s \in Seq(DOMAIN heap) /\ s # <<>> /\ p = s[1]
    BY <1>1 DEF IsList
<1> DEFINE D == DOMAIN heap
           t == Tail(s)
           e == heap[p].c
           m == IF t = <<>> THEN 0 ELSE t[Len(t)]
<1> HIDE DEF D
<1>3. /\ t \in Seq(D) /\ DOMAIN t = 1 .. Len(s) - 1 /\ Len(t) = Len(s) - 1
      /\ DOMAIN s = 1 .. Len(s) /\ Len(s) \in Nat
      /\ \A k \in DOMAIN t : k+1 \in DOMAIN s /\ t[k] = s[k+1]
      /\ 1 \in DOMAIN s
    <2>1. s \in Seq(D) /\ s # <<>>
        BY <1>2 DEF D
    <2> QED
        BY <2>1, Unstacked
<1> HIDE DEF t
<1>4. ASSUME NEW k \in DOMAIN t
      PROVE  /\ heap[t[k]].next = (IF k = Len(t) THEN 0 ELSE t[k+1])
             /\ heap[t[k]].c \in set \ {e}
    <2>1. k+1 \in DOMAIN s /\ t[k] = s[k+1] /\ k+1 # 1
        BY <1>3
    <2>2. heap[s[k+1]].next = IF k+1 = Len(s) THEN 0 ELSE s[(k+1)+1]
        BY <1>1, <2>1 DEF IsList
    <2>3. ASSUME k # Len(t)
          PROVE  k+1 \in DOMAIN t /\ k+1 # Len(s)
        BY <1>3, <2>3
    <2>4. k = Len(t) => k+1 = Len(s)
        BY <1>3
    <2>5. heap[t[k]].next = IF k = Len(t) THEN 0 ELSE t[k+1]
        <3>1. CASE k = Len(t)
            BY <2>1, <2>2, <2>4, <3>1
        <3>2. CASE k # Len(t)
            <4>1. t[k+1] = s[(k+1)+1]
                BY <1>3, <2>3, <3>2
            <4> QED
                BY <2>1, <2>2, <2>3, <3>2, <4>1
        <3> QED
            BY <3>1, <3>2
    <2>6. heap[t[k]].c \in set /\ heap[t[k]].c # e
        BY <1>1, <1>2, <1>3, <2>1 DEF Holds
    <2> QED
        BY <2>5, <2>6
<1>5. heap[p].next = IF t = <<>> THEN 0 ELSE t[1]
    <2>1. heap[s[1]].next = IF 1 = Len(s) THEN 0 ELSE s[1+1]
        BY <1>1, <1>3 DEF IsList
    <2>2. CASE Len(s) = 1
        <3>1. t = <<>>
            BY <1>3, <2>2
        <3> QED
            BY <1>2, <2>1, <2>2, <3>1
    <2>3. CASE Len(s) # 1
        <3>1. 1 \in DOMAIN t
            BY <1>3, <2>3
        <3>2. t # <<>> /\ t[1] = s[1+1]
            BY <1>3, <3>1
        <3> QED
            BY <1>2, <2>1, <2>3, <3>2
    <2> QED
        BY <2>2, <2>3
<1>6. IsList(heap, heap[p].next, m, t)
    BY <1>3, <1>4, <1>5 DEF IsList, D
<1>7. Holds(heap, t, set \ {e})
    <2>1. ASSUME NEW S \in set \ {e}
          PROVE  \E k \in DOMAIN t : heap[t[k]].c = S
        <3>1. PICK j \in DOMAIN s : heap[s[j]].c = S
            BY <1>1 DEF Holds
        <3>2. j # 1
            BY <1>2, <2>1, <3>1
        <3>3. j-1 \in DOMAIN t /\ (j-1)+1 = j
            BY <1>3, <3>2
        <3>4. heap[t[j-1]].c = S
            BY <1>3, <3>1, <3>3
        <3> QED
            BY <3>3, <3>4
    <2>2. ASSUME NEW j \in DOMAIN t, NEW k \in DOMAIN t, heap[t[j]].c = heap[t[k]].c
          PROVE  j = k
        <3>1. j+1 = k+1
            BY <1>1, <1>3, <2>2 DEF Holds
        <3> QED
            BY <1>3, <3>1
    <2> QED
        BY <1>4, <2>1, <2>2 DEF Holds
<1> QED
    BY <1>6, <1>7 DEF HasList

(* last_node->next = node.                                                   *)
Linked(heap, l, node) == IF l = 0 THEN heap ELSE [heap EXCEPT ![l].next = node]

LEMMA LinkedHeap ==
    ASSUME NEW heap \in Seq(Nodes), NEW l \in Nat, l # 0 => l \in DOMAIN heap, NEW node \in Nat
    PROVE  /\ Linked(heap, l, node) \in Seq(Nodes)
           /\ DOMAIN Linked(heap, l, node) = DOMAIN heap
           /\ Len(Linked(heap, l, node)) = Len(heap)
           /\ \A x \in DOMAIN heap :
                /\ Linked(heap, l, node)[x].c = heap[x].c
                /\ x # l => Linked(heap, l, node)[x] = heap[x]
           /\ l # 0 => Linked(heap, l, node)[l].next = node
<1> DEFINE new == [heap EXCEPT ![l].next = node]
<1>1. CASE l = 0
    BY <1>1 DEF Linked
<1>2. CASE l # 0
    <2>1. /\ DOMAIN heap = 1 .. Len(heap) /\ Len(heap) \in Nat
          /\ \A x \in DOMAIN heap : heap[x] \in Nodes
        OBVIOUS
    <2>2. DOMAIN new = DOMAIN heap
        OBVIOUS
    <2>3. \A x \in DOMAIN heap : x # l => new[x] = heap[x]
        BY <1>2
    <2>4. new[l] = [heap[l] EXCEPT !.next = node]
        BY <1>2
    <2>5. new[l] \in Nodes /\ new[l].c = heap[l].c /\ new[l].next = node
        BY <1>2, <2>1, <2>4 DEF Nodes
    <2> HIDE DEF new
    <2>6. \A x \in DOMAIN heap : new[x] \in Nodes /\ new[x].c = heap[x].c
        BY <1>2, <2>1, <2>3, <2>5
    <2>7. new \in [1 .. Len(heap) -> Nodes]
        <3>1. new = [x \in DOMAIN heap |-> new[x]]
            BY DEF new
        <3> QED
            BY <2>1, <2>2, <2>6, <3>1
    <2>8. new \in Seq(Nodes) /\ Len(new) = Len(heap)
        BY <2>1, <2>7
    <2>9. Linked(heap, l, node) = new
        BY <1>2 DEF Linked, new
    <2> QED
        BY <2>2, <2>3, <2>5, <2>6, <2>8, <2>9
<1> QED
    BY <1>1, <1>2

LEMMA ListLinked ==
    ASSUME NEW heap \in Seq(Nodes), NEW p, NEW l, NEW set, HasList(heap, p, l, set),
           NEW node \in DOMAIN heap, heap[node].next = 0, heap[node].c \notin set
    PROVE  HasList(Linked(heap, l, node), IF p = 0 THEN node ELSE p, node,
                   set \cup {heap[node].c})
<1> DEFINE new == Linked(heap, l, node)
           D == DOMAIN heap
<1>1. PICK s : IsList(heap, p, l, s) /\ Holds(heap, s, set)
    BY DEF HasList
<1>2. /\ p = 0 <=> set = {}
      /\ l = 0 <=> set = {}
      /\ l # 0 => l \in D
      /\ l \in Nat
    BY ListEnds
<1>3. node \in Nat /\ node # 0
    OBVIOUS
<1>4. /\ DOMAIN new = D
      /\ \A x \in D : new[x].c = heap[x].c /\ (x # l => new[x] = heap[x])
      /\ l # 0 => new[l].next = node
    BY <1>2, <1>3, LinkedHeap
<1> HIDE DEF new
<1> DEFINE t == Append(s, node)
<1>5. /\ s \in Seq(D) /\ Len(s) \in Nat /\ DOMAIN s = 1 .. Len(s)
      /\ \A k \in DOMAIN s : s[k] \in D
    BY <1>1 DEF IsList
<1>6. /\ t \in Seq(D) /\ DOMAIN t = 1 .. Len(s) + 1 /\ Len(t) = Len(s) + 1
      /\ t[Len(s) + 1] = node /\ t # <<>>
      /\ \A k \in DOMAIN s : k \in DOMAIN t /\ t[k] = s[k]
    <2> HIDE DEF D
    <2>1. node \in D
        BY DEF D
    <2> QED
        BY <1>5, <2>1
<1> HIDE DEF t
<1>r. Len(t) # Len(s)
    <2>1. Len(t) = Len(s) + 1
        BY <1>6
    <2>2. Len(s) \in Nat
        BY <1>5
    <2> QED
        BY <2>1, <2>2
<1>7. \A k \in DOMAIN t : k \in DOMAIN s \/ k = Len(s) + 1
    BY <1>5, <1>6
<1>8. node # l
    <2>1. ASSUME l # 0
          PROVE  heap[l].c \in set
        BY <2>1, ListEnds
    <2> QED
        BY <1>2, <1>3, <2>1
<1>9. ASSUME NEW k \in DOMAIN t
      PROVE  new[t[k]].next = IF k = Len(t) THEN 0 ELSE t[k+1]
    <2>1. CASE k = Len(s) + 1
        <3>1. new[node] = heap[node]
            BY <1>4, <1>8
        <3> QED
            BY <1>6, <2>1, <3>1
    <2>2. CASE k \in DOMAIN s /\ k # Len(s)
        <3>1. k+1 \in DOMAIN s /\ k # Len(t) /\ Len(s) \in DOMAIN s /\ s # <<>>
            BY <1>5, <1>6, <2>2
        <3>2. heap[s[k]].next = s[k+1] /\ l = s[Len(s)]
            BY <1>1, <2>2, <3>1 DEF IsList
        <3>3. s[k] # l
            BY <1>1, <2>2, <3>1, <3>2 DEF Holds
        <3>4. new[s[k]] = heap[s[k]]
            BY <1>4, <1>5, <2>2, <3>3
        <3> QED
            BY <1>6, <2>2, <3>1, <3>2, <3>4
    <2>3. CASE k \in DOMAIN s /\ k = Len(s)
        <3>a. k # Len(t)
            BY <1>r, <2>3
        <3>b. s # <<>>
            BY <2>3
        <3>1. k # Len(t) /\ s # <<>>
            BY <3>a, <3>b
        <3>2. l = s[k]
            BY <1>1, <2>3, <3>1 DEF IsList
        <3>3. l # 0
            BY <1>5, <2>3, <3>2
        <3>4. t[k] = l /\ t[k+1] = node
            BY <1>6, <2>3, <3>2
        <3> QED
            BY <1>4, <3>1, <3>3, <3>4
    <2> QED
        BY <1>7, <2>1, <2>2, <2>3
<1>10. t[1] = IF p = 0 THEN node ELSE p
    <2>1. CASE s = <<>>
        <3>1. p = 0 /\ Len(s) + 1 = 1
            BY <1>1, <2>1 DEF IsList
        <3> QED
            BY <1>6, <3>1
    <2>2. CASE s # <<>>
        <3>1. 1 \in DOMAIN s
            BY <1>5, <2>2
        <3>2. p = s[1] /\ p # 0
            BY <1>1, <1>5, <2>2, <3>1 DEF IsList
        <3> QED
            BY <1>6, <3>1, <3>2
    <2> QED
        BY <2>1, <2>2
<1>11. IsList(new, IF p = 0 THEN node ELSE p, node, t)
    BY <1>4, <1>6, <1>9, <1>10 DEF IsList
<1>12. \A k \in DOMAIN t : t[k] \in D /\ new[t[k]].c = heap[t[k]].c
    BY <1>4, <1>5, <1>6, <1>7
<1>13. Holds(new, t, set \cup {heap[node].c})
    <2>1. \A k \in DOMAIN t : heap[t[k]].c \in set \cup {heap[node].c}
        BY <1>1, <1>6, <1>7 DEF Holds
    <2>2. Len(s) + 1 \in DOMAIN t
        BY <1>5, <1>6
    <2>3. \A S \in set \cup {heap[node].c} : \E k \in DOMAIN t : heap[t[k]].c = S
        BY <1>1, <1>6, <2>2 DEF Holds
    <2>4. \A j, k \in DOMAIN t : heap[t[j]].c = heap[t[k]].c => j = k
        BY <1>1, <1>6, <1>7 DEF Holds
    <2> QED
        BY <1>12, <2>1, <2>3, <2>4 DEF Holds
<1> QED
    BY <1>11, <1>13 DEF HasList, new

(* The list a solver has returned, put behind the nodes there are.           *)
NewList(heap, list) ==
    heap \o [k \in DOMAIN list |->
        [c |-> list[k], next |-> IF k = Len(list) THEN 0 ELSE Len(heap) + k + 1]]

Added(heap, list, new) ==
    /\ new \in Seq(Nodes) /\ DOMAIN heap \subseteq DOMAIN new
    /\ Len(new) = Len(heap) + Len(list) /\ Len(heap) \in Nat /\ Len(list) \in Nat
    /\ \A x \in DOMAIN heap : new[x] = heap[x]
    /\ \A k \in 1 .. Len(list) :
        /\ new[Len(heap) + k].c = list[k]
        /\ new[Len(heap) + k].next = (IF k = Len(list) THEN 0 ELSE Len(heap) + k + 1)

LEMMA ListAdded ==
    ASSUME NEW heap \in Seq(Nodes), NEW set, set \in SUBSET SUBSET Arg, NEW list,
           Listed(list, set)
    PROVE  Added(heap, list, NewList(heap, list))
<1> DEFINE more == [k \in DOMAIN list |->
              [c |-> list[k], next |-> IF k = Len(list) THEN 0 ELSE Len(heap) + k + 1]]
           new == heap \o more
<1>1. Len(list) \in Nat /\ DOMAIN list = 1 .. Len(list) /\ Len(heap) \in Nat
    BY DEF Listed
<1>2. \A k \in DOMAIN list : list[k] \in SUBSET Arg
    BY DEF Listed
<1>3. \A k \in DOMAIN list :
        /\ more[k] \in Nodes /\ more[k].c = list[k]
        /\ more[k].next = (IF k = Len(list) THEN 0 ELSE Len(heap) + k + 1)
    BY <1>1, <1>2 DEF Nodes
<1>4. DOMAIN more = DOMAIN list
    OBVIOUS
<1>5. more \in Seq(Nodes) /\ Len(more) = Len(list)
    <2>1. more \in [1 .. Len(list) -> Nodes]
        BY <1>1, <1>3
    <2> QED
        BY <1>1, <2>1
<1>6. /\ new \in Seq(Nodes) /\ Len(new) = Len(heap) + Len(more)
      /\ \A x \in 1 .. Len(heap) : new[x] = heap[x]
      /\ \A x \in 1 .. Len(more) : new[Len(heap) + x] = more[x]
    <2> HIDE DEF more
    <2>1. heap \in Seq(Nodes) /\ more \in Seq(Nodes)
        BY <1>5
    <2> QED
        BY <2>1
<1>7. new = NewList(heap, list)
    BY DEF NewList
<1> HIDE DEF new, more
<1>8. DOMAIN new = 1 .. Len(heap) + Len(list) /\ DOMAIN heap = 1 .. Len(heap)
    BY <1>5, <1>6
<1>9. DOMAIN heap \subseteq DOMAIN new
    BY <1>1, <1>8
<1> QED
    BY <1>1, <1>3, <1>5, <1>6, <1>7, <1>8, <1>9 DEF Added

LEMMA ListMade ==
    ASSUME NEW heap \in Seq(Nodes), NEW set, set \in SUBSET SUBSET Arg, NEW list,
           Listed(list, set)
    PROVE  \E m : HasList(NewList(heap, list), IF list = <<>> THEN 0 ELSE Len(heap) + 1, m, set)
<1> DEFINE new == NewList(heap, list)
           B == Len(heap)
           L == Len(list)
           s == [k \in 1 .. L |-> B + k]
<1>1. /\ new \in Seq(Nodes) /\ Len(new) = B + L /\ B \in Nat /\ L \in Nat
      /\ \A k \in 1 .. L : /\ new[B + k].c = list[k]
                           /\ new[B + k].next = (IF k = L THEN 0 ELSE B + k + 1)
    <2>1. Added(heap, list, new)
        BY ListAdded
    <2> QED
        BY <2>1 DEF Added
<1>2. DOMAIN list = 1 .. L /\ Once(list) /\ Members(list) = set
    BY DEF Listed
<1>3. DOMAIN new = 1 .. B + L
    BY <1>1
<1> HIDE DEF new, B, L
<1>4. DOMAIN s = 1 .. L /\ \A k \in 1 .. L : s[k] = B + k /\ B + k \in DOMAIN new
    BY <1>1, <1>3
<1>5. s \in Seq(DOMAIN new) /\ Len(s) = L
    <2> DEFINE D == DOMAIN new
    <2>1. s \in [1 .. L -> D]
        BY <1>4
    <2> HIDE DEF D, s
    <2> QED
        BY <1>1, <1>4, <2>1 DEF D
<1> HIDE DEF s
<1> DEFINE p == IF list = <<>> THEN 0 ELSE B + 1
           m == IF s = <<>> THEN 0 ELSE s[Len(s)]
<1>6. p = IF s = <<>> THEN 0 ELSE s[1]
    <2>1. CASE L = 0
        <3>1. s = <<>>
            BY <1>5, <2>1
        <3>2. list = <<>>
            BY <2>1 DEF Listed, L
        <3> QED
            BY <3>1, <3>2
    <2>2. CASE L # 0
        <3>1. 1 \in 1 .. L
            BY <1>1, <2>2
        <3>a. 1 \in DOMAIN s /\ 1 \in DOMAIN list
            BY <1>2, <1>4, <3>1
        <3>2. s # <<>>
            BY <3>a
        <3>3. list # <<>>
            BY <3>a
        <3>4. s[1] = B + 1
            BY <1>4, <3>1
        <3> QED
            BY <3>2, <3>3, <3>4
    <2> QED
        BY <2>1, <2>2
<1>7. ASSUME NEW k \in DOMAIN s
      PROVE  new[s[k]].next = (IF k = Len(s) THEN 0 ELSE s[k+1])
    <2>1. CASE k = L
        BY <1>1, <1>4, <1>5, <2>1
    <2>2. CASE k # L
        <3>1. k+1 \in 1 .. L
            BY <1>1, <1>4, <2>2
        <3>2. s[k+1] = B + k + 1
            <4>1. s[k+1] = B + (k + 1) /\ k \in Int
                BY <1>1, <1>4, <3>1
            <4> QED
                BY <1>1, <4>1
        <3> QED
            BY <1>1, <1>4, <1>5, <2>2, <3>2
    <2> QED
        BY <2>1, <2>2
<1>8. IsList(new, p, m, s)
    BY <1>5, <1>6, <1>7 DEF IsList
<1>9. \A k \in DOMAIN s : new[s[k]].c = list[k]
    BY <1>1, <1>4
<1>10. Holds(new, s, set)
    BY <1>2, <1>4, <1>9 DEF Holds, Members, Once
<1> QED
    BY <1>8, <1>10 DEF HasList, new, B

(* No list comes back to a node.                                             *)
Descends(heap, rank) ==
    /\ rank \in [DOMAIN heap -> Nat]
    /\ \A x \in DOMAIN heap : /\ heap[x].next = 0 \/ heap[x].next \in DOMAIN heap
                              /\ heap[x].next # 0 => rank[heap[x].next] < rank[x]

Acyclic(heap) == \E rank : Descends(heap, rank)

LEMMA AcyclicCut ==
    ASSUME NEW heap, Acyclic(heap), NEW new, DOMAIN new = DOMAIN heap, NEW node,
           \A x \in DOMAIN heap : x # node => new[x] = heap[x],
           node \in DOMAIN heap => new[node].next = 0
    PROVE  Acyclic(new)
<1>1. PICK rank : Descends(heap, rank)
    BY DEF Acyclic
<1>2. Descends(new, rank)
    BY <1>1 DEF Descends
<1> QED
    BY <1>2 DEF Acyclic

LEMMA AcyclicLinked ==
    ASSUME NEW heap \in Seq(Nodes), Acyclic(heap), NEW l \in Nat, l # 0 => l \in DOMAIN heap,
           NEW node \in DOMAIN heap, heap[node].next = 0, node # l
    PROVE  Acyclic(Linked(heap, l, node))
<1> DEFINE new == Linked(heap, l, node)
           D == DOMAIN heap
<1>1. PICK rank : Descends(heap, rank)
    BY DEF Acyclic
<1>2. node \in Nat /\ node # 0
    OBVIOUS
<1>3. /\ DOMAIN new = D
      /\ \A x \in D : x # l => new[x] = heap[x]
      /\ l # 0 => new[l].next = node
    BY <1>2, LinkedHeap
<1> DEFINE up == [x \in D |-> IF x = node THEN 0 ELSE rank[x] + 1]
<1> HIDE DEF new
<1>4. \A x \in D : rank[x] \in Nat
    BY <1>1 DEF Descends
<1>5. /\ up \in [D -> Nat] /\ up[node] = 0
      /\ \A x \in D : x # node => up[x] = rank[x] + 1
    BY <1>4
<1> HIDE DEF up
<1>6. ASSUME NEW x \in D
      PROVE  /\ new[x].next = 0 \/ new[x].next \in D
             /\ new[x].next # 0 => up[new[x].next] < up[x]
    <2>1. CASE x = node
        BY <1>3, <2>1
    <2>2. CASE x = l
        BY <1>2, <1>3, <1>4, <1>5, <2>2
    <2>3. CASE x # node /\ x # l
        <3>1. new[x].next = heap[x].next
            BY <1>3, <2>3
        <3>2. /\ heap[x].next = 0 \/ heap[x].next \in D
              /\ heap[x].next # 0 => rank[heap[x].next] < rank[x]
            BY <1>1 DEF Descends
        <3>3. ASSUME heap[x].next # 0
              PROVE  up[heap[x].next] < up[x]
            <4> DEFINE y == heap[x].next
            <4>1. y \in D /\ rank[y] < rank[x]
                BY <3>2, <3>3
            <4> HIDE DEF y
            <4>2. rank[x] \in Nat /\ rank[y] \in Nat /\ up[x] = rank[x] + 1
                BY <1>4, <1>5, <2>3, <4>1
            <4>3. up[y] = 0 \/ up[y] = rank[y] + 1
                BY <1>5, <4>1
            <4>4. up[y] < up[x]
                BY <4>1, <4>2, <4>3
            <4> QED
                BY <4>4 DEF y
        <3> QED
            BY <3>1, <3>2, <3>3
    <2> QED
        BY <2>1, <2>2, <2>3
<1> QED
    BY <1>3, <1>5, <1>6 DEF Acyclic, Descends, new

LEMMA AcyclicAdded ==
    ASSUME NEW heap \in Seq(Nodes), Acyclic(heap), NEW set, set \in SUBSET SUBSET Arg, NEW list,
           Listed(list, set)
    PROVE  Acyclic(NewList(heap, list))
<1> DEFINE new == NewList(heap, list)
           D == DOMAIN heap
           E == DOMAIN new
           B == Len(heap)
           L == Len(list)
<1>1. PICK rank : Descends(heap, rank)
    BY DEF Acyclic
<1>a. Added(heap, list, new)
    BY ListAdded
<1>2. /\ new \in Seq(Nodes) /\ Len(new) = B + L /\ B \in Nat /\ L \in Nat
      /\ D \subseteq E
      /\ \A x \in D : new[x] = heap[x]
      /\ \A k \in 1 .. L : new[B + k].next = (IF k = L THEN 0 ELSE B + k + 1)
    BY <1>a DEF Added
<1>3. D = 1 .. B /\ E = 1 .. B + L
    BY <1>2
<1>4. \A x \in D : rank[x] \in Nat
    BY <1>1 DEF Descends
<1> DEFINE up == [x \in E |-> IF x \in D THEN rank[x] ELSE B + L - x]
<1>5. up \in [E -> Nat]
    <2>1. ASSUME NEW x \in E
          PROVE  (IF x \in D THEN rank[x] ELSE B + L - x) \in Nat
        <3>1. x \in 1 .. B + L
            BY <1>3
        <3> HIDE DEF B, L, E, D
        <3>2. B + L - x \in Nat
            BY <1>2, <3>1
        <3> QED
            BY <1>4, <3>2
    <2> HIDE DEF B, L, E, D
    <2> QED
        BY <2>1
<1>6. \A x \in E : up[x] = IF x \in D THEN rank[x] ELSE B + L - x
    OBVIOUS
<1> HIDE DEF up, new, B, L
<1>7. ASSUME NEW x \in E
      PROVE  /\ new[x].next = 0 \/ new[x].next \in E
             /\ new[x].next # 0 => up[new[x].next] < up[x]
    <2>1. CASE x \in D
        <3>1. /\ heap[x].next = 0 \/ heap[x].next \in D
              /\ heap[x].next # 0 => rank[heap[x].next] < rank[x]
            BY <1>1, <2>1 DEF Descends
        <3> QED
            BY <1>2, <1>6, <2>1, <3>1
    <2>2. CASE x \notin D
        <3> DEFINE k == x - B
        <3>1. k \in 1 .. L /\ B + k = x /\ x \in Nat
            BY <1>2, <1>3, <2>2
        <3>2. new[x].next = IF k = L THEN 0 ELSE B + k + 1
            BY <1>2, <3>1
        <3>3. CASE k = L
            BY <3>2, <3>3
        <3>4. CASE k # L
            <4>1. new[x].next = x + 1
                <5>1. new[x].next = B + k + 1
                    BY <3>2, <3>4
                <5> QED
                    BY <3>1, <5>1
            <4>2. x + 1 \in E /\ x + 1 \notin D
                BY <1>2, <1>3, <2>2, <3>1, <3>4
            <4>3. up[x + 1] = B + L - (x + 1) /\ up[x] = B + L - x
                BY <1>6, <2>2, <4>2
            <4>4. up[x + 1] < up[x]
                BY <1>2, <3>1, <4>3
            <4> QED
                BY <4>1, <4>2, <4>4
        <3> QED
            BY <3>3, <3>4
    <2> QED
        BY <2>1, <2>2
<1> QED
    BY <1>5, <1>7 DEF Acyclic, Descends, new

-------------------------------------------------------------------------------
(* What SccStable says of a list and what is said here.                      *)

LEMMA SccOperators ==
    /\ \A S, m : Scc!MapIndices(S, m) = MapIndices(S, m)
    /\ \A A : Scc!ParentMapping(A) = ParentMapping(A)
    /\ \A att, m : Scc!Renamed(att, m) = Renamed(att, m)
    /\ \A att, S : Scc!Victims(att, S) = Victims(att, S)
    /\ \A C : Scc!Projection(C) = Renamed(af, ParentMapping(C))
    /\ \A set : Scc!Listings(set) = Listings(set)
    /\ \A s : Scc!Cardinality(s) = Cardinality(s)
    /\ \A att, A : Scc!SourceComponent(att, A) = SourceComponent(att, A)
    /\ \A att, A : Scc!Forward(att, A) = Forward(att, A)
    /\ \A neighbours, a : Scc!Visited(neighbours, a) = Visited(neighbours, a)
    /\ Scc!Arg = Arg /\ Scc!Null = 0
<1>1. \A s : Scc!Cardinality(s) = Cardinality(s)
    BY DEF Scc!Cardinality, Cardinality
<1>2. \A S, m : Scc!MapIndices(S, m) = MapIndices(S, m)
    BY DEF Scc!MapIndices, MapIndices
<1>3. \A A : Scc!ParentMapping(A) = ParentMapping(A)
    BY DEF Scc!ParentMapping, ParentMapping, Scc!Cardinality, Cardinality
<1>4. \A att, m : Scc!Renamed(att, m) = Renamed(att, m)
    BY DEF Scc!Renamed, Renamed
<1>5. \A C : Scc!Projection(C) = Renamed(af, ParentMapping(C))
    BY <1>3, <1>4 DEF Scc!Projection
<1>6. \A set : Scc!Listings(set) = Listings(set)
    BY <1>1 DEF Scc!Listings, Listings
<1>7. \A att, S : Scc!Victims(att, S) = Victims(att, S)
    BY DEF Scc!Victims, Victims, Scc!SetAttacksArg, SetAttacksArg
<1>8. \A neighbours, a : Scc!Visited(neighbours, a) = Visited(neighbours, a)
    BY DEF Scc!Visited, Visited, Scc!Cardinality, Cardinality
<1>9. \A att, A : Scc!Forward(att, A) = Forward(att, A)
    BY DEF Scc!Forward, Forward
<1>10. \A att, A : Scc!SourceComponent(att, A) = SourceComponent(att, A)
    BY DEF Scc!SourceComponent, SourceComponent, Scc!Starts, Starts,
           Scc!Visited, Visited, Scc!Forward, Forward, Scc!Backward, Backward,
           Scc!Cardinality, Cardinality
<1>11. Scc!Arg = Arg /\ Scc!Null = 0
    BY DEF Scc!Arg, Arg, Scc!Null
<1> QED
    BY <1>1, <1>2, <1>3, <1>4, <1>5, <1>6, <1>7, <1>8, <1>9, <1>10, <1>11

(* The walk along the list from p.                                           *)
Walks(heap, f, p) ==
    /\ f \in [Nat -> {0} \cup DOMAIN heap] /\ f[0] = p
    /\ \A k \in Nat : f[k+1] = (IF f[k] = 0 THEN 0 ELSE heap[f[k]].next)

Iterates(S, f, x, h) ==
    f \in [Nat -> S] /\ f[0] = x /\ \A k \in Nat : f[k+1] = h[f[k]]

LEMMA IteratesThere ==
    ASSUME NEW S, NEW x \in S, NEW h \in [S -> S]
    PROVE  \E f : Iterates(S, f, x, h)
<1>1. PICK f \in [Nat -> S] : f[0] = x /\ \A k \in Nat : f[k+1] = h[f[k]]
    BY Rounds
<1> QED
    BY <1>1 DEF Iterates

LEMMA WalkThere ==
    ASSUME NEW heap, Acyclic(heap), NEW p \in {0} \cup DOMAIN heap
    PROVE  \E f : Walks(heap, f, p)
<1> DEFINE D == {0} \cup DOMAIN heap
           g == [y \in D |-> IF y = 0 THEN 0 ELSE heap[y].next]
<1>1. \A y \in D : (IF y = 0 THEN 0 ELSE heap[y].next) \in D
    BY DEF Acyclic, Descends
<1>2. g \in [D -> D] /\ p \in D
    BY <1>1
<1>3. \A y \in D : g[y] = IF y = 0 THEN 0 ELSE heap[y].next
    OBVIOUS
<1>a. PICK f : Iterates(D, f, p, g)
    <2> HIDE DEF D, g
    <2> QED
        BY <1>2, IteratesThere
<1>4. f \in [Nat -> D] /\ f[0] = p /\ \A k \in Nat : f[k+1] = g[f[k]]
    <2> HIDE DEF D, g
    <2> QED
        BY <1>a DEF Iterates
<1>5. f \in [Nat -> {0} \cup DOMAIN heap] /\ f[0] = p
    BY <1>4
<1>6. \A k \in Nat : f[k+1] = IF f[k] = 0 THEN 0 ELSE heap[f[k]].next
    <2> HIDE DEF D, g
    <2> QED
        BY <1>3, <1>4
<1> QED
    BY <1>5, <1>6 DEF Walks

LEMMA ChainWalk ==
    ASSUME nodes \in Seq(Nodes), NEW p, NEW f, Walks(nodes, f, p)
    PROVE  Scc!Chain(p) = {f[k] : k \in 0 .. Len(nodes)} \ {0}
<1> DEFINE Step(y) == IF y = 0 THEN 0 ELSE nodes[y].next
           w == CHOOSE g : g = [k \in Nat |-> IF k = 0 THEN p
                                              ELSE IF g[k-1] = 0 THEN 0 ELSE nodes[g[k-1]].next]
<1>3. Scc!Chain(p) = {w[k] : k \in 0 .. Len(nodes)} \ {0}
    BY DEF Scc!Chain, Scc!Null
<1>5. f[0] = p /\ DOMAIN f = Nat /\ f = [k \in Nat |-> f[k]]
    BY DEF Walks
<1>6. \A k \in Nat : f[k+1] = Step(f[k])
    BY DEF Walks
<1>7. ASSUME NEW k \in Nat, k # 0
      PROVE  f[k] = Step(f[k-1])
    <2>1. k-1 \in Nat /\ k-1+1 = k
        BY <1>7
    <2>2. f[(k-1)+1] = Step(f[k-1])
        BY <1>6, <2>1
    <2> QED
        BY <2>1, <2>2
<1>8. f = [k \in Nat |-> IF k = 0 THEN p ELSE IF f[k-1] = 0 THEN 0 ELSE nodes[f[k-1]].next]
    BY <1>5, <1>7
<1>9. w = [k \in Nat |-> IF k = 0 THEN p ELSE IF w[k-1] = 0 THEN 0 ELSE nodes[w[k-1]].next]
    BY <1>8
<1> HIDE DEF w
<1>10. ASSUME NEW k \in Nat
       PROVE  w[k] = f[k]
    <2> DEFINE Q == {x \in Nat : w[x] = f[x]}
    <2>1. 0 \in Q
        BY <1>5, <1>9
    <2>2. ASSUME NEW x \in Q
          PROVE  x+1 \in Q
        <3>1. x+1 \in Nat /\ x+1 # 0 /\ x+1-1 = x
            OBVIOUS
        <3>2. \A y \in Nat : y # 0 => w[y] = Step(w[y-1])
            BY <1>9
        <3>3. w[x+1] = Step(w[x+1-1])
            BY <3>1, <3>2
        <3> QED
            BY <1>6, <3>1, <3>3
    <2> HIDE DEF Q
    <2>3. Q = Nat
        <3>1. Q \in SUBSET Nat
            BY DEF Q
        <3> QED
            BY <2>1, <2>2, <3>1, EveryNumber
    <2> QED
        BY <2>3 DEF Q
<1>11. Len(nodes) \in Nat => {w[k] : k \in 0 .. Len(nodes)} = {f[k] : k \in 0 .. Len(nodes)}
    BY <1>10
<1>13. Len(nodes) \in Nat
    OBVIOUS
<1> QED
    BY <1>3, <1>11, <1>13

LEMMA WalkDescends ==
    ASSUME NEW heap, NEW rank, Descends(heap, rank), NEW p, NEW f, Walks(heap, f, p),
           NEW k \in Nat
    PROVE  (\A j \in 0 .. k : f[j] # 0) =>
                \A j \in 0 .. k : rank[f[j]] \in Nat /\ rank[f[k]] + k <= rank[f[j]] + j
<1> DEFINE D == DOMAIN heap
           Ok(x) == (\A j \in 0 .. x : f[j] # 0) =>
                        \A j \in 0 .. x : rank[f[j]] \in Nat /\ rank[f[x]] + x <= rank[f[j]] + j
           Q == {x \in Nat : Ok(x)}
<1>1. \A j \in Nat : f[j] # 0 => f[j] \in D
    BY DEF Walks
<1>2. \A y \in D : rank[y] \in Nat /\ (heap[y].next # 0 => rank[heap[y].next] < rank[y])
    BY DEF Descends
<1>3. \A j \in Nat : f[j] # 0 => rank[f[j]] \in Nat
    BY <1>1, <1>2
<1>4. 0 \in Q
    <2>1. 0 .. 0 = {0}
        OBVIOUS
    <2> QED
        BY <1>3, <2>1
<1>5. ASSUME NEW x \in Q
      PROVE  x+1 \in Q
    <2>1. SUFFICES ASSUME \A j \in 0 .. x+1 : f[j] # 0, NEW j \in 0 .. x+1
                   PROVE  rank[f[j]] \in Nat /\ rank[f[x+1]] + (x+1) <= rank[f[j]] + j
        OBVIOUS
    <2>2. x \in Nat /\ x+1 \in 0 .. x+1 /\ x \in 0 .. x+1 /\ x+1 \in Nat /\ x \in 0 .. x
        OBVIOUS
    <2>3. f[x] \in D /\ f[x+1] # 0 /\ f[x+1] = heap[f[x]].next
        BY <1>1, <2>1, <2>2 DEF Walks
    <2>4. rank[f[x+1]] < rank[f[x]] /\ rank[f[x]] \in Nat /\ rank[f[x+1]] \in Nat
        BY <1>2, <1>3, <2>2, <2>3
    <2>5. CASE j = x+1
        BY <2>4, <2>5
    <2>6. CASE j # x+1
        <3>1. j \in 0 .. x /\ j \in Nat
            BY <2>2, <2>6
        <3>2. rank[f[j]] \in Nat /\ rank[f[x]] + x <= rank[f[j]] + j
            <4>1. \A y \in 0 .. x : f[y] # 0
                BY <2>1, <2>2
            <4> QED
                BY <3>1, <4>1
        <3> QED
            BY <2>2, <2>4, <3>1, <3>2
    <2> QED
        BY <2>5, <2>6
<1>6. Q = Nat
    <2>1. Q \in SUBSET Nat
        OBVIOUS
    <2> HIDE DEF Q
    <2> QED
        BY <1>4, <1>5, <2>1, EveryNumber
<1> QED
    BY <1>6

LEMMA IntervalSize ==
    \A k \in Nat : IsFiniteSet(1 .. k) /\ Cardinality(1 .. k) = k
<1> TAKE k \in Nat
<1>1. 1 \in Int /\ k \in Int
    OBVIOUS
<1>2. /\ IsFiniteSet(1 .. k)
      /\ Cardinality(1 .. k) = IF 1 > k THEN 0 ELSE k - 1 + 1
    BY <1>1, FS_Interval
<1> QED
    BY <1>2

(* It comes to NULL, and what has been passed is a list.                     *)
LEMMA WalkList ==
    ASSUME NEW heap \in Seq(Nodes), Acyclic(heap), NEW p \in {0} \cup DOMAIN heap,
           NEW f, Walks(heap, f, p)
    PROVE  \E s, l : /\ IsList(heap, p, l, s)
                     /\ {s[k] : k \in DOMAIN s} = {f[k] : k \in 0 .. Len(heap)} \ {0}
                     /\ \A j, k \in DOMAIN s : s[j] = s[k] => j = k
<1> DEFINE D == DOMAIN heap
           Z == {k \in Nat : f[k] = 0}
<1>1. PICK rank : Descends(heap, rank)
    BY DEF Acyclic
<1>2. /\ f[0] = p /\ \A k \in Nat : f[k] # 0 => f[k] \in D
      /\ \A k \in Nat : f[k+1] = (IF f[k] = 0 THEN 0 ELSE heap[f[k]].next)
    BY DEF Walks
<1>3. \A k \in Nat : (\A j \in 0 .. k : f[j] # 0) =>
        \A j \in 0 .. k : rank[f[j]] \in Nat /\ rank[f[k]] + k <= rank[f[j]] + j
    BY <1>1, WalkDescends
<1>4. Z # {}
    <2>1. SUFFICES ASSUME \A k \in Nat : f[k] # 0
                   PROVE  FALSE
        OBVIOUS
    <2> DEFINE k == rank[f[0]] + 1
    <2>2. rank[f[0]] \in Nat
        <3>1. 0 \in 0 .. 0 /\ 0 \in Nat
            OBVIOUS
        <3> QED
            BY <1>3, <2>1, <3>1
    <2>3. k \in Nat /\ 0 \in 0 .. k /\ k \in 0 .. k
        BY <2>2
    <2>4. rank[f[k]] + k <= rank[f[0]] + 0 /\ rank[f[k]] \in Nat
        BY <1>3, <2>1, <2>3
    <2> QED
        BY <2>2, <2>4
<1>5. PICK m \in Z : \A k \in Z : m <= k
    <2>1. Z \in SUBSET Nat
        OBVIOUS
    <2> HIDE DEF Z
    <2> QED
        BY <1>4, <2>1, LeastNumber
<1>6. m \in Nat /\ f[m] = 0 /\ \A k \in 0 .. m-1 : k \in Nat /\ f[k] # 0 /\ f[k] \in D
    <2>1. m \in Nat /\ f[m] = 0
        OBVIOUS
    <2>2. ASSUME NEW k \in 0 .. m-1
          PROVE  k \in Nat /\ f[k] # 0
        BY <1>5, <2>1
    <2> QED
        BY <1>2, <2>1, <2>2
<1> HIDE DEF Z
<1>7. ASSUME NEW j \in 0 .. m-1, NEW k \in 0 .. m-1, j < k
      PROVE  f[j] # f[k]
    <2>1. k \in Nat /\ j \in 0 .. k /\ k \in 0 .. k /\ j \in Nat
        BY <1>6, <1>7
    <2>2. \A x \in 0 .. k : f[x] # 0
        BY <1>6
    <2>3. rank[f[j]] \in Nat /\ rank[f[k]] \in Nat /\ rank[f[k]] + k <= rank[f[j]] + j
        BY <1>3, <2>1, <2>2
    <2> QED
        BY <1>7, <2>1, <2>3
<1> DEFINE s == [k \in 1 .. m |-> f[k-1]]
           l == IF s = <<>> THEN 0 ELSE s[Len(s)]
<1>8. \A k \in 1 .. m : k-1 \in 0 .. m-1 /\ s[k] = f[k-1] /\ s[k] \in D
    BY <1>6
<1>9. s \in Seq(D) /\ Len(s) = m /\ DOMAIN s = 1 .. m
    <2> HIDE DEF D
    <2>1. s \in [1 .. m -> D]
        BY <1>8
    <2> HIDE DEF s
    <2> QED
        BY <1>6, <2>1
<1> HIDE DEF s
<1>10. p = IF s = <<>> THEN 0 ELSE s[1]
    <2>1. CASE m = 0
        <3>1. s = <<>>
            BY <1>9, <2>1
        <3> QED
            BY <1>2, <1>6, <2>1, <3>1
    <2>2. CASE m # 0
        <3>1. 1 \in 1 .. m /\ 1 \in DOMAIN s /\ 1-1 = 0
            BY <1>6, <1>9, <2>2
        <3>2. s # <<>>
            BY <3>1
        <3>3. s[1] = f[0]
            BY <1>8, <3>1
        <3> QED
            BY <1>2, <3>2, <3>3
    <2> QED
        BY <2>1, <2>2
<1>11. ASSUME NEW k \in DOMAIN s
       PROVE  heap[s[k]].next = (IF k = Len(s) THEN 0 ELSE s[k+1])
    <2>1. k \in 1 .. m /\ k-1 \in Nat /\ (k-1)+1 = k /\ f[k-1] # 0 /\ s[k] = f[k-1]
        BY <1>6, <1>8, <1>9
    <2>2. heap[s[k]].next = f[k]
        BY <1>2, <2>1
    <2>3. CASE k = m
        BY <1>6, <1>9, <2>2, <2>3
    <2>4. CASE k # m
        <3>1. k+1 \in 1 .. m /\ (k+1)-1 = k
            BY <1>6, <2>1, <2>4
        <3>2. s[k+1] = f[k]
            BY <1>8, <3>1
        <3> QED
            BY <1>9, <2>2, <2>4, <3>2
    <2> QED
        BY <2>3, <2>4
<1>12. IsList(heap, p, l, s)
    BY <1>9, <1>10, <1>11 DEF IsList
<1>13. \A j, k \in DOMAIN s : s[j] = s[k] => j = k
    <2>1. ASSUME NEW j \in DOMAIN s, NEW k \in DOMAIN s, j < k
          PROVE  s[j] # s[k]
        <3>a. m \in Nat
            BY <1>6
        <3>b. j \in 1 .. m /\ k \in 1 .. m
            BY <1>9
        <3>1. j-1 \in 0 .. m-1 /\ k-1 \in 0 .. m-1 /\ j-1 < k-1
            BY <2>1, <3>a, <3>b
        <3>2. f[j-1] # f[k-1]
            BY <1>7, <3>1
        <3> QED
            BY <1>8, <1>9, <3>2
    <2>2. \A j, k \in DOMAIN s : j # k => j < k \/ k < j
        BY <1>6, <1>9
    <2> QED
        BY <2>1, <2>2
<1>14. m <= Len(heap)
    <2>1. D = 1 .. Len(heap) /\ Len(heap) \in Nat
        OBVIOUS
    <2> HIDE DEF D
    <2>2. s \in [1 .. m -> D]
        BY <1>6, <1>9
    <2>3. s \in Injection(1 .. m, D)
        BY <1>9, <1>13, <2>2 DEF Injection, IsInjective
    <2>4. IsFiniteSet(D) /\ Cardinality(D) = Len(heap) /\ Cardinality(1 .. m) = m
        <3>1. \A k \in Nat : IsFiniteSet(1 .. k) /\ Cardinality(1 .. k) = k
            BY IntervalSize
        <3>2. m \in Nat
            BY <1>6
        <3> QED
            BY <2>1, <3>1, <3>2
    <2>5. Cardinality(1 .. m) <= Cardinality(D)
        BY <2>3, <2>4, FS_Injection
    <2> QED
        BY <2>4, <2>5
<1>15. ASSUME NEW k \in Nat
       PROVE  f[m + k] = 0
    <2> DEFINE Q == {x \in Nat : f[m + x] = 0}
    <2>1. 0 \in Q
        BY <1>6
    <2>2. ASSUME NEW x \in Q
          PROVE  x+1 \in Q
        <3>1. m + x \in Nat /\ (m + x) + 1 = m + (x + 1) /\ x+1 \in Nat
            BY <1>6
        <3>2. f[(m + x) + 1] = 0
            BY <1>2, <3>1
        <3> QED
            BY <3>1, <3>2
    <2>3. Q = Nat
        <3>1. Q \in SUBSET Nat
            OBVIOUS
        <3> HIDE DEF Q
        <3> QED
            BY <2>1, <2>2, <3>1, EveryNumber
    <2> QED
        BY <2>3
<1>16. ASSUME NEW k \in 0 .. Len(heap), f[k] # 0
       PROVE  k+1 \in DOMAIN s /\ s[k+1] = f[k]
    <2>1. k \in Nat
        OBVIOUS
    <2>2. k < m
        <3>1. SUFFICES ASSUME k >= m
                       PROVE  FALSE
            BY <1>6, <2>1
        <3>2. k - m \in Nat /\ m + (k - m) = k
            BY <1>6, <2>1, <3>1
        <3> QED
            BY <1>15, <1>16, <3>2
    <2>3. k+1 \in 1 .. m /\ (k+1)-1 = k
        BY <1>6, <2>1, <2>2
    <2> QED
        BY <1>8, <1>9, <2>3
<1>17. ASSUME NEW k \in DOMAIN s
       PROVE  k-1 \in 0 .. Len(heap) /\ s[k] = f[k-1] /\ s[k] # 0
    <2>1. k \in 1 .. m /\ k-1 \in 0 .. m-1 /\ s[k] = f[k-1] /\ f[k-1] # 0
        BY <1>6, <1>8, <1>9
    <2>2. Len(heap) \in Nat
        OBVIOUS
    <2> QED
        BY <1>6, <1>14, <2>1, <2>2
<1>18. {s[k] : k \in DOMAIN s} = {f[k] : k \in 0 .. Len(heap)} \ {0}
    <2> DEFINE A == {s[k] : k \in DOMAIN s}
               B == {f[k] : k \in 0 .. Len(heap)}
    <2>1. \A y \in A : y \in B /\ y # 0
        BY <1>17
    <2>2. \A y \in B : y # 0 => y \in A
        BY <1>16
    <2> HIDE DEF A, B
    <2>3. A = B \ {0}
        <3>1. 0 \notin A
            BY <2>1
        <3> QED
            BY <2>1, <2>2, <3>1
    <2> QED
        BY <2>3 DEF A, B
<1> QED
    BY <1>12, <1>13, <1>18

LEMMA SccExtensions ==
    ASSUME NEW C
    PROVE  Scc!ComponentExtensions(C) = PartExtensions(routine, af, C)
<1> DEFINE m == ParentMapping(C)
           E == Extensions(routine, Renamed(af, m))
<1>1. Scc!ParentMapping(C) = m /\ Scc!Projection(C) = Renamed(af, m)
    BY SccOperators
<1>2. Scc!ComponentExtensions(C) = {Scc!MapIndices(e, m) : e \in E}
    BY <1>1 DEF Scc!ComponentExtensions
<1>3. \A e : Scc!MapIndices(e, m) = MapIndices(e, m)
    BY SccOperators
<1>4. PartExtensions(routine, af, C) = {MapIndices(e, m) : e \in E}
    BY DEF PartExtensions
<1> HIDE DEF m, E
<1> QED
    BY <1>2, <1>3, <1>4

LEMMA SetsListed ==
    ASSUME NEW set \in SUBSET SUBSET Arg, NEW list \in Listings(set)
    PROVE  Listed(list, set)
<1>1. IsFiniteSet(set)
    <2>1. IsFiniteSet(SUBSET Arg)
        BY ArgFinite, FS_SUBSET
    <2> QED
        BY <2>1, FS_Subset
<1> QED
    BY <1>1, ListingOnce

(* Two walks along the same list meet the same nodes.                        *)
LEMMA SameChain ==
    ASSUME NEW heap \in Seq(Nodes), NEW p, NEW l, NEW s, IsList(heap, p, l, s),
           NEW h, NEW t, IsList(heap, p, h, t)
    PROVE  {s[k] : k \in DOMAIN s} \subseteq {t[k] : k \in DOMAIN t}
<1> DEFINE bad == {k \in DOMAIN s : ~(k \in DOMAIN t /\ t[k] = s[k])}
<1>1. /\ DOMAIN s = 1 .. Len(s) /\ Len(s) \in Nat /\ DOMAIN t = 1 .. Len(t) /\ Len(t) \in Nat
      /\ \A k \in DOMAIN s : s[k] \in DOMAIN heap
    BY DEF IsList
<1>2. 0 \notin DOMAIN heap
    OBVIOUS
<1>3. s # <<>> => t # <<>> /\ s[1] = p /\ t[1] = p
    <2>1. ASSUME s # <<>>
          PROVE  1 \in DOMAIN s
        BY <1>1, <2>1 DEF IsList
    <2> QED
        BY <1>1, <1>2, <2>1 DEF IsList
<1>4. bad = {}
    <2> SUFFICES ASSUME bad # {}
                 PROVE  FALSE
        OBVIOUS
    <2>1. bad \in SUBSET Nat
        BY <1>1
    <2>2. PICK k \in bad : \A j \in bad : k <= j
        BY <2>1, LeastNumber
    <2>3. k \in DOMAIN s /\ ~(k \in DOMAIN t /\ t[k] = s[k]) /\ k \in Nat
        BY <1>1
    <2>4. CASE k = 1
        <3>1. s # <<>> /\ t # <<>>
            BY <1>3, <2>3, <2>4
        <3>2. 1 \in DOMAIN t
            BY <1>1, <3>1 DEF IsList
        <3> QED
            BY <1>3, <2>3, <2>4, <3>1, <3>2
    <2>5. CASE k # 1
        <3>1. k-1 \in DOMAIN s /\ k-1 # Len(s) /\ (k-1)+1 = k /\ k-1 < k /\ k-1 \in Nat
            BY <1>1, <2>3, <2>5
        <3>2. k-1 \notin bad
            BY <2>2, <2>3, <3>1
        <3>3. k-1 \in DOMAIN t /\ t[k-1] = s[k-1]
            BY <3>1, <3>2
        <3>4. heap[s[k-1]].next = s[k] /\ s[k] # 0
            BY <1>1, <1>2, <2>3, <3>1 DEF IsList
        <3>5. heap[t[k-1]].next = IF k-1 = Len(t) THEN 0 ELSE t[k]
            BY <3>1, <3>3 DEF IsList
        <3>6. k-1 # Len(t) /\ t[k] = s[k]
            BY <3>3, <3>4, <3>5
        <3>7. k \in DOMAIN t
            BY <1>1, <3>1, <3>3, <3>6
        <3> QED
            BY <2>3, <3>6, <3>7
    <2> QED
        BY <2>4, <2>5
<1> QED
    BY <1>4

(* What put remembers of a result.                                           *)
LEMMA MembersHeld ==
    ASSUME nodes \in Seq(Nodes), Acyclic(nodes), NEW p, NEW l, NEW set,
           HasList(nodes, p, l, set)
    PROVE  Scc!Members(p) = set
<1>1. PICK t : IsList(nodes, p, l, t) /\ Holds(nodes, t, set)
    BY DEF HasList
<1>2. p \in {0} \cup DOMAIN nodes
    BY ListEnds
<1>3. PICK f : Walks(nodes, f, p)
    BY <1>2, WalkThere
<1>4. PICK s, h : /\ IsList(nodes, p, h, s)
                  /\ {s[k] : k \in DOMAIN s} = {f[k] : k \in 0 .. Len(nodes)} \ {0}
                  /\ \A j, k \in DOMAIN s : s[j] = s[k] => j = k
    BY <1>2, <1>3, WalkList
<1>5. {s[k] : k \in DOMAIN s} = {t[k] : k \in DOMAIN t}
    <2>1. {s[k] : k \in DOMAIN s} \subseteq {t[k] : k \in DOMAIN t}
        BY <1>1, <1>4, SameChain
    <2>2. {t[k] : k \in DOMAIN t} \subseteq {s[k] : k \in DOMAIN s}
        BY <1>1, <1>4, SameChain
    <2> QED
        BY <2>1, <2>2
<1>6. Scc!Chain(p) = {t[k] : k \in DOMAIN t}
    BY <1>3, <1>4, <1>5, ChainWalk
<1>7. Scc!Members(p) = {nodes[x].c : x \in {t[k] : k \in DOMAIN t}}
    BY <1>6 DEF Scc!Members
<1>8. \A S : S \in set <=> \E k \in DOMAIN t : nodes[t[k]].c = S
    BY <1>1 DEF Holds
<1> QED
    BY <1>7, <1>8

(* The comparison that stale keeps track of.                                 *)
LEMMA IntactList ==
    ASSUME nodes \in Seq(Nodes), Acyclic(nodes), NEW p \in {0} \cup DOMAIN nodes,
           NEW key, Scc!Intact(key, p)
    PROVE  \E l : HasList(nodes, p, l, put[key])
<1> DEFINE set == put[key]
<1>1. PICK f : Walks(nodes, f, p)
    BY WalkThere
<1>2. PICK s, l : /\ IsList(nodes, p, l, s)
                  /\ {s[k] : k \in DOMAIN s} = {f[k] : k \in 0 .. Len(nodes)} \ {0}
                  /\ \A j, k \in DOMAIN s : s[j] = s[k] => j = k
    BY <1>1, WalkList
<1> DEFINE chain == {s[k] : k \in DOMAIN s}
           t == [k \in DOMAIN s |-> nodes[s[k]].c]
<1>3. Scc!Chain(p) = chain
    BY <1>1, <1>2, ChainWalk
<1>4. Scc!Members(p) = set /\ Cardinality(chain) = Cardinality(set)
    <2>1. Scc!Members(p) = set
        BY DEF Scc!Intact, Scc!Lists
    <2>2. Scc!Cardinality(Scc!Chain(p)) = Scc!Cardinality(set)
        BY DEF Scc!Intact, Scc!Lists
    <2>3. \A S : Scc!Cardinality(S) = Cardinality(S)
        BY SccOperators
    <2> HIDE DEF set, chain
    <2> QED
        BY <1>3, <2>1, <2>2, <2>3
<1>5. Scc!Members(p) = {nodes[x].c : x \in chain}
    BY <1>3 DEF Scc!Members
<1>6. DOMAIN s = 1 .. Len(s) /\ Len(s) \in Nat
    BY <1>2 DEF IsList
<1> DEFINE M == Len(s)
<1>7. IsFiniteSet(1 .. M) /\ Cardinality(1 .. M) = M
    BY <1>6, IntervalSize
<1>8. s \in Bijection(1 .. M, chain)
    <2>1. s \in [1 .. M -> chain]
        <3>1. s \in Seq(DOMAIN nodes)
            BY <1>2 DEF IsList
        <3>2. s = [k \in DOMAIN s |-> s[k]]
            BY <3>1
        <3> QED
            BY <1>6, <3>2
    <2>2. \A y \in chain : \E k \in 1 .. M : s[k] = y
        BY <1>6
    <2>3. \A j, k \in 1 .. M : s[j] = s[k] => j = k
        BY <1>2, <1>6
    <2> HIDE DEF M, chain
    <2> QED
        BY <2>1, <2>2, <2>3 DEF Bijection, Injection, Surjection, IsInjective
<1>9. Cardinality(chain) = M
    <2> HIDE DEF M, chain
    <2>1. ExistsBijection(1 .. M, chain)
        BY <1>8 DEF ExistsBijection
    <2> QED
        BY <1>7, <2>1, FS_Bijection
<1>10. t \in Surjection(1 .. M, set)
    <2>1. \A k \in 1 .. M : t[k] = nodes[s[k]].c /\ s[k] \in chain
        BY <1>6
    <2>2. \A x \in chain : \E k \in 1 .. M : s[k] = x
        BY <1>6
    <2>3. DOMAIN t = 1 .. M /\ t = [k \in 1 .. M |-> t[k]]
        BY <1>6
    <2>4. set = {nodes[x].c : x \in chain}
        BY <1>4, <1>5
    <2> HIDE DEF M, chain, t, set
    <2>5. \A k \in 1 .. M : t[k] \in set
        BY <2>1, <2>4
    <2>6. \A S \in set : \E k \in 1 .. M : t[k] = S
        BY <2>1, <2>2, <2>4
    <2>7. t \in [1 .. M -> set]
        BY <2>3, <2>5
    <2> QED
        BY <2>6, <2>7 DEF Surjection
<1>11. t \in Injection(1 .. M, set)
    <2> HIDE DEF M, chain, t, set
    <2>1. Cardinality(set) = Cardinality(1 .. M)
        BY <1>4, <1>7, <1>9
    <2> QED
        BY <1>7, <1>10, <2>1, FS_Surjection
<1>12. \A k \in 1 .. M : t[k] = nodes[s[k]].c
    BY <1>6
<1> HIDE DEF t, set, M, chain
<1>13. /\ \A k \in 1 .. M : t[k] \in set
       /\ \A S \in set : \E k \in 1 .. M : t[k] = S
       /\ \A j, k \in 1 .. M : t[j] = t[k] => j = k
    BY <1>10, <1>11 DEF Surjection, Injection, IsInjective
<1>14. DOMAIN s = 1 .. M
    BY <1>6 DEF M
<1>15. Holds(nodes, s, set)
    BY <1>12, <1>13, <1>14 DEF Holds
<1> QED
    BY <1>2, <1>15 DEF HasList, set

-------------------------------------------------------------------------------
(* The calls of compute_extensions and count_extensions, as far as they do   *)
(* not depend on the lists.                                                  *)

Calling == {"call", "component", "loop", "append"}

SccFrame(att, f) ==
    /\ f = [arguments |-> f.arguments, component |-> f.component,
            component_extension |-> f.component_extension,
            first |-> f.first, last |-> f.last, n |-> f.n]
    /\ f.arguments \in SUBSET Arg /\ f.arguments # {}
    /\ f.component # {} => From(att, f.arguments, f.component)

SccFrames(att, s) == (\E X : s \in Seq(X)) /\ \A k \in DOMAIN s : SccFrame(att, s[k])

Changed(f, set, p, h, l, x) ==
    [arguments |-> f.arguments, component |-> set, component_extension |-> p,
     first |-> h, last |-> l, n |-> x]

LEMMA ChangedFrame ==
    ASSUME NEW att, NEW f, SccFrame(att, f), NEW set, NEW p, NEW h, NEW l, NEW x,
           set # {} => From(att, f.arguments, set)
    PROVE  LET g == Changed(f, set, p, h, l, x)
           IN  /\ SccFrame(att, g) /\ g.arguments = f.arguments /\ g.component = set
               /\ g.component_extension = p /\ g.first = h /\ g.last = l /\ g.n = x
<1> DEFINE g == Changed(f, set, p, h, l, x)
<1>1. /\ g.arguments = f.arguments /\ g.component = set
      /\ g.component_extension = p /\ g.first = h /\ g.last = l /\ g.n = x
    BY DEF Changed
<1>2. g = [arguments |-> g.arguments, component |-> g.component,
           component_extension |-> g.component_extension,
           first |-> g.first, last |-> g.last, n |-> g.n]
    <2>1. g = [arguments |-> f.arguments, component |-> set, component_extension |-> p,
               first |-> h, last |-> l, n |-> x]
        BY DEF Changed
    <2> HIDE DEF g
    <2> QED
        BY <1>1, <2>1
<1> HIDE DEF g
<1>3. f.arguments \in SUBSET Arg /\ f.arguments # {}
    BY DEF SccFrame
<1> QED
    BY <1>1, <1>2, <1>3 DEF SccFrame, g

WithSource(f, set) == [f EXCEPT !.component = set]
WithExtension(f, p) == [f EXCEPT !.component_extension = p]
WithLast(f, h, l) == [f EXCEPT !.last = l, !.first = h]
WithNumber(f, x, p) == [f EXCEPT !.n = x, !.component_extension = p]
WithNode(f, h, l, p) == [f EXCEPT !.last = l, !.component_extension = p, !.first = h]

LEMMA SetFields ==
    ASSUME NEW att, NEW f, SccFrame(att, f)
    PROVE  /\ \A set : WithSource(f, set)
                    = Changed(f, set, f.component_extension, f.first, f.last, f.n)
           /\ \A p : WithExtension(f, p)
                    = Changed(f, f.component, p, f.first, f.last, f.n)
           /\ \A x, p : WithNumber(f, x, p) = Changed(f, f.component, p, f.first, f.last, x)
           /\ \A h, l : WithLast(f, h, l)
                    = Changed(f, f.component, f.component_extension, h, l, f.n)
           /\ \A h, l, p : WithNode(f, h, l, p) = Changed(f, f.component, p, h, l, f.n)
<1>1. f = [arguments |-> f.arguments, component |-> f.component,
            component_extension |-> f.component_extension,
            first |-> f.first, last |-> f.last, n |-> f.n]
    BY DEF SccFrame
<1> DEFINE fields == {"arguments", "component", "component_extension", "first", "last", "n"}
<1>2. DOMAIN f = fields /\ f = [x \in fields |-> f[x]]
    BY <1>1
<1>3. ASSUME NEW g, DOMAIN g = fields, g = [x \in fields |-> g[x]], g.arguments = f.arguments
      PROVE  g = Changed(f, g.component, g.component_extension, g.first, g.last, g.n)
    BY <1>3 DEF Changed
<1>4. ASSUME NEW set
      PROVE  WithSource(f, set)
                = Changed(f, set, f.component_extension, f.first, f.last, f.n)
    <2> DEFINE g == WithSource(f, set)
    <2>1. /\ DOMAIN g = fields /\ g = [y \in fields |-> g[y]]
          /\ g.arguments = f.arguments /\ g.component = set
          /\ g.component_extension = f.component_extension /\ g.first = f.first
          /\ g.last = f.last /\ g.n = f.n
        BY <1>2 DEF WithSource
    <2> HIDE DEF g, fields
    <2>2. g = Changed(f, g.component, g.component_extension, g.first, g.last, g.n)
        BY <1>3, <2>1
    <2>3. g = Changed(f, set, f.component_extension, f.first, f.last, f.n)
        BY <2>1, <2>2
    <2> QED
        BY <2>3 DEF g
<1>5. ASSUME NEW p
      PROVE  WithExtension(f, p)
                = Changed(f, f.component, p, f.first, f.last, f.n)
    <2> DEFINE g == WithExtension(f, p)
    <2>1. /\ DOMAIN g = fields /\ g = [y \in fields |-> g[y]]
          /\ g.arguments = f.arguments /\ g.component = f.component
          /\ g.component_extension = p /\ g.first = f.first
          /\ g.last = f.last /\ g.n = f.n
        BY <1>2 DEF WithExtension
    <2> HIDE DEF g, fields
    <2>2. g = Changed(f, g.component, g.component_extension, g.first, g.last, g.n)
        BY <1>3, <2>1
    <2>3. g = Changed(f, f.component, p, f.first, f.last, f.n)
        BY <2>1, <2>2
    <2> QED
        BY <2>3 DEF g
<1>6. ASSUME NEW x, NEW p
      PROVE  WithNumber(f, x, p)
                = Changed(f, f.component, p, f.first, f.last, x)
    <2> DEFINE g == WithNumber(f, x, p)
    <2>1. /\ DOMAIN g = fields /\ g = [y \in fields |-> g[y]]
          /\ g.arguments = f.arguments /\ g.component = f.component
          /\ g.component_extension = p /\ g.first = f.first
          /\ g.last = f.last /\ g.n = x
        BY <1>2 DEF WithNumber
    <2> HIDE DEF g, fields
    <2>2. g = Changed(f, g.component, g.component_extension, g.first, g.last, g.n)
        BY <1>3, <2>1
    <2>3. g = Changed(f, f.component, p, f.first, f.last, x)
        BY <2>1, <2>2
    <2> QED
        BY <2>3 DEF g
<1>7. ASSUME NEW h, NEW l
      PROVE  WithLast(f, h, l)
                = Changed(f, f.component, f.component_extension, h, l, f.n)
    <2> DEFINE g == WithLast(f, h, l)
    <2>1. /\ DOMAIN g = fields /\ g = [y \in fields |-> g[y]]
          /\ g.arguments = f.arguments /\ g.component = f.component
          /\ g.component_extension = f.component_extension /\ g.first = h
          /\ g.last = l /\ g.n = f.n
        BY <1>2 DEF WithLast
    <2> HIDE DEF g, fields
    <2>2. g = Changed(f, g.component, g.component_extension, g.first, g.last, g.n)
        BY <1>3, <2>1
    <2>3. g = Changed(f, f.component, f.component_extension, h, l, f.n)
        BY <2>1, <2>2
    <2> QED
        BY <2>3 DEF g
<1>8. ASSUME NEW h, NEW l, NEW p
      PROVE  WithNode(f, h, l, p)
                = Changed(f, f.component, p, h, l, f.n)
    <2> DEFINE g == WithNode(f, h, l, p)
    <2>1. /\ DOMAIN g = fields /\ g = [y \in fields |-> g[y]]
          /\ g.arguments = f.arguments /\ g.component = f.component
          /\ g.component_extension = p /\ g.first = h
          /\ g.last = l /\ g.n = f.n
        BY <1>2 DEF WithNode
    <2> HIDE DEF g, fields
    <2>2. g = Changed(f, g.component, g.component_extension, g.first, g.last, g.n)
        BY <1>3, <2>1
    <2>3. g = Changed(f, f.component, p, h, l, f.n)
        BY <2>1, <2>2
    <2> QED
        BY <2>3 DEF g
<1> QED
    BY <1>4, <1>5, <1>6, <1>7, <1>8

TopOf(s, f) == [s EXCEPT ![1] = f]

LEMMA TopSet ==
    ASSUME NEW att, NEW s, SccFrames(att, s), s # <<>>, NEW f, SccFrame(att, f),
           NEW t, t = TopOf(s, f)
    PROVE  /\ SccFrames(att, t) /\ t # <<>> /\ t[1] = f /\ Len(t) = Len(s)
           /\ DOMAIN t = DOMAIN s /\ \A k \in DOMAIN s : k # 1 => t[k] = s[k]
<1>1. PICK X : s \in Seq(X)
    BY DEF SccFrames
<1> DEFINE u == [s EXCEPT ![1] = f]
<1>2. /\ u \in Seq(X \cup {f}) /\ u # <<>> /\ DOMAIN u = DOMAIN s
      /\ Len(u) = Len(s) /\ u[1] = f /\ 1 \in DOMAIN s
      /\ \A k \in DOMAIN s : k # 1 => u[k] = s[k]
    BY <1>1, TopChanged
<1>3. t = u
    BY DEF TopOf
<1> HIDE DEF u
<1>4. \A k \in DOMAIN t : SccFrame(att, t[k])
    BY <1>2, <1>3 DEF SccFrames
<1> QED
    BY <1>2, <1>3, <1>4 DEF SccFrames

LEMMA FramesPushed ==
    ASSUME NEW att, NEW s, SccFrames(att, s), NEW f, SccFrame(att, f)
    PROVE  LET t == <<f>> \o s
           IN  /\ SccFrames(att, t) /\ t # <<>> /\ t[1] = f /\ Len(t) = Len(s) + 1
               /\ DOMAIN t = 1 .. Len(s) + 1 /\ Len(s) \in Nat /\ DOMAIN s = 1 .. Len(s)
               /\ \A k \in DOMAIN t : k # 1 => k-1 \in DOMAIN s /\ t[k] = s[k-1]
<1>1. PICK X : s \in Seq(X)
    BY DEF SccFrames
<1> DEFINE t == <<f>> \o s
<1>2. /\ t \in Seq(X \cup {f}) /\ t # <<>> /\ DOMAIN t = 1 .. Len(s) + 1
      /\ Len(t) = Len(s) + 1 /\ t[1] = f
      /\ \A k \in DOMAIN t : k # 1 => k-1 \in DOMAIN s /\ t[k] = s[k-1]
    BY <1>1, Pushed
<1>3. Len(s) \in Nat /\ DOMAIN s = 1 .. Len(s)
    BY <1>1
<1> HIDE DEF t
<1>4. \A k \in DOMAIN t : SccFrame(att, t[k])
    BY <1>2 DEF SccFrames
<1> QED
    BY <1>2, <1>3, <1>4 DEF SccFrames, t

LEMMA FramesPopped ==
    ASSUME NEW att, NEW s, SccFrames(att, s), s # <<>>
    PROVE  LET t == Tail(s)
           IN  /\ SccFrames(att, t) /\ Len(t) = Len(s) - 1 /\ DOMAIN t = 1 .. Len(s) - 1
               /\ Len(s) \in Nat /\ Len(s) # 0 /\ DOMAIN s = 1 .. Len(s)
               /\ \A k \in DOMAIN t : k+1 \in DOMAIN s /\ t[k] = s[k+1]
               /\ Len(s) # 1 => t # <<>>
<1>1. PICK X : s \in Seq(X)
    BY DEF SccFrames
<1> DEFINE t == Tail(s)
<1>2. /\ t \in Seq(X) /\ DOMAIN t = 1 .. Len(s) - 1 /\ Len(t) = Len(s) - 1
      /\ \A k \in DOMAIN t : k+1 \in DOMAIN s /\ t[k] = s[k+1]
      /\ 1 \in DOMAIN s
    BY <1>1, Unstacked
<1>3. Len(s) \in Nat /\ DOMAIN s = 1 .. Len(s) /\ Len(s) # 0
    BY <1>1
<1> HIDE DEF t
<1>4. \A k \in DOMAIN t : SccFrame(att, t[k])
    BY <1>2 DEF SccFrames
<1>5. Len(s) # 1 => t # <<>>
    <2>1. ASSUME Len(s) # 1
          PROVE  1 \in DOMAIN t
        BY <1>2, <1>3, <2>1
    <2> QED
        BY <2>1
<1> QED
    BY <1>2, <1>3, <1>4, <1>5 DEF SccFrames, t

(* The innermost call has changed its frame.                                 *)
TopIs(set, p, h, l, x) ==
    frames' = TopOf(frames, Changed(frames[1], set, p, h, l, x))

SccBase ==
    /\ af \in Framework
    /\ pc \in Calling \cup {"done", "crash", "print", "exit"}
    /\ SccFrames(af, frames)
    /\ pc \in Calling => frames # <<>>

LEMMA SourceOfPart ==
    ASSUME NEW att, att \in Framework, NEW A \in SUBSET Arg, A # {}
    PROVE  From(att, A, SourceComponent(att, A))
<1>1. Arg \in SUBSET Nat /\ IsFiniteSet(Arg)
    <2>1. Arg \in SUBSET Nat
        BY NAssumption DEF Arg
    <2> QED
        BY <2>1, ArgFinite
<1>2. att \in [Arg -> SUBSET Arg]
    BY DEF Framework
<1> QED
    BY <1>1, <1>2, SourceFound DEF From

LEMMA SccTop ==
    ASSUME SccBase, pc \in Calling
    PROVE  1 \in DOMAIN frames /\ SccFrame(af, frames[1]) /\ af \in Framework
<1>1. SccFrames(af, frames) /\ frames # <<>> /\ af \in Framework
    BY DEF SccBase
<1>2. PICK X : frames \in Seq(X)
    BY <1>1 DEF SccFrames
<1>3. 1 \in DOMAIN frames
    BY <1>1, <1>2
<1> QED
    BY <1>1, <1>3 DEF SccFrames

(* The steps by what they do to the frame.                                   *)
LEMMA SccMoves ==
    ASSUME SccBase, pc \in Calling
    PROVE  LET F == frames[1]
               first(node) == IF F.first = 0 THEN node ELSE F.first
               next == nodes[F.component_extension].next
           IN  /\ Scc!FindComponent =>
                    TopIs(SourceComponent(af, F.arguments), F.component_extension,
                          F.first, F.last, F.n)
               /\ Scc!UseComponent =>
                    TopIs(F.component, Scc!Lookup(subextensions, F.component),
                          F.first, F.last, F.n)
               /\ Scc!AppendUnion =>
                    TopIs(F.component, F.component_extension,
                          first(Len(nodes) + 1), Len(nodes) + 1, F.n)
               /\ Scc!Appended => TopIs(F.component, next, F.first, F.last, F.n)
               /\ Scc!CountResidual => TopIs(F.component, next, F.first, F.last, F.n + n)
               /\ Scc!Relink =>
                    TopIs(F.component, next, first(F.component_extension),
                          F.component_extension, F.n)
               /\ Scc!CountOne => TopIs(F.component, next, F.first, F.last, F.n + 1)
<1> DEFINE F == frames[1]
           first(node) == IF F.first = 0 THEN node ELSE F.first
           next == nodes[F.component_extension].next
<1>1. 1 \in DOMAIN frames /\ SccFrame(af, F) /\ Scc!Top = F /\ Scc!Null = 0 /\ Scc!Advanced = next
    BY SccTop DEF Scc!Top, Scc!Null, Scc!Advanced
<1>2. \A A : Scc!SourceComponent(af, A) = SourceComponent(af, A)
    BY SccOperators
<1>3. ASSUME Scc!FindComponent
      PROVE  TopIs(SourceComponent(af, F.arguments), F.component_extension,
                   F.first, F.last, F.n)
    <2> DEFINE C == SourceComponent(af, F.arguments)
    <2>1. frames' = [frames EXCEPT ![1].component = C]
        BY <1>1, <1>2, <1>3 DEF Scc!FindComponent
    <2> HIDE DEF C
    <2>2. frames' = [frames EXCEPT ![1] = WithSource(F, C)]
        BY <1>1, <2>1 DEF WithSource
    <2> HIDE DEF F
    <2>3. WithSource(F, C)
            = Changed(F, C, F.component_extension, F.first, F.last, F.n)
        BY <1>1, SetFields
    <2> QED
        BY <2>2, <2>3 DEF TopIs, TopOf, F, C
<1>4. ASSUME NEW p, frames' = [frames EXCEPT ![1].component_extension = p]
      PROVE  TopIs(F.component, p, F.first, F.last, F.n)
    <2>1. frames' = [frames EXCEPT ![1] = WithExtension(F, p)]
        BY <1>1, <1>4 DEF WithExtension
    <2> HIDE DEF F
    <2>2. WithExtension(F, p)
            = Changed(F, F.component, p, F.first, F.last, F.n)
        BY <1>1, SetFields
    <2> QED
        BY <2>1, <2>2 DEF TopIs, TopOf, F
<1>5. ASSUME NEW p, NEW x,
             frames' = [frames EXCEPT ![1].n = x, ![1].component_extension = p]
      PROVE  TopIs(F.component, p, F.first, F.last, x)
    <2>1. frames' = [frames EXCEPT ![1] = WithNumber(F, x, p)]
        BY <1>1, <1>5 DEF WithNumber
    <2> HIDE DEF F
    <2>2. WithNumber(F, x, p) = Changed(F, F.component, p, F.first, F.last, x)
        BY <1>1, SetFields
    <2> QED
        BY <2>1, <2>2 DEF TopIs, TopOf, F
<1>6. ASSUME NEW h, NEW l, frames' = [frames EXCEPT ![1].last = l, ![1].first = h]
      PROVE  TopIs(F.component, F.component_extension, h, l, F.n)
    <2>1. frames' = [frames EXCEPT ![1] = WithLast(F, h, l)]
        BY <1>1, <1>6 DEF WithLast
    <2> HIDE DEF F
    <2>2. WithLast(F, h, l)
            = Changed(F, F.component, F.component_extension, h, l, F.n)
        BY <1>1, SetFields
    <2> QED
        BY <2>1, <2>2 DEF TopIs, TopOf, F
<1>7. ASSUME NEW h, NEW l, NEW p,
             frames' = [frames EXCEPT ![1].last = l, ![1].component_extension = p,
                                      ![1].first = h]
      PROVE  TopIs(F.component, p, h, l, F.n)
    <2>1. frames' = [frames EXCEPT ![1] = WithNode(F, h, l, p)]
        BY <1>1, <1>7 DEF WithNode
    <2> HIDE DEF F
    <2>2. WithNode(F, h, l, p) = Changed(F, F.component, p, h, l, F.n)
        BY <1>1, SetFields
    <2> QED
        BY <2>1, <2>2 DEF TopIs, TopOf, F
<1>8. ASSUME Scc!UseComponent
      PROVE  TopIs(F.component, Scc!Lookup(subextensions, F.component), F.first, F.last, F.n)
    BY <1>1, <1>4, <1>8 DEF Scc!UseComponent
<1>9. ASSUME Scc!AppendUnion
      PROVE  TopIs(F.component, F.component_extension,
                   first(Len(nodes) + 1), Len(nodes) + 1, F.n)
    BY <1>1, <1>6, <1>9 DEF Scc!AppendUnion
<1>10. ASSUME Scc!Appended
       PROVE  TopIs(F.component, next, F.first, F.last, F.n)
    BY <1>1, <1>4, <1>10 DEF Scc!Appended
<1>11. ASSUME Scc!CountResidual
       PROVE  TopIs(F.component, next, F.first, F.last, F.n + n)
    BY <1>1, <1>5, <1>11 DEF Scc!CountResidual
<1>12. ASSUME Scc!Relink
       PROVE  TopIs(F.component, next, first(F.component_extension),
                    F.component_extension, F.n)
    BY <1>1, <1>7, <1>12 DEF Scc!Relink
<1>13. ASSUME Scc!CountOne
       PROVE  TopIs(F.component, next, F.first, F.last, F.n + 1)
    BY <1>1, <1>5, <1>13 DEF Scc!CountOne
<1> QED
    BY <1>3, <1>8, <1>9, <1>10, <1>11, <1>12, <1>13

LEMMA BaseTop ==
    ASSUME SccBase, pc \in Calling, NEW set, NEW p, NEW h, NEW l, NEW x,
           TopIs(set, p, h, l, x), set # {} => From(af, frames[1].arguments, set),
           pc' \in Calling \cup {"crash"}, af' = af
    PROVE  SccBase'
<1> DEFINE g == Changed(frames[1], set, p, h, l, x)
<1>1. 1 \in DOMAIN frames /\ SccFrame(af, frames[1]) /\ af \in Framework
    BY SccTop
<1>2. SccFrames(af, frames) /\ frames # <<>>
    BY DEF SccBase
<1>3. SccFrame(af, g)
    BY <1>1, ChangedFrame
<1>4. frames' = TopOf(frames, g)
    BY DEF TopIs
<1> HIDE DEF g
<1>5. SccFrames(af, frames') /\ frames' # <<>>
    BY <1>2, <1>3, <1>4, TopSet
<1> QED
    BY <1>1, <1>5 DEF SccBase

LEMMA BasePop ==
    ASSUME SccBase, pc \in Calling, NEW list, NEW number, Scc!Pop(list, number), af' = af
    PROVE  SccBase'
<1>1. SccFrames(af, frames) /\ frames # <<>> /\ af \in Framework
    BY DEF SccBase
<1>2. frames' = Tail(frames) /\ pc' = IF Len(frames) = 1 THEN "done" ELSE "append"
    BY DEF Scc!Pop
<1>3. SccFrames(af, frames') /\ (Len(frames) # 1 => frames' # <<>>)
    BY <1>1, <1>2, FramesPopped
<1>4. pc' \in {"done", "append"} /\ (pc' \in Calling => Len(frames) # 1)
    BY <1>2 DEF Calling
<1> QED
    BY <1>1, <1>3, <1>4 DEF SccBase, Calling

(* The call for what an extension of the component leaves.                   *)
LEMMA BasePush ==
    ASSUME SccBase, Scc!Descend
    PROVE  LET L == Left(af, frames[1].arguments, frames[1].component,
                         nodes[frames[1].component_extension].c)
           IN  /\ L # {} /\ L \in SUBSET Arg
               /\ frames' = <<Scc!Frame(L)>> \o frames /\ SccFrame(af, Scc!Frame(L))
<1> DEFINE F == frames[1]
           L == Left(af, F.arguments, F.component, nodes[F.component_extension].c)
<1>1. pc \in Calling
    BY DEF Scc!Descend, Scc!InLoop, Scc!Looping, Calling
<1>2. SccFrame(af, F)
    BY <1>1, SccTop
<1>3. Scc!ResidualArguments(F) = L
    BY SccOperators DEF Scc!ResidualArguments, Left
<1>4. L # {} /\ frames' = <<Scc!Frame(L)>> \o frames
    BY <1>3 DEF Scc!Descend, Scc!Top
<1>5. L \in SUBSET Arg
    BY <1>2 DEF SccFrame, Left
<1> HIDE DEF L
<1>6. SccFrame(af, Scc!Frame(L))
    BY <1>4, <1>5 DEF SccFrame, Scc!Frame
<1> QED
    BY <1>4, <1>5, <1>6 DEF L

LEMMA BaseInit ==
    ASSUME Scc!Init
    PROVE  /\ SccBase /\ frames = <<Scc!Frame(Arg)>> /\ SccFrame(af, Scc!Frame(Arg))
           /\ Len(frames) = 1 /\ frames[1] = Scc!Frame(Arg) /\ DOMAIN frames = {1}
<1>1. af \in Framework /\ frames = <<Scc!Frame(Arg)>> /\ pc = "call"
    BY InputsAssumption, SccOperators DEF Scc!Init
<1>2. Arg # {}
    BY NAssumption DEF Arg
<1> DEFINE f == Scc!Frame(Arg)
<1>3. SccFrame(af, f)
    BY <1>2 DEF SccFrame, Scc!Frame
<1> HIDE DEF f
<1>4. <<f>> \in Seq({f}) /\ <<f>> # <<>> /\ DOMAIN <<f>> = {1} /\ <<f>>[1] = f /\ Len(<<f>>) = 1
    OBVIOUS
<1>5. SccFrames(af, <<f>>)
    BY <1>3, <1>4 DEF SccFrames
<1>6. frames = <<f>>
    BY <1>1 DEF f
<1>7. SccBase
    BY <1>1, <1>4, <1>5, <1>6 DEF SccBase, Calling
<1> QED
    BY <1>3, <1>4, <1>6, <1>7 DEF f

LEMMA BaseStep ==
    ASSUME SccBase, Scc!Next
    PROVE  SccBase'
<1> DEFINE F == frames[1]
<1>a. af' = af
    BY DEF Scc!Next, Scc!CallHit, Scc!CountHit, Scc!FindComponent, Scc!UseComponent,
           Scc!SolveComponent, Scc!WholeComponent, Scc!Descend, Scc!AppendUnion, Scc!Appended,
           Scc!CountResidual, Scc!Relink, Scc!CountOne, Scc!Finish, Scc!Stopped, Scc!vars
<1>1. CASE pc \notin Calling
    <2>1. Scc!Stopped
        BY <1>1 DEF Scc!Next, Scc!CallHit, Scc!CountHit, Scc!FindComponent, Scc!UseComponent,
           Scc!SolveComponent, Scc!WholeComponent, Scc!Descend, Scc!AppendUnion, Scc!Appended,
           Scc!CountResidual, Scc!Relink, Scc!CountOne, Scc!Finish, Scc!InLoop, Scc!Looping,
           Calling
    <2>2. UNCHANGED <<af, frames, pc>>
        BY <2>1 DEF Scc!Stopped, Scc!vars
    <2> QED
        BY <2>2 DEF SccBase
<1>2. CASE pc \in Calling
    <2>a. af \in Framework /\ F.arguments \in SUBSET Arg /\ F.arguments # {}
          /\ (F.component # {} => From(af, F.arguments, F.component))
        BY <1>2, SccTop DEF SccFrame
    <2>b. ASSUME NEW p, NEW h, NEW l, NEW x, TopIs(F.component, p, h, l, x),
                 pc' \in Calling \cup {"crash"}
          PROVE  SccBase'
        BY <1>2, <1>a, <2>a, <2>b, BaseTop
    <2>c. ASSUME NEW list, NEW number, Scc!Pop(list, number)
          PROVE  SccBase'
        BY <1>2, <1>a, <2>c, BasePop
    <2>1. CASE Scc!CallHit
        BY <2>1, <2>c DEF Scc!CallHit
    <2>2. CASE Scc!CountHit
        BY <2>2, <2>c DEF Scc!CountHit
    <2>3. CASE Scc!FindComponent
        <3>1. TopIs(SourceComponent(af, F.arguments), F.component_extension,
                    F.first, F.last, F.n)
            BY <1>2, <2>3, SccMoves
        <3>2. From(af, F.arguments, SourceComponent(af, F.arguments))
            BY <2>a, SourceOfPart
        <3>3. pc' \in Calling
            BY <2>3 DEF Scc!FindComponent, Calling
        <3> QED
            BY <1>2, <1>a, <3>1, <3>2, <3>3, BaseTop
    <2>4. CASE Scc!UseComponent
        <3>1. pc' \in Calling \cup {"crash"}
            BY <2>4 DEF Scc!UseComponent, Calling
        <3> QED
            BY <1>2, <2>4, <2>b, <3>1, SccMoves
    <2>5. CASE Scc!SolveComponent
        <3>1. PICK p : frames' = [frames EXCEPT ![1].component_extension = p]
            BY <2>5 DEF Scc!SolveComponent
        <3>2. TopIs(F.component, p, F.first, F.last, F.n)
            <4>1. 1 \in DOMAIN frames /\ SccFrame(af, F)
                BY <1>2, SccTop
            <4>2. frames' = [frames EXCEPT ![1] = WithExtension(F, p)]
                BY <3>1, <4>1 DEF WithExtension
            <4> HIDE DEF F
            <4>3. WithExtension(F, p) = Changed(F, F.component, p, F.first, F.last, F.n)
                BY <4>1, SetFields
            <4> QED
                BY <4>2, <4>3 DEF TopIs, TopOf, F
        <3>3. pc' \in Calling \cup {"crash"}
            BY <2>5 DEF Scc!SolveComponent, Calling
        <3> QED
            BY <2>b, <3>2, <3>3
    <2>6. CASE Scc!WholeComponent
        BY <2>6, <2>c DEF Scc!WholeComponent
    <2>7. CASE Scc!Descend
        <3> DEFINE g == Scc!Frame(Left(af, F.arguments, F.component,
                                       nodes[F.component_extension].c))
        <3>1. frames' = <<g>> \o frames /\ SccFrame(af, g)
            BY <2>7, BasePush
        <3>2. SccFrames(af, frames) /\ pc' \in Calling
            BY <2>7 DEF SccBase, Scc!Descend, Calling
        <3> HIDE DEF g
        <3>3. SccFrames(af, frames') /\ frames' # <<>>
            BY <3>1, <3>2, FramesPushed
        <3> QED
            BY <1>a, <2>a, <3>2, <3>3 DEF SccBase
    <2>8. CASE Scc!AppendUnion
        <3>1. pc' \in Calling
            BY <1>2, <2>8 DEF Scc!AppendUnion
        <3> QED
            BY <1>2, <2>8, <2>b, <3>1, SccMoves
    <2>9. CASE Scc!Appended
        <3>1. pc' \in Calling
            BY <2>9 DEF Scc!Appended, Calling
        <3> QED
            BY <1>2, <2>9, <2>b, <3>1, SccMoves
    <2>10. CASE Scc!CountResidual
        <3>1. pc' \in Calling
            BY <2>10 DEF Scc!CountResidual, Calling
        <3> QED
            BY <1>2, <2>10, <2>b, <3>1, SccMoves
    <2>11. CASE Scc!Relink
        <3>1. pc' \in Calling
            BY <1>2, <2>11 DEF Scc!Relink
        <3> QED
            BY <1>2, <2>11, <2>b, <3>1, SccMoves
    <2>12. CASE Scc!CountOne
        <3>1. pc' \in Calling
            BY <1>2, <2>12 DEF Scc!CountOne
        <3> QED
            BY <1>2, <2>12, <2>b, <3>1, SccMoves
    <2>13. CASE Scc!Finish
        BY <2>13, <2>c DEF Scc!Finish
    <2>14. CASE Scc!Stopped
        BY <1>2, <2>14 DEF Scc!Stopped, Calling
    <2> QED
        BY <2>1, <2>2, <2>3, <2>4, <2>5, <2>6, <2>7, <2>8, <2>9, <2>10, <2>11, <2>12,
           <2>13, <2>14 DEF Scc!Next
<1> QED
    BY <1>1, <1>2

LEMMA BaseSource ==
    ASSUME SccBase
    PROVE  Scc!ComponentIsSource
<1>1. ASSUME NEW k \in DOMAIN frames, frames[k].component # {}
      PROVE  From(af, frames[k].arguments, frames[k].component)
    BY <1>1 DEF SccBase, SccFrames, SccFrame
<1> QED
    BY <1>1, SccOperators DEF Scc!ComponentIsSource, From, Source

-------------------------------------------------------------------------------
(* The extensions of A that the loop over those of its component C has found *)
(* when rem are still to come, and when of those of the current one, E, only *)
(* rest are.                                                                 *)

Results(r, att, A, C, rem) == {S \in Answers(r, att, A) : S \cap C \notin rem}

Partial(r, att, A, C, rem, E, rest) ==
    {S \in Answers(r, att, A) : S \cap C \in rem => S \cap C = E /\ S \ C \notin rest}

LEMMA AnswersIn ==
    ASSUME NEW r, NEW att, att \in Framework, NEW A \in SUBSET Arg
    PROVE  /\ \A S \in Answers(r, att, A) : S \subseteq A
           /\ A = {} => Answers(r, att, A) = {{}}
           /\ A # {} => {} \notin Answers(r, att, A)
<1>1. Arg \in SUBSET Nat /\ IsFiniteSet(Arg)
    <2>1. Arg \in SUBSET Nat
        BY NAssumption DEF Arg
    <2> QED
        BY <2>1, ArgFinite
<1>2. att \in [Arg -> SUBSET Arg]
    BY DEF Framework
<1>3. /\ Answers(r, att, {}) = {{}}
      /\ \A B \in SUBSET Arg : Answers(r, att, B) \subseteq SUBSET B
      /\ \A B \in SUBSET Arg : B # {} => {} \notin Answers(r, att, B)
    BY <1>1, <1>2, AnswersRight
<1> QED
    BY <1>3

LEMMA NotEmpty ==
    ASSUME NEW r, NEW att, att \in Framework, NEW A \in SUBSET Arg, A # {}
    PROVE  \A S \in Answers(r, att, A) : S # {} /\ S \subseteq A
BY AnswersIn

LEMMA SourceParts ==
    ASSUME NEW r, NEW att, att \in Framework, NEW A \in SUBSET Arg, NEW C, From(att, A, C)
    PROVE  /\ Divides(r, att, A, C) /\ C # {} /\ C \in SUBSET A /\ C \in SUBSET Arg
           /\ Answers(r, att, C) = PartExtensions(r, att, C)
<1>1. C \in SUBSET A /\ C # {}
    BY DEF From, Source
<1>2. Arg \in SUBSET Nat /\ IsFiniteSet(Arg)
    <2>1. Arg \in SUBSET Nat
        BY NAssumption DEF Arg
    <2> QED
        BY <2>1, ArgFinite
<1>3. att \in [Arg -> SUBSET Arg]
    BY DEF Framework
<1> QED
    BY <1>1, <1>2, <1>3, SourceDivides

LEMMA SplitMeets ==
    ASSUME NEW r, NEW att, att \in Framework, NEW A \in SUBSET Arg, NEW C, From(att, A, C)
    PROVE  \A S \in Answers(r, att, A) : S \cap C # {} /\ S \subseteq A
<1>1. Divides(r, att, A, C) /\ C # {} /\ C \in SUBSET Arg
    BY SourceParts
<1>2. \A S \in Answers(r, att, A) : S \in SUBSET A
    BY AnswersIn
<1>3. \A S \in Answers(r, att, C) : S # {}
    BY <1>1, NotEmpty
<1> QED
    BY <1>1, <1>2, <1>3 DEF Divides

LEMMA SplitParts ==
    ASSUME NEW r, NEW att, att \in Framework, NEW A \in SUBSET Arg, NEW C, From(att, A, C)
    PROVE  \A S \in Answers(r, att, A) :
                /\ S \cap C \in Answers(r, att, C) /\ S \cap C # {} /\ S \subseteq A
                /\ S \ C \in Answers(r, att, Left(att, A, C, S \cap C))
<1>1. Divides(r, att, A, C)
    BY SourceParts
<1>2. \A S \in Answers(r, att, A) : S \cap C # {} /\ S \subseteq A
    BY SplitMeets
<1> QED
    BY <1>1, <1>2 DEF Divides

LEMMA UnionIn ==
    ASSUME NEW r, NEW att, att \in Framework, NEW A \in SUBSET Arg, NEW C, From(att, A, C),
           NEW E \in Answers(r, att, C), NEW T \in Answers(r, att, Left(att, A, C, E))
    PROVE  E \cup T \in Answers(r, att, A) /\ (E \cup T) \cap C = E /\ (E \cup T) \ C = T
<1>1. Divides(r, att, A, C)
    BY SourceParts
<1> QED
    BY <1>1 DEF Divides

LEMMA ResultsAtEnds ==
    ASSUME NEW r, NEW att, att \in Framework, NEW A \in SUBSET Arg, NEW C, From(att, A, C)
    PROVE  /\ Results(r, att, A, C, Answers(r, att, C)) = {}
           /\ Results(r, att, A, C, {}) = Answers(r, att, A)
<1>1. \A S \in Answers(r, att, A) : S \cap C \in Answers(r, att, C)
    BY SplitParts
<1> QED
    BY <1>1 DEF Results

(* One extension E of the component: before its first union, after its last  *)
(* one, and without any when E leaves nothing.                               *)
OneExtension(r, att, A, C, rem, E, L) ==
    /\ Partial(r, att, A, C, rem, E, Answers(r, att, L)) = Results(r, att, A, C, rem)
    /\ Partial(r, att, A, C, rem, E, {}) = Results(r, att, A, C, rem \ {E})
    /\ L = {} => /\ Results(r, att, A, C, rem \ {E}) = Results(r, att, A, C, rem) \cup {E}
                 /\ E \notin Results(r, att, A, C, rem)

LEMMA ResultsOfOne ==
    ASSUME NEW r, NEW att, att \in Framework, NEW A \in SUBSET Arg, NEW C, From(att, A, C),
           NEW rem \in SUBSET Answers(r, att, C), NEW E \in rem
    PROVE  OneExtension(r, att, A, C, rem, E, Left(att, A, C, E))
<1> DEFINE L == Left(att, A, C, E)
<1>1. \A S \in Answers(r, att, A) :
        S \cap C = E => S \ C \in Answers(r, att, L)
    <2>1. \A S \in Answers(r, att, A) : S \ C \in Answers(r, att, Left(att, A, C, S \cap C))
        BY SplitParts
    <2> QED
        BY <2>1
<1>2. \A T \in Answers(r, att, L) :
        E \cup T \in Answers(r, att, A) /\ (E \cup T) \cap C = E /\ (E \cup T) \ C = T
    <2>1. E \in Answers(r, att, C)
        OBVIOUS
    <2>2. ASSUME NEW T \in Answers(r, att, Left(att, A, C, E))
          PROVE  E \cup T \in Answers(r, att, A) /\ (E \cup T) \cap C = E /\ (E \cup T) \ C = T
        BY <2>1, UnionIn
    <2> QED
        BY <2>2
<1> HIDE DEF L
<1>3. Partial(r, att, A, C, rem, E, Answers(r, att, L)) = Results(r, att, A, C, rem)
    BY <1>1 DEF Partial, Results
<1>4. Partial(r, att, A, C, rem, E, {}) = Results(r, att, A, C, rem \ {E})
    BY DEF Partial, Results
<1>5. ASSUME L = {}
      PROVE  /\ Results(r, att, A, C, rem \ {E}) = Results(r, att, A, C, rem) \cup {E}
             /\ E \notin Results(r, att, A, C, rem)
    <2>1. {} \in Answers(r, att, L) /\ \A T \in Answers(r, att, L) : T = {}
        BY <1>5, AnswersIn
    <2>2. E \in Answers(r, att, A) /\ E \cap C = E
        <3>1. E \cup {} = E
            OBVIOUS
        <3> QED
            BY <1>2, <2>1, <3>1
    <2>3. ASSUME NEW S \in Answers(r, att, A), S \cap C = E
          PROVE  S = E
        <3>1. S \ C = {}
            BY <1>1, <2>1, <2>3
        <3> QED
            BY <2>3, <3>1
    <2> QED
        BY <2>2, <2>3 DEF Results
<1> QED
    BY <1>3, <1>4, <1>5 DEF L, OneExtension

(* One union.                                                                *)
OneUnion(r, att, A, C, rem, E, rest, T) ==
    /\ E \cup T \notin Partial(r, att, A, C, rem, E, rest)
    /\ Partial(r, att, A, C, rem, E, rest \ {T}) = Partial(r, att, A, C, rem, E, rest) \cup {E \cup T}
    /\ E \cup T \subseteq A

LEMMA PartialOfOne ==
    ASSUME NEW r, NEW att, att \in Framework, NEW A \in SUBSET Arg, NEW C, From(att, A, C),
           NEW rem \in SUBSET Answers(r, att, C), NEW E \in rem,
           NEW rest \in SUBSET Answers(r, att, Left(att, A, C, E)), NEW T \in rest
    PROVE  OneUnion(r, att, A, C, rem, E, rest, T)
<1>1. E \cup T \in Answers(r, att, A) /\ (E \cup T) \cap C = E /\ (E \cup T) \ C = T
    <2>1. E \in Answers(r, att, C) /\ T \in Answers(r, att, Left(att, A, C, E))
        OBVIOUS
    <2> QED
        BY <2>1, UnionIn
<1>2. \A S : S \cap C = E /\ S \ C = T => S = E \cup T
    BY <1>1
<1>3. E \cup T \subseteq A
    BY <1>1, SplitParts
<1>4. E \cup T \notin Partial(r, att, A, C, rem, E, rest)
    BY <1>1 DEF Partial
<1>5. E \cup T \in Partial(r, att, A, C, rem, E, rest \ {T})
    BY <1>1 DEF Partial
<1>6. ASSUME NEW S
      PROVE  S \in Partial(r, att, A, C, rem, E, rest \ {T})
                <=> S \in Partial(r, att, A, C, rem, E, rest) \/ S = E \cup T
    BY <1>2, <1>5 DEF Partial
<1> QED
    BY <1>3, <1>4, <1>6 DEF OneUnion

(* No set is in two of the lists of a call.                                  *)
LEMMA NeverTwice ==
    ASSUME NEW r, NEW att, att \in Framework, NEW A \in SUBSET Arg, NEW C, From(att, A, C),
           NEW rem \in SUBSET Answers(r, att, C)
    PROVE  /\ \A S \in Results(r, att, A, C, rem) : S \notin rem
           /\ \A E \in rem : \A rest \in SUBSET Answers(r, att, Left(att, A, C, E)) :
                \A S \in Partial(r, att, A, C, rem, E, rest) :
                    Left(att, A, C, E) # {} => S \notin rem /\ S \notin rest
<1>a. \A S \in Answers(r, att, A) :
        S \cap C # {} /\ S \ C \in Answers(r, att, Left(att, A, C, S \cap C))
    BY SplitParts
<1>b. C \in SUBSET Arg /\ \A E : Left(att, A, C, E) \in SUBSET Arg
    BY SourceParts DEF Left
<1>1. \A S \in rem : S \cap C = S
    BY <1>b, AnswersIn
<1>2. ASSUME NEW S \in Results(r, att, A, C, rem)
      PROVE  S \notin rem
    BY <1>1 DEF Results
<1>3. ASSUME NEW E \in rem, NEW rest \in SUBSET Answers(r, att, Left(att, A, C, E)),
             NEW S \in Partial(r, att, A, C, rem, E, rest), Left(att, A, C, E) # {}
      PROVE  S \notin rem /\ S \notin rest
    <2>1. S \in Answers(r, att, A) /\ (S \cap C \in rem => S \cap C = E)
        BY DEF Partial
    <2>2. S \cap C # {}
        BY <2>1, <1>a
    <2>3. \A T \in rest : T \cap C = {}
        <3>1. \A T \in rest : T \subseteq Left(att, A, C, E)
            BY <1>b, AnswersIn
        <3>2. Left(att, A, C, E) \cap C = {}
            BY DEF Left
        <3> QED
            BY <3>1, <3>2
    <2>4. ASSUME S \in rem
          PROVE  FALSE
        <3>1. S \cap C = S /\ S = E
            BY <1>1, <2>1, <2>4
        <3>2. S \ C \in Answers(r, att, Left(att, A, C, E))
            BY <2>1, <3>1, <1>a
        <3>3. S \ C = {}
            BY <3>1
        <3> QED
            BY <1>3, <1>b, <3>1, <3>2, <3>3, NotEmpty
    <2> QED
        BY <2>2, <2>3, <2>4
<1> QED
    BY <1>2, <1>3

(* The number of extensions that E gives.                                    *)
LEMMA ResultsCounted ==
    ASSUME NEW r, NEW att, att \in Framework, NEW A \in SUBSET Arg, NEW C, From(att, A, C),
           NEW rem \in SUBSET Answers(r, att, C), NEW E \in rem
    PROVE  LET found(part) == Cardinality(Results(r, att, A, C, part))
           IN  /\ found(rem) \in Nat
               /\ found(rem \ {E}) = found(rem) + Cardinality(Answers(r, att, Left(att, A, C, E)))
<1> DEFINE L == Left(att, A, C, E)
           X == Results(r, att, A, C, rem)
           Y == Results(r, att, A, C, rem \ {E})
           Z == Answers(r, att, L)
           f == [T \in Z |-> E \cup T]
<1>1. \A S \in Answers(r, att, A) : S \cap C = E => S \ C \in Z
    <2>1. \A S \in Answers(r, att, A) : S \ C \in Answers(r, att, Left(att, A, C, S \cap C))
        BY SplitParts
    <2> QED
        BY <2>1
<1>2. \A T \in Z :
        E \cup T \in Answers(r, att, A) /\ (E \cup T) \cap C = E /\ (E \cup T) \ C = T
    <2>1. E \in Answers(r, att, C)
        OBVIOUS
    <2>2. ASSUME NEW T \in Answers(r, att, Left(att, A, C, E))
          PROVE  E \cup T \in Answers(r, att, A) /\ (E \cup T) \cap C = E /\ (E \cup T) \ C = T
        BY <2>1, UnionIn
    <2> QED
        BY <2>2
<1> DEFINE W == {S \in Answers(r, att, A) : S \cap C = E}
<1>3. Y = X \cup W /\ X \cap W = {}
    BY DEF Results
<1>4. f \in Bijection(Z, W)
    <2> HIDE DEF Z
    <2>1. f \in [Z -> W]
        BY <1>2
    <2>2. \A S \in W : \E T \in Z : f[T] = S
        <3>1. ASSUME NEW S \in W
              PROVE  S \ C \in Z /\ S = E \cup (S \ C)
            BY <1>1
        <3> QED
            BY <3>1
    <2>3. \A S, T \in Z : f[S] = f[T] => S = T
        BY <1>2
    <2> HIDE DEF f, W
    <2> QED
        BY <2>1, <2>2, <2>3 DEF Bijection, Injection, Surjection, IsInjective
<1>5. IsFiniteSet(Z) /\ IsFiniteSet(X) /\ IsFiniteSet(W)
    <2>1. IsFiniteSet(SUBSET Arg)
        BY ArgFinite, FS_SUBSET
    <2>2. Z \in SUBSET SUBSET Arg /\ X \in SUBSET SUBSET Arg /\ W \in SUBSET SUBSET Arg
        <3>1. \A S \in Answers(r, att, A) : S \in SUBSET Arg
            BY AnswersIn
        <3>2. L \in SUBSET Arg
            BY DEF Left
        <3>3. \A S \in Z : S \in SUBSET Arg
            BY <3>2, AnswersIn
        <3> QED
            BY <3>1, <3>3 DEF Results
    <2> HIDE DEF Z, X, W
    <2> QED
        BY <2>1, <2>2, FS_Subset
<1> HIDE DEF X, Y, Z, W, L, f
<1>6. Cardinality(W) = Cardinality(Z)
    <2>1. ExistsBijection(Z, W)
        BY <1>4 DEF ExistsBijection
    <2> QED
        BY <1>5, <2>1, FS_Bijection
<1>7. Cardinality(X) \in Nat /\ Cardinality(Y) = Cardinality(X) + Cardinality(Z)
    <2>1. Cardinality(Y) = Cardinality(X) + Cardinality(W) - Cardinality(X \cap W)
        BY <1>3, <1>5, FS_Union
    <2>2. Cardinality(X \cap W) = 0
        BY <1>3, FS_EmptySet
    <2>3. Cardinality(X) \in Nat /\ Cardinality(W) \in Nat
        BY <1>5, FS_CardinalityType
    <2> QED
        BY <1>6, <2>1, <2>2, <2>3
<1> QED
    BY <1>7 DEF X, Y, Z, L

-------------------------------------------------------------------------------
(* The calls and their lists.                                                *)

Holding(heap, p, set) == \E l : HasList(heap, p, l, set)

(* What a call has found so far: its number or its list.                     *)
Found(count, heap, f, set) ==
    IF count THEN f.n = Cardinality(set) ELSE HasList(heap, f.first, f.last, set)

(* In the loop; rem are the extensions of the component still to come.       *)
LoopOver(r, att, count, heap, f, rem) ==
    /\ rem \in SUBSET Answers(r, att, f.component)
    /\ Holding(heap, f.component_extension, rem)
    /\ Found(count, heap, f, Results(r, att, f.arguments, f.component, rem))
    /\ f.component = f.arguments => rem = Answers(r, att, f.component)

Loop(r, att, count, heap, f) ==
    /\ From(att, f.arguments, f.component)
    /\ \E rem : LoopOver(r, att, count, heap, f, rem)

(* A call has been made for what the current extension leaves.               *)
Paused(r, att, count, heap, f) ==
    Loop(r, att, count, heap, f) /\ f.component # f.arguments /\ f.component_extension # 0

LeftBy(att, heap, f) == Left(att, f.arguments, f.component, heap[f.component_extension].c)

(* It has returned; rest are what is still to be united with the current     *)
(* extension.                                                                *)
Uniting(r, att, heap, f, list, rem, rest) ==
    /\ rem \in SUBSET Answers(r, att, f.component)
    /\ rest \in SUBSET Answers(r, att, LeftBy(att, heap, f))
    /\ Holding(heap, f.component_extension, rem) /\ Holding(heap, list, rest)
    /\ HasList(heap, f.first, f.last,
               Partial(r, att, f.arguments, f.component, rem, heap[f.component_extension].c, rest))

Appending(r, att, heap, f, list) ==
    /\ From(att, f.arguments, f.component) /\ f.component # f.arguments
    /\ f.component_extension # 0 /\ LeftBy(att, heap, f) # {}
    /\ \E rem, rest : Uniting(r, att, heap, f, list, rem, rest)

(* A step changes nodes that hold parts of A, and no set that a node holds.  *)
Grown(heap, new, A) ==
    /\ DOMAIN heap \subseteq DOMAIN new
    /\ \A x \in DOMAIN heap : /\ new[x].c = heap[x].c
                              /\ new[x] = heap[x] \/ heap[x].c \subseteq A

LEMMA LoopKept ==
    ASSUME NEW r, NEW att, att \in Framework, NEW count, NEW heap, heap \in Seq(Nodes), NEW new,
           NEW A, Grown(heap, new, A), NEW f, SccFrame(att, f), A \cap f.component = {},
           Loop(r, att, count, heap, f)
    PROVE  Loop(r, att, count, new, f)
<1> DEFINE C == f.component
           B == f.arguments
<1>1. PICK rem : LoopOver(r, att, count, heap, f, rem)
    BY DEF Loop
<1>2. From(att, B, C) /\ B \in SUBSET Arg /\ C # {} /\ C \in SUBSET Arg
    BY DEF Loop, SccFrame, From, Source
<1>3. \A S \in rem : S # {} /\ S \subseteq C
    <2>1. rem \in SUBSET Answers(r, att, C)
        BY <1>1 DEF LoopOver
    <2> HIDE DEF C
    <2>2. \A S \in Answers(r, att, C) : S # {} /\ S \subseteq C
        BY <1>2, NotEmpty
    <2> QED
        BY <2>1, <2>2
<1>4. \A S \in Results(r, att, B, C, rem) : S \cap C # {}
    <2>1. \A S \in Answers(r, att, B) : S \cap C # {}
        <3> HIDE DEF B, C
        <3> QED
            BY <1>2, SplitMeets
    <2> QED
        BY <2>1 DEF Results
<1>5. \A S : S \in rem \/ S \in Results(r, att, B, C, rem) => ~(S \subseteq A)
    BY <1>3, <1>4
<1>6. ASSUME NEW set, \A S \in set : ~(S \subseteq A), NEW p, NEW l, HasList(heap, p, l, set)
      PROVE  HasList(new, p, l, set)
    <2>1. DOMAIN heap \subseteq DOMAIN new
        BY DEF Grown
    <2>2. \A x \in DOMAIN heap : heap[x].c \in set => new[x] = heap[x]
        BY <1>6 DEF Grown
    <2> QED
        BY <1>6, <2>1, <2>2, ListKept
<1>7. Holding(new, f.component_extension, rem)
    BY <1>1, <1>5, <1>6 DEF LoopOver, Holding
<1>8. Found(count, new, f, Results(r, att, B, C, rem))
    <2>1. Found(count, heap, f, Results(r, att, B, C, rem))
        BY <1>1 DEF LoopOver
    <2>2. \A S \in Results(r, att, B, C, rem) : ~(S \subseteq A)
        BY <1>5
    <2> HIDE DEF B, C
    <2> QED
        BY <1>6, <2>1, <2>2 DEF Found
<1>9. LoopOver(r, att, count, new, f, rem)
    BY <1>1, <1>7, <1>8 DEF LoopOver
<1> QED
    BY <1>2, <1>9 DEF Loop

LEMMA PausedKept ==
    ASSUME NEW r, NEW att, att \in Framework, NEW count, NEW heap, heap \in Seq(Nodes), NEW new,
           NEW A, Grown(heap, new, A), NEW f, SccFrame(att, f), A \cap f.component = {},
           Paused(r, att, count, heap, f)
    PROVE  Paused(r, att, count, new, f) /\ LeftBy(att, new, f) = LeftBy(att, heap, f)
<1>1. Loop(r, att, count, heap, f) /\ f.component_extension # 0
    BY DEF Paused
<1>2. Loop(r, att, count, new, f)
    BY <1>1, LoopKept
<1>3. PICK rem : LoopOver(r, att, count, heap, f, rem)
    BY <1>1 DEF Loop
<1>4. f.component_extension \in DOMAIN heap
    <2>1. PICK l : HasList(heap, f.component_extension, l, rem)
        BY <1>3 DEF LoopOver, Holding
    <2> QED
        BY <1>1, <2>1, ListEnds
<1>5. new[f.component_extension].c = heap[f.component_extension].c
    BY <1>4 DEF Grown
<1> QED
    BY <1>2, <1>5 DEF Paused, LeftBy

SccCalls(r, att, count, heap, s) ==
    /\ SccFrames(att, s) /\ s # <<>>
    /\ s[Len(s)].arguments = Arg
    /\ \A k \in DOMAIN s : k # 1 => /\ Paused(r, att, count, heap, s[k])
                                    /\ s[k-1].arguments = LeftBy(att, heap, s[k])
    /\ \A j, k \in DOMAIN s : j < k => s[j].arguments \subseteq s[k].arguments \ s[k].component

(* The innermost call changes its frame and nodes that hold parts of what it *)
(* is about.                                                                 *)
LEMMA SccCallsStep ==
    ASSUME NEW r, NEW att, att \in Framework, NEW count, NEW heap, heap \in Seq(Nodes), NEW new, NEW s,
           SccCalls(r, att, count, heap, s), Grown(heap, new, s[1].arguments),
           NEW f, SccFrame(att, f), f.arguments = s[1].arguments, NEW t, t = TopOf(s, f)
    PROVE  SccCalls(r, att, count, new, t) /\ t[1] = f
<1>1. SccFrames(att, s) /\ s # <<>>
    BY DEF SccCalls
<1>2. PICK X : s \in Seq(X)
    BY <1>1 DEF SccFrames
<1>3. /\ SccFrames(att, t) /\ t # <<>> /\ t[1] = f /\ Len(t) = Len(s)
      /\ DOMAIN t = DOMAIN s /\ \A k \in DOMAIN s : k # 1 => t[k] = s[k]
    BY <1>1, TopSet
<1>4. DOMAIN s = 1 .. Len(s) /\ Len(s) \in Nat /\ 1 \in DOMAIN s /\ Len(s) \in DOMAIN s
    BY <1>1, <1>2
<1>5. \A k \in DOMAIN s : t[k].arguments = s[k].arguments
    BY <1>3
<1>6. t[Len(t)].arguments = Arg
    BY <1>3, <1>4, <1>5 DEF SccCalls
<1>7. ASSUME NEW k \in DOMAIN t, k # 1
      PROVE  Paused(r, att, count, new, t[k]) /\ t[k-1].arguments = LeftBy(att, new, t[k])
    <2>1. k \in DOMAIN s /\ 1 \in DOMAIN s /\ k-1 \in DOMAIN s /\ 1 < k
        BY <1>3, <1>4, <1>7
    <2>2. s[1].arguments \cap s[k].component = {}
        BY <2>1 DEF SccCalls
    <2>3. SccFrame(att, s[k]) /\ t[k] = s[k]
        BY <1>1, <1>3, <1>7, <2>1 DEF SccFrames
    <2>4. Paused(r, att, count, heap, s[k]) /\ s[k-1].arguments = LeftBy(att, heap, s[k])
        BY <1>7, <2>1 DEF SccCalls
    <2>5. Paused(r, att, count, new, s[k]) /\ LeftBy(att, new, s[k]) = LeftBy(att, heap, s[k])
        BY <2>2, <2>3, <2>4, PausedKept
    <2> QED
        BY <1>5, <2>1, <2>3, <2>4, <2>5
<1>8. ASSUME NEW j \in DOMAIN t, NEW k \in DOMAIN t, j < k
      PROVE  t[j].arguments \subseteq t[k].arguments \ t[k].component
    <2>1. k # 1 /\ k \in DOMAIN s /\ j \in DOMAIN s
        BY <1>3, <1>4, <1>8
    <2>2. s[j].arguments \subseteq s[k].arguments \ s[k].component
        BY <1>8, <2>1 DEF SccCalls
    <2>3. t[k] = s[k]
        BY <1>3, <2>1
    <2> QED
        BY <1>5, <2>1, <2>2, <2>3
<1> QED
    BY <1>3, <1>6, <1>7, <1>8 DEF SccCalls

LEMMA SccCallsPushed ==
    ASSUME NEW r, NEW att, att \in Framework, NEW count, NEW heap, NEW s,
           SccCalls(r, att, count, heap, s), Paused(r, att, count, heap, s[1]),
           NEW f, SccFrame(att, f), f.arguments = LeftBy(att, heap, s[1])
    PROVE  LET t == <<f>> \o s
           IN  SccCalls(r, att, count, heap, t) /\ t[1] = f
<1> DEFINE t == <<f>> \o s
<1>1. SccFrames(att, s) /\ s # <<>>
    BY DEF SccCalls
<1>2. PICK X : s \in Seq(X)
    BY <1>1 DEF SccFrames
<1>3. /\ SccFrames(att, t) /\ t # <<>> /\ t[1] = f /\ Len(t) = Len(s) + 1
      /\ DOMAIN t = 1 .. Len(s) + 1 /\ Len(s) \in Nat /\ DOMAIN s = 1 .. Len(s)
      /\ \A k \in DOMAIN t : k # 1 => k-1 \in DOMAIN s /\ t[k] = s[k-1]
    BY <1>1, FramesPushed
<1>4. Len(s) # 0 /\ 1 \in DOMAIN s
    BY <1>1, <1>2
<1> HIDE DEF t
<1>5. t[Len(t)].arguments = Arg
    <2>1. Len(t) \in DOMAIN t /\ Len(t) # 1 /\ Len(t) - 1 = Len(s)
        BY <1>3, <1>4
    <2>2. t[Len(t)] = s[Len(s)]
        BY <1>3, <2>1
    <2> QED
        BY <2>2 DEF SccCalls
<1>6. f.arguments \subseteq s[1].arguments \ s[1].component
    BY DEF LeftBy, Left
<1>7. ASSUME NEW k \in DOMAIN t, k # 1
      PROVE  Paused(r, att, count, heap, t[k]) /\ t[k-1].arguments = LeftBy(att, heap, t[k])
    <2>1. k-1 \in DOMAIN s /\ t[k] = s[k-1]
        BY <1>3, <1>7
    <2>2. CASE k-1 = 1
        BY <1>3, <2>1, <2>2
    <2>3. CASE k-1 # 1
        <3>1. k-1 \in DOMAIN t
            BY <1>3, <2>1
        <3>2. t[k-1] = s[(k-1)-1]
            BY <1>3, <2>3, <3>1
        <3> QED
            BY <2>1, <2>3, <3>2 DEF SccCalls
    <2> QED
        BY <2>2, <2>3
<1>8. ASSUME NEW j \in DOMAIN t, NEW k \in DOMAIN t, j < k
      PROVE  t[j].arguments \subseteq t[k].arguments \ t[k].component
    <2>1. k # 1
        BY <1>3, <1>8
    <2>2. k-1 \in DOMAIN s /\ t[k] = s[k-1]
        BY <1>3, <2>1
    <2>3. CASE j = 1
        <3>1. CASE k-1 = 1
            BY <1>3, <1>6, <2>2, <2>3, <3>1
        <3>2. CASE k-1 # 1
            <4>1. 1 < k-1
                BY <1>3, <2>2, <3>2
            <4>2. s[1].arguments \subseteq s[k-1].arguments \ s[k-1].component
                BY <1>4, <2>2, <4>1 DEF SccCalls
            <4> QED
                BY <1>3, <1>6, <2>2, <2>3, <4>2
        <3> QED
            BY <3>1, <3>2
    <2>4. CASE j # 1
        <3>1. j-1 \in DOMAIN s /\ t[j] = s[j-1]
            BY <1>3, <2>4
        <3>2. j-1 < k-1
            BY <1>3, <1>8
        <3>3. s[j-1].arguments \subseteq s[k-1].arguments \ s[k-1].component
            BY <2>2, <3>1, <3>2 DEF SccCalls
        <3> QED
            BY <2>2, <3>1, <3>3
    <2> QED
        BY <2>3, <2>4
<1> QED
    BY <1>3, <1>5, <1>7, <1>8 DEF SccCalls, t

LEMMA SccCallsPopped ==
    ASSUME NEW r, NEW att, NEW count, NEW heap, NEW s, SccCalls(r, att, count, heap, s)
    PROVE  /\ Len(s) = 1 => s[1].arguments = Arg
           /\ Len(s) # 1 => /\ SccCalls(r, att, count, heap, Tail(s))
                            /\ Paused(r, att, count, heap, Tail(s)[1])
                            /\ s[1].arguments = LeftBy(att, heap, Tail(s)[1])
<1> DEFINE t == Tail(s)
<1>1. SccFrames(att, s) /\ s # <<>>
    BY DEF SccCalls
<1>2. /\ SccFrames(att, t) /\ Len(t) = Len(s) - 1 /\ DOMAIN t = 1 .. Len(s) - 1
      /\ Len(s) \in Nat /\ Len(s) # 0 /\ DOMAIN s = 1 .. Len(s)
      /\ \A k \in DOMAIN t : k+1 \in DOMAIN s /\ t[k] = s[k+1]
      /\ Len(s) # 1 => t # <<>>
    BY <1>1, FramesPopped
<1>3. CASE Len(s) = 1
    BY <1>3 DEF SccCalls
<1>4. CASE Len(s) # 1
    <2> HIDE DEF t
    <2>1. Len(t) \in DOMAIN t /\ Len(t) + 1 = Len(s) /\ 1 \in DOMAIN t /\ 1+1 = 2
          /\ 2 \in DOMAIN s /\ 2 # 1 /\ 2-1 = 1
        BY <1>2, <1>4
    <2>2. t[Len(t)] = s[Len(s)] /\ t[1] = s[2]
        BY <1>2, <2>1
    <2>3. Paused(r, att, count, heap, t[1]) /\ s[1].arguments = LeftBy(att, heap, t[1])
        BY <2>1, <2>2 DEF SccCalls
    <2>4. ASSUME NEW k \in DOMAIN t, k # 1
          PROVE  Paused(r, att, count, heap, t[k]) /\ t[k-1].arguments = LeftBy(att, heap, t[k])
        <3>1. k+1 \in DOMAIN s /\ t[k] = s[k+1] /\ k+1 # 1 /\ (k+1)-1 = k
            BY <1>2
        <3>2. Paused(r, att, count, heap, s[k+1]) /\ s[k].arguments = LeftBy(att, heap, s[k+1])
            BY <3>1 DEF SccCalls
        <3>3. k-1 \in DOMAIN t /\ (k-1)+1 = k
            BY <1>2, <2>4
        <3>4. t[k-1] = s[k]
            BY <1>2, <3>3
        <3> QED
            BY <3>1, <3>2, <3>4
    <2>5. ASSUME NEW j \in DOMAIN t, NEW k \in DOMAIN t, j < k
          PROVE  t[j].arguments \subseteq t[k].arguments \ t[k].component
        <3>1. /\ k+1 \in DOMAIN s /\ t[k] = s[k+1]
              /\ j+1 \in DOMAIN s /\ t[j] = s[j+1]
            BY <1>2
        <3>2. j+1 < k+1
            BY <1>2, <2>5
        <3> QED
            BY <3>1, <3>2 DEF SccCalls
    <2>6. SccCalls(r, att, count, heap, t)
        BY <1>2, <1>4, <2>2, <2>4, <2>5 DEF SccCalls
    <2> QED
        BY <1>4, <2>3, <2>6 DEF t
<1> QED
    BY <1>3, <1>4

-------------------------------------------------------------------------------
(* The invariant of the recursion over strongly connected components.        *)

Counting == alg = "count"

(* The map of counts is only used for components, which the other one has    *)
(* too.  What is in the other one is as it was put only when it is counted.  *)
SccMaps(r, att, count, heap, sub, counts) ==
    /\ \A key \in DOMAIN sub : sub[key] \in {0} \cup DOMAIN heap
    /\ count => /\ DOMAIN counts = DOMAIN sub
                /\ \A key \in DOMAIN sub :
                        /\ Holding(heap, sub[key], Answers(r, att, key))
                        /\ counts[key] = Cardinality(Answers(r, att, key))

(* The sets remembered for each key.                                         *)
AsPut(r, att, sub, pt) ==
    \A key \in DOMAIN sub : key \in DOMAIN pt /\ pt[key] = Answers(r, att, key)

LEMMA AsPutKept ==
    ASSUME NEW r, NEW att, NEW sub, NEW pt, AsPut(r, att, sub, pt), NEW key, NEW p
    PROVE  AsPut(r, att, Scc!Put(key, p, sub), Scc!Put(key, Answers(r, att, key), pt))
<1> DEFINE new == Scc!Put(key, p, sub)
           more == Scc!Put(key, Answers(r, att, key), pt)
<1>1. DOMAIN new = DOMAIN sub \cup {key}
    BY DEF Scc!Put
<1>2. ASSUME NEW k \in DOMAIN sub \cup {key}
      PROVE  k \in DOMAIN more /\ more[k] = Answers(r, att, k)
    <2>1. k \in DOMAIN pt \cup {key}
        BY <1>2 DEF AsPut
    <2>2. k \in DOMAIN more /\ more[k] = IF k = key THEN Answers(r, att, key) ELSE pt[k]
        BY <2>1 DEF Scc!Put
    <2> QED
        BY <1>2, <2>2 DEF AsPut
<1> QED
    BY <1>1, <1>2 DEF AsPut

Fresh(f) == f.first = 0 /\ f.last = 0 /\ f.n = 0

SccStage(r, att, count, heap, stage, f, list, number) ==
    /\ stage \in {"call", "component"} => Fresh(f)
    /\ stage = "component" => From(att, f.arguments, f.component)
    /\ stage = "loop" => Loop(r, att, count, heap, f)
    /\ stage = "append" =>
            IF count THEN /\ Paused(r, att, count, heap, f)
                          /\ number = Cardinality(Answers(r, att, LeftBy(att, heap, f)))
                     ELSE Appending(r, att, heap, f, list)

SccAnswer(count, heap, list, number, set) ==
    IF count THEN number = Cardinality(set) ELSE Holding(heap, list, set)

SccLists ==
    /\ nodes \in Seq(Nodes) /\ Acyclic(nodes)
    /\ SccMaps(routine, af, Counting, nodes, subextensions, subextension_counts)
    /\ AsPut(routine, af, subextensions, put)
    /\ pc \in Calling => /\ SccCalls(routine, af, Counting, nodes, frames)
                         /\ SccStage(routine, af, Counting, nodes, pc, frames[1], returned, n)
    /\ pc = "loop" /\ Counting /\ frames[1].component = frames[1].arguments =>
            frames[1].component \in DOMAIN subextension_counts
    /\ pc = "done" => SccAnswer(Counting, nodes, returned, n, Answers(routine, af, Arg))

LEMMA EmptyList ==
    ASSUME NEW heap
    PROVE  HasList(heap, 0, 0, {})
<1>1. <<>> \in Seq(DOMAIN heap) /\ DOMAIN <<>> = {}
    OBVIOUS
<1>2. IsList(heap, 0, 0, <<>>) /\ Holds(heap, <<>>, {})
    BY <1>1 DEF IsList, Holds
<1> QED
    BY <1>2 DEF HasList

LEMMA HoldingKept ==
    ASSUME NEW heap, NEW new, DOMAIN heap \subseteq DOMAIN new, NEW p, NEW set,
           \A x \in DOMAIN heap : heap[x].c \in set => new[x] = heap[x],
           Holding(heap, p, set)
    PROVE  Holding(new, p, set)
<1>1. PICK l : HasList(heap, p, l, set)
    BY DEF Holding
<1>2. HasList(new, p, l, set)
    BY <1>1, ListKept
<1> QED
    BY <1>2 DEF Holding

LEMMA MapsKept ==
    ASSUME NEW r, NEW att, NEW count, NEW heap, NEW new, DOMAIN heap \subseteq DOMAIN new,
           count => \A x \in DOMAIN heap : new[x] = heap[x],
           NEW sub, NEW counts, SccMaps(r, att, count, heap, sub, counts)
    PROVE  SccMaps(r, att, count, new, sub, counts)
<1>1. ASSUME count, NEW key \in DOMAIN sub
      PROVE  Holding(new, sub[key], Answers(r, att, key))
    <2>1. Holding(heap, sub[key], Answers(r, att, key))
        BY <1>1 DEF SccMaps
    <2>2. \A x \in DOMAIN heap : new[x] = heap[x]
        BY <1>1
    <2> QED
        BY <2>1, <2>2, HoldingKept
<1> QED
    BY <1>1 DEF SccMaps

LEMMA MapsPut ==
    ASSUME NEW r, NEW att, NEW count, NEW heap, NEW sub, NEW counts,
           SccMaps(r, att, count, heap, sub, counts),
           NEW key, NEW p \in {0} \cup DOMAIN heap, NEW more,
           IF count THEN /\ Holding(heap, p, Answers(r, att, key))
                         /\ more = Scc!Put(key, Cardinality(Answers(r, att, key)), counts)
                    ELSE more = counts
    PROVE  /\ SccMaps(r, att, count, heap, Scc!Put(key, p, sub), more)
           /\ count => key \in DOMAIN more
<1> DEFINE new == Scc!Put(key, p, sub)
<1>1. /\ DOMAIN new = DOMAIN sub \cup {key}
      /\ \A k \in DOMAIN new : new[k] = IF k = key THEN p ELSE sub[k]
    BY DEF Scc!Put
<1>2. ASSUME count
      PROVE  /\ DOMAIN more = DOMAIN counts \cup {key}
             /\ \A k \in DOMAIN more :
                    more[k] = IF k = key THEN Cardinality(Answers(r, att, key)) ELSE counts[k]
    BY <1>2 DEF Scc!Put
<1> HIDE DEF new
<1>3. \A k \in DOMAIN new : new[k] \in {0} \cup DOMAIN heap
    BY <1>1 DEF SccMaps
<1>4. ASSUME count
      PROVE  /\ DOMAIN more = DOMAIN new /\ key \in DOMAIN more
             /\ \A k \in DOMAIN new : /\ Holding(heap, new[k], Answers(r, att, k))
                                      /\ more[k] = Cardinality(Answers(r, att, k))
    BY <1>1, <1>2, <1>4 DEF SccMaps
<1> QED
    BY <1>3, <1>4 DEF SccMaps, new

(* What the current extension is, and what is behind it in the list.         *)
LEMMA Current ==
    ASSUME NEW heap \in Seq(Nodes), NEW p, p # 0, NEW set, Holding(heap, p, set)
    PROVE  /\ p \in DOMAIN heap /\ heap[p].c \in set
           /\ Holding(heap, heap[p].next, set \ {heap[p].c})
<1>1. PICK l : HasList(heap, p, l, set)
    BY DEF Holding
<1>2. p \in DOMAIN heap /\ heap[p].c \in set
    BY <1>1, ListEnds
<1>3. PICK m : HasList(heap, heap[p].next, m, set \ {heap[p].c})
    BY <1>1, ListTail
<1> QED
    BY <1>2, <1>3 DEF Holding

LEMMA AtEnd ==
    ASSUME NEW heap \in Seq(Nodes), NEW set, Holding(heap, 0, set)
    PROVE  set = {}
<1>1. PICK l : HasList(heap, 0, l, set)
    BY DEF Holding
<1> QED
    BY <1>1, ListEnds

(* The call that is over has been made by one that goes on with its answer.  *)
LEMMA SccReturns ==
    ASSUME NEW r, NEW att, att \in Framework, NEW count, NEW heap \in Seq(Nodes), NEW f, SccFrame(att, f),
           Paused(r, att, count, heap, f), NEW list, NEW number, LeftBy(att, heap, f) # {},
           SccAnswer(count, heap, list, number, Answers(r, att, LeftBy(att, heap, f)))
    PROVE  SccStage(r, att, count, heap, "append", f, list, number)
<1> DEFINE C == f.component
           B == f.arguments
           E == heap[f.component_extension].c
           L == LeftBy(att, heap, f)
<1>1. CASE count
    BY <1>1 DEF SccStage, SccAnswer
<1>2. CASE ~count
    <2>1. /\ From(att, B, C) /\ C # B /\ f.component_extension # 0
          /\ B \in SUBSET Arg
        BY DEF Paused, Loop, SccFrame
    <2>2. PICK rem : LoopOver(r, att, count, heap, f, rem)
        BY DEF Paused, Loop
    <2>3. rem \in SUBSET Answers(r, att, C) /\ Holding(heap, f.component_extension, rem)
        BY <2>2 DEF LoopOver
    <2>4. E \in rem
        BY <2>1, <2>3, Current
    <2>5. HasList(heap, f.first, f.last, Results(r, att, B, C, rem))
        BY <1>2, <2>2 DEF LoopOver, Found
    <2>6. Partial(r, att, B, C, rem, E, Answers(r, att, L)) = Results(r, att, B, C, rem)
        <3>1. L = Left(att, B, C, E)
            BY DEF LeftBy
        <3>2. OneExtension(r, att, B, C, rem, E, L)
            <4> HIDE DEF B, C, E, L
            <4> QED
                BY <2>1, <2>3, <2>4, <3>1, ResultsOfOne
        <3> QED
            BY <3>2 DEF OneExtension
    <2>7. Holding(heap, list, Answers(r, att, L))
        BY <1>2 DEF SccAnswer
    <2>8. Uniting(r, att, heap, f, list, rem, Answers(r, att, L))
        BY <2>3, <2>5, <2>6, <2>7 DEF Uniting
    <2>9. Appending(r, att, heap, f, list)
        BY <2>1, <2>8 DEF Appending
    <2> QED
        BY <1>2, <2>9 DEF SccStage
<1> QED
    BY <1>1, <1>2

(* A call is over.                                                           *)
LEMMA SccPop ==
    ASSUME SccBase, SccLists, pc \in Calling, NEW list, NEW number, Scc!Pop(list, number),
           UNCHANGED <<alg, routine, af, nodes>>,
           SccMaps(routine, af, Counting, nodes, subextensions', subextension_counts'),
           AsPut(routine, af, subextensions', put'),
           SccAnswer(Counting, nodes, list, number, Answers(routine, af, frames[1].arguments))
    PROVE  SccLists'
<1> DEFINE count == Counting
<1>1. SccCalls(routine, af, count, nodes, frames) /\ nodes \in Seq(Nodes) /\ Acyclic(nodes)
    BY DEF SccLists
<1>2. af \in Framework /\ SccFrame(af, frames[1])
    BY SccTop
<1>3. /\ returned' = list /\ n' = number /\ frames' = Tail(frames)
      /\ pc' = IF Len(frames) = 1 THEN "done" ELSE "append"
    BY DEF Scc!Pop
<1>4. Counting' = count
    BY DEF Counting
<1> HIDE DEF count
<1>5. /\ SccMaps(routine', af', Counting', nodes', subextensions', subextension_counts')
      /\ AsPut(routine', af', subextensions', put')
    BY <1>4 DEF count
<1>6. CASE Len(frames) = 1
    <2>1. frames[1].arguments = Arg
        BY <1>1, <1>6, SccCallsPopped
    <2>3. SccAnswer(Counting', nodes', returned', n', Answers(routine', af', Arg))
        BY <1>3, <1>4, <2>1 DEF count
    <2>4. pc' = "done"
        BY <1>3, <1>6
    <2> QED
        BY <1>1, <1>5, <2>3, <2>4 DEF SccLists, Calling
<1>7. CASE Len(frames) # 1
    <2> DEFINE g == frames'[1]
    <2>1. /\ SccCalls(routine, af, count, nodes, frames') /\ Paused(routine, af, count, nodes, g)
          /\ frames[1].arguments = LeftBy(af, nodes, g)
        BY <1>1, <1>3, <1>7, SccCallsPopped
    <2>2. pc' = "append"
        BY <1>3, <1>7
    <2>3. SccFrame(af, g)
        <3>1. SccFrames(af, frames') /\ frames' # <<>>
            BY <2>1 DEF SccCalls
        <3>2. PICK X : frames' \in Seq(X)
            BY <3>1 DEF SccFrames
        <3>3. 1 \in DOMAIN frames'
            BY <3>1, <3>2
        <3> QED
            BY <3>1, <3>3 DEF SccFrames
    <2>4. LeftBy(af, nodes, g) # {}
        BY <1>2, <2>1 DEF SccFrame
    <2>5. SccAnswer(count, nodes, list, number, Answers(routine, af, LeftBy(af, nodes, g)))
        BY <2>1 DEF count
    <2> HIDE DEF g
    <2>6. SccStage(routine, af, count, nodes, "append", g, list, number)
        BY <1>1, <1>2, <2>1, <2>3, <2>4, <2>5, SccReturns
    <2>7. SccStage(routine', af', Counting', nodes', pc', frames'[1], returned', n')
        BY <1>3, <1>4, <2>2, <2>6 DEF g
    <2>8. SccCalls(routine', af', Counting', nodes', frames')
        BY <1>4, <2>1
    <2> QED
        BY <1>1, <1>5, <2>2, <2>7, <2>8 DEF SccLists
<1> QED
    BY <1>6, <1>7

(* A step that changes the innermost frame.                                  *)
LEMMA SccTopStep ==
    ASSUME SccBase, SccLists, pc \in Calling, UNCHANGED <<alg, routine, af>>,
           nodes' \in Seq(Nodes), Acyclic(nodes'), Grown(nodes, nodes', frames[1].arguments),
           SccMaps(routine, af, Counting, nodes', subextensions', subextension_counts'),
           AsPut(routine, af, subextensions', put'),
           NEW g, SccFrame(af, g), g.arguments = frames[1].arguments,
           frames' = TopOf(frames, g), pc' \in Calling,
           SccStage(routine, af, Counting, nodes', pc', g, returned', n'),
           pc' = "loop" /\ Counting /\ g.component = g.arguments =>
                g.component \in DOMAIN subextension_counts'
    PROVE  SccLists'
<1>1. SccCalls(routine, af, Counting, nodes, frames) /\ nodes \in Seq(Nodes) /\ af \in Framework
    BY DEF SccLists, SccBase
<1>2. SccCalls(routine, af, Counting, nodes', frames') /\ frames'[1] = g
    <2> DEFINE count == Counting
    <2>1. SccCalls(routine, af, count, nodes, frames)
        BY <1>1
    <2> HIDE DEF count
    <2>2. ASSUME NEW r, NEW att, NEW heap, NEW new, NEW s, NEW t, r = routine, att = af, heap = nodes, new = nodes',
                 s = frames, t = frames'
          PROVE  SccCalls(r, att, count, new, t) /\ t[1] = g
        <3>1. /\ att \in Framework /\ heap \in Seq(Nodes) /\ SccCalls(r, att, count, heap, s)
              /\ Grown(heap, new, s[1].arguments) /\ SccFrame(att, g)
              /\ g.arguments = s[1].arguments /\ t = TopOf(s, g)
            BY <1>1, <2>1, <2>2
        <3> QED
            BY <3>1, SccCallsStep
    <2> QED
        BY <2>2 DEF count
<1>3. Counting' = Counting
    BY DEF Counting
<1>4. pc' # "done"
    BY DEF Calling
<1>5. SccCalls(routine', af', Counting', nodes', frames')
    BY <1>2, <1>3
<1>6. SccStage(routine', af', Counting', nodes', pc', frames'[1], returned', n')
    BY <1>2, <1>3
<1>7. /\ SccMaps(routine', af', Counting', nodes', subextensions', subextension_counts')
      /\ AsPut(routine', af', subextensions', put')
    BY <1>3
<1> QED
    BY <1>2, <1>3, <1>4, <1>5, <1>6, <1>7 DEF SccLists

(* The usual case: the nodes do not change.                                  *)
LEMMA SccSameNodes ==
    ASSUME SccBase, SccLists, pc \in Calling,
           UNCHANGED <<alg, routine, af, nodes, subextensions, subextension_counts, put>>,
           NEW set, NEW p, NEW h, NEW l, NEW x, TopIs(set, p, h, l, x),
           set # {} => From(af, frames[1].arguments, set), pc' \in Calling,
           SccStage(routine, af, Counting, nodes, pc', Changed(frames[1], set, p, h, l, x), returned', n'),
           pc' = "loop" /\ Counting /\ set = frames[1].arguments =>
                set \in DOMAIN subextension_counts
    PROVE  SccLists'
<1> DEFINE g == Changed(frames[1], set, p, h, l, x)
<1>1. nodes' \in Seq(Nodes) /\ Acyclic(nodes')
    BY DEF SccLists
<1>2. Grown(nodes, nodes', frames[1].arguments)
    BY DEF Grown
<1>3. /\ SccMaps(routine, af, Counting, nodes', subextensions', subextension_counts')
      /\ AsPut(routine, af, subextensions', put')
    BY DEF SccLists
<1>4. SccFrame(af, g) /\ g.arguments = frames[1].arguments /\ g.component = set
    BY SccTop, ChangedFrame
<1>5. frames' = TopOf(frames, g)
    BY DEF TopIs
<1>6. SccStage(routine, af, Counting, nodes', pc', g, returned', n')
    OBVIOUS
<1> HIDE DEF g
<1>7. pc' = "loop" /\ Counting /\ g.component = g.arguments =>
        g.component \in DOMAIN subextension_counts'
    BY <1>4
<1> QED
    BY <1>1, <1>2, <1>3, <1>4, <1>5, <1>6, <1>7, SccTopStep

-------------------------------------------------------------------------------
(* The steps of the recursion.                                               *)

LEMMA InnermostScc ==
    ASSUME SccBase, SccLists, pc \in Calling
    PROVE  /\ af \in Framework /\ SccFrame(af, frames[1])
           /\ frames[1].arguments \in SUBSET Arg /\ frames[1].arguments # {}
           /\ nodes \in Seq(Nodes) /\ Acyclic(nodes)
           /\ SccMaps(routine, af, Counting, nodes, subextensions, subextension_counts)
           /\ AsPut(routine, af, subextensions, put)
           /\ SccCalls(routine, af, Counting, nodes, frames)
           /\ SccStage(routine, af, Counting, nodes, pc, frames[1], returned, n)
           /\ Scc!Top = frames[1]
<1>1. af \in Framework /\ SccFrame(af, frames[1])
    BY SccTop
<1> QED
    BY <1>1 DEF SccLists, SccFrame, Scc!Top

LEMMA Looked ==
    ASSUME NEW key, Scc!Lookup(subextensions, key) # 0
    PROVE  key \in DOMAIN subextensions /\ Scc!Lookup(subextensions, key) = subextensions[key]
BY DEF Scc!Lookup, Scc!Null

(* The comparison with what has been put has not failed.                     *)
LEMMA FoundIntact ==
    ASSUME SccLists, NEW key,
           Scc!Lookup(subextensions, key) # 0,
           Counting \/ Scc!Intact(key, Scc!Lookup(subextensions, key))
    PROVE  Holding(nodes, Scc!Lookup(subextensions, key), Answers(routine, af, key))
<1> DEFINE list == Scc!Lookup(subextensions, key)
<1>1. key \in DOMAIN subextensions /\ list = subextensions[key]
    BY Looked
<1>2. SccMaps(routine, af, Counting, nodes, subextensions, subextension_counts)
      /\ nodes \in Seq(Nodes) /\ Acyclic(nodes) /\ AsPut(routine, af, subextensions, put)
    BY DEF SccLists
<1>3. list \in {0} \cup DOMAIN nodes
    BY <1>1, <1>2 DEF SccMaps
<1>4. CASE Counting
    BY <1>1, <1>2, <1>4 DEF SccMaps
<1>5. CASE Scc!Intact(key, list)
    <2> HIDE DEF list
    <2>1. PICK l : HasList(nodes, list, l, put[key])
        BY <1>2, <1>3, <1>5, IntactList
    <2>2. put[key] = Answers(routine, af, key)
        BY <1>1, <1>2 DEF AsPut
    <2> QED
        BY <2>1, <2>2 DEF Holding, list
<1> QED
    BY <1>4, <1>5

LEMMA SccCallHit ==
    ASSUME SccBase, SccLists, UNCHANGED alg, Scc!CallHit, ~stale'
    PROVE  SccLists'
<1> DEFINE A == frames[1].arguments
           list == Scc!Lookup(subextensions, A)
<1>1. /\ pc \in Calling /\ ~Counting /\ list # 0 /\ Scc!Pop(list, n)
      /\ Scc!Intact(A, list) /\ UNCHANGED <<alg, routine, af, nodes, subextensions, subextension_counts, put>>
    BY DEF Scc!CallHit, Calling, Counting, Scc!Top, Scc!Null
<1>2. af \in Framework /\ A \in SUBSET Arg
    BY <1>1, InnermostScc
<1>3. Holding(nodes, list, Answers(routine, af, A))
    BY <1>1, FoundIntact
<1>4. SccAnswer(Counting, nodes, list, n, Answers(routine, af, frames[1].arguments))
    BY <1>1, <1>3 DEF SccAnswer
<1>5. /\ SccMaps(routine, af, Counting, nodes, subextensions', subextension_counts')
      /\ AsPut(routine, af, subextensions', put')
    BY <1>1 DEF SccLists
<1> HIDE DEF list
<1> QED
    BY <1>1, <1>4, <1>5, SccPop

LEMMA SccCountHit ==
    ASSUME SccBase, SccLists, UNCHANGED alg, Scc!CountHit
    PROVE  SccLists'
<1> DEFINE A == frames[1].arguments
           number == subextension_counts[A]
<1>1. /\ pc \in Calling /\ Counting /\ A \in DOMAIN subextension_counts
      /\ Scc!Pop(returned, number)
      /\ UNCHANGED <<alg, routine, af, nodes, subextensions, subextension_counts, put>>
    BY DEF Scc!CountHit, Calling, Counting, Scc!Top
<1>2. SccMaps(routine, af, Counting, nodes, subextensions, subextension_counts)
    BY DEF SccLists
<1>3. number = Cardinality(Answers(routine, af, A))
    BY <1>1, <1>2 DEF SccMaps
<1>4. SccAnswer(Counting, nodes, returned, number, Answers(routine, af, frames[1].arguments))
    BY <1>1, <1>3 DEF SccAnswer
<1>5. /\ SccMaps(routine, af, Counting, nodes, subextensions', subextension_counts')
      /\ AsPut(routine, af, subextensions', put')
    BY <1>1 DEF SccLists
<1> HIDE DEF number
<1> QED
    BY <1>1, <1>4, <1>5, SccPop

LEMMA SccFindComponent ==
    ASSUME SccBase, SccLists, UNCHANGED alg, Scc!FindComponent
    PROVE  SccLists'
<1> DEFINE F == frames[1]
           C == SourceComponent(af, F.arguments)
           g == Changed(F, C, F.component_extension, F.first, F.last, F.n)
<1>1. /\ pc = "call" /\ pc \in Calling /\ pc' = "component" /\ pc' \in Calling
      /\ UNCHANGED <<alg, routine, af, nodes, subextensions, subextension_counts, put>>
    BY DEF Scc!FindComponent, Calling
<1>2. /\ af \in Framework /\ F.arguments \in SUBSET Arg /\ F.arguments # {}
      /\ SccStage(routine, af, Counting, nodes, pc, F, returned, n)
    BY <1>1, InnermostScc
<1>3. From(af, F.arguments, C)
    BY <1>2, SourceOfPart
<1>4. TopIs(C, F.component_extension, F.first, F.last, F.n)
    BY <1>1, SccMoves
<1>5. SccStage(routine, af, Counting, nodes, pc', g, returned', n')
    BY <1>1, <1>2, <1>3 DEF SccStage, Changed, Fresh
<1> HIDE DEF C, F
<1> QED
    BY <1>1, <1>3, <1>4, <1>5, SccSameNodes DEF F

(* A loop starts with nothing found.                                         *)
LEMMA LoopStarts ==
    ASSUME NEW r, NEW att, att \in Framework, NEW count, NEW heap, NEW f, SccFrame(att, f), Fresh(f),
           From(att, f.arguments, f.component),
           Holding(heap, f.component_extension, Answers(r, att, f.component))
    PROVE  Loop(r, att, count, heap, f)
<1>1. f.arguments \in SUBSET Arg
    BY DEF SccFrame
<1>2. Results(r, att, f.arguments, f.component, Answers(r, att, f.component)) = {}
    BY <1>1, ResultsAtEnds
<1>3. Cardinality({}) = 0
    BY FS_EmptySet
<1>4. Found(count, heap, f, {})
    BY <1>3, EmptyList DEF Found, Fresh
<1>5. LoopOver(r, att, count, heap, f, Answers(r, att, f.component))
    BY <1>2, <1>4 DEF LoopOver
<1> QED
    BY <1>5 DEF Loop

LEMMA SccUseComponent ==
    ASSUME SccBase, SccLists, UNCHANGED alg, Scc!UseComponent, pc' # "crash",
           Counting \/ ~stale'
    PROVE  SccLists'
<1> DEFINE F == frames[1]
           list == Scc!Lookup(subextensions, F.component)
           g == Changed(F, F.component, list, F.first, F.last, F.n)
<1>1. /\ pc = "component" /\ pc \in Calling /\ pc' = "loop" /\ pc' \in Calling /\ list # 0
      /\ Counting \/ Scc!Intact(F.component, list)
      /\ UNCHANGED <<alg, routine, af, nodes, subextensions, subextension_counts, put>>
    BY DEF Scc!UseComponent, Calling, Scc!Top, Scc!Null
<1>2. /\ af \in Framework /\ SccFrame(af, F) /\ F.arguments \in SUBSET Arg
      /\ SccStage(routine, af, Counting, nodes, pc, F, returned, n)
      /\ SccMaps(routine, af, Counting, nodes, subextensions, subextension_counts)
    BY <1>1, InnermostScc
<1>3. From(af, F.arguments, F.component) /\ Fresh(F)
    BY <1>1, <1>2 DEF SccStage
<1>4. F.component \in SUBSET Arg
    BY <1>2, <1>3 DEF From, Source
<1>5. Holding(nodes, list, Answers(routine, af, F.component))
    BY <1>1, FoundIntact
<1>6. Counting => F.component \in DOMAIN subextension_counts
    <2>1. F.component \in DOMAIN subextensions
        BY <1>1, Looked
    <2> QED
        BY <1>2, <2>1 DEF SccMaps
<1>7. TopIs(F.component, list, F.first, F.last, F.n)
    BY <1>1, SccMoves
<1> HIDE DEF F, list
<1>8. /\ SccFrame(af, g) /\ g.arguments = F.arguments /\ g.component = F.component
      /\ g.component_extension = list /\ g.first = F.first /\ g.last = F.last /\ g.n = F.n
    BY <1>2, <1>3, ChangedFrame
<1> HIDE DEF g
<1>9. Loop(routine, af, Counting, nodes, g)
    <2>1. Fresh(g)
        BY <1>3, <1>8 DEF Fresh
    <2> QED
        BY <1>2, <1>3, <1>5, <1>8, <2>1, LoopStarts
<1>10. SccStage(routine, af, Counting, nodes, pc', g, returned', n')
    BY <1>1, <1>9 DEF SccStage
<1> QED
    BY <1>1, <1>3, <1>6, <1>7, <1>10, SccSameNodes DEF F, g

LEMMA SccSolveComponent ==
    ASSUME SccBase, SccLists, UNCHANGED alg, Scc!SolveComponent, pc' # "crash"
    PROVE  SccLists'
<1> DEFINE F == frames[1]
           C == F.component
           set == Answers(routine, af, C)
<1>a. /\ pc = "component" /\ pc \in Calling /\ pc' = "loop" /\ pc' \in Calling
    BY DEF Scc!SolveComponent, Calling
<1>1. /\ af \in Framework /\ SccFrame(af, F) /\ F.arguments \in SUBSET Arg
      /\ nodes \in Seq(Nodes) /\ Acyclic(nodes)
      /\ SccMaps(routine, af, Counting, nodes, subextensions, subextension_counts)
      /\ AsPut(routine, af, subextensions, put)
      /\ SccStage(routine, af, Counting, nodes, pc, F, returned, n)
    BY <1>a, InnermostScc
<1>2. From(af, F.arguments, C) /\ Fresh(F)
    BY <1>a, <1>1 DEF SccStage
<1>3. C \in SUBSET Arg
    BY <1>1, <1>2 DEF From, Source
<1>4. Scc!ComponentExtensions(C) = set
    <2>1. Answers(routine, af, C) = PartExtensions(routine, af, C)
        BY <1>1, <1>2, SourceParts
    <2> QED
        BY <2>1, SccExtensions
<1>5. Scc!Listings(set) = Listings(set)
    BY SccOperators
<1>6. PICK list \in Listings(set) :
        /\ nodes' = nodes \o [k \in DOMAIN list |->
                      [c |-> list[k],
                       next |-> IF k = Len(list) THEN Scc!Null ELSE Len(nodes) + k + 1]]
        /\ subextensions' =
              Scc!Put(C, IF list = <<>> THEN Scc!Null ELSE Len(nodes) + 1, subextensions)
        /\ subextension_counts' =
              IF (IF alg = "count" THEN "CE" ELSE "EE") = "CE"
              THEN Scc!Put(C, Len(list), subextension_counts)
              ELSE subextension_counts
        /\ frames' = [frames EXCEPT ![1].component_extension =
                            IF list = <<>> THEN Scc!Null ELSE Len(nodes) + 1]
    <2>1. PICK exts \in {Scc!ComponentExtensions(Scc!Top.component)} :
            \E list \in Scc!Listings(exts) :
                /\ nodes' = nodes \o [k \in DOMAIN list |->
                              [c |-> list[k],
                               next |-> IF k = Len(list) THEN Scc!Null ELSE Len(nodes) + k + 1]]
                /\ subextensions' =
                      Scc!Put(Scc!Top.component,
                              IF list = <<>> THEN Scc!Null ELSE Len(nodes) + 1, subextensions)
                /\ subextension_counts' =
                      IF (IF alg = "count" THEN "CE" ELSE "EE") = "CE"
                      THEN Scc!Put(Scc!Top.component, Len(list), subextension_counts)
                      ELSE subextension_counts
                /\ frames' = [frames EXCEPT ![1].component_extension =
                                    IF list = <<>> THEN Scc!Null ELSE Len(nodes) + 1]
        BY ZenonT(30) DEF Scc!SolveComponent
    <2>2. Scc!Top.component = C
        BY DEF Scc!Top
    <2>3. exts = set /\ Scc!Listings(exts) = Listings(set)
        BY <1>4, <1>5, <2>2
    <2> HIDE DEF C, set
    <2> QED
        BY <2>1, <2>2, <2>3
<1> DEFINE p == IF list = <<>> THEN 0 ELSE Len(nodes) + 1
<1>7. /\ nodes' = NewList(nodes, list)
      /\ subextensions' = Scc!Put(C, p, subextensions)
      /\ IF Counting THEN subextension_counts' = Scc!Put(C, Len(list), subextension_counts)
                     ELSE subextension_counts' = subextension_counts
      /\ frames' = [frames EXCEPT ![1].component_extension = p]
    BY <1>6 DEF NewList, Counting, Scc!Null
<1>8. UNCHANGED <<alg, routine, af, returned, n>>
    BY DEF Scc!SolveComponent
<1>9. Listed(list, set) /\ set \in SUBSET SUBSET Arg
    <2>1. set \in SUBSET SUBSET Arg
        BY <1>1, <1>3, AnswersIn
    <2> HIDE DEF set
    <2> QED
        BY <2>1, SetsListed
<1> HIDE DEF set
<1>10. Added(nodes, list, nodes') /\ Acyclic(nodes')
    <2>1. Added(nodes, list, NewList(nodes, list))
        BY <1>1, <1>9, ListAdded
    <2>2. Acyclic(NewList(nodes, list))
        BY <1>1, <1>9, AcyclicAdded
    <2> QED
        BY <1>7, <2>1, <2>2
<1>11. /\ nodes' \in Seq(Nodes) /\ DOMAIN nodes \subseteq DOMAIN nodes'
       /\ \A x \in DOMAIN nodes : nodes'[x] = nodes[x]
    BY <1>10 DEF Added
<1>12. PICK m : HasList(nodes', p, m, set)
    <2>1. \E m : HasList(NewList(nodes, list), p, m, set)
        BY <1>1, <1>9, ListMade
    <2> QED
        BY <1>7, <2>1
<1> HIDE DEF p
<1>13. Holding(nodes', p, set) /\ p \in {0} \cup DOMAIN nodes'
    BY <1>11, <1>12, ListEnds DEF Holding
<1>14. Len(list) = Cardinality(set)
    BY <1>9, ListedSize
<1>15. /\ SccMaps(routine, af, Counting, nodes', subextensions', subextension_counts')
       /\ Counting => C \in DOMAIN subextension_counts'
    <2>1. SccMaps(routine, af, Counting, nodes', subextensions, subextension_counts)
        BY <1>1, <1>11, MapsKept
    <2>2. IF Counting
          THEN /\ Holding(nodes', p, Answers(routine, af, C))
               /\ subextension_counts' = Scc!Put(C, Cardinality(Answers(routine, af, C)),
                                                 subextension_counts)
          ELSE subextension_counts' = subextension_counts
        BY <1>7, <1>13, <1>14 DEF set
    <2> DEFINE count == Counting
    <2>3. /\ SccMaps(routine, af, count, nodes', subextensions, subextension_counts)
          /\ IF count
             THEN /\ Holding(nodes', p, Answers(routine, af, C))
                  /\ subextension_counts' = Scc!Put(C, Cardinality(Answers(routine, af, C)),
                                                    subextension_counts)
             ELSE subextension_counts' = subextension_counts
        BY <2>1, <2>2
    <2> HIDE DEF count, C
    <2>4. /\ SccMaps(routine, af, count, nodes', Scc!Put(C, p, subextensions), subextension_counts')
          /\ count => C \in DOMAIN subextension_counts'
        BY <1>13, <2>3, MapsPut
    <2> QED
        BY <1>7, <2>4 DEF count
<1>22. AsPut(routine, af, subextensions', put')
    <2>1. put' = Scc!Put(C, set, put)
        <3>1. put' = Scc!Put(C, Scc!ComponentExtensions(C), put)
            BY DEF Scc!SolveComponent, Scc!Top
        <3> QED
            BY <1>4, <3>1
    <2> HIDE DEF C
    <2>2. AsPut(routine, af, Scc!Put(C, p, subextensions), Scc!Put(C, Answers(routine, af, C), put))
        BY <1>1, AsPutKept
    <2> QED
        BY <1>7, <2>1, <2>2 DEF set
<1> DEFINE g == Changed(F, C, p, F.first, F.last, F.n)
<1>16. frames' = TopOf(frames, g)
    <2>1. 1 \in DOMAIN frames
        BY <1>a, SccTop
    <2>2. frames' = [frames EXCEPT ![1] = WithExtension(F, p)]
        BY <1>7, <2>1 DEF WithExtension
    <2> HIDE DEF F
    <2>3. WithExtension(F, p) = g
        BY <1>1, SetFields
    <2> QED
        BY <2>2, <2>3 DEF TopOf
<1>17. /\ SccFrame(af, g) /\ g.arguments = F.arguments /\ g.component = C
       /\ g.component_extension = p /\ g.first = F.first /\ g.last = F.last /\ g.n = F.n
    <2> HIDE DEF F
    <2> QED
        BY <1>1, <1>2, ChangedFrame
<1> HIDE DEF g
<1>18. Loop(routine, af, Counting, nodes', g)
    <2>1. Fresh(g)
        BY <1>2, <1>17 DEF Fresh
    <2>2. From(af, g.arguments, g.component)
        BY <1>2, <1>17
    <2>3. Holding(nodes', g.component_extension, Answers(routine, af, g.component))
        BY <1>13, <1>17 DEF set
    <2> QED
        BY <1>1, <1>17, <2>1, <2>2, <2>3, LoopStarts
<1>19. SccStage(routine, af, Counting, nodes', pc', g, returned', n')
    BY <1>a, <1>18 DEF SccStage
<1>20. Grown(nodes, nodes', frames[1].arguments)
    BY <1>11 DEF Grown
<1>21. pc' = "loop" /\ Counting /\ g.component = g.arguments =>
        g.component \in DOMAIN subextension_counts'
    BY <1>15, <1>17
<1> QED
    BY <1>a, <1>8, <1>10, <1>11, <1>15, <1>16, <1>17, <1>19, <1>20, <1>21, <1>22, SccTopStep

LEMMA SccWholeComponent ==
    ASSUME SccBase, SccLists, UNCHANGED alg, Scc!WholeComponent
    PROVE  SccLists'
<1> DEFINE F == frames[1]
           list == F.component_extension
           number == IF Counting THEN subextension_counts[F.component] ELSE n
<1>1. /\ pc = "loop" /\ pc \in Calling /\ F.component = F.arguments
      /\ Scc!Pop(list, number)
      /\ UNCHANGED <<alg, routine, af, nodes, subextensions, subextension_counts, put>>
    BY DEF Scc!WholeComponent, Calling, Scc!Top, Counting
<1>2. /\ SccStage(routine, af, Counting, nodes, pc, F, returned, n)
      /\ SccMaps(routine, af, Counting, nodes, subextensions, subextension_counts)
    BY <1>1, InnermostScc
<1>3. PICK rem : LoopOver(routine, af, Counting, nodes, F, rem)
    BY <1>1, <1>2 DEF SccStage, Loop
<1>4. Holding(nodes, list, Answers(routine, af, F.arguments))
    BY <1>1, <1>3 DEF LoopOver
<1>5. ASSUME Counting
      PROVE  number = Cardinality(Answers(routine, af, F.arguments))
    <2>1. F.component \in DOMAIN subextension_counts
        BY <1>1, <1>5 DEF SccLists
    <2> QED
        BY <1>1, <1>2, <1>5, <2>1 DEF SccMaps
<1>6. SccAnswer(Counting, nodes, list, number, Answers(routine, af, frames[1].arguments))
    BY <1>4, <1>5 DEF SccAnswer
<1>7. /\ SccMaps(routine, af, Counting, nodes, subextensions', subextension_counts')
      /\ AsPut(routine, af, subextensions', put')
    BY <1>1 DEF SccLists
<1> HIDE DEF list, number
<1> QED
    BY <1>1, <1>6, <1>7, SccPop

LEMMA SccDescend ==
    ASSUME SccBase, SccLists, UNCHANGED alg, Scc!Descend
    PROVE  SccLists'
<1> DEFINE F == frames[1]
           L == LeftBy(af, nodes, F)
           g == Scc!Frame(L)
<1>1. /\ pc = "loop" /\ pc \in Calling /\ F.component # F.arguments
      /\ F.component_extension # 0 /\ pc' = "call"
      /\ UNCHANGED <<alg, routine, af, nodes, subextensions, subextension_counts, put, returned, n>>
    BY DEF Scc!Descend, Scc!InLoop, Scc!Looping, Calling, Scc!Top, Scc!Null
<1>2. /\ SccStage(routine, af, Counting, nodes, pc, F, returned, n)
      /\ SccCalls(routine, af, Counting, nodes, frames) /\ af \in Framework
    BY <1>1, InnermostScc
<1>3. Paused(routine, af, Counting, nodes, F)
    BY <1>1, <1>2 DEF SccStage, Paused
<1>4. L # {} /\ frames' = <<g>> \o frames /\ SccFrame(af, g)
    BY BasePush DEF LeftBy
<1>5. g.arguments = L /\ Fresh(g)
    BY DEF Scc!Frame, Fresh, Scc!Null
<1> HIDE DEF L, g
<1>6. SccCalls(routine, af, Counting, nodes, frames') /\ frames'[1] = g
    <2> DEFINE count == Counting
    <2>1. /\ SccCalls(routine, af, count, nodes, frames) /\ Paused(routine, af, count, nodes, frames[1])
          /\ g.arguments = LeftBy(af, nodes, frames[1])
        BY <1>2, <1>3, <1>5 DEF L
    <2> HIDE DEF count
    <2>2. SccCalls(routine, af, count, nodes, <<g>> \o frames) /\ (<<g>> \o frames)[1] = g
        BY <1>2, <1>4, <2>1, SccCallsPushed
    <2> QED
        BY <1>4, <2>2 DEF count
<1>7. SccStage(routine, af, Counting, nodes, pc', g, returned', n')
    BY <1>1, <1>5 DEF SccStage
<1>8. Counting' = Counting
    BY <1>1 DEF Counting
<1>9. SccCalls(routine', af', Counting', nodes', frames')
      /\ SccStage(routine', af', Counting', nodes', pc', frames'[1], returned', n')
    BY <1>1, <1>6, <1>7, <1>8
<1>10. /\ SccMaps(routine', af', Counting', nodes', subextensions', subextension_counts')
       /\ AsPut(routine', af', subextensions', put')
    BY <1>1, <1>8 DEF SccLists
<1>11. nodes' \in Seq(Nodes) /\ Acyclic(nodes')
    BY <1>1 DEF SccLists
<1> QED
    BY <1>1, <1>9, <1>10, <1>11 DEF SccLists

LEMMA SccFinish ==
    ASSUME SccBase, SccLists, UNCHANGED alg, Scc!Finish
    PROVE  SccLists'
<1> DEFINE F == frames[1]
           A == F.arguments
           all == Answers(routine, af, A)
<1>1. /\ pc = "loop" /\ pc \in Calling /\ F.component_extension = 0
      /\ Scc!Pop(F.first, F.n)
      /\ subextensions' = IF Counting THEN subextensions ELSE Scc!Put(A, F.first, subextensions)
      /\ put' = IF Counting THEN put ELSE Scc!Put(A, Scc!Members(F.first), put)
      /\ UNCHANGED <<alg, routine, af, nodes, subextension_counts>>
    BY DEF Scc!Finish, Scc!Looping, Calling, Scc!Top, Scc!Null, Counting
<1>2. /\ SccStage(routine, af, Counting, nodes, pc, F, returned, n) /\ nodes \in Seq(Nodes)
      /\ SccMaps(routine, af, Counting, nodes, subextensions, subextension_counts)
      /\ AsPut(routine, af, subextensions, put) /\ Acyclic(nodes)
      /\ af \in Framework /\ A \in SUBSET Arg
    BY <1>1, InnermostScc
<1>3. From(af, A, F.component) /\ \E rem : LoopOver(routine, af, Counting, nodes, F, rem)
    BY <1>1, <1>2 DEF SccStage, Loop
<1>4. PICK rem : LoopOver(routine, af, Counting, nodes, F, rem)
    BY <1>3
<1>5. rem = {}
    <2>1. Holding(nodes, 0, rem)
        BY <1>1, <1>4 DEF LoopOver
    <2> QED
        BY <1>2, <2>1, AtEnd
<1>6. Results(routine, af, A, F.component, {}) = all
    BY <1>2, <1>3, ResultsAtEnds
<1>7. Found(Counting, nodes, F, all)
    BY <1>4, <1>5, <1>6 DEF LoopOver
<1>8. SccAnswer(Counting, nodes, F.first, F.n, Answers(routine, af, frames[1].arguments))
    BY <1>7 DEF SccAnswer, Found, Holding
<1>9. SccMaps(routine, af, Counting, nodes, subextensions', subextension_counts')
    <2>1. CASE Counting
        BY <1>1, <1>2, <2>1
    <2>2. CASE ~Counting
        <3>1. HasList(nodes, F.first, F.last, all)
            BY <1>7, <2>2 DEF Found
        <3>2. F.first \in {0} \cup DOMAIN nodes
            BY <1>2, <3>1, ListEnds
        <3>3. subextensions' = Scc!Put(A, F.first, subextensions)
              /\ subextension_counts' = subextension_counts
            BY <1>1, <2>2
        <3> DEFINE p == F.first
        <3>4. SccMaps(routine, af, FALSE, nodes, subextensions, subextension_counts)
            BY <1>2, <2>2 DEF SccMaps
        <3> HIDE DEF A, p
        <3>5. SccMaps(routine, af, FALSE, nodes, Scc!Put(A, p, subextensions), subextension_counts)
            <4>1. p \in {0} \cup DOMAIN nodes
                BY <3>2 DEF p
            <4> QED
                BY <3>4, <4>1, MapsPut
        <3> QED
            BY <2>2, <3>3, <3>5 DEF p, SccMaps
    <2> QED
        BY <2>1, <2>2
<1>11. AsPut(routine, af, subextensions', put')
    <2>1. CASE Counting
        BY <1>1, <1>2, <2>1
    <2>2. CASE ~Counting
        <3> DEFINE p == F.first
                   l == F.last
        <3>1. HasList(nodes, p, l, all)
            BY <1>7, <2>2 DEF Found
        <3>2. subextensions' = Scc!Put(A, p, subextensions) /\ put' = Scc!Put(A, Scc!Members(p), put)
            BY <1>1, <2>2
        <3> HIDE DEF A, p, l
        <3>3. Scc!Members(p) = Answers(routine, af, A)
            BY <1>2, <3>1, MembersHeld
        <3>4. AsPut(routine, af, Scc!Put(A, p, subextensions),
                    Scc!Put(A, Answers(routine, af, A), put))
            BY <1>2, AsPutKept
        <3> QED
            BY <3>2, <3>3, <3>4
    <2> QED
        BY <2>1, <2>2
<1> HIDE DEF A, F
<1>10. pc \in Calling /\ Scc!Pop(F.first, F.n) /\ UNCHANGED <<alg, routine, af, nodes>>
    BY <1>1
<1> QED
    BY <1>8, <1>9, <1>10, <1>11, SccPop

-------------------------------------------------------------------------------
(* The steps that extend the result of the innermost call.                   *)

OneMore(heap, S, new) ==
    /\ new \in Seq(Nodes) /\ Acyclic(new) /\ DOMAIN heap \subseteq DOMAIN new
    /\ Len(heap) + 1 \in DOMAIN new /\ Len(heap) + 1 \notin DOMAIN heap
    /\ new[Len(heap) + 1].c = S /\ new[Len(heap) + 1].next = 0
    /\ \A x \in DOMAIN heap : new[x] = heap[x]

LEMMA NodeAppended ==
    ASSUME NEW heap \in Seq(Nodes), Acyclic(heap), NEW S \in SUBSET Arg
    PROVE  OneMore(heap, S, Append(heap, [c |-> S, next |-> 0]))
<1> DEFINE one == [c |-> S, next |-> 0]
           new == Append(heap, one)
           node == Len(heap) + 1
<1>1. one \in Nodes /\ one.c = S /\ one.next = 0
    BY DEF Nodes
<1> HIDE DEF one
<1>2. /\ new \in Seq(Nodes) /\ DOMAIN heap = 1 .. Len(heap) /\ DOMAIN new = 1 .. node
      /\ Len(heap) \in Nat /\ new[node] = one /\ \A x \in DOMAIN heap : new[x] = heap[x]
    BY <1>1
<1> HIDE DEF new
<1>3. /\ node \in DOMAIN new /\ node \notin DOMAIN heap /\ DOMAIN heap \subseteq DOMAIN new
      /\ DOMAIN new = DOMAIN heap \cup {node}
    BY <1>2
<1>4. PICK rank : Descends(heap, rank)
    BY DEF Acyclic
<1> DEFINE more == [x \in DOMAIN new |-> IF x = node THEN 0 ELSE rank[x]]
<1>5. more \in [DOMAIN new -> Nat] /\ \A x \in DOMAIN heap : more[x] = rank[x]
    BY <1>3, <1>4 DEF Descends
<1> HIDE DEF more, node
<1>6. ASSUME NEW x \in DOMAIN new
      PROVE  /\ new[x].next = 0 \/ new[x].next \in DOMAIN new
             /\ new[x].next # 0 => more[new[x].next] < more[x]
    <2>1. CASE x = node
        BY <1>1, <1>2, <2>1 DEF node
    <2>2. CASE x # node
        <3>1. x \in DOMAIN heap /\ new[x] = heap[x]
            BY <1>2, <1>3, <2>2
        <3>2. /\ heap[x].next = 0 \/ heap[x].next \in DOMAIN heap
              /\ heap[x].next # 0 => rank[heap[x].next] < rank[x]
            BY <1>4, <3>1 DEF Descends
        <3> QED
            BY <1>3, <1>5, <3>1, <3>2
    <2> QED
        BY <2>1, <2>2
<1>7. Acyclic(new)
    BY <1>5, <1>6 DEF Acyclic, Descends
<1> QED
    BY <1>1, <1>2, <1>3, <1>7 DEF OneMore, new, one, node

(* A list that has one more set in a node of its own, or in one whose next   *)
(* pointer has been set to NULL.                                             *)
Extended(heap, p, l, set, node, S, new) ==
    /\ new \in Seq(Nodes) /\ Acyclic(new) /\ DOMAIN heap \subseteq DOMAIN new
    /\ HasList(new, IF p = 0 THEN node ELSE p, node, set \cup {S})
    /\ \A x \in DOMAIN heap : /\ new[x].c = heap[x].c
                              /\ x \notin {l, node} => new[x] = heap[x]

LEMMA UnionAppended ==
    ASSUME NEW heap \in Seq(Nodes), Acyclic(heap), NEW p, NEW l, NEW set,
           HasList(heap, p, l, set), NEW S \in SUBSET Arg, S \notin set
    PROVE  Extended(heap, p, l, set, Len(heap) + 1, S,
                    Linked(Append(heap, [c |-> S, next |-> 0]), l, Len(heap) + 1))
<1> DEFINE more == Append(heap, [c |-> S, next |-> 0])
           node == Len(heap) + 1
           new == Linked(more, l, node)
<1>1. OneMore(heap, S, more)
    BY NodeAppended
<1> HIDE DEF more, node
<1>2. /\ more \in Seq(Nodes) /\ Acyclic(more) /\ DOMAIN heap \subseteq DOMAIN more
      /\ node \in DOMAIN more /\ node \notin DOMAIN heap
      /\ more[node].c = S /\ more[node].next = 0
      /\ \A x \in DOMAIN heap : more[x] = heap[x]
    BY <1>1 DEF OneMore, node
<1>3. l \in Nat /\ (l # 0 => l \in DOMAIN heap)
    BY ListEnds
<1>4. (l # 0 => l \in DOMAIN more) /\ node # 0 /\ node # l /\ node \in Nat
    <2>1. node \in Nat /\ node # 0
        BY DEF node
    <2> QED
        BY <1>2, <1>3, <2>1
<1>5. /\ new \in Seq(Nodes) /\ DOMAIN new = DOMAIN more
      /\ \A x \in DOMAIN more : new[x].c = more[x].c /\ (x # l => new[x] = more[x])
    BY <1>2, <1>3, <1>4, LinkedHeap
<1>6. Acyclic(new)
    BY <1>2, <1>3, <1>4, AcyclicLinked
<1>7. HasList(more, p, l, set)
    BY <1>2, ListKept
<1>8. HasList(new, IF p = 0 THEN node ELSE p, node, set \cup {more[node].c})
    BY <1>2, <1>7, ListLinked
<1> HIDE DEF new
<1>9. Extended(heap, p, l, set, node, S, new)
    BY <1>2, <1>5, <1>6, <1>8 DEF Extended
<1> QED
    BY <1>9 DEF more, node, new

LEMMA NodeMoved ==
    ASSUME NEW heap \in Seq(Nodes), Acyclic(heap), NEW p, NEW l, NEW set,
           HasList(heap, p, l, set), NEW node \in DOMAIN heap, heap[node].c \notin set
    PROVE  Extended(heap, p, l, set, node, heap[node].c,
                    Linked([heap EXCEPT ![node].next = 0], l, node))
<1> DEFINE more == [heap EXCEPT ![node].next = 0]
           new == Linked(more, l, node)
           S == heap[node].c
<1>1. DOMAIN heap = 1 .. Len(heap) /\ heap[node] \in Nodes /\ node \in Nat /\ node # 0
    OBVIOUS
<1>2. more[node].c = S /\ more[node].next = 0 /\ more[node] \in Nodes
    BY <1>1 DEF Nodes
<1>3. /\ more \in Seq(Nodes) /\ DOMAIN more = DOMAIN heap
      /\ \A x \in DOMAIN heap : x # node => more[x] = heap[x]
    <2>1. [heap[node] EXCEPT !.next = 0] \in Nodes
        BY <1>1 DEF Nodes
    <2> QED
        BY <2>1
<1> HIDE DEF more, S
<1>4. l \in Nat /\ (l # 0 => l \in DOMAIN more) /\ node # l
    <2>1. l # 0 => l \in DOMAIN heap /\ heap[l].c \in set
        BY ListEnds
    <2> QED
        BY <1>1, <1>3, <2>1, ListEnds DEF S
<1>5. /\ new \in Seq(Nodes) /\ DOMAIN new = DOMAIN more
      /\ \A x \in DOMAIN more : new[x].c = more[x].c /\ (x # l => new[x] = more[x])
    BY <1>1, <1>3, <1>4, LinkedHeap
<1>6. Acyclic(more)
    BY <1>2, <1>3, AcyclicCut
<1>7. Acyclic(new)
    BY <1>2, <1>3, <1>4, <1>6, AcyclicLinked
<1>8. HasList(more, p, l, set)
    <2>1. \A x \in DOMAIN heap : heap[x].c \in set => more[x] = heap[x]
        BY <1>3
    <2> QED
        BY <1>3, <2>1, ListKept
<1>9. HasList(new, IF p = 0 THEN node ELSE p, node, set \cup {more[node].c})
    <2>1. more[node].c \notin set
        BY <1>2 DEF S
    <2> QED
        BY <1>2, <1>3, <1>8, <2>1, ListLinked
<1> HIDE DEF new
<1>10. Extended(heap, p, l, set, node, S, new)
    BY <1>2, <1>3, <1>5, <1>7, <1>9 DEF Extended, S
<1> QED
    BY <1>10 DEF more, new, S

LEMMA SccAppendUnion ==
    ASSUME SccBase, SccLists, UNCHANGED alg, Scc!AppendUnion
    PROVE  SccLists'
<1> DEFINE F == frames[1]
           A == F.arguments
           C == F.component
           p == F.component_extension
           E == nodes[p].c
           T == nodes[returned].c
           node == Len(nodes) + 1
           first == IF F.first = 0 THEN node ELSE F.first
           g == Changed(F, C, p, first, node, F.n)
<1>1. /\ pc = "append" /\ pc \in Calling /\ pc' = pc /\ ~Counting /\ returned # 0
      /\ returned' = nodes[returned].next
      /\ nodes' = Linked(Append(nodes, [c |-> E \cup T, next |-> 0]), F.last, node)
      /\ UNCHANGED <<alg, routine, af, subextensions, subextension_counts, put>>
    BY DEF Scc!AppendUnion, Scc!LinkLast, Calling, Scc!Top, Scc!Null, Counting, Linked
<1>2. TopIs(C, p, first, node, F.n)
    BY <1>1, SccMoves
<1>3. /\ af \in Framework /\ SccFrame(af, F) /\ A \in SUBSET Arg
      /\ nodes \in Seq(Nodes) /\ Acyclic(nodes)
      /\ SccMaps(routine, af, Counting, nodes, subextensions, subextension_counts)
      /\ SccStage(routine, af, Counting, nodes, pc, F, returned, n)
    BY <1>1, InnermostScc
<1> HIDE DEF A, C, p, node, first
<1>4. Appending(routine, af, nodes, F, returned)
    BY <1>1, <1>3 DEF SccStage
<1>5. /\ From(af, A, C) /\ C # A /\ p # 0 /\ LeftBy(af, nodes, F) = Left(af, A, C, E)
      /\ Left(af, A, C, E) # {}
    BY <1>4 DEF Appending, LeftBy, A, C, p
<1>6. PICK rem, rest : Uniting(routine, af, nodes, F, returned, rem, rest)
    BY <1>4 DEF Appending
<1> DEFINE set == Partial(routine, af, A, C, rem, E, rest)
<1>7. /\ rem \in SUBSET Answers(routine, af, C) /\ rest \in SUBSET Answers(routine, af, Left(af, A, C, E))
      /\ Holding(nodes, p, rem) /\ Holding(nodes, returned, rest)
      /\ HasList(nodes, F.first, F.last, set)
    BY <1>5, <1>6 DEF Uniting, A, C, p
<1>8. p \in DOMAIN nodes /\ E \in rem
    BY <1>3, <1>5, <1>7, Current
<1>9. T \in rest /\ Holding(nodes, returned', rest \ {T})
    BY <1>1, <1>3, <1>7, Current
<1>10. OneUnion(routine, af, A, C, rem, E, rest, T)
    <2> HIDE DEF E, T
    <2> QED
        BY <1>3, <1>5, <1>7, <1>8, <1>9, PartialOfOne
<1>11. /\ E \cup T \in SUBSET Arg /\ E \cup T \notin set
       /\ Partial(routine, af, A, C, rem, E, rest \ {T}) = set \cup {E \cup T}
    BY <1>3, <1>10 DEF OneUnion
<1>12. \A S \in set : S \notin rem /\ S \notin rest /\ S \subseteq A
    <2>1. \A S \in set : S \notin rem /\ S \notin rest
        <3> HIDE DEF E
        <3> QED
            BY <1>3, <1>5, <1>7, <1>8, NeverTwice
    <2>2. \A S \in Answers(routine, af, A) : S \subseteq A
        BY <1>3, AnswersIn
    <2> QED
        BY <2>1, <2>2 DEF Partial
<1> HIDE DEF E, T
<1>13. Extended(nodes, F.first, F.last, set, node, E \cup T, nodes')
    <2> DEFINE S == E \cup T
               h == F.first
               l == F.last
    <2>1. S \in SUBSET Arg /\ S \notin set /\ HasList(nodes, h, l, set)
        BY <1>7, <1>11
    <2>2. nodes' = Linked(Append(nodes, [c |-> S, next |-> 0]), l, Len(nodes) + 1)
        BY <1>1 DEF node
    <2> HIDE DEF S, h, l, set
    <2>3. Extended(nodes, h, l, set, Len(nodes) + 1, S,
                   Linked(Append(nodes, [c |-> S, next |-> 0]), l, Len(nodes) + 1))
        BY <1>3, <2>1, UnionAppended
    <2> QED
        BY <2>2, <2>3 DEF S, h, l, node
<1>14. /\ nodes' \in Seq(Nodes) /\ Acyclic(nodes') /\ DOMAIN nodes \subseteq DOMAIN nodes'
       /\ HasList(nodes', first, node, set \cup {E \cup T})
       /\ \A x \in DOMAIN nodes : /\ nodes'[x].c = nodes[x].c
                                  /\ x \notin {F.last, node} => nodes'[x] = nodes[x]
    BY <1>13 DEF Extended, first
<1>15. \A x \in DOMAIN nodes : x \in {F.last, node} => nodes[x].c \in set
    <2>1. node \notin DOMAIN nodes
        <3>1. DOMAIN nodes = 1 .. Len(nodes) /\ Len(nodes) \in Nat
            BY <1>3
        <3> QED
            BY <3>1 DEF node
    <2>2. F.last # 0 => nodes[F.last].c \in set
        BY <1>3, <1>7, ListEnds
    <2>3. 0 \notin DOMAIN nodes
        BY <1>3
    <2> QED
        BY <2>1, <2>2, <2>3
<1> HIDE DEF set
<1>16. Holding(nodes', p, rem) /\ Holding(nodes', returned', rest \ {T})
    <2>1. \A x \in DOMAIN nodes : nodes[x].c \in rem => nodes'[x] = nodes[x]
        BY <1>12, <1>14, <1>15
    <2>2. \A x \in DOMAIN nodes : nodes[x].c \in rest \ {T} => nodes'[x] = nodes[x]
        BY <1>12, <1>14, <1>15
    <2> QED
        BY <1>7, <1>9, <1>14, <2>1, <2>2, HoldingKept
<1>17. Grown(nodes, nodes', frames[1].arguments)
    BY <1>12, <1>14, <1>15 DEF Grown, A
<1>18. /\ SccFrame(af, g) /\ g.arguments = A /\ g.component = C
       /\ g.component_extension = p /\ g.first = first /\ g.last = node
    <2>1. C # {} => From(af, F.arguments, C)
        BY <1>5 DEF A
    <2> HIDE DEF F
    <2> QED
        BY <1>3, <2>1, ChangedFrame DEF A
<1>19. frames' = TopOf(frames, g)
    BY <1>2 DEF TopIs
<1> HIDE DEF g
<1>20. LeftBy(af, nodes', g) = Left(af, A, C, E) /\ nodes'[p].c = E
    BY <1>8, <1>14, <1>18 DEF LeftBy, E
<1>21. Appending(routine, af, nodes', g, returned')
    <2>1. Uniting(routine, af, nodes', g, returned', rem, rest \ {T})
        <3>1. HasList(nodes', g.first, g.last, Partial(routine, af, A, C, rem, E, rest \ {T}))
            BY <1>11, <1>14, <1>18
        <3>2. rest \ {T} \in SUBSET Answers(routine, af, Left(af, A, C, E))
            BY <1>7
        <3> QED
            BY <1>7, <1>16, <1>18, <1>20, <3>1, <3>2 DEF Uniting
    <2> QED
        BY <1>5, <1>18, <1>20, <2>1 DEF Appending
<1>22. SccStage(routine, af, Counting, nodes', pc', g, returned', n')
    BY <1>1, <1>21 DEF SccStage
<1>23. /\ SccMaps(routine, af, Counting, nodes', subextensions', subextension_counts')
       /\ AsPut(routine, af, subextensions', put')
    <2>1. SccMaps(routine, af, FALSE, nodes, subextensions, subextension_counts)
        BY <1>1, <1>3 DEF SccMaps
    <2>2. SccMaps(routine, af, FALSE, nodes', subextensions, subextension_counts)
        BY <1>14, <2>1, MapsKept
    <2>3. AsPut(routine, af, subextensions, put)
        BY DEF SccLists
    <2> QED
        BY <1>1, <2>2, <2>3 DEF SccMaps
<1>24. /\ pc' \in Calling /\ pc' # "loop" /\ g.arguments = frames[1].arguments
    BY <1>1, <1>18 DEF A
<1> QED
    BY <1>1, <1>14, <1>17, <1>18, <1>19, <1>22, <1>23, <1>24, SccTopStep

(* The loop goes on with one extension less to come.                         *)
LEMMA LoopGoesOn ==
    ASSUME NEW r, NEW att, NEW count, NEW heap, NEW f, From(att, f.arguments, f.component),
           f.component # f.arguments, NEW rem, rem \in SUBSET Answers(r, att, f.component),
           Holding(heap, f.component_extension, rem),
           Found(count, heap, f, Results(r, att, f.arguments, f.component, rem))
    PROVE  Loop(r, att, count, heap, f)
<1>1. LoopOver(r, att, count, heap, f, rem)
    BY DEF LoopOver
<1> QED
    BY <1>1 DEF Loop

LEMMA SccAppended ==
    ASSUME SccBase, SccLists, UNCHANGED alg, Scc!Appended
    PROVE  SccLists'
<1> DEFINE F == frames[1]
           A == F.arguments
           C == F.component
           p == F.component_extension
           E == nodes[p].c
           next == nodes[p].next
           g == Changed(F, C, next, F.first, F.last, F.n)
<1>1. /\ pc = "append" /\ pc \in Calling /\ pc' = "loop" /\ pc' \in Calling
      /\ ~Counting /\ returned = 0
      /\ UNCHANGED <<alg, routine, af, nodes, subextensions, subextension_counts, put>>
    BY DEF Scc!Appended, Calling, Scc!Null, Counting
<1>2. TopIs(C, next, F.first, F.last, F.n)
    BY <1>1, SccMoves
<1>3. /\ af \in Framework /\ SccFrame(af, F) /\ A \in SUBSET Arg /\ nodes \in Seq(Nodes)
      /\ SccStage(routine, af, Counting, nodes, pc, F, returned, n)
    BY <1>1, InnermostScc
<1> HIDE DEF A, C, p
<1>4. Appending(routine, af, nodes, F, returned)
    BY <1>1, <1>3 DEF SccStage
<1>5. From(af, A, C) /\ C # A /\ p # 0 /\ LeftBy(af, nodes, F) = Left(af, A, C, E)
    BY <1>4 DEF Appending, LeftBy, A, C, p
<1>6. PICK rem, rest : Uniting(routine, af, nodes, F, returned, rem, rest)
    BY <1>4 DEF Appending
<1>7. /\ rem \in SUBSET Answers(routine, af, C)
      /\ Holding(nodes, p, rem) /\ Holding(nodes, 0, rest)
      /\ HasList(nodes, F.first, F.last, Partial(routine, af, A, C, rem, E, rest))
    BY <1>1, <1>6 DEF Uniting, A, C, p
<1>8. rest = {}
    BY <1>3, <1>7, AtEnd
<1>9. E \in rem /\ Holding(nodes, next, rem \ {E})
    BY <1>3, <1>5, <1>7, Current
<1> HIDE DEF E, next
<1>10. OneExtension(routine, af, A, C, rem, E, Left(af, A, C, E))
    BY <1>3, <1>5, <1>7, <1>9, ResultsOfOne
<1>11. HasList(nodes, F.first, F.last, Results(routine, af, A, C, rem \ {E}))
    BY <1>7, <1>8, <1>10 DEF OneExtension
<1>12. /\ g.arguments = A /\ g.component = C
       /\ g.component_extension = next /\ g.first = F.first /\ g.last = F.last
    BY DEF Changed, A
<1> HIDE DEF g
<1>13. Found(Counting, nodes, g, Results(routine, af, A, C, rem \ {E}))
    BY <1>1, <1>11, <1>12 DEF Found
<1>14. Loop(routine, af, Counting, nodes, g)
    <2> DEFINE less == rem \ {E}
               count == Counting
    <2>1. /\ From(af, g.arguments, g.component) /\ g.component # g.arguments
          /\ less \in SUBSET Answers(routine, af, g.component)
          /\ Holding(nodes, g.component_extension, less)
          /\ Found(count, nodes, g, Results(routine, af, g.arguments, g.component, less))
        BY <1>5, <1>7, <1>9, <1>12, <1>13
    <2> HIDE DEF less, count
    <2>2. Loop(routine, af, count, nodes, g)
        BY <2>1, LoopGoesOn
    <2> QED
        BY <2>2 DEF count
<1>15. SccStage(routine, af, Counting, nodes, pc', g, returned', n')
    BY <1>1, <1>14 DEF SccStage
<1> HIDE DEF F
<1>16. C # {} => From(af, frames[1].arguments, C)
    BY <1>5 DEF A, F
<1>17. TopIs(C, next, frames[1].first, frames[1].last, frames[1].n)
    BY <1>2 DEF F
<1>18. SccStage(routine, af, Counting, nodes, pc',
                Changed(frames[1], C, next, frames[1].first, frames[1].last, frames[1].n),
                returned', n')
    BY <1>15 DEF g, F
<1>19. ~Counting
    BY <1>1
<1> QED
    BY <1>1, <1>16, <1>17, <1>18, <1>19, SccSameNodes

(* One extension of the component has been counted.                          *)
LEMMA SccCounted ==
    ASSUME SccBase, SccLists, Counting, pc \in Calling, pc' = "loop",
           UNCHANGED <<alg, routine, af, nodes, subextensions, subextension_counts, put>>,
           Paused(routine, af, Counting, nodes, frames[1]), NEW number,
           number = Cardinality(Answers(routine, af, LeftBy(af, nodes, frames[1]))),
           TopIs(frames[1].component, nodes[frames[1].component_extension].next,
                 frames[1].first, frames[1].last, frames[1].n + number)
    PROVE  SccLists'
<1> DEFINE F == frames[1]
           A == F.arguments
           C == F.component
           p == F.component_extension
           E == nodes[p].c
           next == nodes[p].next
           total == F.n + number
           g == Changed(F, C, next, F.first, F.last, total)
<1>1. af \in Framework /\ SccFrame(af, F) /\ A \in SUBSET Arg /\ nodes \in Seq(Nodes)
    BY InnermostScc
<1>2. /\ From(af, A, C) /\ C # A /\ p # 0 /\ \E rem : LoopOver(routine, af, Counting, nodes, F, rem)
      /\ LeftBy(af, nodes, F) = Left(af, A, C, E)
    BY DEF Paused, Loop, LeftBy
<1>3. PICK rem : LoopOver(routine, af, Counting, nodes, F, rem)
    BY <1>2
<1>4. /\ rem \in SUBSET Answers(routine, af, C) /\ Holding(nodes, p, rem)
      /\ F.n = Cardinality(Results(routine, af, A, C, rem))
    BY <1>3 DEF LoopOver, Found
<1>5. E \in rem /\ Holding(nodes, next, rem \ {E})
    <2> HIDE DEF p
    <2> QED
        BY <1>1, <1>2, <1>4, Current
<1>6. total = Cardinality(Results(routine, af, A, C, rem \ {E}))
    <2>1. number = Cardinality(Answers(routine, af, Left(af, A, C, E)))
        BY <1>2
    <2>2. Cardinality(Results(routine, af, A, C, rem \ {E}))
            = Cardinality(Results(routine, af, A, C, rem)) + Cardinality(Answers(routine, af, Left(af, A, C, E)))
        <3> HIDE DEF A, C, E
        <3> QED
            BY <1>1, <1>2, <1>4, <1>5, ResultsCounted
    <2> QED
        BY <1>4, <2>1, <2>2
<1> HIDE DEF A, C, p, E, next, total
<1>7. g.arguments = A /\ g.component = C /\ g.component_extension = next /\ g.n = total
    BY DEF Changed, A
<1> HIDE DEF g
<1>8. Found(Counting, nodes, g, Results(routine, af, A, C, rem \ {E}))
    BY <1>6, <1>7 DEF Found
<1>9. Loop(routine, af, Counting, nodes, g)
    <2> DEFINE less == rem \ {E}
               count == Counting
    <2>1. /\ From(af, g.arguments, g.component) /\ g.component # g.arguments
          /\ less \in SUBSET Answers(routine, af, g.component)
          /\ Holding(nodes, g.component_extension, less)
          /\ Found(count, nodes, g, Results(routine, af, g.arguments, g.component, less))
        BY <1>2, <1>4, <1>5, <1>7, <1>8
    <2> HIDE DEF less, count
    <2>2. Loop(routine, af, count, nodes, g)
        BY <2>1, LoopGoesOn
    <2> QED
        BY <2>2 DEF count
<1>10. SccStage(routine, af, Counting, nodes, pc', g, returned', n')
    BY <1>9 DEF SccStage
<1> HIDE DEF F
<1>11. C # {} => From(af, frames[1].arguments, C)
    BY <1>2 DEF A, F
<1>12. TopIs(C, next, frames[1].first, frames[1].last, total)
    BY DEF C, next, p, total, F
<1>13. SccStage(routine, af, Counting, nodes, pc',
                Changed(frames[1], C, next, frames[1].first, frames[1].last, total),
                returned', n')
    BY <1>10 DEF g, F
<1>14. C # frames[1].arguments /\ pc' \in Calling
    BY <1>2 DEF A, F, Calling
<1> QED
    BY <1>11, <1>12, <1>13, <1>14, SccSameNodes

LEMMA SccCountResidual ==
    ASSUME SccBase, SccLists, UNCHANGED alg, Scc!CountResidual
    PROVE  SccLists'
<1>1. /\ pc = "append" /\ pc \in Calling /\ pc' = "loop" /\ Counting
      /\ UNCHANGED <<alg, routine, af, nodes, subextensions, subextension_counts, put>>
    BY DEF Scc!CountResidual, Calling, Counting
<1>2. SccStage(routine, af, Counting, nodes, pc, frames[1], returned, n)
    BY <1>1, InnermostScc
<1>3. /\ Paused(routine, af, Counting, nodes, frames[1])
      /\ n = Cardinality(Answers(routine, af, LeftBy(af, nodes, frames[1])))
    BY <1>1, <1>2 DEF SccStage
<1>4. TopIs(frames[1].component, nodes[frames[1].component_extension].next,
            frames[1].first, frames[1].last, frames[1].n + n)
    BY <1>1, SccMoves
<1> QED
    BY <1>1, <1>3, <1>4, SccCounted

LEMMA NothingLeft ==
    ASSUME SccBase, SccLists, Scc!InLoop, Scc!ResidualArguments(Scc!Top) = {}
    PROVE  /\ pc = "loop" /\ pc \in Calling /\ LeftBy(af, nodes, frames[1]) = {}
           /\ Paused(routine, af, Counting, nodes, frames[1])
<1>1. /\ pc = "loop" /\ pc \in Calling /\ Scc!Top = frames[1]
      /\ frames[1].component # frames[1].arguments /\ frames[1].component_extension # 0
    BY DEF Scc!InLoop, Scc!Looping, Calling, Scc!Null, Scc!Top
<1>2. SccStage(routine, af, Counting, nodes, pc, frames[1], returned, n)
    BY <1>1, InnermostScc
<1>3. Paused(routine, af, Counting, nodes, frames[1])
    BY <1>1, <1>2 DEF SccStage, Paused
<1>4. LeftBy(af, nodes, frames[1]) = {}
    BY <1>1, SccOperators DEF Scc!ResidualArguments, LeftBy, Left
<1> QED
    BY <1>1, <1>3, <1>4

LEMMA SccCountOne ==
    ASSUME SccBase, SccLists, UNCHANGED alg, Scc!CountOne
    PROVE  SccLists'
<1>1. /\ Counting /\ pc' = pc
      /\ UNCHANGED <<alg, routine, af, nodes, subextensions, subextension_counts, put>>
    BY DEF Scc!CountOne, Counting
<1>2. Scc!InLoop /\ Scc!ResidualArguments(Scc!Top) = {}
    BY DEF Scc!CountOne
<1>3. /\ pc = "loop" /\ pc \in Calling /\ LeftBy(af, nodes, frames[1]) = {}
      /\ Paused(routine, af, Counting, nodes, frames[1])
    BY <1>2, NothingLeft
<1>4. Cardinality(Answers(routine, af, LeftBy(af, nodes, frames[1]))) = 1
    <2>1. Answers(routine, af, {}) = {{}}
        <3>1. af \in Framework
            BY <1>3, InnermostScc
        <3> QED
            BY <3>1, AnswersIn
    <2>2. Cardinality({{}}) = 1
        BY FS_Singleton
    <2> QED
        BY <1>3, <2>1, <2>2
<1>5. TopIs(frames[1].component, nodes[frames[1].component_extension].next,
            frames[1].first, frames[1].last, frames[1].n + 1)
    BY <1>3, SccMoves
<1>6. pc' = "loop"
    BY <1>1, <1>3
<1> QED
    BY <1>1, <1>3, <1>4, <1>5, <1>6, SccCounted

LEMMA SccRelink ==
    ASSUME SccBase, SccLists, UNCHANGED alg, Scc!Relink
    PROVE  SccLists'
<1> DEFINE F == frames[1]
           A == F.arguments
           C == F.component
           p == F.component_extension
           E == nodes[p].c
           next == nodes[p].next
           first == IF F.first = 0 THEN p ELSE F.first
           g == Changed(F, C, next, first, p, F.n)
<1>1. /\ ~Counting /\ pc' = pc
      /\ nodes' = Linked([nodes EXCEPT ![p].next = 0], F.last, p)
      /\ UNCHANGED <<alg, routine, af, subextensions, subextension_counts, put>>
    BY DEF Scc!Relink, Scc!LinkLast, Counting, Scc!Top, Scc!Null, Linked
<1>2. Scc!InLoop /\ Scc!ResidualArguments(Scc!Top) = {}
    BY DEF Scc!Relink
<1>3. /\ pc = "loop" /\ pc \in Calling /\ LeftBy(af, nodes, F) = {}
      /\ Paused(routine, af, Counting, nodes, F)
    BY <1>2, NothingLeft
<1>4. TopIs(C, next, first, p, F.n)
    BY <1>3, SccMoves
<1>5. /\ af \in Framework /\ SccFrame(af, F) /\ A \in SUBSET Arg
      /\ nodes \in Seq(Nodes) /\ Acyclic(nodes)
      /\ SccMaps(routine, af, Counting, nodes, subextensions, subextension_counts)
    BY <1>3, InnermostScc
<1>6. /\ From(af, A, C) /\ C # A /\ p # 0 /\ Left(af, A, C, E) = {}
      /\ \E rem : LoopOver(routine, af, Counting, nodes, F, rem)
    BY <1>3 DEF Paused, Loop, LeftBy
<1>7. PICK rem : LoopOver(routine, af, Counting, nodes, F, rem)
    BY <1>6
<1> HIDE DEF p
<1> DEFINE set == Results(routine, af, A, C, rem)
<1>8. /\ rem \in SUBSET Answers(routine, af, C) /\ Holding(nodes, p, rem)
      /\ HasList(nodes, F.first, F.last, set)
    BY <1>1, <1>7 DEF LoopOver, Found, p
<1>9. p \in DOMAIN nodes /\ E \in rem /\ Holding(nodes, next, rem \ {E})
    BY <1>5, <1>6, <1>8, Current
<1> HIDE DEF A, C, first
<1>10. OneExtension(routine, af, A, C, rem, E, Left(af, A, C, E))
    <2> HIDE DEF E
    <2> QED
        BY <1>5, <1>6, <1>8, <1>9, ResultsOfOne
<1>11. Results(routine, af, A, C, rem \ {E}) = set \cup {E} /\ E \notin set
    BY <1>6, <1>10 DEF OneExtension
<1>12. \A S \in set : S \notin rem /\ S \subseteq A
    <2>1. \A S \in set : S \notin rem
        BY <1>5, <1>6, <1>8, NeverTwice
    <2>2. \A S \in Answers(routine, af, A) : S \subseteq A
        BY <1>5, AnswersIn
    <2> QED
        BY <2>1, <2>2 DEF Results
<1>13. C \subseteq A /\ E \subseteq A
    <2>1. C \in SUBSET A /\ C \in SUBSET Arg
        BY <1>5, <1>6 DEF From, Source
    <2>2. \A S \in Answers(routine, af, C) : S \subseteq C
        BY <1>5, <2>1, AnswersIn
    <2> QED
        BY <1>8, <1>9, <2>1, <2>2
<1>14. Extended(nodes, F.first, F.last, set, p, E, nodes')
    <2> DEFINE h == F.first
               l == F.last
    <2>1. HasList(nodes, h, l, set) /\ p \in DOMAIN nodes /\ nodes[p].c \notin set
        BY <1>8, <1>9, <1>11
    <2>2. nodes' = Linked([nodes EXCEPT ![p].next = 0], l, p)
        BY <1>1 DEF p
    <2> HIDE DEF h, l, set
    <2>3. Extended(nodes, h, l, set, p, nodes[p].c, Linked([nodes EXCEPT ![p].next = 0], l, p))
        BY <1>5, <2>1, NodeMoved
    <2> QED
        BY <2>2, <2>3 DEF h, l
<1> HIDE DEF E, next
<1>15. /\ nodes' \in Seq(Nodes) /\ Acyclic(nodes') /\ DOMAIN nodes \subseteq DOMAIN nodes'
       /\ HasList(nodes', first, p, set \cup {E})
       /\ \A x \in DOMAIN nodes : /\ nodes'[x].c = nodes[x].c
                                  /\ x \notin {F.last, p} => nodes'[x] = nodes[x]
    BY <1>14 DEF Extended, first
<1>16. \A x \in DOMAIN nodes : x \in {F.last, p} => nodes[x].c \in set \cup {E}
    <2>1. F.last # 0 => nodes[F.last].c \in set
        BY <1>5, <1>8, ListEnds
    <2>2. 0 \notin DOMAIN nodes
        BY <1>5
    <2> QED
        BY <2>1, <2>2 DEF E
<1> HIDE DEF set
<1>17. Holding(nodes', next, rem \ {E})
    <2>1. \A x \in DOMAIN nodes : nodes[x].c \in rem \ {E} => nodes'[x] = nodes[x]
        BY <1>12, <1>15, <1>16
    <2> QED
        BY <1>9, <1>15, <2>1, HoldingKept
<1>18. Grown(nodes, nodes', frames[1].arguments)
    BY <1>12, <1>13, <1>15, <1>16 DEF Grown, A
<1>19. /\ SccFrame(af, g) /\ g.arguments = A /\ g.component = C
       /\ g.component_extension = next /\ g.first = first /\ g.last = p
    <2>1. C # {} => From(af, F.arguments, C)
        BY <1>6 DEF A
    <2> HIDE DEF F
    <2> QED
        BY <1>5, <2>1, ChangedFrame DEF A
<1>20. frames' = TopOf(frames, g)
    BY <1>4 DEF TopIs
<1> HIDE DEF g
<1>21. Found(Counting, nodes', g, Results(routine, af, A, C, rem \ {E}))
    BY <1>1, <1>11, <1>15, <1>19 DEF Found, set
<1>22. Loop(routine, af, Counting, nodes', g)
    <2> DEFINE less == rem \ {E}
               count == Counting
    <2>1. /\ From(af, g.arguments, g.component) /\ g.component # g.arguments
          /\ less \in SUBSET Answers(routine, af, g.component)
          /\ Holding(nodes', g.component_extension, less)
          /\ Found(count, nodes', g, Results(routine, af, g.arguments, g.component, less))
        BY <1>6, <1>8, <1>17, <1>19, <1>21
    <2> HIDE DEF less, count
    <2>2. Loop(routine, af, count, nodes', g)
        BY <2>1, LoopGoesOn
    <2> QED
        BY <2>2 DEF count
<1>23. SccStage(routine, af, Counting, nodes', pc', g, returned', n')
    BY <1>1, <1>3, <1>22 DEF SccStage
<1>24. /\ SccMaps(routine, af, Counting, nodes', subextensions', subextension_counts')
       /\ AsPut(routine, af, subextensions', put')
    <2>1. SccMaps(routine, af, FALSE, nodes, subextensions, subextension_counts)
        BY <1>1, <1>5 DEF SccMaps
    <2>2. SccMaps(routine, af, FALSE, nodes', subextensions, subextension_counts)
        BY <1>15, <2>1, MapsKept
    <2>3. AsPut(routine, af, subextensions, put)
        BY DEF SccLists
    <2> QED
        BY <1>1, <2>2, <2>3 DEF SccMaps
<1>25. /\ pc' \in Calling /\ ~Counting /\ g.arguments = frames[1].arguments
    BY <1>1, <1>3, <1>19 DEF A
<1> QED
    BY <1>1, <1>3, <1>15, <1>18, <1>19, <1>20, <1>23, <1>24, <1>25, SccTopStep

-------------------------------------------------------------------------------
(* The whole of EE-ST and CE-ST by strongly connected components.            *)

LEMMA SccInit ==
    ASSUME Scc!Init
    PROVE  SccLists
<1> DEFINE f == Scc!Frame(Arg)
<1>1. /\ nodes = <<>> /\ subextensions = <<>> /\ subextension_counts = <<>> /\ pc = "call"
    BY DEF Scc!Init, Scc!Null
<1>2. /\ SccBase /\ frames = <<f>> /\ SccFrame(af, f)
      /\ Len(frames) = 1 /\ frames[1] = f /\ DOMAIN frames = {1}
    BY BaseInit
<1>3. f.arguments = Arg /\ Fresh(f)
    BY DEF Scc!Frame, Fresh, Scc!Null
<1> HIDE DEF f
<1>4. nodes \in Seq(Nodes) /\ DOMAIN nodes = {}
    BY <1>1
<1>5. Acyclic(nodes)
    <2> DEFINE rank == [x \in DOMAIN nodes |-> 0]
    <2>1. Descends(nodes, rank)
        BY <1>4 DEF Descends
    <2> QED
        BY <2>1 DEF Acyclic
<1>6. SccMaps(routine, af, Counting, nodes, subextensions, subextension_counts)
    <2>1. DOMAIN subextensions = {} /\ DOMAIN subextension_counts = {}
        BY <1>1
    <2> QED
        BY <2>1 DEF SccMaps
<1>9. AsPut(routine, af, subextensions, put)
    BY <1>1 DEF AsPut
<1>7. SccCalls(routine, af, Counting, nodes, frames)
    <2>1. SccFrames(af, frames) /\ frames # <<>>
        BY <1>1, <1>2 DEF SccBase, Calling
    <2> QED
        BY <1>2, <1>3, <2>1 DEF SccCalls
<1>8. SccStage(routine, af, Counting, nodes, pc, frames[1], returned, n)
    BY <1>1, <1>2, <1>3 DEF SccStage
<1> QED
    BY <1>1, <1>4, <1>5, <1>6, <1>7, <1>8, <1>9 DEF SccLists

LEMMA SccStep ==
    ASSUME SccBase, SccLists, UNCHANGED alg, Scc!Next, pc' # "crash", Counting \/ ~stale'
    PROVE  SccLists'
<1>1. ASSUME Scc!Stopped
      PROVE  SccLists'
    BY <1>1 DEF Scc!Stopped, Scc!vars, SccLists, Counting
<1>2. ASSUME Scc!CallHit
      PROVE  SccLists'
    <2>1. ~stale'
        BY <1>2 DEF Scc!CallHit, Counting
    <2> QED
        BY <1>2, <2>1, SccCallHit
<1> QED
    BY <1>1, <1>2, SccCountHit, SccFindComponent, SccUseComponent, SccSolveComponent,
       SccWholeComponent, SccDescend, SccAppendUnion, SccAppended, SccCountResidual,
       SccRelink, SccCountOne, SccFinish DEF Scc!Next

LEMMA ListedMore ==
    ASSUME NEW list, NEW set, Listed(list, set), NEW S, S \notin set
    PROVE  Listed(Append(list, S), set \cup {S})
<1> DEFINE more == Append(list, S)
           whole == set \cup {S}
<1>1. list \in Seq(set) /\ Members(list) = set /\ Once(list)
    BY DEF Listed
<1>2. /\ more \in Seq(whole) /\ Len(list) \in Nat /\ DOMAIN list = 1 .. Len(list)
      /\ DOMAIN more = 1 .. Len(list) + 1 /\ more[Len(list) + 1] = S
      /\ \A x \in DOMAIN list : more[x] = list[x] /\ list[x] \in set
    <2>1. list \in Seq(whole)
        BY <1>1
    <2> QED
        BY <1>1, <2>1
<1> HIDE DEF more
<1>3. DOMAIN more = DOMAIN list \cup {Len(list) + 1}
    BY <1>2
<1>4. Members(more) = whole
    BY <1>1, <1>2, <1>3 DEF Members
<1>5. Once(more)
    BY <1>1, <1>2, <1>3 DEF Once
<1> QED
    BY <1>2, <1>4, <1>5 DEF Listed, more

(* What is still to be printed, and what has been.                           *)
ToPrint(heap, p, out, set) ==
    \E rest \in SUBSET set : Holding(heap, p, rest) /\ Listed(out, set \ rest)

LEMMA PrintStart ==
    ASSUME NEW heap, NEW p, NEW set, Holding(heap, p, set)
    PROVE  ToPrint(heap, p, <<>>, set)
<1>1. set \ set = {}
    OBVIOUS
<1>2. Listed(<<>>, {})
    BY DEF Listed, Members, Once
<1> QED
    BY <1>1, <1>2 DEF ToPrint

LEMMA PrintStep ==
    ASSUME NEW heap \in Seq(Nodes), NEW p, p # 0, NEW out, NEW set, ToPrint(heap, p, out, set)
    PROVE  ToPrint(heap, heap[p].next, Append(out, heap[p].c), set)
<1> DEFINE S == heap[p].c
<1>1. PICK rest \in SUBSET set : Holding(heap, p, rest) /\ Listed(out, set \ rest)
    BY DEF ToPrint
<1>2. S \in rest /\ Holding(heap, heap[p].next, rest \ {S})
    BY <1>1, Current
<1> HIDE DEF S
<1>3. S \notin set \ rest
    BY <1>2
<1>4. Listed(Append(out, S), (set \ rest) \cup {S})
    BY <1>1, <1>3, ListedMore
<1>5. (set \ rest) \cup {S} = set \ (rest \ {S})
    BY <1>2
<1>6. Listed(Append(out, S), set \ (rest \ {S}))
    BY <1>4, <1>5
<1>7. rest \ {S} \in SUBSET set
    OBVIOUS
<1> QED
    BY <1>2, <1>6, <1>7 DEF ToPrint, S

LEMMA PrintEnd ==
    ASSUME NEW heap \in Seq(Nodes), NEW out, NEW set, ToPrint(heap, 0, out, set)
    PROVE  ListsOf(out, set)
<1>1. PICK rest \in SUBSET set : Holding(heap, 0, rest) /\ Listed(out, set \ rest)
    BY DEF ToPrint
<1>2. rest = {}
    BY <1>1, AtEnd
<1>3. set \ rest = set
    BY <1>2
<1>4. Listed(out, set)
    BY <1>1, <1>3
<1>5. Len(out) = Cardinality(set)
    BY <1>4, ListedSize
<1>6. Members(out) = set
    BY <1>4 DEF Listed
<1> QED
    BY <1>5, <1>6 DEF ListsOf, Members

(* A list that was not as put when it was read, and a crash, are the two     *)
(* ways in which the routine may go wrong.                                   *)
SccRight == (Counting \/ ~stale) /\ pc # "crash"

SccInv ==
    /\ SccBase
    /\ pc \notin {"print", "exit"} => printed = <<>>
    /\ Counting => routine = "norris"
    /\ SccRight =>
        /\ SccLists
        /\ pc = "print" =>
            IF Counting THEN n = Cardinality(Answers(routine, af, Arg))
                        ELSE ToPrint(nodes, returned, printed, Answers(routine, af, Arg))
        /\ pc = "exit" =>
            IF Counting THEN printed = <<Cardinality(Answers(routine, af, Arg))>>
                        ELSE ListsOf(printed, Answers(routine, af, Arg))

LEMMA SccRecurse ==
    ASSUME SccInv, Scc!Next, UNCHANGED <<alg, printed>>
    PROVE  SccInv'
<1>1. SccBase /\ SccBase'
    BY BaseStep DEF SccInv
<1>a. routine' = routine /\ Counting' = Counting
    BY DEF Scc!Next, Scc!CallHit, Scc!CountHit, Scc!FindComponent, Scc!UseComponent,
       Scc!SolveComponent, Scc!WholeComponent, Scc!Descend, Scc!AppendUnion, Scc!Appended,
       Scc!CountResidual, Scc!Relink, Scc!CountOne, Scc!Finish, Scc!Stopped, Scc!vars, Counting
<1>2. CASE Scc!Stopped
    <2>1. pc \in {"done", "crash"}
        BY <1>2 DEF Scc!Stopped
    <2>2. UNCHANGED <<alg, routine, af, nodes, freed, subextensions, subextension_counts, put, n, stale,
                      frames, returned, pc, printed>>
        BY <1>2 DEF Scc!Stopped, Scc!vars
    <2>3. SccRight' = SccRight /\ (SccRight => SccLists') /\ printed' = <<>>
        BY <2>1, <2>2 DEF SccRight, Counting, SccInv, SccLists
    <2> QED
        BY <1>1, <1>a, <2>1, <2>2, <2>3 DEF SccInv
<1>3. CASE ~Scc!Stopped
    <2>a. pc \in Calling
        BY <1>3 DEF Scc!Next, Scc!CallHit, Scc!CountHit, Scc!FindComponent, Scc!UseComponent,
           Scc!SolveComponent, Scc!WholeComponent, Scc!Descend, Scc!AppendUnion, Scc!Appended,
           Scc!CountResidual, Scc!Relink, Scc!CountOne, Scc!Finish, Scc!InLoop, Scc!Looping,
           Calling
    <2>b. pc' \in {"call", "component", "loop", "append", "done", "crash"}
        BY <1>3, <2>a DEF Scc!Next, Scc!CallHit, Scc!CountHit, Scc!FindComponent,
           Scc!UseComponent, Scc!SolveComponent, Scc!WholeComponent, Scc!Descend,
           Scc!AppendUnion, Scc!Appended, Scc!CountResidual, Scc!Relink, Scc!CountOne,
           Scc!Finish, Scc!Pop, Calling
    <2>c. ~stale' => ~stale
        BY <1>3 DEF Scc!Next, Scc!CallHit, Scc!CountHit, Scc!FindComponent, Scc!UseComponent,
           Scc!SolveComponent, Scc!WholeComponent, Scc!Descend, Scc!AppendUnion, Scc!Appended,
           Scc!CountResidual, Scc!Relink, Scc!CountOne, Scc!Finish
    <2>1. pc \in Calling /\ pc' \in Calling \cup {"done", "crash"} /\ (~stale' => ~stale)
        BY <2>a, <2>b, <2>c DEF Calling
    <2>2. /\ pc \notin {"print", "exit", "crash"} /\ pc' \notin {"print", "exit"}
          /\ printed' = <<>>
        BY <2>1 DEF Calling, SccInv
    <2>3. ASSUME SccRight'
          PROVE  SccLists'
        <3>1. pc' # "crash" /\ (Counting \/ ~stale') /\ SccRight
            BY <2>1, <2>2, <2>3 DEF SccRight, Counting
        <3>2. SccLists
            BY <3>1 DEF SccInv
        <3> QED
            BY <1>1, <3>1, <3>2, SccStep
    <2> QED
        BY <1>1, <1>a, <2>2, <2>3 DEF SccInv
<1> QED
    BY <1>2, <1>3

-------------------------------------------------------------------------------
(* The program: one of the three recursions, then the output.                *)

LEMMA SccOutputs ==
    ASSUME SccInv, alg \in {"scc", "count"}, Return \/ PrintNode \/ Exit
    PROVE  SccInv'
<1> DEFINE all == Answers(routine, af, Arg)
<1>1. /\ pc \in {"done", "print"} /\ pc' \in {"print", "exit"}
      /\ UNCHANGED <<alg, routine, af, nodes, subextensions, subextension_counts, put, n, stale, frames>>
    BY DEF Return, PrintNode, Exit, sccVars, frameVars
<1>2. SccBase'
    BY <1>1 DEF SccInv, SccBase, Calling
<1>3. ASSUME SccRight'
      PROVE  /\ SccLists /\ SccLists' /\ nodes \in Seq(Nodes)
             /\ pc = "print" => IF Counting THEN n = Cardinality(all)
                                            ELSE ToPrint(nodes, returned, printed, all)
    <2>1. SccRight
        BY <1>1, <1>3 DEF SccRight, Counting
    <2>2. SccLists
        BY <2>1 DEF SccInv
    <2>3. SccLists'
        BY <1>1, <2>2 DEF SccLists, Counting, Calling
    <2> QED
        BY <2>1, <2>2, <2>3 DEF SccInv, SccLists
<1> HIDE DEF all
<1>4. CASE Return
    <2>1. pc = "done" /\ pc' = "print" /\ printed' = <<>> /\ returned' = returned
        BY <1>4 DEF Return, SccInv, frameVars
    <2>2. ASSUME SccRight'
          PROVE  IF Counting THEN n = Cardinality(all) ELSE ToPrint(nodes, returned, <<>>, all)
        <3>1. SccAnswer(Counting, nodes, returned, n, all)
            BY <1>3, <2>1, <2>2 DEF SccLists, all
        <3> QED
            BY <3>1, PrintStart DEF SccAnswer
    <2> QED
        BY <1>1, <1>2, <1>3, <2>1, <2>2 DEF SccInv, Counting, all
<1>5. CASE PrintNode
    <2>1. /\ pc = "print" /\ pc' = "print" /\ ~Counting /\ returned # 0
          /\ printed' = Append(printed, nodes[returned].c) /\ returned' = nodes[returned].next
        BY <1>5 DEF PrintNode, Counting, Scc!Null
    <2>2. ASSUME SccRight'
          PROVE  ToPrint(nodes, returned', printed', all)
        <3>1. nodes \in Seq(Nodes) /\ ToPrint(nodes, returned, printed, all)
            BY <1>3, <2>1, <2>2
        <3>2. ToPrint(nodes, nodes[returned].next, Append(printed, nodes[returned].c), all)
            BY <2>1, <3>1, PrintStep
        <3> QED
            BY <2>1, <3>2
    <2> QED
        BY <1>1, <1>2, <1>3, <2>1, <2>2 DEF SccInv, Counting, all
<1>6. CASE Exit
    <2>1. /\ pc = "print" /\ pc' = "exit"
          /\ Counting => printed' = <<n>>
          /\ ~Counting => returned = 0 /\ printed' = printed
        BY <1>6 DEF Exit, Counting, Scc!Null
    <2>2. ASSUME SccRight'
          PROVE  IF Counting THEN printed' = <<Cardinality(all)>> ELSE ListsOf(printed', all)
        <3>1. CASE Counting
            BY <1>3, <2>1, <2>2, <3>1
        <3>2. CASE ~Counting
            <4>1. nodes \in Seq(Nodes) /\ ToPrint(nodes, 0, printed, all)
                BY <1>3, <2>1, <2>2, <3>2
            <4>2. ListsOf(printed, all)
                BY <4>1, PrintEnd
            <4> QED
                BY <2>1, <3>2, <4>2
        <3> QED
            BY <3>1, <3>2
    <2> QED
        BY <1>1, <1>2, <1>3, <2>1, <2>2 DEF SccInv, Counting, all
<1> QED
    BY <1>4, <1>5, <1>6

LEMMA WccOutputs ==
    ASSUME WccInv, alg = "wcc", Return \/ PrintUnion \/ Exit
    PROVE  WccInv'
<1>1. UNCHANGED <<routine, af, components>>
    BY DEF Return, PrintUnion, Exit, wccVars
<1>2. af' \in Framework /\ components' = Wcc!Wcc(af')
    BY <1>1 DEF WccInv
<1>3. Joined(Len(components))' = Joined(Len(components))
    BY <1>1 DEF Joined
<1>4. CASE Return
    <2>1. pc = "done" /\ pc' = "print" /\ printed' = <<>> /\ res' = res
        BY <1>4 DEF Return, WccInv, wccVars
    <2>2. Output(<<>>, res, Joined(Len(components)))
        BY <2>1, OutputStart DEF WccInv
    <2> QED
        BY <1>1, <1>2, <1>3, <2>1, <2>2 DEF WccInv
<1>5. CASE PrintUnion
    <2>1. /\ pc = "print" /\ pc' = "print" /\ res # <<>>
          /\ printed' = Append(printed, Head(res)) /\ res' = Tail(res)
        BY <1>5 DEF PrintUnion
    <2>2. Output(Append(printed, Head(res)), Tail(res), Joined(Len(components)))
        BY <2>1, OutputStep DEF WccInv
    <2> QED
        BY <1>1, <1>2, <1>3, <2>1, <2>2 DEF WccInv
<1>6. CASE Exit
    <2>1. pc = "print" /\ pc' = "exit" /\ res = <<>> /\ printed' = printed
        BY <1>6 DEF Exit
    <2>2. ListsOf(printed, Joined(Len(components)))
        BY <2>1, OutputEnd DEF WccInv
    <2> QED
        BY <1>1, <1>2, <1>3, <2>1, <2>2 DEF WccInv
<1> QED
    BY <1>4, <1>5, <1>6

LEMMA PreferredOutputs ==
    ASSUME PreferredInv, alg = "preferred", Return \/ PrintPreferred \/ Exit
    PROVE  PreferredInv'
<1>1. af' = af
    BY DEF Return, PrintPreferred, Exit
<1>2. af' \in Framework
    BY <1>1 DEF PreferredInv
<1>3. CASE Return
    <2>1. pc = "done" /\ pc' = "print" /\ printed' = <<>> /\ returned' = returned
        BY <1>3 DEF Return, PreferredInv, frameVars
    <2>2. Output(<<>>, returned, PreferredExtensions(af))
        BY <2>1, OutputStart DEF PreferredInv
    <2> QED
        BY <1>1, <1>2, <2>1, <2>2 DEF PreferredInv, Recursing
<1>4. CASE PrintPreferred
    <2>1. /\ pc = "print" /\ pc' = "print" /\ returned # <<>>
          /\ printed' = Append(printed, Head(returned)) /\ returned' = Tail(returned)
        BY <1>4 DEF PrintPreferred
    <2>2. Output(Append(printed, Head(returned)), Tail(returned), PreferredExtensions(af))
        BY <2>1, OutputStep DEF PreferredInv
    <2> QED
        BY <1>1, <1>2, <2>1, <2>2 DEF PreferredInv, Recursing
<1>5. CASE Exit
    <2>1. pc = "print" /\ pc' = "exit" /\ returned = <<>> /\ printed' = printed
        BY <1>5 DEF Exit
    <2>2. ListsOf(printed, PreferredExtensions(af))
        BY <2>1, OutputEnd DEF PreferredInv
    <2> QED
        BY <1>1, <1>2, <2>1, <2>2 DEF PreferredInv, Recursing
<1> QED
    BY <1>3, <1>4, <1>5

(* Of the three invariants, that of the recursion that runs.                 *)
CcInv ==
    /\ alg \in {"scc", "count", "wcc", "preferred"}
    /\ alg \in {"scc", "count"} => SccInv
    /\ alg = "wcc" => WccInv
    /\ alg = "preferred" => PreferredInv

LEMMA CcInit == Init => CcInv
<1> SUFFICES ASSUME Init
             PROVE  CcInv
    OBVIOUS
<1>1. CASE alg \in {"scc", "count"} /\ Scc!Init
    <2>1. SccBase /\ SccLists
        BY <1>1, BaseInit, SccInit
    <2>2. /\ pc = "call" /\ printed = <<>>
          /\ Counting => routine = "norris"
        BY <1>1 DEF Scc!Init, Init, Counting
    <2> QED
        BY <1>1, <2>1, <2>2 DEF CcInv, SccInv
<1>2. CASE alg = "wcc" /\ Wcc!Init
    <2>1. WccInv
        BY <1>2, WccInit DEF Init
    <2> QED
        BY <1>2, <2>1 DEF CcInv
<1>3. CASE alg = "preferred" /\ Preferred!Init
    <2>1. PreferredInv
        BY <1>3, PreferredInit DEF Init
    <2> QED
        BY <1>3, <2>1 DEF CcInv
<1> QED
    BY <1>1, <1>2, <1>3 DEF Init

LEMMA CcNext == CcInv /\ [Next]_vars => CcInv'
<1> SUFFICES ASSUME CcInv, [Next]_vars
             PROVE  CcInv'
    OBVIOUS
<1>1. alg' = alg
    BY DEF Next, Recurse, Return, PrintNode, PrintUnion, PrintPreferred, Exit, Exited, vars
<1>2. CASE UNCHANGED vars
    <2>1. UNCHANGED <<routine, af, nodes, freed, subextensions, subextension_counts, n, put, stale, frames,
                      returned, components, extension_lists, res, cur, i, pc, printed>>
        BY <1>2 DEF vars, sccVars, frameVars, wccVars
    <2>2. SccInv => SccInv'
        BY <1>1, <2>1 DEF SccInv, SccRight, SccBase, SccLists, Counting
    <2>3. WccInv => WccInv'
        BY <2>1 DEF WccInv, Solving, JoinStage, Joined
    <2>4. PreferredInv => PreferredInv'
        BY <2>1 DEF PreferredInv
    <2> QED
        BY <1>1, <2>2, <2>3, <2>4 DEF CcInv
<1>3. CASE Recurse
    <2>1. CASE alg \in {"scc", "count"}
        <3>1. SccInv'
            BY <1>3, <2>1, SccRecurse DEF Recurse, CcInv
        <3> QED
            BY <1>1, <2>1, <3>1 DEF CcInv
    <2>2. CASE alg = "wcc"
        <3>1. WccInv'
            BY <1>3, <2>2, WccStep DEF Recurse, CcInv
        <3> QED
            BY <1>1, <2>2, <3>1 DEF CcInv
    <2>3. CASE alg = "preferred"
        <3>1. PreferredInv'
            BY <1>3, <2>3, PreferredStep DEF Recurse, CcInv
        <3> QED
            BY <1>1, <2>3, <3>1 DEF CcInv
    <2> QED
        BY <2>1, <2>2, <2>3 DEF CcInv
<1>4. CASE Return \/ PrintNode \/ PrintUnion \/ PrintPreferred \/ Exit
    <2>1. CASE alg \in {"scc", "count"}
        <3>1. Return \/ PrintNode \/ Exit
            BY <1>4, <2>1 DEF PrintUnion, PrintPreferred
        <3>2. SccInv'
            BY <2>1, <3>1, SccOutputs DEF CcInv
        <3> QED
            BY <1>1, <2>1, <3>2 DEF CcInv
    <2>2. CASE alg = "wcc"
        <3>1. Return \/ PrintUnion \/ Exit
            BY <1>4, <2>2 DEF PrintNode, PrintPreferred
        <3>2. WccInv'
            BY <2>2, <3>1, WccOutputs DEF CcInv
        <3> QED
            BY <1>1, <2>2, <3>2 DEF CcInv
    <2>3. CASE alg = "preferred"
        <3>1. Return \/ PrintPreferred \/ Exit
            BY <1>4, <2>3 DEF PrintNode, PrintUnion
        <3>2. PreferredInv'
            BY <2>3, <3>1, PreferredOutputs DEF CcInv
        <3> QED
            BY <1>1, <2>3, <3>2 DEF CcInv
    <2> QED
        BY <2>1, <2>2, <2>3 DEF CcInv
<1>5. Exited => UNCHANGED vars
    BY DEF Exited
<1> QED
    BY <1>2, <1>3, <1>4, <1>5 DEF Next

-------------------------------------------------------------------------------
(* What the lists that are printed are.                                      *)

LEMMA WholeFramework ==
    ASSUME af \in Framework
    PROVE  /\ Arg \in SUBSET Nat /\ IsFiniteSet(Arg) /\ af \in [Arg -> SUBSET Arg]
           /\ DOMAIN af = Arg /\ StableIn(af, Arg) = StableExtensions(af)
<1>1. Arg \in SUBSET Nat
    BY NAssumption DEF Arg
<1>2. af \in [Arg -> SUBSET Arg]
    BY DEF Framework
<1>3. StableIn(af, Arg) = StableExtensions(af)
    BY <1>2, StableInWhole
<1> QED
    BY <1>1, <1>2, <1>3, ArgFinite

LEMMA FirstClosureOf ==
    ASSUME NEW C
    PROVE  FirstClosure(C) = ClosureOf(af, C)
<1>1. Scc!Projection(C) = Renamed(af, ParentMapping(C))
    BY SccOperators
<1> QED
    BY <1>1 DEF FirstClosure, ClosureOf

(* Without conflicts, and right about each argument but in first closures.   *)
LEMMA AnswerFrom ==
    ASSUME af \in Framework, NEW S, \A a, b \in S : b \notin af[a],
           \A a \in Arg \ (S \cup Victims(af, S)) :
                routine = "nourine" /\ \E C \in Parts : a \in C /\ S \cap C = ClosureOf(af, C)
    PROVE  Answer(S)
<1>1. IsConflictFree(af, S)
    BY DEF IsConflictFree, ArgAttacksSet
<1> QED
    BY <1>1, FirstClosureOf DEF Answer

LEMMA StrongSound ==
    ASSUME af \in Framework, alg # "wcc", NEW S \in Answers(routine, af, Arg)
    PROVE  Answer(S)
<1>1. Sound(routine, af, Arg, S)
    BY WholeFramework, AnswersSound
<1>2. \A C \in SUBSET Arg : Strong(af, C) => C \in Parts
    BY DEF Parts, Strong
<1>3. /\ \A a, b \in S : b \notin af[a]
      /\ \A a \in Arg \ (S \cup Victims(af, S)) :
             routine = "nourine" /\ \E C \in Parts : a \in C /\ S \cap C = ClosureOf(af, C)
    BY <1>1, <1>2 DEF Sound
<1> QED
    BY <1>3, AnswerFrom

LEMMA WeakParts ==
    ASSUME WccInv
    PROVE  /\ af \in Framework /\ PartsOf(af, Arg, components)
           /\ Len(components) \in Nat /\ DOMAIN components = 1 .. Len(components)
           /\ Covered(components, Len(components)) = Arg
           /\ \A m \in DOMAIN components : /\ components[m] \in SUBSET Arg /\ components[m] # {}
                                         /\ \A a \in components[m] : af[a] \subseteq components[m]
           /\ alg = "wcc" => \A m \in DOMAIN components : components[m] \in Parts
<1>1. af \in Framework /\ components = Wcc!Wcc(af)
    BY DEF WccInv
<1>2. /\ PartsOf(af, Arg, components) /\ Len(components) \in Nat
      /\ DOMAIN components = 1 .. Len(components)
      /\ \A m \in DOMAIN components : components[m] \in SUBSET Arg
    BY <1>1, WccComponents
<1>3. \A d \in Arg : \E m \in DOMAIN components : d \in components[m]
    BY <1>2 DEF PartsOf
<1>4. Covered(components, Len(components)) = Arg
    BY <1>2, <1>3 DEF Covered
<1>5. \A m \in DOMAIN components : \E d \in Arg : components[m] = Visited(Undirected(af), d)
    BY <1>2 DEF PartsOf
<1>6. alg = "wcc" => \A m \in DOMAIN components : components[m] \in Parts
    BY <1>5 DEF Parts
<1> QED
    BY <1>1, <1>2, <1>4, <1>6 DEF PartsOf

LEMMA WeakSound ==
    ASSUME WccInv, alg = "wcc", NEW S \in Joined(Len(components))
    PROVE  Answer(S)
<1> DEFINE in(m) == S \cap components[m]
<1>1. S \in SUBSET Arg /\ \A m \in DOMAIN components : in(m) \in PartExtensions(routine, af, components[m])
    BY WeakParts DEF Joined, WeakAnswers
<1>2. ASSUME NEW m \in DOMAIN components
      PROVE  /\ \A a, b \in in(m) : b \notin af[a]
             /\ \/ in(m) \in StableIn(af, components[m])
                \/ routine = "nourine" /\ in(m) = ClosureOf(af, components[m])
    <2> DEFINE C == components[m]
               T == in(m)
    <2>1. T \in PartExtensions(routine, af, C) /\ C \in SUBSET Arg /\ C # {}
        BY <1>1, WeakParts
    <2> HIDE DEF C, T
    <2>2. /\ \A a, b \in T : b \notin af[a]
          /\ T \in StableIn(af, C) \/ (routine = "nourine" /\ T = ClosureOf(af, C))
        BY <2>1, WeakParts, WholeFramework, PartRight
    <2> QED
        BY <2>2 DEF C, T
<1> HIDE DEF in
<1>3. ASSUME NEW a \in S, NEW b \in S
      PROVE  b \notin af[a]
    <2>1. PICK m \in DOMAIN components : a \in components[m]
        BY <1>1, WeakParts DEF PartsOf
    <2>2. b \in af[a] => b \in components[m]
        BY <2>1, WeakParts
    <2>3. \A x, y \in in(m) : y \notin af[x]
        BY <1>2
    <2> QED
        BY <2>1, <2>2, <2>3 DEF in
<1>4. ASSUME NEW a \in Arg \ (S \cup Victims(af, S))
      PROVE  routine = "nourine" /\ \E C \in Parts : a \in C /\ S \cap C = ClosureOf(af, C)
    <2>1. PICK m \in DOMAIN components : a \in components[m]
        BY WeakParts DEF PartsOf
    <2>2. in(m) \notin StableIn(af, components[m])
        <3>1. a \notin S /\ \A b \in S : a \notin af[b]
            <4>1. a \in DOMAIN af
                BY WeakParts, WholeFramework
            <4> QED
                BY <1>4, <4>1 DEF Victims, SetAttacksArg
        <3> QED
            BY <2>1, <3>1 DEF StableIn, in
    <2>3. routine = "nourine" /\ in(m) = ClosureOf(af, components[m])
        BY <1>2, <2>2
    <2>4. components[m] \in Parts
        BY WeakParts
    <2> QED
        BY <2>1, <2>3, <2>4 DEF in
<1> QED
    BY <1>3, <1>4, WeakParts, AnswerFrom

LEMMA WeakComplete ==
    ASSUME WccInv, routine = "mis" => SelfAttackersLast(af), NEW S \in StableExtensions(af)
    PROVE  S \in Joined(Len(components))
<1>1. S \in StableIn(af, Arg)
    BY WeakParts, WholeFramework
<1>2. ASSUME NEW m \in DOMAIN components
      PROVE  S \cap components[m] \in PartExtensions(routine, af, components[m])
    <2> DEFINE C == components[m]
    <2>1. C \in SUBSET Arg /\ C # {} /\ \A a \in C : af[a] \subseteq C
        BY WeakParts
    <2>2. \A a \in C : \A b \in S : a \in af[b] => b \in C
        <3> SUFFICES ASSUME NEW a \in C, NEW b \in S, a \in af[b]
                     PROVE  b \in C
            OBVIOUS
        <3>1. b \in Arg
            BY <1>1 DEF StableIn
        <3>2. PICK x \in DOMAIN components : b \in components[x]
            BY <3>1, WeakParts DEF PartsOf
        <3>3. a \in components[x]
            BY <3>2, WeakParts
        <3>4. x = m
            BY <3>3, WeakParts DEF PartsOf
        <3> QED
            BY <3>2, <3>4
    <2>3. S \cap C \in StableIn(af, C)
        <3> HIDE DEF C
        <3> QED
            BY <1>1, <2>1, <2>2 DEF StableIn
    <2> HIDE DEF C
    <2>4. StableIn(af, C) \subseteq PartExtensions(routine, af, C)
        BY <2>1, WeakParts, WholeFramework, PartRight
    <2> QED
        BY <2>3, <2>4 DEF C
<1>3. S \in SUBSET Arg
    BY <1>1 DEF StableIn
<1> QED
    BY <1>2, <1>3, WeakParts DEF Joined, WeakAnswers

LEMMA StrongAll ==
    ASSUME af \in Framework
    PROVE  /\ routine \notin {"mis", "nourine"} => Answers(routine, af, Arg) = StableExtensions(af)
           /\ \/ StableExtensions(af) \subseteq Answers(routine, af, Arg)
              \/ routine = "mis" /\ ~SelfAttackersLast(af)
<1>1. ASSUME routine \notin {"mis", "nourine"}
      PROVE  Answers(routine, af, Arg) = StableIn(af, Arg)
    BY <1>1, WholeFramework, AnswersExact
<1>2. ASSUME routine = "mis" => SelfAttackersLast(af)
      PROVE  StableIn(af, Arg) \subseteq Answers(routine, af, Arg)
    BY <1>2, WholeFramework, AnswersComplete
<1> QED
    BY <1>1, <1>2, WholeFramework

(* The recursion that runs keeps its invariant until the output is written.  *)
THEOREM RunInvariant == Spec => []CcInv
BY CcInit, CcNext, PTL DEF Spec

(* find_source_component, called for a part of any framework in the middle   *)
(* of EE-ST or CE-ST, marks a strongly connected component of what the call  *)
(* is about that nothing else there attacks, for every call on the stack.    *)
THEOREM RunComponentIsSource == Spec => []ComponentIsSource
<1>1. CcInv => ComponentIsSource
    BY BaseSource DEF CcInv, SccInv, ComponentIsSource
<1> QED
    BY <1>1, RunInvariant, PTL

(* wcc: at each moment of the in-place product of the lists, what is before  *)
(* the cursor and behind it are the unions of what the routine listed for    *)
(* the components joined so far, for every framework and number of           *)
(* components.                                                               *)
THEOREM RunJoinedSoFar == Spec => []JoinedSoFar
<1>1. CcInv => JoinedSoFar
    BY WccJoined DEF CcInv, JoinedSoFar
<1> QED
    BY <1>1, RunInvariant, PTL

(* compute_preferred_extensions: each call, at whatever depth, hands back    *)
(* the preferred extensions of the framework with self-attacks that it was   *)
(* called for.                                                               *)
THEOREM RunCallContract == Spec => []CallContract
<1>1. CcInv => CallContract
    BY PreferredCallContract DEF CcInv, CallContract
<1> QED
    BY <1>1, RunInvariant, PTL

(* run_cc, run_cc_preferred and run_scc_norris_count: what has been written  *)
(* at the end is the answer, each set once, or its size, with the routine    *)
(* for the components that was asked for: with mis extensions may be missing *)
(* if an argument follows a self-attacker, and with Nourine's algorithm a    *)
(* set may leave arguments of a component undecided of which it has the      *)
(* first closure.  EE-ST by strongly connected components is exempt once a   *)
(* list has been read from the map that was no longer the one put there.     *)
THEOREM RunOutputRight == Spec => []OutputRight
<1>1. ASSUME CcInv, pc = "exit", ~stale
      PROVE  /\ Len(printed) = Cardinality(Printed)
             /\ alg \in {"scc", "wcc"} =>
                    /\ \A S \in Printed : Answer(S)
                    /\ \/ StableExtensions(af) \subseteq Printed
                       \/ routine = "mis" /\ ~SelfAttackersLast(af)
             /\ alg = "preferred" => Printed = PreferredExtensions(af)
             /\ alg = "count" => printed = <<Cardinality(StableExtensions(af))>>
    <2>1. CASE alg = "scc"
        <3>1. af \in Framework /\ ListsOf(printed, Answers(routine, af, Arg))
            BY <1>1, <2>1 DEF CcInv, SccInv, SccRight, Counting, SccBase
        <3>2. Len(printed) = Cardinality(Printed) /\ Printed = Answers(routine, af, Arg)
            BY <3>1 DEF ListsOf, Printed
        <3> QED
            BY <2>1, <3>1, <3>2, StrongSound, StrongAll
    <2>2. CASE alg = "count"
        <3>1. af \in Framework /\ printed = <<Cardinality(Answers(routine, af, Arg))>>
              /\ routine = "norris"
            BY <1>1, <2>2 DEF CcInv, SccInv, SccRight, Counting, SccBase
        <3>2. printed = <<Cardinality(StableExtensions(af))>>
            BY <3>1, StrongAll
        <3> DEFINE x == Cardinality(StableExtensions(af))
        <3> HIDE DEF x
        <3>3. Printed = {x} /\ Len(printed) = 1
            BY <3>2 DEF Printed, x
        <3>4. Cardinality({x}) = 1
            BY FS_Singleton
        <3> QED
            BY <2>2, <3>2, <3>3, <3>4
    <2>3. CASE alg = "wcc"
        <3>1. WccInv /\ ListsOf(printed, Joined(Len(components)))
            BY <1>1, <2>3 DEF CcInv, WccInv
        <3>2. Len(printed) = Cardinality(Printed) /\ Printed = Joined(Len(components))
            BY <3>1 DEF ListsOf, Printed
        <3>3. \A S \in Printed : Answer(S)
            BY <2>3, <3>1, <3>2, WeakSound
        <3>4. \/ StableExtensions(af) \subseteq Printed
              \/ routine = "mis" /\ ~SelfAttackersLast(af)
            BY <3>1, <3>2, WeakComplete
        <3> QED
            BY <2>3, <3>2, <3>3, <3>4
    <2>4. CASE alg = "preferred"
        <3>1. ListsOf(printed, PreferredExtensions(af))
            BY <1>1, <2>4 DEF CcInv, PreferredInv
        <3> QED
            BY <2>4, <3>1 DEF ListsOf, Printed
    <2> QED
        BY <1>1, <2>1, <2>2, <2>3, <2>4 DEF CcInv
<1>2. CcInv => OutputRight
    BY <1>1 DEF OutputRight
<1> QED
    BY <1>2, RunInvariant, PTL
================================================================================
