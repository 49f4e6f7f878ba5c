----------------------------- MODULE Routines_proofs -----------------------------
(***************************************************************************)
(* The routines that the other modules take for one operator or one step.  *)
(*                                                                         *)
(*   - Each routine of BitSets computes on the blocks what its name says   *)
(*     of the sets of indices, for every size, and leaves the bits behind  *)
(*     the size clear.                                                     *)
(*   - The hash map with bit sets as keys is a function that is NULL where *)
(*     nothing has been put, whatever the hash function.                   *)
(*   - The loop of closure_semi_complete returns the least semi-complete   *)
(*     superset of its argument, in every framework.                       *)
(***************************************************************************)
EXTENDS SemiClosureLoop, BitSets, BitSetHashMap, Foundations_proofs

-------------------------------------------------------------------------------
(* Bit sets and the hash map.                                                *)

(* The block and the position of an index below the size: they exist, and  *)
(* in the last block the mask keeps the position.                          *)
LEMMA IndexPlace ==
    ASSUME NEW size \in Sizes, NEW k \in 0 .. size - 1
    PROVE  /\ k \div 64 \in Blocks(size)
           /\ k % 64 \in Positions
           /\ k \div 64 = LastBlock(size) => k % 64 \in get_last_full_block(size)
<1>1. /\ size \in Int /\ k \in Int /\ 0 <= k /\ k < size
  BY DEF Sizes
<1>2. /\ k \div 64 \in Int /\ k % 64 \in Int
      /\ k = 64 * (k \div 64) + (k % 64)
      /\ 0 <= k % 64 /\ k % 64 < 64
  BY <1>1, Z3
<1>3. /\ size \div 64 \in Int /\ size % 64 \in Int
      /\ size = 64 * (size \div 64) + (size % 64)
      /\ 0 <= size % 64 /\ size % 64 < 64
  BY <1>1, Z3
<1>4. base_count(size) = IF size % 64 = 0 THEN size \div 64 ELSE size \div 64 + 1
  BY <1>1, Z3 DEF base_count
<1>5. k \div 64 \in Blocks(size)
  BY <1>1, <1>2, <1>3, <1>4 DEF Blocks
<1>6. ASSUME k \div 64 = LastBlock(size), size % 64 # 0
      PROVE  k % 64 < size % 64
  BY <1>1, <1>2, <1>3, <1>4, <1>6 DEF LastBlock
<1>7. k % 64 \in Positions
  BY <1>2 DEF Positions
<1>8. k \div 64 = LastBlock(size) => k % 64 \in get_last_full_block(size)
  <2>1. CASE size % 64 = 0
    BY <1>7, <2>1 DEF get_last_full_block
  <2>2. CASE size % 64 # 0
    <3>1. get_last_full_block(size) = 0 .. (size % 64) - 1
      BY <2>2 DEF get_last_full_block
    <3>2. k \div 64 = LastBlock(size) => k % 64 < size % 64
      BY <1>6, <2>2
    <3>3. k % 64 < size % 64 => k % 64 \in 0 .. (size % 64) - 1
      BY <1>2, <1>3
    <3> QED
      BY <3>1, <3>2, <3>3
  <2> QED
    BY <2>1, <2>2
<1> QED
  BY <1>5, <1>7, <1>8

(* The other way: a place the mask keeps is the place of one index.        *)
LEMMA PlaceIndex ==
    ASSUME NEW size \in Sizes, NEW w \in Blocks(size), NEW j \in Positions,
           w = LastBlock(size) => j \in get_last_full_block(size)
    PROVE  /\ 64 * w + j \in 0 .. size - 1
           /\ (64 * w + j) \div 64 = w
           /\ (64 * w + j) % 64 = j
  BY SMT DEF Sizes, Blocks, base_count, LastBlock, Positions, get_last_full_block

LEMMA LastBlockExists ==
    ASSUME NEW size \in Sizes
    PROVE  /\ LastBlock(size) \in Blocks(size)
           /\ get_last_full_block(size) \subseteq Positions
  BY SMT DEF Sizes, Blocks, base_count, LastBlock, Positions, get_last_full_block

----------------------------------------------------------------------------
(* Masking the last block.                                                 *)

LEMMA Masked ==
    ASSUME NEW size \in Sizes, NEW bs \in BitSet(size)
    PROVE  /\ Proper(MaskLast(bs, size), size)
           /\ \A k \in 0 .. size - 1 :
                TEST_BIT(MaskLast(bs, size), k) <=> TEST_BIT(bs, k)
<1> DEFINE last == LastBlock(size)
           kept == get_last_full_block(size)
<1>1. last \in Blocks(size) /\ kept \subseteq Positions
  BY LastBlockExists
<1>2. /\ MaskLast(bs, size) \in BitSet(size)
      /\ MaskLast(bs, size)[last] = bs[last] \cap kept
      /\ \A w \in Blocks(size) : w # last => MaskLast(bs, size)[w] = bs[w]
  BY <1>1 DEF MaskLast, BitSet
<1>3. Proper(MaskLast(bs, size), size)
  BY <1>2 DEF Proper, PaddingClear
<1>4. ASSUME NEW k \in 0 .. size - 1
      PROVE  TEST_BIT(MaskLast(bs, size), k) <=> TEST_BIT(bs, k)
  BY <1>2, IndexPlace DEF TEST_BIT
<1> QED
  BY <1>3, <1>4

(* Two proper bit sets differ in a block only if they differ in an index   *)
(* below the size.                                                         *)
LEMMA PlaceDecided ==
    ASSUME NEW size \in Sizes, NEW bs, Proper(bs, size),
           NEW w \in Blocks(size), NEW j \in bs[w]
    PROVE  \E k \in Contents(bs, size) : k \div 64 = w /\ k % 64 = j
<1>1. j \in Positions /\ (w = LastBlock(size) => j \in get_last_full_block(size))
  BY DEF Proper, BitSet, PaddingClear
<1>2. /\ 64 * w + j \in 0 .. size - 1
      /\ (64 * w + j) \div 64 = w
      /\ (64 * w + j) % 64 = j
  BY <1>1, PlaceIndex
<1>3. 64 * w + j \in Contents(bs, size)
  BY <1>2 DEF Contents, TEST_BIT
<1> QED
  BY <1>2, <1>3

----------------------------------------------------------------------------
(* The routines that write.                                                *)

(* complement_bitset flips exactly the bits below the size and leaves the  *)
(* bits behind it clear, whatever they were: the closures and the masks of *)
(* attackers the enumerations start from are built with it.                *)
THEOREM ComplementRight ==
    ASSUME NEW size \in Sizes, NEW bs \in BitSet(size)
    PROVE  /\ Proper(complement_bitset(bs, size), size)
           /\ Contents(complement_bitset(bs, size), size)
                = (0 .. size - 1) \ Contents(bs, size)
<1> DEFINE flipped == [w \in Blocks(size) |-> Positions \ bs[w]]
<1>1. flipped \in BitSet(size)
  BY DEF BitSet
<1>2. /\ Proper(complement_bitset(bs, size), size)
      /\ \A k \in 0 .. size - 1 :
           TEST_BIT(complement_bitset(bs, size), k) <=> TEST_BIT(flipped, k)
  BY <1>1, Masked DEF complement_bitset
<1>3. ASSUME NEW k \in 0 .. size - 1
      PROVE  TEST_BIT(flipped, k) <=> ~TEST_BIT(bs, k)
  BY IndexPlace DEF TEST_BIT
<1> HIDE DEF flipped
<1> QED
  BY <1>2, <1>3 DEF Contents

(* bitset_set_minus is the difference of the sets of indices, and its      *)
(* result is proper even if its arguments are not.                         *)
THEOREM SetMinusRight ==
    ASSUME NEW size \in Sizes, NEW bs1 \in BitSet(size), NEW bs2 \in BitSet(size)
    PROVE  /\ Proper(bitset_set_minus(bs1, bs2, size), size)
           /\ Contents(bitset_set_minus(bs1, bs2, size), size)
                = Contents(bs1, size) \ Contents(bs2, size)
<1> DEFINE rest == [w \in Blocks(size) |-> bs1[w] \cap (Positions \ bs2[w])]
<1>1. rest \in BitSet(size)
  BY DEF BitSet
<1>2. /\ Proper(bitset_set_minus(bs1, bs2, size), size)
      /\ \A k \in 0 .. size - 1 :
           TEST_BIT(bitset_set_minus(bs1, bs2, size), k) <=> TEST_BIT(rest, k)
  BY <1>1, Masked DEF bitset_set_minus
<1>3. ASSUME NEW k \in 0 .. size - 1
      PROVE  TEST_BIT(rest, k) <=> TEST_BIT(bs1, k) /\ ~TEST_BIT(bs2, k)
  BY IndexPlace DEF TEST_BIT
<1> HIDE DEF rest
<1> QED
  BY <1>2, <1>3 DEF Contents

(* set_bitset sets every bit below the size and none behind it.            *)
THEOREM SetRight ==
    ASSUME NEW size \in Sizes
    PROVE  /\ Proper(set_bitset(size), size)
           /\ Contents(set_bitset(size), size) = 0 .. size - 1
<1> DEFINE full == [w \in Blocks(size) |-> Positions]
<1>1. full \in BitSet(size)
  BY DEF BitSet
<1>2. /\ Proper(set_bitset(size), size)
      /\ \A k \in 0 .. size - 1 : TEST_BIT(set_bitset(size), k) <=> TEST_BIT(full, k)
  BY <1>1, Masked DEF set_bitset
<1>3. \A k \in 0 .. size - 1 : TEST_BIT(full, k)
  BY IndexPlace DEF TEST_BIT
<1> HIDE DEF full
<1> QED
  BY <1>2, <1>3 DEF Contents

(* SET_BIT and RESET_BIT with an index below the size change that index    *)
(* and no other, and keep a bit set proper.                                *)
THEOREM SetBitRight ==
    ASSUME NEW size \in Sizes, NEW bs, Proper(bs, size), NEW k \in 0 .. size - 1
    PROVE  /\ Proper(SET_BIT(bs, k), size)
           /\ Contents(SET_BIT(bs, k), size) = Contents(bs, size) \cup {k}
           /\ Proper(RESET_BIT(bs, k), size)
           /\ Contents(RESET_BIT(bs, k), size) = Contents(bs, size) \ {k}
<1> DEFINE b == k \div 64
           p == k % 64
<1>1. /\ b \in Blocks(size) /\ p \in Positions
      /\ b = LastBlock(size) => p \in get_last_full_block(size)
  BY IndexPlace
<1>2. /\ bs \in BitSet(size)
      /\ bs[LastBlock(size)] \subseteq get_last_full_block(size)
  BY DEF Proper, PaddingClear
<1>3. ASSUME NEW l \in 0 .. size - 1, l \div 64 = b, l % 64 = p
      PROVE  l = k
  <2>1. k \in Int /\ l \in Int
    BY DEF Sizes
  <2>2. k = 64 * b + p /\ l = 64 * (l \div 64) + (l % 64)
    BY <2>1, Z3
  <2> QED
    BY <2>1, <2>2, <1>3
<1>4. Proper(SET_BIT(bs, k), size) /\ Proper(RESET_BIT(bs, k), size)
  BY <1>1, <1>2 DEF Proper, PaddingClear, SET_BIT, RESET_BIT, BitSet
<1>5. ASSUME NEW l \in 0 .. size - 1
      PROVE  /\ TEST_BIT(SET_BIT(bs, k), l) <=> TEST_BIT(bs, l) \/ l = k
             /\ TEST_BIT(RESET_BIT(bs, k), l) <=> TEST_BIT(bs, l) /\ l # k
  <2>1. l \div 64 \in Blocks(size)
    BY IndexPlace
  <2> QED
    BY <1>1, <1>2, <1>3, <2>1 DEF TEST_BIT, SET_BIT, RESET_BIT, BitSet
<1> QED
  BY <1>4, <1>5 DEF Contents

(* Intersection and union of the blocks are those of the sets of indices,  *)
(* and proper without a mask because their arguments are.                  *)
THEOREM IntersectionUnionRight ==
    ASSUME NEW size \in Sizes, NEW bs1, NEW bs2,
           Proper(bs1, size), Proper(bs2, size)
    PROVE  /\ Proper(bitset_intersection(bs1, bs2, size), size)
           /\ Contents(bitset_intersection(bs1, bs2, size), size)
                = Contents(bs1, size) \cap Contents(bs2, size)
           /\ Proper(bitset_union(bs1, bs2, size), size)
           /\ Contents(bitset_union(bs1, bs2, size), size)
                = Contents(bs1, size) \cup Contents(bs2, size)
<1>1. /\ bs1 \in BitSet(size) /\ bs1[LastBlock(size)] \subseteq get_last_full_block(size)
      /\ bs2 \in BitSet(size) /\ bs2[LastBlock(size)] \subseteq get_last_full_block(size)
      /\ LastBlock(size) \in Blocks(size)
  BY LastBlockExists DEF Proper, PaddingClear
<1>2. /\ Proper(bitset_intersection(bs1, bs2, size), size)
      /\ Proper(bitset_union(bs1, bs2, size), size)
  BY <1>1 DEF Proper, PaddingClear, BitSet, bitset_intersection, bitset_union
<1>3. ASSUME NEW k \in 0 .. size - 1
      PROVE  /\ TEST_BIT(bitset_intersection(bs1, bs2, size), k)
                  <=> TEST_BIT(bs1, k) /\ TEST_BIT(bs2, k)
             /\ TEST_BIT(bitset_union(bs1, bs2, size), k)
                  <=> TEST_BIT(bs1, k) \/ TEST_BIT(bs2, k)
  BY IndexPlace DEF TEST_BIT, bitset_intersection, bitset_union
<1> QED
  BY <1>2, <1>3 DEF Contents

----------------------------------------------------------------------------
(* The routines that compare.                                              *)

(* Of proper bit sets the comparisons of blocks, which read the bits       *)
(* behind the size too, decide inclusion, equality, disjointness and       *)
(* emptiness of the sets of indices: the tests of the closures, of the     *)
(* conflicts and of the end of every enumeration.                          *)
THEOREM ComparisonsDecide ==
    ASSUME NEW size \in Sizes, NEW bs1, NEW bs2,
           Proper(bs1, size), Proper(bs2, size)
    PROVE  /\ bitset_is_subset(bs1, bs2, size)
                <=> Contents(bs1, size) \subseteq Contents(bs2, size)
           /\ bitset_is_equal(bs1, bs2, size)
                <=> Contents(bs1, size) = Contents(bs2, size)
           /\ is_bitset_intersection_empty(bs1, bs2, size)
                <=> Contents(bs1, size) \cap Contents(bs2, size) = {}
           /\ bitset_is_emptyset(bs1, size) <=> Contents(bs1, size) = {}
           /\ bitset_is_fullset(bs1, size) <=> Contents(bs1, size) = 0 .. size - 1
<1>1. ASSUME NEW k \in 0 .. size - 1
      PROVE  k \div 64 \in Blocks(size)
  BY IndexPlace
<1>2. ASSUME NEW w \in Blocks(size), NEW j \in bs1[w]
      PROVE  \E k \in Contents(bs1, size) : k \div 64 = w /\ k % 64 = j
  BY PlaceDecided
<1>3. ASSUME NEW w \in Blocks(size), NEW j \in bs2[w]
      PROVE  \E k \in Contents(bs2, size) : k \div 64 = w /\ k % 64 = j
  BY PlaceDecided
<1>4. \A k \in Contents(bs1, size) : k \in 0 .. size - 1 /\ k % 64 \in bs1[k \div 64]
  BY DEF Contents, TEST_BIT
<1>5. \A k \in Contents(bs2, size) : k \in 0 .. size - 1 /\ k % 64 \in bs2[k \div 64]
  BY DEF Contents, TEST_BIT
<1>6. \A k \in 0 .. size - 1 :
        /\ k % 64 \in bs1[k \div 64] => k \in Contents(bs1, size)
        /\ k % 64 \in bs2[k \div 64] => k \in Contents(bs2, size)
  BY DEF Contents, TEST_BIT
<1>7. (\A w \in Blocks(size) : bs1[w] \subseteq bs2[w])
        <=> Contents(bs1, size) \subseteq Contents(bs2, size)
  BY <1>1, <1>2, <1>4, <1>5, <1>6
<1>8. (\A w \in Blocks(size) : bs2[w] \subseteq bs1[w])
        <=> Contents(bs2, size) \subseteq Contents(bs1, size)
  BY <1>1, <1>3, <1>4, <1>5, <1>6
<1>9. bitset_is_subset(bs1, bs2, size)
        <=> Contents(bs1, size) \subseteq Contents(bs2, size)
  BY <1>7 DEF bitset_is_subset
<1>10. bitset_is_equal(bs1, bs2, size) <=> Contents(bs1, size) = Contents(bs2, size)
  BY <1>7, <1>8 DEF bitset_is_equal
<1>11. is_bitset_intersection_empty(bs1, bs2, size)
         <=> Contents(bs1, size) \cap Contents(bs2, size) = {}
  BY <1>1, <1>2, <1>4, <1>5, <1>6 DEF is_bitset_intersection_empty
<1>12. bitset_is_emptyset(bs1, size) <=> Contents(bs1, size) = {}
  BY <1>1, <1>2, <1>4 DEF bitset_is_emptyset
<1>13. bitset_is_fullset(bs1, size) <=> Contents(bs1, size) = 0 .. size - 1
  BY DEF bitset_is_fullset, Contents
<1> QED
  BY <1>9, <1>10, <1>11, <1>12, <1>13

(* get_key reads whole blocks as well, but proper bit sets with the same   *)
(* indices have the same key: the hash maps find what was put under an     *)
(* equal set, which is another object.                                     *)
THEOREM KeyOfContents ==
    ASSUME NEW size \in Sizes, NEW bs1, NEW bs2,
           Proper(bs1, size), Proper(bs2, size),
           Contents(bs1, size) = Contents(bs2, size)
    PROVE  get_key(bs1, size) = get_key(bs2, size)
<1>1. \A w \in Blocks(size) : bs1[w] = bs2[w]
  BY ComparisonsDecide DEF bitset_is_equal
<1>2. bs1 = bs2
  BY <1>1 DEF Proper, BitSet
<1> QED
  BY <1>2

----------------------------------------------------------------------------
(* The hash map.                                                           *)

(* The hash of a key, an unsigned number, has a bucket.                    *)
LEMMA BucketExists ==
    ASSUME bucket_count \in Nat \ {0}, NEW key, hash(key) \in Nat
    PROVE  Bucket(key) \in Buckets
  BY SMT DEF Bucket, Buckets

(* A new map is well formed and has no key.                                *)
THEOREM InitRight ==
    ASSUME bucket_count \in Nat \ {0}, NEW key \in Keys, hash(key) \in Nat
    PROVE  /\ WellFormed(bitset_hash_map_init)
           /\ bitset_hash_map_get(bitset_hash_map_init, key) = NULL
<1>1. WellFormed(bitset_hash_map_init)
  BY DEF bitset_hash_map_init, WellFormed, HashMap, Chained
<1>2. Places(bitset_hash_map_init, key) = {}
  BY BucketExists DEF Places, bitset_hash_map_init
<1> QED
  BY <1>1, <1>2 DEF bitset_hash_map_get

(* In a well-formed map the loops can stop at one place only.              *)
LEMMA PlaceUnique ==
    ASSUME bucket_count \in Nat \ {0}, NEW map, WellFormed(map),
           NEW key \in Keys, hash(key) \in Nat, NEW m \in Places(map, key)
    PROVE  Places(map, key) = {m} /\ Place(map, key) = m
<1>1. Bucket(key) \in Buckets
  BY BucketExists
<1>2. Places(map, key) = {m}
  BY <1>1 DEF WellFormed, Chained, Places
<1>3. m \in Nat
  BY <1>1 DEF Places, WellFormed, HashMap
<1> QED
  BY <1>2, <1>3 DEF Place

----------------------------------------------------------------------------
LEMMA MapRecord ==
    ASSUME NEW buckets \in [Buckets -> Seq(Element)], NEW count \in Nat
    PROVE  LET new == [buckets |-> buckets, element_count |-> count]
           IN  new \in HashMap /\ new.buckets = buckets
  BY DEF HashMap

(* What a new value in place of an old one changes.                        *)
LEMMA OverwriteRight ==
    ASSUME bucket_count \in Nat \ {0}, NEW map, WellFormed(map),
           \A k \in Keys : hash(k) \in Nat,
           NEW key \in Keys, NEW value \in Values, Places(map, key) # {}
    PROVE  LET new == Overwrite(map, key, value)
           IN  /\ WellFormed(new)
               /\ bitset_hash_map_get(new, key) = value
               /\ \A other \in Keys \ {key} :
                    bitset_hash_map_get(new, other) = bitset_hash_map_get(map, other)
<1> DEFINE new == Overwrite(map, key, value)
           b == Bucket(key)
<1>1. PICK m \in Places(map, key) : TRUE
  OBVIOUS
<1>2. Place(map, key) = m /\ Places(map, key) = {m}
  BY PlaceUnique
<1>3. /\ b \in Buckets
      /\ map.buckets \in [Buckets -> Seq(Element)]
      /\ map.element_count \in Nat
      /\ m \in DOMAIN map.buckets[b]
      /\ map.buckets[b] \in Seq(Element)
  BY BucketExists DEF WellFormed, HashMap, Places
<1> DEFINE element == [key |-> key, value |-> value]
           chain == [map.buckets[b] EXCEPT ![m] = element]
           buckets == [map.buckets EXCEPT ![b] = chain]
<1>4. new = [buckets |-> buckets, element_count |-> map.element_count]
  BY <1>2 DEF Overwrite
<1>5. element \in Element /\ element.key = key /\ element.value = value
  BY DEF Element
<1> HIDE DEF element
<1>6. map.buckets[b][m].key = key
  BY <1>1 DEF Places
<1>7. /\ chain \in Seq(Element)
      /\ DOMAIN chain = DOMAIN map.buckets[b]
      /\ chain[m].value = value
      /\ \A l \in DOMAIN chain : chain[l].key = map.buckets[b][l].key
      /\ \A l \in DOMAIN chain : l # m => chain[l] = map.buckets[b][l]
  BY <1>3, <1>5, <1>6
<1> HIDE DEF chain
<1>8. /\ new.buckets \in [Buckets -> Seq(Element)]
      /\ new \in HashMap
      /\ new.buckets[b] = chain
      /\ \A c \in Buckets : c # b => new.buckets[c] = map.buckets[c]
  <2>1. buckets \in [Buckets -> Seq(Element)]
    BY <1>3, <1>7
  <2>2. new \in HashMap /\ new.buckets = buckets
    BY <1>3, <1>4, <2>1, MapRecord
  <2> QED
    BY <1>3, <2>1, <2>2
<1> HIDE DEF new
<1>9. \A c \in Buckets :
        /\ DOMAIN new.buckets[c] = DOMAIN map.buckets[c]
        /\ \A l \in DOMAIN map.buckets[c] :
             new.buckets[c][l].key = map.buckets[c][l].key
  BY <1>7, <1>8
<1>10. WellFormed(new)
  BY <1>8, <1>9 DEF WellFormed, Chained
<1>11. \A k \in Keys : Places(new, k) = Places(map, k) /\ Place(new, k) = Place(map, k)
  <2>1. TAKE k \in Keys
  <2>2. Places(new, k) = Places(map, k)
    BY <1>9, BucketExists DEF Places
  <2> QED
    BY <2>2 DEF Place
<1>12. bitset_hash_map_get(new, key) = value
  BY <1>2, <1>7, <1>8, <1>11 DEF bitset_hash_map_get
<1>13. ASSUME NEW other \in Keys \ {key}
       PROVE  bitset_hash_map_get(new, other) = bitset_hash_map_get(map, other)
  <2>1. CASE Places(map, other) = {}
    BY <1>11, <2>1 DEF bitset_hash_map_get
  <2>2. CASE Places(map, other) # {}
    <3>1. PICK l \in Places(map, other) : TRUE
      BY <2>2
    <3>2. Place(map, other) = l
      BY <3>1, PlaceUnique
    <3>3. /\ Bucket(other) \in Buckets
          /\ l \in DOMAIN map.buckets[Bucket(other)]
          /\ map.buckets[Bucket(other)][l].key = other
      BY <3>1, BucketExists DEF Places
    <3>4. map.buckets[b][m].key = key
      BY <1>1 DEF Places
    <3>5. new.buckets[Bucket(other)][l] = map.buckets[Bucket(other)][l]
      BY <1>7, <1>8, <3>3, <3>4
    <3> QED
      BY <1>11, <2>2, <3>2, <3>5 DEF bitset_hash_map_get
  <2> QED
    BY <2>1, <2>2
<1> QED
  BY <1>10, <1>12, <1>13 DEF new

(* What a new element changes.                                             *)
LEMMA InsertRight ==
    ASSUME bucket_count \in Nat \ {0}, NEW map, WellFormed(map),
           \A k \in Keys : hash(k) \in Nat,
           NEW key \in Keys, NEW value \in Values, Places(map, key) = {}
    PROVE  LET new == Insert(map, key, value)
           IN  /\ WellFormed(new)
               /\ bitset_hash_map_get(new, key) = value
               /\ \A other \in Keys \ {key} :
                    bitset_hash_map_get(new, other) = bitset_hash_map_get(map, other)
<1> DEFINE new == Insert(map, key, value)
           b == Bucket(key)
           element == [key |-> key, value |-> value]
           chain == Append(map.buckets[b], element)
           end == Len(map.buckets[b]) + 1
<1>1. /\ b \in Buckets
      /\ map.buckets \in [Buckets -> Seq(Element)]
      /\ map.element_count \in Nat
      /\ map.buckets[b] \in Seq(Element)
      /\ element \in Element
  BY BucketExists DEF WellFormed, HashMap, Element
<1>2. /\ chain \in Seq(Element)
      /\ DOMAIN chain = DOMAIN map.buckets[b] \cup {end}
      /\ end \notin DOMAIN map.buckets[b]
      /\ chain[end] = element
      /\ \A l \in DOMAIN map.buckets[b] : chain[l] = map.buckets[b][l]
  BY <1>1
<1> DEFINE buckets == [map.buckets EXCEPT ![b] = chain]
<1>3. new = [buckets |-> buckets, element_count |-> map.element_count + 1]
  BY DEF Insert
<1> HIDE DEF chain, end
<1>4. /\ new.buckets \in [Buckets -> Seq(Element)]
      /\ new \in HashMap
      /\ new.buckets[b] = chain
      /\ \A c \in Buckets : c # b => new.buckets[c] = map.buckets[c]
  <2>1. buckets \in [Buckets -> Seq(Element)] /\ map.element_count + 1 \in Nat
    BY <1>1, <1>2
  <2>2. new \in HashMap /\ new.buckets = buckets
    <3> HIDE DEF new, buckets
    <3> QED
      BY <1>3, <2>1, MapRecord
  <2> QED
    BY <1>1, <2>1, <2>2
<1> HIDE DEF new
<1>5. element.key = key /\ element.value = value
  OBVIOUS
<1> HIDE DEF element
<1>6. \A l \in DOMAIN map.buckets[b] : map.buckets[b][l].key # key
  BY DEF Places
<1>7. Chained(new)
  <2>1. SUFFICES ASSUME NEW c \in Buckets, NEW m \in DOMAIN new.buckets[c]
                 PROVE  /\ Bucket(new.buckets[c][m].key) = c
                        /\ \A l \in DOMAIN new.buckets[c] :
                             new.buckets[c][l].key = new.buckets[c][m].key => l = m
    BY DEF Chained
  <2>2. CASE c # b
    BY <1>4, <2>2 DEF WellFormed, Chained
  <2>3. CASE c = b
    BY <1>1, <1>2, <1>4, <1>5, <1>6, <2>3 DEF WellFormed, Chained
  <2> QED
    BY <2>2, <2>3
<1>8. WellFormed(new)
  BY <1>4, <1>7 DEF WellFormed
<1>9. bitset_hash_map_get(new, key) = value
  <2>1. end \in Places(new, key)
    BY <1>2, <1>4, <1>5 DEF Places
  <2>2. Place(new, key) = end
    BY <1>8, <2>1, PlaceUnique
  <2> QED
    BY <1>2, <1>4, <1>5, <2>1, <2>2 DEF bitset_hash_map_get
<1>10. ASSUME NEW other \in Keys \ {key}
       PROVE  bitset_hash_map_get(new, other) = bitset_hash_map_get(map, other)
  <2>1. Bucket(other) \in Buckets
    BY BucketExists
  <2>2. Places(new, other) = Places(map, other)
    BY <1>1, <1>2, <1>4, <1>5, <2>1 DEF Places
  <2>3. Place(new, other) = Place(map, other)
    BY <2>2 DEF Place
  <2>4. CASE Places(map, other) = {}
    BY <2>2, <2>4 DEF bitset_hash_map_get
  <2>5. CASE Places(map, other) # {}
    <3>1. PICK l \in Places(map, other) : TRUE
      BY <2>5
    <3>2. Place(map, other) = l
      BY <3>1, PlaceUnique
    <3>3. new.buckets[Bucket(other)][l] = map.buckets[Bucket(other)][l]
      BY <1>2, <1>4, <2>1, <3>1 DEF Places
    <3> QED
      BY <2>2, <2>3, <2>5, <3>2, <3>3 DEF bitset_hash_map_get
  <2> QED
    BY <2>4, <2>5
<1> QED
  BY <1>8, <1>9, <1>10 DEF new

(* bitset_hash_map_put leaves a well-formed map in which the key has the   *)
(* value put last and every other key the one it had, also those that      *)
(* share its bucket: the memo tables of the recursions over components     *)
(* never answer for another set of arguments.                              *)
THEOREM PutRight ==
    ASSUME bucket_count \in Nat \ {0}, NEW map, WellFormed(map),
           \A k \in Keys : hash(k) \in Nat,
           NEW key \in Keys, NEW value \in Values
    PROVE  LET new == bitset_hash_map_put(map, key, value)
           IN  /\ WellFormed(new)
               /\ bitset_hash_map_get(new, key) = value
               /\ \A other \in Keys \ {key} :
                    bitset_hash_map_get(new, other) = bitset_hash_map_get(map, other)
<1>1. CASE Places(map, key) # {}
  BY <1>1, OverwriteRight DEF bitset_hash_map_put
<1>2. CASE Places(map, key) = {}
  BY <1>2, InsertRight DEF bitset_hash_map_put
<1> QED
  BY <1>1, <1>2

-------------------------------------------------------------------------------
(* The closure loop.                                                         *)

(* The subset test of the loop decides whether the set defends the argument. *)
LEMMA DefendedByVictims ==
    ASSUME NEW att \in Framework, NEW t \in SUBSET Arg, NEW a \in Arg
    PROVE  Transpose(att)[a] \subseteq Victims(att, t) <=> SetDefendsArg(att, t, a)
BY DEF Framework, Transpose, Victims, SetDefendsArg

LEMMA VictimsType ==
    ASSUME NEW att \in Framework, NEW t
    PROVE  Victims(att, t) \in SUBSET Arg
BY DEF Framework, Victims

(* The victims of a set and of one more argument.                            *)
LEMMA VictimsAdd ==
    ASSUME NEW att \in Framework, NEW t \in SUBSET Arg, NEW a \in Arg
    PROVE  Victims(att, t \cup {a}) = Victims(att, t) \cup att[a]
BY DEF Framework, Victims, SetAttacksArg

-------------------------------------------------------------------------------
WithinClosure == s \subseteq r /\ r \subseteq SemiClosure(attacks, s)

\* A pass that has added nothing has tested every argument below i against the
\* victims as they still are.
PassedOver ==
    ~closure_modified =>
        \A a \in Arg : a < i /\ Transpose(attacks)[a] \subseteq victims_r => a \in r

AtTheEnd == pc = "done" => i = N /\ ~closure_modified

IInv == TypeOK /\ VictimsInStep /\ WithinClosure /\ PassedOver /\ AtTheEnd

LEMMA InitIInv == Init => IInv
<1> SUFFICES ASSUME Init PROVE IInv
    OBVIOUS
<1> USE NAssumption, InputsAssumption
<1>1. TypeOK
    <2>1. attacks \in Framework /\ DOMAIN attacks = Arg
        BY DEF Init, Framework
    <2>2. r \in SUBSET Arg /\ victims_r \in SUBSET Arg /\ i \in 0 .. N
        BY <2>1, VictimsType DEF Init
    <2> QED
        BY <2>1, <2>2, Zenon DEF Init, TypeOK
<1>2. VictimsInStep
    BY DEF Init, VictimsInStep
<1>3. WithinClosure
    BY DEF Init, WithinClosure, SemiClosure, Framework
<1>4. PassedOver
    BY DEF Init, PassedOver, Arg
<1>5. AtTheEnd
    BY DEF Init, AtTheEnd
<1> QED
    BY <1>1, <1>2, <1>3, <1>4, <1>5 DEF IInv

LEMMA AddIInv == IInv /\ Add => IInv'
<1> SUFFICES ASSUME IInv, Add PROVE IInv'
    OBVIOUS
<1> USE NAssumption
<1>1. attacks \in Framework /\ r \in SUBSET Arg /\ s \in SUBSET Arg /\ i \in Arg
    BY DEF IInv, TypeOK, Add, Arg
<1>2. TypeOK'
    <2>1. attacks[i] \subseteq Arg
        BY <1>1 DEF Framework
    <2>2. r' \in SUBSET Arg /\ victims_r' \in SUBSET Arg
        BY <1>1, <2>1 DEF IInv, TypeOK, Add
    <2>3. i' \in 0 .. N
        BY <1>1 DEF Add, Arg
    <2> QED
        BY <2>2, <2>3, Zenon DEF IInv, TypeOK, Add
<1>3. VictimsInStep'
    BY <1>1, VictimsAdd DEF IInv, VictimsInStep, Add
<1>4. WithinClosure'
    <2>1. SetDefendsArg(attacks, r, i)
        BY <1>1, DefendedByVictims DEF IInv, VictimsInStep, Add, DefendedSoFar
    <2>2. i \in SemiClosure(attacks, s)
        BY <1>1, <2>1, ClosureKeepsDefended DEF IInv, WithinClosure
    <2> QED
        BY <2>2 DEF IInv, WithinClosure, Add
<1>5. PassedOver'
    BY DEF Add, PassedOver
<1>6. AtTheEnd'
    BY DEF Add, AtTheEnd
<1> QED
    BY <1>2, <1>3, <1>4, <1>5, <1>6 DEF IInv

LEMMA LeaveIInv == IInv /\ Leave => IInv'
<1> SUFFICES ASSUME IInv, Leave PROVE IInv'
    OBVIOUS
<1> USE NAssumption
<1>1. TypeOK'
    BY DEF IInv, TypeOK, Leave
<1>2. VictimsInStep' /\ WithinClosure' /\ AtTheEnd'
    BY DEF IInv, VictimsInStep, WithinClosure, AtTheEnd, Leave
<1>3. PassedOver'
    <2> SUFFICES ASSUME ~closure_modified, NEW a \in Arg, a < i + 1,
                        Transpose(attacks)[a] \subseteq victims_r
                 PROVE  a \in r
        BY DEF PassedOver, Leave
    <2>1. CASE a < i
        BY <2>1 DEF IInv, PassedOver
    <2>2. CASE a = i
        BY <2>2 DEF Leave, DefendedSoFar
    <2> QED
        BY <2>1, <2>2 DEF IInv, TypeOK, Arg
<1> QED
    BY <1>1, <1>2, <1>3 DEF IInv

LEMMA NextIInv == IInv /\ [Next]_vars => IInv'
<1> SUFFICES ASSUME IInv, [Next]_vars PROVE IInv'
    OBVIOUS
<1>1. CASE Add
    BY <1>1, AddIInv
<1>2. CASE Leave
    BY <1>2, LeaveIInv
<1>3. CASE Again
    <2>1. TypeOK'
        <3>1. 0 \in 0 .. N
            BY NAssumption
        <3> QED
            BY <1>3, <3>1, Zenon DEF IInv, TypeOK, Again
    <2>3. VictimsInStep' /\ WithinClosure' /\ AtTheEnd'
        BY <1>3 DEF IInv, VictimsInStep, WithinClosure, AtTheEnd, Again
    <2>2. PassedOver'
        BY <1>3, NAssumption DEF PassedOver, Again, Arg
    <2> QED
        BY <2>1, <2>2, <2>3 DEF IInv
<1>4. CASE Finish
    BY <1>4 DEF IInv, TypeOK, VictimsInStep, WithinClosure, PassedOver, AtTheEnd, Finish
<1>5. CASE Returned \/ UNCHANGED vars
    BY <1>5
    DEF IInv, TypeOK, VictimsInStep, WithinClosure, PassedOver, AtTheEnd, Returned, vars
<1> QED
    BY <1>1, <1>2, <1>3, <1>4, <1>5 DEF Next

(* A pass that adds nothing has left the set semi-complete.                  *)
LEMMA DoneIsLeast == IInv => LeastClosure
<1> SUFFICES ASSUME IInv, pc = "done" PROVE r = SemiClosure(attacks, s)
    BY DEF LeastClosure
<1>1. attacks \in Framework /\ r \in SUBSET Arg /\ i = N /\ ~closure_modified
    BY DEF IInv, TypeOK, AtTheEnd
<1>2. ASSUME NEW a \in Arg, SetDefendsArg(attacks, r, a) PROVE a \in r
    <2>1. Transpose(attacks)[a] \subseteq victims_r
        BY <1>1, <1>2, DefendedByVictims DEF IInv, VictimsInStep
    <2> QED
        BY <1>1, <2>1, NAssumption DEF IInv, PassedOver, Arg
<1>3. SemiCompleteSet(attacks, r)
    BY <1>1, <1>2 DEF SemiCompleteSet, Framework
<1> QED
    BY <1>1, <1>3, ClosureLeast DEF IInv, WithinClosure

(* The closure loop keeps its types, in every framework and from every set.  *)
THEOREM ClosureTypes == Spec => []TypeOK
<1>1. IInv => TypeOK
    BY DEF IInv
<1> QED
    BY <1>1, InitIInv, NextIInv, PTL DEF Spec

(* closure_semi_complete returns the least set that contains its argument    *)
(* and everything it defends, although a pass tests early arguments against  *)
(* victims that later ones of the same pass extend.                          *)
THEOREM ClosureCorrect == Spec => []LeastClosure
BY InitIInv, NextIInv, DoneIsLeast, PTL DEF Spec
================================================================================
