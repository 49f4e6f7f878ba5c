--------------------------- MODULE BitSetHashMap ---------------------------
(***************************************************************************)
(* The hash map of bitset_hash_map.h, with which the recursions over       *)
(* components remember their results: chained buckets, chosen by get_key   *)
(* modulo the number of buckets.  A key is the set the caller's bit set    *)
(* holds; the map keeps a pointer, and its callers neither change nor free *)
(* the bit set behind it.  How many keys share a bucket is up to get_key,  *)
(* here hash, of which nothing is used but that equal keys have equal      *)
(* hashes.                                                                 *)
(*                                                                         *)
(* The modules of the recursions take the map for a function.  What        *)
(* entitles them to is proved in Routines_proofs.                          *)
(***************************************************************************)
EXTENDS Integers, Sequences

CONSTANTS
    Keys,           \* sets of arguments
    Values,         \* lists or numbers, NULL included
    NULL,
    bucket_count,
    hash(_)

Buckets == 0 .. bucket_count - 1

Bucket(key) == hash(key) % bucket_count

Element == [key : Keys, value : Values]

HashMap == [buckets : [Buckets -> Seq(Element)], element_count : Nat]

bitset_hash_map_init == [buckets |-> [b \in Buckets |-> <<>>], element_count |-> 0]

Places(map, key) ==
    {m \in DOMAIN map.buckets[Bucket(key)] : map.buckets[Bucket(key)][m].key = key}

\* The place in the chain the loop of either routine stops at.
Place(map, key) == CHOOSE m \in Places(map, key) : \A l \in Places(map, key) : m <= l

Overwrite(map, key, value) ==
    [buckets |-> [map.buckets EXCEPT ![Bucket(key)] =
                     [@ EXCEPT ![Place(map, key)] = [key |-> key, value |-> value]]],
     element_count |-> map.element_count]

Insert(map, key, value) ==
    [buckets |-> [map.buckets EXCEPT
                     ![Bucket(key)] = Append(@, [key |-> key, value |-> value])],
     element_count |-> map.element_count + 1]

bitset_hash_map_put(map, key, value) ==
    IF Places(map, key) # {} THEN Overwrite(map, key, value)
                             ELSE Insert(map, key, value)

\* A key put with NULL cannot be told from one that was never put.
bitset_hash_map_get(map, key) ==
    IF Places(map, key) # {} THEN map.buckets[Bucket(key)][Place(map, key)].value
                             ELSE NULL

----------------------------------------------------------------------------
\* Every element is in the bucket of its key, and no other one has that key.
Chained(map) ==
    \A b \in Buckets : \A m \in DOMAIN map.buckets[b] :
        /\ Bucket(map.buckets[b][m].key) = b
        /\ \A l \in DOMAIN map.buckets[b] :
               map.buckets[b][l].key = map.buckets[b][m].key => l = m

WellFormed(map) == map \in HashMap /\ Chained(map)
============================================================================
