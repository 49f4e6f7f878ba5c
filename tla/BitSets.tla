------------------------------ MODULE BitSets ------------------------------
(***************************************************************************)
(* The bit sets of bitset.h and bitset.c: a set of indices below a size,   *)
(* kept in an array of blocks of 64 bits.  A block is the set of the       *)
(* positions of its bits that are 1, so that &, | and ~ are intersection,  *)
(* union and difference.  All the routines below work block by block; the  *)
(* bits of the last block that lie behind the size take part in them.      *)
(*                                                                         *)
(* Every other module takes a bit set for the set of its indices.  What    *)
(* entitles it to is proved in Routines_proofs.                            *)
(***************************************************************************)
EXTENDS Integers, FiniteSets

Positions == 0 .. 63

(* The sizes the routines are called with: an array without a block has    *)
(* no last block to correct.                                               *)
Sizes == Nat \ {0}

base_count(size) == (size + 63) \div 64

Blocks(size) == 0 .. base_count(size) - 1

LastBlock(size) == base_count(size) - 1

BitSet(size) == [Blocks(size) -> SUBSET Positions]

create_bitset(size) == [i \in Blocks(size) |-> {}]

----------------------------------------------------------------------------
(* One bit.  The macros do not compare the index with the size.            *)

TEST_BIT(bs, k) == k % 64 \in bs[k \div 64]

SET_BIT(bs, k) == [bs EXCEPT ![k \div 64] = @ \cup {k % 64}]

RESET_BIT(bs, k) == [bs EXCEPT ![k \div 64] = @ \ {k % 64}]

----------------------------------------------------------------------------
(* All blocks.                                                             *)

(* The mask of the last block: size % 64 ones, or 64 if that is 0.         *)
get_last_full_block(size) ==
    IF size % 64 = 0 THEN Positions ELSE 0 .. (size % 64) - 1

MaskLast(bs, size) ==
    [bs EXCEPT ![LastBlock(size)] = @ \cap get_last_full_block(size)]

complement_bitset(bs, size) ==
    MaskLast([i \in Blocks(size) |-> Positions \ bs[i]], size)

bitset_set_minus(bs1, bs2, size) ==
    MaskLast([i \in Blocks(size) |-> bs1[i] \cap (Positions \ bs2[i])], size)

set_bitset(size) == MaskLast([i \in Blocks(size) |-> Positions], size)

reset_bitset(size) == [i \in Blocks(size) |-> {}]

bitset_intersection(bs1, bs2, size) ==
    [i \in Blocks(size) |-> bs1[i] \cap bs2[i]]

bitset_union(bs1, bs2, size) == [i \in Blocks(size) |-> bs1[i] \cup bs2[i]]

bitset_is_subset(bs1, bs2, size) ==
    \A i \in Blocks(size) : bs1[i] = bs1[i] \cap bs2[i]

bitset_is_equal(bs1, bs2, size) == \A i \in Blocks(size) : bs1[i] = bs2[i]

is_bitset_intersection_empty(bs1, bs2, size) ==
    \A i \in Blocks(size) : bs1[i] \cap bs2[i] = {}

bitset_is_emptyset(bs, size) == \A i \in Blocks(size) : bs[i] = {}

(* This one goes through the indices, not through the blocks.              *)
bitset_is_fullset(bs, size) == \A k \in 0 .. size - 1 : TEST_BIT(bs, k)

(* The exclusive or of the blocks, by which a hash map finds a bucket.      *)
get_key(bs, size) ==
    {p \in Positions : Cardinality({i \in Blocks(size) : p \in bs[i]}) % 2 = 1}

----------------------------------------------------------------------------
(* What a bit set stands for, and when the blocks say no more than that.   *)

Contents(bs, size) == {k \in 0 .. size - 1 : TEST_BIT(bs, k)}

PaddingClear(bs, size) == bs[LastBlock(size)] \subseteq get_last_full_block(size)

(* A bit set no routine misreads.                                          *)
Proper(bs, size) == bs \in BitSet(size) /\ PaddingClear(bs, size)
============================================================================
