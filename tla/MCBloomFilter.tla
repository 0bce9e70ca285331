--------------------------- MODULE MCBloomFilter ---------------------------
(* BloomFilter for TLC: the numbers of bloom_test.cpp and one that is not   *)
(* inserted there; std::hash of an int is the int.                         *)
EXTENDS BloomFilter

MCElements == {10294, 12323, 79389, 5}
MCHash == [e \in Elements |-> e]
=============================================================================
