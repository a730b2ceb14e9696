------------------------------ MODULE SeqArith ------------------------------
(***************************************************************************)
(* Wrap-around sequence-number arithmetic of src/src/utils/seq_comparison.h*)
(* The code works on uint16_t; the width is the constant SeqModulus        *)
(* (2^16 in the code, a small power of two for model checking).  Every    *)
(* comparison below is written exactly as the C++ branches compute it, so  *)
(* the modules that use it inherit the code's behaviour at the wrap.      *)
(***************************************************************************)
EXTENDS Integers

CONSTANT SeqModulus        \* 2^16 for uint16_t

ASSUME SeqModulus \in {2^k : k \in 2..16}

\* std::numeric_limits<uint16_t>::max()
MaxSeq == SeqModulus - 1

Seqs == 0..MaxSeq

\* IsSeqAfterInRange(a, b, range_num): b lies within range_num after a.
IsSeqAfterInRange(a, b, range_num) ==
    /\ a # b
    /\ IF b > a THEN b - a <= range_num
                ELSE MaxSeq - a + b + 1 <= range_num

\* IsSeqBeforeInRange(a, b, range_num): a lies within range_num before b.
IsSeqBeforeInRange(a, b, range_num) == IsSeqAfterInRange(a, b, range_num)

\* IsNextSeq(a, b): b is the successor of a.
IsNextSeq(a, b) == IsSeqAfterInRange(a, b, 1)

\* IsSeqAfter(a, b): b comes after a, i.e. within max_seq >> 1 of it.
IsSeqAfter(a, b) == IsSeqAfterInRange(a, b, MaxSeq \div 2)

\* IsSeqBefore(a, b): a comes before b.
IsSeqBefore(a, b) == IsSeqAfter(a, b)

\* (mutant) the wrapped branch without the + 1.
MutDiffSeq(a, b) == IF b >= a THEN b - a ELSE b + MaxSeq - a

\* DiffSeq(a, b): forward distance from a to b.
DiffSeq(a, b) == IF b >= a THEN b - a ELSE b + MaxSeq - a + 1
=============================================================================
