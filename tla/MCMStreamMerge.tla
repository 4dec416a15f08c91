-------------------------- MODULE MCMStreamMerge --------------------------
(* Every slice of at most MaxFragments fragments over a 2^2-byte packet.   *)
EXTENDS MStreamMerge, SequencesExt

CONSTANTS MaxFragments

MCFragment == [offset : 0 .. OffsetModulus - 1,
               length : 0 .. OffsetModulus - 1,
               last   : BOOLEAN]

MCInputs == BoundedSeq(MCFragment, MaxFragments)
===========================================================================
