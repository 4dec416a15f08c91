----------------------------- MODULE MCAssembly -----------------------------
(***************************************************************************)
(* From frames to the converter's file.  Packets p1 and p2 have the same    *)
(* id and the same shape, so that a mixture of the two can pass for a      *)
(* packet; p3 has another id, one fragment, and the time between theirs.   *)
(* Every sequence of at most MaxFrames of their frames, and of frames that *)
(* are not STREAM, is an input: late, missing, repeated and reordered      *)
(* fragments are all among them.  p2 is older than p1 by more than the     *)
(* lead, so that times wrap when it comes after p1 and not before.         *)
(***************************************************************************)
EXTENDS Likhovid

CONSTANTS p1, p2, p3, MaxFrames

MCPackets == {p1, p2, p3}

MCIdOf == [p \in MCPackets |-> IF p = p3 THEN 0 ELSE 1]

MCTaiOf == [p \in MCPackets |-> CASE p = p1 -> 6 [] p = p2 -> 2 [] p = p3 -> 4]

MCFragment(offset, length, last) ==
    [offset |-> offset, length |-> length, last |-> last]

MCCutOf ==
    [p \in MCPackets |->
        IF p = p3 THEN <<MCFragment(0, 2, TRUE)>>
        ELSE <<MCFragment(0, 2, FALSE), MCFragment(2, 1, TRUE)>>]

MCFrame(stream, packet, part) ==
    [stream |-> stream, packet |-> packet, part |-> part]

MCFrames ==
    {MCFrame(TRUE, p, n) : p \in {p1, p2}, n \in {1, 2}}
        \cup {MCFrame(TRUE, p3, 1), MCFrame(FALSE, p3, 1)}

MCInputs == BoundedSeq(MCFrames, MaxFrames)

MCBlock(type, ch, waveform) == [type |-> type, ch |-> ch, waveform |-> waveform]

\* A waveform without a reset; an empty one and one that falls at once, with a
\* TDC block between the two.
MCLists ==
    {<<MCBlock(ADC, 0, <<0, 0, 4>>)>>,
     <<MCBlock(ADC, 1, <<>>), MCBlock(TDC, 0, <<7>>), MCBlock(ADC, 0, <<-8, 0>>)>>}

\* An unknown type; a waveform that ends before its length.
MCMalformed == {<<0, 2 * ChannelModulus>>, <<2, ADC * ChannelModulus, 0, 1>>}

MCSuppressions == {NoSuppression, 2}

MCLimits == {NoLimit, 1}
=============================================================================
