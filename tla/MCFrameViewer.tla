--------------------------- MODULE MCFrameViewer ---------------------------
(***************************************************************************)
(* Two packets of one id, the first in two fragments and the second in one *)
(* that covers the first of these, and a packet of another id.             *)
(***************************************************************************)
EXTENDS FrameViewer

CONSTANTS pA, pB, pC

MCPackets == {pA, pB, pC}

MCIdOf == [p \in MCPackets |-> IF p = pC THEN 1 ELSE 0]

MCFragment(offset, length, last) ==
    [offset |-> offset, length |-> length, last |-> last]

MCCutOf ==
    [p \in MCPackets |->
        IF p = pA THEN <<MCFragment(0, 2, FALSE), MCFragment(2, 1, TRUE)>>
        ELSE <<MCFragment(0, 3, TRUE)>>]
=============================================================================
