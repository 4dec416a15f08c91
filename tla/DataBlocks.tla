----------------------------- MODULE DataBlocks -----------------------------
(***************************************************************************)
(* MStreamTriggerAndUserData::extract_data_blocks (tqdc/src/mstream.rs):   *)
(* the user data of a packet cut into data blocks.                         *)
(*                                                                         *)
(* User data is a sequence of 16-bit words.  A block is two words of       *)
(* header - the length of its payload, then its type and channel - and the *)
(* payload: for an ADC block a time stamp, the length of the waveform and  *)
(* its bins.  Lengths are bytes in the code and words here: the lengths of *)
(* the model are the even ones.  The low byte of the second word is never  *)
(* read and left out, so that the word is type * ChannelModulus + channel. *)
(***************************************************************************)
EXTENDS Integers, Sequences, SequencesExt

CONSTANTS
    ChannelModulus,    \* channel_number is four bits: 16
    LengthModulus      \* a length is a u16 of bytes: 2^15

ASSUME ChannelAssumption ==
    /\ ChannelModulus \in Nat \ {0}
    /\ LengthModulus \in Nat \ {0}

TDC == 0
ADC == 1

\* What is seen of a data block.  Whatever stands where a length is looked for is
\* read as a number without a sign.
LengthAt(data, offset) == data[offset + 1] % LengthModulus
TypeAt(data, offset) == data[offset + 2] \div ChannelModulus
ChannelAt(data, offset) == data[offset + 2] % ChannelModulus
BinsAt(data, offset) == data[offset + 4] % LengthModulus

WaveformAt(data, offset) == SubSeq(data, offset + 5, offset + 4 + BinsAt(data, offset))

\* What is pushed for it.
PushedAt(data, offset) ==
    IF TypeAt(data, offset) = ADC
    THEN <<[ch |-> ChannelAt(data, offset), waveform |-> WaveformAt(data, offset)]>>
    ELSE <<>>

\* Mutant: the block's own header is not stepped over.
NextOffsetShort(data, offset) == offset + LengthAt(data, offset)

\* offset += data_payload_length + 4 bytes
NextOffset(data, offset) == offset + LengthAt(data, offset) + 2

\* Reading past the end panics, and so does a type that is neither.  The length
\* of a waveform is held against the end of the data only, not against the
\* length of its block.
Readable(data, offset) ==
    /\ offset + 2 <= Len(data)
    /\ \/ TypeAt(data, offset) = TDC
       \/ /\ TypeAt(data, offset) = ADC
          /\ offset + 4 <= Len(data)
          /\ offset + 4 + BinsAt(data, offset) <= Len(data)

\* One turn of the loop, which is over at the end of the data and at a panic.
Turn(data, loop) ==
    IF ~ loop.ok \/ loop.offset >= Len(data) THEN loop
    ELSE IF ~ Readable(data, loop.offset) THEN [loop EXCEPT !.ok = FALSE]
    ELSE [ok |-> TRUE, offset |-> NextOffset(data, loop.offset),
          blocks |-> loop.blocks \o PushedAt(data, loop.offset)]

\* Each turn steps over a header, so that there are no more turns than words.
Extract(data) ==
    LET after[n \in 0 .. Len(data)] ==
            IF n = 0 THEN [ok |-> TRUE, offset |-> 0, blocks |-> <<>>]
            ELSE Turn(data, after[n - 1])
    IN  after[Len(data)]

-----------------------------------------------------------------------------
(* What the board packs *)

Channels == 0 .. ChannelModulus - 1

\* Its payload has to have a length.
DataBlock == [type : {TDC, ADC}, ch : Channels,
              waveform : {w \in Seq(Int) : Len(w) + 2 < LengthModulus}]

\* The words of one block: an ADC block holds its stamp, the length of its
\* waveform and the waveform; a TDC block holds what it was given.
Packed(block) ==
    LET payload == IF block.type = ADC
                   THEN <<0, Len(block.waveform)>> \o block.waveform
                   ELSE block.waveform
    IN  <<Len(payload), block.type * ChannelModulus + block.ch>> \o payload

Pack(list) == FlattenSeq([k \in 1 .. Len(list) |-> Packed(list[k])])

ADCBlocks(list) ==
    FlattenSeq([k \in 1 .. Len(list) |->
        IF list[k].type = ADC THEN <<[ch |-> list[k].ch, waveform |-> list[k].waveform]>>
        ELSE <<>>])
=============================================================================
