---------------------------- MODULE MStreamMerge ----------------------------
(***************************************************************************)
(* Joining the fragments of one M-Stream packet                            *)
(* (tqdc/src/mstream.rs, TryFrom<&[&MStreamFragment]>): the code's loop    *)
(* over the fragments, then the copy of their payloads.  ComputesMerge     *)
(* relates the loop to the expression Merge of module MStream.             *)
(***************************************************************************)
EXTENDS MStream

CONSTANT Inputs   \* the slices of fragments the call may be given

ASSUME InputsAssumption == Inputs \subseteq Seq(Fragment)

-----------------------------------------------------------------------------
(* The loop *)

VARIABLES
    overflow_checks,      \* TRUE: a debug build
    fragments,            \* the argument
    next,                 \* the fragment the loop is about to examine
    current_offset,
    last_fragment_found,
    buffer,               \* <<fragment, byte>> pairs copied to user_data
    result                \* "running", or what the call returned

vars == <<overflow_checks, fragments, next, current_offset, last_fragment_found, buffer, result>>

\* The variables keep their types; the running offset stays a u16.
TypeOK ==
    /\ overflow_checks \in BOOLEAN
    /\ fragments \in Seq(Fragment)
    /\ next \in 1 .. Len(fragments) + 1
    /\ current_offset \in 0 .. OffsetModulus - 1
    /\ last_fragment_found \in BOOLEAN
    /\ \A b \in buffer : /\ b[1] \in 1 .. Len(fragments)
                         /\ b[2] \in 0 .. OffsetModulus - 1
    /\ result \in Outcome \cup {"running"}

Init ==
    /\ overflow_checks \in BOOLEAN
    /\ fragments \in Inputs
    /\ next = 1
    /\ current_offset = 0
    /\ last_fragment_found = FALSE
    /\ buffer = {}
    /\ result = "running"

Examining == result = "running" /\ next <= Len(fragments)

\* Mutant: a fragment that overlaps what was taken already is accepted.
ExpectedHereOrBefore == fragments[next].offset <= current_offset

ExpectedHere == fragments[next].offset = current_offset

\* Err("missing intermediate fragment")
MissingFragment ==
    /\ Examining
    /\ ~ ExpectedHere
    /\ result' = "missing_fragment"
    /\ UNCHANGED <<overflow_checks, fragments, next, current_offset, last_fragment_found, buffer>>

\* Mutant: only the LF flag of the fragment taken last counts.
TakeFragmentForgettingLast ==
    /\ Examining
    /\ ExpectedHere
    /\ LET fr  == fragments[next]
           sum == current_offset + fr.length
       IN  /\ last_fragment_found' = fr.last
           /\ IF sum >= OffsetModulus /\ overflow_checks
              THEN result' = "panic" /\ UNCHANGED <<next, current_offset>>
              ELSE /\ current_offset' = Wrap(sum)
                   /\ next' = next + 1
                   /\ UNCHANGED result
    /\ UNCHANGED <<overflow_checks, fragments, buffer>>

\* One turn of the loop that finds the fragment it expects.
TakeFragment ==
    /\ Examining
    /\ ExpectedHere
    /\ LET fr  == fragments[next]
           sum == current_offset + fr.length
       IN  /\ last_fragment_found' = (last_fragment_found \/ fr.last)
           /\ IF sum >= OffsetModulus /\ overflow_checks
              THEN result' = "panic" /\ UNCHANGED <<next, current_offset>>
              ELSE /\ current_offset' = Wrap(sum)
                   /\ next' = next + 1
                   /\ UNCHANGED result
    /\ UNCHANGED <<overflow_checks, fragments, buffer>>

\* After the loop: Err("last fragment not found"), or the copy of the payloads,
\* which panics on a first fragment too short for the event header.
Copied(frs) ==
    UNION {{<<k, b>> : b \in (IF frs[k].offset = 0 THEN HeaderLength ELSE 0)
                              .. frs[k].length - 1} : k \in 1 .. Len(frs)}

\* Mutant: the check for the last fragment is dropped.
FinishWithoutLast ==
    /\ result = "running"
    /\ next = Len(fragments) + 1
    /\ IF HeaderFits(fragments)
       THEN result' = "ok" /\ buffer' = Copied(fragments)
       ELSE result' = "panic" /\ UNCHANGED buffer
    /\ UNCHANGED <<overflow_checks, fragments, next, current_offset, last_fragment_found>>

Finish ==
    /\ result = "running"
    /\ next = Len(fragments) + 1
    /\ IF ~ last_fragment_found
       THEN result' = "no_last_fragment" /\ UNCHANGED buffer
       ELSE IF HeaderFits(fragments)
            THEN result' = "ok" /\ buffer' = Copied(fragments)
            ELSE result' = "panic" /\ UNCHANGED buffer
    /\ UNCHANGED <<overflow_checks, fragments, next, current_offset, last_fragment_found>>

Returned == result # "running" /\ UNCHANGED vars

Next == MissingFragment \/ TakeFragment \/ Finish \/ Returned

Spec == Init /\ [][Next]_vars

-----------------------------------------------------------------------------
(* Properties *)

\* The loop, with its early returns and the panic of a debug build's addition,
\* returns what Merge says of the whole slice.
ComputesMerge == result # "running" => result = Merge(fragments, overflow_checks)

\* The position in the packet of a byte of the buffer.
Position(b) == fragments[b[1]].offset + b[2]

\* When a sorted slice is accepted, the 16-bit running offset never wrapped on
\* the way (it may only wrap after the last fragment), and every byte of the
\* packet after the event header was copied exactly once.
AcceptedIsGapless ==
    result = "ok" /\ Sorted(fragments) =>
        /\ \A k \in 1 .. Len(fragments) - 1 :
              fragments[k + 1].offset = EndOf(fragments[k])
        /\ {Position(b) : b \in buffer}
              = HeaderLength .. EndOf(fragments[Len(fragments)]) - 1
        /\ \A b, c \in buffer : Position(b) = Position(c) => b = c

\* The slices of Inputs that are whole packets.
Cuts == {frs \in Inputs : IsCut(frs)}

\* Whatever fragments of one packet of less than 2^16 bytes reach the call, in
\* whatever order and with whatever repetitions, the only slice it accepts is
\* the whole packet in order.
AcceptsOnlyWholePacket ==
    result = "ok" =>
        \A cut \in Cuts :
            /\ ~ Overflows(cut[Len(cut)])
            /\ \A k \in 1 .. Len(fragments) :
                  \E j \in 1 .. Len(cut) : fragments[k] = cut[j]
            => fragments = cut

\* A whole packet in order is accepted, the longest one included: in a release
\* build the running offset wraps to 0 after its last fragment, where nothing
\* compares it any more, and a debug build panics there.
WholePacketAccepted ==
    result # "running" /\ fragments \in Cuts /\ fragments[1].length >= HeaderLength =>
        \/ result = "ok"
        \/ overflow_checks /\ Overflows(fragments[Len(fragments)]) /\ result = "panic"

\* mstream.rs:243-258, test_multifragment_wrong_order: the two fragments of
\* one packet, the second one first, are given to try_from and the result is
\* unwrapped, so the test expects them to be merged.
WrongOrderMerges ==
    \A cut \in Cuts :
        /\ Len(cut) = 2
        /\ fragments = <<cut[2], cut[1]>>
        /\ result # "running"
        => result = "ok"
=============================================================================
