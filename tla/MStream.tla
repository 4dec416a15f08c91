------------------------------ MODULE MStream ------------------------------
(***************************************************************************)
(* M-Stream fragments, and what joining a slice of them returns            *)
(* (tqdc/src/mstream.rs).                                                  *)
(*                                                                         *)
(* A fragment is its header: where its payload starts in the packet, how   *)
(* many bytes it holds, and the LF flag.  Merge(frs, checks) says in one   *)
(* expression what TryFrom<&[&MStreamFragment]> does with frs, in a build  *)
(* that checks u16 additions for overflow (a debug build) or does not;     *)
(* MStreamMerge models the code's loop and shows it computes this.         *)
(***************************************************************************)
EXTENDS Integers, Sequences

CONSTANTS
    OffsetModulus,   \* fragment_offset and length are u16: 2^16
    HeaderLength     \* bytes of event header at the start of a packet: 16

Fragment == [offset : 0 .. OffsetModulus - 1,
             length : 0 .. OffsetModulus - 1,
             last   : BOOLEAN]

ASSUME MStreamAssumption ==
    /\ OffsetModulus \in Nat \ {0}
    /\ HeaderLength \in Nat

-----------------------------------------------------------------------------
(* What the call returns *)

\* Mutant: the running offset is wider than the u16 it is compared with.
WrapWidened(n) == n

Wrap(n) == IF n >= OffsetModulus THEN n - OffsetModulus ELSE n

EndOf(fr) == fr.offset + fr.length

Overflows(fr) == EndOf(fr) >= OffsetModulus

\* The value of current_offset when the loop reaches fragment k: the loop only
\* gets there when every fragment before k started where it was expected.
Expected(frs, k) == IF k = 1 THEN 0 ELSE Wrap(EndOf(frs[k - 1]))

GapAt(frs, k) == frs[k].offset # Expected(frs, k)

Chained(frs) == \A k \in 1 .. Len(frs) : ~ GapAt(frs, k)

\* In a debug build the u16 "+=" panics when it overflows, if no gap has stopped
\* the loop by then.
AddPanics(frs) ==
    \E k \in 1 .. Len(frs) :
        Overflows(frs[k]) /\ \A j \in 1 .. k : ~ GapAt(frs, j)

HasLast(frs) == \E k \in 1 .. Len(frs) : frs[k].last

\* Mutant: a header with no payload behind it is refused.
HeaderFitsStrictly(frs) ==
    \A k \in 1 .. Len(frs) : frs[k].offset = 0 => frs[k].length > HeaderLength

\* The copy reads the 16 header bytes of every fragment at offset 0.
HeaderFits(frs) ==
    \A k \in 1 .. Len(frs) : frs[k].offset = 0 => frs[k].length >= HeaderLength

Outcome == {"ok", "missing_fragment", "no_last_fragment", "panic"}

Merge(frs, checks) ==
    IF checks /\ AddPanics(frs) THEN "panic"
    ELSE IF ~ Chained(frs) THEN "missing_fragment"
    ELSE IF ~ HasLast(frs) THEN "no_last_fragment"
    ELSE IF HeaderFits(frs) THEN "ok" ELSE "panic"

-----------------------------------------------------------------------------
(* Slices *)

\* The fragments the device cuts a packet into: contiguous from 0, LF on the
\* last one only.
IsCut(frs) ==
    /\ Len(frs) > 0
    /\ frs[1].offset = 0
    /\ \A k \in 1 .. Len(frs) :
          /\ frs[k].last <=> k = Len(frs)
          /\ frs[k].length > 0
          /\ k < Len(frs) => frs[k + 1].offset = EndOf(frs[k])

\* The slices frames_to_events hands over: the values of a BTreeMap keyed by the
\* fragment offset, so in increasing order of offset and without repetition.
Sorted(frs) == \A j, k \in 1 .. Len(frs) : j < k => frs[j].offset < frs[k].offset
=============================================================================
