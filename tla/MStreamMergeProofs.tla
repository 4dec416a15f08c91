------------------------- MODULE MStreamMergeProofs -------------------------
(***************************************************************************)
(* For every slice of fragments, every width of the offsets and length of  *)
(* the header: the loop returns what Merge says, and what Merge accepts is *)
(* a whole packet.                                                         *)
(*                                                                         *)
(* While the loop runs, the fragments behind it are chained and, in a      *)
(* debug build, did not overflow; its two variables are what Merge reads   *)
(* off the slice (LoopInv).  The rest is about slices alone: in a chain    *)
(* with increasing offsets each fragment ends where the next begins.       *)
(***************************************************************************)
EXTENDS MStreamMerge, SequenceLemmas

\* The fragments behind the loop, and what it remembers of them.
LoopInv ==
    result = "running" =>
        /\ \A k \in 1 .. next - 1 : ~ GapAt(fragments, k)
        /\ overflow_checks => \A k \in 1 .. next - 1 : ~ Overflows(fragments[k])
        /\ current_offset = Expected(fragments, next)
        /\ last_fragment_found <=> \E k \in 1 .. next - 1 : fragments[k].last

\* What was copied when the call returned.
CopyInv == buffer = IF result = "ok" THEN Copied(fragments) ELSE {}

Inv == TypeOK /\ LoopInv /\ CopyInv /\ ComputesMerge /\ fragments \in Inputs

-----------------------------------------------------------------------------
(* The loop *)

\* A fragment of a slice has its fields.
LEMMA FragmentFields ==
    ASSUME NEW frs \in Seq(Fragment), NEW k \in 1 .. Len(frs)
    PROVE  /\ frs[k] \in Fragment
           /\ frs[k].offset \in 0 .. OffsetModulus - 1
           /\ frs[k].length \in 0 .. OffsetModulus - 1
           /\ frs[k].last \in BOOLEAN
           /\ EndOf(frs[k]) \in Nat
           /\ Wrap(EndOf(frs[k])) \in 0 .. OffsetModulus - 1
<1>1. frs[k] \in Fragment
  OBVIOUS
<1>. QED BY <1>1, MStreamAssumption DEF Fragment, EndOf, Wrap

LEMMA InitInv == Init => Inv
<1>. SUFFICES ASSUME Init PROVE Inv
  OBVIOUS
<1>1. fragments \in Seq(Fragment)
  BY InputsAssumption DEF Init
<1>2. 1 \in 1 .. Len(fragments) + 1 /\ 0 \in 0 .. OffsetModulus - 1
  BY <1>1, MStreamAssumption
<1>3. TypeOK
  BY <1>1, <1>2 DEF Init, TypeOK
<1>. QED BY <1>3 DEF Init, Inv, LoopInv, CopyInv, ComputesMerge, Expected

LEMMA MissingInv ==
    ASSUME Inv, MissingFragment
    PROVE  Inv'
<1>1. /\ result = "running" /\ next \in 1 .. Len(fragments)
      /\ GapAt(fragments, next) /\ result' = "missing_fragment"
      /\ UNCHANGED <<overflow_checks, fragments, next, current_offset, last_fragment_found,
                     buffer>>
  BY DEF Inv, TypeOK, LoopInv, MissingFragment, Examining, ExpectedHere, GapAt
<1>2. TypeOK'
  BY <1>1 DEF Inv, TypeOK, Outcome
<1>3. ~ Chained(fragments)
  BY <1>1 DEF Chained
<1>4. ~ (overflow_checks /\ AddPanics(fragments))
  <2>1. SUFFICES ASSUME overflow_checks, NEW k \in 1 .. Len(fragments),
                        Overflows(fragments[k]), \A j \in 1 .. k : ~ GapAt(fragments, j)
                 PROVE  FALSE
    BY DEF AddPanics
  <2>2. k < next
    BY <1>1, <2>1
  <2>3. k \in 1 .. next - 1
    BY <1>1, <2>2
  <2>. QED BY <1>1, <2>1, <2>3 DEF Inv, LoopInv
<1>5. ComputesMerge'
  BY <1>1, <1>3, <1>4 DEF ComputesMerge, Merge
<1>. QED BY <1>1, <1>2, <1>5 DEF Inv, LoopInv, CopyInv

LEMMA TakeInv ==
    ASSUME Inv, TakeFragment
    PROVE  Inv'
<1>. DEFINE fr == fragments[next]
<1>1. /\ result = "running" /\ next \in 1 .. Len(fragments)
      /\ fr.offset = current_offset /\ current_offset = Expected(fragments, next)
      /\ last_fragment_found' = (last_fragment_found \/ fr.last)
      /\ UNCHANGED <<overflow_checks, fragments, buffer>>
  BY DEF Inv, TypeOK, LoopInv, TakeFragment, Examining, ExpectedHere
<1>2. /\ fr \in Fragment /\ fr.last \in BOOLEAN
      /\ EndOf(fr) \in Nat
      /\ Wrap(EndOf(fr)) \in 0 .. OffsetModulus - 1
  BY <1>1, FragmentFields DEF Inv, TypeOK
<1>3. current_offset + fr.length = EndOf(fr)
  BY <1>1 DEF EndOf
<1>4. \A k \in 1 .. next : ~ GapAt(fragments, k)
  BY <1>1 DEF Inv, LoopInv, GapAt
<1>5. CASE EndOf(fr) >= OffsetModulus /\ overflow_checks
  <2>1. result' = "panic" /\ UNCHANGED <<next, current_offset>>
    BY <1>3, <1>5 DEF TakeFragment
  <2>2. TypeOK'
    BY <1>1, <1>2, <2>1 DEF Inv, TypeOK, Outcome
  <2>3. AddPanics(fragments)
    BY <1>1, <1>4, <1>5 DEF AddPanics, Overflows
  <2>. QED BY <1>1, <1>5, <2>1, <2>2, <2>3 DEF Inv, LoopInv, CopyInv, ComputesMerge, Merge
<1>6. CASE ~ (EndOf(fr) >= OffsetModulus /\ overflow_checks)
  <2>1. current_offset' = Wrap(EndOf(fr)) /\ next' = next + 1 /\ UNCHANGED result
    BY <1>3, <1>6 DEF TakeFragment
  <2>2. TypeOK'
    BY <1>1, <1>2, <2>1 DEF Inv, TypeOK
  <2>3. 1 .. next' - 1 = 1 .. next
    BY <1>1, <2>1
  <2>4. overflow_checks => \A k \in 1 .. next : ~ Overflows(fragments[k])
    BY <1>1, <1>6 DEF Inv, LoopInv, Overflows
  <2>5. current_offset' = Expected(fragments, next')
    BY <1>1, <2>1 DEF Expected
  <2>6. (last_fragment_found \/ fr.last) <=> \E k \in 1 .. next : fragments[k].last
    BY <1>1 DEF Inv, LoopInv
  <2>7. LoopInv'
    BY <1>1, <1>4, <2>3, <2>4, <2>5, <2>6 DEF LoopInv
  <2>. QED BY <1>1, <2>1, <2>2, <2>7 DEF Inv, CopyInv, ComputesMerge
<1>. QED BY <1>5, <1>6

\* The bytes copied are bytes of their fragments.
LEMMA CopiedBytes ==
    ASSUME NEW frs \in Seq(Fragment)
    PROVE  \A b \in Copied(frs) :
               /\ b[1] \in 1 .. Len(frs)
               /\ b[2] \in 0 .. frs[b[1]].length - 1
               /\ frs[b[1]].offset = 0 => b[2] >= HeaderLength
               /\ b = <<b[1], b[2]>>
<1>1. SUFFICES ASSUME NEW k \in 1 .. Len(frs),
                      NEW n \in (IF frs[k].offset = 0 THEN HeaderLength ELSE 0)
                                   .. frs[k].length - 1
               PROVE  /\ n \in 0 .. frs[k].length - 1
                      /\ frs[k].offset = 0 => n >= HeaderLength
  BY DEF Copied
<1>2. frs[k].length \in Nat
  BY FragmentFields, MStreamAssumption
<1>. QED BY <1>2, MStreamAssumption

LEMMA FinishInv ==
    ASSUME Inv, Finish
    PROVE  Inv'
<1>1. /\ result = "running" /\ next = Len(fragments) + 1
      /\ UNCHANGED <<overflow_checks, fragments, next, current_offset, last_fragment_found>>
      /\ fragments \in Seq(Fragment)
  BY DEF Finish, Inv, TypeOK
<1>2. 1 .. next - 1 = 1 .. Len(fragments)
  BY <1>1
<1>3. Chained(fragments)
  BY <1>1, <1>2 DEF Inv, LoopInv, Chained
<1>4. ~ (overflow_checks /\ AddPanics(fragments))
  BY <1>1, <1>2 DEF Inv, LoopInv, AddPanics
<1>5. last_fragment_found <=> HasLast(fragments)
  BY <1>1, <1>2 DEF Inv, LoopInv, HasLast
<1>6. /\ result' = Merge(fragments, overflow_checks)
      /\ result' \in Outcome
      /\ buffer' = IF result' = "ok" THEN Copied(fragments) ELSE {}
  BY <1>1, <1>3, <1>4, <1>5 DEF Finish, Merge, Outcome, Inv, CopyInv
<1>7. \A b \in buffer' : b[1] \in 1 .. Len(fragments) /\ b[2] \in 0 .. OffsetModulus - 1
  <2>1. \A b \in Copied(fragments) :
            /\ b[1] \in 1 .. Len(fragments)
            /\ b[2] \in 0 .. fragments[b[1]].length - 1
    BY <1>1, CopiedBytes
  <2>2. \A k \in 1 .. Len(fragments) : fragments[k].length \in 0 .. OffsetModulus - 1
    BY <1>1, FragmentFields
  <2>. QED BY <1>6, <2>1, <2>2, MStreamAssumption
<1>8. TypeOK'
  BY <1>1, <1>6, <1>7 DEF Inv, TypeOK
<1>9. result' # "running"
  BY <1>6 DEF Outcome
<1>. QED BY <1>1, <1>6, <1>8, <1>9 DEF Inv, LoopInv, CopyInv, ComputesMerge

LEMMA NextInv == Inv /\ [Next]_vars => Inv'
<1>. SUFFICES ASSUME Inv, [Next]_vars PROVE Inv'
  OBVIOUS
<1>1. CASE UNCHANGED vars
  BY <1>1 DEF Inv, vars, TypeOK, LoopInv, CopyInv, ComputesMerge
<1>. QED BY <1>1, MissingInv, TakeInv, FinishInv DEF Next, Returned

\* The types, the running offset of 16 bits above all.
THEOREM TypeCorrect == Spec => []TypeOK
<1>1. Inv => TypeOK
  BY DEF Inv
<1>. QED BY <1>1, InitInv, NextInv, PTL DEF Spec

\* For any slice, in either build, the loop returns what Merge says: its running
\* offset and its early returns amount to the chain, the last fragment and the
\* header.
THEOREM LoopComputesMerge == Spec => []ComputesMerge
<1>1. Inv => ComputesMerge
  BY DEF Inv
<1>. QED BY <1>1, InitInv, NextInv, PTL DEF Spec

-----------------------------------------------------------------------------
(* Slices *)

\* What a slice that is accepted is.
LEMMA Accepted ==
    ASSUME Inv, result = "ok"
    PROVE  /\ fragments \in Seq(Fragment)
           /\ Chained(fragments) /\ HasLast(fragments) /\ HeaderFits(fragments)
           /\ buffer = Copied(fragments)
           /\ Len(fragments) \in Nat \ {0}
<1>1. Merge(fragments, overflow_checks) = "ok"
  BY DEF Inv, ComputesMerge
<1>2. Chained(fragments) /\ HasLast(fragments) /\ HeaderFits(fragments)
  BY <1>1 DEF Merge
<1>3. fragments \in Seq(Fragment) /\ Len(fragments) \in Nat
  BY DEF Inv, TypeOK
<1>4. Len(fragments) # 0
  BY <1>2, <1>3 DEF HasLast
<1>. QED BY <1>2, <1>3, <1>4 DEF Inv, CopyInv

\* In a chain whose offsets increase no running offset wraps before the end.
LEMMA ChainContiguous ==
    ASSUME NEW frs \in Seq(Fragment), Chained(frs), Sorted(frs),
           NEW k \in 1 .. Len(frs) - 1
    PROVE  frs[k + 1].offset = EndOf(frs[k])
<1>1. k \in 1 .. Len(frs) /\ k + 1 \in 1 .. Len(frs) /\ k + 1 # 1 /\ (k + 1) - 1 = k
  OBVIOUS
<1>2. /\ frs[k].offset \in 0 .. OffsetModulus - 1
      /\ frs[k].length \in 0 .. OffsetModulus - 1
  BY <1>1, FragmentFields
<1>3. frs[k + 1].offset = Wrap(EndOf(frs[k]))
  BY <1>1 DEF Chained, GapAt, Expected
<1>4. frs[k].offset < frs[k + 1].offset
  BY <1>1 DEF Sorted
<1>. QED BY <1>2, <1>3, <1>4, MStreamAssumption DEF Wrap, EndOf

\* So each fragment ends before every later one begins.
LEMMA EndsBefore ==
    ASSUME NEW frs \in Seq(Fragment), Chained(frs), Sorted(frs),
           NEW j \in 1 .. Len(frs), NEW k \in 1 .. Len(frs), j < k
    PROVE  EndOf(frs[j]) <= frs[k].offset
<1>1. j \in 1 .. Len(frs) - 1 /\ j + 1 \in 1 .. Len(frs)
  OBVIOUS
<1>2. EndOf(frs[j]) = frs[j + 1].offset
  BY <1>1, ChainContiguous
<1>3. frs[j + 1].offset \in Nat /\ frs[k].offset \in Nat
  BY <1>1, FragmentFields, MStreamAssumption
<1>4. j + 1 = k \/ j + 1 < k
  OBVIOUS
<1>5. j + 1 < k => frs[j + 1].offset < frs[k].offset
  BY <1>1 DEF Sorted
<1>. QED BY <1>2, <1>3, <1>4, <1>5

\* A position between the header and the end of the packet.
LEMMA Within ==
    ASSUME NEW offset \in Nat, NEW length \in Nat, NEW end \in Nat, NEW header \in Nat,
           NEW byte \in 0 .. length - 1, offset + length <= end,
           offset # 0 => offset >= header, offset = 0 => byte >= header
    PROVE  offset + byte \in header .. end - 1
<1>1. CASE offset = 0
  BY <1>1
<1>2. CASE offset # 0
  BY <1>2
<1>. QED BY <1>1, <1>2

\* A byte that is copied comes after the header and before the end of the packet.
LEMMA BytesInPacket ==
    ASSUME NEW frs \in Seq(Fragment), Chained(frs), Sorted(frs), HeaderFits(frs),
           NEW b \in Copied(frs)
    PROVE  frs[b[1]].offset + b[2] \in HeaderLength .. EndOf(frs[Len(frs)]) - 1
<1>. DEFINE k == b[1]
<1>1. /\ k \in 1 .. Len(frs) /\ b[2] \in 0 .. frs[k].length - 1
      /\ frs[k].offset = 0 => b[2] >= HeaderLength
  BY CopiedBytes
<1>2. /\ 1 \in 1 .. Len(frs) /\ Len(frs) \in 1 .. Len(frs)
  BY <1>1
<1>3. \A i \in 1 .. Len(frs) :
          frs[i].offset \in Nat /\ frs[i].length \in Nat /\ EndOf(frs[i]) \in Nat
  BY FragmentFields, MStreamAssumption
<1>4. EndOf(frs[k]) <= EndOf(frs[Len(frs)])
  <2>1. CASE k = Len(frs)
    BY <2>1, <1>1, <1>3
  <2>2. CASE k < Len(frs)
    <3>1. EndOf(frs[k]) <= frs[Len(frs)].offset
      BY <1>1, <1>2, <2>2, EndsBefore
    <3>2. /\ frs[Len(frs)].offset \in Nat /\ frs[Len(frs)].length \in Nat
          /\ EndOf(frs[k]) \in Nat
      BY <1>1, <1>2, <1>3
    <3>3. EndOf(frs[Len(frs)]) = frs[Len(frs)].offset + frs[Len(frs)].length
      BY DEF EndOf
    <3>. QED BY <3>1, <3>2, <3>3
  <2>. QED BY <1>1, <2>1, <2>2
<1>5. frs[1].offset = 0
  BY <1>2 DEF Chained, GapAt, Expected
<1>6. frs[k].offset # 0 => frs[k].offset >= HeaderLength
  <2>1. SUFFICES ASSUME frs[k].offset # 0 PROVE frs[k].offset >= HeaderLength
    OBVIOUS
  <2>2. 1 < k
    BY <2>1, <1>1, <1>5
  <2>3. EndOf(frs[1]) <= frs[k].offset
    BY <1>1, <1>2, <2>2, EndsBefore
  <2>4. frs[1].length >= HeaderLength
    BY <1>2, <1>5 DEF HeaderFits
  <2>5. EndOf(frs[1]) = frs[1].length /\ frs[1].length \in Nat
    BY <1>2, <1>3, <1>5 DEF EndOf
  <2>6. frs[k].offset \in Nat
    BY <1>1, <1>3
  <2>. QED BY <2>3, <2>4, <2>5, <2>6, MStreamAssumption
<1>7. EndOf(frs[k]) = frs[k].offset + frs[k].length
  BY DEF EndOf
<1>8. /\ frs[k].offset \in Nat /\ frs[k].length \in Nat
      /\ EndOf(frs[Len(frs)]) \in Nat
  BY <1>1, <1>2, <1>3
<1>. QED BY <1>1, <1>4, <1>6, <1>7, <1>8, MStreamAssumption, Within

\* Every byte after the header is in the first fragment that ends beyond it.
LEMMA BytesCopied ==
    ASSUME NEW frs \in Seq(Fragment), Chained(frs), Sorted(frs), HeaderFits(frs),
           Len(frs) # 0,
           NEW x \in HeaderLength .. EndOf(frs[Len(frs)]) - 1
    PROVE  \E b \in Copied(frs) : frs[b[1]].offset + b[2] = x
<1>. DEFINE S == {k \in 1 .. Len(frs) : x < EndOf(frs[k])}
<1>1. Len(frs) \in 1 .. Len(frs) /\ 1 \in 1 .. Len(frs)
  OBVIOUS
<1>2. \A i \in 1 .. Len(frs) :
          frs[i].offset \in Nat /\ frs[i].length \in Nat /\ EndOf(frs[i]) \in Nat
  BY FragmentFields, MStreamAssumption
<1>3. x \in Nat /\ x >= HeaderLength /\ x < EndOf(frs[Len(frs)])
  BY <1>1, <1>2, MStreamAssumption
<1>4. S \in SUBSET Nat /\ S # {}
  BY <1>1, <1>3
<1>5. PICK k \in S : \A j \in S : k <= j
  BY <1>4, Least
<1>6. k \in 1 .. Len(frs) /\ x < EndOf(frs[k])
  BY <1>5
<1>7. frs[1].offset = 0
  BY <1>1 DEF Chained, GapAt, Expected
<1>8. frs[k].offset <= x
  <2>1. CASE k = 1
    BY <2>1, <1>3, <1>7
  <2>2. CASE k # 1
    <3>1. k - 1 \in 1 .. Len(frs) - 1 /\ k - 1 \in 1 .. Len(frs) /\ (k - 1) + 1 = k
      BY <1>6, <2>2
    <3>2. k - 1 \notin S
      BY <1>5, <3>1
    <3>3. ~ (x < EndOf(frs[k - 1]))
      BY <3>1, <3>2
    <3>4. frs[k].offset = EndOf(frs[k - 1])
      BY <3>1, ChainContiguous
    <3>. QED BY <3>1, <3>3, <3>4, <1>2, <1>3
  <2>. QED BY <2>1, <2>2
<1>9. x - frs[k].offset \in (IF frs[k].offset = 0 THEN HeaderLength ELSE 0)
                              .. frs[k].length - 1
  BY <1>2, <1>3, <1>6, <1>8, MStreamAssumption DEF EndOf
<1>10. <<k, x - frs[k].offset>> \in Copied(frs)
  BY <1>6, <1>9 DEF Copied
<1>11. frs[k].offset + (x - frs[k].offset) = x
  BY <1>2, <1>3, <1>6
<1>12. WITNESS <<k, x - frs[k].offset>> \in Copied(frs)
<1>. QED BY <1>11

LEMMA Beyond ==
    ASSUME NEW x \in Nat, NEW l \in Nat, NEW m \in 0 .. l - 1, NEW y \in Nat, NEW n \in Nat,
           x + l <= y
    PROVE  x + m # y + n
OBVIOUS

\* And in no other.
LEMMA BytesOnce ==
    ASSUME NEW frs \in Seq(Fragment), Chained(frs), Sorted(frs),
           NEW b \in Copied(frs), NEW c \in Copied(frs),
           frs[b[1]].offset + b[2] = frs[c[1]].offset + c[2]
    PROVE  b = c
<1>1. \A d \in {b, c} : /\ d[1] \in 1 .. Len(frs)
                        /\ d[2] \in 0 .. frs[d[1]].length - 1
                        /\ d = <<d[1], d[2]>>
  BY CopiedBytes
<1>2. \A i \in 1 .. Len(frs) :
          frs[i].offset \in Nat /\ frs[i].length \in Nat /\ EndOf(frs[i]) \in Nat
  BY FragmentFields, MStreamAssumption
<1>3. /\ frs[b[1]].offset \in Nat /\ frs[c[1]].offset \in Nat
      /\ frs[b[1]].length \in Nat /\ frs[c[1]].length \in Nat
      /\ b[2] \in 0 .. frs[b[1]].length - 1 /\ c[2] \in 0 .. frs[c[1]].length - 1
      /\ b[2] \in Nat /\ c[2] \in Nat
  BY <1>1, <1>2
<1>4. ~ (b[1] < c[1])
  <2>1. SUFFICES ASSUME b[1] < c[1] PROVE FALSE
    OBVIOUS
  <2>2. EndOf(frs[b[1]]) <= frs[c[1]].offset
    BY <1>1, <2>1, EndsBefore
  <2>3. EndOf(frs[b[1]]) = frs[b[1]].offset + frs[b[1]].length
    BY DEF EndOf
  <2>4. frs[b[1]].offset + frs[b[1]].length <= frs[c[1]].offset
    BY <2>2, <2>3
  <2>5. frs[b[1]].offset + b[2] # frs[c[1]].offset + c[2]
    BY <1>3, <2>4, Beyond
  <2>. QED BY <2>5
<1>5. ~ (c[1] < b[1])
  <2>1. SUFFICES ASSUME c[1] < b[1] PROVE FALSE
    OBVIOUS
  <2>2. EndOf(frs[c[1]]) <= frs[b[1]].offset
    BY <1>1, <2>1, EndsBefore
  <2>3. EndOf(frs[c[1]]) = frs[c[1]].offset + frs[c[1]].length
    BY DEF EndOf
  <2>4. frs[c[1]].offset + frs[c[1]].length <= frs[b[1]].offset
    BY <2>2, <2>3
  <2>5. frs[c[1]].offset + c[2] # frs[b[1]].offset + b[2]
    BY <1>3, <2>4, Beyond
  <2>. QED BY <2>5
<1>6. b[1] = c[1]
  BY <1>1, <1>4, <1>5
<1>7. b[2] = c[2]
  BY <1>3, <1>6
<1>. QED BY <1>1, <1>6, <1>7

\* For every slice in order of offset that is accepted: no 16-bit sum wrapped on
\* the way, and the bytes copied are those of the packet after the header, each
\* once.
THEOREM AcceptedSlicesGapless == Spec => []AcceptedIsGapless
<1>1. Inv => AcceptedIsGapless
  <2>1. SUFFICES ASSUME Inv, result = "ok", Sorted(fragments)
                 PROVE  /\ \A k \in 1 .. Len(fragments) - 1 :
                              fragments[k + 1].offset = EndOf(fragments[k])
                        /\ {Position(b) : b \in buffer}
                              = HeaderLength .. EndOf(fragments[Len(fragments)]) - 1
                        /\ \A b, c \in buffer : Position(b) = Position(c) => b = c
    BY DEF AcceptedIsGapless
  <2>2. /\ fragments \in Seq(Fragment) /\ Chained(fragments) /\ HeaderFits(fragments)
        /\ buffer = Copied(fragments) /\ Len(fragments) # 0
    BY <2>1, Accepted
  <2>3. \A k \in 1 .. Len(fragments) - 1 : fragments[k + 1].offset = EndOf(fragments[k])
    BY <2>1, <2>2, ChainContiguous
  <2>4. {Position(b) : b \in buffer} \subseteq
            HeaderLength .. EndOf(fragments[Len(fragments)]) - 1
    BY <2>1, <2>2, BytesInPacket DEF Position
  <2>5. HeaderLength .. EndOf(fragments[Len(fragments)]) - 1
            \subseteq {Position(b) : b \in buffer}
    BY <2>1, <2>2, BytesCopied DEF Position
  <2>6. \A b, c \in buffer : Position(b) = Position(c) => b = c
    BY <2>1, <2>2, BytesOnce DEF Position
  <2>. QED BY <2>3, <2>4, <2>5, <2>6
<1>. QED BY <1>1, InitInv, NextInv, PTL DEF Spec

-----------------------------------------------------------------------------
(* Whole packets *)

\* Fragments of a packet begin further on, one after the other.
LEMMA CutIncreases ==
    ASSUME NEW cut \in Seq(Fragment), IsCut(cut),
           NEW i \in 1 .. Len(cut)
    PROVE  \A j \in 1 .. Len(cut) : i < j => EndOf(cut[i]) <= cut[j].offset
<1>. DEFINE S == {j \in 1 .. Len(cut) : i < j /\ ~ (EndOf(cut[i]) <= cut[j].offset)}
<1>1. SUFFICES ASSUME S # {} PROVE FALSE
  OBVIOUS
<1>2. S \in SUBSET Nat
  OBVIOUS
<1>3. PICK j \in S : \A k \in S : j <= k
  BY <1>1, <1>2, Least
<1>4. /\ j \in 1 .. Len(cut) /\ i < j
      /\ ~ (EndOf(cut[i]) <= cut[j].offset)
  BY <1>3
<1>5. j - 1 \in 1 .. Len(cut) /\ j - 1 < Len(cut) /\ (j - 1) + 1 = j
  BY <1>4
<1>6. cut[j].offset = EndOf(cut[j - 1])
  BY <1>5 DEF IsCut
<1>7. /\ cut[j - 1].offset \in Nat /\ cut[j - 1].length \in Nat /\ EndOf(cut[i]) \in Nat
  BY <1>5, FragmentFields, MStreamAssumption
<1>8. CASE i = j - 1
  BY <1>4, <1>6, <1>7, <1>8
<1>9. CASE i < j - 1
  <2>1. j - 1 \notin S
    BY <1>3, <1>5
  <2>2. EndOf(cut[i]) <= cut[j - 1].offset
    BY <2>1, <1>5, <1>9
  <2>3. EndOf(cut[j - 1]) = cut[j - 1].offset + cut[j - 1].length
    BY DEF EndOf
  <2>4. EndOf(cut[i]) <= cut[j].offset
    BY <2>2, <2>3, <1>6, <1>7
  <2>. QED BY <2>4, <1>4
<1>. QED BY <1>4, <1>5, <1>8, <1>9

\* They are told apart by where they begin, and none goes beyond the last.
LEMMA CutOffsets ==
    ASSUME NEW cut \in Seq(Fragment), IsCut(cut)
    PROVE  /\ \A i, j \in 1 .. Len(cut) : cut[i].offset = cut[j].offset => i = j
           /\ \A i \in 1 .. Len(cut) : EndOf(cut[i]) <= EndOf(cut[Len(cut)])
           /\ \A i \in 1 .. Len(cut) : cut[i].offset < EndOf(cut[Len(cut)])
<1>1. \A i \in 1 .. Len(cut) :
          /\ cut[i].offset \in Nat /\ cut[i].length \in Nat /\ cut[i].length > 0
          /\ EndOf(cut[i]) = cut[i].offset + cut[i].length
  BY FragmentFields, MStreamAssumption DEF IsCut, EndOf
<1>2. \A i, j \in 1 .. Len(cut) : i < j => EndOf(cut[i]) <= cut[j].offset
  BY CutIncreases
<1>3. \A i, j \in 1 .. Len(cut) : i < j => cut[i].offset < cut[j].offset
  BY <1>1, <1>2
<1>4. \A i, j \in 1 .. Len(cut) : cut[i].offset = cut[j].offset => i = j
  <2>1. SUFFICES ASSUME NEW i \in 1 .. Len(cut), NEW j \in 1 .. Len(cut), i # j
                 PROVE  cut[i].offset # cut[j].offset
    OBVIOUS
  <2>2. i < j \/ j < i
    BY <2>1
  <2>. QED BY <2>2, <1>1, <1>3
<1>5. ASSUME NEW i \in 1 .. Len(cut)
      PROVE  /\ EndOf(cut[i]) <= EndOf(cut[Len(cut)])
             /\ cut[i].offset < EndOf(cut[Len(cut)])
  <2>1. Len(cut) \in 1 .. Len(cut)
    OBVIOUS
  <2>2. i < Len(cut) => EndOf(cut[i]) <= cut[Len(cut)].offset
    BY <2>1, <1>2
  <2>3. /\ EndOf(cut[i]) = cut[i].offset + cut[i].length
        /\ EndOf(cut[Len(cut)]) = cut[Len(cut)].offset + cut[Len(cut)].length
        /\ cut[i].offset \in Nat /\ cut[Len(cut)].offset \in Nat
        /\ cut[i].length \in Nat /\ cut[Len(cut)].length \in Nat
        /\ cut[i].length > 0
    BY <1>1, <2>1
  <2>4. i < Len(cut) \/ i = Len(cut)
    OBVIOUS
  <2>. QED BY <2>2, <2>3, <2>4
<1>. QED BY <1>4, <1>5

\* A chain of fragments of a packet that does not reach the modulus goes through
\* the packet from its beginning.
LEMMA ChainFollowsCut ==
    ASSUME NEW cut \in Seq(Fragment), IsCut(cut), ~ Overflows(cut[Len(cut)]),
           NEW frs \in Seq(Fragment), Chained(frs),
           \A k \in 1 .. Len(frs) : \E j \in 1 .. Len(cut) : frs[k] = cut[j]
    PROVE  \A k \in 1 .. Len(frs) : k <= Len(cut) /\ frs[k] = cut[k]
<1>. DEFINE S == {k \in 1 .. Len(frs) : ~ (k <= Len(cut) /\ frs[k] = cut[k])}
<1>1. SUFFICES ASSUME S # {} PROVE FALSE
  OBVIOUS
<1>2. S \in SUBSET Nat
  OBVIOUS
<1>3. PICK k \in S : \A i \in S : k <= i
  BY <1>1, <1>2, Least
<1>4. k \in 1 .. Len(frs) /\ ~ (k <= Len(cut) /\ frs[k] = cut[k])
  BY <1>3
<1>5. PICK j \in 1 .. Len(cut) : frs[k] = cut[j]
  BY <1>4
<1>6. frs[k].offset = Expected(frs, k)
  BY <1>4 DEF Chained, GapAt
<1>7. CASE k = 1
  <2>1. cut[j].offset = cut[1].offset /\ 1 \in 1 .. Len(cut)
    BY <1>5, <1>6, <1>7 DEF Expected, IsCut
  <2>2. j = 1
    BY <2>1, CutOffsets
  <2>. QED BY <2>1, <2>2, <1>4, <1>5, <1>7
<1>8. CASE k # 1
  <2>1. k - 1 \in 1 .. Len(frs) /\ k - 1 \notin S
    BY <1>3, <1>4, <1>8
  <2>2. k - 1 \in 1 .. Len(cut) /\ frs[k - 1] = cut[k - 1]
    BY <2>1
  <2>3. EndOf(cut[k - 1]) <= EndOf(cut[Len(cut)])
    BY <2>2, CutOffsets
  <2>4. EndOf(cut[k - 1]) \in Nat /\ EndOf(cut[Len(cut)]) \in Nat
    <3>1. Len(cut) \in 1 .. Len(cut)
      BY <2>2
    <3>. QED BY <3>1, <2>2, FragmentFields
  <2>5. ~ (EndOf(cut[k - 1]) >= OffsetModulus)
    BY <2>3, <2>4, MStreamAssumption DEF Overflows
  <2>6. cut[j].offset = EndOf(cut[k - 1])
    BY <1>5, <1>6, <1>8, <2>2, <2>5 DEF Expected, Wrap
  <2>7. k - 1 # Len(cut)
    <3>1. cut[j].offset < EndOf(cut[Len(cut)])
      BY CutOffsets
    <3>2. cut[j].offset \in Nat
      BY FragmentFields, MStreamAssumption
    <3>. QED BY <3>1, <3>2, <2>6
  <2>8. k \in 1 .. Len(cut) /\ (k - 1) + 1 = k
    BY <1>4, <2>2, <2>7
  <2>9. cut[k].offset = EndOf(cut[k - 1])
    BY <2>2, <2>7, <2>8 DEF IsCut
  <2>10. j = k
    BY <2>6, <2>8, <2>9, CutOffsets
  <2>. QED BY <2>8, <2>10, <1>4, <1>5
<1>. QED BY <1>7, <1>8

\* Whatever slice of fragments of one packet is accepted, for any packet that
\* does not reach the modulus: it is the packet.
THEOREM OnlyWholePacketsAccepted == Spec => []AcceptsOnlyWholePacket
<1>1. Inv => AcceptsOnlyWholePacket
  <2>1. SUFFICES ASSUME Inv, result = "ok", NEW cut \in Cuts,
                        ~ Overflows(cut[Len(cut)]),
                        \A k \in 1 .. Len(fragments) :
                            \E j \in 1 .. Len(cut) : fragments[k] = cut[j]
                 PROVE  fragments = cut
    BY DEF AcceptsOnlyWholePacket
  <2>2. cut \in Seq(Fragment) /\ IsCut(cut)
    BY InputsAssumption DEF Cuts
  <2>3. fragments \in Seq(Fragment) /\ Chained(fragments) /\ HasLast(fragments)
    BY <2>1, Accepted
  <2>4. \A k \in 1 .. Len(fragments) : k <= Len(cut) /\ fragments[k] = cut[k]
    BY <2>1, <2>2, <2>3, ChainFollowsCut
  <2>5. PICK k \in 1 .. Len(fragments) : fragments[k].last
    BY <2>3 DEF HasLast
  <2>6. k = Len(cut)
    BY <2>2, <2>4, <2>5 DEF IsCut
  <2>7. Len(fragments) = Len(cut)
    <3>1. Len(fragments) \in 1 .. Len(fragments) /\ Len(fragments) <= Len(cut)
      BY <2>3, <2>4, <2>5
    <3>. QED BY <3>1, <2>2, <2>3, <2>5, <2>6
  <2>. QED BY <2>2, <2>3, <2>4, <2>7
<1>. QED BY <1>1, InitInv, NextInv, PTL DEF Spec

\* A chain of fragments of a packet in increasing order of offset that holds the
\* last of them is the packet, also when the packet reaches the modulus.
LEMMA SortedChainIsCut ==
    ASSUME NEW cut \in Seq(Fragment), IsCut(cut),
           NEW frs \in Seq(Fragment), Chained(frs), Sorted(frs), HasLast(frs),
           \A k \in 1 .. Len(frs) : \E j \in 1 .. Len(cut) : frs[k] = cut[j]
    PROVE  frs = cut
<1>. DEFINE S == {k \in 1 .. Len(frs) : ~ (k <= Len(cut) /\ frs[k] = cut[k])}
<1>1. S = {}
  <2>1. SUFFICES ASSUME S # {} PROVE FALSE
    OBVIOUS
  <2>2. S \in SUBSET Nat
    OBVIOUS
  <2>3. PICK k \in S : \A i \in S : k <= i
    BY <2>1, <2>2, Least
  <2>4. k \in 1 .. Len(frs) /\ ~ (k <= Len(cut) /\ frs[k] = cut[k])
    BY <2>3
  <2>5. PICK j \in 1 .. Len(cut) : frs[k] = cut[j]
    BY <2>4
  <2>6. frs[k].offset = Expected(frs, k)
    BY <2>4 DEF Chained, GapAt
  <2>7. CASE k = 1
    <3>1. cut[j].offset = cut[1].offset /\ 1 \in 1 .. Len(cut)
      BY <2>5, <2>6, <2>7 DEF Expected, IsCut
    <3>2. j = 1
      BY <3>1, CutOffsets
    <3>. QED BY <3>1, <3>2, <2>4, <2>5, <2>7
  <2>8. CASE k # 1
    <3>1. k - 1 \in 1 .. Len(frs) /\ k - 1 \notin S
      BY <2>3, <2>4, <2>8
    <3>2. k - 1 \in 1 .. Len(cut) /\ frs[k - 1] = cut[k - 1]
      BY <3>1
    <3>3. frs[k - 1].offset < frs[k].offset
      BY <3>1, <2>4 DEF Sorted
    <3>4. k - 1 < j
      <4>1. cut[k - 1].offset < cut[j].offset
        BY <3>2, <3>3, <2>5
      <4>2. /\ cut[k - 1].offset \in Nat /\ cut[j].offset \in Nat /\ cut[j].length \in Nat
            /\ EndOf(cut[j]) = cut[j].offset + cut[j].length
        <5>1. cut[j].offset \in 0 .. OffsetModulus - 1 /\ cut[j].length \in 0 .. OffsetModulus - 1
          BY FragmentFields
        <5>2. cut[k - 1].offset \in 0 .. OffsetModulus - 1
          BY <3>2, FragmentFields
        <5>. QED BY <5>1, <5>2, MStreamAssumption DEF EndOf
      <4>3. j < k - 1 => EndOf(cut[j]) <= cut[k - 1].offset
        BY <3>2, CutIncreases
      <4>. QED BY <4>1, <4>2, <4>3, <3>2
    <3>5. k \in 1 .. Len(cut) /\ (k - 1) + 1 = k /\ k - 1 < Len(cut)
      BY <2>4, <3>2, <3>4
    <3>6. cut[k].offset = EndOf(cut[k - 1])
      BY <3>2, <3>5 DEF IsCut
    <3>7. cut[k].offset \in 0 .. OffsetModulus - 1
      BY <3>5, FragmentFields
    <3>8. ~ (EndOf(cut[k - 1]) >= OffsetModulus)
      BY <3>6, <3>7, MStreamAssumption
    <3>9. cut[j].offset = cut[k].offset
      BY <2>5, <2>6, <2>8, <3>2, <3>6, <3>8 DEF Expected, Wrap
    <3>10. j = k
      BY <3>5, <3>9, CutOffsets
    <3>. QED BY <3>5, <3>10, <2>4, <2>5
  <2>. QED BY <2>7, <2>8
<1>2. \A k \in 1 .. Len(frs) : k <= Len(cut) /\ frs[k] = cut[k]
  BY <1>1
<1>3. PICK k \in 1 .. Len(frs) : frs[k].last
  BY DEF HasLast
<1>4. k = Len(cut)
  BY <1>2, <1>3 DEF IsCut
<1>5. Len(frs) = Len(cut)
  <2>1. Len(frs) \in 1 .. Len(frs) /\ Len(frs) <= Len(cut)
    BY <1>2, <1>3
  <2>. QED BY <2>1, <1>3, <1>4
<1>6. \A i \in 1 .. Len(frs) : frs[i] = cut[i]
  BY <1>2
<1>. HIDE DEF S
<1>. QED BY <1>5, <1>6, SeqEqual

\* A packet is a chain whose header fits, and only the sum after its last
\* fragment can overflow.
LEMMA CutIsChained ==
    ASSUME NEW cut \in Seq(Fragment), IsCut(cut)
    PROVE  /\ Chained(cut) /\ HasLast(cut)
           /\ AddPanics(cut) => Overflows(cut[Len(cut)])
           /\ cut[1].length >= HeaderLength => HeaderFits(cut)
<1>1. \A k \in 1 .. Len(cut) :
          /\ cut[k].offset \in 0 .. OffsetModulus - 1 /\ EndOf(cut[k]) \in Nat
          /\ cut[k].length \in Nat /\ cut[k].length > 0
  BY FragmentFields, MStreamAssumption DEF IsCut
<1>2. \A k \in 1 .. Len(cut) : k < Len(cut) =>
          k + 1 \in 1 .. Len(cut) /\ cut[k + 1].offset = EndOf(cut[k])
  BY DEF IsCut
<1>3. \A k \in 1 .. Len(cut) : k < Len(cut) => ~ Overflows(cut[k])
  <2>1. SUFFICES ASSUME NEW k \in 1 .. Len(cut), k < Len(cut)
                 PROVE  ~ (EndOf(cut[k]) >= OffsetModulus)
    BY DEF Overflows
  <2>2. EndOf(cut[k]) \in 0 .. OffsetModulus - 1
    BY <2>1, <1>1, <1>2
  <2>. QED BY <2>2, MStreamAssumption
<1>4. Chained(cut)
  <2>1. SUFFICES ASSUME NEW k \in 1 .. Len(cut) PROVE cut[k].offset = Expected(cut, k)
    BY DEF Chained, GapAt
  <2>2. CASE k = 1
    BY <2>2 DEF Expected, IsCut
  <2>3. CASE k # 1
    <3>1. k - 1 \in 1 .. Len(cut) /\ k - 1 < Len(cut) /\ (k - 1) + 1 = k
      BY <2>3
    <3>2. cut[k].offset = EndOf(cut[k - 1]) /\ ~ Overflows(cut[k - 1])
      BY <3>1, <1>2, <1>3
    <3>. QED BY <2>3, <3>2 DEF Expected, Wrap, Overflows
  <2>. QED BY <2>2, <2>3
<1>5. HasLast(cut)
  <2>1. Len(cut) \in 1 .. Len(cut)
    BY DEF IsCut
  <2>. QED BY <2>1 DEF IsCut, HasLast
<1>6. AddPanics(cut) => Overflows(cut[Len(cut)])
  <2>1. SUFFICES ASSUME NEW k \in 1 .. Len(cut), Overflows(cut[k])
                 PROVE  k = Len(cut)
    BY DEF AddPanics
  <2>2. ~ (k < Len(cut))
    BY <2>1, <1>3
  <2>. QED BY <2>2
<1>7. \A k \in 1 .. Len(cut) : cut[k].offset = 0 => k = 1
  <2>1. 1 \in 1 .. Len(cut) /\ cut[1].offset = 0
    BY DEF IsCut
  <2>. QED BY <2>1, CutOffsets
<1>. QED BY <1>4, <1>5, <1>6, <1>7 DEF HeaderFits

\* Every whole packet that begins with its header is accepted, unless the sum
\* after its last fragment panics a debug build.
THEOREM WholePacketsAccepted == Spec => []WholePacketAccepted
<1>1. Inv => WholePacketAccepted
  <2>1. SUFFICES ASSUME Inv, result # "running", fragments \in Cuts,
                        fragments[1].length >= HeaderLength
                 PROVE  \/ result = "ok"
                        \/ /\ overflow_checks /\ Overflows(fragments[Len(fragments)])
                           /\ result = "panic"
    BY DEF WholePacketAccepted
  <2>2. fragments \in Seq(Fragment) /\ IsCut(fragments)
    BY <2>1, InputsAssumption DEF Cuts
  <2>3. result = Merge(fragments, overflow_checks)
    BY <2>1 DEF Inv, ComputesMerge
  <2>. QED BY <2>1, <2>2, <2>3, CutIsChained DEF Merge
<1>. QED BY <1>1, InitInv, NextInv, PTL DEF Spec
=============================================================================
