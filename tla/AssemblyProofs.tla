--------------------------- MODULE AssemblyProofs ---------------------------
(***************************************************************************)
(* Proofs about the chain from the frames to the file of the converter, in *)
(* its order: FrameAssembly by itself, for frames of any number, any       *)
(* packets and any distance; then, with what follows it, the blocks of a   *)
(* packet, the events, the point and the rows.                             *)
(***************************************************************************)
EXTENDS Likhovid, SequenceLemmas

-----------------------------------------------------------------------------
(* Types *)

\* The frames the loop has passed are STREAM frames, for it stops at any other.
ScannedAreStream == \A i \in 1 .. idx - 1 : frames[i].stream

TypeInv == TypeOK /\ ScannedAreStream

\* The frame at an index, and what it says, have their types.
LEMMA FrameTypes ==
    ASSUME TypeOK, NEW i \in 1 .. Len(frames)
    PROVE  /\ frames \in Seq(Frame) /\ Len(frames) \in Nat
           /\ frames[i] \in Frame
           /\ Id(i) \in Ids /\ Id(i) \in Nat
<1>1. frames \in Seq(Frame)
  BY FrameAssumption DEF TypeOK
<1>2. frames[i] \in Frame
  BY <1>1
<1>3. frames[i].packet \in Packets
  BY <1>2 DEF Frame
<1>4. IdOf \in [Packets -> Ids] /\ Ids \subseteq Nat
  BY FrameAssumption
<1>5. Id(i) \in Ids /\ Id(i) \in Nat
  BY <1>3, <1>4 DEF Id
<1>6. Len(frames) \in Nat
  BY <1>1
<1> QED
  BY <1>1, <1>2, <1>5, <1>6

\* What opens an entry is an entry of one frame.
LEMMA EntryTypes ==
    ASSUME NEW i \in Nat
    PROVE  [first |-> i, parts |-> {i}] \in Entry
  BY DEF Entry

\* The initial state has the types.
LEMMA InitTypes == Init => TypeInv
  BY FrameAssumption DEF Init, TypeInv, TypeOK, ScannedAreStream, NoEntry, Entry

\* Every step keeps them.
LEMMA TypeStep == TypeInv /\ [Next]_vars => TypeInv'
<1> SUFFICES ASSUME TypeInv, [Next]_vars
             PROVE  TypeInv'
  OBVIOUS
<1> USE DEF TypeInv
<1>1. frames' = frames /\ Len(frames) \in Nat
  <2>1. frames' = frames
    BY DEF Next, RejectFrame, OpenEntry, ExtendEntry, EvictEntry, Finish, Returned, vars
  <2> QED
    BY <2>1, FrameAssumption DEF TypeOK
<1>2. CASE OpenEntry \/ ExtendEntry \/ EvictEntry
  <2>1. /\ idx \in 1 .. Len(frames) /\ idx' = idx + 1 /\ status' = status
        /\ frames[idx].stream
    BY <1>1, <1>2 DEF OpenEntry, ExtendEntry, EvictEntry, Scanning, TypeOK
  <2>2. Id(idx) \in Ids
    BY <2>1, FrameTypes
  <2>3. fragments' \in [Ids -> Entry] /\ blocks' \in Seq(Entry)
    <3>1. CASE OpenEntry
      BY <2>1, <2>2, <3>1, EntryTypes DEF OpenEntry, TypeOK
    <3>2. CASE ExtendEntry
      <4>1. fragments[Id(idx)] \in Entry
        BY <2>2 DEF TypeOK
      <4>2. Insert(fragments[Id(idx)].parts, idx) \in SUBSET Nat
        BY <2>1, <4>1 DEF Insert, Entry
      <4>3. [fragments[Id(idx)] EXCEPT !.parts = Insert(@, idx)] \in Entry
        BY <4>1, <4>2 DEF Entry
      <4>4. fragments' = [fragments EXCEPT ![Id(idx)] =
                             [fragments[Id(idx)] EXCEPT !.parts = Insert(@, idx)]]
        BY <2>2, <3>2 DEF ExtendEntry, TypeOK
      <4>5. blocks' = blocks
        BY <3>2 DEF ExtendEntry
      <4> QED
        BY <2>2, <4>3, <4>4, <4>5 DEF TypeOK
    <3>3. CASE EvictEntry
      BY <2>1, <2>2, <3>3, EntryTypes DEF EvictEntry, TypeOK
    <3> QED
      BY <1>2, <3>1, <3>2, <3>3
  <2> QED
    BY <1>1, <2>1, <2>3 DEF TypeOK, ScannedAreStream
<1>3. CASE RejectFrame \/ Finish \/ Returned
  BY <1>1, <1>3 DEF RejectFrame, Finish, Returned, TypeOK, ScannedAreStream, vars
<1>4. CASE UNCHANGED vars
  BY <1>4 DEF vars, TypeOK, ScannedAreStream
<1> QED
  BY <1>2, <1>3, <1>4 DEF Next

\* The state keeps its types, whatever frames arrived.
THEOREM TypeCorrect == Spec => []TypeOK
  BY InitTypes, TypeStep, PTL DEF Spec, TypeInv

-----------------------------------------------------------------------------
(* What a step does to the entries *)

New == Open(Id(idx))
Fresh == [first |-> idx, parts |-> {idx}]
Evicted == Closed(Len(blocks) + 1)

\* The entry a name stands for after the step.
EntryAfter(name) ==
    IF name[1] = "closed" THEN blocks'[name[2]] ELSE fragments'[name[2]]

\* A step other than these changes neither the entries nor the index.
Inserting == OpenEntry \/ ExtendEntry \/ EvictEntry

\* Only a step that inserts a frame changes entries or the place in the input.
LEMMA OtherSteps ==
    ASSUME [Next]_vars, ~ Inserting
    PROVE  UNCHANGED <<frames, idx, fragments, blocks>>
  BY DEF Next, RejectFrame, Finish, Returned, vars, Inserting

\* A step that inserts no frame changes no entry and no name.
LEMMA NamesUnchanged ==
    ASSUME [Next]_vars, ~ Inserting
    PROVE  EntryNames' = EntryNames /\ \A n \in EntryNames : EntryAfter(n) = EntryOf(n)
<1>1. fragments' = fragments /\ blocks' = blocks
  BY OtherSteps
<1> QED
  BY <1>1 DEF EntryNames, EntryOf, EntryAfter, OpenIds, Present

\* A step that inserts a frame is at a frame that is read, and reads it.
LEMMA InsertingSteps ==
    ASSUME TypeInv, Inserting
    PROVE  /\ frames' = frames /\ idx' = idx + 1
           /\ idx \in 1 .. Len(frames) /\ frames[idx].stream
           /\ Id(idx) \in Ids
<1>1. /\ frames' = frames /\ idx' = idx + 1
      /\ idx <= Len(frames) /\ frames[idx].stream
  BY DEF Inserting, OpenEntry, ExtendEntry, EvictEntry, Scanning
<1>2. idx \in 1 .. Len(frames)
  BY <1>1, FrameAssumption DEF TypeInv, TypeOK
<1> QED
  BY <1>1, <1>2, FrameTypes DEF TypeInv

\* Names are distinct, and stand for their entries.
LEMMA Names ==
    /\ \A k, id : Closed(k) # Open(id)
    /\ \A k, l : Closed(k) = Closed(l) => k = l
    /\ \A id, jd : Open(id) = Open(jd) => id = jd
    /\ \A k : EntryOf(Closed(k)) = blocks[k] /\ EntryAfter(Closed(k)) = blocks'[k]
    /\ \A id : EntryOf(Open(id)) = fragments[id] /\ EntryAfter(Open(id)) = fragments'[id]
  BY DEF Closed, Open, EntryOf, EntryAfter

\* Opening an entry adds it and leaves the others alone.
LEMMA OpenEffect ==
    ASSUME TypeInv, OpenEntry
    PROVE  /\ New \notin EntryNames
           /\ EntryNames' = EntryNames \cup {New}
           /\ \A n \in EntryNames : EntryAfter(n) = EntryOf(n)
           /\ EntryAfter(New) = Fresh
<1>1. Id(idx) \in Ids
  BY InsertingSteps DEF Inserting
<1>2. blocks' = blocks /\ fragments' = [fragments EXCEPT ![Id(idx)] = Fresh]
      /\ ~ Present(Id(idx))
  BY DEF OpenEntry, Fresh
<1>3. OpenIds' = OpenIds \cup {Id(idx)} /\ Id(idx) \notin OpenIds
  BY <1>1, <1>2 DEF OpenIds, Present, TypeInv, TypeOK, Fresh
<1>4. fragments'[Id(idx)] = Fresh
      /\ \A id \in OpenIds : fragments'[id] = fragments[id]
  BY <1>1, <1>2, <1>3 DEF OpenIds, TypeInv, TypeOK
<1> QED
  <2>1. EntryNames' = {Closed(k) : k \in 1 .. Len(blocks)}
                      \cup {Open(id) : id \in OpenIds \cup {Id(idx)}}
    BY <1>2, <1>3 DEF EntryNames
  <2>2. EntryNames' = EntryNames \cup {New}
    BY <2>1 DEF EntryNames, New
  <2>3. \A n \in EntryNames : EntryAfter(n) = EntryOf(n)
    BY <1>2, <1>4, Names DEF EntryNames
  <2>4. New \notin EntryNames
    BY <1>3, Names DEF EntryNames, New
  <2> QED
    BY <1>4, <2>2, <2>3, <2>4, Names DEF New

\* Extending an entry changes that entry only.
LEMMA ExtendEffect ==
    ASSUME TypeInv, ExtendEntry
    PROVE  /\ New \in EntryNames
           /\ EntryNames' = EntryNames
           /\ \A n \in EntryNames : n # New => EntryAfter(n) = EntryOf(n)
           /\ EntryAfter(New) = [first |-> EntryOf(New).first,
                               parts |-> Insert(EntryOf(New).parts, idx)]
           /\ ~ Stale(EntryOf(New))
<1> DEFINE old == fragments[Id(idx)]
           grown == [first |-> old.first, parts |-> Insert(old.parts, idx)]
<1>1. Id(idx) \in Ids
  BY InsertingSteps DEF Inserting
<1>2. /\ blocks' = blocks /\ Present(Id(idx)) /\ ~ Stale(old)
      /\ fragments' = [fragments EXCEPT ![Id(idx)].parts = Insert(@, idx)]
  BY DEF ExtendEntry
<1>3. old \in Entry
  BY <1>1 DEF TypeInv, TypeOK
<1>4. fragments' = [fragments EXCEPT ![Id(idx)] = grown]
  <2>1. [old EXCEPT !.parts = Insert(@, idx)] = grown
    BY <1>3 DEF Entry
  <2> QED
    BY <1>1, <1>2, <2>1 DEF TypeInv, TypeOK
<1>5. grown.parts # {}
  BY DEF Insert
<1>6. OpenIds' = OpenIds /\ Id(idx) \in OpenIds
  BY <1>1, <1>2, <1>4, <1>5 DEF OpenIds, Present, TypeInv, TypeOK
<1>7. fragments'[Id(idx)] = grown
      /\ \A id \in OpenIds : id # Id(idx) => fragments'[id] = fragments[id]
  BY <1>1, <1>4 DEF OpenIds, TypeInv, TypeOK
<1> QED
  <2>1. EntryNames' = EntryNames /\ New \in EntryNames
    BY <1>2, <1>6 DEF EntryNames, New
  <2>2. \A n \in EntryNames : n # New => EntryAfter(n) = EntryOf(n)
    BY <1>2, <1>7, Names DEF EntryNames, New
  <2>3. EntryOf(New) = old /\ EntryAfter(New) = grown
    BY <1>7, Names DEF New
  <2> QED
    BY <1>2, <2>1, <2>2, <2>3

\* Evicting an entry closes it as it is and opens another in its place.
LEMMA EvictEffect ==
    ASSUME TypeInv, EvictEntry
    PROVE  /\ New \in EntryNames /\ Evicted \notin EntryNames /\ Evicted # New
           /\ EntryNames' = EntryNames \cup {Evicted}
           /\ \A n \in EntryNames : n # New => EntryAfter(n) = EntryOf(n)
           /\ EntryAfter(Evicted) = EntryOf(New)
           /\ EntryAfter(New) = Fresh
           /\ Stale(EntryOf(New))
<1> DEFINE old == fragments[Id(idx)]
<1>1. Id(idx) \in Ids
  BY InsertingSteps DEF Inserting
<1>2. /\ blocks' = Append(blocks, old) /\ Present(Id(idx)) /\ Stale(old)
      /\ fragments' = [fragments EXCEPT ![Id(idx)] = Fresh]
  BY DEF EvictEntry, Fresh
<1>3. OpenIds' = OpenIds /\ Id(idx) \in OpenIds
  BY <1>1, <1>2 DEF OpenIds, Present, TypeInv, TypeOK, Fresh
<1>4. fragments'[Id(idx)] = Fresh
      /\ \A id \in OpenIds : id # Id(idx) => fragments'[id] = fragments[id]
  BY <1>1, <1>2 DEF OpenIds, TypeInv, TypeOK
<1>5. /\ Len(blocks) \in Nat /\ Len(blocks') = Len(blocks) + 1
      /\ blocks'[Len(blocks) + 1] = old
      /\ \A k \in 1 .. Len(blocks) : blocks'[k] = blocks[k]
  BY <1>2 DEF TypeInv, TypeOK
<1> QED
  <2>1. EntryNames' = {Closed(k) : k \in 1 .. Len(blocks) + 1}
                      \cup {Open(id) : id \in OpenIds}
    BY <1>3, <1>5 DEF EntryNames
  <2>2. EntryNames' = EntryNames \cup {Evicted}
    <3>1. 1 .. Len(blocks) + 1 = 1 .. Len(blocks) \cup {Len(blocks) + 1}
      BY <1>5
    <3> QED
      BY <2>1, <3>1 DEF EntryNames, Evicted
  <2>3. New \in EntryNames /\ Evicted \notin EntryNames
    BY <1>3, <1>5, Names DEF EntryNames, New, Evicted
  <2>4. \A n \in EntryNames : n # New => EntryAfter(n) = EntryOf(n)
    BY <1>4, <1>5, Names DEF EntryNames, New
  <2>5. EntryOf(New) = old /\ EntryAfter(New) = Fresh /\ EntryAfter(Evicted) = old
    BY <1>4, <1>5, Names DEF New, Evicted
  <2>6. Stale(EntryOf(New))
    BY <1>2, <2>5
  <2>7. Evicted # New
    BY <2>3
  <2>8. EntryAfter(Evicted) = EntryOf(New)
    BY <2>5
  <2> QED
    BY <2>2, <2>3, <2>4, <2>5, <2>6, <2>7, <2>8

-----------------------------------------------------------------------------
(* Entries are well formed *)

\* The shape of the entry e named n when the loop is at index k: what WellFormed
\* says, and that an entry is either the open one of its id or out of reach.
ShapeOf(n, e, k) ==
    /\ e.parts # {}
    /\ e.parts \subseteq WindowOf(e) \cap 1 .. k - 1
    /\ \A i, j \in e.parts :
          /\ Id(i) = Id(e.first)
          /\ Offset(i) = Offset(j) => i = j
    /\ e.first \in 1 .. k - 1
    /\ n = Open(Id(e.first)) \/ e.first + MAX_FRAGMENTS_DISTANCE < k - 1

ShapeInv == TypeInv /\ \A n \in EntryNames : ShapeOf(n, EntryOf(n), idx)

\* The entry a frame is inserted into has the frame's id and is open to it.
LEMMA Target ==
    ASSUME ShapeInv, Inserting, New \in EntryNames, ~ Stale(EntryOf(New))
    PROVE  /\ Id(EntryOf(New).first) = Id(idx)
           /\ EntryOf(New).first \in 1 .. idx - 1
           /\ idx <= EntryOf(New).first + MAX_FRAGMENTS_DISTANCE
<1>1. idx \in Nat /\ MAX_FRAGMENTS_DISTANCE \in Nat
  BY InsertingSteps, FrameAssumption DEF ShapeInv, TypeInv, TypeOK
<1>2. ShapeOf(New, EntryOf(New), idx)
  BY DEF ShapeInv
<1>3. idx - EntryOf(New).first <= MAX_FRAGMENTS_DISTANCE
  BY <1>1, <1>2 DEF Stale, ShapeOf
<1>4. New = Open(Id(EntryOf(New).first))
  BY <1>1, <1>2, <1>3 DEF ShapeOf
<1>5. Id(EntryOf(New).first) = Id(idx)
  BY <1>4, Names DEF New
<1> QED
  BY <1>1, <1>2, <1>3, <1>5 DEF ShapeOf

\* What makes a step keep the entries well formed: their shapes after it.
LEMMA ShapeAfter ==
    ASSUME TypeInv', frames' = frames, NEW k, idx' = k,
           \A n \in EntryNames' : ShapeOf(n, EntryAfter(n), k)
    PROVE  ShapeInv'
<1>1. SUFFICES ASSUME NEW n \in EntryNames' PROVE ShapeOf(n, EntryOf(n), idx)'
  BY DEF ShapeInv
<1>2. EntryOf(n)' = EntryAfter(n) /\ ShapeOf(n, EntryAfter(n), k)
  BY DEF EntryOf, EntryAfter
<1>3. ShapeOf(n, EntryOf(n), idx)' <=> ShapeOf(n, EntryOf(n)', idx')
  BY DEF ShapeOf, WindowOf, Id, Offset, FragmentAt
<1>. QED BY <1>2, <1>3

\* Every step keeps the entries well formed.
LEMMA ShapeStep == ShapeInv /\ [Next]_vars => ShapeInv'
<1> SUFFICES ASSUME ShapeInv, [Next]_vars
             PROVE  ShapeInv'
  OBVIOUS
<1>1. TypeInv /\ TypeInv' /\ MAX_FRAGMENTS_DISTANCE \in Nat
  BY TypeStep, FrameAssumption DEF ShapeInv
<1>2. CASE ~ Inserting
  <2>1. UNCHANGED <<frames, idx>>
    BY <1>2, OtherSteps
  <2>2. EntryNames' = EntryNames /\ \A n \in EntryNames : EntryAfter(n) = EntryOf(n)
    BY <1>2, NamesUnchanged
  <2>3. \A n \in EntryNames' : ShapeOf(n, EntryAfter(n), idx)
    BY <2>2 DEF ShapeInv
  <2> QED
    BY <1>1, <2>1, <2>3, ShapeAfter
<1>3. CASE Inserting
  <2>1. /\ frames' = frames /\ idx' = idx + 1 /\ idx \in Nat
        /\ idx \in 1 .. Len(frames)
    BY <1>1, <1>3, InsertingSteps DEF TypeInv, TypeOK
  <2>2. \A n \in EntryNames : ShapeOf(n, EntryOf(n), idx + 1)
    BY <1>1, <2>1 DEF ShapeInv, ShapeOf
  <2>3. ShapeOf(New, Fresh, idx + 1)
    BY <1>1, <2>1 DEF ShapeOf, Fresh, New, WindowOf
  <2>4. \A n \in EntryNames' : ShapeOf(n, EntryAfter(n), idx + 1)
    <3>1. CASE OpenEntry
      BY <1>1, <2>2, <2>3, <3>1, OpenEffect
    <3>2. CASE ExtendEntry
      <4> DEFINE old == EntryOf(New)
                 grown == [first |-> old.first, parts |-> Insert(old.parts, idx)]
      <4>1. ShapeOf(New, old, idx) /\ ~ Stale(old) /\ New \in EntryNames
        BY <1>1, <3>2, ExtendEffect DEF ShapeInv
      <4>2. /\ Id(old.first) = Id(idx) /\ old.first \in 1 .. idx - 1
            /\ idx <= old.first + MAX_FRAGMENTS_DISTANCE
        BY <1>3, <4>1, Target
      <4>3. grown.parts \subseteq WindowOf(grown) \cap 1 .. idx
        BY <1>1, <2>1, <4>1, <4>2 DEF ShapeOf, WindowOf, Insert
      <4>4. \A i, j \in grown.parts :
              /\ Id(i) = Id(grown.first)
              /\ Offset(i) = Offset(j) => i = j
        BY <4>1, <4>2 DEF ShapeOf, Insert
      <4>5. grown.parts # {} /\ New = Open(Id(grown.first))
        BY <4>2 DEF Insert, New
      <4>6. ShapeOf(New, grown, idx + 1)
        BY <2>1, <4>2, <4>3, <4>4, <4>5 DEF ShapeOf
      <4> QED
        BY <1>1, <2>2, <3>2, <4>6, ExtendEffect
    <3>3. CASE EvictEntry
      <4> DEFINE old == EntryOf(New)
      <4>1. ShapeOf(New, old, idx) /\ Stale(old)
        BY <1>1, <3>3, EvictEffect DEF ShapeInv
      <4>2. ShapeOf(Evicted, old, idx + 1)
        BY <1>1, <2>1, <4>1 DEF ShapeOf, Stale
      <4> QED
        BY <1>1, <2>2, <2>3, <3>3, <4>2, EvictEffect
    <3> QED
      BY <1>3, <3>1, <3>2, <3>3 DEF Inserting
  <2> QED
    BY <1>1, <2>1, <2>4, ShapeAfter
<1> QED
  BY <1>2, <1>3

\* There is no entry before the first frame.
LEMMA NoEntriesAtFirst == Init => EntryNames = {}
  BY DEF Init, EntryNames, OpenIds, Present, NoEntry

\* Entries are well formed in every behaviour.
LEMMA ShapeHolds == Spec => []ShapeInv
<1>1. Init => ShapeInv
  BY InitTypes, NoEntriesAtFirst DEF ShapeInv
<1> QED
  BY <1>1, ShapeStep, PTL DEF Spec

\* The window and the one-fragment-for-each-offset rule hold of every entry, on
\* any sequence of frames.
THEOREM WellFormedCorrect == Spec => []EntriesWellFormed
<1>1. ShapeInv => EntriesWellFormed
  BY DEF ShapeInv, ShapeOf, TypeInv, ScannedAreStream, EntriesWellFormed, WellFormed
<1> QED
  BY <1>1, ShapeHolds, PTL

-----------------------------------------------------------------------------
(* Nothing is lost, nothing is used twice *)

\* Entry e was open when frame i came, and holds it or a frame that stands for it.
Covers(e, i) == e.first <= i /\ \E j \in e.parts : StandsFor(j, i)

Covered == \A i \in 1 .. idx - 1 : \E n \in EntryNames : Covers(EntryOf(n), i)

Disjoint ==
    \A m, n \in EntryNames : \A i \in EntryOf(m).parts :
        i \in EntryOf(n).parts => m = n

CoverInv == ShapeInv /\ Covered /\ Disjoint

\* A frame at its own place covers itself.
LEMMA StandsForItself ==
    ASSUME NEW i \in Nat
    PROVE  StandsFor(i, i)
  BY FrameAssumption DEF StandsFor

\* An entry that a frame is inserted into covers what it covered, and the frame.
LEMMA InsertCovers ==
    ASSUME ShapeInv, ExtendEntry, NEW i \in 1 .. idx,
           i < idx => Covers(EntryOf(New), i)
    PROVE  Covers(EntryAfter(New), i)
<1> DEFINE old == EntryOf(New)
<1>1. /\ EntryAfter(New) = [first |-> old.first, parts |-> Insert(old.parts, idx)]
      /\ ~ Stale(old) /\ New \in EntryNames
  BY ExtendEffect DEF ShapeInv
<1>2. /\ Id(old.first) = Id(idx) /\ old.first \in 1 .. idx - 1
      /\ idx <= old.first + MAX_FRAGMENTS_DISTANCE
  BY <1>1, Target DEF Inserting
<1>3. idx \in Nat /\ MAX_FRAGMENTS_DISTANCE \in Nat
  BY FrameAssumption DEF ShapeInv, TypeInv, TypeOK
<1>4. idx \in Insert(old.parts, idx)
  BY DEF Insert
<1>5. CASE i = idx
  BY <1>1, <1>2, <1>3, <1>4, <1>5, StandsForItself DEF Covers
<1>6. CASE i < idx
  <2>1. PICK j \in old.parts : old.first <= i /\ StandsFor(j, i)
    BY <1>6 DEF Covers
  <2>2. CASE Offset(j) # Offset(idx)
    BY <1>1, <2>1, <2>2 DEF Covers, Insert
  <2>3. CASE Offset(j) = Offset(idx)
    <3>1. Id(j) = Id(old.first)
      BY <1>1 DEF ShapeInv, ShapeOf
    <3>2. StandsFor(idx, i)
      BY <1>2, <1>3, <1>6, <2>1, <2>3, <3>1 DEF StandsFor
    <3> QED
      BY <1>1, <1>4, <2>1, <3>2 DEF Covers
  <2> QED
    BY <2>2, <2>3
<1> QED
  BY <1>3, <1>5, <1>6

\* Every step keeps each frame read covered by one entry.
LEMMA CoverStep == CoverInv /\ [Next]_vars => CoverInv'
<1> SUFFICES ASSUME CoverInv, [Next]_vars
             PROVE  CoverInv'
  OBVIOUS
<1>1. ShapeInv /\ ShapeInv' /\ TypeInv
  BY ShapeStep DEF CoverInv, ShapeInv
<1>2. /\ frames' = frames
      /\ \A i \in 1 .. idx' - 1 : \E n \in EntryNames' : Covers(EntryAfter(n), i)
      /\ \A m, n \in EntryNames' : \A i \in EntryAfter(m).parts :
            i \in EntryAfter(n).parts => m = n
  <2>1. CASE ~ Inserting
    BY <2>1, OtherSteps, NamesUnchanged DEF CoverInv, Covered, Disjoint
  <2>2. CASE Inserting
    <3>1. frames' = frames /\ idx' = idx + 1 /\ idx \in Nat \ {0}
      BY <1>1, <2>2, InsertingSteps DEF TypeInv, TypeOK
    <3>2. Covers(Fresh, idx)
      BY <3>1, StandsForItself DEF Covers, Fresh
    <3>3. \A n \in EntryNames : \A i \in EntryOf(n).parts : i < idx
      BY <1>1, <3>1 DEF ShapeInv, ShapeOf
    <3>4. CASE OpenEntry
      <4>1. \A i \in 1 .. idx : \E n \in EntryNames' : Covers(EntryAfter(n), i)
        BY <1>1, <3>1, <3>2, <3>4, OpenEffect DEF CoverInv, Covered
      <4>2. \A m, n \in EntryNames' : \A i \in EntryAfter(m).parts :
              i \in EntryAfter(n).parts => m = n
        BY <1>1, <3>1, <3>3, <3>4, OpenEffect DEF CoverInv, Disjoint, Fresh
      <4> QED
        BY <3>1, <4>1, <4>2
    <3>5. CASE ExtendEntry
      <4>1. ASSUME NEW i \in 1 .. idx
            PROVE  \E n \in EntryNames' : Covers(EntryAfter(n), i)
        <5>1. CASE i < idx
          <6>1. PICK n \in EntryNames : Covers(EntryOf(n), i)
            BY <3>1, <5>1 DEF CoverInv, Covered
          <6>2. CASE n = New
            BY <1>1, <3>5, <6>1, <6>2, InsertCovers, ExtendEffect
          <6>3. CASE n # New
            BY <1>1, <3>5, <6>1, <6>3, ExtendEffect
          <6> QED
            BY <6>2, <6>3
        <5>2. CASE i = idx
          BY <1>1, <3>1, <3>5, <5>2, InsertCovers, ExtendEffect
        <5> QED
          BY <3>1, <5>1, <5>2
      <4>2. EntryAfter(New).parts \subseteq EntryOf(New).parts \cup {idx}
        BY <1>1, <3>5, ExtendEffect DEF Insert
      <4>3. \A m, n \in EntryNames' : \A i \in EntryAfter(m).parts :
              i \in EntryAfter(n).parts => m = n
        BY <1>1, <3>1, <3>3, <3>5, <4>2, ExtendEffect DEF CoverInv, Disjoint
      <4> QED
        BY <3>1, <4>1, <4>3
    <3>6. CASE EvictEntry
      <4>1. ASSUME NEW i \in 1 .. idx
            PROVE  \E n \in EntryNames' : Covers(EntryAfter(n), i)
        <5>1. CASE i < idx
          <6>1. PICK n \in EntryNames : Covers(EntryOf(n), i)
            BY <3>1, <5>1 DEF CoverInv, Covered
          <6> QED
            BY <1>1, <3>6, <6>1, EvictEffect
        <5>2. CASE i = idx
          BY <1>1, <3>2, <3>6, <5>2, EvictEffect
        <5> QED
          BY <3>1, <5>1, <5>2
      <4>2. \A m, n \in EntryNames' : \A i \in EntryAfter(m).parts :
              i \in EntryAfter(n).parts => m = n
        BY <1>1, <3>1, <3>3, <3>6, EvictEffect DEF CoverInv, Disjoint, Fresh
      <4> QED
        BY <3>1, <4>1, <4>2
    <3> QED
      BY <2>2, <3>4, <3>5, <3>6 DEF Inserting
  <2> QED
    BY <2>1, <2>2
<1>3. Covered'
  BY <1>2 DEF Covered, Covers, StandsFor, EntryOf, EntryAfter, Id, Offset, FragmentAt
<1>4. Disjoint'
  BY <1>2 DEF Disjoint, EntryOf, EntryAfter
<1> QED
  BY <1>1, <1>3, <1>4 DEF CoverInv

\* Each frame read is covered by one entry in every behaviour.
LEMMA CoverHolds == Spec => []CoverInv
<1>1. Init => CoverInv
  <2> SUFFICES ASSUME Init
               PROVE  CoverInv
    OBVIOUS
  <2>1. ShapeInv
    BY InitTypes, NoEntriesAtFirst DEF ShapeInv
  <2>2. Covered
    BY DEF Init, Covered
  <2>3. Disjoint
    BY NoEntriesAtFirst DEF Disjoint
  <2> QED
    BY <2>1, <2>2, <2>3 DEF CoverInv
<1> QED
  BY <1>1, CoverStep, PTL DEF Spec

\* Whatever order the frames come in, however often they are repeated and however
\* ids are used again, each of them is in one entry and in no other.
THEOREM NothingLostCorrect == Spec => []NothingLost
<1>1. CoverInv => NothingLost
  <2> SUFFICES ASSUME CoverInv, NEW i \in 1 .. idx - 1
               PROVE  \E name \in EntryNames :
                        /\ \E j \in EntryOf(name).parts : StandsFor(j, i)
                        /\ \A other \in EntryNames :
                              i \in EntryOf(other).parts => other = name
    BY DEF NothingLost
  <2>1. CASE \E n \in EntryNames : i \in EntryOf(n).parts
    <3>1. PICK n \in EntryNames : i \in EntryOf(n).parts
      BY <2>1
    <3>2. StandsFor(i, i)
      BY StandsForItself
    <3> QED
      BY <3>1, <3>2 DEF CoverInv, Disjoint
  <2>2. CASE ~ \E n \in EntryNames : i \in EntryOf(n).parts
    BY <2>2 DEF CoverInv, Covered, Covers
  <2> QED
    BY <2>1, <2>2
<1> QED
  BY <1>1, CoverHolds, PTL

-----------------------------------------------------------------------------
(* Packets are kept apart *)

PacketOf(e) == frames[e.first].packet

\* Every entry holds one packet from its first frame on, no packet has two
\* entries, and every packet that was seen has one.
OnePacket(e) ==
    /\ \A i \in e.parts : frames[i].packet = PacketOf(e)
    /\ \A g \in 1 .. e.first - 1 : frames[g].packet # PacketOf(e)

Separate ==
    /\ \A n \in EntryNames : OnePacket(EntryOf(n))
    /\ \A i \in 1 .. idx - 1 :
          \E n \in EntryNames : PacketOf(EntryOf(n)) = frames[i].packet
    /\ \A m, n \in EntryNames : PacketOf(EntryOf(m)) = PacketOf(EntryOf(n)) => m = n

PacketInv == ShapeInv /\ (Spaced(frames) => Separate)

\* The first frame of an entry of one packet is the first of that packet.
LEMMA FirstIsFirst ==
    ASSUME TypeInv, NEW e, e.first \in 1 .. idx - 1, OnePacket(e)
    PROVE  FirstOf(frames, e.first) = e.first
<1>1. e.first \in Nat \ {0} /\ frames[e.first].stream
  BY DEF TypeInv, TypeOK, ScannedAreStream
<1> DEFINE IsFirst(f) ==
             /\ frames[f].stream /\ frames[f].packet = frames[e.first].packet
             /\ \A g \in 1 .. f - 1 :
                   ~ (frames[g].stream /\ frames[g].packet = frames[e.first].packet)
<1>2. e.first \in 1 .. e.first /\ IsFirst(e.first)
  BY <1>1 DEF OnePacket, PacketOf
<1>3. \A f \in 1 .. e.first : IsFirst(f) => f = e.first
  BY <1>1 DEF OnePacket, PacketOf
<1> HIDE DEF IsFirst
<1>4. (CHOOSE f \in 1 .. e.first : IsFirst(f)) = e.first
  BY <1>2, <1>3
<1> QED
  BY <1>4 DEF FirstOf, IsFirst

\* The next frame comes from the packet of an entry of its id exactly when it is
\* within the distance of the entry's first frame.
LEMMA WithinDistance ==
    ASSUME ShapeInv, Spaced(frames), Inserting, NEW e,
           e.first \in 1 .. idx - 1, OnePacket(e), Id(e.first) = Id(idx)
    PROVE  PacketOf(e) = frames[idx].packet <=> idx - e.first <= MAX_FRAGMENTS_DISTANCE
<1>1. idx \in 1 .. Len(frames) /\ frames[idx].stream /\ Len(frames) \in Nat
  BY InsertingSteps, FrameTypes DEF ShapeInv, TypeInv, TypeOK
<1>2. e.first \in 1 .. Len(frames) /\ e.first < idx /\ frames[e.first].stream
  BY <1>1 DEF ShapeInv, TypeInv, ScannedAreStream
<1>3. FirstOf(frames, e.first) = e.first
  BY FirstIsFirst DEF ShapeInv
<1> QED
  BY <1>1, <1>2, <1>3 DEF Spaced, PacketOf, Id

\* When an entry is opened for the next frame, its packet was not seen before.
LEMMA NewPacket ==
    ASSUME PacketInv, Spaced(frames), OpenEntry \/ EvictEntry
    PROVE  \A n \in EntryNames : PacketOf(EntryOf(n)) # frames[idx].packet
<1> SUFFICES ASSUME NEW n \in EntryNames, PacketOf(EntryOf(n)) = frames[idx].packet
             PROVE  FALSE
  OBVIOUS
<1> DEFINE e == EntryOf(n)
<1>1. /\ ShapeInv /\ TypeInv /\ Inserting
      /\ idx \in Nat /\ MAX_FRAGMENTS_DISTANCE \in Nat
  BY FrameAssumption DEF PacketInv, ShapeInv, TypeInv, TypeOK, Inserting
<1>2. ShapeOf(n, e, idx) /\ OnePacket(e) /\ Id(e.first) = Id(idx)
  BY <1>1 DEF PacketInv, Separate, ShapeInv, Id, PacketOf
<1>3. e.first \in 1 .. idx - 1
  BY <1>2 DEF ShapeOf
<1>4. idx - e.first <= MAX_FRAGMENTS_DISTANCE
  BY <1>1, <1>2, <1>3, WithinDistance
<1>5. n = New
  BY <1>1, <1>2, <1>3, <1>4 DEF ShapeOf, New
<1>6. CASE OpenEntry
  BY <1>1, <1>5, <1>6, OpenEffect
<1>7. CASE EvictEntry
  BY <1>1, <1>4, <1>5, <1>7, EvictEffect, <1>3 DEF Stale
<1> QED
  BY <1>6, <1>7

\* Every step keeps packets and entries one for one.
LEMMA PacketStep == PacketInv /\ [Next]_vars => PacketInv'
<1> SUFFICES ASSUME PacketInv, [Next]_vars
             PROVE  PacketInv'
  OBVIOUS
<1>1. ShapeInv /\ ShapeInv' /\ TypeInv
  BY ShapeStep DEF PacketInv, ShapeInv
<1>2. frames' = frames
  BY <1>1, OtherSteps, InsertingSteps
<1>3. SUFFICES ASSUME Spaced(frames)
               PROVE  Separate'
  BY <1>1, <1>2 DEF PacketInv, Spaced, FirstOf
<1>4. Separate
  BY <1>3 DEF PacketInv
<1>5. /\ \A n \in EntryNames' : OnePacket(EntryAfter(n))
      /\ \A i \in 1 .. idx' - 1 :
            \E n \in EntryNames' : PacketOf(EntryAfter(n)) = frames[i].packet
      /\ \A m, n \in EntryNames' :
            PacketOf(EntryAfter(m)) = PacketOf(EntryAfter(n)) => m = n
  <2>1. CASE ~ Inserting
    BY <1>4, <2>1, OtherSteps, NamesUnchanged DEF Separate
  <2>2. CASE Inserting
    <3>1. idx' = idx + 1 /\ idx \in Nat \ {0}
      BY <1>1, <2>2, InsertingSteps DEF TypeInv, TypeOK
    <3>2. PacketOf(Fresh) = frames[idx].packet
      BY DEF PacketOf, Fresh
    <3>3. ASSUME OpenEntry \/ EvictEntry
          PROVE  OnePacket(Fresh)
      <4>1. \A g \in 1 .. idx - 1 : frames[g].packet # frames[idx].packet
        BY <1>3, <1>4, <3>3, NewPacket DEF Separate
      <4> QED
        BY <3>2, <4>1 DEF OnePacket, Fresh
    <3>4. CASE OpenEntry
      <4>1. \A n \in EntryNames : PacketOf(EntryOf(n)) # PacketOf(Fresh)
        BY <1>3, <3>2, <3>4, NewPacket
      <4>2. \A i \in 1 .. idx :
              \E n \in EntryNames' : PacketOf(EntryAfter(n)) = frames[i].packet
        BY <1>1, <1>4, <3>1, <3>2, <3>4, OpenEffect DEF Separate
      <4> QED
        BY <1>1, <1>4, <3>1, <3>3, <3>4, <4>1, <4>2, OpenEffect DEF Separate
    <3>5. CASE ExtendEntry
      <4> DEFINE old == EntryOf(New)
      <4>1. /\ EntryAfter(New) = [first |-> old.first, parts |-> Insert(old.parts, idx)]
            /\ ~ Stale(old) /\ New \in EntryNames
        BY <1>1, <3>5, ExtendEffect
      <4>2. /\ Id(old.first) = Id(idx) /\ old.first \in 1 .. idx - 1
            /\ idx - old.first <= MAX_FRAGMENTS_DISTANCE
        BY <1>1, <2>2, <3>1, <4>1, Target, FrameAssumption
      <4>3. OnePacket(old)
        BY <1>4, <4>1 DEF Separate
      <4>4. PacketOf(old) = frames[idx].packet
        BY <1>1, <1>3, <2>2, <4>2, <4>3, WithinDistance
      <4>5. PacketOf(EntryAfter(New)) = PacketOf(old)
        BY <4>1 DEF PacketOf
      <4>6. OnePacket(EntryAfter(New))
        BY <4>1, <4>3, <4>4, <4>5 DEF OnePacket, Insert
      <4>7. \A n \in EntryNames : PacketOf(EntryAfter(n)) = PacketOf(EntryOf(n))
        BY <1>1, <3>5, <4>5, ExtendEffect
      <4>8. \A i \in 1 .. idx :
              \E n \in EntryNames' : PacketOf(EntryAfter(n)) = frames[i].packet
        <5>1. TAKE i \in 1 .. idx
        <5>2. CASE i = idx
          BY <1>1, <3>5, <4>1, <4>4, <4>5, <5>2, ExtendEffect
        <5>3. CASE i < idx
          BY <1>1, <1>4, <3>1, <3>5, <4>7, <5>3, ExtendEffect DEF Separate
        <5> QED
          BY <3>1, <5>2, <5>3
      <4> QED
        BY <1>1, <1>4, <3>1, <3>5, <4>6, <4>7, <4>8, ExtendEffect DEF Separate
    <3>6. CASE EvictEntry
      <4>1. \A n \in EntryNames : PacketOf(EntryOf(n)) # PacketOf(Fresh)
        BY <1>3, <3>2, <3>6, NewPacket
      <4>2. \A i \in 1 .. idx :
              \E n \in EntryNames' : PacketOf(EntryAfter(n)) = frames[i].packet
        <5>1. TAKE i \in 1 .. idx
        <5>2. CASE i = idx
          BY <1>1, <3>2, <3>6, <5>2, EvictEffect
        <5>3. CASE i < idx
          <6>1. PICK n \in EntryNames : PacketOf(EntryOf(n)) = frames[i].packet
            BY <1>4, <3>1, <5>3 DEF Separate
          <6> QED
            BY <1>1, <3>6, <6>1, EvictEffect
        <5> QED
          BY <3>1, <5>2, <5>3
      <4>3. \A n \in EntryNames' : OnePacket(EntryAfter(n))
        BY <1>1, <1>4, <3>3, <3>6, EvictEffect DEF Separate
      <4>4. \A m, n \in EntryNames' :
              PacketOf(EntryAfter(m)) = PacketOf(EntryAfter(n)) => m = n
        BY <1>1, <1>4, <3>6, <4>1, EvictEffect DEF Separate
      <4> QED
        BY <3>1, <4>2, <4>3, <4>4
    <3> QED
      BY <2>2, <3>4, <3>5, <3>6 DEF Inserting
  <2> QED
    BY <2>1, <2>2
<1> QED
  BY <1>2, <1>5 DEF Separate, OnePacket, PacketOf, EntryOf, EntryAfter

\* Packets and entries are one for one in every behaviour.
LEMMA PacketHolds == Spec => []PacketInv
<1>1. Init => PacketInv
  <2> SUFFICES ASSUME Init
               PROVE  PacketInv
    OBVIOUS
  <2>1. ShapeInv
    BY InitTypes, NoEntriesAtFirst DEF ShapeInv
  <2>2. Separate
    BY NoEntriesAtFirst DEF Init, Separate
  <2> QED
    BY <2>1, <2>2 DEF PacketInv
<1> QED
  BY <1>1, PacketStep, PTL DEF Spec

\* When frames of one id come from one packet exactly within the distance, no
\* event mixes two packets and no packet makes two events.
THEOREM PacketsKeptApartCorrect == Spec => []PacketsKeptApart
<1>1. PacketInv => PacketsKeptApart
  BY DEF PacketInv, Separate, OnePacket, PacketsKeptApart
<1> QED
  BY <1>1, PacketHolds, PTL

-----------------------------------------------------------------------------
(* Slices and events *)

\* What is known of slices of fragments; it does not speak of the variables of
\* the loop that joins them.
Join == INSTANCE MStreamMergeProofs WITH
            Inputs <- {}, overflow_checks <- OverflowChecks, fragments <- <<>>, next <- 1,
            current_offset <- 0, last_fragment_found <- FALSE, buffer <- {}, result <- "running"

LEMMA SameSlices ==
    /\ Join!Fragment = Fragment
    /\ \A fr : Join!EndOf(fr) = EndOf(fr) /\ (Join!Overflows(fr) <=> Overflows(fr))
    /\ \A frs : /\ Join!IsCut(frs) <=> IsCut(frs)
                /\ Join!Sorted(frs) <=> Sorted(frs)
                /\ Join!Chained(frs) <=> Chained(frs)
                /\ Join!HasLast(frs) <=> HasLast(frs)
                /\ Join!AddPanics(frs) <=> AddPanics(frs)
                /\ Join!HeaderFits(frs) <=> HeaderFits(frs)
<1>1. Join!Fragment = Fragment
  BY DEF Join!Fragment, Fragment
<1>2. \A fr : Join!EndOf(fr) = EndOf(fr)
  BY DEF Join!EndOf, EndOf
<1>3. \A fr : Join!Overflows(fr) <=> Overflows(fr)
  BY <1>2 DEF Join!Overflows, Overflows
<1>4. \A frs, k : Join!GapAt(frs, k) <=> GapAt(frs, k)
  BY <1>2 DEF Join!GapAt, GapAt, Join!Expected, Expected, Join!Wrap, Wrap
<1>5. \A frs : /\ Join!IsCut(frs) <=> IsCut(frs)
               /\ Join!Sorted(frs) <=> Sorted(frs)
               /\ Join!HasLast(frs) <=> HasLast(frs)
               /\ Join!HeaderFits(frs) <=> HeaderFits(frs)
  BY <1>2 DEF Join!IsCut, IsCut, Join!Sorted, Sorted, Join!HasLast, HasLast,
              Join!HeaderFits, HeaderFits
<1>6. \A frs : Join!Chained(frs) <=> Chained(frs)
  BY <1>4 DEF Join!Chained, Chained
<1>7. \A frs : Join!AddPanics(frs) <=> AddPanics(frs)
  BY <1>3, <1>4 DEF Join!AddPanics, AddPanics
<1>. QED BY <1>1, <1>2, <1>3, <1>5, <1>6, <1>7

\* In a chain with increasing offsets each fragment starts where the one before
\* it ends.
LEMMA SliceContiguous ==
    ASSUME NEW frs \in Seq(Fragment), Chained(frs), Sorted(frs),
           NEW k \in 1 .. Len(frs) - 1
    PROVE  frs[k + 1].offset = EndOf(frs[k])
<1>1. frs \in Seq(Join!Fragment) /\ Join!Chained(frs) /\ Join!Sorted(frs)
  BY SameSlices
<1>2. frs[k + 1].offset = Join!EndOf(frs[k])
  BY <1>1, MStreamAssumption, Join!ChainContiguous
<1>. QED BY <1>2, SameSlices

\* The fragments of a whole packet lie one after the other, and joining them
\* succeeds.
LEMMA CutFacts ==
    ASSUME NEW cut \in Seq(Fragment), IsCut(cut)
    PROVE  /\ \A i, j \in 1 .. Len(cut) : i < j => cut[i].offset < cut[j].offset
           /\ cut[1].length >= HeaderLength /\ ~ Overflows(cut[Len(cut)])
                => Merge(cut, OverflowChecks) = "ok"
<1>1. cut \in Seq(Join!Fragment) /\ Join!IsCut(cut)
  BY SameSlices
<1>2. \A i \in 1 .. Len(cut) :
          /\ cut[i].offset \in Nat /\ cut[i].length \in Nat /\ cut[i].length > 0
          /\ EndOf(cut[i]) = cut[i].offset + cut[i].length
  <2>1. \A i \in 1 .. Len(cut) : cut[i] \in Fragment
    OBVIOUS
  <2>. QED BY <2>1, MStreamAssumption DEF IsCut, Fragment, EndOf
<1>3. ASSUME NEW i \in 1 .. Len(cut), NEW j \in 1 .. Len(cut), i < j
      PROVE  cut[i].offset < cut[j].offset
  <2>1. Join!EndOf(cut[i]) <= cut[j].offset
    BY <1>1, <1>3, MStreamAssumption, Join!CutIncreases
  <2>2. EndOf(cut[i]) <= cut[j].offset
    BY <2>1, SameSlices
  <2>. QED BY <1>2, <2>2
<1>4. /\ Join!Chained(cut) /\ Join!HasLast(cut)
      /\ Join!AddPanics(cut) => Join!Overflows(cut[Len(cut)])
      /\ cut[1].length >= HeaderLength => Join!HeaderFits(cut)
  BY <1>1, MStreamAssumption, Join!CutIsChained
<1>5. /\ Chained(cut) /\ HasLast(cut)
      /\ AddPanics(cut) => Overflows(cut[Len(cut)])
      /\ cut[1].length >= HeaderLength => HeaderFits(cut)
  BY <1>4, SameSlices
<1>. QED BY <1>3, <1>5 DEF Merge

\* A slice of fragments of one packet that joins is the packet.
LEMMA SliceIsCut ==
    ASSUME NEW cut \in Seq(Fragment), IsCut(cut),
           NEW frs \in Seq(Fragment), Chained(frs), Sorted(frs), HasLast(frs),
           \A k \in 1 .. Len(frs) : \E j \in 1 .. Len(cut) : frs[k] = cut[j]
    PROVE  frs = cut
<1>1. /\ cut \in Seq(Join!Fragment) /\ Join!IsCut(cut)
      /\ frs \in Seq(Join!Fragment)
      /\ Join!Chained(frs) /\ Join!Sorted(frs) /\ Join!HasLast(frs)
  BY SameSlices
<1>. QED BY <1>1, MStreamAssumption, Join!SortedChainIsCut

\* The slice of an entry has the fragment of each of its frames, in increasing
\* order of offset.
LEMMA SliceFacts ==
    ASSUME ShapeInv, NEW n \in EntryNames
    PROVE  LET e == EntryOf(n)
           IN  /\ Slice(e.parts) \in Seq(Fragment)
               /\ Sorted(Slice(e.parts))
               /\ Len(Slice(e.parts)) \in Nat \ {0}
               /\ \A k \in 1 .. Len(Slice(e.parts)) :
                     \E i \in e.parts : FragmentAt(i) = Slice(e.parts)[k]
<1>. DEFINE e == EntryOf(n)
            key == [i \in e.parts |-> Offset(i)]
            order == InOrder(e.parts, key)
<1>1. /\ e.parts # {} /\ e.parts \subseteq 1 .. idx - 1 /\ idx \in 1 .. Len(frames) + 1
      /\ \A i, j \in e.parts : Offset(i) = Offset(j) => i = j
  BY DEF ShapeInv, ShapeOf, TypeInv, TypeOK
<1>2. IsFiniteSet(e.parts)
  <2>1. idx - 1 \in Int /\ 1 \in Int
    BY <1>1
  <2>2. IsFiniteSet(1 .. idx - 1)
    BY <2>1, FS_Interval
  <2>. QED BY <1>1, <2>2, FS_Subset
<1>3. ASSUME NEW i \in e.parts PROVE FragmentAt(i) \in Fragment /\ Offset(i) \in Int
  <2>1. i \in 1 .. Len(frames) /\ frames \in Inputs
    BY <1>1, FrameAssumption DEF ShapeInv, TypeInv, TypeOK
  <2>2. frames[i].packet \in Packets /\ frames[i].part \in 1 .. Len(CutOf[frames[i].packet])
    BY <2>1, FrameAssumption, FrameTypes DEF Frame, ShapeInv, TypeInv
  <2>3. CutOf[frames[i].packet] \in Seq(Fragment)
    BY <2>2, FrameAssumption
  <2>4. FragmentAt(i) \in Fragment
    BY <2>2, <2>3 DEF FragmentAt
  <2>. QED BY <2>4, MStreamAssumption DEF Offset, Fragment
<1>4. key \in [e.parts -> Int] /\ \A i, j \in e.parts : key[i] = key[j] => i = j
  BY <1>1, <1>3
<1>5. /\ order \in [1 .. Cardinality(e.parts) -> e.parts]
      /\ Len(order) = Cardinality(e.parts) /\ Cardinality(e.parts) \in Nat
      /\ \A j, k \in 1 .. Cardinality(e.parts) : j < k => key[order[j]] < key[order[k]]
  <2>. DEFINE parts == e.parts
  <2>. HIDE DEF e, key, parts
  <2>1. Keyed(parts, key)
    BY <1>2, <1>4 DEF Keyed, parts
  <2>2. Listing(InOrder(parts, key), Cardinality(parts), parts, key)
    BY <2>1, InOrderFacts
  <2>. HIDE DEF order
  <2>3. Listing(order, Cardinality(parts), parts, key)
    BY <2>2 DEF order, parts
  <2>4. /\ order \in [1 .. Cardinality(parts) -> parts] /\ Cardinality(parts) \in Nat
        /\ \A j, k \in 1 .. Cardinality(parts) : j < k => key[order[j]] < key[order[k]]
    BY <2>3 DEF Listing
  <2>5. Len(order) = Cardinality(parts)
    BY <2>4
  <2>. QED BY <2>4, <2>5 DEF parts
<1>6. Cardinality(e.parts) # 0
  BY <1>1, <1>2, FS_EmptySet
<1>7. Slice(e.parts) = [k \in 1 .. Len(order) |-> FragmentAt(order[k])]
  BY DEF Slice
<1>. HIDE DEF order, key, e
<1>8. Slice(e.parts) \in Seq(Fragment) /\ Len(Slice(e.parts)) = Cardinality(e.parts)
  BY <1>3, <1>5, <1>7
<1>9. Sorted(Slice(e.parts))
  <2>1. SUFFICES ASSUME NEW j \in 1 .. Cardinality(e.parts),
                        NEW k \in 1 .. Cardinality(e.parts), j < k
                 PROVE  Slice(e.parts)[j].offset < Slice(e.parts)[k].offset
    BY <1>8 DEF Sorted
  <2>2. /\ key[order[j]] < key[order[k]] /\ order[j] \in e.parts /\ order[k] \in e.parts
        /\ Slice(e.parts)[j] = FragmentAt(order[j])
        /\ Slice(e.parts)[k] = FragmentAt(order[k])
    BY <1>5, <1>7, <2>1
  <2>. QED BY <2>2 DEF key, Offset
<1>10. \A k \in 1 .. Len(Slice(e.parts)) :
          \E i \in e.parts : FragmentAt(i) = Slice(e.parts)[k]
  BY <1>5, <1>7, <1>8
<1>. QED BY <1>5, <1>6, <1>8, <1>9, <1>10 DEF e

\* The open entry of an id holds frames of that id.
OwnId == \A id \in OpenIds : Id(fragments[id].first) = id

\* The name of each event's entry.
IdOrder == InOrder(OpenIds, [id \in OpenIds |-> id])
NameOf(k) == IF k <= Len(blocks) THEN Closed(k) ELSE Open(IdOrder[k - Len(blocks)])

\* Every entry makes one event.
LEMMA EventsFacts ==
    ASSUME ShapeInv, OwnId
    PROVE  /\ Len(Events) \in Nat
           /\ \A k \in 1 .. Len(Events) : /\ NameOf(k) \in EntryNames
                                          /\ Events[k] = EntryOf(NameOf(k))
           /\ \A n \in EntryNames : \E k \in 1 .. Len(Events) : NameOf(k) = n
           /\ \A j, k \in 1 .. Len(Events) : NameOf(j) = NameOf(k) => j = k
<1>. DEFINE key == [id \in OpenIds |-> id]
            b == Len(blocks)
            c == Cardinality(OpenIds)
<1>1. OpenIds \subseteq {Id(i) : i \in 1 .. idx - 1}
  <2>1. SUFFICES ASSUME NEW id \in OpenIds PROVE fragments[id].first \in 1 .. idx - 1
    BY DEF OwnId
  <2>2. Open(id) \in EntryNames /\ EntryOf(Open(id)) = fragments[id]
    BY Names DEF EntryNames
  <2>. QED BY <2>2 DEF ShapeInv, ShapeOf
<1>2. IsFiniteSet(OpenIds)
  <2>1. idx - 1 \in Int /\ 1 \in Int
    BY DEF ShapeInv, TypeInv, TypeOK
  <2>2. IsFiniteSet(1 .. idx - 1)
    BY <2>1, FS_Interval
  <2>. DEFINE T == {Id(i) : i \in 1 .. idx - 1}
              f == [i \in 1 .. idx - 1 |-> Id(i)]
  <2>3. f \in Surjection(1 .. idx - 1, T)
    BY DEF Surjection
  <2>4. IsFiniteSet(T)
    <3>. HIDE DEF T, f
    <3>. QED BY <2>2, <2>3, FS_Surjection
  <2>. QED BY <1>1, <2>4, FS_Subset
<1>3. OpenIds \subseteq Nat
  BY FrameAssumption DEF OpenIds
<1>4. key \in [OpenIds -> Int] /\ \A x, y \in OpenIds : key[x] = key[y] => x = y
  BY <1>3
<1>5. /\ IdOrder \in [1 .. c -> OpenIds] /\ Len(IdOrder) = c /\ c \in Nat
      /\ \A j, k \in 1 .. c : j < k => key[IdOrder[j]] < key[IdOrder[k]]
      /\ \A x \in OpenIds : \E k \in 1 .. c : IdOrder[k] = x
  <2>. HIDE DEF key
  <2>1. IdOrder = InOrder(OpenIds, key)
    BY DEF IdOrder, key
  <2>2. Keyed(OpenIds, key)
    BY <1>2, <1>4 DEF Keyed
  <2>3. Listing(IdOrder, c, OpenIds, key)
    BY <2>1, <2>2, InOrderFacts
  <2>. HIDE DEF c
  <2>4. /\ IdOrder \in [1 .. c -> OpenIds] /\ c \in Nat
        /\ \A j, k \in 1 .. c : j < k => key[IdOrder[j]] < key[IdOrder[k]]
        /\ \A x \in OpenIds : \E k \in 1 .. c : IdOrder[k] = x
    BY <2>3 DEF Listing
  <2>5. Len(IdOrder) = c
    BY <2>4
  <2>. QED BY <2>4, <2>5
<1>6. blocks \in Seq(Entry) /\ b \in Nat
  BY DEF ShapeInv, TypeInv, TypeOK
<1>. DEFINE open == [k \in 1 .. c |-> fragments[IdOrder[k]]]
<1>7. Events = blocks \o open /\ open \in Seq(Entry) /\ Len(open) = c
  <2>1. \A id \in OpenIds : fragments[id] \in Entry
    BY DEF ShapeInv, TypeInv, TypeOK, OpenIds
  <2>2. Events = blocks \o [k \in 1 .. Len(IdOrder) |-> fragments[IdOrder[k]]]
    BY DEF Events, IdOrder
  <2>3. Events = blocks \o open
    BY <1>5, <2>2
  <2>4. \A k \in 1 .. c : open[k] \in Entry
    BY <1>5, <2>1
  <2>5. open \in Seq(Entry) /\ Len(open) = c
    <3>. HIDE DEF c, IdOrder
    <3>. QED BY <1>5, <2>4
  <2>. QED BY <2>3, <2>5
<1>8. /\ Len(Events) = b + c
      /\ \A k \in 1 .. b + c : Events[k] = IF k <= b THEN blocks[k] ELSE open[k - b]
  <2>. HIDE DEF open, c
  <2>1. c \in Nat /\ Len(open) = c /\ open \in Seq(Entry) /\ Events = blocks \o open
    BY <1>5, <1>7
  <2>. QED BY <1>6, <2>1, ConcatProperties
<1>9. \A k \in 1 .. b + c : k > b => k - b \in 1 .. c
  BY <1>5, <1>6
<1>10. ASSUME NEW k \in 1 .. b + c
       PROVE  NameOf(k) \in EntryNames /\ Events[k] = EntryOf(NameOf(k))
  <2>1. CASE k <= b
    <3>1. NameOf(k) = Closed(k) /\ k \in 1 .. b
      BY <2>1, <1>6 DEF NameOf
    <3>. QED BY <2>1, <3>1, <1>8, Names DEF EntryNames
  <2>2. CASE ~ (k <= b)
    <3>1. k - b \in 1 .. c
      BY <1>6, <1>9, <2>2
    <3>2. NameOf(k) = Open(IdOrder[k - b]) /\ IdOrder[k - b] \in OpenIds
      BY <1>5, <2>2, <3>1 DEF NameOf
    <3>3. Events[k] = fragments[IdOrder[k - b]]
      BY <1>8, <2>2, <3>1
    <3>. QED BY <3>2, <3>3, Names DEF EntryNames
  <2>. QED BY <2>1, <2>2
<1>11. ASSUME NEW n \in EntryNames PROVE \E k \in 1 .. b + c : NameOf(k) = n
  <2>1. CASE \E k \in 1 .. b : n = Closed(k)
    <3>1. PICK k \in 1 .. b : n = Closed(k)
      BY <2>1
    <3>2. k \in 1 .. b + c /\ k <= b
      BY <1>5, <1>6
    <3>. QED BY <3>1, <3>2 DEF NameOf
  <2>2. CASE \E id \in OpenIds : n = Open(id)
    <3>1. PICK id \in OpenIds : n = Open(id)
      BY <2>2
    <3>2. PICK k \in 1 .. c : IdOrder[k] = id
      BY <1>5
    <3>3. b + k \in 1 .. b + c /\ ~ (b + k <= b) /\ (b + k) - b = k
      BY <1>5, <1>6
    <3>4. NameOf(b + k) = n
      BY <3>1, <3>2, <3>3 DEF NameOf
    <3>. QED BY <3>3, <3>4
  <2>. QED BY <2>1, <2>2 DEF EntryNames
<1>12. ASSUME NEW j \in 1 .. b + c, NEW k \in 1 .. b + c, NameOf(j) = NameOf(k)
       PROVE  j = k
  <2>1. CASE j <= b /\ k <= b
    BY <2>1, <1>12, Names DEF NameOf
  <2>2. CASE (j <= b /\ ~ (k <= b)) \/ (~ (j <= b) /\ k <= b)
    BY <2>2, <1>12, Names DEF NameOf
  <2>3. CASE ~ (j <= b) /\ ~ (k <= b)
    <3>1. j - b \in 1 .. c /\ k - b \in 1 .. c
      BY <1>6, <1>9, <2>3
    <3>2. IdOrder[j - b] = IdOrder[k - b]
      BY <2>3, <1>12, Names DEF NameOf
    <3>3. ~ (j - b < k - b) /\ ~ (k - b < j - b)
      <4>1. key[IdOrder[j - b]] = key[IdOrder[k - b]]
        BY <3>2
      <4>2. key[IdOrder[j - b]] \in Int /\ key[IdOrder[k - b]] \in Int
        BY <1>4, <1>5, <3>1
      <4>. HIDE DEF key, c
      <4>. QED BY <1>5, <3>1, <4>1, <4>2
    <3>4. j - b \in Int /\ k - b \in Int
      BY <3>1
    <3>. QED BY <1>6, <3>3, <3>4
  <2>. QED BY <2>1, <2>2, <2>3
<1>. HIDE DEF c, b
<1>. QED BY <1>5, <1>6, <1>8, <1>10, <1>11, <1>12

-----------------------------------------------------------------------------
(* What the call returns *)

\* Every step keeps the entries under the id of their frames.
LEMMA OwnIdStep == ShapeInv /\ OwnId /\ [Next]_vars => OwnId'
<1>. SUFFICES ASSUME ShapeInv, OwnId, [Next]_vars PROVE OwnId'
  OBVIOUS
<1>. TypeInv
  BY DEF ShapeInv
<1>1. frames' = frames
  BY OtherSteps, InsertingSteps
<1>2. SUFFICES ASSUME NEW id, Open(id) \in EntryNames'
               PROVE  Id(EntryAfter(Open(id)).first) = id
  <2>1. \A id \in OpenIds' : Id(EntryAfter(Open(id)).first) = id
    BY <1>2 DEF EntryNames
  <2>. QED BY <1>1, <2>1, Names DEF OwnId, Id
<1>3. Open(id) \in EntryNames => Id(EntryOf(Open(id)).first) = id
  <2>1. Open(id) \in EntryNames => id \in OpenIds
    BY Names DEF EntryNames
  <2>. QED BY <2>1, Names DEF OwnId
<1>4. Open(id) = New => id = Id(idx)
  BY Names DEF New
<1>5. Open(id) # Evicted
  BY Names DEF Evicted
<1>6. CASE ~ Inserting
  BY <1>2, <1>3, <1>6, NamesUnchanged
<1>7. CASE OpenEntry
  BY <1>2, <1>3, <1>4, <1>7, OpenEffect DEF Fresh
<1>8. CASE ExtendEntry
  BY <1>2, <1>3, <1>8, ExtendEffect
<1>9. CASE EvictEntry
  BY <1>2, <1>3, <1>4, <1>5, <1>9, EvictEffect DEF Fresh
<1>. QED BY <1>6, <1>7, <1>8, <1>9 DEF Inserting

\* The call fails at a frame that is not STREAM, and returns or panics after the
\* last frame, as the merges say.
EndsAsMerged ==
    /\ status = "err" => idx \in 1 .. Len(frames) /\ ~ frames[idx].stream
    /\ status \in {"done", "panic"} =>
          /\ idx = Len(frames) + 1
          /\ status = "done" <=> \A k \in 1 .. Len(Events) : MergeOk(Events[k])

\* Every step keeps that.
LEMMA EndStep == TypeInv /\ EndsAsMerged /\ [Next]_vars => EndsAsMerged'
<1>. SUFFICES ASSUME TypeInv, EndsAsMerged, [Next]_vars PROVE EndsAsMerged'
  OBVIOUS
<1>1. CASE Inserting
  <2>1. status' = "scanning"
    BY <1>1 DEF Inserting, OpenEntry, ExtendEntry, EvictEntry, Scanning
  <2>. QED BY <2>1 DEF EndsAsMerged
<1>2. CASE ~ Inserting
  <2>1. UNCHANGED <<frames, idx, fragments, blocks>>
    BY <1>2, OtherSteps
  <2>2. /\ Events' = Events
        /\ \A k \in 1 .. Len(Events) : MergeOk(Events[k])' <=> MergeOk(Events[k])
    BY <2>1 DEF Events, OpenIds, Present, MergeOk, Slice, Offset, FragmentAt
  <2>3. (\A k \in 1 .. Len(Events) : MergeOk(Events[k]))'
        <=> \A k \in 1 .. Len(Events) : MergeOk(Events[k])
    BY <2>2
  <2>4. CASE RejectFrame
    BY <2>1, <2>4 DEF RejectFrame, Scanning, EndsAsMerged, TypeInv, TypeOK
  <2>5. CASE Finish
    BY <2>1, <2>3, <2>5 DEF Finish, EndsAsMerged
  <2>6. CASE UNCHANGED vars \/ Returned
    <3>1. status' = status
      BY <2>6 DEF vars, Returned
    <3>. QED BY <2>1, <2>3, <3>1 DEF EndsAsMerged
  <2>. QED BY <1>2, <2>4, <2>5, <2>6 DEF Next, Inserting
<1>. QED BY <1>1, <1>2

ReturnInv == CoverInv /\ PacketInv /\ OwnId /\ EndsAsMerged

LEMMA ReturnHolds == Spec => []ReturnInv
<1>1. Init => OwnId /\ EndsAsMerged
  BY DEF Init, OwnId, OpenIds, Present, NoEntry, EndsAsMerged
<1>2. CoverInv => ShapeInv /\ TypeInv
  BY DEF CoverInv, ShapeInv
<1>. QED BY <1>1, <1>2, OwnIdStep, EndStep, CoverHolds, PacketHolds, PTL DEF Spec, ReturnInv

\* The frame that opened an entry is of the packet of every frame it covers: it
\* came at most the distance before it.
LEMMA CoveredIsOfPacket ==
    ASSUME ReturnInv, Spaced(frames), NEW m \in EntryNames,
           NEW j \in 1 .. idx - 1, Covers(EntryOf(m), j)
    PROVE  PacketOf(EntryOf(m)) = frames[j].packet
<1>. DEFINE first == EntryOf(m).first
<1>1. /\ ShapeInv /\ TypeInv /\ Separate
      /\ Len(frames) \in Nat /\ idx \in 1 .. Len(frames) + 1
      /\ MAX_FRAGMENTS_DISTANCE \in Nat
  BY FrameAssumption DEF ReturnInv, PacketInv, CoverInv, ShapeInv, TypeInv, TypeOK
<1>2. ShapeOf(m, EntryOf(m), idx) /\ OnePacket(EntryOf(m)) /\ first \in 1 .. idx - 1
  BY <1>1 DEF ShapeInv, ShapeOf, Separate
<1>3. PICK l \in EntryOf(m).parts : StandsFor(l, j)
  BY DEF Covers
<1>4. /\ first <= j /\ j - first <= MAX_FRAGMENTS_DISTANCE
      /\ Id(first) = Id(j)
  <2>1. l \in WindowOf(EntryOf(m)) /\ Id(l) = Id(first)
    BY <1>2, <1>3 DEF ShapeOf
  <2>2. l \in Int /\ l <= first + MAX_FRAGMENTS_DISTANCE
    BY <2>1 DEF WindowOf
  <2>. QED BY <1>1, <1>2, <1>3, <2>1, <2>2 DEF StandsFor, Covers
<1>5. first \in 1 .. Len(frames) /\ j \in 1 .. Len(frames)
      /\ frames[first].stream /\ frames[j].stream
  BY <1>1, <1>2 DEF TypeInv, ScannedAreStream
<1>6. CASE first = j
  BY <1>6 DEF PacketOf
<1>7. CASE first < j
  <2>1. FirstOf(frames, first) = first
    BY <1>1, <1>2, FirstIsFirst
  <2>. QED BY <1>4, <1>5, <1>7, <2>1 DEF Spaced, Id, PacketOf
<1>. QED BY <1>1, <1>2, <1>4, <1>6, <1>7

\* Whatever was lost, repeated or mixed up on the way: when the call returns,
\* every frame is in an event that is gapless from offset 0 and has a fragment
\* with LF; and on spaced input that event is the whole packet of the frame.
THEOREM ReturnsOnlyWholePacketsCorrect == Spec => []ReturnsOnlyWholePackets
<1>1. ASSUME ReturnInv, status = "done", NEW i \in 1 .. Len(frames)
      PROVE  \E k \in 1 .. Len(Events) :
                LET slice == Slice(Events[k].parts)
                    cut == CutOf[frames[i].packet]
                IN  /\ \E j \in Events[k].parts : StandsFor(j, i)
                    /\ slice[1].offset = 0
                    /\ \A n \in 1 .. Len(slice) - 1 :
                          slice[n + 1].offset = EndOf(slice[n])
                    /\ \E n \in 1 .. Len(slice) : slice[n].last
                    /\ Spaced(frames) /\ IsCut(cut) => slice = cut
  <2>1. ShapeInv /\ TypeInv /\ OwnId /\ (Spaced(frames) => Separate)
    BY <1>1 DEF ReturnInv, CoverInv, PacketInv, ShapeInv
  <2>2. i \in 1 .. idx - 1 /\ \A k \in 1 .. Len(Events) : MergeOk(Events[k])
    BY <1>1, <2>1, FrameTypes DEF ReturnInv, EndsAsMerged, TypeInv, TypeOK
  <2>3. PICK n \in EntryNames : Covers(EntryOf(n), i)
    BY <1>1, <2>2 DEF ReturnInv, CoverInv, Covered
  <2>4. PICK k \in 1 .. Len(Events) : Events[k] = EntryOf(n)
    BY <2>1, EventsFacts
  <2>. DEFINE slice == Slice(Events[k].parts)
              cut == CutOf[frames[i].packet]
  <2>5. /\ slice \in Seq(Fragment) /\ Sorted(slice) /\ Len(slice) \in Nat \ {0}
        /\ \A q \in 1 .. Len(slice) : \E l \in Events[k].parts : FragmentAt(l) = slice[q]
    BY <2>1, <2>4, SliceFacts
  <2>6. Merge(slice, OverflowChecks) = "ok"
    BY <2>2 DEF MergeOk
  <2>. HIDE DEF slice
  <2>7. Chained(slice) /\ HasLast(slice)
    BY <2>6 DEF Merge
  <2>8. slice[1].offset = 0
    BY <2>5, <2>7 DEF Chained, GapAt, Expected
  <2>9. \A m \in 1 .. Len(slice) - 1 : slice[m + 1].offset = EndOf(slice[m])
    BY <2>5, <2>7, SliceContiguous
  <2>10. ASSUME Spaced(frames), IsCut(cut) PROVE slice = cut
    <3>1. PacketOf(EntryOf(n)) = frames[i].packet
      BY <1>1, <2>2, <2>3, <2>10, CoveredIsOfPacket
    <3>2. \A l \in Events[k].parts : l \in 1 .. Len(frames) /\ frames[l].packet = frames[i].packet
      <4>1. /\ OnePacket(EntryOf(n)) /\ ShapeOf(n, EntryOf(n), idx)
            /\ idx \in 1 .. Len(frames) + 1 /\ Len(frames) \in Nat
        BY <1>1, <2>1, <2>10, FrameTypes DEF Separate, ShapeInv, TypeInv, TypeOK
      <4>. QED BY <2>4, <3>1, <4>1 DEF OnePacket, ShapeOf
    <3>3. \A l \in Events[k].parts : \E j \in 1 .. Len(cut) : FragmentAt(l) = cut[j]
      <4>1. \A l \in 1 .. Len(frames) : frames[l].part \in 1 .. Len(CutOf[frames[l].packet])
        BY <2>1, FrameAssumption DEF TypeInv, TypeOK
      <4>. QED BY <3>2, <4>1 DEF FragmentAt
    <3>4. \A q \in 1 .. Len(slice) : \E j \in 1 .. Len(cut) : slice[q] = cut[j]
      <4>. HIDE DEF cut
      <4>. QED BY <2>5, <3>3
    <3>5. cut \in Seq(Fragment)
      <4>1. frames[i].packet \in Packets
        BY <1>1, <2>1, FrameTypes DEF Frame, TypeInv
      <4>. QED BY <4>1, FrameAssumption
    <3>. HIDE DEF cut
    <3>. QED BY <2>5, <2>7, <2>10, <3>4, <3>5, SliceIsCut
  <2>11. \E j \in Events[k].parts : StandsFor(j, i)
    BY <2>3, <2>4 DEF Covers
  <2>. QED BY <2>4, <2>7, <2>8, <2>9, <2>10, <2>11 DEF HasLast, slice
<1>2. ReturnInv => ReturnsOnlyWholePackets
  BY <1>1 DEF ReturnsOnlyWholePackets
<1>. QED BY <1>2, ReturnHolds, PTL

\* On spaced and complete input the entry of a packet has all its fragments: they
\* come within the distance of the first, so none of them closed the entry.
LEMMA WholeEntry ==
    ASSUME ReturnInv, Spaced(frames), Complete(frames), idx = Len(frames) + 1,
           NEW n \in EntryNames
    PROVE  LET cut == CutOf[PacketOf(EntryOf(n))]
           IN  /\ cut \in Seq(Fragment) /\ IsCut(cut)
               /\ cut[1].length >= HeaderLength /\ ~ Overflows(cut[Len(cut)])
               /\ Slice(EntryOf(n).parts) = cut
<1>. DEFINE e == EntryOf(n)
            cut == CutOf[PacketOf(e)]
            N == Len(cut)
            key == [i \in e.parts |-> Offset(i)]
<1>1. /\ ShapeInv /\ TypeInv /\ Separate /\ Covered
      /\ Len(frames) \in Nat /\ MAX_FRAGMENTS_DISTANCE \in Nat
  BY FrameAssumption DEF ReturnInv, PacketInv, CoverInv, ShapeInv, TypeInv, TypeOK
<1>2. \A m \in EntryNames : /\ ShapeOf(m, EntryOf(m), idx) /\ OnePacket(EntryOf(m))
                            /\ EntryOf(m).first \in 1 .. Len(frames)
  BY <1>1 DEF ShapeInv, ShapeOf, Separate
<1>3. \A i \in 1 .. Len(frames) :
          /\ frames[i].stream /\ frames[i].packet \in Packets
          /\ frames[i].part \in 1 .. Len(CutOf[frames[i].packet])
          /\ CutOf[frames[i].packet] \in Seq(Fragment)
  <2>1. \A i \in 1 .. Len(frames) : frames[i] \in Frame
    BY <1>1, FrameTypes DEF TypeInv
  <2>. QED BY <1>1, <2>1, FrameAssumption DEF Complete, Frame, TypeInv, TypeOK
<1>4. /\ cut \in Seq(Fragment) /\ N \in Nat /\ IsCut(cut)
      /\ cut[1].length >= HeaderLength /\ ~ Overflows(cut[N])
      /\ \A q \in 1 .. N : \E j \in 1 .. Len(frames) :
            frames[j].packet = PacketOf(e) /\ frames[j].part = q
  BY <1>2, <1>3 DEF Complete, PacketOf
<1>5. \A i, j \in 1 .. N : i < j => cut[i].offset < cut[j].offset
  BY <1>4, CutFacts
<1>6. \A i \in 1 .. N : cut[i].offset \in Int
  <2>1. \A i \in 1 .. N : cut[i] \in Fragment
    BY <1>4
  <2>. QED BY <2>1, MStreamAssumption DEF Fragment
<1>7. \A i \in e.parts : /\ i \in 1 .. Len(frames) /\ frames[i].packet = PacketOf(e)
                         /\ frames[i].part \in 1 .. N
                         /\ Offset(i) = cut[frames[i].part].offset
                         /\ FragmentAt(i) = cut[frames[i].part]
  BY <1>1, <1>2, <1>3 DEF ShapeOf, OnePacket, Offset, FragmentAt
<1>8. ASSUME NEW q \in 1 .. N PROVE \E l \in e.parts : frames[l].part = q
  <2>1. PICK j \in 1 .. Len(frames) : frames[j].packet = PacketOf(e) /\ frames[j].part = q
    BY <1>4
  <2>2. PICK m \in EntryNames : Covers(EntryOf(m), j)
    BY <1>1, <2>1 DEF Covered
  <2>3. PICK l \in EntryOf(m).parts : StandsFor(l, j)
    BY <2>2 DEF Covers
  <2>4. Offset(l) = Offset(j)
    BY <2>3 DEF StandsFor
  <2>5. PacketOf(EntryOf(m)) = frames[j].packet
    BY <1>1, <2>1, <2>2, CoveredIsOfPacket
  <2>6. m = n
    BY <1>1, <2>1, <2>5 DEF Separate, PacketOf
  <2>7. l \in e.parts /\ cut[frames[l].part].offset = cut[q].offset
    BY <1>7, <2>1, <2>3, <2>4, <2>6 DEF Offset, FragmentAt
  <2>8. frames[l].part = q
    <3>1. frames[l].part \in 1 .. N
      BY <1>7, <2>7
    <3>2. cut[frames[l].part].offset \in Int /\ cut[q].offset \in Int
      BY <1>6, <3>1
    <3>. HIDE DEF cut
    <3>3. ~ (frames[l].part < q)
      BY <1>5, <2>7, <3>1, <3>2
    <3>4. ~ (q < frames[l].part)
      BY <1>5, <2>7, <3>1, <3>2
    <3>. QED BY <1>4, <3>1, <3>3, <3>4
  <2>. QED BY <2>7, <2>8
<1>. DEFINE t == [q \in 1 .. N |-> CHOOSE l \in e.parts : frames[l].part = q]
<1>9. \A q \in 1 .. N : t[q] \in e.parts /\ frames[t[q]].part = q
  BY <1>8
<1>10. t \in [1 .. N -> e.parts]
  BY <1>9
<1>. HIDE DEF t
<1>11. key \in [e.parts -> Int]
  BY <1>6, <1>7
<1>12. \A q \in 1 .. N : key[t[q]] = cut[q].offset
  BY <1>7, <1>9
<1>13. \A j, k \in 1 .. N : j < k => key[t[j]] < key[t[k]]
  BY <1>5, <1>12
<1>14. \A x \in e.parts : \E k \in 1 .. N : t[k] = x
  <2>1. ASSUME NEW x \in e.parts PROVE t[frames[x].part] = x
    <3>0. frames[x].part \in 1 .. N
      BY <1>7
    <3>1. /\ t[frames[x].part] \in e.parts
          /\ frames[t[frames[x].part]].part = frames[x].part
      BY <1>9, <3>0
    <3>2. Offset(t[frames[x].part]) = Offset(x)
      BY <1>7, <3>1
    <3>. QED BY <1>2, <3>1, <3>2 DEF ShapeOf
  <2>. QED BY <1>7, <2>1
<1>15. InOrder(e.parts, key) = t
  <2>1. N \in Nat
    BY <1>4
  <2>. HIDE DEF e, key, N
  <2>2. Listing(t, N, e.parts, key)
    BY <2>1, <1>10, <1>11, <1>13, <1>14 DEF Listing
  <2>. QED BY <2>2, InOrderUnique
<1>16. Slice(e.parts) = cut
  <2>1. Slice(e.parts) = [k \in 1 .. Len(t) |-> FragmentAt(t[k])]
    BY <1>15 DEF Slice
  <2>2. Len(t) = N
    BY <1>4, <1>10
  <2>3. \A k \in 1 .. N : FragmentAt(t[k]) = cut[k]
    BY <1>7, <1>9
  <2>. HIDE DEF e, N, cut
  <2>4. Slice(e.parts) = [k \in 1 .. N |-> cut[k]]
    BY <2>1, <2>2, <2>3
  <2>. QED BY <1>4, <2>4 DEF N
<1>. QED BY <1>4, <1>16

\* When nothing is lost and the ids are spaced, the call succeeds, and its events
\* are the packets, one each and whole.
THEOREM CompleteInputCorrect == Spec => []CompleteInputBecomesEvents
<1>1. ASSUME ReturnInv, Spaced(frames), Complete(frames), status # "scanning"
      PROVE  /\ status = "done"
             /\ Len(Events) = Cardinality({frames[i].packet : i \in 1 .. Len(frames)})
             /\ \A i \in 1 .. Len(frames) :
                   \E k \in 1 .. Len(Events) :
                      Slice(Events[k].parts) = CutOf[frames[i].packet]
  <2>. DEFINE P == {frames[i].packet : i \in 1 .. Len(frames)}
              N == Len(Events)
  <2>1. ShapeInv /\ TypeInv /\ OwnId /\ Separate
    BY <1>1 DEF ReturnInv, PacketInv, ShapeInv
  <2>2. status \in {"done", "panic"} /\ idx = Len(frames) + 1 /\ Len(frames) \in Nat
    <3>1. status # "err"
      BY <1>1 DEF ReturnInv, EndsAsMerged, Complete
    <3>. QED BY <1>1, <2>1, <3>1, FrameAssumption DEF TypeInv, TypeOK, ReturnInv, EndsAsMerged
  <2>3. /\ N \in Nat
        /\ \A k \in 1 .. N : NameOf(k) \in EntryNames /\ Events[k] = EntryOf(NameOf(k))
        /\ \A n \in EntryNames : \E k \in 1 .. N : NameOf(k) = n
        /\ \A j, k \in 1 .. N : NameOf(j) = NameOf(k) => j = k
    BY <2>1, EventsFacts
  <2>4. ASSUME NEW k \in 1 .. N
        PROVE  Slice(Events[k].parts) = CutOf[PacketOf(Events[k])] /\ MergeOk(Events[k])
    <3>. DEFINE cut == CutOf[PacketOf(Events[k])]
    <3>1. /\ cut \in Seq(Fragment) /\ IsCut(cut)
          /\ cut[1].length >= HeaderLength /\ ~ Overflows(cut[Len(cut)])
          /\ Slice(Events[k].parts) = cut
      BY <1>1, <2>2, <2>3, WholeEntry
    <3>. HIDE DEF cut
    <3>2. Merge(cut, OverflowChecks) = "ok"
      BY <3>1, CutFacts
    <3>. QED BY <3>1, <3>2 DEF MergeOk, cut
  <2>5. status = "done"
    BY <1>1, <2>2, <2>4 DEF ReturnInv, EndsAsMerged
  <2>. DEFINE f == [k \in 1 .. N |-> PacketOf(Events[k])]
  <2>6. \A k \in 1 .. N : f[k] \in P
    <3>1. \A k \in 1 .. N : Events[k].first \in 1 .. Len(frames)
      BY <2>1, <2>2, <2>3 DEF ShapeInv, ShapeOf
    <3>. QED BY <3>1 DEF PacketOf
  <2>7. \A p \in P : \E k \in 1 .. N : f[k] = p
    <3>1. ASSUME NEW i \in 1 .. Len(frames) PROVE \E k \in 1 .. N : f[k] = frames[i].packet
      <4>1. PICK n \in EntryNames : PacketOf(EntryOf(n)) = frames[i].packet
        BY <2>1, <2>2 DEF Separate
      <4>2. PICK k \in 1 .. N : NameOf(k) = n
        BY <2>3
      <4>. QED BY <2>3, <4>1, <4>2
    <3>. QED BY <3>1
  <2>8. \A j, k \in 1 .. N : f[j] = f[k] => j = k
    BY <2>1, <2>3 DEF Separate
  <2>9. Cardinality(P) = N
    <3>. HIDE DEF P, N
    <3>1. f \in [1 .. N -> P]
      BY <2>6
    <3>. HIDE DEF f
    <3>2. f \in Bijection(1 .. N, P)
      BY <2>7, <2>8, <3>1 DEF Bijection, Injection, Surjection, IsInjective
    <3>. QED BY <2>3, <3>2, FS_CountingElements DEF ExistsBijection
  <2>10. ASSUME NEW i \in 1 .. Len(frames)
         PROVE  \E k \in 1 .. N : Slice(Events[k].parts) = CutOf[frames[i].packet]
    <3>1. PICK k \in 1 .. N : f[k] = frames[i].packet
      BY <2>7
    <3>. QED BY <2>4, <3>1
  <2>. QED BY <2>5, <2>9, <2>10
<1>2. ReturnInv => CompleteInputBecomesEvents
  BY <1>1 DEF CompleteInputBecomesEvents
<1>. QED BY <1>2, ReturnHolds, PTL

-----------------------------------------------------------------------------
(* The chain *)

\* What follows the assembly leaves its frames and entries alone.
LEMMA ChainStep == [AllNext]_allVars => [Next]_vars
<1>. SUFFICES ASSUME [AllNext]_allVars PROVE [Next]_vars
  OBVIOUS
<1>1. CASE Next
  BY <1>1
<1>2. CASE PointNext
  BY <1>2 DEF PointNext, ExtractEvent, NoEvents, MakePoint, SuppressionPanics, Suppress,
              AppendPanics, AppendFrame, PointMade
<1>3. CASE Convert \/ ConvertPanics
  BY <1>3 DEF Convert, ConvertPanics
<1>4. CASE UNCHANGED allVars
  BY <1>4 DEF allVars
<1>. QED BY <1>1, <1>2, <1>3, <1>4 DEF AllNext

\* From the frames to the file of the converter, whatever extract_data_blocks,
\* events_to_point and the converter do, the frames are assembled as
\* frames_to_events does by itself.
THEOREM ChainImplementsAssembly == AllSpec => Spec
<1>1. AllInit => Init
  BY DEF AllInit
<1>. QED BY <1>1, ChainStep, PTL DEF AllSpec, Spec

\* So in the chain, too, no frame is lost or used twice, and no two packets are
\* mixed.
THEOREM ChainKeepsFrames == AllSpec => [](NothingLost /\ PacketsKeptApart)
BY ChainImplementsAssembly, NothingLostCorrect, PacketsKeptApartCorrect, PTL

-----------------------------------------------------------------------------
(* Data blocks *)

ADCDataBlock == [ch : Channels, waveform : Seq(Int)]

Loops == [ok : BOOLEAN, offset : Nat, blocks : Seq(ADCDataBlock)]

Start == [ok |-> TRUE, offset |-> 0, blocks |-> <<>>]

\* The loop of extract_data_blocks after each number of its turns, up to n.
IsLoop(after, n, data) ==
    after = [k \in 0 .. n |-> IF k = 0 THEN Start ELSE Turn(data, after[k - 1])]

LEMMA LoopExists ==
    ASSUME NEW data, NEW n \in Nat
    PROVE  \E after : IsLoop(after, n, data)
<1>. DEFINE S == {k \in 0 .. n : \E after : IsLoop(after, k, data)}
<1>1. 0 \in S
  <2>. DEFINE f == [k \in 0 .. 0 |-> Start]
  <2>1. f = [k \in 0 .. 0 |-> IF k = 0 THEN Start ELSE Turn(data, f[k - 1])]
    OBVIOUS
  <2>2. IsLoop(f, 0, data)
    BY <2>1 DEF IsLoop
  <2>. QED BY <2>2
<1>2. ASSUME NEW k \in 0 .. n - 1, k \in S PROVE k + 1 \in S
  <2>1. PICK f : IsLoop(f, k, data)
    BY <1>2
  <2>. DEFINE g == [j \in 0 .. k + 1 |-> IF j = k + 1 THEN Turn(data, f[k]) ELSE f[j]]
  <2>2. ASSUME NEW j \in 0 .. k + 1
        PROVE  g[j] = IF j = 0 THEN Start ELSE Turn(data, g[j - 1])
    <3>1. CASE j = k + 1
      <4>1. j # 0 /\ j - 1 = k /\ k \in 0 .. k + 1 /\ k # k + 1
        BY <3>1
      <4>. QED BY <3>1, <4>1
    <3>2. CASE j # k + 1
      <4>1. j \in 0 .. k /\ (j # 0 => j - 1 \in 0 .. k + 1 /\ j - 1 # k + 1)
        BY <3>2
      <4>2. f[j] = IF j = 0 THEN Start ELSE Turn(data, f[j - 1])
        BY <2>1, <4>1 DEF IsLoop
      <4>3. g[j] = f[j] /\ (j # 0 => g[j - 1] = f[j - 1])
        BY <3>2, <4>1
      <4>. QED BY <4>2, <4>3
    <3>. QED BY <3>1, <3>2
  <2>3. g = [j \in 0 .. k + 1 |-> g[j]]
    OBVIOUS
  <2>. HIDE DEF g
  <2>4. IsLoop(g, k + 1, data)
    BY <2>2, <2>3 DEF IsLoop
  <2>. QED BY <2>4
<1>. HIDE DEF S
<1>3. n \in S
  BY <1>1, <1>2, UpTo
<1>. QED BY <1>3 DEF S

LEMMA ExtractIsLoop ==
    ASSUME NEW data, Len(data) \in Nat
    PROVE  \E after : IsLoop(after, Len(data), data) /\ Extract(data) = after[Len(data)]
<1>. DEFINE c == CHOOSE f : f = [k \in 0 .. Len(data) |->
                    IF k = 0 THEN [ok |-> TRUE, offset |-> 0, blocks |-> <<>>]
                    ELSE Turn(data, f[k - 1])]
<1>1. \E f : f = [k \in 0 .. Len(data) |->
                    IF k = 0 THEN [ok |-> TRUE, offset |-> 0, blocks |-> <<>>]
                    ELSE Turn(data, f[k - 1])]
  BY LoopExists DEF IsLoop, Start
<1>2. IsLoop(c, Len(data), data)
  BY <1>1 DEF IsLoop, Start
<1>3. Extract(data) = c[Len(data)]
  BY DEF Extract
<1>. QED BY <1>2, <1>3

\* Remainders are channels and lengths.
LEMMA Remainders ==
    ASSUME NEW w \in Int
    PROVE  /\ w % ChannelModulus \in Channels
           /\ w % LengthModulus \in Nat
BY ChannelAssumption DEF Channels

LEMMA TurnType ==
    ASSUME NEW data \in Seq(Int), NEW loop \in Loops
    PROVE  Turn(data, loop) \in Loops
<1>. DEFINE o == loop.offset
<1>1. loop.ok \in BOOLEAN /\ o \in Nat /\ loop.blocks \in Seq(ADCDataBlock)
  BY DEF Loops
<1>2. [loop EXCEPT !.ok = FALSE] \in Loops
  BY DEF Loops
<1>3. ASSUME o < Len(data), Readable(data, o)
      PROVE  [ok |-> TRUE, offset |-> NextOffset(data, o),
              blocks |-> loop.blocks \o PushedAt(data, o)] \in Loops
  <2>1. data[o + 1] \in Int /\ data[o + 2] \in Int
    BY <1>1, <1>3 DEF Readable
  <2>2. NextOffset(data, o) \in Nat
    <3>1. LengthAt(data, o) \in Nat
      BY <2>1, Remainders DEF LengthAt
    <3>. QED BY <1>1, <3>1 DEF NextOffset
  <2>3. PushedAt(data, o) \in Seq(ADCDataBlock)
    <3>1. CASE TypeAt(data, o) = ADC
      <4>1. o + 4 <= Len(data) /\ o + 4 + BinsAt(data, o) <= Len(data)
        BY <1>3, <3>1 DEF Readable, ADC, TDC
      <4>2. BinsAt(data, o) \in Nat
        <5>1. data[o + 4] \in Int
          BY <1>1, <4>1
        <5>. QED BY <5>1, Remainders DEF BinsAt
      <4>3. WaveformAt(data, o) \in Seq(Int)
        <5>1. \A i \in (o + 5) .. (o + 4 + BinsAt(data, o)) : i \in 1 .. Len(data)
          BY <1>1, <4>1, <4>2
        <5>. QED BY <1>1, <4>2, <5>1 DEF WaveformAt
      <4>4. ChannelAt(data, o) \in Channels
        BY <2>1, Remainders DEF ChannelAt
      <4>5. [ch |-> ChannelAt(data, o), waveform |-> WaveformAt(data, o)] \in ADCDataBlock
        BY <4>3, <4>4 DEF ADCDataBlock
      <4>. QED BY <3>1, <4>5 DEF PushedAt
    <3>2. CASE TypeAt(data, o) # ADC
      BY <3>2 DEF PushedAt
    <3>. QED BY <3>1, <3>2
  <2>4. loop.blocks \o PushedAt(data, o) \in Seq(ADCDataBlock)
    BY <1>1, <2>3
  <2>. QED BY <2>2, <2>4 DEF Loops
<1>. QED BY <1>1, <1>2, <1>3 DEF Turn

\* Whatever the data is, what is pushed are blocks with a channel and a waveform.
LEMMA ExtractType ==
    ASSUME NEW data \in Seq(Int)
    PROVE  Extract(data) \in Loops
<1>1. PICK f : IsLoop(f, Len(data), data) /\ Extract(data) = f[Len(data)]
  BY ExtractIsLoop
<1>. DEFINE S == {k \in 0 .. Len(data) : f[k] \in Loops}
<1>2. \A k \in 0 .. Len(data) : f[k] = IF k = 0 THEN Start ELSE Turn(data, f[k - 1])
  BY <1>1 DEF IsLoop
<1>3. 0 \in S
  <2>1. 0 \in 0 .. Len(data) /\ f[0] = Start
    BY <1>2
  <2>2. Start \in Loops
    BY DEF Start, Loops
  <2>. QED BY <2>1, <2>2
<1>4. ASSUME NEW k \in 0 .. Len(data) - 1, k \in S PROVE k + 1 \in S
  <2>1. k + 1 \in 0 .. Len(data) /\ k + 1 # 0 /\ (k + 1) - 1 = k /\ f[k] \in Loops
    BY <1>4
  <2>2. f[k + 1] = Turn(data, f[k])
    BY <1>2, <2>1
  <2>. QED BY <2>1, <2>2, TurnType
<1>. HIDE DEF S
<1>5. Len(data) \in S
  <2>1. Len(data) \in Nat /\ Len(data) \in 0 .. Len(data)
    OBVIOUS
  <2>. QED BY <1>3, <1>4, <2>1, UpTo
<1>. QED BY <1>1, <1>5 DEF S

\* What a quotient and a remainder are of.
LEMMA QuotientOf ==
    ASSUME NEW v \in Nat \ {0}, NEW r \in 0 .. v - 1
    PROVE  /\ r \div v = 0 /\ r % v = r
           /\ (v + r) \div v = 1 /\ (v + r) % v = r
<1>1. ASSUME NEW x \in Nat
      PROVE  /\ x \div v \in Nat /\ x % v \in 0 .. v - 1
             /\ x = v * (x \div v) + (x % v)
  OBVIOUS
<1>2. ASSUME NEW q \in Nat PROVE (q >= 1 => v * q >= v) /\ (q >= 2 => v * q >= v + v)
  <2>1. q >= 1 => v * q = v * (q - 1) + v /\ v * (q - 1) \in Nat
    OBVIOUS
  <2>2. q >= 2 => v * (q - 1) >= v
    <3>1. q >= 2 => v * (q - 1) = v * (q - 2) + v /\ v * (q - 2) \in Nat
      OBVIOUS
    <3>. QED BY <3>1
  <2>. QED BY <2>1, <2>2
<1>3. r \div v = 0 /\ r % v = r
  <2>. DEFINE q == r \div v
              m == r % v
  <2>1. q \in Nat /\ m \in 0 .. v - 1 /\ r = v * q + m /\ (q >= 1 => v * q >= v)
    BY <1>1, <1>2
  <2>. HIDE DEF q, m
  <2>2. q = 0
    <3>1. v * q \in Nat
      BY <2>1
    <3>. QED BY <2>1, <3>1
  <2>3. v * q = 0
    BY <2>2
  <2>. QED BY <2>1, <2>2, <2>3 DEF q, m
<1>4. (v + r) \div v = 1 /\ (v + r) % v = r
  <2>. DEFINE x == v + r
              q == x \div v
              m == x % v
  <2>1. /\ q \in Nat /\ m \in 0 .. v - 1 /\ x = v * q + m
        /\ (q >= 2 => v * q >= v + v)
    <3>1. x \in Nat
      OBVIOUS
    <3>. QED BY <3>1, <1>1, <1>2
  <2>. HIDE DEF q, m
  <2>2. v * q \in Nat
    BY <2>1
  <2>3. q # 0
    <3>1. q = 0 => v * q = 0
      OBVIOUS
    <3>. QED BY <2>1, <3>1
  <2>4. q = 1
    BY <2>1, <2>2, <2>3
  <2>5. v * q = v
    BY <2>4
  <2>. QED BY <2>1, <2>4, <2>5 DEF q, m
<1>. QED BY <1>3, <1>4

\* What the board packs for a block, and what is pushed for it.
Pushed(block) ==
    IF block.type = ADC THEN <<[ch |-> block.ch, waveform |-> block.waveform]>> ELSE <<>>

LEMMA PackedFacts ==
    ASSUME NEW block \in DataBlock
    PROVE  LET words == Packed(block)
               payload == IF block.type = ADC THEN Len(block.waveform) + 2 ELSE Len(block.waveform)
           IN  /\ words \in Seq(Int) /\ Len(words) = payload + 2
               /\ payload \in Nat /\ words[1] = payload /\ payload < LengthModulus
               /\ words[2] \div ChannelModulus = block.type
               /\ words[2] % ChannelModulus = block.ch
               /\ block.type = ADC =>
                     /\ words[4] = Len(block.waveform)
                     /\ \A i \in 1 .. Len(block.waveform) : words[i + 4] = block.waveform[i]
<1>. DEFINE w == block.waveform
            size == IF block.type = ADC THEN Len(w) + 2 ELSE Len(w)
<1>1. /\ block.type \in {0, 1} /\ block.ch \in Nat /\ block.ch < ChannelModulus
      /\ w \in Seq(Int) /\ Len(w) + 2 < LengthModulus /\ Len(w) \in Nat
  BY ChannelAssumption DEF DataBlock, Channels, ADC, TDC
<1>2. /\ block.ch \div ChannelModulus = 0 /\ block.ch % ChannelModulus = block.ch
      /\ (ChannelModulus + block.ch) \div ChannelModulus = 1
      /\ (ChannelModulus + block.ch) % ChannelModulus = block.ch
      /\ 0 * ChannelModulus + block.ch = block.ch
      /\ 1 * ChannelModulus + block.ch = ChannelModulus + block.ch
      /\ block.ch \in Int /\ ChannelModulus + block.ch \in Int
  <2>. DEFINE v == ChannelModulus
              r == block.ch
  <2>1. v \in Nat \ {0} /\ r \in 0 .. v - 1
    BY <1>1, ChannelAssumption
  <2>. HIDE DEF v, r
  <2>2. /\ r \div v = 0 /\ r % v = r
        /\ (v + r) \div v = 1 /\ (v + r) % v = r
    BY <2>1, QuotientOf
  <2>3. 0 * v + r = r /\ 1 * v + r = v + r /\ r \in Int /\ v + r \in Int
    BY <2>1
  <2>. QED BY <2>2, <2>3 DEF v, r
<1>5. /\ block.type = ADC => size = Len(w) + 2
      /\ block.type = TDC => size = Len(w)
  BY DEF ADC, TDC
<1>6. SUFFICES /\ Packed(block) \in Seq(Int) /\ Len(Packed(block)) = size + 2
               /\ size \in Nat /\ Packed(block)[1] = size /\ size < LengthModulus
               /\ Packed(block)[2] \div ChannelModulus = block.type
               /\ Packed(block)[2] % ChannelModulus = block.ch
               /\ block.type = ADC =>
                     /\ Packed(block)[4] = Len(w)
                     /\ \A i \in 1 .. Len(w) : Packed(block)[i + 4] = w[i]
  BY DEF size, w
<1>. HIDE DEF w, size
<1>3. CASE block.type = ADC
  <2>. DEFINE second == ADC * ChannelModulus + block.ch
              payload == <<0, Len(w)>> \o w
              words == <<Len(payload), second>> \o payload
  <2>1. Packed(block) = words
    BY <1>3 DEF Packed, w
  <2>2. /\ payload \in Seq(Int) /\ Len(payload) = Len(w) + 2
        /\ payload[2] = Len(w)
        /\ \A i \in 1 .. Len(w) : payload[i + 2] = w[i]
    BY <1>1
  <2>3. second \in Int /\ second \div ChannelModulus = 1 /\ second % ChannelModulus = block.ch
    BY <1>2 DEF ADC
  <2>. HIDE DEF second, payload
  <2>4. /\ words \in Seq(Int) /\ Len(words) = Len(payload) + 2
        /\ words[1] = Len(payload) /\ words[2] = second /\ words[4] = payload[2]
        /\ \A i \in 1 .. Len(payload) : words[i + 2] = payload[i]
    BY <1>1, <2>2, <2>3
  <2>. HIDE DEF words
  <2>5. \A i \in 1 .. Len(w) : words[i + 4] = w[i]
    <3>1. ASSUME NEW i \in 1 .. Len(w) PROVE words[i + 4] = w[i]
      <4>1. i + 2 \in 1 .. Len(payload) /\ (i + 2) + 2 = i + 4
        BY <1>1, <2>2
      <4>2. words[(i + 2) + 2] = payload[i + 2]
        BY <2>4, <4>1
      <4>. QED BY <2>2, <4>1, <4>2
    <3>. QED BY <3>1
  <2>. QED BY <1>1, <1>3, <1>5, <2>1, <2>2, <2>3, <2>4, <2>5 DEF ADC
<1>4. CASE block.type = TDC
  <2>. DEFINE second == TDC * ChannelModulus + block.ch
              words == <<Len(w), second>> \o w
  <2>1. Packed(block) = words
    BY <1>4 DEF Packed, ADC, TDC, w
  <2>2. second \in Int /\ second \div ChannelModulus = 0 /\ second % ChannelModulus = block.ch
    BY <1>2 DEF TDC
  <2>. HIDE DEF second
  <2>3. /\ words \in Seq(Int) /\ Len(words) = Len(w) + 2
        /\ words[1] = Len(w) /\ words[2] = second
    BY <1>1, <2>2
  <2>. HIDE DEF words
  <2>4. block.type # ADC
    BY <1>4 DEF ADC, TDC
  <2>5. size = Len(w)
    BY <1>4, <1>5
  <2>6. size \in Nat /\ size < LengthModulus
    BY <1>1, <2>5, ChannelAssumption
  <2>7. /\ words[2] \div ChannelModulus = block.type
        /\ words[2] % ChannelModulus = block.ch
    BY <1>4, <2>2, <2>3 DEF TDC
  <2>. QED BY <2>1, <2>3, <2>4, <2>5, <2>6, <2>7
<1>. QED BY <1>1, <1>3, <1>4 DEF ADC, TDC

\* The words are found in the data behind o others.
Lies(words, data, o) ==
    /\ o + Len(words) <= Len(data)
    /\ \A i \in 1 .. Len(words) : data[o + i] = words[i]

\* The loop with so many words behind it.
Behind(o, read) == [ok |-> TRUE, offset |-> o, blocks |-> read]

\* A turn of the loop that stands at a packed block reads that block.
LEMMA TurnAt ==
    ASSUME NEW block \in DataBlock, NEW data \in Seq(Int), NEW o \in Nat,
           Lies(Packed(block), data, o), NEW pushed
    PROVE  Turn(data, Behind(o, pushed)) = Behind(o + Len(Packed(block)), pushed \o Pushed(block))
<1>. DEFINE words == Packed(block)
            w == block.waveform
            payload == IF block.type = ADC THEN Len(w) + 2 ELSE Len(w)
<1>0. /\ o + Len(words) <= Len(data)
      /\ \A i \in 1 .. Len(words) : data[o + i] = words[i]
  BY DEF Lies
<1>1. /\ words \in Seq(Int) /\ Len(words) = payload + 2
      /\ payload \in Nat /\ words[1] = payload /\ payload < LengthModulus
      /\ words[2] \div ChannelModulus = block.type
      /\ words[2] % ChannelModulus = block.ch
      /\ block.type = ADC =>
            /\ words[4] = Len(w)
            /\ \A i \in 1 .. Len(w) : words[i + 4] = w[i]
  BY PackedFacts
<1>2. block.type \in {ADC, TDC} /\ w \in Seq(Int) /\ Len(w) \in Nat
  BY DEF DataBlock
<1>3. block.type = ADC => payload = Len(w) + 2
  OBVIOUS
<1>. HIDE DEF words, w, payload
<1>4. ASSUME NEW n \in Nat, n < LengthModulus PROVE n % LengthModulus = n
  <2>. DEFINE v == LengthModulus
  <2>1. v \in Nat \ {0} /\ n \in 0 .. v - 1
    BY <1>4, ChannelAssumption
  <2>. HIDE DEF v
  <2>2. n % v = n
    BY ONLY <2>1, QuotientOf
  <2>. QED BY <2>2 DEF v
<1>5. /\ 1 \in 1 .. Len(words) /\ 2 \in 1 .. Len(words)
      /\ Len(data) \in Nat /\ Len(words) \in Nat /\ o < Len(data) /\ o + 2 <= Len(data)
  <2>1. Len(words) \in Nat /\ Len(words) >= 2 /\ Len(data) \in Nat
    BY <1>1
  <2>. QED BY <1>0, <2>1
<1>6. LengthAt(data, o) = payload
  <2>1. data[o + 1] = payload
    <3>1. data[o + 1] = words[1]
      BY <1>0, <1>5
    <3>. QED BY <1>1, <3>1
  <2>2. payload % LengthModulus = payload
    BY <1>1, <1>4
  <2>. QED BY <2>1, <2>2 DEF LengthAt
<1>7. TypeAt(data, o) = block.type /\ ChannelAt(data, o) = block.ch
  <2>1. data[o + 2] = words[2]
    BY <1>0, <1>5
  <2>. QED BY <1>1, <2>1 DEF TypeAt, ChannelAt
<1>8. NextOffset(data, o) = o + Len(words)
  <2>1. NextOffset(data, o) = o + payload + 2
    BY <1>6 DEF NextOffset
  <2>. QED BY <1>1, <2>1
<1>9. CASE block.type = ADC
  <2>1. Len(words) = Len(w) + 4 /\ Len(w) < LengthModulus
    <3>1. payload = Len(w) + 2
      BY <1>3, <1>9
    <3>2. LengthModulus \in Nat
      BY ChannelAssumption
    <3>. QED BY <1>1, <1>2, <3>1, <3>2
  <2>2. BinsAt(data, o) = Len(w)
    <3>1. 4 \in 1 .. Len(words)
      BY <1>2, <2>1
    <3>2. data[o + 4] = words[4]
      BY <1>0, <3>1
    <3>3. data[o + 4] = Len(w)
      BY <1>1, <1>9, <3>2
    <3>4. Len(w) % LengthModulus = Len(w)
      BY <1>2, <1>4, <2>1
    <3>. QED BY <3>3, <3>4 DEF BinsAt
  <2>3. WaveformAt(data, o) = w
    <3>. DEFINE p == o + 4
    <3>1. ASSUME NEW i \in 1 .. Len(w) PROVE data[p + i] = w[i]
      <4>1. i + 4 \in 1 .. Len(words) /\ p + i = o + (i + 4)
        BY <1>2, <2>1
      <4>2. data[o + (i + 4)] = words[i + 4]
        BY <1>0, <4>1
      <4>3. words[i + 4] = w[i]
        BY <1>1, <1>9
      <4>. HIDE DEF p
      <4>. QED BY <4>1, <4>2, <4>3
    <3>2. p \in Nat /\ p + Len(w) <= Len(data) /\ p + 1 = o + 5 /\ data \in Seq(Int)
      BY <1>0, <1>2, <1>5, <2>1
    <3>3. WaveformAt(data, o) = SubSeq(data, p + 1, p + Len(w))
      BY <2>2, <3>2 DEF WaveformAt
    <3>. HIDE DEF p
    <3>4. SubSeq(data, p + 1, p + Len(w)) = w
      BY ONLY <1>2, <3>1, <3>2, SubSeqIs
    <3>. QED BY <3>3, <3>4
  <2>4. Readable(data, o)
    <3>1. o + 4 + Len(w) <= Len(data) /\ o + 4 <= Len(data)
      BY <1>0, <1>2, <1>5, <2>1
    <3>2. o + 4 + BinsAt(data, o) <= Len(data)
      BY <2>2, <3>1
    <3>3. TypeAt(data, o) = ADC
      BY <1>7, <1>9
    <3>. QED BY <1>5, <3>1, <3>2, <3>3 DEF Readable
  <2>5. PushedAt(data, o) = Pushed(block)
    BY <1>7, <1>9, <2>3 DEF PushedAt, Pushed, w
  <2>. QED BY <1>5, <1>8, <2>4, <2>5 DEF Turn, Behind, words
<1>10. CASE block.type = TDC
  <2>1. TypeAt(data, o) = TDC
    BY <1>7, <1>10
  <2>2. Readable(data, o)
    BY <1>5, <2>1 DEF Readable
  <2>3. PushedAt(data, o) = Pushed(block)
    BY <1>10, <2>1 DEF PushedAt, Pushed, ADC, TDC
  <2>. QED BY <1>5, <1>8, <2>2, <2>3 DEF Turn, Behind, words
<1>. QED BY <1>2, <1>9, <1>10

\* What the board packed is read back.
LEMMA PackedIsRead ==
    ASSUME NEW list \in Seq(DataBlock)
    PROVE  /\ Pack(list) \in Seq(Int)
           /\ Extract(Pack(list)) = [ok |-> TRUE, offset |-> Len(Pack(list)),
                                     blocks |-> ADCBlocks(list)]
<1>. DEFINE N == Len(list)
            data == Pack(list)
            words == [k \in 1 .. N |-> Packed(list[k])]
            out == [k \in 1 .. N |-> Pushed(list[k])]
            W(k) == FlattenSeq(SubSeq(words, 1, k))
            B(k) == FlattenSeq(SubSeq(out, 1, k))
            At(k) == [ok |-> TRUE, offset |-> Len(W(k)), blocks |-> B(k)]
<1>1. N \in Nat /\ \A k \in 1 .. N : list[k] \in DataBlock
  OBVIOUS
<1>2. \A k \in 1 .. N : /\ Packed(list[k]) \in Seq(Int) /\ Len(Packed(list[k])) >= 2
                        /\ Pushed(list[k]) \in Seq(ADCDataBlock)
  <2>1. ASSUME NEW block \in DataBlock
        PROVE  /\ Packed(block) \in Seq(Int) /\ Len(Packed(block)) >= 2
               /\ Pushed(block) \in Seq(ADCDataBlock)
    <3>1. Packed(block) \in Seq(Int) /\ Len(Packed(block)) >= 2
      BY PackedFacts
    <3>2. [ch |-> block.ch, waveform |-> block.waveform] \in ADCDataBlock
      BY DEF DataBlock, ADCDataBlock
    <3>. QED BY <3>1, <3>2 DEF Pushed
  <2>. QED BY <1>1, <2>1
<1>3. /\ words \in Seq(Seq(Int)) /\ Len(words) = N /\ \A k \in 1 .. N : words[k] = Packed(list[k])
      /\ out \in Seq(Seq(ADCDataBlock)) /\ Len(out) = N /\ \A k \in 1 .. N : out[k] = Pushed(list[k])
  BY <1>1, <1>2
<1>4. data = FlattenSeq(words) /\ ADCBlocks(list) = FlattenSeq(out)
  BY DEF Pack, ADCBlocks, Pushed
<1>. HIDE DEF words, out, data, N
<1>5. data \in Seq(Int) /\ Len(data) \in Nat
  BY <1>3, <1>4, FlattenType
<1>6. ASSUME NEW k \in 0 .. N
      PROVE  /\ W(k) \in Seq(Int) /\ \E rest \in Seq(Int) : data = W(k) \o rest
  <2>1. SubSeq(words, 1, k) \in Seq(Seq(Int)) /\ k \in 0 .. Len(words)
    BY <1>3
  <2>2. W(k) \in Seq(Int)
    BY <2>1, FlattenType
  <2>3. \E rest \in Seq(Int) : FlattenSeq(words) = W(k) \o rest
    BY <1>3, <2>1, FlattenSplit
  <2>. QED BY <1>4, <2>2, <2>3
<1>7. ASSUME NEW k \in 0 .. N - 1
      PROVE  W(k + 1) = W(k) \o Packed(list[k + 1]) /\ B(k + 1) = B(k) \o Pushed(list[k + 1])
  <2>1. k \in 0 .. Len(words) - 1 /\ k \in 0 .. Len(out) - 1 /\ k + 1 \in 1 .. N
    BY <1>1, <1>3
  <2>2. W(k + 1) = W(k) \o words[k + 1]
    BY <1>3, <2>1, FlattenStep
  <2>3. B(k + 1) = B(k) \o out[k + 1]
    BY <1>3, <2>1, FlattenStep
  <2>. QED BY <1>3, <2>1, <2>2, <2>3
<1>8. W(0) = <<>> /\ B(0) = <<>>
  <2>1. SubSeq(words, 1, 0) = <<>> /\ SubSeq(out, 1, 0) = <<>>
    BY <1>3
  <2>. QED BY <2>1, FlattenEmpty
<1>9. W(N) = data /\ B(N) = ADCBlocks(list)
  <2>1. SubSeq(words, 1, N) = words /\ SubSeq(out, 1, N) = out
    BY <1>3
  <2>. QED BY <1>4, <2>1
<1>. HIDE DEF W, B
<1>10. PICK f : IsLoop(f, Len(data), data) /\ Extract(data) = f[Len(data)]
  BY <1>5, ExtractIsLoop
<1>11. \A k \in 0 .. Len(data) : f[k] = IF k = 0 THEN Start ELSE Turn(data, f[k - 1])
  BY <1>10 DEF IsLoop
\* The first turns read a block each.
<1>. DEFINE S == {k \in 0 .. N : k <= Len(W(k)) /\ Len(W(k)) <= Len(data) /\ f[k] = At(k)}
<1>12. 0 \in S
  <2>1. f[0] = Start /\ 0 \in 0 .. N
    BY <1>1, <1>5, <1>11
  <2>2. Len(W(0)) = 0
    BY <1>8
  <2>3. At(0) = Start
    BY <1>8, <2>2 DEF Start
  <2>. HIDE DEF At
  <2>. QED BY <1>5, <2>1, <2>2, <2>3
<1>13. ASSUME NEW k \in 0 .. N - 1, k \in S PROVE k + 1 \in S
  <2>. DEFINE block == list[k + 1]
  <2>1. block \in DataBlock /\ k \in 0 .. N /\ k + 1 \in 0 .. N /\ k + 1 \in 1 .. N
    BY <1>1
  <2>2. Packed(block) \in Seq(Int) /\ Len(Packed(block)) >= 2 /\ W(k) \in Seq(Int)
    BY <1>2, <1>6, <2>1
  <2>3. PICK rest \in Seq(Int) : data = W(k + 1) \o rest
    BY <1>6, <2>1
  <2>4. W(k + 1) = W(k) \o Packed(block) /\ B(k + 1) = B(k) \o Pushed(block)
    BY <1>7
  <2>. HIDE DEF block
  <2>5. data = (W(k) \o Packed(block)) \o rest
    BY <2>3, <2>4
  <2>6. /\ Len(data) = Len(W(k)) + Len(Packed(block)) + Len(rest)
        /\ Len(W(k + 1)) = Len(W(k)) + Len(Packed(block)) /\ Len(rest) \in Nat
        /\ \A i \in 1 .. Len(Packed(block)) : data[Len(W(k)) + i] = Packed(block)[i]
    BY <2>2, <2>4, <2>5, Middle
  <2>7. Turn(data, At(k)) = At(k + 1)
    <3>. DEFINE o == Len(W(k))
                pushed == B(k)
    <3>1. data \in Seq(Int) /\ o \in Nat /\ Len(W(k + 1)) = o + Len(Packed(block))
      BY <1>5, <2>2, <2>6
    <3>2. Lies(Packed(block), data, o)
      <4>1. \A i \in 1 .. Len(Packed(block)) : data[o + i] = Packed(block)[i]
        BY <2>6
      <4>. QED BY <2>2, <2>6, <4>1 DEF Lies
    <3>3. At(k) = Behind(o, pushed)
      BY DEF Behind
    <3>4. At(k + 1) = Behind(Len(W(k + 1)), B(k + 1))
      BY DEF Behind
    <3>. HIDE DEF o, pushed, At
    <3>5. Turn(data, Behind(o, pushed))
            = Behind(o + Len(Packed(block)), pushed \o Pushed(block))
      BY ONLY <2>1, <3>1, <3>2, TurnAt
    <3>6. B(k + 1) = pushed \o Pushed(block)
      BY <2>4 DEF pushed
    <3>. QED BY <3>1, <3>3, <3>4, <3>5, <3>6
  <2>8. k <= Len(W(k)) /\ f[k] = At(k)
    BY <1>13
  <2>. HIDE DEF At
  <2>9. k + 1 <= Len(W(k + 1)) /\ Len(W(k + 1)) <= Len(data)
    BY <2>2, <2>6, <2>8
  <2>10. f[k + 1] = Turn(data, f[k])
    <3>1. k + 1 \in 0 .. Len(data) /\ k + 1 # 0 /\ (k + 1) - 1 = k
      BY <1>5, <2>2, <2>6, <2>9
    <3>. QED BY <1>11, <3>1
  <2>. QED BY <2>1, <2>7, <2>8, <2>9, <2>10
<1>14. N <= Len(data) /\ f[N] = At(N)
  <2>. HIDE DEF S
  <2>1. N \in S
    <3>1. N \in Nat /\ N \in 0 .. N
      BY <1>1
    <3>. QED BY <1>12, <1>13, <3>1, UpTo
  <2>. QED BY <1>1, <1>5, <1>9, <2>1 DEF S
\* The others find the end of the data.
<1>. DEFINE Q == {k \in 0 .. Len(data) - N : f[N + k] = At(N)}
<1>15. Turn(data, At(N)) = At(N)
  BY <1>5, <1>9 DEF Turn
<1>. HIDE DEF At
<1>16. 0 \in Q
  <2>1. N + 0 = N /\ 0 \in 0 .. Len(data) - N
    BY <1>1, <1>5, <1>14
  <2>. QED BY <1>14, <2>1
<1>17. ASSUME NEW k \in 0 .. (Len(data) - N) - 1, k \in Q PROVE k + 1 \in Q
  <2>1. /\ N + (k + 1) \in 0 .. Len(data) /\ N + (k + 1) # 0
        /\ (N + (k + 1)) - 1 = N + k /\ k + 1 \in 0 .. Len(data) - N
    BY <1>1, <1>5, <1>14
  <2>2. f[N + (k + 1)] = Turn(data, f[N + k])
    BY <1>11, <2>1
  <2>. QED BY <1>15, <1>17, <2>1, <2>2
<1>18. f[Len(data)] = At(N)
  <2>1. Len(data) - N \in Nat /\ Len(data) - N \in 0 .. Len(data) - N
    BY <1>1, <1>5, <1>14
  <2>2. N + (Len(data) - N) = Len(data)
    BY <1>1, <1>5
  <2>. DEFINE d == Len(data) - N
  <2>. HIDE DEF d, Q
  <2>3. d \in Q
    BY <1>16, <1>17, <2>1, UpTo DEF d
  <2>. QED BY <2>2, <2>3 DEF d, Q
<1>19. Extract(data) = [ok |-> TRUE, offset |-> Len(data), blocks |-> ADCBlocks(list)]
  BY <1>9, <1>10, <1>18 DEF At
<1>. QED BY <1>5, <1>19 DEF data

-----------------------------------------------------------------------------
(* Events and their blocks *)

\* The times of the packets that a frame was received of.
Received == {TaiOf[frames[i].packet] : i \in 1 .. Len(frames)}

\* The fragment at offset 0 that the time of an event is taken from.
LEMMA EventTai ==
    ASSUME ReturnInv, status = "done", NEW k \in 1 .. Len(Events)
    PROVE  \E i \in Events[k].parts : /\ i \in 1 .. Len(frames)
                                      /\ Tai(Events[k]) = TaiOf[frames[i].packet]
<1>1. ShapeInv /\ TypeInv /\ OwnId
  BY DEF ReturnInv, CoverInv, ShapeInv
<1>2. idx = Len(frames) + 1 /\ MergeOk(Events[k])
  BY DEF ReturnInv, EndsAsMerged
<1>3. PICK n \in EntryNames : Events[k] = EntryOf(n)
  BY <1>1, EventsFacts
<1>. DEFINE parts == Events[k].parts
            slice == Slice(parts)
<1>4. slice \in Seq(Fragment) /\ Len(slice) \in Nat \ {0}
  BY <1>1, <1>3, SliceFacts
<1>5. \A i \in parts : i \in 1 .. Len(frames)
  BY <1>1, <1>2, <1>3 DEF ShapeInv, ShapeOf
<1>6. slice[1].offset = 0
  <2>1. Chained(slice)
    BY <1>2 DEF MergeOk, Merge
  <2>. HIDE DEF slice
  <2>. QED BY <1>4, <2>1 DEF Chained, GapAt, Expected
<1>7. \E i \in parts : FragmentAt(i) = slice[1]
  <2>1. \A q \in 1 .. Len(slice) : \E i \in parts : FragmentAt(i) = slice[q]
    BY <1>1, <1>3, SliceFacts
  <2>. HIDE DEF slice, parts
  <2>. QED BY <1>4, <2>1
<1>8. \E i \in parts : Offset(i) = 0
  BY <1>6, <1>7 DEF Offset
<1>9. PICK i \in parts : i = CHOOSE j \in parts : Offset(j) = 0
  BY <1>8
<1>. QED BY <1>5, <1>9 DEF Tai

LEMMA ReceivedTypes ==
    ASSUME TypeInv
    PROVE  Received \subseteq Lead .. TimeModulus - 1
<1>1. ASSUME NEW i \in 1 .. Len(frames) PROVE TaiOf[frames[i].packet] \in Lead .. TimeModulus - 1
  <2>1. frames[i].packet \in Packets
    BY FrameTypes DEF TypeInv, Frame
  <2>. QED BY <2>1, PointsAssumption
<1>. QED BY <1>1 DEF Received

Event == [tai : Received, adc_blocks : Seq(ADCDataBlock)]
Block == [tai : Received, ch : Channels, waveform : Seq(Int)]

\* Event k is what the packet it was given holds, with the time of its entry.
ReadsEvent(k) ==
    /\ k \in 1 .. Len(Events) /\ status = "done"
    /\ events[k].tai = Tai(Events[k])
    /\ Extract(given[k]).ok
    /\ events[k].adc_blocks = Extract(given[k]).blocks

\* There is one for each packet that was given, but for the one that panicked.
EventsInv ==
    /\ events \in Seq(Event) /\ given \in Seq(Seq(Int))
    /\ stage \in {"assembling", "making", "made", "err", "panic"}
    /\ stage \in {"making", "made"} => status = "done" /\ Len(events) = Len(Events)
    /\ \A k \in 1 .. Len(events) : k <= Len(given) /\ ReadsEvent(k)
    /\ \A k \in 1 .. Len(given) :
          k > Len(events) => stage = "panic" /\ ~ Extract(given[k]).ok

LEMMA UserDataTypes == UserData \subseteq Seq(Int)
<1>1. \A list \in Lists : Pack(list) \in Seq(Int)
  BY PointsAssumption, PackedIsRead
<1>. QED BY <1>1, PointsAssumption DEF UserData


\* What is read of the assembly stays when its variables do.
LEMMA AssemblyStays ==
    ASSUME UNCHANGED vars
    PROVE  /\ Received' = Received /\ Events' = Events /\ status' = status
           /\ \A k \in 1 .. Len(Events) : Tai(Events[k])' = Tai(Events[k])
<1>1. frames' = frames /\ fragments' = fragments /\ blocks' = blocks /\ status' = status
  BY DEF vars
<1>2. Events' = Events
  BY <1>1 DEF Events, OpenIds, Present
<1>3. \A k \in 1 .. Len(Events) : Tai(Events[k])' = Tai(Events[k])
  BY <1>1, <1>2 DEF Tai, Offset, FragmentAt
<1>. QED BY <1>1, <1>2, <1>3 DEF Received

\* The frames never change, and what is assembled stays so.
LEMMA DoneStays ==
    ASSUME [Next]_vars
    PROVE  Received' = Received /\ (status = "done" => UNCHANGED vars)
<1>1. status = "done" => UNCHANGED vars
  BY DEF Next, RejectFrame, OpenEntry, ExtendEntry, EvictEntry, Finish, Returned, Scanning, vars
<1>2. frames' = frames
  BY DEF Next, RejectFrame, OpenEntry, ExtendEntry, EvictEntry, Finish, Returned, vars
<1>. QED BY <1>1, <1>2 DEF Received

\* An event that was read stays read.
LEMMA ReadStays ==
    ASSUME EventsInv, [Next]_vars, NEW k \in 1 .. Len(events),
           Len(events') \in Nat, Len(events) <= Len(events'), events'[k] = events[k], given'[k] = given[k]
    PROVE  ReadsEvent(k)'
<1>1. ReadsEvent(k)
  BY DEF EventsInv
<1>2. UNCHANGED vars
  BY <1>1, DoneStays DEF ReadsEvent
<1>3. /\ Events' = Events /\ status' = status
      /\ \A q \in 1 .. Len(Events) : Tai(Events[q])' = Tai(Events[q])
  BY <1>2, AssemblyStays
<1>. QED BY <1>1, <1>3 DEF ReadsEvent

LEMMA EventsSame ==
    ASSUME EventsInv, [Next]_vars, UNCHANGED <<events, given>>,
           stage' \in {"assembling", "making", "made", "err", "panic"},
           stage = "panic" => stage' = "panic",
           stage' \in {"making", "made"} => status' = "done" /\ Len(events) = Len(Events')
    PROVE  EventsInv'
<1>1. events \in Seq(Event) /\ Received' = Received
  BY DoneStays DEF EventsInv
<1>2. events' \in Seq(Event')
  BY <1>1 DEF Event
<1>3. ASSUME NEW k \in 1 .. Len(events) PROVE ReadsEvent(k)'
  BY <1>1, ReadStays
<1>. QED BY <1>2, <1>3 DEF EventsInv

LEMMA EventsStep ==
    ASSUME ReturnInv, EventsInv, [AllNext]_allVars
    PROVE  EventsInv'
<1>1. [Next]_vars
  BY ChainStep
<1>2. TypeInv /\ ShapeInv /\ OwnId
  BY DEF ReturnInv, CoverInv, ShapeInv
<1>3. CASE UNCHANGED <<stage, events, given>>
  <2>1. stage \in {"making", "made"} => status' = "done" /\ Len(events) = Len(Events')
    BY <1>1, DoneStays, AssemblyStays DEF EventsInv
  <2>. QED BY <1>1, <1>3, <2>1, EventsSame DEF EventsInv
<1>4. CASE ExtractEvent
  <2>1. /\ stage = "assembling" /\ status = "done" /\ Len(events) < Len(Events)
        /\ UNCHANGED vars
    BY <1>4 DEF ExtractEvent
  <2>2. /\ Received' = Received /\ Events' = Events /\ status' = "done"
        /\ \A k \in 1 .. Len(Events) : Tai(Events[k])' = Tai(Events[k])
    BY <2>1, AssemblyStays
  <2>0. PICK n \in Nat : n = Len(events) + 1
    BY DEF EventsInv
  <2>. DEFINE event(data) == [tai |-> Tai(Events[n]), adc_blocks |-> Extract(data).blocks]
  <2>3. PICK data \in UserData :
          /\ given' = Append(given, data)
          /\ IF Extract(data).ok THEN events' = Append(events, event(data)) /\ stage' = stage
             ELSE stage' = "panic" /\ UNCHANGED events
    BY <1>4, <2>0 DEF ExtractEvent
  <2>4. data \in Seq(Int) /\ Extract(data) \in Loops
    BY UserDataTypes, ExtractType
  <2>5. /\ Len(events) \in Nat /\ Len(Events) \in Nat /\ n \in 1 .. Len(Events)
        /\ Len(given) = Len(events) /\ n = Len(events) + 1
    <3>1. Len(events) \in Nat /\ Len(given) \in Nat /\ Len(Events) \in Nat
      BY <1>2, EventsFacts DEF EventsInv
    <3>2. ~ (Len(events) < Len(given))
      BY <2>1, <3>1 DEF EventsInv
    <3>3. \A k \in 1 .. Len(events) : k <= Len(given)
      BY DEF EventsInv
    <3>. QED BY <2>0, <2>1, <3>1, <3>2, <3>3
  <2>6. PICK i \in 1 .. Len(frames) : Tai(Events[n]) = TaiOf[frames[i].packet]
    BY <2>1, <2>5, EventTai
  <2>7. event(data) \in Event
    BY <2>4, <2>6 DEF Event, Received, Loops
  <2>8. given' \in Seq(Seq(Int)) /\ Len(given') = n /\ given'[n] = data
        /\ \A k \in 1 .. Len(events) : given'[k] = given[k]
    BY <2>3, <2>4, <2>5 DEF EventsInv
  <2>9. CASE Extract(data).ok
    <3>1. /\ events' = Append(events, event(data)) /\ stage' = "assembling"
          /\ events \in Seq(Event)
      BY <2>1, <2>3, <2>9 DEF EventsInv
    <3>. HIDE DEF event
    <3>2. /\ events' \in Seq(Event) /\ Len(events') = n
          /\ events'[n] = event(data)
          /\ \A k \in 1 .. Len(events) : events'[k] = events[k]
      BY <2>5, <2>7, <3>1
    <3>3. Event' = Event
      BY <2>2 DEF Event
    <3>4. ASSUME NEW k \in 1 .. Len(events) PROVE ReadsEvent(k)'
      BY <1>1, <2>5, <2>8, <3>2, ReadStays
    <3>5. ReadsEvent(n)'
      BY <2>2, <2>5, <2>8, <2>9, <3>2 DEF ReadsEvent, event
    <3>6. \A k \in 1 .. n : k \in 1 .. Len(events) \/ k = n
      BY <2>5
    <3>. QED BY <2>5, <2>8, <3>1, <3>2, <3>3, <3>4, <3>5, <3>6 DEF EventsInv
  <2>10. CASE ~ Extract(data).ok
    <3>1. events' = events /\ stage' = "panic"
      BY <2>3, <2>10
    <3>2. events \in Seq(Event) /\ Event' = Event /\ Len(events') \in Nat
          /\ Len(events) <= Len(events')
      BY <2>2, <3>1 DEF EventsInv, Event
    <3>3. ASSUME NEW k \in 1 .. Len(events) PROVE ReadsEvent(k)'
      BY <1>1, <2>5, <2>8, <3>1, <3>2, ReadStays
    <3>4. \A k \in 1 .. n : k > Len(events) => k = n
      BY <2>5
    <3>. QED BY <2>5, <2>8, <2>10, <3>1, <3>2, <3>3, <3>4 DEF EventsInv
  <2>. QED BY <2>9, <2>10
<1>5. CASE NoEvents
  BY <1>1, <1>5, EventsSame DEF NoEvents, Collected
<1>6. CASE MakePoint
  <2>1. UNCHANGED <<vars, events, given>> /\ stage' = "making" /\ stage = "assembling"
        /\ status = "done" /\ Len(events) = Len(Events)
    BY <1>6 DEF MakePoint, Collected
  <2>. QED BY <1>1, <2>1, AssemblyStays, EventsSame
<1>7. CASE SuppressionPanics \/ AppendPanics \/ PointMade
  <2>1. UNCHANGED <<vars, events, given>> /\ stage' \in {"made", "panic"} /\ stage = "making"
    BY <1>7 DEF SuppressionPanics, AppendPanics, PointMade, Making
  <2>2. status = "done" /\ Len(events) = Len(Events)
    BY <2>1 DEF EventsInv
  <2>. QED BY <1>1, <2>1, <2>2, AssemblyStays, EventsSame
<1>8. UNCHANGED <<stage, events, given>> \/ ExtractEvent \/ NoEvents \/ MakePoint
      \/ SuppressionPanics \/ AppendPanics \/ PointMade
  BY DEF AllNext, PointNext, Suppress, AppendFrame, Convert, ConvertPanics, allVars, pointVars
<1>. QED BY <1>3, <1>4, <1>5, <1>6, <1>7, <1>8

LEMMA EventsHold == AllSpec => [](ReturnInv /\ EventsInv)
<1>1. AllInit => EventsInv
  BY DEF AllInit, InitPoint, EventsInv
<1>. QED BY <1>1, EventsStep, ChainImplementsAssembly, ReturnHolds, PTL DEF AllSpec

\* Of every packet that the board packed the ADC blocks are read back, each with
\* its channel and waveform and in its place, whatever else it holds.
THEOREM BlocksReadBackCorrect == AllSpec => []BlocksReadBack
<1>1. EventsInv => BlocksReadBack
  <2>1. SUFFICES ASSUME EventsInv, NEW k \in 1 .. Len(given), NEW list \in Lists,
                        given[k] = Pack(list)
                 PROVE  k <= Len(events) /\ events[k].adc_blocks = ADCBlocks(list)
    BY DEF BlocksReadBack
  <2>2. Extract(given[k]) = [ok |-> TRUE, offset |-> Len(Pack(list)), blocks |-> ADCBlocks(list)]
    BY <2>1, PointsAssumption, PackedIsRead
  <2>3. Extract(given[k]).ok /\ Extract(given[k]).blocks = ADCBlocks(list)
    BY <2>2
  <2>4. Len(given) \in Nat /\ Len(events) \in Nat
    BY <2>1 DEF EventsInv
  <2>5. k <= Len(events)
    BY <2>1, <2>3, <2>4 DEF EventsInv
  <2>. QED BY <2>1, <2>3, <2>4, <2>5 DEF EventsInv, ReadsEvent
<1>. QED BY <1>1, EventsHold, PTL

-----------------------------------------------------------------------------
(* The point *)

\* The frame that is appended for a block, and what is appended to a channel.
FrameFor(block, begin) ==
    [time |-> (block.tai - begin) % TimeModulus, data |-> Quarters(block.waveform)]

AppendedTo(ch, block, begin) == IF block.ch = ch THEN <<FrameFor(block, begin)>> ELSE <<>>

FramesFor(list, begin, ch) ==
    FlattenSeq([k \in 1 .. Len(list) |-> AppendedTo(ch, list[k], begin)])

PointFrame == [time : 0 .. TimeModulus - 1, data : Seq(Int)]

LEMMA BlockTypes ==
    ASSUME TypeInv, NEW block \in Block
    PROVE  /\ block.tai \in Nat /\ block.tai \in Lead .. TimeModulus - 1
           /\ Lead \in Nat /\ TimeModulus \in Nat \ {0}
           /\ block.ch \in Channels /\ block.waveform \in Seq(Int)
<1>1. block.tai \in Lead .. TimeModulus - 1
  BY ReceivedTypes DEF Block
<1>. QED BY <1>1, PointsAssumption DEF Block

LEMMA FrameTypesOf ==
    ASSUME TypeInv, NEW block \in Block, NEW begin \in Int, NEW ch
    PROVE  FrameFor(block, begin) \in PointFrame /\ AppendedTo(ch, block, begin) \in Seq(PointFrame)
<1>1. (block.tai - begin) % TimeModulus \in 0 .. TimeModulus - 1
  BY BlockTypes
<1>2. \A bin \in Int : Quarter(bin) \in Int
  BY DEF Quarter
<1>3. Quarters(block.waveform) \in Seq(Int)
  <2>. DEFINE w == block.waveform
  <2>1. w \in Seq(Int)
    BY BlockTypes
  <2>. HIDE DEF w
  <2>2. \A k \in 1 .. Len(w) : Quarter(w[k]) \in Int
    <3>1. ASSUME NEW k \in 1 .. Len(w) PROVE Quarter(w[k]) \in Int
      <4>1. w[k] \in Int
        BY <2>1
      <4>. QED BY ONLY <1>2, <4>1
    <3>. QED BY <3>1
  <2>3. Quarters(w) \in Seq(Int)
    BY <2>1, <2>2 DEF Quarters
  <2>. QED BY <2>3 DEF w
<1>4. FrameFor(block, begin) \in PointFrame
  BY <1>1, <1>3 DEF FrameFor, PointFrame
<1>. QED BY <1>4 DEF AppendedTo

LEMMA FramesForAppend ==
    ASSUME TypeInv, NEW list \in Seq(Block), NEW block \in Block, NEW begin \in Int, NEW ch
    PROVE  /\ FramesFor(list, begin, ch) \in Seq(PointFrame)
           /\ FramesFor(Append(list, block), begin, ch)
                = FramesFor(list, begin, ch) \o AppendedTo(ch, block, begin)
<1>. DEFINE of(l) == [k \in 1 .. Len(l) |-> AppendedTo(ch, l[k], begin)]
            one == AppendedTo(ch, block, begin)
            more == Append(list, block)
<1>1. \A b \in Block : AppendedTo(ch, b, begin) \in Seq(PointFrame)
  BY FrameTypesOf
<1>2. /\ Len(list) \in Nat /\ Len(more) = Len(list) + 1 /\ more[Len(list) + 1] = block
      /\ \A k \in 1 .. Len(list) : more[k] = list[k] /\ list[k] \in Block
  OBVIOUS
<1>. HIDE DEF more
<1>3. of(list) \in Seq(Seq(PointFrame)) /\ Len(of(list)) = Len(list) /\ one \in Seq(PointFrame)
  BY <1>1, <1>2
<1>4. of(more) = Append(of(list), one)
  <2>. DEFINE a == of(more)
              b == Append(of(list), one)
              n == Len(list) + 1
  <2>1. b \in Seq(Seq(PointFrame)) /\ Len(b) = n /\ b[n] = one
        /\ \A k \in 1 .. Len(list) : b[k] = of(list)[k]
    BY <1>2, <1>3
  <2>2. \A k \in 1 .. n : a[k] = b[k]
    <3>. HIDE DEF b
    <3>1. \A k \in 1 .. Len(list) : a[k] = b[k]
      <4>1. ASSUME NEW k \in 1 .. Len(list) PROVE a[k] = b[k]
        <5>1. k \in 1 .. Len(more) /\ more[k] = list[k]
          BY <1>2
        <5>2. a[k] = AppendedTo(ch, more[k], begin)
          BY <5>1
        <5>3. of(list)[k] = AppendedTo(ch, list[k], begin)
          OBVIOUS
        <5>4. b[k] = of(list)[k]
          BY <2>1
        <5>. HIDE DEF a, of
        <5>. QED BY <5>1, <5>2, <5>3, <5>4
      <4>. QED BY <4>1
    <3>2. a[n] = b[n]
      BY <1>2, <2>1
    <3>3. \A k \in 1 .. n : k \in 1 .. Len(list) \/ k = n
      BY <1>2
    <3>. HIDE DEF a, n
    <3>. QED BY <3>1, <3>2, <3>3
  <2>3. a = [k \in 1 .. n |-> a[k]] /\ b = [k \in 1 .. n |-> b[k]]
    <3>1. a = [k \in 1 .. n |-> a[k]]
      BY <1>2
    <3>. HIDE DEF b
    <3>. QED BY <1>2, <2>1, <3>1
  <2>. HIDE DEF a, b
  <2>4. a = b
    BY <2>2, <2>3
  <2>. QED BY <2>4 DEF a, b
<1>5. FlattenSeq(of(list)) \in Seq(PointFrame)
      /\ FlattenSeq(Append(of(list), one)) = FlattenSeq(of(list)) \o one
  <2>. HIDE DEF of, one
  <2>. QED BY <1>3, FlattenType, FlattenAppend
<1>. QED BY <1>4, <1>5 DEF FramesFor, more

LEMMA FramesForNone == \A begin, ch : FramesFor(<<>>, begin, ch) = <<>>
<1>1. ASSUME NEW begin, NEW ch PROVE FramesFor(<<>>, begin, ch) = <<>>
  <2>1. [k \in 1 .. Len(<<>>) |-> AppendedTo(ch, <<>>[k], begin)] = <<>>
    OBVIOUS
  <2>. QED BY <2>1, FlattenEmpty DEF FramesFor
<1>. QED BY <1>1

\* What events_to_point has done so far, and what it has left.
MakingInv ==
    /\ kept \in Seq(Block) /\ todo \in Seq(Block)
    /\ begin_time = IF kept = <<>> THEN NoTime ELSE kept[1].tai - Lead
    /\ point = [ch \in Channels |-> FramesFor(kept, begin_time, ch)]
    /\ stage \in {"assembling", "err"} => kept = <<>>
    /\ stage \in {"making", "made"} /\ suppression = NoSuppression => kept \o todo = AllBlocks
    /\ stage = "made" => todo = <<>>

LEMMA BlocksTypes ==
    ASSUME EventsInv
    PROVE  AllBlocks \in Seq(Block)
<1>1. ASSUME NEW event \in Event PROVE BlocksOf(event) \in Seq(Block)
  <2>1. event.adc_blocks \in Seq(ADCDataBlock) /\ event.tai \in Received
    BY DEF Event
  <2>. DEFINE list == event.adc_blocks
  <2>2. ASSUME NEW k \in 1 .. Len(list)
        PROVE  [tai |-> event.tai, ch |-> list[k].ch, waveform |-> list[k].waveform] \in Block
    <3>1. list[k] \in ADCDataBlock
      BY <2>1
    <3>. QED BY <2>1, <3>1 DEF Block, ADCDataBlock
  <2>3. Len(list) \in Nat
    BY <2>1
  <2>4. BlocksOf(event) = [k \in 1 .. Len(list) |->
            [tai |-> event.tai, ch |-> list[k].ch, waveform |-> list[k].waveform]]
    BY DEF BlocksOf
  <2>. HIDE DEF list
  <2>. QED BY <2>2, <2>3, <2>4
<1>2. events \in Seq(Event)
  BY DEF EventsInv
<1>. DEFINE seqs == [k \in 1 .. Len(events) |-> BlocksOf(events[k])]
<1>3. seqs \in Seq(Seq(Block))
  <2>1. \A k \in 1 .. Len(events) : BlocksOf(events[k]) \in Seq(Block)
    BY <1>1, <1>2
  <2>. QED BY <1>2, <2>1
<1>. HIDE DEF seqs
<1>4. FlattenSeq(seqs) \in Seq(Block)
  BY <1>3, FlattenType
<1>. QED BY <1>4 DEF AllBlocks, seqs

\* The point begins at the same time for every block after the first.
LEMMA BeginStays ==
    ASSUME TypeInv, MakingInv, todo # <<>>
    PROVE  LET block == Head(todo)
               begin == Begin(block.tai)
               more == Append(kept, block)
           IN  /\ block \in Block /\ Tail(todo) \in Seq(Block) /\ more \in Seq(Block)
               /\ begin \in Nat /\ more # <<>> /\ begin = more[1].tai - Lead
               /\ point = [ch \in Channels |-> FramesFor(kept, begin, ch)]
<1>. DEFINE block == Head(todo)
            begin == Begin(block.tai)
            more == Append(kept, block)
<1>1. block \in Block /\ Tail(todo) \in Seq(Block) /\ kept \in Seq(Block)
  BY HeadTailProperties DEF MakingInv
<1>. HIDE DEF block
<1>2. /\ more \in Seq(Block) /\ more # <<>> /\ Len(kept) \in Nat
      /\ more[1] = IF kept = <<>> THEN block ELSE kept[1]
  <2>1. /\ more \in Seq(Block) /\ Len(kept) \in Nat /\ Len(more) = Len(kept) + 1
        /\ more[Len(kept) + 1] = block /\ \A i \in 1 .. Len(kept) : more[i] = kept[i]
    BY <1>1
  <2>2. CASE kept = <<>>
    BY <2>1, <2>2
  <2>3. CASE kept # <<>>
    <3>1. 1 \in 1 .. Len(kept)
      BY <1>1, <2>3, EmptySeq
    <3>. QED BY <2>1, <2>3, <3>1
  <2>. QED BY <2>2, <2>3
<1>3. CASE kept = <<>>
  <2>1. begin_time = NoTime /\ begin = block.tai - Lead
    BY <1>3 DEF MakingInv, Begin
  <2>2. \A ch : FramesFor(kept, begin, ch) = FramesFor(kept, begin_time, ch)
    BY <1>3, FramesForNone
  <2>3. begin \in Nat
    BY <1>1, <2>1, BlockTypes
  <2>. QED BY <1>1, <1>2, <1>3, <2>1, <2>2, <2>3 DEF MakingInv, block
<1>4. CASE kept # <<>>
  <2>1. kept[1] \in Block /\ begin_time = kept[1].tai - Lead
    BY <1>1, <1>2, <1>4, EmptySeq DEF MakingInv
  <2>2. begin_time \in Nat
    BY <2>1, BlockTypes
  <2>3. begin = begin_time
    BY <2>2 DEF Begin, NoTime
  <2>. QED BY <1>1, <1>2, <1>4, <2>1, <2>2, <2>3 DEF MakingInv, block
<1>. QED BY <1>3, <1>4

LEMMA MakingStep ==
    ASSUME ReturnInv, EventsInv, MakingInv, [AllNext]_allVars
    PROVE  MakingInv'
<1>1. [Next]_vars /\ TypeInv
  BY ChainStep DEF ReturnInv, CoverInv, ShapeInv
<1>2. Block' = Block /\ \A list, begin, ch : FramesFor(list, begin, ch)' = FramesFor(list, begin, ch)
  BY <1>1, DoneStays DEF Block, FramesFor, AppendedTo, FrameFor
<1>3. CASE UNCHANGED pointVars
  <2>1. AllBlocks' = AllBlocks
    BY <1>3 DEF AllBlocks, pointVars
  <2>. QED BY <1>2, <1>3, <2>1 DEF MakingInv, pointVars, makingVars, FramesFor, AppendedTo, FrameFor
<1>4. CASE ExtractEvent \/ NoEvents
  <2>1. /\ stage = "assembling" /\ stage' \in {"assembling", "err", "panic"}
        /\ UNCHANGED makingVars
    BY <1>4 DEF ExtractEvent, NoEvents, Collected
  <2>. QED BY <1>2, <2>1 DEF MakingInv, makingVars, FramesFor, AppendedTo, FrameFor
<1>5. CASE MakePoint
  <2>1. /\ kept = <<>> /\ stage' = "making" /\ todo' = AllBlocks /\ AllBlocks' = AllBlocks
        /\ UNCHANGED <<begin_time, kept, point>>
    BY <1>5 DEF MakePoint, Collected, MakingInv, AllBlocks
  <2>2. todo' \in Seq(Block)
    BY <2>1, BlocksTypes
  <2>3. kept' \o todo' = AllBlocks'
    BY <2>1, <2>2, ConcatEmptySeq
  <2>. QED BY <1>2, <2>1, <2>2, <2>3 DEF MakingInv, FramesFor, AppendedTo, FrameFor
<1>6. CASE SuppressionPanics \/ AppendPanics
  <2>1. stage' = "panic" /\ UNCHANGED makingVars
    BY <1>6 DEF SuppressionPanics, AppendPanics
  <2>. QED BY <1>2, <2>1 DEF MakingInv, makingVars, FramesFor, AppendedTo, FrameFor
<1>7. CASE Suppress
  <2>1. /\ stage = "making" /\ stage' = "making" /\ todo # <<>> /\ todo' = Tail(todo)
        /\ suppression # NoSuppression /\ UNCHANGED <<suppression, begin_time, kept, point>>
    BY <1>7 DEF Suppress, Making
  <2>2. todo' \in Seq(Block)
    BY <2>1, HeadTailProperties DEF MakingInv
  <2>. QED BY <1>2, <2>1, <2>2 DEF MakingInv, FramesFor, AppendedTo, FrameFor
<1>8. CASE AppendFrame
  <2>. DEFINE block == Head(todo)
              begin == Begin(block.tai)
              more == Append(kept, block)
  <2>1. /\ stage = "making" /\ stage' = stage /\ todo # <<>>
        /\ begin_time' = begin /\ kept' = more /\ todo' = Tail(todo)
        /\ point' = [point EXCEPT ![block.ch] = Append(@, FrameFor(block, begin))]
        /\ UNCHANGED <<events, suppression>>
    BY <1>8 DEF AppendFrame, Making, FrameFor
  <2>2. /\ block \in Block /\ Tail(todo) \in Seq(Block) /\ more \in Seq(Block)
        /\ begin \in Nat /\ more # <<>> /\ begin = more[1].tai - Lead
        /\ point = [ch \in Channels |-> FramesFor(kept, begin, ch)]
    BY <1>1, <2>1, BeginStays
  <2>3. AllBlocks' = AllBlocks
    BY <2>1 DEF AllBlocks
  <2>4. suppression = NoSuppression => more \o Tail(todo) = AllBlocks
    <3>1. kept \in Seq(Block) /\ todo \in Seq(Block)
      BY DEF MakingInv
    <3>2. more \o Tail(todo) = kept \o todo
      BY <2>1, <3>1, MoveHead
    <3>. QED BY <2>1, <3>2 DEF MakingInv
  <2>. HIDE DEF begin, more, block
  <2>5. ASSUME NEW ch
        PROVE  FramesFor(more, begin, ch) = FramesFor(kept, begin, ch) \o AppendedTo(ch, block, begin)
               /\ FramesFor(kept, begin, ch) \in Seq(PointFrame)
    <3>1. kept \in Seq(Block) /\ begin \in Int
      BY <2>2 DEF MakingInv
    <3>2. TypeInv /\ block \in Block
      BY <1>1, <2>2
    <3>3. /\ FramesFor(kept, begin, ch) \in Seq(PointFrame)
          /\ FramesFor(Append(kept, block), begin, ch)
               = FramesFor(kept, begin, ch) \o AppendedTo(ch, block, begin)
      BY ONLY <3>1, <3>2, FramesForAppend
    <3>. QED BY <3>3 DEF more
  <2>6. ASSUME NEW ch \in Channels PROVE point'[ch] = FramesFor(more, begin, ch)
    <3>1. point[ch] = FramesFor(kept, begin, ch)
      BY <2>2
    <3>2. FrameFor(block, begin) \in PointFrame
      <4>1. begin \in Int
        BY <2>2
      <4>. QED BY <1>1, <2>2, <4>1, FrameTypesOf, Zenon
    <3>3. CASE block.ch = ch
      <4>1. point'[ch] = Append(point[ch], FrameFor(block, begin))
        BY <2>1, <2>2, <3>3
      <4>2. Append(point[ch], FrameFor(block, begin)) = point[ch] \o <<FrameFor(block, begin)>>
        BY <2>5, <3>1, <3>2, AppendIsConcat
      <4>. QED BY <2>5, <3>1, <3>3, <4>1, <4>2 DEF AppendedTo
    <3>4. CASE block.ch # ch
      <4>1. point'[ch] = point[ch]
        BY <2>1, <2>2, <3>4
      <4>2. point[ch] \o <<>> = point[ch]
        BY <2>5, <3>1, ConcatEmptySeq
      <4>. QED BY <2>5, <3>1, <3>4, <4>1, <4>2 DEF AppendedTo
    <3>. QED BY <3>3, <3>4
  <2>7. point' = [ch \in Channels |-> FramesFor(more, begin, ch)]
    <3>1. point' = [ch \in Channels |-> point'[ch]]
      BY <2>1, <2>2
    <3>. QED BY <2>6, <3>1
  <2>8. point' = [ch \in Channels |-> FramesFor(kept, begin_time, ch)']
    BY <1>2, <2>1, <2>7 DEF FramesFor, AppendedTo, FrameFor
  <2>. QED BY <1>2, <2>1, <2>2, <2>3, <2>4, <2>8 DEF MakingInv
<1>9. CASE PointMade
  <2>1. /\ stage = "making" /\ todo = <<>> /\ stage' = "made" /\ UNCHANGED <<events, makingVars>>
    BY <1>9 DEF PointMade
  <2>2. AllBlocks' = AllBlocks
    BY <2>1 DEF AllBlocks
  <2>. QED BY <1>2, <2>1, <2>2 DEF MakingInv, makingVars, FramesFor, AppendedTo, FrameFor
<1>10. UNCHANGED pointVars \/ PointNext
  BY DEF AllNext, Convert, ConvertPanics, allVars
<1>. QED BY <1>3, <1>4, <1>5, <1>6, <1>7, <1>8, <1>9, <1>10 DEF PointNext

LEMMA MakingHolds == AllSpec => [](ReturnInv /\ EventsInv /\ MakingInv)
<1>1. AllInit => MakingInv
  <2>1. SUFFICES ASSUME AllInit PROVE MakingInv
    OBVIOUS
  <2>2. /\ stage = "assembling" /\ todo = <<>> /\ begin_time = NoTime
        /\ kept = <<>> /\ point = [ch \in Channels |-> <<>>]
    BY <2>1 DEF AllInit, InitPoint
  <2>. QED BY <2>2, FramesForNone DEF MakingInv
<1>. QED BY <1>1, MakingStep, EventsHold, PTL DEF AllSpec

\* The times of the events are those of the packets, when none is missing.
LEMMA TimesOfEvents ==
    ASSUME ReturnInv, EventsInv, stage = "made", Spaced(frames), Complete(frames)
    PROVE  {events[k].tai : k \in 1 .. Len(events)} = Received
<1>1. status = "done" /\ Len(events) = Len(Events)
      /\ \A k \in 1 .. Len(events) : events[k].tai = Tai(Events[k])
  BY DEF EventsInv, ReadsEvent
<1>2. ShapeInv /\ OwnId /\ Separate /\ idx = Len(frames) + 1
  BY <1>1 DEF ReturnInv, PacketInv, EndsAsMerged
<1>3. Len(frames) \in Nat
  BY <1>2, FrameTypes DEF ShapeInv, TypeInv
<1>4. ASSUME NEW k \in 1 .. Len(events) PROVE events[k].tai \in Received
  BY <1>1, EventTai DEF Received
<1>5. ASSUME NEW i \in 1 .. Len(frames)
      PROVE  \E k \in 1 .. Len(events) : events[k].tai = TaiOf[frames[i].packet]
  <2>1. PICK n \in EntryNames : PacketOf(EntryOf(n)) = frames[i].packet
    BY <1>2, <1>3 DEF Separate
  <2>2. PICK k \in 1 .. Len(Events) : Events[k] = EntryOf(n)
    BY <1>2, EventsFacts
  <2>3. PICK j \in Events[k].parts : Tai(Events[k]) = TaiOf[frames[j].packet]
    BY <1>1, EventTai
  <2>4. frames[j].packet = frames[i].packet
    BY <1>2, <2>1, <2>2, <2>3 DEF Separate, OnePacket
  <2>. QED BY <1>1, <2>2, <2>3, <2>4
<1>. QED BY <1>4, <1>5 DEF Received

\* The time of a frame of the point is its own, when no packet is older than the
\* lead.
LEMMA TimesOfFrames ==
    ASSUME TypeInv, MakingInv, WithinLead, kept # <<>>, NEW block \in Block
    PROVE  FrameFor(block, begin_time) = [time |-> RelativeTime(block.tai),
                                          data |-> Quarters(block.waveform)]
<1>1. kept[1] \in Block /\ begin_time = kept[1].tai - Lead
  BY EmptySeq DEF MakingInv
<1>2. begin_time \in Nat /\ block.tai \in Nat /\ block.tai < TimeModulus /\ TimeModulus \in Nat \ {0}
      /\ Lead \in Nat /\ kept[1].tai \in Nat
  BY <1>1, BlockTypes
<1>3. begin_time <= block.tai
  <2>1. PICK i \in 1 .. Len(frames) : block.tai = TaiOf[frames[i].packet]
    BY DEF Block, Received
  <2>. QED BY <1>1, <2>1 DEF WithinLead
<1>4. block.tai - begin_time \in 0 .. TimeModulus - 1
  BY <1>2, <1>3
<1>5. (block.tai - begin_time) % TimeModulus = block.tai - begin_time
  BY <1>2, <1>4, QuotientOf
<1>6. block.tai - begin_time = RelativeTime(block.tai)
  BY <1>1, <1>2 DEF RelativeTime
<1>. QED BY <1>5, <1>6 DEF FrameFor

\* From the frames to the point: when every fragment arrived, the ids are spaced
\* and no packet is older than the lead, the point has each block that the board
\* packed once, in its channel and with its own time and waveform.
THEOREM PointIsWholeCorrect == AllSpec => []PointIsWhole
<1>1. ASSUME ReturnInv, EventsInv, MakingInv, stage = "made", Spaced(frames), Complete(frames),
             WithinLead, suppression = NoSuppression
      PROVE  /\ {events[k].tai : k \in 1 .. Len(events)}
                   = {TaiOf[frames[i].packet] : i \in 1 .. Len(frames)}
             /\ \A ch \in Channels : point[ch] = FramesOf(AllBlocks, ch)
  <2>1. TypeInv
    BY <1>1 DEF ReturnInv, CoverInv, ShapeInv
  <2>2. AllBlocks = kept /\ kept \in Seq(Block)
    BY <1>1, ConcatEmptySeq DEF MakingInv
  <2>3. ASSUME NEW ch \in Channels PROVE point[ch] = FramesOf(AllBlocks, ch)
    <3>1. point[ch] = FramesFor(kept, begin_time, ch)
      BY <1>1 DEF MakingInv
    <3>. DEFINE as(k) == IF kept[k].ch = ch
                         THEN <<[time |-> RelativeTime(kept[k].tai),
                                 data |-> Quarters(kept[k].waveform)]>>
                         ELSE <<>>
    <3>2. ASSUME NEW k \in 1 .. Len(kept) PROVE AppendedTo(ch, kept[k], begin_time) = as(k)
      <4>1. kept[k] \in Block /\ kept # <<>>
        BY <2>2
      <4>. QED BY <1>1, <2>1, <4>1, TimesOfFrames DEF AppendedTo
    <3>3. FramesFor(kept, begin_time, ch) = FlattenSeq([k \in 1 .. Len(kept) |-> as(k)])
      <4>1. [k \in 1 .. Len(kept) |-> AppendedTo(ch, kept[k], begin_time)]
              = [k \in 1 .. Len(kept) |-> as(k)]
        BY <3>2
      <4>. QED BY <4>1 DEF FramesFor
    <3>. QED BY <2>2, <3>1, <3>3 DEF FramesOf
  <2>. QED BY <1>1, <2>3, TimesOfEvents DEF Received
<1>2. ReturnInv /\ EventsInv /\ MakingInv => PointIsWhole
  BY <1>1 DEF PointIsWhole
<1>. QED BY <1>2, MakingHolds, PTL

-----------------------------------------------------------------------------
(* The rows of the converter *)

\* Rows are in the order of their times, and of their channels where these are
\* the same.
LEMMA KeyFacts ==
    ASSUME NEW x, NEW y, x.time \in Int, y.time \in Int, x.ch \in Channels, y.ch \in Channels
    PROVE  /\ Key(x) \in Int
           /\ Key(x) < Key(y) <=> x.time < y.time \/ (x.time = y.time /\ x.ch < y.ch)
           /\ Key(x) = Key(y) => x.time = y.time /\ x.ch = y.ch
<1>. DEFINE m == ChannelModulus
            a == x.time
            b == y.time
            c == x.ch
            d == y.ch
<1>1. m \in Nat \ {0} /\ a \in Int /\ b \in Int /\ c \in 0 .. m - 1 /\ d \in 0 .. m - 1
  BY ChannelAssumption DEF Channels
<1>2. Key(x) = a * m + c /\ Key(y) = b * m + d
  BY DEF Key
<1>. HIDE DEF m, a, b, c, d
<1>3. ASSUME NEW u \in Int, NEW v \in Int, u < v PROVE u * m + m <= v * m
  <2>. DEFINE e == v - u
  <2>1. e \in Nat \ {0} /\ v = u + e
    BY <1>3
  <2>. HIDE DEF e
  <2>2. v * m = u * m + e * m
    BY <1>1, <2>1
  <2>3. e * m >= m
    <3>1. (e - 1) * m >= 0
      BY <1>1, <2>1
    <3>. QED BY <1>1, <2>1, <3>1
  <2>4. u * m \in Int /\ v * m \in Int /\ e * m \in Int
    BY <1>1, <2>1
  <2>. QED BY <1>1, <2>2, <2>3, <2>4
<1>. DEFINE am == a * m
            bm == b * m
<1>4. /\ am \in Int /\ bm \in Int /\ (a = b => am = bm)
      /\ (a < b => am + m <= bm) /\ (b < a => bm + m <= am)
  BY <1>1, <1>3
<1>. HIDE DEF am, bm
<1>5. /\ am + c \in Int
      /\ am + c < bm + d <=> a < b \/ (a = b /\ c < d)
      /\ am + c = bm + d => a = b /\ c = d
  BY <1>1, <1>4
<1>. QED BY <1>2, <1>5 DEF am, bm, a, b, c, d

\* What the converter wrote.
RowsOf(n) == InOrder(Taken(n), [row \in Taken(n) |-> Key(row)])
ConvertInv == converter = "written" => stage = "made" /\ rows = RowsOf(limit)

LEMMA RowsStay ==
    ASSUME point' = point, NEW n
    PROVE  RowsOf(n)' = RowsOf(n)
<1>1. Taken(n)' = Taken(n)
  BY DEF Taken, Rows, Times, Frames, LastOfKey
<1>. QED BY <1>1 DEF RowsOf, InOrder, Key

LEMMA ConvertStep == ConvertInv /\ [AllNext]_allVars => ConvertInv'
<1>. SUFFICES ASSUME ConvertInv, [AllNext]_allVars PROVE ConvertInv'
  OBVIOUS
<1>1. CASE Convert
  <2>1. point' = point /\ stage = "made" /\ stage' = stage
    BY <1>1 DEF Convert, pointVars, makingVars
  <2>2. PICK n : limit' = n /\ rows' = RowsOf(n)
    BY <1>1 DEF Convert, RowsOf
  <2>3. RowsOf(n)' = RowsOf(n)
    BY <2>1, RowsStay
  <2>4. RowsOf(limit)' = RowsOf(n)'
    BY <2>2 DEF RowsOf, Taken
  <2>. QED BY <2>1, <2>2, <2>3, <2>4 DEF ConvertInv
<1>2. CASE ConvertPanics
  BY <1>2 DEF ConvertPanics, ConvertInv
<1>3. CASE UNCHANGED converterVars /\ (stage = "made" => UNCHANGED pointVars)
  <2>1. CASE stage = "made"
    <3>1. point' = point /\ stage' = stage /\ converter' = converter /\ limit' = limit /\ rows' = rows
      BY <1>3, <2>1 DEF converterVars, pointVars, makingVars
    <3>2. PICK n : limit = n
      OBVIOUS
    <3>3. RowsOf(n)' = RowsOf(n)
      BY <3>1, RowsStay
    <3>4. RowsOf(limit)' = RowsOf(n)'
      BY <3>1, <3>2 DEF RowsOf, Taken
    <3>. QED BY <3>1, <3>2, <3>3, <3>4 DEF ConvertInv
  <2>2. CASE stage # "made"
    BY <1>3, <2>2 DEF ConvertInv, converterVars
  <2>. QED BY <2>1, <2>2
<1>4. CASE PointNext /\ UNCHANGED converterVars
  <2>1. stage # "made"
    BY <1>4 DEF PointNext, ExtractEvent, NoEvents, MakePoint, Collected, SuppressionPanics,
                Suppress, AppendPanics, AppendFrame, Making, PointMade
  <2>. QED BY <1>3, <1>4, <2>1
<1>. QED BY <1>1, <1>2, <1>3, <1>4 DEF AllNext, allVars

\* The elements of a channel are the frames of its blocks.
LEMMA ChannelElements ==
    ASSUME TypeInv, MakingInv, NEW ch \in Channels
    PROVE  /\ point[ch] \in Seq(PointFrame)
           /\ \A q \in 1 .. Len(point[ch]) : \E k \in 1 .. Len(kept) :
                kept[k].ch = ch /\ point[ch][q] = FrameFor(kept[k], begin_time)
           /\ \A k \in 1 .. Len(kept) : kept[k].ch = ch =>
                \E q \in 1 .. Len(point[ch]) : point[ch][q] = FrameFor(kept[k], begin_time)
<1>. DEFINE seqs == [k \in 1 .. Len(kept) |-> AppendedTo(ch, kept[k], begin_time)]
<1>1. kept \in Seq(Block) /\ point[ch] = FlattenSeq(seqs)
  BY DEF MakingInv, FramesFor
<1>2. begin_time \in Int
  <2>1. CASE kept = <<>>
    BY <2>1 DEF MakingInv, NoTime
  <2>2. CASE kept # <<>>
    <3>1. kept[1] \in Block /\ begin_time = kept[1].tai - Lead
      BY <2>2, EmptySeq DEF MakingInv
    <3>. QED BY <3>1, BlockTypes
  <2>. QED BY <2>1, <2>2
<1>3. ASSUME NEW k \in 1 .. Len(kept) PROVE AppendedTo(ch, kept[k], begin_time) \in Seq(PointFrame)
  <2>1. kept[k] \in Block
    BY <1>1
  <2>. QED BY <1>2, <2>1, FrameTypesOf
<1>4. seqs \in Seq(Seq(PointFrame)) /\ Len(seqs) = Len(kept)
      /\ \A k \in 1 .. Len(kept) : seqs[k] = AppendedTo(ch, kept[k], begin_time)
  BY <1>1, <1>3
<1>. HIDE DEF seqs
<1>5. point[ch] \in Seq(PointFrame)
      /\ ToSet(point[ch]) = UNION {ToSet(seqs[k]) : k \in 1 .. Len(seqs)}
  BY <1>1, <1>4, FlattenType, FlattenElements
<1>6. ToSet(point[ch]) = {point[ch][q] : q \in 1 .. Len(point[ch])}
  <2>1. DOMAIN point[ch] = 1 .. Len(point[ch])
    BY <1>5
  <2>. QED BY <2>1, Zenon DEF ToSet
<1>7. ASSUME NEW k \in 1 .. Len(kept)
      PROVE  ToSet(seqs[k]) = IF kept[k].ch = ch THEN {FrameFor(kept[k], begin_time)} ELSE {}
  <2>. DEFINE frame == FrameFor(kept[k], begin_time)
  <2>1. ToSet(<<frame>>) = {frame} /\ ToSet(<<>>) = {}
    <3>. HIDE DEF frame
    <3>. QED BY DEF ToSet
  <2>. QED BY <1>4, <2>1 DEF AppendedTo
<1>8. ASSUME NEW x
      PROVE  x \in ToSet(point[ch])
               <=> \E k \in 1 .. Len(kept) : kept[k].ch = ch /\ x = FrameFor(kept[k], begin_time)
  <2>. DEFINE is(k) == kept[k].ch = ch /\ x = FrameFor(kept[k], begin_time)
  <2>1. \A k \in 1 .. Len(kept) : x \in ToSet(seqs[k]) <=> is(k)
    BY <1>7
  <2>2. x \in ToSet(point[ch]) <=> \E k \in 1 .. Len(kept) : x \in ToSet(seqs[k])
    BY <1>4, <1>5
  <2>. HIDE DEF is
  <2>3. x \in ToSet(point[ch]) <=> \E k \in 1 .. Len(kept) : is(k)
    BY ONLY <2>1, <2>2
  <2>. QED BY <2>3 DEF is
<1>9. ASSUME NEW q \in 1 .. Len(point[ch])
      PROVE  \E k \in 1 .. Len(kept) :
                kept[k].ch = ch /\ point[ch][q] = FrameFor(kept[k], begin_time)
  BY <1>6, <1>8
<1>10. ASSUME NEW k \in 1 .. Len(kept), kept[k].ch = ch
       PROVE  \E q \in 1 .. Len(point[ch]) : point[ch][q] = FrameFor(kept[k], begin_time)
  <2>1. FrameFor(kept[k], begin_time) \in ToSet(point[ch])
    BY <1>8, <1>10
  <2>. QED BY <1>6, <2>1
<1>. QED BY <1>5, <1>9, <1>10

\* What the row of a block is to be.
RowFor(k) == [time |-> RelativeTime(kept[k].tai), ch |-> kept[k].ch,
              data |-> Quarters(kept[k].waveform)]

LEMMA RowFacts ==
    ASSUME TypeInv, MakingInv, Distinguishable, NEW k \in 1 .. Len(kept)
    PROVE  /\ kept[k] \in Block /\ kept[k].tai \in Nat /\ kept[k].ch \in Channels
           /\ RelativeTime(kept[k].tai) = kept[k].tai - begin_time /\ begin_time \in Nat
           /\ FrameFor(kept[k], begin_time).time = RowFor(k).time
           /\ FrameFor(kept[k], begin_time).data = RowFor(k).data
<1>1. kept \in Seq(Block) /\ kept # <<>> /\ kept[k] \in Block
  BY DEF MakingInv
<1>2. kept[1] \in Block /\ begin_time = kept[1].tai - Lead
  BY <1>1, EmptySeq DEF MakingInv
<1>3. begin_time \in Nat /\ Lead \in Nat /\ kept[1].tai \in Nat
  BY <1>2, BlockTypes
<1>4. kept[k].tai \in Nat /\ kept[k].ch \in Channels
  BY <1>1, BlockTypes
<1>5. RelativeTime(kept[k].tai) = kept[k].tai - begin_time
  BY <1>2, <1>3, <1>4 DEF RelativeTime
<1>6. FrameFor(kept[k], begin_time)
        = [time |-> RelativeTime(kept[k].tai), data |-> Quarters(kept[k].waveform)]
  BY <1>1, TimesOfFrames DEF Distinguishable
<1>. QED BY <1>1, <1>3, <1>4, <1>5, <1>6 DEF RowFor

\* No row is lost to another: the last frame of a channel and a time is the only
\* one.
LEMMA OnlyOfKey ==
    ASSUME TypeInv, MakingInv, Distinguishable, NEW k \in 1 .. Len(kept)
    PROVE  LastOfKey(kept[k].ch, RowFor(k).time).data = RowFor(k).data
<1>. DEFINE ch == kept[k].ch
            time == RowFor(k).time
            IsLast(q) == /\ point[ch][q].time = time
                       /\ \A j \in q + 1 .. Len(point[ch]) : point[ch][j].time # time
            c == CHOOSE q \in 1 .. Len(point[ch]) : IsLast(q)
            D == {q \in 1 .. Len(point[ch]) : point[ch][q].time = time}
<1>1. ch \in Channels
  BY RowFacts
<1>2. /\ Len(point[ch]) \in Nat
      /\ \A q \in 1 .. Len(point[ch]) : \E j \in 1 .. Len(kept) :
            kept[j].ch = ch /\ point[ch][q] = FrameFor(kept[j], begin_time)
      /\ \E q \in 1 .. Len(point[ch]) : point[ch][q] = FrameFor(kept[k], begin_time)
  <2>1. point[ch] \in Seq(PointFrame)
    BY <1>1, ChannelElements
  <2>2. Len(point[ch]) \in Nat
    BY <2>1
  <2>. QED BY <1>1, <2>2, ChannelElements
<1>3. D # {}
  <2>1. FrameFor(kept[k], begin_time).time = time
    BY RowFacts
  <2>. QED BY <1>2, <2>1
<1>4. PICK g \in D : \A j \in D : j <= g
  <2>1. D \in SUBSET (1 .. Len(point[ch]))
    OBVIOUS
  <2>. HIDE DEF D
  <2>. QED BY <1>2, <1>3, <2>1, Greatest
<1>5. IsLast(g)
  <2>1. ASSUME NEW j \in g + 1 .. Len(point[ch]) PROVE point[ch][j].time # time
    <3>1. j \in 1 .. Len(point[ch]) /\ ~ (j <= g)
      BY <1>2, <1>4
    <3>. QED BY <1>4, <3>1
  <2>. QED BY <1>4, <2>1
<1>6. c \in 1 .. Len(point[ch]) /\ IsLast(c)
  BY <1>4, <1>5
<1>7. PICK j \in 1 .. Len(kept) : kept[j].ch = ch /\ point[ch][c] = FrameFor(kept[j], begin_time)
  BY <1>2, <1>6
<1>8. RowFor(j).time = RowFor(k).time
  <2>1. point[ch][c].time = RowFor(j).time
    BY <1>7, RowFacts
  <2>. QED BY <1>6, <2>1
<1>9. kept[j].tai = kept[k].tai
  <2>1. /\ RowFor(j).time = kept[j].tai - begin_time /\ RowFor(k).time = kept[k].tai - begin_time
        /\ begin_time \in Nat /\ kept[j].tai \in Nat /\ kept[k].tai \in Nat
    BY RowFacts DEF RowFor
  <2>. DEFINE p == kept[j].tai
              q == kept[k].tai
  <2>2. p - begin_time = q - begin_time /\ begin_time \in Nat /\ p \in Nat /\ q \in Nat
    BY <1>8, <2>1
  <2>. HIDE DEF p, q
  <2>3. p = q
    BY <2>2
  <2>. QED BY <2>3 DEF p, q
<1>10. j = k
  BY <1>7, <1>9 DEF Distinguishable
<1>11. point[ch][c].data = RowFor(k).data
  BY <1>7, <1>10, RowFacts
<1>. QED BY <1>11 DEF LastOfKey

\* So the rows are those of the blocks.
LEMMA RowsAre ==
    ASSUME TypeInv, MakingInv, Distinguishable
    PROVE  Rows = {RowFor(k) : k \in 1 .. Len(kept)}
<1>1. ASSUME NEW ch \in Channels, NEW q \in 1 .. Len(point[ch])
      PROVE  \E k \in 1 .. Len(kept) :
                RowFor(k) = [time |-> point[ch][q].time, ch |-> ch, data |-> point[ch][q].data]
  <2>1. PICK k \in 1 .. Len(kept) : kept[k].ch = ch /\ point[ch][q] = FrameFor(kept[k], begin_time)
    BY ChannelElements
  <2>2. point[ch][q].time = RowFor(k).time /\ point[ch][q].data = RowFor(k).data
    BY <2>1, RowFacts
  <2>. QED BY <2>1, <2>2 DEF RowFor
<1>2. ASSUME NEW k \in 1 .. Len(kept)
      PROVE  \E ch \in Channels : \E q \in 1 .. Len(point[ch]) :
                RowFor(k) = [time |-> point[ch][q].time, ch |-> ch, data |-> point[ch][q].data]
  <2>1. kept[k].ch \in Channels
    BY RowFacts
  <2>2. PICK q \in 1 .. Len(point[kept[k].ch]) :
            point[kept[k].ch][q] = FrameFor(kept[k], begin_time)
    BY <2>1, ChannelElements
  <2>3. point[kept[k].ch][q].time = RowFor(k).time /\ point[kept[k].ch][q].data = RowFor(k).data
    BY <2>2, RowFacts
  <2>4. RowFor(k) = [time |-> point[kept[k].ch][q].time, ch |-> kept[k].ch,
                     data |-> point[kept[k].ch][q].data]
    BY <2>3 DEF RowFor
  <2>. QED BY <2>1, <2>4
<1>3. Frames = {RowFor(k) : k \in 1 .. Len(kept)}
  <2>1. ASSUME NEW x \in Frames PROVE \E k \in 1 .. Len(kept) : x = RowFor(k)
    <3>1. PICK ch \in Channels : \E q \in 1 .. Len(point[ch]) :
              x = [time |-> point[ch][q].time, ch |-> ch, data |-> point[ch][q].data]
      BY DEF Frames
    <3>. QED BY <1>1, <3>1
  <2>2. ASSUME NEW k \in 1 .. Len(kept) PROVE RowFor(k) \in Frames
    BY <1>2 DEF Frames
  <2>. QED BY <2>1, <2>2
<1>4. ASSUME NEW k \in 1 .. Len(kept)
      PROVE  [time |-> RowFor(k).time, ch |-> RowFor(k).ch,
              data |-> LastOfKey(RowFor(k).ch, RowFor(k).time).data] = RowFor(k)
  <2>1. RowFor(k).ch = kept[k].ch
    BY DEF RowFor
  <2>2. LastOfKey(RowFor(k).ch, RowFor(k).time).data = RowFor(k).data
    BY <2>1, OnlyOfKey
  <2>. QED BY <2>2 DEF RowFor
<1>. DEFINE Made(x) == [time |-> x.time, ch |-> x.ch, data |-> LastOfKey(x.ch, x.time).data]
<1>5. \A x \in Frames : Made(x) = x
  BY <1>3, <1>4
<1>6. Rows = {Made(x) : x \in Frames}
  BY DEF Rows
<1>. HIDE DEF Made
<1>. QED BY <1>3, <1>5, <1>6

LEMMA ConvertHolds == AllSpec => [](ReturnInv /\ MakingInv /\ ConvertInv)
<1>1. AllInit => ConvertInv
  BY DEF AllInit, InitConverter, ConvertInv
<1>. QED BY <1>1, ConvertStep, MakingHolds, PTL DEF AllSpec

\* In whatever order the packets came, the rows of the file are the blocks kept,
\* each once and with its own channel, time and waveform, in the order of their
\* times.
THEOREM RowsInTrueOrderCorrect == AllSpec => []RowsInTrueOrder
<1>1. ASSUME ReturnInv, MakingInv, ConvertInv, converter = "written", limit = NoLimit,
             Distinguishable
      PROVE  /\ Len(rows) = Len(kept)
             /\ \A i \in 1 .. Len(rows) : \E k \in 1 .. Len(kept) :
                   /\ rows[i] = RowFor(k)
                   /\ Cardinality({j \in 1 .. Len(kept) :
                          \/ kept[j].tai < kept[k].tai
                          \/ (kept[j].tai = kept[k].tai /\ kept[j].ch < kept[k].ch)}) = i - 1
  <2>. DEFINE n == Len(kept)
              key == [row \in Rows |-> Key(row)]
              f == [k \in 1 .. n |-> RowFor(k)]
  <2>1. TypeInv /\ n \in Nat
    BY <1>1 DEF ReturnInv, CoverInv, ShapeInv, MakingInv
  <2>2. Rows = {RowFor(k) : k \in 1 .. n}
    BY <1>1, <2>1, RowsAre
  <2>3. rows = InOrder(Rows, key)
    <3>1. Taken(NoLimit) = Rows
      BY DEF Taken
    <3>. QED BY <1>1, <3>1 DEF ConvertInv, RowsOf
  <2>4. ASSUME NEW j \in 1 .. n, NEW k \in 1 .. n
        PROVE  /\ Key(RowFor(j)) \in Int
               /\ Key(RowFor(j)) < Key(RowFor(k))
                    <=> \/ kept[j].tai < kept[k].tai
                        \/ (kept[j].tai = kept[k].tai /\ kept[j].ch < kept[k].ch)
               /\ Key(RowFor(j)) = Key(RowFor(k)) => j = k
    <3>. DEFINE x == RowFor(j)
                y == RowFor(k)
                p == kept[j].tai
                q == kept[k].tai
    <3>1. /\ x.time = p - begin_time /\ y.time = q - begin_time
          /\ begin_time \in Nat /\ p \in Nat /\ q \in Nat
          /\ x.ch = kept[j].ch /\ y.ch = kept[k].ch
          /\ x.ch \in Channels /\ y.ch \in Channels
      BY <1>1, <2>1, RowFacts DEF RowFor
    <3>2. p = q /\ x.ch = y.ch => j = k
      BY <1>1, <3>1 DEF Distinguishable
    <3>. HIDE DEF x, y, p, q
    <3>3. /\ x.time \in Int /\ y.time \in Int
          /\ x.time < y.time <=> p < q
          /\ x.time = y.time <=> p = q
      BY <3>1
    <3>4. /\ Key(x) \in Int
          /\ Key(x) < Key(y) <=> x.time < y.time \/ (x.time = y.time /\ x.ch < y.ch)
          /\ Key(x) = Key(y) => x.time = y.time /\ x.ch = y.ch
      BY <3>1, <3>3, KeyFacts
    <3>. QED BY <3>1, <3>2, <3>3, <3>4 DEF x, y, p, q
  <2>5. /\ key \in [Rows -> Int] /\ f \in [1 .. n -> Rows]
        /\ \A x \in Rows : \E k \in 1 .. n : f[k] = x
        /\ \A k \in 1 .. n : key[f[k]] = Key(RowFor(k)) /\ f[k] = RowFor(k)
    BY <2>2, <2>4
  <2>6. \A j, k \in 1 .. n : key[f[j]] = key[f[k]] => j = k
    BY <2>4, <2>5
  <2>. HIDE DEF key, f, n
  <2>7. /\ Len(InOrder(Rows, key)) = n
        /\ \A i \in 1 .. n : \E k \in 1 .. n :
              /\ InOrder(Rows, key)[i] = f[k]
              /\ Cardinality({j \in 1 .. n : key[f[j]] < key[f[k]]}) = i - 1
    <3>1. Numbering(f, n, Rows, key)
      BY <2>1, <2>5, <2>6 DEF Numbering
    <3>2. InPlace(InOrder(Rows, key), f, n, key)
      BY <3>1, InOrderOfNumbered
    <3>. QED BY <3>2 DEF InPlace
  <2>8. ASSUME NEW k \in 1 .. n
        PROVE  {j \in 1 .. n : key[f[j]] < key[f[k]]}
                 = {j \in 1 .. n : \/ kept[j].tai < kept[k].tai
                                   \/ (kept[j].tai = kept[k].tai /\ kept[j].ch < kept[k].ch)}
    BY <2>4, <2>5
  <2>. QED BY <2>3, <2>5, <2>7, <2>8 DEF n
<1>2. ReturnInv /\ MakingInv /\ ConvertInv => RowsInTrueOrder
  <2>1. SUFFICES ASSUME ReturnInv, MakingInv, ConvertInv, converter = "written",
                        limit = NoLimit, Distinguishable
                 PROVE  RowsInTrueOrder
    BY DEF RowsInTrueOrder
  <2>2. Len(rows) = Len(kept)
    BY <1>1, <2>1
  <2>3. ASSUME NEW i \in 1 .. Len(rows)
        PROVE  \E k \in 1 .. Len(kept) :
                  /\ rows[i].time = RelativeTime(kept[k].tai)
                  /\ rows[i].ch = kept[k].ch
                  /\ rows[i].data = Quarters(kept[k].waveform)
                  /\ Cardinality({j \in 1 .. Len(kept) :
                         \/ kept[j].tai < kept[k].tai
                         \/ (kept[j].tai = kept[k].tai /\ kept[j].ch < kept[k].ch)}) = i - 1
    <3>1. PICK k \in 1 .. Len(kept) :
              /\ rows[i] = RowFor(k)
              /\ Cardinality({j \in 1 .. Len(kept) :
                     \/ kept[j].tai < kept[k].tai
                     \/ (kept[j].tai = kept[k].tai /\ kept[j].ch < kept[k].ch)}) = i - 1
      BY <1>1, <2>1
    <3>2. /\ rows[i].time = RelativeTime(kept[k].tai)
          /\ rows[i].ch = kept[k].ch
          /\ rows[i].data = Quarters(kept[k].waveform)
      BY <3>1 DEF RowFor
    <3>. QED BY <3>1, <3>2
  <2>. QED BY <2>2, <2>3 DEF RowsInTrueOrder
<1>. QED BY <1>2, ConvertHolds, PTL
=============================================================================
