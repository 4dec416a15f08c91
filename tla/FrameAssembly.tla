--------------------------- MODULE FrameAssembly ---------------------------
(***************************************************************************)
(* TQDC::frames_to_events (tqdc/src/lib.rs): from the frames of a whole    *)
(* acquisition, in the order they arrived, to one event per M-Stream       *)
(* packet.                                                                 *)
(*                                                                         *)
(* A packet has a 16-bit fragment_id that the device uses again after it   *)
(* has wrapped, so the code tells packets of one id apart by the distance  *)
(* between frames only: an entry that was opened more than                 *)
(* MAX_FRAGMENTS_DISTANCE frames ago is closed when its id comes back.     *)
(*                                                                         *)
(* The packet a frame was cut from is not in the frame.  It is in the      *)
(* model so that properties can speak of it; no action reads it but        *)
(* through the id, the offset and the fragment the frame carries.          *)
(***************************************************************************)
EXTENDS MStream, KeyOrder, SequencesExt

CONSTANTS
    Ids,                    \* fragment_id, a u16
    Packets,
    IdOf,                   \* the fragment_id the device gave each packet
    CutOf,                  \* the fragments it cut each packet into
    MAX_FRAGMENTS_DISTANCE,
    OverflowChecks,         \* TRUE: a debug build
    Inputs                  \* the sequences of frames gather_frames may return

\* A STREAM frame carries a fragment of a packet.  gather_frames keeps frames
\* of other M-Link types too; of those nothing but the type matters.
Frame == [stream : BOOLEAN, packet : Packets, part : Nat]

ASSUME FrameAssumption ==
    /\ Ids \subseteq Nat
    /\ IdOf \in [Packets -> Ids]
    /\ CutOf \in [Packets -> Seq(Fragment)]
    /\ MAX_FRAGMENTS_DISTANCE \in Nat
    /\ OverflowChecks \in BOOLEAN
    /\ Inputs \subseteq Seq(Frame)
    /\ \A fs \in Inputs : \A i \in 1 .. Len(fs) :
          fs[i].part \in 1 .. Len(CutOf[fs[i].packet])

VARIABLES
    frames,      \* the argument
    idx,         \* the frame the loop looks at next (counted from 1)
    fragments,   \* id -> the entry being assembled; no parts: the id is absent
    blocks,      \* the entries closed so far, in the order they were closed
    status       \* "scanning", or how the call ended: "done", "err", "panic"

vars == <<frames, idx, fragments, blocks, status>>

-----------------------------------------------------------------------------
(* What the frames say *)

Id(i) == IdOf[frames[i].packet]
FragmentAt(i) == CutOf[frames[i].packet][frames[i].part]
Offset(i) == FragmentAt(i).offset

\* An entry: (usize, BTreeMap<u16, MStreamFragment>).  Its parts are the frames
\* whose fragments the inner map holds, at most one for each offset.
Entry == [first : Nat, parts : SUBSET Nat]
NoEntry == [first |-> 0, parts |-> {}]

Present(id) == fragments[id].parts # {}

\* BTreeMap::insert replaces the fragment that was there for the offset.
Insert(parts, i) == {j \in parts : Offset(j) # Offset(i)} \cup {i}

\* Mutant: the values come in the order the frames arrived in.
SliceByArrival(parts) ==
    LET order == InOrder(parts, [i \in parts |-> i])
    IN  [k \in 1 .. Len(order) |-> FragmentAt(order[k])]

\* The values of the inner map: in increasing order of offset.
Slice(parts) ==
    LET order == InOrder(parts, [i \in parts |-> Offset(i)])
    IN  [k \in 1 .. Len(order) |-> FragmentAt(order[k])]

-----------------------------------------------------------------------------

Init ==
    /\ frames \in Inputs
    /\ idx = 1
    /\ fragments = [id \in Ids |-> NoEntry]
    /\ blocks = <<>>
    /\ status = "scanning"

Scanning == status = "scanning" /\ idx <= Len(frames)

\* Mutants: the distance is off by one, either way.
StaleLate(entry) == idx - entry.first > MAX_FRAGMENTS_DISTANCE + 1
StaleEarly(entry) == idx - entry.first >= MAX_FRAGMENTS_DISTANCE

\* The entry was opened too long ago to belong to the packet of this frame.
Stale(entry) == idx - entry.first > MAX_FRAGMENTS_DISTANCE

\* A frame that is not STREAM makes the whole call fail.
RejectFrame ==
    /\ Scanning
    /\ ~ frames[idx].stream
    /\ status' = "err"
    /\ UNCHANGED <<frames, idx, fragments, blocks>>

\* Mutant: the end of the window is worked out from its start, which underflows.
OpenEntryBackdated ==
    /\ Scanning
    /\ frames[idx].stream
    /\ ~ Present(Id(idx))
    /\ fragments' = [fragments EXCEPT ![Id(idx)] =
                        [first |-> idx - MAX_FRAGMENTS_DISTANCE, parts |-> {idx}]]
    /\ idx' = idx + 1
    /\ UNCHANGED <<frames, blocks, status>>

\* The id is absent: open an entry.
OpenEntry ==
    /\ Scanning
    /\ frames[idx].stream
    /\ ~ Present(Id(idx))
    /\ fragments' = [fragments EXCEPT ![Id(idx)] =
                        [first |-> idx, parts |-> {idx}]]
    /\ idx' = idx + 1
    /\ UNCHANGED <<frames, blocks, status>>

\* The id is present and recent enough: insert into its entry.
ExtendEntry ==
    /\ Scanning
    /\ frames[idx].stream
    /\ Present(Id(idx))
    /\ ~ Stale(fragments[Id(idx)])
    /\ fragments' = [fragments EXCEPT ![Id(idx)].parts = Insert(@, idx)]
    /\ idx' = idx + 1
    /\ UNCHANGED <<frames, blocks, status>>

\* Mutant: the closed entry is dropped.
EvictEntryDropping ==
    /\ Scanning
    /\ frames[idx].stream
    /\ Present(Id(idx))
    /\ Stale(fragments[Id(idx)])
    /\ fragments' = [fragments EXCEPT ![Id(idx)] =
                        [first |-> idx, parts |-> {idx}]]
    /\ idx' = idx + 1
    /\ UNCHANGED <<frames, blocks, status>>

\* The id is present but was opened too long ago: close it and open another.
EvictEntry ==
    /\ Scanning
    /\ frames[idx].stream
    /\ Present(Id(idx))
    /\ Stale(fragments[Id(idx)])
    /\ blocks' = Append(blocks, fragments[Id(idx)])
    /\ fragments' = [fragments EXCEPT ![Id(idx)] =
                        [first |-> idx, parts |-> {idx}]]
    /\ idx' = idx + 1
    /\ UNCHANGED <<frames, status>>

\* All entries are merged, the closed ones first and then those still open in
\* the order of their ids; each becomes an event.  The unwrap of a merge that
\* fails panics, whichever entry it is.
OpenIds == {id \in Ids : Present(id)}

Events ==
    LET order == InOrder(OpenIds, [id \in OpenIds |-> id])
    IN  blocks \o [k \in 1 .. Len(order) |-> fragments[order[k]]]

MergeOk(entry) == Merge(Slice(entry.parts), OverflowChecks) = "ok"

\* Mutant: a merge that fails is passed over.
FinishPassingOver ==
    /\ status = "scanning"
    /\ idx = Len(frames) + 1
    /\ status' = "done"
    /\ UNCHANGED <<frames, idx, fragments, blocks>>

Finish ==
    /\ status = "scanning"
    /\ idx = Len(frames) + 1
    /\ status' = IF \A k \in 1 .. Len(Events) : MergeOk(Events[k])
                 THEN "done" ELSE "panic"
    /\ UNCHANGED <<frames, idx, fragments, blocks>>

Returned == status # "scanning" /\ UNCHANGED vars

Next ==
    \/ RejectFrame
    \/ OpenEntry
    \/ ExtendEntry
    \/ EvictEntry
    \/ Finish
    \/ Returned

Spec == Init /\ [][Next]_vars

-----------------------------------------------------------------------------
(* Properties *)

\* The variables keep their types.
TypeOK ==
    /\ frames \in Inputs
    /\ idx \in 1 .. Len(frames) + 1
    /\ fragments \in [Ids -> Entry]
    /\ blocks \in Seq(Entry)
    /\ status \in {"scanning", "done", "err", "panic"}

\* The entries there are, closed or open, each under a name of its own.
Closed(k) == <<"closed", k>>
Open(id) == <<"open", id>>
EntryNames == {Closed(k) : k \in 1 .. Len(blocks)} \cup {Open(id) : id \in OpenIds}
EntryOf(name) == IF name[1] = "closed" THEN blocks[name[2]] ELSE fragments[name[2]]

WindowOf(entry) == entry.first .. entry.first + MAX_FRAGMENTS_DISTANCE

WellFormed(entry) ==
    /\ entry.parts # {}
    /\ entry.parts \subseteq WindowOf(entry) \cap 1 .. idx - 1
    /\ \A i, j \in entry.parts :
          /\ frames[i].stream
          /\ Id(i) = Id(j)
          /\ Offset(i) = Offset(j) => i = j

\* An entry holds frames of one id, one for each offset, all of them among the
\* MAX_FRAGMENTS_DISTANCE frames that follow the one that opened it.
EntriesWellFormed == \A name \in EntryNames : WellFormed(EntryOf(name))

\* Frame j is i, or a later one with its id and offset within the distance.
StandsFor(j, i) ==
    /\ i <= j
    /\ j <= i + MAX_FRAGMENTS_DISTANCE
    /\ Id(i) = Id(j)
    /\ Offset(i) = Offset(j)

\* No frame is lost and none is used twice: of each STREAM frame scanned so far
\* the fragment, or a later one that stands for it, is in exactly one entry.
NothingLost ==
    \A i \in 1 .. idx - 1 :
        \E name \in EntryNames :
            /\ \E j \in EntryOf(name).parts : StandsFor(j, i)
            /\ \A other \in EntryNames : i \in EntryOf(other).parts => other = name

\* What the device and the network must grant: frames of one id come from one
\* packet exactly when the later of the two is within the distance of the first
\* frame of that packet.
FirstOf(fs, i) ==
    CHOOSE f \in 1 .. i :
        /\ fs[f].stream /\ fs[f].packet = fs[i].packet
        /\ \A g \in 1 .. f - 1 : ~ (fs[g].stream /\ fs[g].packet = fs[i].packet)

Spaced(fs) ==
    \A i, j \in 1 .. Len(fs) :
        i < j /\ fs[i].stream /\ fs[j].stream /\ IdOf[fs[i].packet] = IdOf[fs[j].packet]
        => (   fs[i].packet = fs[j].packet
            <=> j - FirstOf(fs, i) <= MAX_FRAGMENTS_DISTANCE)

\* On spaced input no event mixes two packets and no packet is split into two:
\* two frames are in one entry exactly when they come from one packet.
PacketsKeptApart ==
    Spaced(frames) =>
        \A m, n \in EntryNames :
            \A i \in EntryOf(m).parts, j \in EntryOf(n).parts :
                m = n <=> frames[i].packet = frames[j].packet

\* Every fragment of every packet arrived at least once, and nothing but STREAM
\* frames did.
Complete(fs) ==
    \A i \in 1 .. Len(fs) :
        LET cut == CutOf[fs[i].packet]
        IN  /\ fs[i].stream
            /\ IsCut(cut)
            /\ cut[1].length >= HeaderLength
            /\ ~ Overflows(cut[Len(cut)])
            /\ \A p \in 1 .. Len(cut) :
                  \E j \in 1 .. Len(fs) : fs[j].packet = fs[i].packet /\ fs[j].part = p

\* On spaced and complete input the call succeeds and its events are the packets,
\* one each and whole.
CompleteInputBecomesEvents ==
    Spaced(frames) /\ Complete(frames) /\ status # "scanning" =>
        /\ status = "done"
        /\ Len(Events) = Cardinality({frames[i].packet : i \in 1 .. Len(frames)})
        /\ \A i \in 1 .. Len(frames) :
              \E k \in 1 .. Len(Events) :
                  Slice(Events[k].parts) = CutOf[frames[i].packet]

\* On any input the call returns only if every frame it was given is in an event
\* that is gapless from offset 0 and holds a fragment with LF.  On spaced input
\* that event is the whole packet of the frame: a packet that lost one fragment
\* for good makes the call panic and is never delivered short.  On other input a
\* gapless event may still be joined from two packets of one id that each lost
\* what the other brought.
ReturnsOnlyWholePackets ==
    status = "done" =>
        \A i \in 1 .. Len(frames) :
            \E k \in 1 .. Len(Events) :
                LET slice == Slice(Events[k].parts)
                    cut == CutOf[frames[i].packet]
                IN  /\ \E j \in Events[k].parts : StandsFor(j, i)
                    /\ slice[1].offset = 0
                    /\ \A n \in 1 .. Len(slice) - 1 :
                          slice[n + 1].offset = EndOf(slice[n])
                    /\ \E n \in 1 .. Len(slice) : slice[n].last
                    /\ Spaced(frames) /\ IsCut(cut) => slice = cut
=============================================================================
