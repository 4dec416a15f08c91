------------------------------- MODULE Points -------------------------------
(***************************************************************************)
(* From events to a point: the cutting of each event into its data blocks  *)
(* (the last part of frames_to_events), what acquire_point of tqdc-server  *)
(* does with them, and events_to_point (apps/src/lib.rs), which leaves out *)
(* the frames below the threshold and groups the others by channel.        *)
(*                                                                         *)
(* Zero suppression compares sums of floating-point numbers: whether a     *)
(* block is kept is any choice.  The lengths and the places that decide    *)
(* whether a maximum exists at all, without which the call panics, are     *)
(* modelled.                                                               *)
(***************************************************************************)
EXTENDS FrameAssembly, DataBlocks

CONSTANTS
    TaiOf,          \* the time the board stamped each packet with, nanoseconds
    Lists,          \* what a packet may hold: sequences of data blocks
    Malformed,      \* user data that is no such sequence
    Suppressions,   \* what --zero-suppression and --zero-suppression-fir may be
    Window,         \* the words between which a reset is looked for: 30
    Jump,           \* the step that is a reset: 5000
    Skip,           \* the words passed over after one: 120
    Lead,           \* how long a point begins before its first frame: 1000000
    TimeModulus     \* frame.time is a u64: 2^64

\* The zero suppression of a server: none, or the length of its filter (0: no
\* filter).
NoSuppression == -1
NoTime == -1

ASSUME PointsAssumption ==
    /\ {Jump, Skip, Lead} \subseteq Nat
    /\ TaiOf \in [Packets -> Lead .. TimeModulus - 1]
    /\ Lists \subseteq Seq(DataBlock)
    /\ Malformed \subseteq Seq(Int)
    /\ Suppressions \subseteq Nat \cup {NoSuppression}
    /\ Window \in Nat \ {0}
    /\ TimeModulus \in Nat

VARIABLES
    stage,         \* what the call is doing, or how it ended
    events,        \* the events so far: time and ADC blocks of each
    given,         \* what the board had put into each of them
    suppression,   \* zero_suppression
    todo,          \* the blocks events_to_point has not seen yet
    begin_time,    \* begin_time, a u128
    kept,          \* the blocks it appended
    point          \* frames_per_channel

makingVars == <<suppression, todo, begin_time, kept, point>>
pointVars == <<stage, events, given, makingVars>>

-----------------------------------------------------------------------------
(* Events *)

\* The header of the packet is that of the fragment at offset 0.
Tai(entry) == TaiOf[frames[CHOOSE i \in entry.parts : Offset(i) = 0].packet]

UserData == {Pack(list) : list \in Lists} \cup Malformed

\* One turn of the closure of frames_to_events, after the merge: the packet may
\* hold anything.
ExtractEvent ==
    /\ stage = "assembling"
    /\ status = "done"
    /\ Len(events) < Len(Events)
    /\ \E data \in UserData :
          LET extracted == Extract(data)
          IN  /\ given' = Append(given, data)
              /\ IF extracted.ok
                 THEN /\ events' = Append(events, [tai |-> Tai(Events[Len(events) + 1]),
                                                   adc_blocks |-> extracted.blocks])
                      /\ stage' = stage
                 ELSE stage' = "panic" /\ UNCHANGED events
    /\ UNCHANGED <<vars, makingVars>>

Collected ==
    /\ stage = "assembling"
    /\ status = "done"
    /\ Len(events) = Len(Events)

\* A run of which nothing arrived is an error.
NoEvents ==
    /\ Collected
    /\ events = <<>>
    /\ stage' = "err"
    /\ UNCHANGED <<vars, events, given, makingVars>>

\* The blocks in the order events_to_point takes them.
BlocksOf(event) ==
    [k \in 1 .. Len(event.adc_blocks) |->
        [tai |-> event.tai, ch |-> event.adc_blocks[k].ch,
         waveform |-> event.adc_blocks[k].waveform]]

AllBlocks == FlattenSeq([k \in 1 .. Len(events) |-> BlocksOf(events[k])])

MakePoint ==
    /\ Collected
    /\ events # <<>>
    /\ stage' = "making"
    /\ todo' = AllBlocks
    /\ suppression' \in Suppressions
    /\ UNCHANGED <<vars, events, given, begin_time, kept, point>>

-----------------------------------------------------------------------------
(* events_to_point *)

Abs(n) == IF n < 0 THEN -n ELSE n

\* The waveform of floats is shorter than the one of bins by the filter.
FilteredLen(waveform) ==
    IF suppression = 0 THEN Len(waveform)
    ELSE IF Len(waveform) < suppression THEN 0 ELSE Len(waveform) - suppression + 1

ResetAtStart(waveform) ==
    Window <= Len(waveform) /\ Abs(waveform[1] - waveform[Window]) > Jump

\* There is no maximum to unwrap: nothing is left by the filter, or by what is
\* passed over after a reset at the start.  (A reset further on leaves at least
\* the word at the start.)
NoMaximum(waveform) ==
    FilteredLen(waveform) <= IF ResetAtStart(waveform) THEN Skip ELSE 0

Making == stage = "making" /\ todo # <<>>

SuppressionPanics ==
    /\ Making
    /\ suppression # NoSuppression
    /\ NoMaximum(Head(todo).waveform)
    /\ stage' = "panic"
    /\ UNCHANGED <<vars, events, given, makingVars>>

Suppress ==
    /\ Making
    /\ suppression # NoSuppression
    /\ ~ NoMaximum(Head(todo).waveform)
    /\ todo' = Tail(todo)
    /\ UNCHANGED <<vars, stage, events, given, suppression, begin_time, kept, point>>

\* bin / 4 of an i16 cuts towards zero.
Quarter(bin) == IF bin < 0 THEN -(-bin \div 4) ELSE bin \div 4
Quarters(waveform) == [k \in 1 .. Len(waveform) |-> Quarter(waveform[k])]

\* Mutant: the point begins anew with each frame.
BeginAgain(tai) == tai - Lead

\* begin_time.get_or_insert(tai_nsec - 1_000_000)
Begin(tai) == IF begin_time = NoTime THEN tai - Lead ELSE begin_time

\* tai_nsec - *begin is a subtraction of u128: when it underflows a debug build
\* panics; in a release build it wraps, and its low 64 bits are kept.
Underflows(tai) == tai < Begin(tai)

AppendPanics ==
    /\ Making
    /\ suppression = NoSuppression \/ ~ NoMaximum(Head(todo).waveform)
    /\ OverflowChecks
    /\ Underflows(Head(todo).tai)
    /\ stage' = "panic"
    /\ UNCHANGED <<vars, events, given, makingVars>>

AppendFrame ==
    /\ Making
    /\ suppression = NoSuppression \/ ~ NoMaximum(Head(todo).waveform)
    /\ LET block == Head(todo)
           begin == Begin(block.tai)
           frame == [time |-> (block.tai - begin) % TimeModulus,
                     data |-> Quarters(block.waveform)]
       IN  /\ ~ (OverflowChecks /\ Underflows(block.tai))
           /\ begin_time' = begin
           /\ point' = [point EXCEPT ![block.ch] = Append(@, frame)]
           /\ kept' = Append(kept, block)
           /\ todo' = Tail(todo)
    /\ UNCHANGED <<vars, stage, events, given, suppression>>

PointMade ==
    /\ stage = "making"
    /\ todo = <<>>
    /\ stage' = "made"
    /\ UNCHANGED <<vars, events, given, makingVars>>

InitPoint ==
    /\ stage = "assembling"
    /\ events = <<>>
    /\ given = <<>>
    /\ suppression = NoSuppression
    /\ todo = <<>>
    /\ begin_time = NoTime
    /\ kept = <<>>
    /\ point = [ch \in Channels |-> <<>>]

PointNext ==
    \/ ExtractEvent
    \/ NoEvents
    \/ MakePoint
    \/ SuppressionPanics
    \/ Suppress
    \/ AppendPanics
    \/ AppendFrame
    \/ PointMade

-----------------------------------------------------------------------------
(* Properties *)

\* Whatever follows or precedes it in a packet, each ADC block of a packet that
\* the board packed is read back with its channel and waveform, in its place,
\* and the other blocks are passed over.
BlocksReadBack ==
    \A k \in 1 .. Len(given) : \A list \in Lists :
        given[k] = Pack(list) =>
            k <= Len(events) /\ events[k].adc_blocks = ADCBlocks(list)

\* No packet was received that is older than the first block kept by more than
\* the lead.  (Events come in the order of their ids, not of their times.)
WithinLead ==
    \A i \in 1 .. Len(frames) :
        kept # <<>> => TaiOf[frames[i].packet] >= kept[1].tai - Lead

\* What a packet's time becomes.
RelativeTime(tai) == tai - kept[1].tai + Lead

\* What the frames of a channel are to be, given all blocks in their order.
FramesOf(blocksGiven, ch) ==
    FlattenSeq([k \in 1 .. Len(blocksGiven) |->
        IF blocksGiven[k].ch = ch
        THEN <<[time |-> RelativeTime(blocksGiven[k].tai),
                data |-> Quarters(blocksGiven[k].waveform)]>>
        ELSE <<>>])

\* From frames to a point: when packets of one id are far enough apart, every
\* fragment arrived, and no packet is older than the lead, then without zero
\* suppression the point has each ADC block of each packet once, in its channel,
\* with its own time and waveform; whatever packet it came in.
PointIsWhole ==
    /\ stage = "made"
    /\ Spaced(frames) /\ Complete(frames) /\ WithinLead
    /\ suppression = NoSuppression
    =>
    /\ {events[k].tai : k \in 1 .. Len(events)}
          = {TaiOf[frames[i].packet] : i \in 1 .. Len(frames)}
    /\ \A ch \in Channels : point[ch] = FramesOf(AllBlocks, ch)
=============================================================================
