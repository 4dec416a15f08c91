------------------------------ MODULE Likhovid ------------------------------
(***************************************************************************)
(* likhovid-converter (apps/src/bin/likhovid-converter.rs): the frames of  *)
(* a saved point, sorted by time and channel.                              *)
(***************************************************************************)
EXTENDS Points

CONSTANTS Limits   \* what --limit may be; NoLimit: not given

NoLimit == -1

VARIABLES
    converter,   \* "idle", "written", "panic"
    limit,       \* --limit
    rows         \* what is in the output file, in order

converterVars == <<converter, limit, rows>>
allVars == <<vars, pointVars, converterVars>>

-----------------------------------------------------------------------------
(* What is in the map of times *)

Frames == UNION {{[time |-> point[ch][k].time, ch |-> ch, data |-> point[ch][k].data] :
                     k \in 1 .. Len(point[ch])} : ch \in Channels}

Times == {frame.time : frame \in Frames}

\* group.insert: of the frames of a channel that have the same time the last one
\* stays.
LastOfKey(ch, time) ==
    point[ch][CHOOSE k \in 1 .. Len(point[ch]) :
        /\ point[ch][k].time = time
        /\ \A j \in k + 1 .. Len(point[ch]) : point[ch][j].time # time]

Rows == {[time |-> frame.time, ch |-> frame.ch,
          data |-> LastOfKey(frame.ch, frame.time).data] : frame \in Frames}

\* Mutant: the maps are nested the other way round.
KeyByChannel(row) == row.ch * TimeModulus + row.time

\* The place of a row in the two maps, as one number.
Key(row) == row.time * ChannelModulus + row.ch

-----------------------------------------------------------------------------

InitConverter ==
    /\ converter = "idle"
    /\ limit = NoLimit
    /\ rows = <<>>

\* frames_sorted.into_iter().take(limit) takes the first of the outer map, which
\* has one entry for each time.
Taken(n) == {row \in Rows : n = NoLimit
                \/ Cardinality({time \in Times : time < row.time}) < n}

Convert ==
    /\ stage = "made"
    /\ converter = "idle"
    /\ limit' \in Limits
    /\ rows' = InOrder(Taken(limit'), [row \in Taken(limit') |-> Key(row)])
    /\ converter' = "written"
    /\ UNCHANGED <<vars, pointVars>>

\* --ascii needs the length of a waveform for the heading.
ConvertPanics ==
    /\ stage = "made"
    /\ converter = "idle"
    /\ Frames = {}
    /\ converter' = "panic"
    /\ UNCHANGED <<vars, pointVars, limit, rows>>

AllInit == Init /\ InitPoint /\ InitConverter

AllNext ==
    \/ Next /\ UNCHANGED <<pointVars, converterVars>>
    \/ PointNext /\ UNCHANGED converterVars
    \/ Convert
    \/ ConvertPanics

AllSpec == AllInit /\ [][AllNext]_allVars

-----------------------------------------------------------------------------
(* Properties *)

\* Each packet has a time of its own and at most one block of a channel, and its
\* time was not wrapped on the way.
Distinguishable ==
    /\ WithinLead
    /\ \A i, j \in 1 .. Len(kept) :
          kept[i].tai = kept[j].tai /\ kept[i].ch = kept[j].ch => i = j

\* From what the board packed to the file: in whatever order the packets came and
\* however their ids wrapped, the rows are the blocks kept, each once and with its
\* own channel, time and waveform, in the order of their true times.
RowsInTrueOrder ==
    /\ converter = "written" /\ limit = NoLimit
    /\ Distinguishable
    =>
    /\ Len(rows) = Len(kept)
    /\ \A i \in 1 .. Len(rows) : \E k \in 1 .. Len(kept) :
          /\ rows[i].time = RelativeTime(kept[k].tai)
          /\ rows[i].ch = kept[k].ch
          /\ rows[i].data = Quarters(kept[k].waveform)
          /\ Cardinality({j \in 1 .. Len(kept) :
                 \/ kept[j].tai < kept[k].tai
                 \/ (kept[j].tai = kept[k].tai /\ kept[j].ch < kept[k].ch)}) = i - 1

\* "limit output to N frames" (likhovid-converter.rs 25): of a limit of N the file
\* has N frames, or all of them when there are fewer.
LimitIsFrames ==
    converter = "written" /\ limit # NoLimit =>
        Len(rows) = Min({limit, Cardinality(Rows)})
=============================================================================
