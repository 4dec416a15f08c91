---------------------------- MODULE Acquisition ----------------------------
(***************************************************************************)
(* TQDC::acquire_frames (tqdc/src/lib.rs): the caller, the gather_frames   *)
(* task it spawns, the board and the network between them.                 *)
(*                                                                         *)
(* A session is one call.  It binds a control and a stream socket of its   *)
(* own, which the caller and the gather task share.  The server            *)
(* (apps/src/bin/tqdc-server.rs) serves one connection at a time and       *)
(* aborts its task when another one comes, so that calls follow one        *)
(* another, but for one case: a task that was aborted runs on to its next  *)
(* await that is not ready, and may enter a call on its way there.  That   *)
(* await is the sleep, in which the call is dropped.  The gather task of a *)
(* call that failed, or was aborted or dropped, is detached, not stopped,  *)
(* and runs beside other sessions.                                         *)
(*                                                                         *)
(* Time passes in ticks of 100 ms; a timer counts down what is left of the *)
(* await its task is in, and a task whose timer has run out, or that was   *)
(* just spawned, runs before the next tick.  The network keeps a datagram  *)
(* until a receiver takes it, so that it may be delayed, overtaken and     *)
(* (never taken) lost; at most MaxDups times it delivers a datagram and    *)
(* keeps it, too.                                                          *)
(***************************************************************************)
EXTENDS Integers, Sequences, FiniteSets

CONSTANTS
    N,               \* the number of calls
    SleepTicks,      \* between the spawn and start_acquisition: 100 ms
    ControlTicks,    \* a reply on the control socket is awaited for 100 ms
    StreamTicks,     \* a frame on the stream socket is awaited for 500 ms
    MaxFrames,       \* bound: frames the board takes in one run
    MaxResends,      \* bound: frames it sends again, in all
    MaxDups,         \* bound: datagrams the network delivers twice, in all
    Strays           \* may the board send a datagram that is not STREAM?

ASSUME AcquisitionAssumption ==
    /\ N \in Nat
    /\ {SleepTicks, ControlTicks, StreamTicks} \subseteq Nat \ {0}
    /\ StreamTicks > SleepTicks + ControlTicks
    /\ Strays \in BOOLEAN
    /\ {MaxFrames, MaxResends, MaxDups} \subseteq Nat

Sessions == 1 .. N   \* in the order in which the calls are entered

VARIABLES
    caller,          \* where each acquire_frames is
    callerTimer,
    gather,          \* where each gather_frames is
    gatherTimer,
    frames,          \* what each gather_frames has pushed
    board,
    net,             \* the datagrams on their way
    dups,            \* how many were delivered twice
    quiet            \* what was quiet when the session began (history)

vars == <<caller, callerTimer, gather, gatherTimer, frames, board, net, dups, quiet>>

callerVars == <<caller, callerTimer, quiet>>
gatherVars == <<gather, gatherTimer, frames>>
netVars == <<net, dups>>

None == 0

Active == {"sleep", "start", "join", "stop"}
Ended == {"ok", "failed", "dropped"}   \* failed: returned Err, or was aborted
CallerState == {"new"} \cup Active \cup Ended
Alive == {"spawned", "recv", "check"}
GatherState == {"none", "finished", "failed"} \cup Alive
RunState == {"Stopped", "InRun", "Finished"}

-----------------------------------------------------------------------------
(* Datagrams *)

\* From a session to the board: the kind, and the session whose socket sent it.
Request == [kind : {"start", "stop", "check", "subscribe"}, session : Sessions]

\* To the control socket of a session.  Any of them ends the wait of
\* start_acquisition and of stop_acquisition; check_run_state takes "state" only.
Reply == [kind : {"start_ack", "stop_ack"}, session : Sessions]
             \cup [kind : {"state"}, session : Sessions, state : RunState]

\* A frame is known by the run it was taken in and its number there; number 0
\* stands for a datagram of another M-Link type on the stream socket.
Frame == [run : Nat, number : Nat]
StrayFrame == [run |-> 0, number |-> 0]
Stream == [kind : {"frame", "ack"}, session : Sessions, frame : Frame]

Datagram == Request \cup Reply \cup Stream

Ask(kind, s) == [kind |-> kind, session |-> s]
StateReply(s, state) == [kind |-> "state", session |-> s, state |-> state]
StreamMsg(kind, s, f) == [kind |-> kind, session |-> s, frame |-> f]

\* What waits at the two sockets of a session.
AtControl(s) ==
    {m \in net : m.session = s /\ m.kind \in {"start_ack", "stop_ack", "state"}}
AtStream(s) == {m \in net : m.session = s /\ m.kind = "frame"}

Send(msgs) == net' = net \cup msgs /\ UNCHANGED dups

\* Take a datagram from the network, which may deliver it again, and send msgs.
Exchange(m, msgs) ==
    \/ net' = (net \ {m}) \cup msgs /\ UNCHANGED dups
    \/ dups < MaxDups /\ net' = net \cup msgs /\ dups' = dups + 1

-----------------------------------------------------------------------------
(* acquire_frames *)

CallerTo(s, state) == caller' = [caller EXCEPT ![s] = state]
CallerWaits(s, ticks) == callerTimer' = [callerTimer EXCEPT ![s] = ticks]
GatherTo(s, state) == gather' = [gather EXCEPT ![s] = state]
GatherWaits(s, ticks) == gatherTimer' = [gatherTimer EXCEPT ![s] = ticks]

\* What the calls before have left behind: whether the board is out of its run,
\* with no frame to send again and no start request on its way, and whether all
\* their gather tasks have ended.
BoardQuiet ==
    /\ board.state # "InRun"
    /\ board.unacked = {}
    /\ \A m \in net : m.kind # "start"

TasksQuiet == \A s \in Sessions : gather[s] \notin Alive

Quiet == {q \in {"board", "tasks"} : IF q = "board" THEN BoardQuiet ELSE TasksQuiet}

\* Mutant: a call may begin as soon as the one before it has been started.
BeginPipelined(s) ==
    /\ caller[s] = "new"
    /\ \A r \in Sessions : r < s => caller[r] \in {"join"} \cup Ended
    /\ CallerTo(s, "sleep") /\ CallerWaits(s, SleepTicks)
    /\ GatherTo(s, "spawned")
    /\ quiet' = [quiet EXCEPT ![s] = Quiet]
    /\ UNCHANGED <<gatherTimer, frames, board, netVars>>

\* Bind the sockets, spawn the gather task and go to sleep; or fail to bind.
Begin(s) ==
    /\ caller[s] = "new"
    /\ \A r \in Sessions : r < s => caller[r] \in Ended
    /\ \/ /\ CallerTo(s, "sleep") /\ CallerWaits(s, SleepTicks)
          /\ GatherTo(s, "spawned")
          /\ quiet' = [quiet EXCEPT ![s] = Quiet]
       \/ /\ CallerTo(s, "failed")
          /\ UNCHANGED <<callerTimer, gather, quiet>>
    /\ UNCHANGED <<gatherTimer, frames, board, netVars>>

\* The same in a task that was aborted: as soon as the call sleeps it is dropped.
\* It does not wait for the calls before it.
BeginAborted(s) ==
    /\ caller[s] = "new"
    /\ \A r \in Sessions : r < s => caller[r] # "new"
    /\ CallerTo(s, "dropped")
    /\ GatherTo(s, "spawned") \/ UNCHANGED gather
    /\ UNCHANGED <<callerTimer, quiet, gatherTimer, frames, board, netVars>>

\* The sleep is over: send the start request and wait for a reply.
Start(s) ==
    /\ caller[s] = "sleep" /\ callerTimer[s] = 0
    /\ CallerTo(s, "start") /\ CallerWaits(s, ControlTicks)
    /\ Send({Ask("start", s)})
    /\ UNCHANGED <<quiet, gatherVars, board>>

\* start_acquisition: whatever arrives is the acknowledgement.
StartAcknowledged(s) ==
    /\ caller[s] = "start"
    /\ \E m \in AtControl(s) : Exchange(m, {})
    /\ CallerTo(s, "join") /\ CallerWaits(s, 0)
    /\ UNCHANGED <<quiet, gatherVars, board>>

\* The gather task has returned its frames: send the stop request and wait.
Stop(s) ==
    /\ caller[s] = "join" /\ gather[s] = "finished"
    /\ CallerTo(s, "stop") /\ CallerWaits(s, ControlTicks)
    /\ Send({Ask("stop", s)})
    /\ UNCHANGED <<quiet, gatherVars, board>>

StopAcknowledged(s) ==
    /\ caller[s] = "stop"
    /\ \E m \in AtControl(s) : Exchange(m, {})
    /\ CallerTo(s, "ok") /\ CallerWaits(s, 0)
    /\ UNCHANGED <<quiet, gatherVars, board>>

\* Mutants of the timeouts on the control socket: a missing reply to start is
\* passed over; a missing reply to stop is passed over; the start request is sent
\* again; there is no timeout.
CallerGivesUpStartIgnored(s) ==
    /\ \/ /\ caller[s] = "start" /\ callerTimer[s] = 0
          /\ CallerTo(s, "join")
       \/ /\ \/ caller[s] = "stop" /\ callerTimer[s] = 0
             \/ caller[s] = "join" /\ gather[s] = "failed"
          /\ CallerTo(s, "failed")
    /\ CallerWaits(s, 0)
    /\ UNCHANGED <<quiet, gatherVars, board, netVars>>

CallerGivesUpStopIgnored(s) ==
    /\ \/ /\ caller[s] = "stop" /\ callerTimer[s] = 0
          /\ CallerTo(s, "ok")
       \/ /\ \/ caller[s] = "start" /\ callerTimer[s] = 0
             \/ caller[s] = "join" /\ gather[s] = "failed"
          /\ CallerTo(s, "failed")
    /\ CallerWaits(s, 0)
    /\ UNCHANGED <<quiet, gatherVars, board, netVars>>

CallerGivesUpAfterRetry(s) ==
    \/ /\ caller[s] = "start" /\ callerTimer[s] = 0
       /\ CallerWaits(s, ControlTicks) /\ Send({Ask("start", s)})
       /\ UNCHANGED <<caller, quiet, gatherVars, board>>
    \/ /\ \/ caller[s] = "stop" /\ callerTimer[s] = 0
          \/ caller[s] = "join" /\ gather[s] = "failed"
       /\ CallerTo(s, "failed") /\ CallerWaits(s, 0)
       /\ UNCHANGED <<quiet, gatherVars, board, netVars>>

CallerGivesUpNever(s) ==
    /\ caller[s] = "join" /\ gather[s] = "failed"
    /\ CallerTo(s, "failed") /\ CallerWaits(s, 0)
    /\ UNCHANGED <<quiet, gatherVars, board, netVars>>

\* No reply within 100 ms; the gather task has failed or panicked; or a send or
\* a receive on the control socket has failed.
CallerGivesUp(s) ==
    /\ \/ caller[s] \in {"start", "stop"} /\ callerTimer[s] = 0
       \/ caller[s] = "join" /\ gather[s] = "failed"
    /\ CallerTo(s, "failed") /\ CallerWaits(s, 0)
    /\ UNCHANGED <<quiet, gatherVars, board, netVars>>

CallerIOError(s) ==
    /\ caller[s] \in {"start", "stop"}
    /\ CallerTo(s, "failed") /\ CallerWaits(s, 0)
    /\ UNCHANGED <<quiet, gatherVars, board, netVars>>

\* The server aborts the task of the call: a new connection has come.
Abort(s) ==
    /\ caller[s] \in Active
    /\ CallerTo(s, "failed") /\ CallerWaits(s, 0)
    /\ UNCHANGED <<quiet, gatherVars, board, netVars>>

-----------------------------------------------------------------------------
(* gather_frames *)

\* Mutant: frames are awaited no longer than replies.
SubscribeBriefly(s) ==
    /\ gather[s] = "spawned"
    /\ GatherTo(s, "recv") /\ GatherWaits(s, ControlTicks)
    /\ Send({Ask("subscribe", s)})
    /\ UNCHANGED <<callerVars, frames, board>>

\* The first poll of the task: subscribe to the stream.
Subscribe(s) ==
    /\ gather[s] = "spawned"
    /\ GatherTo(s, "recv") /\ GatherWaits(s, StreamTicks)
    /\ Send({Ask("subscribe", s)})
    /\ UNCHANGED <<callerVars, frames, board>>

\* Mutant: a frame overtaken by a later one is acknowledged but not kept.
ReceiveInOrder(s) ==
    /\ gather[s] = "recv"
    /\ \E m \in AtStream(s) :
          /\ Exchange(m, IF m.frame # StrayFrame THEN {StreamMsg("ack", s, m.frame)}
                         ELSE {})
          /\ frames' = [frames EXCEPT ![s] =
                @ \cup {f \in {m.frame} : \A g \in @ : g.number <= f.number}]
    /\ GatherWaits(s, StreamTicks)
    /\ UNCHANGED <<callerVars, gather, board>>

\* A datagram on the stream socket: acknowledge it if it is a STREAM frame, keep
\* it in any case, and wait for the next one.
Receive(s) ==
    /\ gather[s] = "recv"
    /\ \E m \in AtStream(s) :
          /\ Exchange(m, IF m.frame # StrayFrame THEN {StreamMsg("ack", s, m.frame)}
                         ELSE {})
          /\ frames' = [frames EXCEPT ![s] = @ \cup {m.frame}]
    /\ GatherWaits(s, StreamTicks)
    /\ UNCHANGED <<callerVars, gather, board>>

\* 500 ms without a frame: ask the board how its run is.
Check(s) ==
    /\ gather[s] = "recv" /\ gatherTimer[s] = 0
    /\ GatherTo(s, "check") /\ GatherWaits(s, ControlTicks)
    /\ Send({Ask("check", s)})
    /\ UNCHANGED <<callerVars, frames, board>>

\* The task ends; its frames are returned, or dropped when it fails.
GatherEnds(s, state) ==
    /\ GatherTo(s, state) /\ GatherWaits(s, 0)
    /\ frames' = [frames EXCEPT ![s] = IF state = "finished" THEN @ ELSE {}]

\* Mutants: the task returns while the board is still in its run; it starts over
\* with no frames.
CheckedHasty(s) ==
    /\ gather[s] = "check"
    /\ \E m \in AtControl(s) :
          /\ Exchange(m, {})
          /\ \/ /\ m.kind = "state" /\ m.state # "Stopped"
                /\ GatherEnds(s, "finished")
             \/ /\ m.kind = "state" => m.state = "Stopped"
                /\ GatherEnds(s, "failed")
    /\ UNCHANGED <<callerVars, board>>

CheckedStartingOver(s) ==
    /\ gather[s] = "check"
    /\ \E m \in AtControl(s) :
          /\ Exchange(m, {})
          /\ \/ /\ m.kind = "state" /\ m.state = "InRun"
                /\ GatherTo(s, "recv") /\ GatherWaits(s, StreamTicks)
                /\ frames' = [frames EXCEPT ![s] = {}]
             \/ /\ m.kind = "state" /\ m.state = "Finished"
                /\ GatherEnds(s, "finished")
             \/ /\ m.kind = "state" => m.state = "Stopped"
                /\ GatherEnds(s, "failed")
    /\ UNCHANGED <<callerVars, board>>

\* check_run_state takes the first datagram on the control socket.  The task
\* waits for frames again if the board is in its run, returns if the run is
\* finished, and fails if it is stopped or if the datagram is anything else.
Checked(s) ==
    /\ gather[s] = "check"
    /\ \E m \in AtControl(s) :
          /\ Exchange(m, {})
          /\ \/ /\ m.kind = "state" /\ m.state = "InRun"
                /\ GatherTo(s, "recv") /\ GatherWaits(s, StreamTicks)
                /\ UNCHANGED frames
             \/ /\ m.kind = "state" /\ m.state = "Finished"
                /\ GatherEnds(s, "finished")
             \/ /\ m.kind = "state" => m.state = "Stopped"
                /\ GatherEnds(s, "failed")
    /\ UNCHANGED <<callerVars, board>>

\* Mutant: a missing reply counts as "in run".
CheckTimeoutResumes(s) ==
    /\ gather[s] = "check" /\ gatherTimer[s] = 0
    /\ GatherTo(s, "recv") /\ GatherWaits(s, StreamTicks)
    /\ UNCHANGED <<callerVars, frames, board, netVars>>

\* No reply within 100 ms.
CheckTimeout(s) ==
    /\ gather[s] = "check" /\ gatherTimer[s] = 0
    /\ GatherEnds(s, "failed")
    /\ UNCHANGED <<callerVars, board, netVars>>

\* A send or receive that fails, or a datagram that does not parse (a panic).
GatherFails(s) ==
    /\ gather[s] \in Alive
    /\ GatherEnds(s, "failed")
    /\ UNCHANGED <<callerVars, board, netVars>>

-----------------------------------------------------------------------------
(* The board (external: its protocol as the code relies on it) *)

\* The runs, in order: which session's request started each, the frames taken
\* in it so far, and whether it went on until its time limit.
Run == [owner : Sessions, taken : Nat, finished : BOOLEAN]

CurrentRun == Len(board.runs)

\* The stream goes to the last socket that subscribed.  The board may answer
\* with a datagram that is not a STREAM frame.
BoardSubscribe ==
    \E m \in net :
        /\ m.kind = "subscribe"
        /\ board' = [board EXCEPT !.subscriber = m.session]
        /\ \/ Exchange(m, {})
           \/ Strays /\ Exchange(m, {StreamMsg("frame", m.session, StrayFrame)})
        /\ UNCHANGED <<callerVars, gatherVars>>

\* The registers of the start request are written in order: SoftClear, Stop,
\* mode, limit, SoftClear, Stop, Run.  SoftClear may drop the unsent frames.
BoardStart ==
    \E m \in net :
        /\ m.kind = "start"
        /\ \E left \in {board.unacked, {}} :
              board' = [board EXCEPT
                  !.state = "InRun",
                  !.unacked = left,
                  !.runs = Append(@, [owner |-> m.session, taken |-> 0,
                                      finished |-> FALSE])]
        /\ Exchange(m, {Ask("start_ack", m.session)})
        /\ UNCHANGED <<callerVars, gatherVars>>

\* A stop after the end of a run may leave the run state as it was.
BoardStop ==
    \E m \in net :
        /\ m.kind = "stop"
        /\ \E state \in {"Stopped"} \cup ({board.state} \ {"InRun"}) :
              board' = [board EXCEPT !.state = state,
                                     !.stopped = @ \cup {m.session}]
        /\ Exchange(m, {Ask("stop_ack", m.session)})
        /\ UNCHANGED <<callerVars, gatherVars>>

BoardCheck ==
    \E m \in net :
        /\ m.kind = "check"
        /\ Exchange(m, {StateReply(m.session, board.state)})
        /\ UNCHANGED <<callerVars, gatherVars, board>>

\* A frame is taken and sent to the subscriber, if there is one.
BoardTakes ==
    LET run == board.runs[CurrentRun]
        f   == [run |-> CurrentRun, number |-> run.taken + 1]
    IN  /\ board.state = "InRun"
        /\ run.taken < MaxFrames
        /\ board' = [board EXCEPT !.runs[CurrentRun].taken = @ + 1,
                                  !.unacked = @ \cup {f}]
        /\ Send(IF board.subscriber = None THEN {}
                ELSE {StreamMsg("frame", board.subscriber, f)})
        /\ UNCHANGED <<callerVars, gatherVars>>

\* A frame that was not acknowledged may be sent again.
BoardResends ==
    /\ board.subscriber # None
    /\ board.resent < MaxResends
    /\ \E f \in board.unacked : Send({StreamMsg("frame", board.subscriber, f)})
    /\ board' = [board EXCEPT !.resent = @ + 1]
    /\ UNCHANGED <<callerVars, gatherVars>>

BoardAcked ==
    \E m \in net :
        /\ m.kind = "ack"
        /\ board' = [board EXCEPT !.unacked = @ \ {m.frame},
                                  !.acked = @ \cup {m.frame}]
        /\ Exchange(m, {})
        /\ UNCHANGED <<callerVars, gatherVars>>

\* The time limit of the run.
BoardFinishes ==
    /\ board.state = "InRun"
    /\ board' = [board EXCEPT !.state = "Finished",
                              !.runs[CurrentRun].finished = TRUE]
    /\ UNCHANGED <<callerVars, gatherVars, netVars>>

-----------------------------------------------------------------------------
(* Time *)

CallerTimed(s) == caller[s] \in {"sleep", "start", "stop"}
GatherTimed(s) == gather[s] \in {"recv", "check"}

\* Mutant: the end of a wait for frames may be noticed late.
ReadyCallers(s) ==
    \/ CallerTimed(s) /\ callerTimer[s] = 0
    \/ gather[s] = "spawned"

\* A task whose timer has run out, or that has not run yet.
Ready(s) ==
    \/ CallerTimed(s) /\ callerTimer[s] = 0
    \/ GatherTimed(s) /\ gatherTimer[s] = 0
    \/ gather[s] = "spawned"

Tick ==
    /\ \E s \in Sessions : CallerTimed(s) \/ GatherTimed(s)
    /\ \A s \in Sessions : ~ Ready(s)
    /\ callerTimer' = [s \in Sessions |-> IF CallerTimed(s) THEN callerTimer[s] - 1
                                          ELSE callerTimer[s]]
    /\ gatherTimer' = [s \in Sessions |-> IF GatherTimed(s) THEN gatherTimer[s] - 1
                                          ELSE gatherTimer[s]]
    /\ UNCHANGED <<caller, quiet, gather, frames, board, netVars>>

-----------------------------------------------------------------------------

Init ==
    /\ caller = [s \in Sessions |-> "new"]
    /\ callerTimer = [s \in Sessions |-> 0]
    /\ gather = [s \in Sessions |-> "none"]
    /\ gatherTimer = [s \in Sessions |-> 0]
    /\ frames = [s \in Sessions |-> {}]
    /\ board = [state |-> "Stopped", subscriber |-> None, unacked |-> {}, acked |-> {},
                runs |-> <<>>, stopped |-> {}, resent |-> 0]
    /\ net = {}
    /\ dups = 0
    /\ quiet = [s \in Sessions |-> {}]

CallerStep(s) ==
    \/ Start(s)
    \/ StartAcknowledged(s)
    \/ Stop(s)
    \/ StopAcknowledged(s)
    \/ CallerGivesUp(s)

GatherStep(s) ==
    \/ Subscribe(s)
    \/ Receive(s)
    \/ Check(s)
    \/ Checked(s)
    \/ CheckTimeout(s)

Faults(s) == CallerIOError(s) \/ Abort(s) \/ GatherFails(s)

BoardStep ==
    \/ BoardSubscribe
    \/ BoardStart
    \/ BoardStop
    \/ BoardCheck
    \/ BoardTakes
    \/ BoardResends
    \/ BoardAcked
    \/ BoardFinishes

AllOver ==
    /\ \A s \in Sessions : caller[s] \in Ended /\ gather[s] \notin Alive
    /\ UNCHANGED vars

Next ==
    \/ \E s \in Sessions :
          Begin(s) \/ BeginAborted(s) \/ CallerStep(s) \/ GatherStep(s) \/ Faults(s)
    \/ BoardStep
    \/ Tick
    \/ AllOver

Spec == Init /\ [][Next]_vars

\* Tasks that can run do, time passes, and a run ends at its time limit.
Fairness ==
    /\ \A s \in Sessions : WF_vars(CallerStep(s)) /\ WF_vars(GatherStep(s))
    /\ WF_vars(Tick)
    /\ WF_vars(BoardFinishes)

FairSpec == Spec /\ Fairness

-----------------------------------------------------------------------------
(* Properties *)

\* The variables keep their types; no task is left waiting past the end of its
\* timeout, where its timer would go below 0.
TypeOK ==
    /\ caller \in [Sessions -> CallerState]
    /\ callerTimer \in [Sessions -> Nat]
    /\ gather \in [Sessions -> GatherState]
    /\ gatherTimer \in [Sessions -> Nat]
    /\ frames \in [Sessions -> SUBSET Frame]
    /\ board \in [state : RunState, subscriber : Sessions \cup {None},
                  unacked : SUBSET Frame, acked : SUBSET Frame,
                  runs : Seq(Run), stopped : SUBSET Sessions, resent : 0 .. MaxResends]
    /\ net \subseteq Datagram
    /\ dups \in 0 .. MaxDups
    /\ quiet \in [Sessions -> SUBSET {"board", "tasks"}]

\* The caller and its gather task share the control socket and take whatever
\* datagram comes first, so they must never wait on it together.  Nothing but
\* the lengths of the timeouts keeps them apart: the gather task waits for at
\* least 500 ms before it asks, and by then the start request was answered or
\* has failed.
NoControlRace ==
    \A s \in Sessions : ~ (caller[s] \in {"start", "stop"} /\ gather[s] = "check")

\* A call returns Ok only after the board has executed its own start request
\* and a run has then gone on until its time limit.
OkRunFinished ==
    \A s \in Sessions :
        caller[s] = "ok" =>
            \E r \in 1 .. CurrentRun :
                /\ board.runs[r].owner = s
                /\ \E q \in r .. CurrentRun : board.runs[q].finished

\* Unless the network duplicates datagrams, a call returns Ok only after the
\* board has executed its stop request: no other reply can be left on the
\* control socket for stop_acquisition to take as the acknowledgement.
OkStopped ==
    \A s \in Sessions : caller[s] = "ok" /\ dups = 0 => s \in board.stopped

\* After a call that began with the board quiet and returns Ok (no datagram
\* having been duplicated), the board is out of its run and stays so until the
\* next call, dropped ones apart: nothing of the call can start it again.
OkLeavesBoardIdle ==
    \A s \in Sessions :
        /\ caller[s] = "ok" /\ "board" \in quiet[s] /\ dups = 0
        /\ \A r \in Sessions : r > s => caller[r] \in {"new", "dropped"}
        => board.state # "InRun" /\ \A m \in net : m.kind # "start"

\* A call that began with the board quiet returns frames of its own run only.
OnlyOwnFrames ==
    \A s \in Sessions :
        caller[s] = "ok" /\ "board" \in quiet[s] =>
            \A f \in frames[s] : f # StrayFrame => board.runs[f.run].owner = s

\* A call that began when every gather task had ended, and beside which none was
\* left by a call that was dropped, has returned, when the next one begins, every
\* frame of its own run the board was told had been received.  (Another task that
\* is alive may take frames of this run and acknowledge them, and they are lost.
\* The next call may be sent a frame of this one again.)
AckedFramesReturned ==
    \A s \in Sessions :
        /\ caller[s] = "ok" /\ "tasks" \in quiet[s]
        /\ \A r \in Sessions : r > s => caller[r] = "new"
        => {f \in board.acked : board.runs[f.run].owner = s} \subseteq frames[s]

\* Seen from outside, the calls and the runs behave as AcquireContract says: the
\* messages, the timeouts, the gather tasks left behind and the subscription are
\* hidden.
CallOf == [s \in Sessions |-> CASE caller[s] \in Active -> "running"
                                 [] caller[s] = "dropped" -> "failed"
                                 [] OTHER -> caller[s]]
RunsOf == [r \in 1 .. CurrentRun |-> [owner |-> board.runs[r].owner,
                                     over |-> board.runs[r].finished]]

Contract == INSTANCE AcquireContract WITH call <- CallOf, runs <- RunsOf

ImplementsContract == Contract!Spec

\* Every call returns, whatever the network loses.
CallsReturn == \A s \in Sessions : caller[s] \in Active ~> caller[s] \in Ended

\* Every gather task ends too, the detached ones included.
GathersEnd == \A s \in Sessions : gather[s] \in Alive ~> gather[s] \notin Alive
=============================================================================
