------------------------- MODULE AcquisitionProofs -------------------------
(***************************************************************************)
(* Proofs about Acquisition, for any number of calls, any timeouts and any *)
(* bounds that satisfy its assumptions: first that Ok means measured, then *)
(* that every step of the calls, of the tasks they leave behind, of the    *)
(* board and of the network is a step of AcquireContract or changes        *)
(* nothing it speaks of, then what a call leaves and returns.              *)
(***************************************************************************)
EXTENDS Acquisition, SequenceTheorems, TLAPS

\* The datagrams the code and the board send are datagrams.
LEMMA RecordTypes ==
    /\ \A s \in Sessions, k \in {"start", "stop", "check", "subscribe"} :
          Ask(k, s) \in Datagram
    /\ \A s \in Sessions, k \in {"start_ack", "stop_ack"} : Ask(k, s) \in Datagram
    /\ \A s \in Sessions, st \in RunState : StateReply(s, st) \in Datagram
    /\ \A s \in Sessions, k \in {"frame", "ack"}, f \in Frame :
          StreamMsg(k, s, f) \in Datagram
  BY DEF Ask, StateReply, StreamMsg, Datagram, Request, Reply, Stream

\* What a datagram carries, from its kind.
LEMMA DatagramFields ==
    ASSUME NEW m \in Datagram
    PROVE  /\ m.session \in Sessions
           /\ m.kind \in {"frame", "ack"} => m.frame \in Frame
           /\ m.kind = "state" => m.state \in RunState
  BY DEF Datagram, Request, Reply, Stream

-----------------------------------------------------------------------------
(* Types *)

\* TypeOK is not inductive by itself: that the run BoardTakes and BoardFinishes
\* update exists follows from the run state.
RunsMatchState ==
    /\ board.state \in {"InRun", "Finished"} => Len(board.runs) > 0
    /\ board.state = "Finished" => board.runs[CurrentRun].finished

TypeInv == TypeOK /\ RunsMatchState

CallerTypes ==
    /\ caller \in [Sessions -> CallerState]
    /\ callerTimer \in [Sessions -> Nat]
    /\ quiet \in [Sessions -> SUBSET {"board", "tasks"}]

GatherTypes ==
    /\ gather \in [Sessions -> GatherState]
    /\ gatherTimer \in [Sessions -> Nat]
    /\ frames \in [Sessions -> SUBSET Frame]

BoardType ==
    board \in [state : RunState, subscriber : Sessions \cup {None},
               unacked : SUBSET Frame, acked : SUBSET Frame,
               runs : Seq(Run), stopped : SUBSET Sessions,
               resent : 0 .. MaxResends]

NetTypes == net \subseteq Datagram /\ dups \in 0 .. MaxDups

\* The type invariant in the parts that the steps change together.
LEMMA TypeOKSplit == TypeOK <=> CallerTypes /\ GatherTypes /\ BoardType /\ NetTypes
  BY DEF TypeOK, CallerTypes, GatherTypes, BoardType, NetTypes

\* Sending and exchanging well-typed datagrams keeps the network well typed.
LEMMA SendTypes ==
    ASSUME NetTypes, NEW msgs \in SUBSET Datagram, Send(msgs)
    PROVE  NetTypes'
  BY DEF NetTypes, Send

\* So does taking one datagram and sending others in reply.
LEMMA ExchangeTypes ==
    ASSUME NetTypes, NEW m, NEW msgs \in SUBSET Datagram, Exchange(m, msgs)
    PROVE  NetTypes'
  BY AcquisitionAssumption DEF NetTypes, Exchange

\* A step of the caller of a session keeps the types.
LEMMA CallerStepTypes ==
    ASSUME TypeInv, NEW s \in Sessions,
           CallerStep(s) \/ CallerIOError(s) \/ Abort(s) \/ Begin(s) \/ BeginAborted(s)
    PROVE  TypeInv'
<1> USE AcquisitionAssumption DEF TypeInv
<1>1. CallerTypes /\ GatherTypes /\ BoardType /\ NetTypes
  BY TypeOKSplit
<1> USE DEF CallerTo, CallerWaits, GatherTo, GatherWaits, CallerState, Active, Ended
<1>2. CASE Begin(s) \/ BeginAborted(s)
  <2>1. CallerTypes' /\ GatherTypes'
    BY <1>1, <1>2 DEF Begin, BeginAborted, CallerTypes, GatherTypes, GatherState, Alive, Quiet
  <2>2. UNCHANGED <<board, netVars>>
    BY <1>2 DEF Begin, BeginAborted
  <2> QED
    BY <1>1, <2>1, <2>2, TypeOKSplit
       DEF netVars, TypeOK, CallerTypes, GatherTypes, BoardType, NetTypes,
           RunsMatchState, CurrentRun
<1>3. CASE ~ (Begin(s) \/ BeginAborted(s))
  <2>1. UNCHANGED <<quiet, gatherVars, board>>
    BY <1>3 DEF CallerStep, Start, StartAcknowledged, Stop, StopAcknowledged,
                CallerGivesUp, CallerIOError, Abort
  <2>2. CallerTypes'
    BY <1>1, <1>3, <2>1
       DEF CallerStep, Start, StartAcknowledged, Stop, StopAcknowledged,
           CallerGivesUp, CallerIOError, Abort, CallerTypes
  <2>3. NetTypes'
    <3>1. CASE Start(s)
      BY <1>1, <3>1, RecordTypes, SendTypes DEF Start
    <3>2. CASE Stop(s)
      BY <1>1, <3>2, RecordTypes, SendTypes DEF Stop
    <3>3. CASE StartAcknowledged(s) \/ StopAcknowledged(s)
      BY <1>1, <3>3, ExchangeTypes DEF StartAcknowledged, StopAcknowledged
    <3>4. CASE CallerGivesUp(s) \/ CallerIOError(s) \/ Abort(s)
      BY <1>1, <3>4 DEF CallerGivesUp, CallerIOError, Abort, netVars, NetTypes
    <3> QED
      BY <1>3, <3>1, <3>2, <3>3, <3>4 DEF CallerStep
  <2> QED
    BY <1>1, <2>1, <2>2, <2>3
       DEF TypeOK, CallerTypes, GatherTypes, BoardType, NetTypes, gatherVars,
           RunsMatchState, CurrentRun
<1> QED
  BY <1>2, <1>3

\* A step of a gather task keeps the types.
LEMMA GatherStepTypes ==
    ASSUME TypeInv, NEW s \in Sessions, GatherStep(s) \/ GatherFails(s)
    PROVE  TypeInv'
<1> USE AcquisitionAssumption DEF TypeInv
<1>1. CallerTypes /\ GatherTypes /\ BoardType /\ NetTypes
  BY TypeOKSplit
<1>2. UNCHANGED <<callerVars, board>>
  BY DEF GatherStep, Subscribe, Receive, Check, Checked, CheckTimeout, GatherFails
<1> USE DEF GatherTo, GatherWaits, GatherEnds, GatherState, Alive
<1>3. GatherTypes' /\ NetTypes'
  <2>1. CASE Subscribe(s) \/ Check(s)
    <3>1. NetTypes'
      BY <1>1, <2>1, RecordTypes, SendTypes DEF Subscribe, Check
    <3> QED
      BY <1>1, <2>1, <3>1 DEF Subscribe, Check, GatherTypes
  <2>2. CASE Receive(s)
    <3>1. PICK m \in AtStream(s) :
            /\ Exchange(m, IF m.frame # StrayFrame THEN {StreamMsg("ack", s, m.frame)}
                           ELSE {})
            /\ frames' = [frames EXCEPT ![s] = @ \cup {m.frame}]
      BY <2>2 DEF Receive
    <3>2. m.frame \in Frame
      BY <1>1, DatagramFields DEF AtStream, NetTypes
    <3>3. NetTypes'
      BY <1>1, <3>1, <3>2, RecordTypes, ExchangeTypes
    <3> QED
      BY <1>1, <2>2, <3>1, <3>2, <3>3 DEF Receive, GatherTypes
  <2>3. CASE Checked(s)
    <3>1. NetTypes'
      BY <1>1, <2>3, ExchangeTypes DEF Checked
    <3> QED
      BY <1>1, <2>3, <3>1 DEF Checked, GatherTypes
  <2>4. CASE CheckTimeout(s) \/ GatherFails(s)
    BY <1>1, <2>4 DEF CheckTimeout, GatherFails, GatherTypes, NetTypes, netVars
  <2> QED
    BY <2>1, <2>2, <2>3, <2>4 DEF GatherStep
<1> QED
  BY <1>1, <1>2, <1>3
     DEF TypeOK, CallerTypes, GatherTypes, BoardType, NetTypes, callerVars,
         RunsMatchState, CurrentRun

\* A step of the board keeps the types.
LEMMA BoardStepTypes ==
    ASSUME TypeInv, BoardStep
    PROVE  TypeInv'
<1> USE AcquisitionAssumption DEF TypeInv
<1>1. CallerTypes /\ GatherTypes /\ BoardType /\ NetTypes
  BY TypeOKSplit
<1>2. UNCHANGED <<callerVars, gatherVars>>
  BY DEF BoardStep, BoardSubscribe, BoardStart, BoardStop, BoardCheck, BoardTakes,
         BoardResends, BoardAcked, BoardFinishes
<1>3. BoardType' /\ NetTypes' /\ RunsMatchState'
  <2>1. CASE BoardSubscribe
    <3>1. PICK m \in net :
            /\ board' = [board EXCEPT !.subscriber = m.session]
            /\ \/ Exchange(m, {})
               \/ Exchange(m, {StreamMsg("frame", m.session, StrayFrame)})
      BY <2>1 DEF BoardSubscribe
    <3>2. m.session \in Sessions /\ StrayFrame \in Frame
      BY <1>1, DatagramFields DEF NetTypes, StrayFrame, Frame
    <3>3. NetTypes'
      BY <1>1, <3>1, <3>2, RecordTypes, ExchangeTypes
    <3> QED
      BY <1>1, <3>1, <3>2, <3>3 DEF BoardType, RunsMatchState, CurrentRun
  <2>2. CASE BoardStart
    <3>1. PICK m \in net, left \in {board.unacked, {}} :
            /\ board' = [board EXCEPT
                  !.state = "InRun",
                  !.unacked = left,
                  !.runs = Append(@, [owner |-> m.session, taken |-> 0,
                                      finished |-> FALSE])]
            /\ Exchange(m, {Ask("start_ack", m.session)})
      BY <2>2 DEF BoardStart
    <3>2. m.session \in Sessions
      BY <1>1, DatagramFields DEF NetTypes
    <3>3. NetTypes'
      BY <1>1, <3>1, <3>2, RecordTypes, ExchangeTypes
    <3>4. [owner |-> m.session, taken |-> 0, finished |-> FALSE] \in Run
      BY <3>2 DEF Run
    <3>5. board'.runs \in Seq(Run) /\ Len(board'.runs) > 0
      BY <1>1, <3>1, <3>4 DEF BoardType
    <3>6. BoardType'
      BY <1>1, <3>1, <3>5 DEF BoardType, RunState
    <3>7. board'.state = "InRun"
      BY <1>1, <3>1 DEF BoardType
    <3> QED
      BY <3>3, <3>5, <3>6, <3>7 DEF RunsMatchState, CurrentRun
  <2>3. CASE BoardStop
    <3>1. PICK m \in net, state \in {"Stopped"} \cup ({board.state} \ {"InRun"}) :
            /\ board' = [board EXCEPT !.state = state,
                                      !.stopped = @ \cup {m.session}]
            /\ Exchange(m, {Ask("stop_ack", m.session)})
      BY <2>3 DEF BoardStop
    <3>2. m.session \in Sessions
      BY <1>1, DatagramFields DEF NetTypes
    <3>3. NetTypes'
      BY <1>1, <3>1, <3>2, RecordTypes, ExchangeTypes
    <3> QED
      BY <1>1, <3>1, <3>2, <3>3 DEF BoardType, RunsMatchState, CurrentRun, RunState
  <2>4. CASE BoardCheck
    <3>1. PICK m \in net : Exchange(m, {StateReply(m.session, board.state)})
      BY <2>4 DEF BoardCheck
    <3>2. m.session \in Sessions /\ board.state \in RunState
      BY <1>1, DatagramFields DEF NetTypes, BoardType
    <3>3. NetTypes'
      BY <1>1, <3>1, <3>2, RecordTypes, ExchangeTypes
    <3> QED
      BY <1>1, <2>4, <3>3 DEF BoardCheck, BoardType, RunsMatchState, CurrentRun
  <2>5. CASE BoardTakes
    <3> DEFINE run == board.runs[CurrentRun]
               f   == [run |-> CurrentRun, number |-> run.taken + 1]
    <3>1. CurrentRun \in 1 .. Len(board.runs) /\ run \in Run
      BY <1>1, <2>5 DEF BoardTakes, BoardType, RunsMatchState, CurrentRun
    <3>2. f \in Frame
      BY <3>1 DEF Run, Frame
    <3>3. NetTypes'
      BY <1>1, <2>5, <3>2, RecordTypes, SendTypes DEF BoardTakes, BoardType
    <3>4. /\ board' = [board EXCEPT !.runs[CurrentRun].taken = @ + 1,
                                    !.unacked = @ \cup {f}]
          /\ board.state = "InRun"
      BY <2>5 DEF BoardTakes
    <3>5. board'.runs = [board.runs EXCEPT ![CurrentRun] =
                            [run EXCEPT !.taken = @ + 1]]
      BY <1>1, <3>1, <3>4 DEF BoardType
    <3>6. [run EXCEPT !.taken = @ + 1] \in Run
      <4>1. run.taken + 1 \in Nat
        BY <3>1 DEF Run
      <4> QED
        BY <3>1, <4>1 DEF Run
    <3>7. board'.runs \in Seq(Run) /\ Len(board'.runs) = Len(board.runs)
      BY <1>1, <3>1, <3>5, <3>6 DEF BoardType
    <3>8. BoardType'
      BY <1>1, <3>2, <3>4, <3>7 DEF BoardType
    <3> QED
      BY <1>1, <3>1, <3>3, <3>4, <3>7, <3>8 DEF BoardType, RunsMatchState, CurrentRun
  <2>6. CASE BoardResends
    <3>1. PICK f \in board.unacked : Send({StreamMsg("frame", board.subscriber, f)})
      BY <2>6 DEF BoardResends
    <3>2. f \in Frame /\ board.subscriber \in Sessions
      BY <1>1, <2>6 DEF BoardResends, BoardType
    <3>3. NetTypes'
      BY <1>1, <3>1, <3>2, RecordTypes, SendTypes
    <3>4. board.resent + 1 \in 0 .. MaxResends
      BY <1>1, <2>6 DEF BoardResends, BoardType
    <3>5. board' = [board EXCEPT !.resent = @ + 1]
      BY <2>6 DEF BoardResends
    <3> QED
      BY <1>1, <3>3, <3>4, <3>5 DEF BoardType, RunsMatchState, CurrentRun
  <2>7. CASE BoardAcked
    <3>1. PICK m \in net :
            /\ m.kind = "ack"
            /\ board' = [board EXCEPT !.unacked = @ \ {m.frame},
                                      !.acked = @ \cup {m.frame}]
            /\ Exchange(m, {})
      BY <2>7 DEF BoardAcked
    <3>2. m.frame \in Frame
      BY <1>1, <3>1, DatagramFields DEF NetTypes
    <3>3. NetTypes'
      BY <1>1, <3>1, ExchangeTypes
    <3> QED
      BY <1>1, <3>1, <3>2, <3>3 DEF BoardType, RunsMatchState, CurrentRun
  <2>8. CASE BoardFinishes
    <3> DEFINE run == board.runs[CurrentRun]
    <3>1. CurrentRun \in 1 .. Len(board.runs) /\ run \in Run
      BY <1>1, <2>8 DEF BoardFinishes, BoardType, RunsMatchState, CurrentRun
    <3>2. board' = [board EXCEPT !.state = "Finished",
                                 !.runs[CurrentRun].finished = TRUE]
      BY <2>8 DEF BoardFinishes
    <3>3. board'.runs = [board.runs EXCEPT ![CurrentRun] =
                            [run EXCEPT !.finished = TRUE]]
      BY <1>1, <3>1, <3>2 DEF BoardType
    <3>4. [run EXCEPT !.finished = TRUE] \in Run
      BY <3>1 DEF Run
    <3>5. /\ board'.runs \in Seq(Run) /\ Len(board'.runs) = Len(board.runs)
          /\ board'.runs[CurrentRun].finished
      BY <1>1, <3>1, <3>3, <3>4 DEF BoardType, Run
    <3>6. BoardType'
      BY <1>1, <3>2, <3>5 DEF BoardType, RunState
    <3> QED
      BY <1>1, <2>8, <3>1, <3>5, <3>6
         DEF BoardFinishes, netVars, NetTypes, RunsMatchState, CurrentRun
  <2> QED
    BY <2>1, <2>2, <2>3, <2>4, <2>5, <2>6, <2>7, <2>8 DEF BoardStep
<1> QED
  BY <1>1, <1>2, <1>3
     DEF TypeOK, CallerTypes, GatherTypes, BoardType, NetTypes, callerVars, gatherVars

\* Time passing keeps the types: no timer goes below 0.
LEMMA TickTypes ==
    ASSUME TypeInv, Tick
    PROVE  TypeInv'
<1>1. \A s \in Sessions : /\ callerTimer[s] \in Nat /\ gatherTimer[s] \in Nat
                          /\ CallerTimed(s) => callerTimer[s] # 0
                          /\ GatherTimed(s) => gatherTimer[s] # 0
  BY DEF Tick, Ready, TypeInv, TypeOK
<1>2. callerTimer' \in [Sessions -> Nat] /\ gatherTimer' \in [Sessions -> Nat]
  BY <1>1 DEF Tick
<1>3. UNCHANGED <<caller, quiet, gather, frames, board, net, dups>>
  BY DEF Tick, netVars
<1> QED
  BY <1>2, <1>3 DEF TypeInv, TypeOK, RunsMatchState, CurrentRun

\* The types hold before the first call.
LEMMA InitTypes == Init => TypeInv
  BY AcquisitionAssumption
     DEF Init, TypeInv, TypeOK, RunsMatchState, CurrentRun, CallerState, GatherState,
         RunState, None

\* A step of a call or of its gather task.
SessionStep(s) ==
    Begin(s) \/ BeginAborted(s) \/ CallerStep(s) \/ GatherStep(s) \/ Faults(s)

\* Every step of any task, of the board or of time keeps the types.
LEMMA TypeStep == TypeInv /\ [Next]_vars => TypeInv'
<1> SUFFICES ASSUME TypeInv, [Next]_vars
             PROVE  TypeInv'
  OBVIOUS
<1>1. CASE \E s \in Sessions : SessionStep(s)
  BY <1>1, CallerStepTypes, GatherStepTypes DEF SessionStep, Faults
<1>2. CASE BoardStep
  BY <1>2, BoardStepTypes
<1>3. CASE Tick
  BY <1>3, TickTypes
<1>4. CASE AllOver \/ UNCHANGED vars
  BY <1>4 DEF AllOver, vars, TypeInv, TypeOK, RunsMatchState, CurrentRun
<1> QED
  BY <1>1, <1>2, <1>3, <1>4 DEF Next, SessionStep

\* The types, and the runs that match the run state, are an invariant.
LEMMA TypeInvHolds == Spec => []TypeInv
  BY InitTypes, TypeStep, PTL DEF Spec

\* The variables keep their types: in particular the board never takes a frame
\* of, or finishes, a run that does not exist.
THEOREM TypeCorrect == Spec => []TypeOK
  BY TypeInvHolds, PTL DEF TypeInv

-----------------------------------------------------------------------------
(* The caller and its gather task never wait on the control socket together *)

\* The ends of calls that returned no frames.
Abandoned == {"failed", "dropped"}

\* While the caller sleeps, and then waits for the start to be acknowledged, the
\* gather task is at least that long from its first question to the board.
Apart(s) ==
    /\ caller[s] = "new" => gather[s] = "none"
    /\ caller[s] = "sleep" =>
          /\ callerTimer[s] <= SleepTicks
          /\ gather[s] \in {"spawned", "recv", "failed"}
          /\ gather[s] = "recv" => gatherTimer[s] > callerTimer[s] + ControlTicks
    /\ caller[s] = "start" =>
          /\ callerTimer[s] <= ControlTicks
          /\ gather[s] \in {"recv", "failed"}
          /\ gather[s] = "recv" => gatherTimer[s] > callerTimer[s]
    /\ caller[s] = "join" => gather[s] \in {"recv", "check", "finished", "failed"}
    /\ caller[s] \in {"stop", "ok"} => gather[s] = "finished"
    /\ gather[s] = "spawned" =>
          \/ caller[s] = "sleep" /\ callerTimer[s] = SleepTicks
          \/ caller[s] \in Abandoned

ApartInv == TypeInv /\ \A s \in Sessions : Apart(s)

\* What a step does to the sessions other than its own.
LEMMA OthersUnchanged ==
    ASSUME TypeInv, NEW s \in Sessions, NEW r \in Sessions, r # s, SessionStep(s)
    PROVE  /\ caller'[r] = caller[r] /\ callerTimer'[r] = callerTimer[r]
           /\ gather'[r] = gather[r] /\ gatherTimer'[r] = gatherTimer[r]
<1> USE DEF TypeInv, TypeOK, CallerTo, CallerWaits, GatherTo, GatherWaits, GatherEnds,
            callerVars, gatherVars
<1>1. CASE Begin(s) \/ BeginAborted(s)
  BY <1>1 DEF Begin, BeginAborted
<1>2. CASE CallerStep(s)
  BY <1>2 DEF CallerStep, Start, StartAcknowledged, Stop, StopAcknowledged, CallerGivesUp
<1>3. CASE GatherStep(s)
  BY <1>3 DEF GatherStep, Subscribe, Receive, Check, Checked, CheckTimeout
<1>4. CASE Faults(s)
  BY <1>4 DEF Faults, CallerIOError, Abort, GatherFails
<1> QED
  BY <1>1, <1>2, <1>3, <1>4 DEF SessionStep

\* A step of a session keeps it apart.
LEMMA SessionStepApart ==
    ASSUME ApartInv, NEW s \in Sessions, SessionStep(s)
    PROVE  Apart(s)'
<1> USE AcquisitionAssumption DEF ApartInv, TypeInv, TypeOK, Apart, Abandoned, CallerTo,
            CallerWaits, GatherTo, GatherWaits, GatherEnds, callerVars, gatherVars
<1>1. CASE Begin(s)
  BY <1>1 DEF Begin
<1>12. CASE BeginAborted(s)
  <2>1. caller'[s] = "dropped"
    BY <1>12 DEF BeginAborted
  <2>. QED BY ONLY <2>1 DEF Apart, Abandoned
<1>2. CASE Start(s)
  <2>1. /\ caller'[s] = "start" /\ callerTimer'[s] = ControlTicks
        /\ gather' = gather /\ gatherTimer' = gatherTimer
    BY <1>2 DEF Start
  <2>2. gather[s] \in {"recv", "failed"}
    BY <1>2 DEF Start
  <2>3. gather[s] = "recv" => gatherTimer[s] > ControlTicks
    BY <1>2 DEF Start
  <2>. QED BY ONLY AcquisitionAssumption, <2>1, <2>2, <2>3 DEF Apart
<1>3. CASE StartAcknowledged(s)
  BY <1>3 DEF StartAcknowledged
<1>4. CASE Stop(s)
  BY <1>4 DEF Stop
<1>5. CASE StopAcknowledged(s)
  BY <1>5 DEF StopAcknowledged
<1>6. CASE CallerGivesUp(s) \/ CallerIOError(s) \/ Abort(s)
  BY <1>6 DEF CallerGivesUp, CallerIOError, Abort
<1>7. CASE Subscribe(s)
  BY <1>7 DEF Subscribe
<1>8. CASE Receive(s)
  BY <1>8 DEF Receive
<1>9. CASE Check(s)
  BY <1>9 DEF Check
<1>10. CASE Checked(s)
  BY <1>10 DEF Checked
<1>11. CASE CheckTimeout(s) \/ GatherFails(s)
  BY <1>11 DEF CheckTimeout, GatherFails, Alive
<1> QED
  BY <1>1, <1>2, <1>3, <1>4, <1>5, <1>6, <1>7, <1>8, <1>9, <1>10, <1>11, <1>12
     DEF SessionStep, CallerStep, GatherStep, Faults

\* Time passes for both at once.
LEMMA TickApart ==
    ASSUME ApartInv, Tick, NEW s \in Sessions
    PROVE  Apart(s)'
<1>1. /\ caller' = caller /\ gather' = gather
      /\ callerTimer'[s] = IF CallerTimed(s) THEN callerTimer[s] - 1
                           ELSE callerTimer[s]
      /\ gatherTimer'[s] = IF GatherTimed(s) THEN gatherTimer[s] - 1
                           ELSE gatherTimer[s]
      /\ ~ Ready(s)
  BY DEF Tick
<1>2. callerTimer[s] \in Nat /\ gatherTimer[s] \in Nat
  BY DEF ApartInv, TypeInv, TypeOK
<1> QED
  BY <1>1, <1>2, AcquisitionAssumption
     DEF ApartInv, Apart, Ready, CallerTimed, GatherTimed

\* Every step keeps the caller and the gather task of a session apart.
LEMMA ApartStep == ApartInv /\ [Next]_vars => ApartInv'
<1> SUFFICES ASSUME ApartInv, [Next]_vars
             PROVE  ApartInv'
  OBVIOUS
<1>1. TypeInv'
  BY TypeStep DEF ApartInv
<1>2. ASSUME NEW r \in Sessions
      PROVE  Apart(r)'
  <2>1. CASE \E s \in Sessions : SessionStep(s)
    <3>1. PICK s \in Sessions : SessionStep(s)
      BY <2>1
    <3>2. CASE r = s
      BY <3>1, <3>2, SessionStepApart
    <3>3. CASE r # s
      <4>1. /\ caller'[r] = caller[r] /\ callerTimer'[r] = callerTimer[r]
            /\ gather'[r] = gather[r] /\ gatherTimer'[r] = gatherTimer[r]
        BY <3>1, <3>3, OthersUnchanged DEF ApartInv
      <4> QED
        BY <4>1 DEF ApartInv, Apart
    <3> QED
      BY <3>2, <3>3
  <2>2. CASE BoardStep
    <3>1. UNCHANGED <<callerVars, gatherVars>>
      BY <2>2 DEF BoardStep, BoardSubscribe, BoardStart, BoardStop, BoardCheck,
                  BoardTakes, BoardResends, BoardAcked, BoardFinishes
    <3> QED
      BY <3>1 DEF callerVars, gatherVars, ApartInv, Apart
  <2>3. CASE Tick
    BY <2>3, TickApart
  <2>4. CASE AllOver \/ UNCHANGED vars
    BY <2>4 DEF AllOver, vars, ApartInv, Apart
  <2> QED
    BY <2>1, <2>2, <2>3, <2>4 DEF Next, SessionStep
<1> QED
  BY <1>1, <1>2 DEF ApartInv

\* Caller and gather task are apart in every behaviour.
LEMMA ApartCorrect == Spec => []ApartInv
<1>1. Init => ApartInv
  BY InitTypes DEF Init, ApartInv, Apart
<1> QED
  BY <1>1, ApartStep, PTL DEF Spec

\* However long the timeouts are, as long as the stream timeout exceeds the sleep
\* and the control timeout together, a caller that waits for its start or stop
\* to be acknowledged never has a run state taken from it, or given to it, by
\* its gather task: the two do not wait on the control socket together.
THEOREM ControlSocketNotShared == Spec => []NoControlRace
<1>1. ApartInv => NoControlRace
  BY DEF ApartInv, Apart, NoControlRace
<1> QED
  BY <1>1, ApartCorrect, PTL

-----------------------------------------------------------------------------
(* A call returns Ok only after a run of its own *)

Started(s) == \E r \in 1 .. CurrentRun : board.runs[r].owner = s

FinishedAfterStart(s) ==
    \E r \in 1 .. CurrentRun :
        board.runs[r].owner = s /\ \E q \in r .. CurrentRun : board.runs[q].finished

\* What a datagram on its way tells of the session it belongs to.
Tells(m) ==
    /\ m.kind = "start_ack" => Started(m.session)
    /\ m.kind \in {"check", "state"} => caller[m.session] \notin {"new", "sleep", "start"}
    /\ m.kind \in {"stop", "stop_ack"} => caller[m.session] \in {"stop", "ok"} \cup Abandoned
    /\ m.kind = "state" /\ m.state = "Finished" /\ caller[m.session] \notin Abandoned =>
          FinishedAfterStart(m.session)

RunInv ==
    /\ ApartInv
    /\ \A m \in net : Tells(m)
    /\ \A s \in Sessions :
          /\ caller[s] \in {"join", "stop", "ok"} => Started(s)
          /\ gather[s] = "finished" /\ caller[s] \notin Abandoned => FinishedAfterStart(s)

\* Runs are only added, and what they record of their owner and end stays.
RunsGrow ==
    /\ CurrentRun \in Nat /\ CurrentRun' \in Nat /\ CurrentRun <= CurrentRun'
    /\ \A r \in 1 .. CurrentRun :
          /\ board'.runs[r].owner = board.runs[r].owner
          /\ board.runs[r].finished => board'.runs[r].finished

\* No step takes a run back, changes whose it is or makes it unfinished.
LEMMA RunsOnlyGrow ==
    ASSUME TypeInv, [Next]_vars
    PROVE  RunsGrow
<1> USE DEF RunsGrow, CurrentRun
<1>1. /\ board.runs \in Seq(Run) /\ Len(board.runs) \in Nat
      /\ board \in [state : RunState, subscriber : Sessions \cup {None},
                    unacked : SUBSET Frame, acked : SUBSET Frame,
                    runs : Seq(Run), stopped : SUBSET Sessions,
                    resent : 0 .. MaxResends]
  BY DEF TypeInv, TypeOK
<1>2. CASE board' = board \/ board'.runs = board.runs
  BY <1>1, <1>2
<1>3. CASE BoardStart
  <2>1. PICK m \in net :
          board'.runs = Append(board.runs, [owner |-> m.session, taken |-> 0,
                                            finished |-> FALSE])
    BY <1>1, <1>3 DEF BoardStart
  <2> QED
    BY <1>1, <2>1
<1>4. CASE BoardTakes
  <2>1. board'.runs = [board.runs EXCEPT ![CurrentRun] =
                          [board.runs[CurrentRun] EXCEPT !.taken = @ + 1]]
    BY <1>1, <1>4 DEF BoardTakes
  <2>2. \A r \in 1 .. CurrentRun : board.runs[r] \in Run
    BY <1>1
  <2> QED
    BY <1>1, <2>1, <2>2 DEF Run
<1>5. CASE BoardFinishes
  <2>1. board'.runs = [board.runs EXCEPT ![CurrentRun] =
                          [board.runs[CurrentRun] EXCEPT !.finished = TRUE]]
    BY <1>1, <1>5 DEF BoardFinishes
  <2>2. \A r \in 1 .. CurrentRun : board.runs[r] \in Run
    BY <1>1
  <2> QED
    BY <1>1, <2>1, <2>2 DEF Run
<1>6. CASE BoardSubscribe \/ BoardStop \/ BoardCheck \/ BoardResends \/ BoardAcked
  BY <1>1, <1>2, <1>6
     DEF BoardSubscribe, BoardStop, BoardCheck, BoardResends, BoardAcked
<1>7. CASE \E s \in Sessions : SessionStep(s)
  BY <1>2, <1>7
     DEF SessionStep, Begin, BeginAborted, CallerStep, Start, StartAcknowledged, Stop, StopAcknowledged,
         CallerGivesUp, CallerIOError, Abort, GatherStep, Subscribe, Receive, Check,
         Checked, CheckTimeout, GatherFails, Faults
<1>8. CASE Tick \/ AllOver \/ UNCHANGED vars
  BY <1>2, <1>8 DEF Tick, AllOver, vars
<1> QED
  BY <1>3, <1>4, <1>5, <1>6, <1>7, <1>8 DEF Next, SessionStep, BoardStep

\* What was once executed or finished stays so as the runs grow.
LEMMA GrowingKeeps ==
    ASSUME RunsGrow, NEW s
    PROVE  /\ Started(s) => Started(s)'
           /\ FinishedAfterStart(s) => FinishedAfterStart(s)'
  BY DEF RunsGrow, Started, FinishedAfterStart

\* A call only goes forward.
CallerForward(s) ==
    /\ caller[s] \notin {"new", "sleep", "start"} =>
          caller'[s] \notin {"new", "sleep", "start"}
    /\ caller[s] \in {"stop", "ok"} \cup Abandoned =>
          caller'[s] \in {"stop", "ok"} \cup Abandoned
    /\ caller[s] \in Abandoned => caller'[s] \in Abandoned

\* No step takes a caller back behind its start, out of its end, or from failure.
LEMMA CallersGoForward ==
    ASSUME TypeInv, [Next]_vars, NEW s \in Sessions
    PROVE  CallerForward(s)
<1> USE DEF CallerForward, Abandoned, TypeInv, TypeOK, CallerTo
<1>1. CASE \E r \in Sessions : Begin(r) \/ BeginAborted(r) \/ CallerStep(r) \/ Faults(r)
  BY <1>1
     DEF Begin, BeginAborted, CallerStep, Start, StartAcknowledged, Stop, StopAcknowledged,
         CallerGivesUp, CallerIOError, Abort, Faults, GatherFails, callerVars, Active
<1>2. CASE (\E r \in Sessions : GatherStep(r)) \/ BoardStep \/ Tick \/ AllOver
           \/ UNCHANGED vars
  <2>1. caller' = caller
    BY <1>2 DEF GatherStep, Subscribe, Receive, Check, Checked, CheckTimeout, BoardStep,
         BoardSubscribe, BoardStart, BoardStop, BoardCheck, BoardTakes, BoardResends,
         BoardAcked, BoardFinishes, Tick, AllOver, vars, callerVars
  <2> QED
    BY <2>1
<1> QED
  BY <1>1, <1>2 DEF Next

\* So what a datagram tells stays true while it is on its way.
LEMMA TellsStable ==
    ASSUME RunInv, [Next]_vars, NEW m \in net
    PROVE  Tells(m)'
<1>1. m.session \in Sessions
  BY DatagramFields DEF RunInv, ApartInv, TypeInv, TypeOK
<1>2. CallerForward(m.session)
  BY <1>1, CallersGoForward DEF RunInv, ApartInv
<1>3. RunsGrow
  BY RunsOnlyGrow DEF RunInv, ApartInv
<1> QED
  BY <1>2, <1>3, GrowingKeeps DEF RunInv, Tells, CallerForward, Abandoned

\* What the datagrams a step sends tell is true when they are sent.
LEMMA SentTells ==
    ASSUME RunInv, [Next]_vars, NEW m \in net', m \notin net
    PROVE  Tells(m)'
<1> USE DEF RunInv, ApartInv, TypeInv, TypeOK
<1>1. CASE \E s \in Sessions : Begin(s) \/ BeginAborted(s) \/ CallerStep(s) \/ Faults(s)
  <2>1. PICK s \in Sessions : Begin(s) \/ BeginAborted(s) \/ CallerStep(s) \/ Faults(s)
    BY <1>1
  <2>2. \/ Start(s) /\ m = Ask("start", s)
        \/ Stop(s) /\ m = Ask("stop", s)
    BY <2>1
       DEF Begin, BeginAborted, CallerStep, Start, StartAcknowledged, Stop, StopAcknowledged,
           CallerGivesUp, CallerIOError, Abort, Faults, GatherFails, netVars, Send,
           Exchange
  <2> QED
    BY <2>2 DEF Start, Stop, CallerTo, Ask, Tells
<1>2. CASE \E s \in Sessions : GatherStep(s)
  <2>1. PICK s \in Sessions : GatherStep(s)
    BY <1>2
  <2>2. \/ m = Ask("subscribe", s)
        \/ \E f : m = StreamMsg("ack", s, f)
        \/ Check(s) /\ m = Ask("check", s)
    BY <2>1
       DEF GatherStep, Subscribe, Receive, Check, Checked, CheckTimeout, netVars, Send,
           Exchange
  <2>3. CASE m = Ask("subscribe", s) \/ \E f : m = StreamMsg("ack", s, f)
    BY <2>3 DEF Ask, StreamMsg, Tells
  <2>4. CASE Check(s) /\ m = Ask("check", s)
    <3>1. gather[s] = "recv" /\ gatherTimer[s] = 0 /\ caller' = caller
      BY <2>4 DEF Check, callerVars
    <3>2. caller[s] \notin {"new", "sleep", "start"}
      BY <3>1, AcquisitionAssumption DEF Apart
    <3> QED
      BY <2>4, <3>1, <3>2 DEF Ask, Tells
  <2> QED
    BY <2>2, <2>3, <2>4
<1>3. CASE BoardSubscribe \/ BoardTakes \/ BoardResends \/ BoardAcked \/ BoardFinishes
  <2>1. CASE BoardSubscribe \/ BoardAcked
    <3>1. \E q : m = StreamMsg("frame", q, StrayFrame)
      <4>1. CASE BoardSubscribe
        BY <4>1 DEF BoardSubscribe, Exchange
      <4>2. CASE BoardAcked
        BY <4>2 DEF BoardAcked, Exchange
      <4>. QED BY <2>1, <4>1, <4>2
    <3> QED
      BY <3>1 DEF StreamMsg, Tells
  <2>2. CASE BoardTakes
    <3>1. \E f : m = StreamMsg("frame", board.subscriber, f)
      BY <2>2 DEF BoardTakes, Send
    <3> QED
      BY <3>1 DEF StreamMsg, Tells
  <2>3. CASE BoardResends \/ BoardFinishes
    <3>1. \E f : m = StreamMsg("frame", board.subscriber, f)
      BY <2>3 DEF BoardResends, BoardFinishes, Send, netVars
    <3> QED
      BY <3>1 DEF StreamMsg, Tells
  <2> QED
    BY <1>3, <2>1, <2>2, <2>3
<1>4. CASE BoardStart
  <2>1. PICK q \in net :
          /\ board'.runs = Append(board.runs, [owner |-> q.session, taken |-> 0,
                                               finished |-> FALSE])
          /\ Exchange(q, {Ask("start_ack", q.session)})
    BY <1>4 DEF BoardStart
  <2>2. m = Ask("start_ack", q.session)
    BY <2>1 DEF Exchange
  <2>3. board'.runs[CurrentRun'].owner = q.session /\ CurrentRun' \in 1 .. CurrentRun'
    BY <2>1 DEF CurrentRun
  <2> QED
    BY <2>2, <2>3 DEF Ask, Tells, Started
<1>5. CASE BoardStop
  <2>1. PICK q \in net :
          q.kind = "stop" /\ Exchange(q, {Ask("stop_ack", q.session)})
    BY <1>5 DEF BoardStop
  <2>2. m = Ask("stop_ack", q.session) /\ Tells(q)' /\ q.kind = "stop"
    BY <2>1, TellsStable DEF Exchange
  <2> QED
    BY <2>2 DEF Ask, Tells
<1>6. CASE BoardCheck
  <2>1. PICK q \in net :
          q.kind = "check" /\ Exchange(q, {StateReply(q.session, board.state)})
    BY <1>6 DEF BoardCheck
  <2>2. m = StateReply(q.session, board.state)
    BY <2>1 DEF Exchange
  <2>3. q.session \in Sessions /\ Tells(q)
    BY <2>1, DatagramFields
  <2>4. board' = board /\ caller' = caller
    BY <1>6 DEF BoardCheck, callerVars
  <2>5. caller[q.session] \notin {"new", "sleep", "start"}
    BY <2>1, <2>3 DEF Tells
  <2>6. caller[q.session] \notin Abandoned => Started(q.session)
    BY <2>3, <2>5 DEF Abandoned, CallerState, Active, Ended
  <2>7. board.state = "Finished" /\ caller[q.session] \notin Abandoned =>
          FinishedAfterStart(q.session)
    BY <2>6 DEF RunsMatchState, Started, FinishedAfterStart, CurrentRun
  <2> QED
    BY <2>2, <2>4, <2>5, <2>7 DEF StateReply, Tells, FinishedAfterStart, CurrentRun
<1>7. CASE Tick \/ AllOver \/ UNCHANGED vars
  BY <1>7 DEF Tick, AllOver, vars, netVars
<1> QED
  BY <1>1, <1>2, <1>3, <1>4, <1>5, <1>6, <1>7 DEF Next, BoardStep

\* A caller that goes on to join has had its start executed; a gather task that
\* returns has seen a run finished since.
LEMMA ProgressJustified ==
    ASSUME RunInv, [Next]_vars, NEW s \in Sessions
    PROVE  /\ caller'[s] \in {"join", "stop", "ok"} => Started(s)'
           /\ gather'[s] = "finished" /\ caller'[s] \notin Abandoned => FinishedAfterStart(s)'
<1> USE DEF RunInv, ApartInv, TypeInv, TypeOK
<1>1. RunsGrow /\ CallerForward(s)
  BY RunsOnlyGrow, CallersGoForward
<1>2. ASSUME caller'[s] \in {"join", "stop", "ok"}
      PROVE  Started(s)'
  <2>1. CASE caller[s] \in {"join", "stop", "ok"}
    BY <1>1, <2>1, GrowingKeeps
  <2>2. CASE caller[s] \notin {"join", "stop", "ok"}
    <3>1. StartAcknowledged(s)
      <4>1. \E r \in Sessions : Begin(r) \/ BeginAborted(r) \/ CallerStep(r) \/ Faults(r)
        BY <1>2, <2>2
           DEF Next, GatherStep, Subscribe, Receive, Check, Checked, CheckTimeout,
               BoardStep, BoardSubscribe, BoardStart, BoardStop, BoardCheck, BoardTakes,
               BoardResends, BoardAcked, BoardFinishes, Tick, AllOver, vars, callerVars
      <4>2. PICK r \in Sessions : Begin(r) \/ BeginAborted(r) \/ CallerStep(r) \/ Faults(r)
        BY <4>1
      <4>3. r = s
        BY <1>2, <2>2, <4>2, OthersUnchanged DEF SessionStep
      <4> QED
        BY <1>2, <2>2, <4>2, <4>3
           DEF Begin, BeginAborted, CallerStep, Start, StartAcknowledged, Stop, StopAcknowledged,
               CallerGivesUp, CallerIOError, Abort, Faults, GatherFails, callerVars,
               CallerTo
    <3>2. PICK m \in AtControl(s) : TRUE
      BY <3>1 DEF StartAcknowledged
    <3>3. m \in net /\ m.session = s /\ Tells(m) /\ caller[s] = "start"
      BY <3>1, <3>2 DEF AtControl, StartAcknowledged
    <3>4. Started(s)
      BY <3>2, <3>3 DEF AtControl, Tells, Abandoned
    <3> QED
      BY <1>1, <3>4, GrowingKeeps
  <2> QED
    BY <2>1, <2>2
<1>3. ASSUME gather'[s] = "finished", caller'[s] \notin Abandoned
      PROVE  FinishedAfterStart(s)'
  <2>1. caller[s] \notin Abandoned
    BY <1>1, <1>3 DEF CallerForward
  <2>2. CASE gather[s] = "finished"
    BY <1>1, <2>1, <2>2, GrowingKeeps
  <2>3. CASE gather[s] # "finished"
    <3>1. Checked(s)
      <4>1. \E r \in Sessions : Begin(r) \/ BeginAborted(r) \/ GatherStep(r) \/ GatherFails(r)
        BY <1>3, <2>3
           DEF Next, CallerStep, Start, StartAcknowledged, Stop, StopAcknowledged,
               CallerGivesUp, CallerIOError, Abort, Faults,
               BoardStep, BoardSubscribe, BoardStart, BoardStop, BoardCheck, BoardTakes,
               BoardResends, BoardAcked, BoardFinishes, Tick, AllOver, vars, gatherVars
      <4>2. PICK r \in Sessions : Begin(r) \/ BeginAborted(r) \/ GatherStep(r) \/ GatherFails(r)
        BY <4>1
      <4>3. r = s
        BY <1>3, <2>3, <4>2, OthersUnchanged DEF SessionStep, Faults
      <4> QED
        BY <1>3, <2>3, <4>2, <4>3
           DEF Begin, BeginAborted, GatherStep, Subscribe, Receive, Check, Checked, CheckTimeout,
               GatherFails, GatherTo, GatherEnds
    <3>2. PICK m \in AtControl(s) : m.kind = "state" /\ m.state = "Finished"
      BY <1>3, <2>3, <3>1 DEF Checked, GatherTo, GatherEnds
    <3>3. m \in net /\ m.session = s /\ Tells(m)
      BY <3>2 DEF AtControl
    <3>4. FinishedAfterStart(s)
      BY <2>1, <3>2, <3>3 DEF Tells
    <3> QED
      BY <1>1, <3>4, GrowingKeeps
  <2> QED
    BY <2>2, <2>3
<1> QED
  BY <1>2, <1>3

\* Every step keeps what datagrams and tasks tell of the runs true.
LEMMA RunStep == RunInv /\ [Next]_vars => RunInv'
<1> SUFFICES ASSUME RunInv, [Next]_vars
             PROVE  RunInv'
  OBVIOUS
<1>1. ApartInv'
  BY ApartStep DEF RunInv
<1>2. \A m \in net' : Tells(m)'
  BY TellsStable, SentTells
<1>3. \A s \in Sessions :
        /\ caller'[s] \in {"join", "stop", "ok"} => Started(s)'
        /\ gather'[s] = "finished" /\ caller'[s] \notin Abandoned => FinishedAfterStart(s)'
  BY ProgressJustified
<1> QED
  BY <1>1, <1>2, <1>3 DEF RunInv

\* When acquire_frames returns Ok, the board has executed the start request of
\* this very call and a run has gone on to its time limit since, whatever the
\* network delays, loses or repeats and whatever earlier calls have left behind.
THEOREM OkMeansRunFinished == Spec => []OkRunFinished
<1>1. Init => RunInv
  BY InitTypes DEF Init, RunInv, ApartInv, Apart
<1>2. RunInv => OkRunFinished
  BY DEF Abandoned, RunInv, ApartInv, Apart, FinishedAfterStart, OkRunFinished
<1> QED
  BY <1>1, <1>2, RunStep, PTL DEF Spec

-----------------------------------------------------------------------------
(* The contract *)

\* What a run is to the contract, and what the runs are.
SeenRun(run) == [owner |-> run.owner, over |-> run.finished]

SeenRuns(runs) == [r \in 1 .. Len(runs) |-> SeenRun(runs[r])]

\* The runs the contract sees are a sequence, one for each run of the board, and
\* one more when a run is added.
LEMMA RunsSeen ==
    ASSUME NEW runs \in Seq(Run)
    PROVE  /\ SeenRuns(runs) \in Seq([owner : Sessions, over : BOOLEAN])
           /\ Len(SeenRuns(runs)) = Len(runs) /\ Len(runs) \in Nat
           /\ \A r \in 1 .. Len(runs) : SeenRuns(runs)[r] = SeenRun(runs[r])
<1>1. Len(runs) \in Nat /\ \A r \in 1 .. Len(runs) : runs[r] \in Run
  OBVIOUS
<1>2. \A r \in 1 .. Len(runs) : SeenRun(runs[r]) \in [owner : Sessions, over : BOOLEAN]
  BY <1>1 DEF Run, SeenRun
<1> QED
  BY <1>1, <1>2 DEF SeenRuns

\* A run that is added is added to what is seen.
LEMMA RunAddedSeen ==
    ASSUME NEW runs \in Seq(Run), NEW run \in Run
    PROVE  SeenRuns(Append(runs, run)) = Append(SeenRuns(runs), SeenRun(run))
<1> DEFINE more == Append(runs, run)
<1>1. /\ more \in Seq(Run) /\ Len(more) = Len(runs) + 1 /\ Len(runs) \in Nat
      /\ \A r \in 1 .. Len(runs) : more[r] = runs[r]
      /\ more[Len(runs) + 1] = run
  OBVIOUS
<1>2. SeenRun(run) \in [owner : Sessions, over : BOOLEAN]
  BY DEF Run, SeenRun
<1> DEFINE seen == SeenRuns(runs)
           seenMore == SeenRuns(more)
<1>3. seen \in Seq([owner : Sessions, over : BOOLEAN]) /\ Len(seen) = Len(runs)
      /\ \A r \in 1 .. Len(runs) : seen[r] = SeenRun(runs[r])
  BY RunsSeen
<1>4. /\ seenMore \in Seq([owner : Sessions, over : BOOLEAN])
      /\ Len(seenMore) = Len(runs) + 1
      /\ \A r \in 1 .. Len(runs) + 1 : seenMore[r] = SeenRun(more[r])
  BY <1>1, RunsSeen
<1> HIDE DEF more, seen, seenMore
<1> DEFINE appended == Append(seen, SeenRun(run))
<1>5. /\ appended \in Seq([owner : Sessions, over : BOOLEAN])
      /\ Len(appended) = Len(runs) + 1
      /\ \A r \in 1 .. Len(runs) : appended[r] = seen[r]
      /\ appended[Len(runs) + 1] = SeenRun(run)
  BY <1>2, <1>3, AppendProperties
<1> HIDE DEF appended
<1>6. ASSUME NEW r \in 1 .. Len(runs) + 1
      PROVE  seenMore[r] = appended[r]
  <2>1. seenMore[r] = SeenRun(more[r])
    BY <1>4
  <2>2. CASE r = Len(runs) + 1
    <3>1. more[r] = run /\ appended[r] = SeenRun(run)
      BY <1>1, <1>5, <2>2
    <3> QED
      BY <2>1, <3>1
  <2>3. CASE r # Len(runs) + 1
    <3>1. r \in 1 .. Len(runs)
      BY <1>1, <2>3
    <3> QED
      BY <1>1, <1>3, <1>5, <2>1, <3>1
  <2> QED
    BY <2>2, <2>3
<1>7. /\ Len(seenMore) = Len(appended)
      /\ \A r \in 1 .. Len(seenMore) : seenMore[r] = appended[r]
  BY <1>4, <1>5, <1>6
<1>8. seenMore = appended
  BY <1>4, <1>5, <1>7, SeqEqual
<1> QED
  BY <1>8 DEF more, seen, seenMore, appended

\* A run that ends is seen to end.
LEMMA EndSeen ==
    ASSUME NEW run \in Run, NEW b \in BOOLEAN
    PROVE  SeenRun([run EXCEPT !.finished = b]) = [SeenRun(run) EXCEPT !.over = b]
<1>1. SeenRun([run EXCEPT !.finished = b]) = [owner |-> run.owner, over |-> b]
  BY DEF Run, SeenRun
<1>2. SeenRun(run) \in [owner : Sessions, over : BOOLEAN]
  BY DEF Run, SeenRun
<1>3. [SeenRun(run) EXCEPT !.over = b] = [owner |-> SeenRun(run).owner, over |-> b]
  BY <1>2
<1>4. SeenRun(run).owner = run.owner
  BY DEF SeenRun
<1> QED
  BY <1>1, <1>3, <1>4

\* The runs of the refinement mapping, in terms of the board.
LEMMA RunsOfBoard == RunsOf = SeenRuns(board.runs) /\ RunsOf' = SeenRuns(board'.runs)
  BY DEF RunsOf, SeenRuns, SeenRun, CurrentRun

\* Runs that look the same are the same to the contract.
LEMMA SameRunsSeen ==
    ASSUME CurrentRun' = CurrentRun,
           \A r \in 1 .. CurrentRun : SeenRun(board'.runs[r]) = SeenRun(board.runs[r])
    PROVE  RunsOf' = RunsOf
  BY DEF RunsOf, SeenRun

\* A start request is on its way only after the call that sent it has begun.
StartsAsked == \A m \in net : m.kind = "start" => caller[m.session] # "new"

\* The invariant under which each step maps to a step of the contract.
ContractInv == RunInv /\ StartsAsked

\* Every step keeps start requests behind the beginning of their calls.
LEMMA StartsAskedStep == ContractInv /\ [Next]_vars => StartsAsked'
<1> SUFFICES ASSUME ContractInv, [Next]_vars, NEW m \in net', m.kind = "start"
             PROVE  caller'[m.session] # "new"
  BY DEF StartsAsked
<1> USE DEF ContractInv, RunInv, ApartInv, TypeInv, TypeOK
<1>1. CASE m \in net
  <2>1. m.session \in Sessions /\ caller[m.session] # "new"
    BY <1>1, DatagramFields DEF StartsAsked
  <2>2. CASE \E s \in Sessions : Begin(s) \/ BeginAborted(s) \/ CallerStep(s) \/ Faults(s)
    BY <2>1, <2>2
       DEF Begin, BeginAborted, CallerStep, Start, StartAcknowledged, Stop, StopAcknowledged,
           CallerGivesUp, CallerIOError, Abort, Faults, GatherFails, callerVars, CallerTo
  <2>3. CASE caller' = caller
    BY <2>1, <2>3
  <2> QED
    BY <2>2, <2>3
       DEF Next, GatherStep, Subscribe, Receive, Check, Checked, CheckTimeout, BoardStep,
           BoardSubscribe, BoardStart, BoardStop, BoardCheck, BoardTakes, BoardResends,
           BoardAcked, BoardFinishes, Tick, AllOver, vars, callerVars
<1>2. CASE m \notin net
  <2>1. PICK s \in Sessions : Start(s) /\ m = Ask("start", s)
    <3>1. CASE \E s \in Sessions : Begin(s) \/ BeginAborted(s) \/ CallerStep(s) \/ Faults(s)
      BY <1>2, <3>1
         DEF Begin, BeginAborted, CallerStep, Start, StartAcknowledged, Stop, StopAcknowledged,
             CallerGivesUp, CallerIOError, Abort, Faults, GatherFails, netVars, Send,
             Exchange, Ask
    <3>2. CASE \E s \in Sessions : GatherStep(s)
      BY <1>2, <3>2
         DEF GatherStep, Subscribe, Receive, Check, Checked, CheckTimeout, netVars, Send,
             Exchange, Ask, StreamMsg
    <3>3. CASE BoardStep
      <4>1. \/ \E q : m \in {Ask("start_ack", q), Ask("stop_ack", q)}
            \/ \E q, x : m \in {StateReply(q, x), StreamMsg("frame", q, x)}
        <5>1. CASE BoardSubscribe \/ BoardAcked
          <6>1. \E q : m = StreamMsg("frame", q, StrayFrame)
            <7>1. CASE BoardSubscribe
              BY <1>2, <7>1 DEF BoardSubscribe, Exchange
            <7>2. CASE BoardAcked
              BY <1>2, <7>2 DEF BoardAcked, Exchange
            <7>. QED BY <5>1, <7>1, <7>2
          <6> QED
            BY <6>1
        <5>3. CASE BoardStart
          BY <1>2, <5>3 DEF BoardStart, Exchange
        <5>4. CASE BoardStop
          BY <1>2, <5>4 DEF BoardStop, Exchange
        <5>5. CASE BoardCheck
          BY <1>2, <5>5 DEF BoardCheck, Exchange
        <5>2. CASE BoardTakes \/ BoardResends \/ BoardFinishes
          BY <1>2, <5>2 DEF BoardTakes, BoardResends, BoardFinishes, Send, netVars
        <5> QED
          BY <3>3, <5>1, <5>2, <5>3, <5>4, <5>5 DEF BoardStep
      <4> QED
        BY <4>1 DEF Ask, StateReply, StreamMsg
    <3>4. CASE Tick \/ AllOver \/ UNCHANGED vars
      BY <1>2, <3>4 DEF Tick, AllOver, vars, netVars
    <3> QED
      BY <3>1, <3>2, <3>3, <3>4 DEF Next
  <2> QED
    BY <2>1 DEF Start, CallerTo, Ask
<1> QED
  BY <1>1, <1>2

\* The invariant holds in every behaviour.
LEMMA ContractInvHolds == Spec => []ContractInv
<1>1. Init => ContractInv
  BY InitTypes DEF Init, ContractInv, StartsAsked, RunInv, ApartInv, Apart
<1>2. ContractInv /\ [Next]_vars => ContractInv'
  BY RunStep, StartsAskedStep DEF ContractInv
<1> QED
  BY <1>1, <1>2, PTL DEF Spec

\* A call after whose start a run finished has measured.
LEMMA MeasuredSeen ==
    ASSUME board.runs \in Seq(Run), NEW s \in Sessions, FinishedAfterStart(s)
    PROVE  Contract!Measured(s)
<1>1. PICK r \in 1 .. CurrentRun :
        board.runs[r].owner = s /\ \E q \in r .. CurrentRun : board.runs[q].finished
  BY DEF FinishedAfterStart
<1>2. PICK q \in r .. CurrentRun : board.runs[q].finished
  BY <1>1
<1>3. /\ Len(RunsOf) = CurrentRun /\ CurrentRun \in Nat
      /\ \A x \in 1 .. CurrentRun : RunsOf[x] = SeenRun(board.runs[x])
  BY RunsOfBoard, RunsSeen DEF CurrentRun
<1>4. q \in 1 .. CurrentRun
  BY <1>3
<1>5. RunsOf[r].owner = s /\ RunsOf[q].over = board.runs[q].finished
  BY <1>1, <1>3, <1>4 DEF SeenRun
<1>6. r \in 1 .. Len(RunsOf) /\ q \in r .. Len(RunsOf) /\ RunsOf[q].over
  BY <1>2, <1>3, <1>5
<1> QED
  BY <1>5, <1>6 DEF Contract!Measured

\* A step of a call is one of the contract: it begins, succeeds after a run of
\* its own that was measured, or fails; everything between is hidden.
LEMMA CallerStepSeen ==
    ASSUME ContractInv, NEW s \in Sessions,
           Begin(s) \/ BeginAborted(s) \/ CallerStep(s) \/ Faults(s)
    PROVE  [Contract!Next]_(Contract!vars)
<1> USE DEF ContractInv, RunInv, ApartInv, TypeInv, TypeOK
<1>1. board' = board
  BY DEF Begin, BeginAborted, CallerStep, Start, StartAcknowledged, Stop, StopAcknowledged,
         CallerGivesUp, Faults, CallerIOError, Abort, GatherFails
<1>2. RunsOf' = RunsOf
  BY <1>1 DEF RunsOf, CurrentRun
<1>3. CASE Begin(s)
  <2>1. \A r \in Sessions : r < s => CallOf[r] \in {"ok", "failed"}
    BY <1>3 DEF Begin, CallOf, Ended, Active
  <2>2. CallOf[s] = "new"
    BY <1>3 DEF Begin, CallOf, Active
  <2>3. \E state \in {"running", "failed"} : CallOf' = [CallOf EXCEPT ![s] = state]
    BY <1>3 DEF Begin, CallOf, CallerTo, Active
  <2>4. \A r \in Sessions : r < s => CallOf[r] # "new"
    BY <2>1
  <2> QED
    BY <1>2, <2>1, <2>2, <2>3, <2>4 DEF Contract!Next, Contract!Begin
<1>7. CASE BeginAborted(s)
  <2>1. \A r \in Sessions : r < s => CallOf[r] # "new"
    BY <1>7 DEF BeginAborted, CallOf
  <2>2. CallOf[s] = "new" /\ CallOf' = [CallOf EXCEPT ![s] = "failed"]
    BY <1>7 DEF BeginAborted, CallOf, CallerTo, Active
  <2> QED
    BY <1>2, <2>1, <2>2 DEF Contract!Next, Contract!Begin
<1>4. CASE Start(s) \/ StartAcknowledged(s) \/ Stop(s) \/ GatherFails(s)
  <2>1. CallOf' = CallOf
    BY <1>4 DEF Start, StartAcknowledged, Stop, GatherFails, CallOf, CallerTo, Active,
                callerVars
  <2> QED
    BY <1>2, <2>1 DEF Contract!vars
<1>5. CASE StopAcknowledged(s)
  <2>1. caller[s] = "stop" /\ CallOf[s] = "running"
    BY <1>5 DEF StopAcknowledged, CallOf, Active
  <2>2. FinishedAfterStart(s)
    BY <2>1 DEF Apart, Abandoned
  <2>6. Contract!Measured(s)
    BY <2>2, MeasuredSeen
  <2>7. CallOf' = [CallOf EXCEPT ![s] = "ok"]
    BY <1>5 DEF StopAcknowledged, CallOf, CallerTo, Active
  <2> QED
    BY <1>2, <2>1, <2>6, <2>7 DEF Contract!Next, Contract!Succeed
<1>6. CASE CallerGivesUp(s) \/ CallerIOError(s) \/ Abort(s)
  <2>1. CallOf[s] = "running" /\ CallOf' = [CallOf EXCEPT ![s] = "failed"]
    BY <1>6 DEF CallerGivesUp, CallerIOError, Abort, CallOf, CallerTo, Active
  <2> QED
    BY <1>2, <2>1 DEF Contract!Next, Contract!Fail
<1> QED
  BY <1>3, <1>4, <1>5, <1>6, <1>7 DEF CallerStep, Faults

\* A step of the board begins a run some call has asked for, ends the last one,
\* or is hidden.
LEMMA BoardStepSeen ==
    ASSUME ContractInv, BoardStep
    PROVE  [Contract!Next]_(Contract!vars)
<1> USE DEF ContractInv, RunInv, ApartInv, TypeInv, TypeOK
<1>1. caller' = caller
  BY DEF BoardStep, BoardSubscribe, BoardStart, BoardStop, BoardCheck, BoardTakes,
         BoardResends, BoardAcked, BoardFinishes, callerVars
<1>2. CallOf' = CallOf
  BY <1>1 DEF CallOf
<1>3. CASE BoardStart
  <2>1. PICK m \in net :
          /\ m.kind = "start"
          /\ board'.runs = Append(board.runs, [owner |-> m.session, taken |-> 0,
                                               finished |-> FALSE])
    BY <1>3 DEF BoardStart
  <2>2. m.session \in Sessions /\ caller[m.session] # "new"
    BY <2>1, DatagramFields DEF StartsAsked
  <2>3. CallOf[m.session] # "new"
    BY <2>2 DEF CallOf
  <2>4. RunsOf' = Append(RunsOf, [owner |-> m.session, over |-> FALSE])
    BY <2>1, <2>2, RunsOfBoard, RunAddedSeen DEF Run, SeenRun
  <2> QED
    BY <1>2, <2>2, <2>3, <2>4 DEF Contract!Next, Contract!RunBegins
<1>4. CASE BoardFinishes
  <2>1. CurrentRun \in 1 .. CurrentRun /\ board.state = "InRun"
    BY <1>4 DEF BoardFinishes, RunsMatchState, CurrentRun
  <2>2. board'.runs = [board.runs EXCEPT ![CurrentRun] =
                          [board.runs[CurrentRun] EXCEPT !.finished = TRUE]]
    BY <1>4, <2>1 DEF BoardFinishes
  <2>3. board.runs \in [1 .. CurrentRun -> Run]
    BY DEF CurrentRun
  <2>4. CurrentRun' = CurrentRun
    BY <2>2, <2>3 DEF CurrentRun
  <2>5. /\ \A r \in 1 .. CurrentRun : r # CurrentRun => board'.runs[r] = board.runs[r]
        /\ SeenRun(board'.runs[CurrentRun]) =
              [SeenRun(board.runs[CurrentRun]) EXCEPT !.over = TRUE]
    <3> DEFINE n == CurrentRun
               run == board.runs[CurrentRun]
    <3>1. board'.runs = [board.runs EXCEPT ![n] = [run EXCEPT !.finished = TRUE]]
      BY <2>2
    <3>2. run \in Run
      BY <2>1, <2>3
    <3>3. board'.runs[n] = [run EXCEPT !.finished = TRUE]
      BY <2>1, <2>3, <3>1
    <3>4. \A r \in 1 .. n : r # n => board'.runs[r] = board.runs[r]
      BY <2>1, <2>3, <3>1
    <3>5. SeenRun([run EXCEPT !.finished = TRUE]) = [SeenRun(run) EXCEPT !.over = TRUE]
      BY <3>2, EndSeen
    <3> QED
      BY <3>3, <3>4, <3>5, Zenon
  <2>6. RunsOf' = [RunsOf EXCEPT ![CurrentRun].over = TRUE]
    <3>1. RunsOf = [r \in 1 .. CurrentRun |-> SeenRun(board.runs[r])]
      BY DEF RunsOf, SeenRun
    <3>2. RunsOf' = [r \in 1 .. CurrentRun |-> SeenRun(board'.runs[r])]
      BY <2>4 DEF RunsOf, SeenRun
    <3> QED
      BY <2>1, <2>5, <3>1, <3>2
  <2>7. Len(RunsOf) = CurrentRun
        /\ RunsOf[CurrentRun] = SeenRun(board.runs[CurrentRun])
    BY <2>1, RunsOfBoard, RunsSeen DEF CurrentRun
  <2>10. RunsOf # <<>>
    BY <2>1, <2>7
  <2>8. CASE RunsOf[CurrentRun].over
    <3>1. SeenRun(board.runs[CurrentRun]).over = TRUE
      BY <2>1, <2>3, <2>7, <2>8 DEF SeenRun, Run
    <3>2. SeenRun(board'.runs[CurrentRun]) = SeenRun(board.runs[CurrentRun])
      BY <2>5, <3>1 DEF SeenRun
    <3>3. RunsOf' = RunsOf
      BY <2>4, <2>5, <3>2, SameRunsSeen
    <3> QED
      BY <1>2, <3>3 DEF Contract!vars
  <2>9. CASE ~ RunsOf[CurrentRun].over
    BY <1>2, <2>6, <2>7, <2>9, <2>10 DEF Contract!Next, Contract!RunEnds
  <2> QED
    BY <2>8, <2>9
<1>5. CASE BoardTakes
  <2>1. CurrentRun \in 1 .. CurrentRun
    BY <1>5 DEF BoardTakes, RunsMatchState, CurrentRun
  <2>2. board'.runs = [board.runs EXCEPT ![CurrentRun] =
                          [board.runs[CurrentRun] EXCEPT !.taken = @ + 1]]
    BY <1>5, <2>1 DEF BoardTakes
  <2>3. board.runs \in [1 .. CurrentRun -> Run]
    BY DEF CurrentRun
  <2>4. CurrentRun' = CurrentRun
    BY <2>2, <2>3 DEF CurrentRun
  <2>5. \A r \in 1 .. CurrentRun : SeenRun(board'.runs[r]) = SeenRun(board.runs[r])
    <3>. DEFINE run == board.runs[CurrentRun]
                more == [run EXCEPT !.taken = @ + 1]
    <3>1. run \in Run
      BY <2>1, <2>3
    <3>2. more.owner = run.owner /\ more.finished = run.finished
      BY <3>1 DEF Run
    <3>3. ASSUME NEW r \in 1 .. CurrentRun
          PROVE  board'.runs[r] = IF r = CurrentRun THEN more ELSE board.runs[r]
      BY <2>2, <2>3
    <3>4. SeenRun(more) = SeenRun(run)
      BY <3>2 DEF SeenRun
    <3>. HIDE DEF more
    <3>. QED BY <3>3, <3>4
  <2> QED
    BY <1>2, <2>4, <2>5, SameRunsSeen DEF Contract!vars
<1>6. CASE BoardSubscribe \/ BoardStop \/ BoardCheck \/ BoardResends \/ BoardAcked
  <2>1. board'.runs = board.runs
    BY <1>6 DEF BoardSubscribe, BoardStop, BoardCheck, BoardResends, BoardAcked
  <2>2. RunsOf' = RunsOf
    BY <2>1 DEF RunsOf, CurrentRun
  <2> QED
    BY <1>2, <2>2 DEF Contract!vars
<1> QED
  BY <1>3, <1>4, <1>5, <1>6 DEF BoardStep

\* To the server, the calls and the board are what AcquireContract says, for any
\* number of calls, any timeouts and any losses, delays and repetitions.
THEOREM AcquisitionImplementsContract == Spec => ImplementsContract
<1>1. Init => Contract!Init
  BY DEF Init, Contract!Init, CallOf, RunsOf, CurrentRun, Active
<1>2. ContractInv /\ [Next]_vars => [Contract!Next]_(Contract!vars)
  <2> SUFFICES ASSUME ContractInv, [Next]_vars
               PROVE  [Contract!Next]_(Contract!vars)
    OBVIOUS
  <2>1. CASE \E s \in Sessions : Begin(s) \/ BeginAborted(s) \/ CallerStep(s) \/ Faults(s)
    BY <2>1, CallerStepSeen
  <2>2. CASE BoardStep
    BY <2>2, BoardStepSeen
  <2>3. CASE (\E s \in Sessions : GatherStep(s)) \/ Tick \/ AllOver \/ UNCHANGED vars
    <3>1. caller' = caller /\ board' = board
      BY <2>3 DEF GatherStep, Subscribe, Receive, Check, Checked, CheckTimeout, Tick,
                  AllOver, vars, callerVars
    <3> QED
      BY <3>1 DEF Contract!vars, CallOf, RunsOf, CurrentRun
  <2> QED
    BY <2>1, <2>2, <2>3 DEF Next
<1> QED
  BY <1>1, <1>2, ContractInvHolds, PTL DEF Spec, ImplementsContract, Contract!Spec

-----------------------------------------------------------------------------
(***************************************************************************)
(* What a call of acquire_frames leaves and returns: the board is stopped, *)
(* idle, and what it was told had been received is returned and of this    *)
(* run.                                                                    *)
(*                                                                         *)
(* Without duplicates there is one datagram at most on a control socket or *)
(* on its way there, of the kind its caller is waiting for (ControlInv):   *)
(* that is why a stop request is known to be done.  Of a call before which *)
(* the board or the tasks were quiet, everything that is on its way is its *)
(* own (QuietInv, AckInv), as long as no other has begun.                  *)
(***************************************************************************)

Own(s, f) == f.run \in 1 .. CurrentRun /\ board.runs[f.run].owner = s

\* No later call was started; no later call was entered.
Latest(s) == \A r \in Sessions : r > s => caller[r] \in {"new", "dropped"}
LastEntered(s) == \A r \in Sessions : r > s => caller[r] = "new"

Going(s) == caller[s] \in Active \cup {"ok"}

\* A call that has not begun has left no trace, and calls take turns, but for those
\* that are dropped.
FreshInv ==
    /\ \A s \in Sessions : caller[s] = "new" =>
          /\ frames[s] = {} /\ board.subscriber # s
          /\ \A m \in net : m.session # s
    /\ \A r \in 1 .. CurrentRun : caller[board.runs[r].owner] # "new"
    /\ \A s, r \in Sessions :
          caller[s] \notin {"new", "dropped"} /\ r < s => caller[r] \in Ended

\* Frames are of runs there have been.
FramesInv ==
    /\ \A f \in board.unacked \cup board.acked : f.run \in 1 .. CurrentRun
    /\ \A m \in net :
          /\ m.kind = "ack" => m.frame.run \in 1 .. CurrentRun
          /\ m.kind = "frame" => m.frame = StrayFrame \/ m.frame.run \in 1 .. CurrentRun

ControlKinds == {"start", "stop", "check", "start_ack", "stop_ack", "state"}
Control(s) == {m \in net : m.session = s /\ m.kind \in ControlKinds}

KindsAt(state) ==
    CASE state = "start" -> {"start", "start_ack"}
      [] state = "join" -> {"check", "state"}
      [] state = "stop" -> {"stop", "stop_ack"}
      [] OTHER -> {}

ControlAt(s) ==
    caller[s] \notin Abandoned =>
        /\ \A m \in Control(s) : m.kind \in KindsAt(caller[s])
        /\ \A m, n \in Control(s) : m = n
        /\ caller[s] = "join" /\ gather[s] \in {"recv", "finished"} => Control(s) = {}

ControlInv == dups = 0 => \A s \in Sessions : ControlAt(s)

StopInv ==
    /\ \A m \in net : m.kind = "stop_ack" => m.session \in board.stopped
    /\ dups = 0 => \A s \in Sessions : caller[s] = "ok" => s \in board.stopped

\* What has been stopped: the call is over, or knows soon that it is.
Halted(s) ==
    \/ caller[s] = "ok"
    \/ \E m \in net : m.kind = "stop_ack" /\ m.session = s

QuietAt(s) ==
    /\ \A m \in net : m.kind = "start" => m.session = s
    /\ board.state = "InRun" => board.runs[CurrentRun].owner = s
    /\ \A f \in board.unacked : Own(s, f)
    /\ \A m \in net :
          m.kind = "frame" /\ m.session = s /\ m.frame # StrayFrame => Own(s, m.frame)
    /\ dups = 0 /\ Halted(s) => board.state # "InRun"

QuietInv ==
    \A s \in Sessions : Going(s) /\ "board" \in quiet[s] /\ Latest(s) => QuietAt(s)

OwnInv ==
    \A s \in Sessions : Going(s) /\ "board" \in quiet[s] =>
        \A f \in frames[s] : f # StrayFrame => Own(s, f)

AckAt(s) ==
    /\ \A r \in Sessions : r # s => gather[r] \notin Alive
    /\ gather[s] # "failed" =>
          /\ \A f \in board.acked : Own(s, f) => f \in frames[s]
          /\ \A m \in net : m.kind = "ack" /\ Own(s, m.frame) => m.frame \in frames[s]

AckInv ==
    \A s \in Sessions : Going(s) /\ "tasks" \in quiet[s] /\ LastEntered(s) => AckAt(s)

BaseInv == ApartInv /\ FreshInv /\ FramesInv

CallInv == BaseInv /\ ControlInv /\ StopInv /\ QuietInv /\ OwnInv /\ AckInv

-----------------------------------------------------------------------------
(* What a step does *)

\* Neither the board, nor the network, nor a task has moved.
Idle == UNCHANGED <<caller, gather, frames, board, net, dups, quiet>>

LEMMA Steps ==
    ASSUME [Next]_vars
    PROVE  (\E s \in Sessions : SessionStep(s)) \/ BoardStep \/ Idle
BY DEF Next, SessionStep, Idle, Tick, AllOver, vars, netVars

\* A datagram is sent by the step that makes it.
LEMMA Sent ==
    ASSUME TypeInv, [Next]_vars, NEW m \in net', m \notin net
    PROVE  \/ \E s \in Sessions : Start(s) /\ m = Ask("start", s)
           \/ \E s \in Sessions : Stop(s) /\ m = Ask("stop", s)
           \/ \E s \in Sessions : Subscribe(s) /\ m = Ask("subscribe", s)
           \/ \E s \in Sessions : Check(s) /\ m = Ask("check", s)
           \/ \E s \in Sessions : \E q \in AtStream(s) :
                 /\ Receive(s) /\ q.frame # StrayFrame /\ m = StreamMsg("ack", s, q.frame)
                 /\ frames' = [frames EXCEPT ![s] = @ \cup {q.frame}]
           \/ \E q \in net :
                 /\ BoardSubscribe /\ q.kind = "subscribe"
                 /\ m = StreamMsg("frame", q.session, StrayFrame)
           \/ \E q \in net : BoardStart /\ q.kind = "start" /\ m = Ask("start_ack", q.session)
           \/ \E q \in net :
                 /\ BoardStop /\ q.kind = "stop" /\ m = Ask("stop_ack", q.session)
                 /\ board'.stopped = board.stopped \cup {q.session}
           \/ \E q \in net :
                 BoardCheck /\ q.kind = "check" /\ m = StateReply(q.session, board.state)
           \/ \E f \in Frame :
                 /\ BoardTakes /\ board.subscriber # None /\ f.run = CurrentRun
                 /\ f \in board'.unacked /\ m = StreamMsg("frame", board.subscriber, f)
           \/ \E f \in board.unacked :
                 BoardResends /\ board.subscriber # None
                 /\ m = StreamMsg("frame", board.subscriber, f)
<1>1. CASE \E s \in Sessions : SessionStep(s)
  <2>1. PICK s \in Sessions : SessionStep(s)
    BY <1>1
  <2>2. CASE Begin(s) \/ BeginAborted(s) \/ Faults(s) \/ CallerGivesUp(s) \/ CheckTimeout(s)
    BY <2>2 DEF Begin, BeginAborted, Faults, CallerIOError, Abort, GatherFails, CallerGivesUp, CheckTimeout,
                netVars
  <2>3. CASE StartAcknowledged(s) \/ StopAcknowledged(s) \/ Checked(s)
    BY <2>3 DEF StartAcknowledged, StopAcknowledged, Checked, Exchange
  <2>4. CASE Start(s) \/ Stop(s) \/ Subscribe(s) \/ Check(s)
    BY <2>4 DEF Start, Stop, Subscribe, Check, Send
  <2>5. CASE Receive(s)
    BY <2>5 DEF Receive, Exchange
  <2>. QED BY <2>1, <2>2, <2>3, <2>4, <2>5 DEF SessionStep, CallerStep, GatherStep
<1>2. CASE BoardStep
  <2>1. CASE BoardSubscribe
    BY <2>1 DEF BoardSubscribe, Exchange
  <2>2. CASE BoardStart
    BY <2>2 DEF BoardStart, Exchange
  <2>3. CASE BoardStop
    <3>1. PICK q \in net, state \in {"Stopped"} \cup ({board.state} \ {"InRun"}) :
              /\ q.kind = "stop" /\ Exchange(q, {Ask("stop_ack", q.session)})
              /\ board' = [board EXCEPT !.state = state, !.stopped = @ \cup {q.session}]
      BY <2>3 DEF BoardStop
    <3>2. m = Ask("stop_ack", q.session)
      BY <3>1 DEF Exchange
    <3>3. board'.stopped = board.stopped \cup {q.session}
      BY <3>1 DEF TypeInv, TypeOK
    <3>. QED BY <2>3, <3>1, <3>2, <3>3
  <2>4. CASE BoardCheck
    BY <2>4 DEF BoardCheck, Exchange
  <2>5. CASE BoardTakes
    <3>. DEFINE run == board.runs[CurrentRun]
                f   == [run |-> CurrentRun, number |-> run.taken + 1]
    <3>1. /\ board.subscriber # None /\ m = StreamMsg("frame", board.subscriber, f)
      BY <2>5 DEF BoardTakes, Send
    <3>2. run.taken \in Nat /\ CurrentRun \in Nat
      <4>1. board.runs \in Seq(Run) /\ Len(board.runs) > 0
        BY <2>5 DEF BoardTakes, TypeInv, TypeOK, RunsMatchState
      <4>2. CurrentRun \in 1 .. Len(board.runs) /\ run \in Run
        BY <4>1 DEF CurrentRun
      <4>. QED BY <4>2 DEF Run
    <3>3. f \in Frame /\ f.run = CurrentRun
      BY <3>2 DEF Frame
    <3>4. f \in board'.unacked
      BY <2>5 DEF BoardTakes, TypeInv, TypeOK
    <3>. QED BY <2>5, <3>1, <3>3, <3>4
  <2>6. CASE BoardResends
    BY <2>6 DEF BoardResends, Send
  <2>7. CASE BoardAcked \/ BoardFinishes
    BY <2>7 DEF BoardAcked, BoardFinishes, Exchange, netVars
  <2>. QED BY <1>2, <2>1, <2>2, <2>3, <2>4, <2>5, <2>6, <2>7 DEF BoardStep
<1>3. CASE Idle
  BY <1>3 DEF Idle
<1>. QED BY <1>1, <1>2, <1>3, Steps

\* What a step does to the sessions other than its own.
LEMMA OthersKept ==
    ASSUME TypeInv, NEW s \in Sessions, NEW r \in Sessions, r # s, SessionStep(s)
    PROVE  /\ caller'[r] = caller[r] /\ gather'[r] = gather[r]
           /\ frames'[r] = frames[r] /\ quiet'[r] = quiet[r]
<1>1. caller'[r] = caller[r] /\ gather'[r] = gather[r]
  BY OthersUnchanged DEF SessionStep
<1>. USE DEF TypeInv, TypeOK, GatherEnds, callerVars, gatherVars
<1>2. CASE Begin(s) \/ BeginAborted(s)
  BY <1>1, <1>2 DEF Begin, BeginAborted
<1>3. CASE CallerStep(s)
  BY <1>1, <1>3 DEF CallerStep, Start, StartAcknowledged, Stop, StopAcknowledged, CallerGivesUp
<1>4. CASE GatherStep(s)
  BY <1>1, <1>4 DEF GatherStep, Subscribe, Receive, Check, Checked, CheckTimeout
<1>5. CASE Faults(s)
  BY <1>1, <1>5 DEF Faults, CallerIOError, Abort, GatherFails
<1>. QED BY <1>2, <1>3, <1>4, <1>5 DEF SessionStep

LEMMA BoardKeepsTasks ==
    ASSUME BoardStep
    PROVE  UNCHANGED <<callerVars, gatherVars>>
BY DEF BoardStep, BoardSubscribe, BoardStart, BoardStop, BoardCheck, BoardTakes, BoardResends,
       BoardAcked, BoardFinishes

LEMMA SessionKeepsBoard ==
    ASSUME NEW s \in Sessions, SessionStep(s)
    PROVE  board' = board
BY DEF SessionStep, Begin, BeginAborted, CallerStep, Start, StartAcknowledged, Stop,
       StopAcknowledged, CallerGivesUp, GatherStep, Subscribe, Receive, Check, Checked, CheckTimeout, Faults,
       CallerIOError, Abort, GatherFails

\* The ways of a call,
LEMMA CallerFacts ==
    ASSUME TypeInv, [Next]_vars, NEW s \in Sessions
    PROVE  /\ caller'[s] = "new" => caller[s] = "new"
           /\ caller[s] \in Ended => caller'[s] = caller[s]
           /\ caller[s] = "new" /\ caller'[s] \notin {"new", "dropped"} => Begin(s)
           /\ caller'[s] = "dropped" /\ caller[s] # "dropped" => caller[s] = "new"
           /\ caller'[s] = "ok" /\ caller[s] # "ok" => StopAcknowledged(s)
<1>1. CASE SessionStep(s)
  <2>. USE DEF TypeInv, TypeOK, CallerTo, Ended, Active
  <2>1. CASE Begin(s) \/ BeginAborted(s)
    BY <2>1 DEF Begin, BeginAborted
  <2>2. CASE CallerStep(s)
    BY <2>2 DEF CallerStep, Start, StartAcknowledged, Stop, StopAcknowledged, CallerGivesUp
  <2>3. CASE GatherStep(s)
    BY <2>3 DEF GatherStep, Subscribe, Receive, Check, Checked, CheckTimeout, callerVars
  <2>4. CASE Faults(s)
    BY <2>4 DEF Faults, CallerIOError, Abort, GatherFails, callerVars
  <2>. QED BY <1>1, <2>1, <2>2, <2>3, <2>4 DEF SessionStep
<1>2. CASE ~ SessionStep(s)
  <2>1. caller'[s] = caller[s]
    BY <1>2, Steps, OthersKept, BoardKeepsTasks DEF callerVars, Idle
  <2>. QED BY <2>1 DEF Ended
<1>. QED BY <1>1, <1>2

\* and of its gather task.
LEMMA GatherFacts ==
    ASSUME TypeInv, [Next]_vars, NEW s \in Sessions
    PROVE  /\ quiet'[s] = quiet[s] \/ Begin(s)
           /\ gather'[s] \in Alive => gather[s] \in Alive \/ Begin(s) \/ BeginAborted(s)
           /\ gather[s] = "failed" => gather'[s] = "failed" \/ Begin(s) \/ BeginAborted(s)
           /\ \/ frames'[s] = frames[s]
              \/ gather[s] \in Alive /\ frames'[s] = {} /\ gather'[s] = "failed"
              \/ Receive(s)
<1>1. CASE SessionStep(s)
  <2>. USE DEF TypeInv, TypeOK, GatherTo, GatherEnds, Alive, callerVars, gatherVars
  <2>1. CASE Begin(s) \/ BeginAborted(s)
    BY <2>1 DEF Begin, BeginAborted
  <2>2. CASE CallerStep(s)
    BY <2>2 DEF CallerStep, Start, StartAcknowledged, Stop, StopAcknowledged, CallerGivesUp
  <2>3. CASE GatherStep(s)
    BY <2>3 DEF GatherStep, Subscribe, Receive, Check, Checked, CheckTimeout
  <2>4. CASE Faults(s)
    BY <2>4 DEF Faults, CallerIOError, Abort, GatherFails
  <2>. QED BY <1>1, <2>1, <2>2, <2>3, <2>4 DEF SessionStep
<1>2. CASE ~ SessionStep(s)
  <2>1. /\ gather'[s] = gather[s] /\ frames'[s] = frames[s] /\ quiet'[s] = quiet[s]
    BY <1>2, Steps, OthersKept, BoardKeepsTasks DEF callerVars, gatherVars, Idle
  <2>. QED BY <2>1
<1>. QED BY <1>1, <1>2

\* The board's stream has a new subscriber, or a frame, only from what is on its way.
LEMMA BoardFacts ==
    ASSUME TypeInv, [Next]_vars
    PROVE  /\ \/ board'.subscriber = board.subscriber
              \/ \E m \in net : m.kind = "subscribe" /\ board'.subscriber = m.session
           /\ \/ CurrentRun' = CurrentRun
              \/ /\ CurrentRun' = CurrentRun + 1
                 /\ \E m \in net :
                       m.kind = "start" /\ board'.runs[CurrentRun + 1].owner = m.session
           /\ \A f \in board'.unacked :
                 f \in board.unacked \/ (board.state = "InRun" /\ f.run = CurrentRun)
           /\ \A f \in board'.acked :
                 f \in board.acked \/ \E m \in net : m.kind = "ack" /\ m.frame = f
           /\ board'.state = "InRun" => board.state = "InRun" \/ CurrentRun' = CurrentRun + 1
           /\ board.stopped \subseteq board'.stopped
<1>1. board \in [state : RunState, subscriber : Sessions \cup {None},
                 unacked : SUBSET Frame, acked : SUBSET Frame,
                 runs : Seq(Run), stopped : SUBSET Sessions, resent : 0 .. MaxResends]
  BY DEF TypeInv, TypeOK
<1>2. CASE board' = board
  BY <1>1, <1>2 DEF CurrentRun
<1>. USE DEF CurrentRun
<1>3. CASE BoardSubscribe
  BY <1>1, <1>3 DEF BoardSubscribe
<1>4. CASE BoardStart
  <2>1. PICK m \in net, left \in {board.unacked, {}} :
            /\ m.kind = "start"
            /\ board' = [board EXCEPT
                  !.state = "InRun",
                  !.unacked = left,
                  !.runs = Append(@, [owner |-> m.session, taken |-> 0, finished |-> FALSE])]
    BY <1>4 DEF BoardStart
  <2>2. board'.runs = Append(board.runs, [owner |-> m.session, taken |-> 0, finished |-> FALSE])
    BY <1>1, <2>1
  <2>3. Len(board'.runs) = Len(board.runs) + 1 /\ board'.runs[Len(board.runs) + 1].owner = m.session
    BY <1>1, <2>2
  <2>. QED BY <1>1, <1>4, <2>1, <2>3
<1>5. CASE BoardStop
  BY <1>1, <1>5 DEF BoardStop
<1>6. CASE BoardCheck
  BY <1>1, <1>2, <1>6 DEF BoardCheck
<1>7. CASE BoardTakes
  <2>1. /\ board.state = "InRun"
        /\ board' = [board EXCEPT !.runs[CurrentRun].taken = @ + 1,
                      !.unacked = @ \cup {[run |-> CurrentRun,
                                          number |-> board.runs[CurrentRun].taken + 1]}]
    BY <1>7 DEF BoardTakes
  <2>2. Len(board'.runs) = Len(board.runs)
    BY <1>1, <2>1
  <2>. QED BY <1>1, <1>7, <2>1, <2>2
<1>8. CASE BoardResends
  BY <1>1, <1>8 DEF BoardResends
<1>9. CASE BoardAcked
  BY <1>1, <1>9 DEF BoardAcked
<1>10. CASE BoardFinishes
  <2>1. Len(board'.runs) = Len(board.runs)
    BY <1>1, <1>10 DEF BoardFinishes
  <2>. QED BY <1>1, <1>10, <2>1 DEF BoardFinishes
<1>11. CASE \E s \in Sessions : SessionStep(s)
  BY <1>2, <1>11, SessionKeepsBoard
<1>12. CASE Idle
  BY <1>2, <1>12 DEF Idle
<1>. QED
  BY <1>3, <1>4, <1>5, <1>6, <1>7, <1>8, <1>9, <1>10, <1>11, <1>12, Steps DEF BoardStep

-----------------------------------------------------------------------------
(* Turns, and frames *)

LEMMA NetFacts ==
    ASSUME TypeInv, NEW m \in net
    PROVE  /\ m.session \in Sessions
           /\ m.kind \in {"frame", "ack"} => m.frame \in Frame
BY DatagramFields DEF TypeInv, TypeOK

LEMMA FreshStep ==
    ASSUME BaseInv, [Next]_vars
    PROVE  FreshInv'
<1>1. TypeInv /\ FreshInv /\ \A s \in Sessions : Apart(s)
  BY DEF BaseInv, ApartInv
<1>2. ASSUME NEW s \in Sessions, caller'[s] = "new"
      PROVE  /\ frames'[s] = {} /\ board'.subscriber # s
             /\ \A m \in net' : m.session # s
  <2>1. /\ caller[s] = "new" /\ gather[s] = "none"
        /\ frames[s] = {} /\ board.subscriber # s
        /\ \A m \in net : m.session # s
    BY <1>1, <1>2, CallerFacts DEF FreshInv, Apart
  <2>2. frames'[s] = {}
    BY <1>1, <2>1, GatherFacts DEF Alive, Receive
  <2>3. board'.subscriber # s
    BY <1>1, <2>1, BoardFacts
  <2>4. ASSUME NEW m \in net', m \notin net
        PROVE  m.session # s
    <3>1. /\ ~ Start(s) /\ ~ Stop(s) /\ ~ Subscribe(s) /\ ~ Check(s) /\ ~ Receive(s)
      BY <2>1 DEF Start, Stop, Subscribe, Check, Receive
    <3>. QED BY <1>1, <2>1, <2>4, <3>1, Sent DEF Ask, StateReply, StreamMsg
  <2>. QED BY <2>1, <2>2, <2>3, <2>4
<1>3. ASSUME NEW r \in 1 .. CurrentRun'
      PROVE  caller'[board'.runs[r].owner] # "new"
  <2>1. board.runs \in Seq(Run) /\ CurrentRun \in Nat /\ RunsGrow
    BY <1>1, RunsOnlyGrow DEF TypeInv, TypeOK, RunsGrow
  <2>2. CASE r \in 1 .. CurrentRun
    <3>1. board.runs[r] \in Run
      BY <2>1, <2>2 DEF CurrentRun
    <3>2. board'.runs[r].owner = board.runs[r].owner /\ board.runs[r].owner \in Sessions
      BY <2>1, <2>2, <3>1 DEF RunsGrow, Run
    <3>. QED BY <1>1, <2>2, <3>2, CallerFacts DEF FreshInv
  <2>3. CASE r \notin 1 .. CurrentRun
    <3>1. PICK m \in net : r = CurrentRun + 1 /\ board'.runs[CurrentRun + 1].owner = m.session
      BY <1>1, <1>3, <2>1, <2>3, BoardFacts
    <3>2. m.session \in Sessions /\ caller[m.session] # "new"
      BY <1>1, NetFacts DEF FreshInv
    <3>. QED BY <1>1, <3>1, <3>2, CallerFacts
  <2>. QED BY <2>2, <2>3
<1>4. ASSUME NEW s \in Sessions, NEW r \in Sessions, r < s,
             caller'[s] \notin {"new", "dropped"}
      PROVE  caller'[r] \in Ended
  <2>1. caller[r] \in Ended
    <3>1. CASE caller[s] \notin {"new", "dropped"}
      BY <1>1, <1>4, <3>1 DEF FreshInv
    <3>2. CASE caller[s] = "new"
      <4>1. Begin(s)
        BY <1>1, <1>4, <3>2, CallerFacts
      <4>. QED BY <1>4, <4>1 DEF Begin
    <3>3. caller[s] # "dropped"
      BY <1>1, <1>4, CallerFacts DEF Ended
    <3>. QED BY <3>1, <3>2, <3>3
  <2>. QED BY <1>1, <2>1, CallerFacts
<1>. QED BY <1>2, <1>3, <1>4 DEF FreshInv

LEMMA FramesStep ==
    ASSUME BaseInv, [Next]_vars
    PROVE  FramesInv'
<1>1. TypeInv /\ FramesInv
  BY DEF BaseInv, ApartInv
<1>2. /\ CurrentRun \in Nat /\ CurrentRun' \in Nat /\ CurrentRun <= CurrentRun'
  BY <1>1, RunsOnlyGrow DEF RunsGrow
<1>3. board.state = "InRun" => CurrentRun \in 1 .. CurrentRun
  BY <1>1, <1>2 DEF TypeInv, RunsMatchState, CurrentRun
<1>4. ASSUME NEW f \in board'.unacked \cup board'.acked
      PROVE  f.run \in 1 .. CurrentRun
  <2>1. CASE f \in board'.unacked
    BY <1>1, <1>3, <2>1, BoardFacts DEF FramesInv
  <2>2. CASE f \in board'.acked
    BY <1>1, <2>2, BoardFacts DEF FramesInv
  <2>. QED BY <1>4, <2>1, <2>2
<1>5. ASSUME NEW m \in net', m \notin net
      PROVE  /\ m.kind = "ack" => m.frame.run \in 1 .. CurrentRun
             /\ m.kind = "frame" => m.frame = StrayFrame \/ m.frame.run \in 1 .. CurrentRun
  <2>1. BoardTakes => CurrentRun \in 1 .. CurrentRun
    BY <1>3 DEF BoardTakes
  <2>. QED BY <1>1, <1>5, <2>1, Sent DEF Ask, StateReply, StreamMsg, FramesInv, AtStream
<1>. QED BY <1>1, <1>2, <1>4, <1>5 DEF FramesInv

LEMMA BaseStep ==
    ASSUME BaseInv, [Next]_vars
    PROVE  BaseInv'
BY ApartStep, FreshStep, FramesStep DEF BaseInv

-----------------------------------------------------------------------------
(* The control sockets *)

\* Nothing has come to a control socket and the call has not moved on.
LEMMA ControlKept ==
    ASSUME NEW s, ControlAt(s), Control(s)' \subseteq Control(s),
           caller'[s] \in {caller[s], "failed"},
           caller'[s] = "join" /\ gather'[s] \in {"recv", "finished"} => gather'[s] = gather[s]
    PROVE  ControlAt(s)'
<1>1. SUFFICES ASSUME caller'[s] \notin Abandoned
               PROVE  /\ \A m \in Control(s)' : m.kind \in KindsAt(caller[s])
                      /\ \A m, n \in Control(s)' : m = n
                      /\ caller'[s] = "join" /\ gather'[s] \in {"recv", "finished"} =>
                            Control(s)' = {}
  BY DEF Abandoned, ControlAt, KindsAt
<1>2. caller'[s] = caller[s]
  BY <1>1 DEF Abandoned
<1>. QED BY <1>1, <1>2 DEF ControlAt

LEMMA ControlGrows ==
    ASSUME TypeInv, [Next]_vars, NEW s \in Sessions, NEW m \in Control(s)', m \notin Control(s)
    PROVE  \/ Start(s) \/ Stop(s) \/ Check(s)
           \/ BoardStart \/ BoardStop \/ BoardCheck
<1>1. m \in net' /\ m \notin net /\ m.session = s /\ m.kind \in ControlKinds
  BY DEF Control
<1>. QED BY <1>1, Sent DEF Ask, StreamMsg, ControlKinds

\* The board answers the one request there is.
LEMMA BoardAnswers ==
    ASSUME NEW s \in Sessions, ControlAt(s), NEW q \in net, NEW reply,
           net' = (net \ {q}) \cup {reply}, reply.session = q.session,
           \/ q.kind = "start" /\ reply.kind = "start_ack"
           \/ q.kind = "stop" /\ reply.kind = "stop_ack"
           \/ q.kind = "check" /\ reply.kind = "state",
           UNCHANGED <<caller, gather>>
    PROVE  ControlAt(s)'
<1>1. CASE q.session # s
  <2>1. Control(s)' \subseteq Control(s)
    BY <1>1 DEF Control
  <2>. QED BY <2>1, ControlKept
<1>2. CASE q.session = s
  <2>1. q \in Control(s)
    BY <1>2 DEF Control, ControlKinds
  <2>2. SUFFICES ASSUME caller[s] \notin Abandoned PROVE ControlAt(s)'
    BY DEF ControlAt
  <2>3. /\ q.kind \in KindsAt(caller[s]) /\ Control(s) = {q}
        /\ ~ (caller[s] = "join" /\ gather[s] \in {"recv", "finished"})
    BY <2>1, <2>2 DEF ControlAt
  <2>4. reply.kind \in KindsAt(caller[s])
    BY <2>3 DEF KindsAt
  <2>5. \A m \in Control(s)' : m = reply
    BY <2>3 DEF Control
  <2>. QED BY <2>3, <2>4, <2>5 DEF ControlAt
<1>. QED BY <1>1, <1>2

\* The only datagram is taken.
LEMMA ControlTaken ==
    ASSUME NEW s \in Sessions, ControlAt(s), caller[s] \notin Abandoned, NEW q \in AtControl(s),
           net' = net \ {q}
    PROVE  Control(s)' = {}
<1>1. q \in Control(s)
  BY DEF AtControl, Control, ControlKinds
<1>2. Control(s) = {q}
  BY <1>1 DEF ControlAt
<1>. QED BY <1>2 DEF Control

\* A frame is acknowledged by the task that keeps it.
LEMMA AckSent ==
    ASSUME TypeInv, [Next]_vars, NEW m \in net', m \notin net, m.kind = "ack"
    PROVE  \E s \in Sessions : \E q \in AtStream(s) :
              /\ Receive(s) /\ m = StreamMsg("ack", s, q.frame)
              /\ frames' = [frames EXCEPT ![s] = @ \cup {q.frame}]
<1>1. /\ \A s : /\ m # Ask("start", s) /\ m # Ask("stop", s) /\ m # Ask("subscribe", s)
                /\ m # Ask("check", s) /\ m # Ask("start_ack", s) /\ m # Ask("stop_ack", s)
      /\ \A s, x : m # StateReply(s, x) /\ m # StreamMsg("frame", s, x)
  BY DEF Ask, StateReply, StreamMsg
<1>. QED BY <1>1, Sent

\* A request is sent when there is none.
LEMMA ControlSent ==
    ASSUME NEW s \in Sessions, NEW kind \in ControlKinds, Control(s) = {},
           Send({Ask(kind, s)}), kind \in KindsAt(caller'[s]),
           ~ (caller'[s] = "join" /\ gather'[s] \in {"recv", "finished"})
    PROVE  ControlAt(s)'
<1>1. \A m \in Control(s)' : m = Ask(kind, s)
  BY DEF Control, Send
<1>2. Ask(kind, s).kind = kind
  BY DEF Ask
<1>. QED BY <1>1, <1>2 DEF ControlAt

LEMMA DupsGrow ==
    ASSUME [Next]_vars
    PROVE  dups' = dups \/ dups' = dups + 1
BY DEF Next, CallerStep, Begin, BeginAborted, Start, StartAcknowledged, Stop, StopAcknowledged,
       CallerGivesUp, GatherStep, Subscribe, Receive, Check, Checked, CheckTimeout, Faults,
       CallerIOError, Abort, GatherFails, BoardStep, BoardSubscribe, BoardStart, BoardStop,
       BoardCheck, BoardTakes, BoardResends, BoardAcked, BoardFinishes, Tick, AllOver, vars,
       netVars, Send, Exchange

LEMMA ControlStep ==
    ASSUME BaseInv, ControlInv, [Next]_vars
    PROVE  ControlInv'
<1>1. /\ TypeInv /\ FreshInv /\ (\A s \in Sessions : Apart(s)) /\ dups \in Nat
      /\ caller \in [Sessions -> CallerState] /\ gather \in [Sessions -> GatherState]
  BY DEF BaseInv, ApartInv, TypeInv, TypeOK
<1>2. SUFFICES ASSUME dups' = 0, NEW s \in Sessions
               PROVE  ControlAt(s)'
  BY DEF ControlInv
<1>3. \A m, msgs : Exchange(m, msgs) => net' = (net \ {m}) \cup msgs /\ dups = 0
  BY <1>1, <1>2 DEF Exchange
<1>4. CASE Start(s)
  <2>1. dups = 0 /\ caller[s] = "sleep" /\ Send({Ask("start", s)}) /\ caller'[s] = "start"
    BY <1>1, <1>2, <1>4 DEF Start, Send, CallerTo
  <2>2. Control(s) = {}
    BY <1>2, <2>1 DEF Abandoned, ControlInv, ControlAt, KindsAt
  <2>. QED BY <2>1, <2>2, ControlSent DEF KindsAt, ControlKinds
<1>5. CASE Stop(s)
  <2>1. /\ dups = 0 /\ caller[s] = "join" /\ gather[s] = "finished"
        /\ Send({Ask("stop", s)}) /\ caller'[s] = "stop"
    BY <1>1, <1>2, <1>5 DEF Stop, Send, CallerTo
  <2>2. Control(s) = {}
    BY <1>2, <2>1 DEF Abandoned, ControlInv, ControlAt
  <2>. QED BY <2>1, <2>2, ControlSent DEF KindsAt, ControlKinds
<1>6. CASE Check(s)
  <2>1. /\ dups = 0 /\ gather[s] = "recv" /\ gatherTimer[s] = 0
        /\ Send({Ask("check", s)}) /\ caller' = caller /\ gather'[s] = "check"
    BY <1>1, <1>2, <1>6 DEF Check, Send, GatherTo, callerVars
  <2>2. caller[s] \in {"join"} \cup Abandoned
    <3>1. callerTimer[s] \in Nat /\ ControlTicks \in Nat /\ caller[s] \in CallerState
      BY <1>1, AcquisitionAssumption DEF TypeInv, TypeOK
    <3>2. Apart(s)
      BY <1>1
    <3>. QED BY <2>1, <3>1, <3>2 DEF Apart, Abandoned, CallerState, Active, Ended
  <2>3. CASE caller[s] \in Abandoned
    BY <2>1, <2>3 DEF ControlAt
  <2>4. CASE caller[s] = "join"
    <3>1. Control(s) = {}
      BY <1>2, <2>1, <2>4 DEF Abandoned, ControlInv, ControlAt
    <3>. QED BY <2>1, <2>4, <3>1, ControlSent DEF KindsAt, ControlKinds
  <2>. QED BY <2>2, <2>3, <2>4
<1>7. CASE StartAcknowledged(s) \/ StopAcknowledged(s)
  <2>1. PICK q \in AtControl(s) : Exchange(q, {})
    BY <1>7 DEF StartAcknowledged, StopAcknowledged
  <2>2. net' = net \ {q} /\ dups = 0
    BY <1>3, <2>1
  <2>3. caller[s] \notin Abandoned
    BY <1>7 DEF StartAcknowledged, StopAcknowledged, Abandoned
  <2>4. Control(s)' = {}
    BY <1>2, <2>2, <2>3, ControlTaken DEF ControlInv
  <2>. QED BY <2>4 DEF ControlAt
<1>8. CASE Checked(s)
  <2>1. PICK q \in AtControl(s) : Exchange(q, {})
    BY <1>8 DEF Checked
  <2>2. net' = net \ {q} /\ dups = 0 /\ caller' = caller
    BY <1>3, <1>8, <2>1 DEF Checked, callerVars
  <2>3. CASE caller[s] \in Abandoned
    BY <2>2, <2>3 DEF ControlAt
  <2>4. CASE caller[s] \notin Abandoned
    <3>1. Control(s)' = {}
      BY <1>2, <2>2, <2>4, ControlTaken DEF ControlInv
    <3>. QED BY <3>1 DEF ControlAt
  <2>. QED BY <2>3, <2>4
<1>9. CASE Begin(s) \/ BeginAborted(s)
  <2>1. caller[s] = "new" /\ net' = net
    BY <1>9 DEF Begin, BeginAborted, netVars
  <2>2. Control(s)' = {}
    BY <1>1, <2>1 DEF FreshInv, Control
  <2>. QED BY <2>2 DEF ControlAt
<1>10. CASE BoardStart \/ BoardStop \/ BoardCheck
  <2>1. PICK q \in net, reply \in net' :
            /\ Exchange(q, {reply}) /\ reply.session = q.session
            /\ \/ q.kind = "start" /\ reply.kind = "start_ack"
               \/ q.kind = "stop" /\ reply.kind = "stop_ack"
               \/ q.kind = "check" /\ reply.kind = "state"
    <3>1. CASE BoardStart
      <4>1. PICK q \in net : q.kind = "start" /\ Exchange(q, {Ask("start_ack", q.session)})
        BY <3>1 DEF BoardStart
      <4>2. Ask("start_ack", q.session).session = q.session
            /\ Ask("start_ack", q.session).kind = "start_ack"
        BY DEF Ask
      <4>3. Ask("start_ack", q.session) \in net'
        BY <4>1 DEF Exchange
      <4>. QED BY <4>1, <4>2, <4>3
    <3>2. CASE BoardStop
      <4>1. PICK q \in net : q.kind = "stop" /\ Exchange(q, {Ask("stop_ack", q.session)})
        BY <3>2 DEF BoardStop
      <4>2. Ask("stop_ack", q.session).session = q.session
            /\ Ask("stop_ack", q.session).kind = "stop_ack"
        BY DEF Ask
      <4>3. Ask("stop_ack", q.session) \in net'
        BY <4>1 DEF Exchange
      <4>. QED BY <4>1, <4>2, <4>3
    <3>3. CASE BoardCheck
      <4>1. PICK q \in net :
                q.kind = "check" /\ Exchange(q, {StateReply(q.session, board.state)})
        BY <3>3 DEF BoardCheck
      <4>2. StateReply(q.session, board.state).session = q.session
            /\ StateReply(q.session, board.state).kind = "state"
        BY DEF StateReply
      <4>3. StateReply(q.session, board.state) \in net'
        BY <4>1 DEF Exchange
      <4>. QED BY <4>1, <4>2, <4>3
    <3>. QED BY <1>10, <3>1, <3>2, <3>3
  <2>2. net' = (net \ {q}) \cup {reply} /\ dups = 0
    BY <1>3, <2>1
  <2>3. UNCHANGED <<caller, gather>>
    BY <1>10, BoardKeepsTasks DEF BoardStep, callerVars, gatherVars
  <2>. QED BY <1>2, <2>1, <2>2, <2>3, BoardAnswers DEF ControlInv
<1>11. ASSUME ~ Start(s), ~ Stop(s), ~ Check(s), ~ StartAcknowledged(s), ~ StopAcknowledged(s),
              ~ Checked(s), ~ Begin(s), ~ BeginAborted(s), ~ BoardStart, ~ BoardStop, ~ BoardCheck
       PROVE  ControlAt(s)'
  <2>1. Control(s)' \subseteq Control(s)
    BY <1>1, <1>11, ControlGrows
  <2>2. dups = 0
    BY <1>1, <1>2, DupsGrow
  <2>3. /\ caller'[s] \in {caller[s], "failed"}
        /\ caller'[s] = "join" /\ gather'[s] \in {"recv", "finished"} => gather'[s] = gather[s]
    <3>1. CASE SessionStep(s)
      <4>. USE DEF CallerTo, GatherTo, GatherEnds, callerVars, gatherVars
      <4>1. CASE CallerGivesUp(s) \/ Faults(s) \/ CheckTimeout(s)
        BY <1>1, <4>1 DEF CallerGivesUp, Faults, CallerIOError, Abort, GatherFails, CheckTimeout
      <4>2. CASE Receive(s)
        BY <1>1, <4>2 DEF Receive
      <4>3. CASE Subscribe(s)
        BY <1>1, <4>3 DEF Subscribe, Apart
      <4>. QED BY <1>11, <3>1, <4>1, <4>2, <4>3 DEF SessionStep, CallerStep, GatherStep
    <3>2. CASE ~ SessionStep(s)
      BY <1>1, <3>2, Steps, OthersKept, BoardKeepsTasks DEF callerVars, gatherVars, Idle
    <3>. QED BY <3>1, <3>2
  <2>. QED BY <1>2, <2>1, <2>2, <2>3, ControlKept DEF ControlInv
<1>. QED BY <1>4, <1>5, <1>6, <1>7, <1>8, <1>9, <1>10, <1>11

-----------------------------------------------------------------------------
(* What a stop leaves *)

\* Without duplicates what stop_acquisition takes for its acknowledgement is one.
LEMMA AcknowledgedStop ==
    ASSUME BaseInv, ControlInv, dups = 0, NEW s \in Sessions, StopAcknowledged(s)
    PROVE  \E m \in net : m.kind = "stop_ack" /\ m.session = s
<1>1. PICK m \in AtControl(s) : caller[s] = "stop"
  BY DEF StopAcknowledged
<1>2. m \in Control(s) /\ m.kind \in {"start_ack", "stop_ack", "state"}
  BY DEF AtControl, Control, ControlKinds
<1>3. m.kind \in {"stop", "stop_ack"}
  BY <1>1, <1>2 DEF Abandoned, ControlInv, ControlAt, KindsAt
<1>. QED BY <1>2, <1>3 DEF Control

LEMMA StopStep ==
    ASSUME BaseInv, ControlInv, StopInv, [Next]_vars
    PROVE  StopInv'
<1>1. TypeInv /\ dups \in Nat /\ board.stopped \subseteq board'.stopped
  BY BoardFacts DEF BaseInv, ApartInv, TypeInv, TypeOK
<1>2. ASSUME NEW m \in net', m.kind = "stop_ack"
      PROVE  m.session \in board'.stopped
  <2>1. CASE m \in net
    BY <1>1, <1>2, <2>1 DEF StopInv
  <2>2. CASE m \notin net
    <3>1. \E q \in net :
              m = Ask("stop_ack", q.session) /\ board'.stopped = board.stopped \cup {q.session}
      BY <1>1, <1>2, <2>2, Sent DEF Ask, StateReply, StreamMsg
    <3>. QED BY <3>1 DEF Ask
  <2>. QED BY <2>1, <2>2
<1>3. ASSUME dups' = 0, NEW s \in Sessions, caller'[s] = "ok"
      PROVE  s \in board'.stopped
  <2>1. dups = 0
    BY <1>1, <1>3, DupsGrow
  <2>2. CASE caller[s] = "ok"
    BY <1>1, <2>1, <2>2 DEF StopInv
  <2>3. CASE caller[s] # "ok"
    <3>1. StopAcknowledged(s)
      BY <1>1, <1>3, <2>3, CallerFacts
    <3>. QED BY <1>1, <2>1, <3>1, AcknowledgedStop DEF StopInv
  <2>. QED BY <2>2, <2>3
<1>. QED BY <1>2, <1>3 DEF StopInv

-----------------------------------------------------------------------------
(* What is a call's own *)

\* A run's owner stays, and so does what was taken in it.
LEMMA OwnKept ==
    ASSUME RunsGrow, NEW s, NEW f, f.run \in 1 .. CurrentRun
    PROVE  /\ f.run \in 1 .. CurrentRun'
           /\ Own(s, f)' <=> Own(s, f)
BY DEF RunsGrow, Own

\* The call goes on, as the latest one.
LEMMA GoesOn ==
    ASSUME BaseInv, [Next]_vars, NEW s \in Sessions, Going(s)', ~ Begin(s)
    PROVE  /\ Going(s) /\ quiet'[s] = quiet[s]
           /\ Latest(s)' => Latest(s)
           /\ LastEntered(s)' => LastEntered(s)
<1>1. TypeInv /\ caller \in [Sessions -> CallerState]
  BY DEF BaseInv, ApartInv, TypeInv, TypeOK
<1>2. Going(s)
  BY <1>1, CallerFacts DEF Going, CallerState, Active, Ended
<1>3. quiet'[s] = quiet[s]
  BY <1>1, GatherFacts
<1>4. Latest(s)' => Latest(s)
  BY <1>1, CallerFacts DEF Latest
<1>5. LastEntered(s)' => LastEntered(s)
  BY <1>1, CallerFacts DEF LastEntered
<1>. QED BY <1>2, <1>3, <1>4, <1>5

\* The other calls are over or have not begun.
LEMMA OthersAreOver ==
    ASSUME BaseInv, NEW s \in Sessions, Going(s), Latest(s), NEW r \in Sessions, r # s
    PROVE  caller[r] \in Ended \cup {"new"}
<1>1. caller[s] \notin {"new", "dropped"}
  BY DEF Going, Active
<1>2. r < s \/ r > s
  BY AcquisitionAssumption DEF Sessions
<1>. QED BY <1>1, <1>2 DEF BaseInv, FreshInv, Latest, Ended

LEMMA QuietStep ==
    ASSUME BaseInv, ControlInv, QuietInv, [Next]_vars
    PROVE  QuietInv'
<1>1. /\ TypeInv /\ FreshInv /\ FramesInv /\ RunsGrow /\ dups \in Nat
  BY RunsOnlyGrow DEF BaseInv, ApartInv, TypeInv, TypeOK
<1>2. SUFFICES ASSUME NEW s \in Sessions, Going(s)', "board" \in quiet'[s], Latest(s)'
               PROVE  QuietAt(s)'
  BY DEF QuietInv
<1>3. CASE Begin(s)
  <2>1. /\ caller[s] = "new" /\ caller'[s] = "sleep" /\ quiet'[s] = Quiet
        /\ net' = net /\ board' = board
    <3>1. caller' \in {[caller EXCEPT ![s] = "sleep"], [caller EXCEPT ![s] = "failed"]}
      BY <1>3 DEF Begin, CallerTo
    <3>2. caller'[s] = "sleep"
      BY <1>1, <1>2, <3>1 DEF TypeInv, TypeOK, Going, Active
    <3>. QED BY <1>1, <1>3, <3>2 DEF Begin, CallerTo, TypeInv, TypeOK, netVars
  <2>2. BoardQuiet
    BY <1>2, <2>1 DEF Quiet
  <2>3. \A m \in net : m.session # s
    BY <1>1, <2>1 DEF FreshInv
  <2>. QED BY <2>1, <2>2, <2>3 DEF BoardQuiet, QuietAt, Halted
<1>4. CASE ~ Begin(s)
  <2>1. Going(s) /\ Latest(s) /\ QuietAt(s) /\ caller[s] \notin Abandoned
    BY <1>2, <1>4, GoesOn DEF QuietInv, Going, Active, Abandoned
  <2>2. \A r \in Sessions : r # s => caller[r] \in Ended \cup {"new"}
    BY <2>1, OthersAreOver
  <2>3. ASSUME NEW m \in net', m.kind = "start"
        PROVE  m.session = s
    <3>1. CASE m \in net
      BY <2>1, <2>3, <3>1 DEF QuietAt
    <3>2. CASE m \notin net
      <4>1. PICK r \in Sessions : Start(r) /\ m = Ask("start", r)
        BY <1>1, <2>3, <3>2, Sent DEF Ask, StateReply, StreamMsg
      <4>2. r = s
        BY <2>2, <4>1 DEF Start, Ended
      <4>. QED BY <4>1, <4>2 DEF Ask
    <3>. QED BY <3>1, <3>2
  <2>4. board.state = "InRun" => CurrentRun \in 1 .. CurrentRun /\ board.runs[CurrentRun].owner = s
    BY <1>1, <2>1 DEF QuietAt, TypeInv, RunsMatchState, CurrentRun, RunsGrow
  <2>5. board'.state = "InRun" => board'.runs[CurrentRun'].owner = s
    <3>1. SUFFICES ASSUME board'.state = "InRun" PROVE board'.runs[CurrentRun'].owner = s
      OBVIOUS
    <3>2. CASE CurrentRun' = CurrentRun
      <4>1. board.state = "InRun"
        BY <1>1, <3>1, <3>2, BoardFacts DEF RunsGrow
      <4>. QED BY <1>1, <2>4, <3>2, <4>1 DEF RunsGrow
    <3>3. CASE CurrentRun' # CurrentRun
      BY <1>1, <2>1, <3>3, BoardFacts DEF QuietAt
    <3>. QED BY <3>2, <3>3
  <2>6. ASSUME NEW f \in board'.unacked
        PROVE  Own(s, f)'
    <3>1. Own(s, f)
      BY <1>1, <2>1, <2>4, BoardFacts DEF QuietAt, Own
    <3>2. f.run \in 1 .. CurrentRun
      BY <3>1 DEF Own
    <3>. QED BY <1>1, <3>1, <3>2, OwnKept
  <2>7. ASSUME NEW m \in net', m.kind = "frame", m.session = s, m.frame # StrayFrame
        PROVE  Own(s, m.frame)'
    <3>1. Own(s, m.frame)
      <4>1. CASE m \in net
        BY <2>1, <2>7, <4>1 DEF QuietAt
      <4>2. CASE m \notin net
        <5>1. \/ BoardTakes /\ m.frame.run = CurrentRun
              \/ m.frame \in board.unacked
          BY <1>1, <2>7, <4>2, Sent DEF Ask, StateReply, StreamMsg
        <5>. QED BY <2>1, <2>4, <5>1 DEF BoardTakes, QuietAt, Own
      <4>. QED BY <4>1, <4>2
    <3>2. m.frame.run \in 1 .. CurrentRun
      BY <3>1 DEF Own
    <3>. QED BY <1>1, <3>1, <3>2, OwnKept
  <2>8. ASSUME dups' = 0, Halted(s)'
        PROVE  board'.state # "InRun"
    <3>1. dups = 0
      BY <1>1, <2>8, DupsGrow
    <3>2. CASE Halted(s)
      <4>1. board.state # "InRun"
        BY <2>1, <3>1, <3>2 DEF QuietAt
      <4>2. ASSUME NEW m \in net, m.kind = "start" PROVE FALSE
        <5>1. m \in Control(s)
          BY <2>1, <4>2 DEF QuietAt, Control, ControlKinds
        <5>2. CASE caller[s] = "ok"
          BY <3>1, <5>1, <5>2 DEF Abandoned, ControlInv, ControlAt, KindsAt
        <5>3. CASE \E n \in net : n.kind = "stop_ack" /\ n.session = s
          <6>1. PICK n \in Control(s) : n.kind = "stop_ack"
            BY <5>3 DEF Control, ControlKinds
          <6>. QED BY <2>1, <3>1, <4>2, <5>1, <6>1 DEF ControlInv, ControlAt
        <5>. QED BY <3>2, <5>2, <5>3 DEF Halted
      <4>3. CurrentRun' = CurrentRun
        BY <1>1, <4>2, BoardFacts
      <4>. QED BY <1>1, <4>1, <4>3, BoardFacts DEF RunsGrow
    <3>3. CASE ~ Halted(s)
      <4>1. ~ (caller'[s] = "ok")
        BY <1>1, <3>1, <3>3, CallerFacts, AcknowledgedStop DEF Halted
      <4>2. PICK m \in net' : m.kind = "stop_ack" /\ m.session = s
        BY <2>8, <4>1 DEF Halted
      <4>3. BoardStop
        BY <1>1, <3>3, <4>2, Sent DEF Halted, Ask, StateReply, StreamMsg
      <4>. QED BY <1>1, <4>3 DEF BoardStop, TypeInv, TypeOK
    <3>. QED BY <3>2, <3>3
  <2>. QED BY <2>3, <2>5, <2>6, <2>7, <2>8 DEF QuietAt
<1>. QED BY <1>3, <1>4

LEMMA OwnStep ==
    ASSUME BaseInv, QuietInv, OwnInv, [Next]_vars
    PROVE  OwnInv'
<1>1. /\ TypeInv /\ FreshInv /\ RunsGrow /\ \A s \in Sessions : Apart(s)
  BY RunsOnlyGrow DEF BaseInv, ApartInv
<1>2. SUFFICES ASSUME NEW s \in Sessions, Going(s)', "board" \in quiet'[s],
                      NEW f \in frames'[s], f # StrayFrame
               PROVE  Own(s, f)'
  BY DEF OwnInv
<1>3. CASE Begin(s)
  <2>1. caller[s] = "new" /\ frames' = frames
    BY <1>3 DEF Begin
  <2>. QED BY <1>1, <1>2, <2>1 DEF FreshInv
<1>4. CASE ~ Begin(s)
  <2>1. Going(s) /\ "board" \in quiet[s]
    BY <1>2, <1>4, GoesOn
  <2>2. \A g \in frames[s] : g # StrayFrame => Own(s, g)
    BY <2>1 DEF OwnInv
  <2>3. Own(s, f)
    <3>1. CASE f \in frames[s]
      BY <1>2, <2>2, <3>1
    <3>2. CASE f \notin frames[s]
      <4>1. Receive(s)
        BY <1>1, <1>2, <3>2, GatherFacts
      <4>2. PICK m \in AtStream(s) : frames' = [frames EXCEPT ![s] = @ \cup {m.frame}]
        BY <4>1 DEF Receive
      <4>3. f = m.frame
        BY <1>1, <1>2, <3>2, <4>2 DEF TypeInv, TypeOK
      <4>4. Latest(s)
        <5>1. caller[s] \notin Ended
          BY <1>1, <2>1, <4>1 DEF Receive, Apart, Going, Active, Ended
        <5>. QED BY <1>1, <5>1 DEF FreshInv, Latest, Sessions, CallerState
      <4>. QED BY <1>2, <2>1, <4>2, <4>3, <4>4 DEF QuietInv, QuietAt, AtStream
    <3>. QED BY <3>1, <3>2
  <2>4. f.run \in 1 .. CurrentRun
    BY <2>3 DEF Own
  <2>. QED BY <1>1, <2>3, <2>4, OwnKept
<1>. QED BY <1>3, <1>4

LEMMA AckStep ==
    ASSUME BaseInv, AckInv, [Next]_vars
    PROVE  AckInv'
<1>1. /\ TypeInv /\ FreshInv /\ FramesInv /\ RunsGrow
      /\ caller \in [Sessions -> CallerState] /\ gather \in [Sessions -> GatherState]
  BY RunsOnlyGrow DEF BaseInv, ApartInv, TypeInv, TypeOK
<1>2. SUFFICES ASSUME NEW s \in Sessions, Going(s)', "tasks" \in quiet'[s], LastEntered(s)'
               PROVE  AckAt(s)'
  BY DEF AckInv
<1>3. CASE Begin(s)
  <2>1. /\ caller[s] = "new" /\ caller'[s] = "sleep" /\ quiet'[s] = Quiet
        /\ net' = net /\ board' = board /\ \A r \in Sessions : r # s => gather'[r] = gather[r]
    <3>1. caller' \in {[caller EXCEPT ![s] = "sleep"], [caller EXCEPT ![s] = "failed"]}
      BY <1>3 DEF Begin, CallerTo
    <3>2. caller'[s] = "sleep"
      BY <1>1, <1>2, <3>1 DEF Going, Active
    <3>. QED BY <1>1, <1>3, <3>2 DEF Begin, CallerTo, GatherTo, TypeInv, TypeOK, netVars
  <2>2. TasksQuiet
    BY <1>2, <2>1 DEF Quiet
  <2>3. \A f : ~ Own(s, f)'
    BY <1>1, <2>1 DEF FreshInv, Own, CurrentRun
  <2>. QED BY <2>1, <2>2, <2>3 DEF TasksQuiet, AckAt, Own
<1>4. CASE ~ Begin(s)
  <2>1. Going(s) /\ AckAt(s)
    BY <1>2, <1>4, GoesOn DEF AckInv
  <2>2. ASSUME NEW r \in Sessions, r # s
        PROVE  gather'[r] \notin Alive
    <3>1. ~ Begin(r) /\ ~ BeginAborted(r)
      <4>1. CASE r < s
        <5>1. caller[s] \notin {"new", "dropped"}
          BY <2>1 DEF Going, Active
        <5>. QED BY <1>1, <4>1, <5>1 DEF FreshInv, Begin, BeginAborted, Ended
      <4>2. CASE r > s
        <5>1. caller'[r] = "new"
          BY <1>2, <4>2 DEF LastEntered
        <5>. QED BY <1>1, <5>1 DEF Begin, BeginAborted, CallerTo
      <4>. QED BY <2>2, <4>1, <4>2 DEF Sessions
    <3>. QED BY <1>1, <2>1, <2>2, <3>1, GatherFacts DEF AckAt
  <2>3. SUFFICES ASSUME gather'[s] # "failed"
                 PROVE  /\ \A f \in board'.acked : Own(s, f)' => f \in frames'[s]
                        /\ \A m \in net' : m.kind = "ack" /\ Own(s, m.frame)' => m.frame \in frames'[s]
    BY <2>2 DEF AckAt
  <2>8. ~ BeginAborted(s)
    BY <1>1, <2>1 DEF Going, Active, BeginAborted
  <2>4. /\ \A f \in board.acked : Own(s, f) => f \in frames[s]
        /\ \A m \in net : m.kind = "ack" /\ Own(s, m.frame) => m.frame \in frames[s]
    BY <1>1, <1>4, <2>1, <2>3, <2>8, GatherFacts DEF AckAt
  <2>5. frames[s] \subseteq frames'[s]
    <3>1. Receive(s) => frames[s] \subseteq frames'[s]
      BY DEF Receive, TypeInv, TypeOK, BaseInv, ApartInv
    <3>. QED BY <1>1, <2>3, <3>1, GatherFacts
  <2>6. ASSUME NEW f \in board'.acked, Own(s, f)'
        PROVE  f \in frames'[s]
    <3>1. CASE f \in board.acked
      <4>1. f.run \in 1 .. CurrentRun
        BY <1>1, <3>1 DEF FramesInv
      <4>. QED BY <1>1, <2>4, <2>5, <2>6, <3>1, <4>1, OwnKept
    <3>2. CASE f \notin board.acked
      <4>1. PICK m \in net : m.kind = "ack" /\ m.frame = f
        BY <1>1, <3>2, <2>6, BoardFacts
      <4>2. f.run \in 1 .. CurrentRun
        BY <1>1, <4>1 DEF FramesInv
      <4>. QED BY <1>1, <2>4, <2>5, <2>6, <4>1, <4>2, OwnKept
    <3>. QED BY <3>1, <3>2
  <2>7. ASSUME NEW m \in net', m.kind = "ack", Own(s, m.frame)'
        PROVE  m.frame \in frames'[s]
    <3>1. CASE m \in net
      <4>1. m.frame.run \in 1 .. CurrentRun
        BY <1>1, <2>7, <3>1 DEF FramesInv
      <4>. QED BY <1>1, <2>4, <2>5, <2>7, <3>1, <4>1, OwnKept
    <3>2. CASE m \notin net
      <4>1. PICK r \in Sessions : \E q \in AtStream(r) :
                /\ Receive(r) /\ m = StreamMsg("ack", r, q.frame)
                /\ frames' = [frames EXCEPT ![r] = @ \cup {q.frame}]
        BY <1>1, <2>7, <3>2, AckSent
      <4>2. r = s
        BY <2>1, <4>1 DEF AckAt, Receive, Alive
      <4>. QED BY <1>1, <4>1, <4>2 DEF StreamMsg, TypeInv, TypeOK
    <3>. QED BY <3>1, <3>2
  <2>. QED BY <2>6, <2>7
<1>. QED BY <1>3, <1>4

-----------------------------------------------------------------------------
(* The theorems *)

LEMMA CallInvInit == Init => CallInv
<1>. SUFFICES ASSUME Init PROVE CallInv
  OBVIOUS
<1>1. ApartInv
  BY InitTypes DEF Init, ApartInv, Apart
<1>2. /\ \A s \in Sessions : caller[s] = "new" /\ frames[s] = {} /\ s # None
      /\ net = {} /\ board.unacked = {} /\ board.acked = {} /\ CurrentRun = 0
      /\ board.subscriber = None
  BY DEF Init, CurrentRun, Sessions, None
<1>3. FreshInv /\ FramesInv
  BY <1>2 DEF FreshInv, FramesInv
<1>4. ControlInv /\ StopInv
  BY <1>2 DEF ControlInv, ControlAt, Control, StopInv
<1>5. QuietInv /\ OwnInv /\ AckInv
  BY <1>2 DEF QuietInv, OwnInv, AckInv, Going, Active
<1>. QED BY <1>1, <1>3, <1>4, <1>5 DEF CallInv, BaseInv

LEMMA CallInvStep == CallInv /\ [Next]_vars => CallInv'
BY BaseStep, ControlStep, StopStep, QuietStep, OwnStep, AckStep DEF CallInv

LEMMA CallInvHolds == Spec => []CallInv
BY CallInvInit, CallInvStep, PTL DEF Spec

\* Unless the network duplicates datagrams, acquire_frames returns Ok only after
\* the board has executed its stop request, however many datagrams were lost,
\* late or overtaken and however the calls before it ended.
THEOREM OkMeansStopped == Spec => []OkStopped
<1>1. CallInv => OkStopped
  BY DEF CallInv, StopInv, OkStopped
<1>. QED BY <1>1, CallInvHolds, PTL

\* And if the board was quiet before, it is out of its run when the call has
\* returned, with nothing on its way that would start it again.
THEOREM OkMeansIdle == Spec => []OkLeavesBoardIdle
<1>1. CallInv => OkLeavesBoardIdle
  <2>1. SUFFICES ASSUME CallInv, dups = 0, NEW s \in Sessions, caller[s] = "ok",
                        "board" \in quiet[s], Latest(s)
                 PROVE  board.state # "InRun" /\ \A m \in net : m.kind # "start"
    BY DEF OkLeavesBoardIdle, Latest
  <2>2. QuietAt(s) /\ ControlAt(s)
    BY <2>1 DEF CallInv, QuietInv, ControlInv, Going
  <2>3. \A m \in net : m.kind = "start" => m \in Control(s)
    BY <2>2 DEF QuietAt, Control, ControlKinds
  <2>. QED BY <2>1, <2>2, <2>3 DEF Abandoned, QuietAt, Halted, ControlAt, KindsAt
<1>. QED BY <1>1, CallInvHolds, PTL

\* A call before which the board was quiet returns frames of its own run only,
\* whatever was duplicated or sent again.
THEOREM FramesAreOwn == Spec => []OnlyOwnFrames
<1>1. CallInv => OnlyOwnFrames
  BY DEF CallInv, OwnInv, OnlyOwnFrames, Going, Own
<1>. QED BY <1>1, CallInvHolds, PTL

\* A call before which every gather task had ended has returned every frame of
\* its run that the board was told had been received.
THEOREM AckedAreReturned == Spec => []AckedFramesReturned
<1>1. CallInv => AckedFramesReturned
  <2>1. SUFFICES ASSUME CallInv, NEW s \in Sessions, caller[s] = "ok", "tasks" \in quiet[s],
                        LastEntered(s), NEW f \in board.acked, board.runs[f.run].owner = s
                 PROVE  f \in frames[s]
    BY DEF AckedFramesReturned, LastEntered
  <2>2. gather[s] = "finished"
    BY <2>1 DEF CallInv, BaseInv, ApartInv, Apart
  <2>3. Own(s, f)
    BY <2>1 DEF CallInv, BaseInv, FramesInv, Own
  <2>. QED BY <2>1, <2>2, <2>3 DEF CallInv, AckInv, AckAt, Going
<1>. QED BY <1>1, CallInvHolds, PTL
=============================================================================
