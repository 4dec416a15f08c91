--------------------------- MODULE MCAcquisition ---------------------------
(***************************************************************************)
(* Acquisition for TLC.  Two states that differ only in datagrams no task  *)
(* will ever take are one state to the search: those for the sockets of a  *)
(* session whose caller and gather task have both ended, and the requests  *)
(* of its check_run_state, whose only effect is such a datagram.           *)
(***************************************************************************)
EXTENDS Acquisition

ControlOpen(s) == caller[s] \notin Ended \/ gather[s] \in Alive

Matters(m) ==
    CASE m.kind = "frame" -> gather[m.session] \in Alive
      [] m.kind \in {"start_ack", "stop_ack", "state", "check"} -> ControlOpen(m.session)
      [] OTHER -> TRUE

View == <<callerVars, gatherVars, board, {m \in net : Matters(m)}, dups>>
=============================================================================
