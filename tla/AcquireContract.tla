-------------------------- MODULE AcquireContract --------------------------
(***************************************************************************)
(* What TQDC::acquire_frames (tqdc/src/lib.rs 244-267) promises to the     *)
(* server: one call runs at a time, the board only runs what a call has    *)
(* asked for, and a call that returns Ok has measured, that is, a run of   *)
(* its own was begun and then a run went on to its time limit.  A call may *)
(* fail at any time, at once beside another one, too, and a run it has     *)
(* asked for may begin even later.                                         *)
(***************************************************************************)
EXTENDS Integers, Sequences

CONSTANT Sessions   \* the calls, numbered as they are entered

VARIABLES
    call,   \* "new", "running", "ok" or "failed"
    runs    \* the runs of the board: whose they are, and whether they are over

vars == <<call, runs>>

Init ==
    /\ call = [s \in Sessions |-> "new"]
    /\ runs = <<>>

Measured(s) ==
    \E r \in 1 .. Len(runs) :
        runs[r].owner = s /\ \E q \in r .. Len(runs) : runs[q].over

Begin(s) ==
    /\ call[s] = "new"
    /\ \/ /\ \A r \in Sessions : r < s => call[r] \in {"ok", "failed"}
          /\ call' = [call EXCEPT ![s] = "running"]
       \/ /\ \A r \in Sessions : r < s => call[r] # "new"
          /\ call' = [call EXCEPT ![s] = "failed"]
    /\ UNCHANGED runs

Succeed(s) ==
    /\ call[s] = "running" /\ Measured(s)
    /\ call' = [call EXCEPT ![s] = "ok"]
    /\ UNCHANGED runs

Fail(s) ==
    /\ call[s] = "running"
    /\ call' = [call EXCEPT ![s] = "failed"]
    /\ UNCHANGED runs

RunBegins(s) ==
    /\ call[s] # "new"
    /\ runs' = Append(runs, [owner |-> s, over |-> FALSE])
    /\ UNCHANGED call

\* Only the last run can be going on.
RunEnds ==
    /\ runs # <<>> /\ ~ runs[Len(runs)].over
    /\ runs' = [runs EXCEPT ![Len(runs)].over = TRUE]
    /\ UNCHANGED call

Next ==
    \/ \E s \in Sessions : Begin(s) \/ Succeed(s) \/ Fail(s) \/ RunBegins(s)
    \/ RunEnds

Spec == Init /\ [][Next]_vars
=============================================================================
