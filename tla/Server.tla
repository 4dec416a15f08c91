------------------------------- MODULE Server -------------------------------
(***************************************************************************)
(* tqdc-server (apps/src/bin/tqdc-server.rs): the accept loop, the task of *)
(* each connection and the backup files.                                   *)
(*                                                                         *)
(* A step of a task goes from one await to the next.  When a connection is *)
(* accepted the task of the one before is aborted: it is dropped at the    *)
(* next await that is not ready.  Until then, for at most LingerTicks (the *)
(* assembly of a point has no await in it), it goes on beside the new one. *)
(* A file operation that was handed to the runtime is carried out even if  *)
(* the task that asked for it is dropped.                                  *)
(*                                                                         *)
(* An acquisition is a call of acquire_frames: it takes at least           *)
(* AcquireTicks and ends as AcquireContract says.  What it measured is     *)
(* known by the request it answers.                                        *)
(***************************************************************************)
EXTENDS Integers, Sequences, FiniteSets

CONSTANTS
    N,                \* the number of connections
    MaxRequests,      \* bound: requests a client sends
    BackupFolder,     \* TRUE: --backup-folder is given
    TicksPerSecond,   \* file names tell seconds apart
    AcquireTicks,
    LingerTicks,
    MaxClock          \* bound: ticks of the wall clock

ASSUME ServerAssumption ==
    /\ N \in Nat
    /\ MaxRequests \in Nat
    /\ BackupFolder \in BOOLEAN
    /\ TicksPerSecond \in Nat \ {0}
    /\ {AcquireTicks, LingerTicks, MaxClock} \subseteq Nat

Connections == 1 .. N   \* in the order they are accepted

VARIABLES
    client,     \* what each client has sent and received, and whether it is there
    up,         \* is the server running?
    current,    \* the connection accepted last: whose task current_connection is
    task,       \* where each connection's task is
    timer,      \* what is left of its acquisition, or of its life once aborted
    file,       \* the backup file a task is writing
    files,      \* the backup folder: the point each file holds; {}: no file, or not a
                \* whole point
    pending,    \* file operations handed to the runtime
    clock,
    dropped     \* the connections that left a call as soon as they entered it (history)

vars == <<client, up, current, task, timer, file, files, pending, clock, dropped>>

-----------------------------------------------------------------------------

\* AcquirePoint, or anything else: Init, and what is not a command at all, are
\* answered at once.
Request == {"point", "other"}

\* A point, by the connection and the number of the request it was taken for.
Point == [connection : Connections, number : Nat]
NoPoint == [connection |-> 0, number |-> 0]

Reply == [kind : {"Other", "Error"}, point : {NoPoint}]
             \cup [kind : {"AcquirePoint"}, point : Point]

PointReply(p) == [kind |-> "AcquirePoint", point |-> p]
OtherReply(kind) == [kind |-> kind, point |-> NoPoint]

TaskState ==
    {"none", "reading", "acquiring", "assembling", "creating", "replying", "over"}
Running == TaskState \ {"none", "over"}

\* "%Y-%m-%d-%H-%M-%S.df" of the local time.
Name(t) == t \div TicksPerSecond
Names == 0 .. Name(MaxClock)

Operation == [op : {"create", "write"}, name : Names, point : Point]
Op(op, name, p) == [op |-> op, name |-> name, point |-> p]

\* The request a task is at is the one after those that were answered.
Answered(c) == Len(client[c].replies)
PointOf(c) == [connection |-> c, number |-> Answered(c) + 1]
Waiting(c) == Answered(c) < Len(client[c].requests)

TaskTo(c, state) == task' = [task EXCEPT ![c] = state]

\* The task of a connection that is not the latest has been aborted.
Aborted(c) == c < current

-----------------------------------------------------------------------------
(* Clients *)

ClientSends(c) ==
    /\ client[c].open
    /\ Len(client[c].requests) < MaxRequests
    /\ \E r \in Request : client' = [client EXCEPT ![c].requests = Append(@, r)]
    /\ UNCHANGED <<up, current, task, timer, file, files, pending, clock, dropped>>

\* The client is gone, or has sent what is not a message: no more is read of it.
ClientCloses(c) ==
    /\ client[c].open /\ task[c] # "none"
    /\ client' = [client EXCEPT ![c].open = FALSE]
    /\ UNCHANGED <<up, current, task, timer, file, files, pending, clock, dropped>>

-----------------------------------------------------------------------------
(* The accept loop *)

\* Mutant: the task of the connection before is not aborted.
AcceptBeside ==
    /\ up /\ current < N
    /\ current' = current + 1
    /\ TaskTo(current + 1, "reading")
    /\ UNCHANGED <<client, up, timer, file, files, pending, clock, dropped>>

\* Accept a connection, abort the task of the one before and spawn another.  A
\* task that waits for the board is not running, so that it is dropped at once.
Accept ==
    /\ up /\ current < N
    /\ current' = current + 1
    /\ task' = [c \in Connections |->
                  CASE c = current + 1 -> "reading"
                    [] c = current /\ task[c] = "acquiring" -> "over"
                    [] OTHER -> task[c]]
    /\ timer' = [c \in Connections |->
                  IF c = current /\ task[c] \in Running THEN LingerTicks ELSE timer[c]]
    /\ UNCHANGED <<client, up, file, files, pending, clock, dropped>>

\* accept fails: main returns, and every task is dropped with the runtime.
AcceptFails ==
    /\ up /\ up' = FALSE
    /\ task' = [c \in Connections |-> IF task[c] \in Running THEN "over" ELSE task[c]]
    /\ UNCHANGED <<client, current, timer, file, files, pending, clock, dropped>>

\* An aborted task is dropped.
Dropped(c) ==
    /\ Aborted(c) /\ task[c] \in Running
    /\ TaskTo(c, "over")
    /\ UNCHANGED <<client, up, current, timer, file, files, pending, clock, dropped>>

-----------------------------------------------------------------------------
(* The task of a connection *)

Answer(c, reply) ==
    /\ client' = [client EXCEPT ![c].replies = Append(@, reply)]
    /\ TaskTo(c, "reading")

\* read_df_message, and the answer to what needs no acquisition.
ReadOther(c) ==
    /\ task[c] = "reading" /\ Waiting(c)
    /\ client[c].requests[Answered(c) + 1] = "other"
    /\ Answer(c, OtherReply("Other"))
    /\ UNCHANGED <<up, current, timer, file, files, pending, clock, dropped>>

Asked(c) ==
    /\ task[c] = "reading" /\ Waiting(c)
    /\ client[c].requests[Answered(c) + 1] = "point"

\* Command::AcquirePoint.
ReadPoint(c) ==
    /\ Asked(c) /\ ~ Aborted(c)
    /\ TaskTo(c, "acquiring") /\ timer' = [timer EXCEPT ![c] = AcquireTicks]
    /\ UNCHANGED <<client, up, current, file, files, pending, clock, dropped>>

\* The same in a task that was aborted and has not waited since: acquire_frames
\* spawns its gather task beside the call of the latest connection, and is dropped
\* in its sleep; or it cannot bind its sockets.
ReadPointAborted(c) ==
    /\ Asked(c) /\ Aborted(c)
    /\ \/ TaskTo(c, "over") /\ dropped' = dropped \cup {c} /\ UNCHANGED client
       \/ Answer(c, OtherReply("Error")) /\ UNCHANGED dropped
    /\ UNCHANGED <<up, current, timer, file, files, pending, clock>>

\* An expect, an unwrap or a checked operation fails: the client is gone or what
\* it sent is no message, a file cannot be created, the configuration cannot be
\* read, a packet cannot be merged, the time asked for is too long.
Panics(c) ==
    /\ \/ task[c] \in {"reading", "replying"} /\ ~ client[c].open
       \/ task[c] \in {"acquiring", "assembling", "creating"}
    /\ TaskTo(c, "over")
    /\ UNCHANGED <<client, up, current, timer, file, files, pending, clock, dropped>>

\* Mutant: an acquisition that failed is not answered.
AcquireFailsSilently(c) ==
    /\ task[c] \in {"acquiring", "assembling"}
    /\ TaskTo(c, "reading")
    /\ UNCHANGED <<client, up, current, timer, file, files, pending, clock, dropped>>

\* Mutant: an acquisition without events is answered as a point.
AnswersEmptyPoint(c) ==
    /\ task[c] \in {"acquiring", "assembling"}
    /\ Answer(c, PointReply(NoPoint))
    /\ UNCHANGED <<up, current, timer, file, files, pending, clock, dropped>>

\* acquire_point returns Err: the acquisition failed, or there were no events.
AcquireFails(c) ==
    /\ task[c] \in {"acquiring", "assembling"}
    /\ Answer(c, OtherReply("Error"))
    /\ UNCHANGED <<up, current, timer, file, files, pending, clock, dropped>>

\* acquire_frames returns the frames.
AcquireReturns(c) ==
    /\ task[c] = "acquiring" /\ timer[c] = 0
    /\ TaskTo(c, "assembling")
    /\ UNCHANGED <<client, up, current, timer, file, files, pending, clock, dropped>>

\* Mutant: the point is answered first and written afterwards, without waiting.
AssembledUnsaved(c) ==
    /\ task[c] = "assembling"
    /\ TaskTo(c, "replying")
    /\ IF BackupFolder
       THEN pending' = pending \cup {Op("create", Name(clock), PointOf(c))}
       ELSE UNCHANGED pending
    /\ UNCHANGED <<client, up, current, timer, file, files, clock, dropped>>

\* The point is made: reply, or first create the backup file.
Assembled(c) ==
    /\ task[c] = "assembling"
    /\ IF BackupFolder
       THEN /\ TaskTo(c, "creating")
            /\ file' = [file EXCEPT ![c] = Name(clock)]
            /\ pending' = pending \cup {Op("create", Name(clock), PointOf(c))}
       ELSE TaskTo(c, "replying") /\ UNCHANGED <<file, pending>>
    /\ UNCHANGED <<client, up, current, timer, files, clock, dropped>>

\* File::create has returned: the point is handed over to be written.
WriteBackup(c) ==
    /\ task[c] = "creating"
    /\ Op("create", file[c], PointOf(c)) \notin pending
    /\ pending' = pending \cup {Op("write", file[c], PointOf(c))}
    /\ TaskTo(c, "replying")
    /\ UNCHANGED <<client, up, current, timer, file, files, clock, dropped>>

ReplyPoint(c) ==
    /\ task[c] = "replying"
    /\ Answer(c, PointReply(PointOf(c)))
    /\ UNCHANGED <<up, current, timer, file, files, pending, clock, dropped>>

-----------------------------------------------------------------------------
(* The runtime (external): file operations and time *)

\* Creating a file empties it if it is there.
FileOperation ==
    \E o \in pending :
        /\ files' = [files EXCEPT ![o.name] = IF o.op = "create" THEN {} ELSE {o.point}]
        /\ pending' = pending \ {o}
        /\ UNCHANGED <<client, up, current, task, timer, file, clock, dropped>>

Timed(c) == task[c] = "acquiring" \/ (Aborted(c) /\ task[c] \in Running)

\* An aborted task does not outlive its time, and an acquisition may take longer.
Tick ==
    /\ clock < MaxClock
    /\ \A c \in Connections : Aborted(c) /\ task[c] \in Running => timer[c] > 0
    /\ clock' = clock + 1
    /\ timer' = [c \in Connections |-> IF Timed(c) /\ timer[c] > 0 THEN timer[c] - 1
                                      ELSE timer[c]]
    /\ UNCHANGED <<client, up, current, task, file, files, pending, dropped>>

-----------------------------------------------------------------------------

Init ==
    /\ client = [c \in Connections |-> [requests |-> <<>>, replies |-> <<>>, open |-> TRUE]]
    /\ up = TRUE
    /\ current = 0
    /\ task = [c \in Connections |-> "none"]
    /\ timer = [c \in Connections |-> 0]
    /\ file = [c \in Connections |-> 0]
    /\ files = [name \in Names |-> {}]
    /\ pending = {}
    /\ clock = 0
    /\ dropped = {}

TaskStep(c) ==
    \/ ReadOther(c)
    \/ ReadPoint(c)
    \/ ReadPointAborted(c)
    \/ Panics(c)
    \/ AcquireFails(c)
    \/ AcquireReturns(c)
    \/ Assembled(c)
    \/ WriteBackup(c)
    \/ ReplyPoint(c)
    \/ Dropped(c)

Next ==
    \/ \E c \in Connections : ClientSends(c) \/ ClientCloses(c) \/ TaskStep(c)
    \/ Accept
    \/ AcceptFails
    \/ FileOperation
    \/ Tick

Spec == Init /\ [][Next]_vars

\* Tasks that can run do, acquisitions end, and files are written.
Fairness ==
    /\ \A c \in Connections : WF_vars(TaskStep(c))
    /\ WF_vars(FileOperation)
    /\ WF_vars(Tick)

FairSpec == Spec /\ Fairness

-----------------------------------------------------------------------------
(* Properties *)

\* The variables keep their types.
TypeOK ==
    /\ client \in [Connections -> [requests : Seq(Request), replies : Seq(Reply),
                                   open : BOOLEAN]]
    /\ up \in BOOLEAN
    /\ current \in 0 .. N
    /\ task \in [Connections -> TaskState]
    /\ timer \in [Connections -> Nat]
    /\ file \in [Connections -> Names]
    /\ files \in [Names -> SUBSET Point]
    /\ pending \subseteq Operation
    /\ clock \in 0 .. MaxClock
    /\ dropped \subseteq Connections

\* Acquisition assumes that a call is entered when those before it are over, but
\* for calls that are dropped as soon as they are entered.  So it is: only the
\* latest connection has a call under way, and the call that is dropped beside it
\* is of an aborted connection, and its last.
CallsFollowOneAnother ==
    \A c \in Connections :
        /\ task[c] = "acquiring" => c = current
        /\ c \in dropped => Aborted(c) /\ task[c] = "over"

\* A point a client was sent is in the backup folder, or on its way into a file
\* that will hold it, and no task of another point empties that file: neither
\* the next one nor one that was aborted.  That takes acquisitions longer than
\* a second and the time an aborted task may go on.
BackupHasPoint ==
    BackupFolder /\ AcquireTicks >= LingerTicks + TicksPerSecond =>
        \A c \in Connections : \A k \in 1 .. Len(client[c].replies) :
            LET p == client[c].replies[k].point
            IN  p # NoPoint =>
                    \E name \in Names :
                        /\ files[name] = {p} \/ Op("write", name, p) \in pending
                        /\ \A o \in pending : o.name = name => o.point = p

\* Every request is answered, or its connection is over: a client is never left
\* waiting on an open connection.
EveryRequestAnswered ==
    \A c \in Connections :
        task[c] # "none" /\ Waiting(c) ~> ~ Waiting(c) \/ task[c] = "over"
=============================================================================
