---------------------------- MODULE ServerProofs ----------------------------
(***************************************************************************)
(* For any number of connections and requests, any times and any way the   *)
(* clients, the aborts and the file operations interleave: calls follow    *)
(* one another, and a point that was answered is in the backup folder.     *)
(*                                                                         *)
(* When acquisitions are long enough, an aborted task is over before the   *)
(* call that took its place returns (RaceInv), so that at most one task    *)
(* has a point to save.  By then the second has passed in which any other  *)
(* backup was named (NamesInv): the name of the new one is new.  So a file *)
(* that is being created is nobody else's (CreatingInv) and one that holds *)
(* a point has no operation before it that would empty it (StoredInv).     *)
(***************************************************************************)
EXTENDS Server, TLAPS

\* The connections are accepted in order, and a task that is aborted no longer
\* waits for the board.
OrderInv ==
    /\ \A c \in Connections : c > current => task[c] = "none"
    /\ CallsFollowOneAnother
    /\ \A c \in Connections : Aborted(c) /\ task[c] \in Running => timer[c] <= LingerTicks

\* Tasks that have a point.
Finishing == {"assembling", "creating", "replying"}

\* An aborted task ends a second before the call that took its place.
RaceInv ==
    /\ \A c, d \in Connections :
          Aborted(c) /\ task[c] \in Running /\ d = current =>
              /\ task[d] = "acquiring" => timer[d] >= timer[c] + TicksPerSecond
              /\ task[d] \notin Finishing
    /\ \A c, d \in Connections : task[c] \in Finishing /\ task[d] \in Finishing => c = d

\* Names of files that hold a point or may come to hold one.
IsUsed(name) ==
    \/ files[name] # {}
    \/ \E o \in pending : o.name = name
    \/ \E c \in Connections : task[c] = "creating" /\ file[c] = name

\* The name a task will give its file is after all of them.
NamesInv ==
    \A name \in Names : IsUsed(name) =>
        /\ name <= Name(clock)
        /\ \A c \in Connections : task[c] = "acquiring" => name < Name(clock + timer[c])
        /\ \A c \in Connections : task[c] = "assembling" => name < Name(clock)

CreatingInv ==
    \A c \in Connections : task[c] = "creating" =>
        /\ files[file[c]] = {}
        /\ \A o \in pending : o.name = file[c] => o = Op("create", file[c], PointOf(c))

\* A file holds the point or will, and nothing else is done to it.
Stored(p) ==
    \E name \in Names :
        /\ files[name] = {p} \/ Op("write", name, p) \in pending
        /\ \A o \in pending : o.name = name => o = Op("write", name, p)

StoredInv ==
    \A c \in Connections :
        /\ task[c] = "replying" => Stored(PointOf(c))
        /\ \A k \in 1 .. Len(client[c].replies) :
              client[c].replies[k].point # NoPoint => Stored(client[c].replies[k].point)

LongCalls == BackupFolder /\ AcquireTicks >= LingerTicks + TicksPerSecond

BackupInv == LongCalls => RaceInv /\ NamesInv /\ CreatingInv /\ StoredInv

Inv == TypeOK /\ OrderInv /\ BackupInv

-----------------------------------------------------------------------------
(* Names and times *)

LEMMA Constants ==
    /\ N \in Nat /\ MaxClock \in Nat
    /\ TicksPerSecond \in Nat /\ TicksPerSecond > 0
    /\ AcquireTicks \in Nat /\ LingerTicks \in Nat
BY ServerAssumption

LEMMA NameBounds ==
    ASSUME NEW t \in Nat
    PROVE  /\ Name(t) \in Nat
           /\ Name(t) * TicksPerSecond <= t
           /\ t < Name(t) * TicksPerSecond + TicksPerSecond
BY Constants DEF Name

\* Names do not go back with the clock,
LEMMA NameMonotone ==
    ASSUME NEW s \in Nat, NEW t \in Nat, s <= t
    PROVE  Name(s) <= Name(t)
<1>. DEFINE m == Name(s)
            n == Name(t)
<1>1. /\ m \in Nat /\ m * TicksPerSecond <= s
      /\ n \in Nat /\ t < n * TicksPerSecond + TicksPerSecond
  BY NameBounds
<1>. HIDE DEF m, n
<1>2. SUFFICES ASSUME m >= n + 1 PROVE FALSE
  BY <1>1 DEF m, n
<1>3. m * TicksPerSecond >= (n + 1) * TicksPerSecond
  BY <1>1, <1>2, Constants
<1>4. (n + 1) * TicksPerSecond = n * TicksPerSecond + TicksPerSecond
  BY <1>1, Constants
<1>5. m * TicksPerSecond \in Nat /\ n * TicksPerSecond \in Nat
  BY <1>1, Constants
<1>. QED BY <1>1, <1>3, <1>4, <1>5, Constants

\* and a second later there is another.
LEMMA NameNext ==
    ASSUME NEW s \in Nat, NEW t \in Nat, t >= s + TicksPerSecond
    PROVE  Name(s) < Name(t)
<1>. DEFINE m == Name(s)
            n == Name(t)
<1>1. /\ m \in Nat /\ m * TicksPerSecond <= s
      /\ n \in Nat /\ t < n * TicksPerSecond + TicksPerSecond
  BY NameBounds
<1>. HIDE DEF m, n
<1>2. SUFFICES ASSUME m >= n PROVE FALSE
  BY <1>1 DEF m, n
<1>3. m * TicksPerSecond >= n * TicksPerSecond
  BY <1>1, <1>2, Constants
<1>4. m * TicksPerSecond \in Nat /\ n * TicksPerSecond \in Nat
  BY <1>1, Constants
<1>. QED BY <1>1, <1>3, <1>4, Constants

LEMMA ClockName ==
    ASSUME TypeOK
    PROVE  Name(clock) \in Names
<1>1. clock \in Nat /\ clock <= MaxClock
  BY Constants DEF TypeOK
<1>2. Name(clock) \in Nat /\ Name(MaxClock) \in Nat /\ Name(clock) <= Name(MaxClock)
  BY <1>1, Constants, NameBounds, NameMonotone
<1>. QED BY <1>2 DEF Names

LEMMA InitInv == Init => Inv
<1>. SUFFICES ASSUME Init PROVE Inv
  OBVIOUS
<1>1. 0 \in Names
  <2>1. Name(MaxClock) \in Nat
    BY Constants, NameBounds
  <2>. QED BY <2>1 DEF Names
<1>2. TypeOK
  BY <1>1, Constants DEF Init, TypeOK, TaskState
<1>3. dropped = {} /\ \A c \in Connections : task[c] = "none" /\ client[c].replies = <<>>
  BY DEF Init
<1>4. OrderInv
  BY <1>3 DEF OrderInv, CallsFollowOneAnother, Running
<1>5. RaceInv
  BY <1>3 DEF RaceInv, Running, Finishing
<1>6. NamesInv
  BY <1>3 DEF NamesInv, IsUsed, Init
<1>7. CreatingInv /\ StoredInv
  BY <1>3 DEF CreatingInv, StoredInv
<1>. QED BY <1>2, <1>4, <1>5, <1>6, <1>7 DEF Inv, BackupInv

-----------------------------------------------------------------------------
(* Steps that leave the files, the clock and the acquisitions alone *)

LEMMA TypeFacts ==
    ASSUME TypeOK, NEW c \in Connections
    PROVE  /\ task[c] \in TaskState /\ timer[c] \in Nat /\ file[c] \in Names
           /\ client[c] \in [requests : Seq(Request), replies : Seq(Reply), open : BOOLEAN]
           /\ client[c].replies \in Seq(Reply) /\ client[c].requests \in Seq(Request)
           /\ Answered(c) \in Nat
           /\ PointOf(c) \in Point
           /\ current \in 0 .. N /\ c \in Nat
<1>1. /\ task[c] \in TaskState /\ timer[c] \in Nat /\ file[c] \in Names
      /\ client[c] \in [requests : Seq(Request), replies : Seq(Reply), open : BOOLEAN]
  BY DEF TypeOK
<1>2. client[c].replies \in Seq(Reply) /\ client[c].requests \in Seq(Request)
  BY <1>1
<1>3. Answered(c) \in Nat
  BY <1>2 DEF Answered
<1>4. PointOf(c) \in Point
  BY <1>3 DEF PointOf, Point
<1>. QED BY <1>1, <1>2, <1>3, <1>4 DEF TypeOK, Connections

DroppedOver ==
    \A d \in Connections : d \in dropped' =>
        d \in dropped \/ (Aborted(d) /\ task'[d] = "over")

\* A task goes back to reading or is over, and whatever point it has answered
\* with was saved.
Calm ==
    /\ UNCHANGED <<current, timer, file, files, pending, clock>>
    /\ DroppedOver
    /\ \A d \in Connections :
          /\ \/ task'[d] = task[d]
             \/ task[d] \in Running /\ task'[d] \in {"reading", "over"}
          /\ task'[d] \in {"creating", "replying"} => client'[d].replies = client[d].replies
          /\ \A k \in 1 .. Len(client'[d].replies) :
                LET p == client'[d].replies[k].point
                IN  p # NoPoint =>
                        \/ \E j \in 1 .. Len(client[d].replies) : client[d].replies[j].point = p
                        \/ task[d] = "replying" /\ p = PointOf(d)

LEMMA CalmInv ==
    ASSUME Inv, Calm, TypeOK'
    PROVE  Inv'
<1>1. /\ UNCHANGED <<current, timer, file, files, pending, clock>>
      /\ \A d \in Connections :
            /\ task'[d] \in Running => task[d] \in Running
            /\ task'[d] \notin {"reading", "over"} => task'[d] = task[d]
            /\ task[d] = "none" => task'[d] = "none"
  BY DEF Calm, Running
<1>2. OrderInv'
  <2>1. ASSUME NEW d \in Connections, d \in dropped'
        PROVE  Aborted(d) /\ task'[d] = "over"
    <3>1. d \in dropped => Aborted(d) /\ task[d] = "over"
      BY DEF Inv, OrderInv, CallsFollowOneAnother
    <3>. QED BY <2>1, <3>1 DEF Calm, DroppedOver, Running
  <2>. QED BY <1>1, <2>1 DEF Inv, OrderInv, CallsFollowOneAnother, Aborted
<1>3. RaceInv => RaceInv'
  BY <1>1 DEF RaceInv, Aborted, Finishing
<1>4. NamesInv => NamesInv'
  <2>1. \A name \in Names : IsUsed(name)' => IsUsed(name)
    BY <1>1 DEF IsUsed
  <2>. QED BY <1>1, <2>1 DEF NamesInv
<1>5. \A d \in Connections : task'[d] \in {"creating", "replying"} =>
          task'[d] = task[d] /\ PointOf(d)' = PointOf(d)
  BY <1>1 DEF Calm, PointOf, Answered
<1>6. CreatingInv => CreatingInv'
  BY <1>1, <1>5 DEF CreatingInv
<1>7. StoredInv => StoredInv'
  <2>1. SUFFICES ASSUME StoredInv, NEW d \in Connections
                 PROVE  (/\ task[d] = "replying" => Stored(PointOf(d))
                         /\ \A k \in 1 .. Len(client[d].replies) :
                               client[d].replies[k].point # NoPoint =>
                                   Stored(client[d].replies[k].point))'
    BY DEF StoredInv
  <2>2. (task[d] = "replying" => Stored(PointOf(d)))'
    <3>1. SUFFICES ASSUME task'[d] = "replying" PROVE Stored(PointOf(d))'
      OBVIOUS
    <3>2. Stored(PointOf(d)) /\ PointOf(d)' = PointOf(d)
      BY <2>1, <3>1, <1>5 DEF StoredInv
    <3>. QED BY <3>2, <1>1 DEF Stored
  <2>3. ASSUME NEW k \in 1 .. Len(client'[d].replies),
               client'[d].replies[k].point # NoPoint
        PROVE  Stored(client[d].replies[k].point)'
    <3>1. PICK q : q = client'[d].replies[k].point
      OBVIOUS
    <3>2. \/ \E j \in 1 .. Len(client[d].replies) : client[d].replies[j].point = q
          \/ task[d] = "replying" /\ q = PointOf(d)
      BY <2>3, <3>1 DEF Calm
    <3>3. Stored(q)
      BY <2>1, <2>3, <3>1, <3>2 DEF StoredInv
    <3>. QED BY <3>1, <3>3, <1>1 DEF Stored
  <2>. QED BY <2>2, <2>3
<1>. QED BY <1>2, <1>3, <1>4, <1>6, <1>7 DEF Inv, BackupInv

LEMMA TaskToFacts ==
    ASSUME TypeOK, NEW c \in Connections, NEW state \in TaskState, TaskTo(c, state)
    PROVE  /\ task' \in [Connections -> TaskState]
           /\ task'[c] = state
           /\ \A d \in Connections : d # c => task'[d] = task[d]
BY DEF TypeOK, TaskTo

LEMMA AnswerFacts ==
    ASSUME TypeOK, NEW c \in Connections, NEW reply \in Reply, Answer(c, reply)
    PROVE  /\ client' \in [Connections -> [requests : Seq(Request), replies : Seq(Reply),
                                           open : BOOLEAN]]
           /\ client'[c].replies = Append(client[c].replies, reply)
           /\ \A d \in Connections : d # c => client'[d] = client[d]
<1>1. client[c] \in [requests : Seq(Request), replies : Seq(Reply), open : BOOLEAN]
  BY TypeFacts
<1>2. client' = [client EXCEPT ![c] =
                    [client[c] EXCEPT !.replies = Append(client[c].replies, reply)]]
  BY DEF Answer
<1>3. Append(client[c].replies, reply) \in Seq(Reply)
  BY <1>1
<1>4. [client[c] EXCEPT !.replies = Append(client[c].replies, reply)]
          \in [requests : Seq(Request), replies : Seq(Reply), open : BOOLEAN]
  BY <1>1, <1>3
<1>5. client \in [Connections -> [requests : Seq(Request), replies : Seq(Reply),
                                  open : BOOLEAN]]
  BY DEF TypeOK
<1>6. client'[c] = [client[c] EXCEPT !.replies = Append(client[c].replies, reply)]
  BY <1>2, <1>5
<1>7. client'[c].replies = Append(client[c].replies, reply)
  BY <1>1, <1>6
<1>. QED BY <1>2, <1>4, <1>5, <1>7

LEMMA AnswerInv ==
    ASSUME Inv, NEW c \in Connections, task[c] \in Running,
           NEW reply \in Reply, Answer(c, reply),
           \/ reply.point = NoPoint
           \/ task[c] = "replying" /\ reply.point = PointOf(c),
           UNCHANGED <<up, current, timer, file, files, pending, clock, dropped>>
    PROVE  Inv'
<1>1. TypeOK
  BY DEF Inv
<1>2. task'[c] = "reading" /\ \A d \in Connections : d # c => task'[d] = task[d]
  BY <1>1, TaskToFacts DEF Answer, TaskState
<1>3. TypeOK'
  BY <1>1, AnswerFacts, TaskToFacts DEF TypeOK, Answer, TaskState
<1>4. client[c].replies \in Seq(Reply)
  BY <1>1, TypeFacts
<1>5. ASSUME NEW d \in Connections, NEW k \in 1 .. Len(client'[d].replies)
      PROVE  \/ \E j \in 1 .. Len(client[d].replies) :
                    client[d].replies[j].point = client'[d].replies[k].point
             \/ d = c /\ client'[d].replies[k] = reply
  <2>1. CASE d # c
    <3>1. client'[d] = client[d]
      BY <1>1, <2>1, AnswerFacts
    <3>. QED BY <3>1, <1>5
  <2>2. CASE d = c
    <3>1. client'[c].replies = Append(client[c].replies, reply)
      BY <1>1, AnswerFacts
    <3>2. k \in 1 .. Len(client[c].replies) + 1
      BY <1>4, <1>5, <2>2, <3>1
    <3>3. CASE k = Len(client[c].replies) + 1
      BY <1>4, <2>2, <3>1, <3>3
    <3>4. CASE k \in 1 .. Len(client[c].replies)
      BY <1>4, <2>2, <3>1, <3>4
    <3>. QED BY <1>4, <3>2, <3>3, <3>4
  <2>. QED BY <2>1, <2>2
<1>6. Calm
  <2>1. \A d \in Connections :
            task'[d] \in {"creating", "replying"} => client'[d].replies = client[d].replies
    BY <1>1, <1>2, AnswerFacts
  <2>2. DroppedOver
    BY DEF DroppedOver
  <2>. QED BY <1>2, <1>5, <2>1, <2>2 DEF Calm
<1>. QED BY <1>3, <1>6, CalmInv

\* The task of a connection reads on or is over, unanswered.
LEMMA LeaveInv ==
    ASSUME Inv, NEW c \in Connections, task[c] \in Running, TaskTo(c, "over"),
           UNCHANGED <<client, up, current, timer, file, files, pending, clock>>,
           dropped' \subseteq Connections,
           \A d \in dropped' : d \in dropped \/ (d = c /\ Aborted(c))
    PROVE  Inv'
<1>1. TypeOK
  BY DEF Inv
<1>2. task'[c] = "over" /\ \A d \in Connections : d # c => task'[d] = task[d]
  BY <1>1, TaskToFacts DEF TaskState
<1>3. TypeOK'
  BY <1>1, TaskToFacts DEF TypeOK, TaskState
<1>4. DroppedOver
  BY <1>2 DEF DroppedOver
<1>5. Calm
  BY <1>2, <1>4 DEF Calm
<1>. QED BY <1>3, <1>5, CalmInv

LEMMA ClientInv ==
    ASSUME Inv, NEW c \in Connections, ClientSends(c) \/ ClientCloses(c)
    PROVE  Inv'
<1>1. TypeOK /\ UNCHANGED <<up, current, task, timer, file, files, pending, clock, dropped>>
  BY DEF Inv, ClientSends, ClientCloses
<1>2. client[c] \in [requests : Seq(Request), replies : Seq(Reply), open : BOOLEAN]
  BY <1>1, TypeFacts
<1>3. \E record \in [requests : Seq(Request), replies : Seq(Reply), open : BOOLEAN] :
          record.replies = client[c].replies /\ client' = [client EXCEPT ![c] = record]
  <2>1. CASE ClientCloses(c)
    <3>. DEFINE record == [client[c] EXCEPT !.open = FALSE]
    <3>1. record \in [requests : Seq(Request), replies : Seq(Reply), open : BOOLEAN]
      BY <1>2
    <3>2. record.replies = client[c].replies /\ client' = [client EXCEPT ![c] = record]
      BY <1>2, <2>1 DEF ClientCloses
    <3>. QED BY <3>1, <3>2
  <2>2. CASE ClientSends(c)
    <3>1. PICK r \in Request :
              client' = [client EXCEPT ![c] =
                            [client[c] EXCEPT !.requests = Append(client[c].requests, r)]]
      BY <2>2 DEF ClientSends
    <3>. DEFINE record == [client[c] EXCEPT !.requests = Append(client[c].requests, r)]
    <3>2. record \in [requests : Seq(Request), replies : Seq(Reply), open : BOOLEAN]
      <4>1. Append(client[c].requests, r) \in Seq(Request)
        BY <1>2
      <4>. QED BY <1>2, <4>1
    <3>3. record.replies = client[c].replies
      BY <1>2
    <3>. QED BY <3>1, <3>2, <3>3
  <2>. QED BY <2>1, <2>2
<1>4. PICK record \in [requests : Seq(Request), replies : Seq(Reply), open : BOOLEAN] :
          record.replies = client[c].replies /\ client' = [client EXCEPT ![c] = record]
  BY <1>3
<1>5. \A d \in Connections : client'[d].replies = client[d].replies
  BY <1>1, <1>4 DEF TypeOK
<1>6. TypeOK'
  BY <1>1, <1>4 DEF TypeOK
<1>7. DroppedOver
  BY <1>1 DEF DroppedOver
<1>8. Calm
  BY <1>1, <1>5, <1>7 DEF Calm
<1>. QED BY <1>6, <1>8, CalmInv

LEMMA AcceptFailsInv ==
    ASSUME Inv, AcceptFails
    PROVE  Inv'
<1>1. TypeOK
  BY DEF Inv
<1>2. \A d \in Connections :
          task'[d] = IF task[d] \in Running THEN "over" ELSE task[d]
  BY DEF AcceptFails
<1>3. TypeOK'
  BY <1>1 DEF AcceptFails, TypeOK, TaskState
<1>4. DroppedOver
  BY DEF DroppedOver, AcceptFails
<1>5. Calm
  BY <1>2, <1>4 DEF Calm, AcceptFails
<1>. QED BY <1>3, <1>5, CalmInv

-----------------------------------------------------------------------------
(* Calls *)

\* Nothing of the files changes, no task comes to have a point, and no clock of
\* an acquisition falls behind: what was said of names and files stays true.
LEMMA SameFiles ==
    ASSUME UNCHANGED <<client, file, files, pending>>,
           \A d \in Connections : task'[d] \in {"creating", "replying"} => task'[d] = task[d]
    PROVE  /\ \A name \in Names : IsUsed(name)' => IsUsed(name)
           /\ CreatingInv => CreatingInv'
           /\ StoredInv => StoredInv'
<1>1. \A name \in Names : IsUsed(name)' => IsUsed(name)
  BY DEF IsUsed
<1>2. CreatingInv => CreatingInv'
  BY DEF CreatingInv, PointOf, Answered
<1>3. StoredInv => StoredInv'
  <2>1. SUFFICES ASSUME StoredInv, NEW d \in Connections
                 PROVE  (/\ task[d] = "replying" => Stored(PointOf(d))
                         /\ \A k \in 1 .. Len(client[d].replies) :
                               client[d].replies[k].point # NoPoint =>
                                   Stored(client[d].replies[k].point))'
    BY DEF StoredInv
  <2>2. \A q : Stored(q) => Stored(q)'
    BY DEF Stored
  <2>3. (task[d] = "replying" => Stored(PointOf(d)))'
    <3>1. SUFFICES ASSUME task'[d] = "replying" PROVE Stored(PointOf(d))'
      OBVIOUS
    <3>2. Stored(PointOf(d)) /\ PointOf(d)' = PointOf(d)
      BY <2>1, <3>1 DEF StoredInv, PointOf, Answered
    <3>. QED BY <3>2 DEF Stored
  <2>4. ASSUME NEW k \in 1 .. Len(client'[d].replies),
               client'[d].replies[k].point # NoPoint
        PROVE  Stored(client[d].replies[k].point)'
    <3>1. Stored(client[d].replies[k].point)
      BY <2>1, <2>4 DEF StoredInv
    <3>. QED BY <3>1 DEF Stored
  <2>. QED BY <2>3, <2>4
<1>. QED BY <1>1, <1>2, <1>3

LEMMA AcceptInv ==
    ASSUME Inv, Accept
    PROVE  Inv'
<1>1. TypeOK
  BY DEF Inv
<1>2. /\ current' = current + 1 /\ current \in Nat /\ current < N
      /\ UNCHANGED <<client, up, file, files, pending, clock, dropped>>
      /\ \A c \in Connections : c \in Nat
  BY <1>1, Constants DEF Accept, TypeOK, Connections
<1>3. \A c \in Connections :
          task'[c] = CASE c = current + 1 -> "reading"
                       [] c = current /\ task[c] = "acquiring" -> "over"
                       [] OTHER -> task[c]
  BY DEF Accept
<1>4. \A c \in Connections :
          timer'[c] = IF c = current /\ task[c] \in Running THEN LingerTicks ELSE timer[c]
  BY DEF Accept
<1>5. \A c \in Connections :
          /\ c = current + 1 => task'[c] = "reading"
          /\ c = current /\ task[c] = "acquiring" => task'[c] = "over"
          /\ c # current + 1 /\ ~ (c = current /\ task[c] = "acquiring") => task'[c] = task[c]
  BY <1>2, <1>3
<1>6. TypeOK'
  <2>1. task' \in [Connections -> TaskState]
    <3>1. \A c \in Connections : task'[c] \in TaskState
      BY <1>1, <1>5 DEF TypeOK, TaskState
    <3>. QED BY <3>1 DEF Accept
  <2>2. timer' \in [Connections -> Nat]
    BY <1>1, Constants DEF Accept, TypeOK
  <2>3. current' \in 0 .. N
    BY <1>2, Constants
  <2>. QED BY <1>1, <1>2, <2>1, <2>2, <2>3 DEF TypeOK
<1>7. \A c \in Connections :
          /\ task'[c] # "acquiring"
          /\ task'[c] \in Running => task[c] \in Running \/ c = current + 1
          /\ task'[c] \in Finishing => task[c] = task'[c]
  BY <1>2, <1>5, <1>1 DEF Inv, OrderInv, CallsFollowOneAnother, Running, Finishing, TaskState
<1>8. OrderInv'
  <2>1. \A c \in Connections : c > current + 1 => task'[c] = "none"
    BY <1>2, <1>5 DEF Inv, OrderInv
  <2>2. CallsFollowOneAnother'
    <3>1. ASSUME NEW c \in Connections, c \in dropped'
          PROVE  c < current + 1 /\ task'[c] = "over"
      <4>1. c < current /\ task[c] = "over" /\ c \in Nat
        BY <1>2, <3>1 DEF Inv, OrderInv, CallsFollowOneAnother, Aborted
      <4>. QED BY <1>2, <1>5, <4>1
    <3>. QED BY <1>2, <1>7, <3>1 DEF CallsFollowOneAnother, Aborted
  <2>3. ASSUME NEW c \in Connections, c < current + 1, task'[c] \in Running
        PROVE  timer'[c] <= LingerTicks
    <3>1. task[c] \in Running /\ (c = current \/ c < current)
      BY <1>2, <1>7, <2>3
    <3>2. c < current => timer[c] <= LingerTicks
      BY <3>1 DEF Inv, OrderInv, Aborted
    <3>. QED BY <1>2, <1>4, <3>1, <3>2, Constants
  <2>. QED BY <1>2, <2>1, <2>2, <2>3 DEF OrderInv, Aborted
<1>9. RaceInv => RaceInv'
  BY <1>2, <1>5, <1>7 DEF RaceInv, Aborted, Finishing
<1>10. NamesInv => NamesInv'
  <2>1. \A name \in Names : IsUsed(name)' => IsUsed(name)
    BY <1>2, <1>7, SameFiles DEF Finishing
  <2>2. \A c \in Connections : task'[c] = "assembling" => task[c] = "assembling"
    BY <1>7 DEF Finishing
  <2>. QED BY <1>2, <1>7, <2>1, <2>2 DEF NamesInv
<1>11. (CreatingInv => CreatingInv') /\ (StoredInv => StoredInv')
  BY <1>2, <1>7, SameFiles DEF Finishing
<1>. QED BY <1>6, <1>8, <1>9, <1>10, <1>11 DEF Inv, BackupInv

\* The call of the latest connection begins: it will be longer than any task
\* that was aborted, by a second.
LEMMA CallInv ==
    ASSUME Inv, NEW c \in Connections, task[c] = "reading", ~ Aborted(c),
           TaskTo(c, "acquiring"), timer' = [timer EXCEPT ![c] = AcquireTicks],
           UNCHANGED <<client, up, current, file, files, pending, clock, dropped>>
    PROVE  Inv'
<1>1. TypeOK
  BY DEF Inv
<1>2. task'[c] = "acquiring" /\ \A d \in Connections : d # c => task'[d] = task[d]
  BY <1>1, TaskToFacts DEF TaskState
<1>3. timer'[c] = AcquireTicks /\ \A d \in Connections : d # c => timer'[d] = timer[d]
  BY <1>1 DEF TypeOK
<1>4. c = current
  <2>1. ~ (c > current)
    BY DEF Inv, OrderInv
  <2>. QED BY <1>1, <2>1, TypeFacts, Constants DEF Aborted
<1>5. TypeOK'
  BY <1>1, TaskToFacts, Constants DEF TypeOK, TaskState
<1>6. \A d \in Connections : Aborted(d) => d # c /\ d # current
  BY <1>1, <1>4, TypeFacts DEF Aborted
<1>7. OrderInv'
  BY <1>2, <1>3, <1>4, <1>6 DEF Inv, OrderInv, CallsFollowOneAnother, Aborted
<1>8. LongCalls /\ RaceInv => RaceInv'
  <2>1. SUFFICES ASSUME LongCalls, RaceInv PROVE RaceInv'
    OBVIOUS
  <2>2. ASSUME NEW d \in Connections, Aborted(d), task[d] \in Running
        PROVE  AcquireTicks >= timer[d] + TicksPerSecond
    <3>1. timer[d] <= LingerTicks /\ timer[d] \in Nat
      BY <1>1, <2>2, TypeFacts DEF Inv, OrderInv
    <3>. QED BY <2>1, <3>1, Constants DEF LongCalls
  <2>3. \A d, e \in Connections :
            Aborted(d)' /\ task'[d] \in Running /\ e = current' =>
                /\ task'[e] = "acquiring" => timer'[e] >= timer'[d] + TicksPerSecond
                /\ task'[e] \notin Finishing
    BY <1>2, <1>3, <1>4, <1>6, <2>2 DEF Aborted, Finishing
  <2>4. \A d, e \in Connections : task'[d] \in Finishing /\ task'[e] \in Finishing => d = e
    BY <1>2, <2>1 DEF RaceInv, Finishing
  <2>. QED BY <2>3, <2>4 DEF RaceInv
<1>9. LongCalls /\ NamesInv => NamesInv'
  <2>1. SUFFICES ASSUME LongCalls, NamesInv, NEW name \in Names, IsUsed(name)'
                 PROVE  /\ name <= Name(clock)
                        /\ \A d \in Connections :
                              task'[d] = "acquiring" => name < Name(clock + timer'[d])
                        /\ \A d \in Connections : task'[d] = "assembling" => name < Name(clock)
    BY DEF NamesInv
  <2>2. IsUsed(name)
    BY <2>1, <1>2, SameFiles
  <2>3. /\ clock \in Nat /\ clock + AcquireTicks \in Nat
        /\ clock + AcquireTicks >= clock + TicksPerSecond
    BY <1>1, <2>1, Constants DEF TypeOK, LongCalls
  <2>4. Name(clock) < Name(clock + AcquireTicks)
    BY <2>3, NameNext
  <2>5. name <= Name(clock)
    BY <2>1, <2>2 DEF NamesInv
  <2>6. name < Name(clock + AcquireTicks)
    <3>1. name \in Nat /\ Name(clock) \in Nat /\ Name(clock + AcquireTicks) \in Nat
      BY <2>3, NameBounds, Constants DEF Names
    <3>. QED BY <3>1, <2>4, <2>5
  <2>. QED BY <2>1, <2>2, <2>5, <2>6, <1>2, <1>3 DEF NamesInv
<1>10. (CreatingInv => CreatingInv') /\ (StoredInv => StoredInv')
  BY <1>2, SameFiles
<1>. QED BY <1>5, <1>7, <1>8, <1>9, <1>10 DEF Inv, BackupInv

LEMMA AcquireReturnsInv ==
    ASSUME Inv, NEW c \in Connections, AcquireReturns(c)
    PROVE  Inv'
<1>1. /\ TypeOK /\ task[c] = "acquiring" /\ timer[c] = 0
      /\ UNCHANGED <<client, up, current, timer, file, files, pending, clock, dropped>>
  BY DEF Inv, AcquireReturns
<1>2. task'[c] = "assembling" /\ \A d \in Connections : d # c => task'[d] = task[d]
  BY <1>1, TaskToFacts DEF AcquireReturns, TaskState
<1>3. c = current
  BY <1>1 DEF Inv, OrderInv, CallsFollowOneAnother
<1>4. TypeOK'
  BY <1>1, TaskToFacts DEF AcquireReturns, TypeOK, TaskState
<1>5. OrderInv'
  BY <1>1, <1>2 DEF Inv, OrderInv, CallsFollowOneAnother, Aborted, Running, TaskState
<1>6. RaceInv => \A d \in Connections : d # c => task[d] \notin Finishing /\ ~ (Aborted(d) /\ task[d] \in Running)
  <2>1. SUFFICES ASSUME RaceInv, NEW d \in Connections, d # c
                 PROVE  task[d] \notin Finishing /\ ~ (Aborted(d) /\ task[d] \in Running)
    OBVIOUS
  <2>2. ~ (Aborted(d) /\ task[d] \in Running)
    <3>1. Aborted(d) /\ task[d] \in Running => timer[c] >= timer[d] + TicksPerSecond
      BY <1>1, <1>3, <2>1 DEF RaceInv
    <3>2. timer[d] \in Nat
      BY <1>1, TypeFacts
    <3>. QED BY <1>1, <3>1, <3>2, Constants
  <2>3. Aborted(d) \/ d > current
    BY <1>1, <1>3, <2>1, TypeFacts DEF Aborted
  <2>4. d > current => task[d] = "none"
    BY DEF Inv, OrderInv
  <2>. QED BY <2>2, <2>3, <2>4 DEF Finishing, Running, TaskState
<1>7. RaceInv => RaceInv'
  <2>1. SUFFICES ASSUME RaceInv PROVE RaceInv'
    OBVIOUS
  <2>2. ~ Aborted(c)
    BY <1>1, <1>3, TypeFacts DEF Aborted
  <2>3. \A d \in Connections : ~ (Aborted(d)' /\ task'[d] \in Running)
    BY <1>1, <1>2, <1>6, <2>1, <2>2 DEF Aborted
  <2>4. \A d \in Connections : task'[d] \in Finishing => d = c
    BY <1>2, <1>6, <2>1
  <2>. QED BY <2>3, <2>4 DEF RaceInv
<1>8. NamesInv => NamesInv'
  <2>1. \A name \in Names : IsUsed(name)' => IsUsed(name)
    BY <1>1, <1>2, SameFiles
  <2>2. clock + timer[c] = clock
    BY <1>1 DEF TypeOK
  <2>. QED BY <1>1, <1>2, <2>1, <2>2 DEF NamesInv
<1>9. (CreatingInv => CreatingInv') /\ (StoredInv => StoredInv')
  BY <1>1, <1>2, SameFiles
<1>. QED BY <1>4, <1>5, <1>7, <1>8, <1>9 DEF Inv, BackupInv

-----------------------------------------------------------------------------
(* The clock *)

LEMMA TickInv ==
    ASSUME Inv, Tick
    PROVE  Inv'
<1>1. /\ TypeOK /\ clock' = clock + 1 /\ clock < MaxClock /\ clock \in Nat
      /\ UNCHANGED <<client, up, current, task, file, files, pending, dropped>>
  BY Constants DEF Inv, Tick, TypeOK
<1>2. \A c \in Connections :
          timer'[c] = IF Timed(c) /\ timer[c] > 0 THEN timer[c] - 1 ELSE timer[c]
  BY DEF Tick
<1>3. \A c \in Connections :
          /\ timer[c] \in Nat /\ timer'[c] \in Nat
          /\ timer'[c] <= timer[c] /\ timer[c] <= timer'[c] + 1
          /\ Aborted(c) /\ task[c] \in Running => timer'[c] + 1 = timer[c]
  <2>1. TAKE c \in Connections
  <2>2. timer[c] \in Nat
    BY <1>1, TypeFacts
  <2>3. Aborted(c) /\ task[c] \in Running => timer[c] > 0 /\ Timed(c)
    BY DEF Tick, Timed
  <2>. QED BY <1>2, <2>2, <2>3
<1>4. TypeOK'
  <2>1. timer' \in [Connections -> Nat]
    BY <1>2, <1>3 DEF Tick
  <2>2. clock' \in 0 .. MaxClock
    BY <1>1, Constants
  <2>. QED BY <1>1, <2>1, <2>2 DEF TypeOK
<1>5. OrderInv'
  <2>1. \A c \in Connections : Aborted(c) /\ task[c] \in Running => timer'[c] <= LingerTicks
    BY <1>3, Constants DEF Inv, OrderInv
  <2>. QED BY <1>1, <2>1 DEF Inv, OrderInv, CallsFollowOneAnother, Aborted
<1>6. RaceInv => RaceInv'
  <2>1. SUFFICES ASSUME RaceInv PROVE RaceInv'
    OBVIOUS
  <2>2. ASSUME NEW c \in Connections, NEW d \in Connections,
               Aborted(c), task[c] \in Running, d = current
        PROVE  /\ task[d] = "acquiring" => timer'[d] >= timer'[c] + TicksPerSecond
               /\ task[d] \notin Finishing
    <3>1. /\ task[d] = "acquiring" => timer[d] >= timer[c] + TicksPerSecond
          /\ task[d] \notin Finishing
      BY <2>1, <2>2 DEF RaceInv
    <3>. QED BY <1>3, <2>2, <3>1, Constants
  <2>. QED BY <1>1, <2>1, <2>2 DEF RaceInv, Aborted
<1>7. NamesInv => NamesInv'
  <2>1. SUFFICES ASSUME NamesInv, NEW name \in Names, IsUsed(name)'
                 PROVE  /\ name <= Name(clock')
                        /\ \A c \in Connections :
                              task[c] = "acquiring" => name < Name(clock' + timer'[c])
                        /\ \A c \in Connections : task[c] = "assembling" => name < Name(clock')
    BY <1>1 DEF NamesInv
  <2>2. IsUsed(name)
    BY <1>1, <2>1 DEF IsUsed
  <2>3. name \in Nat
    BY <1>1, NameBounds, Constants DEF Names
  <2>4. Name(clock) \in Nat /\ Name(clock') \in Nat /\ Name(clock) <= Name(clock')
    BY <1>1, NameBounds, NameMonotone
  <2>5. ASSUME NEW c \in Connections, task[c] = "acquiring"
        PROVE  name < Name(clock' + timer'[c])
    <3>1. /\ clock + timer[c] \in Nat /\ clock' + timer'[c] \in Nat
          /\ clock + timer[c] <= clock' + timer'[c]
      BY <1>1, <1>3
    <3>2. /\ Name(clock + timer[c]) \in Nat /\ Name(clock' + timer'[c]) \in Nat
          /\ Name(clock + timer[c]) <= Name(clock' + timer'[c])
      BY <3>1, NameBounds, NameMonotone
    <3>3. name < Name(clock + timer[c])
      BY <2>1, <2>2, <2>5 DEF NamesInv
    <3>. QED BY <2>3, <3>2, <3>3
  <2>6. name <= Name(clock)
        /\ \A c \in Connections : task[c] = "assembling" => name < Name(clock)
    BY <2>1, <2>2 DEF NamesInv
  <2>. QED BY <2>3, <2>4, <2>5, <2>6
<1>8. CreatingInv => CreatingInv'
  BY <1>1, SameFiles
<1>9. StoredInv => StoredInv'
  BY <1>1, SameFiles
<1>. QED BY <1>4, <1>5, <1>6, <1>7, <1>8, <1>9 DEF Inv, BackupInv

-----------------------------------------------------------------------------
(* Files *)

\* An operation on a file nothing is known of takes no point away.
LEMMA FreshOperation ==
    ASSUME NEW o, NEW p, files[o.name] = {}, \A q \in pending : q.name # o.name,
           UNCHANGED files, pending' = pending \cup {o}, Stored(p)
    PROVE  Stored(p)'
<1>1. PICK name \in Names :
          /\ files[name] = {p} \/ Op("write", name, p) \in pending
          /\ \A q \in pending : q.name = name => q = Op("write", name, p)
  BY DEF Stored
<1>2. Op("write", name, p).name = name
  BY DEF Op
<1>3. o.name # name
  BY <1>1, <1>2
<1>4. /\ files'[name] = {p} \/ Op("write", name, p) \in pending'
      /\ \A q \in pending' : q.name = name => q = Op("write", name, p)
  BY <1>1, <1>3
<1>. QED BY <1>4 DEF Stored

LEMMA AssembledInv ==
    ASSUME Inv, NEW c \in Connections, Assembled(c)
    PROVE  Inv'
<1>. DEFINE o == Op("create", Name(clock), PointOf(c))
<1>1. /\ TypeOK /\ task[c] = "assembling"
      /\ UNCHANGED <<client, up, current, timer, files, clock, dropped>>
  BY DEF Inv, Assembled
<1>2. Name(clock) \in Names /\ PointOf(c) \in Point
  BY <1>1, ClockName, TypeFacts
<1>3. o \in Operation /\ o.name = Name(clock)
  BY <1>2 DEF Op, Operation
<1>4. TypeOK'
  <2>1. task' \in [Connections -> TaskState]
    BY <1>1, TaskToFacts DEF Assembled, TaskState
  <2>2. file' \in [Connections -> Names] /\ pending' \subseteq Operation
    BY <1>1, <1>2, <1>3 DEF Assembled, TypeOK
  <2>. QED BY <1>1, <2>1, <2>2 DEF TypeOK
<1>5. /\ task'[c] \in {"creating", "replying"}
      /\ \A d \in Connections : d # c => task'[d] = task[d]
  BY <1>1, TaskToFacts DEF Assembled, TaskState
<1>6. OrderInv'
  <2>1. \A d \in Connections :
            /\ task'[d] \in Running => task[d] \in Running
            /\ task'[d] = "acquiring" => task[d] = "acquiring"
            /\ task[d] \in {"none", "over"} => task'[d] = task[d]
    BY <1>1, <1>5 DEF Running, TaskState
  <2>. QED BY <1>1, <2>1 DEF Inv, OrderInv, CallsFollowOneAnother, Aborted
<1>7. SUFFICES ASSUME LongCalls, RaceInv, NamesInv, CreatingInv, StoredInv
               PROVE  RaceInv' /\ NamesInv' /\ CreatingInv' /\ StoredInv'
  BY <1>4, <1>6 DEF Inv, BackupInv
<1>8. /\ task'[c] = "creating" /\ pending' = pending \cup {o}
      /\ file'[c] = Name(clock) /\ \A d \in Connections : d # c => file'[d] = file[d]
  BY <1>1, <1>7, TaskToFacts DEF Assembled, LongCalls, TypeOK, TaskState
<1>9. \A d \in Connections : d # c => task[d] \notin Finishing /\ task'[d] \notin Finishing
  BY <1>1, <1>5, <1>7 DEF RaceInv, Finishing
<1>10. ASSUME NEW name \in Names, IsUsed(name)
       PROVE  name < Name(clock) /\ name # Name(clock)
  <2>1. name < Name(clock)
    BY <1>1, <1>7, <1>10 DEF NamesInv
  <2>2. Name(clock) \in Nat /\ name \in Nat
    <3>1. clock \in Nat
      BY <1>1, Constants DEF TypeOK
    <3>2. Name(clock) \in Nat
      BY <3>1, NameBounds
    <3>3. Name(MaxClock) \in Nat
      BY NameBounds, Constants
    <3>. QED BY <1>10, <3>2, <3>3 DEF Names
  <2>. QED BY <2>1, <2>2
<1>11. files[Name(clock)] = {} /\ \A q \in pending : q.name # Name(clock)
  BY <1>2, <1>10 DEF IsUsed
<1>12. RaceInv'
  <2>1. \A d \in Connections :
            /\ task'[d] \in Running => task[d] \in Running
            /\ task'[d] = "acquiring" => task[d] = "acquiring"
            /\ task'[d] \in Finishing <=> task[d] \in Finishing
    BY <1>1, <1>5, <1>8 DEF Running, Finishing, TaskState
  <2>. QED BY <1>1, <1>7, <2>1 DEF RaceInv, Aborted
<1>13. NamesInv'
  <2>1. SUFFICES ASSUME NEW name \in Names, IsUsed(name)'
                 PROVE  /\ name <= Name(clock)
                        /\ \A d \in Connections :
                              task'[d] = "acquiring" => name < Name(clock + timer[d])
                        /\ \A d \in Connections : task'[d] = "assembling" => name < Name(clock)
    BY <1>1 DEF NamesInv
  <2>2. IsUsed(name) \/ name = Name(clock)
    BY <1>1, <1>3, <1>5, <1>8, <2>1 DEF IsUsed
  <2>3. \A d \in Connections : task'[d] # "assembling"
    BY <1>8, <1>9 DEF Finishing
  <2>4. \A d \in Connections : task'[d] = "acquiring" => task[d] = "acquiring"
    BY <1>5, <1>8
  <2>5. CASE IsUsed(name)
    BY <1>7, <2>3, <2>4, <2>5 DEF NamesInv
  <2>6. CASE name = Name(clock)
    <3>1. Name(clock) \in Nat
      <4>1. clock \in Nat
        BY <1>1, Constants DEF TypeOK
      <4>. QED BY <4>1, NameBounds
    <3>2. ASSUME NEW d \in Connections, task[d] = "acquiring"
          PROVE  Name(clock) < Name(clock + timer[d])
      <4>1. d = current
        BY <3>2 DEF Inv, OrderInv, CallsFollowOneAnother
      <4>2. Aborted(c)
        <5>1. c # current
          BY <1>1, <3>2, <4>1
        <5>2. ~ (c > current)
          BY <1>1 DEF Inv, OrderInv
        <5>. QED BY <1>1, <5>1, <5>2, TypeFacts, Constants DEF Aborted
      <4>3. timer[d] >= timer[c] + TicksPerSecond
        BY <1>1, <1>7, <3>2, <4>1, <4>2 DEF RaceInv, Running, TaskState
      <4>4. clock \in Nat /\ timer[d] \in Nat /\ timer[c] \in Nat
        BY <1>1, TypeFacts, Constants DEF TypeOK
      <4>5. clock + timer[d] \in Nat /\ clock + timer[d] >= clock + TicksPerSecond
        BY <4>3, <4>4, Constants
      <4>. QED BY <4>4, <4>5, NameNext
    <3>. QED BY <2>3, <2>4, <2>6, <3>1, <3>2
  <2>. QED BY <2>2, <2>5, <2>6
<1>14. CreatingInv'
  <2>1. \A d \in Connections : task'[d] = "creating" => d = c
    BY <1>9 DEF Finishing
  <2>2. PointOf(c)' = PointOf(c)
    BY <1>1 DEF PointOf, Answered
  <2>3. \A q \in pending' : q.name = file'[c] => q = Op("create", file'[c], PointOf(c)')
    BY <1>8, <1>11, <2>2
  <2>. QED BY <1>1, <1>8, <1>11, <2>1, <2>3 DEF CreatingInv
<1>15. StoredInv'
  <2>1. SUFFICES ASSUME NEW d \in Connections
                 PROVE  (/\ task[d] = "replying" => Stored(PointOf(d))
                         /\ \A k \in 1 .. Len(client[d].replies) :
                               client[d].replies[k].point # NoPoint =>
                                   Stored(client[d].replies[k].point))'
    BY DEF StoredInv
  <2>2. task'[d] # "replying"
    BY <1>8, <1>9 DEF Finishing
  <2>3. ASSUME NEW k \in 1 .. Len(client'[d].replies),
               client'[d].replies[k].point # NoPoint
        PROVE  Stored(client[d].replies[k].point)'
    <3>1. PICK q : q = client[d].replies[k].point
      OBVIOUS
    <3>2. Stored(q)
      BY <1>1, <1>7, <2>3, <3>1 DEF StoredInv
    <3>3. Stored(q)'
      BY <1>1, <1>3, <1>8, <1>11, <3>2, FreshOperation
    <3>4. client'[d].replies[k].point = q
      BY <1>1, <3>1
    <3>. QED BY <3>3, <3>4 DEF Stored
  <2>. QED BY <2>2, <2>3
<1>. QED BY <1>12, <1>13, <1>14, <1>15

LEMMA WriteBackupInv ==
    ASSUME Inv, NEW c \in Connections, WriteBackup(c)
    PROVE  Inv'
<1>. DEFINE o == Op("write", file[c], PointOf(c))
<1>1. /\ TypeOK /\ task[c] = "creating" /\ pending' = pending \cup {o}
      /\ Op("create", file[c], PointOf(c)) \notin pending
      /\ UNCHANGED <<client, up, current, timer, file, files, clock, dropped>>
  BY DEF Inv, WriteBackup
<1>2. o \in Operation /\ o.name = file[c] /\ file[c] \in Names
  BY <1>1, TypeFacts DEF Op, Operation
<1>3. task'[c] = "replying" /\ \A d \in Connections : d # c => task'[d] = task[d]
  BY <1>1, TaskToFacts DEF WriteBackup, TaskState
<1>4. TypeOK'
  BY <1>1, <1>2, TaskToFacts DEF WriteBackup, TypeOK, TaskState
<1>5. OrderInv'
  BY <1>1, <1>3 DEF Inv, OrderInv, CallsFollowOneAnother, Aborted, Running, TaskState
<1>6. SUFFICES ASSUME LongCalls, RaceInv, NamesInv, CreatingInv, StoredInv
               PROVE  RaceInv' /\ NamesInv' /\ CreatingInv' /\ StoredInv'
  BY <1>4, <1>5 DEF Inv, BackupInv
<1>7. \A d \in Connections : d # c => task[d] \notin Finishing /\ task'[d] \notin Finishing
  BY <1>1, <1>3, <1>6 DEF RaceInv, Finishing
<1>8. files[file[c]] = {} /\ \A q \in pending : q.name # file[c]
  BY <1>1, <1>6 DEF CreatingInv
<1>9. RaceInv'
  <2>1. \A d \in Connections :
            /\ task'[d] \in Running => task[d] \in Running
            /\ task'[d] = "acquiring" => task[d] = "acquiring"
            /\ task'[d] \in Finishing <=> task[d] \in Finishing
    BY <1>1, <1>3 DEF Running, Finishing, TaskState
  <2>. QED BY <1>1, <1>6, <2>1 DEF RaceInv, Aborted
<1>10. NamesInv'
  <2>1. \A name \in Names : IsUsed(name)' => IsUsed(name)
    BY <1>1, <1>2, <1>3 DEF IsUsed
  <2>2. \A d \in Connections :
            task'[d] \in {"acquiring", "assembling"} => task'[d] = task[d]
    BY <1>3
  <2>. QED BY <1>1, <1>6, <2>1, <2>2 DEF NamesInv
<1>11. CreatingInv'
  BY <1>3, <1>7 DEF CreatingInv, Finishing
<1>12. Stored(PointOf(c))'
  <2>1. PointOf(c)' = PointOf(c)
    BY <1>1 DEF PointOf, Answered
  <2>2. o \in pending' /\ \A q \in pending' : q.name = file[c] => q = o
    BY <1>1, <1>8
  <2>. QED BY <1>2, <2>1, <2>2 DEF Stored
<1>13. StoredInv'
  <2>1. SUFFICES ASSUME NEW d \in Connections
                 PROVE  (/\ task[d] = "replying" => Stored(PointOf(d))
                         /\ \A k \in 1 .. Len(client[d].replies) :
                               client[d].replies[k].point # NoPoint =>
                                   Stored(client[d].replies[k].point))'
    BY DEF StoredInv
  <2>2. (task[d] = "replying" => Stored(PointOf(d)))'
    BY <1>7, <1>12 DEF Finishing
  <2>3. ASSUME NEW k \in 1 .. Len(client'[d].replies),
               client'[d].replies[k].point # NoPoint
        PROVE  Stored(client[d].replies[k].point)'
    <3>1. PICK q : q = client[d].replies[k].point
      OBVIOUS
    <3>2. Stored(q)
      BY <1>1, <1>6, <2>3, <3>1 DEF StoredInv
    <3>3. Stored(q)'
      BY <1>1, <1>2, <1>8, <3>2, FreshOperation
    <3>4. client'[d].replies[k].point = q
      BY <1>1, <3>1
    <3>. QED BY <3>3, <3>4 DEF Stored
  <2>. QED BY <2>2, <2>3
<1>. QED BY <1>9, <1>10, <1>11, <1>13

LEMMA FileOperationInv ==
    ASSUME Inv, FileOperation
    PROVE  Inv'
<1>1. PICK o \in pending :
          /\ files' = [files EXCEPT ![o.name] = IF o.op = "create" THEN {} ELSE {o.point}]
          /\ pending' = pending \ {o}
          /\ UNCHANGED <<client, up, current, task, timer, file, clock, dropped>>
  BY DEF FileOperation
<1>2. /\ TypeOK /\ o \in Operation /\ o.name \in Names /\ o.point \in Point
      /\ files \in [Names -> SUBSET Point]
  BY <1>1 DEF Inv, TypeOK, Operation
<1>3. /\ files'[o.name] = IF o.op = "create" THEN {} ELSE {o.point}
      /\ \A name \in Names : name # o.name => files'[name] = files[name]
  BY <1>1, <1>2
<1>4. TypeOK'
  BY <1>1, <1>2 DEF TypeOK
<1>5. OrderInv' /\ (RaceInv => RaceInv')
  BY <1>1 DEF Inv, OrderInv, CallsFollowOneAnother, RaceInv, Aborted
<1>6. NamesInv => NamesInv'
  <2>1. \A name \in Names : IsUsed(name)' => IsUsed(name)
    BY <1>1, <1>3 DEF IsUsed
  <2>. QED BY <1>1, <2>1 DEF NamesInv
<1>7. CreatingInv => CreatingInv'
  <2>1. SUFFICES ASSUME CreatingInv, NEW c \in Connections, task[c] = "creating"
                 PROVE  /\ files'[file[c]] = {}
                        /\ \A q \in pending' : q.name = file[c] =>
                              q = Op("create", file[c], PointOf(c))
    BY <1>1 DEF CreatingInv, PointOf, Answered
  <2>2. /\ files[file[c]] = {} /\ file[c] \in Names
        /\ \A q \in pending : q.name = file[c] => q = Op("create", file[c], PointOf(c))
    BY <1>2, <2>1, TypeFacts DEF CreatingInv
  <2>3. o.name = file[c] => o.op = "create"
    BY <2>2 DEF Op
  <2>. QED BY <1>1, <1>3, <2>2, <2>3
<1>8. ASSUME NEW p, Stored(p)
      PROVE  Stored(p)'
  <2>1. PICK name \in Names :
            /\ files[name] = {p} \/ Op("write", name, p) \in pending
            /\ \A q \in pending : q.name = name => q = Op("write", name, p)
    BY <1>8 DEF Stored
  <2>2. \A q \in pending' : q.name = name => q = Op("write", name, p)
    BY <1>1, <2>1
  <2>3. /\ Op("write", name, p).name = name /\ Op("write", name, p).op = "write"
        /\ Op("write", name, p).point = p
    BY DEF Op
  <2>4. files'[name] = {p} \/ Op("write", name, p) \in pending'
    <3>1. CASE o.name = name
      <4>1. o = Op("write", name, p)
        BY <2>1, <3>1
      <4>. QED BY <1>3, <2>3, <3>1, <4>1
    <3>2. CASE o.name # name
      <4>1. files'[name] = files[name] /\ o # Op("write", name, p)
        BY <1>3, <2>3, <3>2
      <4>. QED BY <1>1, <2>1, <4>1
    <3>. QED BY <3>1, <3>2
  <2>. QED BY <2>2, <2>4 DEF Stored
<1>9. StoredInv => StoredInv'
  <2>1. SUFFICES ASSUME StoredInv, NEW d \in Connections
                 PROVE  (/\ task[d] = "replying" => Stored(PointOf(d))
                         /\ \A k \in 1 .. Len(client[d].replies) :
                               client[d].replies[k].point # NoPoint =>
                                   Stored(client[d].replies[k].point))'
    BY DEF StoredInv
  <2>2. (task[d] = "replying" => Stored(PointOf(d)))'
    <3>1. SUFFICES ASSUME task[d] = "replying" PROVE Stored(PointOf(d))'
      BY <1>1
    <3>2. PICK q : q = PointOf(d)
      OBVIOUS
    <3>3. Stored(q)' /\ PointOf(d)' = q
      BY <1>1, <1>8, <2>1, <3>1, <3>2 DEF StoredInv, PointOf, Answered
    <3>. QED BY <3>3 DEF Stored
  <2>3. ASSUME NEW k \in 1 .. Len(client'[d].replies),
               client'[d].replies[k].point # NoPoint
        PROVE  Stored(client[d].replies[k].point)'
    <3>1. PICK q : q = client[d].replies[k].point
      OBVIOUS
    <3>2. Stored(q)' /\ client'[d].replies[k].point = q
      BY <1>1, <1>8, <2>1, <2>3, <3>1 DEF StoredInv
    <3>. QED BY <3>2 DEF Stored
  <2>. QED BY <2>2, <2>3
<1>. QED BY <1>4, <1>5, <1>6, <1>7, <1>9 DEF Inv, BackupInv

-----------------------------------------------------------------------------
(* Every step, and the theorems *)

LEMMA TaskStepInv ==
    ASSUME Inv, NEW c \in Connections, TaskStep(c)
    PROVE  Inv'
<1>1. TypeOK
  BY DEF Inv
<1>2. CASE ReadOther(c) \/ AcquireFails(c)
  <2>1. PICK kind \in {"Other", "Error"} : Answer(c, OtherReply(kind))
    BY <1>2 DEF ReadOther, AcquireFails
  <2>2. OtherReply(kind) \in Reply /\ OtherReply(kind).point = NoPoint
    BY DEF OtherReply, Reply
  <2>3. /\ task[c] \in Running
        /\ UNCHANGED <<up, current, timer, file, files, pending, clock, dropped>>
    BY <1>2 DEF ReadOther, AcquireFails, Running, TaskState
  <2>. QED BY <2>1, <2>2, <2>3, AnswerInv
<1>3. CASE ReplyPoint(c)
  <2>1. PointReply(PointOf(c)) \in Reply /\ PointReply(PointOf(c)).point = PointOf(c)
    BY <1>1, TypeFacts DEF PointReply, Reply
  <2>2. task[c] = "replying" /\ task[c] \in Running
    BY <1>3 DEF ReplyPoint, Running, TaskState
  <2>. QED BY <1>3, <2>1, <2>2, AnswerInv DEF ReplyPoint
<1>4. CASE Panics(c) \/ Dropped(c)
  <2>1. task[c] \in Running
    BY <1>4 DEF Panics, Dropped, Running, TaskState
  <2>2. /\ TaskTo(c, "over") /\ dropped' = dropped
        /\ UNCHANGED <<client, up, current, timer, file, files, pending, clock>>
    BY <1>4 DEF Panics, Dropped
  <2>3. dropped' \subseteq Connections /\ \A d \in dropped' : d \in dropped
    BY <1>1, <2>2 DEF TypeOK
  <2>. QED BY <2>1, <2>2, <2>3, LeaveInv
<1>5. CASE ReadPoint(c)
  <2>1. task[c] = "reading" /\ task[c] \in Running
    BY <1>5 DEF ReadPoint, Asked, Running, TaskState
  <2>. QED BY <1>5, <2>1, CallInv DEF ReadPoint
<1>6. CASE ReadPointAborted(c)
  <2>1. task[c] = "reading" /\ task[c] \in Running /\ Aborted(c)
    BY <1>6 DEF ReadPointAborted, Asked, Running, TaskState
  <2>2. CASE TaskTo(c, "over") /\ dropped' = dropped \cup {c} /\ UNCHANGED client
    <3>1. UNCHANGED <<client, up, current, timer, file, files, pending, clock>>
      BY <1>6, <2>2 DEF ReadPointAborted
    <3>2. /\ dropped' \subseteq Connections
          /\ \A d \in dropped' : d \in dropped \/ (d = c /\ Aborted(c))
      BY <1>1, <2>1, <2>2 DEF TypeOK
    <3>. QED BY <2>1, <2>2, <3>1, <3>2, LeaveInv
  <2>3. CASE Answer(c, OtherReply("Error")) /\ UNCHANGED dropped
    <3>1. OtherReply("Error") \in Reply /\ OtherReply("Error").point = NoPoint
      BY DEF OtherReply, Reply
    <3>2. UNCHANGED <<up, current, timer, file, files, pending, clock, dropped>>
      BY <1>6, <2>3 DEF ReadPointAborted
    <3>. QED BY <2>1, <2>3, <3>1, <3>2, AnswerInv
  <2>. QED BY <1>6, <2>2, <2>3 DEF ReadPointAborted
<1>. QED BY <1>2, <1>3, <1>4, <1>5, <1>6, AcquireReturnsInv, AssembledInv, WriteBackupInv DEF TaskStep

LEMMA NextInv == Inv /\ [Next]_vars => Inv'
<1>1. ASSUME Inv, UNCHANGED vars
      PROVE  Inv'
  <2>1. /\ UNCHANGED <<client, up, current, task, timer, file, files, pending, clock, dropped>>
        /\ TypeOK
    BY <1>1 DEF vars, Inv
  <2>2. TypeOK'
    BY <2>1 DEF TypeOK
  <2>3. DroppedOver
    BY <2>1 DEF DroppedOver
  <2>4. Calm
    BY <2>1, <2>3 DEF Calm
  <2>. QED BY <1>1, <2>2, <2>4, CalmInv
<1>2. ASSUME Inv, Next
      PROVE  Inv'
  BY <1>2, ClientInv, TaskStepInv, AcceptInv, AcceptFailsInv, FileOperationInv, TickInv DEF Next
<1>. QED BY <1>1, <1>2

LEMMA Invariance == Spec => []Inv
BY InitInv, NextInv, PTL DEF Spec

\* The variables keep their types.
THEOREM TypeCorrect == Spec => []TypeOK
BY Invariance, PTL DEF Inv

\* Only the connection that was accepted last has a call of acquire_frames under
\* way; whatever call another connection enters is dropped as it is entered, after
\* the abort, and is the last of that connection.
THEOREM CallsFollow == Spec => []CallsFollowOneAnother
<1>1. Inv => CallsFollowOneAnother
  BY DEF Inv, OrderInv
<1>. QED BY <1>1, Invariance, PTL

LEMMA StoredHasPoint ==
    ASSUME NEW p, Stored(p)
    PROVE  \E name \in Names :
               /\ files[name] = {p} \/ Op("write", name, p) \in pending
               /\ \A o \in pending : o.name = name => o.point = p
<1>1. \A name : Op("write", name, p).point = p
  BY DEF Op
<1>. QED BY <1>1 DEF Stored

\* A point that was answered is in the backup folder, or on its way there, and no
\* other task's File::create empties its file: if acquisitions take a second
\* longer than an aborted task goes on.
THEOREM BackupKeepsPoint == Spec => []BackupHasPoint
<1>1. Inv => BackupHasPoint
  <2>1. SUFFICES ASSUME Inv, LongCalls, NEW c \in Connections,
                        NEW k \in 1 .. Len(client[c].replies),
                        client[c].replies[k].point # NoPoint
                 PROVE  \E name \in Names :
                            /\ \/ files[name] = {client[c].replies[k].point}
                               \/ Op("write", name, client[c].replies[k].point) \in pending
                            /\ \A o \in pending :
                                  o.name = name => o.point = client[c].replies[k].point
    BY DEF BackupHasPoint, LongCalls
  <2>2. Stored(client[c].replies[k].point)
    BY <2>1 DEF Inv, BackupInv, StoredInv
  <2>. QED BY <2>2, StoredHasPoint
<1>. QED BY <1>1, Invariance, PTL
=============================================================================
