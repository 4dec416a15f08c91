----------------------------- MODULE SoundAlarm -----------------------------
(***************************************************************************)
(* sound-alarm (apps/src/bin/sound-alarm.rs): one thread asks the detector *)
(* every ten seconds for the newest backup and panics when it is too old,  *)
(* one polls the battery and panics when it is discharging; the panic hook *)
(* sounds the alarm and never returns, so that neither thread unwinds.     *)
(*                                                                         *)
(* Time goes by the second.  A backup is named after the second its file   *)
(* is created in and is written to for a while (tqdc-server.rs 214-227);   *)
(* ls -t tells which file was written to last.  Ages stop at Cap.          *)
(***************************************************************************)
EXTENDS Integers

CONSTANTS
    Interval,       \* --detector-interval: 60
    Period,         \* the sleep between two checks: 10
    ConnectTicks,   \* the longest a connection and its handshake take, unless they hang
    ReplyTicks,     \* likewise for one ls
    WriteTicks,     \* the longest a backup is written to
    Skew,           \* how far this clock is ahead of the detector's
    Cap             \* bound: ages are not told apart from here on

ASSUME AlarmAssumption ==
    /\ {Interval, Period, ConnectTicks, ReplyTicks, WriteTicks, Cap} \subseteq Nat
    /\ Skew \in Int
    /\ \A ticks \in {Period, ConnectTicks, ReplyTicks, WriteTicks} : ticks < Cap
    /\ Interval + Period + ReplyTicks < Cap + Skew

VARIABLES
    process,       \* "running", "ended", or "aborted": no sound any more
    watcher,       \* the thread that watches the points
    timer,         \* how long it has been where it is
    uptime,        \* how long since the start of the program, no further than Settled
    seen,          \* the age of the backup ls has named, until the check is over
    detector,      \* "up", or "hung": no answer any more
    empty,         \* the folder holds no backup
    newest,        \* the age of the backup written to last, by its name
    lastCreated,   \* the age of the backup created last
    writing,       \* the ages of those still being written to
    createdThen,   \* the age of the one that was the last created when ls looked
    battery,       \* the thread that watches the battery
    power          \* "mains" or "battery"

folderVars == <<empty, newest, lastCreated, writing>>
watcherVars == <<watcher, timer, seen, createdThen>>
vars == <<process, watcherVars, uptime, detector, folderVars, battery, power>>

Ages == 0 .. Cap

\* By now the first check is over.
Settled == ConnectTicks + ReplyTicks + 1

\* A thread in the panic hook is "stale" (the points are too old) or "broken".
WatcherState == {"connecting", "asking", "listed", "sleeping", "stale", "broken", "off"}
BatteryState == {"polling", "sounding", "broken", "off"}

Sounding == watcher \in {"stale", "broken"} \/ battery \in {"sounding", "broken"}

Running == process = "running"

Init ==
    /\ process = "running"
    /\ watcher \in {"connecting", "off"}     \* --ignore-detector
    /\ battery \in {"polling", "off"}        \* --ignore-battery
    /\ timer = 0 /\ uptime = 0 /\ seen = 0 /\ createdThen = 0
    /\ detector = "up"
    /\ empty \in BOOLEAN
    /\ lastCreated \in Ages
    /\ newest \in lastCreated .. Cap
    /\ newest <= lastCreated + WriteTicks
    /\ writing = {}
    /\ power \in {"mains", "battery"}

-----------------------------------------------------------------------------
(* The points *)

WatcherTo(from, to) ==
    /\ Running
    /\ watcher = from
    /\ watcher' = to
    /\ timer' = 0 /\ seen' = 0 /\ createdThen' = 0
    /\ UNCHANGED <<process, uptime, detector, folderVars, battery, power>>

Connected ==
    /\ detector = "up"
    /\ WatcherTo("connecting", "asking")

\* ls looks into the folder, at some time between the request and the answer.
Listed ==
    /\ detector = "up"
    /\ ~ empty
    /\ Running /\ watcher = "asking"
    /\ watcher' = "listed"
    /\ seen' = newest
    /\ createdThen' = lastCreated
    /\ UNCHANGED <<process, timer, uptime, detector, folderVars, battery, power>>

\* Mutants: the interval is inclusive; the sleep is allowed for.
TooOldInclusive(age) == age + Skew >= Interval
TooOldLate(age) == age + Skew > Interval + Period

TooOld(age) == age + Skew > Interval

AnsweredFresh ==
    /\ detector = "up"
    /\ ~ TooOld(seen)
    /\ WatcherTo("listed", "sleeping")

AnsweredStale ==
    /\ detector = "up"
    /\ TooOld(seen)
    /\ WatcherTo("listed", "stale")

\* Any expect: the connection, the session, the answer that is no file name; of an
\* empty folder ls names nothing, which &s[..19] does not survive.
WatcherBreaks ==
    /\ \E from \in {"connecting", "asking", "listed"} : WatcherTo(from, "broken")

Slept ==
    /\ timer = Period
    /\ WatcherTo("sleeping", "asking")

-----------------------------------------------------------------------------
(* The battery; the end of the process *)

BatteryTo(to) ==
    /\ Running
    /\ battery = "polling"
    /\ battery' = to
    /\ UNCHANGED <<process, watcherVars, uptime, detector, folderVars, power>>

\* Mutant: the state is asked for once.
PollOnce ==
    \/ power = "battery" /\ BatteryTo("sounding")
    \/ power = "mains" /\ BatteryTo("off")

\* A poll that finds the battery charging or full changes nothing.
Poll == power = "battery" /\ BatteryTo("sounding")

BatteryBreaks == BatteryTo("broken")

\* speaker-test cannot be started: the unwrap panics within the panic hook, which
\* aborts the process and every alarm with it.
SpeakerFails ==
    /\ Running
    /\ Sounding
    /\ process' = "aborted"
    /\ UNCHANGED <<watcherVars, uptime, detector, folderVars, battery, power>>

\* main joins the threads; with both ignored there is nothing to wait for.
Joined ==
    /\ Running
    /\ watcher = "off" /\ battery = "off"
    /\ process' = "ended"
    /\ UNCHANGED <<watcherVars, uptime, detector, folderVars, battery, power>>

-----------------------------------------------------------------------------
(* The surroundings: the server's backups, the detector, the mains, time *)

CreateBackup ==
    /\ Running
    /\ empty' = FALSE
    /\ newest' = 0 /\ lastCreated' = 0
    /\ writing' = writing \cup {0}
    /\ UNCHANGED <<process, watcherVars, uptime, detector, battery, power>>

WriteBackup ==
    /\ Running
    /\ \E age \in writing :
          /\ newest' = age
          /\ writing' \in {writing, writing \ {age}}
    /\ UNCHANGED <<process, watcherVars, uptime, detector, empty, lastCreated, battery, power>>

Hang ==
    /\ Running
    /\ detector' = "hung"
    /\ UNCHANGED <<process, watcherVars, uptime, folderVars, battery, power>>

PowerTurns ==
    /\ Running
    /\ power' \in {"mains", "battery"} \ {power}
    /\ UNCHANGED <<process, watcherVars, uptime, detector, folderVars, battery>>

Older(age) == IF age = Cap THEN Cap ELSE age + 1

\* Mutant: the sleep may last longer.
InTimeAwake ==
    CASE watcher = "connecting" -> timer < ConnectTicks \/ detector = "hung"
      [] watcher \in {"asking", "listed"} -> timer < ReplyTicks \/ detector = "hung"
      [] OTHER -> TRUE

\* What the watcher waits for has come by the time its time is up.  It waits for a
\* detector that hangs without a limit: there is no timeout.
InTime ==
    CASE watcher = "sleeping" -> timer < Period
      [] watcher = "connecting" -> timer < ConnectTicks \/ detector = "hung"
      [] watcher \in {"asking", "listed"} -> timer < ReplyTicks \/ detector = "hung"
      [] OTHER -> TRUE

Tick ==
    /\ Running
    /\ InTime
    /\ \A age \in writing : age < WriteTicks
    /\ timer' = IF watcher \in {"stale", "broken", "off"} THEN timer ELSE Older(timer)
    /\ uptime' = IF uptime = Settled THEN Settled ELSE uptime + 1
    /\ IF watcher = "listed"
       THEN seen' = Older(seen) /\ createdThen' = Older(createdThen)
       ELSE UNCHANGED <<seen, createdThen>>
    /\ newest' = Older(newest) /\ lastCreated' = Older(lastCreated)
    /\ writing' = {Older(age) : age \in writing}
    /\ UNCHANGED <<process, watcher, detector, empty, battery, power>>

Next ==
    \/ Connected \/ Listed \/ AnsweredFresh \/ AnsweredStale \/ WatcherBreaks \/ Slept
    \/ Poll \/ BatteryBreaks
    \/ SpeakerFails \/ Joined
    \/ CreateBackup \/ WriteBackup \/ Hang \/ PowerTurns
    \/ Tick

Spec == Init /\ [][Next]_vars

\* The battery thread is scheduled.
FairSpec == Spec /\ WF_vars(Poll)

-----------------------------------------------------------------------------
(* Properties *)

\* The variables keep their types; while the detector answers, no wait of the
\* watcher is longer than it may be.
TypeOK ==
    /\ process \in {"running", "ended", "aborted"}
    /\ watcher \in WatcherState /\ battery \in BatteryState
    /\ timer \in Ages /\ uptime \in 0 .. Settled
    /\ seen \in Ages /\ createdThen \in Ages
    /\ detector \in {"up", "hung"}
    /\ empty \in BOOLEAN
    /\ newest \in Ages /\ lastCreated \in Ages
    /\ writing \subseteq 0 .. WriteTicks
    /\ power \in {"mains", "battery"}
    /\ watcher = "sleeping" => timer <= Period
    /\ detector = "up" /\ watcher = "connecting" => timer <= ConnectTicks
    /\ detector = "up" /\ watcher \in {"asking", "listed"} => timer <= ReplyTicks

\* Silence is bounded: as long as the detector answers or refuses, the watcher has
\* sounded the alarm when no backup was created for longer than the interval, the
\* sleep and one answer; the clocks' difference counts against it.
SilenceBounded ==
    /\ Running /\ watcher # "off"
    /\ detector = "up"
    /\ uptime = Settled
    /\ lastCreated + Skew > Interval + Period + ReplyTicks
    => watcher \in {"stale", "broken"}

\* No alarm comes for stale points unless, when ls looked, none had been created
\* for the interval, less the clocks' difference and the time that a backup is
\* written to: the one written to last need not be the one created last.
NoFalseAlarm ==
    [][watcher # "stale" /\ watcher' = "stale"
       => createdThen + WriteTicks + Skew > Interval]_vars

\* A power failure that lasts sounds the alarm, unless the battery is ignored or
\* the process has ended.
PowerFailureSounds ==
    battery = "polling" =>
        (power = "battery"
            ~> battery \in {"sounding", "broken"} \/ power = "mains" \/ ~ Running)
=============================================================================
