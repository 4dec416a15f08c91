-------------------------- MODULE SoundAlarmProofs --------------------------
(***************************************************************************)
(* For every interval, period and delay, every difference of the clocks    *)
(* and every way the backups are written: silence is bounded, and an alarm *)
(* for stale points is true.                                               *)
(*                                                                         *)
(* The newest name lags behind the last creation by no more than a backup  *)
(* is written to (FolderInv), and so does what ls has seen (SeenInv).  The *)
(* watcher carries from one check to the next how old the points can be    *)
(* (FreshInv): no older than at the last check, plus the time since.       *)
(***************************************************************************)
EXTENDS SoundAlarm, TLAPS

\* The last backup created is the youngest, the one written to last not much
\* older.
FolderInv ==
    /\ lastCreated <= newest
    /\ newest <= lastCreated + WriteTicks
    /\ \A age \in writing : lastCreated <= age

\* The same of what ls saw; backups created since then are younger.
SeenInv ==
    watcher = "listed" =>
        /\ lastCreated <= seen
        /\ seen <= createdThen + WriteTicks

\* No check has been made, and the program has run for no longer than the waits
\* so far; or there was one, and the points were fresh then.
FirstCheck == uptime <= timer + ConnectTicks
FreshSince(ticks) == lastCreated + Skew <= Interval + ticks

FreshInv ==
    detector = "up" =>
        /\ watcher = "connecting" => uptime <= timer
        /\ watcher = "sleeping" => FreshSince(timer)
        /\ watcher \in {"asking", "listed"} => FirstCheck \/ FreshSince(Period + timer)

Inv == TypeOK /\ FolderInv /\ SeenInv /\ FreshInv

-----------------------------------------------------------------------------

\* What the constants are.
LEMMA ConstantsAreNumbers ==
    /\ Interval \in Nat /\ Period \in Nat /\ ConnectTicks \in Nat
    /\ ReplyTicks \in Nat /\ WriteTicks \in Nat /\ Cap \in Nat /\ Skew \in Int
    /\ Period < Cap /\ ConnectTicks < Cap /\ ReplyTicks < Cap /\ WriteTicks < Cap
    /\ Interval + Period + ReplyTicks < Cap + Skew
BY AlarmAssumption

\* Growing older keeps ages in order and apart by no more than they were.
LEMMA OlderAge ==
    ASSUME NEW a \in Ages
    PROVE  Older(a) \in Ages /\ a <= Older(a) /\ Older(a) <= a + 1
BY ConstantsAreNumbers DEF Ages, Older

LEMMA OlderInOrder ==
    ASSUME NEW a \in Ages, NEW b \in Ages, NEW d \in Nat, a <= b + d
    PROVE  Older(a) <= Older(b) + d
BY ConstantsAreNumbers DEF Ages, Older

\* The initial states.
LEMMA InitInv == Init => Inv
BY ConstantsAreNumbers
DEF Init, Inv, TypeOK, FolderInv, SeenInv, FreshInv, WatcherState, BatteryState,
    Ages, Settled

\* The steps of the watcher but time.
LEMMA WatcherInv ==
    ASSUME Inv, Connected \/ Listed \/ AnsweredFresh \/ AnsweredStale \/ WatcherBreaks \/ Slept
    PROVE  Inv'
<1>. USE ConstantsAreNumbers DEF Inv, TypeOK, FolderInv, SeenInv, FreshInv, FirstCheck,
         FreshSince, WatcherState, BatteryState, Ages, Settled, folderVars, WatcherTo
<1>1. CASE Connected
  BY <1>1 DEF Connected
<1>2. CASE Listed
  BY <1>2 DEF Listed
<1>3. CASE AnsweredFresh
  BY <1>3 DEF AnsweredFresh, TooOld
<1>4. CASE AnsweredStale
  BY <1>4 DEF AnsweredStale
<1>5. CASE WatcherBreaks
  BY <1>5 DEF WatcherBreaks
<1>6. CASE Slept
  BY <1>6 DEF Slept
<1>. QED BY <1>1, <1>2, <1>3, <1>4, <1>5, <1>6

\* A backup is created.
LEMMA CreateBackupTypeOK ==
    ASSUME TypeOK, CreateBackup
    PROVE  TypeOK'
<1>1. writing' \subseteq 0 .. WriteTicks
  BY ConstantsAreNumbers DEF TypeOK, CreateBackup
<1>2. newest' \in Ages /\ lastCreated' \in Ages
  BY ConstantsAreNumbers DEF CreateBackup, Ages
<1>. QED BY <1>1, <1>2 DEF TypeOK, CreateBackup, watcherVars

\* The steps of the battery thread, the end of the process and the surroundings.
LEMMA OthersInv ==
    ASSUME Inv,
           \/ Poll \/ BatteryBreaks \/ SpeakerFails \/ Joined
           \/ CreateBackup \/ WriteBackup \/ Hang \/ PowerTurns
    PROVE  Inv'
<1>. USE ConstantsAreNumbers DEF Inv, TypeOK, FolderInv, SeenInv, FreshInv, FirstCheck,
         FreshSince, WatcherState, BatteryState, Ages, Settled, folderVars, watcherVars
<1>1. CASE Poll \/ BatteryBreaks
  BY <1>1 DEF Poll, BatteryBreaks, BatteryTo
<1>2. CASE SpeakerFails \/ Joined
  BY <1>2 DEF SpeakerFails, Joined
<1>3. CASE CreateBackup
  <2>1. TypeOK'
    BY <1>3, CreateBackupTypeOK
  <2>2. FolderInv' /\ SeenInv'
    BY <1>3 DEF CreateBackup
  <2>3. FreshInv'
    BY <1>3 DEF CreateBackup
  <2>. QED BY <2>1, <2>2, <2>3
<1>4. CASE WriteBackup
  BY <1>4 DEF WriteBackup
<1>5. CASE Hang \/ PowerTurns
  <2>1. CASE Hang
    BY <2>1 DEF Hang
  <2>2. CASE PowerTurns
    BY <2>2 DEF PowerTurns
  <2>. QED BY <1>5, <2>1, <2>2
<1>. QED BY <1>1, <1>2, <1>3, <1>4, <1>5

\* A second passes.
LEMMA TickInv ==
    ASSUME Inv, Tick
    PROVE  Inv'
<1>1. TypeOK'
  <2>1. timer' \in Ages /\ seen' \in Ages /\ createdThen' \in Ages
        /\ newest' \in Ages /\ lastCreated' \in Ages /\ uptime' \in 0 .. Settled
    BY OlderAge, ConstantsAreNumbers DEF Inv, TypeOK, Tick, Settled
  <2>2. writing' \subseteq 0 .. WriteTicks
    BY ConstantsAreNumbers DEF Inv, TypeOK, Tick, Older
  <2>3. /\ (watcher = "sleeping" => timer <= Period)'
        /\ (detector = "up" /\ watcher = "connecting" => timer <= ConnectTicks)'
        /\ (detector = "up" /\ watcher \in {"asking", "listed"} => timer <= ReplyTicks)'
    BY ConstantsAreNumbers DEF Inv, TypeOK, Tick, InTime, Older, Ages
  <2>. QED BY <2>1, <2>2, <2>3 DEF Inv, TypeOK, Tick
<1>2. FolderInv'
  <2>1. lastCreated' <= newest' /\ newest' <= lastCreated' + WriteTicks
    BY ConstantsAreNumbers DEF Inv, TypeOK, FolderInv, Tick, Ages, Older
  <2>2. \A age \in writing' : lastCreated' <= age
    BY ConstantsAreNumbers DEF Inv, TypeOK, FolderInv, Tick, Ages, Older
  <2>. QED BY <2>1, <2>2 DEF FolderInv
<1>3. SeenInv'
  BY ConstantsAreNumbers DEF Inv, TypeOK, SeenInv, Tick, Ages, Older
<1>4. FreshInv'
  BY ConstantsAreNumbers
  DEF Inv, TypeOK, FreshInv, FirstCheck, FreshSince, Tick, InTime, Ages, Older, Settled
<1>. QED BY <1>1, <1>2, <1>3, <1>4 DEF Inv

\* Every step keeps the invariant.
LEMMA NextInv == Inv /\ [Next]_vars => Inv'
<1>. SUFFICES ASSUME Inv, [Next]_vars PROVE Inv'
  OBVIOUS
<1>1. CASE UNCHANGED vars
  BY <1>1
  DEF vars, watcherVars, folderVars, Inv, TypeOK, FolderInv, SeenInv, FreshInv, FirstCheck,
      FreshSince
<1>2. CASE Next
  BY <1>2, WatcherInv, OthersInv, TickInv DEF Next
<1>. QED BY <1>1, <1>2

LEMMA SpecInv == Spec => []Inv
BY InitInv, NextInv, PTL DEF Spec

-----------------------------------------------------------------------------

\* The variables keep their types, and no wait of the watcher is too long.
THEOREM TypeCorrect == Spec => []TypeOK
<1>1. Inv => TypeOK
  BY DEF Inv
<1>. QED BY <1>1, SpecInv, PTL

\* Whatever the constants are, the watcher has sounded the alarm once no backup
\* was created for the interval, the sleep and one answer.
THEOREM SilenceIsBounded == Spec => []SilenceBounded
<1>1. Inv => SilenceBounded
  BY ConstantsAreNumbers
  DEF Inv, TypeOK, FreshInv, FirstCheck, FreshSince, SilenceBounded, WatcherState, Ages, Settled
<1>. QED BY <1>1, SpecInv, PTL

\* Only the answer to a check sounds the alarm for stale points, and what it tells
\* is not older than the points were by more than a backup is written to.
THEOREM AlarmsAreTrue == Spec => NoFalseAlarm
<1>1. Inv /\ [Next]_vars =>
          [watcher # "stale" /\ watcher' = "stale"
              => createdThen + WriteTicks + Skew > Interval]_vars
  <2>. SUFFICES ASSUME Inv, Next, watcher # "stale", watcher' = "stale"
                PROVE  createdThen + WriteTicks + Skew > Interval
    OBVIOUS
  <2>1. AnsweredStale
    BY DEF Next, Connected, Listed, AnsweredFresh, WatcherBreaks, Slept, WatcherTo, Poll,
           BatteryBreaks, BatteryTo, SpeakerFails, Joined, CreateBackup, WriteBackup, Hang,
           PowerTurns, Tick, watcherVars
  <2>. QED
    BY <2>1, ConstantsAreNumbers
    DEF AnsweredStale, WatcherTo, TooOld, Inv, TypeOK, SeenInv, Ages
<1>. QED BY <1>1, SpecInv, PTL DEF Spec, NoFalseAlarm
=============================================================================
