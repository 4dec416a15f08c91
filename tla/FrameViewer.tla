---------------------------- MODULE FrameViewer ----------------------------
(***************************************************************************)
(* frame-viewer (apps/src/bin/frame-viewer.rs): a thread that receives     *)
(* fragments and at each refresh hands those it holds to a new thread,     *)
(* which adds them to the counts and the histogram and publishes both, and *)
(* the GUI, which draws what was published.  They share three mutexes that *)
(* are held over several steps: counts, histogram and count_rate; the      *)
(* fourth, channels, is held for one assignment or one clone only.         *)
(*                                                                         *)
(* Every packet is one event above the threshold.  The panics of the       *)
(* processing of a packet (block length, filter) are a choice.             *)
(***************************************************************************)
EXTENDS MStream, KeyOrder, FiniteSetsExt

CONSTANTS
    Packets,
    IdOf,             \* the fragment_id the device gave each packet
    CutOf,            \* the fragments it cut each packet into
    OverflowChecks,   \* TRUE: a debug build
    MaxRefreshes      \* bound: refreshes that happen; nothing is received after

ASSUME ViewerAssumption ==
    /\ IdOf \in [Packets -> Nat]
    /\ CutOf \in [Packets -> Seq(Fragment)]
    /\ OverflowChecks \in BOOLEAN
    /\ MaxRefreshes \in Nat

VARIABLES
    receiver,        \* "alive" or "dead"
    fragments_buf,   \* the fragments held: <<packet, part>>
    got,             \* the fragments received before, between and after refreshes
    threads,         \* the refresh threads: what they were handed, and how far they are
    counts,          \* what is counted: <<thread, fragment_id>>
    histogram,       \* likewise
    count_rate,      \* likewise, what the GUI shows
    channels,        \* the <<thread, fragment_id>> whose waveforms it shows, in a set
    publisher,       \* the thread that published last; 0: none
    gui              \* "idle", "rates", "plots", "closed"

shared == <<counts, histogram, count_rate, channels, publisher>>
vars == <<receiver, fragments_buf, got, threads, shared, gui>>

Fragments == UNION {{<<p, n>> : n \in 1 .. Len(CutOf[p])} : p \in Packets}

Id(fr) == IdOf[fr[1]]
FragmentOf(fr) == CutOf[fr[1]][fr[2]]
Offset(fr) == FragmentOf(fr).offset

\* A refresh thread waits for the lock of counts, then holds it and waits for that
\* of histogram, holds both with its batch to fill in, and with the batch filled
\* in waits for that of count_rate.
ThreadState == {"new", "counts", "both", "filled", "ended", "panicked"}
Thread == [batch : SUBSET Fragments, pc : ThreadState]

Threads == 1 .. Len(threads)
Entry == (1 .. MaxRefreshes) \X {IdOf[p] : p \in Packets}

\* Closing the window ends the process.
Running == gui # "closed"

Init ==
    /\ receiver = "alive"
    /\ fragments_buf = {}
    /\ got = <<{}>>
    /\ threads = <<>>
    /\ counts = {} /\ histogram = {} /\ count_rate = {} /\ channels = {}
    /\ publisher = 0
    /\ gui = "idle"

-----------------------------------------------------------------------------
(* The receiving thread *)

\* Mutant: a fragment that comes again is kept beside the first.
InsertedBeside(fr) == fragments_buf \cup {fr}

\* insert replaces the fragment there was for the offset.
Inserted(fr) ==
    {other \in fragments_buf : ~ (Id(other) = Id(fr) /\ Offset(other) = Offset(fr))}
        \cup {fr}

\* Any fragment may come, again too; it is acknowledged and inserted.
Receive ==
    /\ Running /\ receiver = "alive"
    /\ Len(threads) < MaxRefreshes
    /\ \E fr \in Fragments :
          /\ fragments_buf' = Inserted(fr)
          /\ got' = [got EXCEPT ![Len(got)] = @ \cup {fr}]
    /\ UNCHANGED <<receiver, threads, shared, gui>>

\* Mutant: the thread is handed a copy.
RefreshKeeping ==
    /\ Running /\ receiver = "alive"
    /\ Len(threads) < MaxRefreshes
    /\ \E fr \in Fragments :
          /\ threads' = Append(threads, [batch |-> Inserted(fr), pc |-> "new"])
          /\ got' = Append([got EXCEPT ![Len(got)] = @ \cup {fr}], {})
          /\ fragments_buf' = Inserted(fr)
    /\ UNCHANGED <<receiver, shared, gui>>

\* The same when the interval is over: with this fragment, what is held goes to a
\* new thread.
Refresh ==
    /\ Running /\ receiver = "alive"
    /\ Len(threads) < MaxRefreshes
    /\ \E fr \in Fragments :
          /\ threads' = Append(threads, [batch |-> Inserted(fr), pc |-> "new"])
          /\ got' = Append([got EXCEPT ![Len(got)] = @ \cup {fr}], {})
    /\ fragments_buf' = {}
    /\ UNCHANGED <<receiver, shared, gui>>

\* A failing socket, a datagram that is not STREAM or does not parse and, in a
\* debug build, the acknowledgement after the 65536th end the thread; the others
\* go on.
ReceiverPanics ==
    /\ Running /\ receiver = "alive"
    /\ Len(threads) < MaxRefreshes
    /\ receiver' = "dead"
    /\ UNCHANGED <<fragments_buf, got, threads, shared, gui>>

-----------------------------------------------------------------------------
(* A refresh thread *)

CountsFree == \A k \in Threads : threads[k].pc \notin {"counts", "both", "filled"}
HistogramFree == \A k \in Threads : threads[k].pc \notin {"both", "filled"}

\* Mutant: the GUI keeps the lock for the whole of update.
RateFreeAfterUpdate == gui \notin {"rates", "plots"}

RateFree == gui # "rates"

ThreadTo(k, from, to) ==
    /\ Running
    /\ k \in Threads
    /\ threads[k].pc = from
    /\ threads' = [threads EXCEPT ![k].pc = to]
    /\ UNCHANGED <<receiver, fragments_buf, got, gui>>

LockCounts(k) == CountsFree /\ ThreadTo(k, "new", "counts") /\ UNCHANGED shared

LockHistogram(k) == HistogramFree /\ ThreadTo(k, "counts", "both") /\ UNCHANGED shared

\* The values of the inner map of an id, in order of offset, joined.
IdsIn(batch) == {Id(fr) : fr \in batch}

Slice(parts) ==
    LET order == InOrder(parts, [fr \in parts |-> Offset(fr)])
    IN  [n \in 1 .. Len(order) |-> FragmentOf(order[n])]

MergeOf(batch, id) == Merge(Slice({fr \in batch : Id(fr) = id}), OverflowChecks)

CombinedOf(batch) == {id \in IdsIn(batch) : MergeOf(batch, id) = "ok"}
Combined(k) == CombinedOf(threads[k].batch)

AddAll(k, ids) ==
    /\ counts' = counts \cup ({k} \X ids)
    /\ histogram' = histogram \cup ({k} \X ids)

\* The packets that combine are added; the waveforms of the first are shown.
Fill(k) ==
    /\ ThreadTo(k, "both", "filled")
    /\ \A id \in IdsIn(threads[k].batch) : MergeOf(threads[k].batch, id) # "panic"
    /\ LET ids == Combined(k)
       IN  /\ AddAll(k, ids)
           /\ channels' = IF ids = {} THEN channels ELSE {<<k, Min(ids)>>}
    /\ UNCHANGED <<count_rate, publisher>>

\* A packet whose processing panics ends the thread, before or after its own event
\* was added: both locks are released, unpoisoned, and what was added stays.
FillPanics(k) ==
    /\ ThreadTo(k, "both", "panicked")
    /\ \E id \in IdsIn(threads[k].batch), counted \in BOOLEAN :
          /\ MergeOf(threads[k].batch, id) \in {"ok", "panic"}
          /\ AddAll(k, {j \in Combined(k) : j < id \/ (counted /\ j = id)})
    /\ UNCHANGED <<count_rate, channels, publisher>>

\* Mutant: counts is not cleared.
PublishRateKeeping(k) ==
    /\ RateFree
    /\ ThreadTo(k, "filled", "ended")
    /\ count_rate' = counts
    /\ publisher' = k
    /\ UNCHANGED <<counts, histogram, channels>>

PublishRate(k) ==
    /\ RateFree
    /\ ThreadTo(k, "filled", "ended")
    /\ count_rate' = counts
    /\ counts' = {}
    /\ publisher' = k
    /\ UNCHANGED <<histogram, channels>>

-----------------------------------------------------------------------------
(* The GUI: MyEguiApp::update, again and again *)

GuiTo(from, to) ==
    /\ gui = from
    /\ gui' = to
    /\ UNCHANGED <<receiver, fragments_buf, got, threads, shared>>

LockRate == GuiTo("idle", "rates")
RatesDrawn == GuiTo("rates", "plots")
DrawHistogram == HistogramFree /\ GuiTo("plots", "idle")
Close == GuiTo("idle", "closed")

ThreadStep(k) ==
    \/ LockCounts(k)
    \/ LockHistogram(k)
    \/ Fill(k)
    \/ FillPanics(k)
    \/ PublishRate(k)

Next ==
    \/ Receive
    \/ Refresh
    \/ ReceiverPanics
    \/ \E k \in 1 .. MaxRefreshes : ThreadStep(k)
    \/ LockRate
    \/ RatesDrawn
    \/ DrawHistogram
    \/ Close

Spec == Init /\ [][Next]_vars

\* Threads are scheduled, and a mutex is eventually fair: a waiter gets it that
\* finds it free again and again.
FairSpec ==
    /\ Spec
    /\ \A k \in 1 .. MaxRefreshes : SF_vars(ThreadStep(k))
    /\ WF_vars(LockRate) /\ WF_vars(RatesDrawn) /\ SF_vars(DrawHistogram)

-----------------------------------------------------------------------------
(* Properties *)

\* The variables keep their types; the buffer, and every batch that was handed to a
\* thread, holds one fragment for each id and offset.
OnePerOffset(fragments) ==
    \A a, b \in fragments : Id(a) = Id(b) /\ Offset(a) = Offset(b) => a = b

TypeOK ==
    /\ receiver \in {"alive", "dead"}
    /\ fragments_buf \subseteq Fragments /\ OnePerOffset(fragments_buf)
    /\ got \in Seq(SUBSET Fragments) /\ Len(got) = Len(threads) + 1
    /\ threads \in Seq(Thread) /\ Len(threads) <= MaxRefreshes
    /\ counts \subseteq Entry /\ histogram \subseteq Entry /\ count_rate \subseteq Entry
    /\ channels \subseteq Entry
    /\ \A k \in Threads : OnePerOffset(threads[k].batch)
    /\ publisher \in 0 .. Len(threads)
    /\ gui \in {"idle", "rates", "plots", "closed"}

\* The rates on the screen are those of one batch: every packet of the publishing
\* thread and of no other, except what a thread that panicked had left in counts
\* (the time they are divided by is that of the publisher's batch).
RateOfOneBatch ==
    publisher # 0 =>
        /\ {publisher} \X Combined(publisher) \subseteq count_rate
        /\ \A entry \in count_rate :
              entry[1] # publisher => threads[entry[1]].pc = "panicked"

\* p is the only packet of its id between two refreshes.
Alone(k, p) ==
    /\ \E n \in 1 .. Len(CutOf[p]) : <<p, n>> \in got[k]
    /\ \A fr \in got[k] : Id(fr) = IdOf[p] => fr[1] = p

\* A packet is in the histogram once for each refresh interval in which all of its
\* fragments came, in whatever order and however often, if they can be joined at
\* all, and not for an interval in which some of them did not come.
PacketsCountedInTheirBatch ==
    \A k \in Threads : threads[k].pc \in {"filled", "ended"} =>
        \A p \in Packets : IsCut(CutOf[p]) /\ Alone(k, p) =>
            (<<k, IdOf[p]>> \in histogram
                <=> /\ \A n \in 1 .. Len(CutOf[p]) : <<p, n>> \in got[k]
                    /\ Merge(CutOf[p], OverflowChecks) = "ok")

\* No thread waits for ever: once the last refresh has begun every refresh thread
\* ends, whatever panics, and the GUI draws on, unless the window is closed.
NobodyWaitsForever ==
    []<>(\/ ~ Running
         \/ gui = "idle" /\ \A k \in Threads : threads[k].pc \in {"ended", "panicked"})
=============================================================================
