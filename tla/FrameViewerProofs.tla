------------------------- MODULE FrameViewerProofs -------------------------
(***************************************************************************)
(* For any packets, however they are cut, and any number of refreshes: the *)
(* rates on the screen are those of one batch, and a packet is counted for *)
(* the intervals in which all of it came.                                  *)
(*                                                                         *)
(* At most one thread is between taking the lock of counts and releasing   *)
(* it (Exclusive).  So counts holds nothing but what the thread that holds *)
(* the lock filled in and what threads left that panicked (CountsInv), and *)
(* what it publishes is that.                                              *)
(*                                                                         *)
(* What the receiver holds stands for all that came since the last refresh *)
(* (ArrivedInv), so the slice of a packet is the whole of it exactly when  *)
(* all of it came.                                                         *)
(***************************************************************************)
EXTENDS FrameViewer, SequenceLemmas

Holding == {"counts", "both", "filled"}

Exclusive ==
    \A j, k \in Threads :
        threads[j].pc \in Holding /\ threads[k].pc \in Holding => j = k

\* What is in counts, and whose it is.
CountsInv ==
    /\ \A entry \in counts :
          entry[1] \in Threads /\ threads[entry[1]].pc \in {"filled", "panicked"}
    /\ \A k \in Threads : threads[k].pc = "filled" => {k} \X Combined(k) \subseteq counts

\* What is in count_rate, and whose it is.
RateInv ==
    publisher # 0 =>
        /\ {publisher} \X Combined(publisher) \subseteq count_rate
        /\ \A entry \in count_rate :
              /\ entry[1] \in Threads
              /\ entry[1] # publisher => threads[entry[1]].pc = "panicked"
        /\ threads[publisher].pc = "ended"

Inv == TypeOK /\ Exclusive /\ CountsInv /\ RateInv

-----------------------------------------------------------------------------
(* What a step does to the threads *)

\* Every batch holds one fragment for each id and offset.
OneEach == \A k \in Threads : OnePerOffset(threads[k].batch)

\* The steps of a thread change how far it is, and nothing of the others.
LEMMA ThreadToFacts ==
    ASSUME TypeOK, NEW k, NEW from \in ThreadState, NEW to \in ThreadState,
           ThreadTo(k, from, to)
    PROVE  /\ k \in Threads /\ threads[k].pc = from
           /\ threads' \in Seq(Thread) /\ Len(threads') = Len(threads)
           /\ Threads' = Threads
           /\ \A j \in Threads : threads'[j].batch = threads[j].batch
           /\ \A j \in Threads : threads'[j].pc = IF j = k THEN to ELSE threads[j].pc
           /\ OneEach'
           /\ UNCHANGED <<receiver, fragments_buf, got, gui>>
<1>. USE DEF TypeOK, ThreadTo, Threads
<1>1. threads \in Seq(Thread) /\ k \in 1 .. Len(threads) /\ threads[k] \in Thread
  OBVIOUS
<1>2. [threads[k] EXCEPT !.pc = to] \in Thread
  BY <1>1 DEF Thread
<1>3. threads' = [threads EXCEPT ![k] = [threads[k] EXCEPT !.pc = to]]
  OBVIOUS
<1>4. threads' \in Seq(Thread) /\ Len(threads') = Len(threads)
  BY <1>1, <1>2, <1>3
<1>5. \A j \in Threads : threads'[j] =
          IF j = k THEN [threads[k] EXCEPT !.pc = to] ELSE threads[j]
  BY <1>1, <1>3
<1>6. \A j \in Threads : threads[j] \in Thread
  BY <1>1
<1>7. \A j \in Threads : threads'[j].batch = threads[j].batch
  BY <1>1, <1>5, <1>6 DEF Thread
<1>8. OneEach'
  BY <1>4, <1>7 DEF OneEach, OnePerOffset
<1>. QED BY <1>1, <1>4, <1>5, <1>6, <1>7, <1>8 DEF Thread

\* A refresh adds a thread that is new.
LEMMA RefreshFacts ==
    ASSUME TypeOK, Refresh
    PROVE  /\ threads' \in Seq(Thread) /\ Len(threads') = Len(threads) + 1
           /\ Len(threads') <= MaxRefreshes
           /\ Threads' = Threads \cup {Len(threads) + 1}
           /\ \A j \in Threads : threads'[j] = threads[j]
           /\ threads'[Len(threads) + 1].pc = "new"
           /\ OneEach'
           /\ got' \in Seq(SUBSET Fragments) /\ Len(got') = Len(threads') + 1
<1>. PICK fr \in Fragments :
          /\ threads' = Append(threads, [batch |-> Inserted(fr), pc |-> "new"])
          /\ got' = Append([got EXCEPT ![Len(got)] = @ \cup {fr}], {})
  BY DEF Refresh
<1>1. Inserted(fr) \subseteq Fragments /\ OnePerOffset(Inserted(fr))
  BY DEF Inserted, TypeOK, OnePerOffset
<1>2. [batch |-> Inserted(fr), pc |-> "new"] \in Thread
  BY <1>1 DEF Thread, ThreadState
<1>3. threads \in Seq(Thread) /\ Len(threads) < MaxRefreshes
  BY DEF TypeOK, Refresh
<1>4. [got EXCEPT ![Len(got)] = @ \cup {fr}] \in Seq(SUBSET Fragments)
      /\ Len([got EXCEPT ![Len(got)] = @ \cup {fr}]) = Len(got)
  BY DEF TypeOK
<1>5. got' \in Seq(SUBSET Fragments) /\ Len(got') = Len(got) + 1
  BY <1>4
<1>6. /\ Threads' = Threads \cup {Len(threads) + 1}
      /\ \A j \in Threads : threads'[j] = threads[j]
      /\ threads'[Len(threads) + 1].batch = Inserted(fr)
  BY <1>2, <1>3 DEF Threads
<1>7. OneEach'
  <2>1. \A j \in Threads : OnePerOffset(threads[j].batch)
    BY DEF TypeOK
  <2>2. SUFFICES ASSUME NEW j \in Threads'
                 PROVE  OnePerOffset(threads[j].batch)'
    BY DEF OneEach
  <2>3. CASE j \in Threads
    BY <1>6, <2>1, <2>3 DEF OnePerOffset
  <2>4. CASE j = Len(threads) + 1
    BY <1>1, <1>6, <2>4 DEF OnePerOffset
  <2>. QED BY <1>6, <2>2, <2>3, <2>4
<1>. QED BY <1>2, <1>3, <1>5, <1>6, <1>7, ViewerAssumption DEF Threads, TypeOK

\* A fragment that comes keeps the buffer and the history what they are.
LEMMA InsertedFacts ==
    ASSUME TypeOK, NEW fr \in Fragments
    PROVE  Inserted(fr) \subseteq Fragments /\ OnePerOffset(Inserted(fr))
BY DEF TypeOK, Inserted, OnePerOffset

\* The least of the ids of a batch is one of them.
LEMMA LeastId ==
    ASSUME NEW ids \in SUBSET Nat, ids # {}
    PROVE  Min(ids) \in ids
<1>1. \E x \in ids : \A y \in ids : x <= y
  BY Least
<1>. QED BY <1>1 DEF Min

LEMMA CombinedIds ==
    ASSUME NEW batch \in SUBSET Fragments
    PROVE  /\ CombinedOf(batch) \subseteq {IdOf[p] : p \in Packets}
           /\ CombinedOf(batch) \subseteq Nat
BY ViewerAssumption DEF CombinedOf, IdsIn, Id, Fragments

-----------------------------------------------------------------------------
(* The invariant *)

LEMMA InitInv == Init => Inv
BY ViewerAssumption
DEF Init, Inv, TypeOK, Exclusive, CountsInv, RateInv, Threads, OnePerOffset

\* Exclusive, CountsInv and RateInv speak of the threads and what they share only.
LEMMA QuietStep ==
    ASSUME Inv, UNCHANGED <<threads, shared>>
    PROVE  Exclusive' /\ CountsInv' /\ RateInv'
BY DEF Inv, Exclusive, CountsInv, RateInv, shared, Threads, Combined

LEMMA ReceiverInv ==
    ASSUME Inv, Receive \/ ReceiverPanics
    PROVE  Inv'
<1>1. UNCHANGED <<threads, shared, gui>>
  BY DEF Receive, ReceiverPanics
<1>2. TypeOK'
  <2>1. CASE Receive
    <3>. PICK fr \in Fragments :
              /\ fragments_buf' = Inserted(fr)
              /\ got' = [got EXCEPT ![Len(got)] = @ \cup {fr}]
      BY <2>1 DEF Receive
    <3>1. fragments_buf' \subseteq Fragments /\ OnePerOffset(fragments_buf)'
      BY InsertedFacts DEF Inv, OnePerOffset
    <3>2. got' \in Seq(SUBSET Fragments) /\ Len(got') = Len(got)
      BY DEF Inv, TypeOK
    <3>3. Threads' = Threads /\ \A k \in Threads : OnePerOffset(threads[k].batch)'
      BY <1>1 DEF Inv, TypeOK, Threads, OnePerOffset
    <3>. QED BY <1>1, <2>1, <3>1, <3>2, <3>3 DEF Inv, TypeOK, Receive, shared
  <2>2. CASE ReceiverPanics
    BY <1>1, <2>2 DEF ReceiverPanics, Inv, TypeOK, shared, OnePerOffset, Threads
  <2>. QED BY <2>1, <2>2
<1>. QED BY <1>1, <1>2, QuietStep DEF Inv

LEMMA RefreshInv ==
    ASSUME Inv, Refresh
    PROVE  Inv'
<1>1. TypeOK
  BY DEF Inv
<1>2. UNCHANGED <<receiver, shared, gui>> /\ fragments_buf' = {}
  BY DEF Refresh
<1>3. \A j \in Threads : j # Len(threads) + 1 /\ threads'[j] = threads[j]
  BY <1>1, RefreshFacts DEF Threads
<1>4. TypeOK'
  <2>1. Len(threads) \in Nat /\ Len(threads') = Len(threads) + 1
    BY <1>1, RefreshFacts DEF TypeOK
  <2>2. publisher' \in 0 .. Len(threads')
    BY <1>1, <1>2, <2>1 DEF TypeOK, shared
  <2>3. fragments_buf' \subseteq Fragments /\ OnePerOffset(fragments_buf)'
    BY <1>2 DEF OnePerOffset
  <2>. QED BY <1>1, <1>2, <2>2, <2>3, RefreshFacts DEF TypeOK, OneEach, shared
<1>5. Exclusive'
  BY <1>1, <1>3, RefreshFacts DEF Inv, Exclusive, Holding
<1>6. CountsInv'
  BY <1>1, <1>2, <1>3, RefreshFacts DEF Inv, CountsInv, Combined, shared
<1>7. RateInv'
  <2>1. publisher # 0 => publisher \in Threads
    BY <1>1 DEF TypeOK, Threads
  <2>. QED
    BY <1>1, <1>2, <1>3, <2>1, RefreshFacts DEF Inv, RateInv, Combined, shared
<1>. QED BY <1>4, <1>5, <1>6, <1>7 DEF Inv

\* A thread takes a lock: that of counts only when no other thread has it.
LEMMA LockInv ==
    ASSUME Inv, NEW k, LockCounts(k) \/ LockHistogram(k)
    PROVE  Inv'
<1>1. TypeOK /\ UNCHANGED shared
  BY DEF Inv, LockCounts, LockHistogram
<1>. PICK from \in {"new", "counts"}, to \in {"counts", "both"} :
          /\ ThreadTo(k, from, to)
          /\ from = "new" => CountsFree
  BY DEF LockCounts, LockHistogram
<1>2. from \in ThreadState /\ to \in ThreadState
  BY DEF ThreadState
<1>3. /\ k \in Threads /\ threads[k].pc = from
      /\ threads' \in Seq(Thread) /\ Len(threads') = Len(threads)
      /\ Threads' = Threads
      /\ \A j \in Threads : threads'[j].batch = threads[j].batch
      /\ \A j \in Threads : threads'[j].pc = IF j = k THEN to ELSE threads[j].pc
      /\ OneEach'
      /\ UNCHANGED <<receiver, fragments_buf, got, gui>>
  BY <1>1, <1>2, ThreadToFacts
<1>4. TypeOK'
  BY <1>1, <1>2, <1>3 DEF TypeOK, OneEach, shared, OnePerOffset
<1>5. Exclusive'
  <2>1. CASE from = "new"
    <3>1. \A j \in Threads : threads[j].pc \notin Holding
      BY <2>1 DEF CountsFree, Holding
    <3>. QED BY <1>1, <1>2, <1>3, <3>1 DEF Exclusive
  <2>2. CASE from = "counts"
    <3>1. threads[k].pc \in Holding
      BY <1>1, <1>2, <2>2, <1>3 DEF Holding
    <3>. QED BY <1>1, <1>2, <1>3, <3>1 DEF Inv, Exclusive
  <2>. QED BY <2>1, <2>2
<1>6. CountsInv'
  BY <1>1, <1>2, <1>3 DEF Inv, CountsInv, Combined, shared
<1>7. RateInv'
  <2>1. publisher # 0 => publisher \in Threads
    BY <1>1 DEF TypeOK, Threads
  <2>. QED BY <1>1, <1>2, <2>1, <1>3 DEF Inv, RateInv, Combined, shared
<1>. QED BY <1>4, <1>5, <1>6, <1>7 DEF Inv

\* A thread fills its batch in, or part of it and panics: it adds entries of its
\* own only.
LEMMA FillInv ==
    ASSUME Inv, NEW k, Fill(k) \/ FillPanics(k)
    PROVE  Inv'
<1>1. TypeOK
  BY DEF Inv
<1>2. PICK to \in {"filled", "panicked"}, ids \in SUBSET Combined(k) :
          /\ ThreadTo(k, "both", to)
          /\ AddAll(k, ids)
          /\ to = "filled" => ids = Combined(k)
          /\ channels' \in {channels, {<<k, Min(Combined(k))>>}}
          /\ channels' # channels => Combined(k) # {}
          /\ UNCHANGED <<count_rate, publisher>>
  BY DEF Fill, FillPanics
<1>3. "both" \in ThreadState /\ to \in ThreadState /\ ThreadTo(k, "both", to)
  BY <1>2 DEF ThreadState
<1>4. /\ k \in Threads /\ threads[k].pc = "both"
      /\ threads' \in Seq(Thread) /\ Len(threads') = Len(threads)
      /\ Threads' = Threads
      /\ \A j \in Threads : threads'[j].batch = threads[j].batch
      /\ \A j \in Threads : threads'[j].pc = IF j = k THEN to ELSE threads[j].pc
      /\ OneEach'
      /\ UNCHANGED <<receiver, fragments_buf, got, gui>>
  BY <1>1, <1>3, ThreadToFacts
<1>5. /\ k \in Threads /\ threads[k].pc = "both" /\ threads[k].batch \in SUBSET Fragments
      /\ Combined(k) = CombinedOf(threads[k].batch)
  <2>1. threads \in Seq(Thread) /\ k \in 1 .. Len(threads)
    BY <1>1, <1>4 DEF TypeOK, Threads
  <2>2. threads[k] \in Thread
    BY <2>1
  <2>. QED BY <1>4, <2>2 DEF Thread, Combined
<1>6. k \in 1 .. MaxRefreshes
  <2>1. k \in 1 .. Len(threads) /\ Len(threads) \in Nat /\ Len(threads) <= MaxRefreshes
    BY <1>1, <1>5 DEF TypeOK, Threads
  <2>. QED BY <2>1, ViewerAssumption
<1>7. {k} \X Combined(k) \subseteq Entry
  <2>1. Combined(k) \subseteq {IdOf[p] : p \in Packets}
    BY <1>5, CombinedIds
  <2>. QED BY <1>6, <2>1 DEF Entry
<1>8. TypeOK'
  <2>1. counts' \subseteq Entry /\ histogram' \subseteq Entry
    BY <1>1, <1>7, <1>2 DEF TypeOK, AddAll
  <2>2. channels' \subseteq Entry
    <3>1. Combined(k) # {} => Min(Combined(k)) \in Combined(k)
      BY <1>5, CombinedIds, LeastId
    <3>. QED BY <1>1, <1>7, <1>2, <3>1 DEF TypeOK
  <2>. QED BY <1>1, <2>1, <2>2, <1>4, <1>2 DEF TypeOK, OneEach, OnePerOffset
<1>9. \A j \in Threads : threads[j].pc \in Holding => j = k
  BY <1>5 DEF Inv, Exclusive, Holding
<1>10. Exclusive'
  BY <1>9, <1>4, <1>2 DEF Exclusive, Holding
<1>11. CountsInv'
  <2>1. \A entry \in counts' :
            entry[1] \in Threads' /\ threads'[entry[1]].pc \in {"filled", "panicked"}
    BY <1>5, <1>4, <1>2 DEF Inv, CountsInv, AddAll
  <2>2. \A j \in Threads' : threads'[j].pc = "filled" => j = k /\ to = "filled"
    BY <1>9, <1>4, <1>2 DEF Holding
  <2>3. to = "filled" => {k} \X Combined(k)' \subseteq counts'
    BY <1>5, <1>4, <1>2 DEF AddAll, Combined
  <2>. QED BY <2>1, <2>2, <2>3 DEF CountsInv
<1>12. RateInv'
  <2>1. publisher # 0 => publisher \in Threads /\ publisher # k
    BY <1>1, <1>5 DEF Inv, RateInv, TypeOK, Threads
  <2>. QED BY <1>5, <1>4, <1>2, <2>1 DEF Inv, RateInv, Combined
<1>. QED BY <1>8, <1>10, <1>11, <1>12 DEF Inv

\* What a thread publishes is its own, and what panicked threads had left.
LEMMA PublishInv ==
    ASSUME Inv, NEW k, PublishRate(k)
    PROVE  Inv'
<1>1. TypeOK /\ ThreadTo(k, "filled", "ended")
      /\ "filled" \in ThreadState /\ "ended" \in ThreadState
  BY DEF Inv, PublishRate, ThreadState
<1>2. /\ count_rate' = counts /\ counts' = {} /\ publisher' = k
      /\ UNCHANGED <<histogram, channels>>
  BY DEF PublishRate
<1>3. /\ k \in Threads /\ threads[k].pc = "filled"
      /\ threads' \in Seq(Thread) /\ Len(threads') = Len(threads)
      /\ Threads' = Threads
      /\ \A j \in Threads : threads'[j].batch = threads[j].batch
      /\ \A j \in Threads : threads'[j].pc = IF j = k THEN "ended" ELSE threads[j].pc
      /\ OneEach'
      /\ UNCHANGED <<receiver, fragments_buf, got, gui>>
  BY <1>1, ThreadToFacts
<1>4. k \in Threads /\ threads[k].pc = "filled" /\ k \in Nat \ {0}
  BY <1>1, <1>3 DEF Threads
<1>5. TypeOK'
  BY <1>1, <1>2, <1>4, <1>3 DEF TypeOK, OneEach, OnePerOffset, Threads
<1>6. \A j \in Threads : threads[j].pc \in Holding => j = k
  BY <1>4 DEF Inv, Exclusive, Holding
<1>7. Exclusive'
  BY <1>1, <1>6, <1>3 DEF Exclusive, Holding
<1>8. CountsInv'
  BY <1>1, <1>2, <1>6, <1>3 DEF CountsInv, Holding
<1>9. RateInv'
  <2>1. {k} \X Combined(k)' \subseteq count_rate'
    BY <1>1, <1>2, <1>4, <1>3 DEF Inv, CountsInv, Combined
  <2>2. \A entry \in count_rate' :
            /\ entry[1] \in Threads'
            /\ entry[1] # k => threads'[entry[1]].pc = "panicked"
    BY <1>1, <1>2, <1>6, <1>3 DEF Inv, CountsInv, Holding
  <2>3. threads'[k].pc = "ended"
    BY <1>1, <1>3
  <2>. QED BY <1>2, <2>1, <2>2, <2>3 DEF RateInv, Combined
<1>. QED BY <1>5, <1>7, <1>8, <1>9 DEF Inv

LEMMA GuiInv ==
    ASSUME Inv, LockRate \/ RatesDrawn \/ DrawHistogram \/ Close
    PROVE  Inv'
<1>1. UNCHANGED <<receiver, fragments_buf, got, threads, shared>>
      /\ gui' \in {"idle", "rates", "plots", "closed"}
  BY DEF LockRate, RatesDrawn, DrawHistogram, Close, GuiTo
<1>2. TypeOK'
  BY <1>1 DEF Inv, TypeOK, shared, OnePerOffset, Threads
<1>. QED BY <1>1, <1>2, QuietStep DEF Inv

\* Every step keeps the invariant.
LEMMA NextInv == Inv /\ [Next]_vars => Inv'
<1>. SUFFICES ASSUME Inv, [Next]_vars PROVE Inv'
  OBVIOUS
<1>1. CASE UNCHANGED vars
  <2>1. TypeOK'
    BY <1>1 DEF Inv, vars, shared, TypeOK, OnePerOffset, Threads
  <2>. QED BY <1>1, <2>1, QuietStep DEF vars, Inv
<1>2. CASE Receive \/ ReceiverPanics
  BY <1>2, ReceiverInv
<1>3. CASE Refresh
  BY <1>3, RefreshInv
<1>4. ASSUME NEW k \in 1 .. MaxRefreshes, ThreadStep(k) PROVE Inv'
  BY <1>4, LockInv, FillInv, PublishInv DEF ThreadStep
<1>5. CASE LockRate \/ RatesDrawn \/ DrawHistogram \/ Close
  BY <1>5, GuiInv
<1>. QED BY <1>1, <1>2, <1>3, <1>4, <1>5 DEF Next

LEMMA SpecInv == Spec => []Inv
BY InitInv, NextInv, PTL DEF Spec

-----------------------------------------------------------------------------

\* The variables keep their types; the buffer, and every batch that was handed to a
\* thread, has one fragment for each id and offset.
THEOREM TypeCorrect == Spec => []TypeOK
<1>1. Inv => TypeOK
  BY DEF Inv
<1>. QED BY <1>1, SpecInv, PTL

\* Whatever the locks' order and whoever panics, the rates shown are those of the
\* batch published last, and of batches whose threads panicked.
THEOREM RateIsOfOneBatch == Spec => []RateOfOneBatch
<1>1. Inv => RateOfOneBatch
  BY DEF Inv, RateInv, RateOfOneBatch
<1>. QED BY <1>1, SpecInv, PTL

-----------------------------------------------------------------------------
(* What the receiver holds *)

\* Of what arrived the buffer has one fragment for each id and offset.
Holds(batch, arrived) ==
    /\ batch \subseteq arrived
    /\ OnePerOffset(batch)
    /\ \A fr \in arrived :
          \E other \in batch : Id(other) = Id(fr) /\ Offset(other) = Offset(fr)

ArrivedInv ==
    /\ Holds(fragments_buf, got[Len(got)])
    /\ \A k \in Threads : Holds(threads[k].batch, got[k])

\* A fragment that comes again takes the place of the one that came before.
LEMMA InsertedHolds ==
    ASSUME NEW arrived, Holds(fragments_buf, arrived), NEW fr
    PROVE  Holds(Inserted(fr), arrived \cup {fr})
BY DEF Holds, Inserted, OnePerOffset

LEMMA InitArrived == Init => ArrivedInv
BY DEF Init, ArrivedInv, Holds, OnePerOffset, Threads

LEMMA ArrivedStep == TypeOK /\ ArrivedInv /\ [Next]_vars => ArrivedInv'
<1>. SUFFICES ASSUME TypeOK, ArrivedInv, [Next]_vars PROVE ArrivedInv'
  OBVIOUS
<1>0. /\ threads \in Seq(Thread) /\ Len(threads) \in Nat
      /\ got \in Seq(SUBSET Fragments) /\ Len(got) = Len(threads) + 1
  BY DEF TypeOK
<1>1. ASSUME UNCHANGED <<fragments_buf, got>>, Threads' = Threads,
             \A j \in Threads : threads'[j].batch = threads[j].batch
      PROVE  ArrivedInv'
  BY <1>1 DEF ArrivedInv, Holds, OnePerOffset
<1>2. CASE Receive
  <2>. PICK fr \in Fragments :
            /\ fragments_buf' = Inserted(fr)
            /\ got' = [got EXCEPT ![Len(got)] = @ \cup {fr}]
    BY <1>2 DEF Receive
  <2>1. /\ Len(got') = Len(got) /\ got'[Len(got)] = got[Len(got)] \cup {fr}
        /\ \A k \in Threads : got'[k] = got[k]
    BY <1>0 DEF Threads
  <2>2. Holds(fragments_buf', got'[Len(got')])
    BY <2>1, InsertedHolds DEF ArrivedInv
  <2>3. threads' = threads /\ Threads' = Threads
    BY <1>2 DEF Receive, Threads
  <2>4. \A k \in Threads' : Holds(threads'[k].batch, got'[k])
    BY <2>1, <2>3 DEF ArrivedInv
  <2>. QED BY <2>2, <2>4 DEF ArrivedInv, Holds, OnePerOffset
<1>3. CASE Refresh
  <2>. PICK fr \in Fragments :
            /\ threads' = Append(threads, [batch |-> Inserted(fr), pc |-> "new"])
            /\ got' = Append([got EXCEPT ![Len(got)] = @ \cup {fr}], {})
    BY <1>3 DEF Refresh
  <2>. DEFINE n == Len(threads) + 1
  <2>1. /\ Threads' = Threads \cup {n} /\ n \notin Threads
        /\ \A k \in Threads : threads'[k] = threads[k]
        /\ threads'[n].batch = Inserted(fr)
    BY <1>0 DEF Threads
  <2>2. /\ Len(got') = n + 1 /\ got'[n + 1] = {} /\ got'[n] = got[n] \cup {fr}
        /\ \A k \in Threads : got'[k] = got[k]
    BY <1>0 DEF Threads
  <2>3. Holds(Inserted(fr), got'[n])
    BY <1>0, <2>2, InsertedHolds DEF ArrivedInv
  <2>4. fragments_buf' = {}
    BY <1>3 DEF Refresh
  <2>5. \A k \in Threads' : Holds(threads'[k].batch, got'[k])
    <3>1. \A k \in Threads : Holds(threads'[k].batch, got'[k])
      BY <2>1, <2>2 DEF ArrivedInv
    <3>. QED BY <2>1, <2>3, <3>1
  <2>6. Holds(fragments_buf', got'[Len(got')])
    BY <2>2, <2>4 DEF Holds, OnePerOffset
  <2>. QED BY <2>5, <2>6 DEF ArrivedInv, Holds, OnePerOffset
<1>4. ASSUME NEW k \in 1 .. MaxRefreshes, ThreadStep(k) PROVE ArrivedInv'
  <2>. PICK from \in ThreadState, to \in ThreadState : ThreadTo(k, from, to)
    BY <1>4 DEF ThreadStep, LockCounts, LockHistogram, Fill, FillPanics, PublishRate,
                ThreadState
  <2>. QED BY <1>1, ThreadToFacts
<1>5. CASE \/ LockRate \/ RatesDrawn \/ DrawHistogram \/ Close \/ ReceiverPanics
          \/ UNCHANGED vars
  BY <1>1, <1>5 DEF LockRate, RatesDrawn, DrawHistogram, Close, GuiTo, ReceiverPanics,
                    vars, Threads
<1>. QED BY <1>2, <1>3, <1>4, <1>5 DEF Next

-----------------------------------------------------------------------------
(* What is in the histogram *)

\* Once a thread has filled in its batch, what could be joined of it is in the
\* histogram, and nothing else under its name.
HistogramInv ==
    /\ \A entry \in histogram :
          /\ entry[1] \in Threads
          /\ threads[entry[1]].pc \in {"filled", "ended", "panicked"}
    /\ \A k \in Threads : threads[k].pc \in {"filled", "ended"} =>
          \A id : <<k, id>> \in histogram <=> id \in Combined(k)

LEMMA HistogramStep == TypeOK /\ HistogramInv /\ [Next]_vars => HistogramInv'
<1>. SUFFICES ASSUME TypeOK, HistogramInv, [Next]_vars PROVE HistogramInv'
  OBVIOUS
<1>1. CASE UNCHANGED <<threads, histogram>>
  BY <1>1 DEF HistogramInv, Threads, Combined
<1>2. CASE Refresh
  <2>1. histogram' = histogram /\ \A k \in Threads : k # Len(threads) + 1
    BY <1>2 DEF Refresh, shared, TypeOK, Threads
  <2>. QED BY <1>2, <2>1, RefreshFacts DEF HistogramInv, Combined
<1>3. ASSUME NEW k \in 1 .. MaxRefreshes, ThreadStep(k) PROVE HistogramInv'
  <2>. PICK from \in ThreadState, to \in ThreadState :
            /\ ThreadTo(k, from, to)
            /\ \/ /\ from = "both" /\ to = "filled"
                  /\ histogram' = histogram \cup ({k} \X Combined(k))
               \/ /\ from = "both" /\ to = "panicked"
                  /\ \E ids : histogram' = histogram \cup ({k} \X ids)
               \/ /\ <<from, to>> \in {<<"new", "counts">>, <<"counts", "both">>,
                                       <<"filled", "ended">>}
                  /\ histogram' = histogram
    BY <1>3 DEF ThreadStep, LockCounts, LockHistogram, Fill, FillPanics, PublishRate,
                AddAll, ThreadState, shared
  <2>1. /\ k \in Threads /\ threads[k].pc = from
        /\ Threads' = Threads
        /\ \A j \in Threads : threads'[j].batch = threads[j].batch
        /\ \A j \in Threads : threads'[j].pc = IF j = k THEN to ELSE threads[j].pc
    BY ThreadToFacts
  <2>2. \A j \in Threads : Combined(j)' = Combined(j)
    BY <2>1 DEF Combined
  <2>3. CASE from = "both" /\ to = "filled" /\ histogram' = histogram \cup ({k} \X Combined(k))
    <3>1. \A entry \in histogram : entry[1] # k
      BY <2>1, <2>3 DEF HistogramInv
    <3>2. \A id : <<k, id>> \in histogram' <=> id \in Combined(k)
      BY <2>3, <3>1
    <3>3. \A j \in Threads : j # k => \A id : <<j, id>> \in histogram' <=> <<j, id>> \in histogram
      BY <2>3
    <3>4. \A entry \in histogram' : entry \in histogram \/ entry[1] = k
      BY <2>3
    <3>5. \A entry \in histogram' : entry[1] \in Threads
                                       /\ threads'[entry[1]].pc \in {"filled", "ended", "panicked"}
      <4>1. ASSUME NEW entry \in histogram', entry \in histogram
            PROVE  /\ entry[1] \in Threads /\ entry[1] # k
                   /\ threads[entry[1]].pc \in {"filled", "ended", "panicked"}
        BY <3>1, <4>1 DEF HistogramInv
      <4>2. ASSUME NEW entry \in histogram', entry[1] = k
            PROVE  entry[1] \in Threads /\ threads'[entry[1]].pc = "filled"
        BY <2>1, <2>3, <4>2
      <4>. QED BY <2>1, <3>4, <4>1, <4>2
    <3>6. ASSUME NEW j \in Threads, threads'[j].pc \in {"filled", "ended"}, NEW id
          PROVE  <<j, id>> \in histogram' <=> id \in Combined(j)
      <4>1. CASE j = k
        BY <3>2, <4>1
      <4>2. CASE j # k
        <5>1. threads[j].pc \in {"filled", "ended"}
          BY <2>1, <3>6, <4>2
        <5>2. <<j, id>> \in histogram <=> id \in Combined(j)
          BY <5>1 DEF HistogramInv
        <5>. QED BY <3>3, <4>2, <5>2
      <4>. QED BY <4>1, <4>2
    <3>7. \A j \in Threads' : threads'[j].pc \in {"filled", "ended"} =>
              \A id : <<j, id>> \in histogram' <=> id \in Combined(j)'
      BY <2>1, <2>2, <3>6
    <3>. QED BY <2>1, <3>5, <3>7 DEF HistogramInv
  <2>4. CASE /\ from = "both" /\ to = "panicked"
             /\ \E ids : histogram' = histogram \cup ({k} \X ids)
    <3>1. PICK ids : histogram' = histogram \cup ({k} \X ids)
      BY <2>4
    <3>2. \A j \in Threads : j # k => \A id : <<j, id>> \in histogram' <=> <<j, id>> \in histogram
      BY <3>1
    <3>3. \A entry \in histogram' : entry \in histogram \/ entry[1] = k
      BY <3>1
    <3>. QED BY <2>1, <2>2, <2>4, <3>2, <3>3 DEF HistogramInv
  <2>5. CASE /\ <<from, to>> \in {<<"new", "counts">>, <<"counts", "both">>,
                                  <<"filled", "ended">>}
             /\ histogram' = histogram
    BY <2>1, <2>2, <2>5 DEF HistogramInv
  <2>. QED BY <2>3, <2>4, <2>5
<1>. QED BY <1>1, <1>2, <1>3
         DEF Next, Receive, ReceiverPanics, LockRate, RatesDrawn, DrawHistogram, Close, GuiTo,
             shared, vars

-----------------------------------------------------------------------------
(* Packets *)

\* What is known of slices of fragments; it does not speak of the variables of
\* the loop that joins them.
Join == INSTANCE MStreamMergeProofs WITH
            Inputs <- {}, overflow_checks <- OverflowChecks, fragments <- <<>>, next <- 1,
            current_offset <- 0, last_fragment_found <- FALSE, buffer <- {}, result <- "running"

LEMMA SameSlices ==
    /\ Join!Fragment = Fragment
    /\ \A fr : Join!EndOf(fr) = EndOf(fr)
    /\ \A frs : /\ Join!IsCut(frs) <=> IsCut(frs)
                /\ Join!Sorted(frs) <=> Sorted(frs)
                /\ Join!Chained(frs) <=> Chained(frs)
                /\ Join!HasLast(frs) <=> HasLast(frs)
<1>1. Join!Fragment = Fragment
  BY DEF Join!Fragment, Fragment
<1>2. \A fr : Join!EndOf(fr) = EndOf(fr)
  BY DEF Join!EndOf, EndOf
<1>3. \A frs, k : Join!GapAt(frs, k) <=> GapAt(frs, k)
  BY <1>2 DEF Join!GapAt, GapAt, Join!Expected, Expected, Join!Wrap, Wrap
<1>4. \A frs : Join!Chained(frs) <=> Chained(frs)
  BY <1>3 DEF Join!Chained, Chained
<1>5. \A frs : /\ Join!IsCut(frs) <=> IsCut(frs)
               /\ Join!Sorted(frs) <=> Sorted(frs)
               /\ Join!HasLast(frs) <=> HasLast(frs)
  BY <1>2 DEF Join!IsCut, IsCut, Join!Sorted, Sorted, Join!HasLast, HasLast
<1>. QED BY <1>1, <1>2, <1>4, <1>5

\* The fragments of a packet begin further on, one after the other.
LEMMA CutOrder ==
    ASSUME NEW cut \in Seq(Fragment), IsCut(cut)
    PROVE  /\ \A i \in 1 .. Len(cut) : cut[i].offset \in Int
           /\ \A i, j \in 1 .. Len(cut) : i < j => cut[i].offset < cut[j].offset
<1>1. \A i \in 1 .. Len(cut) :
          /\ cut[i].offset \in Nat /\ cut[i].length \in Nat /\ cut[i].length > 0
          /\ EndOf(cut[i]) = cut[i].offset + cut[i].length
  <2>1. \A i \in 1 .. Len(cut) : cut[i] \in Fragment
    OBVIOUS
  <2>. QED BY <2>1, MStreamAssumption DEF IsCut, Fragment, EndOf
<1>2. ASSUME NEW i \in 1 .. Len(cut), NEW j \in 1 .. Len(cut), i < j
      PROVE  cut[i].offset < cut[j].offset
  <2>1. cut \in Seq(Join!Fragment) /\ Join!IsCut(cut)
    BY SameSlices
  <2>2. Join!EndOf(cut[i]) <= cut[j].offset
    BY <1>2, <2>1, MStreamAssumption, Join!CutIncreases
  <2>3. EndOf(cut[i]) <= cut[j].offset
    BY <2>2, SameSlices
  <2>. QED BY <1>1, <2>3
<1>. QED BY <1>1, <1>2

\* Of a batch the packet that was alone under its id can be joined exactly when
\* all of it came, and the whole of it can.
LEMMA CombinedIsWhole ==
    ASSUME NEW arrived \in SUBSET Fragments, NEW batch, Holds(batch, arrived),
           NEW p \in Packets, IsCut(CutOf[p]),
           \E n \in 1 .. Len(CutOf[p]) : <<p, n>> \in arrived,
           \A fr \in arrived : Id(fr) = IdOf[p] => fr[1] = p
    PROVE  IdOf[p] \in CombinedOf(batch) <=>
              /\ \A n \in 1 .. Len(CutOf[p]) : <<p, n>> \in arrived
              /\ Merge(CutOf[p], OverflowChecks) = "ok"
<1>. DEFINE cut == CutOf[p]
            N == Len(cut)
            parts == {fr \in batch : Id(fr) = IdOf[p]}
            key == [fr \in parts |-> Offset(fr)]
            order == InOrder(parts, key)
            slice == Slice(parts)
            seq == [n \in 1 .. N |-> <<p, n>>]
<1>1. cut \in Seq(Fragment) /\ N \in Nat
  BY ViewerAssumption
<1>2. /\ \A i \in 1 .. N : cut[i].offset \in Int
      /\ \A i, j \in 1 .. N : i < j => cut[i].offset < cut[j].offset
  BY <1>1, CutOrder
<1>3. \A i, j \in 1 .. N : cut[i].offset = cut[j].offset => i = j
  <2>1. SUFFICES ASSUME NEW i \in 1 .. N, NEW j \in 1 .. N, i # j
                 PROVE  cut[i].offset # cut[j].offset
    OBVIOUS
  <2>2. i < j \/ j < i
    BY <1>1, <2>1
  <2>. HIDE DEF cut, N
  <2>. QED BY <1>2, <2>2
<1>4. ASSUME NEW fr \in parts
      PROVE  /\ fr \in arrived /\ fr[2] \in 1 .. N /\ fr = <<p, fr[2]>>
             /\ FragmentOf(fr) = cut[fr[2]] /\ Offset(fr) = cut[fr[2]].offset
  <2>1. fr \in arrived /\ fr[1] = p
    BY DEF Holds
  <2>2. PICK q \in Packets : \E n \in 1 .. Len(CutOf[q]) : fr = <<q, n>>
    BY <2>1 DEF Fragments
  <2>. QED BY <2>1, <2>2 DEF FragmentOf, Offset
<1>5. ASSUME NEW n \in 1 .. N, <<p, n>> \in arrived PROVE <<p, n>> \in parts
  <2>1. PICK other \in batch : Id(other) = Id(<<p, n>>) /\ Offset(other) = Offset(<<p, n>>)
    BY <1>5 DEF Holds
  <2>2. other \in parts /\ Offset(other) = cut[n].offset
    BY <2>1 DEF Id, Offset, FragmentOf
  <2>3. other[2] \in 1 .. N /\ other = <<p, other[2]>> /\ cut[other[2]].offset = cut[n].offset
    BY <1>4, <2>2
  <2>. QED BY <1>3, <2>2, <2>3
<1>6. IdOf[p] \in CombinedOf(batch) <=> Merge(slice, OverflowChecks) = "ok"
  <2>1. IdOf[p] \in IdsIn(batch)
    BY <1>5 DEF IdsIn
  <2>. QED BY <2>1 DEF CombinedOf, MergeOf
<1>7. key \in [parts -> Int] /\ \A x, y \in parts : key[x] = key[y] => x = y
  <2>1. \A x \in parts : key[x] \in Int
    BY <1>2, <1>4
  <2>2. ASSUME NEW x \in parts, NEW y \in parts, key[x] = key[y] PROVE x = y
    <3>1. cut[x[2]].offset = cut[y[2]].offset /\ x[2] \in 1 .. N /\ y[2] \in 1 .. N
      BY <1>4, <2>2
    <3>2. x[2] = y[2]
      BY <1>3, <3>1
    <3>. QED BY <1>4, <3>2
  <2>. QED BY <2>1, <2>2
<1>8. IsFiniteSet(parts)
  <2>. DEFINE T == {<<p, n>> : n \in 1 .. N}
  <2>1. parts \in SUBSET T
    BY <1>4
  <2>2. seq \in Surjection(1 .. N, T)
    BY DEF Surjection
  <2>3. IsFiniteSet(1 .. N)
    <3>1. 1 \in Int /\ N \in Int
      BY <1>1
    <3>. HIDE DEF N
    <3>. QED BY <3>1, FS_Interval
  <2>4. IsFiniteSet(T)
    <3>. HIDE DEF T, seq, N
    <3>. QED BY <2>2, <2>3, FS_Surjection
  <2>. HIDE DEF parts, T
  <2>. QED BY <2>1, <2>4, FS_Subset
<1>. DEFINE c == Cardinality(parts)
<1>9. /\ order \in [1 .. c -> parts] /\ Len(order) = c /\ c \in Nat
      /\ \A j, k \in 1 .. c : j < k => key[order[j]] < key[order[k]]
  <2>. HIDE DEF parts, key
  <2>1. Keyed(parts, key)
    BY <1>7, <1>8 DEF Keyed
  <2>2. Listing(order, c, parts, key)
    BY <2>1, InOrderFacts
  <2>. HIDE DEF order, c
  <2>3. /\ order \in [1 .. c -> parts] /\ c \in Nat
        /\ \A j, k \in 1 .. c : j < k => key[order[j]] < key[order[k]]
    BY <2>2 DEF Listing
  <2>4. Len(order) = c
    BY <2>3
  <2>. QED BY <2>3, <2>4
<1>10. slice = [n \in 1 .. Len(order) |-> FragmentOf(order[n])]
  BY DEF Slice
<1>. HIDE DEF slice
<1>11. ASSUME \A n \in 1 .. N : <<p, n>> \in arrived PROVE slice = cut
  <2>1. seq \in [1 .. N -> parts]
    BY <1>5, <1>11
  <2>2. \A n \in 1 .. N : key[seq[n]] = cut[n].offset /\ FragmentOf(seq[n]) = cut[n]
    BY <2>1, <1>4
  <2>3. \A j, k \in 1 .. N : j < k => key[seq[j]] < key[seq[k]]
    BY <1>2, <2>2
  <2>4. \A x \in parts : \E n \in 1 .. N : seq[n] = x
    BY <1>4
  <2>5. order = seq
    <3>1. N \in Nat /\ key \in [parts -> Int]
      BY <1>1, <1>7
    <3>. HIDE DEF parts, key, seq, N, cut
    <3>2. Listing(seq, N, parts, key)
      BY <3>1, <2>1, <2>3, <2>4 DEF Listing
    <3>. QED BY <3>2, InOrderUnique
  <2>6. Len(seq) = N
    BY <1>1
  <2>. HIDE DEF seq, order, N, cut
  <2>7. slice = [n \in 1 .. N |-> cut[n]]
    BY <1>10, <2>2, <2>5, <2>6
  <2>. QED BY <1>1, <2>7 DEF N
<1>12. ASSUME Merge(slice, OverflowChecks) = "ok"
       PROVE  slice = cut /\ \A n \in 1 .. N : <<p, n>> \in arrived
  <2>1. \A n \in 1 .. c : order[n] \in parts
    BY <1>9
  <2>2. \A n \in 1 .. c : order[n][2] \in 1 .. N /\ FragmentOf(order[n]) = cut[order[n][2]]
                         /\ key[order[n]] = cut[order[n][2]].offset
    BY <1>4, <2>1
  <2>. HIDE DEF order, c, parts, key
  <2>3. Len(slice) = c /\ \A n \in 1 .. c : slice[n] = cut[order[n][2]]
    <3>1. slice = [n \in 1 .. c |-> FragmentOf(order[n])] /\ c \in Nat
      BY <1>9, <1>10
    <3>. QED BY <2>2, <3>1
  <2>4. slice \in Seq(Fragment)
    <3>1. \A n \in 1 .. c : FragmentOf(order[n]) \in Fragment
      <4>. HIDE DEF cut
      <4>. QED BY <1>1, <2>2
    <3>2. slice = [n \in 1 .. c |-> FragmentOf(order[n])] /\ c \in Nat
      BY <1>9, <1>10
    <3>. QED BY <3>1, <3>2
  <2>5. Sorted(slice)
    <3>1. \A j, k \in 1 .. c : j < k => key[order[j]] < key[order[k]]
      BY <1>9
    <3>2. \A n \in 1 .. c : slice[n].offset = key[order[n]]
      BY <2>2, <2>3
    <3>3. Len(slice) = c
      BY <2>3
    <3>. QED BY <3>1, <3>2, <3>3 DEF Sorted
  <2>6. Chained(slice) /\ HasLast(slice)
    BY <1>12 DEF Merge
  <2>7. slice = cut
    <3>1. /\ slice \in Seq(Join!Fragment) /\ cut \in Seq(Join!Fragment) /\ Join!IsCut(cut)
          /\ Join!Chained(slice) /\ Join!Sorted(slice) /\ Join!HasLast(slice)
      BY <1>1, <2>4, <2>5, <2>6, SameSlices
    <3>2. \A k \in 1 .. Len(slice) : \E j \in 1 .. Len(cut) : slice[k] = cut[j]
      BY <2>2, <2>3
    <3>. HIDE DEF cut
    <3>. QED BY <3>1, <3>2, MStreamAssumption, Join!SortedChainIsCut
  <2>8. ASSUME NEW n \in 1 .. N PROVE <<p, n>> \in arrived
    <3>1. n \in 1 .. c /\ cut[order[n][2]] = cut[n]
      BY <2>3, <2>7
    <3>2. order[n][2] = n
      BY <1>3, <2>2, <3>1
    <3>. QED BY <1>4, <2>1, <3>1, <3>2
  <2>. QED BY <2>7, <2>8
<1>. QED BY <1>6, <1>11, <1>12

\* However the fragments come, however often, and whatever other threads do or
\* fail to do: a packet is counted for the intervals in which all of it came.
THEOREM PacketsAreCountedInTheirBatch == Spec => []PacketsCountedInTheirBatch
<1>1. Init => HistogramInv
  BY DEF Init, HistogramInv, Threads
<1>2. ASSUME TypeOK, ArrivedInv, HistogramInv,
             NEW k \in Threads, threads[k].pc \in {"filled", "ended"},
             NEW p \in Packets, IsCut(CutOf[p]), Alone(k, p)
      PROVE  <<k, IdOf[p]>> \in histogram
                <=> /\ \A n \in 1 .. Len(CutOf[p]) : <<p, n>> \in got[k]
                    /\ Merge(CutOf[p], OverflowChecks) = "ok"
  <2>1. <<k, IdOf[p]>> \in histogram <=> IdOf[p] \in CombinedOf(threads[k].batch)
    BY <1>2 DEF HistogramInv, Combined
  <2>2. got[k] \in SUBSET Fragments /\ Holds(threads[k].batch, got[k])
    <3>1. k \in 1 .. Len(got)
      BY <1>2 DEF Threads, TypeOK
    <3>. QED BY <1>2, <3>1 DEF ArrivedInv, TypeOK
  <2>3. /\ \E n \in 1 .. Len(CutOf[p]) : <<p, n>> \in got[k]
        /\ \A fr \in got[k] : Id(fr) = IdOf[p] => fr[1] = p
    BY <1>2 DEF Alone
  <2>4. IdOf[p] \in CombinedOf(threads[k].batch) <=>
           /\ \A n \in 1 .. Len(CutOf[p]) : <<p, n>> \in got[k]
           /\ Merge(CutOf[p], OverflowChecks) = "ok"
    BY <1>2, <2>2, <2>3, CombinedIsWhole
  <2>. QED BY <2>1, <2>4
<1>3. TypeOK /\ ArrivedInv /\ HistogramInv => PacketsCountedInTheirBatch
  BY <1>2 DEF PacketsCountedInTheirBatch
<1>4. Inv => TypeOK
  BY DEF Inv
<1>. QED BY <1>1, <1>3, <1>4, SpecInv, InitArrived, ArrivedStep, HistogramStep, PTL DEF Spec
=============================================================================
