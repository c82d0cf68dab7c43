--------------------------- MODULE AsyncLoggerProofs ---------------------------
(***************************************************************************)
(* For every set of goroutines, number of sinks, capacity and number of    *)
(* log calls: no log call panics, what was accepted reaches the writer     *)
(* once and in order, and all of it before the log file is closed.         *)
(***************************************************************************)
EXTENDS AsyncLogger, SequenceTheorems, TLAPS

Message == Goroutines \X Nat

Labels == {"idle", "rlock", "check", "send", "once", "sync", "lock", "wait",
           "exited", "panic"}

TypeOK ==
  /\ pc \in [Goroutines -> Labels]
  /\ at \in [Goroutines -> Sinks] /\ left \in [Goroutines -> Nat]
  /\ secondPass \in BOOLEAN /\ once \in {"new", "running", "done"}
  /\ readers \in [Sinks -> SUBSET Goroutines]
  /\ pending \in [Sinks -> BOOLEAN] /\ closed \in [Sinks -> BOOLEAN]
  /\ logChan \in [Sinks -> Seq(Message)]
  /\ drainer \in [Sinks -> {Idle, Done} \cup Message]
  /\ accepted \in [Sinks -> Seq(Message)] /\ handed \in [Sinks -> Seq(Message)]
  /\ fileClosed \in BOOLEAN

(* Who holds the read lock of a sink: the goroutines inside its Write.      *)
Locked ==
  \A p \in Goroutines, s \in Sinks :
    p \in readers[s] <=> pc[p] \in {"check", "send"} /\ at[p] = s

(* A goroutine about to send found the channel open, or to close it found  *)
(* it not yet closed, and it still is open.                                *)
StillOpen == \A p \in Goroutines : pc[p] \in {"send", "lock"} => ~closed[at[p]]

(* A drainer has ended only behind a closed channel with nothing in it.    *)
Ended ==
  \A s \in Sinks : drainer[s] = Done => closed[s] /\ logChan[s] = <<>>

Syncing == {"sync", "lock", "wait"}

(* One goroutine at most shuts the logger down, once; the sinks it has     *)
(* passed are drained, all of them when it is in its second pass.          *)
Passed ==
  /\ \A p \in Goroutines :
       /\ pc[p] \in {"idle", "once", "exited"} => at[p] = 1
       /\ pc[p] \in Syncing =>
            /\ once = "running"
            /\ \A q \in Goroutines : pc[q] \in Syncing => q = p
            /\ \A s \in Sinks : s < at[p] \/ secondPass => drainer[s] = Done
  /\ once = "new" => ~secondPass
  /\ fileClosed => \A s \in Sinks : drainer[s] = Done

IInv ==
  /\ TypeOK /\ Locked /\ StillOpen /\ NoPanic /\ InOrder /\ Ended /\ Passed

-------------------------------------------------------------------------------
(* Sequences. *)

(* Taking the oldest message of a channel changes nothing in the order.    *)
LEMMA Dequeue ==
  ASSUME NEW S, NEW h \in Seq(S), NEW c \in Seq(S), c # <<>>
  PROVE  h \o <<>> \o c = h \o <<Head(c)>> \o Tail(c)
  <1>1. Head(c) \in S /\ Tail(c) \in Seq(S) /\ <<Head(c)>> \in Seq(S)
    BY HeadTailProperties
  <1>2. c = <<Head(c)>> \o Tail(c)
    BY <1>1
  <1>3. h \o <<>> = h
    BY ConcatEmptySeq
  <1> QED
    BY <1>1, <1>2, <1>3, ConcatAssociative

(* Nor does handing it over.                                               *)
LEMMA Deliver ==
  ASSUME NEW S, NEW m \in S, NEW h \in Seq(S), NEW c \in Seq(S)
  PROVE  h \o <<m>> \o c = Append(h, m) \o <<>> \o c
  <1>1. Append(h, m) \in Seq(S) /\ Append(h, m) = h \o <<m>>
    BY AppendProperties, AppendIsConcat
  <1> QED
    BY <1>1, ConcatEmptySeq

(* A message is none of the states of a drainer without one.               *)
LEMMA MessageInHand ==
  ASSUME NEW m \in Message
  PROVE  m # Idle /\ m # Done /\ Idle # Done
  BY DEF Message, Idle, Done
-------------------------------------------------------------------------------
(* The invariant. *)

(* Nothing is logged and nobody has called the logger yet.                 *)
LEMMA InitIInv == Init => IInv
  <1> SUFFICES ASSUME Init PROVE IInv
    OBVIOUS
  <1>1. 1 \in Sinks /\ Messages \in Nat
    BY LoggerAssumption DEF Sinks
  <1>2. <<>> \in Seq(Message) /\ Idle # Done
    BY DEF Idle, Done
  <1>3. TypeOK
    BY <1>1, <1>2 DEF Init, TypeOK, Labels
  <1>4. InOrder
    BY DEF Init, InOrder, InHand
  <1> QED
    BY <1>1, <1>2, <1>3, <1>4
    DEF Init, IInv, Locked, StillOpen, NoPanic, Ended, Passed, Syncing

(* Where a goroutine goes that has finished with a sink.                   *)
LEMMA NextSinkStep ==
  ASSUME TypeOK, NEW p \in Goroutines, NextSink(p)
  PROVE  /\ at' \in [Goroutines -> Sinks]
         /\ pc' \in [Goroutines -> Labels]
         /\ \A q \in Goroutines \ {p} : pc'[q] = pc[q] /\ at'[q] = at[q]
         /\ pc'[p] \in {"rlock", "idle"}
         /\ pc'[p] = "idle" => at'[p] = 1
  <1>1. /\ at[p] \in 1 .. SinkCount /\ SinkCount \in Nat \ {0}
        /\ at \in [Goroutines -> 1 .. SinkCount]
    BY LoggerAssumption DEF TypeOK, Sinks
  <1>2. CASE at[p] < SinkCount
    <2>1. at' = [at EXCEPT ![p] = @ + 1] /\ pc' = [pc EXCEPT ![p] = "rlock"]
      BY <1>2 DEF NextSink, Goto
    <2>2. at' \in [Goroutines -> 1 .. SinkCount]
      BY <1>1, <1>2, <2>1
    <2> QED
      BY <2>1, <2>2 DEF TypeOK, Sinks, Labels
  <1>3. CASE ~(at[p] < SinkCount)
    <2>1. at' = [at EXCEPT ![p] = 1] /\ pc' = [pc EXCEPT ![p] = "idle"]
      BY <1>3 DEF NextSink, Goto
    <2>2. at' \in [Goroutines -> 1 .. SinkCount]
      BY <1>1, <2>1
    <2> QED
      BY <2>1, <2>2 DEF TypeOK, Sinks, Labels
  <1> QED
    BY <1>2, <1>3

(* A log call starts, or takes the read lock.                              *)
LEMMA EnterStep ==
  ASSUME IInv, NEW p \in Goroutines, Log(p) \/ RLock(p)
  PROVE  IInv'
  <1>1. InOrder' /\ Ended'
    BY DEF IInv, InOrder, InHand, Ended, Log, RLock, locks, flow
  <1>2. CASE Log(p)
    <2>1. TypeOK'
      BY <1>2 DEF IInv, TypeOK, Labels, Log, Goto, locks, flow
    <2>2. Locked' /\ StillOpen' /\ NoPanic'
      BY <1>2 DEF IInv, TypeOK, Labels, Locked, StillOpen, NoPanic, Log, Goto, locks
    <2>3. Passed'
      BY <1>2 DEF IInv, TypeOK, Labels, Passed, Syncing, Log, Goto, flow
    <2> QED
      BY <1>1, <2>1, <2>2, <2>3 DEF IInv
  <1>3. CASE RLock(p)
    <2>1. TypeOK'
      BY <1>3 DEF IInv, TypeOK, Labels, RLock, Goto, flow
    <2>2. Locked' /\ StillOpen' /\ NoPanic'
      BY <1>3 DEF IInv, TypeOK, Labels, Locked, StillOpen, NoPanic, RLock, Goto
    <2>3. Passed'
      BY <1>3 DEF IInv, TypeOK, Labels, Passed, Syncing, RLock, Goto, flow
    <2> QED
      BY <1>1, <2>1, <2>2, <2>3 DEF IInv
  <1> QED
    BY <1>2, <1>3

(* The closed check keeps the lock or gives it back.                       *)
LEMMA CheckStep ==
  ASSUME IInv, NEW p \in Goroutines, Check(p)
  PROVE  IInv'
  <1>1. CASE closed[at[p]]
    <2>1. /\ pc[p] = "check" /\ NextSink(p)
          /\ readers' = [readers EXCEPT ![at[p]] = @ \ {p}]
          /\ UNCHANGED <<left, secondPass, once, pending, closed, flow>>
      BY <1>1 DEF Check
    <2>2. /\ at' \in [Goroutines -> Sinks]
          /\ pc' \in [Goroutines -> Labels]
          /\ \A q \in Goroutines \ {p} : pc'[q] = pc[q] /\ at'[q] = at[q]
          /\ pc'[p] \in {"rlock", "idle"}
          /\ pc'[p] = "idle" => at'[p] = 1
      BY <2>1, NextSinkStep DEF IInv
    <2>3. TypeOK'
      BY <2>1, <2>2 DEF IInv, TypeOK, Labels, flow
    <2>4. Locked' /\ StillOpen' /\ NoPanic'
      <3>1. at[p] \in Sinks /\ p \in readers[at[p]]
        BY <2>1 DEF IInv, TypeOK, Locked
      <3>2. Locked'
        BY <2>1, <2>2, <3>1 DEF IInv, TypeOK, Locked
      <3> QED
        BY <2>1, <2>2, <3>2 DEF IInv, TypeOK, StillOpen, NoPanic
    <2>5. InOrder' /\ Ended'
      BY <2>1 DEF IInv, InOrder, InHand, Ended, flow
    <2>6. Passed'
      BY <2>1, <2>2 DEF IInv, TypeOK, Labels, Passed, Syncing, flow
    <2> QED
      BY <2>3, <2>4, <2>5, <2>6 DEF IInv
  <1>2. CASE ~closed[at[p]]
    <2>1. /\ pc[p] = "check" /\ pc' = [pc EXCEPT ![p] = "send"]
          /\ UNCHANGED <<at, readers, left, secondPass, once, pending, closed, flow>>
      BY <1>2 DEF Check, Goto
    <2>2. TypeOK'
      BY <2>1 DEF IInv, TypeOK, Labels, flow
    <2>3. Locked' /\ StillOpen' /\ NoPanic'
      BY <1>2, <2>1 DEF IInv, TypeOK, Labels, Locked, StillOpen, NoPanic
    <2>4. InOrder' /\ Ended'
      BY <2>1 DEF IInv, InOrder, InHand, Ended, flow
    <2>5. Passed'
      BY <2>1 DEF IInv, TypeOK, Labels, Passed, Syncing, flow
    <2> QED
      BY <2>2, <2>3, <2>4, <2>5 DEF IInv
  <1> QED
    BY <1>1, <1>2

(* A send finds the channel open, since the sender's read lock keeps the   *)
(* shutdown out; what it queues is accepted last.                          *)
LEMMA SendStep ==
  ASSUME IInv, NEW p \in Goroutines, Send(p)
  PROVE  IInv'
  <1> DEFINE s == at[p]
             message == <<p, left[p]>>
  <1>1. pc[p] = "send" /\ ~closed[s] /\ s \in Sinks /\ message \in Message
    BY DEF IInv, TypeOK, StillOpen, Send, Message
  <1>2. /\ logChan' = [logChan EXCEPT ![s] = Append(@, message)]
        /\ accepted' = [accepted EXCEPT ![s] = Append(@, message)]
        /\ readers' = [readers EXCEPT ![s] = @ \ {p}]
        /\ NextSink(p)
        /\ UNCHANGED <<left, secondPass, once, pending, closed, drainer, handed,
                       fileClosed>>
    BY <1>1 DEF Send
  <1>3. /\ at' \in [Goroutines -> Sinks]
        /\ pc' \in [Goroutines -> Labels]
        /\ \A q \in Goroutines \ {p} : pc'[q] = pc[q] /\ at'[q] = at[q]
        /\ pc'[p] \in {"rlock", "idle"}
        /\ pc'[p] = "idle" => at'[p] = 1
    BY <1>2, NextSinkStep DEF IInv
  <1> HIDE DEF message
  <1>4. TypeOK'
    <2>1. /\ Append(logChan[s], message) \in Seq(Message)
          /\ Append(accepted[s], message) \in Seq(Message)
      BY <1>1, AppendProperties DEF IInv, TypeOK
    <2> QED
      BY <1>1, <1>2, <1>3, <2>1 DEF IInv, TypeOK
  <1>5. Locked' /\ StillOpen' /\ NoPanic'
    <2>1. Locked'
      BY <1>1, <1>2, <1>3 DEF IInv, TypeOK, Locked
    <2> QED
      BY <1>1, <1>2, <1>3, <2>1 DEF IInv, TypeOK, StillOpen, NoPanic
  <1>6. InOrder'
    <2>1. InHand(s) \in Seq(Message)
      BY <1>1 DEF IInv, TypeOK, Labels, InHand
    <2>2. Append(accepted[s], message) =
            handed[s] \o InHand(s) \o Append(logChan[s], message)
      <3>1. accepted[s] = handed[s] \o InHand(s) \o logChan[s]
        BY <1>1 DEF IInv, InOrder
      <3>2. handed[s] \in Seq(Message) /\ logChan[s] \in Seq(Message)
        BY <1>1 DEF IInv, TypeOK
      <3> DEFINE h == handed[s]  i == InHand(s)  c == logChan[s]  a == accepted[s]
      <3>3. /\ h \in Seq(Message) /\ i \in Seq(Message) /\ c \in Seq(Message)
            /\ message \in Message /\ a = h \o i \o c
        BY <1>1, <2>1, <3>1, <3>2
      <3> HIDE DEF h, i, c, a
      <3>4. Append(a, message) = h \o i \o Append(c, message)
        <4>1. h \o i \in Seq(Message) /\ a \in Seq(Message) /\ <<message>> \in Seq(Message)
          BY <3>3, ConcatProperties
        <4>2. Append(a, message) = a \o <<message>> /\ Append(c, message) = c \o <<message>>
          BY <3>3, <4>1, AppendIsConcat
        <4> QED
          BY <3>3, <4>1, <4>2, ConcatAssociative
      <3> QED
        BY <3>4 DEF h, i, c, a
    <2> QED
      BY <1>1, <1>2, <2>2 DEF IInv, TypeOK, Labels, InOrder, InHand
  <1>7. Ended'
    BY <1>1, <1>2 DEF IInv, TypeOK, Labels, Ended
  <1>8. Passed'
    BY <1>1, <1>2, <1>3 DEF IInv, TypeOK, Labels, Passed, Syncing
  <1> QED
    BY <1>4, <1>5, <1>6, <1>7, <1>8 DEF IInv

(* The drainer moves messages on and ends only when none can come.         *)
LEMMA DrainStep ==
  ASSUME IInv, NEW s \in Sinks, run(s)
  PROVE  IInv'
  <1>1. /\ UNCHANGED <<locals, locks, accepted, fileClosed>>
        /\ Locked' /\ StillOpen' /\ NoPanic'
    BY DEF IInv, Locked, StillOpen, NoPanic, run, Take, HandOver, Drained, locals, locks
  <1>2. CASE Take(s)
    <2> DEFINE m == Head(logChan[s])
    <2>1. /\ m \in Message /\ m # Idle /\ m # Done /\ Idle # Done
          /\ Tail(logChan[s]) \in Seq(Message)
      BY <1>2, HeadTailProperties, MessageInHand DEF IInv, TypeOK, Labels, Take
    <2>2. TypeOK'
      BY <1>1, <1>2, <2>1 DEF IInv, TypeOK, Labels, Take, locals, locks
    <2>3. InOrder'
      <3>1. handed[s] \o <<>> \o logChan[s] =
              handed[s] \o <<m>> \o Tail(logChan[s])
        BY <1>2, Dequeue DEF IInv, TypeOK, Labels, Take
      <3> HIDE DEF m
      <3>2. \A t \in Sinks \ {s} : InHand(t)' = InHand(t)
        BY <1>2 DEF IInv, TypeOK, Labels, Take, InHand
      <3>3. InHand(s) = <<>> /\ InHand(s)' = <<m>>
        BY <1>2, <2>1 DEF IInv, TypeOK, Labels, Take, InHand, m
      <3> QED
        BY <1>1, <1>2, <3>1, <3>2, <3>3 DEF IInv, TypeOK, Labels, InOrder, Take
    <2>4. Ended' /\ Passed'
      BY <1>1, <1>2, <2>1
      DEF IInv, TypeOK, Labels, Ended, Passed, Take, locals, locks
    <2> QED
      BY <1>1, <2>2, <2>3, <2>4 DEF IInv
  <1>3. CASE HandOver(s)
    <2> DEFINE m == drainer[s]
    <2>1. m \in Message /\ m # Idle /\ m # Done /\ Idle # Done
      BY <1>3, MessageInHand DEF IInv, TypeOK, Labels, HandOver
    <2>2. TypeOK'
      BY <1>1, <1>3, <2>1, AppendProperties DEF IInv, TypeOK, Labels, HandOver, locals, locks
    <2>3. InOrder'
      <3>1. handed[s] \o <<m>> \o logChan[s] =
              Append(handed[s], m) \o <<>> \o logChan[s]
        BY <2>1, Deliver DEF IInv, TypeOK, Labels
      <3>2. \A t \in Sinks \ {s} : InHand(t)' = InHand(t)
        BY <1>3 DEF IInv, TypeOK, Labels, HandOver, InHand
      <3>3. InHand(s) = <<m>> /\ InHand(s)' = <<>>
        BY <1>3, <2>1 DEF IInv, TypeOK, Labels, HandOver, InHand
      <3> HIDE DEF m
      <3>4. handed'[s] = Append(handed[s], m) /\ logChan' = logChan
        BY <1>3 DEF IInv, TypeOK, Labels, HandOver, m
      <3>5. \A t \in Sinks \ {s} : handed'[t] = handed[t]
        BY <1>3 DEF IInv, TypeOK, Labels, HandOver
      <3> QED
        BY <1>1, <3>1, <3>2, <3>3, <3>4, <3>5 DEF IInv, InOrder
    <2>4. Ended' /\ Passed'
      BY <1>1, <1>3, <2>1
      DEF IInv, TypeOK, Labels, Ended, Passed, HandOver, locals, locks
    <2> QED
      BY <1>1, <2>2, <2>3, <2>4 DEF IInv
  <1>4. CASE Drained(s)
    <2>1. TypeOK'
      BY <1>1, <1>4 DEF IInv, TypeOK, Labels, Drained, locals, locks
    <2>2. InOrder'
      BY <1>1, <1>4 DEF IInv, TypeOK, Labels, InOrder, InHand, Drained
    <2>3. Ended' /\ Passed'
      BY <1>1, <1>4 DEF IInv, TypeOK, Labels, Ended, Passed, Drained, locals, locks
    <2> QED
      BY <1>1, <2>1, <2>2, <2>3 DEF IInv
  <1> QED
    BY <1>2, <1>3, <1>4 DEF run

(* The shutdown up to a sink: one goroutine gets in, and asks for a lock.  *)
LEMMA AskStep ==
  ASSUME IInv, NEW p \in Goroutines, SyncLogger(p) \/ Once(p) \/ Sync(p)
  PROVE  IInv'
  <1>1. InOrder' /\ Ended'
    BY DEF IInv, InOrder, InHand, Ended, SyncLogger, Once, Sync, locks, flow
  <1>2. TypeOK'
    BY DEF IInv, TypeOK, Labels, SyncLogger, Once, Sync, Goto, locks, flow
  <1>3. CASE SyncLogger(p)
    <2>1. Locked' /\ StillOpen' /\ NoPanic'
      BY <1>3 DEF IInv, TypeOK, Locked, StillOpen, NoPanic, SyncLogger, Goto, locks
    <2>2. Passed'
      BY <1>3 DEF IInv, TypeOK, Passed, Syncing, SyncLogger, Goto, flow
    <2> QED
      BY <1>1, <1>2, <2>1, <2>2 DEF IInv
  <1>4. CASE Once(p) /\ once = "new"
    <2>1. /\ pc[p] = "once" /\ pc' = [pc EXCEPT ![p] = "sync"] /\ once' = "running"
          /\ UNCHANGED <<at, secondPass, readers, closed, drainer, fileClosed>>
      BY <1>4 DEF Once, Goto, locks, flow
    <2>2. Locked' /\ StillOpen' /\ NoPanic'
      BY <2>1 DEF IInv, TypeOK, Locked, StillOpen, NoPanic
    <2>3. Passed'
      <3>1. at[p] = 1 /\ ~secondPass /\ \A q \in Goroutines : pc[q] \notin Syncing
        BY <1>4, <2>1 DEF IInv, Passed
      <3>2. \A s \in Sinks : ~(s < at[p])
        BY <3>1, LoggerAssumption DEF Sinks
      <3> QED
        BY <2>1, <3>1, <3>2 DEF IInv, TypeOK, Passed, Syncing
    <2> QED
      BY <1>1, <1>2, <2>2, <2>3 DEF IInv
  <1>5. CASE Once(p) /\ once # "new"
    <2>1. /\ pc[p] = "once" /\ pc' = [pc EXCEPT ![p] = "exited"]
          /\ UNCHANGED <<at, once, secondPass, readers, closed, drainer, fileClosed>>
      BY <1>5 DEF Once, Goto, locks, flow
    <2>2. Locked' /\ StillOpen' /\ NoPanic'
      BY <2>1 DEF IInv, TypeOK, Locked, StillOpen, NoPanic
    <2>3. Passed'
      BY <2>1 DEF IInv, TypeOK, Passed, Syncing
    <2> QED
      BY <1>1, <1>2, <2>2, <2>3 DEF IInv
  <1>6. CASE Sync(p)
    <2>1. /\ pc[p] = "sync" /\ pc' = [pc EXCEPT ![p] = pc'[p]]
          /\ pc'[p] = "wait" \/ pc'[p] = "lock"
          /\ UNCHANGED <<at, once, secondPass, readers, closed, drainer, fileClosed>>
      BY <1>6 DEF IInv, TypeOK, Sync, Goto, flow
    <2>2. pc'[p] = "lock" => ~closed[at[p]]
      BY <1>6, <2>1 DEF IInv, TypeOK, Sync, Goto
    <2>3. StillOpen'
      <3>1. ASSUME NEW q \in Goroutines, q # p
            PROVE  pc'[q] = pc[q]
        BY <2>1, <3>1 DEF IInv, TypeOK
      <3> QED
        BY <2>1, <2>2, <3>1 DEF IInv, StillOpen
    <2>4. Locked' /\ NoPanic'
      BY <2>1 DEF IInv, TypeOK, Locked, NoPanic
    <2>5. Passed'
      BY <2>1 DEF IInv, TypeOK, Passed, Syncing
    <2> QED
      BY <1>1, <1>2, <2>3, <2>4, <2>5 DEF IInv
  <1> QED
    BY <1>3, <1>4, <1>5, <1>6

(* A channel is closed when nobody holds the read lock of its sink, and     *)
(* only one goroutine gets as far, so no second one finds it closed.       *)
LEMMA CloseStep ==
  ASSUME IInv, NEW p \in Goroutines, Close(p)
  PROVE  IInv'
  <1>1. /\ pc[p] = "lock" /\ readers[at[p]] = {} /\ ~closed[at[p]]
        /\ at[p] \in Sinks
    BY DEF IInv, TypeOK, StillOpen, Close
  <1>2. /\ closed' = [closed EXCEPT ![at[p]] = TRUE]
        /\ pending' = [pending EXCEPT ![at[p]] = FALSE]
        /\ pc' = [pc EXCEPT ![p] = "wait"]
        /\ UNCHANGED <<at, left, secondPass, once, readers, flow>>
    BY <1>1 DEF Close, Goto
  <1>3. TypeOK'
    BY <1>2 DEF IInv, TypeOK, Labels, flow
  <1>4. Locked' /\ NoPanic'
    BY <1>1, <1>2 DEF IInv, TypeOK, Locked, NoPanic
  <1>5. StillOpen'
    <2>1. ASSUME NEW q \in Goroutines, q # p, pc[q] = "send"
          PROVE  at[q] # at[p]
      BY <1>1, <2>1 DEF IInv, TypeOK, Locked
    <2>2. ASSUME NEW q \in Goroutines, q # p
          PROVE  pc[q] # "lock"
      BY <1>1, <2>2 DEF IInv, Passed, Syncing
    <2>3. ASSUME NEW q \in Goroutines, q # p, pc[q] = "send"
          PROVE  ~closed'[at[q]]
      BY <1>2, <2>1, <2>3 DEF IInv, TypeOK, StillOpen
    <2> QED
      BY <1>1, <1>2, <2>2, <2>3 DEF IInv, TypeOK, StillOpen
  <1>6. InOrder' /\ Ended'
    BY <1>2 DEF IInv, TypeOK, InOrder, InHand, Ended, flow
  <1>7. Passed'
    BY <1>1, <1>2 DEF IInv, TypeOK, Passed, Syncing, flow
  <1> QED
    BY <1>3, <1>4, <1>5, <1>6, <1>7 DEF IInv

(* The shutdown leaves a sink that is drained; after the last one of the   *)
(* second pass every sink is, and the file is closed.                      *)
LEMMA WaitStep ==
  ASSUME IInv, NEW p \in Goroutines, Wait(p)
  PROVE  IInv'
  <1>1. /\ pc[p] = "wait" /\ drainer[at[p]] = Done
        /\ UNCHANGED <<left, readers, pending, closed, logChan, drainer, accepted,
                       handed>>
    BY DEF Wait, AfterWait, locks
  <1>2. InOrder' /\ Ended'
    BY <1>1 DEF IInv, InOrder, InHand, Ended
  <1>3. CASE at[p] < SinkCount \/ ~secondPass
    <2>1. /\ at' = [at EXCEPT ![p] = IF @ < SinkCount THEN @ + 1 ELSE 1]
          /\ pc' = [pc EXCEPT ![p] = "sync"]
          /\ UNCHANGED <<once, fileClosed>>
          /\ secondPass' = (secondPass \/ at[p] = SinkCount)
      BY <1>3, LoggerAssumption DEF IInv, TypeOK, Labels, Wait, AfterWait, Goto, Sinks
    <2>2. secondPass' \in BOOLEAN
      BY <2>1, Zenon
    <2>3. secondPass' <=> secondPass \/ at[p] = SinkCount
      BY <2>1, Zenon
    <2>4. at' \in [Goroutines -> Sinks]
      BY <2>1, LoggerAssumption DEF IInv, TypeOK, Labels, Sinks
    <2>5. TypeOK'
      BY <1>1, <2>1, <2>2, <2>4 DEF IInv, TypeOK, Labels
    <2>6. Locked' /\ StillOpen' /\ NoPanic'
      BY <1>1, <2>1 DEF IInv, TypeOK, Labels, Locked, StillOpen, NoPanic
    <2>7. Passed'
      <3>1. \A s \in Sinks : s < at'[p] \/ secondPass' => drainer[s] = Done
        BY <1>1, <1>3, <2>1, <2>3, LoggerAssumption
        DEF IInv, TypeOK, Labels, Passed, Syncing, Sinks
      <3> QED
        BY <1>1, <2>1, <3>1 DEF IInv, TypeOK, Labels, Passed, Syncing
    <2> QED
      BY <1>2, <2>5, <2>6, <2>7 DEF IInv
  <1>4. CASE at[p] = SinkCount /\ secondPass
    <2>1. /\ at' = [at EXCEPT ![p] = 1]
          /\ pc' = [pc EXCEPT ![p] = "exited"]
          /\ once' = "done" /\ fileClosed' = TRUE /\ UNCHANGED secondPass
      <3>1. ~(at[p] < SinkCount)
        BY <1>4, LoggerAssumption
      <3> QED
        BY <1>4, <3>1 DEF Wait, AfterWait, Goto
    <2>2. TypeOK'
      BY <1>1, <2>1, LoggerAssumption DEF IInv, TypeOK, Labels, Sinks
    <2>3. Locked' /\ StillOpen' /\ NoPanic'
      BY <1>1, <2>1 DEF IInv, TypeOK, Labels, Locked, StillOpen, NoPanic
    <2>4. Passed'
      BY <1>1, <1>4, <2>1 DEF IInv, TypeOK, Labels, Passed, Syncing
    <2> QED
      BY <1>2, <2>2, <2>3, <2>4 DEF IInv
  <1>5. at[p] \in 1 .. SinkCount /\ SinkCount \in Nat
    BY LoggerAssumption DEF IInv, TypeOK, Sinks
  <1>6. at[p] < SinkCount \/ at[p] = SinkCount
    BY <1>5
  <1> QED
    BY <1>3, <1>4, <1>6, Zenon

(* Every step of every goroutine keeps the invariant.                      *)
LEMMA NextIInv == IInv /\ [Next]_vars => IInv'
  <1> SUFFICES ASSUME IInv, [Next]_vars PROVE IInv'
    OBVIOUS
  <1>1. CASE UNCHANGED vars
    BY <1>1 DEF vars, locals, locks, flow, IInv, TypeOK, Labels, Locked, StillOpen, NoPanic, InOrder,
       InHand, Ended, Passed
  <1>2. ASSUME NEW p \in Goroutines, Log(p) \/ Write(p) \/ SyncLogger(p) \/ Shutdown(p)
        PROVE  IInv'
    BY <1>2, EnterStep, CheckStep, SendStep, AskStep, CloseStep, WaitStep
    DEF Write, Shutdown
  <1>3. ASSUME NEW s \in Sinks, run(s)
        PROVE  IInv'
    BY <1>3, DrainStep
  <1> QED
    BY <1>1, <1>2, <1>3 DEF Next

(* What the invariant says once the log file is closed.                    *)
LEMMA Flushed == IInv => FlushedBeforeClose
  <1> SUFFICES ASSUME IInv, fileClosed, NEW s \in Sinks
               PROVE  handed[s] = accepted[s] /\ drainer[s] = Done
    BY DEF FlushedBeforeClose
  <1>1. drainer[s] = Done /\ logChan[s] = <<>> /\ InHand(s) = <<>>
    BY DEF IInv, Passed, Ended, InHand
  <1>2. accepted[s] = handed[s] \o <<>> \o <<>>
    BY <1>1 DEF IInv, InOrder
  <1> QED
    BY <1>1, <1>2, ConcatEmptySeq DEF IInv, TypeOK, Labels

THEOREM Invariant == Spec => []IInv
  BY InitIInv, NextIInv, PTL DEF Spec

(* NoPanic (logger.go:46-69): a log call that races the shutdown never     *)
(* sends on the closed channel of a sink, and none is closed twice.        *)
THEOREM NoPanicAlways == Spec => []NoPanic
  <1>1. IInv => NoPanic
    BY DEF IInv
  <1> QED
    BY <1>1, Invariant, PTL

(* InOrder (logger.go:37-58): each sink hands over what it accepted, once  *)
(* and in order.                                                           *)
THEOREM InOrderAlways == Spec => []InOrder
  <1>1. IInv => InOrder
    BY DEF IInv
  <1> QED
    BY <1>1, Invariant, PTL

(* FlushedBeforeClose (logger.go:139-155): when the log file is closed,    *)
(* every sink has written all that it ever accepted.                       *)
THEOREM FlushedAlways == Spec => []FlushedBeforeClose
  BY Flushed, Invariant, PTL
================================================================================
