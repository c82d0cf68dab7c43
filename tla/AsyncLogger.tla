------------------------------ MODULE AsyncLogger ------------------------------
(***************************************************************************)
(* logger.Logger: every log call writes to each sink (console, then file), *)
(* an AsyncWriteSyncer with a bounded channel, a goroutine that drains it, *)
(* a read-write lock around its closed flag, and a close that runs once.   *)
(* SyncLogger closes the sinks one after the other and then the log file.  *)
(* The lock is Go's: a waiting writer keeps new readers out.               *)
(***************************************************************************)
EXTENDS Integers, Sequences

CONSTANTS
  Goroutines,   (* those that log or shut the logger down                    *)
  SinkCount,    (* sinks of the logger, 1 .. SinkCount in the order of cores *)
  BufferSize,   (* capacity of logChan                                       *)
  Messages      (* bound of the model: log calls of one goroutine            *)

Sinks == 1 .. SinkCount

ASSUME LoggerAssumption ==
  /\ SinkCount \in Nat \ {0} /\ BufferSize \in Nat \ {0} /\ Messages \in Nat

VARIABLES
  pc,        (* control point of each goroutine                              *)
  at,        (* the sink it is working on                                    *)
  left,      (* log calls it may still make                                  *)
  secondPass,(* SyncLogger has reached l.Sync, which syncs every sink again  *)
  once,      (* syncOnce: "new", "running" or "done"                         *)
  readers,   (* goroutines holding the read lock of a sink                   *)
  pending,   (* a goroutine waits for the write lock of a sink               *)
  closed,    (* closed and close(logChan), set together under that lock      *)
  logChan,   (* messages of a sink, oldest first                             *)
  drainer,   (* the run goroutine: "idle", "done" or the message it writes   *)
  accepted,  (* messages for which Write returned no error                   *)
  handed,    (* messages the drainer gave to the underlying writer           *)
  fileClosed (* SyncLogger has closed the log file                           *)

locals == <<pc, at, left, secondPass, once>>
locks  == <<readers, pending, closed>>
flow   == <<logChan, drainer, accepted, handed, fileClosed>>
vars   == <<locals, locks, flow>>

Idle == <<"idle">>
Done == <<"done">>

Goto(p, label) == pc' = [pc EXCEPT ![p] = label]

(* zap's multiCore goes on with the next core whatever this one returned.  *)
NextSink(p) ==
  IF at[p] < SinkCount
  THEN at' = [at EXCEPT ![p] = @ + 1] /\ Goto(p, "rlock")
  ELSE at' = [at EXCEPT ![p] = 1] /\ Goto(p, "idle")

-------------------------------------------------------------------------------
(* Write *)

Log(p) ==
  /\ pc[p] = "idle" /\ left[p] > 0
  /\ left' = [left EXCEPT ![p] = @ - 1]
  /\ Goto(p, "rlock")
  /\ UNCHANGED <<at, secondPass, once, locks, flow>>

RLock(p) ==
  /\ pc[p] = "rlock" /\ ~pending[at[p]]
  /\ readers' = [readers EXCEPT ![at[p]] = @ \cup {p}]
  /\ Goto(p, "check")
  /\ UNCHANGED <<at, left, secondPass, once, pending, closed, flow>>

(* Mutant: the lock is released before the send. *)
CheckUnlocks(p) ==
  /\ pc[p] = "check"
  /\ readers' = [readers EXCEPT ![at[p]] = @ \ {p}]
  /\ IF closed[at[p]] THEN NextSink(p) ELSE Goto(p, "send") /\ UNCHANGED at
  /\ UNCHANGED <<left, secondPass, once, pending, closed, flow>>

(* The closed check, and the error return that releases the lock. *)
Check(p) ==
  /\ pc[p] = "check"
  /\ \/ /\ closed[at[p]]
        /\ readers' = [readers EXCEPT ![at[p]] = @ \ {p}]
        /\ NextSink(p)
     \/ /\ ~closed[at[p]]
        /\ Goto(p, "send")
        /\ UNCHANGED <<at, readers>>
  /\ UNCHANGED <<left, secondPass, once, pending, closed, flow>>

(* Mutant: a message that finds the channel full is dropped. *)
SendDropping(p) ==
  LET s == at[p]  message == <<p, left[p]>> IN
  /\ pc[p] = "send"
  /\ logChan' = IF Len(logChan[s]) < BufferSize
                THEN [logChan EXCEPT ![s] = Append(@, message)] ELSE logChan
  /\ accepted' = [accepted EXCEPT ![s] = Append(@, message)]
  /\ readers' = [readers EXCEPT ![s] = @ \ {p}]
  /\ NextSink(p)
  /\ UNCHANGED <<left, secondPass, once, pending, closed, drainer, handed,
                 fileClosed>>

(* The send, which blocks on a full channel with the read lock held, and   *)
(* panics on a closed one; then the deferred unlock.                       *)
Send(p) ==
  LET s == at[p]  message == <<p, left[p]>> IN
  /\ pc[p] = "send"
  /\ \/ /\ closed[s]
        /\ Goto(p, "panic")
        /\ UNCHANGED <<at, readers, logChan, accepted>>
     \/ /\ ~closed[s] /\ Len(logChan[s]) < BufferSize
        /\ logChan' = [logChan EXCEPT ![s] = Append(@, message)]
        /\ accepted' = [accepted EXCEPT ![s] = Append(@, message)]
        /\ readers' = [readers EXCEPT ![s] = @ \ {p}]
        /\ NextSink(p)
  /\ UNCHANGED <<left, secondPass, once, pending, closed, drainer, handed,
                 fileClosed>>

-------------------------------------------------------------------------------
(* run *)

Take(s) ==
  /\ drainer[s] = Idle /\ logChan[s] # <<>>
  /\ drainer' = [drainer EXCEPT ![s] = Head(logChan[s])]
  /\ logChan' = [logChan EXCEPT ![s] = Tail(@)]
  /\ UNCHANGED <<locals, locks, accepted, handed, fileClosed>>

(* Mutant: the goroutine returns when the writer reports an error. *)
HandOverOrStop(s) ==
  /\ drainer[s] \notin {Idle, Done}
  /\ handed' = [handed EXCEPT ![s] = Append(@, drainer[s])]
  /\ \E next \in {Idle, Done} : drainer' = [drainer EXCEPT ![s] = next]
  /\ UNCHANGED <<locals, locks, logChan, accepted, fileClosed>>

(* writeSyncer.Write; an error is printed and the loop goes on. *)
HandOver(s) ==
  /\ drainer[s] \notin {Idle, Done}
  /\ handed' = [handed EXCEPT ![s] = Append(@, drainer[s])]
  /\ drainer' = [drainer EXCEPT ![s] = Idle]
  /\ UNCHANGED <<locals, locks, logChan, accepted, fileClosed>>

(* The channel is closed and empty: wg.Done. *)
Drained(s) ==
  /\ drainer[s] = Idle /\ closed[s] /\ logChan[s] = <<>>
  /\ drainer' = [drainer EXCEPT ![s] = Done]
  /\ UNCHANGED <<locals, locks, logChan, accepted, handed, fileClosed>>

-------------------------------------------------------------------------------
(* SyncLogger and the Sync of each sink *)

SyncLogger(p) ==
  /\ pc[p] = "idle"
  /\ Goto(p, "once")
  /\ UNCHANGED <<at, left, secondPass, once, locks, flow>>

(* syncOnce.Do: the first caller runs it, the others wait for it. *)
Once(p) ==
  /\ pc[p] = "once"
  /\ \/ once = "new"  /\ once' = "running" /\ Goto(p, "sync")
     \/ once = "done" /\ Goto(p, "exited") /\ UNCHANGED once
  /\ UNCHANGED <<at, left, secondPass, locks, flow>>

(* closeOnce.Do of a sink: ask for the write lock the first time. *)
Sync(p) ==
  /\ pc[p] = "sync"
  /\ \/ closed[at[p]]  /\ Goto(p, "wait") /\ UNCHANGED pending
     \/ ~closed[at[p]] /\ Goto(p, "lock")
                       /\ pending' = [pending EXCEPT ![at[p]] = TRUE]
  /\ UNCHANGED <<at, left, secondPass, once, readers, closed, flow>>

(* The readers have left: set the flag, close the channel, which panics on a
   closed one, and unlock.                                                 *)
Close(p) ==
  /\ pc[p] = "lock" /\ readers[at[p]] = {}
  /\ \/ /\ closed[at[p]]
        /\ Goto(p, "panic")
        /\ UNCHANGED <<closed, pending>>
     \/ /\ ~closed[at[p]]
        /\ closed' = [closed EXCEPT ![at[p]] = TRUE]
        /\ pending' = [pending EXCEPT ![at[p]] = FALSE]
        /\ Goto(p, "wait")
  /\ UNCHANGED <<at, left, secondPass, once, readers, flow>>

(* What follows the sync of a sink: the next sink, the second pass, or the *)
(* end with the log file closed.                                           *)
AfterWait(p) ==
  /\ at' = [at EXCEPT ![p] = IF @ < SinkCount THEN @ + 1 ELSE 1]
  /\ \/ /\ at[p] < SinkCount \/ ~secondPass
        /\ secondPass' = (secondPass \/ at[p] = SinkCount)
        /\ Goto(p, "sync")
        /\ UNCHANGED <<once, fileClosed>>
     \/ /\ at[p] = SinkCount /\ secondPass
        /\ once' = "done" /\ fileClosed' = TRUE
        /\ Goto(p, "exited")
        /\ UNCHANGED secondPass
  /\ UNCHANGED <<left, locks, logChan, drainer, accepted, handed>>

(* Mutant: the drainer is not waited for. *)
WaitNot(p) == pc[p] = "wait" /\ AfterWait(p)

(* wg.Wait and the sync of the underlying writer. *)
Wait(p) == pc[p] = "wait" /\ drainer[at[p]] = Done /\ AfterWait(p)

-------------------------------------------------------------------------------
Init ==
  /\ pc = [p \in Goroutines |-> "idle"]
  /\ at = [p \in Goroutines |-> 1]
  /\ left = [p \in Goroutines |-> Messages]
  /\ secondPass = FALSE /\ once = "new" /\ fileClosed = FALSE
  /\ readers = [s \in Sinks |-> {}]
  /\ pending = [s \in Sinks |-> FALSE] /\ closed = [s \in Sinks |-> FALSE]
  /\ logChan = [s \in Sinks |-> <<>>]
  /\ drainer = [s \in Sinks |-> Idle]
  /\ accepted = [s \in Sinks |-> <<>>] /\ handed = [s \in Sinks |-> <<>>]

Write(p)    == RLock(p) \/ Check(p) \/ Send(p)
Shutdown(p) == Once(p) \/ Sync(p) \/ Close(p) \/ Wait(p)
run(s)      == Take(s) \/ HandOver(s) \/ Drained(s)

Next == \/ \E p \in Goroutines : Log(p) \/ Write(p) \/ SyncLogger(p) \/ Shutdown(p)
        \/ \E s \in Sinks : run(s)

(* Goroutines that can run do; nobody has to log or to shut down. *)
Fairness == /\ \A p \in Goroutines : WF_vars(Write(p)) /\ WF_vars(Shutdown(p))
            /\ \A s \in Sinks : WF_vars(run(s))

Spec     == Init /\ [][Next]_vars
FairSpec == Spec /\ Fairness

-------------------------------------------------------------------------------
(* logger.go:46-69: no log call racing the shutdown ever sends on the      *)
(* closed channel, and no shutdown closes a channel that is closed: both   *)
(* would panic in the middle of some other work.                           *)
NoPanic == \A p \in Goroutines : pc[p] # "panic"

InHand(s) == IF drainer[s] \in {Idle, Done} THEN <<>> ELSE <<drainer[s]>>

(* logger.go:37-58: what Write accepted reaches the writer once and in     *)
(* order: it has been handed over, is in hand, or is still queued.         *)
InOrder == \A s \in Sinks : accepted[s] = handed[s] \o InHand(s) \o logChan[s]

(* logger.go:139-155: when the log file is closed, every sink has written  *)
(* all that Write ever accepted, so nothing is lost and nothing is written *)
(* to a closed file.                                                       *)
FlushedBeforeClose ==
  fileClosed => \A s \in Sinks : handed[s] = accepted[s] /\ drainer[s] = Done

(* logger.go:48-71, 139-155: a log call and a shutdown both come to an     *)
(* end, also when the channel is full while the call holds the read lock   *)
(* and the shutdown waits for it: the drainer needs neither.               *)
NobodyHangs ==
  \A p \in Goroutines : /\ pc[p] = "rlock" ~> pc[p] = "idle"
                        /\ pc[p] = "once" ~> pc[p] = "exited"
================================================================================
