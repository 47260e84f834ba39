----------------------------- MODULE CheckQueue -----------------------------
(***************************************************************************)
(* checkqueue.h and its use by ConnectBlock: the script checks of a block   *)
(* are put in a queue that worker threads serve.  The thread that connects  *)
(* the block, the master, adds batches and then helps until all are done.   *)
(* Everything happens under one mutex, except that a thread works on the    *)
(* batch it has taken, and sleeps on its condition variable, without it.    *)
(*                                                                          *)
(* A sleeper wakes up when it was notified, or for no reason.  At shutdown  *)
(* threads are interrupted: the exception is thrown where they sleep, out   *)
(* of Loop, past the counters it would have taken back.                     *)
(*                                                                          *)
(* A definition that no action uses, right before one whose name it extends *)
(* (NotifyMasterNever before NotifyMaster), is that one with a plausible    *)
(* error in it.  It is there to show that a property would notice.          *)
(***************************************************************************)
EXTENDS Integers, FiniteSets

CONSTANTS
  Workers,     \* the threads of ThreadScriptCheck
  Masters,     \* threads that may connect a block; cs_main admits one at a time
  NoThread,
  Checks,      \* script checks, elements of the queue
  Failing,     \* those whose script does not verify
  nBatchSize

Threads == Workers \cup Masters

ASSUME CheckQueueAssumption ==
  /\ IsFiniteSet(Threads) /\ Workers \cap Masters = {} /\ NoThread \notin Threads
  /\ IsFiniteSet(Checks) /\ Failing \subseteq Checks
  /\ nBatchSize \in Nat \ {0}
-----------------------------------------------------------------------------
VARIABLES
  queue, nIdle, nTotal, fAllOk, nTodo,
  pc,          \* where in Loop a thread is; "out" of it, or "gone" for good
  batch,       \* vChecks: the checks a thread has taken, until it reports them
  fOk,         \* its fOk, TRUE while that holds nothing to report
  notified,    \* sleepers that a notify has released
  interrupted, \* per thread, whether interrupt_all was called and took effect
  master,      \* the thread that has a CCheckQueueControl
  added,       \* the checks it has added
  wanted,      \* it has called Wait, and not the destructor alone
  verdict      \* what its last Wait returned: "valid", "invalid" or "none"

vars == <<queue, nIdle, nTotal, fAllOk, nTodo, pc, batch, fOk, notified,
          interrupted, master, added, wanted, verdict>>

Init ==
  /\ queue = {} /\ nIdle = 0 /\ nTotal = 0 /\ fAllOk = TRUE /\ nTodo = 0
  /\ pc = [t \in Threads |-> IF t \in Workers THEN "top" ELSE "out"]
  /\ batch = [t \in Threads |-> {}]
  /\ fOk = [t \in Threads |-> TRUE]
  /\ notified = {}
  /\ interrupted = [t \in Threads |-> "no"]
  /\ master = NoThread /\ added = {} /\ wanted = FALSE /\ verdict = "none"

Sleeping(S) == {t \in S : pc[t] = "asleep" /\ t \notin notified}
-----------------------------------------------------------------------------
(* ConnectBlock makes its CCheckQueueControl.  That the queue is idle is     *)
(* asserted (QueueIsIdle below), not awaited.                                *)
IsIdle == nTotal = nIdle /\ nTodo = 0 /\ fAllOk

OpenControl == \E m \in Masters :
  /\ master = NoThread /\ pc[m] = "out" /\ interrupted[m] # "thrown"
  /\ master' = m
  /\ added' = {} /\ wanted' = FALSE /\ verdict' = "none"
  /\ UNCHANGED <<queue, nIdle, nTotal, fAllOk, nTodo, pc, batch, fOk, notified, interrupted>>

(* Add wakes one worker for one check, all of them for several.              *)
NotifyWorkers(S) ==
  IF Cardinality(S) = 1 /\ Sleeping(Workers) # {}
  THEN \E w \in Sleeping(Workers) : notified' = notified \cup {w}
  ELSE notified' = IF S = {} THEN notified ELSE notified \cup Sleeping(Workers)

Add == \E S \in SUBSET (Checks \ added) :
  /\ master # NoThread /\ pc[master] = "out"
  /\ queue' = queue \cup S
  /\ nTodo' = nTodo + Cardinality(S)
  /\ added' = added \cup S
  /\ NotifyWorkers(S)
  /\ UNCHANGED <<nIdle, nTotal, fAllOk, pc, batch, fOk, interrupted, master, wanted, verdict>>

(* ConnectBlock waits for the result, or finds the block invalid for another *)
(* reason and leaves: then the destructor waits and drops the result.        *)
Wait == \E b \in BOOLEAN :
  /\ master # NoThread /\ pc[master] = "out"
  /\ pc' = [pc EXCEPT ![master] = "top"]
  /\ wanted' = b
  /\ UNCHANGED <<queue, nIdle, nTotal, fAllOk, nTodo, batch, fOk, notified, interrupted,
                 master, added, verdict>>
-----------------------------------------------------------------------------
(* The rest of a critical section of Loop, for thread t, from "logically,    *)
(* the do loop starts here": ok, todo, idle and total are what fAllOk,       *)
(* nTodo, nIdle and nTotal have become in it.                                *)
Lesser(i, j) == IF i < j THEN i ELSE j
BatchLimit(idle, total) ==
  LET share == Cardinality(queue) \div (total + idle + 1)
  IN  IF share = 0 THEN 1 ELSE Lesser(nBatchSize, share)

TakeBatch(t, ok, todo, idle, total) ==
  /\ queue # {}
  /\ \E S \in SUBSET queue :
        /\ Cardinality(S) = BatchLimit(idle, total)
        /\ batch' = [batch EXCEPT ![t] = S]
        /\ queue' = queue \ S
  /\ fOk' = [fOk EXCEPT ![t] = ok]
  /\ pc' = [pc EXCEPT ![t] = "working"]
  /\ fAllOk' = ok /\ nTodo' = todo /\ nIdle' = idle /\ nTotal' = total
  /\ UNCHANGED <<master, added, wanted, verdict>>

MayReturnEmpty(t, todo) == t \in Masters
MayReturn(t, todo) == t \in Masters /\ todo = 0

SleepKeepBatch(t, ok, todo, idle, total) ==
  /\ queue = {} /\ ~MayReturn(t, todo)
  /\ pc' = [pc EXCEPT ![t] = "asleep"]
  /\ fAllOk' = ok /\ nTodo' = todo /\ nIdle' = idle + 1 /\ nTotal' = total
  /\ fOk' = [fOk EXCEPT ![t] = TRUE]
  /\ UNCHANGED <<queue, batch, master, added, wanted, verdict>>
Sleep(t, ok, todo, idle, total) ==
  /\ queue = {} /\ ~MayReturn(t, todo)
  /\ pc' = [pc EXCEPT ![t] = "asleep"]
  /\ batch' = [batch EXCEPT ![t] = {}]
  /\ fAllOk' = ok /\ nTodo' = todo /\ nIdle' = idle + 1 /\ nTotal' = total
  /\ fOk' = [fOk EXCEPT ![t] = TRUE]
  /\ UNCHANGED <<queue, master, added, wanted, verdict>>

(* The master returns what fAllOk says and resets it for the next block.     *)
ResetNever(ok) == ok
Reset(ok) == TRUE
Return(t, ok, todo, idle, total) ==
  /\ queue = {} /\ MayReturn(t, todo)
  /\ pc' = [pc EXCEPT ![t] = "out"]
  /\ batch' = [batch EXCEPT ![t] = {}]
  /\ fAllOk' = Reset(ok) /\ nTodo' = todo /\ nIdle' = idle /\ nTotal' = total - 1
  /\ verdict' = IF ~wanted THEN "none" ELSE IF ok THEN "valid" ELSE "invalid"
  /\ master' = NoThread /\ wanted' = FALSE
  /\ fOk' = [fOk EXCEPT ![t] = TRUE]
  /\ UNCHANGED <<queue, added>>

Proceed(t, ok, todo, idle, total) ==
  \/ TakeBatch(t, ok, todo, idle, total)
  \/ Sleep(t, ok, todo, idle, total)
  \/ Return(t, ok, todo, idle, total)

(* The first critical section of a thread's Loop.                            *)
FirstTurn(t) ==
  /\ pc[t] = "top" /\ batch[t] = {}
  /\ Proceed(t, fAllOk, nTodo, nIdle, nTotal + 1)
  /\ UNCHANGED <<notified, interrupted>>

(* A thread runs the checks it has taken, unless one has failed already.     *)
Work(t) ==
  /\ pc[t] = "working"
  /\ fOk' = [fOk EXCEPT ![t] = @ /\ batch[t] \cap Failing = {}]
  /\ pc' = [pc EXCEPT ![t] = "top"]
  /\ UNCHANGED <<queue, nIdle, nTotal, fAllOk, nTodo, batch, notified, interrupted,
                 master, added, wanted, verdict>>

(* Then it reports, and tells the master when they were the last.            *)
ReportedAlone(t) == fOk[t]
Reported(t) == fAllOk /\ fOk[t]
NotifyMasterNever(t, todo) == UNCHANGED notified
NotifyMaster(t, todo) ==
  notified' = IF todo = 0 /\ t \notin Masters THEN notified \cup Sleeping(Masters) ELSE notified

Report(t) ==
  LET todo == nTodo - Cardinality(batch[t]) IN
  /\ pc[t] = "top" /\ batch[t] # {}
  /\ NotifyMaster(t, todo)
  /\ Proceed(t, Reported(t), todo, nIdle, nTotal)
  /\ UNCHANGED interrupted

(* The end of cond.wait.                                                     *)
WakeUp(t) ==
  /\ pc[t] = "asleep"
  /\ notified' = notified \ {t}
  /\ Proceed(t, fAllOk, nTodo, nIdle - 1, nTotal)
  /\ UNCHANGED interrupted
-----------------------------------------------------------------------------
(* interrupt_all, at shutdown or when mining is stopped.                     *)
Interrupt == \E t \in Threads :
  /\ interrupted[t] = "no"
  /\ interrupted' = [interrupted EXCEPT ![t] = "requested"]
  /\ UNCHANGED <<queue, nIdle, nTotal, fAllOk, nTodo, pc, batch, fOk, notified,
                 master, added, wanted, verdict>>

(* cond.wait throws thread_interrupted.  A worker ends.  A master that was   *)
(* in Wait leaves ConnectBlock: the destructor waits again, and the thread   *)
(* then ends.  Thrown out of the destructor itself the exception terminates  *)
(* the process; such an end is left out.                                     *)
Interrupted(t) ==
  /\ pc[t] = "asleep" /\ interrupted[t] = "requested"
  /\ t \in Masters => wanted
  /\ interrupted' = [interrupted EXCEPT ![t] = "thrown"]
  /\ notified' = notified \ {t}
  /\ pc' = [pc EXCEPT ![t] = IF t \in Workers THEN "gone" ELSE "top"]
  /\ wanted' = (wanted /\ t \in Workers)
  /\ UNCHANGED <<queue, nIdle, nTotal, fAllOk, nTodo, batch, fOk, master, added, verdict>>

Loop(t) == FirstTurn(t) \/ Work(t) \/ Report(t) \/ WakeUp(t) \/ Interrupted(t)

Next == OpenControl \/ Add \/ Wait \/ Interrupt \/ \E t \in Threads : Loop(t)

Spec == Init /\ [][Next]_vars

(* A thread that is not asleep gets the mutex and the processor; one that is *)
(* asleep wakes up when it was notified.  Nothing else is taken for granted. *)
Runs(t) == FirstTurn(t) \/ Work(t) \/ Report(t) \/ (t \in notified /\ WakeUp(t))

FairSpec == Spec /\ \A t \in Threads : WF_vars(Runs(t))
-----------------------------------------------------------------------------
TypeOK ==
  /\ queue \subseteq Checks /\ added \subseteq Checks
  /\ nIdle \in Nat /\ nTotal \in Nat /\ nTodo \in Nat /\ fAllOk \in BOOLEAN
  /\ pc \in [Threads -> {"out", "top", "working", "asleep", "gone"}]
  /\ batch \in [Threads -> SUBSET Checks] /\ fOk \in [Threads -> BOOLEAN]
  /\ notified \subseteq Threads
  /\ interrupted \in [Threads -> {"no", "requested", "thrown"}]
  /\ master \in Masters \cup {NoThread} /\ wanted \in BOOLEAN
  /\ verdict \in {"valid", "invalid", "none"}

(* "Passed queue is supposed to be unused": whenever a control can be made,  *)
(* its assertion holds, whatever the last block's checks gave, and also      *)
(* after threads were interrupted and left their counts behind.              *)
QueueIsIdle == master = NoThread => IsIdle

(* "Guarantees the passed queue is finished before continuing": when         *)
(* ConnectBlock has returned, in whatever way, no thread has a check of its  *)
(* block, whose transactions it points to.                                   *)
Outstanding == UNION {batch[t] : t \in Threads}
NoCheckOutlivesBlock == master = NoThread => queue = {} /\ Outstanding = {}

(* nTodo is the "number of verifications that haven't completed yet.  This   *)
(* includes elements that are no longer queued, but still in the worker's    *)
(* own batches": every check is in one place at a time.                      *)
TodoIsExact ==
  /\ nTodo = Cardinality(queue \cup Outstanding)
  /\ \A t \in Threads : queue \cap batch[t] = {}
  /\ \A t, u \in Threads : t # u => batch[t] \cap batch[u] = {}

(* The block is told the truth: valid exactly when no check of it failed.    *)
Verification == INSTANCE ScriptVerification WITH active <- master # NoThread
ImplementsScriptVerification == Verification!Spec

(* A block that waits for its checks gets an answer, if workers were         *)
(* interrupted too.                                                          *)
WaitReturns == \A m \in Masters : pc[m] = "top" ~> pc[m] = "out"
=============================================================================
