-------------------------- MODULE CheckQueueProofs --------------------------
(***************************************************************************)
(* The check queue counts its checks exactly, is idle and empty whenever no *)
(* block uses it, and tells every block the truth: for any number of        *)
(* workers, checks and interruptions.                                       *)
(***************************************************************************)
EXTENDS CheckQueue, FiniteSetTheorems, TLAPS

Busy == {t \in Threads : batch[t] # {}}
Asleep == {t \in Threads : pc[t] = "asleep"}

(* Which threads can be where, and where the checks of a block are.          *)
PlacesInv ==
  /\ \A t \in Workers : pc[t] # "out"
  /\ \A t \in Masters : pc[t] # "gone" /\ (pc[t] # "out" => t = master)
  /\ \A t \in Threads : pc[t] = "working" => batch[t] # {}
  /\ \A t \in Threads : batch[t] # {} => pc[t] \in {"working", "top"}
  /\ queue \subseteq added /\ \A t \in Threads : batch[t] \subseteq added
  /\ master = NoThread => queue = {} /\ fAllOk /\ \A t \in Threads : batch[t] = {}

(* Whoever is counted in nTotal and not in nIdle holds a batch.  A thread    *)
(* that was interrupted stays in both counts.                                *)
CountInv == nTotal = nIdle + Cardinality(Busy) /\ Cardinality(Asleep) <= nIdle

(* A failed check is still to be run, or has been noted.                     *)
Noted(c, t) == c \in batch[t] /\ (pc[t] = "top" => ~fOk[t])
OkInv ==
  /\ \A t \in Threads : batch[t] = {} => fOk[t]
  /\ ~fAllOk \/ (\E t \in Threads : ~fOk[t]) => added \cap Failing # {}
  /\ fAllOk /\ master # NoThread =>
       \A c \in added \cap Failing : c \in queue \/ \E t \in Threads : Noted(c, t)

IInv == TypeOK /\ TodoIsExact /\ PlacesInv /\ CountInv /\ OkInv

(* What holds inside a critical section of Loop, before thread t goes on     *)
(* with the values ok, todo, idle and total: it no longer has its batch.     *)
Others(t) == queue \cup UNION {batch[u] : u \in Threads \ {t}}
MidInv(t, ok, todo, idle, total) ==
  /\ ok \in BOOLEAN /\ idle \in Nat /\ total \in Nat
  /\ t \in Masters => t = master
  /\ master = NoThread => ok
  /\ todo = Cardinality(Others(t))
  /\ total = idle + 1 + Cardinality(Busy \ {t})
  /\ Cardinality(Asleep \ {t}) <= idle
  /\ ~ok => added \cap Failing # {}
  /\ ok /\ master # NoThread =>
       \A c \in added \cap Failing : c \in queue \/ \E u \in Threads \ {t} : Noted(c, u)

LEMMA Finite ==
  ASSUME NEW S
  PROVE  /\ S \subseteq Checks => IsFiniteSet(S) /\ Cardinality(S) \in Nat
         /\ S \subseteq Threads => IsFiniteSet(S) /\ Cardinality(S) \in Nat
  BY CheckQueueAssumption, FS_Subset, FS_CardinalityType

LEMMA NoThreadIsNone ==
  NoThread \notin Masters /\ Masters \subseteq Threads /\ Workers \subseteq Threads
    /\ \A t \in Masters : t \notin Workers
  BY CheckQueueAssumption DEF Threads

(* Taking a batch from the queue moves checks, and makes one thread busy.    *)
LEMMA TakeBatchKeeps ==
  ASSUME IInv, NEW t \in Threads, NEW ok, NEW todo, NEW idle, NEW total,
         MidInv(t, ok, todo, idle, total), TakeBatch(t, ok, todo, idle, total),
         notified' \subseteq Threads,
         interrupted' \in [Threads -> {"no", "requested", "thrown"}]
  PROVE  IInv'
<1> USE DEF IInv
<1>1. PICK S \in SUBSET queue :
        /\ Cardinality(S) = BatchLimit(idle, total)
        /\ batch' = [batch EXCEPT ![t] = S] /\ queue' = queue \ S
  BY DEF TakeBatch
<1>2. /\ queue # {} /\ fOk' = [fOk EXCEPT ![t] = ok] /\ pc' = [pc EXCEPT ![t] = "working"]
      /\ fAllOk' = ok /\ nTodo' = todo /\ nIdle' = idle /\ nTotal' = total
      /\ UNCHANGED <<master, added, wanted, verdict>>
  BY DEF TakeBatch
<1>3. /\ batch \in [Threads -> SUBSET Checks] /\ queue \subseteq Checks
      /\ pc \in [Threads -> {"out", "top", "working", "asleep", "gone"}]
      /\ fOk \in [Threads -> BOOLEAN] /\ added \subseteq Checks
  BY DEF TypeOK
<1>4. S # {}
  <2>1. Cardinality(queue) \in Nat /\ Cardinality(queue) # 0
    BY <1>2, <1>3, Finite, FS_EmptySet
  <2>2. idle \in Nat /\ total \in Nat /\ nBatchSize \in Nat \ {0}
    BY CheckQueueAssumption DEF MidInv
  <2>3. BatchLimit(idle, total) # 0
    <3> DEFINE share == Cardinality(queue) \div (total + idle + 1)
    <3>1. share \in Nat
      BY <2>1, <2>2
    <3> HIDE DEF share
    <3>2. BatchLimit(idle, total) = IF share = 0 THEN 1 ELSE Lesser(nBatchSize, share)
      BY DEF BatchLimit, share
    <3> QED BY <2>2, <3>1, <3>2 DEF Lesser
  <2> QED BY <1>1, <2>3, FS_EmptySet
<1>5. TypeOK'
  BY <1>1, <1>2, <1>3, Finite DEF TypeOK, MidInv, Others
<1>6. TodoIsExact'
  <2>1. \A u \in Threads : queue \cap batch[u] = {}
    BY DEF TodoIsExact
  <2>2. (queue \cup Outstanding)' = Others(t)
    BY <1>1, <1>3 DEF Others, Outstanding
  <2>3. \A u \in Threads : (queue \cap batch[u])' = {}
    BY <1>1, <1>3, <2>1
  <2>4. \A u, v \in Threads : u # v => (batch[u] \cap batch[v])' = {}
    BY <1>1, <1>3, <2>1 DEF TodoIsExact
  <2> QED BY <1>2, <2>2, <2>3, <2>4 DEF TodoIsExact, MidInv
<1>7. PlacesInv'
  <2>1. master # NoThread
    BY <1>2 DEF PlacesInv
  <2> QED BY <1>1, <1>2, <1>3, <1>4, <2>1, NoThreadIsNone DEF PlacesInv, MidInv
<1>8. CountInv'
  <2>1. Busy' = (Busy \ {t}) \cup {t} /\ t \notin Busy \ {t}
    BY <1>1, <1>3, <1>4 DEF Busy
  <2>2. Asleep' = Asleep \ {t}
    BY <1>2, <1>3 DEF Asleep
  <2>3. IsFiniteSet(Busy \ {t}) /\ Cardinality(Busy \ {t}) \in Nat
    BY Finite DEF Busy
  <2>4. Cardinality(Busy') = Cardinality(Busy \ {t}) + 1
    BY <2>1, <2>3, FS_AddElement
  <2> QED BY <1>2, <2>2, <2>3, <2>4 DEF CountInv, MidInv
<1>9. OkInv'
  <2>1. \A u \in Threads : batch'[u] = {} => fOk'[u]
    BY <1>1, <1>2, <1>3, <1>4 DEF OkInv
  <2>2. ~fAllOk' \/ (\E u \in Threads : ~fOk'[u]) => added' \cap Failing # {}
    BY <1>2, <1>3 DEF OkInv, MidInv
  <2>3. ASSUME ok, master # NoThread, NEW c \in added \cap Failing
        PROVE  c \in queue' \/ \E u \in Threads : Noted(c, u)'
    <3>1. CASE c \in S
      BY <1>1, <1>2, <1>3, <3>1 DEF Noted
    <3>2. CASE c \in queue /\ c \notin S
      BY <1>1, <3>2
    <3>3. CASE c \notin queue
      <4>1. PICK u \in Threads \ {t} : Noted(c, u)
        BY <2>3, <3>3 DEF MidInv
      <4> QED BY <1>1, <1>2, <1>3, <4>1 DEF Noted
    <3> QED BY <3>1, <3>2, <3>3
  <2> QED BY <1>2, <2>1, <2>2, <2>3 DEF OkInv
<1> QED BY <1>5, <1>6, <1>7, <1>8, <1>9

(* Going to sleep, or returning, when the queue is empty.                    *)
LEMMA StopKeeps ==
  ASSUME IInv, NEW t \in Threads, NEW ok, NEW todo, NEW idle, NEW total,
         MidInv(t, ok, todo, idle, total),
         Sleep(t, ok, todo, idle, total) \/ Return(t, ok, todo, idle, total),
         notified' \subseteq Threads,
         interrupted' \in [Threads -> {"no", "requested", "thrown"}]
  PROVE  IInv'
<1> USE DEF IInv
<1>1. /\ batch \in [Threads -> SUBSET Checks] /\ queue = {} /\ added \subseteq Checks
      /\ pc \in [Threads -> {"out", "top", "working", "asleep", "gone"}]
      /\ fOk \in [Threads -> BOOLEAN] /\ master \in Masters \cup {NoThread}
      /\ wanted \in BOOLEAN
  BY DEF TypeOK, Sleep, Return
<1>2. /\ queue' = {} /\ added' = added /\ nTodo' = todo
      /\ batch' = [batch EXCEPT ![t] = {}] /\ fOk' = [fOk EXCEPT ![t] = TRUE]
  BY <1>1 DEF Sleep, Return
<1>3. TodoIsExact'
  <2>1. (queue \cup Outstanding)' = Others(t)
    BY <1>1, <1>2 DEF Others, Outstanding
  <2>2. \A u \in Threads : (queue \cap batch[u])' = {}
    BY <1>2
  <2>3. \A u, v \in Threads : u # v => (batch[u] \cap batch[v])' = {}
    BY <1>1, <1>2 DEF TodoIsExact
  <2> QED BY <1>2, <2>1, <2>2, <2>3 DEF TodoIsExact, MidInv
<1>4. Busy' = Busy \ {t}
  BY <1>1, <1>2 DEF Busy
<1>5. IsFiniteSet(Busy \ {t}) /\ Cardinality(Busy \ {t}) \in Nat
  BY Finite DEF Busy
<1>6. todo \in Nat
  BY <1>1, Finite DEF MidInv, Others
<1>7. CASE Sleep(t, ok, todo, idle, total)
  <2>1. /\ pc' = [pc EXCEPT ![t] = "asleep"] /\ ~MayReturn(t, todo)
        /\ fAllOk' = ok /\ nIdle' = idle + 1 /\ nTotal' = total
        /\ UNCHANGED <<master, wanted, verdict>>
    BY <1>7 DEF Sleep
  <2>2. TypeOK'
    BY <1>1, <1>2, <1>6, <2>1 DEF TypeOK, MidInv
  <2>3. PlacesInv'
    <3>1. CASE master = NoThread
      <4>1. t \in Workers
        BY <3>1, NoThreadIsNone DEF MidInv, Threads
      <4> QED BY <1>1, <1>2, <2>1, <3>1, <4>1, NoThreadIsNone DEF PlacesInv, MidInv
    <3>2. CASE master # NoThread
      BY <1>1, <1>2, <2>1, <3>2, NoThreadIsNone DEF PlacesInv, MidInv
    <3> QED BY <3>1, <3>2
  <2>4. CountInv'
    <3>1. Asleep' = (Asleep \ {t}) \cup {t} /\ t \notin Asleep \ {t}
      BY <1>1, <2>1 DEF Asleep
    <3>2. IsFiniteSet(Asleep \ {t}) /\ Cardinality(Asleep \ {t}) \in Nat
      BY Finite DEF Asleep
    <3>3. Cardinality(Asleep') = Cardinality(Asleep \ {t}) + 1
      BY <3>1, <3>2, FS_AddElement
    <3> QED BY <1>4, <1>5, <2>1, <3>2, <3>3 DEF CountInv, MidInv
  <2>5. OkInv'
    <3>1. ASSUME ok, master # NoThread, NEW c \in added \cap Failing PROVE \E u \in Threads : Noted(c, u)'
      <4>1. PICK u \in Threads \ {t} : Noted(c, u)
        BY <1>1, <3>1 DEF MidInv
      <4> QED BY <1>1, <1>2, <2>1, <4>1 DEF Noted
    <3> QED BY <1>1, <1>2, <2>1, <3>1 DEF OkInv, MidInv
  <2> QED BY <1>3, <2>2, <2>3, <2>4, <2>5
<1>8. CASE Return(t, ok, todo, idle, total)
  <2>1. /\ pc' = [pc EXCEPT ![t] = "out"] /\ t \in Masters /\ todo = 0
        /\ fAllOk' = TRUE /\ nIdle' = idle /\ nTotal' = total - 1
        /\ verdict' \in {"valid", "invalid", "none"} /\ master' = NoThread /\ wanted' = FALSE
    BY <1>8 DEF Return, MayReturn, Reset
  <2>2. TypeOK'
    <3>1. nTotal' \in Nat /\ nIdle' \in Nat /\ nTodo' \in Nat
      BY <1>2, <1>5, <1>6, <2>1 DEF MidInv
    <3>2. /\ pc' \in [Threads -> {"out", "top", "working", "asleep", "gone"}]
          /\ batch' \in [Threads -> SUBSET Checks] /\ fOk' \in [Threads -> BOOLEAN]
      BY <1>1, <1>2, <2>1
    <3> QED BY <1>1, <1>2, <2>1, <3>1, <3>2 DEF TypeOK
  <2>3. \A u \in Threads : batch'[u] = {}
    <3>1. Others(t) \subseteq Checks
      BY <1>1 DEF Others
    <3>2. Others(t) = {}
      BY <2>1, <3>1, Finite, FS_EmptySet DEF MidInv
    <3>3. \A u \in Threads \ {t} : batch[u] \subseteq Others(t)
      BY DEF Others
    <3> QED BY <1>1, <1>2, <3>2, <3>3
  <2>4. PlacesInv'
    BY <1>1, <1>2, <2>1, <2>3, NoThreadIsNone DEF PlacesInv, MidInv
  <2>5. CountInv'
    <3>1. Asleep' = Asleep \ {t}
      BY <1>1, <2>1 DEF Asleep
    <3> QED BY <1>4, <1>5, <2>1, <3>1 DEF CountInv, MidInv
  <2>6. added \cap Failing # {} => ~ok
    <3>1. ASSUME ok, NEW c \in added \cap Failing PROVE FALSE
      <4>1. PICK u \in Threads \ {t} : Noted(c, u)
        BY <1>1, <2>1, <3>1, NoThreadIsNone DEF MidInv
      <4> QED BY <1>1, <1>2, <2>3, <4>1 DEF Noted
    <3> QED BY <3>1
  <2>7. OkInv'
    <3>1. \A u \in Threads : fOk'[u]
      <4> TAKE u \in Threads
      <4>1. CASE u = t
        BY <1>1, <1>2, <4>1
      <4>2. CASE u # t
        <5>1. batch[u] = {} /\ fOk'[u] = fOk[u]
          BY <1>1, <1>2, <2>3, <4>2
        <5> QED BY <5>1 DEF OkInv
      <4> QED BY <4>1, <4>2
    <3> QED BY <1>1, <1>2, <2>1, <2>3, <3>1 DEF OkInv
  <2> QED BY <1>3, <2>2, <2>4, <2>5, <2>7
<1> QED BY <1>7, <1>8

(* What ConnectBlock sees of a step of Loop: nothing, or its result.         *)
Shown == Verification!Close \/ UNCHANGED <<master, added, verdict>>

(* A master that returns has seen every failure: when fAllOk survived, no    *)
(* check of its block fails.                                                 *)
LEMMA ReturnTellsTruth ==
  ASSUME IInv, NEW t \in Threads, NEW ok, NEW todo, NEW idle, NEW total,
         MidInv(t, ok, todo, idle, total), Return(t, ok, todo, idle, total)
  PROVE  Verification!Close
<1>1. /\ queue = {} /\ t \in Masters /\ todo = 0 /\ master' = NoThread /\ added' = added
      /\ verdict' = IF ~wanted THEN "none" ELSE IF ok THEN "valid" ELSE "invalid"
  BY DEF Return, MayReturn
<1>2. master # NoThread
  BY <1>1, NoThreadIsNone DEF MidInv
<1>3. Others(t) = {}
  <2>1. Others(t) \subseteq Checks
    BY DEF Others, IInv, TypeOK
  <2> QED BY <1>1, <2>1, Finite, FS_EmptySet DEF MidInv
<1>4. \A c, u : u \in Threads \ {t} => ~Noted(c, u)
  BY <1>3 DEF Others, Noted
<1>5. ok => added \cap Failing = {}
  BY <1>1, <1>2, <1>4 DEF MidInv
<1>6. ~ok => added \cap Failing # {}
  BY DEF MidInv
<1>7. verdict' \in {Verification!Verdict(added), "none"}
  BY <1>1, <1>5, <1>6 DEF Verification!Verdict
<1> QED BY <1>1, <1>2, <1>7 DEF Verification!Close

(* The other two ways on show nothing of the block.                          *)
LEMMA GoesOnUnseen ==
  ASSUME NEW t, NEW ok, NEW todo, NEW idle, NEW total,
         TakeBatch(t, ok, todo, idle, total) \/ Sleep(t, ok, todo, idle, total)
  PROVE  UNCHANGED <<master, added, verdict>>
  BY DEF TakeBatch, Sleep

LEMMA ProceedKeeps ==
  ASSUME IInv, NEW t \in Threads, NEW ok, NEW todo, NEW idle, NEW total,
         MidInv(t, ok, todo, idle, total), Proceed(t, ok, todo, idle, total),
         notified' \subseteq Threads,
         interrupted' \in [Threads -> {"no", "requested", "thrown"}]
  PROVE  IInv' /\ Shown
  BY TakeBatchKeeps, StopKeeps, ReturnTellsTruth, GoesOnUnseen DEF Proceed, Shown

(* The three ways into the rest of a critical section.                      *)
LEMMA OthersWithoutBatch ==
  ASSUME IInv, NEW t \in Threads
  PROVE  /\ Cardinality(Others(t)) = nTodo - Cardinality(batch[t])
         /\ Cardinality(batch[t]) \in Nat
<1>1. batch \in [Threads -> SUBSET Checks] /\ queue \subseteq Checks
  BY DEF IInv, TypeOK
<1>2. queue \cup Outstanding \subseteq Checks /\ batch[t] \subseteq queue \cup Outstanding
  BY <1>1 DEF Outstanding
<1>3. Others(t) = (queue \cup Outstanding) \ batch[t]
  BY <1>1 DEF IInv, TodoIsExact, Others, Outstanding
<1> DEFINE All == queue \cup Outstanding
<1>4. IsFiniteSet(All) /\ IsFiniteSet(batch[t]) /\ All \cap batch[t] = batch[t]
  BY <1>1, <1>2, Finite
<1>5. Cardinality(All \ batch[t]) = Cardinality(All) - Cardinality(batch[t])
  <2> HIDE DEF All
  <2> QED BY <1>4, FS_Difference
<1> QED BY <1>1, <1>3, <1>4, <1>5, FS_CardinalityType DEF IInv, TodoIsExact

LEMMA FirstTurnKeeps ==
  ASSUME IInv, NEW t \in Threads, FirstTurn(t)
  PROVE  IInv' /\ Shown
<1>1. MidInv(t, fAllOk, nTodo, nIdle, nTotal + 1)
  <2>1. batch[t] = {} /\ pc[t] = "top" /\ Busy \ {t} = Busy /\ Asleep \ {t} = Asleep
    BY DEF FirstTurn, Busy, Asleep
  <2>2. nTodo = Cardinality(Others(t))
    <3>1. Cardinality(batch[t]) = 0
      BY <2>1, FS_EmptySet
    <3>2. nTodo \in Nat
      BY DEF IInv, TypeOK
    <3> QED BY <3>1, <3>2, OthersWithoutBatch
  <2>3. Cardinality(Busy) \in Nat
    BY Finite DEF Busy
  <2>4. nTotal + 1 = nIdle + 1 + Cardinality(Busy)
    BY <2>3 DEF IInv, CountInv, TypeOK
  <2>5. t \in Masters => t = master
    BY <2>1 DEF IInv, PlacesInv
  <2>6. ~fAllOk => added \cap Failing # {}
    BY DEF IInv, OkInv
  <2>7. fAllOk /\ master # NoThread =>
          \A c \in added \cap Failing : c \in queue \/ \E u \in Threads \ {t} : Noted(c, u)
    BY <2>1 DEF IInv, OkInv, Noted
  <2>8. fAllOk \in BOOLEAN /\ nIdle \in Nat /\ nTotal + 1 \in Nat /\ (master = NoThread => fAllOk)
        /\ Cardinality(Asleep) <= nIdle
    BY DEF IInv, TypeOK, PlacesInv, CountInv
  <2> QED BY <2>1, <2>2, <2>4, <2>5, <2>6, <2>7, <2>8 DEF MidInv
<1>2. notified' \subseteq Threads /\ interrupted' \in [Threads -> {"no", "requested", "thrown"}]
  BY DEF FirstTurn, IInv, TypeOK
<1> QED BY <1>1, <1>2, ProceedKeeps DEF FirstTurn

LEMMA ReportKeeps ==
  ASSUME IInv, NEW t \in Threads, Report(t)
  PROVE  IInv' /\ Shown
<1> DEFINE todo == nTodo - Cardinality(batch[t])
<1>1. MidInv(t, Reported(t), todo, nIdle, nTotal)
  <2>1. batch[t] # {} /\ pc[t] = "top" /\ t \in Busy /\ Asleep \ {t} = Asleep
    BY DEF Report, Busy, Asleep
  <2>2. todo = Cardinality(Others(t))
    BY OthersWithoutBatch
  <2>3. IsFiniteSet(Busy) /\ Cardinality(Busy) \in Nat /\ Cardinality(Busy \ {t}) \in Nat
    BY Finite DEF Busy
  <2>4. Cardinality(Busy \ {t}) = Cardinality(Busy) - 1
    BY <2>1, <2>3, FS_RemoveElement
  <2>5. nTotal = nIdle + 1 + Cardinality(Busy \ {t})
    BY <2>3, <2>4 DEF IInv, CountInv, TypeOK
  <2>6. master # NoThread /\ (t \in Masters => t = master)
    BY <2>1 DEF IInv, PlacesInv
  <2>7. ~Reported(t) => added \cap Failing # {}
    BY DEF Reported, IInv, OkInv
  <2>8. ASSUME Reported(t), NEW c \in added \cap Failing
        PROVE  c \in queue \/ \E u \in Threads \ {t} : Noted(c, u)
    <3>1. ~Noted(c, t)
      BY <2>1, <2>8 DEF Reported, Noted
    <3>2. c \in queue \/ \E u \in Threads : Noted(c, u)
      BY <2>6, <2>8 DEF Reported, IInv, OkInv
    <3> QED BY <3>1, <3>2
  <2>9. Reported(t) \in BOOLEAN /\ nIdle \in Nat /\ nTotal \in Nat /\ Cardinality(Asleep) <= nIdle
    BY DEF IInv, TypeOK, CountInv, Reported
  <2> QED BY <2>1, <2>2, <2>5, <2>6, <2>7, <2>8, <2>9 DEF MidInv
<1>2. notified' \subseteq Threads /\ interrupted' \in [Threads -> {"no", "requested", "thrown"}]
  BY NoThreadIsNone DEF Report, NotifyMaster, Sleeping, IInv, TypeOK
<1>3. Proceed(t, Reported(t), todo, nIdle, nTotal)
  BY DEF Report
<1> HIDE DEF todo
<1> QED BY <1>1, <1>2, <1>3, ProceedKeeps

LEMMA WakeUpKeeps ==
  ASSUME IInv, NEW t \in Threads, WakeUp(t)
  PROVE  IInv' /\ Shown
<1>1. MidInv(t, fAllOk, nTodo, nIdle - 1, nTotal)
  <2>1. pc[t] = "asleep" /\ batch[t] = {} /\ Busy \ {t} = Busy /\ t \in Asleep
    BY DEF WakeUp, IInv, PlacesInv, Busy, Asleep
  <2>2. nTodo = Cardinality(Others(t))
    <3>1. Cardinality(batch[t]) = 0
      BY <2>1, FS_EmptySet
    <3>2. nTodo \in Nat
      BY DEF IInv, TypeOK
    <3> QED BY <3>1, <3>2, OthersWithoutBatch
  <2>3. IsFiniteSet(Asleep) /\ Cardinality(Busy) \in Nat /\ Cardinality(Asleep) \in Nat
    BY Finite DEF Busy, Asleep
  <2>4. Cardinality(Asleep \ {t}) = Cardinality(Asleep) - 1 /\ Cardinality(Asleep) # 0
    BY <2>1, <2>3, FS_RemoveElement, FS_EmptySet
  <2>5. /\ nIdle - 1 \in Nat /\ Cardinality(Asleep \ {t}) <= nIdle - 1
        /\ nTotal = (nIdle - 1) + 1 + Cardinality(Busy)
    BY <2>3, <2>4 DEF IInv, CountInv, TypeOK
  <2>6. t \in Masters => t = master
    BY <2>1 DEF IInv, PlacesInv
  <2>7. ~fAllOk => added \cap Failing # {}
    BY DEF IInv, OkInv
  <2>8. fAllOk /\ master # NoThread =>
          \A c \in added \cap Failing : c \in queue \/ \E u \in Threads \ {t} : Noted(c, u)
    BY <2>1 DEF IInv, OkInv, Noted
  <2>9. fAllOk \in BOOLEAN /\ nTotal \in Nat /\ (master = NoThread => fAllOk)
    BY DEF IInv, TypeOK, PlacesInv
  <2> QED BY <2>1, <2>2, <2>5, <2>6, <2>7, <2>8, <2>9 DEF MidInv
<1>2. notified' \subseteq Threads /\ interrupted' \in [Threads -> {"no", "requested", "thrown"}]
  BY DEF WakeUp, IInv, TypeOK
<1> QED BY <1>1, <1>2, ProceedKeeps DEF WakeUp

LEMMA AddKeeps ==
  ASSUME IInv, Add
  PROVE  IInv'
<1>1. PICK S \in SUBSET (Checks \ added) :
        /\ master # NoThread /\ queue' = queue \cup S /\ added' = added \cup S
        /\ nTodo' = nTodo + Cardinality(S) /\ NotifyWorkers(S)
        /\ UNCHANGED <<nIdle, nTotal, fAllOk, pc, batch, fOk, interrupted, master, wanted, verdict>>
  BY DEF Add
<1>2. /\ queue \subseteq Checks /\ queue \subseteq added /\ nTodo \in Nat
      /\ batch \in [Threads -> SUBSET Checks] /\ \A t \in Threads : batch[t] \subseteq added
  BY DEF IInv, TypeOK, PlacesInv
<1>3. notified' \subseteq Threads
  BY <1>1, NoThreadIsNone DEF NotifyWorkers, Sleeping, IInv, TypeOK
<1>4. IsFiniteSet(S) /\ Cardinality(S) \in Nat
  BY Finite
<1>5. TypeOK'
  BY <1>1, <1>2, <1>3, <1>4 DEF IInv, TypeOK
<1>6. TodoIsExact'
  <2> DEFINE All == queue \cup Outstanding
  <2>1. IsFiniteSet(All) /\ All \cap S = {}
    BY <1>2, Finite DEF Outstanding
  <2>2. (queue \cup Outstanding)' = All \cup S
    BY <1>1 DEF Outstanding
  <2>3. Cardinality(All \cup S) = Cardinality(All) + Cardinality(S)
    <3> HIDE DEF All
    <3>1. Cardinality(All) \in Nat /\ Cardinality(All \cap S) = 0
      BY <2>1, FS_CardinalityType, FS_EmptySet
    <3>2. Cardinality(All \cup S) = Cardinality(All) + Cardinality(S) - Cardinality(All \cap S)
      BY <1>4, <2>1, FS_Union
    <3> QED BY <1>4, <3>1, <3>2
  <2>4. nTodo' = Cardinality((queue \cup Outstanding)')
    BY <1>1, <2>2, <2>3 DEF IInv, TodoIsExact
  <2>5. \A t \in Threads : (queue \cap batch[t])' = {}
    BY <1>1, <1>2 DEF IInv, TodoIsExact
  <2>6. \A t, u \in Threads : t # u => (batch[t] \cap batch[u])' = {}
    BY <1>1 DEF IInv, TodoIsExact
  <2> QED BY <2>4, <2>5, <2>6 DEF TodoIsExact
<1>7. PlacesInv'
  BY <1>1, <1>2 DEF IInv, PlacesInv
<1>8. CountInv'
  BY <1>1 DEF IInv, CountInv, Busy, Asleep
<1>9. OkInv'
  <2>1. ASSUME fAllOk, NEW c \in added' \cap Failing
        PROVE  c \in queue' \/ \E t \in Threads : Noted(c, t)'
    BY <1>1, <2>1 DEF IInv, OkInv, Noted
  <2>2. added \subseteq added'
    BY <1>1
  <2> QED BY <1>1, <2>1, <2>2 DEF IInv, OkInv
<1> QED BY <1>5, <1>6, <1>7, <1>8, <1>9 DEF IInv

(* The steps that leave queue, counters and batches alone.                  *)
LEMMA OpenControlKeeps ==
  ASSUME IInv, OpenControl
  PROVE  IInv'
<1>1. PICK m \in Masters : master = NoThread /\ pc[m] = "out" /\ master' = m
  BY DEF OpenControl
<1>2. /\ added' = {} /\ wanted' = FALSE /\ verdict' = "none"
      /\ UNCHANGED <<queue, nIdle, nTotal, fAllOk, nTodo, pc, batch, fOk, notified, interrupted>>
  BY DEF OpenControl
<1>3. TypeOK'
  BY <1>1, <1>2 DEF IInv, TypeOK
<1>4. TodoIsExact'
  BY <1>2 DEF IInv, TodoIsExact, Outstanding
<1>5. PlacesInv'
  BY <1>1, <1>2, NoThreadIsNone DEF IInv, PlacesInv
<1>6. CountInv'
  BY <1>2 DEF IInv, CountInv, Busy, Asleep
<1>7. OkInv'
  BY <1>1, <1>2 DEF IInv, OkInv, PlacesInv
<1> QED BY <1>3, <1>4, <1>5, <1>6, <1>7 DEF IInv

LEMMA WaitKeeps ==
  ASSUME IInv, Wait
  PROVE  IInv'
<1>1. /\ master # NoThread /\ pc[master] = "out" /\ pc' = [pc EXCEPT ![master] = "top"]
      /\ wanted' \in BOOLEAN
      /\ UNCHANGED <<queue, nIdle, nTotal, fAllOk, nTodo, batch, fOk, notified, interrupted,
                     master, added, verdict>>
  BY DEF Wait
<1>2. pc \in [Threads -> {"out", "top", "working", "asleep", "gone"}] /\ master \in Threads
  BY <1>1, NoThreadIsNone DEF IInv, TypeOK
<1>3. TypeOK'
  BY <1>1, <1>2 DEF IInv, TypeOK
<1>4. TodoIsExact'
  BY <1>1 DEF IInv, TodoIsExact, Outstanding
<1>5. PlacesInv'
  BY <1>1, <1>2, NoThreadIsNone DEF IInv, PlacesInv
<1>6. CountInv'
  <2>1. Asleep' = Asleep
    BY <1>1, <1>2 DEF Asleep
  <2> QED BY <1>1, <2>1 DEF IInv, CountInv, Busy
<1>7. OkInv'
  <2>1. batch[master] = {}
    BY <1>1, <1>2 DEF IInv, PlacesInv
  <2>2. \A c, t : t \in Threads /\ Noted(c, t) => Noted(c, t)'
    BY <1>1, <1>2, <2>1 DEF Noted
  <2> QED BY <1>1, <2>2 DEF IInv, OkInv
<1> QED BY <1>3, <1>4, <1>5, <1>6, <1>7 DEF IInv

LEMMA WorkKeeps ==
  ASSUME IInv, NEW t \in Threads, Work(t)
  PROVE  IInv'
<1>1. /\ pc[t] = "working" /\ pc' = [pc EXCEPT ![t] = "top"]
      /\ fOk' = [fOk EXCEPT ![t] = fOk[t] /\ batch[t] \cap Failing = {}]
      /\ UNCHANGED <<queue, nIdle, nTotal, fAllOk, nTodo, batch, notified, interrupted,
                     master, added, wanted, verdict>>
  BY DEF Work
<1>2. /\ pc \in [Threads -> {"out", "top", "working", "asleep", "gone"}]
      /\ fOk \in [Threads -> BOOLEAN] /\ batch[t] # {} /\ batch[t] \subseteq added
  BY <1>1 DEF IInv, TypeOK, PlacesInv
<1>3. TypeOK'
  BY <1>1, <1>2 DEF IInv, TypeOK
<1>4. TodoIsExact'
  BY <1>1 DEF IInv, TodoIsExact, Outstanding
<1>5. PlacesInv'
  BY <1>1, <1>2 DEF IInv, PlacesInv
<1>6. CountInv'
  <2>1. Asleep' = Asleep
    BY <1>1, <1>2 DEF Asleep
  <2> QED BY <1>1, <2>1 DEF IInv, CountInv, Busy
<1>7. OkInv'
  <2>1. \A u \in Threads : batch'[u] = {} => fOk'[u]
    BY <1>1, <1>2 DEF IInv, OkInv
  <2>2. ~fOk'[t] => added \cap Failing # {}
    BY <1>1, <1>2 DEF IInv, OkInv
  <2>3. \A c \in Failing, u \in Threads : Noted(c, u) => Noted(c, u)'
    BY <1>1, <1>2 DEF Noted
  <2> QED BY <1>1, <1>2, <2>1, <2>2, <2>3 DEF IInv, OkInv
<1> QED BY <1>3, <1>4, <1>5, <1>6, <1>7 DEF IInv

LEMMA InterruptedKeeps ==
  ASSUME IInv, NEW t \in Threads, Interrupted(t)
  PROVE  IInv'
<1>1. /\ pc[t] = "asleep"
      /\ pc' = [pc EXCEPT ![t] = IF t \in Workers THEN "gone" ELSE "top"]
      /\ interrupted' = [interrupted EXCEPT ![t] = "thrown"]
      /\ notified' = notified \ {t} /\ wanted' \in BOOLEAN
      /\ UNCHANGED <<queue, nIdle, nTotal, fAllOk, nTodo, batch, fOk, master, added, verdict>>
  BY DEF Interrupted
<1>2. /\ pc \in [Threads -> {"out", "top", "working", "asleep", "gone"}] /\ batch[t] = {}
  BY <1>1 DEF IInv, TypeOK, PlacesInv
<1>3. TypeOK'
  BY <1>1, <1>2 DEF IInv, TypeOK
<1>4. TodoIsExact'
  BY <1>1 DEF IInv, TodoIsExact, Outstanding
<1>5. PlacesInv'
  BY <1>1, <1>2, NoThreadIsNone DEF IInv, PlacesInv, Threads
<1>6. CountInv'
  <2>1. Asleep' = Asleep \ {t} /\ t \in Asleep
    BY <1>1, <1>2 DEF Asleep
  <2>2. IsFiniteSet(Asleep) /\ Cardinality(Asleep) \in Nat
    BY Finite DEF Asleep
  <2>3. Cardinality(Asleep \ {t}) = Cardinality(Asleep) - 1
    BY <2>1, <2>2, FS_RemoveElement
  <2>4. nIdle \in Nat /\ Cardinality(Asleep') <= nIdle
    BY <2>1, <2>2, <2>3 DEF IInv, CountInv, TypeOK
  <2>5. Busy' = Busy
    BY <1>1 DEF Busy
  <2> QED BY <1>1, <2>4, <2>5 DEF IInv, CountInv
<1>7. OkInv'
  <2>1. \A c, u : u \in Threads /\ Noted(c, u) => Noted(c, u)'
    BY <1>1, <1>2 DEF Noted
  <2> QED BY <1>1, <2>1 DEF IInv, OkInv
<1> QED BY <1>3, <1>4, <1>5, <1>6, <1>7 DEF IInv

LEMMA InterruptKeeps ==
  ASSUME IInv, Interrupt \/ UNCHANGED vars
  PROVE  IInv'
<1>1. UNCHANGED <<queue, nIdle, nTotal, fAllOk, nTodo, pc, batch, fOk, notified,
                 master, added, wanted, verdict>>
  BY DEF Interrupt, vars
<1>2. interrupted' \in [Threads -> {"no", "requested", "thrown"}]
  BY DEF Interrupt, vars, IInv, TypeOK
<1>3. TypeOK'
  BY <1>1, <1>2 DEF IInv, TypeOK
<1>4. TodoIsExact' /\ PlacesInv'
  BY <1>1 DEF IInv, TodoIsExact, Outstanding, PlacesInv
<1>5. CountInv' /\ OkInv'
  BY <1>1 DEF IInv, CountInv, OkInv, Noted, Busy, Asleep
<1> QED BY <1>3, <1>4, <1>5 DEF IInv

LEMMA InitHolds == Init => IInv
<1> SUFFICES ASSUME Init PROVE IInv
  OBVIOUS
<1>1. Cardinality({}) = 0
  BY FS_EmptySet
<1>2. \A t \in Threads : batch[t] = {} /\ pc[t] # "asleep" /\ fOk[t]
  BY DEF Init
<1>3. Outstanding = {} /\ Busy = {} /\ Asleep = {}
  BY <1>2 DEF Outstanding, Busy, Asleep
<1>4. TypeOK
  BY DEF Init, TypeOK
<1>5. TodoIsExact
  BY <1>1, <1>2, <1>3 DEF Init, TodoIsExact
<1>6. PlacesInv
  BY NoThreadIsNone DEF Init, PlacesInv
<1>7. CountInv
  BY <1>1, <1>3 DEF Init, CountInv
<1>8. OkInv
  BY <1>2 DEF Init, OkInv
<1> QED BY <1>4, <1>5, <1>6, <1>7, <1>8 DEF IInv

LEMMA NextKeeps == IInv /\ [Next]_vars => IInv'
<1> SUFFICES ASSUME IInv, [Next]_vars PROVE IInv'
  OBVIOUS
<1>1. CASE OpenControl
  BY <1>1, OpenControlKeeps
<1>2. CASE Add
  BY <1>2, AddKeeps
<1>3. CASE Wait
  BY <1>3, WaitKeeps
<1>4. CASE Interrupt \/ UNCHANGED vars
  BY <1>4, InterruptKeeps
<1>5. CASE \E t \in Threads : Loop(t)
  <2>1. PICK t \in Threads : Loop(t)
    BY <1>5
  <2> QED BY <2>1, FirstTurnKeeps, WorkKeeps, ReportKeeps, WakeUpKeeps, InterruptedKeeps DEF Loop
<1> QED BY <1>1, <1>2, <1>3, <1>4, <1>5 DEF Next

LEMMA Inductive == Spec => []IInv
<1> QED BY InitHolds, NextKeeps, PTL DEF Spec

(* The counters of CCheckQueue never leave their types: no unsigned counter  *)
(* wraps around, in whatever order threads report, sleep and end.            *)
THEOREM TypesOK == Spec => []TypeOK
<1>1. IInv => TypeOK
  BY DEF IInv
<1> QED BY <1>1, Inductive, PTL

(* nTodo counts the checks in the queue and in all batches, each once.       *)
THEOREM TodoExact == Spec => []TodoIsExact
<1>1. IInv => TodoIsExact
  BY DEF IInv
<1> QED BY <1>1, Inductive, PTL

(* When no block uses the queue, no thread has a check left over from one.   *)
THEOREM ChecksStayInside == Spec => []NoCheckOutlivesBlock
<1>1. IInv => NoCheckOutlivesBlock
  BY DEF IInv, PlacesInv, NoCheckOutlivesBlock, Outstanding
<1> QED BY <1>1, Inductive, PTL

(* The assertion in CCheckQueueControl's constructor never fails.            *)
THEOREM ControlNeverAsserts == Spec => []QueueIsIdle
<1> SUFFICES IInv => QueueIsIdle
  BY Inductive, PTL
<1> SUFFICES ASSUME IInv, master = NoThread PROVE IsIdle
  BY DEF QueueIsIdle
<1>1. queue = {} /\ fAllOk /\ \A t \in Threads : batch[t] = {}
  BY DEF IInv, PlacesInv
<1>2. Busy = {} /\ queue \cup Outstanding = {}
  BY <1>1 DEF Busy, Outstanding
<1>3. nTodo = 0 /\ nTotal = nIdle + 0
  BY <1>2, FS_EmptySet DEF IInv, TodoIsExact, CountInv
<1> QED BY <1>1, <1>3 DEF IsIdle, IInv, TypeOK

(* Every block is told the truth about its checks, or does not ask.          *)
THEOREM TellsTheTruth == Spec => ImplementsScriptVerification
<1>1. Init => Verification!Init
  BY DEF Init, Verification!Init
<1>2. IInv /\ [Next]_vars => [Verification!Next]_Verification!vars
  <2> SUFFICES ASSUME IInv, [Next]_vars
               PROVE  Verification!Next \/ UNCHANGED <<master, added, verdict>>
    BY DEF Verification!vars
  <2>1. CASE OpenControl
    BY <2>1, NoThreadIsNone DEF OpenControl, Verification!Next, Verification!Open
  <2>2. CASE Add
    BY <2>2 DEF Add, Verification!Next, Verification!Add
  <2>3. CASE Wait \/ Interrupt \/ UNCHANGED vars
    BY <2>3 DEF Wait, Interrupt, vars
  <2>4. CASE \E t \in Threads : Loop(t)
    <3>1. PICK t \in Threads : Loop(t)
      BY <2>4
    <3>2. CASE Work(t) \/ Interrupted(t)
      BY <3>2 DEF Work, Interrupted
    <3>3. CASE FirstTurn(t) \/ Report(t) \/ WakeUp(t)
      <4>1. Shown
        BY <3>3, FirstTurnKeeps, ReportKeeps, WakeUpKeeps
      <4> QED BY <4>1 DEF Shown, Verification!Next
    <3> QED BY <3>1, <3>2, <3>3 DEF Loop
  <2> QED BY <2>1, <2>2, <2>3, <2>4 DEF Next
<1> QED BY <1>1, <1>2, Inductive, PTL DEF Spec, ImplementsScriptVerification, Verification!Spec
=============================================================================
