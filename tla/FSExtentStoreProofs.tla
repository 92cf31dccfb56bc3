------------------------ MODULE FSExtentStoreProofs ------------------------
(***************************************************************************)
(* Proofs about FSExtentStore, for any number of appends, slots, extents,  *)
(* descriptors and bytes.                                                  *)
(***************************************************************************)
EXTENDS FSExtentStore, FiniteSetTheorems, WellFoundedInduction, TLAPS

----------------------------------------------------------------------------
(***************************************************************************)
(* Proofs about OperationQueue, for any set of jobs and any concurrency.   *)
(*                                                                         *)
(* That runningConcurrency never drops below zero, and that no wake-up is  *)
(* lost, rests on the counter being the number of running jobs; which in   *)
(* turn needs that a job is at most once in the FIFO and is there only     *)
(* while it is queued.                                                     *)
(***************************************************************************)

QueuedOnce ==
    /\ \A i \in 1..Len(operations) : jobState[operations[i]] = "queued"
    /\ \A i, k \in 1..Len(operations) : operations[i] = operations[k] => i = k

CounterIsRunning ==
    /\ IsFiniteSet(Running)
    /\ runningConcurrency = Cardinality(Running)

\* The inductive invariant.
QueueInv == TypeOK /\ QueuedOnce /\ CounterIsRunning /\ WorkConserving

\* Starting with a FIFO ops whose jobs are queued, each once, execute() keeps
\* the counter and the FIFO right, and counts no job twice.
LEMMA ExecuteKeeps ==
    ASSUME TypeOK, CounterIsRunning, runningConcurrency =< MaxConcurrency,
           NEW ops \in Seq(Jobs), NEW js \in [Jobs -> JobStates],
           {j \in Jobs : js[j] = "running"} = Running,
           \A i \in 1..Len(ops) : js[ops[i]] = "queued",
           \A i, k \in 1..Len(ops) : ops[i] = ops[k] => i = k,
           Execute(ops, js)
    PROVE  /\ operations' \in Seq(Jobs)
           /\ runningConcurrency' \in Nat
           /\ jobState' \in [Jobs -> JobStates]
           /\ started' \in Seq(Jobs)
           /\ QueuedOnce'
           /\ CounterIsRunning'
           /\ runningConcurrency' =< MaxConcurrency
  <1>1. CASE runningConcurrency < MaxConcurrency /\ ops # <<>>
    <2> DEFINE h == Head(ops)
    <2>1. /\ runningConcurrency' = runningConcurrency + 1
          /\ operations' = Tail(ops)
          /\ jobState' = [js EXCEPT ![h] = "running"]
          /\ started' = Append(started, h)
      BY <1>1 DEF Execute
    <2>2. /\ h \in Jobs
          /\ h = ops[1]
          /\ Len(ops) >= 1
          /\ Tail(ops) \in Seq(Jobs)
          /\ Len(Tail(ops)) = Len(ops) - 1
          /\ \A i \in 1..Len(Tail(ops)) : Tail(ops)[i] = ops[i + 1]
      BY <1>1
    <2>3. js[h] = "queued"
      BY <2>2
    <2>4. h \notin Running
      BY <2>3
    <2>5. Running' = Running \cup {h}
      BY <2>1, <2>2 DEF Running, JobStates
    <2>6. CounterIsRunning'
      <3>1. /\ IsFiniteSet(Running \cup {h})
            /\ Cardinality(Running \cup {h}) = Cardinality(Running) + 1
        BY <2>4, FS_AddElement DEF CounterIsRunning
      <3> QED
        BY <2>1, <2>5, <3>1 DEF CounterIsRunning
    <2>7. QueuedOnce'
      <3>1. \A i \in 1..Len(Tail(ops)) : /\ Tail(ops)[i] = ops[i + 1]
                                         /\ i + 1 \in 1..Len(ops)
                                         /\ ops[i + 1] # h
                                         /\ ops[i + 1] \in Jobs
        BY <2>2
      <3>2. \A i \in 1..Len(operations') : jobState'[operations'[i]] = "queued"
        BY <2>1, <3>1
      <3>3. \A i, k \in 1..Len(operations') : operations'[i] = operations'[k] => i = k
        <4>1. \A i, k \in 1..Len(Tail(ops)) : Tail(ops)[i] = Tail(ops)[k] => i + 1 = k + 1
          BY <3>1
        <4> QED
          BY <2>1, <4>1
      <3> QED
        BY <3>2, <3>3 DEF QueuedOnce
    <2>8. started' \in Seq(Jobs)
      BY <2>1, <2>2 DEF TypeOK
    <2> QED
      BY <1>1, <2>1, <2>2, <2>6, <2>7, <2>8, QueueAssumption DEF TypeOK, JobStates
  <1>2. CASE ~(runningConcurrency < MaxConcurrency /\ ops # <<>>)
    <2>1. /\ operations' = ops
          /\ jobState' = js
          /\ runningConcurrency' = runningConcurrency
          /\ started' = started
      BY <1>2 DEF Execute
    <2>2. Running' = Running
      BY <2>1 DEF Running
    <2> QED
      BY <2>1, <2>2 DEF TypeOK, QueuedOnce, CounterIsRunning
  <1> QED
    BY <1>1, <1>2

LEMMA QueueInvInit == Init => QueueInv
  <1> SUFFICES ASSUME Init PROVE QueueInv
    OBVIOUS
  <1>1. TypeOK
    BY QueueAssumption DEF Init, TypeOK, JobStates
  <1>2. Running = {}
    BY DEF Init, Running
  <1>3. CounterIsRunning
    BY <1>2, FS_EmptySet DEF Init, CounterIsRunning
  <1>4. QueuedOnce /\ WorkConserving
    BY QueueAssumption DEF Init, QueuedOnce, WorkConserving
  <1> QED
    BY <1>1, <1>3, <1>4 DEF QueueInv

LEMMA OperateKeeps ==
    ASSUME QueueInv, NEW j \in Jobs, Operate(j)
    PROVE  QueueInv'
  <1> DEFINE ops == Append(operations, j)
             js == [jobState EXCEPT ![j] = "queued"]
  <1>0. TypeOK /\ QueuedOnce /\ CounterIsRunning /\ WorkConserving
    BY DEF QueueInv
  <1>1. /\ ops \in Seq(Jobs)
        /\ Len(ops) = Len(operations) + 1
        /\ \A i \in 1..Len(operations) : ops[i] = operations[i]
        /\ ops[Len(operations) + 1] = j
    BY <1>0 DEF TypeOK
  <1>2. js \in [Jobs -> JobStates] /\ js[j] = "queued"
    BY <1>0 DEF TypeOK, JobStates
  <1>3. {i \in Jobs : js[i] = "running"} = Running
    BY <1>0 DEF Operate, Running, TypeOK
  <1>4. \A i \in 1..Len(operations) : operations[i] # j /\ operations[i] \in Jobs
    BY <1>0 DEF Operate, QueuedOnce, TypeOK
  <1>5. \A i \in 1..Len(ops) : js[ops[i]] = "queued"
    BY <1>0, <1>1, <1>2, <1>4 DEF QueuedOnce, TypeOK
  <1>6. \A i, k \in 1..Len(ops) : ops[i] = ops[k] => i = k
    <2> TAKE i, k \in 1..Len(ops)
    <2> HAVE ops[i] = ops[k]
    <2>1. CASE i \in 1..Len(operations) /\ k \in 1..Len(operations)
      BY <1>0, <1>1, <2>1 DEF QueuedOnce
    <2>2. CASE i = Len(operations) + 1 \/ k = Len(operations) + 1
      BY <1>0, <1>1, <1>4, <2>2 DEF TypeOK
    <2> QED
      BY <1>0, <1>1, <2>1, <2>2 DEF TypeOK
  <1>7. Execute(ops, js) /\ ticks' = ticks
    BY DEF Operate
  <1>8. /\ operations' \in Seq(Jobs) /\ runningConcurrency' \in Nat
        /\ jobState' \in [Jobs -> JobStates] /\ started' \in Seq(Jobs)
        /\ QueuedOnce' /\ CounterIsRunning' /\ runningConcurrency' =< MaxConcurrency
    BY <1>0, <1>1, <1>2, <1>3, <1>5, <1>6, <1>7, ExecuteKeeps DEF WorkConserving
  <1>9. operations' # <<>> => runningConcurrency' + ticks' >= MaxConcurrency
    <2>1. CASE runningConcurrency < MaxConcurrency
      <3>1. ops # <<>>
        BY <1>0, <1>1 DEF TypeOK
      <3>2. runningConcurrency' = runningConcurrency + 1 /\ operations' = Tail(ops)
        BY <1>7, <2>1, <3>1 DEF Execute
      <3>3. operations = <<>> => operations' = <<>>
        BY <3>2
      <3> QED
        BY <1>0, <1>7, <3>2, <3>3, QueueAssumption DEF TypeOK, WorkConserving
    <2>2. CASE ~(runningConcurrency < MaxConcurrency)
      BY <1>0, <1>7, <2>2, QueueAssumption DEF Execute, TypeOK, WorkConserving
    <2> QED
      BY <2>1, <2>2
  <1> QED
    BY <1>0, <1>7, <1>8, <1>9 DEF QueueInv, TypeOK, WorkConserving

LEMMA SettleKeeps ==
    ASSUME QueueInv, NEW j \in Jobs, Settle(j)
    PROVE  QueueInv'
  <1>0. TypeOK /\ QueuedOnce /\ CounterIsRunning /\ WorkConserving
    BY DEF QueueInv
  <1>1. j \in Running /\ Running' = Running \ {j}
    BY <1>0 DEF Settle, Running, TypeOK
  <1>2. /\ IsFiniteSet(Running \ {j})
        /\ Cardinality(Running \ {j}) = Cardinality(Running) - 1
    BY <1>0, <1>1, FS_RemoveElement DEF CounterIsRunning
  <1>3. Cardinality(Running) \in Nat /\ Cardinality(Running \ {j}) \in Nat
    BY <1>0, <1>2, FS_CardinalityType DEF CounterIsRunning
  <1>4. CounterIsRunning' /\ runningConcurrency' \in Nat
    BY <1>0, <1>1, <1>2, <1>3 DEF CounterIsRunning, Settle
  <1>5. TypeOK'
    BY <1>0, <1>4, QueueAssumption DEF TypeOK, Settle, JobStates
  <1>6. QueuedOnce'
    BY <1>0 DEF QueuedOnce, Settle, TypeOK
  <1>7. WorkConserving'
    BY <1>0, QueueAssumption DEF WorkConserving, Settle, TypeOK
  <1> QED
    BY <1>4, <1>5, <1>6, <1>7 DEF QueueInv

LEMMA NextTickKeeps ==
    ASSUME QueueInv, NextTick
    PROVE  QueueInv'
  <1>0. TypeOK /\ QueuedOnce /\ CounterIsRunning /\ WorkConserving
    BY DEF QueueInv
  <1>1. Execute(operations, jobState) /\ ticks' = ticks - 1 /\ ticks > 0
    BY DEF NextTick
  <1>2. /\ operations' \in Seq(Jobs) /\ runningConcurrency' \in Nat
        /\ jobState' \in [Jobs -> JobStates] /\ started' \in Seq(Jobs)
        /\ QueuedOnce' /\ CounterIsRunning' /\ runningConcurrency' =< MaxConcurrency
    <2>1. {i \in Jobs : jobState[i] = "running"} = Running
      BY DEF Running
    <2> QED
      BY <1>0, <1>1, <2>1, ExecuteKeeps DEF TypeOK, QueuedOnce, WorkConserving
  <1>3. operations' # <<>> => runningConcurrency' + ticks' >= MaxConcurrency
    <2>1. CASE operations = <<>>
      BY <1>1, <2>1 DEF Execute
    <2>2. CASE operations # <<>>
      BY <1>0, <1>1, <2>2, QueueAssumption DEF Execute, TypeOK, WorkConserving
    <2> QED
      BY <2>1, <2>2
  <1> QED
    BY <1>0, <1>1, <1>2, <1>3 DEF QueueInv, TypeOK, WorkConserving

LEMMA QueueInvNext ==
    ASSUME QueueInv, [Next]_queueVars
    PROVE  QueueInv'
  <1>1. CASE UNCHANGED queueVars
    BY <1>1 DEF queueVars, QueueInv, TypeOK, QueuedOnce, CounterIsRunning, WorkConserving, Running
  <1>2. CASE Next
    BY <1>2, OperateKeeps, SettleKeeps, NextTickKeeps DEF Next
  <1> QED
    BY <1>1, <1>2

THEOREM QueueInvariant == Spec => []QueueInv
  BY QueueInvInit, QueueInvNext, PTL DEF Spec

\* The types of the queue's variables; in particular runningConcurrency, which
\* two listeners decrement, never leaves 0..maxConcurrency.
THEOREM QueueTypeCorrect == Spec => []TypeOK
  <1>1. QueueInv => TypeOK
    BY DEF QueueInv
  <1> QED
    BY <1>1, QueueInvariant, PTL

\* No wake-up is lost and the limit is kept, for every number of jobs and
\* every concurrency: whenever jobs wait, each free place is matched by a
\* scheduled execute().
THEOREM NoLostWakeUp == Spec => []WorkConserving
  <1>1. QueueInv => WorkConserving
    BY DEF QueueInv
  <1> QED
    BY <1>1, QueueInvariant, PTL

\* Jobs start in the order of submission.
THEOREM StartsInOrder == Spec => FifoOrder
  <1> DEFINE A == /\ \/ started' = started
                     \/ \E j \in Jobs : started' = Append(started, j)
                  /\ \/ started \o operations = started' \o operations'
                     \/ \E j \in Jobs : /\ jobState[j] = "new"
                                        /\ Append(started \o operations, j) = started' \o operations'
  <1>1. ASSUME TypeOK, NEW ops \in Seq(Jobs), NEW js, Execute(ops, js)
        PROVE  /\ started \o ops = started' \o operations'
               /\ started' = started \/ \E j \in Jobs : started' = Append(started, j)
    <2>1. CASE runningConcurrency < MaxConcurrency /\ ops # <<>>
      <3>1. operations' = Tail(ops) /\ started' = Append(started, Head(ops))
        BY <1>1, <2>1 DEF Execute
      <3>2. Head(ops) \in Jobs
        BY <2>1
      <3>3. started \o ops = Append(started, Head(ops)) \o Tail(ops)
        BY <2>1 DEF TypeOK
      <3> QED
        BY <3>1, <3>2, <3>3
    <2>2. CASE ~(runningConcurrency < MaxConcurrency /\ ops # <<>>)
      BY <1>1, <2>2 DEF Execute
    <2> QED
      BY <2>1, <2>2
  <1>2. TypeOK /\ [Next]_queueVars => [A]_queueVars
    <2> SUFFICES ASSUME TypeOK, Next PROVE A
      OBVIOUS
    <2>1. ASSUME NEW j \in Jobs, Operate(j) PROVE A
      <3>1. Append(operations, j) \in Seq(Jobs)
        BY DEF TypeOK
      <3>2. Append(started \o operations, j) = started \o Append(operations, j)
        BY DEF TypeOK
      <3>3. /\ started \o Append(operations, j) = started' \o operations'
            /\ started' = started \/ \E i \in Jobs : started' = Append(started, i)
        BY <1>1, <2>1, <3>1 DEF Operate
      <3> QED
        BY <2>1, <3>2, <3>3 DEF Operate
    <2>2. ASSUME NEW j \in Jobs, Settle(j) PROVE A
      BY <2>2 DEF Settle
    <2>3. CASE NextTick
      BY <1>1, <2>3 DEF NextTick, TypeOK
    <2> QED
      BY <2>1, <2>2, <2>3 DEF Next
  <1> QED
    BY <1>2, QueueTypeCorrect, PTL DEF Spec, FifoOrder

----------------------------------------------------------------------------
(* The slots of FSExtentStore.                                             *)

EndPcs == {"idle", "resolved", "rejected"}

\* An append is somewhere in its body exactly while the queue counts it.
PcAgrees == \A j \in Jobs : jobState[j] = "running" <=> app[j].pc \notin EndPcs

\* A slot has at most one append at work on it, exactly while it is Appending.
SlotOwned ==
    /\ \A j \in Running : /\ slots[app[j].slot].status = "Appending"
                          /\ slots[app[j].slot].id = app[j].id
    /\ \A i, j \in Running : app[i].slot = app[j].slot => i = j
    /\ \A s \in Slots : slots[s].status = "Appending" => \E j \in Running : app[j].slot = s

\* Slots have different extents, and their descriptors name them.
SlotFile ==
    /\ \A s \in Slots : slots[s].id \in usedIds
    /\ \A s, t \in Slots : slots[s].id = slots[t].id => s = t
    /\ \A s \in Slots : slots[s].fd # NoFd => fds[slots[s].fd] = slots[s].id

\* What an append believes about the descriptor.
AppFileOf(j) ==
    LET a == app[j]
        sl == slots[a.slot]
    IN /\ a.pc \in {"rotate", "write", "update"} => a.fd = sl.fd
       /\ a.pc \in {"open", "close", "truncate"} => sl.fd = NoFd
       /\ a.pc \in {"write", "update", "close"} => a.fd # NoFd /\ fds[a.fd] = a.id

AppFile == \A j \in Running : AppFileOf(j)

SlotInv == PcAgrees /\ SlotOwned /\ SlotFile /\ AppFile

StoreInv == QueueInv /\ StoreTypeOK /\ SlotInv

----------------------------------------------------------------------------
(* Types.                                                                  *)

LEMMA SelectedSlotType ==
    /\ SelectedSlot \in Slots
    /\ IdleSlots # {} => SelectedSlot \in IdleSlots
  <1>1. CASE IdleSlots = {}
    BY <1>1, QueueAssumption DEF SelectedSlot, Slots
  <1>2. CASE IdleSlots # {}
    <2>1. IdleSlots \subseteq Nat
      BY DEF IdleSlots, Slots
    <2>2. \E s \in IdleSlots : \A t \in IdleSlots : s =< t
      <3>1. PICK s \in IdleSlots : \A t \in IdleSlots : ~ (<<t, s>> \in OpToRel(<, Nat))
        BY <1>2, <2>1, WFMin, NatLessThanWellFounded
      <3>2. \A t \in IdleSlots : ~ (t < s)
        BY <2>1, <3>1 DEF OpToRel
      <3> QED
        BY <2>1, <3>2
    <2>3. SelectedSlot \in IdleSlots
      BY <1>2, <2>2 DEF SelectedSlot
    <2> QED
      BY <1>2, <2>3 DEF IdleSlots
  <1> QED
    BY <1>1, <1>2

\* The store drives its queue as OperationQueue specifies it.
LEMMA StoreStepsQueue == StoreNext => [Next]_queueVars
  BY DEF StoreNext, AppendExtent, AppendNextTick, Step, Rotate, Open, OpenFails, Data, Flush,
         FlushFails, Finish, Abort, UpdateExtent, UpdateExtentFails, CleanupClose,
         CleanupTruncate, CleanupFails, DeleteExtent, Next

\* One append j on its slot: the other appends and the other slots are left
\* alone, only descriptors of j's own extent or free ones change hands.
StepOnSlot(j) ==
    LET s == app[j].slot
    IN /\ app'[j].slot = s
       /\ \A i \in Jobs \ {j} : app'[i] = app[i]
       /\ \A t \in Slots \ {s} : slots'[t] = slots[t]
       /\ \A n \in Fds : fds[n] \notin {NoExtent, app[j].id} => fds'[n] = fds[n]
       /\ \/ /\ Running' = Running
             /\ app'[j].pc \notin EndPcs
             /\ slots'[s].status = "Appending"
             /\ slots'[s].id = app'[j].id
             /\ AppFileOf(j)'
          \/ /\ Running' = Running \ {j}
             /\ app'[j].pc \in EndPcs
             /\ slots'[s].status = "Idle"
       /\ usedIds \subseteq usedIds'
       /\ slots'[s].id \in usedIds'
       /\ slots'[s].id = slots[s].id \/ slots'[s].id \notin usedIds
       /\ slots'[s].fd # NoFd => fds'[slots'[s].fd] = slots'[s].id

LEMMA Frame ==
    ASSUME StoreTypeOK, SlotInv, StoreTypeOK', NEW j \in Running, StepOnSlot(j)
    PROVE  SlotInv'
  <1> DEFINE s == app[j].slot
  <1> s \in Slots
    BY DEF StoreTypeOK, App, Running
  <1> USE DEF SlotInv, StepOnSlot
  <1>0. Running \subseteq Jobs /\ Running' \subseteq Jobs
    BY DEF Running
  <1>1. \A i \in Running \ {j} : app'[i] = app[i] /\ app[i].slot \in Slots \ {s}
    BY <1>0 DEF StoreTypeOK, App, SlotOwned
  <1>2. PcAgrees'
    <2> SUFFICES ASSUME NEW i \in Jobs PROVE i \in Running' <=> app'[i].pc \notin EndPcs
      BY DEF PcAgrees, Running
    <2>1. i \in Running <=> app[i].pc \notin EndPcs
      BY DEF PcAgrees, Running
    <2>2. CASE i = j
      BY <2>2
    <2>3. CASE i # j
      BY <2>1, <2>3
    <2> QED
      BY <2>2, <2>3
  <1>3. SlotOwned'
    <2>1. \A i \in Running' : /\ slots'[app'[i].slot].status = "Appending"
                              /\ slots'[app'[i].slot].id = app'[i].id
      BY <1>1 DEF SlotOwned
    <2>2. \A i, k \in Running' : app'[i].slot = app'[k].slot => i = k
      BY <1>1 DEF SlotOwned
    <2>3. \A t \in Slots : slots'[t].status = "Appending" => \E i \in Running' : app'[i].slot = t
      <3> TAKE t \in Slots
      <3> HAVE slots'[t].status = "Appending"
      <3>1. CASE t = s
        BY <3>1
      <3>2. CASE t # s
        <4>1. PICK i \in Running : app[i].slot = t
          BY <3>2 DEF SlotOwned
        <4> QED
          BY <1>1, <3>2, <4>1
      <3> QED
        BY <3>1, <3>2
    <2> QED
      BY <2>1, <2>2, <2>3 DEF SlotOwned
  <1>4. SlotFile'
    <2>1. \A t \in Slots : slots'[t].id \in usedIds'
      BY DEF SlotFile
    <2>2. \A t, u \in Slots : slots'[t].id = slots'[u].id => t = u
      BY DEF SlotFile
    <2>3. ASSUME NEW t \in Slots, slots'[t].fd # NoFd
          PROVE  fds'[slots'[t].fd] = slots'[t].id
      <3>1. CASE t = s
        BY <2>3, <3>1
      <3>2. CASE t # s
        <4>1. /\ slots'[t] = slots[t]
              /\ slots[t].fd \in Fds
              /\ fds[slots[t].fd] = slots[t].id
          BY <2>3, <3>2 DEF SlotFile, StoreTypeOK, Slot
        <4>2. slots[t].id # app[j].id /\ slots[t].id # NoExtent
          BY <3>2, StoreAssumption DEF SlotFile, SlotOwned, StoreTypeOK, Slot
        <4> QED
          BY <4>1, <4>2
      <3> QED
        BY <3>1, <3>2
    <2> QED
      BY <2>1, <2>2, <2>3 DEF SlotFile
  <1>5. AppFile'
    <2> SUFFICES ASSUME NEW i \in Running' PROVE AppFileOf(i)'
      BY DEF AppFile
    <2>1. CASE i = j
      BY <2>1
    <2>2. CASE i # j
      <3>1. /\ i \in Running /\ app'[i] = app[i]
            /\ app[i].slot \in Slots /\ slots'[app[i].slot] = slots[app[i].slot]
        BY <1>1, <2>2
      <3>2. AppFileOf(i)
        BY <3>1 DEF AppFile
      <3>3. app[i].id \notin {NoExtent, app[j].id}
        <4>1. app[i].slot # s /\ app[i].id = slots[app[i].slot].id /\ app[j].id = slots[s].id
          BY <1>1, <2>2, <3>1 DEF SlotOwned
        <4>2. slots[app[i].slot].id \in Extents
          BY <3>1 DEF StoreTypeOK, Slot
        <4> QED
          BY <3>1, <4>1, <4>2, StoreAssumption DEF SlotFile
      <3>4. app[i].fd # NoFd => app[i].fd \in Fds
        BY <1>0, <3>1 DEF StoreTypeOK, App
      <3> QED
        BY <3>1, <3>2, <3>3, <3>4 DEF AppFileOf
    <2> QED
      BY <2>1, <2>2
  <1> QED
    BY <1>2, <1>3, <1>4, <1>5

----------------------------------------------------------------------------
(* Every step of an append keeps the invariant.                            *)

\* An append that is suspended in its body is counted by the queue and has
\* its slot; what the queue does to the set of running jobs.
LEMMA InBody ==
    ASSUME StoreInv, NEW j \in Jobs, app[j].pc \notin EndPcs
    PROVE  /\ j \in Running
           /\ app[j].slot \in Slots
           /\ app[j] \in App
           /\ slots[app[j].slot] \in Slot
           /\ slots[app[j].slot].status = "Appending"
           /\ slots[app[j].slot].id = app[j].id
           /\ app[j].id \in usedIds
           /\ app[j].id \in Extents
           /\ AppFileOf(j)
           /\ Settle(j) => Running' = Running \ {j}
           /\ UNCHANGED queueVars => Running' = Running
  <1>1. j \in Running
    BY DEF StoreInv, SlotInv, PcAgrees, Running
  <1>2. app[j] \in App /\ app[j].slot \in Slots /\ slots[app[j].slot] \in Slot
    BY DEF StoreInv, StoreTypeOK, App
  <1>3. /\ slots[app[j].slot].status = "Appending"
        /\ slots[app[j].slot].id = app[j].id
        /\ AppFileOf(j)
    BY <1>1 DEF StoreInv, SlotInv, SlotOwned, AppFile
  <1>4. app[j].id \in usedIds /\ app[j].id \in Extents
    BY <1>2, <1>3 DEF StoreInv, SlotInv, SlotFile, StoreTypeOK
  <1>5. Settle(j) => Running' = Running \ {j}
    BY DEF Settle, Running, StoreInv, StoreTypeOK, TypeOK
  <1>6. UNCHANGED queueVars => Running' = Running
    BY DEF queueVars, Running
  <1> QED
    BY <1>1, <1>2, <1>3, <1>4, <1>5, <1>6

LEMMA RotateKeeps ==
    ASSUME StoreInv, NEW j \in Jobs, Rotate(j), TypeOK'
    PROVE  StoreTypeOK' /\ SlotInv'
  <1> DEFINE s == app[j].slot
  <1>0. app[j].pc = "rotate" /\ UNCHANGED queueVars
    BY DEF Rotate
  <1>1. /\ j \in Running /\ s \in Slots /\ app[j] \in App /\ slots[s] \in Slot
        /\ slots[s].id = app[j].id /\ AppFileOf(j) /\ Running' = Running
    BY <1>0, InBody DEF EndPcs
  <1>2. PICK e \in Extents \ usedIds :
          /\ usedIds' = usedIds \cup {e}
          /\ slots' = [slots EXCEPT ![s] = NewSlot(e, "Appending")]
          /\ app' = [app EXCEPT ![j].pc = "open", ![j].id = e, ![j].fd = NoFd]
    BY DEF Rotate
  <1>3. StoreTypeOK'
    <2>1. slots' \in [Slots -> Slot]
      BY <1>1, <1>2 DEF StoreInv, StoreTypeOK, NewSlot, Slot
    <2>2. app' \in [Jobs -> App]
      BY <1>1, <1>2 DEF StoreInv, StoreTypeOK, App, Pcs
    <2>3. fds' \in [Fds -> Extents \cup {NoExtent}]
      BY DEF Rotate, StoreInv, StoreTypeOK
    <2> QED
      BY <1>2, <2>1, <2>2, <2>3 DEF Rotate, StoreInv, StoreTypeOK
  <1>4. \A n \in Fds : fds[n] \notin {NoExtent, app[j].id} => fds'[n] = fds[n]
    <2>1. app[j].fd # NoFd => app[j].fd \in Fds /\ fds[app[j].fd] = app[j].id
      BY <1>0, <1>1 DEF StoreInv, SlotInv, SlotFile, AppFileOf, App
    <2> QED
      BY <2>1 DEF Rotate, StoreInv, StoreTypeOK
  <1>5. /\ app'[j].slot = s /\ app'[j].pc = "open" /\ app'[j].id = e
        /\ slots'[s].status = "Appending" /\ slots'[s].id = e /\ slots'[s].fd = NoFd
    BY <1>1, <1>2 DEF StoreInv, StoreTypeOK, NewSlot, App
  <1>6. \A i \in Jobs \ {j} : app'[i] = app[i]
    BY <1>2 DEF StoreInv, StoreTypeOK
  <1>7. \A t \in Slots \ {s} : slots'[t] = slots[t]
    BY <1>2 DEF StoreInv, StoreTypeOK
  <1>8. AppFileOf(j)'
    BY <1>5 DEF AppFileOf
  <1>9. usedIds \subseteq usedIds' /\ e \in usedIds' /\ e \notin usedIds
    BY <1>2
  <1>10. app'[j].pc \notin EndPcs
    BY <1>5 DEF EndPcs
  <1>11. StepOnSlot(j)
    BY <1>1, <1>4, <1>5, <1>6, <1>7, <1>8, <1>9, <1>10 DEF StepOnSlot
  <1> QED
    BY <1>1, <1>3, <1>11, Frame DEF StoreInv

LEMMA OpenKeeps ==
    ASSUME StoreInv, NEW j \in Jobs, Open(j), TypeOK'
    PROVE  StoreTypeOK' /\ SlotInv'
  <1> DEFINE s == app[j].slot
  <1>0. app[j].pc = "open" /\ UNCHANGED queueVars
    BY DEF Open
  <1>1. /\ j \in Running /\ s \in Slots /\ app[j] \in App /\ slots[s] \in Slot
        /\ slots[s].id = app[j].id /\ slots[s].id \in usedIds /\ slots[s].status = "Appending"
        /\ app[j].id \in Extents /\ Running' = Running
    BY <1>0, InBody DEF EndPcs
  <1>2. PICK n \in Fds :
          /\ fds[n] = NoExtent
          /\ fds' = [fds EXCEPT ![n] = app[j].id]
          /\ slots' = [slots EXCEPT ![s].fd = n]
          /\ app' = [app EXCEPT ![j].pc = "write", ![j].fd = n]
    BY DEF Open
  <1>3. StoreTypeOK'
    <2>1. slots' \in [Slots -> Slot]
      BY <1>1, <1>2 DEF StoreInv, StoreTypeOK, Slot
    <2>2. app' \in [Jobs -> App]
      BY <1>1, <1>2 DEF StoreInv, StoreTypeOK, App, Pcs
    <2>3. fds' \in [Fds -> Extents \cup {NoExtent}]
      BY <1>1, <1>2 DEF StoreInv, StoreTypeOK
    <2> QED
      BY <1>2, <2>1, <2>2, <2>3 DEF Open, StoreInv, StoreTypeOK
  <1>4. /\ \A m \in Fds : fds[m] \notin {NoExtent, app[j].id} => fds'[m] = fds[m]
        /\ fds'[n] = app[j].id
        /\ n # NoFd
    BY <1>2, StoreAssumption DEF StoreInv, StoreTypeOK, Fds
  <1>5. /\ app'[j].slot = s /\ app'[j].pc = "write" /\ app'[j].id = app[j].id /\ app'[j].fd = n
        /\ slots'[s].status = "Appending" /\ slots'[s].id = slots[s].id /\ slots'[s].fd = n
    BY <1>1, <1>2 DEF StoreInv, StoreTypeOK, App, Slot
  <1>6. \A i \in Jobs \ {j} : app'[i] = app[i]
    BY <1>2 DEF StoreInv, StoreTypeOK
  <1>7. \A t \in Slots \ {s} : slots'[t] = slots[t]
    BY <1>2 DEF StoreInv, StoreTypeOK
  <1>8. AppFileOf(j)'
    BY <1>4, <1>5 DEF AppFileOf
  <1>9. app'[j].pc \notin EndPcs /\ usedIds' = usedIds
    BY <1>5 DEF EndPcs, Open
  <1>11. StepOnSlot(j)
    BY <1>1, <1>4, <1>5, <1>6, <1>7, <1>8, <1>9 DEF StepOnSlot
  <1> QED
    BY <1>1, <1>3, <1>11, Frame DEF StoreInv

\* An append that only counts bytes, and steps of others, leave slots,
\* descriptors and places alone.
LEMMA Unmoved ==
    ASSUME StoreTypeOK, SlotInv, Running' = Running,
           slots' = slots, fds' = fds, usedIds' = usedIds,
           \A i \in Jobs : /\ app'[i].pc = app[i].pc
                           /\ app'[i].slot = app[i].slot
                           /\ app'[i].id = app[i].id
                           /\ app'[i].fd = app[i].fd
    PROVE  SlotInv'
  <1>1. Running \subseteq Jobs
    BY DEF Running
  <1>2. \A i \in Jobs : jobState'[i] = "running" <=> jobState[i] = "running"
    BY DEF Running
  <1>3. PcAgrees'
    BY <1>2 DEF SlotInv, PcAgrees
  <1>4. SlotOwned' /\ SlotFile'
    BY <1>1 DEF SlotInv, SlotOwned, SlotFile
  <1>5. AppFile'
    BY <1>1 DEF SlotInv, AppFile, AppFileOf
  <1> QED
    BY <1>3, <1>4, <1>5 DEF SlotInv

LEMMA DataKeeps ==
    ASSUME StoreInv, NEW j \in Jobs, Data(j), TypeOK'
    PROVE  StoreTypeOK' /\ SlotInv'
  <1>1. app' = [app EXCEPT ![j].count = app[j].count + 1] /\ app[j].count < MaxBytes
    BY DEF Data
  <1>2. app' \in [Jobs -> App]
    <2>1. app[j].count + 1 \in 0..MaxBytes
      BY <1>1, StoreAssumption DEF StoreInv, StoreTypeOK, App
    <2> QED
      BY <1>1, <2>1 DEF StoreInv, StoreTypeOK, App
  <1>3. StoreTypeOK'
    BY <1>2 DEF Data, StoreInv, StoreTypeOK
  <1>4. \A i \in Jobs : /\ app'[i].pc = app[i].pc /\ app'[i].slot = app[i].slot
                        /\ app'[i].id = app[i].id /\ app'[i].fd = app[i].fd
    BY <1>1 DEF StoreInv, StoreTypeOK, App
  <1>5. Running' = Running
    BY DEF Data, queueVars, Running
  <1> QED
    BY <1>3, <1>4, <1>5, Unmoved DEF Data, StoreInv

LEMMA FlushKeeps ==
    ASSUME StoreInv, NEW j \in Jobs, Flush(j), TypeOK'
    PROVE  StoreTypeOK' /\ SlotInv'
  <1>1. /\ app' = [app EXCEPT ![j].flushed = app[j].flushed + 1]
        /\ app[j].flushed < app[j].count
        /\ app[j].count \in 0..MaxBytes /\ app[j].flushed \in 0..MaxBytes
    BY DEF Flush, StoreInv, StoreTypeOK, App
  <1>2. app' \in [Jobs -> App]
    <2>1. app[j].flushed + 1 \in 0..MaxBytes
      BY <1>1, StoreAssumption
    <2> QED
      BY <1>1, <2>1 DEF StoreInv, StoreTypeOK, App
  <1>3. files' \in [Extents -> Seq(Bytes)]
    <2>1. <<j, app[j].flushed + 1>> \in Bytes
      BY <1>1, StoreAssumption DEF Bytes
    <2>2. \A e \in Extents : Append(files[e], <<j, app[j].flushed + 1>>) \in Seq(Bytes)
      BY <2>1 DEF StoreInv, StoreTypeOK
    <2> QED
      BY <2>2 DEF Flush, StoreInv, StoreTypeOK
  <1>4. StoreTypeOK'
    BY <1>2, <1>3 DEF Flush, StoreInv, StoreTypeOK
  <1>5. \A i \in Jobs : /\ app'[i].pc = app[i].pc /\ app'[i].slot = app[i].slot
                        /\ app'[i].id = app[i].id /\ app'[i].fd = app[i].fd
    BY <1>1 DEF StoreInv, StoreTypeOK, App
  <1>6. Running' = Running
    BY DEF Flush, queueVars, Running
  <1> QED
    BY <1>4, <1>5, <1>6, Unmoved DEF Flush, StoreInv

\* An append that is still writing has its descriptor open, so a write to a
\* closed descriptor concerns only one that has given up already.
LEMMA FlushFailsKeeps ==
    ASSUME StoreInv, NEW j \in Jobs, FlushFails(j), TypeOK'
    PROVE  StoreTypeOK' /\ SlotInv'
  <1>1. app[j].pc # "write"
    <2> SUFFICES ASSUME app[j].pc = "write" PROVE FALSE
      OBVIOUS
    <2>1. AppFileOf(j) /\ app[j].id \in Extents
      BY InBody DEF EndPcs
    <2> QED
      BY <2>1, StoreAssumption DEF FlushFails, AppFileOf
  <1>2. app' = [app EXCEPT ![j].flushed = app[j].count, ![j].pc = app[j].pc] /\ slots' = slots
    BY <1>1 DEF FlushFails, StoreInv, StoreTypeOK
  <1>3. app' \in [Jobs -> App]
    BY <1>2 DEF StoreInv, StoreTypeOK, App
  <1>4. StoreTypeOK'
    BY <1>2, <1>3 DEF FlushFails, StoreInv, StoreTypeOK
  <1>5. \A i \in Jobs : /\ app'[i].pc = app[i].pc /\ app'[i].slot = app[i].slot
                        /\ app'[i].id = app[i].id /\ app'[i].fd = app[i].fd
    BY <1>2 DEF StoreInv, StoreTypeOK, App
  <1>6. Running' = Running
    BY DEF FlushFails, queueVars, Running
  <1> QED
    BY <1>2, <1>4, <1>5, <1>6, Unmoved DEF FlushFails, StoreInv

LEMMA DeleteExtentKeeps ==
    ASSUME StoreInv, NEW e \in Extents, DeleteExtent(e), TypeOK'
    PROVE  StoreTypeOK' /\ SlotInv'
  <1>1. StoreTypeOK'
    <2>1. <<>> \in Seq(Bytes)
      OBVIOUS
    <2> QED
      BY <2>1 DEF DeleteExtent, StoreInv, StoreTypeOK
  <1>2. Running' = Running
    BY DEF DeleteExtent, queueVars, Running
  <1> QED
    BY <1>1, <1>2, Unmoved DEF DeleteExtent, StoreInv

LEMMA FinishKeeps ==
    ASSUME StoreInv, NEW j \in Jobs, Finish(j), TypeOK'
    PROVE  StoreTypeOK' /\ SlotInv'
  <1> DEFINE s == app[j].slot
  <1>0. app[j].pc = "write" /\ UNCHANGED queueVars
    BY DEF Finish
  <1>1. /\ j \in Running /\ s \in Slots /\ app[j] \in App /\ slots[s] \in Slot
        /\ slots[s].id = app[j].id /\ slots[s].id \in usedIds /\ slots[s].status = "Appending"
        /\ AppFileOf(j) /\ Running' = Running
    BY <1>0, InBody DEF EndPcs
  <1>2. /\ app' = [app EXCEPT ![j].pc = "update", ![j].offset = slots[s].offset]
        /\ slots' = [slots EXCEPT ![s].offset = @ + app[j].count]
        /\ usedIds' = usedIds
    BY DEF Finish
  <1>3. StoreTypeOK'
    <2>1. slots' \in [Slots -> Slot]
      <3>1. slots[s].offset + app[j].count \in Nat
        BY <1>1 DEF Slot, App
      <3> QED
        BY <1>1, <1>2, <3>1 DEF StoreInv, StoreTypeOK, Slot
    <2>2. app' \in [Jobs -> App]
      BY <1>0, <1>1, <1>2 DEF StoreInv, StoreTypeOK, App, Pcs, Slot
    <2> QED
      BY <1>2, <2>1, <2>2 DEF Finish, StoreInv, StoreTypeOK
  <1>4. fds' = fds
    BY DEF Finish
  <1>5. /\ app'[j].slot = s /\ app'[j].pc = "update" /\ app'[j].id = app[j].id
        /\ app'[j].fd = app[j].fd
        /\ slots'[s].status = "Appending" /\ slots'[s].id = slots[s].id
        /\ slots'[s].fd = slots[s].fd
    BY <1>0, <1>1, <1>2 DEF StoreInv, StoreTypeOK, App, Slot
  <1>6. \A i \in Jobs \ {j} : app'[i] = app[i]
    BY <1>2 DEF StoreInv, StoreTypeOK
  <1>7. \A t \in Slots \ {s} : slots'[t] = slots[t]
    BY <1>2 DEF StoreInv, StoreTypeOK
  <1>8. AppFileOf(j)'
    BY <1>0, <1>1, <1>4, <1>5 DEF AppFileOf
  <1>9. app'[j].pc \notin EndPcs /\ usedIds' = usedIds
    BY <1>2, <1>5 DEF EndPcs
  <1>10. slots'[s].fd # NoFd => fds'[slots'[s].fd] = slots'[s].id
    BY <1>1, <1>4, <1>5 DEF StoreInv, SlotInv, SlotFile
  <1>11. StepOnSlot(j)
    BY <1>1, <1>4, <1>5, <1>6, <1>7, <1>8, <1>9, <1>10 DEF StepOnSlot
  <1> QED
    BY <1>1, <1>3, <1>11, Frame DEF StoreInv

LEMMA AbortKeeps ==
    ASSUME StoreInv, NEW j \in Jobs, Abort(j), TypeOK'
    PROVE  StoreTypeOK' /\ SlotInv'
  <1> DEFINE s == app[j].slot
  <1>0. app[j].pc = "write" /\ UNCHANGED queueVars
    BY DEF Abort
  <1>1. /\ j \in Running /\ s \in Slots /\ app[j] \in App /\ slots[s] \in Slot
        /\ slots[s].id = app[j].id /\ slots[s].id \in usedIds /\ slots[s].status = "Appending"
        /\ AppFileOf(j) /\ Running' = Running
    BY <1>0, InBody DEF EndPcs
  <1>2. /\ app' = [app EXCEPT ![j].pc = "close"]
        /\ slots' = [slots EXCEPT ![s].fd = NoFd]
        /\ usedIds' = usedIds
    BY DEF Abort
  <1>3. StoreTypeOK'
    <2>1. slots' \in [Slots -> Slot]
      BY <1>1, <1>2 DEF StoreInv, StoreTypeOK, Slot, App
    <2>2. app' \in [Jobs -> App]
      BY <1>0, <1>1, <1>2 DEF StoreInv, StoreTypeOK, App, Pcs, Slot
    <2> QED
      BY <1>2, <2>1, <2>2 DEF Abort, StoreInv, StoreTypeOK
  <1>4. fds' = fds
    BY DEF Abort
  <1>5. /\ app'[j].slot = s /\ app'[j].pc = "close" /\ app'[j].id = app[j].id
        /\ app'[j].fd = app[j].fd
        /\ slots'[s].status = "Appending" /\ slots'[s].id = slots[s].id
        /\ slots'[s].fd = NoFd
    BY <1>0, <1>1, <1>2 DEF StoreInv, StoreTypeOK, App, Slot
  <1>6. \A i \in Jobs \ {j} : app'[i] = app[i]
    BY <1>2 DEF StoreInv, StoreTypeOK
  <1>7. \A t \in Slots \ {s} : slots'[t] = slots[t]
    BY <1>2 DEF StoreInv, StoreTypeOK
  <1>8. AppFileOf(j)'
    BY <1>0, <1>1, <1>4, <1>5 DEF AppFileOf
  <1>9. app'[j].pc \notin EndPcs /\ usedIds' = usedIds
    BY <1>2, <1>5 DEF EndPcs
  <1>10. slots'[s].fd # NoFd => fds'[slots'[s].fd] = slots'[s].id
    BY <1>1, <1>4, <1>5 DEF StoreInv, SlotInv, SlotFile
  <1>11. StepOnSlot(j)
    BY <1>1, <1>4, <1>5, <1>6, <1>7, <1>8, <1>9, <1>10 DEF StepOnSlot
  <1> QED
    BY <1>1, <1>3, <1>11, Frame DEF StoreInv

LEMMA UpdateExtentFailsKeeps ==
    ASSUME StoreInv, NEW j \in Jobs, UpdateExtentFails(j), TypeOK'
    PROVE  StoreTypeOK' /\ SlotInv'
  <1> DEFINE s == app[j].slot
  <1>0. app[j].pc = "update" /\ UNCHANGED queueVars
    BY DEF UpdateExtentFails
  <1>1. /\ j \in Running /\ s \in Slots /\ app[j] \in App /\ slots[s] \in Slot
        /\ slots[s].id = app[j].id /\ slots[s].id \in usedIds /\ slots[s].status = "Appending"
        /\ AppFileOf(j) /\ Running' = Running
    BY <1>0, InBody DEF EndPcs
  <1>2. /\ app' = [app EXCEPT ![j].pc = "close"]
        /\ slots' = [slots EXCEPT ![s].fd = NoFd]
        /\ usedIds' = usedIds
    BY DEF UpdateExtentFails
  <1>3. StoreTypeOK'
    <2>1. slots' \in [Slots -> Slot]
      BY <1>1, <1>2 DEF StoreInv, StoreTypeOK, Slot, App
    <2>2. app' \in [Jobs -> App]
      BY <1>0, <1>1, <1>2 DEF StoreInv, StoreTypeOK, App, Pcs, Slot
    <2> QED
      BY <1>2, <2>1, <2>2 DEF UpdateExtentFails, StoreInv, StoreTypeOK
  <1>4. fds' = fds
    BY DEF UpdateExtentFails
  <1>5. /\ app'[j].slot = s /\ app'[j].pc = "close" /\ app'[j].id = app[j].id
        /\ app'[j].fd = app[j].fd
        /\ slots'[s].status = "Appending" /\ slots'[s].id = slots[s].id
        /\ slots'[s].fd = NoFd
    BY <1>0, <1>1, <1>2 DEF StoreInv, StoreTypeOK, App, Slot
  <1>6. \A i \in Jobs \ {j} : app'[i] = app[i]
    BY <1>2 DEF StoreInv, StoreTypeOK
  <1>7. \A t \in Slots \ {s} : slots'[t] = slots[t]
    BY <1>2 DEF StoreInv, StoreTypeOK
  <1>8. AppFileOf(j)'
    BY <1>0, <1>1, <1>4, <1>5 DEF AppFileOf
  <1>9. app'[j].pc \notin EndPcs /\ usedIds' = usedIds
    BY <1>2, <1>5 DEF EndPcs
  <1>10. slots'[s].fd # NoFd => fds'[slots'[s].fd] = slots'[s].id
    BY <1>1, <1>4, <1>5 DEF StoreInv, SlotInv, SlotFile
  <1>11. StepOnSlot(j)
    BY <1>1, <1>4, <1>5, <1>6, <1>7, <1>8, <1>9, <1>10 DEF StepOnSlot
  <1> QED
    BY <1>1, <1>3, <1>11, Frame DEF StoreInv

LEMMA UpdateExtentKeeps ==
    ASSUME StoreInv, NEW j \in Jobs, UpdateExtent(j), TypeOK'
    PROVE  StoreTypeOK' /\ SlotInv'
  <1> DEFINE s == app[j].slot
  <1>0. app[j].pc = "update" /\ Settle(j)
    BY DEF UpdateExtent
  <1>1. /\ j \in Running /\ s \in Slots /\ app[j] \in App /\ slots[s] \in Slot
        /\ slots[s].id = app[j].id /\ slots[s].id \in usedIds /\ slots[s].status = "Appending"
        /\ AppFileOf(j) /\ Running' = Running \ {j}
    BY <1>0, InBody DEF EndPcs
  <1>2. /\ app' = [app EXCEPT ![j].pc = "resolved"]
        /\ slots' = [slots EXCEPT ![s].status = "Idle"]
        /\ usedIds' = usedIds
    BY DEF UpdateExtent
  <1>3. StoreTypeOK'
    <2>1. slots' \in [Slots -> Slot]
      BY <1>1, <1>2 DEF StoreInv, StoreTypeOK, Slot, App
    <2>2. app' \in [Jobs -> App]
      BY <1>0, <1>1, <1>2 DEF StoreInv, StoreTypeOK, App, Pcs, Slot
    <2>3. recorded' \in [Extents -> Nat \cup {NotRecorded}]
      <3>1. app[j].offset + app[j].count \in Nat
        BY <1>1 DEF App
      <3> QED
        BY <3>1 DEF UpdateExtent, StoreInv, StoreTypeOK
    <2> QED
      BY <1>2, <2>1, <2>2, <2>3 DEF UpdateExtent, StoreInv, StoreTypeOK
  <1>4. fds' = fds
    BY DEF UpdateExtent
  <1>5. /\ app'[j].slot = s /\ app'[j].pc = "resolved"
        /\ slots'[s].status = "Idle" /\ slots'[s].id = slots[s].id
        /\ slots'[s].fd = slots[s].fd
    BY <1>0, <1>1, <1>2 DEF StoreInv, StoreTypeOK, App, Slot
  <1>6. \A i \in Jobs \ {j} : app'[i] = app[i]
    BY <1>2 DEF StoreInv, StoreTypeOK
  <1>7. \A t \in Slots \ {s} : slots'[t] = slots[t]
    BY <1>2 DEF StoreInv, StoreTypeOK
  <1>9. app'[j].pc \in EndPcs /\ usedIds' = usedIds
    BY <1>2, <1>5 DEF EndPcs
  <1>10. slots'[s].fd # NoFd => fds'[slots'[s].fd] = slots'[s].id
    BY <1>1, <1>4, <1>5 DEF StoreInv, SlotInv, SlotFile
  <1>11. StepOnSlot(j)
    BY <1>1, <1>4, <1>5, <1>6, <1>7, <1>9, <1>10 DEF StepOnSlot
  <1> QED
    BY <1>1, <1>3, <1>11, Frame DEF StoreInv

LEMMA CleanupCloseKeeps ==
    ASSUME StoreInv, NEW j \in Jobs, CleanupClose(j), TypeOK'
    PROVE  StoreTypeOK' /\ SlotInv'
  <1> DEFINE s == app[j].slot
  <1>0. app[j].pc = "close" /\ UNCHANGED queueVars
    BY DEF CleanupClose
  <1>1. /\ j \in Running /\ s \in Slots /\ app[j] \in App /\ slots[s] \in Slot
        /\ slots[s].id = app[j].id /\ slots[s].id \in usedIds /\ slots[s].status = "Appending"
        /\ AppFileOf(j) /\ Running' = Running
    BY <1>0, InBody DEF EndPcs
  <1>2. /\ app' = [app EXCEPT ![j].pc = "truncate"]
        /\ slots' = slots
        /\ usedIds' = usedIds
    BY DEF CleanupClose
  <1>3. StoreTypeOK'
    <2>1. slots' \in [Slots -> Slot]
      BY <1>1, <1>2 DEF StoreInv, StoreTypeOK, Slot, App
    <2>2. app' \in [Jobs -> App]
      BY <1>0, <1>1, <1>2 DEF StoreInv, StoreTypeOK, App, Pcs, Slot
    <2>3. fds' \in [Fds -> Extents \cup {NoExtent}]
      BY DEF CleanupClose, StoreInv, StoreTypeOK
    <2> QED
      BY <1>2, <2>1, <2>2, <2>3 DEF CleanupClose, StoreInv, StoreTypeOK
  <1>4. \A n \in Fds : fds[n] \notin {NoExtent, app[j].id} => fds'[n] = fds[n]
    BY <1>0, <1>1 DEF CleanupClose, StoreInv, StoreTypeOK, AppFileOf
  <1>5. /\ app'[j].slot = s /\ app'[j].pc = "truncate" /\ app'[j].id = app[j].id
        /\ slots'[s].status = "Appending" /\ slots'[s].id = slots[s].id
        /\ slots'[s].fd = slots[s].fd /\ slots[s].fd = NoFd
    BY <1>0, <1>1, <1>2 DEF StoreInv, StoreTypeOK, App, Slot, AppFileOf
  <1>6. \A i \in Jobs \ {j} : app'[i] = app[i]
    BY <1>2 DEF StoreInv, StoreTypeOK
  <1>7. \A t \in Slots \ {s} : slots'[t] = slots[t]
    BY <1>2 DEF StoreInv, StoreTypeOK
  <1>8. AppFileOf(j)'
    BY <1>0, <1>1, <1>4, <1>5 DEF AppFileOf
  <1>9. app'[j].pc \notin EndPcs /\ usedIds' = usedIds
    BY <1>2, <1>5 DEF EndPcs
  <1>10. slots'[s].fd # NoFd => fds'[slots'[s].fd] = slots'[s].id
    BY <1>1, <1>4, <1>5 DEF StoreInv, SlotInv, SlotFile
  <1>11. StepOnSlot(j)
    BY <1>1, <1>4, <1>5, <1>6, <1>7, <1>8, <1>9, <1>10 DEF StepOnSlot
  <1> QED
    BY <1>1, <1>3, <1>11, Frame DEF StoreInv

LEMMA CleanupTruncateKeeps ==
    ASSUME StoreInv, NEW j \in Jobs, CleanupTruncate(j), TypeOK'
    PROVE  StoreTypeOK' /\ SlotInv'
  <1> DEFINE s == app[j].slot
  <1>0. app[j].pc = "truncate" /\ Settle(j)
    BY DEF CleanupTruncate
  <1>1. /\ j \in Running /\ s \in Slots /\ app[j] \in App /\ slots[s] \in Slot
        /\ slots[s].id = app[j].id /\ slots[s].id \in usedIds /\ slots[s].status = "Appending"
        /\ AppFileOf(j) /\ Running' = Running \ {j}
    BY <1>0, InBody DEF EndPcs
  <1>2. /\ app' = [app EXCEPT ![j].pc = "rejected"]
        /\ slots' = [slots EXCEPT ![s].status = "Idle"]
        /\ usedIds' = usedIds
    BY DEF CleanupTruncate
  <1>3. StoreTypeOK'
    <2>1. slots' \in [Slots -> Slot]
      BY <1>1, <1>2 DEF StoreInv, StoreTypeOK, Slot, App
    <2>2. app' \in [Jobs -> App]
      BY <1>0, <1>1, <1>2 DEF StoreInv, StoreTypeOK, App, Pcs, Slot
    <2>3. files' \in [Extents -> Seq(Bytes)]
      <3>1. ASSUME NEW f \in Seq(Bytes), NEW n \in Nat
            PROVE  Truncated(f, n) \in Seq(Bytes)
        <4>1. Truncated(f, n) \in [1..n -> Bytes]
          BY DEF Truncated, Bytes
        <4> QED
          BY <4>1
      <3>2. slots[s].offset \in Nat
        BY <1>1 DEF Slot
      <3> QED
        BY <3>1, <3>2 DEF CleanupTruncate, StoreInv, StoreTypeOK
    <2> QED
      BY <1>2, <2>1, <2>2, <2>3 DEF CleanupTruncate, StoreInv, StoreTypeOK
  <1>4. fds' = fds
    BY DEF CleanupTruncate
  <1>5. /\ app'[j].slot = s /\ app'[j].pc = "rejected"
        /\ slots'[s].status = "Idle" /\ slots'[s].id = slots[s].id
        /\ slots'[s].fd = slots[s].fd
    BY <1>0, <1>1, <1>2 DEF StoreInv, StoreTypeOK, App, Slot
  <1>6. \A i \in Jobs \ {j} : app'[i] = app[i]
    BY <1>2 DEF StoreInv, StoreTypeOK
  <1>7. \A t \in Slots \ {s} : slots'[t] = slots[t]
    BY <1>2 DEF StoreInv, StoreTypeOK
  <1>9. app'[j].pc \in EndPcs /\ usedIds' = usedIds
    BY <1>2, <1>5 DEF EndPcs
  <1>10. slots'[s].fd # NoFd => fds'[slots'[s].fd] = slots'[s].id
    BY <1>1, <1>4, <1>5 DEF StoreInv, SlotInv, SlotFile
  <1>11. StepOnSlot(j)
    BY <1>1, <1>4, <1>5, <1>6, <1>7, <1>9, <1>10 DEF StepOnSlot
  <1> QED
    BY <1>1, <1>3, <1>11, Frame DEF StoreInv

----------------------------------------------------------------------------
(* Starting an append.                                                     *)

\* The fall-back to slot 0 is safe: when execute() may start a job, fewer
\* appends are under way than there are slots, so if the others are all in
\* use slot 0 is not.
LEMMA SelectedIsIdle ==
    ASSUME StoreInv, runningConcurrency < MaxConcurrency
    PROVE  slots[SelectedSlot].status = "Idle"
  <1>1. CASE IdleSlots # {}
    BY <1>1, SelectedSlotType DEF IdleSlots
  <1>2. CASE IdleSlots = {}
    <2> SUFFICES ASSUME slots[0].status # "Idle" PROVE FALSE
      BY <1>2 DEF SelectedSlot
    <2>1. \A s \in Slots : slots[s].status = "Appending"
      BY <1>2 DEF IdleSlots, StoreInv, StoreTypeOK, Slot
    <2>2. \A s \in Slots : \E j \in Running : app[j].slot = s
      BY <2>1 DEF StoreInv, SlotInv, SlotOwned
    <2> DEFINE f == [j \in Running |-> app[j].slot]
    <2>3. f \in [Running -> Slots]
      BY DEF StoreInv, StoreTypeOK, App, Running
    <2>4. f \in Surjection(Running, Slots)
      BY <2>2, <2>3 DEF Surjection
    <2>5. IsFiniteSet(Running) /\ runningConcurrency = Cardinality(Running)
      BY DEF StoreInv, QueueInv, CounterIsRunning
    <2> HIDE DEF f
    <2>6. Cardinality(Slots) =< Cardinality(Running)
      BY <2>4, <2>5, FS_Surjection
    <2>7. Cardinality(Slots) = MaxConcurrency
      <3>1. 0 \in Int /\ MaxConcurrency - 1 \in Int /\ ~ (0 > MaxConcurrency - 1)
        BY QueueAssumption
      <3>2. Cardinality(0..(MaxConcurrency - 1)) = (MaxConcurrency - 1) - 0 + 1
        BY <3>1, FS_Interval
      <3> QED
        BY <3>2, QueueAssumption DEF Slots
    <2> QED
      BY <2>5, <2>6, <2>7, QueueAssumption DEF StoreInv, StoreTypeOK, TypeOK
  <1> QED
    BY <1>1, <1>2

\* A step of the queue that starts a job h, and one that does not.
Starts(h) ==
    /\ started' = Append(started, h)
    /\ runningConcurrency < MaxConcurrency
    /\ h \notin Running
    /\ jobState[h] \in {"new", "queued"}
    /\ Running' = Running \cup {h}

LEMMA ExecuteStarts ==
    ASSUME TypeOK, NEW ops \in Seq(Jobs), NEW js \in [Jobs -> JobStates],
           {j \in Jobs : js[j] = "running"} = Running,
           \A i \in Jobs : js[i] = "queued" => jobState[i] \in {"new", "queued"},
           \A i \in 1..Len(ops) : js[ops[i]] = "queued",
           Execute(ops, js)
    PROVE  \/ started' = started /\ Running' = Running
           \/ \E h \in Jobs : Starts(h)
  <1>1. CASE runningConcurrency < MaxConcurrency /\ ops # <<>>
    <2>1. /\ jobState' = [js EXCEPT ![Head(ops)] = "running"]
          /\ started' = Append(started, Head(ops))
      BY <1>1 DEF Execute
    <2>2. Head(ops) \in Jobs /\ Head(ops) = ops[1] /\ 1 \in 1..Len(ops)
      BY <1>1
    <2>3. js[Head(ops)] = "queued"
      BY <2>2
    <2>4. Head(ops) \notin Running
      BY <2>3
    <2>5. Running' = Running \cup {Head(ops)}
      BY <2>1, <2>2 DEF Running
    <2> QED
      BY <1>1, <2>1, <2>2, <2>3, <2>4, <2>5 DEF Starts
  <1>2. CASE ~(runningConcurrency < MaxConcurrency /\ ops # <<>>)
    BY <1>2 DEF Execute, Running
  <1> QED
    BY <1>1, <1>2

LEMMA QueueStarts ==
    ASSUME QueueInv, NextTick \/ \E j \in Jobs : Operate(j)
    PROVE  \/ started' = started /\ Running' = Running
           \/ \E h \in Jobs : Starts(h)
  <1>0. TypeOK /\ QueuedOnce
    BY DEF QueueInv
  <1>1. CASE NextTick
    <2>1. {i \in Jobs : jobState[i] = "running"} = Running
      BY DEF Running
    <2> QED
      BY <1>0, <1>1, <2>1, ExecuteStarts DEF NextTick, TypeOK, QueuedOnce
  <1>2. ASSUME NEW j \in Jobs, Operate(j)
        PROVE  \/ started' = started /\ Running' = Running
               \/ \E h \in Jobs : Starts(h)
    <2> DEFINE ops == Append(operations, j)
               js == [jobState EXCEPT ![j] = "queued"]
    <2>1. /\ ops \in Seq(Jobs)
          /\ js \in [Jobs -> JobStates]
          /\ Execute(ops, js)
      BY <1>0, <1>2 DEF TypeOK, JobStates, Operate
    <2>2. {i \in Jobs : js[i] = "running"} = Running
      BY <1>0, <1>2 DEF Operate, Running, TypeOK
    <2>3. \A i \in 1..Len(ops) : js[ops[i]] = "queued"
      BY <1>0 DEF QueuedOnce, TypeOK
    <2>4. \A i \in Jobs : js[i] = "queued" => jobState[i] \in {"new", "queued"}
      BY <1>0, <1>2 DEF Operate, TypeOK
    <2> QED
      BY <1>0, <2>1, <2>2, <2>3, <2>4, ExecuteStarts
  <1> QED
    BY <1>1, <1>2

LEMMA BeginKeeps ==
    ASSUME StoreInv, NEW h \in Jobs, Starts(h), Begin(h), TypeOK',
           UNCHANGED <<fds, files, usedIds, recorded, deleted>>
    PROVE  StoreTypeOK' /\ SlotInv'
  <1> DEFINE s == SelectedSlot
  <1>1. s \in Slots /\ slots[s] \in Slot /\ slots[s].status = "Idle"
    BY SelectedSlotType, SelectedIsIdle DEF Starts, StoreInv, StoreTypeOK
  <1>2. /\ slots' = [slots EXCEPT ![s].status = "Appending"]
        /\ app' = [app EXCEPT ![h].pc = BeginPc(s), ![h].slot = s,
                              ![h].id = slots[s].id, ![h].fd = slots[s].fd]
    BY DEF Begin
  <1>3. /\ BeginPc(s) \in {"rotate", "open", "write"}
        /\ BeginPc(s) = "open" => slots[s].fd = NoFd
        /\ BeginPc(s) = "write" => slots[s].fd # NoFd
    BY DEF BeginPc
  <1> HIDE DEF s
  <1>4. StoreTypeOK'
    <2>1. slots' \in [Slots -> Slot]
      BY <1>1, <1>2 DEF StoreInv, StoreTypeOK, Slot
    <2>2. app' \in [Jobs -> App]
      <3>1. /\ BeginPc(s) \in Pcs
            /\ slots[s].id \in Extents \cup {NoExtent}
            /\ slots[s].fd \in Fds \cup {NoFd}
        BY <1>1, <1>3 DEF Pcs, Slot
      <3> DEFINE b == BeginPc(s)
                 e == slots[s].id
                 n == slots[s].fd
      <3>2. app' = [app EXCEPT ![h].pc = b, ![h].slot = s, ![h].id = e, ![h].fd = n]
        BY <1>2
      <3>3. b \in Pcs /\ s \in Slots /\ e \in Extents \cup {NoExtent} /\ n \in Fds \cup {NoFd}
        BY <1>1, <3>1
      <3>4. app \in [Jobs -> App]
        BY DEF StoreInv, StoreTypeOK
      <3> HIDE DEF b, e, n
      <3>5. /\ app'[h] = [pc |-> b, slot |-> s, id |-> e, fd |-> n, count |-> app[h].count,
                         flushed |-> app[h].flushed, offset |-> app[h].offset]
            /\ \A i \in Jobs \ {h} : app'[i] = app[i]
            /\ DOMAIN app' = Jobs
        BY <3>2, <3>4 DEF App
      <3>6. app'[h] \in App
        BY <3>3, <3>4, <3>5 DEF App
      <3>7. \A i \in Jobs : app'[i] \in App
        BY <3>4, <3>5, <3>6
      <3> QED
        BY <3>2, <3>4, <3>7
    <2> QED
      BY <2>1, <2>2 DEF StoreInv, StoreTypeOK
  <1>5. /\ app'[h].pc = BeginPc(s) /\ app'[h].slot = s
        /\ app'[h].id = slots[s].id /\ app'[h].fd = slots[s].fd
        /\ slots'[s].status = "Appending" /\ slots'[s].id = slots[s].id
        /\ slots'[s].fd = slots[s].fd
    BY <1>1, <1>2 DEF StoreInv, StoreTypeOK, App, Slot
  <1>6. /\ \A i \in Jobs \ {h} : app'[i] = app[i]
        /\ \A t \in Slots \ {s} : slots'[t] = slots[t]
    BY <1>2 DEF StoreInv, StoreTypeOK
  <1>7. \A i \in Running : i \in Jobs /\ i # h /\ app[i].slot \in Slots \ {s}
    BY <1>1 DEF StoreInv, SlotInv, SlotOwned, StoreTypeOK, App, Running, Starts
  <1>8. Running' = Running \cup {h}
    BY DEF Starts
  <1>9. app'[h].pc \notin EndPcs
    BY <1>3, <1>5 DEF EndPcs
  <1>10. PcAgrees'
    <2> SUFFICES ASSUME NEW i \in Jobs PROVE i \in Running' <=> app'[i].pc \notin EndPcs
      BY DEF PcAgrees, Running
    <2>1. i \in Running <=> app[i].pc \notin EndPcs
      BY DEF StoreInv, SlotInv, PcAgrees, Running
    <2> QED
      BY <1>6, <1>8, <1>9, <2>1
  <1>11. SlotOwned'
    <2>1. \A i \in Running' : /\ slots'[app'[i].slot].status = "Appending"
                              /\ slots'[app'[i].slot].id = app'[i].id
      BY <1>5, <1>6, <1>7, <1>8 DEF StoreInv, SlotInv, SlotOwned
    <2>2. \A i, k \in Running' : app'[i].slot = app'[k].slot => i = k
      BY <1>5, <1>6, <1>7, <1>8 DEF StoreInv, SlotInv, SlotOwned
    <2>3. \A t \in Slots : slots'[t].status = "Appending" => \E i \in Running' : app'[i].slot = t
      <3> TAKE t \in Slots
      <3> HAVE slots'[t].status = "Appending"
      <3>1. CASE t = s
        BY <1>5, <1>8, <3>1
      <3>2. CASE t # s
        <4>1. PICK i \in Running : app[i].slot = t
          BY <1>6, <3>2 DEF StoreInv, SlotInv, SlotOwned
        <4> QED
          BY <1>6, <1>7, <1>8, <4>1
      <3> QED
        BY <3>1, <3>2
    <2> QED
      BY <2>1, <2>2, <2>3 DEF SlotOwned
  <1>12. SlotFile'
    <2>1. \A t \in Slots : slots'[t].id = slots[t].id /\ slots'[t].fd = slots[t].fd
      BY <1>5, <1>6
    <2> QED
      BY <2>1 DEF StoreInv, SlotInv, SlotFile
  <1>13. AppFile'
    <2> SUFFICES ASSUME NEW i \in Running' PROVE AppFileOf(i)'
      BY DEF AppFile
    <2>1. CASE i = h
      <3>1. slots[s].fd # NoFd => fds[slots[s].fd] = slots[s].id
        BY <1>1 DEF StoreInv, SlotInv, SlotFile
      <3> QED
        BY <1>3, <1>5, <2>1, <3>1 DEF AppFileOf
    <2>2. CASE i # h
      <3>1. i \in Running /\ app'[i] = app[i] /\ slots'[app[i].slot] = slots[app[i].slot]
        BY <1>6, <1>7, <1>8, <2>2
      <3>2. AppFileOf(i)
        BY <3>1 DEF StoreInv, SlotInv, AppFile
      <3> QED
        BY <3>1, <3>2 DEF AppFileOf
    <2> QED
      BY <2>1, <2>2
  <1> QED
    BY <1>4, <1>10, <1>11, <1>12, <1>13 DEF SlotInv

LEMMA BeginStartedKeeps ==
    ASSUME StoreInv, TypeOK', NextTick \/ \E j \in Jobs : Operate(j), BeginStarted
    PROVE  StoreTypeOK' /\ SlotInv'
  <1>1. CASE started' = started /\ Running' = Running
    <2>1. UNCHANGED storeVars
      BY <1>1 DEF BeginStarted, storeVars
    <2>2. StoreTypeOK'
      BY <2>1 DEF storeVars, StoreInv, StoreTypeOK
    <2>3. SlotInv'
      BY <1>1, <2>1, Unmoved DEF storeVars, StoreInv
    <2> QED
      BY <2>2, <2>3
  <1>2. ASSUME NEW h \in Jobs, Starts(h)
        PROVE  StoreTypeOK' /\ SlotInv'
    <2>1. started' # started /\ started'[Len(started')] = h
      BY <1>2 DEF Starts, StoreInv, StoreTypeOK, TypeOK
    <2>2. Begin(h) /\ UNCHANGED <<fds, files, usedIds, recorded, deleted>>
      BY <2>1 DEF BeginStarted
    <2> QED
      BY <1>2, <2>2, BeginKeeps
  <1> QED
    BY <1>1, <1>2, QueueStarts DEF StoreInv

----------------------------------------------------------------------------
(* The invariant, and what it says.                                        *)

LEMMA StoreInvInit == StoreInit => StoreInv
  <1> SUFFICES ASSUME StoreInit PROVE StoreInv
    OBVIOUS
  <1>1. QueueInv
    BY QueueInvInit DEF StoreInit
  <1>2. Running = {}
    BY DEF StoreInit, Init, Running
  <1>3. PICK ids \in [Slots -> Extents] :
          /\ \A s, t \in Slots : s # t => ids[s] # ids[t]
          /\ slots = [s \in Slots |-> NewSlot(ids[s], "Idle")]
          /\ usedIds = {ids[s] : s \in Slots}
    BY DEF StoreInit
  <1>4. \A s \in Slots : slots[s].id = ids[s] /\ slots[s].status = "Idle" /\ slots[s].fd = NoFd
    BY <1>3 DEF NewSlot
  <1>5. StoreTypeOK
    <2>1. slots \in [Slots -> Slot]
      BY <1>3 DEF NewSlot, Slot
    <2>2. app \in [Jobs -> App]
      <3>1. 0 \in Slots /\ 0 \in 0..MaxBytes
        BY QueueAssumption, StoreAssumption DEF Slots
      <3> QED
        BY <3>1 DEF StoreInit, App, Pcs
    <2>3. files \in [Extents -> Seq(Bytes)]
      BY DEF StoreInit
    <2> QED
      BY <1>1, <1>3, <2>1, <2>2, <2>3 DEF StoreInit, StoreTypeOK, QueueInv
  <1>6. PcAgrees
    BY DEF StoreInit, Init, PcAgrees, EndPcs
  <1>7. SlotOwned
    BY <1>2, <1>4 DEF SlotOwned
  <1>8. SlotFile
    BY <1>3, <1>4 DEF SlotFile
  <1>9. AppFile
    BY <1>2 DEF AppFile
  <1> QED
    BY <1>1, <1>5, <1>6, <1>7, <1>8, <1>9 DEF StoreInv, SlotInv

LEMMA StoreInvNext ==
    ASSUME ~FailOpen, ~FailCleanup, StoreInv, [StoreNext]_vars
    PROVE  StoreInv'
  <1>1. CASE UNCHANGED vars
    <2>1. UNCHANGED queueVars /\ UNCHANGED storeVars
      BY <1>1 DEF vars
    <2>2. QueueInv'
      BY <2>1, QueueInvNext DEF StoreInv
    <2>3. StoreTypeOK'
      BY <2>1, <2>2 DEF QueueInv, storeVars, StoreInv, StoreTypeOK
    <2>4. Running' = Running
      BY <2>1 DEF queueVars, Running
    <2>5. SlotInv'
      BY <2>1, <2>4, Unmoved DEF storeVars, StoreInv
    <2> QED
      BY <2>2, <2>3, <2>5 DEF StoreInv
  <1>2. CASE StoreNext
    <2>1. QueueInv' /\ TypeOK'
      BY <1>2, StoreStepsQueue, QueueInvNext DEF StoreInv, QueueInv
    <2>2. StoreTypeOK' /\ SlotInv'
      <3>1. ASSUME NEW j \in Jobs, AppendExtent(j) PROVE StoreTypeOK' /\ SlotInv'
        BY <2>1, <3>1, BeginStartedKeeps DEF AppendExtent
      <3>2. CASE AppendNextTick
        BY <2>1, <3>2, BeginStartedKeeps DEF AppendNextTick
      <3>3. ASSUME NEW j \in Jobs, CleanupFails(j) PROVE FALSE
        <4>1. app[j].pc = "close" /\ fds[app[j].fd] = NoExtent
          BY <3>3 DEF CleanupFails
        <4>2. AppFileOf(j) /\ app[j].id \in Extents
          BY <4>1, InBody DEF EndPcs
        <4> QED
          BY <4>1, <4>2, StoreAssumption DEF AppFileOf
      <3>4. ASSUME NEW j \in Jobs, OpenFails(j) PROVE FALSE
        BY <3>4 DEF OpenFails
      <3>5. ASSUME NEW j \in Jobs, Step(j) PROVE StoreTypeOK' /\ SlotInv'
        BY <2>1, <3>3, <3>4, <3>5, RotateKeeps, OpenKeeps, DataKeeps, FlushKeeps, FlushFailsKeeps,
           FinishKeeps, AbortKeeps, UpdateExtentKeeps, UpdateExtentFailsKeeps,
           CleanupCloseKeeps, CleanupTruncateKeeps DEF Step
      <3>6. ASSUME NEW e \in Extents, DeleteExtent(e) PROVE StoreTypeOK' /\ SlotInv'
        BY <2>1, <3>6, DeleteExtentKeeps
      <3> QED
        BY <1>2, <3>1, <3>2, <3>5, <3>6 DEF StoreNext
    <2> QED
      BY <2>1, <2>2 DEF StoreInv
  <1> QED
    BY <1>1, <1>2

THEOREM StoreInvariant ==
    ASSUME ~FailOpen, ~FailCleanup
    PROVE  StoreSpec => []StoreInv
  BY StoreInvInit, StoreInvNext, PTL DEF StoreSpec

\* Type correctness of the store, as long as open() and the cleanup succeed.
THEOREM StoreTypeCorrect ==
    ASSUME ~FailOpen, ~FailCleanup
    PROVE  StoreSpec => []StoreTypeOK
  <1>1. StoreInv => StoreTypeOK
    BY DEF StoreInv
  <1> QED
    BY <1>1, StoreInvariant, PTL

\* An extent file never has two writers, whatever the number of slots and of
\* appends and also when payloads break off half-way, as long as open() and
\* the cleanup succeed.
THEOREM OneWriterPerSlot ==
    ASSUME ~FailOpen, ~FailCleanup
    PROVE  StoreSpec => []SlotHasOneWriter
  <1>1. StoreInv => SlotHasOneWriter
    BY DEF StoreInv, SlotInv, SlotOwned, SlotHasOneWriter, Running
  <1> QED
    BY <1>1, StoreInvariant, PTL

----------------------------------------------------------------------------
(***************************************************************************)
(* Proofs that FSExtentStore keeps what it stored: a returned chunk holds  *)
(* the caller's payload, for any number of appends, slots, extents,        *)
(* descriptors and bytes, as long as open() and the cleanup of a failed    *)
(* append succeed and no payload breaks off with bytes still buffered in   *)
(* its write stream.                                                       *)
(***************************************************************************)

\* Bytes 1..n of payload j are in its file from position o on.
Holds(j, o, n) ==
    /\ o + n =< Len(files[app[j].id])
    /\ \A k \in 1..n : files[app[j].id][o + k] = <<j, k>>

\* The file of an append under way, seen from the place where it is suspended.
AppBytes(j) ==
    LET a == app[j]
        len == Len(files[a.id])
        end == slots[a.slot].offset
    IN /\ a.pc \in {"rotate", "open"} => len = end /\ a.flushed = 0 /\ a.count = 0
       /\ a.pc = "write" => len = end + a.flushed /\ Holds(j, end, a.flushed)
       /\ a.pc = "update" => len = end /\ a.offset + a.count = end /\ Holds(j, a.offset, a.count)
       /\ a.pc \in {"close", "truncate"} => len >= end

\* A chunk that was returned: its bytes are there, its end is recorded, and it
\* ends before the place where its extent is written next.
ChunkSafe(j) ==
    LET a == app[j]
    IN /\ a.id \in usedIds
       /\ Holds(j, a.offset, a.count)
       /\ a.offset + a.count =< recorded[a.id]
       /\ \A s \in Slots : slots[s].id = a.id => a.offset + a.count =< slots[s].offset

RunningBytes == \A j \in Running : AppBytes(j)

ChunksSafe == \A j \in Jobs : app[j].pc = "resolved" /\ app[j].id \notin deleted => ChunkSafe(j)

\* Nothing is buffered outside streamPipe(), and nothing before it.
Drained ==
    \A j \in Jobs : /\ app[j].pc # "write" => app[j].flushed = app[j].count
                    /\ app[j].pc = "idle" => app[j].count = 0
                    /\ jobState[j] \in {"new", "queued"} => app[j].pc = "idle"

FreshEmpty == \A e \in Extents \ usedIds : files[e] = <<>>

FileInv == RunningBytes /\ ChunksSafe /\ Drained /\ FreshEmpty /\ OffsetIsFileEnd

----------------------------------------------------------------------------
(* What a step leaves alone.                                               *)

\* The queue makes no job wait again.
LEMMA WaitingShrinks ==
    ASSUME TypeOK, [Next]_queueVars
    PROVE  \A i \in Jobs : jobState'[i] \in {"new", "queued"} => jobState[i] \in {"new", "queued"}
  <1> DEFINE W == {"new", "queued"}
  <1>1. ASSUME NEW ops \in Seq(Jobs), NEW js \in [Jobs -> JobStates], Execute(ops, js)
        PROVE  \A i \in Jobs : jobState'[i] \in W => js[i] \in W
    BY <1>1 DEF Execute
  <1>2. ASSUME NEW j \in Jobs, Operate(j)
        PROVE  \A i \in Jobs : jobState'[i] \in W => jobState[i] \in W
    <2>1. /\ Append(operations, j) \in Seq(Jobs)
          /\ [jobState EXCEPT ![j] = "queued"] \in [Jobs -> JobStates]
          /\ Execute(Append(operations, j), [jobState EXCEPT ![j] = "queued"])
      BY <1>2 DEF Operate, TypeOK, JobStates
    <2>2. \A i \in Jobs : jobState'[i] \in W => [jobState EXCEPT ![j] = "queued"][i] \in W
      BY <1>1, <2>1
    <2> QED
      BY <1>2, <2>2 DEF Operate, TypeOK
  <1>3. ASSUME NEW j \in Jobs, Settle(j)
        PROVE  \A i \in Jobs : jobState'[i] \in W => jobState[i] \in W
    BY <1>3 DEF Settle, TypeOK
  <1>4. CASE NextTick
    BY <1>1, <1>4 DEF NextTick, TypeOK
  <1>5. CASE UNCHANGED queueVars
    BY <1>5 DEF queueVars
  <1> QED
    BY <1>2, <1>3, <1>4, <1>5 DEF Next

\* One append j on its own file: other files, appends and slots are left
\* alone, and so is what lies before the slot's offset in j's file.
FileStep(j) ==
    LET s == app[j].slot
        d == app[j].id
    IN /\ app[j].pc \notin EndPcs
       /\ Running' \subseteq Running
       /\ \A i \in Jobs \ {j} : app'[i] = app[i]
       /\ \A t \in Slots \ {s} : slots'[t] = slots[t]
       /\ \A e \in Extents \ {d} : files'[e] = files[e] /\ recorded'[e] = recorded[e]
       /\ slots[s].offset =< Len(files[d]) =>
             /\ slots[s].offset =< Len(files'[d])
             /\ \A k \in 1..slots[s].offset : files'[d][k] = files[d][k]
       /\ recorded'[d] = recorded[d] \/ recorded'[d] >= slots[s].offset
       /\ \/ slots'[s].id = slots[s].id /\ slots'[s].offset >= slots[s].offset
          \/ slots'[s].id \notin usedIds
       /\ usedIds \subseteq usedIds'
       /\ deleted' = deleted
       /\ j \in Running' => AppBytes(j)'
       /\ app'[j].pc = "resolved" => ChunkSafe(j)'
       /\ app'[j].pc # "write" => app'[j].flushed = app'[j].count
       /\ app'[j].pc # "idle"
       /\ slots'[s].status = "Idle" => Len(files'[slots'[s].id]) = slots'[s].offset

\* The slot of an append is long enough for the file behind it.
LEMMA OffsetInFile ==
    ASSUME StoreInv, FileInv, NEW j \in Jobs, app[j].pc \notin EndPcs
    PROVE  slots[app[j].slot].offset =< Len(files[app[j].id])
  <1>1. j \in Running /\ app[j] \in App /\ slots[app[j].slot] \in Slot /\ app[j].id \in Extents
    BY InBody
  <1>2. AppBytes(j)
    BY <1>1 DEF FileInv, RunningBytes
  <1>3. Len(files[app[j].id]) \in Nat
    BY <1>1 DEF StoreInv, StoreTypeOK
  <1> QED
    BY <1>1, <1>2, <1>3 DEF AppBytes, App, Pcs, EndPcs, Slot

LEMMA FileFrame ==
    ASSUME StoreInv, FileInv, StoreTypeOK', [Next]_queueVars,
           NEW j \in Jobs, FileStep(j)
    PROVE  FileInv'
  <1> DEFINE s == app[j].slot
             d == app[j].id
  <1>0. /\ j \in Running /\ s \in Slots /\ slots[s] \in Slot /\ slots[s].id = d
        /\ d \in usedIds /\ d \in Extents
    BY InBody DEF FileStep
  <1>a. /\ Running' \subseteq Running
        /\ \A i \in Jobs \ {j} : app'[i] = app[i]
        /\ \A t \in Slots \ {s} : slots'[t] = slots[t]
        /\ \A e \in Extents \ {d} : files'[e] = files[e] /\ recorded'[e] = recorded[e]
    BY DEF FileStep
  <1>b. /\ recorded'[d] = recorded[d] \/ recorded'[d] >= slots[s].offset
        /\ \/ slots'[s].id = slots[s].id /\ slots'[s].offset >= slots[s].offset
           \/ slots'[s].id \notin usedIds
        /\ usedIds \subseteq usedIds'
        /\ deleted' = deleted
    BY DEF FileStep
  <1>1. /\ slots[s].offset =< Len(files'[d])
        /\ \A k \in 1..slots[s].offset : files'[d][k] = files[d][k]
    BY OffsetInFile DEF FileStep
  <1>2. \A i \in Running \ {j} : /\ i \in Jobs
                                 /\ app'[i] = app[i]
                                 /\ app[i].slot \in Slots \ {s}
                                 /\ app[i].id \in Extents \ {d}
                                 /\ slots'[app[i].slot] = slots[app[i].slot]
                                 /\ files'[app[i].id] = files[app[i].id]
    <2> TAKE i \in Running \ {j}
    <2>1. i \in Jobs
      BY DEF Running
    <2>2. app[i].slot \in Slots /\ app[i].slot # s
      BY <1>0, <2>1 DEF StoreInv, StoreTypeOK, App, SlotInv, SlotOwned
    <2>3. app[i].id = slots[app[i].slot].id
      BY DEF StoreInv, SlotInv, SlotOwned
    <2>4. app[i].id \in Extents /\ app[i].id # d
      BY <1>0, <2>2, <2>3 DEF StoreInv, StoreTypeOK, Slot, SlotInv, SlotFile
    <2> QED
      BY <1>a, <2>1, <2>2, <2>4
  <1>3. RunningBytes'
    <2> SUFFICES ASSUME NEW i \in Running' PROVE AppBytes(i)'
      BY DEF RunningBytes
    <2>1. CASE i = j
      BY <2>1 DEF FileStep
    <2>2. CASE i # j
      <3>1. AppBytes(i)
        BY <1>a DEF FileInv, RunningBytes
      <3>2. /\ app'[i] = app[i]
            /\ slots'[app[i].slot] = slots[app[i].slot]
            /\ files'[app[i].id] = files[app[i].id]
        BY <1>a, <1>2, <2>2
      <3> QED
        BY <3>1, <3>2 DEF AppBytes, Holds
    <2> QED
      BY <2>1, <2>2
  <1>4. ChunksSafe'
    <2> SUFFICES ASSUME NEW i \in Jobs, app'[i].pc = "resolved", app'[i].id \notin deleted'
                 PROVE  ChunkSafe(i)'
      BY DEF ChunksSafe
    <2>1. CASE i = j
      BY <2>1 DEF FileStep
    <2>2. CASE i # j
      <3> DEFINE a == app[i]
      <3>1. app'[i] = a /\ ChunkSafe(i) /\ a \in App
        BY <1>a, <1>b, <2>2 DEF FileInv, ChunksSafe, StoreInv, StoreTypeOK
      <3>t. /\ a.offset \in Nat /\ a.count \in Nat
            /\ usedIds \subseteq Extents
        BY <3>1, StoreAssumption DEF App, StoreInv, StoreTypeOK
      <3>2. /\ a.id \in usedIds /\ a.id \in Extents
            /\ a.offset + a.count =< Len(files[a.id])
            /\ \A k \in 1..a.count : files[a.id][a.offset + k] = <<i, k>>
            /\ a.offset + a.count =< recorded[a.id]
            /\ \A t \in Slots : slots[t].id = a.id => a.offset + a.count =< slots[t].offset
        BY <3>1, <3>t DEF ChunkSafe, Holds
      <3> HIDE DEF a
      <3>3. /\ slots'[s].offset \in Nat /\ slots[s].offset \in Nat
            /\ recorded[d] \in Int /\ recorded'[d] \in Int
            /\ Len(files'[d]) \in Nat
        BY <1>0 DEF StoreInv, StoreTypeOK, Slot, NotRecorded
      <3>4. \A t \in Slots : slots'[t].id = a.id => a.offset + a.count =< slots'[t].offset
        <4> TAKE t \in Slots
        <4> HAVE slots'[t].id = a.id
        <4>1. CASE t = s
          <5>1. slots'[s].id = slots[s].id /\ slots'[s].offset >= slots[s].offset
            BY <1>b, <3>2, <4>1
          <5>2. a.offset + a.count =< slots[s].offset
            BY <1>0, <3>2, <4>1, <5>1
          <5> QED
            BY <3>t, <3>3, <4>1, <5>1, <5>2
        <4>2. CASE t # s
          BY <1>a, <3>2, <4>2
        <4> QED
          BY <4>1, <4>2
      <3>5. /\ a.offset + a.count =< Len(files'[a.id])
            /\ \A k \in 1..a.count : files'[a.id][a.offset + k] = <<i, k>>
            /\ a.offset + a.count =< recorded'[a.id]
        <4>1. CASE a.id # d
          BY <1>a, <3>2, <4>1
        <4>2. CASE a.id = d
          <5>1. a.offset + a.count =< slots[s].offset
            BY <1>0, <3>2, <4>2
          <5>2. \A k \in 1..a.count : a.offset + k \in 1..slots[s].offset
            BY <3>t, <3>3, <5>1
          <5>3. \A k \in 1..a.count : files'[d][a.offset + k] = files[d][a.offset + k]
            BY <1>1, <5>2
          <5>4. a.offset + a.count =< recorded'[d]
            BY <1>b, <3>t, <3>2, <3>3, <4>2, <5>1
          <5>5. a.offset + a.count =< Len(files'[d])
            BY <1>1, <3>t, <3>3, <5>1
          <5> QED
            BY <3>2, <4>2, <5>3, <5>4, <5>5
        <4> QED
          BY <4>1, <4>2
      <3>6. app'[i] = a /\ a.id \in usedIds'
        BY <1>b, <3>1, <3>2 DEF a
      <3> QED
        BY <3>4, <3>5, <3>6 DEF ChunkSafe, Holds
    <2> QED
      BY <2>1, <2>2
  <1>5. Drained'
    <2>1. \A i \in Jobs : jobState'[i] \in {"new", "queued"} => jobState[i] \in {"new", "queued"}
      BY WaitingShrinks DEF StoreInv, StoreTypeOK
    <2>2. jobState[j] \notin {"new", "queued"}
      BY DEF FileInv, Drained, EndPcs, FileStep
    <2> QED
      BY <1>a, <2>1, <2>2 DEF FileInv, Drained, FileStep
  <1>6. FreshEmpty'
    <2> SUFFICES ASSUME NEW e \in Extents \ usedIds' PROVE files'[e] = <<>>
      BY DEF FreshEmpty
    <2>1. e \notin usedIds /\ e # d
      BY <1>0, <1>b
    <2> QED
      BY <1>a, <2>1 DEF FileInv, FreshEmpty
  <1>7. OffsetIsFileEnd'
    <2> SUFFICES ASSUME NEW t \in Slots, slots'[t].status = "Idle"
                 PROVE  Len(files'[slots'[t].id]) = slots'[t].offset
      BY DEF OffsetIsFileEnd
    <2>1. CASE t = s
      BY <2>1 DEF FileStep
    <2>2. CASE t # s
      <3>1. slots'[t] = slots[t] /\ slots[t].id \in Extents \ {d}
        BY <1>0, <1>a, <2>2 DEF StoreInv, StoreTypeOK, Slot, SlotInv, SlotFile
      <3> QED
        BY <1>a, <3>1 DEF FileInv, OffsetIsFileEnd
    <2> QED
      BY <2>1, <2>2
  <1> QED
    BY <1>3, <1>4, <1>5, <1>6, <1>7 DEF FileInv

----------------------------------------------------------------------------
(* Every step of an append is such a step.                                 *)

\* What is known about an append that is suspended in its body.
LEMMA BodyFacts ==
    ASSUME StoreInv, FileInv, NEW j \in Jobs, app[j].pc \notin EndPcs
    PROVE  /\ app[j] \in App
           /\ app[j].slot \in Slots
           /\ slots[app[j].slot] \in Slot
           /\ slots[app[j].slot].id = app[j].id
           /\ slots[app[j].slot].status = "Appending"
           /\ slots[app[j].slot].offset \in Nat
           /\ app[j].id \in usedIds /\ app[j].id \in Extents
           /\ files[app[j].id] \in Seq(Bytes)
           /\ Len(files[app[j].id]) \in Nat
           /\ app[j].count \in Nat /\ app[j].flushed \in Nat /\ app[j].offset \in Nat
           /\ AppBytes(j) /\ AppFileOf(j)
           /\ Settle(j) => Running' \subseteq Running
           /\ UNCHANGED queueVars => Running' \subseteq Running
           /\ j \notin Running' => app[j].pc # "idle"
  <1>1. /\ j \in Running /\ app[j] \in App /\ app[j].slot \in Slots /\ slots[app[j].slot] \in Slot
        /\ slots[app[j].slot].id = app[j].id /\ slots[app[j].slot].status = "Appending"
        /\ app[j].id \in usedIds /\ app[j].id \in Extents /\ AppFileOf(j)
        /\ Settle(j) => Running' = Running \ {j}
        /\ UNCHANGED queueVars => Running' = Running
    BY InBody
  <1>2. AppBytes(j)
    BY <1>1 DEF FileInv, RunningBytes
  <1>3. files[app[j].id] \in Seq(Bytes)
    BY <1>1 DEF StoreInv, StoreTypeOK
  <1>4. /\ slots[app[j].slot].offset \in Nat
        /\ app[j].count \in Nat /\ app[j].flushed \in Nat /\ app[j].offset \in Nat
    BY <1>1, StoreAssumption DEF Slot, App
  <1>5. Len(files[app[j].id]) \in Nat
    BY <1>3
  <1> QED
    BY <1>1, <1>2, <1>3, <1>4, <1>5 DEF EndPcs

LEMMA RotateFile ==
    ASSUME StoreInv, FileInv, StoreTypeOK', NEW j \in Jobs, Rotate(j)
    PROVE  FileStep(j)
  <1> DEFINE s == app[j].slot
             d == app[j].id
  <1>0. app[j].pc = "rotate" /\ app[j].pc \notin EndPcs
    BY DEF Rotate, EndPcs
  <1>1. /\ s \in Slots /\ slots[s] \in Slot /\ app[j] \in App
        /\ slots[s].id = d /\ slots[s].offset \in Nat /\ d \in usedIds /\ d \in Extents
        /\ files[d] \in Seq(Bytes) /\ Len(files[d]) \in Nat
        /\ app[j].count \in Nat /\ app[j].flushed \in Nat /\ app[j].offset \in Nat
        /\ AppBytes(j)
    BY <1>0, BodyFacts
  <1>2. Running' \subseteq Running
    BY <1>0, BodyFacts DEF Rotate
  <1>3. /\ app \in [Jobs -> App] /\ slots \in [Slots -> Slot]
        /\ files \in [Extents -> Seq(Bytes)]
        /\ recorded \in [Extents -> Nat \cup {NotRecorded}]
    BY DEF StoreInv, StoreTypeOK
  <1>4. /\ \A i \in Jobs \ {j} : app'[i] = app[i]
        /\ \A t \in Slots \ {s} : slots'[t] = slots[t]
        /\ \A e \in Extents \ {d} : files'[e] = files[e] /\ recorded'[e] = recorded[e]
        /\ usedIds \subseteq usedIds' /\ deleted' = deleted
    BY <1>3 DEF Rotate
  <1>5. \E e \in Extents \ usedIds :
          /\ app'[j].pc = "open" /\ app'[j].id = e /\ app'[j].slot = s
          /\ app'[j].count = app[j].count /\ app'[j].flushed = app[j].flushed
          /\ slots'[s].id = e /\ slots'[s].offset = 0 /\ slots'[s].status = "Appending"
    BY <1>0, <1>1, <1>3 DEF Rotate, App, Slot, NewSlot
  <1>6. files' = files /\ recorded' = recorded
    BY DEF Rotate
  <1>7. app[j].count = 0 /\ app[j].flushed = 0
    BY <1>0, <1>1 DEF AppBytes
  <1>8. AppBytes(j)'
    <2>1. Len(files[app'[j].id]) = 0
      BY <1>5 DEF FileInv, FreshEmpty
    <2> QED
      BY <1>5, <1>6, <1>7, <2>1 DEF AppBytes
  <1> QED
    BY <1>0, <1>1, <1>2, <1>4, <1>5, <1>6, <1>7, <1>8 DEF FileStep

LEMMA OpenFile ==
    ASSUME StoreInv, FileInv, StoreTypeOK', NEW j \in Jobs, Open(j)
    PROVE  FileStep(j)
  <1> DEFINE s == app[j].slot
             d == app[j].id
  <1>0. app[j].pc = "open" /\ app[j].pc \notin EndPcs
    BY DEF Open, EndPcs
  <1>1. /\ s \in Slots /\ slots[s] \in Slot /\ app[j] \in App
        /\ slots[s].id = d /\ slots[s].offset \in Nat /\ d \in usedIds /\ d \in Extents
        /\ files[d] \in Seq(Bytes) /\ Len(files[d]) \in Nat
        /\ app[j].count \in Nat /\ app[j].flushed \in Nat /\ app[j].offset \in Nat
        /\ AppBytes(j)
    BY <1>0, BodyFacts
  <1>2. Running' \subseteq Running
    BY <1>0, BodyFacts DEF Open
  <1>3. /\ app \in [Jobs -> App] /\ slots \in [Slots -> Slot]
        /\ files \in [Extents -> Seq(Bytes)]
        /\ recorded \in [Extents -> Nat \cup {NotRecorded}]
    BY DEF StoreInv, StoreTypeOK
  <1>4. /\ \A i \in Jobs \ {j} : app'[i] = app[i]
        /\ \A t \in Slots \ {s} : slots'[t] = slots[t]
        /\ \A e \in Extents \ {d} : files'[e] = files[e] /\ recorded'[e] = recorded[e]
        /\ usedIds \subseteq usedIds' /\ deleted' = deleted
    BY <1>3 DEF Open
  <1>5. /\ app'[j].pc = "write" /\ app'[j].id = d /\ app'[j].slot = s
        /\ app'[j].count = app[j].count /\ app'[j].flushed = app[j].flushed /\ app'[j].offset = app[j].offset
        /\ slots'[s].id = d /\ slots'[s].offset = slots[s].offset /\ slots'[s].status = slots[s].status
    BY <1>0, <1>1, <1>3 DEF Open, App, Slot
  <1>6. files' = files /\ recorded' = recorded
    BY DEF Open
  <1>7. app[j].count = 0 /\ app[j].flushed = 0 /\ Len(files[d]) = slots[s].offset
    BY <1>0, <1>1 DEF AppBytes
  <1>8. AppBytes(j)'
    BY <1>1, <1>5, <1>6, <1>7 DEF AppBytes, Holds
  <1>9. slots[s].status = "Appending"
    BY <1>0, BodyFacts
  <1> QED
    BY <1>0, <1>1, <1>2, <1>4, <1>5, <1>6, <1>7, <1>8, <1>9 DEF FileStep

LEMMA DataFile ==
    ASSUME StoreInv, FileInv, StoreTypeOK', NEW j \in Jobs, Data(j)
    PROVE  FileStep(j)
  <1> DEFINE s == app[j].slot
             d == app[j].id
  <1>0. app[j].pc = "write" /\ app[j].pc \notin EndPcs
    BY DEF Data, EndPcs
  <1>1. /\ s \in Slots /\ slots[s] \in Slot /\ app[j] \in App
        /\ slots[s].id = d /\ slots[s].offset \in Nat /\ d \in usedIds /\ d \in Extents
        /\ files[d] \in Seq(Bytes) /\ Len(files[d]) \in Nat
        /\ app[j].count \in Nat /\ app[j].flushed \in Nat /\ app[j].offset \in Nat
        /\ AppBytes(j)
    BY <1>0, BodyFacts
  <1>2. Running' \subseteq Running
    BY <1>0, BodyFacts DEF Data
  <1>3. /\ app \in [Jobs -> App] /\ slots \in [Slots -> Slot]
        /\ files \in [Extents -> Seq(Bytes)]
        /\ recorded \in [Extents -> Nat \cup {NotRecorded}]
    BY DEF StoreInv, StoreTypeOK
  <1>4. /\ \A i \in Jobs \ {j} : app'[i] = app[i]
        /\ \A t \in Slots \ {s} : slots'[t] = slots[t]
        /\ \A e \in Extents \ {d} : files'[e] = files[e] /\ recorded'[e] = recorded[e]
        /\ usedIds \subseteq usedIds' /\ deleted' = deleted
    BY <1>3 DEF Data
  <1>5. /\ app'[j].pc = "write" /\ app'[j].id = d /\ app'[j].slot = s
        /\ app'[j].flushed = app[j].flushed
        /\ slots' = slots
    BY <1>0, <1>1, <1>3 DEF Data, App, Slot
  <1>6. files' = files /\ recorded' = recorded
    BY DEF Data
  <1>8. AppBytes(j)'
    BY <1>0, <1>1, <1>5, <1>6 DEF AppBytes, Holds
  <1>9. slots[s].status = "Appending"
    BY <1>0, BodyFacts
  <1> QED
    BY <1>0, <1>1, <1>2, <1>4, <1>5, <1>6, <1>8, <1>9 DEF FileStep

LEMMA FlushFile ==
    ASSUME StoreInv, FileInv, StoreTypeOK', NEW j \in Jobs, Flush(j)
    PROVE  FileStep(j)
  <1> DEFINE s == app[j].slot
             d == app[j].id
  <1>a. app[j].flushed \in Nat /\ app[j].count \in Nat /\ app[j].flushed # app[j].count
    BY StoreAssumption DEF Flush, StoreInv, StoreTypeOK, App
  <1>0. app[j].pc = "write" /\ app[j].pc \notin EndPcs
    BY <1>a DEF FileInv, Drained, EndPcs
  <1>1. /\ s \in Slots /\ slots[s] \in Slot /\ app[j] \in App
        /\ slots[s].id = d /\ slots[s].offset \in Nat /\ d \in usedIds /\ d \in Extents
        /\ files[d] \in Seq(Bytes) /\ Len(files[d]) \in Nat
        /\ app[j].count \in Nat /\ app[j].flushed \in Nat /\ app[j].offset \in Nat
        /\ AppBytes(j)
    BY <1>0, BodyFacts
  <1>b. fds[app[j].fd] = d
    BY <1>0, BodyFacts DEF AppFileOf
  <1>2. Running' \subseteq Running
    BY <1>0, BodyFacts DEF Flush
  <1>3. /\ app \in [Jobs -> App] /\ slots \in [Slots -> Slot]
        /\ files \in [Extents -> Seq(Bytes)]
        /\ recorded \in [Extents -> Nat \cup {NotRecorded}]
    BY DEF StoreInv, StoreTypeOK
  <1>4. /\ \A i \in Jobs \ {j} : app'[i] = app[i]
        /\ \A t \in Slots \ {s} : slots'[t] = slots[t]
        /\ \A e \in Extents \ {d} : files'[e] = files[e] /\ recorded'[e] = recorded[e]
        /\ usedIds \subseteq usedIds' /\ deleted' = deleted
    BY <1>b, <1>3 DEF Flush
  <1>5. /\ app'[j].pc = "write" /\ app'[j].id = d /\ app'[j].slot = s
        /\ app'[j].flushed = app[j].flushed + 1
        /\ slots' = slots /\ recorded' = recorded
    BY <1>0, <1>1, <1>3 DEF Flush, App, Slot
  <1>6. files'[d] = Append(files[d], <<j, app[j].flushed + 1>>)
    BY <1>b, <1>1, <1>3 DEF Flush
  <1>7. /\ Len(files'[d]) = Len(files[d]) + 1
        /\ files'[d][Len(files[d]) + 1] = <<j, app[j].flushed + 1>>
        /\ \A k \in 1..Len(files[d]) : files'[d][k] = files[d][k]
    BY <1>1, <1>6
  <1>8. AppBytes(j)'
    <2>1. /\ Len(files[d]) = slots[s].offset + app[j].flushed
          /\ \A k \in 1..app[j].flushed : files[d][slots[s].offset + k] = <<j, k>>
      BY <1>0, <1>1 DEF AppBytes, Holds
    <2>2. /\ Len(files'[d]) = slots[s].offset + (app[j].flushed + 1)
          /\ \A k \in 1..(app[j].flushed + 1) : files'[d][slots[s].offset + k] = <<j, k>>
      <3> DEFINE f == files[d]
                 o == slots[s].offset
                 m == app[j].flushed
      <3>1. /\ f \in Seq(Bytes) /\ o \in Nat /\ m \in Nat /\ Len(f) = o + m
            /\ \A k \in 1..m : f[o + k] = <<j, k>>
        BY <1>1, <2>1
      <3>2. files'[d] = Append(f, <<j, m + 1>>)
        BY <1>6
      <3> HIDE DEF f, o, m
      <3> DEFINE g == Append(f, <<j, m + 1>>)
      <3>3. /\ Len(g) = Len(f) + 1
            /\ g[Len(f) + 1] = <<j, m + 1>>
            /\ \A i \in 1..Len(f) : g[i] = f[i]
        BY <3>1
      <3> HIDE DEF g
      <3>4. Len(g) = o + (m + 1)
        BY <3>1, <3>3
      <3>5. ASSUME NEW k \in 1..(m + 1) PROVE g[o + k] = <<j, k>>
        <4>1. CASE k = m + 1
          <5>1. o + k = Len(f) + 1
            BY <3>1, <4>1
          <5> QED
            BY <3>3, <4>1, <5>1
        <4>2. CASE k # m + 1
          <5>1. k \in 1..m /\ o + k \in 1..Len(f)
            BY <3>1, <4>2
          <5> QED
            BY <3>1, <3>3, <5>1
        <4> QED
          BY <4>1, <4>2
      <3> QED
        BY <3>2, <3>4, <3>5 DEF g, o, m
    <2>3. /\ app'[j].flushed = app[j].flushed + 1
          /\ slots'[s].offset = slots[s].offset
          /\ app'[j].id = d /\ app'[j].slot = s /\ app'[j].pc = "write"
      BY <1>5
    <2>4. slots[s].offset + (app[j].flushed + 1) =< Len(files'[d])
      BY <1>1, <2>2
    <2> QED
      BY <2>2, <2>3, <2>4 DEF AppBytes, Holds
  <1>9. slots[s].status = "Appending"
    BY <1>0, BodyFacts
  <1>10. slots[s].offset =< Len(files[d]) =>
             /\ slots[s].offset =< Len(files'[d])
             /\ \A k \in 1..slots[s].offset : files'[d][k] = files[d][k]
    BY <1>1, <1>7
  <1> QED
    BY <1>0, <1>1, <1>2, <1>4, <1>5, <1>8, <1>9, <1>10 DEF FileStep

LEMMA FinishFile ==
    ASSUME StoreInv, FileInv, StoreTypeOK', NEW j \in Jobs, Finish(j)
    PROVE  FileStep(j)
  <1> DEFINE s == app[j].slot
             d == app[j].id
  <1>0. app[j].pc = "write" /\ app[j].pc \notin EndPcs
    BY DEF Finish, EndPcs
  <1>1. /\ s \in Slots /\ slots[s] \in Slot /\ app[j] \in App
        /\ slots[s].id = d /\ slots[s].offset \in Nat /\ d \in usedIds /\ d \in Extents
        /\ files[d] \in Seq(Bytes) /\ Len(files[d]) \in Nat
        /\ app[j].count \in Nat /\ app[j].flushed \in Nat /\ app[j].offset \in Nat
        /\ AppBytes(j)
    BY <1>0, BodyFacts
  <1>2. Running' \subseteq Running
    BY <1>0, BodyFacts DEF Finish
  <1>3. /\ app \in [Jobs -> App] /\ slots \in [Slots -> Slot]
        /\ files \in [Extents -> Seq(Bytes)]
        /\ recorded \in [Extents -> Nat \cup {NotRecorded}]
    BY DEF StoreInv, StoreTypeOK
  <1>4. /\ \A i \in Jobs \ {j} : app'[i] = app[i]
        /\ \A t \in Slots \ {s} : slots'[t] = slots[t]
        /\ \A e \in Extents \ {d} : files'[e] = files[e] /\ recorded'[e] = recorded[e]
        /\ usedIds \subseteq usedIds' /\ deleted' = deleted
    BY <1>3 DEF Finish
  <1>5. /\ app'[j].pc = "update" /\ app'[j].id = d /\ app'[j].slot = s
        /\ app'[j].count = app[j].count /\ app'[j].flushed = app[j].flushed
        /\ app'[j].offset = slots[s].offset
        /\ slots'[s].id = d /\ slots'[s].offset = slots[s].offset + app[j].count
        /\ slots'[s].status = slots[s].status /\ app[j].flushed = app[j].count
    BY <1>0, <1>1, <1>3 DEF Finish, App, Slot
  <1>6. files' = files /\ recorded' = recorded
    BY DEF Finish
  <1>7. Len(files[d]) = slots[s].offset + app[j].count /\ Holds(j, slots[s].offset, app[j].count)
    BY <1>0, <1>1, <1>5 DEF AppBytes
  <1>8. AppBytes(j)'
    BY <1>1, <1>5, <1>6, <1>7 DEF AppBytes, Holds
  <1>9. slots[s].status = "Appending" /\ slots'[s].offset >= slots[s].offset
    BY <1>0, <1>1, <1>5, BodyFacts
  <1> QED
    BY <1>0, <1>1, <1>2, <1>4, <1>5, <1>6, <1>8, <1>9 DEF FileStep

LEMMA AbortFile ==
    ASSUME StoreInv, FileInv, StoreTypeOK', NEW j \in Jobs, Abort(j), ~BufferedAbort
    PROVE  FileStep(j)
  <1> DEFINE s == app[j].slot
             d == app[j].id
  <1>0. app[j].pc = "write" /\ app[j].pc \notin EndPcs
    BY DEF Abort, EndPcs
  <1>1. /\ s \in Slots /\ slots[s] \in Slot /\ app[j] \in App
        /\ slots[s].id = d /\ slots[s].offset \in Nat /\ d \in usedIds /\ d \in Extents
        /\ files[d] \in Seq(Bytes) /\ Len(files[d]) \in Nat
        /\ app[j].count \in Nat /\ app[j].flushed \in Nat /\ app[j].offset \in Nat
        /\ AppBytes(j)
    BY <1>0, BodyFacts
  <1>2. Running' \subseteq Running
    BY <1>0, BodyFacts DEF Abort
  <1>3. /\ app \in [Jobs -> App] /\ slots \in [Slots -> Slot]
        /\ files \in [Extents -> Seq(Bytes)]
        /\ recorded \in [Extents -> Nat \cup {NotRecorded}]
    BY DEF StoreInv, StoreTypeOK
  <1>4. /\ \A i \in Jobs \ {j} : app'[i] = app[i]
        /\ \A t \in Slots \ {s} : slots'[t] = slots[t]
        /\ \A e \in Extents \ {d} : files'[e] = files[e] /\ recorded'[e] = recorded[e]
        /\ usedIds \subseteq usedIds' /\ deleted' = deleted
    BY <1>3 DEF Abort
  <1>5. /\ app'[j].pc = "close" /\ app'[j].id = d /\ app'[j].slot = s
        /\ app'[j].count = app[j].count /\ app'[j].flushed = app[j].flushed /\ app'[j].offset = app[j].offset
        /\ slots'[s].id = d /\ slots'[s].offset = slots[s].offset /\ slots'[s].status = slots[s].status
    BY <1>0, <1>1, <1>3 DEF Abort, App, Slot
  <1>6. files' = files /\ recorded' = recorded
    BY DEF Abort
  <1>7. app[j].flushed = app[j].count
    BY DEF Abort
  <1>8. AppBytes(j)'
    BY <1>0, <1>1, <1>5, <1>6 DEF AppBytes
  <1>9. slots[s].status = "Appending"
    BY <1>0, BodyFacts
  <1> QED
    BY <1>0, <1>1, <1>2, <1>4, <1>5, <1>6, <1>7, <1>8, <1>9 DEF FileStep

LEMMA UpdateExtentFailsFile ==
    ASSUME StoreInv, FileInv, StoreTypeOK', NEW j \in Jobs, UpdateExtentFails(j)
    PROVE  FileStep(j)
  <1> DEFINE s == app[j].slot
             d == app[j].id
  <1>0. app[j].pc = "update" /\ app[j].pc \notin EndPcs
    BY DEF UpdateExtentFails, EndPcs
  <1>1. /\ s \in Slots /\ slots[s] \in Slot /\ app[j] \in App
        /\ slots[s].id = d /\ slots[s].offset \in Nat /\ d \in usedIds /\ d \in Extents
        /\ files[d] \in Seq(Bytes) /\ Len(files[d]) \in Nat
        /\ app[j].count \in Nat /\ app[j].flushed \in Nat /\ app[j].offset \in Nat
        /\ AppBytes(j)
    BY <1>0, BodyFacts
  <1>2. Running' \subseteq Running
    BY <1>0, BodyFacts DEF UpdateExtentFails
  <1>3. /\ app \in [Jobs -> App] /\ slots \in [Slots -> Slot]
        /\ files \in [Extents -> Seq(Bytes)]
        /\ recorded \in [Extents -> Nat \cup {NotRecorded}]
    BY DEF StoreInv, StoreTypeOK
  <1>4. /\ \A i \in Jobs \ {j} : app'[i] = app[i]
        /\ \A t \in Slots \ {s} : slots'[t] = slots[t]
        /\ \A e \in Extents \ {d} : files'[e] = files[e] /\ recorded'[e] = recorded[e]
        /\ usedIds \subseteq usedIds' /\ deleted' = deleted
    BY <1>3 DEF UpdateExtentFails
  <1>5. /\ app'[j].pc = "close" /\ app'[j].id = d /\ app'[j].slot = s
        /\ app'[j].count = app[j].count /\ app'[j].flushed = app[j].flushed /\ app'[j].offset = app[j].offset
        /\ slots'[s].id = d /\ slots'[s].offset = slots[s].offset /\ slots'[s].status = slots[s].status
    BY <1>0, <1>1, <1>3 DEF UpdateExtentFails, App, Slot
  <1>6. files' = files /\ recorded' = recorded
    BY DEF UpdateExtentFails
  <1>7. app[j].flushed = app[j].count
    BY <1>0 DEF FileInv, Drained
  <1>8. AppBytes(j)'
    BY <1>0, <1>1, <1>5, <1>6 DEF AppBytes
  <1>9. slots[s].status = "Appending"
    BY <1>0, BodyFacts
  <1> QED
    BY <1>0, <1>1, <1>2, <1>4, <1>5, <1>6, <1>7, <1>8, <1>9 DEF FileStep

LEMMA CleanupCloseFile ==
    ASSUME StoreInv, FileInv, StoreTypeOK', NEW j \in Jobs, CleanupClose(j)
    PROVE  FileStep(j)
  <1> DEFINE s == app[j].slot
             d == app[j].id
  <1>0. app[j].pc = "close" /\ app[j].pc \notin EndPcs
    BY DEF CleanupClose, EndPcs
  <1>1. /\ s \in Slots /\ slots[s] \in Slot /\ app[j] \in App
        /\ slots[s].id = d /\ slots[s].offset \in Nat /\ d \in usedIds /\ d \in Extents
        /\ files[d] \in Seq(Bytes) /\ Len(files[d]) \in Nat
        /\ app[j].count \in Nat /\ app[j].flushed \in Nat /\ app[j].offset \in Nat
        /\ AppBytes(j)
    BY <1>0, BodyFacts
  <1>2. Running' \subseteq Running
    BY <1>0, BodyFacts DEF CleanupClose
  <1>3. /\ app \in [Jobs -> App] /\ slots \in [Slots -> Slot]
        /\ files \in [Extents -> Seq(Bytes)]
        /\ recorded \in [Extents -> Nat \cup {NotRecorded}]
    BY DEF StoreInv, StoreTypeOK
  <1>4. /\ \A i \in Jobs \ {j} : app'[i] = app[i]
        /\ \A t \in Slots \ {s} : slots'[t] = slots[t]
        /\ \A e \in Extents \ {d} : files'[e] = files[e] /\ recorded'[e] = recorded[e]
        /\ usedIds \subseteq usedIds' /\ deleted' = deleted
    BY <1>3 DEF CleanupClose
  <1>5. /\ app'[j].pc = "truncate" /\ app'[j].id = d /\ app'[j].slot = s
        /\ app'[j].count = app[j].count /\ app'[j].flushed = app[j].flushed /\ app'[j].offset = app[j].offset
        /\ slots'[s].id = d /\ slots'[s].offset = slots[s].offset /\ slots'[s].status = slots[s].status
    BY <1>0, <1>1, <1>3 DEF CleanupClose, App, Slot
  <1>6. files' = files /\ recorded' = recorded
    BY DEF CleanupClose
  <1>7. app[j].flushed = app[j].count
    BY <1>0 DEF FileInv, Drained
  <1>8. AppBytes(j)'
    BY <1>0, <1>1, <1>5, <1>6 DEF AppBytes
  <1>9. slots[s].status = "Appending"
    BY <1>0, BodyFacts
  <1> QED
    BY <1>0, <1>1, <1>2, <1>4, <1>5, <1>6, <1>7, <1>8, <1>9 DEF FileStep

LEMMA UpdateExtentFile ==
    ASSUME StoreInv, FileInv, StoreTypeOK', NEW j \in Jobs, UpdateExtent(j)
    PROVE  FileStep(j)
  <1> DEFINE s == app[j].slot
             d == app[j].id
  <1>0. app[j].pc = "update" /\ app[j].pc \notin EndPcs
    BY DEF UpdateExtent, EndPcs
  <1>1. /\ s \in Slots /\ slots[s] \in Slot /\ app[j] \in App
        /\ slots[s].id = d /\ slots[s].offset \in Nat /\ d \in usedIds /\ d \in Extents
        /\ files[d] \in Seq(Bytes) /\ Len(files[d]) \in Nat
        /\ app[j].count \in Nat /\ app[j].flushed \in Nat /\ app[j].offset \in Nat
        /\ AppBytes(j)
    BY <1>0, BodyFacts
  <1>2. Running' \subseteq Running
    BY <1>0, BodyFacts DEF UpdateExtent
  <1>3. /\ app \in [Jobs -> App] /\ slots \in [Slots -> Slot]
        /\ files \in [Extents -> Seq(Bytes)]
        /\ recorded \in [Extents -> Nat \cup {NotRecorded}]
    BY DEF StoreInv, StoreTypeOK
  <1>4. /\ \A i \in Jobs \ {j} : app'[i] = app[i]
        /\ \A t \in Slots \ {s} : slots'[t] = slots[t]
        /\ \A e \in Extents \ {d} : files'[e] = files[e] /\ recorded'[e] = recorded[e]
        /\ usedIds \subseteq usedIds' /\ deleted' = deleted
    BY <1>3 DEF UpdateExtent
  <1>5. /\ app'[j].pc = "resolved" /\ app'[j].id = d /\ app'[j].slot = s
        /\ app'[j].count = app[j].count /\ app'[j].flushed = app[j].flushed /\ app'[j].offset = app[j].offset
        /\ slots'[s].id = d /\ slots'[s].offset = slots[s].offset /\ slots'[s].status = "Idle"
        /\ recorded'[d] = app[j].offset + app[j].count
    BY <1>0, <1>1, <1>3 DEF UpdateExtent, App, Slot
  <1>6. files' = files /\ usedIds' = usedIds
    BY DEF UpdateExtent
  <1>7. app[j].flushed = app[j].count
    BY <1>0 DEF FileInv, Drained
  <1>8. /\ Len(files[d]) = slots[s].offset
        /\ app[j].offset + app[j].count = slots[s].offset
        /\ Holds(j, app[j].offset, app[j].count)
    BY <1>0, <1>1 DEF AppBytes
  <1>9. ChunkSafe(j)'
    <2>1. Holds(j, app[j].offset, app[j].count)'
      BY <1>5, <1>6, <1>8 DEF Holds
    <2>2. \A t \in Slots : slots'[t].id = d => t = s
      BY <1>1, <1>4, <1>5 DEF StoreInv, SlotInv, SlotFile
    <2> QED
      BY <1>1, <1>5, <1>6, <1>8, <2>1, <2>2 DEF ChunkSafe
  <1>10. j \notin Running'
    BY DEF UpdateExtent, Settle, Running, StoreInv, StoreTypeOK, TypeOK
  <1> QED
    BY <1>0, <1>1, <1>2, <1>4, <1>5, <1>6, <1>7, <1>8, <1>9, <1>10 DEF FileStep

LEMMA CleanupTruncateFile ==
    ASSUME StoreInv, FileInv, StoreTypeOK', NEW j \in Jobs, CleanupTruncate(j)
    PROVE  FileStep(j)
  <1> DEFINE s == app[j].slot
             d == app[j].id
  <1>0. app[j].pc = "truncate" /\ app[j].pc \notin EndPcs
    BY DEF CleanupTruncate, EndPcs
  <1>1. /\ s \in Slots /\ slots[s] \in Slot /\ app[j] \in App
        /\ slots[s].id = d /\ slots[s].offset \in Nat /\ d \in usedIds /\ d \in Extents
        /\ files[d] \in Seq(Bytes) /\ Len(files[d]) \in Nat
        /\ app[j].count \in Nat /\ app[j].flushed \in Nat /\ app[j].offset \in Nat
        /\ AppBytes(j)
    BY <1>0, BodyFacts
  <1>2. Running' \subseteq Running
    BY <1>0, BodyFacts DEF CleanupTruncate
  <1>3. /\ app \in [Jobs -> App] /\ slots \in [Slots -> Slot]
        /\ files \in [Extents -> Seq(Bytes)]
        /\ recorded \in [Extents -> Nat \cup {NotRecorded}]
    BY DEF StoreInv, StoreTypeOK
  <1>4. /\ \A i \in Jobs \ {j} : app'[i] = app[i]
        /\ \A t \in Slots \ {s} : slots'[t] = slots[t]
        /\ \A e \in Extents \ {d} : files'[e] = files[e] /\ recorded'[e] = recorded[e]
        /\ usedIds \subseteq usedIds' /\ deleted' = deleted
    BY <1>3 DEF CleanupTruncate
  <1>5. /\ app'[j].pc = "rejected" /\ app'[j].id = d /\ app'[j].slot = s
        /\ app'[j].count = app[j].count /\ app'[j].flushed = app[j].flushed /\ app'[j].offset = app[j].offset
        /\ slots'[s].id = d /\ slots'[s].offset = slots[s].offset /\ slots'[s].status = "Idle"
    BY <1>0, <1>1, <1>3 DEF CleanupTruncate, App, Slot
  <1>6. recorded' = recorded /\ files'[d] = Truncated(files[d], slots[s].offset)
    BY <1>1, <1>3 DEF CleanupTruncate
  <1>7. app[j].flushed = app[j].count
    BY <1>0 DEF FileInv, Drained
  <1>8. Len(files'[d]) = slots[s].offset
    BY <1>1, <1>6 DEF Truncated
  <1>9. slots[s].offset =< Len(files[d]) =>
             \A k \in 1..slots[s].offset : files'[d][k] = files[d][k]
    BY <1>1, <1>6 DEF Truncated
  <1>10. j \notin Running'
    BY DEF CleanupTruncate, Settle, Running, StoreInv, StoreTypeOK, TypeOK
  <1> QED
    BY <1>0, <1>1, <1>2, <1>4, <1>5, <1>6, <1>7, <1>8, <1>9, <1>10 DEF FileStep

----------------------------------------------------------------------------
(* Starting an append, and deleting an extent.                             *)

LEMMA BeginFile ==
    ASSUME StoreInv, FileInv, StoreInv', [Next]_queueVars,
           NEW h \in Jobs, Starts(h), Begin(h),
           UNCHANGED <<fds, files, usedIds, recorded, deleted>>
    PROVE  FileInv'
  <1> DEFINE s == SelectedSlot
  <1>1. s \in Slots /\ slots[s] \in Slot /\ slots[s].status = "Idle"
    BY SelectedSlotType, SelectedIsIdle DEF Starts, StoreInv, StoreTypeOK
  <1>2. /\ app \in [Jobs -> App] /\ slots \in [Slots -> Slot]
        /\ files \in [Extents -> Seq(Bytes)]
    BY DEF StoreInv, StoreTypeOK
  <1>3. app[h].pc = "idle" /\ app[h].count = 0 /\ app[h].flushed = 0
    BY DEF FileInv, Drained, Starts
  <1> HIDE DEF s
  <1>4. /\ app'[h].pc = BeginPc(s) /\ app'[h].slot = s /\ app'[h].id = slots[s].id
        /\ app'[h].count = app[h].count /\ app'[h].flushed = app[h].flushed
        /\ slots'[s].status = "Appending" /\ slots'[s].id = slots[s].id
        /\ slots'[s].offset = slots[s].offset
    BY <1>1, <1>2 DEF Begin, App, Slot, s
  <1>5. /\ \A i \in Jobs \ {h} : app'[i] = app[i]
        /\ \A t \in Slots \ {s} : slots'[t] = slots[t]
    BY <1>2 DEF Begin, s
  <1>6. \A t \in Slots : slots'[t].id = slots[t].id /\ slots'[t].offset = slots[t].offset
    BY <1>4, <1>5
  <1>7. BeginPc(s) \in {"rotate", "open", "write"}
    BY DEF BeginPc
  <1>8. RunningBytes'
    <2> SUFFICES ASSUME NEW i \in Running' PROVE AppBytes(i)'
      BY DEF RunningBytes
    <2>1. CASE i = h
      <3>1. Len(files[slots[s].id]) = slots[s].offset /\ slots[s].offset \in Nat
        BY <1>1 DEF FileInv, OffsetIsFileEnd, Slot
      <3> QED
        BY <1>3, <1>4, <1>7, <2>1, <3>1 DEF AppBytes, Holds
    <2>2. CASE i # h
      <3>1. i \in Running /\ i \in Jobs /\ app'[i] = app[i] /\ app[i].slot \in Slots
        BY <1>2, <1>5, <2>2 DEF Starts, Running, App
      <3>2. AppBytes(i)
        BY <3>1 DEF FileInv, RunningBytes
      <3> QED
        BY <1>6, <3>1, <3>2 DEF AppBytes, Holds
    <2> QED
      BY <2>1, <2>2
  <1>9. ChunksSafe'
    <2> SUFFICES ASSUME NEW i \in Jobs, app'[i].pc = "resolved", app'[i].id \notin deleted'
                 PROVE  ChunkSafe(i)'
      BY DEF ChunksSafe
    <2>1. i # h
      BY <1>4, <1>7
    <2>2. app'[i] = app[i] /\ ChunkSafe(i)
      BY <1>5, <2>1 DEF FileInv, ChunksSafe
    <2> QED
      BY <1>6, <2>2 DEF ChunkSafe, Holds
  <1>10. Drained'
    <2>1. \A i \in Jobs : jobState'[i] \in {"new", "queued"} => jobState[i] \in {"new", "queued"}
      BY WaitingShrinks DEF StoreInv, StoreTypeOK
    <2>2. jobState'[h] \notin {"new", "queued"}
      BY DEF Starts, Running
    <2> QED
      BY <1>3, <1>4, <1>5, <1>7, <2>1, <2>2 DEF FileInv, Drained
  <1>11. FreshEmpty'
    BY DEF FileInv, FreshEmpty
  <1>12. OffsetIsFileEnd'
    <2> SUFFICES ASSUME NEW t \in Slots, slots'[t].status = "Idle"
                 PROVE  Len(files'[slots'[t].id]) = slots'[t].offset
      BY DEF OffsetIsFileEnd
    <2>1. t # s
      BY <1>4
    <2> QED
      BY <1>5, <2>1 DEF FileInv, OffsetIsFileEnd
  <1> QED
    BY <1>8, <1>9, <1>10, <1>11, <1>12 DEF FileInv

LEMMA SameFile ==
    ASSUME StoreInv, FileInv, [Next]_queueVars, Running' = Running, UNCHANGED storeVars
    PROVE  FileInv'
  <1>1. \A i \in Jobs : jobState'[i] \in {"new", "queued"} => jobState[i] \in {"new", "queued"}
    BY WaitingShrinks DEF StoreInv, StoreTypeOK
  <1>2. Drained'
    BY <1>1 DEF FileInv, Drained, storeVars
  <1>3. RunningBytes' /\ ChunksSafe' /\ FreshEmpty' /\ OffsetIsFileEnd'
    BY DEF FileInv, RunningBytes, AppBytes, ChunksSafe, ChunkSafe, Holds, FreshEmpty,
           OffsetIsFileEnd, storeVars
  <1> QED
    BY <1>2, <1>3 DEF FileInv

LEMMA BeginStartedFile ==
    ASSUME StoreInv, FileInv, StoreInv', [Next]_queueVars,
           NextTick \/ \E j \in Jobs : Operate(j), BeginStarted
    PROVE  FileInv'
  <1>1. CASE started' = started /\ Running' = Running
    BY <1>1, SameFile DEF BeginStarted, storeVars
  <1>2. ASSUME NEW h \in Jobs, Starts(h) PROVE FileInv'
    <2>1. started' # started /\ started'[Len(started')] = h
      BY <1>2 DEF Starts, StoreInv, StoreTypeOK, TypeOK
    <2>2. Begin(h) /\ UNCHANGED <<fds, files, usedIds, recorded, deleted>>
      BY <2>1 DEF BeginStarted
    <2> QED
      BY <1>2, <2>2, BeginFile
  <1> QED
    BY <1>1, <1>2, QueueStarts DEF StoreInv

\* deleteExtents() touches no extent that is written to.
LEMMA DeleteExtentFile ==
    ASSUME StoreInv, FileInv, NEW e \in Extents, DeleteExtent(e)
    PROVE  FileInv'
  <1>1. /\ files' = [files EXCEPT ![e] = <<>>] /\ recorded' = [recorded EXCEPT ![e] = NotRecorded]
        /\ deleted' = deleted \cup {e}
        /\ slots' = slots /\ app' = app /\ usedIds' = usedIds /\ jobState' = jobState
    BY DEF DeleteExtent, queueVars
  <1>2. \A s \in Slots : slots[s].id # e /\ slots[s].id \in Extents
    BY DEF DeleteExtent, ActiveIds, StoreInv, StoreTypeOK, Slot
  <1>3. \A d \in Extents \ {e} : files'[d] = files[d] /\ recorded'[d] = recorded[d]
    BY <1>1 DEF StoreInv, StoreTypeOK
  <1>4. Running' = Running
    BY <1>1 DEF Running
  <1>5. RunningBytes'
    <2> SUFFICES ASSUME NEW j \in Running PROVE AppBytes(j)'
      BY <1>4 DEF RunningBytes
    <2>1. j \in Jobs /\ app[j].slot \in Slots /\ app[j].id = slots[app[j].slot].id
      BY DEF Running, StoreInv, StoreTypeOK, App, SlotInv, SlotOwned
    <2>2. files'[app[j].id] = files[app[j].id]
      BY <1>2, <1>3, <2>1
    <2>3. AppBytes(j)
      BY DEF FileInv, RunningBytes
    <2> QED
      BY <1>1, <2>2, <2>3 DEF AppBytes, Holds
  <1>6. ChunksSafe'
    <2> SUFFICES ASSUME NEW j \in Jobs, app[j].pc = "resolved", app[j].id \notin deleted \cup {e}
                 PROVE  ChunkSafe(j)'
      BY <1>1 DEF ChunksSafe
    <2>1. ChunkSafe(j)
      BY DEF FileInv, ChunksSafe
    <2>2. app[j].id \in Extents \ {e}
      BY <2>1 DEF ChunkSafe, StoreInv, StoreTypeOK
    <2> QED
      BY <1>1, <1>3, <2>1, <2>2 DEF ChunkSafe, Holds
  <1>7. Drained'
    BY <1>1 DEF FileInv, Drained
  <1>8. FreshEmpty'
    BY <1>1 DEF FileInv, FreshEmpty, StoreInv, StoreTypeOK
  <1>9. OffsetIsFileEnd'
    BY <1>1, <1>2, <1>3 DEF FileInv, OffsetIsFileEnd
  <1> QED
    BY <1>5, <1>6, <1>7, <1>8, <1>9 DEF FileInv

----------------------------------------------------------------------------
(* The invariant, and what it says.                                        *)

LEMMA FileInvInit == StoreInit => FileInv
  <1> SUFFICES ASSUME StoreInit PROVE FileInv
    OBVIOUS
  <1>1. Running = {}
    BY DEF StoreInit, Init, Running
  <1>2. \A s \in Slots : slots[s].id \in Extents /\ slots[s].offset = 0
    BY DEF StoreInit, NewSlot
  <1>3. RunningBytes /\ ChunksSafe /\ Drained /\ FreshEmpty
    BY <1>1 DEF StoreInit, RunningBytes, ChunksSafe, Drained, FreshEmpty
  <1>4. OffsetIsFileEnd
    BY <1>2 DEF StoreInit, OffsetIsFileEnd
  <1> QED
    BY <1>3, <1>4 DEF FileInv

LEMMA FileInvNext ==
    ASSUME ~FailOpen, ~FailCleanup, ~BufferedAbort,
           StoreInv, FileInv, StoreInv', [StoreNext]_vars
    PROVE  FileInv'
  <1>0. StoreTypeOK'
    BY DEF StoreInv
  <1>1. CASE UNCHANGED vars
    <2>1. UNCHANGED queueVars /\ UNCHANGED storeVars /\ Running' = Running
      BY <1>1 DEF vars, queueVars, Running
    <2> QED
      BY <2>1, SameFile
  <1>2. CASE StoreNext
    <2>1. [Next]_queueVars
      BY <1>2, StoreStepsQueue
    <2>2. ASSUME NEW j \in Jobs, AppendExtent(j) PROVE FileInv'
      BY <2>1, <2>2, BeginStartedFile DEF AppendExtent
    <2>3. CASE AppendNextTick
      BY <2>1, <2>3, BeginStartedFile DEF AppendNextTick
    <2>4. ASSUME NEW j \in Jobs, CleanupFails(j) PROVE FALSE
      <3>1. app[j].pc = "close" /\ fds[app[j].fd] = NoExtent
        BY <2>4 DEF CleanupFails
      <3>2. AppFileOf(j) /\ app[j].id \in Extents
        BY <3>1, InBody DEF EndPcs
      <3> QED
        BY <3>1, <3>2, StoreAssumption DEF AppFileOf
    <2>5. ASSUME NEW j \in Jobs, FlushFails(j) PROVE FALSE
      <3>1. app[j].flushed # app[j].count
        BY <2>5, StoreAssumption DEF FlushFails, StoreInv, StoreTypeOK, App
      <3>2. app[j].pc = "write" /\ app[j].pc \notin EndPcs
        BY <3>1 DEF FileInv, Drained, EndPcs
      <3>3. AppFileOf(j) /\ app[j].id \in Extents
        BY <3>2, InBody
      <3> QED
        BY <2>5, <3>2, <3>3, StoreAssumption DEF FlushFails, AppFileOf
    <2>6. ASSUME NEW j \in Jobs, OpenFails(j) PROVE FALSE
      BY <2>6 DEF OpenFails
    <2>7. ASSUME NEW j \in Jobs, Step(j) PROVE FileInv'
      <3>1. FileStep(j)
        BY <1>0, <2>4, <2>5, <2>6, <2>7, RotateFile, OpenFile, DataFile, FlushFile, FinishFile,
           AbortFile, UpdateExtentFile, UpdateExtentFailsFile, CleanupCloseFile,
           CleanupTruncateFile DEF Step
      <3> QED
        BY <1>0, <2>1, <3>1, FileFrame
    <2>8. ASSUME NEW e \in Extents, DeleteExtent(e) PROVE FileInv'
      BY <2>8, DeleteExtentFile
    <2> QED
      BY <1>2, <2>2, <2>3, <2>7, <2>8 DEF StoreNext
  <1> QED
    BY <1>1, <1>2

THEOREM FileInvariant ==
    ASSUME ~FailOpen, ~FailCleanup, ~BufferedAbort
    PROVE  StoreSpec => [](StoreInv /\ FileInv)
  <1>1. StoreInit => StoreInv /\ FileInv
    BY StoreInvInit, FileInvInit
  <1>2. StoreInv /\ FileInv /\ [StoreNext]_vars => (StoreInv /\ FileInv)'
    BY StoreInvNext, FileInvNext
  <1> QED
    BY <1>1, <1>2, PTL DEF StoreSpec

\* The offset in memory and the end of the file agree whenever a slot is idle.
THEOREM OffsetsAreFileEnds ==
    ASSUME ~FailOpen, ~FailCleanup, ~BufferedAbort
    PROVE  StoreSpec => []OffsetIsFileEnd
  <1>1. StoreInv /\ FileInv => OffsetIsFileEnd
    BY DEF FileInv
  <1> QED
    BY <1>1, FileInvariant, PTL

\* Whatever appendExtent() has returned can be read back, byte by byte, until
\* the extent is deleted: no concurrent, failed or later append disturbs it.
THEOREM ChunksHoldTheirData ==
    ASSUME ~FailOpen, ~FailCleanup, ~BufferedAbort
    PROVE  StoreSpec => []ChunkHoldsData
  <1>1. StoreInv /\ FileInv => ChunkHoldsData
    BY DEF FileInv, ChunksSafe, ChunkSafe, Holds, ChunkHoldsData
  <1> QED
    BY <1>1, FileInvariant, PTL
=============================================================================
