--------------------------- MODULE FSExtentStore ---------------------------
(***************************************************************************)
(* src/common/persistence/FSExtentStore.ts: blob payloads, block payloads  *)
(* and queue messages are appended to extent files.                        *)
(*                                                                         *)
(* appendExtent() runs as a job of an OperationQueue whose concurrency is  *)
(* the number of active write extents, the "slots".  A job takes the first *)
(* idle slot from 1 on and slot 0 when there is none, WITHOUT looking at   *)
(* the status of slot 0; it then owns the slot's file until it has set the *)
(* slot back to Idle.  Bytes go to the end of the file (open flag "a"),    *)
(* while the chunk that is handed to the caller is computed from the       *)
(* offset kept in memory.  Both are right only as long as a slot has one   *)
(* owner and its offset is the length of its file.                         *)
(*                                                                         *)
(* A byte is the pair <<job, position>>.  Files, descriptors and streams   *)
(* belong to the operating system and to Node; they are modelled from the  *)
(* way the store uses them.                                                *)
(***************************************************************************)
EXTENDS OperationQueue, Integers

CONSTANTS
    Extents,        \* extent ids: a bound on the uuids that are generated
    MaxExtentSize,  \* MAX_EXTENT_SIZE
    MaxBytes,       \* bound on the length of a payload
    MaxFd,          \* bound on descriptor numbers
    NoExtent,       \* no file behind a descriptor
    NoFd,           \* fd === undefined
    Zero,           \* a byte that truncate() fills in
    FailOpen,       \* BOOLEAN: open() may fail
    FailCleanup,    \* BOOLEAN: close() or truncate() may fail in a cleanup
    BufferedAbort   \* BOOLEAN: a payload may break off while bytes of it
                    \*          are still buffered in the write stream

ASSUME StoreAssumption ==
    /\ MaxExtentSize \in Nat \ {0}
    /\ MaxBytes \in Nat
    /\ MaxFd \in Nat
    /\ NoExtent \notin Extents
    /\ NoFd \notin 1..MaxFd
    /\ {FailOpen, FailCleanup, BufferedAbort} \subseteq BOOLEAN

VARIABLES
    slots,     \* activeWriteExtents: id, offset, status and fd of each slot
    fds,       \* the extent behind each descriptor number
    files,     \* contents of the extent files
    usedIds,   \* extent ids handed out
    recorded,  \* extent metadata: the size that updateExtent() stored last
               \* (NotRecorded: no metadata record)
    deleted,   \* history: extents removed by deleteExtents()
    app        \* local variables of each appendExtent()

storeVars == <<slots, fds, files, usedIds, recorded, deleted, app>>
vars == <<queueVars, storeVars>>

Slots == 0..(MaxConcurrency - 1)
Fds == 1..MaxFd
Bytes == (Jobs \X (1..MaxBytes)) \cup {Zero}

Slot == [id : Extents, offset : Nat, status : {"Idle", "Appending"}, fd : Fds \cup {NoFd}]

\* The places at which appendExtent() can be suspended, or how it ended.
Pcs == {"idle", "rotate", "open", "write", "update", "close", "truncate",
        "resolved", "rejected"}

App == [pc : Pcs, slot : Slots, id : Extents \cup {NoExtent}, fd : Fds \cup {NoFd},
        count : 0..MaxBytes, flushed : 0..MaxBytes, offset : Nat]

NotRecorded == -1

\* createAppendExtent() and getNewExtent() give the slot a new file.
NewSlot(e, st) == [id |-> e, offset |-> 0, status |-> st, fd |-> NoFd]

StoreInit ==
    /\ Init
    /\ \E ids \in [Slots -> Extents] :
          /\ \A s, t \in Slots : s # t => ids[s] # ids[t]
          /\ slots = [s \in Slots |-> NewSlot(ids[s], "Idle")]
          /\ usedIds = {ids[s] : s \in Slots}
    /\ fds = [n \in Fds |-> NoExtent]
    /\ files = [e \in Extents |-> <<>>]
    /\ recorded = [e \in Extents |-> NotRecorded]
    /\ deleted = {}
    /\ app = [j \in Jobs |-> [pc |-> "idle", slot |-> 0, id |-> NoExtent, fd |-> NoFd,
                              count |-> 0, flushed |-> 0, offset |-> 0]]

----------------------------------------------------------------------------
(* Starting: what runs synchronously inside execute().                     *)

IdleSlots == {s \in Slots \ {0} : slots[s].status = "Idle"}

\* Faulty variant: an off-by-one, the search for an idle slot ends too soon.
SelectedSlotShort ==
    LET idle == IdleSlots \ {MaxConcurrency - 1}
    IN IF idle = {} THEN 0 ELSE CHOOSE s \in idle : \A t \in idle : s =< t

\* The loop that chooses appendExtentIdx.
SelectedSlot ==
    IF IdleSlots = {} THEN 0 ELSE CHOOSE s \in IdleSlots : \A t \in IdleSlots : s =< t

\* Where appendExtent() is suspended first: at close() of a full extent, at
\* open(), or in streamPipe().
BeginPc(s) ==
    IF slots[s].offset >= MaxExtentSize THEN "rotate"
    ELSE IF slots[s].fd = NoFd THEN "open" ELSE "write"

Begin(j) ==
    LET s == SelectedSlot
    IN /\ slots' = [slots EXCEPT ![s].status = "Appending"]
       /\ app' = [app EXCEPT ![j].pc = BeginPc(s), ![j].slot = s,
                             ![j].id = slots[s].id, ![j].fd = slots[s].fd]

\* execute() runs a job's synchronous part when it takes the job.
BeginStarted ==
    /\ IF started' = started THEN UNCHANGED <<slots, app>> ELSE Begin(started'[Len(started')])
    /\ UNCHANGED <<fds, files, usedIds, recorded, deleted>>

AppendExtent(j) == Operate(j) /\ BeginStarted
AppendNextTick == NextTick /\ BeginStarted

----------------------------------------------------------------------------
(* Steps of an appendExtent() that has started.                            *)

\* The full extent's descriptor is closed (an error is only logged, the
\* number is given up either way) and the slot gets a new extent.
Rotate(j) ==
    /\ app[j].pc = "rotate"
    /\ \E e \in Extents \ usedIds :
          /\ usedIds' = usedIds \cup {e}
          /\ slots' = [slots EXCEPT ![app[j].slot] = NewSlot(e, "Appending")]
          /\ app' = [app EXCEPT ![j].pc = "open", ![j].id = e, ![j].fd = NoFd]
    /\ fds' = IF app[j].fd = NoFd THEN fds ELSE [fds EXCEPT ![app[j].fd] = NoExtent]
    /\ UNCHANGED <<queueVars, files, recorded, deleted>>

\* open(path, "a"): any free number, since other files of the process come
\* and go.
Open(j) ==
    /\ app[j].pc = "open"
    /\ \E n \in Fds :
          /\ fds[n] = NoExtent
          /\ fds' = [fds EXCEPT ![n] = app[j].id]
          /\ slots' = [slots EXCEPT ![app[j].slot].fd = n]
          /\ app' = [app EXCEPT ![j].pc = "write", ![j].fd = n]
    /\ UNCHANGED <<queueVars, files, usedIds, recorded, deleted>>

\* Faulty variant: the error never reaches the promise of the job.
OpenFailsHang(j) ==
    /\ FailOpen
    /\ app[j].pc = "open"
    /\ app' = [app EXCEPT ![j].pc = "rejected"]
    /\ UNCHANGED <<queueVars, slots, fds, files, usedIds, recorded, deleted>>

\* open() fails outside the try block: the append is rejected, the slot is
\* not set back to Idle.
OpenFails(j) ==
    /\ FailOpen
    /\ app[j].pc = "open"
    /\ app' = [app EXCEPT ![j].pc = "rejected"]
    /\ Settle(j)
    /\ UNCHANGED <<slots, fds, files, usedIds, recorded, deleted>>

\* streamPipe(): a "data" event hands the next byte to the write stream.
Data(j) ==
    /\ app[j].pc = "write"
    /\ app[j].count < MaxBytes
    /\ app' = [app EXCEPT ![j].count = @ + 1]
    /\ UNCHANGED <<queueVars, slots, fds, files, usedIds, recorded, deleted>>

\* The write stream writes a buffered byte to the descriptor NUMBER it was
\* made with, also after streamPipe() has rejected.
Flush(j) ==
    /\ app[j].flushed < app[j].count
    /\ fds[app[j].fd] # NoExtent
    /\ files' = [files EXCEPT ![fds[app[j].fd]] = Append(@, <<j, app[j].flushed + 1>>)]
    /\ app' = [app EXCEPT ![j].flushed = @ + 1]
    /\ UNCHANGED <<queueVars, slots, fds, usedIds, recorded, deleted>>

\* ... or gets EBADF, and the stream gives up; its error event rejects
\* streamPipe() if nothing has before.
FlushFails(j) ==
    /\ app[j].flushed < app[j].count
    /\ fds[app[j].fd] = NoExtent
    /\ app' = [app EXCEPT ![j].flushed = app[j].count,
                          ![j].pc = IF @ = "write" THEN "close" ELSE @]
    /\ slots' = IF app[j].pc = "write" THEN [slots EXCEPT ![app[j].slot].fd = NoFd] ELSE slots
    /\ UNCHANGED <<queueVars, fds, files, usedIds, recorded, deleted>>

\* Faulty variant: the chunk starts where it ends.
FinishOffsetAfter(j) ==
    /\ app[j].pc = "write"
    /\ app[j].flushed = app[j].count
    /\ app' = [app EXCEPT ![j].pc = "update",
                          ![j].offset = slots[app[j].slot].offset + app[j].count]
    /\ slots' = [slots EXCEPT ![app[j].slot].offset = @ + app[j].count]
    /\ UNCHANGED <<queueVars, fds, files, usedIds, recorded, deleted>>

\* The payload ends ("end" or "close"), the stream is drained and synced, and
\* streamPipe() resolves: the chunk's offset is taken from the slot.
Finish(j) ==
    /\ app[j].pc = "write"
    /\ app[j].flushed = app[j].count
    /\ app' = [app EXCEPT ![j].pc = "update", ![j].offset = slots[app[j].slot].offset]
    /\ slots' = [slots EXCEPT ![app[j].slot].offset = @ + app[j].count]
    /\ UNCHANGED <<queueVars, fds, files, usedIds, recorded, deleted>>

\* An error of the payload, of the write stream or of fdatasync() rejects
\* streamPipe().
Abort(j) ==
    /\ app[j].pc = "write"
    /\ BufferedAbort \/ app[j].flushed = app[j].count
    /\ app' = [app EXCEPT ![j].pc = "close"]
    /\ slots' = [slots EXCEPT ![app[j].slot].fd = NoFd]
    /\ UNCHANGED <<queueVars, fds, files, usedIds, recorded, deleted>>

\* updateExtent() succeeds: the slot is idle again and the chunk
\* [id, offset, count] is returned.
UpdateExtent(j) ==
    /\ app[j].pc = "update"
    /\ recorded' = [recorded EXCEPT ![app[j].id] = app[j].offset + app[j].count]
    /\ slots' = [slots EXCEPT ![app[j].slot].status = "Idle"]
    /\ app' = [app EXCEPT ![j].pc = "resolved"]
    /\ Settle(j)
    /\ UNCHANGED <<fds, files, usedIds, deleted>>

\* updateExtent() fails; the offset has been moved already.
UpdateExtentFails(j) ==
    /\ app[j].pc = "update"
    /\ app' = [app EXCEPT ![j].pc = "close"]
    /\ slots' = [slots EXCEPT ![app[j].slot].fd = NoFd]
    /\ UNCHANGED <<queueVars, fds, files, usedIds, recorded, deleted>>

\* The catch block: close(), then truncate() to the offset, then Idle.
CleanupClose(j) ==
    /\ app[j].pc = "close"
    /\ fds[app[j].fd] # NoExtent
    /\ fds' = [fds EXCEPT ![app[j].fd] = NoExtent]
    /\ app' = [app EXCEPT ![j].pc = "truncate"]
    /\ UNCHANGED <<queueVars, slots, files, usedIds, recorded, deleted>>

Truncated(f, n) == [i \in 1..n |-> IF i =< Len(f) THEN f[i] ELSE Zero]

\* Faulty variant: the partial payload is left in the file.
CleanupTruncateNot(j) ==
    /\ app[j].pc = "truncate"
    /\ slots' = [slots EXCEPT ![app[j].slot].status = "Idle"]
    /\ app' = [app EXCEPT ![j].pc = "rejected"]
    /\ Settle(j)
    /\ UNCHANGED <<fds, files, usedIds, recorded, deleted>>

CleanupTruncate(j) ==
    /\ app[j].pc = "truncate"
    /\ files' = [files EXCEPT ![app[j].id] = Truncated(@, slots[app[j].slot].offset)]
    /\ slots' = [slots EXCEPT ![app[j].slot].status = "Idle"]
    /\ app' = [app EXCEPT ![j].pc = "rejected"]
    /\ Settle(j)
    /\ UNCHANGED <<fds, usedIds, recorded, deleted>>

\* close() or truncate() fails, close() always when the number is not open:
\* it is logged, the slot stays Appending.
CleanupFails(j) ==
    /\ \/ FailCleanup /\ app[j].pc \in {"close", "truncate"}
       \/ app[j].pc = "close" /\ fds[app[j].fd] = NoExtent
    /\ app' = [app EXCEPT ![j].pc = "rejected"]
    /\ Settle(j)
    /\ UNCHANGED <<slots, fds, files, usedIds, recorded, deleted>>

\* deleteExtents() for one id: active extents are skipped.
ActiveIds == {slots[s].id : s \in Slots}

DeleteExtent(e) ==
    /\ recorded[e] # NotRecorded
    /\ e \notin ActiveIds
    /\ files' = [files EXCEPT ![e] = <<>>]
    /\ recorded' = [recorded EXCEPT ![e] = NotRecorded]
    /\ deleted' = deleted \cup {e}
    /\ UNCHANGED <<queueVars, slots, fds, usedIds, app>>

Step(j) ==
    \/ Rotate(j) \/ Open(j) \/ OpenFails(j)
    \/ Data(j) \/ Flush(j) \/ FlushFails(j) \/ Finish(j) \/ Abort(j)
    \/ UpdateExtent(j) \/ UpdateExtentFails(j)
    \/ CleanupClose(j) \/ CleanupTruncate(j) \/ CleanupFails(j)

StoreNext ==
    \/ \E j \in Jobs : AppendExtent(j)
    \/ AppendNextTick
    \/ \E j \in Jobs : Step(j)
    \/ \E e \in Extents : DeleteExtent(e)

StoreSpec == StoreInit /\ [][StoreNext]_vars

\* Callbacks run, and every stream and every file operation comes to an end:
\* a request's stream ends or breaks off, a file operation has a result.
StoreFairness == WF_vars(AppendNextTick) /\ \A j \in Jobs : WF_vars(Step(j))

FairStoreSpec == StoreSpec /\ StoreFairness

----------------------------------------------------------------------------
(* Properties.                                                             *)

\* Types of the store's variables.
StoreTypeOK ==
    /\ TypeOK
    /\ slots \in [Slots -> Slot]
    /\ fds \in [Fds -> Extents \cup {NoExtent}]
    /\ files \in [Extents -> Seq(Bytes)]
    /\ usedIds \subseteq Extents
    /\ recorded \in [Extents -> Nat \cup {NotRecorded}]
    /\ deleted \subseteq Extents
    /\ app \in [Jobs -> App]

\* An extent has one writer at a time: two appends that are under way never
\* use the same slot, and a slot counts as Idle only when none uses it.  The
\* fall-back to slot 0, which checks no status, relies on this.
SlotHasOneWriter ==
    /\ \A i, j \in Jobs : /\ jobState[i] = "running"
                          /\ jobState[j] = "running"
                          /\ app[i].slot = app[j].slot
                          => i = j
    /\ \A j \in Jobs : jobState[j] = "running" => slots[app[j].slot].status = "Appending"

\* The offset in memory, from which the next chunk is computed, is the end of
\* the file, where the next byte goes, whenever a slot is idle: also after
\* appends that broke off and were cleaned up.
OffsetIsFileEnd ==
    \A s \in Slots : slots[s].status = "Idle" => Len(files[slots[s].id]) = slots[s].offset

\* A chunk that appendExtent() has returned, read back from its file, is the
\* payload of the caller: concurrent, failed and later appends do not touch
\* it, and the recorded size of the extent covers it.
ChunkHoldsData ==
    \A j \in Jobs : app[j].pc = "resolved" /\ app[j].id \notin deleted =>
        LET c == app[j]
        IN /\ c.offset + c.count =< Len(files[c.id])
           /\ \A k \in 1..c.count : files[c.id][c.offset + k] = <<j, k>>
           /\ c.offset + c.count =< recorded[c.id]
=============================================================================
