----------------------------- MODULE GCManager -----------------------------
(***************************************************************************)
(* src/blob/gc/BlobGCManager.ts (QueueGCManager.ts has the same shape):    *)
(* the life cycle of the garbage collector.                                *)
(*                                                                         *)
(* start() opens the stores and launches markSweepLoop(), which nobody     *)
(* awaits; close() changes the status, wakes a sleeping loop and waits for *)
(* the event "closed" that the end of the loop emits.  What a cycle lists  *)
(* and deletes is added by the module BlobGC.                              *)
(***************************************************************************)
EXTENDS Naturals

CONSTANTS
    Closers,        \* calls of close()
    FailInit,       \* BOOLEAN: opening a store may fail
    FailClosing     \* BOOLEAN: a cycle may fail while close() waits for it

ASSUME ManagerAssumption == {FailInit, FailClosing} \subseteq BOOLEAN

VARIABLES
    status,     \* _status
    starting,   \* a call of start() is under way
    loop,       \* where markSweepLoop() is suspended
    closer      \* the promise of each call of close()

managerVars == <<status, starting, loop, closer>>

\* "all": getAllExtents(); "referred": iterating the referred extents;
\* "sweep": deleteExtents() between two extents; "unlink": awaiting unlink();
\* "sleep": sleep(); "ending": the loop has returned; "off": no loop.
LoopPcs == {"off", "all", "referred", "sweep", "unlink", "sleep", "ending"}

ManagerInit ==
    /\ status = "Closed"
    /\ starting = FALSE
    /\ loop = "off"
    /\ closer = [c \in Closers |-> "none"]

\* start() of a closed manager.  In any other status it returns or throws.
Start ==
    /\ status = "Closed"
    /\ status' = "Initializing"
    /\ starting' = TRUE
    /\ UNCHANGED <<loop, closer>>

\* The stores are open: the loop runs up to its first listing.
Initialized ==
    /\ starting
    /\ starting' = FALSE
    /\ status' = "Running"
    /\ loop' = "all"
    /\ UNCHANGED closer

\* A store does not open: start() rejects and leaves the status as it is.
InitFails ==
    /\ FailInit
    /\ starting
    /\ starting' = FALSE
    /\ UNCHANGED <<status, loop, closer>>

\* The process has ended and a new one makes a new manager.
Recreated ==
    /\ loop = "off"
    /\ ~starting
    /\ status' = "Closed"
    /\ UNCHANGED <<starting, loop, closer>>

----------------------------------------------------------------------------
(* The loop.                                                               *)

\* getAllExtents() returns; markSweep() and then the loop end early when the
\* manager is closing.
GotAllExtents ==
    /\ loop = "all"
    /\ loop' = IF status = "Running" THEN "referred" ELSE "ending"
    /\ UNCHANGED <<status, starting, closer>>

\* The iteration over the referred extents is left.
GotReferredExtents ==
    /\ loop = "referred"
    /\ loop' = "sweep"
    /\ UNCHANGED <<status, starting, closer>>

\* deleteExtents() issues the unlink() of an extent that is not active ...
Unlink ==
    /\ loop = "sweep"
    /\ loop' = "unlink"
    /\ UNCHANGED <<status, starting, closer>>

\* ... and goes on with the next one whether it worked or not.
Unlinked ==
    /\ loop = "unlink"
    /\ loop' = "sweep"
    /\ UNCHANGED <<status, starting, closer>>

\* deleteExtents() returns: sleep, or leave the loop.
Swept ==
    /\ loop = "sweep"
    /\ loop' = IF status = "Running" THEN "sleep" ELSE "ending"
    /\ UNCHANGED <<status, starting, closer>>

\* The timer of sleep() fires; the loop's condition is evaluated again.
Wake ==
    /\ loop = "sleep"
    /\ loop' = IF status = "Running" THEN "all" ELSE "ending"
    /\ UNCHANGED <<status, starting, closer>>

\* Faulty variant: "closed" resolves the callers, nobody resets the status.
LoopClosedKeepsStatus ==
    /\ loop = "ending"
    /\ loop' = "off"
    /\ closer' = [c \in Closers |-> IF closer[c] = "waiting" THEN "resolved" ELSE closer[c]]
    /\ UNCHANGED <<status, starting>>

\* Faulty variant: the end of the loop sets the status itself, without the
\* event that close() waits for.
LoopClosedSilently ==
    /\ loop = "ending"
    /\ loop' = "off"
    /\ status' = "Closed"
    /\ UNCHANGED <<starting, closer>>

\* then(): "closed" is emitted.  It is the listeners, registered by close(),
\* that set the status.
LoopClosed ==
    /\ loop = "ending"
    /\ loop' = "off"
    /\ status' = IF \E c \in Closers : closer[c] = "waiting" THEN "Closed" ELSE status
    /\ closer' = [c \in Closers |-> IF closer[c] = "waiting" THEN "resolved" ELSE closer[c]]
    /\ UNCHANGED starting

\* catch(): a listing or a deletion has failed.  "closed" is not emitted.
LoopFails ==
    /\ loop \in {"all", "referred", "sweep", "unlink"}
    /\ FailClosing \/ status = "Running"
    /\ loop' = "off"
    /\ status' = "Closed"
    /\ UNCHANGED <<starting, closer>>

----------------------------------------------------------------------------
(* Closing.                                                                *)

\* Faulty variant: "abort" is not emitted.
CloseNoAbort(c) ==
    /\ closer[c] = "none"
    /\ \/ /\ status = "Closed"
          /\ closer' = [closer EXCEPT ![c] = "resolved"]
          /\ UNCHANGED <<status, loop>>
       \/ /\ status = "Running"
          /\ status' = "Closing"
          /\ closer' = [closer EXCEPT ![c] = "waiting"]
          /\ UNCHANGED loop
       \/ /\ status \in {"Initializing", "Closing"}
          /\ closer' = [closer EXCEPT ![c] = "rejected"]
          /\ UNCHANGED <<status, loop>>
    /\ UNCHANGED starting

\* close(): returns when closed already, throws while starting or closing;
\* otherwise "abort" ends sleep(), and the promise waits for "closed".
Close(c) ==
    /\ closer[c] = "none"
    /\ \/ /\ status = "Closed"
          /\ closer' = [closer EXCEPT ![c] = "resolved"]
          /\ UNCHANGED <<status, loop>>
       \/ /\ status = "Running"
          /\ status' = "Closing"
          /\ closer' = [closer EXCEPT ![c] = "waiting"]
          /\ loop' = IF loop = "sleep" THEN "ending" ELSE loop
       \/ /\ status \in {"Initializing", "Closing"}
          /\ closer' = [closer EXCEPT ![c] = "rejected"]
          /\ UNCHANGED <<status, loop>>
    /\ UNCHANGED starting

LoopStep ==
    \/ GotAllExtents \/ GotReferredExtents \/ Unlink \/ Unlinked \/ Swept
    \/ LoopClosed

ManagerNext ==
    \/ Start \/ Initialized \/ InitFails \/ Recreated
    \/ LoopStep \/ Wake \/ LoopFails
    \/ \E c \in Closers : Close(c)

ManagerSpec == ManagerInit /\ [][ManagerNext]_managerVars

----------------------------------------------------------------------------
(* Properties.                                                             *)

\* Types of the manager's variables.
ManagerTypeOK ==
    /\ status \in {"Closed", "Initializing", "Running", "Closing"}
    /\ starting \in BOOLEAN
    /\ loop \in LoopPcs
    /\ closer \in [Closers -> {"none", "waiting", "resolved", "rejected"}]

\* The status tells whether a loop exists: start(), which looks only at the
\* status, never launches a second loop beside one that is still alive, and
\* a Closing manager has a loop whose end will close it.
LoopMatchesStatus == status \in {"Running", "Closing"} <=> loop # "off"

\* close() never finds itself behind a sleeping loop: the loop does not sleep
\* through the rest of the GC interval once the status is Closing.
ClosingLoopIsAwake == status = "Closing" => loop # "sleep"

\* A Closing manager is one that some close() still waits for: the listener
\* that sets Closed at the end of the loop is there.
ClosingHasListener == status = "Closing" => \E c \in Closers : closer[c] = "waiting"

\* Every close() that has been accepted resolves.
CloseResolves == \A c \in Closers : closer[c] = "waiting" ~> closer[c] = "resolved"
=============================================================================
