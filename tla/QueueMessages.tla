--------------------------- MODULE QueueMessages ---------------------------
(***************************************************************************)
(* The messages of the queue service: LokiQueueMetadataStore with the      *)
(* handlers in front of it (MessagesHandler, MessageIdHandler,             *)
(* QueueHandler).                                                          *)
(*                                                                         *)
(* A dequeue hides a message until its visibility timeout is over and      *)
(* hands out a pop receipt, without which nobody can update or delete the  *)
(* message in the meantime.  The time of a request is that of its arrival  *)
(* (startTime); payloads are written, and extents read, between arrival    *)
(* and answer, so requests are applied late and out of order, while        *)
(* expiration compares with the clock.  An operation of the store has no   *)
(* I/O between its reads and writes and is one step.                       *)
(*                                                                         *)
(* A pop receipt is the second of the request and 16 random bits; here     *)
(* every request has its own.  The uuid of a message and its $loki, which  *)
(* grows with each insertion, are one number.  Texts, dequeue counts and   *)
(* queue metadata steer nothing and are left out.                          *)
(***************************************************************************)
EXTENDS Integers, FiniteSets

CONSTANTS
    Queues,          \* queue names
    MaxMessages,     \* bound on the messages inserted
    MaxReceipts,     \* bound on the requests that get a pop receipt
    MaxTime,         \* bound on the clock
    MaxDelay,        \* bound on the time between arrival and store operation
    Timeouts,        \* the visibilitytimeout values clients send
    TTLs,            \* the messagettl values clients send
    None,            \* a parameter that is not sent; no message
    MaxTimeout,      \* ..._VISIBILITYTIMEOUT_MAX
    DefaultTimeout,  \* DEFAULT_DEQUEUE_ and DEFAULT_UPDATE_VISIBILITYTIMEOUT
    DefaultTTL,      \* DEFAULT_MESSAGETTL
    NeverExpires,    \* NEVER_EXPIRE_DATE
    MaxNumber        \* DEQUEUE_NUMOFMESSAGES_MAX

Ids == 1..MaxMessages
Receipts == 1..MaxReceipts

Message == [queue : Queues, popReceipt : Receipts, timeNextVisible : Nat,
            expirationTime : 0..NeverExpires]

ASSUME QueueAssumption ==
    /\ {MaxMessages, MaxReceipts, MaxTime, MaxDelay, MaxTimeout, DefaultTimeout, MaxNumber}
          \subseteq Nat
    /\ Timeouts \subseteq Int /\ TTLs \subseteq Int
    /\ None \notin Int /\ None \notin Message
    /\ DefaultTTL \in Nat
    /\ NeverExpires \in Nat /\ MaxTime + DefaultTTL =< NeverExpires

VARIABLES
    now,        \* the server's clock
    queues,     \* queues that exist
    messages,   \* message documents
    nextId,     \* the next message
    receipt,    \* the next pop receipt
    until,      \* history: the timeNextVisible that went with each receipt
    given,      \* history: the messages each receipt was handed out for
    used        \* history: <<receipt, message>> used for an update

vars == <<now, queues, messages, nextId, receipt, until, given, used>>

Init ==
    /\ now = 0
    /\ queues = {}
    /\ messages = [m \in Ids |-> None]
    /\ nextId = 1
    /\ receipt = 1
    /\ until = [r \in Receipts |-> 0]
    /\ given = [r \in Receipts |-> {}]
    /\ used = {}

StartTimes == {t \in 0..now : now - MaxDelay =< t}

Tick ==
    /\ now < MaxTime
    /\ now' = now + 1
    /\ UNCHANGED <<queues, messages, nextId, receipt, until, given, used>>

\* Messages of a queue.
In(q) == {m \in Ids : messages[m] # None /\ messages[m].queue = q}

Without(S) == [m \in Ids |-> IF m \in S THEN None ELSE messages[m]]

\* getPopReceipt(): the receipt goes to a client with the messages ids.
Handed(ids, time) ==
    /\ receipt =< MaxReceipts
    /\ receipt' = receipt + 1
    /\ until' = [until EXCEPT ![receipt] = time]
    /\ given' = [given EXCEPT ![receipt] = ids]

----------------------------------------------------------------------------
(* Queues.                                                                 *)

\* createQueue() of an existing queue changes nothing (204 or 409).
CreateQueue(q) ==
    /\ queues' = queues \cup {q}
    /\ UNCHANGED <<now, messages, nextId, receipt, until, given, used>>

\* Faulty variant: the messages stay.
DeleteQueueOnly(q) ==
    /\ q \in queues
    /\ queues' = queues \ {q}
    /\ UNCHANGED <<now, messages, nextId, receipt, until, given, used>>

DeleteQueue(q) ==
    /\ q \in queues
    /\ queues' = queues \ {q}
    /\ messages' = Without(In(q))
    /\ UNCHANGED <<now, nextId, receipt, until, given, used>>

ClearMessages(q) ==
    /\ q \in queues
    /\ messages' = Without(In(q))
    /\ UNCHANGED <<now, queues, nextId, receipt, until, given, used>>

----------------------------------------------------------------------------
(* Enqueue.                                                                *)

\* The range check of a visibilitytimeout.
ValidTimeout(timeout, min) == timeout \in (min..MaxTimeout) \cup {None}

\* The checks of messagettl; they look at a visibilitytimeout only if both
\* are sent.
ValidTTL(ttl, timeout) ==
    ttl \notin {None, -1} => ttl >= 1 /\ (timeout # None => timeout < ttl)

ExpirationTime(t, ttl) ==
    IF ttl = None THEN t + DefaultTTL
    ELSE IF ttl = -1 \/ NeverExpires - t < ttl THEN NeverExpires ELSE t + ttl

\* enqueue() and insertMessage().
Enqueue(q, t, timeout, ttl) ==
    /\ ValidTimeout(timeout, 0)
    /\ ValidTTL(ttl, timeout)
    /\ q \in queues
    /\ nextId =< MaxMessages
    /\ LET visible == IF timeout = None THEN t ELSE t + timeout
       IN /\ messages' = [messages EXCEPT ![nextId] =
                            [queue |-> q, popReceipt |-> receipt, timeNextVisible |-> visible,
                             expirationTime |-> ExpirationTime(t, ttl)]]
          /\ Handed({nextId}, visible)
    /\ nextId' = nextId + 1
    /\ UNCHANGED <<now, queues, used>>

----------------------------------------------------------------------------
(* Dequeue, peek, update, delete.                                          *)

\* clearExpiredMessages(), with the clock and not the start time.
Expired(q) == {m \in In(q) : messages[m].expirationTime =< now}

\* Faulty variant: the query has no condition on timeNextVisible.
VisibleAll(q, t) == In(q) \ Expired(q)

Visible(q, t) == {m \in In(q) \ Expired(q) : messages[m].timeNextVisible =< t}

\* Faulty variant: the order is that of insertion only.
BeforeByLoki(m, n) == m < n

\* compoundsort by timeNextVisible and $loki.
Before(m, n) ==
    \/ messages[m].timeNextVisible < messages[n].timeNextVisible
    \/ messages[m].timeNextVisible = messages[n].timeNextVisible /\ m < n

\* The first `number' of the visible messages.
IsTaken(taken, q, t, number) ==
    /\ taken \subseteq Visible(q, t)
    /\ Cardinality(taken) =< number
    /\ Cardinality(taken) < number => taken = Visible(q, t)
    /\ \A m \in taken, n \in Visible(q, t) \ taken : Before(m, n)

\* dequeue() and getMessages().  The payloads are read afterwards: if that
\* fails the client gets nothing although the messages are hidden.
Dequeue(q, t, timeout, number, answered) ==
    /\ ValidTimeout(timeout, 1)
    /\ q \in queues
    /\ LET visible == t + (IF timeout = None THEN DefaultTimeout ELSE timeout)
       IN \E taken \in SUBSET Ids :
            /\ taken # {}
            /\ IsTaken(taken, q, t, number)
            /\ messages' = [m \in Ids |->
                 IF m \in Expired(q) THEN None
                 ELSE IF m \in taken
                      THEN [messages[m] EXCEPT !.popReceipt = receipt, !.timeNextVisible = visible]
                      ELSE messages[m]]
            /\ Handed(IF answered THEN taken ELSE {}, visible)
    /\ UNCHANGED <<now, queues, nextId, used>>

\* peek(); a dequeue that finds nothing; an update or a delete that is
\* refused (no such message, another pop receipt): expired messages go.
ClearExpired(q) ==
    /\ q \in queues
    /\ messages' = Without(Expired(q))
    /\ UNCHANGED <<now, queues, nextId, receipt, until, given, used>>

\* findOne() and the comparison of the receipt in updateMessage() and
\* deleteMessage().
Holds(q, m, r) == m \in In(q) \ Expired(q) /\ messages[m].popReceipt = r

\* update() and updateMessage().
UpdateMessage(q, t, m, r, timeout) ==
    /\ ValidTimeout(timeout, 0)
    /\ q \in queues
    /\ Holds(q, m, r)
    /\ LET visible == t + (IF timeout = None THEN DefaultTimeout ELSE timeout)
       IN /\ messages' = [n \in Ids |->
               IF n \in Expired(q) THEN None
               ELSE IF n = m
                    THEN [messages[m] EXCEPT !.popReceipt = receipt, !.timeNextVisible = visible]
                    ELSE messages[n]]
          /\ Handed({m}, visible)
    /\ used' = used \cup {<<r, m>>}
    /\ UNCHANGED <<now, queues, nextId>>

DeleteMessage(q, m, r) ==
    /\ q \in queues
    /\ Holds(q, m, r)
    /\ messages' = Without(Expired(q) \cup {m})
    /\ UNCHANGED <<now, queues, nextId, receipt, until, given, used>>

Next ==
    \/ Tick
    \/ \E q \in Queues :
          \/ CreateQueue(q) \/ DeleteQueue(q) \/ ClearMessages(q) \/ ClearExpired(q)
          \/ \E t \in StartTimes, timeout \in Timeouts \cup {None} :
                \/ \E ttl \in TTLs \cup {None} : Enqueue(q, t, timeout, ttl)
                \/ \E number \in 1..MaxNumber, answered \in BOOLEAN :
                      Dequeue(q, t, timeout, number, answered)
                \/ \E m \in Ids, r \in Receipts : UpdateMessage(q, t, m, r, timeout)
          \/ \E m \in Ids, r \in Receipts : DeleteMessage(q, m, r)

Spec == Init /\ [][Next]_vars

----------------------------------------------------------------------------
(* Properties.                                                             *)

\* Types of the store's variables; no message outlives the calendar.
TypeOK ==
    /\ now \in 0..MaxTime
    /\ queues \subseteq Queues
    /\ messages \in [Ids -> Message \cup {None}]
    /\ nextId \in 1..(MaxMessages + 1)
    /\ receipt \in 1..(MaxReceipts + 1)
    /\ until \in [Receipts -> Nat]
    /\ given \in [Receipts -> SUBSET Ids]
    /\ used \subseteq Receipts \X Ids

\* A consumer has its message to itself: until the visibility timeout that it
\* was told is over, its pop receipt stays the valid one, however late other
\* requests are applied, unless it gave the receipt up by an update or the
\* message has gone.
ReceiptIsExclusive ==
    \A r \in Receipts : \A m \in given[r] :
        messages[m] # None /\ now < until[r] /\ <<r, m>> \notin used
            => messages[m].popReceipt = r

\* No message is left behind in a queue that does not exist, where a queue
\* created later under the same name would deliver it.
NoOrphans == \A m \in Ids : messages[m] # None => messages[m].queue \in queues

\* A dequeue never takes a message and leaves one of the same queue that has
\* been visible for longer.
OldestFirst ==
    [][\A m, n \in Ids :
          (/\ messages[m] # None /\ messages[n] # None
           /\ messages[m].queue = messages[n].queue
           /\ messages'[n] = messages[n]
           /\ messages'[m] # None /\ messages'[m] # messages[m]
           /\ used' = used)
          => messages[m].timeNextVisible =< messages[n].timeNextVisible]_vars
=============================================================================
