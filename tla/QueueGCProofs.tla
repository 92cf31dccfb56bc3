--------------------------- MODULE QueueGCProofs ---------------------------
(* Proofs about the messages of queues and about the collector of the      *)
(* blob service.                                                           *)
EXTENDS QueueMessages, BlobGC, TLAPS

----------------------------------------------------------------------------
(***************************************************************************)
(* Proofs about the queue service, for any queues, messages, timeouts,     *)
(* times to live and delays of requests.                                   *)
(*                                                                         *)
(* ReceiptIsExclusive is not inductive by itself: one needs that the time  *)
(* a client was told with a receipt is the timeNextVisible stored with it, *)
(* so that no dequeue can see the message before, and that receipts and    *)
(* messages yet to come have been handed to nobody.                        *)
(***************************************************************************)

Issued ==
    /\ \A m \in Ids : messages[m] # None =>
          /\ m < nextId
          /\ messages[m].popReceipt < receipt
          /\ until[messages[m].popReceipt] = messages[m].timeNextVisible
    /\ \A r \in Receipts : r >= receipt => given[r] = {}
    /\ \A r \in Receipts : \A m \in given[r] : m < nextId
    /\ \A r \in Receipts, m \in Ids : <<r, m>> \in used =>
          r < receipt /\ (messages[m] # None => messages[m].popReceipt # r)

MessageInv == TypeOK /\ Issued /\ ReceiptIsExclusive /\ NoOrphans

LEMMA MessageInitInv == Init => MessageInv
BY QueueAssumption
   DEF Init, MessageInv, TypeOK, Issued, ReceiptIsExclusive, NoOrphans, Ids, Receipts

\* A time to live gives an expiration time within the calendar.
LEMMA ExpirationBounded ==
    ASSUME NEW t \in 0..MaxTime, NEW ttl \in TTLs \cup {None}, NEW timeout,
           ValidTTL(ttl, timeout)
    PROVE  ExpirationTime(t, ttl) \in 0..NeverExpires
<1>1. t \in Nat /\ NeverExpires \in Nat /\ DefaultTTL \in Nat /\ t + DefaultTTL =< NeverExpires
    BY QueueAssumption
<1>2. CASE ttl = None
    BY <1>1, <1>2 DEF ExpirationTime
<1>3. CASE ttl # None
  <2>1. ttl \in Int /\ (ttl = -1 \/ ttl >= 1)
      BY <1>3, QueueAssumption DEF ValidTTL
  <2>2. ExpirationTime(t, ttl)
          = IF ttl = -1 \/ NeverExpires - t < ttl THEN NeverExpires ELSE t + ttl
      BY <1>3 DEF ExpirationTime
  <2> QED BY <1>1, <2>1, <2>2
<1> QED BY <1>2, <1>3

\* Removing messages disturbs nothing, if no queue of a message that stays is
\* removed.
LEMMA RemovalKeeps ==
    ASSUME MessageInv, NEW S, messages' = Without(S),
           UNCHANGED <<nextId, receipt, until, given, used>>,
           now' \in 0..MaxTime, now' >= now, queues' \subseteq Queues,
           \A m \in Ids : messages[m] # None /\ m \notin S => messages[m].queue \in queues'
    PROVE  MessageInv'
<1> USE DEF MessageInv
<1>1. \A m \in Ids : messages'[m] # None => messages'[m] = messages[m] /\ m \notin S
    BY DEF Without
<1>2. TypeOK'
    BY DEF TypeOK, Without
<1>3. Issued'
    BY <1>1 DEF Issued
<1>4. ReceiptIsExclusive'
    BY <1>1, QueueAssumption DEF ReceiptIsExclusive, TypeOK
<1>5. NoOrphans'
    BY <1>1 DEF NoOrphans
<1> QED BY <1>2, <1>3, <1>4, <1>5

\* A step that gives a new receipt, with visibility until `time', to the
\* messages ids: nobody holds them, or their holder gave its receipt up.  The
\* client learns of the messages `told', and other messages may be removed.
Hands(ids, told, time) ==
    /\ Handed(told, time) /\ UNCHANGED <<now, queues>>
    /\ messages' \in [Ids -> Message \cup {None}]
    /\ nextId' \in 1..(MaxMessages + 1) /\ nextId' >= nextId
    /\ used' \subseteq Receipts \X Ids /\ used \subseteq used'
    /\ \A m \in Ids \ ids : messages'[m] # None => messages'[m] = messages[m]
    /\ \A m \in ids :
          /\ messages'[m] # None /\ m < nextId'
          /\ messages'[m].popReceipt = receipt
          /\ messages'[m].timeNextVisible = time
          /\ messages'[m].queue \in queues
    /\ \A m \in ids : messages[m] # None =>
          \/ messages[m].timeNextVisible =< now
          \/ <<messages[m].popReceipt, m>> \in used'
    /\ \A m \in ids : messages[m] = None => m >= nextId
    /\ \A r \in Receipts, m \in Ids :
          <<r, m>> \in used' \ used => m \in ids /\ r < receipt

LEMMA HandingKeeps ==
    ASSUME MessageInv, NEW ids \in SUBSET Ids, NEW told \in SUBSET ids, NEW time \in Nat,
           Hands(ids, told, time)
    PROVE  MessageInv'
<1>0. TypeOK /\ Issued /\ ReceiptIsExclusive /\ NoOrphans
    BY DEF MessageInv
<1>n. /\ Ids \subseteq Nat /\ Receipts \subseteq Nat
      /\ now \in Nat /\ nextId \in Nat /\ nextId' \in Nat /\ receipt \in Receipts
      /\ receipt + 1 \in 1..(MaxReceipts + 1)
  <2>4. MaxTime \in Nat /\ MaxMessages \in Nat /\ MaxReceipts \in Nat
      BY QueueAssumption
  <2>1. now \in Nat /\ nextId \in Nat /\ receipt \in Receipts
      BY <1>0, <2>4 DEF TypeOK, Hands, Handed, Receipts
  <2>2. Ids \subseteq Nat /\ Receipts \subseteq Nat /\ receipt + 1 \in 1..(MaxReceipts + 1)
      BY <2>1, <2>4 DEF Ids, Receipts
  <2>3. nextId' \in Nat
      BY <2>4 DEF Hands, Handed
  <2> QED BY <2>1, <2>2, <2>3
<1>m. nextId' >= nextId
    BY DEF Hands
<1>1. /\ receipt' = receipt + 1
      /\ until' = [until EXCEPT ![receipt] = time] /\ given' = [given EXCEPT ![receipt] = told]
    BY DEF Hands, Handed
<1>2. TypeOK'
  <2>1. until' \in [Receipts -> Nat] /\ given' \in [Receipts -> SUBSET Ids]
      BY <1>0, <1>1, <1>n DEF TypeOK
  <2> QED BY <1>0, <1>1, <1>n, <2>1 DEF TypeOK, Hands
<1>3. \A r \in Receipts : r # receipt => until'[r] = until[r] /\ given'[r] = given[r]
    BY <1>0, <1>1 DEF TypeOK
<1>4. until'[receipt] = time /\ given'[receipt] = told
    BY <1>0, <1>1, <1>n DEF TypeOK
<1>5. Issued'
  <2>1. ASSUME NEW m \in Ids, messages'[m] # None
        PROVE  /\ m < nextId' /\ messages'[m].popReceipt < receipt'
               /\ until'[messages'[m].popReceipt] = messages'[m].timeNextVisible
    <3>1. CASE m \in ids
        BY <1>1, <1>4, <1>n, <3>1 DEF Hands
    <3>2. CASE m \notin ids
      <4>1. messages'[m] = messages[m] /\ messages[m] \in Message
          BY <1>0, <2>1, <3>2 DEF TypeOK, Hands
      <4>2. /\ messages[m].popReceipt \in Receipts /\ messages[m].popReceipt < receipt /\ m < nextId
            /\ until[messages[m].popReceipt] = messages[m].timeNextVisible
          BY <1>0, <2>1, <4>1 DEF Issued, Message
      <4>3. until'[messages[m].popReceipt] = until[messages[m].popReceipt]
        <5>1. messages[m].popReceipt # receipt
          <6>1. \A s \in Nat : s < receipt => s # receipt
              BY <1>n
          <6> QED BY <1>n, <4>2, <6>1
        <5> QED BY <1>3, <4>2, <5>1
      <4>4. m < nextId' /\ messages[m].popReceipt < receipt + 1
        <5>1. \A k \in Nat : (k < nextId => k < nextId') /\ (k < receipt => k < receipt + 1)
            BY <1>n, <1>m
        <5> QED BY <1>n, <4>2, <5>1
      <4> QED BY <1>1, <4>1, <4>2, <4>3, <4>4
    <3> QED BY <3>1, <3>2
  <2>2. \A r \in Receipts : r >= receipt' => given'[r] = {}
    <3>1. \A r \in Receipts : r >= receipt + 1 => r >= receipt /\ r # receipt
        BY <1>n
    <3> QED BY <1>0, <1>1, <1>3, <3>1 DEF Issued
  <2>3. \A r \in Receipts : \A m \in given'[r] : m < nextId'
    <3>1. \A r \in Receipts \ {receipt} : \A m \in given'[r] : m \in Ids /\ m < nextId
        BY <1>0, <1>3 DEF Issued, TypeOK
    <3>2. \A m \in Ids : m < nextId => m < nextId'
        BY <1>n, <1>m
    <3>3. \A m \in told : m < nextId'
        BY DEF Hands
    <3> QED BY <1>4, <3>1, <3>2, <3>3
  <2>4. ASSUME NEW r \in Receipts, NEW m \in Ids, <<r, m>> \in used'
        PROVE  r < receipt' /\ (messages'[m] # None => messages'[m].popReceipt # r)
    <3>1. r < receipt
        BY <1>0, <2>4 DEF Issued, Hands
    <3>2. CASE m \in ids
        BY <1>1, <1>n, <3>1, <3>2 DEF Hands
    <3>3. CASE m \notin ids
        BY <1>0, <1>1, <1>n, <2>4, <3>1, <3>3 DEF Issued, Hands
    <3> QED BY <3>2, <3>3
  <2> QED BY <2>1, <2>2, <2>3, <2>4 DEF Issued
<1>6. ReceiptIsExclusive'
  <2> SUFFICES ASSUME NEW r \in Receipts, NEW m \in given'[r], messages'[m] # None,
                      now < until'[r], <<r, m>> \notin used', now' = now
               PROVE  messages'[m].popReceipt = r
      BY DEF ReceiptIsExclusive, Hands
  <2>1. CASE r = receipt
      BY <1>4, <2>1 DEF Hands
  <2>2. CASE r # receipt
    <3>1. m \in given[r] /\ now < until[r] /\ <<r, m>> \notin used /\ m \in Ids /\ m < nextId
        BY <1>0, <1>3, <2>2 DEF TypeOK, Issued, Hands
    <3>2. messages[m] # None => messages[m].popReceipt = r
        BY <1>0, <3>1 DEF ReceiptIsExclusive
    <3>3. m \notin ids
      <4> SUFFICES ASSUME m \in ids PROVE FALSE
          OBVIOUS
      <4>1. messages[m] # None
          BY <1>n, <3>1 DEF Hands
      <4>2. messages[m].timeNextVisible = until[r] /\ until[r] \in Nat
          BY <1>0, <3>1, <3>2, <4>1 DEF Issued, TypeOK
      <4>3. messages[m].timeNextVisible =< now
          BY <3>2, <4>1 DEF Hands
      <4> QED BY <1>n, <3>1, <4>2, <4>3
    <3> QED BY <3>1, <3>2, <3>3 DEF Hands
  <2> QED BY <2>1, <2>2
<1>7. NoOrphans'
    BY <1>0 DEF NoOrphans, Hands
<1> QED BY <1>2, <1>5, <1>6, <1>7 DEF MessageInv

\* Start times lie in the past.
LEMMA StartTimesPast ==
    ASSUME TypeOK, NEW t \in StartTimes
    PROVE  t \in 0..MaxTime /\ t \in Nat /\ t =< now
BY QueueAssumption DEF TypeOK, StartTimes

\* A dequeue only takes messages whose timeNextVisible is over.
LEMMA DequeueKeeps ==
    ASSUME MessageInv, NEW q \in Queues, NEW t \in StartTimes,
           NEW timeout \in Timeouts \cup {None}, NEW number, NEW answered \in BOOLEAN,
           Dequeue(q, t, timeout, number, answered)
    PROVE  MessageInv'
<1> DEFINE visible == t + (IF timeout = None THEN DefaultTimeout ELSE timeout)
<1>1. PICK taken \in SUBSET Ids :
        /\ IsTaken(taken, q, t, number)
        /\ messages' = [m \in Ids |->
             IF m \in Expired(q) THEN None
             ELSE IF m \in taken
                  THEN [messages[m] EXCEPT !.popReceipt = receipt, !.timeNextVisible = visible]
                  ELSE messages[m]]
        /\ Handed(IF answered THEN taken ELSE {}, visible)
    BY DEF Dequeue
<1>2. /\ UNCHANGED <<now, queues, nextId, used>> /\ q \in queues
      /\ ValidTimeout(timeout, 1)
    BY DEF Dequeue
<1>3. TypeOK /\ NoOrphans /\ Issued
    BY DEF MessageInv
<1>4. visible \in Nat
  <2>1. timeout # None => timeout \in Nat
      BY <1>2, QueueAssumption DEF ValidTimeout
  <2>2. t \in Nat /\ DefaultTimeout \in Nat
      BY <1>3, StartTimesPast, QueueAssumption
  <2> QED BY <2>1, <2>2
<1> HIDE DEF visible
<1>5. ASSUME NEW m \in taken
      PROVE  /\ messages[m] \in Message /\ messages[m] # None /\ messages[m].queue = q
             /\ m \notin Expired(q) /\ messages[m].timeNextVisible =< t
    BY <1>1, <1>3, <1>5 DEF IsTaken, Visible, In, TypeOK
<1>6. receipt \in Receipts
  <2>1. receipt =< MaxReceipts
      BY <1>1 DEF Handed
  <2> QED BY <1>3, <2>1, QueueAssumption DEF TypeOK, Receipts
<1>7. ASSUME NEW m \in taken
      PROVE  /\ messages'[m] \in Message /\ messages'[m] # None /\ messages'[m].queue = q
             /\ messages'[m].popReceipt = receipt /\ messages'[m].timeNextVisible = visible
  <2>1. messages'[m] = [messages[m] EXCEPT !.popReceipt = receipt, !.timeNextVisible = visible]
      BY <1>1, <1>5, <1>7
  <2>2. /\ messages'[m] \in Message /\ messages'[m].queue = q
        /\ messages'[m].popReceipt = receipt /\ messages'[m].timeNextVisible = visible
      BY <1>4, <1>5, <1>6, <1>7, <2>1 DEF Message
  <2>3. messages'[m] # None
      BY <2>2, QueueAssumption
  <2> QED BY <2>2, <2>3
<1>8. messages' \in [Ids -> Message \cup {None}]
    BY <1>1, <1>3, <1>7 DEF TypeOK
<1>9. \A m \in Ids \ taken : messages'[m] # None => messages'[m] = messages[m]
    BY <1>1
<1>10. \A m \in taken : m < nextId' /\ messages[m].timeNextVisible =< now
  <2>1. \A m \in taken : messages[m].timeNextVisible \in Nat
      BY <1>5 DEF Message
  <2>2. t \in Nat /\ t =< now /\ now \in Nat
      BY <1>3, StartTimesPast, QueueAssumption DEF TypeOK
  <2> QED BY <1>2, <1>3, <1>5, <2>1, <2>2 DEF Issued
<1>11. (IF answered THEN taken ELSE {}) \in SUBSET taken
    OBVIOUS
<1>12. nextId' \in 1..(MaxMessages + 1) /\ nextId' >= nextId /\ used' \subseteq Receipts \X Ids
    BY <1>2, <1>3, QueueAssumption DEF TypeOK
<1>13. /\ \A m \in taken : /\ messages'[m] # None /\ m < nextId'
                            /\ messages'[m].popReceipt = receipt
                            /\ messages'[m].timeNextVisible = visible
                            /\ messages'[m].queue \in queues
       /\ \A m \in taken : messages[m] # None
    BY <1>2, <1>5, <1>7, <1>10
<1>14. Handed(IF answered THEN taken ELSE {}, visible)
    BY <1>1
<1>15. UNCHANGED <<now, queues>> /\ used' = used
    BY <1>2
<1> QED BY <1>4, <1>8, <1>9, <1>10, <1>11, <1>12, <1>13, <1>14, <1>15, HandingKeeps DEF Hands

\* A new message gets a receipt of its own.
LEMMA EnqueueKeeps ==
    ASSUME MessageInv, NEW q \in Queues, NEW t \in StartTimes,
           NEW timeout \in Timeouts \cup {None}, NEW ttl \in TTLs \cup {None},
           Enqueue(q, t, timeout, ttl)
    PROVE  MessageInv'
<1> DEFINE visible == IF timeout = None THEN t ELSE t + timeout
           new == [queue |-> q, popReceipt |-> receipt, timeNextVisible |-> visible,
                   expirationTime |-> ExpirationTime(t, ttl)]
<1>1. /\ messages' = [messages EXCEPT ![nextId] = new]
      /\ Handed({nextId}, visible)
      /\ nextId' = nextId + 1 /\ nextId =< MaxMessages
      /\ UNCHANGED <<now, queues, used>> /\ q \in queues
    BY DEF Enqueue
<1>2. TypeOK /\ Issued
    BY DEF MessageInv
<1>3. visible \in Nat
  <2>1. timeout # None => timeout \in Nat
      BY QueueAssumption DEF Enqueue, ValidTimeout
  <2>2. t \in Nat
      BY <1>2, StartTimesPast
  <2> QED BY <2>1, <2>2
<1> HIDE DEF visible
<1>4. receipt \in Receipts /\ nextId \in Ids
    BY <1>1, <1>2, QueueAssumption DEF Handed, TypeOK, Receipts, Ids
<1>5. ExpirationTime(t, ttl) \in 0..NeverExpires
    BY <1>2, StartTimesPast, ExpirationBounded DEF Enqueue
<1>6. new \in Message /\ new # None
  <2>1. new \in Message
      BY <1>3, <1>4, <1>5 DEF Message
  <2> QED BY <2>1, QueueAssumption
<1>7. /\ messages' \in [Ids -> Message \cup {None}]
      /\ messages'[nextId] = new
      /\ \A m \in Ids \ {nextId} : messages'[m] = messages[m]
  <2> HIDE DEF new
  <2> QED BY <1>1, <1>2, <1>4, <1>6 DEF TypeOK
<1>8. /\ nextId' \in 1..(MaxMessages + 1) /\ nextId' >= nextId /\ nextId < nextId'
      /\ used' \subseteq Receipts \X Ids
    BY <1>1, <1>2, QueueAssumption DEF TypeOK
<1>9. messages[nextId] = None /\ nextId >= nextId
    BY <1>2, <1>4, QueueAssumption DEF Issued, TypeOK
<1>10. /\ new.queue = q /\ new.popReceipt = receipt /\ new.timeNextVisible = visible
    OBVIOUS
<1> HIDE DEF new
<1>11. {nextId} \in SUBSET Ids
    BY <1>4
<1> QED BY <1>1, <1>3, <1>6, <1>7, <1>8, <1>9, <1>10, <1>11, HandingKeeps DEF Hands

\* An update replaces the receipt it was made with.
LEMMA UpdateKeeps ==
    ASSUME MessageInv, NEW q \in Queues, NEW t \in StartTimes,
           NEW timeout \in Timeouts \cup {None}, NEW m \in Ids, NEW r \in Receipts,
           UpdateMessage(q, t, m, r, timeout)
    PROVE  MessageInv'
<1> DEFINE visible == t + (IF timeout = None THEN DefaultTimeout ELSE timeout)
<1>1. /\ Holds(q, m, r)
      /\ messages' = [n \in Ids |->
           IF n \in Expired(q) THEN None
           ELSE IF n = m
                THEN [messages[m] EXCEPT !.popReceipt = receipt, !.timeNextVisible = visible]
                ELSE messages[n]]
      /\ Handed({m}, visible)
      /\ used' = used \cup {<<r, m>>}
      /\ UNCHANGED <<now, queues, nextId>> /\ q \in queues
    BY DEF UpdateMessage
<1>2. TypeOK /\ Issued
    BY DEF MessageInv
<1>3. visible \in Nat
  <2>1. timeout # None => timeout \in Nat
      BY QueueAssumption DEF UpdateMessage, ValidTimeout
  <2>2. t \in Nat /\ DefaultTimeout \in Nat
      BY <1>2, StartTimesPast, QueueAssumption
  <2> QED BY <2>1, <2>2
<1> HIDE DEF visible
<1>4. /\ messages[m] \in Message /\ messages[m] # None /\ messages[m].queue = q
      /\ m \notin Expired(q) /\ messages[m].popReceipt = r
    BY <1>1, <1>2 DEF Holds, In, TypeOK
<1>5. receipt \in Receipts /\ r < receipt /\ m < nextId
  <2>1. m < nextId /\ messages[m].popReceipt < receipt
      BY <1>2, <1>4 DEF Issued
  <2>2. receipt \in Receipts
      BY <1>1, <1>2, QueueAssumption DEF Handed, TypeOK, Receipts
  <2> QED BY <1>4, <2>1, <2>2
<1>6. messages'[m] = [messages[m] EXCEPT !.popReceipt = receipt, !.timeNextVisible = visible]
    BY <1>1, <1>4
<1>7. /\ messages'[m] \in Message /\ messages'[m].queue = q
      /\ messages'[m].popReceipt = receipt /\ messages'[m].timeNextVisible = visible
    BY <1>3, <1>4, <1>5, <1>6 DEF Message
<1>8. messages'[m] # None
    BY <1>7, QueueAssumption
<1>9. messages' \in [Ids -> Message \cup {None}]
    BY <1>1, <1>2, <1>7 DEF TypeOK
<1>10. \A n \in Ids \ {m} : messages'[n] # None => messages'[n] = messages[n]
    BY <1>1
<1>11. /\ nextId' \in 1..(MaxMessages + 1) /\ nextId' >= nextId
       /\ used' \subseteq Receipts \X Ids /\ used \subseteq used'
    BY <1>1, <1>2, QueueAssumption DEF TypeOK
<1>12. \A s \in Receipts, n \in Ids : <<s, n>> \in used' \ used => n = m /\ s < receipt
    BY <1>1, <1>5
<1>13. {m} \in SUBSET Ids /\ <<messages[m].popReceipt, m>> \in used'
    BY <1>1, <1>4
<1>14. /\ messages'[m] # None /\ m < nextId' /\ messages'[m].popReceipt = receipt
       /\ messages'[m].timeNextVisible = visible /\ messages'[m].queue \in queues
    BY <1>1, <1>5, <1>7, <1>8
<1>15. Handed({m}, visible) /\ UNCHANGED <<now, queues>>
    BY <1>1
<1> DEFINE ids == {m}
<1>16. /\ ids \in SUBSET Ids /\ ids \in SUBSET ids
       /\ Handed(ids, visible) /\ UNCHANGED <<now, queues>>
       /\ \A n \in Ids \ ids : messages'[n] # None => messages'[n] = messages[n]
       /\ \A n \in ids : /\ messages'[n] # None /\ n < nextId'
                         /\ messages'[n].popReceipt = receipt
                         /\ messages'[n].timeNextVisible = visible
                         /\ messages'[n].queue \in queues
       /\ \A n \in ids : messages[n] # None /\ <<messages[n].popReceipt, n>> \in used'
       /\ \A s \in Receipts, n \in Ids : <<s, n>> \in used' \ used => n \in ids /\ s < receipt
    BY <1>4, <1>10, <1>12, <1>13, <1>14, <1>15
<1> HIDE DEF ids
<1> QED BY <1>3, <1>9, <1>11, <1>16, HandingKeeps DEF Hands

LEMMA MessageStepInv == MessageInv /\ [Next]_vars => MessageInv'
<1> SUFFICES ASSUME MessageInv, [Next]_vars PROVE MessageInv'
    OBVIOUS
<1>0. TypeOK /\ NoOrphans
    BY DEF MessageInv
<1>n. now \in Int /\ now \in 0..MaxTime /\ now >= now
    BY <1>0, QueueAssumption DEF TypeOK
<1>1. messages = Without({})
    BY <1>0 DEF TypeOK, Without
<1>2. CASE Tick
  <2>1. now' \in 0..MaxTime /\ now' >= now
      BY <1>2, <1>n, QueueAssumption DEF Tick
  <2> QED BY <1>0, <1>1, <1>2, <2>1, RemovalKeeps DEF Tick, TypeOK, NoOrphans
<1>3. ASSUME NEW q \in Queues, CreateQueue(q) PROVE MessageInv'
    BY <1>0, <1>1, <1>3, <1>n, RemovalKeeps DEF CreateQueue, TypeOK, NoOrphans
<1>4. ASSUME NEW q \in Queues, DeleteQueue(q) PROVE MessageInv'
    BY <1>0, <1>4, <1>n, RemovalKeeps DEF DeleteQueue, TypeOK, NoOrphans, In
<1>5. ASSUME NEW q \in Queues, ClearMessages(q) PROVE MessageInv'
    BY <1>0, <1>5, <1>n, RemovalKeeps DEF ClearMessages, TypeOK, NoOrphans
<1>6. ASSUME NEW q \in Queues, ClearExpired(q) PROVE MessageInv'
    BY <1>0, <1>6, <1>n, RemovalKeeps DEF ClearExpired, TypeOK, NoOrphans
<1>7. ASSUME NEW q \in Queues, NEW m \in Ids, NEW r \in Receipts, DeleteMessage(q, m, r)
      PROVE  MessageInv'
    BY <1>0, <1>7, <1>n, RemovalKeeps DEF DeleteMessage, TypeOK, NoOrphans
<1>8. CASE UNCHANGED vars
    BY <1>0, <1>1, <1>8, <1>n, RemovalKeeps DEF vars, TypeOK, NoOrphans
<1> QED BY <1>2, <1>3, <1>4, <1>5, <1>6, <1>7, <1>8, EnqueueKeeps, DequeueKeeps, UpdateKeeps
        DEF Next

\* The strengthening is inductive: clients hold the receipts that are stored.
THEOREM MessageInvariant == Spec => []MessageInv
BY MessageInitInv, MessageStepInv, PTL DEF Spec

\* The store keeps its types, and no message outlives the end of the calendar.
THEOREM MessageTypeCorrect == Spec => []TypeOK
<1>1. MessageInv => TypeOK
    BY DEF MessageInv
<1> QED BY <1>1, MessageInvariant, PTL

\* The pop receipt of a consumer stays the valid one until the time it was told.
THEOREM ReceiptsExclude == Spec => []ReceiptIsExclusive
<1>1. MessageInv => ReceiptIsExclusive
    BY DEF MessageInv
<1> QED BY <1>1, MessageInvariant, PTL

\* Every message belongs to a queue that exists.
THEOREM NoOrphanMessages == Spec => []NoOrphans
<1>1. MessageInv => NoOrphans
    BY DEF MessageInv
<1> QED BY <1>1, MessageInvariant, PTL

\* What a dequeue leaves in its queue was not visible at its start, or comes
\* after everything it takes.
LEMMA DequeueTakesOldest ==
    ASSUME MessageInv, NEW q \in Queues, NEW t \in StartTimes,
           NEW timeout \in Timeouts \cup {None}, NEW number, NEW answered \in BOOLEAN,
           Dequeue(q, t, timeout, number, answered),
           NEW m \in Ids, NEW n \in Ids, messages[m] # None, messages[n] # None,
           messages[m].queue = messages[n].queue, messages'[n] = messages[n],
           messages'[m] # None, messages'[m] # messages[m]
    PROVE  messages[m].timeNextVisible =< messages[n].timeNextVisible
<1>0. TypeOK /\ Issued
    BY DEF MessageInv
<1> DEFINE visible == t + (IF timeout = None THEN DefaultTimeout ELSE timeout)
<1>1. PICK taken \in SUBSET Ids :
        /\ IsTaken(taken, q, t, number)
        /\ messages' = [k \in Ids |->
             IF k \in Expired(q) THEN None
             ELSE IF k \in taken
                  THEN [messages[k] EXCEPT !.popReceipt = receipt, !.timeNextVisible = visible]
                  ELSE messages[k]]
    BY DEF Dequeue
<1> HIDE DEF visible
<1>2. m \in taken /\ n \notin Expired(q)
    BY <1>1
<1>3. messages[m].queue = q /\ messages[m].timeNextVisible =< t
    BY <1>1, <1>2 DEF IsTaken, Visible, In
<1>4. messages[n] \in Message /\ messages[m] \in Message
    BY <1>0 DEF TypeOK
<1>5. /\ messages[n].timeNextVisible \in Nat /\ messages[m].timeNextVisible \in Nat
      /\ t \in Nat /\ messages[n].popReceipt \in Nat /\ messages[n].popReceipt < receipt
    BY <1>0, <1>4, StartTimesPast, QueueAssumption DEF Message, Receipts, Issued
<1>6. n \notin taken
  <2> SUFFICES ASSUME n \in taken PROVE FALSE
      OBVIOUS
  <2>1. messages[n] = [messages[n] EXCEPT !.popReceipt = receipt, !.timeNextVisible = visible]
      BY <1>1, <1>2
  <2>2. messages[n].popReceipt = receipt
      BY <1>4, <2>1 DEF Message
  <2>3. receipt \in Nat
      BY <1>0, QueueAssumption DEF TypeOK
  <2> QED BY <1>5, <2>2, <2>3
<1>7. n \in In(q) \ Expired(q)
    BY <1>2, <1>3 DEF In
<1>8. CASE messages[n].timeNextVisible =< t
  <2>1. Before(m, n)
      BY <1>1, <1>2, <1>6, <1>7, <1>8 DEF IsTaken, Visible
  <2> QED BY <1>5, <2>1 DEF Before
<1>9. CASE ~(messages[n].timeNextVisible =< t)
    BY <1>3, <1>5, <1>9
<1> QED BY <1>8, <1>9

\* No step takes a message and leaves one of the same queue that has been
\* visible for longer.
THEOREM DequeuesOldest == Spec => OldestFirst
<1> DEFINE Fair(m, n) ==
      (/\ messages[m] # None /\ messages[n] # None
       /\ messages[m].queue = messages[n].queue
       /\ messages'[n] = messages[n]
       /\ messages'[m] # None /\ messages'[m] # messages[m]
       /\ used' = used)
      => messages[m].timeNextVisible =< messages[n].timeNextVisible
<1>1. ASSUME MessageInv, [Next]_vars PROVE [\A m, n \in Ids : Fair(m, n)]_vars
  <2> SUFFICES ASSUME Next, NEW m \in Ids, NEW n \in Ids,
                      messages[m] # None, messages[n] # None,
                      messages[m].queue = messages[n].queue, messages'[n] = messages[n],
                      messages'[m] # None, messages'[m] # messages[m], used' = used
               PROVE  messages[m].timeNextVisible =< messages[n].timeNextVisible
      BY <1>1
  <2>0. Issued /\ TypeOK
      BY <1>1 DEF MessageInv
  <2>1. ASSUME NEW q \in Queues, NEW t, NEW timeout, NEW ttl, Enqueue(q, t, timeout, ttl)
        PROVE  FALSE
    <3>1. m = nextId
        BY <2>0, <2>1 DEF Enqueue, TypeOK
    <3> QED BY <2>0, <3>1, QueueAssumption DEF Issued, TypeOK
  <2>2. ASSUME NEW q \in Queues, NEW t, NEW timeout, NEW k \in Ids, NEW r \in Receipts,
               UpdateMessage(q, t, k, r, timeout)
        PROVE  FALSE
      BY <2>0, <2>2 DEF UpdateMessage, Holds, In, Issued
  <2>3. \A S : messages' # Without(S) /\ messages' # messages
      BY DEF Without
  <2>4. PICK q \in Queues, t \in StartTimes, timeout \in Timeouts \cup {None},
             number \in 1..MaxNumber, answered \in BOOLEAN :
               Dequeue(q, t, timeout, number, answered)
      BY <2>1, <2>2, <2>3
         DEF Next, Tick, CreateQueue, DeleteQueue, ClearMessages, ClearExpired, DeleteMessage
  <2> QED BY <1>1, <2>4, DequeueTakesOldest
<1>2. MessageInv /\ [Next]_vars => [\A m, n \in Ids : Fair(m, n)]_vars
    BY <1>1
<1> QED BY <1>2, MessageInvariant, PTL DEF Spec, OldestFirst

----------------------------------------------------------------------------
(***************************************************************************)
(* Proofs about mark and sweep, for any extents, documents, requests and   *)
(* page sizes, with the Loki and with the SQL stores: the collector never  *)
(* deletes an extent in use, provided that                                 *)
(*   - with Loki no extent is filled by its first append,                  *)
(*   - no extent on the list of the cycle is replaced in its slot,         *)
(*   - nothing is committed or copied, and close() does not arrive, while  *)
(*     the referred extents are listed, and                                *)
(*   - documents have distinct names.                                      *)
(* TLC shows that each of these is needed.                                 *)
(*                                                                         *)
(* The argument: whatever holds a reference to an extent of the list has   *)
(* it either in an active extent, which the sweep passes over, or in a     *)
(* part of the listing that is still to come.                              *)
(***************************************************************************)

----------------------------------------------------------------------------
(***************************************************************************)
(* Proofs about the garbage collector's life cycle, for any number of      *)
(* close() calls, with every failure that the code can meet.               *)
(*                                                                         *)
(* LoopMatchesStatus is not inductive: the end of the loop sets the status *)
(* through the listeners of close(), so one of them must be there, and the *)
(* loop must not have ended without a close().                             *)
(***************************************************************************)

\* The loop ends by itself only when close() has been called.
EndingIsClosing == loop = "ending" => status = "Closing"

\* start() is under way only in Initializing.
StartingIsInitializing == starting => status = "Initializing"

ManagerInv ==
    /\ ManagerTypeOK
    /\ LoopMatchesStatus
    /\ ClosingLoopIsAwake
    /\ ClosingHasListener
    /\ EndingIsClosing
    /\ StartingIsInitializing

USE DEF LoopPcs

LEMMA ManagerInitInv == ManagerInit => ManagerInv
BY DEF ManagerInit, ManagerInv, ManagerTypeOK, LoopMatchesStatus, ClosingLoopIsAwake,
       ClosingHasListener, EndingIsClosing, StartingIsInitializing

\* Every step of start(), of the loop and of close() keeps the status in step
\* with the loop.
LEMMA ManagerStepInv == ManagerInv /\ [ManagerNext]_managerVars => ManagerInv'
<1> SUFFICES ASSUME ManagerInv, [ManagerNext]_managerVars
             PROVE ManagerInv'
    OBVIOUS
<1> USE DEF ManagerInv, ManagerTypeOK, LoopMatchesStatus, ClosingLoopIsAwake,
            ClosingHasListener, EndingIsClosing, StartingIsInitializing
<1>1. CASE Start
    BY <1>1 DEF Start
<1>2. CASE Initialized
    BY <1>2 DEF Initialized
<1>3. CASE InitFails
    BY <1>3 DEF InitFails
<1>4. CASE LoopStep
  <2>1. CASE GotAllExtents
      BY <2>1 DEF GotAllExtents
  <2>2. CASE GotReferredExtents
      BY <2>2 DEF GotReferredExtents
  <2>3. CASE Unlink
      BY <2>3 DEF Unlink
  <2>4. CASE Unlinked
      BY <2>4 DEF Unlinked
  <2>5. CASE Swept
      BY <2>5 DEF Swept
  <2>6. CASE LoopClosed
    <3>1. /\ status = "Closing"
          /\ \E c \in Closers : closer[c] = "waiting"
        BY <2>6 DEF LoopClosed
    <3>2. status' = "Closed" /\ loop' = "off" /\ starting' = starting
        BY <2>6, <3>1 DEF LoopClosed
    <3>3. closer' \in [Closers -> {"none", "waiting", "resolved", "rejected"}]
        BY <2>6 DEF LoopClosed
    <3> QED BY <3>1, <3>2, <3>3
  <2> QED BY <1>4, <2>1, <2>2, <2>3, <2>4, <2>5, <2>6 DEF LoopStep
<1>5. CASE Wake
    BY <1>5 DEF Wake
<1>6. CASE LoopFails
    BY <1>6 DEF LoopFails
<1>7. ASSUME NEW c \in Closers, Close(c)
      PROVE ManagerInv'
  <2>1. CASE status = "Running"
    <3>1. /\ status' = "Closing"
          /\ closer' = [closer EXCEPT ![c] = "waiting"]
          /\ loop' = IF loop = "sleep" THEN "ending" ELSE loop
          /\ starting' = starting
        BY <1>7, <2>1 DEF Close
    <3>2. closer'[c] = "waiting"
        BY <3>1
    <3> QED BY <2>1, <3>1, <3>2
  <2>2. CASE status # "Running"
    <3>1. /\ status' = status /\ loop' = loop /\ starting' = starting
          /\ closer[c] = "none"
          /\ \/ closer' = [closer EXCEPT ![c] = "resolved"]
             \/ closer' = [closer EXCEPT ![c] = "rejected"]
        BY <1>7, <2>2 DEF Close
    <3>2. \A d \in Closers : closer[d] = "waiting" => closer'[d] = "waiting"
        BY <3>1
    <3> QED BY <3>1, <3>2
  <2> QED BY <2>1, <2>2
<1>9. CASE Recreated
    BY <1>9 DEF Recreated
<1>8. CASE UNCHANGED managerVars
    BY <1>8 DEF managerVars
<1> QED BY <1>1, <1>2, <1>3, <1>4, <1>5, <1>6, <1>7, <1>8, <1>9 DEF ManagerNext

\* The inductive invariant of the collector's life cycle.
THEOREM ManagerInvariant == ManagerSpec => []ManagerInv
<1>1. ManagerInit => ManagerInv
    BY ManagerInitInv
<1>2. ManagerInv /\ [ManagerNext]_managerVars => ManagerInv'
    BY ManagerStepInv
<1> QED BY <1>1, <1>2, PTL DEF ManagerSpec

\* start() never launches a second markSweepLoop() beside a live one, and a
\* Closing manager always has a loop that will end.
THEOREM OneLoop == ManagerSpec => []LoopMatchesStatus
<1>1. ManagerInv => LoopMatchesStatus
    BY DEF ManagerInv
<1> QED BY <1>1, ManagerInvariant, PTL

\* close() wakes the loop: it never sleeps through an interval while Closing.
THEOREM CloseWakesLoop == ManagerSpec => []ClosingLoopIsAwake
<1>1. ManagerInv => ClosingLoopIsAwake
    BY DEF ManagerInv
<1> QED BY <1>1, ManagerInvariant, PTL

HIDE DEF LoopPcs

----------------------------------------------------------------------------
(* Mark and sweep.                                                         *)

\* The provisos.
Orderly ==
    /\ ~FillFirst /\ ~RotateCandidate /\ ~MoveInMark /\ ~CloseInMark
    /\ \A d, f \in Docs : Name[d] = Name[f] => d = f

----------------------------------------------------------------------------
(* The collector's cycle is a loop of the manager.                         *)

LEMMA StepIsManagerStep == [GCNext]_gcVars => [ManagerNext]_managerVars
<1> SUFFICES ASSUME [GCNext]_gcVars PROVE [ManagerNext]_managerVars
    OBVIOUS
<1>1. CASE \E r \in Reqs : AppendExtent(r) \/ AppendFails(r) \/ RequestFails(r)
    BY <1>1 DEF AppendExtent, AppendFails, TakeExtent, RequestFails, RequestEnds
<1>2. CASE \E r \in Reqs, d \in Docs : CreateBlob(r, d) \/ StageBlock(r, d) \/ AppendBlock(r, d)
    BY <1>2 DEF CreateBlob, StageBlock, AppendBlock, RequestEnds
<1>3. CASE \E d \in Docs : CommitBlockList(d) \/ DeleteBlob(d)
    BY <1>3 DEF CommitBlockList, DeleteBlob
<1>4. CASE \E src, d \in Docs : CopyBlob(src, d)
    BY <1>4 DEF CopyBlob
<1>5. CASE \E e \in Extents : ProtectionEnds(e)
    BY <1>5 DEF ProtectionEnds
<1>6. CASE CycleStep
    BY <1>6 DEF CycleStep, GetAllExtents, ListBlobs, ListBlocks, EndMark, SkipActive,
                UnlinkExtent, FileUnlinked, ExtentDeleted, UnlinkFails, EndSweep, EndLoop,
                ManagerNext, LoopStep
<1>7. CASE FailCycle
    BY <1>7 DEF FailCycle, ManagerNext
<1>8. CASE EndSleep
    BY <1>8 DEF EndSleep, ManagerNext
<1>9. CASE StartGC
    BY <1>9 DEF StartGC, ManagerNext
<1>10. CASE Restart
    BY <1>10 DEF Restart, ManagerNext
<1>11. CASE \E c \in Closers : CloseGC(c)
    BY <1>11 DEF CloseGC, ManagerNext
<1>12. CASE UNCHANGED gcVars
    BY <1>12 DEF gcVars
<1> QED BY <1>1, <1>2, <1>3, <1>4, <1>5, <1>6, <1>7, <1>8, <1>9, <1>10, <1>11, <1>12 DEF GCNext

\* The collector with its stores and requests implements the life cycle of
\* the manager, so what is proved of the life cycle holds for it.
THEOREM CollectorIsManaged == GCSpec => ManagerSpec
<1>1. GCInit => ManagerInit
    BY DEF GCInit
<1>2. [GCNext]_gcVars => [ManagerNext]_managerVars
    BY StepIsManagerStep
<1> QED BY <1>1, <1>2, PTL DEF GCSpec, ManagerSpec

----------------------------------------------------------------------------
(* The inductive invariant.                                                *)

\* An extent that is there and is not being deleted.
Kept(e) ==
    /\ e \in disk /\ extents[e] # "none" /\ e \in usedIds
    /\ loop = "unlink" => e # victim

\* The sweep will not take the extent: it is not on the list, or it is active.
Spared(e) == e \in all => e \in ActiveIds

\* The listing under way has yet to come to the document, to the blocks.
DocPending(d) == loop = "referred" /\ lister = "blobs" /\ Name[d] > marker
BlocksPending == loop = "referred" /\ lister \in {"blobs", "blocks"}

\* The next cycle will not list the extent, or the sweep will pass over it.
Protected(e) ==
    \/ extents[e] = "fresh"
    \/ extents[e] = "unstamped" /\ \E s \in Slots \ full : active[s] = e

DocsHeld ==
    \A d \in Docs : \A e \in DocRefs(d) : Kept(e) /\ (Spared(e) \/ DocPending(d))

BlocksHeld == \A b \in blocks : Kept(b[2]) /\ (Spared(b[2]) \/ BlocksPending)

ReqsHeld ==
    \A r \in Reqs : req[r].pc = "appended" =>
        LET e == req[r].ext IN Kept(e) /\ Spared(e) /\ Protected(e)

CycleOK ==
    /\ ActiveIds \subseteq usedIds
    /\ \A e \in Extents : extents[e] # "none" => e \in usedIds
    /\ Sql => \A e \in Extents : extents[e] # "unstamped"
    /\ all \subseteq usedIds
    /\ loop \notin {"referred", "sweep", "unlink"} => all = {}
    /\ loop = "referred" => status = "Running"
    /\ loop = "unlink" => victim \in usedIds \ ActiveIds
    /\ \A d \in Docs : blobs[d].state = "none" => blobs[d] = NoDoc

GCInv == ManagerInv /\ GCTypeOK /\ DocsHeld /\ BlocksHeld /\ ReqsHeld /\ CycleOK

LEMMA GCInvInit == GCInit => GCInv
<1> SUFFICES ASSUME GCInit PROVE GCInv
    OBVIOUS
<1>1. ManagerInv
    BY ManagerInitInv DEF GCInit
<1>2. \A d \in Docs : blobs[d] = NoDoc /\ DocRefs(d) = {}
    BY DEF GCInit, DocRefs, NoDoc
<1>3. NoDoc \in Doc
    BY DEF NoDoc, Doc
<1>4. GCTypeOK
    BY <1>1, <1>3 DEF GCInit, GCTypeOK, ManagerInv, Stamps, Req
<1>5. DocsHeld /\ BlocksHeld /\ ReqsHeld
    BY <1>2 DEF GCInit, DocsHeld, BlocksHeld, ReqsHeld
<1>6. CycleOK
    BY <1>2 DEF GCInit, CycleOK, ActiveIds, ManagerInit
<1> QED BY <1>1, <1>4, <1>5, <1>6 DEF GCInv

\* Every step keeps the types.
LEMMA GCTypeStep == GCTypeOK /\ ManagerInv' /\ [GCNext]_gcVars => GCTypeOK'
<1> SUFFICES ASSUME GCTypeOK, ManagerInv', [GCNext]_gcVars PROVE GCTypeOK'
    OBVIOUS
<1>0. ManagerTypeOK'
    BY DEF ManagerInv
<1> USE GCAssumption, <1>0 DEF GCTypeOK, Stamps, Req
<1>1. ASSUME NEW r \in Reqs, AppendExtent(r) PROVE GCTypeOK'
    BY <1>1 DEF AppendExtent, TakeExtent, managerVars, blobVars, cycleVars, Stamped
<1>22. ASSUME NEW r \in Reqs, AppendFails(r) PROVE GCTypeOK'
    BY <1>22 DEF AppendFails, TakeExtent, managerVars, blobVars, cycleVars
<1>2. ASSUME NEW r \in Reqs, RequestEnds(r), blobs' \in [Docs -> Doc],
             blocks' \subseteq Docs \X Extents
      PROVE GCTypeOK'
    BY <1>2 DEF RequestEnds, managerVars, storeVars, cycleVars
<1>3. ASSUME NEW r \in Reqs, RequestFails(r) PROVE GCTypeOK'
    BY <1>2, <1>3 DEF RequestFails, blobVars
<1>4. ASSUME NEW r \in Reqs, NEW d \in Docs, CreateBlob(r, d) PROVE GCTypeOK'
  <2>1. [state |-> "committed", persistency |-> req[r].ext, chunks |-> {}] \in Doc
      BY <1>4 DEF CreateBlob, RequestEnds, Doc
  <2>2. blobs' \in [Docs -> Doc] /\ blocks' \subseteq Docs \X Extents
      BY <1>4, <2>1 DEF CreateBlob
  <2> QED BY <1>2, <1>4, <2>2 DEF CreateBlob
<1>5. ASSUME NEW r \in Reqs, NEW d \in Docs, StageBlock(r, d) PROVE GCTypeOK'
  <2>1. req[r].ext \in Extents
      BY <1>5 DEF StageBlock, RequestEnds
  <2>2. blobs' \in [Docs -> Doc]
      BY <1>5 DEF StageBlock, Doc
  <2>3. blocks' \subseteq Docs \X Extents
      BY <1>5, <2>1 DEF StageBlock
  <2> QED BY <1>2, <1>5, <2>2, <2>3 DEF StageBlock
<1>6. ASSUME NEW r \in Reqs, NEW d \in Docs, AppendBlock(r, d) PROVE GCTypeOK'
  <2>1. req[r].ext \in Extents
      BY <1>6 DEF AppendBlock, RequestEnds
  <2>2. PICK kept \in SUBSET blobs[d].chunks :
          blobs' = [blobs EXCEPT ![d].chunks = kept \cup {req[r].ext}]
      BY <1>6 DEF AppendBlock
  <2>3. blobs' \in [Docs -> Doc]
    <3>1. kept \cup {req[r].ext} \in SUBSET Extents
        BY <2>1, <2>2 DEF Doc
    <3> QED BY <2>2, <3>1 DEF Doc
  <2> QED BY <1>2, <1>6, <2>3 DEF AppendBlock
<1>7. ASSUME NEW d \in Docs, CommitBlockList(d) PROVE GCTypeOK'
  <2> DEFINE staged == {b \in blocks : b[1] = d}
             known == {b[2] : b \in staged} \cup blobs[d].chunks
  <2>1. PICK chosen \in SUBSET known :
          blobs' = [blobs EXCEPT ![d] = [state |-> "committed",
                      persistency |-> blobs[d].persistency, chunks |-> chosen]]
      BY <1>7 DEF CommitBlockList
  <2>2. [state |-> "committed", persistency |-> blobs[d].persistency, chunks |-> chosen] \in Doc
      BY <2>1 DEF Doc
  <2>3. blobs' \in [Docs -> Doc]
      BY <2>1, <2>2
  <2>4. blocks' \subseteq Docs \X Extents
      BY <1>7 DEF CommitBlockList
  <2> QED BY <1>7, <2>3, <2>4 DEF CommitBlockList, managerVars, storeVars, cycleVars
<1>8. ASSUME NEW d \in Docs, DeleteBlob(d) PROVE GCTypeOK'
  <2>1. NoDoc \in Doc
      BY DEF NoDoc, Doc
  <2> QED BY <1>8, <2>1 DEF DeleteBlob, managerVars, storeVars, cycleVars
<1>9. ASSUME NEW src \in Docs, NEW d \in Docs, CopyBlob(src, d) PROVE GCTypeOK'
    BY <1>9 DEF CopyBlob, managerVars, storeVars, cycleVars
<1>10. ASSUME NEW e \in Extents, ProtectionEnds(e) PROVE GCTypeOK'
    BY <1>10 DEF ProtectionEnds, managerVars, blobVars, cycleVars
<1>11. CASE GetAllExtents
    BY <1>11 DEF GetAllExtents, Listed, storeVars, blobVars
<1>12. CASE ListBlobs
    BY <1>12 DEF ListBlobs, IsPage, Remaining, managerVars, storeVars, blobVars
<1>13. CASE ListBlocks
    BY <1>13 DEF ListBlocks, managerVars, storeVars, blobVars
<1>14. CASE EndMark \/ EndSweep \/ EndSleep \/ EndLoop
    BY <1>14 DEF EndMark, EndSweep, EndSleep, EndLoop, storeVars, blobVars, cycleVars
<1>15. ASSUME NEW e \in Extents, SkipActive(e) \/ UnlinkExtent(e) PROVE GCTypeOK'
    BY <1>15 DEF SkipActive, UnlinkExtent, managerVars, storeVars, blobVars
<1>16. CASE FileUnlinked \/ ExtentDeleted
    BY <1>16 DEF FileUnlinked, ExtentDeleted, managerVars, blobVars, cycleVars
<1>17. CASE UnlinkFails \/ FailCycle
    BY <1>17 DEF UnlinkFails, FailCycle, storeVars, blobVars
<1>18. CASE StartGC
    BY <1>18 DEF StartGC, storeVars, blobVars, cycleVars
<1>19. CASE Restart
    BY <1>19 DEF Restart, blobVars, cycleVars
<1>20. ASSUME NEW c \in Closers, CloseGC(c) PROVE GCTypeOK'
    BY <1>20 DEF CloseGC, storeVars, blobVars, cycleVars
<1>21. CASE UNCHANGED gcVars
    BY <1>21 DEF gcVars, managerVars, storeVars, blobVars, cycleVars
<1> QED
    BY <1>1, <1>3, <1>4, <1>5, <1>6, <1>7, <1>8, <1>9, <1>10, <1>11, <1>12, <1>13, <1>14,
       <1>15, <1>16, <1>17, <1>18, <1>19, <1>20, <1>21, <1>22 DEF GCNext, CycleStep

----------------------------------------------------------------------------
(* Preservation of what holds a reference.                                 *)

\* Whatever is referred to is an extent.
LEMMA RefsAreExtents ==
    GCTypeOK => /\ \A d \in Docs : DocRefs(d) \subseteq Extents
                /\ \A b \in blocks : b[2] \in Extents
                /\ \A r \in Reqs : req[r].pc = "appended" => req[r].ext \in Extents
BY GCAssumption DEF GCTypeOK, DocRefs, Doc, Req

\* A step that leaves documents, blocks and requests alone keeps them held if
\* it spares what is spared and forgets nothing of the listing to come.
LEMMA HeldFrame ==
    ASSUME GCInv, UNCHANGED <<blobs, blocks, req>>,
           \A e \in Extents : Kept(e) /\ Spared(e) => Kept(e)' /\ Spared(e)',
           \A e \in Extents : Kept(e) /\ Spared(e) /\ e \in InFlight /\ Protected(e)
                                => Protected(e)',
           \A d \in Docs : \A e \in DocRefs(d) : Kept(e) /\ DocPending(d) =>
                Kept(e)' /\ (Spared(e)' \/ DocPending(d)'),
           \A b \in blocks : Kept(b[2]) /\ BlocksPending =>
                Kept(b[2])' /\ (Spared(b[2])' \/ BlocksPending')
    PROVE  DocsHeld' /\ BlocksHeld' /\ ReqsHeld'
<1> USE RefsAreExtents DEF GCInv
<1>1. DocsHeld'
  <2>1. \A d \in Docs : DocRefs(d)' = DocRefs(d)
      BY DEF DocRefs
  <2> QED BY <2>1 DEF DocsHeld
<1>2. BlocksHeld'
    BY DEF BlocksHeld
<1>3. ReqsHeld'
  <2> SUFFICES ASSUME NEW r \in Reqs, NEW e \in Extents, req[r].pc = "appended", e = req[r].ext
               PROVE Kept(e)' /\ Spared(e)' /\ Protected(e)'
      BY DEF ReqsHeld
  <2>1. e \in InFlight
      BY DEF InFlight
  <2>2. Kept(e) /\ Spared(e) /\ Protected(e)
      BY DEF ReqsHeld
  <2> QED BY <2>1, <2>2
<1> QED BY <1>1, <1>2, <1>3

\* A step of a request that leaves the extents and the cycle alone: what a
\* document refers to then, it referred to before, or the request had it in
\* flight, or no listing is under way and it was referred to anywhere.
LEMMA RequestFrame ==
    ASSUME GCInv, UNCHANGED <<managerVars, storeVars, cycleVars>>,
           \A d \in Docs : \A e \in DocRefs(d)' :
                \/ e \in DocRefs(d) \cup InFlight
                \/ loop # "referred" /\ e \in Referred,
           \A b \in blocks' : b \in blocks \/ b[2] \in InFlight,
           \A r \in Reqs : req'[r].pc = "appended" => req'[r] = req[r],
           \A d \in Docs : blobs'[d].state = "none" => blobs'[d] = NoDoc
    PROVE  DocsHeld' /\ BlocksHeld' /\ ReqsHeld' /\ CycleOK'
<1> USE DEF GCInv
<1>1. \A e : /\ Kept(e)' <=> Kept(e)
             /\ Spared(e)' <=> Spared(e)
             /\ Protected(e)' <=> Protected(e)
    BY DEF Kept, Spared, Protected, ActiveIds, managerVars, storeVars, cycleVars
<1>2. /\ BlocksPending' <=> BlocksPending
      /\ \A d : DocPending(d)' <=> DocPending(d)
    BY DEF BlocksPending, DocPending, managerVars, cycleVars
<1>3. \A e \in InFlight : Kept(e) /\ Spared(e)
    BY DEF InFlight, ReqsHeld
<1>4. loop # "referred" => \A e \in Referred : Kept(e) /\ Spared(e)
    BY DEF Referred, BlockRefs, DocsHeld, BlocksHeld, DocPending, BlocksPending
<1>5. DocsHeld'
    BY <1>1, <1>2, <1>3, <1>4 DEF DocsHeld
<1>6. BlocksHeld'
    BY <1>1, <1>2, <1>3 DEF BlocksHeld
<1>7. ReqsHeld'
    BY <1>1 DEF ReqsHeld
<1>8. CycleOK'
    BY DEF CycleOK, ActiveIds, managerVars, storeVars, cycleVars
<1> QED BY <1>5, <1>6, <1>7, <1>8

\* What a request does to the metadata.
LEMMA RequestStep ==
    ASSUME GCInv, Orderly, NEW d \in Docs,
           \/ \E r \in Reqs : CreateBlob(r, d) \/ StageBlock(r, d) \/ AppendBlock(r, d)
           \/ CommitBlockList(d) \/ DeleteBlob(d)
           \/ \E src \in Docs : CopyBlob(src, d)
    PROVE  DocsHeld' /\ BlocksHeld' /\ ReqsHeld' /\ CycleOK'
<1> DEFINE DocsFrom == \A f \in Docs : \A e \in DocRefs(f)' :
                          \/ e \in DocRefs(f) \cup InFlight
                          \/ loop # "referred" /\ e \in Referred
           Empty == \A f \in Docs : blobs'[f].state = "none" => blobs'[f] = NoDoc
           BlocksFrom == \A b \in blocks' : b \in blocks \/ b[2] \in InFlight
           ReqsFrom == \A r \in Reqs : req'[r].pc = "appended" => req'[r] = req[r]
<1>1. GCTypeOK /\ CycleOK
    BY DEF GCInv
<1>2. \A f \in Docs : blobs[f] \in Doc /\ (blobs[f].state = "none" => blobs[f] = NoDoc)
    BY <1>1 DEF GCTypeOK, CycleOK
<1>3. ASSUME NEW r \in Reqs, RequestEnds(r)
      PROVE  ReqsFrom /\ req[r].ext \in InFlight /\ UNCHANGED <<managerVars, storeVars, cycleVars>>
    BY <1>1, <1>3 DEF RequestEnds, InFlight, GCTypeOK
<1>5. ASSUME NEW r \in Reqs, CreateBlob(r, d)
      PROVE  DocsFrom /\ Empty /\ BlocksFrom
    BY <1>1, <1>2, <1>3, <1>5 DEF CreateBlob, DocRefs, GCTypeOK
<1>6. ASSUME NEW r \in Reqs, StageBlock(r, d)
      PROVE  DocsFrom /\ Empty /\ BlocksFrom
    BY <1>1, <1>2, <1>3, <1>6 DEF StageBlock, DocRefs, GCTypeOK, Doc
<1>7. ASSUME NEW r \in Reqs, AppendBlock(r, d)
      PROVE  DocsFrom /\ Empty /\ BlocksFrom
    BY <1>1, <1>2, <1>3, <1>7 DEF AppendBlock, DocRefs, GCTypeOK, Doc
<1>8. ASSUME CommitBlockList(d)
      PROVE  DocsFrom /\ Empty /\ BlocksFrom
    BY <1>1, <1>2, <1>8 DEF CommitBlockList, MovesAllowed, Orderly, DocRefs, Referred, BlockRefs, GCTypeOK
<1>9. ASSUME DeleteBlob(d)
      PROVE  DocsFrom /\ Empty /\ BlocksFrom
    BY <1>1, <1>2, <1>9 DEF DeleteBlob, DocRefs, NoDoc, GCTypeOK
<1>10. ASSUME NEW src \in Docs, CopyBlob(src, d)
       PROVE  DocsFrom /\ Empty /\ BlocksFrom
    BY <1>1, <1>2, <1>10 DEF CopyBlob, MovesAllowed, Orderly, DocRefs, Referred, GCTypeOK
<1>11. DocsFrom /\ Empty /\ BlocksFrom
    BY <1>5, <1>6, <1>7, <1>8, <1>9, <1>10
<1>12. ReqsFrom /\ UNCHANGED <<managerVars, storeVars, cycleVars>>
    BY <1>3 DEF CreateBlob, StageBlock, AppendBlock, CommitBlockList, DeleteBlob, CopyBlob
<1> QED BY <1>11, <1>12, RequestFrame

\* The append: the extent is active or new, so the sweep does not take it,
\* and the next cycle does not list it or passes over it.
LEMMA AppendStep ==
    ASSUME GCInv, Orderly, NEW r \in Reqs, AppendExtent(r)
    PROVE  DocsHeld' /\ BlocksHeld' /\ ReqsHeld' /\ CycleOK'
<1>1. PICK s \in Slots, e \in Extents, fills \in BOOLEAN :
          /\ TakeExtent(r, s, e)
          /\ IF s \in full
             THEN e \notin usedIds /\ (RotateCandidate \/ active[s] \notin all)
             ELSE e = active[s]
          /\ fills => Sql \/ FillFirst \/ extents[e] # "none"
          /\ active' = [active EXCEPT ![s] = e]
          /\ full' = IF fills THEN full \cup {s} ELSE full \ {s}
          /\ usedIds' = usedIds \cup {e}
          /\ extents' = [extents EXCEPT ![e] = Stamped(e)]
          /\ disk' = disk \cup {e}
          /\ req' = [req EXCEPT ![r] = [pc |-> "appended", ext |-> e]]
    BY DEF AppendExtent, TakeExtent
<1>2. UNCHANGED <<managerVars, blobVars, serving, cycleVars>>
    BY <1>1 DEF TakeExtent
<1>3. GCTypeOK /\ CycleOK /\ DocsHeld /\ BlocksHeld /\ ReqsHeld
    BY DEF GCInv
<1>4. \A f \in Extents : f # e => extents'[f] = extents[f]
    BY <1>1, <1>3 DEF GCTypeOK
<1>5. extents'[e] = Stamped(e)
    BY <1>1, <1>3 DEF GCTypeOK
<1>6. active[s] \in usedIds
    BY <1>3 DEF CycleOK, ActiveIds
<1>7. s \in full => active[s] \notin all
    BY <1>1 DEF Orderly
<1>8. \A f \in all : f \in ActiveIds => f \in ActiveIds'
    BY <1>1, <1>3, <1>7 DEF ActiveIds, GCTypeOK
<1>9. \A f : Spared(f) => Spared(f)'
    BY <1>2, <1>8 DEF Spared, cycleVars
<1>10. loop = "unlink" => victim # e
  <2>1. e \in ActiveIds \/ e \notin usedIds
      BY <1>1 DEF ActiveIds
  <2> QED BY <2>1, <1>3 DEF CycleOK
<1>11. \A f \in Extents : Kept(f) => Kept(f)'
    BY <1>1, <1>2, <1>4, <1>5 DEF Kept, Stamped, managerVars, cycleVars
<1>12. /\ BlocksPending' <=> BlocksPending
       /\ \A d : DocPending(d)' <=> DocPending(d)
    BY <1>2 DEF BlocksPending, DocPending, managerVars, cycleVars
<1>13. DocsHeld'
  <2>1. \A d \in Docs : DocRefs(d)' = DocRefs(d)
      BY <1>2 DEF DocRefs, blobVars
  <2> QED BY <1>3, <1>9, <1>11, <1>12, <2>1, RefsAreExtents DEF DocsHeld
<1>14. BlocksHeld'
    BY <1>2, <1>3, <1>9, <1>11, <1>12, RefsAreExtents DEF BlocksHeld, blobVars
<1>15. Kept(e)' /\ Spared(e)' /\ Protected(e)'
  <2>1. Kept(e)'
      BY <1>1, <1>2, <1>5, <1>10 DEF Kept, Stamped, managerVars, cycleVars
  <2>2. Spared(e)'
    <3>1. e \in ActiveIds'
        BY <1>1, <1>3 DEF ActiveIds, GCTypeOK
    <3> QED BY <3>1 DEF Spared
  <2>3. Protected(e)'
    <3>1. CASE Stamped(e) = "fresh"
        BY <1>5, <3>1 DEF Protected
    <3>2. CASE extents[e] = "none" /\ ~Sql
      <4>1. ~fills
          BY <1>1, <3>2 DEF Orderly
      <4>2. s \in Slots \ full' /\ active'[s] = e
          BY <1>1, <1>3, <4>1 DEF GCTypeOK
      <4> QED BY <1>5, <3>2, <4>2 DEF Protected, Stamped
    <3> QED BY <3>1, <3>2 DEF Stamped
  <2> QED BY <2>1, <2>2, <2>3
<1>16. \A f \in Extents : f # e /\ Kept(f) /\ Protected(f) => Protected(f)'
  <2> SUFFICES ASSUME NEW f \in Extents, f # e, Kept(f), Protected(f) PROVE Protected(f)'
      OBVIOUS
  <2>1. CASE extents[f] = "fresh"
      BY <1>4, <2>1 DEF Protected
  <2>2. CASE extents[f] = "unstamped"
    <3>1. PICK t \in Slots \ full : active[t] = f
        BY <2>2 DEF Protected
    <3>2. t # s
        BY <1>1, <3>1
    <3>3. t \in Slots \ full' /\ active'[t] = f
        BY <1>1, <1>3, <3>1, <3>2 DEF GCTypeOK
    <3> QED BY <1>4, <2>2, <3>3 DEF Protected
  <2> QED BY <2>1, <2>2 DEF Protected
<1>17. ReqsHeld'
  <2> SUFFICES ASSUME NEW q \in Reqs, NEW f \in Extents, req'[q].pc = "appended", f = req'[q].ext
               PROVE  Kept(f)' /\ Spared(f)' /\ Protected(f)'
    <3>1. \A q \in Reqs : req'[q].pc = "appended" => req'[q].ext \in Extents
        BY <1>1, <1>3, RefsAreExtents DEF GCTypeOK
    <3> QED BY <3>1 DEF ReqsHeld
  <2>1. CASE f = e
      BY <1>15, <2>1
  <2>2. CASE f # e
    <3>1. req'[q] = req[q]
        BY <1>1, <1>3, <2>2 DEF GCTypeOK
    <3>2. Kept(f) /\ Spared(f) /\ Protected(f)
        BY <1>3, <3>1 DEF ReqsHeld
    <3> QED BY <1>9, <1>11, <1>16, <2>2, <3>2
  <2> QED BY <2>1, <2>2
<1>18. CycleOK'
  <2>1. ActiveIds' \subseteq usedIds'
      BY <1>1, <1>3 DEF ActiveIds, CycleOK, GCTypeOK
  <2>2. \A f \in Extents : extents'[f] # "none" => f \in usedIds'
      BY <1>1, <1>3, <1>4 DEF CycleOK
  <2>3. loop' = "unlink" => victim' \in usedIds' \ ActiveIds'
      BY <1>1, <1>2, <1>3, <1>10 DEF CycleOK, ActiveIds, GCTypeOK, managerVars, cycleVars
  <2>4. Sql => \A f \in Extents : extents'[f] # "unstamped"
      BY <1>3, <1>4, <1>5 DEF CycleOK, Stamped
  <2> QED BY <1>1, <1>2, <1>3, <2>1, <2>2, <2>3, <2>4 DEF CycleOK, managerVars, cycleVars, blobVars
<1> QED BY <1>13, <1>14, <1>17, <1>18

\* An append that fails has taken an active extent or a new one all the same,
\* and nobody refers to what it leaves there.
LEMMA AppendFailsStep ==
    ASSUME GCInv, Orderly, NEW r \in Reqs, AppendFails(r)
    PROVE  DocsHeld' /\ BlocksHeld' /\ ReqsHeld' /\ CycleOK'
<1>1. PICK s \in Slots, e \in Extents, fills \in BOOLEAN :
          /\ TakeExtent(r, s, e)
          /\ IF s \in full
             THEN e \notin usedIds /\ (RotateCandidate \/ active[s] \notin all)
             ELSE e = active[s]
          /\ fills => Sql
          /\ active' = [active EXCEPT ![s] = e]
          /\ full' = IF fills THEN full \cup {s} ELSE full \ {s}
          /\ usedIds' = usedIds \cup {e}
          /\ disk \subseteq disk' /\ disk' \subseteq disk \cup {e}
          /\ req' = [req EXCEPT ![r] = [pc |-> "done", ext |-> NoExtent]]
          /\ extents' = extents
    BY DEF AppendFails, TakeExtent
<1>2. UNCHANGED <<managerVars, blobVars, serving, cycleVars>>
    BY <1>1 DEF TakeExtent
<1>3. GCTypeOK /\ CycleOK /\ DocsHeld /\ BlocksHeld /\ ReqsHeld
    BY DEF GCInv
<1>4. active[s] \in usedIds
    BY <1>3 DEF CycleOK, ActiveIds
<1>5. s \in full => active[s] \notin all
    BY <1>1 DEF Orderly
<1>6. \A f \in all : f \in ActiveIds => f \in ActiveIds'
    BY <1>1, <1>3, <1>5 DEF ActiveIds, GCTypeOK
<1>7. \A f : Spared(f) => Spared(f)'
    BY <1>2, <1>6 DEF Spared, cycleVars
<1>8. loop = "unlink" => victim # e
  <2>1. e \in ActiveIds \/ e \notin usedIds
      BY <1>1 DEF ActiveIds
  <2> QED BY <2>1, <1>3 DEF CycleOK
<1>9. \A f \in Extents : Kept(f) => Kept(f)'
    BY <1>1, <1>2 DEF Kept, managerVars, cycleVars
<1>10. /\ BlocksPending' <=> BlocksPending
       /\ \A d : DocPending(d)' <=> DocPending(d)
    BY <1>2 DEF BlocksPending, DocPending, managerVars, cycleVars
<1>11. DocsHeld'
  <2>1. \A d \in Docs : DocRefs(d)' = DocRefs(d)
      BY <1>2 DEF DocRefs, blobVars
  <2> QED BY <1>3, <1>7, <1>9, <1>10, <2>1, RefsAreExtents DEF DocsHeld
<1>12. BlocksHeld'
    BY <1>2, <1>3, <1>7, <1>9, <1>10, RefsAreExtents DEF BlocksHeld, blobVars
<1>13. \A f \in Extents : Kept(f) /\ Protected(f) => Protected(f)'
  <2> SUFFICES ASSUME NEW f \in Extents, Protected(f) PROVE Protected(f)'
      OBVIOUS
  <2>1. CASE extents[f] = "fresh"
      BY <1>1, <2>1 DEF Protected
  <2>2. CASE extents[f] = "unstamped" /\ Sql
      BY <1>3, <2>2 DEF CycleOK
  <2>3. CASE extents[f] = "unstamped" /\ ~Sql
    <3>1. PICK t \in Slots \ full : active[t] = f
        BY <2>3 DEF Protected
    <3>2. ~fills
        BY <1>1, <2>3
    <3>3. t \in Slots \ full' /\ active'[t] = f
        BY <1>1, <1>3, <3>1, <3>2 DEF GCTypeOK
    <3> QED BY <1>1, <2>3, <3>3 DEF Protected
  <2> QED BY <2>1, <2>2, <2>3 DEF Protected
<1>14. ReqsHeld'
  <2>1. \A q \in Reqs : req'[q].pc = "appended" => req'[q] = req[q]
      BY <1>1, <1>3 DEF GCTypeOK
  <2>2. \A q \in Reqs : req[q].pc = "appended" =>
            /\ req[q].ext \in Extents
            /\ Kept(req[q].ext) /\ Spared(req[q].ext) /\ Protected(req[q].ext)
      BY <1>3, RefsAreExtents DEF ReqsHeld
  <2>3. \A f \in Extents : Kept(f) /\ Spared(f) /\ Protected(f)
                                => Kept(f)' /\ Spared(f)' /\ Protected(f)'
      BY <1>7, <1>9, <1>13
  <2> SUFFICES ASSUME NEW q \in Reqs, NEW f \in Extents, req'[q].pc = "appended", f = req'[q].ext
               PROVE  Kept(f)' /\ Spared(f)' /\ Protected(f)'
      BY <2>1, <2>2 DEF ReqsHeld
  <2> QED BY <2>1, <2>2, <2>3
<1>15. CycleOK'
  <2>1. ActiveIds' \subseteq usedIds'
      BY <1>1, <1>3 DEF ActiveIds, CycleOK, GCTypeOK
  <2>2. loop' = "unlink" => victim' \in usedIds' \ ActiveIds'
      BY <1>1, <1>2, <1>3, <1>8 DEF CycleOK, ActiveIds, GCTypeOK, managerVars, cycleVars
  <2> QED BY <1>1, <1>2, <1>3, <2>1, <2>2 DEF CycleOK, managerVars, cycleVars, blobVars
<1> QED BY <1>11, <1>12, <1>14, <1>15

\* The protection time of an extent ends only when no request under way has
\* its payload there.
LEMMA ProtectionStep ==
    ASSUME GCInv, NEW e \in Extents, ProtectionEnds(e)
    PROVE  DocsHeld' /\ BlocksHeld' /\ ReqsHeld' /\ CycleOK'
<1>1. GCTypeOK /\ CycleOK
    BY DEF GCInv
<1>2. /\ extents[e] = "fresh" /\ e \notin InFlight
      /\ extents' = [extents EXCEPT ![e] = "old"]
      /\ UNCHANGED <<managerVars, active, full, usedIds, disk, blobVars, serving, req, cycleVars>>
    BY DEF ProtectionEnds
<1>3. \A f \in Extents : extents'[f] # "none" <=> extents[f] # "none"
    BY <1>1, <1>2 DEF GCTypeOK
<1>4. \A f \in Extents : (Kept(f)' <=> Kept(f)) /\ (Spared(f)' <=> Spared(f))
    BY <1>2, <1>3 DEF Kept, Spared, ActiveIds, managerVars, cycleVars
<1>5. \A f \in Extents : f \in InFlight /\ Protected(f) => Protected(f)'
    BY <1>1, <1>2 DEF Protected, GCTypeOK
<1>6. /\ BlocksPending' <=> BlocksPending
      /\ \A d : DocPending(d)' <=> DocPending(d)
    BY <1>2 DEF BlocksPending, DocPending, managerVars, cycleVars
<1>7. DocsHeld' /\ BlocksHeld' /\ ReqsHeld'
    BY <1>1, <1>2, <1>4, <1>5, <1>6, HeldFrame, RefsAreExtents DEF blobVars
<1>8. CycleOK'
    BY <1>1, <1>2, <1>3 DEF CycleOK, ActiveIds, managerVars, blobVars, cycleVars
<1> QED BY <1>7, <1>8

\* The list of a cycle holds no payload of a request under way, unless in an
\* active extent; documents and blocks are all still to be listed.
LEMMA GetAllStep ==
    ASSUME GCInv, GetAllExtents
    PROVE  DocsHeld' /\ BlocksHeld' /\ ReqsHeld' /\ CycleOK'
<1>1. GCTypeOK /\ CycleOK /\ DocsHeld /\ BlocksHeld /\ ReqsHeld
    BY DEF GCInv
<1>2. /\ loop = "all" /\ UNCHANGED <<status, active, full, usedIds, extents, disk, blobs, blocks, req, victim>>
      /\ loop' = IF status = "Running" THEN "referred" ELSE "ending"
      /\ all' = IF status = "Running" THEN Listed ELSE {}
      /\ lister' = "blobs" /\ marker' = 0
    BY DEF GetAllExtents, GotAllExtents, storeVars, blobVars
<1>3. \A e : Kept(e) => Kept(e)'
    BY <1>2 DEF Kept
<1>4. \A d \in Docs, e \in Extents : Spared(e)' \/ DocPending(d)'
    BY <1>2, GCAssumption DEF Spared, DocPending
<1>5. \A e \in Extents : Spared(e)' \/ BlocksPending'
    BY <1>2 DEF Spared, BlocksPending
<1>6. \A d \in Docs : DocRefs(d)' = DocRefs(d)
    BY <1>2 DEF DocRefs
<1>7. DocsHeld'
    BY <1>1, <1>3, <1>4, <1>6, RefsAreExtents DEF DocsHeld
<1>8. BlocksHeld'
    BY <1>1, <1>2, <1>3, <1>5, RefsAreExtents DEF BlocksHeld
<1>9. \A e : Protected(e) => Protected(e)' /\ Spared(e)'
    BY <1>2 DEF Protected, Spared, Listed, ActiveIds
<1>10. ReqsHeld'
    BY <1>1, <1>2, <1>3, <1>9 DEF ReqsHeld
<1>11. CycleOK'
    BY <1>1, <1>2 DEF CycleOK, ActiveIds, Listed
<1> QED BY <1>7, <1>8, <1>10, <1>11

\* A page strikes out what its documents refer to; those behind the new
\* marker are still to come, because no other document has its name.
LEMMA ListBlobsStep ==
    ASSUME GCInv, Orderly, ListBlobs
    PROVE  DocsHeld' /\ BlocksHeld' /\ ReqsHeld' /\ CycleOK'
<1>1. GCTypeOK /\ CycleOK
    BY DEF GCInv
<1>2. /\ loop = "referred" /\ lister = "blobs"
      /\ UNCHANGED <<managerVars, storeVars, blobVars, serving, req, victim>>
    BY DEF ListBlobs
<1>3. PICK page \in SUBSET Docs :
          /\ IsPage(page)
          /\ all' = all \ UNION {DocRefs(d) : d \in page}
          /\ IF page = Remaining
             THEN lister' = "blocks" /\ UNCHANGED marker
             ELSE /\ marker' \in {Name[d] : d \in page}
                  /\ \A d \in page : Name[d] =< marker'
                  /\ UNCHANGED lister
    BY DEF ListBlobs
<1>4. all' \subseteq all
    BY <1>3
<1>5. \A e : Spared(e) => Spared(e)'
    BY <1>2, <1>4 DEF Spared, ActiveIds, storeVars
<1>6. \A e : (Kept(e)' <=> Kept(e)) /\ (Protected(e)' <=> Protected(e))
    BY <1>2 DEF Kept, Protected, managerVars, storeVars
<1>7. BlocksPending'
    BY <1>2, <1>3 DEF BlocksPending, managerVars
<1>8. ASSUME NEW d \in Docs, NEW e \in DocRefs(d), DocPending(d)
      PROVE  Spared(e)' \/ DocPending(d)'
  <2>1. CASE d \in page
    <3>1. e \notin all'
        BY <1>3, <2>1, <1>8
    <3> QED BY <3>1 DEF Spared
  <2>2. CASE d \notin page
    <3>1. blobs[d].state # "none"
      <4>1. blobs[d].state = "none" => DocRefs(d) = {}
          BY <1>1 DEF CycleOK, DocRefs, NoDoc
      <4> QED BY <4>1, <1>8
    <3>2. d \in Remaining \ page
        BY <1>8, <2>2, <3>1 DEF Remaining, DocPending
    <3>3. PICK f \in page : marker' = Name[f]
        BY <1>3, <3>2
    <3>4. Name[f] =< Name[d] /\ Name[f] # Name[d] /\ Name[f] \in Nat /\ Name[d] \in Nat
        BY <1>3, <2>2, <3>2, <3>3, GCAssumption DEF IsPage, Orderly
    <3>5. Name[d] > marker'
        BY <3>3, <3>4
    <3>6. lister' = "blobs" /\ loop' = "referred"
        BY <1>2, <1>3, <3>2 DEF managerVars
    <3> QED BY <3>5, <3>6 DEF DocPending
  <2> QED BY <2>1, <2>2
<1>9. DocsHeld' /\ BlocksHeld' /\ ReqsHeld'
    BY <1>2, <1>5, <1>6, <1>7, <1>8, HeldFrame DEF blobVars
<1>10. CycleOK'
    BY <1>1, <1>2, <1>4 DEF CycleOK, ActiveIds, managerVars, storeVars, blobVars
<1> QED BY <1>9, <1>10

LEMMA ListBlocksStep ==
    ASSUME GCInv, ListBlocks
    PROVE  DocsHeld' /\ BlocksHeld' /\ ReqsHeld' /\ CycleOK'
<1>1. GCTypeOK /\ CycleOK
    BY DEF GCInv
<1>2. /\ loop = "referred" /\ lister = "blocks" /\ all' = all \ BlockRefs
      /\ UNCHANGED <<managerVars, storeVars, blobVars, serving, req, marker, victim>>
    BY DEF ListBlocks
<1>3. \A e : Spared(e) => Spared(e)'
    BY <1>2 DEF Spared, ActiveIds, storeVars
<1>4. \A e : (Kept(e)' <=> Kept(e)) /\ (Protected(e)' <=> Protected(e))
    BY <1>2 DEF Kept, Protected, managerVars, storeVars
<1>5. \A b \in blocks : Spared(b[2])'
    BY <1>2 DEF Spared, BlockRefs, blobVars
<1>6. \A d : ~DocPending(d)
    BY <1>2 DEF DocPending
<1>7. DocsHeld' /\ BlocksHeld' /\ ReqsHeld'
    BY <1>2, <1>3, <1>4, <1>5, <1>6, HeldFrame DEF blobVars
<1>8. CycleOK'
    BY <1>1, <1>2 DEF CycleOK, ActiveIds, managerVars, storeVars, blobVars
<1> QED BY <1>7, <1>8

\* Steps of the life cycle that change neither the extents nor the list.
\* The listing is left only when it is complete.
LEMMA LifeStep ==
    ASSUME GCInv, Orderly,
           \/ EndMark \/ EndSweep \/ EndSleep \/ EndLoop \/ StartGC
           \/ \E c \in Closers : CloseGC(c)
    PROVE  DocsHeld' /\ BlocksHeld' /\ ReqsHeld' /\ CycleOK'
<1>1. GCTypeOK /\ CycleOK /\ ManagerInv
    BY DEF GCInv
<1>2. UNCHANGED <<storeVars, blobVars, req, cycleVars>>
    BY DEF EndMark, EndSweep, EndSleep, EndLoop, StartGC, CloseGC
<1>3. loop = "referred" => loop' = "referred" \/ lister = "done"
    BY <1>1 DEF EndMark, EndSweep, EndSleep, EndLoop, StartGC, CloseGC, Swept, Wake, LoopClosed,
               Start, Initialized, InitFails, Close, CycleOK, Orderly, ManagerInv,
               StartingIsInitializing
<1>4. loop' = "unlink" <=> loop = "unlink"
    BY <1>1 DEF EndMark, EndSweep, EndSleep, EndLoop, StartGC, CloseGC, Swept, Wake, LoopClosed,
               Start, Initialized, InitFails, Close, GotReferredExtents, ManagerInv,
               LoopMatchesStatus, StartingIsInitializing
<1>5. loop' = "referred" => loop = "referred" /\ status' = "Running"
    BY <1>1 DEF EndMark, EndSweep, EndSleep, EndLoop, StartGC, CloseGC, Swept, Wake, LoopClosed,
               Start, Initialized, InitFails, Close, GotReferredExtents, CycleOK, Orderly,
               ManagerInv, LoopMatchesStatus, StartingIsInitializing
<1>6. loop' \notin {"referred", "sweep", "unlink"} => all = {}
    BY <1>1 DEF EndMark, EndSweep, EndSleep, EndLoop, StartGC, CloseGC, Swept, Wake, LoopClosed,
               Start, Initialized, InitFails, Close, GotReferredExtents, CycleOK,
               ManagerInv, LoopMatchesStatus, StartingIsInitializing
<1>7. \A e : /\ Kept(e)' <=> Kept(e)
             /\ Spared(e)' <=> Spared(e)
             /\ Protected(e)' <=> Protected(e)
    BY <1>2, <1>4 DEF Kept, Spared, Protected, ActiveIds, storeVars, cycleVars
<1>8. /\ BlocksPending => BlocksPending'
      /\ \A d : DocPending(d) => DocPending(d)'
    BY <1>2, <1>3 DEF BlocksPending, DocPending, cycleVars
<1>9. DocsHeld' /\ BlocksHeld' /\ ReqsHeld'
    BY <1>2, <1>7, <1>8, HeldFrame DEF blobVars
<1>10. CycleOK'
    BY <1>1, <1>2, <1>4, <1>5, <1>6 DEF CycleOK, ActiveIds, storeVars, blobVars, cycleVars
<1> QED BY <1>9, <1>10

\* When an unlink() is issued the listing is over, so whatever is referred to
\* or under way is spared, and the victim is none of it.
LEMMA SweepStep ==
    ASSUME GCInv, NEW e \in Extents, SkipActive(e) \/ UnlinkExtent(e)
    PROVE  DocsHeld' /\ BlocksHeld' /\ ReqsHeld' /\ CycleOK'
<1>1. GCTypeOK /\ CycleOK
    BY DEF GCInv
<1>2. /\ loop = "sweep" /\ e \in all /\ all' = all \ {e} /\ UNCHANGED <<storeVars, blobVars, req>>
      /\ \/ loop' = "sweep" /\ UNCHANGED <<status, victim>>
         \/ loop' = "unlink" /\ victim' = e /\ e \notin ActiveIds /\ UNCHANGED status
    BY DEF SkipActive, UnlinkExtent, Unlink, managerVars
<1>3. \A f : Kept(f) /\ Spared(f) => Kept(f)' /\ Spared(f)'
    BY <1>2 DEF Kept, Spared, ActiveIds, storeVars
<1>4. \A f : Protected(f) => Protected(f)'
    BY <1>2 DEF Protected, storeVars
<1>5. ~BlocksPending /\ \A d : ~DocPending(d)
    BY <1>2 DEF BlocksPending, DocPending
<1>6. DocsHeld' /\ BlocksHeld' /\ ReqsHeld'
    BY <1>2, <1>3, <1>4, <1>5, HeldFrame DEF blobVars
<1>7. CycleOK'
    BY <1>1, <1>2 DEF CycleOK, ActiveIds, storeVars, blobVars
<1> QED BY <1>6, <1>7

\* The end of an unlink() takes away only the victim.
LEMMA UnlinkedStep ==
    ASSUME GCInv, FileUnlinked \/ ExtentDeleted \/ UnlinkFails
    PROVE  DocsHeld' /\ BlocksHeld' /\ ReqsHeld' /\ CycleOK'
<1>1. GCTypeOK /\ CycleOK
    BY DEF GCInv
<1>2. /\ loop = "unlink" /\ (loop' = "sweep" \/ UNCHANGED <<loop, victim>>)
      /\ UNCHANGED <<status, active, full, usedIds, blobs, blocks, req, all, lister, marker>>
      /\ disk' = disk \/ disk' = disk \ {victim}
      /\ extents' = extents \/ extents' = [extents EXCEPT ![victim] = "none"]
    BY DEF FileUnlinked, ExtentDeleted, UnlinkFails, Unlinked, managerVars, storeVars, blobVars,
           cycleVars
<1>3. \A f \in Extents : f # victim => extents'[f] = extents[f]
    BY <1>1, <1>2 DEF GCTypeOK
<1>4. \A f \in Extents : Kept(f) => Kept(f)'
    BY <1>2, <1>3 DEF Kept
<1>5. \A f : Spared(f) => Spared(f)'
    BY <1>2 DEF Spared, ActiveIds
<1>6. \A f \in Extents : Kept(f) /\ Protected(f) => Protected(f)'
    BY <1>2, <1>3 DEF Protected, Kept
<1>7. ~BlocksPending /\ \A d : ~DocPending(d)
    BY <1>2 DEF BlocksPending, DocPending
<1>8. DocsHeld' /\ BlocksHeld' /\ ReqsHeld'
    BY <1>2, <1>4, <1>5, <1>6, <1>7, HeldFrame
<1>9. CycleOK'
  <2>1. \A f \in Extents : extents'[f] # "none" => f \in usedIds'
    <3>1. \A f \in Extents : extents'[f] # "none" => extents[f] # "none"
        BY <1>1, <1>2 DEF GCTypeOK
    <3> QED BY <1>1, <1>2, <3>1 DEF CycleOK
  <2>2. Sql => \A f \in Extents : extents'[f] # "unstamped"
      BY <1>1, <1>2 DEF CycleOK, GCTypeOK
  <2> QED BY <1>1, <1>2, <2>1, <2>2 DEF CycleOK, ActiveIds
<1> QED BY <1>8, <1>9

\* After a failed cycle, and after a restart, there is no list.
LEMMA ResetStep ==
    ASSUME GCInv, FailCycle \/ Restart
    PROVE  DocsHeld' /\ BlocksHeld' /\ ReqsHeld' /\ CycleOK'
<1>1. GCTypeOK /\ CycleOK /\ DocsHeld /\ BlocksHeld /\ ReqsHeld
    BY DEF GCInv
<1>2. /\ loop' = "off" /\ all' = {} /\ UNCHANGED <<extents, disk, blobs, blocks, req>>
      /\ usedIds \subseteq usedIds'
    BY <1>1 DEF FailCycle, LoopFails, Restart, Recreated, CycleOK, storeVars, blobVars, cycleVars
<1>3. \A f : Kept(f) => Kept(f)' /\ Spared(f)'
    BY <1>2 DEF Kept, Spared
<1>4. \A d \in Docs : DocRefs(d)' = DocRefs(d)
    BY <1>2 DEF DocRefs
<1>5. DocsHeld' /\ BlocksHeld'
    BY <1>1, <1>2, <1>3, <1>4 DEF DocsHeld, BlocksHeld
<1>6. ReqsHeld'
  <2>1. CASE FailCycle
      BY <1>1, <1>2, <1>3, <2>1 DEF FailCycle, storeVars, ReqsHeld, Protected
  <2>2. CASE Restart
      BY <1>2, <2>2 DEF Restart, InFlight, ReqsHeld
  <2> QED BY <2>1, <2>2
<1>7. ActiveIds' \subseteq usedIds'
  <2>1. CASE FailCycle
      BY <1>1, <2>1 DEF FailCycle, storeVars, CycleOK, ActiveIds
  <2>2. CASE Restart
      BY <2>2 DEF Restart, ActiveIds
  <2> QED BY <2>1, <2>2
<1>8. CycleOK'
    BY <1>1, <1>2, <1>7 DEF CycleOK
<1> QED BY <1>5, <1>6, <1>8

\* Every step keeps the inductive invariant.
LEMMA GCInvStep == Orderly /\ GCInv /\ [GCNext]_gcVars => GCInv'
<1> SUFFICES ASSUME Orderly, GCInv, [GCNext]_gcVars PROVE GCInv'
    OBVIOUS
<1> DEFINE Held == DocsHeld' /\ BlocksHeld' /\ ReqsHeld' /\ CycleOK'
<1>1. ManagerInv'
    BY StepIsManagerStep, ManagerStepInv DEF GCInv
<1>2. GCTypeOK'
    BY <1>1, GCTypeStep DEF GCInv
<1>3. ASSUME NEW r \in Reqs, RequestFails(r) PROVE Held
  <2>1. /\ \A q \in Reqs : req'[q].pc = "appended" => req'[q] = req[q]
        /\ UNCHANGED <<managerVars, storeVars, cycleVars, blobs, blocks>>
      BY <1>3 DEF RequestFails, RequestEnds, blobVars, GCInv, GCTypeOK
  <2>2. \A d \in Docs : DocRefs(d)' = DocRefs(d) /\ (blobs'[d].state = "none" => blobs'[d] = NoDoc)
      BY <2>1 DEF DocRefs, GCInv, CycleOK
  <2> QED BY <2>1, <2>2, RequestFrame
<1>4. CASE UNCHANGED gcVars
  <2>1. /\ \A q \in Reqs : req'[q].pc = "appended" => req'[q] = req[q]
        /\ UNCHANGED <<managerVars, storeVars, cycleVars, blobs, blocks>>
      BY <1>4 DEF gcVars, blobVars
  <2>2. \A d \in Docs : DocRefs(d)' = DocRefs(d) /\ (blobs'[d].state = "none" => blobs'[d] = NoDoc)
      BY <2>1 DEF DocRefs, GCInv, CycleOK
  <2>3. Held
      BY <2>1, <2>2, RequestFrame
  <2> QED BY <1>1, <1>2, <2>3 DEF GCInv
<1>5. CASE GCNext
  <2> SUFFICES Held
      BY <1>1, <1>2 DEF GCInv
  <2>1. CASE \E r \in Reqs : AppendExtent(r) \/ AppendFails(r) \/ RequestFails(r)
      BY <1>3, <2>1, AppendStep, AppendFailsStep
  <2>2. CASE \/ \E r \in Reqs, d \in Docs : CreateBlob(r, d) \/ StageBlock(r, d) \/ AppendBlock(r, d)
             \/ \E d \in Docs : CommitBlockList(d) \/ DeleteBlob(d)
             \/ \E src, d \in Docs : CopyBlob(src, d)
      BY <2>2, RequestStep
  <2>3. CASE \E e \in Extents : ProtectionEnds(e)
      BY <2>3, ProtectionStep
  <2>4. CASE GetAllExtents \/ ListBlobs \/ ListBlocks
      BY <2>4, GetAllStep, ListBlobsStep, ListBlocksStep
  <2>5. CASE \/ EndMark \/ EndSweep \/ EndSleep \/ EndLoop \/ StartGC
             \/ \E c \in Closers : CloseGC(c)
      BY <2>5, LifeStep
  <2>6. CASE \E e \in Extents : SkipActive(e) \/ UnlinkExtent(e)
      BY <2>6, SweepStep
  <2>7. CASE FileUnlinked \/ ExtentDeleted \/ UnlinkFails \/ FailCycle \/ Restart
      BY <2>7, UnlinkedStep, ResetStep
  <2> QED BY <1>5, <2>1, <2>2, <2>3, <2>4, <2>5, <2>6, <2>7 DEF GCNext, CycleStep
<1> QED BY <1>4, <1>5

----------------------------------------------------------------------------
(* The theorems.                                                           *)

\* Whatever the provisos, the variables keep their types: ids are extents,
\* and a request under way always knows where its payload is.
THEOREM GCTypeCorrect == GCSpec => []GCTypeOK
<1>1. GCInit => ManagerInv /\ GCTypeOK
    BY GCInvInit DEF GCInv
<1>2. ManagerInv /\ GCTypeOK /\ [GCNext]_gcVars => (ManagerInv /\ GCTypeOK)'
    BY StepIsManagerStep, ManagerStepInv, GCTypeStep
<1> QED BY <1>1, <1>2, PTL DEF GCSpec

\* The inductive invariant of mark and sweep.
THEOREM GCInvariant ==
    ASSUME Orderly
    PROVE  GCSpec => []GCInv
<1>1. GCInit => GCInv
    BY GCInvInit
<1>2. GCInv /\ [GCNext]_gcVars => GCInv'
    BY GCInvStep
<1> QED BY <1>1, <1>2, PTL DEF GCSpec

\* Under the provisos the collector never deletes an extent that a blob, a
\* snapshot, an uncommitted block or a request under way needs, with the Loki
\* stores and with the SQL stores, whatever their sizes and numbers.
THEOREM ReferredKept ==
    ASSUME Orderly
    PROVE  GCSpec => []ReferredOnDisk
<1>1. GCInv => ReferredOnDisk
    BY DEF GCInv, ReferredOnDisk, Referred, BlockRefs, InFlight, DocsHeld, BlocksHeld, ReqsHeld, Kept
<1>2. GCSpec => []GCInv
    BY GCInvariant
<1> QED BY <1>1, <1>2, PTL
=============================================================================
