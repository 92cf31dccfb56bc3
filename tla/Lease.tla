------------------------------- MODULE Lease -------------------------------
(***************************************************************************)
(* The lease of a blob or of a container: the state classes of             *)
(* src/blob/lease (LeaseFactory and the five Lease*State classes) and the  *)
(* validators and syncers that storage operations apply to a lease.        *)
(*                                                                         *)
(* A lease is the ILease record.  A method of a state class becomes two    *)
(* operators: a guard (XxxAllowed: the method returns instead of throwing) *)
(* and the lease it returns.  Times and durations are integers counted in  *)
(* one unit; `undefined' is None.                                          *)
(***************************************************************************)
EXTENDS Integers

CONSTANTS
    None,            \* undefined
    LeaseIds,        \* the lease ids clients and the server may use
    Lowercase,       \* id.toLowerCase(), a function on LeaseIds
    MinDuration,     \* 15: shortest fixed lease
    MaxDuration,     \* 60: longest fixed lease
    MaxBreakPeriod   \* 60: longest break period

\* ILease
ILease ==
    [leaseId              : LeaseIds \cup {None},
     leaseState           : {"available", "leased", "expired", "breaking", "broken"},
     leaseStatus          : {"locked", "unlocked"},
     leaseDurationType    : {"infinite", "fixed", None},
     leaseDurationSeconds : Int \cup {None},
     leaseExpireTime      : Int \cup {None},
     leaseBreakTime       : Int \cup {None}]

ASSUME LeaseAssumption ==
    /\ None \notin Int
    /\ None \notin LeaseIds
    /\ None \notin {"infinite", "fixed"}
    /\ None \notin ILease
    /\ Lowercase \in [LeaseIds -> LeaseIds]
    /\ MinDuration \in Nat \ {0}
    /\ MaxDuration \in Nat
    /\ MinDuration =< MaxDuration
    /\ MaxBreakPeriod \in Nat \ {0}

Infinite == -1

----------------------------------------------------------------------------
(* The leases the state classes build.                                     *)

AvailableLease ==
    [leaseId |-> None, leaseState |-> "available", leaseStatus |-> "unlocked",
     leaseDurationType |-> None, leaseDurationSeconds |-> None,
     leaseExpireTime |-> None, leaseBreakTime |-> None]

InfiniteLease(id) ==
    [leaseId |-> id, leaseState |-> "leased", leaseStatus |-> "locked",
     leaseDurationType |-> "infinite", leaseDurationSeconds |-> None,
     leaseExpireTime |-> None, leaseBreakTime |-> None]

FixedLease(id, duration, expireTime) ==
    [leaseId |-> id, leaseState |-> "leased", leaseStatus |-> "locked",
     leaseDurationType |-> "fixed", leaseDurationSeconds |-> duration,
     leaseExpireTime |-> expireTime, leaseBreakTime |-> None]

\* Faulty variant: expiry clears the duration too.
ExpiredLeaseNoDuration(id, duration) ==
    [leaseId |-> id, leaseState |-> "expired", leaseStatus |-> "unlocked",
     leaseDurationType |-> None, leaseDurationSeconds |-> None,
     leaseExpireTime |-> None, leaseBreakTime |-> None]

ExpiredLease(id, duration) ==
    [leaseId |-> id, leaseState |-> "expired", leaseStatus |-> "unlocked",
     leaseDurationType |-> None, leaseDurationSeconds |-> duration,
     leaseExpireTime |-> None, leaseBreakTime |-> None]

BreakingLease(id, breakTime) ==
    [leaseId |-> id, leaseState |-> "breaking", leaseStatus |-> "locked",
     leaseDurationType |-> None, leaseDurationSeconds |-> None,
     leaseExpireTime |-> None, leaseBreakTime |-> breakTime]

BrokenLease(id) ==
    [leaseId |-> id, leaseState |-> "broken", leaseStatus |-> "unlocked",
     leaseDurationType |-> None, leaseDurationSeconds |-> None,
     leaseExpireTime |-> None, leaseBreakTime |-> None]

----------------------------------------------------------------------------
(* LeaseFactory.createLeaseState: what a request that arrived at startTime *)
(* sees of the stored lease.  A Leased lease whose time is over has become *)
(* Expired, a Breaking one Broken.                                         *)

CreateLeaseState(lease, startTime) ==
    CASE /\ lease.leaseState = "leased"
         /\ lease.leaseExpireTime # None
         /\ ~(startTime < lease.leaseExpireTime)
              -> ExpiredLease(lease.leaseId, lease.leaseDurationSeconds)
      [] /\ lease.leaseState = "breaking"
         /\ ~(startTime < lease.leaseBreakTime)
              -> BrokenLease(lease.leaseId)
      [] OTHER -> lease

\* The RangeErrors of the constructors: Constructible(lease) is the negation
\* of their conditions, for the class createLeaseState chooses.  (Their
\* conditions on startTime are those by which it chooses.)
LeasedConstructible(lease) ==
    /\ lease.leaseStatus = "locked"
    /\ lease.leaseId # None
    /\ lease.leaseDurationType # None
    /\ lease.leaseBreakTime = None

\* LeaseExpiredState from a Leased lease that ran out.
RunOutConstructible(lease) ==
    lease.leaseExpireTime # None =>
        /\ lease.leaseDurationSeconds \notin {None, Infinite}
        /\ lease.leaseDurationType = "fixed"

ExpiredConstructible(lease) ==
    /\ lease.leaseStatus = "unlocked"
    /\ lease.leaseId # None
    /\ lease.leaseDurationSeconds \notin {None, Infinite}
    /\ lease.leaseDurationType = None
    /\ lease.leaseExpireTime = None
    /\ lease.leaseBreakTime = None

BreakingConstructible(lease) ==
    /\ lease.leaseStatus = "locked"
    /\ lease.leaseId # None
    /\ lease.leaseDurationType = None
    /\ lease.leaseDurationSeconds = None
    /\ lease.leaseExpireTime = None
    /\ lease.leaseBreakTime # None

BrokenConstructible(lease) ==
    /\ lease.leaseStatus = "unlocked"
    /\ lease.leaseId # None
    /\ lease.leaseDurationType = None
    /\ lease.leaseDurationSeconds = None
    /\ lease.leaseExpireTime = None
    /\ lease.leaseBreakTime = None

AvailableConstructible(lease) ==
    /\ lease.leaseStatus = "unlocked"
    /\ lease.leaseId = None
    /\ lease.leaseDurationType = None
    /\ lease.leaseDurationSeconds = None
    /\ lease.leaseExpireTime = None
    /\ lease.leaseBreakTime = None

Constructible(lease) ==
    CASE lease.leaseState = "available" -> AvailableConstructible(lease)
      [] lease.leaseState = "leased"    -> /\ LeasedConstructible(lease)
                                           /\ RunOutConstructible(lease)
      [] lease.leaseState = "expired"   -> ExpiredConstructible(lease)
      [] lease.leaseState = "breaking"  -> BreakingConstructible(lease)
      [] lease.leaseState = "broken"    -> BrokenConstructible(lease)

----------------------------------------------------------------------------
(* The lease operations.  `lease' is the lease seen at startTime.          *)

ValidDuration(duration) ==
    \/ duration = Infinite
    \/ MinDuration =< duration /\ duration =< MaxDuration

\* Faulty variant: a held lease is acquired under any id.
AcquireAllowedAnyId(lease, duration, proposed) ==
    /\ lease.leaseState # "breaking"
    /\ ValidDuration(duration)

\* acquire(duration, proposedLeaseId) of the five states; proposed is None
\* when the request proposes no id.
AcquireAllowed(lease, duration, proposed) ==
    /\ lease.leaseState # "breaking"
    /\ lease.leaseState = "leased" => proposed = lease.leaseId
    /\ ValidDuration(duration)

\* `id' is the proposed id, or a uuid when there is none.
Acquired(startTime, duration, id) ==
    IF duration = Infinite
    THEN InfiniteLease(id)
    ELSE FixedLease(id, duration, startTime + duration)

\* renew(leaseId).  LeaseExpiredState.renew() takes no id.
RenewAllowed(lease, leaseId) ==
    \/ lease.leaseState = "leased" /\ lease.leaseId = leaseId
    \/ lease.leaseState = "expired"

\* Faulty variant: a renewal lasts MaxDuration.
RenewedForMax(lease, startTime) ==
    IF lease.leaseDurationType = "infinite"
    THEN lease
    ELSE FixedLease(lease.leaseId, lease.leaseDurationSeconds,
                    startTime + MaxDuration)

Renewed(lease, startTime) ==
    IF lease.leaseDurationType = "infinite"
    THEN lease
    ELSE FixedLease(lease.leaseId, lease.leaseDurationSeconds,
                    startTime + lease.leaseDurationSeconds)

\* change(leaseId, proposedLeaseId)
ChangeAllowed(lease, leaseId, proposed) ==
    /\ lease.leaseState = "leased"
    /\ lease.leaseId \in {leaseId, proposed}

Changed(lease, proposed) == [lease EXCEPT !.leaseId = proposed]

\* release(leaseId)
ReleaseAllowed(lease, leaseId) ==
    /\ lease.leaseState # "available"
    /\ lease.leaseId = leaseId

\* break(breakPeriod).  period is None when the header is missing.  A period
\* the code lets through to LeaseBreakingState's constructor fails there
\* unless the break time lies in the future.
BreakAllowed(lease, period) ==
    CASE lease.leaseState = "available" -> FALSE
      [] lease.leaseState = "leased" ->
            IF lease.leaseDurationType = "infinite"
            THEN period = None \/ period >= 0
            ELSE period = None \/ (0 =< period /\ period =< MaxBreakPeriod)
      [] lease.leaseState = "breaking" ->
            period = None \/ (0 =< period /\ period =< MaxBreakPeriod)
      [] OTHER -> TRUE

\* minDate
MinTime(a, b) == IF a < b THEN a ELSE b

\* Faulty variant: a break period longer than the rest of the lease counts.
LeasedBreakNoMin(lease, startTime, period) ==
    CASE period = 0 -> BrokenLease(lease.leaseId)
      [] period = None /\ lease.leaseDurationType = "infinite" ->
            BrokenLease(lease.leaseId)
      [] period = None /\ lease.leaseDurationType # "infinite" ->
            BreakingLease(lease.leaseId, lease.leaseExpireTime)
      [] OTHER -> BreakingLease(lease.leaseId, startTime + period)

LeasedBreak(lease, startTime, period) ==
    CASE period = 0 -> BrokenLease(lease.leaseId)
      [] period = None /\ lease.leaseDurationType = "infinite" ->
            BrokenLease(lease.leaseId)
      [] period = None /\ lease.leaseDurationType # "infinite" ->
            BreakingLease(lease.leaseId, lease.leaseExpireTime)
      [] OTHER ->
            IF lease.leaseDurationType = "infinite"
            THEN BreakingLease(lease.leaseId, startTime + period)
            ELSE BreakingLease(lease.leaseId,
                     MinTime(lease.leaseExpireTime, startTime + period))

BreakingBreak(lease, startTime, period) ==
    CASE period = None -> lease
      [] period = 0 -> BrokenLease(lease.leaseId)
      [] OTHER -> BreakingLease(lease.leaseId,
                      MinTime(lease.leaseBreakTime, startTime + period))

Break(lease, startTime, period) ==
    CASE lease.leaseState = "leased"   -> LeasedBreak(lease, startTime, period)
      [] lease.leaseState = "breaking" -> BreakingBreak(lease, startTime, period)
      [] OTHER                         -> BrokenLease(lease.leaseId)

----------------------------------------------------------------------------
(* Validators and syncers.                                                 *)

\* BlobWriteLeaseValidator (ContainerDeleteLeaseValidator is the same).
WriteLeaseValid(lease, leaseId) ==
    IF lease.leaseStatus = "locked"
    THEN /\ leaseId # None
         /\ lease.leaseId # None => Lowercase[leaseId] = Lowercase[lease.leaseId]
    ELSE leaseId = None

\* BlobReadLeaseValidator, ContainerReadLeaseValidator
ReadLeaseValid(lease, leaseId) ==
    leaseId # None =>
        /\ lease.leaseStatus = "locked"
        /\ lease.leaseId # None => Lowercase[leaseId] = Lowercase[lease.leaseId]

\* Faulty variant: a write keeps a lease that is over.
WriteLeaseSyncKeep(lease) == lease

\* BlobWriteLeaseSyncer: a write frees a lease that is over.
WriteLeaseSync(lease) ==
    IF lease.leaseState \in {"expired", "broken"} THEN AvailableLease ELSE lease
=============================================================================
