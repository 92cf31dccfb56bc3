-------------------------- MODULE BlobLeaseProofs --------------------------
(***************************************************************************)
(* Proofs about BlobLease, for every set of lease ids, every duration and  *)
(* break period a client may send, and every delay of a request.           *)
(***************************************************************************)
EXTENDS BlobLease, TLAPS

\* What a lease needs beyond Constructible so that every operation yields a
\* Constructible lease again: a lease that is not infinite has an expiry
\* (break takes it as the break time, renew adds its duration), an infinite
\* one neither an expiry nor a duration.
SoundLease(lease) ==
    /\ lease \in ILease
    /\ Constructible(lease)
    /\ lease.leaseState = "leased" =>
          /\ lease.leaseDurationType = "infinite" <=> lease.leaseExpireTime = None
          /\ lease.leaseDurationType = "infinite" => lease.leaseDurationSeconds = None

\* The stored term: the duration is the granted one, and the lease ends
\* within it, broken or not.
TermOf(lease, dur, time) ==
    /\ lease.leaseState \in {"leased", "expired"} => lease.leaseDurationSeconds = dur
    /\ lease.leaseExpireTime # None => lease.leaseExpireTime =< time + dur
    /\ (lease.leaseBreakTime # None /\ dur # None) => lease.leaseBreakTime =< time + dur

\* The inductive invariant.
IInv ==
    /\ TypeOK
    /\ blob # None => SoundLease(blob) /\ TermOf(blob, granted, now)

----------------------------------------------------------------------------
(* The state classes preserve SoundLease.                                  *)

\* The AvailableLease a release or a reset stores is sound.
LEMMA AvailableSound ==
    SoundLease(AvailableLease) /\ \A d, n : TermOf(AvailableLease, d, n)
BY LeaseAssumption
   DEF SoundLease, ILease, Constructible, AvailableConstructible, AvailableLease, TermOf

\* createLeaseState on a sound lease yields a sound lease of the same term.
LEMMA CreateSound ==
    ASSUME NEW lease, SoundLease(lease), NEW t \in Int,
           NEW d, NEW n \in Int, TermOf(lease, d, n)
    PROVE  SoundLease(CreateLeaseState(lease, t)) /\ TermOf(CreateLeaseState(lease, t), d, n)
<1>1. CASE /\ lease.leaseState = "leased"
           /\ lease.leaseExpireTime # None
           /\ ~(t < lease.leaseExpireTime)
  <2>1. CreateLeaseState(lease, t) = ExpiredLease(lease.leaseId, lease.leaseDurationSeconds)
    BY <1>1 DEF CreateLeaseState
  <2>2. /\ lease.leaseId \in LeaseIds
        /\ lease.leaseDurationSeconds \in Int \ {Infinite}
    BY <1>1 DEF SoundLease, ILease, Constructible, LeasedConstructible, RunOutConstructible
  <2> QED BY <1>1, <2>1, <2>2, LeaseAssumption
          DEF SoundLease, ILease, Constructible, ExpiredConstructible, ExpiredLease, TermOf
<1>2. CASE /\ lease.leaseState = "breaking"
           /\ ~(t < lease.leaseBreakTime)
  <2>1. CreateLeaseState(lease, t) = BrokenLease(lease.leaseId)
    BY <1>2 DEF CreateLeaseState
  <2>2. lease.leaseId \in LeaseIds
    BY <1>2 DEF SoundLease, ILease, Constructible, BreakingConstructible
  <2> QED BY <2>1, <2>2, LeaseAssumption
          DEF SoundLease, ILease, Constructible, BrokenConstructible, BrokenLease, TermOf
<1>3. CASE /\ ~(/\ lease.leaseState = "leased"
                /\ lease.leaseExpireTime # None
                /\ ~(t < lease.leaseExpireTime))
           /\ ~(/\ lease.leaseState = "breaking"
                /\ ~(t < lease.leaseBreakTime))
  BY <1>3 DEF CreateLeaseState
<1> QED BY <1>1, <1>2, <1>3

\* A lease is Leased after acquire, with the granted duration as its term.
LEMMA AcquireSound ==
    ASSUME NEW id \in LeaseIds, NEW duration \in Int, ValidDuration(duration),
           NEW t \in Int, NEW n \in Int, t =< n
    PROVE  /\ SoundLease(Acquired(t, duration, id))
           /\ TermOf(Acquired(t, duration, id),
                     Acquired(t, duration, id).leaseDurationSeconds, n)
<1>1. CASE duration = Infinite
  BY <1>1, LeaseAssumption
     DEF SoundLease, ILease, Constructible, LeasedConstructible, RunOutConstructible,
         Acquired, InfiniteLease, TermOf
<1>2. CASE duration # Infinite
  BY <1>2, LeaseAssumption
     DEF SoundLease, ILease, Constructible, LeasedConstructible, RunOutConstructible,
         Acquired, FixedLease, TermOf, ValidDuration, Infinite
<1> QED BY <1>1, <1>2

\* A renewal keeps the duration and ends within it.
LEMMA RenewSound ==
    ASSUME NEW lease, SoundLease(lease), NEW id, RenewAllowed(lease, id),
           NEW t \in Int, NEW n \in Int, t =< n, NEW d, TermOf(lease, d, n)
    PROVE  SoundLease(Renewed(lease, t)) /\ TermOf(Renewed(lease, t), d, n)
<1>1. CASE lease.leaseDurationType = "infinite"
  BY <1>1 DEF Renewed
<1>2. CASE lease.leaseDurationType # "infinite"
  <2>1. /\ lease.leaseId \in LeaseIds
        /\ lease.leaseDurationSeconds \in Int \ {Infinite}
        /\ lease.leaseDurationSeconds = d
    BY <1>2 DEF RenewAllowed, SoundLease, ILease, Constructible, LeasedConstructible,
                RunOutConstructible, ExpiredConstructible, TermOf
  <2> QED BY <1>2, <2>1, LeaseAssumption
          DEF SoundLease, ILease, Constructible, LeasedConstructible, RunOutConstructible,
              Renewed, FixedLease, TermOf
<1> QED BY <1>1, <1>2

\* A change replaces the id and nothing else.
LEMMA ChangeSound ==
    ASSUME NEW lease, SoundLease(lease), NEW id, NEW proposed \in LeaseIds,
           ChangeAllowed(lease, id, proposed), NEW n, NEW d, TermOf(lease, d, n)
    PROVE  SoundLease(Changed(lease, proposed)) /\ TermOf(Changed(lease, proposed), d, n)
BY LeaseAssumption
   DEF SoundLease, ILease, Constructible, LeasedConstructible, RunOutConstructible,
       ChangeAllowed, Changed, TermOf

\* A break leaves a Broken lease or a Breaking one that ends within the term.
LEMMA BreakSound ==
    ASSUME NEW lease, SoundLease(lease), NEW period \in Int \cup {None},
           BreakAllowed(lease, period), NEW t \in Int, NEW n \in Int,
           NEW d \in Int \cup {None}, TermOf(lease, d, n)
    PROVE  SoundLease(Break(lease, t, period)) /\ TermOf(Break(lease, t, period), d, n)
<1>1. lease.leaseId \in LeaseIds
  BY DEF SoundLease, ILease, Constructible, BreakAllowed, LeasedConstructible,
         ExpiredConstructible, BreakingConstructible, BrokenConstructible
<1>2. SoundLease(BrokenLease(lease.leaseId)) /\ TermOf(BrokenLease(lease.leaseId), d, n)
  BY <1>1, LeaseAssumption
     DEF SoundLease, ILease, Constructible, BrokenConstructible, BrokenLease, TermOf
<1>3. ASSUME NEW time \in Int, d # None => time =< n + d
      PROVE  /\ SoundLease(BreakingLease(lease.leaseId, time))
             /\ TermOf(BreakingLease(lease.leaseId, time), d, n)
  <2>1. SoundLease(BreakingLease(lease.leaseId, time))
    BY <1>1, <1>3, LeaseAssumption
       DEF SoundLease, ILease, Constructible, BreakingConstructible, BreakingLease
  <2>2. TermOf(BreakingLease(lease.leaseId, time), d, n)
    BY <1>3 DEF BreakingLease, TermOf
  <2> QED BY <2>1, <2>2
<1>4. CASE lease.leaseState = "leased"
  <2>1. Break(lease, t, period) = LeasedBreak(lease, t, period)
    BY <1>4 DEF Break
  <2>2. lease.leaseDurationType # "infinite" => lease.leaseExpireTime \in Int
    BY <1>4 DEF SoundLease, ILease
  <2>7. lease.leaseDurationType = "infinite" => d = None
    BY <1>4, LeaseAssumption
       DEF SoundLease, ILease, Constructible, LeasedConstructible, RunOutConstructible, TermOf
  <2>8. lease.leaseDurationType # "infinite" => d \in Int /\ lease.leaseExpireTime =< n + d
    BY <1>4, <2>2, LeaseAssumption
       DEF TermOf, SoundLease, ILease, Constructible, LeasedConstructible, RunOutConstructible
  <2>3. CASE period = 0 \/ (period = None /\ lease.leaseDurationType = "infinite")
    BY <2>1, <2>3, <1>2, LeaseAssumption DEF LeasedBreak
  <2>4. CASE period = None /\ lease.leaseDurationType # "infinite"
    <3>1. LeasedBreak(lease, t, period) = BreakingLease(lease.leaseId, lease.leaseExpireTime)
      BY <2>4, LeaseAssumption DEF LeasedBreak
    <3> QED BY <2>1, <2>2, <2>4, <2>8, <3>1, <1>3
  <2>5. CASE period # 0 /\ period # None /\ lease.leaseDurationType = "infinite"
    <3>1. LeasedBreak(lease, t, period) = BreakingLease(lease.leaseId, t + period)
      BY <2>5 DEF LeasedBreak
    <3>2. t + period \in Int
      BY <2>5
    <3> QED BY <2>1, <2>5, <2>7, <3>1, <3>2, <1>3
  <2>6. CASE period # 0 /\ period # None /\ lease.leaseDurationType # "infinite"
    <3>1. LeasedBreak(lease, t, period) =
            BreakingLease(lease.leaseId, MinTime(lease.leaseExpireTime, t + period))
      BY <2>6 DEF LeasedBreak
    <3>2. /\ MinTime(lease.leaseExpireTime, t + period) \in Int
          /\ MinTime(lease.leaseExpireTime, t + period) =< n + d
      BY <2>2, <2>6, <2>8 DEF MinTime
    <3> QED BY <2>1, <3>1, <3>2, <1>3
  <2> QED BY <2>3, <2>4, <2>5, <2>6
<1>5. CASE lease.leaseState = "breaking"
  <2>1. Break(lease, t, period) = BreakingBreak(lease, t, period)
    BY <1>5 DEF Break
  <2>2. lease.leaseBreakTime \in Int /\ (d # None => lease.leaseBreakTime =< n + d)
    BY <1>5, LeaseAssumption
       DEF SoundLease, ILease, Constructible, BreakingConstructible, TermOf
  <2>3. CASE period = None
    <3>1. BreakingBreak(lease, t, period) = lease
      BY <2>3, LeaseAssumption DEF BreakingBreak
    <3> QED BY <2>1, <3>1
  <2>4. CASE period = 0
    BY <2>1, <2>4, <1>2, LeaseAssumption DEF BreakingBreak
  <2>5. CASE period # None /\ period # 0
    <3>1. BreakingBreak(lease, t, period) =
            BreakingLease(lease.leaseId, MinTime(lease.leaseBreakTime, t + period))
      BY <2>5 DEF BreakingBreak
    <3>2. /\ MinTime(lease.leaseBreakTime, t + period) \in Int
          /\ d # None => MinTime(lease.leaseBreakTime, t + period) =< n + d
      BY <2>2, <2>5 DEF MinTime
    <3> QED BY <2>1, <3>1, <3>2, <1>3
  <2> QED BY <2>3, <2>4, <2>5
<1>6. CASE lease.leaseState \notin {"leased", "breaking"}
  BY <1>6, <1>2 DEF Break
<1> QED BY <1>4, <1>5, <1>6

\* A write keeps the lease or frees it.
LEMMA WriteSyncSound ==
    ASSUME NEW lease, SoundLease(lease), NEW n, NEW d, TermOf(lease, d, n)
    PROVE  SoundLease(WriteLeaseSync(lease)) /\ TermOf(WriteLeaseSync(lease), d, n)
BY AvailableSound DEF WriteLeaseSync

----------------------------------------------------------------------------
(* The inductive invariant.                                                *)

\* The initial state, without a blob, satisfies the invariant.
LEMMA InitIInv == Init => IInv
<1> SUFFICES ASSUME Init PROVE IInv
  OBVIOUS
<1>1. dirty \in BOOLEAN
  BY DEF Init
<1>2. last \in Response
  BY DEF Init, Response, LeaseIdOption
<1>3. now \in Nat /\ blob \in ILease \cup {None} /\ issued \subseteq Uuids
  BY DEF Init
<1>4. granted \in Int \cup {None} /\ blob = None
  BY DEF Init
<1> QED BY <1>1, <1>2, <1>3, <1>4 DEF IInv, TypeOK

\* What every operation may use of the state before it.
LEMMA SeenSound ==
    ASSUME IInv, NEW t \in StartTimes, blob # None
    PROVE  /\ SoundLease(BlobWithLeaseUpdated(t))
           /\ TermOf(BlobWithLeaseUpdated(t), granted, now)
           /\ t \in Int /\ now \in Int /\ t =< now
<1>1. t \in Int /\ now \in Int /\ t =< now
  BY DEF StartTimes, IInv, TypeOK
<1>2. SoundLease(blob) /\ TermOf(blob, granted, now)
  BY DEF IInv
<1> QED BY <1>1, <1>2, CreateSound DEF BlobWithLeaseUpdated

\* Storing a sound lease of the granted term re-establishes the invariant.
LEMMA StoreSound ==
    ASSUME IInv, NEW lease, blob' = lease, SoundLease(lease),
           now' = now, granted' = granted, TermOf(lease, granted, now),
           issued' = issued, last' \in Response, dirty' \in BOOLEAN
    PROVE  IInv'
<1>1. TypeOK'
  BY DEF IInv, TypeOK, SoundLease
<1>2. SoundLease(blob') /\ TermOf(blob', granted', now')
  OBVIOUS
<1>3. SoundLease(blob)' /\ TermOf(blob, granted, now)'
  BY <1>2 DEF SoundLease, TermOf
<1> QED BY <1>1, <1>3 DEF IInv

LEMMA AcquireStep ==
    ASSUME IInv, NEW t \in StartTimes, NEW duration \in Durations,
           NEW proposed \in LeaseIdOption, AcquireBlobLease(t, duration, proposed)
    PROVE  IInv'
<1> DEFINE seen == BlobWithLeaseUpdated(t)
           ok == AcquireAllowed(seen, duration, proposed)
<1>0. duration \in Int
  BY BlobLeaseAssumption
<1>1. blob # None /\ now' = now
  BY DEF AcquireBlobLease
<1>2. /\ SoundLease(seen) /\ TermOf(seen, granted, now)
      /\ t \in Int /\ now \in Int /\ t =< now
  BY <1>1, SeenSound
<1>3. last' \in Response
  <2>1. Responded("acquire", proposed, ok)
    BY DEF AcquireBlobLease
  <2>2. ok \in BOOLEAN
    BY DEF AcquireAllowed
  <2> QED BY <2>1, <2>2 DEF Responded, Response, AllOps, LeaseOps
<1>4. dirty' \in BOOLEAN
  BY DEF AcquireBlobLease
<1>5. CASE ~ok
  <2>1. blob' = seen /\ issued' = issued /\ granted' = granted
    BY <1>5 DEF AcquireBlobLease
  <2> QED BY <1>1, <1>2, <1>3, <1>4, <2>1, StoreSound
<1>6. CASE ok
  <2>0. ValidDuration(duration)
    BY <1>6 DEF AcquireAllowed
  <2>1. PICK id \in LeaseIds : blob' = Acquired(t, duration, id) /\ issued' \subseteq Uuids
    <3>1. issued \subseteq Uuids
      BY DEF IInv, TypeOK
    <3> QED BY <1>6, <3>1, BlobLeaseAssumption DEF AcquireBlobLease, LeaseIdOption
  <2>2. granted' = blob'.leaseDurationSeconds
    BY <1>6 DEF AcquireBlobLease
  <2>3. SoundLease(blob') /\ TermOf(blob', granted', now)
    BY <1>0, <1>2, <2>0, <2>1, <2>2, AcquireSound
  <2>4. SoundLease(blob)' /\ TermOf(blob, granted, now)'
    BY <1>1, <2>3 DEF SoundLease, TermOf
  <2>5. blob' \in ILease /\ granted' \in Int \cup {None}
    BY <2>2, <2>3 DEF SoundLease, ILease
  <2> QED BY <1>1, <1>3, <1>4, <2>1, <2>4, <2>5 DEF IInv, TypeOK
<1> QED BY <1>5, <1>6

\* The operations that are not lease operations store the lease as it was,
\* as startTime sees it, or freed by a write.
LEMMA KeepStep ==
    ASSUME IInv, NEW t \in StartTimes,
           \/ blob' = AvailableLease
           \/ blob # None /\ blob' \in {blob, BlobWithLeaseUpdated(t),
                                        WriteLeaseSync(BlobWithLeaseUpdated(t)),
                                        WriteLeaseSync(blob)},
           now' = now, granted' = granted, issued' = issued,
           last' \in Response, dirty' \in BOOLEAN
    PROVE  IInv'
<1>1. CASE blob' = AvailableLease
  BY <1>1, AvailableSound, StoreSound
<1>2. CASE blob # None /\ blob' \in {blob, BlobWithLeaseUpdated(t),
                                     WriteLeaseSync(BlobWithLeaseUpdated(t)),
                                     WriteLeaseSync(blob)}
  <2>1. /\ SoundLease(blob) /\ TermOf(blob, granted, now)
        /\ SoundLease(BlobWithLeaseUpdated(t))
        /\ TermOf(BlobWithLeaseUpdated(t), granted, now)
    BY <1>2, SeenSound DEF IInv
  <2>2. SoundLease(blob') /\ TermOf(blob', granted, now)
    BY <1>2, <2>1, WriteSyncSound
  <2> QED BY <2>2, StoreSound
<1> QED BY <1>1, <1>2

\* Every operation preserves the invariant.
LEMMA NextIInv == IInv /\ [Next]_vars => IInv'
<1> SUFFICES ASSUME IInv, [Next]_vars PROVE IInv'
  OBVIOUS
<1> USE DEF Responded, Response, AllOps, WriteOps, LeaseOps, Written
<1>0. dirty \in BOOLEAN
  BY DEF IInv, TypeOK
<1>1. CASE UNCHANGED vars
  BY <1>1 DEF vars, IInv, TypeOK, SoundLease, TermOf
<1>2. CASE Tick
  <2>1. /\ now' = now + 1 /\ blob' = blob /\ issued' = issued
        /\ last' = last /\ granted' = granted /\ dirty' = dirty
    BY <1>2 DEF Tick
  <2>2. TypeOK'
    BY <2>1 DEF IInv, TypeOK
  <2>3. ASSUME blob # None PROVE TermOf(blob, granted, now)'
    <3>1. /\ SoundLease(blob) /\ TermOf(blob, granted, now) /\ now \in Int
          /\ granted \in Int \cup {None}
      BY <2>3 DEF IInv, TypeOK
    <3>2. blob.leaseExpireTime # None => blob.leaseExpireTime \in Int /\ granted \in Int
      BY <3>1 DEF SoundLease, ILease, TermOf, Constructible, LeasedConstructible,
                  RunOutConstructible, AvailableConstructible, ExpiredConstructible,
                  BreakingConstructible, BrokenConstructible
    <3>3. blob.leaseBreakTime # None => blob.leaseBreakTime \in Int
      BY <3>1 DEF SoundLease, ILease
    <3>4. blob'.leaseExpireTime # None => blob'.leaseExpireTime =< now' + granted'
      BY <2>1, <3>1, <3>2 DEF TermOf
    <3>5. (blob'.leaseBreakTime # None /\ granted' # None)
             => blob'.leaseBreakTime =< now' + granted'
      <4> SUFFICES ASSUME blob.leaseBreakTime # None, granted # None
                   PROVE  blob.leaseBreakTime =< (now + 1) + granted
        BY <2>1
      <4>1. blob.leaseBreakTime \in Int /\ granted \in Int /\ blob.leaseBreakTime =< now + granted
        BY <3>1, <3>3 DEF TermOf
      <4> QED BY <3>1, <4>1
    <3> QED BY <2>1, <3>1, <3>4, <3>5 DEF TermOf
  <2> QED BY <2>1, <2>2, <2>3 DEF IInv, SoundLease
<1>3. ASSUME NEW t \in StartTimes, NEW id \in LeaseIdOption, CreateBlob(t, id)
      PROVE  IInv'
  <2>1. dirty' \in BOOLEAN
    BY <1>0, <1>3 DEF CreateBlob
  <2>2. last' \in Response
    BY <1>3 DEF CreateBlob
  <2>3. CASE blob = None
    BY <1>3, <2>1, <2>2, <2>3, KeepStep DEF CreateBlob
  <2>4. CASE blob # None
    BY <1>3, <2>1, <2>2, <2>4, KeepStep DEF CreateBlob
  <2> QED BY <2>3, <2>4
<1>4. ASSUME NEW t \in StartTimes, NEW id \in LeaseIdOption, SetBlobMetadata(t, id)
      PROVE  IInv'
  BY <1>0, <1>4, KeepStep DEF SetBlobMetadata
<1>5. ASSUME NEW t \in StartTimes, NEW id \in LeaseIdOption,
             NEW sameIdLength \in BOOLEAN, StageBlock(t, id, sameIdLength)
      PROVE  IInv'
  <2>1. dirty' \in BOOLEAN
    BY <1>0, <1>5 DEF StageBlock
  <2>2. last' \in Response
    BY <1>5 DEF StageBlock
  <2>3. CASE blob = None
    BY <1>5, <2>1, <2>2, <2>3, KeepStep DEF StageBlock
  <2>4. CASE blob # None
    BY <1>5, <2>1, <2>2, <2>4, KeepStep DEF StageBlock
  <2> QED BY <2>3, <2>4
<1>6. ASSUME NEW t \in StartTimes, NEW id \in LeaseIdOption, StartCopyFromURL(t, id)
      PROVE  IInv'
  <2>1. dirty' \in BOOLEAN
    BY <1>0, <1>6 DEF StartCopyFromURL
  <2>2. last' \in Response
    BY <1>6 DEF StartCopyFromURL
  <2>3. CASE blob = None
    BY <1>6, <2>1, <2>2, <2>3, KeepStep DEF StartCopyFromURL
  <2>4. CASE blob # None
    BY <1>6, <2>1, <2>2, <2>4, KeepStep DEF StartCopyFromURL
  <2> QED BY <2>3, <2>4
<1>7. ASSUME NEW t \in StartTimes, NEW id \in LeaseIdOption, CopyFromURL(t, id)
      PROVE  IInv'
  <2>1. dirty' \in BOOLEAN
    BY <1>0, <1>7 DEF CopyFromURL
  <2>2. last' \in Response
    BY <1>7 DEF CopyFromURL
  <2>3. CASE blob = None
    BY <1>7, <2>1, <2>2, <2>3, KeepStep DEF CopyFromURL
  <2>4. CASE blob # None
    BY <1>7, <2>1, <2>2, <2>4, KeepStep DEF CopyFromURL
  <2> QED BY <2>3, <2>4
<1>8. ASSUME NEW t \in StartTimes, NEW id \in LeaseIdOption, SealBlob(t, id)
      PROVE  IInv'
  BY <1>0, <1>8, KeepStep DEF SealBlob
<1>9. ASSUME NEW t \in StartTimes, NEW id \in LeaseIdOption, DeleteBlob(t, id)
      PROVE  IInv'
  <2>1. CASE blob' = None
    BY <1>9, <2>1 DEF DeleteBlob, IInv, TypeOK
  <2>2. CASE blob' # None
    BY <1>0, <1>9, <2>2, KeepStep DEF DeleteBlob
  <2> QED BY <2>1, <2>2
<1>10. ASSUME NEW t \in StartTimes, NEW id \in LeaseIdOption, DownloadBlob(t, id)
       PROVE  IInv'
  BY <1>0, <1>10, KeepStep DEF DownloadBlob
<1>11. ASSUME NEW t \in StartTimes, NEW duration \in Durations,
              NEW id \in LeaseIdOption, AcquireBlobLease(t, duration, id)
       PROVE  IInv'
  BY <1>11, AcquireStep
<1>12. ASSUME NEW t \in StartTimes, NEW id \in LeaseIds, RenewBlobLease(t, id)
       PROVE  IInv'
  <2> DEFINE seen == BlobWithLeaseUpdated(t)
  <2>1. /\ SoundLease(seen) /\ TermOf(seen, granted, now)
        /\ t \in Int /\ now \in Int /\ t =< now
    BY <1>12, SeenSound DEF RenewBlobLease
  <2>2. SoundLease(blob') /\ TermOf(blob', granted, now)
    BY <1>12, <2>1, RenewSound DEF RenewBlobLease
  <2>3. last' \in Response /\ dirty' \in BOOLEAN
    BY <1>0, <1>12 DEF RenewBlobLease, LeaseIdOption
  <2> QED BY <1>12, <2>2, <2>3, StoreSound DEF RenewBlobLease
<1>13. ASSUME NEW t \in StartTimes, NEW id \in LeaseIds, NEW proposed \in LeaseIds,
              ChangeBlobLease(t, id, proposed)
       PROVE  IInv'
  <2> DEFINE seen == BlobWithLeaseUpdated(t)
  <2>1. SoundLease(seen) /\ TermOf(seen, granted, now)
    BY <1>13, SeenSound DEF ChangeBlobLease
  <2>2. SoundLease(blob') /\ TermOf(blob', granted, now)
    BY <1>13, <2>1, ChangeSound DEF ChangeBlobLease
  <2>3. last' \in Response /\ dirty' \in BOOLEAN
    BY <1>0, <1>13 DEF ChangeBlobLease, LeaseIdOption
  <2> QED BY <1>13, <2>2, <2>3, StoreSound DEF ChangeBlobLease
<1>14. ASSUME NEW t \in StartTimes, NEW id \in LeaseIds, ReleaseBlobLease(t, id)
       PROVE  IInv'
  BY <1>0, <1>14, KeepStep DEF ReleaseBlobLease, LeaseIdOption
<1>15. ASSUME NEW t \in StartTimes, NEW period \in BreakPeriods, BreakBlobLease(t, period)
       PROVE  IInv'
  <2> DEFINE seen == BlobWithLeaseUpdated(t)
  <2>1. /\ SoundLease(seen) /\ TermOf(seen, granted, now) /\ t \in Int
    BY <1>15, SeenSound DEF BreakBlobLease
  <2>4. now \in Int /\ granted \in Int \cup {None}
    BY DEF IInv, TypeOK
  <2>2. SoundLease(blob') /\ TermOf(blob', granted, now)
    BY <1>15, <2>1, <2>4, BreakSound, BlobLeaseAssumption DEF BreakBlobLease
  <2>3. last' \in Response /\ dirty' \in BOOLEAN
    BY <1>0, <1>15 DEF BreakBlobLease, LeaseIdOption
  <2> QED BY <1>15, <2>2, <2>3, StoreSound DEF BreakBlobLease
<1> QED BY <1>1, <1>2, <1>3, <1>4, <1>5, <1>6, <1>7, <1>8, <1>9, <1>10, <1>11,
           <1>12, <1>13, <1>14, <1>15 DEF Next

\* Every reachable state satisfies the inductive invariant.
LEMMA Inductive == Spec => []IInv
BY InitIInv, NextIInv, PTL DEF Spec

\* Type correctness of the blob's lease, the clock and the history.
THEOREM TypeCorrect == Spec => []TypeOK
<1>1. IInv => TypeOK
  BY DEF IInv
<1> QED BY <1>1, Inductive, PTL

\* No sequence of operations, however delayed, stores a lease that makes a
\* Lease*State constructor throw its RangeError.
THEOREM NoRangeError == Spec => []LeaseConstructible
<1>1. IInv => LeaseConstructible
  BY DEF IInv, SoundLease, LeaseConstructible
<1> QED BY <1>1, Inductive, PTL

\* The stored duration is the granted one and a lease that was acquired for
\* a fixed time ends within it, renewed, broken or broken again.
THEOREM TermBounded == Spec => []LeaseTermBounded
<1>1. IInv => LeaseTermBounded
  BY DEF IInv, TermOf, LeaseTermBounded
<1> QED BY <1>1, Inductive, PTL

----------------------------------------------------------------------------
(* Exclusion.                                                              *)

\* The step of LeaseIsExclusive.
ExclusiveStep ==
    Live /\ now' = now =>
        /\ (blob' = None \/ blob'.leaseStatus = "unlocked") =>
              PresentedId \/ last'.op = "break"
        /\ (blob' # None /\ blob'.leaseId # blob.leaseId) => PresentedId
        /\ (last'.op \in WriteOps /\ last'.outcome = "ok") => PresentedId

\* No request sees a lease in force as expired or broken: its startTime is
\* not after the server's clock.
LEMMA LiveSeen ==
    ASSUME IInv, Live, NEW t \in StartTimes
    PROVE  /\ BlobWithLeaseUpdated(t) = blob
           /\ blob.leaseId \in LeaseIds
           /\ blob.leaseState \in {"leased", "breaking"}
           /\ WriteLeaseSync(blob) = blob
<1>1. SoundLease(blob) /\ t \in Int /\ now \in Int /\ t =< now
  BY SeenSound DEF IInv, Live
<1>2. blob.leaseId \in LeaseIds /\ blob.leaseState \in {"leased", "breaking"}
  BY <1>1 DEF Live, SoundLease, ILease, Constructible, LeasedConstructible,
              AvailableConstructible, ExpiredConstructible, BreakingConstructible,
              BrokenConstructible
<1>3. CASE blob.leaseState = "leased"
  BY <1>1, <1>2, <1>3 DEF BlobWithLeaseUpdated, CreateLeaseState, Live, SoundLease,
                          ILease, WriteLeaseSync
<1>4. CASE blob.leaseState = "breaking"
  <2>1. blob.leaseBreakTime \in Int /\ blob.leaseBreakTime # None
    BY <1>1, <1>4 DEF SoundLease, ILease, Constructible, BreakingConstructible
  <2> QED BY <1>1, <1>2, <1>4, <2>1 DEF BlobWithLeaseUpdated, CreateLeaseState, Live,
                                       WriteLeaseSync
<1> QED BY <1>2, <1>3, <1>4

\* An operation that checks the lease in force with BlobWriteLeaseValidator.
LEMMA WriteExclusive ==
    ASSUME IInv, Live, NEW t \in StartTimes, NEW id \in LeaseIdOption,
           last'.leaseId = id,
           last'.outcome = "ok" => WriteLeaseValid(blob, id),
           blob' = blob \/ WriteLeaseValid(blob, id)
    PROVE  ExclusiveStep
<1>1. WriteLeaseValid(blob, id) => PresentedId
  BY LiveSeen, LeaseAssumption DEF WriteLeaseValid, PresentedId, Live
<1>2. blob' = blob => blob' # None /\ blob'.leaseStatus = "locked"
  BY DEF Live
<1> QED BY <1>1, <1>2 DEF ExclusiveStep

\* While a lease is in force it is exclusive: nobody else takes it over, ends
\* it (but for a break) or writes or deletes the blob.
THEOREM Exclusion == Spec => LeaseIsExclusive
<1>1. ASSUME IInv, Next, Live, now' = now PROVE ExclusiveStep
  <2>0. blob # None /\ blob.leaseStatus = "locked" /\ blob \in ILease
    BY <1>1 DEF Live, IInv, SoundLease
  <2>1. ~Tick
    BY <1>1 DEF Tick, IInv, TypeOK
  <2>2. ASSUME NEW t \in StartTimes, NEW id \in LeaseIdOption, CreateBlob(t, id)
        PROVE  ExclusiveStep
    <3>1. /\ last'.leaseId = id
          /\ last'.outcome = "ok" => WriteLeaseValid(blob, id)
      BY <1>1, <2>0, <2>2, LiveSeen DEF CreateBlob, Responded
    <3>2. blob' = blob \/ WriteLeaseValid(blob, id)
      BY <1>1, <2>0, <2>2, LiveSeen DEF CreateBlob
    <3> QED BY <1>1, <3>1, <3>2, WriteExclusive
  <2>3. ASSUME NEW t \in StartTimes, NEW id \in LeaseIdOption, SetBlobMetadata(t, id)
        PROVE  ExclusiveStep
    <3>1. /\ last'.leaseId = id
          /\ last'.outcome = "ok" => WriteLeaseValid(blob, id)
      BY <1>1, <2>0, <2>3, LiveSeen DEF SetBlobMetadata, Responded
    <3>2. blob' = blob \/ WriteLeaseValid(blob, id)
      BY <1>1, <2>0, <2>3, LiveSeen DEF SetBlobMetadata
    <3> QED BY <1>1, <3>1, <3>2, WriteExclusive
  <2>4. ASSUME NEW t \in StartTimes, NEW id \in LeaseIdOption,
               NEW sameIdLength \in BOOLEAN, StageBlock(t, id, sameIdLength)
        PROVE  ExclusiveStep
    <3>1. /\ last'.leaseId = id
          /\ last'.outcome = "ok" => WriteLeaseValid(blob, id)
      BY <1>1, <2>0, <2>4, LiveSeen DEF StageBlock, Responded
    <3>2. blob' = blob \/ WriteLeaseValid(blob, id)
      BY <1>1, <2>0, <2>4, LiveSeen DEF StageBlock
    <3> QED BY <1>1, <3>1, <3>2, WriteExclusive
  <2>5. ASSUME NEW t \in StartTimes, NEW id \in LeaseIdOption, StartCopyFromURL(t, id)
        PROVE  ExclusiveStep
    <3>1. /\ last'.leaseId = id
          /\ last'.outcome = "ok" => WriteLeaseValid(blob, id)
      BY <1>1, <2>0, <2>5, LiveSeen DEF StartCopyFromURL, Responded
    <3>2. blob' = blob \/ WriteLeaseValid(blob, id)
      BY <1>1, <2>0, <2>5, LiveSeen DEF StartCopyFromURL
    <3> QED BY <1>1, <3>1, <3>2, WriteExclusive
  <2>6. ASSUME NEW t \in StartTimes, NEW id \in LeaseIdOption, CopyFromURL(t, id)
        PROVE  ExclusiveStep
    <3>1. /\ last'.leaseId = id
          /\ last'.outcome = "ok" => WriteLeaseValid(blob, id)
      BY <1>1, <2>0, <2>6, LiveSeen DEF CopyFromURL, Responded
    <3>2. blob' = blob \/ WriteLeaseValid(blob, id)
      BY <1>1, <2>0, <2>6, LiveSeen DEF CopyFromURL
    <3> QED BY <1>1, <3>1, <3>2, WriteExclusive
  <2>7. ASSUME NEW t \in StartTimes, NEW id \in LeaseIdOption, SealBlob(t, id)
        PROVE  ExclusiveStep
    <3>1. /\ last'.leaseId = id
          /\ last'.outcome = "ok" => WriteLeaseValid(blob, id)
      BY <1>1, <2>0, <2>7, LiveSeen DEF SealBlob, Responded
    <3>2. blob' = blob \/ WriteLeaseValid(blob, id)
      BY <1>1, <2>0, <2>7, LiveSeen DEF SealBlob
    <3> QED BY <1>1, <3>1, <3>2, WriteExclusive
  <2>8. ASSUME NEW t \in StartTimes, NEW id \in LeaseIdOption, DeleteBlob(t, id)
        PROVE  ExclusiveStep
    <3>1. /\ last'.leaseId = id
          /\ last'.outcome = "ok" => WriteLeaseValid(blob, id)
      BY <1>1, <2>0, <2>8, LiveSeen DEF DeleteBlob, Responded
    <3>2. blob' = blob \/ WriteLeaseValid(blob, id)
      BY <1>1, <2>0, <2>8, LiveSeen DEF DeleteBlob
    <3> QED BY <1>1, <3>1, <3>2, WriteExclusive
  <2>9. ASSUME NEW t \in StartTimes, NEW id \in LeaseIdOption, DownloadBlob(t, id)
        PROVE  ExclusiveStep
    <3>1. blob' = blob /\ last'.op = "downloadBlob"
      BY <1>1, <2>9, LiveSeen DEF DownloadBlob, Responded
    <3> QED BY <2>0, <3>1 DEF ExclusiveStep, WriteOps
  <2>10. ASSUME NEW t \in StartTimes, NEW duration \in Durations,
                NEW id \in LeaseIdOption, AcquireBlobLease(t, duration, id)
         PROVE  ExclusiveStep
    <3>1. last'.op = "acquire" /\ last'.leaseId = id
      BY <2>10 DEF AcquireBlobLease, Responded
    <3>2. CASE AcquireAllowed(blob, duration, id)
      <4>1. id = blob.leaseId /\ id # None
        BY <1>1, <3>2, <2>10, LiveSeen, LeaseAssumption DEF AcquireAllowed
      <4> QED BY <3>1, <4>1 DEF PresentedId, WriteOps, ExclusiveStep
    <3>3. CASE ~AcquireAllowed(blob, duration, id)
      <4>1. blob' = blob
        BY <1>1, <3>3, <2>10, LiveSeen DEF AcquireBlobLease
      <4> QED BY <2>0, <3>1, <4>1 DEF WriteOps, ExclusiveStep
    <3> QED BY <3>2, <3>3
  <2>11. ASSUME NEW t \in StartTimes, NEW id \in LeaseIds, RenewBlobLease(t, id)
         PROVE  ExclusiveStep
    <3>1. last'.op = "renew"
      BY <2>11 DEF RenewBlobLease, Responded
    <3>2. blob' = blob \/ blob' = Renewed(blob, t)
      BY <1>1, <2>11, LiveSeen DEF RenewBlobLease
    <3>3. blob'.leaseStatus = "locked" /\ blob'.leaseId = blob.leaseId
      BY <2>0, <3>2 DEF Renewed, FixedLease
    <3>4. blob' # None
      BY <1>1, <2>0, <2>11, <3>2, SeenSound, LiveSeen, RenewSound, LeaseAssumption
         DEF RenewBlobLease, SoundLease
    <3> QED BY <3>1, <3>3, <3>4 DEF WriteOps, ExclusiveStep
  <2>12. ASSUME NEW t \in StartTimes, NEW id \in LeaseIds, NEW proposed \in LeaseIds,
                ChangeBlobLease(t, id, proposed)
         PROVE  ExclusiveStep
    <3>1. last'.op = "change" /\ last'.leaseId = id
      BY <2>12 DEF ChangeBlobLease, Responded
    <3>2. CASE ChangeAllowed(blob, id, proposed)
      <4>1. blob' = Changed(blob, proposed)
        BY <1>1, <2>12, <3>2, LiveSeen DEF ChangeBlobLease
      <4>2. blob'.leaseId = proposed /\ blob'.leaseStatus = "locked" /\ blob' \in ILease
        BY <2>0, <4>1 DEF Changed, ILease
      <4>3. blob' # None
        BY <4>2, LeaseAssumption
      <4>4. proposed # blob.leaseId => PresentedId
        BY <2>12, <3>1, <3>2, LeaseAssumption DEF ChangeAllowed, PresentedId
      <4> QED BY <3>1, <4>2, <4>3, <4>4 DEF WriteOps, ExclusiveStep
    <3>3. CASE ~ChangeAllowed(blob, id, proposed)
      <4>1. blob' = blob
        BY <1>1, <3>3, <2>12, LiveSeen DEF ChangeBlobLease
      <4> QED BY <2>0, <3>1, <4>1 DEF WriteOps, ExclusiveStep
    <3> QED BY <3>2, <3>3
  <2>13. ASSUME NEW t \in StartTimes, NEW id \in LeaseIds, ReleaseBlobLease(t, id)
         PROVE  ExclusiveStep
    <3>1. last'.op = "release" /\ last'.leaseId = id
      BY <2>13 DEF ReleaseBlobLease, Responded
    <3>2. CASE ReleaseAllowed(blob, id)
      BY <2>13, <3>1, <3>2, LeaseAssumption
         DEF ReleaseAllowed, PresentedId, WriteOps, ExclusiveStep
    <3>3. CASE ~ReleaseAllowed(blob, id)
      <4>1. blob' = blob
        BY <1>1, <3>3, <2>13, LiveSeen DEF ReleaseBlobLease
      <4> QED BY <2>0, <3>1, <4>1 DEF WriteOps, ExclusiveStep
    <3> QED BY <3>2, <3>3
  <2>14. ASSUME NEW t \in StartTimes, NEW period \in BreakPeriods,
                BreakBlobLease(t, period)
         PROVE  ExclusiveStep
    <3>1. last'.op = "break"
      BY <2>14 DEF BreakBlobLease, Responded
    <3>2. blob' \in {blob, Break(blob, t, period)}
      BY <1>1, <2>14, LiveSeen DEF BreakBlobLease
    <3>3. blob'.leaseId = blob.leaseId
      BY <3>2 DEF Break, LeasedBreak, BreakingBreak, BrokenLease, BreakingLease
    <3> QED BY <3>1, <3>3 DEF WriteOps, ExclusiveStep
  <2> QED BY <1>1, <2>1, <2>2, <2>3, <2>4, <2>5, <2>6, <2>7, <2>8, <2>9, <2>10,
             <2>11, <2>12, <2>13, <2>14 DEF Next
<1>2. IInv /\ [Next]_vars => [ExclusiveStep]_vars
  BY <1>1 DEF ExclusiveStep
<1> QED BY <1>2, Inductive, PTL DEF Spec, LeaseIsExclusive, ExclusiveStep

----------------------------------------------------------------------------
(* Breaking only shortens a lease.                                         *)

\* The step of BreakOnlyShortens.
ShortensStep ==
    blob # None /\ blob' # None /\ blob'.leaseState = "breaking" =>
        /\ blob.leaseExpireTime # None => blob'.leaseBreakTime =< blob.leaseExpireTime
        /\ blob.leaseState = "breaking" => blob'.leaseBreakTime =< blob.leaseBreakTime

\* A Breaking lease has no expiry and a break time; a Leased one that
\* expires does so at a time.
LEMMA BreakingFields ==
    ASSUME NEW lease, SoundLease(lease)
    PROVE  /\ lease.leaseState = "breaking" =>
                 lease.leaseExpireTime = None /\ lease.leaseBreakTime \in Int
           /\ lease.leaseExpireTime # None =>
                 lease.leaseState = "leased" /\ lease.leaseExpireTime \in Int
BY DEF SoundLease, ILease, Constructible, LeasedConstructible, RunOutConstructible,
       AvailableConstructible, ExpiredConstructible, BreakingConstructible,
       BrokenConstructible

\* What startTime sees is Breaking only if the stored lease is, unchanged.
LEMMA SeenBreaking ==
    ASSUME IInv, blob # None, NEW t \in StartTimes,
           NEW lease, lease \in {blob, BlobWithLeaseUpdated(t),
                                 WriteLeaseSync(BlobWithLeaseUpdated(t)),
                                 WriteLeaseSync(blob), AvailableLease},
           lease.leaseState = "breaking"
    PROVE  lease = blob
BY DEF BlobWithLeaseUpdated, CreateLeaseState, WriteLeaseSync, ExpiredLease, BrokenLease,
       AvailableLease

\* Breaking a lease never extends the time it is held.
THEOREM BreakShortens == Spec => BreakOnlyShortens
<1>1. ASSUME IInv, Next, blob # None, blob' # None, blob'.leaseState = "breaking"
      PROVE  ShortensStep
  <2>0. SoundLease(blob) /\ SoundLease(blob)' /\ now \in Int
    BY <1>1, NextIInv DEF IInv, TypeOK
  <2>1. blob' = blob => ShortensStep
    BY <1>1, <2>0, BreakingFields DEF ShortensStep
  <2>2. ASSUME NEW t \in StartTimes,
               blob' \in {blob, BlobWithLeaseUpdated(t),
                          WriteLeaseSync(BlobWithLeaseUpdated(t)),
                          WriteLeaseSync(blob), AvailableLease}
        PROVE  ShortensStep
    BY <1>1, <2>1, <2>2, SeenBreaking
  <2>3. CASE Tick
    BY <2>1, <2>3 DEF Tick
  <2>4. ASSUME NEW t \in StartTimes, NEW id \in LeaseIdOption,
               \/ CreateBlob(t, id) \/ SetBlobMetadata(t, id)
               \/ \E sameIdLength \in BOOLEAN : StageBlock(t, id, sameIdLength)
               \/ StartCopyFromURL(t, id) \/ CopyFromURL(t, id) \/ SealBlob(t, id)
               \/ DeleteBlob(t, id) \/ DownloadBlob(t, id)
        PROVE  ShortensStep
    BY <1>1, <2>2, <2>4 DEF CreateBlob, SetBlobMetadata, StageBlock, StartCopyFromURL,
                            CopyFromURL, SealBlob, DeleteBlob, DownloadBlob
  <2>5. ASSUME NEW t \in StartTimes, NEW duration \in Durations,
               NEW id \in LeaseIdOption, AcquireBlobLease(t, duration, id)
        PROVE  ShortensStep
    <3>1. blob' = BlobWithLeaseUpdated(t) \/ \E i : blob' = Acquired(t, duration, i)
      BY <2>5 DEF AcquireBlobLease
    <3>2. \A i : Acquired(t, duration, i).leaseState = "leased"
      BY DEF Acquired, InfiniteLease, FixedLease
    <3> QED BY <1>1, <2>2, <3>1, <3>2
  <2>6. ASSUME NEW t \in StartTimes, NEW id \in LeaseIds, RenewBlobLease(t, id)
        PROVE  ShortensStep
    BY <1>1, <2>2, <2>6 DEF RenewBlobLease, RenewAllowed, Renewed, FixedLease
  <2>7. ASSUME NEW t \in StartTimes, NEW id \in LeaseIds, NEW proposed \in LeaseIds,
               ChangeBlobLease(t, id, proposed)
        PROVE  ShortensStep
    <3>1. CASE blob' = BlobWithLeaseUpdated(t)
      BY <2>2, <2>7, <3>1
    <3>2. CASE /\ BlobWithLeaseUpdated(t).leaseState = "leased"
               /\ blob' = Changed(BlobWithLeaseUpdated(t), proposed)
      <4>1. BlobWithLeaseUpdated(t) \in ILease
        BY <1>1, <2>7, SeenSound DEF SoundLease
      <4>2. blob'.leaseState = "leased"
        BY <3>2, <4>1 DEF Changed, ILease
      <4> QED BY <1>1, <4>2
    <3> QED BY <1>1, <2>7, <3>1, <3>2 DEF ChangeBlobLease, ChangeAllowed
  <2>8. ASSUME NEW t \in StartTimes, NEW id \in LeaseIds, ReleaseBlobLease(t, id)
        PROVE  ShortensStep
    BY <1>1, <2>2, <2>8 DEF ReleaseBlobLease
  <2>9. ASSUME NEW t \in StartTimes, NEW period \in BreakPeriods, BreakBlobLease(t, period)
        PROVE  ShortensStep
    <3> DEFINE seen == BlobWithLeaseUpdated(t)
    <3>0. t \in Int /\ period \in Int \cup {None}
      BY <1>1, <2>9, SeenSound, BlobLeaseAssumption
    <3>1. CASE blob' = seen
      BY <2>2, <2>9, <3>1
    <3>2. CASE blob' = Break(seen, t, period) /\ BreakAllowed(seen, period)
      <4>1. seen.leaseState \in {"leased", "breaking"} /\ seen = blob
        <5>1. seen.leaseState \in {"leased", "breaking"}
          BY <1>1, <3>2 DEF Break, BrokenLease
        <5> QED BY <5>1 DEF BlobWithLeaseUpdated, CreateLeaseState, ExpiredLease, BrokenLease
      <4>2. CASE blob.leaseState = "leased"
        <5>1. blob' = LeasedBreak(blob, t, period)
          BY <3>2, <4>1, <4>2 DEF Break
        <5>2. blob.leaseExpireTime # None =>
                 blob.leaseDurationType # "infinite" /\ blob.leaseExpireTime \in Int
          BY <2>0, <4>2 DEF SoundLease, ILease
        <5>3. blob.leaseExpireTime # None => blob'.leaseBreakTime =< blob.leaseExpireTime
          BY <1>1, <3>0, <5>1, <5>2 DEF LeasedBreak, BreakingLease, BrokenLease, MinTime
        <5> QED BY <4>2, <5>3 DEF ShortensStep
      <4>3. CASE blob.leaseState = "breaking"
        <5>1. blob' = BreakingBreak(blob, t, period)
          BY <3>2, <4>1, <4>3 DEF Break
        <5>2. blob.leaseBreakTime \in Int /\ blob.leaseExpireTime = None
          BY <2>0, <4>3, BreakingFields
        <5>3. blob'.leaseBreakTime =< blob.leaseBreakTime
          BY <1>1, <3>0, <5>1, <5>2 DEF BreakingBreak, BreakingLease, BrokenLease, MinTime
        <5> QED BY <5>2, <5>3 DEF ShortensStep
      <4> QED BY <4>1, <4>2, <4>3
    <3> QED BY <1>1, <2>9, <3>1, <3>2 DEF BreakBlobLease
  <2> QED BY <1>1, <2>3, <2>4, <2>5, <2>6, <2>7, <2>8, <2>9 DEF Next
<1>2. IInv /\ [Next]_vars => [ShortensStep]_vars
  BY <1>1 DEF ShortensStep
<1> QED BY <1>2, Inductive, PTL DEF Spec, BreakOnlyShortens, ShortensStep

----------------------------------------------------------------------------
(* A lease that can be renewed has hidden no write.                        *)

\* The states from which a holder may renew, or in which he still holds.
Renewable(lease) == lease.leaseState \in {"leased", "breaking", "expired"}

\* Time makes no lease renewable, nor does a write; a write to a blob that
\* nobody has locked leaves none.
LEMMA SeenRenewable ==
    ASSUME NEW lease, NEW t
    PROVE  /\ Renewable(CreateLeaseState(lease, t)) => Renewable(lease)
           /\ Renewable(WriteLeaseSync(lease)) => Renewable(lease)
           /\ ~Renewable(AvailableLease)
           /\ SoundLease(lease) /\ lease.leaseStatus = "unlocked" =>
                 ~Renewable(WriteLeaseSync(lease))
<1>1. Renewable(CreateLeaseState(lease, t)) => Renewable(lease)
  BY DEF Renewable, CreateLeaseState, ExpiredLease, BrokenLease
<1>2. ~Renewable(AvailableLease)
  BY DEF Renewable, AvailableLease
<1>3. Renewable(WriteLeaseSync(lease)) => Renewable(lease)
  BY <1>2 DEF WriteLeaseSync
<1>4. SoundLease(lease) /\ lease.leaseStatus = "unlocked" => ~Renewable(WriteLeaseSync(lease))
  BY <1>2 DEF WriteLeaseSync, Renewable, SoundLease, Constructible, LeasedConstructible,
              BreakingConstructible
<1> QED BY <1>1, <1>2, <1>3, <1>4

\* Every operation keeps a renewable lease unwritten.
LEMMA UnwrittenStep ==
    ASSUME IInv, ExpiredLeaseIsUnwritten, [Next]_vars
    PROVE  ExpiredLeaseIsUnwritten'
<1>0. ASSUME blob # None, Renewable(blob) PROVE ~dirty
  BY <1>0 DEF ExpiredLeaseIsUnwritten, Renewable
<1>1. SUFFICES ASSUME blob' # None, Renewable(blob'), Next PROVE dirty' = FALSE
  <2>1. CASE UNCHANGED vars
    BY <2>1 DEF vars, ExpiredLeaseIsUnwritten
  <2> QED BY <2>1 DEF ExpiredLeaseIsUnwritten, Renewable
<1>2. dirty \in BOOLEAN
  BY DEF IInv, TypeOK
\* A write that goes through to a lease it has seen.
<1>3. ASSUME blob # None, NEW seen, SoundLease(seen), Renewable(seen) => Renewable(blob),
             NEW ok \in BOOLEAN, Written(seen, ok),
             \/ blob' = WriteLeaseSync(seen)
             \/ ~ok /\ blob' \in {seen, blob}
      PROVE  dirty' = FALSE
  <2>1. Renewable(blob)
    BY <1>1, <1>3, SeenRenewable
  <2>2. ~(ok /\ seen.leaseStatus = "unlocked")
    BY <1>1, <1>3, SeenRenewable
  <2> QED BY <1>0, <1>2, <1>3, <2>1, <2>2 DEF Written
<1>4. ASSUME blob # None, NEW t \in StartTimes
      PROVE  /\ SoundLease(BlobWithLeaseUpdated(t))
             /\ Renewable(BlobWithLeaseUpdated(t)) => Renewable(blob)
  BY <1>4, SeenSound, SeenRenewable DEF BlobWithLeaseUpdated
<1>5. CASE Tick
  BY <1>0, <1>1, <1>2, <1>5 DEF Tick
<1>6. ASSUME NEW t \in StartTimes, NEW id \in LeaseIdOption, CreateBlob(t, id)
      PROVE  dirty' = FALSE
  <2>1. CASE blob = None
    BY <1>6, <2>1 DEF CreateBlob
  <2>2. CASE blob # None
    <3> DEFINE seen == BlobWithLeaseUpdated(t)
    <3>1. WriteLeaseValid(seen, id) \in BOOLEAN
      BY DEF WriteLeaseValid
    <3>2. /\ Written(seen, WriteLeaseValid(seen, id))
          /\ blob' = IF WriteLeaseValid(seen, id) THEN WriteLeaseSync(seen) ELSE blob
      BY <1>6, <2>2 DEF CreateBlob
    <3> QED BY <1>3, <1>4, <2>2, <3>1, <3>2
  <2> QED BY <2>1, <2>2
<1>7. ASSUME NEW t \in StartTimes, NEW id \in LeaseIdOption, SetBlobMetadata(t, id)
      PROVE  dirty' = FALSE
  <2> DEFINE seen == BlobWithLeaseUpdated(t)
  <2>1. WriteLeaseValid(seen, id) \in BOOLEAN
    BY DEF WriteLeaseValid
  <2>2. /\ blob # None
        /\ Written(seen, WriteLeaseValid(seen, id))
        /\ blob' = IF WriteLeaseValid(seen, id) THEN WriteLeaseSync(seen) ELSE seen
    BY <1>7 DEF SetBlobMetadata
  <2> QED BY <1>3, <1>4, <2>1, <2>2
<1>8. ASSUME NEW t \in StartTimes, NEW id \in LeaseIdOption,
             NEW sameIdLength \in BOOLEAN, StageBlock(t, id, sameIdLength)
      PROVE  dirty' = FALSE
  <2>1. CASE blob = None
    BY <1>8, <2>1 DEF StageBlock
  <2>2. CASE blob # None
    <3> DEFINE seen == BlobWithLeaseUpdated(t)
    <3>1. (WriteLeaseValid(seen, id) /\ sameIdLength) \in BOOLEAN
      OBVIOUS
    <3>2. /\ Written(seen, WriteLeaseValid(seen, id) /\ sameIdLength)
          /\ blob' = IF WriteLeaseValid(seen, id) THEN WriteLeaseSync(seen) ELSE blob
      BY <1>8, <2>2 DEF StageBlock
    <3> QED BY <1>3, <1>4, <2>2, <3>1, <3>2
  <2> QED BY <2>1, <2>2
<1>9. ASSUME NEW t \in StartTimes, NEW id \in LeaseIdOption, StartCopyFromURL(t, id)
      PROVE  dirty' = FALSE
  BY <1>0, <1>1, <1>2, <1>4, <1>9 DEF StartCopyFromURL
<1>10. ASSUME NEW t \in StartTimes, NEW id \in LeaseIdOption, CopyFromURL(t, id)
       PROVE  dirty' = FALSE
  <2>1. CASE blob = None
    BY <1>10, <2>1 DEF CopyFromURL
  <2>2. CASE blob # None
    <3> DEFINE seen == BlobWithLeaseUpdated(t)
    <3>1. WriteLeaseValid(seen, id) \in BOOLEAN
      BY DEF WriteLeaseValid
    <3>2. Written(seen, WriteLeaseValid(seen, id)) /\ blob' = WriteLeaseSync(seen)
      BY <1>10, <2>2 DEF CopyFromURL
    <3> QED BY <1>3, <1>4, <2>2, <3>1, <3>2
  <2> QED BY <2>1, <2>2
<1>11. ASSUME NEW t \in StartTimes, NEW id \in LeaseIdOption, SealBlob(t, id)
       PROVE  dirty' = FALSE
  <2>1. WriteLeaseValid(blob, id) \in BOOLEAN
    BY DEF WriteLeaseValid
  <2>2. /\ blob # None /\ SoundLease(blob)
        /\ Written(blob, WriteLeaseValid(blob, id))
        /\ blob' = IF WriteLeaseValid(blob, id) THEN WriteLeaseSync(blob) ELSE blob
    BY <1>11 DEF SealBlob, IInv
  <2> QED BY <1>3, <2>1, <2>2
\* The operations that leave `dirty' alone make no lease renewable.
<1>12. ASSUME dirty' = dirty, blob # None, Renewable(blob') => Renewable(blob)
       PROVE  dirty' = FALSE
  BY <1>0, <1>1, <1>2, <1>12
<1>13. ASSUME NEW t \in StartTimes, NEW id \in LeaseIdOption,
              DeleteBlob(t, id) \/ DownloadBlob(t, id)
       PROVE  dirty' = FALSE
  BY <1>1, <1>4, <1>12, <1>13 DEF DeleteBlob, DownloadBlob
<1>14. ASSUME NEW t \in StartTimes, NEW duration \in Durations,
              NEW id \in LeaseIdOption, AcquireBlobLease(t, duration, id)
       PROVE  dirty' = FALSE
  <2> DEFINE seen == BlobWithLeaseUpdated(t)
  <2>1. CASE AcquireAllowed(seen, duration, id)
    BY <1>14, <2>1 DEF AcquireBlobLease
  <2>2. CASE ~AcquireAllowed(seen, duration, id)
    <3>1. blob # None /\ blob' = seen /\ dirty' = (dirty /\ TRUE)
      BY <1>14, <2>2 DEF AcquireBlobLease
    <3> QED BY <1>1, <1>2, <1>4, <1>12, <3>1
  <2> QED BY <2>1, <2>2
<1>15. ASSUME NEW t \in StartTimes, NEW id \in LeaseIds, RenewBlobLease(t, id)
       PROVE  dirty' = FALSE
  <2> DEFINE seen == BlobWithLeaseUpdated(t)
  <2>1. RenewAllowed(seen, id) => Renewable(seen)
    BY DEF RenewAllowed, Renewable
  <2> QED BY <1>4, <1>12, <1>15, <2>1 DEF RenewBlobLease
<1>16. ASSUME NEW t \in StartTimes, NEW id \in LeaseIds, NEW proposed \in LeaseIds,
              ChangeBlobLease(t, id, proposed)
       PROVE  dirty' = FALSE
  <2> DEFINE seen == BlobWithLeaseUpdated(t)
  <2>1. ChangeAllowed(seen, id, proposed) => Renewable(seen)
    BY DEF ChangeAllowed, Renewable
  <2> QED BY <1>4, <1>12, <1>16, <2>1 DEF ChangeBlobLease
<1>17. ASSUME NEW t \in StartTimes, NEW id \in LeaseIds, ReleaseBlobLease(t, id)
       PROVE  dirty' = FALSE
  BY <1>4, <1>12, <1>17, SeenRenewable DEF ReleaseBlobLease
<1>18. ASSUME NEW t \in StartTimes, NEW period \in BreakPeriods, BreakBlobLease(t, period)
       PROVE  dirty' = FALSE
  <2> DEFINE seen == BlobWithLeaseUpdated(t)
  <2>1. Renewable(Break(seen, t, period)) => Renewable(seen)
    BY DEF Break, BrokenLease, Renewable
  <2> QED BY <1>4, <1>12, <1>18, <2>1 DEF BreakBlobLease
<1> QED BY <1>1, <1>5, <1>6, <1>7, <1>8, <1>9, <1>10, <1>11, <1>13, <1>14, <1>15,
           <1>16, <1>17, <1>18 DEF Next

\* Whoever can still renew a lease finds the blob as he left it: no write of
\* another went through while it was expired (startCopyFromURL aside).
THEOREM ExpiredUnwritten == Spec => []ExpiredLeaseIsUnwritten
<1>1. Init => ExpiredLeaseIsUnwritten
  BY DEF Init, ExpiredLeaseIsUnwritten
<1> QED BY <1>1, UnwrittenStep, Inductive, PTL DEF Spec

----------------------------------------------------------------------------
(* Refused requests, and leases that are over.                             *)

\* The step of RefusedLeavesLease.
RefusedStep ==
    now' = now /\ last'.outcome # "ok" /\ last'.op \notin SyncFirstOps =>
        \/ blob' = blob
        \/ \E t \in StartTimes : blob' = CreateLeaseState(blob, t)

\* A refused request leaves the stored lease as it was or as its startTime
\* saw it, but for copyFromURL and stageBlock.
THEOREM RefusedLeavesAlone == Spec => RefusedLeavesLease
<1>1. ASSUME IInv, Next PROVE RefusedStep
  <2>1. SUFFICES ASSUME last'.outcome # "ok", last'.op \notin SyncFirstOps, now' = now
                 PROVE  \/ blob' = blob
                        \/ \E t \in StartTimes : blob' = BlobWithLeaseUpdated(t)
    BY DEF RefusedStep, BlobWithLeaseUpdated
  <2>2. CASE Tick
    BY <2>2 DEF Tick
  <2>3. ASSUME NEW t \in StartTimes, NEW id \in LeaseIdOption,
               \/ CreateBlob(t, id) \/ SetBlobMetadata(t, id) \/ StartCopyFromURL(t, id)
               \/ SealBlob(t, id) \/ DeleteBlob(t, id) \/ DownloadBlob(t, id)
        PROVE  blob' = blob \/ blob' = BlobWithLeaseUpdated(t)
    BY <2>1, <2>3 DEF CreateBlob, SetBlobMetadata, StartCopyFromURL, SealBlob, DeleteBlob,
                      DownloadBlob, Responded
  <2>4. ASSUME NEW t \in StartTimes, NEW id \in LeaseIdOption,
               \/ CopyFromURL(t, id)
               \/ \E sameIdLength \in BOOLEAN : StageBlock(t, id, sameIdLength)
        PROVE  FALSE
    BY <2>1, <2>4 DEF CopyFromURL, StageBlock, Responded, SyncFirstOps
  <2>5. ASSUME NEW t \in StartTimes, NEW duration \in Durations,
               NEW id \in LeaseIdOption, AcquireBlobLease(t, duration, id)
        PROVE  blob' = BlobWithLeaseUpdated(t)
    BY <2>1, <2>5 DEF AcquireBlobLease, Responded
  <2>6. ASSUME NEW t \in StartTimes, NEW id \in LeaseIds,
               \/ RenewBlobLease(t, id) \/ ReleaseBlobLease(t, id)
               \/ \E proposed \in LeaseIds : ChangeBlobLease(t, id, proposed)
        PROVE  blob' = BlobWithLeaseUpdated(t)
    BY <2>1, <2>6 DEF RenewBlobLease, ReleaseBlobLease, ChangeBlobLease, Responded
  <2>7. ASSUME NEW t \in StartTimes, NEW period \in BreakPeriods, BreakBlobLease(t, period)
        PROVE  blob' = BlobWithLeaseUpdated(t)
    BY <2>1, <2>7 DEF BreakBlobLease, Responded
  <2> QED BY <1>1, <2>2, <2>3, <2>4, <2>5, <2>6, <2>7 DEF Next
<1>2. IInv /\ [Next]_vars => [RefusedStep]_vars
  BY <1>1
<1> QED BY <1>2, Inductive, PTL DEF Spec, RefusedLeavesLease, RefusedStep

\* The step of OverdueLeaseDoesNotBlock.
OverdueStep ==
    (/\ now' = now /\ last'.op \in WriteOps \ {"sealBlob"}
     /\ last'.leaseId = None /\ last'.outcome = "refused")
        => \E t \in StartTimes : CreateLeaseState(blob, t).leaseStatus = "locked"

\* A write that names no lease is refused only if its startTime saw the blob
\* locked: a lease that is over, seen or not by another request, blocks nobody.
THEOREM OverdueBlocksNobody == Spec => OverdueLeaseDoesNotBlock
<1>1. ASSUME Next, UNCHANGED now, last'.op \in WriteOps \ {"sealBlob"},
             last'.leaseId = None, last'.outcome = "refused", IInv
      PROVE  \E t \in StartTimes : BlobWithLeaseUpdated(t).leaseStatus = "locked"
  <2>1. \A lease : ~WriteLeaseValid(lease, None) => lease.leaseStatus = "locked"
    BY DEF WriteLeaseValid
  <2>2. ~Tick
    BY <1>1 DEF Tick, IInv, TypeOK
  <2>3. ASSUME NEW t \in StartTimes, NEW id \in LeaseIdOption,
               \/ CreateBlob(t, id) \/ SetBlobMetadata(t, id) \/ StartCopyFromURL(t, id)
               \/ CopyFromURL(t, id) \/ DeleteBlob(t, id)
               \/ \E sameIdLength \in BOOLEAN : StageBlock(t, id, sameIdLength)
        PROVE  BlobWithLeaseUpdated(t).leaseStatus = "locked"
    <3>1. CASE \E sameIdLength \in BOOLEAN : StageBlock(t, id, sameIdLength)
      BY <1>1, <2>1, <3>1 DEF StageBlock, Responded
    <3> QED BY <1>1, <2>1, <2>3, <3>1
            DEF CreateBlob, SetBlobMetadata, StartCopyFromURL, CopyFromURL, DeleteBlob,
                Responded
  <2>4. ASSUME NEW t \in StartTimes, NEW id \in LeaseIdOption,
               SealBlob(t, id) \/ DownloadBlob(t, id)
        PROVE  FALSE
    BY <1>1, <2>4 DEF SealBlob, DownloadBlob, Responded, WriteOps
  <2>5. ASSUME NEW t \in StartTimes, NEW duration \in Durations,
               NEW id \in LeaseIdOption, AcquireBlobLease(t, duration, id)
        PROVE  FALSE
    BY <1>1, <2>5 DEF AcquireBlobLease, Responded, WriteOps
  <2>6. ASSUME NEW t \in StartTimes, NEW id \in LeaseIds,
               \/ RenewBlobLease(t, id) \/ ReleaseBlobLease(t, id)
               \/ \E proposed \in LeaseIds : ChangeBlobLease(t, id, proposed)
        PROVE  FALSE
    BY <1>1, <2>6 DEF RenewBlobLease, ReleaseBlobLease, ChangeBlobLease, Responded, WriteOps
  <2>7. ASSUME NEW t \in StartTimes, NEW period \in BreakPeriods, BreakBlobLease(t, period)
        PROVE  FALSE
    BY <1>1, <2>7 DEF BreakBlobLease, Responded, WriteOps
  <2> QED BY <1>1, <2>2, <2>3, <2>4, <2>5, <2>6, <2>7 DEF Next
<1>2. IInv /\ [Next]_vars => [OverdueStep]_vars
  BY <1>1 DEF OverdueStep, BlobWithLeaseUpdated
<1> QED BY <1>2, Inductive, PTL DEF Spec, OverdueLeaseDoesNotBlock, OverdueStep
=============================================================================
