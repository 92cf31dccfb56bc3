----------------------- MODULE RequestPipelineProofs -----------------------
(***************************************************************************)
(* Proofs about the middleware chain, for any requests, credentials, CORS  *)
(* rules, policies and clocks, and any mixture of them: what the answer    *)
(* tells, that a preflight is honoured, and that no handler runs without a *)
(* credential that allows its operation, was in force and was signed as    *)
(* presented.                                                              *)
(*                                                                         *)
(* The tables of operations, statuses and permissions enter through the    *)
(* assumptions StatusesKnown and LettersSuit, which have no parameters: TLC*)
(* decides them.                                                           *)
(***************************************************************************)
EXTENDS RequestPipeline, WellFoundedInduction, TLAPS

----------------------------------------------------------------------------
(* The first of several checks that fails.                                 *)

\* A set of positions has a first one.
LEMMA FirstExists ==
    ASSUME NEW n \in Nat, NEW I, I \subseteq 1 .. n, I # {}
    PROVE  \E i \in I : \A j \in I : i <= j
  <1>1. I \subseteq Nat
    OBVIOUS
  <1>2. PICK i \in I : \A j \in I : ~(<<j, i>> \in OpToRel(<, Nat))
    BY <1>1, WFMin, NatLessThanWellFounded
  <1>3. \A j \in I : ~(j < i)
    BY <1>1, <1>2 DEF OpToRel
  <1> QED
    BY <1>1, <1>3

\* An authenticator whose checks all name an error lets nothing pass that
\* fails one of them.
LEMMA ChecksHold ==
    ASSUME NEW n \in Nat, NEW checks, DOMAIN checks = 1 .. n, NEW last,
           NEW Good, \A i \in 1 .. n : checks[i][2] \notin Good,
           FirstError(checks, last) \in Good
    PROVE  last \in Good /\ \A i \in 1 .. n : ~checks[i][1]
  <1> DEFINE bad == {i \in DOMAIN checks : checks[i][1]}
             first == CHOOSE i \in bad : \A j \in bad : i <= j
  <1>1. CASE bad = {}
    BY <1>1 DEF FirstError
  <1>2. CASE bad # {}
    <2>1. bad \subseteq 1 .. n
      OBVIOUS
    <2>2. \E i \in bad : \A j \in bad : i <= j
      BY <1>2, <2>1, FirstExists
    <2>3. first \in bad
      BY <2>2
    <2>4. FirstError(checks, last) = checks[first][2]
      BY <1>2 DEF FirstError
    <2> QED
      BY <2>1, <2>3, <2>4
  <1> QED
    BY <1>1, <1>2

----------------------------------------------------------------------------
(* What an account's signature that lets a request pass has shown.         *)

Admitting == {Pass, CheckExists}

LEMMA BlobAccountSASChecks ==
    ASSUME NEW r, NEW op, NEW loose, NEW t,
           BlobAccountSASAuthenticator(r, op, loose, t) \in Admitting
    PROVE  /\ r.sas.kind = "account"
           /\ AccountSigMatches(r.sas, r.sas)
           /\ validateTime(r.sas.expiry, r.sas.start, t)
           /\ BlobAccountSASGrant(op, r.sas) \in Admitting
  <1> DEFINE checks ==
      <<<<r.account = "unknown", "ResourceNotFound">>,
        <<r.sas.kind # "account", Skip>>,
        <<~loose /\ r.sas.scope, "StrictModelNotSupported">>,
        <<~AccountSigMatches(r.sas, r.sas), Skip>>,
        <<~validateTime(r.sas.expiry, r.sas.start, t),
          "AuthorizationFailure">>,
        <<~validateProtocol(r.sas.protocol, r.protocol),
          "AuthorizationProtocolMismatch">>,
        <<op = "Service_GetUserDelegationKey", "AuthenticationFailed">>>>
  <1>1. DOMAIN checks = 1 .. 7
    OBVIOUS
  <1>2. \A i \in 1 .. 7 : checks[i][2] \notin Admitting
    BY DEF Admitting, Pass, CheckExists, Skip
  <1>3. FirstError(checks, BlobAccountSASGrant(op, r.sas)) \in Admitting
    BY DEF BlobAccountSASAuthenticator
  <1> HIDE DEF checks
  <1>4. /\ BlobAccountSASGrant(op, r.sas) \in Admitting
        /\ \A i \in 1 .. 7 : ~checks[i][1]
    BY <1>1, <1>2, <1>3, ChecksHold, 7 \in Nat
  <1>5. ~checks[2][1] /\ ~checks[4][1] /\ ~checks[5][1]
    BY <1>4
  <1> QED
    BY <1>4, <1>5 DEF checks


LEMMA QueueAccountSASChecks ==
    ASSUME NEW r, NEW op, NEW t,
           QueueAccountSASAuthenticator(r, op, t) \in Admitting
    PROVE  /\ r.sas.kind = "account"
           /\ AccountSigMatches(r.sas, WithoutScope(r.sas))
           /\ validateTime(r.sas.expiry, r.sas.start, t)
           /\ AccountSASGrant(Queue!QueueAccountSASPermissions, "q", op, r.sas) \in Admitting
  <1> DEFINE checks ==
      <<<<r.account = "unknown", "ResourceNotFound">>,
        <<\/ r.sas.kind # "account"
          \/ ~AccountSigMatches(r.sas, WithoutScope(r.sas)), Skip>>,
        <<~validateTime(r.sas.expiry, r.sas.start, t), "AuthorizationFailure">>,
        <<~validateProtocol(r.sas.protocol, r.protocol), "AuthorizationProtocolMismatch">>>>
  <1>1. DOMAIN checks = 1 .. 4
    OBVIOUS
  <1>2. \A i \in 1 .. 4 : checks[i][2] \notin Admitting
    BY DEF Admitting, Pass, CheckExists, Skip
  <1>3. FirstError(checks, AccountSASGrant(Queue!QueueAccountSASPermissions, "q", op, r.sas))
            \in Admitting
    BY DEF QueueAccountSASAuthenticator
  <1> HIDE DEF checks
  <1>4. /\ AccountSASGrant(Queue!QueueAccountSASPermissions, "q", op, r.sas) \in Admitting
        /\ \A i \in 1 .. 4 : ~checks[i][1]
    BY <1>1, <1>2, <1>3, ChecksHold, 4 \in Nat
  <1>5. ~checks[2][1] /\ ~checks[3][1]
    BY <1>4
  <1> QED
    BY <1>4, <1>5 DEF checks

LEMMA TableAccountSASChecks ==
    ASSUME NEW r, NEW op, NEW t,
           TableAccountSASAuthenticator(r, op, t) \in Admitting
    PROVE  /\ r.sas.kind = "account"
           /\ AccountSigMatches(r.sas, WithoutScope(r.sas))
           /\ validateTime(r.sas.expiry, r.sas.start, t)
           /\ AccountSASGrant(Table!TableAccountSASPermissions, "t", op, r.sas) \in Admitting
  <1> DEFINE checks ==
      <<<<r.account = "unknown", "ResourceNotFound">>,
        <<\/ r.sas.kind # "account"
          \/ ~AccountSigMatches(r.sas, WithoutScope(r.sas)), Skip>>,
        <<~validateTime(r.sas.expiry, r.sas.start, t), "AuthorizationFailure">>,
        <<~validateProtocol(r.sas.protocol, r.protocol), "AuthorizationProtocolMismatch">>>>
  <1>1. DOMAIN checks = 1 .. 4
    OBVIOUS
  <1>2. \A i \in 1 .. 4 : checks[i][2] \notin Admitting
    BY DEF Admitting, Pass, CheckExists, Skip
  <1>3. FirstError(checks, AccountSASGrant(Table!TableAccountSASPermissions, "t", op, r.sas))
            \in Admitting
    BY DEF TableAccountSASAuthenticator
  <1> HIDE DEF checks
  <1>4. /\ AccountSASGrant(Table!TableAccountSASPermissions, "t", op, r.sas) \in Admitting
        /\ \A i \in 1 .. 4 : ~checks[i][1]
    BY <1>1, <1>2, <1>3, ChecksHold, 4 \in Nat
  <1>5. ~checks[2][1] /\ ~checks[3][1]
    BY <1>4
  <1> QED
    BY <1>4, <1>5 DEF checks

\* The tables of an account's signature are asked for its permissions.
LEMMA AccountGrantChecks ==
    ASSUME NEW table, NEW s, NEW op, NEW sas,
           AccountSASGrant(table, s, op, sas) \in Admitting
    PROVE  /\ op \in DOMAIN table
           /\ validatePermissions(table[op].permissions, sas.permissions)
  <1> DEFINE checks ==
       <<<<s \notin sas.services, "AuthorizationServiceMismatch">>,
         <<~validatePermissions(table[op].types, sas.types),
           "AuthorizationResourceTypeMismatch">>,
         <<~validatePermissions(table[op].permissions, sas.permissions),
           "AuthorizationPermissionMismatch">>>>
  <1>1. DOMAIN checks = 1 .. 3
    OBVIOUS
  <1>2. \A i \in 1 .. 3 : checks[i][2] \notin Admitting
    BY DEF Admitting, Pass, CheckExists
  <1>3. op \in DOMAIN table /\ FirstError(checks, Pass) \in Admitting
    BY DEF AccountSASGrant, Admitting, Pass, CheckExists
  <1> HIDE DEF checks
  <1>4. \A i \in 1 .. 3 : ~checks[i][1]
    BY <1>1, <1>2, <1>3, ChecksHold, 3 \in Nat
  <1>5. ~checks[3][1]
    BY <1>4
  <1> QED
    BY <1>3, <1>5 DEF checks

LEMMA BlobAccountGrantChecks ==
    ASSUME NEW op, NEW sas, BlobAccountSASGrant(op, sas) \in Admitting
    PROVE  AccountSASGrant(BlobAccountSASPermissions, "b", op, sas) \in Admitting
  BY DEF BlobAccountSASGrant, Admitting


----------------------------------------------------------------------------
(* And a service's.                                                        *)

\* A failed check that no failed one precedes is the one reported.
LEMMA FirstFailure ==
    ASSUME NEW n \in Nat, NEW checks, DOMAIN checks = 1 .. n, NEW last,
           NEW k \in 1 .. n, checks[k][1], \A j \in 1 .. n : j < k => ~checks[j][1]
    PROVE  FirstError(checks, last) = checks[k][2]
  <1> DEFINE bad == {i \in DOMAIN checks : checks[i][1]}
             first == CHOOSE i \in bad : \A j \in bad : i <= j
  <1>1. k \in bad /\ \A j \in bad : k <= j
    OBVIOUS
  <1>2. first \in bad /\ \A j \in bad : first <= j
    BY <1>1
  <1>3. first = k
    BY <1>1, <1>2
  <1> HIDE DEF first
  <1>4. FirstError(checks, last) = checks[first][2]
    BY <1>1 DEF FirstError, first
  <1> QED
    BY <1>3, <1>4

LEMMA DelegationChecks ==
    ASSUME NEW sas, NEW t
    PROVE  /\ DelegationError(sas, t) \notin Admitting
           /\ DelegationError(sas, t) = Skip /\ sas.delegation # "none" => ~sas.identifier
  <1> DEFINE checks ==
      <<<<sas.delegation = "none", Skip>>,
        <<\/ sas.delegation = "partial"
          \/ sas.identifier
          \/ ~validateTime(sas.keyExpiry, sas.keyStart, t), "AuthorizationFailure">>,
        <<sas.version < 2, "Error">>>>
  <1>1. DOMAIN checks = 1 .. 3
    OBVIOUS
  <1>2. \A i \in 1 .. 3 : checks[i][2] \notin Admitting
    BY DEF Admitting, Pass, CheckExists, Skip
  <1>3. DelegationError(sas, t) = FirstError(checks, Skip)
    BY DEF DelegationError
  <1>4. sas.delegation # "none" => ~checks[1][1]
    OBVIOUS
  <1>5. sas.identifier => checks[2][1]
    OBVIOUS
  <1>6. checks[2][2] # Skip
    BY DEF Skip
  <1> HIDE DEF checks
  <1>7. Skip \notin Admitting
    BY DEF Admitting, Pass, CheckExists, Skip
  <1>8. DelegationError(sas, t) \notin Admitting
    BY <1>1, <1>2, <1>3, <1>7, ChecksHold, 3 \in Nat
  <1>9. ASSUME sas.delegation # "none", sas.identifier
        PROVE  DelegationError(sas, t) # Skip
    <2>1. FirstError(checks, Skip) = checks[2][2]
      <3>1. 3 \in Nat /\ 2 \in 1 .. 3
        OBVIOUS
      <3>2. \A j \in 1 .. 3 : j < 2 => ~checks[j][1]
        BY <1>4, <1>9
      <3> QED
        BY <1>1, <1>5, <1>9, <3>1, <3>2, FirstFailure
    <2> QED
      BY <1>3, <1>6, <2>1
  <1> QED
    BY <1>8, <1>9

LEMMA BlobSASChecks ==
    ASSUME NEW r, NEW op, NEW loose, NEW p, NEW t,
           BlobSAS(r, op, loose, p, t) \in Admitting
    PROVE  /\ r.sas.kind = "service"
           /\ r.sas.delegation # "none" => ~r.sas.identifier
           /\ BlobSigMatches(r.sas)
           /\ r.sas.identifier => p # Missing
           /\ validateTime(Terms(r.sas, p).expiry, Terms(r.sas, p).start, t)
           /\ BlobSASGrant(r, op, Terms(r.sas, p).permissions) \in Admitting
  <1> DEFINE grant == BlobSASGrant(r, op, Terms(r.sas, p).permissions)
             checks ==
          <<<<r.level = "account", Skip>>,
            <<r.account = "unknown", "ResourceNotFound">>,
            <<r.sas.kind # "service", Skip>>,
            <<~loose /\ r.sas.scope, "StrictModelNotSupported">>,
            <<DelegationError(r.sas, t) # Skip, DelegationError(r.sas, t)>>,
            <<~BlobSigMatches(r.sas), Skip>>,
            <<r.sas.identifier /\ p = Missing, "AuthorizationFailure">>,
            <<~validateTime(Terms(r.sas, p).expiry, Terms(r.sas, p).start, t),
              "AuthorizationFailure">>,
            <<~validateProtocol(r.sas.protocol, r.protocol),
              "AuthorizationProtocolMismatch">>,
            <<op = "Service_GetUserDelegationKey", "AuthenticationFailed">>>>
  <1>1. DOMAIN checks = 1 .. 10
    OBVIOUS
  <1>2. \A i \in 1 .. 10 : checks[i][2] \notin Admitting
    BY DelegationChecks DEF Admitting, Pass, CheckExists, Skip
  <1>3. FirstError(checks, grant) \in Admitting
    BY DEF BlobSAS
  <1> HIDE DEF checks, grant
  <1>4. grant \in Admitting /\ \A i \in 1 .. 10 : ~checks[i][1]
    BY <1>1, <1>2, <1>3, ChecksHold, 10 \in Nat
  <1>5. /\ ~checks[3][1] /\ ~checks[5][1] /\ ~checks[6][1]
        /\ ~checks[7][1] /\ ~checks[8][1]
    BY <1>4
  <1>6. /\ r.sas.kind = "service" /\ DelegationError(r.sas, t) = Skip
        /\ BlobSigMatches(r.sas) /\ (r.sas.identifier => p # Missing)
        /\ validateTime(Terms(r.sas, p).expiry, Terms(r.sas, p).start, t)
    BY <1>5 DEF checks
  <1> QED
    BY <1>4, <1>6, DelegationChecks DEF grant


LEMMA QueueSASChecks ==
    ASSUME NEW r, NEW op, NEW p, NEW t, QueueSAS(r, op, p, t) \in Admitting
    PROVE  /\ r.sas.kind = "service"
           /\ QueueSigMatches(r.sas)
           /\ r.sas.identifier => p # Missing
           /\ validateTime(Terms(r.sas, p).expiry, Terms(r.sas, p).start, t)
           /\ PermissionOutcome(Queue!QueueSASPermissions[op], Terms(r.sas, p).permissions)
                 \in Admitting
  <1> DEFINE grant == PermissionOutcome(Queue!QueueSASPermissions[op], Terms(r.sas, p).permissions)
             checks ==
          <<<<r.level = "account", Skip>>,
            <<r.account = "unknown", "ResourceNotFound">>,
            <<r.sas.kind # "service" \/ ~QueueSigMatches(r.sas), Skip>>,
            <<r.sas.identifier /\ p = Missing, "AuthorizationFailure">>,
            <</\ r.sas.identifier
              /\ \/ r.sas.start # Missing
                 \/ r.sas.expiry # Missing
                 \/ r.sas.permissions # Missing, "AuthorizationFailure">>,
            <<~QueueValidateTime(Terms(r.sas, p).expiry, Terms(r.sas, p).start, t),
              "AuthorizationFailure">>,
            <<~validateProtocol(r.sas.protocol, r.protocol),
              "AuthorizationProtocolMismatch">>>>
  <1>1. DOMAIN checks = 1 .. 7
    OBVIOUS
  <1>2. \A i \in 1 .. 7 : checks[i][2] \notin Admitting
    BY DEF Admitting, Pass, CheckExists, Skip
  <1>3. FirstError(checks, grant) \in Admitting
    BY DEF QueueSAS
  <1> HIDE DEF checks, grant
  <1>4. grant \in Admitting /\ \A i \in 1 .. 7 : ~checks[i][1]
    BY <1>1, <1>2, <1>3, ChecksHold, 7 \in Nat
  <1>5. ~checks[3][1] /\ ~checks[4][1] /\ ~checks[6][1]
    BY <1>4
  <1>6. /\ r.sas.kind = "service" /\ QueueSigMatches(r.sas)
        /\ (r.sas.identifier => p # Missing)
        /\ QueueValidateTime(Terms(r.sas, p).expiry, Terms(r.sas, p).start, t)
    BY <1>5 DEF checks
  <1> QED
    BY <1>4, <1>6 DEF grant, QueueValidateTime

LEMMA TableSASChecks ==
    ASSUME NEW r, NEW op, NEW p, NEW t, TableSAS(r, op, p, t) \in Admitting
    PROVE  /\ r.sas.kind = "service"
           /\ TableSigMatches(r.sas)
           /\ r.sas.identifier => p # Missing
           /\ validateTime(Terms(r.sas, p).expiry, Terms(r.sas, p).start, t)
           /\ PermissionOutcome(Table!TableSASPermissions[op], Terms(r.sas, p).permissions)
                 \in Admitting
  <1> DEFINE grant == PermissionOutcome(Table!TableSASPermissions[op], Terms(r.sas, p).permissions)
             checks ==
          <<<<r.level # "named" \/ r.path = "/Tables", Skip>>,
            <<r.account = "unknown", "ResourceNotFound">>,
            <<r.sas.kind # "service" \/ ~TableSigMatches(r.sas), Skip>>,
            <<r.sas.identifier /\ p = Missing, "AuthorizationFailure">>,
            <<~validateTime(Terms(r.sas, p).expiry, Terms(r.sas, p).start, t),
              "AuthorizationFailure">>,
            <<~validateProtocol(r.sas.protocol, r.protocol),
              "AuthorizationProtocolMismatch">>>>
  <1>1. DOMAIN checks = 1 .. 6
    OBVIOUS
  <1>2. \A i \in 1 .. 6 : checks[i][2] \notin Admitting
    BY DEF Admitting, Pass, CheckExists, Skip
  <1>3. FirstError(checks, grant) \in Admitting
    BY DEF TableSAS
  <1> HIDE DEF checks, grant
  <1>4. grant \in Admitting /\ \A i \in 1 .. 6 : ~checks[i][1]
    BY <1>1, <1>2, <1>3, ChecksHold, 6 \in Nat
  <1>5. ~checks[3][1] /\ ~checks[4][1] /\ ~checks[5][1]
    BY <1>4
  <1>6. /\ r.sas.kind = "service" /\ TableSigMatches(r.sas)
        /\ (r.sas.identifier => p # Missing)
        /\ validateTime(Terms(r.sas, p).expiry, Terms(r.sas, p).start, t)
    BY <1>5 DEF checks
  <1> QED
    BY <1>4, <1>6 DEF grant

\* A grant of the permission tables of a service's signature.
LEMMA OutcomeChecks ==
    ASSUME NEW needed, NEW granted, PermissionOutcome(needed, granted) \in Admitting
    PROVE  granted # Missing /\ validatePermissions(needed, granted)
  <1>1. \/ PermissionOutcome(needed, granted) = "TypeError"
        \/ PermissionOutcome(needed, granted) = "AuthorizationPermissionMismatch"
        \/ granted # Missing /\ validatePermissions(needed, granted)
    BY DEF PermissionOutcome
  <1> QED
    BY <1>1 DEF Admitting, Pass, CheckExists

LEMMA BlobGrantChecks ==
    ASSUME NEW r, NEW op, NEW granted, BlobSASGrant(r, op, granted) \in Admitting
    PROVE  /\ op \in DOMAIN BlobSASNeeds(r.sas)
           /\ granted # Missing
           /\ validatePermissions(BlobSASNeeds(r.sas)[op], granted)
  <1> DEFINE grant == PermissionOutcome(BlobSASNeeds(r.sas)[op], granted)
  <1>1. op \in DOMAIN BlobSASNeeds(r.sas)
    BY DEF BlobSASGrant, Admitting, Pass, CheckExists
  <1>2. grant \in Admitting
    <2>1. CASE grant = Pass /\ op \in OverwritingOperations
      BY <2>1 DEF Admitting
    <2>2. CASE ~(grant = Pass /\ op \in OverwritingOperations)
      BY <1>1, <2>2 DEF BlobSASGrant
    <2> QED
      BY <2>1, <2>2
  <1> QED
    BY <1>1, <1>2, OutcomeChecks

\* A letter that a permission table asks for is a suitable one.
LEMMA AskedLetterSuits ==
    ASSUME NEW s, NEW table, AskSuitably(s, table), NEW op \in DOMAIN table,
           NEW granted, validatePermissions(table[op], granted)
    PROVE  Suits(s, op, granted)
  <1>1. CASE op \in Batches \cup DOMAIN AccountInfoSAS
    BY <1>1 DEF Suits
  <1>2. CASE op \notin Batches \cup DOMAIN AccountInfoSAS
    <2>1. table[op] \subseteq LettersFor(s, op)
      BY <1>2 DEF AskSuitably
    <2>2. "any" \notin LettersFor(s, op)
      BY DEF LettersFor, ChangeLetters, ReadLetters
    <2>3. table[op] # AnyOf
      BY <2>1, <2>2 DEF AnyOf
    <2> QED
      BY <2>1, <2>3 DEF validatePermissions, Suits
  <1> QED
    BY <1>1, <1>2


----------------------------------------------------------------------------
(* A string to sign determines what the authenticators judge by.           *)

LEMMA AccountStringBinds ==
    ASSUME NEW v, NEW w, v.version \in 1 .. 5, w.version \in 1 .. 5,
           generateAccountSASSignature(v) = generateAccountSASSignature(w)
    PROVE  /\ v.permissions = w.permissions /\ v.start = w.start
           /\ v.expiry = w.expiry /\ v.protocol = w.protocol
           /\ v.services = w.services /\ v.types = w.types
  <1> DEFINE long(x) == generateAccountSASSignature20201206(x)
             short(x) == generateAccountSASSignature20150405(x)
  <1>1. long(v) # short(w) /\ short(v) # long(w)
    BY DEF generateAccountSASSignature20201206, generateAccountSASSignature20150405
  <1>2. \/ long(v) = long(w)
        \/ short(v) = short(w)
    BY <1>1 DEF generateAccountSASSignature
  <1> QED
    BY <1>2 DEF generateAccountSASSignature20201206, generateAccountSASSignature20150405

LEMMA BlobStringBinds ==
    ASSUME NEW v, NEW w, v.version \in 1 .. 5, w.version \in 1 .. 5,
           generateBlobSASSignature(v) = generateBlobSASSignature(w)
    PROVE  /\ v.permissions = w.permissions /\ v.start = w.start
           /\ v.expiry = w.expiry /\ v.protocol = w.protocol
           /\ v.identifier = w.identifier
           /\ NamedBlob(v) = NamedBlob(w)
  <1> DEFINE s3(x) == generateBlobSASSignature20201206(x)
             s2(x) == generateBlobSASSignature20181109(x)
             s1(x) == generateBlobSASSignature20150405(x)
  <1>1. /\ s1(v) # s2(w) /\ s1(v) # s3(w) /\ s2(v) # s1(w)
        /\ s2(v) # s3(w) /\ s3(v) # s1(w) /\ s3(v) # s2(w)
    BY DEF generateBlobSASSignature20201206, generateBlobSASSignature20181109,
           generateBlobSASSignature20150405
  <1>2. s1(v) = s1(w) \/ s2(v) = s2(w) \/ s3(v) = s3(w)
    BY <1>1 DEF generateBlobSASSignature
  <1>3. CASE s1(v) = s1(w)
    <2>1. getCanonicalName(v, {"b"}) = getCanonicalName(w, {"b"})
      BY <1>3 DEF generateBlobSASSignature20150405
    <2> QED
      BY <1>3, <2>1 DEF generateBlobSASSignature20150405, NamedBlob
  <1>4. CASE s2(v) = s2(w)
    <2>1. v.resource = w.resource /\ getCanonicalName(v, {"b", "bs"}) = getCanonicalName(w, {"b", "bs"})
      BY <1>4 DEF generateBlobSASSignature20181109
    <2> QED
      BY <1>4, <2>1 DEF generateBlobSASSignature20181109, getCanonicalName, NamedBlob
  <1>5. CASE s3(v) = s3(w)
    <2>1. v.resource = w.resource /\ getCanonicalName(v, {"b", "bs"}) = getCanonicalName(w, {"b", "bs"})
      BY <1>5 DEF generateBlobSASSignature20201206
    <2> QED
      BY <1>5, <2>1 DEF generateBlobSASSignature20201206, getCanonicalName, NamedBlob
  <1> QED
    BY <1>2, <1>3, <1>4, <1>5

LEMMA DelegatedStringBinds ==
    ASSUME NEW v, NEW w, v.version \in 1 .. 5, w.version \in 1 .. 5,
           generateBlobSASSignatureWithUDK(v) = generateBlobSASSignatureWithUDK(w)
    PROVE  /\ v.permissions = w.permissions /\ v.start = w.start
           /\ v.expiry = w.expiry /\ v.protocol = w.protocol
           /\ UserDelegationKey(v) = UserDelegationKey(w)
           /\ v.resource = w.resource
           /\ NamedBlob(v) = NamedBlob(w)
  <1> DEFINE s4(x) == generateBlobSASSignatureWithUDK20250705(x)
             s3(x) == generateBlobSASSignatureWithUDK20201206(x)
             s2(x) == generateBlobSASSignatureWithUDK20200210(x)
             s1(x) == generateBlobSASSignatureUDK20181109(x)
  <1>1. /\ s1(v) # s2(w) /\ s1(v) # s3(w) /\ s1(v) # s4(w)
        /\ s2(v) # s1(w) /\ s2(v) # s3(w) /\ s2(v) # s4(w)
        /\ s3(v) # s1(w) /\ s3(v) # s2(w) /\ s3(v) # s4(w)
        /\ s4(v) # s1(w) /\ s4(v) # s2(w) /\ s4(v) # s3(w)
    BY DEF generateBlobSASSignatureWithUDK20250705, generateBlobSASSignatureWithUDK20201206,
           generateBlobSASSignatureWithUDK20200210, generateBlobSASSignatureUDK20181109
  <1>2. s1(v) = s1(w) \/ s2(v) = s2(w) \/ s3(v) = s3(w) \/ s4(v) = s4(w)
    BY <1>1 DEF generateBlobSASSignatureWithUDK
  <1>3. CASE s1(v) = s1(w)
    <2>1. v.resource = w.resource
          /\ getCanonicalName(v, {"b", "bs", "c"}) = getCanonicalName(w, {"b", "bs", "c"})
      BY <1>3 DEF generateBlobSASSignatureUDK20181109
    <2> QED
      BY <1>3, <2>1 DEF generateBlobSASSignatureUDK20181109, getCanonicalName, NamedBlob
  <1>4. CASE s2(v) = s2(w)
    <2>1. v.resource = w.resource
          /\ getCanonicalName(v, {"b", "bs", "c"}) = getCanonicalName(w, {"b", "bs", "c"})
      BY <1>4 DEF generateBlobSASSignatureWithUDK20200210
    <2> QED
      BY <1>4, <2>1 DEF generateBlobSASSignatureWithUDK20200210, getCanonicalName, NamedBlob
  <1>5. CASE s3(v) = s3(w)
    <2>1. v.resource = w.resource /\ getCanonicalName(v, {"b"}) = getCanonicalName(w, {"b"})
      BY <1>5 DEF generateBlobSASSignatureWithUDK20201206
    <2> QED
      BY <1>5, <2>1 DEF generateBlobSASSignatureWithUDK20201206, getCanonicalName, NamedBlob
  <1>6. CASE s4(v) = s4(w)
    <2>1. v.resource = w.resource /\ getCanonicalName(v, {"b"}) = getCanonicalName(w, {"b"})
      BY <1>6 DEF generateBlobSASSignatureWithUDK20250705
    <2> QED
      BY <1>6, <2>1 DEF generateBlobSASSignatureWithUDK20250705, getCanonicalName, NamedBlob
  <1> QED
    BY <1>2, <1>3, <1>4, <1>5, <1>6


----------------------------------------------------------------------------
(***************************************************************************)
(* What a request has been admitted by, which lasts while it is served:    *)
(* the policies and accesses since it arrived only grow, as does the time. *)
(***************************************************************************)
AdmittedBySignature ==
    /\ request.sas.kind # "none"
    /\ SameTerms(ctx.operation, request.sas, Issued(request.sas))
    /\ \E g \in GrantsSince :
          /\ g.permissions # Missing
          /\ Suits(service, ctx.operation, g.permissions)
          /\ \E t \in ctx.startTime .. now : InForce(g, t)

Admitted ==
    \/ HasKey
    \/ request.scheme = "Bearer"
    \/ (\E a \in since.accesses : a # "none") /\ ~Changes(service, ctx.operation)
    \/ AdmittedBySignature

\* The request under way and the clock.
Timely ==
    /\ scenario \in DOMAIN Requests
    /\ now \in Nat
    /\ ctx.startTime \in Nat
    /\ ctx.startTime <= now
    /\ stage # "idle" => /\ request \in Requests[scenario]
                         /\ policy \in since.policies
                         /\ publicAccess \in since.accesses

LEMMA RequestIsParsed ==
    ASSUME Timely, stage # "idle"
    PROVE  LET sas == request.sas
               issued == Issued(request.sas)
           IN  /\ ParsedSas(sas) /\ ParsedSas(issued)
               /\ issued # sas /\ issued.delegation # "none" => ~issued.identifier
               /\ issued # sas /\ issued.resource = "b" => issued.name # ""
  BY SignaturesParsed DEF Timely, Issued

LEMMA ReadWithoutScope ==
    ASSUME NEW sas, ParsedSas(sas)
    PROVE  \A f \in {"permissions", "services", "types", "start", "expiry", "protocol", "version"} :
              WithoutScope(sas)[f] = sas[f]
  <1>1. sas = [f \in DOMAIN NoSas |-> sas[f]]
    BY DEF ParsedSas
  <1>2. {"permissions", "services", "types", "start", "expiry", "protocol", "version"}
            \subseteq DOMAIN NoSas
    BY DEF NoSas
  <1> QED
    BY <1>1, <1>2 DEF WithoutScope

\* The terms of an account's signature are as signed.
LEMMA AccountTermsSigned ==
    ASSUME Timely, stage # "idle", request.sas.kind = "account",
           \/ AccountSigMatches(request.sas, request.sas)
           \/ AccountSigMatches(request.sas, WithoutScope(request.sas))
    PROVE  SameTerms(ctx.operation, request.sas, Issued(request.sas))
  <1> DEFINE sas == request.sas
             issued == Issued(request.sas)
             read == WithoutScope(request.sas)
  <1>1. ParsedSas(sas) /\ ParsedSas(issued)
    BY RequestIsParsed
  <1>2. sas.version \in 1 .. 5 /\ issued.version \in 1 .. 5
    BY <1>1 DEF ParsedSas
  <1>3. /\ read.permissions = sas.permissions /\ read.start = sas.start
        /\ read.expiry = sas.expiry /\ read.protocol = sas.protocol
        /\ read.services = sas.services /\ read.types = sas.types
        /\ read.version = sas.version
    BY <1>1, ReadWithoutScope
  <1>4. \/ generateAccountSASSignature(sas) = generateAccountSASSignature(issued)
        \/ generateAccountSASSignature(read) = generateAccountSASSignature(issued)
    BY DEF AccountSigMatches
  <1> HIDE DEF sas, issued, read
  <1>5. /\ sas.permissions = issued.permissions /\ sas.start = issued.start
        /\ sas.expiry = issued.expiry /\ sas.protocol = issued.protocol
        /\ sas.services = issued.services /\ sas.types = issued.types
    <2>1. CASE generateAccountSASSignature(sas) = generateAccountSASSignature(issued)
      BY <1>2, <2>1, AccountStringBinds
    <2>2. CASE generateAccountSASSignature(read) = generateAccountSASSignature(issued)
      BY <1>2, <1>3, <2>2, AccountStringBinds
    <2> QED
      BY <1>4, <2>1, <2>2
  <1>6. sas.kind = "account"
    BY DEF sas
  <1> QED
    BY <1>5, <1>6 DEF SameTerms, sas, issued

\* A signature's own terms, or those of the policy it names.
LEMMA GrantIsSince ==
    ASSUME Timely, stage # "idle", NEW p, p = PolicyOf(request),
           request.sas.kind = "service", request.sas.identifier => p # Missing
    PROVE  Terms(request.sas, p) \in GrantsSince
  <1>1. CASE request.sas.identifier
    <2>1. p = policy /\ p # Missing
      BY <1>1 DEF PolicyOf
    <2>2. p \in since.policies \ {Missing}
      BY <2>1 DEF Timely
    <2> QED
      BY <1>1, <2>2 DEF GrantsSince
  <1>2. CASE ~request.sas.identifier
    BY <1>2 DEF GrantsSince, Terms
  <1> QED
    BY <1>1, <1>2

LEMMA TimeIsInForce ==
    ASSUME NEW g, now \in Nat, ctx.startTime \in Nat, ctx.startTime <= now,
           validateTime(g.expiry, g.start, now)
    PROVE  \E t \in ctx.startTime .. now : InForce(g, t)
  <1>1. now \in ctx.startTime .. now
    OBVIOUS
  <1>2. InForce(g, now)
    BY DEF validateTime, InForce
  <1> QED
    BY <1>1, <1>2

LEMMA AccountSignatureAdmits ==
    ASSUME Timely, stage # "idle", request.sas.kind = "account",
           \/ AccountSigMatches(request.sas, request.sas)
           \/ AccountSigMatches(request.sas, WithoutScope(request.sas)),
           validateTime(request.sas.expiry, request.sas.start, now),
           NEW table, AskSuitably(service, PermissionsOf(table)),
           ctx.operation \in DOMAIN table,
           validatePermissions(table[ctx.operation].permissions, request.sas.permissions)
    PROVE  AdmittedBySignature
  <1> DEFINE sas == request.sas
             g == Terms(request.sas, Missing)
  <1>1. /\ g.permissions = sas.permissions /\ g.start = sas.start /\ g.expiry = sas.expiry
    BY DEF Terms
  <1>2. g \in GrantsSince
    BY DEF GrantsSince
  <1>3. g.permissions # Missing
    BY <1>1, RequestIsParsed DEF ParsedSas
  <1>4. Suits(service, ctx.operation, g.permissions)
    <2> DEFINE needed == PermissionsOf(table)
    <2>1. /\ ctx.operation \in DOMAIN needed
          /\ needed[ctx.operation] = table[ctx.operation].permissions
      BY DEF PermissionsOf
    <2>2. AskSuitably(service, needed)
      OBVIOUS
    <2> HIDE DEF needed
    <2> QED
      BY <1>1, <2>1, <2>2, AskedLetterSuits
  <1>5. \E t \in ctx.startTime .. now : InForce(g, t)
    <2>1. validateTime(g.expiry, g.start, now)
      BY <1>1
    <2> HIDE DEF g
    <2> QED
      BY <2>1, TimeIsInForce DEF Timely
  <1>6. SameTerms(ctx.operation, request.sas, Issued(request.sas))
    BY AccountTermsSigned
  <1> HIDE DEF g
  <1> QED
    BY <1>2, <1>3, <1>4, <1>5, <1>6 DEF AdmittedBySignature

LEMMA ServiceSignatureAdmits ==
    ASSUME Timely, stage # "idle", NEW p, p = PolicyOf(request),
           request.sas.kind = "service", request.sas.identifier => p # Missing,
           SameTerms(ctx.operation, request.sas, Issued(request.sas)),
           validateTime(Terms(request.sas, p).expiry, Terms(request.sas, p).start, now),
           Terms(request.sas, p).permissions # Missing,
           Suits(service, ctx.operation, Terms(request.sas, p).permissions)
    PROVE  AdmittedBySignature
  <1> DEFINE g == Terms(request.sas, p)
  <1>1. g \in GrantsSince
    BY GrantIsSince
  <1>2. validateTime(g.expiry, g.start, now) /\ g.permissions # Missing
        /\ Suits(service, ctx.operation, g.permissions)
    OBVIOUS
  <1> HIDE DEF g
  <1>3. \E t \in ctx.startTime .. now : InForce(g, t)
    BY <1>2, TimeIsInForce DEF Timely
  <1> QED
    BY <1>1, <1>2, <1>3 DEF AdmittedBySignature


----------------------------------------------------------------------------
(* One authenticator after the other.                                      *)

\* Another resource type in the same string asks for the same letters.
LEMMA NeedsBind ==
    ASSUME NEW v, NEW w, NamedBlob(v) = NamedBlob(w),
           w.resource = "b" => v.resource = "b" \/ w.name # "",
           NEW op \in DOMAIN BlobSASNeeds(v), NEW granted,
           validatePermissions(BlobSASNeeds(v)[op], granted)
    PROVE  BlobSASNeeds(v)[op] = BlobSASNeeds(w)[op]
  <1>1. CASE v.resource = "b" <=> w.resource = "b"
    BY <1>1 DEF BlobSASNeeds
  <1>2. CASE v.resource # "b" /\ w.resource = "b"
    BY <1>2 DEF NamedBlob, getCanonicalName
  <1>3. CASE v.resource = "b" /\ w.resource # "b"
    <2>1. /\ BlobSASNeeds(v) = BlobSASBlobPermissions
          /\ BlobSASNeeds(w) = BlobSASContainerPermissions
      BY <1>3 DEF BlobSASNeeds
    <2>2. BlobSASBlobPermissions[op] # {}
      BY <2>1 DEF validatePermissions, AnyOf
    <2> QED
      BY <2>1, <2>2, ResourcesAgree
  <1> QED
    BY <1>1, <1>2, <1>3

LEMMA BlobTermsSigned ==
    ASSUME Timely, stage # "idle", service = "blob", request.sas.kind = "service",
           request.sas.delegation # "none" => ~request.sas.identifier,
           BlobSigMatches(request.sas),
           ctx.operation \in DOMAIN BlobSASNeeds(request.sas), NEW granted,
           validatePermissions(BlobSASNeeds(request.sas)[ctx.operation], granted)
    PROVE  SameTerms(ctx.operation, request.sas, Issued(request.sas))
  <1> DEFINE sas == request.sas
             issued == Issued(request.sas)
  <1>1. ParsedSas(sas) /\ ParsedSas(issued)
        /\ (issued # sas /\ issued.delegation # "none" => ~issued.identifier)
        /\ (issued # sas /\ issued.resource = "b" => issued.name # "")
    BY RequestIsParsed
  <1>2. /\ sas.version \in 1 .. 5 /\ issued.version \in 1 .. 5
        /\ sas.identifier \in BOOLEAN /\ issued.identifier \in BOOLEAN
    BY <1>1 DEF ParsedSas
  <1>3. (sas.delegation = "none") <=> (issued.delegation = "none")
    BY DEF BlobSigMatches
  <1>4. IF sas.delegation = "none"
        THEN generateBlobSASSignature(sas) = generateBlobSASSignature(issued)
        ELSE generateBlobSASSignatureWithUDK(sas) = generateBlobSASSignatureWithUDK(issued)
    BY DEF BlobSigMatches
  <1>5. sas.delegation # "none" => ~sas.identifier
    OBVIOUS
  <1>6. sas.kind = "service" /\ service = "blob"
    OBVIOUS
  <1>7. SameTerms(ctx.operation, sas, issued) = SameTerms(ctx.operation, request.sas, Issued(request.sas))
    OBVIOUS
  <1>a. ASSUME NamedBlob(sas) = NamedBlob(issued)
        PROVE  BlobSASNeeds(sas)[ctx.operation] = BlobSASNeeds(issued)[ctx.operation]
    <2>1. ctx.operation \in DOMAIN BlobSASNeeds(sas)
          /\ validatePermissions(BlobSASNeeds(sas)[ctx.operation], granted)
      OBVIOUS
    <2>2. issued.resource = "b" => sas.resource = "b" \/ issued.name # ""
      BY <1>1
    <2> HIDE DEF sas, issued
    <2> QED
      BY <1>a, <2>1, <2>2, NeedsBind
  <1> HIDE DEF sas, issued
  <1>8. CASE sas.delegation = "none"
    <2>1. /\ sas.permissions = issued.permissions /\ sas.start = issued.start
          /\ sas.expiry = issued.expiry /\ sas.protocol = issued.protocol
          /\ sas.identifier = issued.identifier
          /\ NamedBlob(sas) = NamedBlob(issued)
      BY <1>2, <1>4, <1>8, BlobStringBinds
    <2>2. BlobSASNeeds(sas)[ctx.operation] = BlobSASNeeds(issued)[ctx.operation]
      BY <1>a, <2>1
    <2>3. UserDelegationKey(sas) = UserDelegationKey(issued)
      BY <1>3, <1>8 DEF UserDelegationKey
    <2> QED
      BY <1>6, <1>7, <2>1, <2>2, <2>3 DEF SameTerms
  <1>9. CASE sas.delegation # "none"
    <2>1. /\ sas.permissions = issued.permissions /\ sas.start = issued.start
          /\ sas.expiry = issued.expiry /\ sas.protocol = issued.protocol
          /\ UserDelegationKey(sas) = UserDelegationKey(issued)
          /\ NamedBlob(sas) = NamedBlob(issued)
      BY <1>2, <1>4, <1>9, DelegatedStringBinds
    <2>2. BlobSASNeeds(sas)[ctx.operation] = BlobSASNeeds(issued)[ctx.operation]
      BY <1>a, <2>1
    <2>3. sas.identifier = issued.identifier
      BY <1>1, <1>2, <1>3, <1>5, <1>9
    <2> QED
      BY <1>6, <1>7, <2>1, <2>2, <2>3 DEF SameTerms
  <1> QED
    BY <1>8, <1>9

LEMMA QueueTermsSigned ==
    ASSUME service # "blob", request.sas.kind = "service", QueueSigMatches(request.sas)
    PROVE  SameTerms(ctx.operation, request.sas, Issued(request.sas))
  BY DEF QueueSigMatches, generateQueueSASSignature, SameTerms

LEMMA TableTermsSigned ==
    ASSUME Timely, stage # "idle", service # "blob", request.sas.kind = "service",
           TableSigMatches(request.sas)
    PROVE  SameTerms(ctx.operation, request.sas, Issued(request.sas))
  BY DEF TableSigMatches, generateTableSASSignature, generateTableSASSignature20181109,
         generateTableSASSignature20150405, SameTerms

\* Shared keys: whoever passes has the key of the account.
LEMMA KeyChecks ==
    ASSUME NEW r, NEW op,
           \/ BlobSharedKey(r, op) \in Admitting
           \/ QueueSharedKey(r) \in Admitting
           \/ TableSharedKeyLite(r) \in Admitting
           \/ TableSharedKey(r) \in Admitting
    PROVE  r.signed /\ r.scheme # "none"
  <1>1. CASE BlobSharedKey(r, op) \in Admitting
    <2> DEFINE checks ==
           <<<<r.account = "unknown", "ResourceNotFound">>,
             <<op = "Service_GetUserDelegationKey", "AuthenticationFailed">>,
             <<r.scheme # "SharedKey" \/ ~r.signed, Skip>>>>
    <2>1. DOMAIN checks = 1 .. 3
      OBVIOUS
    <2>2. \A i \in 1 .. 3 : checks[i][2] \notin Admitting
      BY DEF Admitting, Pass, CheckExists, Skip
    <2>3. FirstError(checks, Pass) \in Admitting
      BY <1>1 DEF BlobSharedKey, Admitting, Pass, CheckExists, Skip
    <2> HIDE DEF checks
    <2>4. ~checks[3][1]
      <3>1. \A i \in 1 .. 3 : ~checks[i][1]
        BY <2>1, <2>2, <2>3, ChecksHold, 3 \in Nat
      <3> QED
        BY <3>1
    <2> QED
      BY <2>4 DEF checks
  <1>2. CASE QueueSharedKey(r) \in Admitting
    <2> DEFINE checks ==
           <<<<r.account = "unknown", "ResourceNotFound">>,
             <<\/ r.scheme \notin {"SharedKey", "SharedKeyLite"}
               \/ ~r.signed, Skip>>>>
    <2>1. DOMAIN checks = 1 .. 2
      OBVIOUS
    <2>2. \A i \in 1 .. 2 : checks[i][2] \notin Admitting
      BY DEF Admitting, Pass, CheckExists, Skip
    <2>3. FirstError(checks, Pass) \in Admitting
      BY <1>2 DEF QueueSharedKey, Admitting, Pass, CheckExists, Skip
    <2> HIDE DEF checks
    <2>4. ~checks[2][1]
      <3>1. \A i \in 1 .. 2 : ~checks[i][1]
        BY <2>1, <2>2, <2>3, ChecksHold, 2 \in Nat
      <3> QED
        BY <3>1
    <2> QED
      BY <2>4 DEF checks
  <1>3. CASE TableSharedKeyLite(r) \in Admitting
    <2> DEFINE checks == <<<<r.account = "unknown", "ResourceNotFound">>, <<~r.signed, Skip>>>>
    <2>1. DOMAIN checks = 1 .. 2
      OBVIOUS
    <2>2. \A i \in 1 .. 2 : checks[i][2] \notin Admitting
      BY DEF Admitting, Pass, CheckExists, Skip
    <2>3. r.scheme = "SharedKeyLite" /\ FirstError(checks, Pass) \in Admitting
      BY <1>3 DEF TableSharedKeyLite, Admitting, Pass, CheckExists, Skip
    <2> HIDE DEF checks
    <2>4. ~checks[2][1]
      <3>1. \A i \in 1 .. 2 : ~checks[i][1]
        BY <2>1, <2>2, <2>3, ChecksHold, 2 \in Nat
      <3> QED
        BY <3>1
    <2> QED
      BY <2>3, <2>4 DEF checks
  <1>4. CASE TableSharedKey(r) \in Admitting
    <2> DEFINE checks == <<<<r.account = "unknown", "ResourceNotFound">>,
                           <<r.scheme # "SharedKey" \/ ~r.signed, Skip>>>>
    <2>1. DOMAIN checks = 1 .. 2
      OBVIOUS
    <2>2. \A i \in 1 .. 2 : checks[i][2] \notin Admitting
      BY DEF Admitting, Pass, CheckExists, Skip
    <2>3. FirstError(checks, Pass) \in Admitting
      BY <1>4 DEF TableSharedKey, Admitting, Pass, CheckExists, Skip
    <2> HIDE DEF checks
    <2>4. ~checks[2][1]
      <3>1. \A i \in 1 .. 2 : ~checks[i][1]
        BY <2>1, <2>2, <2>3, ChecksHold, 2 \in Nat
      <3> QED
        BY <3>1
    <2> QED
      BY <2>4 DEF checks
  <1> QED
    BY <1>1, <1>2, <1>3, <1>4

\* Tokens: whoever passes presented one.
LEMMA TokenChecks ==
    ASSUME NEW r, NEW op, NEW t,
           \/ BlobToken(r, op, t) \in Admitting
           \/ QueueToken(r, op, t) \in Admitting
           \/ TableToken(r, op, t) \in Admitting
    PROVE  r.scheme = "Bearer"
  <1> DEFINE checks(a, b) ==
         <<<<r.account = "unknown", "ResourceNotFound">>,
           <<r.scheme = "none" \/ op = a \/ op = b, Skip>>,
           <<r.scheme # "Bearer", "InvalidAuthenticationInfo">>,
           <<r.protocol # "https", "AuthenticationFailed">>>>
  <1>1. ASSUME NEW a, NEW b, NEW last, FirstError(checks(a, b), last) \in Admitting
        PROVE  r.scheme = "Bearer"
    <2> DEFINE c == checks(a, b)
    <2>1. DOMAIN c = 1 .. 4
      OBVIOUS
    <2>2. \A i \in 1 .. 4 : c[i][2] \notin Admitting
      BY DEF Admitting, Pass, CheckExists, Skip
    <2>3. FirstError(c, last) \in Admitting
      BY <1>1
    <2> HIDE DEF c
    <2>4. ~c[3][1]
      <3>1. \A i \in 1 .. 4 : ~c[i][1]
        BY <2>1, <2>2, <2>3, ChecksHold, 4 \in Nat
      <3> QED
        BY <3>1
    <2> QED
      BY <2>4 DEF c
  <1>2. CASE BlobToken(r, op, t) \in Admitting
    <2>1. FirstError(checks("Container_GetAccessPolicy", "Container_SetAccessPolicy"),
                     authenticateBasic(r.token, "blob", t)) \in Admitting
      BY <1>2 DEF BlobToken
    <2> HIDE DEF checks
    <2> QED
      BY <1>1, <2>1
  <1>3. CASE QueueToken(r, op, t) \in Admitting
    <2>1. FirstError(checks("Queue_GetAccessPolicy", "Queue_SetAccessPolicy"),
                     authenticateBasic(r.token, "queue", t)) \in Admitting
      BY <1>3 DEF QueueToken
    <2> HIDE DEF checks
    <2> QED
      BY <1>1, <2>1
  <1>4. CASE TableToken(r, op, t) \in Admitting
    <2>1. FirstError(checks("Table_GetAccessPolicy", "Table_SetAccessPolicy"),
                     authenticateBasic(r.token, "table", t)) \in Admitting
      BY <1>4 DEF TableToken
    <2> HIDE DEF checks
    <2> QED
      BY <1>1, <2>1
  <1> QED
    BY <1>2, <1>3, <1>4


\* The authenticators of each service.
BlobNames == {"PublicAccess", "BlobSharedKey", "BlobAccountSAS", "BlobSAS", "BlobToken"}
QueueNames == {"QueueSharedKey", "QueueAccountSAS", "QueueSAS", "QueueToken"}
TableNames == {"TableSharedKeyLite", "TableSharedKey", "TableAccountSAS", "TableSAS", "TableToken"}

LEMMA AuthenticatorNames ==
    /\ 1 \in 1 .. Len(Authenticators) /\ Len(Authenticators) \in Nat
    /\ \A i \in 1 .. Len(Authenticators) :
          /\ service = "blob" => Authenticators[i] \in BlobNames
          /\ service = "queue" => Authenticators[i] \in QueueNames
          /\ service \notin {"blob", "queue"} => Authenticators[i] \in TableNames
  <1>1. ASSUME NEW S, NEW q \in Seq(S), NEW x \in S, Len(q) >= 1
        PROVE  LET names == q \o (IF OAuth THEN <<x>> ELSE <<>>)
               IN  names \in Seq(S) /\ Len(names) >= 1
    BY <1>1
  <1>2. BlobAuthenticators \in Seq(BlobNames) /\ Len(BlobAuthenticators) >= 1
    <2> DEFINE q == <<"PublicAccess", "BlobSharedKey", "BlobAccountSAS", "BlobSAS">>
    <2>1. q \in Seq(BlobNames) /\ Len(q) >= 1 /\ "BlobToken" \in BlobNames
      BY DEF BlobNames
    <2>2. BlobAuthenticators = q \o (IF OAuth THEN <<"BlobToken">> ELSE <<>>)
      BY DEF BlobAuthenticators
    <2> HIDE DEF q
    <2> QED
      BY <1>1, <2>1, <2>2
  <1>3. QueueAuthenticators \in Seq(QueueNames) /\ Len(QueueAuthenticators) >= 1
    <2> DEFINE q == <<"QueueSharedKey", "QueueAccountSAS", "QueueSAS">>
    <2>1. q \in Seq(QueueNames) /\ Len(q) >= 1 /\ "QueueToken" \in QueueNames
      BY DEF QueueNames
    <2>2. QueueAuthenticators = q \o (IF OAuth THEN <<"QueueToken">> ELSE <<>>)
      BY DEF QueueAuthenticators
    <2> HIDE DEF q
    <2> QED
      BY <1>1, <2>1, <2>2
  <1>4. TableAuthenticators \in Seq(TableNames) /\ Len(TableAuthenticators) >= 1
    <2> DEFINE q == <<"TableSharedKeyLite", "TableSharedKey", "TableAccountSAS", "TableSAS">>
    <2>1. q \in Seq(TableNames) /\ Len(q) >= 1 /\ "TableToken" \in TableNames
      BY DEF TableNames
    <2>2. TableAuthenticators = q \o (IF OAuth THEN <<"TableToken">> ELSE <<>>)
      BY DEF TableAuthenticators
    <2> HIDE DEF q
    <2> QED
      BY <1>1, <2>1, <2>2
  <1> QED
    BY <1>2, <1>3, <1>4 DEF Authenticators

KnownOperation ==
    service \in Services /\ \E i \in DOMAIN Operation : ctx.operation = Operation[i]

LEMMA BlobOutcomeAdmits ==
    ASSUME Timely, stage = "authenticate", service = "blob", NEW a \in BlobNames,
           Outcome(a) \in Admitting
    PROVE  Admitted
  <1> DEFINE sas == request.sas
             op == ctx.operation
             p == PolicyOf(request)
  <1>1. CASE a = "PublicAccess"
    <2>1. PublicAccess(request, op, publicAccess) = Pass
      BY <1>1 DEF Outcome, Admitting, PublicAccess, Pass, Skip, CheckExists
    <2>2. /\ publicAccess \in {"container", "blob"}
          /\ op \in BlobPublicReads \cup ContainerPublicReads
      BY <2>1 DEF PublicAccess, Pass, Skip
    <2>3. publicAccess \in since.accesses /\ publicAccess # "none"
      BY <2>2 DEF Timely
    <2>4. ~Changes(service, op)
      BY <2>2, LettersSuit
    <2> QED
      BY <2>3, <2>4 DEF Admitted
  <1>2. CASE a = "BlobSharedKey"
    <2>1. BlobSharedKey(request, op) \in Admitting
      BY <1>2 DEF Outcome
    <2> QED
      BY <2>1, KeyChecks DEF Admitted, HasKey
  <1>3. CASE a = "BlobAccountSAS"
    <2>1. BlobAccountSASAuthenticator(request, op, Loose, now) \in Admitting
      BY <1>3 DEF Outcome
    <2>2. /\ sas.kind = "account" /\ AccountSigMatches(sas, sas)
          /\ validateTime(sas.expiry, sas.start, now)
          /\ BlobAccountSASGrant(op, sas) \in Admitting
      BY <2>1, BlobAccountSASChecks
    <2>3. /\ op \in DOMAIN BlobAccountSASPermissions
          /\ validatePermissions(BlobAccountSASPermissions[op].permissions, sas.permissions)
      BY <2>2, BlobAccountGrantChecks, AccountGrantChecks
    <2>4. AskSuitably(service, PermissionsOf(BlobAccountSASPermissions))
      BY LettersSuit
    <2> QED
      BY <2>2, <2>3, <2>4, AccountSignatureAdmits DEF Admitted
  <1>4. CASE a = "BlobSAS"
    <2>1. BlobSAS(request, op, Loose, p, now) \in Admitting
      BY <1>4 DEF Outcome
    <2>2. /\ sas.kind = "service" /\ (sas.delegation # "none" => ~sas.identifier)
          /\ BlobSigMatches(sas) /\ (sas.identifier => p # Missing)
          /\ validateTime(Terms(sas, p).expiry, Terms(sas, p).start, now)
          /\ BlobSASGrant(request, op, Terms(sas, p).permissions) \in Admitting
      BY <2>1, BlobSASChecks
    <2>3. /\ op \in DOMAIN BlobSASNeeds(sas) /\ Terms(sas, p).permissions # Missing
          /\ validatePermissions(BlobSASNeeds(sas)[op], Terms(sas, p).permissions)
      BY <2>2, BlobGrantChecks
    <2>4. AskSuitably(service, BlobSASNeeds(sas))
      BY LettersSuit DEF BlobSASNeeds
    <2>5. Suits(service, op, Terms(sas, p).permissions)
      BY <2>3, <2>4, AskedLetterSuits
    <2>6. SameTerms(op, sas, Issued(sas))
      BY <2>2, <2>3, BlobTermsSigned
    <2> QED
      BY <2>2, <2>3, <2>5, <2>6, ServiceSignatureAdmits DEF Admitted
  <1>5. CASE a = "BlobToken"
    <2>1. BlobToken(request, op, ctx.startTime) \in Admitting
      BY <1>5 DEF Outcome
    <2> QED
      BY <2>1, TokenChecks DEF Admitted
  <1> QED
    BY <1>1, <1>2, <1>3, <1>4, <1>5 DEF BlobNames

LEMMA QueueOutcomeAdmits ==
    ASSUME Timely, stage = "authenticate", service = "queue", KnownOperation,
           NEW a \in QueueNames, Outcome(a) \in Admitting
    PROVE  Admitted
  <1> DEFINE sas == request.sas
             op == ctx.operation
             p == PolicyOf(request)
  <1>1. CASE a = "QueueSharedKey"
    <2>1. QueueSharedKey(request) \in Admitting
      BY <1>1 DEF Outcome
    <2> QED
      BY <2>1, KeyChecks DEF Admitted, HasKey
  <1>2. CASE a = "QueueAccountSAS"
    <2>1. QueueAccountSASAuthenticator(request, op, now) \in Admitting
      BY <1>2 DEF Outcome
    <2>2. /\ sas.kind = "account" /\ AccountSigMatches(sas, WithoutScope(sas))
          /\ validateTime(sas.expiry, sas.start, now)
          /\ AccountSASGrant(Queue!QueueAccountSASPermissions, "q", op, sas) \in Admitting
      BY <2>1, QueueAccountSASChecks
    <2>3. /\ op \in DOMAIN Queue!QueueAccountSASPermissions
          /\ validatePermissions(Queue!QueueAccountSASPermissions[op].permissions, sas.permissions)
      BY <2>2, AccountGrantChecks
    <2>4. AskSuitably(service, PermissionsOf(Queue!QueueAccountSASPermissions))
      BY LettersSuit
    <2> QED
      BY <2>2, <2>3, <2>4, AccountSignatureAdmits DEF Admitted
  <1>3. CASE a = "QueueSAS"
    <2>1. QueueSAS(request, op, p, now) \in Admitting
      BY <1>3 DEF Outcome
    <2>2. /\ sas.kind = "service"
          /\ QueueSigMatches(sas) /\ (sas.identifier => p # Missing)
          /\ validateTime(Terms(sas, p).expiry, Terms(sas, p).start, now)
          /\ PermissionOutcome(Queue!QueueSASPermissions[op], Terms(sas, p).permissions) \in Admitting
      BY <2>1, QueueSASChecks
    <2>3. /\ Terms(sas, p).permissions # Missing
          /\ validatePermissions(Queue!QueueSASPermissions[op], Terms(sas, p).permissions)
      BY <2>2, OutcomeChecks
    <2>4. op \in DOMAIN Queue!QueueSASPermissions
      BY LettersSuit DEF KnownOperation, Operation, OperationOf
    <2>5. AskSuitably(service, Queue!QueueSASPermissions)
      BY LettersSuit
    <2>6. Suits(service, op, Terms(sas, p).permissions)
      BY <2>3, <2>4, <2>5, AskedLetterSuits
    <2>7. SameTerms(op, sas, Issued(sas))
      BY <2>2, QueueTermsSigned
    <2> QED
      BY <2>2, <2>3, <2>6, <2>7, ServiceSignatureAdmits DEF Admitted
  <1>4. CASE a = "QueueToken"
    <2>1. QueueToken(request, op, ctx.startTime) \in Admitting
      BY <1>4 DEF Outcome
    <2> QED
      BY <2>1, TokenChecks DEF Admitted
  <1> QED
    BY <1>1, <1>2, <1>3, <1>4 DEF QueueNames

LEMMA TableOutcomeAdmits ==
    ASSUME Timely, stage = "authenticate", service = "table", KnownOperation,
           NEW a \in TableNames, Outcome(a) \in Admitting
    PROVE  Admitted
  <1> DEFINE sas == request.sas
             op == ctx.operation
             p == PolicyOf(request)
  <1>1. CASE a \in {"TableSharedKeyLite", "TableSharedKey"}
    <2>1. TableSharedKeyLite(request) \in Admitting \/ TableSharedKey(request) \in Admitting
      BY <1>1 DEF Outcome
    <2> QED
      BY <2>1, KeyChecks DEF Admitted, HasKey
  <1>2. CASE a = "TableAccountSAS"
    <2>1. TableAccountSASAuthenticator(request, op, now) \in Admitting
      BY <1>2 DEF Outcome
    <2>2. /\ sas.kind = "account" /\ AccountSigMatches(sas, WithoutScope(sas))
          /\ validateTime(sas.expiry, sas.start, now)
          /\ AccountSASGrant(Table!TableAccountSASPermissions, "t", op, sas) \in Admitting
      BY <2>1, TableAccountSASChecks
    <2>3. /\ op \in DOMAIN Table!TableAccountSASPermissions
          /\ validatePermissions(Table!TableAccountSASPermissions[op].permissions, sas.permissions)
      BY <2>2, AccountGrantChecks
    <2>4. AskSuitably(service, PermissionsOf(Table!TableAccountSASPermissions))
      BY LettersSuit
    <2> QED
      BY <2>2, <2>3, <2>4, AccountSignatureAdmits DEF Admitted
  <1>3. CASE a = "TableSAS"
    <2>1. TableSAS(request, op, p, now) \in Admitting
      BY <1>3 DEF Outcome
    <2>2. /\ sas.kind = "service"
          /\ TableSigMatches(sas) /\ (sas.identifier => p # Missing)
          /\ validateTime(Terms(sas, p).expiry, Terms(sas, p).start, now)
          /\ PermissionOutcome(Table!TableSASPermissions[op], Terms(sas, p).permissions) \in Admitting
      BY <2>1, TableSASChecks
    <2>3. /\ Terms(sas, p).permissions # Missing
          /\ validatePermissions(Table!TableSASPermissions[op], Terms(sas, p).permissions)
      BY <2>2, OutcomeChecks
    <2>4. op \in DOMAIN Table!TableSASPermissions
      BY LettersSuit DEF KnownOperation, Operation, OperationOf
    <2>5. AskSuitably(service, Table!TableSASPermissions)
      BY LettersSuit
    <2>6. Suits(service, op, Terms(sas, p).permissions)
      BY <2>3, <2>4, <2>5, AskedLetterSuits
    <2>7. SameTerms(op, sas, Issued(sas))
      BY <2>2, TableTermsSigned
    <2> QED
      BY <2>2, <2>3, <2>6, <2>7, ServiceSignatureAdmits DEF Admitted
  <1>4. CASE a = "TableToken"
    <2>1. TableToken(request, op, ctx.startTime) \in Admitting
      BY <1>4 DEF Outcome
    <2> QED
      BY <2>1, TokenChecks DEF Admitted
  <1> QED
    BY <1>1, <1>2, <1>3, <1>4 DEF TableNames

LEMMA OutcomeAdmits ==
    ASSUME Timely, stage = "authenticate", KnownOperation,
           ctx.authenticator \in 1 .. Len(Authenticators),
           Outcome(Authenticators[ctx.authenticator]) \in Admitting
    PROVE  Admitted
  <1>1. CASE service = "blob"
    BY <1>1, AuthenticatorNames, BlobOutcomeAdmits
  <1>2. CASE service = "queue"
    BY <1>2, AuthenticatorNames, QueueOutcomeAdmits
  <1>3. CASE service = "table"
    BY <1>3, AuthenticatorNames, TableOutcomeAdmits
  <1> QED
    BY <1>1, <1>2, <1>3 DEF KnownOperation, Services


----------------------------------------------------------------------------
(***************************************************************************)
(* The inductive invariant.                                                *)
(***************************************************************************)
Shaped ==
    /\ ctx = [f \in DOMAIN NoContext |-> ctx[f]]
    /\ response = [f \in DOMAIN NoResponse |-> response[f]]

BeforeHandler == {"context", "dispatch", "strict", "authenticate", "exists",
                  "deserialize", "handler"}
Judged == {"exists", "deserialize", "handler"}

\* The head of a handler's answer is out.
Started == ctx.handled # NotHandled /\ response.status = ctx.handled

\* The handler's answer in full, an error in full, or the first part of the
\* handler's answer.
Answered ==
    \/ ctx.error = NoError /\ Started /\ response.sent = "nothing"
    \/ /\ response.sent = "nothing"
       /\ response.status \in Nat /\ response.status >= 300
       /\ ctx.handled # NotHandled => ctx.error \in AnswerErrors /\ response.status = 500
    \/ response.sent = "aborted" /\ Started

\* What is known of the context at each place of the chain.
Staged ==
    /\ stage \in BeforeHandler => ctx.error = NoError /\ ctx.handled = NotHandled
    /\ stage \in {"context", "dispatch", "strict"} => ctx.authenticator = 1
    /\ stage = "authenticate" => ctx.authenticator \in 1 .. Len(Authenticators)
    /\ stage \in {"strict", "authenticate"} \cup Judged => KnownOperation
    /\ ctx.operation # "none" => KnownOperation
    /\ ctx.handled # NotHandled =>
          /\ KnownOperation
          /\ ctx.handled \in HandlerStatus[ctx.operation]
          /\ stage \in {"cors", "serialize", "options", "error", "end"}
    /\ stage \in {"cors", "serialize"} => ctx.error = NoError /\ ctx.handled # NotHandled
    /\ stage \in BeforeHandler \cup {"failed", "cors", "serialize"} => response.sent = "nothing"
    /\ stage \in {"options", "error"} /\ request.method # "OPTIONS" =>
          /\ response.sent \in {"nothing", "head"}
          /\ response.sent = "head" => Started
          /\ ctx.handled # NotHandled => ctx.error \in AnswerErrors
    /\ stage = "end" /\ request.method # "OPTIONS" => Answered

Judgement == stage \in Judged \/ ctx.handled # NotHandled => Admitted

\* A preflight was granted by a rule that still stands, and answers to which
\* the CORS middleware has been applied tell so.
PreflightsStand ==
    /\ \A p \in preflighted :
          /\ rules # Missing
          /\ p[1] # NoOrigin
          /\ \E i \in DOMAIN rules : /\ checkOrigin(service, rules[i], p[1])
                                     /\ checkMethod(rules[i], p[2])
    /\ /\ stage \in {"serialize", "options", "error", "end"}
       /\ request.method # "OPTIONS"
       /\ ctx.account
       /\ ctx.error # "CorsError"
       /\ <<request.origin, request.method>> \in preflighted
       => response.cors.allowOrigin \in {"*", request.origin}

IInv == Timely /\ Shaped /\ Staged /\ Judgement /\ PreflightsStand


----------------------------------------------------------------------------
(* The status of an error is that of a failure.                            *)

LEMMA ErrorStatusFails ==
    ASSUME NEW e
    PROVE  ErrorStatus(e) \in 300 .. 599
  <1>1. \A x \in DOMAIN Errors : Errors[x] \in 300 .. 599
    <2>1. Errors \in {ErrorsOf("blob"), ErrorsOf("queue"), ErrorsOf("table")}
      BY DEF Errors, ErrorsOf
    <2> QED
      BY <2>1, ErrorsFail DEF Services
  <1> QED
    BY <1>1, ErrorsFail DEF ErrorStatus

LEMMA AnswerErrorStatus ==
    ASSUME NEW e \in AnswerErrors
    PROVE  ErrorStatus(e) = 500
  <1>1. Errors \in {ErrorsOf("blob"), ErrorsOf("queue"), ErrorsOf("table")}
    BY DEF Errors, ErrorsOf
  <1>2. e \notin DOMAIN Errors
    BY <1>1, ErrorsFail DEF Services
  <1>3. e \notin DOMAIN GeneratedErrors
    BY ErrorsFail
  <1> QED
    BY <1>2, <1>3 DEF ErrorStatus

\* The handlers' statuses are known to the operations, and are successes.
LEMMA KnownStatuses ==
    ASSUME KnownOperation
    PROVE  /\ ctx.operation # "none"
           /\ HandlerStatus[ctx.operation] \subseteq Responses
           /\ Responses \subseteq 200 .. 299
  <1>1. PICK i \in DOMAIN OperationOf(service) : ctx.operation = OperationOf(service)[i]
    BY DEF KnownOperation, Operation
  <1>2. service \in Services
    BY DEF KnownOperation
  <1> QED
    BY <1>1, <1>2, StatusesKnown DEF HandlerStatus, Responses, Specifications

----------------------------------------------------------------------------
(* The steps of the chain.                                                 *)

\* What the middlewares leave alone.
Apart == UNCHANGED <<scenario, request, world, since, preflighted>>

\* Later in the same request the grounds of admission are still there.
LEMMA AdmittedStays ==
    ASSUME Admitted, scenario' = scenario, request' = request,
           ctx'.operation = ctx.operation, ctx'.startTime = ctx.startTime,
           ctx.startTime \in Nat, now \in Nat, now' \in Nat, now <= now',
           since.policies \subseteq since'.policies,
           since.accesses \subseteq since'.accesses
    PROVE  Admitted'
  <1>1. service' = service
    BY DEF service
  <1>2. CASE HasKey \/ request.scheme = "Bearer"
    BY <1>2 DEF Admitted, HasKey
  <1>3. CASE (\E a \in since.accesses : a # "none") /\ ~Changes(service, ctx.operation)
    BY <1>1, <1>3 DEF Admitted
  <1>4. CASE AdmittedBySignature
    <2>1. SameTerms(ctx.operation, request.sas, Issued(request.sas))'
      BY <1>1, <1>4 DEF AdmittedBySignature, SameTerms
    <2>2. PICK g \in GrantsSince : /\ g.permissions # Missing
                                   /\ Suits(service, ctx.operation, g.permissions)
                                   /\ \E t \in ctx.startTime .. now : InForce(g, t)
      BY <1>4 DEF AdmittedBySignature
    <2>3. g \in GrantsSince'
      BY DEF GrantsSince
    <2>4. \E t \in ctx'.startTime .. now' : InForce(g, t)
      BY <2>2
    <2> QED
      BY <1>1, <1>4, <2>1, <2>2, <2>3, <2>4 DEF Admitted, AdmittedBySignature
  <1> QED
    BY <1>2, <1>3, <1>4 DEF Admitted


Fields == {"account", "operation", "error", "authenticator", "permissions", "handled", "startTime"}

\* Setting a field of the context leaves the others.
LEMMA FieldSet ==
    ASSUME Shaped, NEW f \in Fields, NEW v, ctx' = [ctx EXCEPT ![f] = v]
    PROVE  /\ ctx'[f] = v
           /\ \A x \in Fields : x # f => ctx'[x] = ctx[x]
           /\ ctx' = [x \in DOMAIN NoContext |-> ctx'[x]]
  <1>1. DOMAIN NoContext = Fields
    BY DEF NoContext, Fields
  <1>2. ctx = [x \in Fields |-> ctx[x]]
    BY <1>1 DEF Shaped
  <1> QED
    BY <1>1, <1>2

LEMMA SameService ==
    ASSUME Apart
    PROVE  service' = service /\ Authenticators' = Authenticators
           /\ Operation' = Operation /\ HandlerStatus' = HandlerStatus
  BY DEF Apart, service, Authenticators, Operation, HandlerStatus

\* An error sends a request that has not been served to the error path.
LEMMA FailKeeps ==
    ASSUME IInv, stage \in BeforeHandler, Apart, NEW e, Fail(e)
    PROVE  IInv'
  <1>1. /\ ctx'.error = e
        /\ ctx'.account = ctx.account /\ ctx'.operation = ctx.operation
        /\ ctx'.authenticator = ctx.authenticator /\ ctx'.handled = ctx.handled
        /\ ctx'.startTime = ctx.startTime
        /\ ctx' = [x \in DOMAIN NoContext |-> ctx'[x]]
    <2>1. ctx' = [ctx EXCEPT !["error"] = e]
      BY DEF Fail
    <2> QED
      BY <2>1, FieldSet DEF IInv, Fields
  <1>2. stage' = "failed" /\ response' = response
    BY DEF Fail
  <1>3. ctx.handled = NotHandled /\ stage # "idle"
    BY DEF IInv, Staged, BeforeHandler
  <1>4. Timely'
    BY <1>1, <1>3 DEF IInv, Timely, Apart, world
  <1>5. Shaped'
    BY <1>1, <1>2 DEF IInv, Shaped
  <1>6. Staged'
    <2>1. ctx'.operation # "none" => KnownOperation'
      BY <1>1, SameService DEF IInv, Staged, KnownOperation
    <2> QED
      BY <1>1, <1>2, <1>3, <2>1 DEF IInv, Staged, BeforeHandler, Judged
  <1>7. Judgement'
    BY <1>1, <1>2, <1>3 DEF Judgement, Judged
  <1>8. PreflightsStand'
    BY <1>2, SameService DEF IInv, PreflightsStand, Apart, world
  <1> QED
    BY <1>4, <1>5, <1>6, <1>7, <1>8 DEF IInv

\* A step from one place before the handler to another.
LEMMA ForwardKeeps ==
    ASSUME IInv, stage \in BeforeHandler, Apart, response' = response,
           stage' \in BeforeHandler \ {"context"},
           Shaped', ctx'.error = NoError, ctx'.handled = NotHandled,
           ctx'.startTime = ctx.startTime,
           stage' \in {"dispatch", "strict"} => ctx'.authenticator = 1,
           stage' = "authenticate" => ctx'.authenticator \in 1 .. Len(Authenticators),
           stage' # "dispatch" => KnownOperation',
           ctx'.operation # "none" => KnownOperation',
           stage' \in Judged => Admitted'
    PROVE  IInv'
  <1>1. stage # "idle"
    BY DEF BeforeHandler
  <1>2. Timely'
    BY <1>1 DEF IInv, Timely, Apart, world
  <1>3. Staged'
    BY SameService DEF IInv, Staged, BeforeHandler, Judged
  <1>4. Judgement'
    BY DEF Judgement
  <1>5. PreflightsStand'
    BY SameService DEF IInv, PreflightsStand, Apart, world, BeforeHandler
  <1> QED
    BY <1>2, <1>3, <1>4, <1>5 DEF IInv

LEMMA ContextKeeps ==
    ASSUME IInv, Context
    PROVE  IInv'
  <1>1. stage = "context" /\ stage \in BeforeHandler /\ Apart
    BY DEF Context, BeforeHandler, Apart
  <1>2. CASE \E e : Fail(e)
    BY <1>1, <1>2, FailKeeps
  <1>3. CASE /\ ctx' = [ctx EXCEPT !.account = TRUE, !.error = ContextError(request)]
             /\ stage' = IF ctx'.error = NoError THEN "dispatch" ELSE "failed"
             /\ UNCHANGED response
    <2>1. DOMAIN NoContext = Fields
      BY DEF NoContext, Fields
    <2>2. ctx = [x \in Fields |-> ctx[x]]
      BY <2>1 DEF IInv, Shaped
    <2>3. /\ ctx'.operation = ctx.operation
          /\ ctx'.authenticator = ctx.authenticator /\ ctx'.handled = ctx.handled
          /\ ctx'.startTime = ctx.startTime
          /\ ctx' = [x \in Fields |-> ctx'[x]]
      BY <1>3, <2>2 DEF Fields
    <2>4. Shaped'
      BY <1>3, <2>1, <2>3 DEF IInv, Shaped
    <2>5. ctx.handled = NotHandled /\ ctx.authenticator = 1
      BY <1>1 DEF IInv, Staged
    <2>6. ctx'.operation # "none" => KnownOperation'
      BY <1>1, <2>3, SameService DEF IInv, Staged, KnownOperation
    <2>7. CASE ctx'.error = NoError
      <3>1. stage' = "dispatch"
        BY <1>3, <2>7
      <3> QED
        BY <1>1, <1>3, <2>3, <2>4, <2>5, <2>6, <2>7, <3>1, ForwardKeeps DEF BeforeHandler, Judged
    <2>8. CASE ctx'.error # NoError
      <3>1. stage' = "failed" /\ response' = response
        BY <1>3, <2>8
      <3>2. Timely'
        BY <1>1, <2>3 DEF IInv, Timely, Apart, world
      <3>3. Staged'
        BY <1>1, <2>3, <2>5, <2>6, <3>1 DEF IInv, Staged, BeforeHandler, Judged
      <3>4. Judgement'
        BY <2>3, <2>5, <3>1 DEF Judgement, Judged
      <3>5. PreflightsStand'
        BY <1>1, <3>1, SameService DEF IInv, PreflightsStand, Apart, world
      <3> QED
        BY <2>4, <3>2, <3>3, <3>4, <3>5 DEF IInv
    <2> QED
      BY <2>7, <2>8
  <1> QED
    BY <1>2, <1>3 DEF Context


LEMMA DispatchKeeps ==
    ASSUME IInv, Dispatch, service \in Services
    PROVE  IInv'
  <1>1. stage = "dispatch" /\ stage \in BeforeHandler /\ Apart
    BY DEF Dispatch, BeforeHandler, Apart
  <1>2. CASE \E e : Fail(e)
    BY <1>1, <1>2, FailKeeps
  <1>3. CASE /\ \E op \in DispatchedOperations(request) : ctx' = [ctx EXCEPT !.operation = op]
             /\ stage' = IF service = "blob" /\ ~Loose THEN "strict" ELSE "authenticate"
             /\ UNCHANGED response
    <2>1. PICK op \in DispatchedOperations(request) : ctx' = [ctx EXCEPT !["operation"] = op]
      BY <1>3
    <2>2. \E i \in DOMAIN Operation : op = Operation[i]
      BY DEF DispatchedOperations
    <2>3. /\ ctx'.operation = op
          /\ ctx'.error = ctx.error /\ ctx'.handled = ctx.handled
          /\ ctx'.authenticator = ctx.authenticator /\ ctx'.startTime = ctx.startTime
          /\ ctx' = [x \in DOMAIN NoContext |-> ctx'[x]]
      BY <2>1, FieldSet DEF IInv, Fields
    <2>4. Shaped'
      BY <1>3, <2>3 DEF IInv, Shaped
    <2>5. ctx.error = NoError /\ ctx.handled = NotHandled /\ ctx.authenticator = 1
      BY <1>1 DEF IInv, Staged
    <2>6. KnownOperation'
      BY <1>1, <2>2, <2>3, SameService DEF KnownOperation
    <2>7. stage' \in {"strict", "authenticate"}
      BY <1>3
    <2> QED
      BY <1>1, <1>3, <2>3, <2>4, <2>5, <2>6, <2>7, AuthenticatorNames, ForwardKeeps
         DEF BeforeHandler, Judged
  <1> QED
    BY <1>2, <1>3 DEF Dispatch

\* A check that passes only moves the request on.
LEMMA PassKeeps ==
    ASSUME IInv, stage \in BeforeHandler, Apart, UNCHANGED <<ctx, response>>,
           KnownOperation,
           \/ stage = "strict" /\ stage' = "authenticate"
           \/ Admitted /\ stage' \in Judged
    PROVE  IInv'
  <1>1. Shaped'
    BY DEF IInv, Shaped
  <1>2. ctx.error = NoError /\ ctx.handled = NotHandled
    BY DEF IInv, Staged
  <1>3. KnownOperation'
    BY SameService DEF KnownOperation
  <1>4. CASE stage = "strict" /\ stage' = "authenticate"
    <2>1. ctx.authenticator = 1
      BY <1>4 DEF IInv, Staged
    <2> QED
      BY <1>1, <1>2, <1>3, <1>4, <2>1, AuthenticatorNames, ForwardKeeps DEF BeforeHandler, Judged
  <1>5. CASE Admitted /\ stage' \in Judged
    <2>1. Admitted'
      BY <1>5, AdmittedStays DEF IInv, Timely, Apart, world
    <2> QED
      BY <1>1, <1>2, <1>3, <1>5, <2>1, ForwardKeeps DEF BeforeHandler, Judged
  <1> QED
    BY <1>4, <1>5

LEMMA StrictModelKeeps ==
    ASSUME IInv, StrictModel
    PROVE  IInv'
  <1>1. stage = "strict" /\ stage \in BeforeHandler /\ Apart /\ KnownOperation
    BY DEF StrictModel, BeforeHandler, Apart, IInv, Staged
  <1>2. CASE \E e : Fail(e)
    BY <1>1, <1>2, FailKeeps
  <1>3. CASE stage' = "authenticate" /\ UNCHANGED <<ctx, response>>
    BY <1>1, <1>3, PassKeeps
  <1> QED
    BY <1>2, <1>3 DEF StrictModel

LEMMA AuthenticateKeeps ==
    ASSUME IInv, Authenticate
    PROVE  IInv'
  <1> DEFINE outcome == Outcome(Authenticators[ctx.authenticator])
  <1>1. /\ stage = "authenticate" /\ stage \in BeforeHandler /\ Apart /\ KnownOperation
        /\ ctx.authenticator \in 1 .. Len(Authenticators)
    BY DEF Authenticate, BeforeHandler, Apart, IInv, Staged
  <1>2. ctx.error = NoError /\ ctx.handled = NotHandled
    BY <1>1 DEF IInv, Staged
  <1>3. outcome \in Admitting => Admitted
    BY <1>1, OutcomeAdmits DEF IInv
  <1>4. \/ outcome = Pass /\ stage' = "deserialize" /\ UNCHANGED <<ctx, response>>
        \/ /\ outcome = CheckExists
           /\ ctx' = [ctx EXCEPT !["permissions"] =
                         Terms(request.sas, PolicyOf(request)).permissions]
           /\ stage' = "exists"
           /\ UNCHANGED response
        \/ /\ ctx.authenticator < Len(Authenticators)
           /\ ctx' = [ctx EXCEPT !["authenticator"] = ctx.authenticator + 1]
           /\ UNCHANGED <<stage, response>>
        \/ \E e : Fail(e)
    BY DEF Authenticate, Pass, Skip, CheckExists
  <1> HIDE DEF outcome
  <1>5. CASE outcome = Pass /\ stage' = "deserialize" /\ UNCHANGED <<ctx, response>>
    BY <1>1, <1>3, <1>5, PassKeeps DEF Admitting, Judged
  <1>6. CASE /\ outcome = CheckExists
             /\ ctx' = [ctx EXCEPT !["permissions"] =
                           Terms(request.sas, PolicyOf(request)).permissions]
             /\ stage' = "exists"
             /\ UNCHANGED response
    <2>1. /\ ctx'.operation = ctx.operation
          /\ ctx'.error = ctx.error /\ ctx'.handled = ctx.handled
          /\ ctx'.startTime = ctx.startTime
          /\ ctx' = [x \in DOMAIN NoContext |-> ctx'[x]]
      BY <1>6, FieldSet DEF IInv, Fields
    <2>2. Shaped'
      BY <1>6, <2>1 DEF IInv, Shaped
    <2>3. KnownOperation'
      BY <1>1, <2>1, SameService DEF KnownOperation
    <2>4. Admitted'
      BY <1>1, <1>3, <1>6, <2>1, AdmittedStays DEF IInv, Timely, Apart, world, Admitting
    <2> QED
      BY <1>1, <1>2, <1>6, <2>1, <2>2, <2>3, <2>4, ForwardKeeps DEF BeforeHandler, Judged
  <1>7. CASE /\ ctx.authenticator < Len(Authenticators)
             /\ ctx' = [ctx EXCEPT !["authenticator"] = ctx.authenticator + 1]
             /\ UNCHANGED <<stage, response>>
    <2>1. /\ ctx'.authenticator = ctx.authenticator + 1
          /\ ctx'.operation = ctx.operation
          /\ ctx'.error = ctx.error /\ ctx'.handled = ctx.handled
          /\ ctx'.startTime = ctx.startTime
          /\ ctx' = [x \in DOMAIN NoContext |-> ctx'[x]]
      BY <1>7, FieldSet DEF IInv, Fields
    <2>2. Shaped'
      BY <1>7, <2>1 DEF IInv, Shaped
    <2>3. KnownOperation'
      BY <1>1, <2>1, SameService DEF KnownOperation
    <2>4. ctx'.authenticator \in 1 .. Len(Authenticators)
      BY <1>1, <1>7, <2>1, AuthenticatorNames
    <2> QED
      BY <1>1, <1>2, <1>7, <2>1, <2>2, <2>3, <2>4, ForwardKeeps DEF BeforeHandler, Judged
  <1>8. CASE \E e : Fail(e)
    BY <1>1, <1>8, FailKeeps
  <1> QED
    BY <1>4, <1>5, <1>6, <1>7, <1>8

LEMMA CheckBlobExistsKeeps ==
    ASSUME IInv, CheckBlobExists
    PROVE  IInv'
  <1>1. stage = "exists" /\ stage \in BeforeHandler /\ Apart /\ KnownOperation /\ Admitted
    BY DEF CheckBlobExists, BeforeHandler, Apart, IInv, Staged, Judgement, Judged
  <1>2. CASE \E e : Fail(e)
    BY <1>1, <1>2, FailKeeps
  <1>3. CASE stage' = "deserialize" /\ UNCHANGED <<ctx, response>>
    BY <1>1, <1>3, PassKeeps DEF Judged
  <1> QED
    BY <1>2, <1>3 DEF CheckBlobExists

LEMMA DeserializeKeeps ==
    ASSUME IInv, Deserialize
    PROVE  IInv'
  <1>1. stage = "deserialize" /\ stage \in BeforeHandler /\ Apart /\ KnownOperation /\ Admitted
    BY DEF Deserialize, BeforeHandler, Apart, IInv, Staged, Judgement, Judged
  <1>2. CASE \E e : Fail(e)
    BY <1>1, <1>2, FailKeeps
  <1>3. CASE stage' = "handler" /\ UNCHANGED <<ctx, response>>
    BY <1>1, <1>3, PassKeeps DEF Judged
  <1> QED
    BY <1>2, <1>3 DEF Deserialize


LEMMA HandleKeeps ==
    ASSUME IInv, Handle
    PROVE  IInv'
  <1>1. stage = "handler" /\ stage \in BeforeHandler /\ Apart /\ KnownOperation /\ Admitted
    BY DEF Handle, BeforeHandler, Apart, IInv, Staged, Judgement, Judged
  <1>2. CASE \E e : Fail(e)
    BY <1>1, <1>2, FailKeeps
  <1>3. CASE \E status \in HandlerStatus[ctx.operation] :
                /\ ctx' = [ctx EXCEPT !.handled = status]
                /\ stage' = "cors"
                /\ UNCHANGED response
    <2>1. PICK status \in HandlerStatus[ctx.operation] : ctx' = [ctx EXCEPT !["handled"] = status]
      BY <1>3
    <2>2. stage' = "cors" /\ response' = response
      BY <1>3
    <2>3. /\ ctx'.handled = status
          /\ ctx'.operation = ctx.operation /\ ctx'.error = ctx.error
          /\ ctx'.startTime = ctx.startTime
          /\ ctx' = [x \in DOMAIN NoContext |-> ctx'[x]]
      BY <2>1, FieldSet DEF IInv, Fields
    <2>4. ctx.error = NoError
      BY <1>1 DEF IInv, Staged
    <2>5. KnownOperation'
      BY <1>1, <2>3, SameService DEF KnownOperation
    <2>6. Timely'
      BY <1>1, <2>2, <2>3 DEF IInv, Timely, Apart, world
    <2>7. Shaped'
      BY <2>2, <2>3 DEF IInv, Shaped
    <2>8. Staged'
      <3>1. ctx'.handled \in HandlerStatus'[ctx'.operation]
        BY <1>1, <2>1, <2>3, SameService
      <3>2. status # NotHandled
        BY <1>1, <2>1, KnownStatuses DEF NotHandled
      <3> QED
        BY <1>1, <2>2, <2>3, <2>4, <2>5, <3>1, <3>2 DEF IInv, Staged, BeforeHandler, Judged
    <2>9. Judgement'
      <3>1. Admitted'
        BY <1>1, <2>3, AdmittedStays DEF IInv, Timely, Apart, world
      <3> QED
        BY <3>1 DEF Judgement
    <2>10. PreflightsStand'
      BY <1>1, <2>2, SameService DEF IInv, PreflightsStand, Apart, world
    <2> QED
      BY <2>6, <2>7, <2>8, <2>9, <2>10 DEF IInv
  <1> QED
    BY <1>2, <1>3 DEF Handle

----------------------------------------------------------------------------
(* From the handler to the answer.                                         *)

LEMMA ResponseSet ==
    ASSUME Shaped, NEW f \in {"status", "cors", "sent"}, NEW v,
           response' = [response EXCEPT ![f] = v]
    PROVE  /\ response'[f] = v
           /\ \A x \in {"status", "cors", "sent"} : x # f => response'[x] = response[x]
           /\ response' = [x \in DOMAIN NoResponse |-> response'[x]]
  <1>1. DOMAIN NoResponse = {"status", "cors", "sent"}
    BY DEF NoResponse
  <1>2. response = [x \in {"status", "cors", "sent"} |-> response[x]]
    BY <1>1 DEF Shaped
  <1> QED
    BY <1>1, <1>2

\* A rule that granted the preflight lets the request itself find a rule,
\* which may be another one.
LEMMA CorsAllows ==
    ASSUME NEW s, NEW rs, NEW origin, NEW method, NEW headers,
           \E i \in DOMAIN rs : checkOrigin(s, rs[i], origin) /\ checkMethod(rs[i], method)
    PROVE  CorsHeaders(s, rs, origin, method, headers).allowOrigin \in {"*", origin}
  <1> DEFINE matching == {i \in DOMAIN rs : /\ checkOrigin(s, rs[i], origin)
                                            /\ checkMethod(rs[i], method)}
             rule == rs[FirstOf(matching)]
  <1>1. matching # {}
    OBVIOUS
  <1>2. CorsHeaders(s, rs, origin, method, headers) =
           [allowOrigin |-> IF rule.any THEN "*" ELSE origin,
            vary |-> ~rule.any,
            expose |-> getExposedHeaders(rule, headers)]
    BY <1>1 DEF CorsHeaders
  <1> HIDE DEF rule
  <1> QED
    BY <1>2

\* The end of the chain leaves the context of a served request alone.
LEMMA AnswerKeeps ==
    ASSUME IInv, stage # "idle", Apart, Shaped', Staged',
           ctx'.handled = ctx.handled, ctx'.operation = ctx.operation,
           ctx'.startTime = ctx.startTime,
           stage' \notin Judged, PreflightsStand'
    PROVE  IInv'
  <1>1. Timely'
    BY DEF IInv, Timely, Apart, world
  <1>2. Judgement'
    <2>1. CASE ctx.handled = NotHandled
      BY <2>1 DEF Judgement
    <2>2. CASE ctx.handled # NotHandled
      <3>1. Admitted'
        BY <2>2, AdmittedStays DEF IInv, Judgement, Timely, Apart, world
      <3> QED
        BY <3>1 DEF Judgement
    <2> QED
      BY <2>1, <2>2
  <1> QED
    BY <1>1, <1>2 DEF IInv

\* An answer that cannot be put together goes the way of an error.
LEMMA AnswerFails ==
    ASSUME IInv, stage \in {"cors", "serialize"}, Apart, NEW e \in AnswerErrors,
           ctx' = [ctx EXCEPT !.error = e], stage' = "options"
    PROVE  /\ ctx'.error = e /\ ctx'.account = ctx.account
           /\ ctx'.operation = ctx.operation /\ ctx'.startTime = ctx.startTime
           /\ ctx'.handled = ctx.handled /\ ctx.handled # NotHandled
           /\ ctx' = [x \in DOMAIN NoContext |-> ctx'[x]]
           /\ KnownOperation' /\ ctx'.handled \in HandlerStatus'[ctx'.operation]
  <1>1. ctx' = [ctx EXCEPT !["error"] = e]
    OBVIOUS
  <1>2. /\ ctx'.error = e /\ ctx'.account = ctx.account
        /\ ctx'.operation = ctx.operation /\ ctx'.startTime = ctx.startTime
        /\ ctx'.handled = ctx.handled
        /\ ctx' = [x \in DOMAIN NoContext |-> ctx'[x]]
    BY <1>1, FieldSet DEF IInv, Fields
  <1>3. ctx.handled # NotHandled
    BY DEF IInv, Staged
  <1>4. KnownOperation' /\ ctx'.handled \in HandlerStatus'[ctx'.operation]
    BY <1>2, <1>3, SameService DEF IInv, Staged, KnownOperation
  <1> QED
    BY <1>2, <1>3, <1>4

LEMMA CorsRequestKeeps ==
    ASSUME IInv, CorsRequest
    PROVE  IInv'
  <1>1. stage \in {"failed", "cors"} /\ Apart
    BY DEF CorsRequest, Apart
  <1>2. stage' = IF stage = "cors" /\ ctx' = ctx THEN "serialize" ELSE "options"
    BY DEF CorsRequest
  <1>3. stage # "idle" /\ stage' \notin Judged
    BY <1>1, <1>2 DEF Judged
  <1>4. \A p \in preflighted' :
          /\ rules' # Missing
          /\ p[1] # NoOrigin
          /\ \E i \in DOMAIN rules' : /\ checkOrigin(service', rules'[i], p[1])
                                      /\ checkMethod(rules'[i], p[2])
    BY <1>1, SameService DEF IInv, PreflightsStand, Apart, world
  <1>5. ASSUME ctx' = ctx, response'.sent = response.sent
        PROVE  Staged'
    <2>1. KnownOperation' <=> KnownOperation
      BY <1>1, <1>5, SameService DEF KnownOperation
    <2>2. stage = "failed" => ctx.handled = NotHandled
      BY DEF IInv, Staged
    <2> QED
      BY <1>1, <1>2, <1>5, <2>1, <2>2, SameService DEF IInv, Staged, BeforeHandler, Judged
  <1>6. CASE WithoutCors /\ UNCHANGED <<ctx, response>>
    <2>1. Shaped'
      BY <1>6 DEF IInv, Shaped
    <2>2. PreflightsStand'
      <3>1. /\ request'.method # "OPTIONS" /\ ctx'.account
            /\ <<request'.origin, request'.method>> \in preflighted'
            => FALSE
        <4>1. <<request'.origin, request'.method>>[1] = request'.origin
          OBVIOUS
        <4> QED
          BY <1>1, <1>4, <1>6, <4>1 DEF Apart, world, WithoutCors
      <3> QED
        BY <1>4, <3>1 DEF PreflightsStand
    <2> QED
      BY <1>1, <1>3, <1>5, <1>6, <2>1, <2>2, AnswerKeeps
  <1> DEFINE headers == CorsHeaders(service, rules, request.origin, request.method,
                                    getResponseHeaders)
  <1>7. CASE response' = [response EXCEPT !.cors = headers] /\ ctx' = ctx
    <2>1. response' = [response EXCEPT !["cors"] = headers]
      BY <1>7
    <2>2. /\ response'.cors = headers /\ response'.sent = response.sent
          /\ response' = [x \in DOMAIN NoResponse |-> response'[x]]
      BY <2>1, ResponseSet DEF IInv
    <2>3. Shaped'
      BY <1>7, <2>2 DEF IInv, Shaped
    <2>4. PreflightsStand'
      <3>1. ASSUME <<request.origin, request.method>> \in preflighted
            PROVE  headers.allowOrigin \in {"*", request.origin}
        <4> DEFINE p == <<request.origin, request.method>>
        <4>1. p[1] = request.origin /\ p[2] = request.method
          OBVIOUS
        <4>2. \E i \in DOMAIN rules : /\ checkOrigin(service, rules[i], p[1])
                                      /\ checkMethod(rules[i], p[2])
          BY <3>1 DEF IInv, PreflightsStand
        <4> QED
          BY <4>1, <4>2, CorsAllows
      <3> HIDE DEF headers
      <3> QED
        BY <1>1, <1>4, <2>2, <3>1 DEF PreflightsStand, Apart
    <2> QED
      BY <1>1, <1>3, <1>5, <1>7, <2>2, <2>3, <2>4, AnswerKeeps
  <1>8. CASE /\ ctx.handled # NotHandled
             /\ ctx' = [ctx EXCEPT !.error = "CorsError"]
             /\ response' = response
    <2>1. stage = "cors"
      BY <1>1, <1>8 DEF IInv, Staged
    <2>2. ctx.error = NoError /\ response.sent = "nothing"
      BY <2>1 DEF IInv, Staged
    <2>3. ctx'.error = "CorsError"
      <3>1. ctx' = [ctx EXCEPT !["error"] = "CorsError"]
        BY <1>8
      <3> QED
        BY <3>1, FieldSet DEF IInv, Fields
    <2>4. stage' = "options"
      BY <1>2, <2>2, <2>3 DEF NoError
    <2>5. /\ ctx'.operation = ctx.operation /\ ctx'.startTime = ctx.startTime
          /\ ctx'.handled = ctx.handled
          /\ ctx' = [x \in DOMAIN NoContext |-> ctx'[x]]
          /\ KnownOperation' /\ ctx'.handled \in HandlerStatus'[ctx'.operation]
      BY <1>1, <1>8, <2>1, <2>4, AnswerFails DEF AnswerErrors
    <2>6. Shaped'
      BY <1>8, <2>5 DEF IInv, Shaped
    <2>7. Staged'
      BY <1>8, <2>2, <2>3, <2>4, <2>5 DEF Staged, BeforeHandler, Judged, AnswerErrors
    <2>8. PreflightsStand'
      BY <1>4, <2>3 DEF PreflightsStand
    <2> QED
      BY <1>1, <1>3, <2>5, <2>6, <2>7, <2>8, AnswerKeeps
  <1> QED
    BY <1>6, <1>7, <1>8 DEF CorsRequest

LEMMA SerializeKeeps ==
    ASSUME IInv, Serialize
    PROVE  IInv'
  <1>1. stage = "serialize" /\ Apart
    BY DEF Serialize, Apart
  <1>2. ctx.error = NoError /\ ctx.handled # NotHandled /\ response.sent = "nothing"
    BY <1>1 DEF IInv, Staged
  <1>3. CASE ctx' = ctx /\ stage' = "end" /\ response' = [response EXCEPT !.status = ctx.handled]
    <2>1. response' = [response EXCEPT !["status"] = ctx.handled]
      BY <1>3
    <2>2. /\ response'.status = ctx.handled /\ response'.cors = response.cors
          /\ response'.sent = response.sent
          /\ response' = [x \in DOMAIN NoResponse |-> response'[x]]
      BY <2>1, ResponseSet DEF IInv
    <2>3. Shaped'
      BY <1>3, <2>2 DEF IInv, Shaped
    <2>4. Staged'
      <3>1. KnownOperation' <=> KnownOperation
        BY <1>1, <1>3, SameService DEF KnownOperation
      <3>2. Answered'
        BY <1>2, <1>3, <2>2 DEF Answered, Started
      <3> QED
        BY <1>1, <1>3, <3>1, <3>2, SameService DEF IInv, Staged, BeforeHandler, Judged
    <2>5. PreflightsStand'
      BY <1>1, <1>3, <2>2, SameService DEF IInv, PreflightsStand, Apart, world
    <2> QED
      BY <1>1, <1>3, <2>3, <2>4, <2>5, AnswerKeeps DEF Judged
  <1>4. ASSUME NEW sent \in {"nothing", "head"},
               response' = [response EXCEPT !.status = ctx.handled, !.sent = sent],
               ctx' = [ctx EXCEPT !.error = "SerializeError"], stage' = "options"
        PROVE  IInv'
    <2>1. /\ ctx'.error = "SerializeError" /\ ctx'.account = ctx.account
          /\ ctx'.operation = ctx.operation /\ ctx'.startTime = ctx.startTime
          /\ ctx'.handled = ctx.handled
          /\ ctx' = [x \in DOMAIN NoContext |-> ctx'[x]]
          /\ KnownOperation' /\ ctx'.handled \in HandlerStatus'[ctx'.operation]
      BY <1>1, <1>4, AnswerFails DEF AnswerErrors
    <2>2. /\ response'.status = ctx.handled /\ response'.cors = response.cors
          /\ response'.sent = sent
          /\ response' = [x \in DOMAIN NoResponse |-> response'[x]]
      <3>1. response = [x \in DOMAIN NoResponse |-> response[x]]
        BY DEF IInv, Shaped
      <3> QED
        BY <1>4, <3>1 DEF NoResponse
    <2>3. Shaped'
      BY <2>1, <2>2 DEF Shaped
    <2>4. Staged'
      <3>1. Started'
        BY <1>2, <2>1, <2>2 DEF Started
      <3> QED
        BY <1>4, <2>1, <2>2, <3>1 DEF Staged, BeforeHandler, Judged, AnswerErrors
    <2>5. PreflightsStand'
      BY <1>1, <1>2, <1>4, <2>1, <2>2, SameService DEF IInv, PreflightsStand, Apart, world, NoError
    <2> QED
      BY <1>1, <1>4, <2>1, <2>3, <2>4, <2>5, AnswerKeeps DEF Judged
  <1> QED
    BY <1>3, <1>4 DEF Serialize

LEMMA ErrorKeeps ==
    ASSUME IInv, Error
    PROVE  IInv'
  <1>1. stage = "error" /\ Apart /\ ctx' = ctx /\ stage' = "end"
    BY DEF Error, Apart
  <1>2. /\ response'.cors = response.cors
        /\ response' = [x \in DOMAIN NoResponse |-> response'[x]]
        /\ request.method # "OPTIONS" => Answered'
    <2>1. CASE response.sent = "head"
      <3>1. response' = [response EXCEPT !["sent"] = "aborted"]
        BY <2>1 DEF Error
      <3>2. /\ response'.sent = "aborted" /\ response'.cors = response.cors
            /\ response'.status = response.status
            /\ response' = [x \in DOMAIN NoResponse |-> response'[x]]
        BY <3>1, ResponseSet DEF IInv
      <3>3. request.method # "OPTIONS" => Started
        BY <1>1, <2>1 DEF IInv, Staged
      <3> QED
        BY <1>1, <3>2, <3>3 DEF Answered, Started
    <2>2. CASE response.sent # "head"
      <3>1. response' = [response EXCEPT !["status"] = ErrorStatus(ctx.error)]
        BY <2>2 DEF Error
      <3>2. /\ response'.status = ErrorStatus(ctx.error) /\ response'.cors = response.cors
            /\ response'.sent = response.sent
            /\ response' = [x \in DOMAIN NoResponse |-> response'[x]]
        BY <3>1, ResponseSet DEF IInv
      <3>3. response'.status \in Nat /\ response'.status >= 300
        BY <3>2, ErrorStatusFails
      <3>4. request.method # "OPTIONS" =>
               /\ response.sent = "nothing"
               /\ ctx.handled # NotHandled => ctx.error \in AnswerErrors
        BY <1>1, <2>2 DEF IInv, Staged
      <3>5. request.method # "OPTIONS" /\ ctx.handled # NotHandled => response'.status = 500
        BY <3>2, <3>4, AnswerErrorStatus
      <3> QED
        BY <1>1, <3>2, <3>3, <3>4, <3>5 DEF Answered
    <2> QED
      BY <2>1, <2>2
  <1>3. Shaped'
    BY <1>1, <1>2 DEF IInv, Shaped
  <1>4. Staged'
    <2>1. KnownOperation' <=> KnownOperation
      BY <1>1, SameService DEF KnownOperation
    <2>2. request' = request
      BY <1>1 DEF Apart
    <2> QED
      BY <1>1, <1>2, <2>1, <2>2, SameService DEF IInv, Staged, BeforeHandler, Judged
  <1>5. PreflightsStand'
    BY <1>1, <1>2, SameService DEF IInv, PreflightsStand, Apart, world
  <1> QED
    BY <1>1, <1>3, <1>4, <1>5, AnswerKeeps DEF Judged


LEMMA OptionsKeeps ==
    ASSUME IInv, Options
    PROVE  IInv'
  <1>1. /\ stage = "options"
        /\ UNCHANGED <<scenario, request, publicAccess, policy, blobExists, rules, now, since>>
    BY DEF Options, world
  <1>3. service' = service /\ Operation' = Operation /\ HandlerStatus' = HandlerStatus
    BY <1>1 DEF service, Operation, HandlerStatus
  <1> DEFINE granted == /\ request.origin # NoOrigin
                        /\ request.requestMethod # "none"
                        /\ ctx.account
                        /\ rules # Missing
                        /\ PreflightGranted(service, rules, request.origin,
                                            request.requestMethod, request.requestHeaders)
  <1>4. CASE request.method # "OPTIONS"
    <2>1. stage' = "error" /\ UNCHANGED <<ctx, response, preflighted>>
      BY <1>4 DEF Options
    <2>2. Apart
      BY <1>1, <2>1 DEF Apart, world
    <2>3. Shaped'
      BY <2>1 DEF IInv, Shaped
    <2>4. Staged'
      <3>1. KnownOperation' <=> KnownOperation
        BY <1>3, <2>1 DEF KnownOperation
      <3> QED
        BY <1>1, <1>3, <2>1, <3>1 DEF IInv, Staged, BeforeHandler, Judged, Started
    <2>5. PreflightsStand'
      BY <1>1, <1>3, <2>1 DEF IInv, PreflightsStand
    <2> QED
      BY <1>1, <2>1, <2>2, <2>3, <2>4, <2>5, AnswerKeeps DEF Judged
  <1>5. CASE request.method = "OPTIONS"
    <2>1. PICK e : ctx' = [ctx EXCEPT !["error"] = e]
      BY <1>5 DEF Options
    <2>2. /\ ctx'.error = e
          /\ ctx'.operation = ctx.operation /\ ctx'.handled = ctx.handled
          /\ ctx'.startTime = ctx.startTime
          /\ ctx' = [x \in DOMAIN NoContext |-> ctx'[x]]
      BY <2>1, FieldSet DEF IInv, Fields
    <2>3. stage' = IF granted THEN "end" ELSE "error"
      BY <1>5 DEF Options
    <2>4. ASSUME granted
          PROVE  ctx'.error = NoError
      <3>1. ctx' = [ctx EXCEPT !["error"] = NoError]
        BY <1>5, <2>4 DEF Options
      <3> QED
        BY <3>1, FieldSet DEF IInv, Fields
    <2>5. Timely'
      BY <1>1, <2>2, <2>3 DEF IInv, Timely
    <2>6. Shaped'
      <3>1. response = [x \in DOMAIN NoResponse |-> response[x]]
        BY DEF IInv, Shaped
      <3>2. response' = response
            \/ response' = [response EXCEPT !.status = 200, !.cors.allowOrigin = request.origin]
        BY <1>5 DEF Options
      <3>3. response' = [x \in DOMAIN NoResponse |-> response'[x]]
        BY <3>1, <3>2 DEF NoResponse
      <3> QED
        BY <2>2, <3>3 DEF Shaped
    <2>7. Staged'
      <3>1. ctx'.operation # "none" => KnownOperation'
        BY <1>3, <2>2 DEF IInv, Staged, KnownOperation
      <3>2. ctx'.handled # NotHandled =>
               KnownOperation' /\ ctx'.handled \in HandlerStatus'[ctx'.operation]
        BY <1>3, <2>2 DEF IInv, Staged, KnownOperation
      <3>3. request'.method = "OPTIONS" /\ stage' \in {"error", "end"}
        BY <1>1, <1>5, <2>3
      <3> HIDE DEF granted
      <3> QED
        BY <2>2, <2>4, <3>1, <3>2, <3>3 DEF Staged, BeforeHandler, Judged
    <2>8. Judgement'
      <3>1. stage' \notin Judged
        BY <2>3 DEF Judged
      <3>2. ctx.handled # NotHandled => Admitted'
        BY <1>1, <2>2, AdmittedStays DEF IInv, Judgement, Timely
      <3> HIDE DEF granted
      <3> QED
        BY <2>2, <3>1, <3>2 DEF Judgement
    <2>9. PreflightsStand'
      <3> DEFINE q == <<request.origin, request.requestMethod>>
      <3>1. preflighted' = preflighted \/ (granted /\ preflighted' = preflighted \cup {q})
        BY <1>5 DEF Options
      <3>2. granted => /\ rules # Missing /\ q[1] # NoOrigin
                       /\ \E i \in DOMAIN rules : /\ checkOrigin(service, rules[i], q[1])
                                                  /\ checkMethod(rules[i], q[2])
        BY DEF PreflightGranted
      <3>3. request'.method = "OPTIONS"
        BY <1>1, <1>5
      <3> HIDE DEF q, granted
      <3> QED
        BY <1>1, <1>3, <3>1, <3>2, <3>3 DEF IInv, PreflightsStand
    <2> QED
      BY <2>5, <2>6, <2>7, <2>8, <2>9 DEF IInv
  <1> QED
    BY <1>4, <1>5

----------------------------------------------------------------------------
(* Requests come and go, the stores change, time passes.                   *)

LEMMA NoContextFields ==
    /\ NoContext.account = FALSE /\ NoContext.operation = "none"
    /\ NoContext.error = NoError /\ NoContext.authenticator = 1
    /\ NoContext.handled = NotHandled /\ NoContext.startTime = 0
    /\ NoContext = [x \in DOMAIN NoContext |-> NoContext[x]]
    /\ NoResponse = [x \in DOMAIN NoResponse |-> NoResponse[x]]
    /\ NoResponse.sent = "nothing"
  BY DEF NoContext, NoResponse

LEMMA ReceiveKeeps ==
    ASSUME IInv, Receive
    PROVE  IInv'
  <1>1. /\ stage' = "context" /\ request' \in Requests[scenario]
        /\ ctx' = [NoContext EXCEPT !.startTime = now] /\ response' = NoResponse
        /\ UNCHANGED <<scenario, publicAccess, policy, rules, now, preflighted>>
    BY DEF Receive, world
  <1>2. policy' \in since'.policies /\ publicAccess' \in since'.accesses
    BY <1>1 DEF Receive
  <1>3. /\ ctx'.operation = "none" /\ ctx'.error = NoError /\ ctx'.authenticator = 1
        /\ ctx'.handled = NotHandled /\ ctx'.startTime = now
        /\ ctx' = [x \in DOMAIN NoContext |-> ctx'[x]]
    BY <1>1 DEF NoContext
  <1>4. Timely'
    BY <1>1, <1>2, <1>3 DEF IInv, Timely
  <1>5. Shaped'
    BY <1>1, <1>3, NoContextFields DEF Shaped
  <1>6. Staged'
    BY <1>1, <1>3, NoContextFields DEF Staged, Judged
  <1>7. Judgement'
    BY <1>1, <1>3 DEF Judgement, Judged
  <1>8. PreflightsStand'
    BY <1>1 DEF IInv, PreflightsStand, service
  <1> QED
    BY <1>4, <1>5, <1>6, <1>7, <1>8 DEF IInv

LEMMA EndKeeps ==
    ASSUME IInv, End
    PROVE  IInv'
  <1>1. /\ stage' = "idle" /\ ctx' = NoContext /\ response' = NoResponse
        /\ UNCHANGED <<scenario, publicAccess, policy, rules, now, preflighted>>
    BY DEF End, world
  <1>2. Timely'
    BY <1>1, NoContextFields DEF IInv, Timely
  <1>3. Shaped'
    BY <1>1, NoContextFields DEF Shaped
  <1>4. Staged'
    BY <1>1, NoContextFields DEF Staged, BeforeHandler, Judged
  <1>5. Judgement'
    BY <1>1, NoContextFields DEF Judgement, Judged
  <1>6. PreflightsStand'
    BY <1>1 DEF IInv, PreflightsStand, service
  <1> QED
    BY <1>2, <1>3, <1>4, <1>5, <1>6 DEF IInv

\* What happens beside a request leaves its place in the chain alone.
LEMMA BesideKeeps ==
    ASSUME IInv, UNCHANGED chain, now' \in Nat, now <= now',
           \/ UNCHANGED <<since, policy, publicAccess>>
           \/ stage = "idle"
           \/ /\ policy' \in since'.policies /\ publicAccess' \in since'.accesses
              /\ since.policies \subseteq since'.policies
              /\ since.accesses \subseteq since'.accesses,
           \/ UNCHANGED <<rules, preflighted>>
           \/ preflighted' = {}
    PROVE  IInv'
  <1>1. UNCHANGED <<scenario, request, stage, ctx, response>>
    BY DEF chain
  <1>2. service' = service /\ Operation' = Operation /\ HandlerStatus' = HandlerStatus
        /\ Authenticators' = Authenticators
    BY <1>1 DEF service, Operation, HandlerStatus, Authenticators
  <1>3. Timely'
    BY <1>1 DEF IInv, Timely
  <1>4. Shaped'
    BY <1>1 DEF IInv, Shaped
  <1>5. Staged'
    <2>1. KnownOperation' <=> KnownOperation
      BY <1>1, <1>2 DEF KnownOperation
    <2> QED
      BY <1>1, <1>2, <2>1 DEF IInv, Staged, Answered, Started
  <1>6. Judgement'
    <2>1. CASE stage \notin Judged /\ ctx.handled = NotHandled
      BY <1>1, <2>1 DEF Judgement
    <2>2. CASE stage \in Judged \/ ctx.handled # NotHandled
      <3>1. stage # "idle"
        BY <2>2 DEF IInv, Staged, Judged
      <3>2. /\ since.policies \subseteq since'.policies
            /\ since.accesses \subseteq since'.accesses
        BY <3>1
      <3>3. Admitted'
        BY <1>1, <2>2, <3>2, AdmittedStays DEF IInv, Judgement, Timely
      <3> QED
        BY <3>3 DEF Judgement
    <2> QED
      BY <2>1, <2>2
  <1>7. PreflightsStand'
    BY <1>1, <1>2 DEF IInv, PreflightsStand
  <1> QED
    BY <1>3, <1>4, <1>5, <1>6, <1>7 DEF IInv

LEMMA SetAccessPolicyKeeps ==
    ASSUME IInv, SetAccessPolicy
    PROVE  IInv'
  <1>1. PICK p, a : setAcl(p, a)
    BY DEF SetAccessPolicy, BlobSetAccessPolicy, QueueSetAccessPolicy, TableSetAccessPolicy,
           setContainerACL, setQueueACL
  <1>2. UNCHANGED chain /\ now' = now /\ UNCHANGED <<rules, preflighted>>
    BY <1>1 DEF setAcl
  <1>3. stage # "idle" => /\ policy' \in since'.policies /\ publicAccess' \in since'.accesses
                          /\ since.policies \subseteq since'.policies
                          /\ since.accesses \subseteq since'.accesses
    BY <1>1 DEF setAcl
  <1> QED
    BY <1>2, <1>3, BesideKeeps DEF IInv, Timely

LEMMA SetServicePropertiesKeeps ==
    ASSUME IInv, SetServiceProperties
    PROVE  IInv'
  <1>1. PICK cors : RulesBecome(cors)
    BY DEF SetServiceProperties, BlobSetProperties, QueueSetProperties, TableSetProperties,
           BlobGetProperties, QueueGetProperties, TableGetProperties
  <1>2. /\ UNCHANGED chain /\ now' = now /\ UNCHANGED <<since, policy, publicAccess>>
        /\ UNCHANGED <<rules, preflighted>> \/ preflighted' = {}
    BY <1>1 DEF RulesBecome
  <1> QED
    BY <1>2, BesideKeeps DEF IInv, Timely

LEMMA CreateOrDeleteBlobKeeps ==
    ASSUME IInv, CreateOrDeleteBlob
    PROVE  IInv'
  BY BesideKeeps DEF CreateOrDeleteBlob, IInv, Timely

LEMMA TickKeeps ==
    ASSUME IInv, Tick
    PROVE  IInv'
  <1>1. /\ UNCHANGED chain /\ UNCHANGED <<since, policy, publicAccess, rules, preflighted>>
        /\ now' = now + 1 /\ now \in Nat
    BY DEF Tick, IInv, Timely
  <1> QED
    BY <1>1, BesideKeeps


----------------------------------------------------------------------------
(* The theorems.                                                           *)

LEMMA InitEstablishes == Init => IInv
  <1> SUFFICES ASSUME Init PROVE IInv
    OBVIOUS
  <1>1. /\ stage = "idle" /\ ctx = NoContext /\ response = NoResponse
        /\ preflighted = {} /\ now = 1 /\ scenario \in DOMAIN Requests
    BY DEF Init
  <1>2. Timely /\ Shaped
    BY <1>1, NoContextFields DEF Timely, Shaped
  <1>3. Staged
    BY <1>1, NoContextFields DEF Staged, BeforeHandler, Judged
  <1>4. Judgement
    BY <1>1, NoContextFields DEF Judgement, Judged
  <1>5. PreflightsStand
    BY <1>1 DEF PreflightsStand
  <1> QED
    BY <1>2, <1>3, <1>4, <1>5 DEF IInv

LEMMA NextKeeps == IInv /\ [Next]_vars => IInv'
  <1> SUFFICES ASSUME IInv, [Next]_vars PROVE IInv'
    OBVIOUS
  <1>1. CASE Receive
    BY <1>1, ReceiveKeeps
  <1>2. CASE Context
    BY <1>2, ContextKeeps
  <1>3. CASE Authenticate
    BY <1>3, AuthenticateKeeps
  <1>4. CASE End
    BY <1>4, EndKeeps
  <1>5. CASE BlobMiddleware \/ QueueMiddleware \/ TableMiddleware
    <2>1. /\ service \in Services
          /\ \/ Dispatch \/ StrictModel \/ CheckBlobExists \/ Deserialize \/ Handle
             \/ CorsRequest \/ Serialize \/ Options \/ Error
      BY <1>5 DEF BlobMiddleware, QueueMiddleware, TableMiddleware, Services,
         QueueDispatch, TableDispatch, QueueDeserialize, TableDeserialize, QueueHandle,
         TableHandle, QueueCorsRequest, TableCorsRequest, QueueSerialize, TableSerialize,
         QueueOptions, TableOptions, QueueError, TableError
    <2> QED
      BY <2>1, DispatchKeeps, StrictModelKeeps, CheckBlobExistsKeeps, DeserializeKeeps,
         HandleKeeps, CorsRequestKeeps, SerializeKeeps, OptionsKeeps, ErrorKeeps
  <1>6. CASE SetAccessPolicy
    BY <1>6, SetAccessPolicyKeeps
  <1>7. CASE CreateOrDeleteBlob
    BY <1>7, CreateOrDeleteBlobKeeps
  <1>8. CASE SetServiceProperties
    BY <1>8, SetServicePropertiesKeeps
  <1>9. CASE Tick
    BY <1>9, TickKeeps
  <1>10. CASE UNCHANGED vars
    <2>1. /\ UNCHANGED chain /\ UNCHANGED <<since, policy, publicAccess, rules, preflighted>>
          /\ now' = now /\ now \in Nat
      BY <1>10 DEF vars, world, chain, IInv, Timely
    <2> QED
      BY <2>1, BesideKeeps
  <1> QED
    BY <1>1, <1>2, <1>3, <1>4, <1>5, <1>6, <1>7, <1>8, <1>9, <1>10 DEF Next, Middleware

\* The inductive invariant: what is known of a request at each place of the
\* middleware chain, what it was admitted by, and which preflights still stand.
THEOREM PipelineInvariant == Spec => []IInv
  BY InitEstablishes, NextKeeps, PTL DEF Spec

\* For any requests and rules, a success that is answered in full is that of
\* the handler, a request that a handler has served is answered with its status
\* or, when the answer cannot be put together, with 500, and a request that
\* failed never in full with a status that its operation knows as success.
THEOREM AnswersTellOutcome == Spec => []AnswerTellsOutcome
  <1>1. IInv => AnswerTellsOutcome
    <2> SUFFICES ASSUME IInv, stage = "end", request.method # "OPTIONS"
                 PROVE  AnswerTellsOutcome
      BY DEF AnswerTellsOutcome
    <2>1. Answered
      BY DEF IInv, Staged
    <2>2. ctx.operation # "none" => Responses \subseteq 200 .. 299
      BY KnownStatuses DEF IInv, Staged
    <2>3. CASE ctx.error = NoError /\ Started /\ response.sent = "nothing"
      BY <2>3 DEF AnswerTellsOutcome, Started
    <2>4. CASE /\ response.sent = "nothing"
               /\ response.status \in Nat /\ response.status >= 300
               /\ ctx.handled # NotHandled => ctx.error \in AnswerErrors /\ response.status = 500
      <3>1. ~(response.status < 300)
        BY <2>4
      <3>2. ctx.operation # "none" => response.status \notin Responses
        BY <2>2, <2>4
      <3> QED
        BY <2>4, <3>1, <3>2 DEF AnswerTellsOutcome
    <2>5. CASE response.sent = "aborted" /\ Started
      BY <2>5 DEF AnswerTellsOutcome, Started
    <2> QED
      BY <2>1, <2>3, <2>4, <2>5 DEF Answered
  <1> QED
    BY <1>1, PipelineInvariant, PTL

\* No handler runs without a key, a token, public access to what it reads, or a
\* signature with a letter that allows what it does, whatever credentials a
\* request mixes and whatever happens to policies and public access meanwhile.
THEOREM GrantsSuitOperations == Spec => []GrantSuitsOperation
  <1>1. IInv => GrantSuitsOperation
    <2> SUFFICES ASSUME IInv, ctx.handled # NotHandled
                 PROVE  GrantSuitsOperation
      BY DEF GrantSuitsOperation
    <2>1. Admitted
      BY DEF IInv, Judgement
    <2>2. CASE HasKey \/ request.scheme = "Bearer"
      BY <2>2 DEF GrantSuitsOperation
    <2>3. CASE (\E a \in since.accesses : a # "none") /\ ~Changes(service, ctx.operation)
      BY <2>3 DEF GrantSuitsOperation
    <2>4. CASE AdmittedBySignature
      BY <2>4 DEF AdmittedBySignature, GrantSuitsOperation
    <2> QED
      BY <2>1, <2>2, <2>3, <2>4 DEF Admitted
  <1> QED
    BY <1>1, PipelineInvariant, PTL

\* Without a header and public access only a signature admits.
LEMMA OnlySignature ==
    ASSUME IInv, ctx.handled # NotHandled, request.scheme = "none", since.accesses = {"none"}
    PROVE  AdmittedBySignature
  BY DEF IInv, Judgement, Admitted, HasKey

\* A policy that was removed, or had expired, before a request arrived admits
\* nobody: the grant was in force at some moment of the request.
THEOREM GrantsWereInForce == Spec => []GrantWasInForce
  <1>1. IInv => GrantWasInForce
    BY OnlySignature DEF GrantWasInForce, AdmittedBySignature
  <1> QED
    BY <1>1, PipelineInvariant, PTL

\* In every version of the strings to sign, whoever is served by a signature
\* presented the terms that were signed.
THEOREM SignaturesBindTerms == Spec => []SignatureBindsTerms
  <1>1. IInv => SignatureBindsTerms
    BY OnlySignature DEF SignatureBindsTerms, AdmittedBySignature
  <1> QED
    BY <1>1, PipelineInvariant, PTL

\* While the CORS rules stay, an origin that was granted a preflight finds
\* itself allowed in the answer to its request, served or refused, whatever
\* the rules are.
THEOREM PreflightsAreHonoured == Spec => []PreflightIsHonoured
  <1>1. IInv => PreflightIsHonoured
    BY DEF IInv, PreflightsStand, PreflightIsHonoured
  <1> QED
    BY <1>1, PipelineInvariant, PTL
=============================================================================
