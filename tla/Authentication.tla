--------------------------- MODULE Authentication ---------------------------
(* The authenticators of the three services.  A request carries an         *)
(* Authorization header, a shared access signature (SAS), both or neither. *)
(* An HMAC is abstracted to what it was computed of: two are equal when    *)
(* their keys and their strings to sign are.                               *)
(* Each authenticator yields one of                                        *)
(*   Pass, Skip (validate() returns false or undefined),                   *)
(*   CheckExists (all checks but that of an existing blob passed),         *)
(*   the name of the error it throws.                                      *)
EXTENDS BlobOperations, Sequences

CONSTANT Missing  \* a time, a permission string or a policy that is absent

Queue == INSTANCE QueueOperations
Table == INSTANCE TableOperations

Pass == "pass"
Skip == "skip"
CheckExists == "checkExists"

(***************************************************************************)
(* A shared access signature.  kind "account" has sv, se, sp, ss, srt and  *)
(* sig; kind "service" has sv, sig, (for the blob service) a known sr and  *)
(* an identifier or both se and sp; any other combination is kind "none".  *)
(*   version     1: 2015-04-05, 2: 2018-11-09, 3: 2020-02-10,              *)
(*               4: 2020-12-06, 5: 2025-07-05                              *)
(*   name        of the blob, queue or table in the URL                    *)
(*   overrides   the response headers rscc .. rsct or the key range        *)
(*   delegation  whether the sk* parameters of a user delegation key are   *)
(*               there ("none", "partial", "complete"); keyStart and       *)
(*               keyExpiry are its term                                    *)
(*   signed      sig was computed with a key of the account                *)
(*   issued      the signature sig was computed of, Missing if this one    *)
(***************************************************************************)
NoSas == [kind |-> "none", signed |-> FALSE, start |-> Missing,
          expiry |-> Missing, permissions |-> Missing, protocol |-> "any",
          services |-> {}, types |-> {}, identifier |-> FALSE,
          resource |-> "c", scope |-> FALSE, delegation |-> "none",
          keyStart |-> 0, keyExpiry |-> 0, version |-> 4, name |-> "x",
          overrides |-> "none", issued |-> Missing]

----------------------------------------------------------------------------
(***************************************************************************)
(* Strings to sign.  Parameters the emulator knows no use for (the IP      *)
(* range, the snapshot) are left out, absent ones keep their place.        *)
(***************************************************************************)
generateAccountSASSignature20201206(v) ==
    <<v.permissions, v.services, v.types, v.start, v.expiry, v.protocol,
      v.version, v.scope>>
generateAccountSASSignature20150405(v) ==
    <<v.permissions, v.services, v.types, v.start, v.expiry, v.protocol,
      v.version>>
generateAccountSASSignature(v) ==
    IF v.version >= 4 THEN generateAccountSASSignature20201206(v)
    ELSE generateAccountSASSignature20150405(v)

\* The name of the blob is part of the string for some resources only.
getCanonicalName(v, resources) ==
    IF v.resource \in resources THEN v.name ELSE ""

generateBlobSASSignature20201206(v) ==
    <<v.permissions, v.start, v.expiry, getCanonicalName(v, {"b", "bs"}),
      v.identifier, v.protocol, v.version, v.resource, v.scope, v.overrides>>
generateBlobSASSignature20181109(v) ==
    <<v.permissions, v.start, v.expiry, getCanonicalName(v, {"b", "bs"}),
      v.identifier, v.protocol, v.version, v.resource, v.overrides>>
\* Faulty variant: the protocol is left out of the string.
generateBlobSASSignatureNoProtocol(v) ==
    <<v.permissions, v.start, v.expiry, getCanonicalName(v, {"b"}),
      v.identifier, v.version, v.overrides>>

generateBlobSASSignature20150405(v) ==
    <<v.permissions, v.start, v.expiry, getCanonicalName(v, {"b"}),
      v.identifier, v.protocol, v.version, v.overrides>>
generateBlobSASSignature(v) ==
    CASE v.version >= 4 -> generateBlobSASSignature20201206(v)
      [] v.version \in 2 .. 3 -> generateBlobSASSignature20181109(v)
      [] OTHER -> generateBlobSASSignature20150405(v)

\* With a user delegation key, which the server computes of the sk*
\* parameters themselves.
UserDelegationKey(v) ==
    IF v.delegation = "none" THEN <<>> ELSE <<v.keyStart, v.keyExpiry>>
generateBlobSASSignatureUDK20181109(v) ==
    <<v.permissions, v.start, v.expiry,
      getCanonicalName(v, {"b", "bs", "c"}), UserDelegationKey(v),
      v.protocol, v.version, v.resource, v.overrides>>
generateBlobSASSignatureWithUDK20200210(v) ==
    <<v.permissions, v.start, v.expiry,
      getCanonicalName(v, {"b", "bs", "c"}), UserDelegationKey(v),
      "no agents", v.protocol, v.version, v.resource, v.overrides>>
generateBlobSASSignatureWithUDK20201206(v) ==
    <<v.permissions, v.start, v.expiry, getCanonicalName(v, {"b"}),
      UserDelegationKey(v), "no agents", v.protocol, v.version, v.resource,
      v.scope, v.overrides>>
generateBlobSASSignatureWithUDK20250705(v) ==
    <<v.permissions, v.start, v.expiry, getCanonicalName(v, {"b"}),
      UserDelegationKey(v), "no agents", "no users", v.protocol, v.version,
      v.resource, v.scope, v.overrides>>
generateBlobSASSignatureWithUDK(v) ==
    CASE v.version >= 5 -> generateBlobSASSignatureWithUDK20250705(v)
      [] v.version = 4 -> generateBlobSASSignatureWithUDK20201206(v)
      [] v.version = 3 -> generateBlobSASSignatureWithUDK20200210(v)
      [] OTHER -> generateBlobSASSignatureUDK20181109(v)

generateQueueSASSignature(v) ==
    <<v.permissions, v.start, v.expiry, v.name, v.identifier, v.protocol,
      v.version>>

generateTableSASSignature20181109(v) ==
    <<v.permissions, v.start, v.expiry, v.name, v.identifier, v.protocol,
      v.version, v.overrides>>
generateTableSASSignature20150405(v) ==
    <<v.permissions, v.start, v.expiry, v.name, v.identifier, v.protocol,
      v.version, v.overrides>>
generateTableSASSignature(v) ==
    IF v.version >= 2 THEN generateTableSASSignature20181109(v)
    ELSE generateTableSASSignature20150405(v)

\* What the signature was computed of.
Issued(sas) == IF sas.issued = Missing THEN sas ELSE sas.issued

\* `read` is what the authenticator reads of the signature.
AccountSigMatches(sas, read) ==
    /\ sas.signed
    /\ generateAccountSASSignature(read)
          = generateAccountSASSignature(Issued(sas))
BlobSigMatches(sas) ==
    /\ sas.signed
    /\ (sas.delegation = "none") = (Issued(sas).delegation = "none")
    /\ IF sas.delegation = "none"
       THEN generateBlobSASSignature(sas)
              = generateBlobSASSignature(Issued(sas))
       ELSE generateBlobSASSignatureWithUDK(sas)
              = generateBlobSASSignatureWithUDK(Issued(sas))
QueueSigMatches(sas) ==
    /\ sas.signed
    /\ generateQueueSASSignature(sas) = generateQueueSASSignature(Issued(sas))
TableSigMatches(sas) ==
    /\ sas.signed
    /\ generateTableSASSignature(sas) = generateTableSASSignature(Issued(sas))

----------------------------------------------------------------------------
(***************************************************************************)
(* Checks shared by the authenticators.                                    *)
(***************************************************************************)
\* Faulty variant: a signature or policy is good before its start.
validateExpiryOnly(expiry, start, now) ==
    expiry = Missing \/ now <= expiry

validateTime(expiry, start, now) ==
    /\ expiry = Missing \/ now <= expiry
    /\ start = Missing \/ now >= start

\* The queue service refuses a signature without an expiry.
QueueValidateTime(expiry, start, now) ==
    expiry # Missing /\ validateTime(expiry, start, now)

validateProtocol(sasProtocol, requestProtocol) ==
    sasProtocol \in {"any", requestProtocol}

\* One of the needed letters is among the granted ones; "any" needs a
\* non-empty string.
validatePermissions(needed, granted) ==
    IF needed = AnyOf THEN granted # {} ELSE needed \cap granted # {}

\* The letters are looked for in the string of the permissions: reading a
\* string that is not there is a TypeError, unless no letter is looked for.
PermissionOutcome(needed, granted) ==
    IF granted = Missing /\ needed # {} THEN "TypeError"
    ELSE IF granted = Missing \/ ~validatePermissions(needed, granted)
    THEN "AuthorizationPermissionMismatch"
    ELSE Pass

\* The first of a sequence of [bad, error] pairs that is bad, else `last`.
FirstError(checks, last) ==
    LET bad == {i \in DOMAIN checks : checks[i][1]}
    IN  IF bad = {} THEN last
        ELSE checks[CHOOSE i \in bad : \A j \in bad : i <= j][2]

----------------------------------------------------------------------------
\* PublicAccessAuthenticator: publicAccess is "none" for a container that
\* is private or missing.
PublicAccess(r, op, publicAccess) ==
    IF \/ publicAccess = "container" /\ op \in ContainerPublicReads
       \/ publicAccess = "blob" /\ op \in BlobPublicReads
    THEN Pass ELSE Skip

\* BlobSharedKeyAuthenticator; a header of scheme SharedKeyLite starts with
\* "SharedKey" too, but never equals the computed one.
BlobSharedKey(r, op) ==
    IF r.scheme \notin {"SharedKey", "SharedKeyLite"} THEN Skip
    ELSE FirstError(
           <<<<r.account = "unknown", "ResourceNotFound">>,
             <<op = "Service_GetUserDelegationKey", "AuthenticationFailed">>,
             <<r.scheme # "SharedKey" \/ ~r.signed, Skip>>>>, Pass)

\* QueueSharedKeyAuthenticator accepts both schemes; any other header is
\* compared too, and differs.
QueueSharedKey(r) ==
    IF r.scheme = "none" THEN Skip
    ELSE FirstError(
           <<<<r.account = "unknown", "ResourceNotFound">>,
             <<\/ r.scheme \notin {"SharedKey", "SharedKeyLite"}
               \/ ~r.signed, Skip>>>>, Pass)

\* TableSharedKeyLiteAuthenticator and TableSharedKeyAuthenticator.
TableSharedKeyLite(r) ==
    IF r.scheme # "SharedKeyLite" THEN Skip
    ELSE FirstError(<<<<r.account = "unknown", "ResourceNotFound">>,
                      <<~r.signed, Skip>>>>, Pass)
TableSharedKey(r) ==
    IF r.scheme = "none" THEN Skip
    ELSE FirstError(<<<<r.account = "unknown", "ResourceNotFound">>,
                      <<r.scheme # "SharedKey" \/ ~r.signed, Skip>>>>, Pass)

----------------------------------------------------------------------------
(***************************************************************************)
(* AccountSASAuthenticator.  Once the signature is right every further     *)
(* mismatch is an error that ends the request.  An operation without an    *)
(* entry in the table is a plain Error.                                    *)
(***************************************************************************)
\* Faulty variant: the permissions of an account SAS are not compared.
AccountSASGrantOfTypes(table, service, op, sas) ==
    IF op \notin DOMAIN table THEN "Error"
    ELSE FirstError(
       <<<<service \notin sas.services, "AuthorizationServiceMismatch">>,
         <<~validatePermissions(table[op].types, sas.types),
           "AuthorizationResourceTypeMismatch">>>>, Pass)

\* What the table asks of services, resource types and permissions.
AccountSASGrant(table, service, op, sas) ==
    IF op \notin DOMAIN table THEN "Error"
    ELSE FirstError(
       <<<<service \notin sas.services, "AuthorizationServiceMismatch">>,
         <<~validatePermissions(table[op].types, sas.types),
           "AuthorizationResourceTypeMismatch">>,
         <<~validatePermissions(table[op].permissions, sas.permissions),
           "AuthorizationPermissionMismatch">>>>, Pass)

\* Writing over a blob that exists needs the letter w.
OverwritingOperations ==
    {"BlockBlob_Upload", "PageBlob_Create", "AppendBlob_Create",
     "Blob_StartCopyFromURL", "Blob_CopyFromURL"}

BlobAccountSASGrant(op, sas) ==
    LET grant == AccountSASGrant(BlobAccountSASPermissions, "b", op, sas)
    IN  IF grant = Pass /\ op \in OverwritingOperations THEN CheckExists
        ELSE grant

BlobAccountSASAuthenticator(r, op, loose, now) ==
    FirstError(
      <<<<r.account = "unknown", "ResourceNotFound">>,
        <<r.sas.kind # "account", Skip>>,
        <<~loose /\ r.sas.scope, "StrictModelNotSupported">>,
        <<~AccountSigMatches(r.sas, r.sas), Skip>>,
        <<~validateTime(r.sas.expiry, r.sas.start, now),
          "AuthorizationFailure">>,
        <<~validateProtocol(r.sas.protocol, r.protocol),
          "AuthorizationProtocolMismatch">>,
        <<op = "Service_GetUserDelegationKey", "AuthenticationFailed">>>>,
      BlobAccountSASGrant(op, r.sas))

\* The queue and the table service do not read ses.
WithoutScope(sas) == [sas EXCEPT !.scope = FALSE]

QueueAccountSASAuthenticator(r, op, now) ==
    FirstError(
      <<<<r.account = "unknown", "ResourceNotFound">>,
        <<\/ r.sas.kind # "account"
          \/ ~AccountSigMatches(r.sas, WithoutScope(r.sas)), Skip>>,
        <<~validateTime(r.sas.expiry, r.sas.start, now),
          "AuthorizationFailure">>,
        <<~validateProtocol(r.sas.protocol, r.protocol),
          "AuthorizationProtocolMismatch">>>>,
      AccountSASGrant(Queue!QueueAccountSASPermissions, "q", op, r.sas))

TableAccountSASAuthenticator(r, op, now) ==
    FirstError(
      <<<<r.account = "unknown", "ResourceNotFound">>,
        <<\/ r.sas.kind # "account"
          \/ ~AccountSigMatches(r.sas, WithoutScope(r.sas)), Skip>>,
        <<~validateTime(r.sas.expiry, r.sas.start, now),
          "AuthorizationFailure">>,
        <<~validateProtocol(r.sas.protocol, r.protocol),
          "AuthorizationProtocolMismatch">>>>,
      AccountSASGrant(Table!TableAccountSASPermissions, "t", op, r.sas))

----------------------------------------------------------------------------
(***************************************************************************)
(* The service SAS authenticators.  `policy` is the stored access policy   *)
(* that the identifier of the signature names, Missing if there is none:   *)
(* its start, expiry and permission replace those of the signature.  The   *)
(* level of a request is "account" for a path that ends with the account,  *)
(* "root" if a slash follows (the name of the container or queue is then   *)
(* the empty string), else "named".                                        *)
(***************************************************************************)
Terms(sas, policy) ==
    IF sas.identifier /\ policy # Missing
    THEN [start |-> policy.start, expiry |-> policy.expiry,
          permissions |-> policy.permissions]
    ELSE [start |-> sas.start, expiry |-> sas.expiry,
          permissions |-> sas.permissions]

\* A signature by a user delegation key, before its HMAC is compared.
DelegationError(sas, now) ==
    FirstError(
      <<<<sas.delegation = "none", Skip>>,
        <<\/ sas.delegation = "partial"
          \/ sas.identifier
          \/ ~validateTime(sas.keyExpiry, sas.keyStart, now),
          "AuthorizationFailure">>,
        <<sas.version < 2, "Error">>>>, Skip)

BlobSASNeeds(sas) ==
    IF sas.resource = "b" THEN BlobSASBlobPermissions
    ELSE BlobSASContainerPermissions

BlobSASGrant(r, op, permissions) ==
    LET table == BlobSASNeeds(r.sas)
        grant == PermissionOutcome(table[op], permissions)
    IN  IF op \notin DOMAIN table THEN "Error"
        ELSE IF grant = Pass /\ op \in OverwritingOperations THEN CheckExists
        ELSE grant

BlobSAS(r, op, loose, policy, now) ==
    LET terms == Terms(r.sas, policy)
    IN  FirstError(
          <<<<r.level = "account", Skip>>,
            <<r.account = "unknown", "ResourceNotFound">>,
            <<r.sas.kind # "service", Skip>>,
            <<~loose /\ r.sas.scope, "StrictModelNotSupported">>,
            <<DelegationError(r.sas, now) # Skip,
              DelegationError(r.sas, now)>>,
            <<~BlobSigMatches(r.sas), Skip>>,
            <<r.sas.identifier /\ policy = Missing, "AuthorizationFailure">>,
            <<~validateTime(terms.expiry, terms.start, now),
              "AuthorizationFailure">>,
            <<~validateProtocol(r.sas.protocol, r.protocol),
              "AuthorizationProtocolMismatch">>,
            <<op = "Service_GetUserDelegationKey", "AuthenticationFailed">>>>,
          BlobSASGrant(r, op, terms.permissions))

QueueSAS(r, op, policy, now) ==
    LET terms == Terms(r.sas, policy)
    IN  FirstError(
          <<<<r.level = "account", Skip>>,
            <<r.account = "unknown", "ResourceNotFound">>,
            <<r.sas.kind # "service" \/ ~QueueSigMatches(r.sas), Skip>>,
            <<r.sas.identifier /\ policy = Missing, "AuthorizationFailure">>,
            <</\ r.sas.identifier
              /\ \/ r.sas.start # Missing
                 \/ r.sas.expiry # Missing
                 \/ r.sas.permissions # Missing, "AuthorizationFailure">>,
            <<~QueueValidateTime(terms.expiry, terms.start, now),
              "AuthorizationFailure">>,
            <<~validateProtocol(r.sas.protocol, r.protocol),
              "AuthorizationProtocolMismatch">>>>,
          PermissionOutcome(Queue!QueueSASPermissions[op],
                            terms.permissions))

\* No table name: the service, and "Tables" whose name is in the body.
TableSAS(r, op, policy, now) ==
    LET terms == Terms(r.sas, policy)
    IN  FirstError(
          <<<<r.level # "named" \/ r.path = "/Tables", Skip>>,
            <<r.account = "unknown", "ResourceNotFound">>,
            <<r.sas.kind # "service" \/ ~TableSigMatches(r.sas), Skip>>,
            <<r.sas.identifier /\ policy = Missing, "AuthorizationFailure">>,
            <<~validateTime(terms.expiry, terms.start, now),
              "AuthorizationFailure">>,
            <<~validateProtocol(r.sas.protocol, r.protocol),
              "AuthorizationProtocolMismatch">>>>,
          PermissionOutcome(Table!TableSASPermissions[op],
                            terms.permissions))

----------------------------------------------------------------------------
(***************************************************************************)
(* The token authenticators, registered only with --oauth basic.  The term *)
(* of a token is compared with the time the request arrived.               *)
(***************************************************************************)
\* authenticateBasic of a token: whether it decodes to one with nbf, exp
\* and iat, its term, whether its issuer is a known one, and its audience:
\* storage as a whole, or a service of this account or of another one.
\* The signature of the token is not checked.
authenticateBasic(token, service, startTime) ==
    FirstError(
      <<<<~token.decodes, "AuthenticationFailed">>,
        <<~validateTime(token.exp, token.nbf, startTime),
          "AuthenticationFailed">>,
        <<~token.issuer, "AuthenticationFailed">>,
        <<token.audience \notin {"storage", service},
          "AuthenticationFailed">>>>, Pass)

BlobToken(r, op, startTime) ==
    FirstError(
      <<<<r.account = "unknown", "ResourceNotFound">>,
        <<\/ r.scheme = "none"
          \/ op = "Container_GetAccessPolicy"
          \/ op = "Container_SetAccessPolicy", Skip>>,
        <<r.scheme # "Bearer", "InvalidAuthenticationInfo">>,
        <<r.protocol # "https", "AuthenticationFailed">>>>,
      authenticateBasic(r.token, "blob", startTime))

QueueToken(r, op, startTime) ==
    FirstError(
      <<<<r.account = "unknown", "ResourceNotFound">>,
        <<\/ r.scheme = "none"
          \/ op = "Queue_GetAccessPolicy"
          \/ op = "Queue_SetAccessPolicy", Skip>>,
        <<r.scheme # "Bearer", "InvalidAuthenticationInfo">>,
        <<r.protocol # "https", "AuthenticationFailed">>>>,
      authenticateBasic(r.token, "queue", startTime))

TableToken(r, op, startTime) ==
    FirstError(
      <<<<r.account = "unknown", "ResourceNotFound">>,
        <<\/ r.scheme = "none"
          \/ op = "Table_GetAccessPolicy"
          \/ op = "Table_SetAccessPolicy", Skip>>,
        <<r.scheme # "Bearer", "InvalidAuthenticationInfo">>,
        <<r.protocol # "https", "AuthenticationFailed">>>>,
      authenticateBasic(r.token, "table", startTime))
=============================================================================
