-------------------------- MODULE RequestPipeline --------------------------
(* The express application of a blob, queue or table server: the middleware*)
(* chain that takes a request from its context to its answer.  A request   *)
(* has a context of its own, so the chain is modelled for one request at a *)
(* time; other requests show as changes of what the middlewares read from  *)
(* the stores while this one waits (public access, the stored access       *)
(* policy, the existence of the blob, the CORS rules) and as time passing. *)
EXTENDS Authentication, Cors, StorageErrors, FiniteSets

CONSTANTS
    Requests,      \* for every scenario the requests it meets
    Settings,      \* and what the stores may hold meanwhile
    Loose,         \* --loose
    OAuth,         \* --oauth basic
    SkipApiVersionCheck,
    MaxTime        \* bound of the clock

VARIABLES
    scenario,      \* <<name, service>>, fixed in a behaviour
    request, stage, ctx, response,
    publicAccess, policy, blobExists, rules, now,   \* the stores, the clock
    since,         \* policies and public accesses since the request arrived
    preflighted    \* <<origin, method>> granted under the present rules

\* What parsing leaves of a signature: an account's has permissions.  Any
\* resource may be presented with any request, that of a blob with a request
\* that names none too.  Of those who issue signatures it is assumed that one
\* for a blob names the blob, and that none has both a user delegation key
\* and the identifier of a policy.
ParsedSas(sas) ==
    /\ sas = [f \in DOMAIN NoSas |-> sas[f]]
    /\ sas.version \in 1 .. 5
    /\ sas.identifier \in BOOLEAN
    /\ sas.kind = "account" => sas.permissions # Missing

ASSUME SignaturesParsed ==
    \A s \in DOMAIN Requests : \A r \in Requests[s] :
        /\ ParsedSas(r.sas)
        /\ r.sas.issued # Missing =>
              /\ ParsedSas(r.sas.issued)
              /\ r.sas.issued.resource = "b" => r.sas.issued.name # ""
              /\ r.sas.issued.delegation # "none" => ~r.sas.issued.identifier

world == <<publicAccess, policy, blobExists, rules, now>>
vars == <<scenario, request, stage, ctx, response, world, since, preflighted>>

NoError == "none"
setting == Settings[scenario]
service == scenario[2]

----------------------------------------------------------------------------
(***************************************************************************)
(* The tables of the service.                                              *)
(***************************************************************************)
Services == {"blob", "queue", "table"}

OperationOf(s) ==
    CASE s = "blob" -> BlobOperation
      [] s = "queue" -> Queue!QueueOperation
      [] OTHER -> Table!TableOperation
Operation == OperationOf(service)

SpecificationsOf(s) ==
    CASE s = "blob" -> BlobSpecifications
      [] s = "queue" -> Queue!QueueSpecifications
      [] OTHER -> Table!TableSpecifications
Specifications == SpecificationsOf(service)

HandlerStatusOf(s) ==
    CASE s = "blob" -> BlobServiceStatus
      [] s = "queue" -> Queue!QueueHandlerStatus
      [] OTHER -> Table!TableHandlerStatus
HandlerStatus == HandlerStatusOf(service)

\* The operations of a service know every status its handlers answer with,
\* all of them successes.
ASSUME StatusesKnown ==
    \A s \in Services : \A i \in DOMAIN OperationOf(s) :
        LET op == OperationOf(s)[i]
            responses == SpecificationsOf(s)[op].responses
        IN  /\ op # "none"
            /\ HandlerStatusOf(s)[op] \subseteq responses
            /\ responses \subseteq 200 .. 299

\* The authenticators in the order the listener factories register them.
BlobAuthenticators ==
    <<"PublicAccess", "BlobSharedKey", "BlobAccountSAS", "BlobSAS">>
    \o (IF OAuth THEN <<"BlobToken">> ELSE <<>>)
QueueAuthenticators ==
    <<"QueueSharedKey", "QueueAccountSAS", "QueueSAS">>
    \o (IF OAuth THEN <<"QueueToken">> ELSE <<>>)
TableAuthenticators ==
    <<"TableSharedKeyLite", "TableSharedKey", "TableAccountSAS", "TableSAS">>
    \o (IF OAuth THEN <<"TableToken">> ELSE <<>>)
Authenticators ==
    CASE service = "blob" -> BlobAuthenticators
      [] service = "queue" -> QueueAuthenticators
      [] OTHER -> TableAuthenticators

ErrorsOf(s) ==
    CASE s = "blob" -> BlobErrors
      [] s = "queue" -> QueueErrors
      [] OTHER -> TableErrors
Errors == ErrorsOf(service)

----------------------------------------------------------------------------
(***************************************************************************)
(* Context: what the storage context middlewares make of the URL.          *)
(***************************************************************************)
\* The stage after an error: the first error handler of the chain.
Fail(error) ==
    /\ ctx' = [ctx EXCEPT !.error = error]
    /\ stage' = "failed"
    /\ UNCHANGED response

BlobDispatchPattern(r) == r.path

QueueDispatchPattern(r) ==
    IF <<"restype", "service">> \in r.query \/ <<"comp", "list">> \in r.query
    THEN "/" ELSE r.path

\* Queries address a table as "mytable" or "Tables('mytable')" too.
TableDispatchPattern(r) ==
    IF r.method = "GET" /\ r.path \in {"/{table}", "/Tables('{table}')"}
    THEN "/{table}()" ELSE r.path

dispatchPattern(r) ==
    CASE service = "blob" -> BlobDispatchPattern(r)
      [] service = "queue" -> QueueDispatchPattern(r)
      [] OTHER -> TableDispatchPattern(r)

\* The account is known to the chain once it has been cut out of the URL.
BlobContextError(r) ==
    FirstError(<<<<r.account = "empty", "InvalidQueryParameterValue">>,
                 <<r.name = "invalid", "InvalidResourceName">>>>, NoError)
QueueContextError(r) ==
    IF dispatchPattern(r) # "/" /\ r.name = "invalid"
    THEN "InvalidResourceName" ELSE NoError
TableContextError(r) ==
    FirstError(<<<<r.path = "unparsable", "Error">>,
                 <<r.name = "invalid", "InvalidResourceName">>>>, NoError)
ContextError(r) ==
    CASE service = "blob" -> BlobContextError(r)
      [] service = "queue" -> QueueContextError(r)
      [] OTHER -> TableContextError(r)

Context ==
    /\ stage = "context"
    /\ IF ~SkipApiVersionCheck /\ request.version = "invalid"
       THEN Fail("InvalidAPIVersion")
       ELSE IF service = "table" /\ ContextError(request) = "Error"
       THEN Fail("Error")
       ELSE /\ ctx' = [ctx EXCEPT !.account = TRUE,
                                  !.error = ContextError(request)]
            /\ stage' = IF ctx'.error = NoError THEN "dispatch" ELSE "failed"
            /\ UNCHANGED response
    /\ UNCHANGED <<scenario, request, world, since, preflighted>>

----------------------------------------------------------------------------
(***************************************************************************)
(* Dispatch: of the operations whose required conditions the request meets *)
(* the one with most conditions, the first of them in a tie.               *)
(***************************************************************************)
Meets(parameters, condition) ==
    \E p \in parameters : /\ p[1] = condition[1]
                          /\ condition[2] = {} \/ p[2] \in condition[2]

\* External: which templates the uri-templates library matches.  A
\* variable matches any non-empty segment, "Tables" and "t()" included.
isURITemplateMatch(pattern, template) ==
    \/ pattern = template
    \/ service = "table" /\ template = "/{table}" /\ pattern # "/"

\* The verb, unless X-HTTP-Method names another one.
Method(r) ==
    IF r.xHttpMethod \in {"GET", "MERGE", "PATCH", "DELETE"}
    THEN r.xHttpMethod ELSE r.method

isRequestAgainstOperation(r, spec) ==
    /\ Method(r) = spec.method
    /\ isURITemplateMatch(dispatchPattern(r), spec.path)
    /\ \A q \in spec.query : Meets(r.query, q)
    /\ \A h \in spec.header : Meets(r.header, h)

conditionsMet(spec) == Cardinality(spec.query) + Cardinality(spec.header)

\* Faulty variant: a later operation with as many conditions replaces the earlier.
LastDispatchedOperations(r) ==
    LET fitting == {i \in DOMAIN Operation :
                       isRequestAgainstOperation(
                           r, Specifications[Operation[i]])}
        met(i) == conditionsMet(Specifications[Operation[i]])
    IN  {Operation[i] : i \in {k \in fitting : \A j \in fitting :
            met(j) < met(k) \/ (met(j) = met(k) /\ j <= k)}}

DispatchedOperations(r) ==
    LET fitting == {i \in DOMAIN Operation :
                       isRequestAgainstOperation(
                           r, Specifications[Operation[i]])}
        met(i) == conditionsMet(Specifications[Operation[i]])
    IN  {Operation[i] : i \in {k \in fitting : \A j \in fitting :
            met(j) < met(k) \/ (met(j) = met(k) /\ k <= j)}}

Dispatch ==
    /\ stage = "dispatch"
    /\ IF DispatchedOperations(request) = {}
       THEN Fail("UnsupportedRequest")
       ELSE /\ \E op \in DispatchedOperations(request) :
                  ctx' = [ctx EXCEPT !.operation = op]
            /\ stage' = IF service = "blob" /\ ~Loose THEN "strict"
                        ELSE "authenticate"
            /\ UNCHANGED response
    /\ UNCHANGED <<scenario, request, world, since, preflighted>>

\* UnsupportedHeadersBlocker; the list of unsupported parameters is empty.
UnsupportedHeaders ==
    {"x-ms-content-crc64", "x-ms-range-get-content-crc64",
     "x-ms-encryption-key", "x-ms-encryption-key-sha256",
     "x-ms-encryption-algorithm"}

StrictModel ==
    /\ stage = "strict"
    /\ IF \E h \in request.header : h[1] \in UnsupportedHeaders
       THEN Fail("StrictModelNotSupported")
       ELSE stage' = "authenticate" /\ UNCHANGED <<ctx, response>>
    /\ UNCHANGED <<scenario, request, world, since, preflighted>>

----------------------------------------------------------------------------
(***************************************************************************)
(* Authentication: one authenticator after the other until one passes or   *)
(* throws.                                                                 *)
(***************************************************************************)
\* The container of a request without one has no policy.
PolicyOf(r) == IF r.level = "named" THEN policy ELSE Missing

Outcome(authenticator) ==
    LET r == request
        op == ctx.operation
    IN  CASE authenticator = "PublicAccess" -> PublicAccess(r, op, publicAccess)
          [] authenticator = "BlobSharedKey" -> BlobSharedKey(r, op)
          [] authenticator = "QueueSharedKey" -> QueueSharedKey(r)
          [] authenticator = "TableSharedKeyLite" -> TableSharedKeyLite(r)
          [] authenticator = "TableSharedKey" -> TableSharedKey(r)
          [] authenticator = "BlobAccountSAS" ->
                BlobAccountSASAuthenticator(r, op, Loose, now)
          [] authenticator = "QueueAccountSAS" ->
                QueueAccountSASAuthenticator(r, op, now)
          [] authenticator = "TableAccountSAS" ->
                TableAccountSASAuthenticator(r, op, now)
          [] authenticator = "BlobSAS" ->
                BlobSAS(r, op, Loose, PolicyOf(r), now)
          [] authenticator = "QueueSAS" -> QueueSAS(r, op, PolicyOf(r), now)
          [] authenticator = "TableSAS" -> TableSAS(r, op, PolicyOf(r), now)
          [] authenticator = "BlobToken" -> BlobToken(r, op, ctx.startTime)
          [] authenticator = "QueueToken" -> QueueToken(r, op, ctx.startTime)
          [] authenticator = "TableToken" -> TableToken(r, op, ctx.startTime)

Authenticate ==
    /\ stage = "authenticate"
    /\ LET outcome == Outcome(Authenticators[ctx.authenticator])
       IN  CASE outcome = Pass ->
                  stage' = "deserialize" /\ UNCHANGED <<ctx, response>>
             [] outcome = CheckExists ->
                  /\ ctx' = [ctx EXCEPT !.permissions =
                                Terms(request.sas, PolicyOf(request))
                                    .permissions]
                  /\ stage' = "exists"
                  /\ UNCHANGED response
             [] outcome = Skip /\ ctx.authenticator < Len(Authenticators) ->
                  /\ ctx' = [ctx EXCEPT !.authenticator = @ + 1]
                  /\ UNCHANGED <<stage, response>>
             [] outcome = Skip /\ ctx.authenticator = Len(Authenticators) ->
                  Fail("AuthorizationFailure")
             [] OTHER -> Fail(outcome)
    /\ UNCHANGED <<scenario, request, world, since, preflighted>>

\* blobExist: the store is asked in a further await.
CheckBlobExists ==
    /\ stage = "exists"
    /\ IF blobExists /\ "w" \notin ctx.permissions
       THEN Fail("AuthorizationPermissionMismatch")
       ELSE stage' = "deserialize" /\ UNCHANGED <<ctx, response>>
    /\ UNCHANGED <<scenario, request, world, since, preflighted>>

----------------------------------------------------------------------------
(***************************************************************************)
(* The handler between deserializer and serializer.                        *)
(***************************************************************************)
Deserialize ==
    /\ stage = "deserialize"
    /\ IF request.body = "malformed" THEN Fail("DeserializationError")
       ELSE stage' = "handler" /\ UNCHANGED <<ctx, response>>
    /\ UNCHANGED <<scenario, request, world, since, preflighted>>

\* One error for every status that a table of errors holds.
Representatives(errors) ==
    {CHOOSE e \in DOMAIN errors : errors[e] = s :
        s \in {errors[e] : e \in DOMAIN errors}}
BlobRefusals == Representatives(BlobErrors)
QueueRefusals == Representatives(QueueErrors)
TableRefusals == Representatives(TableErrors)
Refusals ==
    CASE service = "blob" -> BlobRefusals
      [] service = "queue" -> QueueRefusals
      [] OTHER -> TableRefusals

\* The handler answers with a status of its own, is not implemented, or
\* refuses with an error of the service ("not modified" only if it reads).
Handle ==
    /\ stage = "handler"
    /\ \/ \E status \in HandlerStatus[ctx.operation] :
             /\ ctx' = [ctx EXCEPT !.handled = status]
             /\ stage' = "cors"
             /\ UNCHANGED response
       \/ /\ HandlerStatus[ctx.operation] = {}
          /\ Fail("NotImplementedError")
       \/ /\ HandlerStatus[ctx.operation] # {}
          /\ \E error \in Refusals :
                /\ error = "NotModified" => request.method \in {"GET", "HEAD"}
                /\ Fail(error)
    /\ UNCHANGED <<scenario, request, world, since, preflighted>>

NotHandled == 0
Responses == Specifications[ctx.operation].responses
StatusUnknown == ctx.handled # NotHandled /\ ctx.handled \notin Responses

\* getResponseHeaders: the headers of the handler's answer or the error's.
getResponseHeaders ==
    {"Date"} \cup (IF ctx.error \notin {NoError, "Error", "TypeError"}
                   THEN {"x-ms-error-code"} ELSE {})
             \cup (IF ctx.handled # NotHandled THEN {"x-ms-version"} ELSE {})

\* Requests the CORS middleware has nothing to say about.
WithoutCors == \/ request.method = "OPTIONS"
               \/ request.origin = NoOrigin
               \/ ~ctx.account
               \/ rules = Missing

\* The two registrations of createCorsRequestMiddleware, the first for
\* requests that failed.  getResponseHeaders serializes the headers of the
\* handler's answer, and throws on a status it does not know and on a value
\* that does not fit its mapper.
CorsRequest ==
    /\ stage \in {"failed", "cors"}
    /\ \/ WithoutCors /\ UNCHANGED <<ctx, response>>
       \/ /\ ~WithoutCors /\ ~StatusUnknown
          /\ response' = [response EXCEPT !.cors =
                 CorsHeaders(service, rules, request.origin,
                             request.method, getResponseHeaders)]
          /\ UNCHANGED ctx
       \/ /\ ~WithoutCors /\ ctx.handled # NotHandled
          /\ ctx' = [ctx EXCEPT !.error = "CorsError"]
          /\ UNCHANGED response
    /\ stage' = IF stage = "cors" /\ ctx' = ctx THEN "serialize" ELSE "options"
    /\ UNCHANGED <<scenario, request, world, since, preflighted>>

\* The operations whose answers have a stream for a body.
Streamed ==
    {"Service_SubmitBatch", "Container_SubmitBatch", "Blob_Download",
     "Blob_Query", "Table_Batch", "Table_QueryEntities",
     "Table_QueryEntitiesWithPartitionAndRowKey", "Table_InsertEntity"}

\* serialize: the status is set first.  A status without a specification, a
\* header or body that does not fit its mapper and a header that node
\* refuses fail before anything is sent, a stream before or after the head
\* of the answer; once another body is written nothing fails.
Serialize ==
    /\ stage = "serialize"
    /\ \/ /\ ~StatusUnknown
          /\ response' = [response EXCEPT !.status = ctx.handled]
          /\ stage' = "end" /\ UNCHANGED ctx
       \/ /\ \E sent \in {"nothing", "head"} :
                /\ sent = "head" => ctx.operation \in Streamed /\ ~StatusUnknown
                /\ response' = [response EXCEPT !.status = ctx.handled,
                                                !.sent = sent]
          /\ ctx' = [ctx EXCEPT !.error = "SerializeError"]
          /\ stage' = "options"
    /\ UNCHANGED <<scenario, request, world, since, preflighted>>

----------------------------------------------------------------------------
(***************************************************************************)
(* The error path.  No operation has the verb OPTIONS: a preflight request *)
(* reaches its handler as an unsupported request.                          *)
(***************************************************************************)
Options ==
    /\ stage = "options"
    /\ IF request.method # "OPTIONS"
       THEN stage' = "error" /\ UNCHANGED <<ctx, response, preflighted>>
       ELSE LET granted == /\ ctx.account
                           /\ rules # Missing
                           /\ PreflightGranted(service, rules,
                                 request.origin, request.requestMethod,
                                 request.requestHeaders)
            IN  IF /\ request.origin # NoOrigin
                   /\ request.requestMethod # "none"
                   /\ granted
                THEN /\ response' = [response EXCEPT !.status = 200,
                            !.cors.allowOrigin = request.origin]
                     /\ ctx' = [ctx EXCEPT !.error = NoError]
                     /\ stage' = "end"
                     /\ preflighted' = preflighted \cup
                          {<<request.origin, request.requestMethod>>}
                ELSE /\ ctx' = [ctx EXCEPT !.error =
                            IF \/ request.origin = NoOrigin
                               \/ request.requestMethod = "none"
                            THEN "InvalidCorsHeaderValue"
                            ELSE "corsPreflightFailure"]
                     /\ stage' = "error"
                     /\ UNCHANGED <<response, preflighted>>
    /\ UNCHANGED <<scenario, request, world, since>>

\* The errors of the generated layer; a plain Error is a 500.
GeneratedErrors ==
    Each({"UnsupportedRequest", "DeserializationError"}, 400)
    @@ Each({"NotImplementedError"}, 501)
\* What CorsRequest and Serialize throw.
AnswerErrors == {"CorsError", "SerializeError"}
\* No error is answered with the status of a success.
ASSUME ErrorsFail ==
    /\ \A s \in Services : \A e \in DOMAIN ErrorsOf(s) :
          ErrorsOf(s)[e] \in 300 .. 599 /\ e \notin AnswerErrors
    /\ \A e \in DOMAIN GeneratedErrors :
          GeneratedErrors[e] \in 300 .. 599 /\ e \notin AnswerErrors

ErrorStatus(error) ==
    CASE error \in DOMAIN Errors -> Errors[error]
      [] error \in DOMAIN GeneratedErrors -> GeneratedErrors[error]
      [] OTHER -> 500

\* Faulty variant: an error that is no MiddlewareError sets no status.
ErrorOfMiddlewareOnly ==
    /\ stage = "error"
    /\ response' =
          IF response.sent = "head" THEN [response EXCEPT !.sent = "aborted"]
          ELSE IF ctx.error \in DOMAIN Errors \cup DOMAIN GeneratedErrors
          THEN [response EXCEPT !.status = ErrorStatus(ctx.error)]
          ELSE response
    /\ stage' = "end"
    /\ UNCHANGED <<scenario, request, ctx, world, since, preflighted>>

\* Behind a head that is out express's own handler closes the connection.
Error ==
    /\ stage = "error"
    /\ response' =
          IF response.sent = "head" THEN [response EXCEPT !.sent = "aborted"]
          ELSE [response EXCEPT !.status = ErrorStatus(ctx.error)]
    /\ stage' = "end"
    /\ UNCHANGED <<scenario, request, ctx, world, since, preflighted>>

----------------------------------------------------------------------------
NoRequest == [method |-> "none"]
\* The status of a response nobody has set one for is 200.  What has been
\* sent when something fails: nothing, the head, and in the end what was
\* aborted after its head.
NoResponse == [status |-> 200, cors |-> NoCorsHeaders, sent |-> "nothing"]
NoContext == [account |-> FALSE, operation |-> "none", error |-> NoError,
              authenticator |-> 1, permissions |-> {}, handled |-> NotHandled,
              startTime |-> 0]

Receive ==
    /\ stage = "idle"
    /\ request' \in Requests[scenario]
    /\ stage' = "context"
    /\ ctx' = [NoContext EXCEPT !.startTime = now]
    /\ response' = NoResponse
    /\ since' = [policies |-> {policy}, accesses |-> {publicAccess}]
    /\ UNCHANGED <<scenario, world, preflighted>>

End ==
    /\ stage = "end"
    /\ stage' = "idle"
    /\ request' = NoRequest
    /\ ctx' = NoContext
    /\ response' = NoResponse
    /\ since' = [policies |-> {}, accesses |-> {}]
    /\ UNCHANGED <<scenario, world, preflighted>>

\* Every service has a copy of the generated middlewares and of the
\* preflight middlewares, which differ in their tables and in checkOrigin.
QueueDispatch == service = "queue" /\ Dispatch
TableDispatch == service = "table" /\ Dispatch
QueueDeserialize == service = "queue" /\ Deserialize
TableDeserialize == service = "table" /\ Deserialize
QueueHandle == service = "queue" /\ Handle
TableHandle == service = "table" /\ Handle
QueueCorsRequest == service = "queue" /\ CorsRequest
TableCorsRequest == service = "table" /\ CorsRequest
QueueSerialize == service = "queue" /\ Serialize
TableSerialize == service = "table" /\ Serialize
QueueOptions == service = "queue" /\ Options
TableOptions == service = "table" /\ Options
QueueError == service = "queue" /\ Error
TableError == service = "table" /\ Error

BlobMiddleware ==
    /\ service = "blob"
    /\ \/ Dispatch \/ StrictModel \/ CheckBlobExists \/ Deserialize \/ Handle
       \/ CorsRequest \/ Serialize \/ Options \/ Error

QueueMiddleware ==
    \/ QueueDispatch \/ QueueDeserialize \/ QueueHandle \/ QueueCorsRequest
    \/ QueueSerialize \/ QueueOptions \/ QueueError

TableMiddleware ==
    \/ TableDispatch \/ TableDeserialize \/ TableHandle \/ TableCorsRequest
    \/ TableSerialize \/ TableOptions \/ TableError

Middleware ==
    \/ Context \/ Authenticate \/ End
    \/ BlobMiddleware \/ QueueMiddleware \/ TableMiddleware

(***************************************************************************)
(* What other requests do to the stores, and time.                         *)
(***************************************************************************)
chain == <<scenario, request, stage, ctx, response>>

\* The stores replace the whole access list, the blob store with the level
\* of public access.
setAcl(p, a) ==
    /\ <<p, a>> # <<policy, publicAccess>>
    /\ policy' = p
    /\ publicAccess' = a
    /\ since' = IF stage = "idle" THEN since
                ELSE [policies |-> since.policies \cup {p},
                      accesses |-> since.accesses \cup {a}]
    /\ UNCHANGED <<chain, blobExists, rules, now, preflighted>>

setContainerACL(p, a) == setAcl(p, a)
setQueueACL(p) == setAcl(p, publicAccess)

\* Letters that the queue and the table handler take in a policy; the
\* table handler fails on a policy without any.
QueueServicePermission == {"r", "a", "u", "p"}
TableServicePermission == {"r", "a", "u", "d"}

BlobSetAccessPolicy ==
    /\ service = "blob"
    /\ \E p \in setting.policies, a \in setting.accesses :
          setContainerACL(p, a)

QueueSetAccessPolicy ==
    /\ service = "queue"
    /\ \E p \in setting.policies :
          /\ p # Missing /\ p.permissions # Missing =>
                p.permissions \subseteq QueueServicePermission
          /\ setQueueACL(p)

TableSetAccessPolicy ==
    /\ service = "table"
    /\ \E p \in setting.policies :
          /\ p # Missing => /\ p.permissions # Missing
                            /\ p.permissions \subseteq TableServicePermission
          /\ setAcl(p, publicAccess)

SetAccessPolicy ==
    BlobSetAccessPolicy \/ QueueSetAccessPolicy \/ TableSetAccessPolicy

CreateOrDeleteBlob ==
    /\ setting.blobs
    /\ blobExists' = ~blobExists
    /\ UNCHANGED <<chain, publicAccess, policy, rules, now, since,
                   preflighted>>

\* What a request leaves undefined stays as it is: rules that were set once
\* are replaced, never taken away.
setServiceProperties(doc, cors) == IF cors = Missing THEN doc ELSE cors
updateServiceProperties(doc, cors) == IF cors = Missing THEN doc ELSE cors
setTableServiceProperties(doc, cors) == IF cors = Missing THEN doc ELSE cors

RulesBecome(cors) ==
    /\ rules' = cors
    /\ preflighted' = IF cors = rules THEN preflighted ELSE {}
    /\ UNCHANGED <<chain, publicAccess, policy, blobExists, now, since>>

BlobSetProperties ==
    /\ service = "blob"
    /\ \E cors \in setting.rules :
          RulesBecome(setServiceProperties(rules, cors))

QueueSetProperties ==
    /\ service = "queue"
    /\ \E cors \in setting.rules :
          RulesBecome(updateServiceProperties(rules, cors))

TableSetProperties ==
    /\ service = "table"
    /\ \E cors \in setting.rules :
          RulesBecome(setTableServiceProperties(rules, cors))

\* The handlers of Get Service Properties fill the defaults into the
\* document that the Loki store hands out: reading makes missing rules
\* empty ones.
BlobGetProperties ==
    /\ service = "blob" /\ rules = Missing /\ <<>> \in setting.rules
    /\ RulesBecome(<<>>)
QueueGetProperties ==
    /\ service = "queue" /\ rules = Missing /\ <<>> \in setting.rules
    /\ RulesBecome(<<>>)
TableGetProperties ==
    /\ service = "table" /\ rules = Missing /\ <<>> \in setting.rules
    /\ RulesBecome(<<>>)

SetServiceProperties ==
    \/ BlobSetProperties \/ QueueSetProperties \/ TableSetProperties
    \/ BlobGetProperties \/ QueueGetProperties \/ TableGetProperties

Tick ==
    /\ setting.timed
    /\ now < MaxTime
    /\ now' = now + 1
    /\ UNCHANGED <<chain, publicAccess, policy, blobExists, rules, since,
                   preflighted>>

Init ==
    /\ scenario \in DOMAIN Requests
    /\ request = NoRequest
    /\ stage = "idle"
    /\ ctx = NoContext
    /\ response = NoResponse
    /\ publicAccess \in setting.accesses
    /\ policy \in setting.policies
    /\ blobExists = FALSE
    /\ rules \in setting.rules
    /\ now = 1
    /\ since = [policies |-> {}, accesses |-> {}]
    /\ preflighted = {}

Next ==
    \/ Receive
    \/ Middleware
    \/ SetAccessPolicy
    \/ CreateOrDeleteBlob
    \/ SetServiceProperties
    \/ Tick

Spec == Init /\ [][Next]_vars

----------------------------------------------------------------------------
(***************************************************************************)
(* Properties.                                                             *)
(***************************************************************************)

\* A request built for an operation, with any of the optional headers that
\* other operations require, is dispatched to that operation: the count of
\* conditions in dispatchMiddleware tells every pair of the table apart.
DispatchesToOperation ==
    request # NoRequest /\ request.meant # "none" /\ ctx.account =>
        /\ ctx.error # "UnsupportedRequest"
        /\ ctx.operation \in {"none", request.meant}

\* The answer tells what happened, wherever in the chain a request failed.
\* A success that was answered in full is the handler's own; after an error
\* no status is answered in full that the operation knows as success; and a
\* request that its handler has served, whose effect is in the store, is
\* answered with the handler's status, or, when its answer could not be put
\* together, with 500 or that status and an aborted body, never refused.
\* (OPTIONS asks about another request.)
AnswerTellsOutcome ==
    stage = "end" /\ request.method # "OPTIONS" =>
        /\ response.sent = "nothing" /\ response.status < 300 =>
              response.status = ctx.handled
        /\ ctx.error # NoError /\ response.sent = "nothing" =>
              /\ response.status >= 300
              /\ ctx.operation # "none" => response.status \notin Responses
        /\ ctx.handled # NotHandled =>
              \/ response.status = ctx.handled
              \/ ctx.error \in AnswerErrors /\ response.status = 500
        /\ response.sent # "nothing" =>
              response.sent = "aborted" /\ ctx.handled # NotHandled

\* The grants by which a signature may have passed: its own terms, or those
\* of a stored policy that was in force since the request arrived.
GrantsSince ==
    IF request.sas.kind = "service" /\ request.sas.identifier
    THEN {Terms(request.sas, p) : p \in since.policies \ {Missing}}
    ELSE {Terms(request.sas, Missing)}

HasKey == request.signed /\ request.scheme # "none"

\* What a letter allows: verbs that read need a reading letter, verbs that
\* change something a changing one.  A batch is judged by its parts.
ReadLetters == {"r", "l", "f", "t"}
ChangeLetters == {"w", "c", "d", "a", "u", "p", "t"}
Batches == {"Service_SubmitBatch", "Container_SubmitBatch", "Table_Batch"}
Changes(s, op) == \/ SpecificationsOf(s)[op].method \notin {"GET", "HEAD"}
                  \/ op = "Messages_Dequeue"
LettersFor(s, op) == IF Changes(s, op) THEN ChangeLetters ELSE ReadLetters
Suits(s, op, letters) ==
    \/ op \in Batches \cup DOMAIN AccountInfoSAS
    \/ letters \cap LettersFor(s, op) # {}

\* The permission tables ask for suitable letters, and public are only reads.
AskSuitably(s, table) ==
    \A op \in DOMAIN table :
        \/ op \in Batches \cup DOMAIN AccountInfoSAS
        \/ table[op] \subseteq LettersFor(s, op)
PermissionsOf(table) == [op \in DOMAIN table |-> table[op].permissions]

ASSUME LettersSuit ==
    /\ AskSuitably("blob", PermissionsOf(BlobAccountSASPermissions))
    /\ AskSuitably("blob", BlobSASBlobPermissions)
    /\ AskSuitably("blob", BlobSASContainerPermissions)
    /\ AskSuitably("queue", PermissionsOf(Queue!QueueAccountSASPermissions))
    /\ AskSuitably("queue", Queue!QueueSASPermissions)
    /\ AskSuitably("table", PermissionsOf(Table!TableAccountSASPermissions))
    /\ AskSuitably("table", Table!TableSASPermissions)
    /\ \A i \in DOMAIN Queue!QueueOperation :
          Queue!QueueOperation[i] \in DOMAIN Queue!QueueSASPermissions
    /\ \A i \in DOMAIN Table!TableOperation :
          Table!TableOperation[i] \in DOMAIN Table!TableSASPermissions
    /\ \A op \in BlobPublicReads \cup ContainerPublicReads :
          ~Changes("blob", op)

\* A handler that changes something runs only for a key, a token or a
\* signature with a letter that allows changes, one that reads only for
\* these, a reading letter or public access: over all the permission tables
\* and the order of the authenticators.  Of a token it says no more than that
\* one was presented.
GrantSuitsOperation ==
    ctx.handled # NotHandled =>
        \/ HasKey
        \/ request.scheme = "Bearer"
        \/ /\ since.accesses # {"none"}
           /\ ~Changes(service, ctx.operation)
        \/ /\ request.sas.kind # "none"
           /\ \E g \in GrantsSince : /\ g.permissions # Missing
                                     /\ Suits(service, ctx.operation, g.permissions)

InForce(g, t) == /\ g.expiry # Missing => t <= g.expiry
                 /\ g.start # Missing => g.start <= t

\* Whoever is served by a signature had a grant whose term lasted to some
\* moment of the request, with the policies as they stood at some moment
\* since it arrived: a policy removed or expired before is never honoured.
GrantWasInForce ==
    ctx.handled # NotHandled /\ request.scheme = "none"
        /\ since.accesses = {"none"} =>
        \E g \in GrantsSince :
            /\ g.permissions # Missing
            /\ \E t \in ctx.startTime .. now : InForce(g, t)

\* The blob that a signature is for, "" if it is for a container.
NamedBlob(sas) == getCanonicalName(sas, {"b"})

\* The two tables ask for the same letters wherever that of a blob asks for
\* any; the others of its operations nobody can be granted.
ASSUME ResourcesAgree ==
    \A op \in DOMAIN BlobSASBlobPermissions :
        /\ op \in DOMAIN BlobSASContainerPermissions
        /\ BlobSASBlobPermissions[op] # {} =>
              BlobSASContainerPermissions[op] = BlobSASBlobPermissions[op]

\* All that an authenticator judges the operation by.
SameTerms(op, sas, issued) ==
    /\ sas.permissions = issued.permissions
    /\ sas.start = issued.start /\ sas.expiry = issued.expiry
    /\ sas.protocol = issued.protocol
    /\ sas.kind = "account" =>
          sas.services = issued.services /\ sas.types = issued.types
    /\ sas.kind = "service" =>
          /\ sas.identifier = issued.identifier
          /\ service # "blob" => sas.name = issued.name
          /\ service = "blob" =>
                /\ NamedBlob(sas) = NamedBlob(issued)
                /\ BlobSASNeeds(sas)[op] = BlobSASNeeds(issued)[op]
                /\ UserDelegationKey(sas) = UserDelegationKey(issued)

\* Whoever is served by a signature is judged by what was signed: the times,
\* the protocol, the letters, the blob, and the letters that the operation
\* asks for.  The type of the resource, which chooses the table of these, is
\* outside the string of 2015-04-05: a container's signature also passes as
\* a blob's on a request that names no blob, but no operation it is then
\* served asks another letter of a container's.
SignatureBindsTerms ==
    ctx.handled # NotHandled /\ request.scheme = "none"
        /\ since.accesses = {"none"} =>
        SameTerms(ctx.operation, request.sas, Issued(request.sas))

\* While the CORS rules stay as they are, an origin that was granted a
\* preflight for a verb finds itself allowed in the answer to the request
\* itself, be it served or refused (but not when the CORS middleware fails
\* on the headers of an answer).
PreflightIsHonoured ==
    /\ stage = "end"
    /\ request.method # "OPTIONS"
    /\ ctx.error # "CorsError"
    /\ ctx.account
    /\ <<request.origin, request.method>> \in preflighted
    => response.cors.allowOrigin \in {"*", request.origin}
=============================================================================
