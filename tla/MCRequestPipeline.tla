------------------------- MODULE MCRequestPipeline -------------------------
(* Scenarios for RequestPipeline: every operation of the three services    *)
(* with every credential that matters, and smaller sets of operations with *)
(* changing policies, public access, blobs, CORS rules and clocks.         *)
EXTENDS RequestPipeline

CONSTANT
    Undispatched   \* operations left out of the scenarios

NoToken == [decodes |-> TRUE, nbf |-> 0, exp |-> 9, issuer |-> TRUE,
            audience |-> "storage"]

OpsOf(s) == DOMAIN SpecificationsOf(s) \ Undispatched

\* A parameter that meets a condition.
Given(c) == <<c[1], IF c[2] = {} THEN "any" ELSE CHOOSE v \in c[2] : TRUE>>

\* A request for an operation with some of its optional headers.
For(s, op, headers) ==
    LET spec == SpecificationsOf(s)[op]
    IN  [meant |-> op, service |-> s, method |-> spec.method,
         xHttpMethod |-> "none", path |-> spec.path,
         level |-> IF spec.path = "/" THEN "root" ELSE "named",
         query |-> {Given(q) : q \in spec.query},
         header |-> {Given(h) : h \in spec.header}
                    \cup {<<h, "any">> : h \in headers},
         account |-> "known", name |-> "valid", version |-> "valid",
         protocol |-> "http", scheme |-> "none", signed |-> FALSE,
         sas |-> NoSas, token |-> NoToken, body |-> "ok",
         origin |-> NoOrigin, requestMethod |-> "none",
         requestHeaders |-> {}]

\* Stores that do not change.
Still == [accesses |-> {"none"}, policies |-> {Missing}, blobs |-> FALSE,
          rules |-> {Missing}, timed |-> FALSE]

WithKey(r) == [r EXCEPT !.scheme = "SharedKey", !.signed = TRUE]

\* Every operation with every choice of its optional headers, a content
\* length or none, and MERGE as a verb or behind POST.
Dispatching(s) ==
    LET keyed == {WithKey(For(s, op, h)) : <<op, h>> \in
                    UNION {{op} \X SUBSET (SpecificationsOf(s)[op].optional
                                           \cup {"Content-Length"})
                           : op \in OpsOf(s)}}
    IN  keyed \cup
            {[r EXCEPT !.method = "POST", !.xHttpMethod = r.method] :
                r \in {k \in keyed : k.method \in {"MERGE", "PATCH"}}}

Letters == {"r", "w", "d", "l", "a", "c", "u", "p", "t", "f"}

AccountSas(letters, types) ==
    [NoSas EXCEPT !.kind = "account", !.signed = TRUE, !.expiry = 1,
                  !.permissions = letters, !.types = types,
                  !.services = {"b", "q", "t"}]
ServiceSas(letters, resource) ==
    [NoSas EXCEPT !.kind = "service", !.signed = TRUE, !.expiry = 1,
                  !.permissions = letters, !.resource = resource]
PolicySas(resource) ==
    [ServiceSas({}, resource) EXCEPT !.identifier = TRUE,
        !.expiry = Missing, !.permissions = Missing]

\* A request for a container names no blob, whatever its signature is for.
WithSas(s, ops, signatures) ==
    LET bearing(op, sas) ==
            LET r == For(s, op, {})
            IN  [r EXCEPT !.sas =
                    IF s = "blob" /\ r.path # BlobPath
                    THEN [sas EXCEPT !.name = ""] ELSE sas]
    IN  {bearing(op, sas) : op \in ops, sas \in signatures}

\* Every operation with every single letter.
Signing(s) ==
    WithSas(s, OpsOf(s),
        {AccountSas({l}, {t}) : l \in Letters, t \in {"s", "c", "o"}}
        \cup {ServiceSas({l}, x) : l \in Letters, x \in {"b", "c"}})

\* Policies that the handlers of a service accept.
Policies(s) ==
    LET rule(start, expiry, letters) ==
            [start |-> start, expiry |-> expiry, permissions |-> letters]
    IN  {Missing, rule(Missing, 1, {"r", "a"}),
         rule(2, Missing, IF s = "blob" THEN {"w", "c", "u"} ELSE {"u"})}
        \cup (IF s = "table" THEN {} ELSE {rule(Missing, Missing, Missing)})

PolicyOps(s) ==
    CASE s = "blob" -> {"Blob_Download", "BlockBlob_Upload",
                        "Container_FilterBlobs", "Container_Restore"}
      [] s = "queue" -> {"Messages_Peek", "Messages_Enqueue"}
      [] OTHER -> {"Table_QueryEntities", "Table_UpdateEntity"}

\* Policies that come and go under requests that name one.
Governing(s) ==
    WithSas(s, PolicyOps(s),
        {PolicySas("b"), PolicySas("c"),
         [ServiceSas({"r"}, "c") EXCEPT !.identifier = TRUE],
         [ServiceSas({"r"}, "b") EXCEPT !.start = 1, !.expiry = 2]})

AlterOps(s) ==
    CASE s = "blob" -> {"Blob_Download", "Container_Create",
                        "Container_GetAccountInfo"}
      [] s = "queue" -> {"Messages_Peek"}
      [] OTHER -> {"Table_QueryEntities"}

\* Signatures of every version, one parameter of which is not as signed.
\* With a user delegation key there is no identifier.
Issuable(sas) == sas.delegation = "none" \/ ~sas.identifier
Altered(sas) ==
    {[sas EXCEPT !.permissions = {"d"}], [sas EXCEPT !.start = 0],
     [sas EXCEPT !.expiry = 2], [sas EXCEPT !.protocol = "http"],
     [sas EXCEPT !.services = {"q"}], [sas EXCEPT !.types = {"o"}],
     [sas EXCEPT !.identifier = ~@], [sas EXCEPT !.name = "y"],
     [sas EXCEPT !.resource = "b"], [sas EXCEPT !.resource = "c"],
     [sas EXCEPT !.resource = "bs"], [sas EXCEPT !.overrides = "some"],
     [sas EXCEPT !.version = 4], [sas EXCEPT !.version = 1],
     [sas EXCEPT !.keyExpiry = 3], [sas EXCEPT !.delegation = "none"],
     [sas EXCEPT !.delegation = "complete", !.keyExpiry = 2], sas}

Altering(s) ==
    LET letters == {"r", "w", "a"}
        base == {AccountSas(letters, {"s", "c", "o"})}
                \cup {ServiceSas(letters, x) : x \in {"b", "c"}}
                \cup {[ServiceSas(letters, x) EXCEPT
                            !.delegation = "complete", !.keyExpiry = 2] :
                         x \in {"b", "c"}}
        versions == {[sas EXCEPT !.version = v] : sas \in base, v \in 1 .. 5}
    IN  WithSas(s, AlterOps(s),
            UNION {{[sas EXCEPT !.issued = i] :
                        i \in {a \in Altered(sas) : Issuable(a)}}
                   : sas \in versions})

\* Anonymous requests while public access changes.
Publishing == {For("blob", op, {}) : op \in OpsOf("blob")}

\* Every way a request can be refused before its handler.
VariantOps(s) ==
    CASE s = "blob" -> {"Blob_Download", "BlockBlob_Upload",
                        "Service_GetUserDelegationKey",
                        "Container_SetAccessPolicy"}
      [] s = "queue" -> {"Queue_Create", "Queue_SetAccessPolicy"}
      [] OTHER -> {"Table_InsertEntity", "Table_SetAccessPolicy"}

Variants(s) ==
    LET base == {For(s, op, {}) : op \in VariantOps(s)}
        all == AccountSas({"r", "w", "a", "p"}, {"s", "c", "o"})
        sas == {all,
                [all EXCEPT !.signed = FALSE], [all EXCEPT !.expiry = 0],
                [all EXCEPT !.start = 2], [all EXCEPT !.protocol = "https"],
                [all EXCEPT !.services = {}], [all EXCEPT !.scope = TRUE]}
        service1 == ServiceSas({"r", "w", "a"}, "c")
        sas2 == {[service1 EXCEPT !.signed = FALSE],
                 [service1 EXCEPT !.protocol = "https"],
                 [service1 EXCEPT !.scope = TRUE],
                 [service1 EXCEPT !.delegation = "partial"],
                 [service1 EXCEPT !.delegation = "complete",
                                  !.keyExpiry = 1],
                 [service1 EXCEPT !.delegation = "complete"]}
        tokens == {NoToken, [NoToken EXCEPT !.decodes = FALSE],
                   [NoToken EXCEPT !.nbf = 2], [NoToken EXCEPT !.exp = 1],
                   [NoToken EXCEPT !.issuer = FALSE],
                   [NoToken EXCEPT !.audience = "other"],
                   [NoToken EXCEPT !.audience = "queue"]}
        requests ==
            UNION {
              {[r EXCEPT !.sas = x] : x \in sas \cup sas2}
              \cup {[r EXCEPT !.scheme = "Bearer", !.protocol = p,
                              !.token = t] :
                       p \in {"http", "https"}, t \in tokens}
              \cup {[r EXCEPT !.scheme = x, !.signed = b] :
                       x \in {"SharedKey", "SharedKeyLite"}, b \in BOOLEAN}
              \cup {[r EXCEPT !.account = a, !.scheme = x, !.signed = FALSE] :
                       a \in {"unknown", "empty"}, x \in {"none", "SharedKey"}}
              \cup {[WithKey(r) EXCEPT !.version = "invalid"],
                    [WithKey(r) EXCEPT !.name = "invalid"],
                    [WithKey(r) EXCEPT !.body = "malformed"],
                    [WithKey(r) EXCEPT !.header =
                        @ \cup {<<"x-ms-encryption-key", "any">>}]}
              : r \in base}
    IN  requests \cup
            {[WithKey(For(s, CHOOSE op \in VariantOps(s) : TRUE, {}))
              EXCEPT !.path = "unparsable", !.meant = "none"]}

\* Rules of every shape, and requests from two origins with their
\* preflights.
Entry(wild, admits) == [wild |-> wild, admits |-> admits]
Rule(any, origins, methods) ==
    [any |-> any, origins |-> origins, methods |-> methods,
     headers |-> {"x-ms-meta"}, exposed |-> {"x-ms-version"},
     prefixes |-> {"x-ms-error-code"}]
Rules ==
    {Missing, <<>>,
     <<Rule(FALSE, <<Entry(FALSE, {"a"})>>, {"GET"}),
       Rule(TRUE, <<>>, {"PUT", "POST"})>>,
     <<Rule(FALSE, <<Entry(FALSE, {"b"}), Entry(TRUE, {"a"})>>,
            {"GET", "PUT", "POST"})>>}

CorsOps(s) ==
    CASE s = "blob" -> {"Blob_Download", "Blob_SetMetadata"}
      [] s = "queue" -> {"Messages_Peek", "Queue_Create"}
      [] OTHER -> {"Table_QueryEntities", "Table_InsertEntity"}

Crossing(s) ==
    LET base == {For(s, op, {}) : op \in CorsOps(s)}
        actual == {[r EXCEPT !.origin = o, !.scheme = "SharedKey",
                             !.signed = b] :
                      r \in base, o \in {"a", "b"}, b \in BOOLEAN}
        preflight == {[r EXCEPT !.method = "OPTIONS", !.meant = "none",
                                !.origin = o, !.requestMethod = m,
                                !.requestHeaders = h] :
                         r \in base, o \in {"a", "b", NoOrigin},
                         m \in {"GET", "PUT", "POST", "none"},
                         h \in {{}, {"x-ms-meta"}, {"x-other"}}}
    IN  actual \cup preflight
        \cup {[r EXCEPT !.version = "invalid"] : r \in actual}

Names == {"dispatch", "sign", "alter", "govern", "vary", "cross"} \X Services
         \cup {<<"publish", "blob">>}

AllRequests ==
    [n \in Names |->
        CASE n[1] = "dispatch" -> Dispatching(n[2])
          [] n[1] = "sign" -> Signing(n[2])
          [] n[1] = "alter" -> Altering(n[2])
          [] n[1] = "govern" -> Governing(n[2])
          [] n[1] = "vary" -> Variants(n[2])
          [] n[1] = "cross" -> Crossing(n[2])
          [] OTHER -> Publishing]
AllSettings ==
    [n \in Names |->
        CASE n[1] \in {"dispatch", "alter"} -> Still
          [] n[1] = "sign" -> [Still EXCEPT !.blobs = (n[2] = "blob")]
          [] n[1] = "govern" ->
                [Still EXCEPT !.policies = Policies(n[2]), !.timed = TRUE,
                              !.blobs = (n[2] = "blob")]
          [] n[1] = "vary" -> [Still EXCEPT !.timed = TRUE]
          [] n[1] = "cross" -> [Still EXCEPT !.rules = Rules]
          [] OTHER ->
                [Still EXCEPT !.accesses = {"none", "blob", "container"}]]
=============================================================================
