-------------------------------- MODULE Cors --------------------------------
(* The CORS rules of a service and what the preflight middlewares make of  *)
(* them.  A rule has                                                       *)
(*   any      allowedOrigins is "*",                                       *)
(*   origins  the comma-separated entries of allowedOrigins otherwise, each*)
(*            with whether it has a wildcard and the origins it stands for,*)
(*   methods, headers  what it admits (a header prefix stands for its      *)
(*            headers),                                                    *)
(*   exposed  the headers named in exposedHeaders, prefixes those that its *)
(*            prefixes stand for.                                          *)
EXTENDS Naturals, Sequences

NoOrigin == "no origin"

NoCorsHeaders == [allowOrigin |-> NoOrigin, vary |-> FALSE, expose |-> {}]

\* The first of a set of indices.
FirstOf(indices) == CHOOSE i \in indices : \A j \in indices : i <= j

\* checkOrigin of the blob service: the first entry that equals the origin
\* or has a wildcard decides, the latter whether it matches or not.
BlobCheckOrigin(rule, origin) ==
    LET deciding == {i \in DOMAIN rule.origins :
                        \/ rule.origins[i].wild
                        \/ origin \in rule.origins[i].admits}
    IN  \/ rule.any
        \/ /\ deciding # {}
           /\ origin \in rule.origins[FirstOf(deciding)].admits

\* checkOrigin of the queue and of the table service: no wildcards.
QueueCheckOrigin(rule, origin) ==
    \/ rule.any
    \/ \E i \in DOMAIN rule.origins :
          ~rule.origins[i].wild /\ origin \in rule.origins[i].admits
TableCheckOrigin(rule, origin) ==
    \/ rule.any
    \/ \E i \in DOMAIN rule.origins :
          ~rule.origins[i].wild /\ origin \in rule.origins[i].admits

checkOrigin(service, rule, origin) ==
    CASE service = "blob" -> BlobCheckOrigin(rule, origin)
      [] service = "queue" -> QueueCheckOrigin(rule, origin)
      [] OTHER -> TableCheckOrigin(rule, origin)

checkMethod(rule, method) == method \in rule.methods

checkHeaders(rule, headers) == headers \subseteq rule.headers

\* getExposedHeaders: the response's headers that a name or a prefix of the
\* rule matches, and every name of the rule whether sent or not.
getExposedHeaders(rule, responseHeaders) ==
    (responseHeaders \cap (rule.exposed \cup rule.prefixes)) \cup rule.exposed

\* Faulty variant: the first rule for the origin must admit the verb too.
CorsHeadersOfFirstOrigin(service, rules, origin, method, responseHeaders) ==
    LET matching == {i \in DOMAIN rules :
                        checkOrigin(service, rules[i], origin)}
        rule == rules[FirstOf(matching)]
    IN  IF matching = {} \/ ~checkMethod(rule, method)
        THEN [NoCorsHeaders EXCEPT !.vary = rules # <<>>]
        ELSE [allowOrigin |-> IF rule.any THEN "*" ELSE origin,
              vary |-> ~rule.any,
              expose |-> getExposedHeaders(rule, responseHeaders)]

\* createCorsRequestMiddleware: the headers of an actual request's answer.
CorsHeaders(service, rules, origin, method, responseHeaders) ==
    LET matching == {i \in DOMAIN rules :
                        /\ checkOrigin(service, rules[i], origin)
                        /\ checkMethod(rules[i], method)}
        rule == rules[FirstOf(matching)]
    IN  IF matching = {}
        THEN [NoCorsHeaders EXCEPT !.vary = rules # <<>>]
        ELSE [allowOrigin |-> IF rule.any THEN "*" ELSE origin,
              vary |-> ~rule.any,
              expose |-> getExposedHeaders(rule, responseHeaders)]

\* createOptionsHandlerMiddleware: whether a preflight request is granted.
PreflightGranted(service, rules, origin, method, headers) ==
    \E i \in DOMAIN rules :
        /\ checkOrigin(service, rules[i], origin)
        /\ checkMethod(rules[i], method)
        /\ checkHeaders(rules[i], headers)
=============================================================================
