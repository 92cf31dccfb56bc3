--------------------------- MODULE BlobConditions ---------------------------
(***************************************************************************)
(* Conditional headers of blob and container requests (src/blob/conditions)*)
(*                                                                         *)
(* A request's conditions are a record of ConditionalHeadersAdapter:       *)
(*   ifMatch, ifNoneMatch   sequences of etags, <<>> without the header;   *)
(*                          "*" is the wildcard                            *)
(*   ifModifiedSince, ifUnmodifiedSince   times, NoDate without the header *)
(*   ifTags                 NoTags without the header, else the set of tag *)
(*                          values its expression accepts                  *)
(* A resource is a record of ConditionResourceAdapter: exist, etag,        *)
(* lastModified and the value of its tag.                                  *)
(***************************************************************************)
EXTENDS Naturals, Sequences

CONSTANTS
    Wildcard,  \* "*"
    NoDate,    \* a date header that is not sent
    NoTags     \* an x-ms-if-tags header that is not sent

NoConditions ==
    [ifMatch |-> <<>>, ifNoneMatch |-> <<>>, ifModifiedSince |-> NoDate,
     ifUnmodifiedSince |-> NoDate, ifTags |-> NoTags]

\* ConditionResourceAdapter of no document or of an uncommitted blob; the etag
\* NONEXISTENT_RESOURCE_ETAG matches none a client sends.
NoResource ==
    [exist |-> FALSE, etag |-> "NONEXISTENT_RESOURCE_ETAG",
     lastModified |-> NoDate, tag |-> NoTags]

TagsMatch(cond, res) == cond.ifTags # NoTags => res.tag \in cond.ifTags

\* ReadConditionalHeadersValidator.validate: TRUE when it does not throw.  Of
\* If-None-Match and If-Modified-Since one that passes is enough.
ReadConditionsMet(cond, res) ==
    IF ~res.exist
    THEN /\ cond.ifMatch = <<>>
         /\ cond.ifNoneMatch # <<>> => cond.ifNoneMatch[1] # Wildcard
    ELSE LET noneMatch == \A i \in DOMAIN cond.ifNoneMatch : cond.ifNoneMatch[i] # res.etag
             modified == cond.ifModifiedSince # NoDate /\ cond.ifModifiedSince < res.lastModified
         IN /\ cond.ifMatch # <<>> =>
                  \/ \E i \in DOMAIN cond.ifMatch : cond.ifMatch[i] = res.etag
                  \/ cond.ifMatch[1] = Wildcard
            /\ cond.ifUnmodifiedSince # NoDate => res.lastModified =< cond.ifUnmodifiedSince
            /\ cond.ifNoneMatch # <<>> => cond.ifNoneMatch[1] # Wildcard
            /\ noneMatch \/ modified
            /\ \/ cond.ifModifiedSince = NoDate
               \/ modified
               \/ cond.ifNoneMatch # <<>> /\ noneMatch
            /\ TagsMatch(cond, res)

\* WriteConditionalHeadersValidator.validateCombinations
ValidCombination(cond) ==
    LET match == cond.ifMatch # <<>>
        none  == cond.ifNoneMatch # <<>>
        mod   == cond.ifModifiedSince # NoDate
        unmod == cond.ifUnmodifiedSince # NoDate
    IN /\ Len(cond.ifMatch) =< 1 /\ Len(cond.ifNoneMatch) =< 1
       /\ ~(match /\ mod) /\ ~(match /\ none) /\ ~(none /\ unmod) /\ ~(mod /\ unmod)

\* WriteConditionalHeadersValidator.validate: the first header present of
\* If-None-Match, If-Match, If-Modified-Since, If-Unmodified-Since and
\* x-ms-if-tags decides alone.
WriteConditionsMet(cond, res) ==
    /\ ValidCombination(cond)
    /\ CASE cond.ifNoneMatch # <<>> ->
              ~res.exist \/ cond.ifNoneMatch[1] = Wildcard \/ cond.ifNoneMatch[1] # res.etag
         [] cond.ifNoneMatch = <<>> /\ cond.ifMatch # <<>> ->
              cond.ifMatch[1] = Wildcard \/ (res.exist /\ cond.ifMatch[1] = res.etag)
         [] cond.ifNoneMatch = <<>> /\ cond.ifMatch = <<>> ->
              \/ ~res.exist
              \/ IF cond.ifModifiedSince # NoDate THEN cond.ifModifiedSince < res.lastModified
                 ELSE IF cond.ifUnmodifiedSince # NoDate THEN res.lastModified =< cond.ifUnmodifiedSince
                 ELSE TagsMatch(cond, res)

\* Put Blob, Put Block List and Copy Blob refuse If-None-Match: * themselves.
IsCreateOnly(cond) == cond.ifNoneMatch = <<Wildcard>>
=============================================================================
