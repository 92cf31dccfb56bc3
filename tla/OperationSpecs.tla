--------------------------- MODULE OperationSpecs ---------------------------
(* The vocabulary of the three operation tables (BlobOperations,           *)
(* QueueOperations, TableOperations): what the generated specifications    *)
(* require of a request, what the handlers answer and what a shared access *)
(* signature must grant.                                                   *)
EXTENDS Naturals, TLC

(***************************************************************************)
(* A required parameter is its name and the values it may have; no values  *)
(* stands for any value.                                                   *)
(***************************************************************************)
OneOf(name, values) == <<name, values>>
Is(name, value) == OneOf(name, {value})
Has(name) == OneOf(name, {})
Comp(value) == Is("comp", value)
Restype(value) == Is("restype", value)

(***************************************************************************)
(* A specification: the verb, the path template, the required query        *)
(* parameters and headers, those optional headers that some other          *)
(* operation requires, and the status codes it knows.                      *)
(***************************************************************************)
Op(method, path, query, header, optional, responses) ==
    [method |-> method, path |-> path, query |-> query, header |-> header,
     optional |-> optional, responses |-> responses]

\* The same value for several operations.
Each(ops, value) == [op \in ops |-> value]

\* What an account SAS must hold: one of the resource types and one of the
\* permissions.  AnyOf is the permission of the batch operations.
AnyOf == {"any"}
Needs(types, permissions) == [types |-> types, permissions |-> permissions]
=============================================================================
