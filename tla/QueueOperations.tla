-------------------------- MODULE QueueOperations --------------------------
(* The operations of the queue service: specifications.ts, operation.ts,   *)
(* handlerMappers.ts and the permission tables.                            *)
EXTENDS OperationSpecs

QueuePath == "/{queueName}"
MessagesPath == "/{queueName}/messages"
MessagePath == "/{queueName}/messages/{messageid}"

QueueOperation == <<
    "Service_SetProperties", "Service_GetProperties", "Service_GetStatistics",
    "Service_ListQueuesSegment", "Queue_Create", "Queue_Delete",
    "Queue_GetProperties", "Queue_GetPropertiesWithHead", "Queue_SetMetadata",
    "Queue_GetAccessPolicy", "Queue_GetAccessPolicyWithHead",
    "Queue_SetAccessPolicy", "Messages_Dequeue", "Messages_Clear",
    "Messages_Enqueue", "Messages_Peek", "MessageId_Update",
    "MessageId_Delete">>

QueueServiceSpecs == [
    Service_SetProperties |->
        Op("PUT", "/", {Restype("service"), Comp("properties")},
           {}, {}, {202}),
    Service_GetProperties |->
        Op("GET", "/", {Restype("service"), Comp("properties")},
           {}, {}, {200}),
    Service_GetStatistics |->
        Op("GET", "/", {Restype("service"), Comp("stats")}, {}, {}, {200}),
    Service_ListQueuesSegment |->
        Op("GET", "/", {Comp("list")}, {}, {}, {200})]

QueueSpecs == [
    Queue_Create |-> Op("PUT", QueuePath, {}, {}, {}, {201, 204}),
    Queue_Delete |-> Op("DELETE", QueuePath, {}, {}, {}, {204}),
    Queue_GetProperties |->
        Op("GET", QueuePath, {Comp("metadata")}, {}, {}, {200}),
    Queue_GetPropertiesWithHead |->
        Op("HEAD", QueuePath, {Comp("metadata")}, {}, {}, {200}),
    Queue_SetMetadata |->
        Op("PUT", QueuePath, {Comp("metadata")}, {}, {}, {204})]

QueuePolicySpecs == [
    Queue_GetAccessPolicy |->
        Op("GET", QueuePath, {Comp("acl")}, {}, {}, {200}),
    Queue_GetAccessPolicyWithHead |->
        Op("HEAD", QueuePath, {Comp("acl")}, {}, {}, {200}),
    Queue_SetAccessPolicy |->
        Op("PUT", QueuePath, {Comp("acl")}, {}, {}, {204})]

MessagesSpecs == [
    Messages_Dequeue |-> Op("GET", MessagesPath, {}, {}, {}, {200}),
    Messages_Clear |-> Op("DELETE", MessagesPath, {}, {}, {}, {204}),
    Messages_Enqueue |-> Op("POST", MessagesPath, {}, {}, {}, {201}),
    Messages_Peek |->
        Op("GET", MessagesPath, {Is("peekonly", "true")}, {}, {}, {200})]

MessageIdSpecs == [
    MessageId_Update |->
        Op("PUT", MessagePath, {Has("popreceipt"), Has("visibilitytimeout")},
           {}, {}, {204}),
    MessageId_Delete |->
        Op("DELETE", MessagePath, {Has("popreceipt")}, {}, {}, {204})]

QueueSpecifications ==
    QueueServiceSpecs @@ QueueSpecs @@ QueuePolicySpecs @@ MessagesSpecs
    @@ MessageIdSpecs

\* The status codes of the handler behind each operation.
QueueHandlerStatus ==
    Each({"Service_SetProperties"}, {202})
    @@ Each({"Queue_Create"}, {201, 204})
    @@ Each({"Messages_Enqueue"}, {201})
    @@ Each({"Queue_Delete", "Queue_SetMetadata", "Queue_SetAccessPolicy",
             "Messages_Clear", "MessageId_Update", "MessageId_Delete"}, {204})
    @@ Each({"Service_GetProperties", "Service_GetStatistics",
             "Service_ListQueuesSegment", "Queue_GetProperties",
             "Queue_GetPropertiesWithHead", "Queue_GetAccessPolicy",
             "Queue_GetAccessPolicyWithHead", "Messages_Dequeue",
             "Messages_Peek"}, {200})

\* OPERATION_ACCOUNT_SAS_PERMISSIONS.
QueueAccountSASPermissions ==
    Each({"Service_GetProperties", "Service_GetStatistics"},
         Needs({"s"}, {"r"}))
    @@ Each({"Service_SetProperties"}, Needs({"s"}, {"w"}))
    @@ Each({"Service_ListQueuesSegment"}, Needs({"s"}, {"l"}))
    @@ Each({"Queue_Create"}, Needs({"c"}, {"c", "w"}))
    @@ Each({"Queue_Delete", "Messages_Clear"}, Needs({"c"}, {"d"}))
    @@ Each({"Queue_GetProperties", "Queue_GetPropertiesWithHead"},
            Needs({"c"}, {"r"}))
    @@ Each({"Queue_SetMetadata"}, Needs({"c"}, {"w"}))
    @@ Each({"Queue_GetAccessPolicy", "Queue_GetAccessPolicyWithHead",
             "Queue_SetAccessPolicy"}, Needs({"c"}, {}))
    @@ Each({"Messages_Enqueue"}, Needs({"o"}, {"a"}))
    @@ Each({"Messages_Dequeue"}, Needs({"o"}, {"p"}))
    @@ Each({"Messages_Peek"}, Needs({"o"}, {"r"}))
    @@ Each({"MessageId_Delete"}, Needs({"c"}, {"p"}))
    @@ Each({"MessageId_Update"}, Needs({"c"}, {"u"}))

\* OPERATION_QUEUE_SAS_PERMISSIONS, with no permission for every other
\* operation.
QueueSASPermissions ==
    Each({"Queue_GetProperties", "Queue_GetPropertiesWithHead",
          "Messages_Peek"}, {"r"})
    @@ Each({"Messages_Enqueue"}, {"a"})
    @@ Each({"MessageId_Update"}, {"u"})
    @@ Each({"Messages_Dequeue", "MessageId_Delete"}, {"p"})
    @@ Each(DOMAIN QueueSpecifications, {})
=============================================================================
