-------------------------- MODULE TableOperations --------------------------
(* The operations of the table service: specifications.ts (with the verb   *)
(* MERGE that TableRequestListenerFactory puts in), operation.ts,          *)
(* handlerMappers.ts and the permission tables.  "(keys)" stands for       *)
(* "(PartitionKey='{partitionKey}',RowKey='{rowKey}')".                    *)
EXTENDS OperationSpecs

TableOperation == <<
    "Table_Query", "Table_Create", "Table_Batch", "Table_Delete",
    "Table_QueryEntities", "Table_QueryEntitiesWithPartitionAndRowKey",
    "Table_UpdateEntity", "Table_MergeEntity", "Table_DeleteEntity",
    "Table_MergeEntityWithMerge", "Table_InsertEntity",
    "Table_GetAccessPolicy", "Table_SetAccessPolicy", "Service_SetProperties",
    "Service_GetProperties", "Service_GetStatistics">>

TableSpecs == [
    Table_Query |-> Op("GET", "/Tables", {}, {}, {}, {200}),
    Table_Create |-> Op("POST", "/Tables", {}, {}, {}, {201, 204}),
    Table_Batch |->
        Op("POST", "/$batch", {},
           {Has("Content-Type"), Has("Content-Length")}, {}, {202}),
    Table_Delete |-> Op("DELETE", "/Tables('{table}')", {}, {}, {}, {204})]

EntityQuerySpecs == [
    Table_QueryEntities |-> Op("GET", "/{table}()", {}, {}, {}, {200}),
    Table_QueryEntitiesWithPartitionAndRowKey |->
        Op("GET", "/{table}(keys)", {}, {}, {}, {200})]

EntityWriteSpecs == [
    Table_UpdateEntity |-> Op("PUT", "/{table}(keys)", {}, {}, {}, {204}),
    Table_MergeEntity |-> Op("PATCH", "/{table}(keys)", {}, {}, {}, {204}),
    Table_DeleteEntity |->
        Op("DELETE", "/{table}(keys)", {}, {Has("If-Match")}, {}, {204}),
    Table_MergeEntityWithMerge |->
        Op("MERGE", "/{table}(keys)", {}, {}, {}, {204})]

EntityInsertSpecs == [
    Table_InsertEntity |-> Op("POST", "/{table}", {}, {}, {}, {201, 204}),
    Table_GetAccessPolicy |->
        Op("GET", "/{table}", {Comp("acl")}, {}, {}, {200}),
    Table_SetAccessPolicy |->
        Op("PUT", "/{table}", {Comp("acl")}, {}, {}, {204})]

TableServiceSpecs == [
    Service_SetProperties |->
        Op("PUT", "/", {Restype("service"), Comp("properties")},
           {}, {}, {202}),
    Service_GetProperties |->
        Op("GET", "/", {Restype("service"), Comp("properties")},
           {}, {}, {200}),
    Service_GetStatistics |->
        Op("GET", "/", {Restype("service"), Comp("stats")}, {}, {}, {200})]

TableSpecifications ==
    TableSpecs @@ EntityQuerySpecs @@ EntityWriteSpecs @@ EntityInsertSpecs
    @@ TableServiceSpecs

\* The status codes of the handler behind each operation.
TableHandlerStatus ==
    Each({"Service_SetProperties", "Table_Batch"}, {202})
    @@ Each({"Table_Create", "Table_InsertEntity"}, {201, 204})
    @@ Each({"Table_Delete", "Table_UpdateEntity", "Table_MergeEntity",
             "Table_MergeEntityWithMerge", "Table_DeleteEntity",
             "Table_SetAccessPolicy"}, {204})
    @@ Each({"Service_GetProperties", "Service_GetStatistics", "Table_Query",
             "Table_QueryEntities",
             "Table_QueryEntitiesWithPartitionAndRowKey",
             "Table_GetAccessPolicy"}, {200})

\* OPERATION_ACCOUNT_SAS_PERMISSIONS.
TableAccountSASPermissions ==
    Each({"Service_GetProperties", "Service_GetStatistics"},
         Needs({"s"}, {"r"}))
    @@ Each({"Service_SetProperties"}, Needs({"s"}, {"w"}))
    @@ Each({"Table_Query"}, Needs({"c"}, {"l"}))
    @@ Each({"Table_Create"}, Needs({"c"}, {"c", "w"}))
    @@ Each({"Table_SetAccessPolicy", "Table_GetAccessPolicy"},
            Needs({"c"}, {}))
    @@ Each({"Table_Delete"}, Needs({"c"}, {"d"}))
    @@ Each({"Table_QueryEntities"}, Needs({"c"}, {"r"}))
    @@ Each({"Table_QueryEntitiesWithPartitionAndRowKey"},
            Needs({"o"}, {"r"}))
    @@ Each({"Table_InsertEntity"}, Needs({"o"}, {"a"}))
    @@ Each({"Table_UpdateEntity", "Table_MergeEntity",
             "Table_MergeEntityWithMerge"}, Needs({"o"}, {"u"}))
    @@ Each({"Table_DeleteEntity"}, Needs({"o"}, {"d"}))
    @@ Each({"Table_Batch"},
            Needs({"o", "s", "c"},
                  {"d", "a", "c", "l", "p", "r", "u", "w"}))

\* OPERATION_TABLE_SAS_TABLE_PERMISSIONS: the entries set first hold no
\* permission, the later ones replace most of them.
TableSASPermissions ==
    Each({"Table_InsertEntity"}, {"a"})
    @@ Each({"Table_Query", "Table_QueryEntities",
             "Table_QueryEntitiesWithPartitionAndRowKey",
             "Service_GetProperties", "Service_GetStatistics"}, {"r"})
    @@ Each({"Table_Delete", "Table_DeleteEntity"}, {"d"})
    @@ Each({"Table_UpdateEntity", "Table_MergeEntity",
             "Table_MergeEntityWithMerge"}, {"u"})
    @@ Each({"Table_Batch"}, {"a", "d", "r", "u"})
    @@ Each({"Service_SetProperties", "Table_Create", "Table_GetAccessPolicy",
             "Table_SetAccessPolicy"}, {})
=============================================================================
