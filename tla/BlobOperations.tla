--------------------------- MODULE BlobOperations ---------------------------
(* The operations of the blob service as the generated layer and the       *)
(* authenticators know them: specifications.ts, operation.ts,              *)
(* handlerMappers.ts and the permission tables of the SAS authenticators.  *)
EXTENDS OperationSpecs

ContainerPath == "/{containerName}"
BlobPath == "/{containerName}/{blob}"

BlobOperation == <<
    "Service_SetProperties", "Service_GetProperties", "Service_GetStatistics",
    "Service_ListContainersSegment", "Service_GetUserDelegationKey",
    "Service_GetAccountInfo", "Service_GetAccountInfoWithHead",
    "Service_SubmitBatch", "Service_FilterBlobs", "Container_Create",
    "Container_GetProperties", "Container_GetPropertiesWithHead",
    "Container_Delete", "Container_SetMetadata", "Container_GetAccessPolicy",
    "Container_SetAccessPolicy", "Container_Restore", "Container_SubmitBatch",
    "Container_FilterBlobs", "Container_AcquireLease",
    "Container_ReleaseLease", "Container_RenewLease", "Container_BreakLease",
    "Container_ChangeLease", "Container_ListBlobFlatSegment",
    "Container_ListBlobHierarchySegment", "Container_GetAccountInfo",
    "Container_GetAccountInfoWithHead", "Blob_Download", "Blob_GetProperties",
    "Blob_Delete", "Blob_Undelete", "Blob_SetExpiry", "Blob_SetHTTPHeaders",
    "Blob_SetImmutabilityPolicy", "Blob_DeleteImmutabilityPolicy",
    "Blob_SetLegalHold", "Blob_SetMetadata", "Blob_AcquireLease",
    "Blob_ReleaseLease", "Blob_RenewLease", "Blob_ChangeLease",
    "Blob_BreakLease", "Blob_CreateSnapshot", "Blob_StartCopyFromURL",
    "Blob_CopyFromURL", "Blob_AbortCopyFromURL", "Blob_SetTier",
    "Blob_GetAccountInfo", "Blob_GetAccountInfoWithHead", "Blob_Query",
    "Blob_GetTags", "Blob_SetTags", "PageBlob_Create", "PageBlob_UploadPages",
    "PageBlob_ClearPages", "PageBlob_UploadPagesFromURL",
    "PageBlob_GetPageRanges", "PageBlob_GetPageRangesDiff", "PageBlob_Resize",
    "PageBlob_UpdateSequenceNumber", "PageBlob_CopyIncremental",
    "AppendBlob_Create", "AppendBlob_AppendBlock",
    "AppendBlob_AppendBlockFromUrl", "AppendBlob_Seal", "BlockBlob_Upload",
    "BlockBlob_PutBlobFromUrl", "BlockBlob_StageBlock",
    "BlockBlob_StageBlockFromURL", "BlockBlob_CommitBlockList",
    "BlockBlob_GetBlockList">>

ServicePropertiesSpecs == [
    Service_SetProperties |->
        Op("PUT", "/", {Restype("service"), Comp("properties")},
           {}, {}, {202}),
    Service_GetProperties |->
        Op("GET", "/", {Restype("service"), Comp("properties")},
           {}, {}, {200}),
    Service_GetStatistics |->
        Op("GET", "/", {Restype("service"), Comp("stats")}, {}, {}, {200}),
    Service_ListContainersSegment |->
        Op("GET", "/", {Comp("list")}, {}, {}, {200})]

ServiceAccountSpecs == [
    Service_GetUserDelegationKey |->
        Op("POST", "/", {Restype("service"), Comp("userdelegationkey")},
           {}, {}, {200}),
    Service_GetAccountInfo |->
        Op("GET", "/", {Restype("account"), Comp("properties")},
           {}, {}, {200}),
    Service_GetAccountInfoWithHead |->
        Op("HEAD", "/", {Restype("account"), Comp("properties")},
           {}, {}, {200}),
    Service_SubmitBatch |->
        Op("POST", "/", {Comp("batch")},
           {Has("Content-Length"), Has("Content-Type")}, {}, {202}),
    Service_FilterBlobs |-> Op("GET", "/", {Comp("blobs")}, {}, {}, {200})]

ContainerSpecs == [
    Container_Create |->
        Op("PUT", ContainerPath, {Restype("container")}, {}, {}, {201}),
    Container_GetProperties |->
        Op("GET", ContainerPath, {Restype("container")}, {}, {}, {200}),
    Container_GetPropertiesWithHead |->
        Op("HEAD", ContainerPath, {Restype("container")}, {}, {}, {200}),
    Container_Delete |->
        Op("DELETE", ContainerPath, {Restype("container")}, {}, {}, {202})]

ContainerPolicySpecs == [
    Container_SetMetadata |->
        Op("PUT", ContainerPath, {Restype("container"), Comp("metadata")},
           {}, {"x-ms-lease-id"}, {200}),
    Container_GetAccessPolicy |->
        Op("GET", ContainerPath, {Restype("container"), Comp("acl")},
           {}, {}, {200}),
    Container_SetAccessPolicy |->
        Op("PUT", ContainerPath, {Restype("container"), Comp("acl")},
           {}, {"x-ms-lease-id"}, {200}),
    Container_Restore |->
        Op("PUT", ContainerPath, {Restype("container"), Comp("undelete")},
           {}, {}, {201})]

ContainerBatchSpecs == [
    Container_SubmitBatch |->
        Op("POST", ContainerPath, {Restype("container"), Comp("batch")},
           {Has("Content-Length"), Has("Content-Type")}, {}, {202}),
    Container_FilterBlobs |->
        Op("GET", ContainerPath, {Restype("container"), Comp("blobs")},
           {}, {}, {200})]

ContainerLeaseSpecs == [
    Container_AcquireLease |->
        Op("PUT", ContainerPath, {Comp("lease"), Restype("container")},
           {Is("x-ms-lease-action", "acquire")},
           {"x-ms-proposed-lease-id"}, {201}),
    Container_ReleaseLease |->
        Op("PUT", ContainerPath, {Comp("lease"), Restype("container")},
           {Has("x-ms-lease-id"),
            Is("x-ms-lease-action", "release")},
           {}, {200}),
    Container_RenewLease |->
        Op("PUT", ContainerPath, {Comp("lease"), Restype("container")},
           {Has("x-ms-lease-id"),
            Is("x-ms-lease-action", "renew")},
           {}, {200}),
    Container_BreakLease |->
        Op("PUT", ContainerPath, {Comp("lease"), Restype("container")},
           {Is("x-ms-lease-action", "break")}, {}, {202}),
    Container_ChangeLease |->
        Op("PUT", ContainerPath, {Comp("lease"), Restype("container")},
           {Has("x-ms-lease-id"),
            Has("x-ms-proposed-lease-id"),
            Is("x-ms-lease-action", "change")},
           {}, {200})]

ContainerListSpecs == [
    Container_ListBlobFlatSegment |->
        Op("GET", ContainerPath, {Restype("container"), Comp("list")},
           {}, {}, {200}),
    Container_ListBlobHierarchySegment |->
        Op("GET", ContainerPath,
           {Has("delimiter"), Restype("container"), Comp("list")},
           {},
           {}, {200}),
    Container_GetAccountInfo |->
        Op("GET", ContainerPath, {Restype("account"), Comp("properties")},
           {}, {}, {200}),
    Container_GetAccountInfoWithHead |->
        Op("HEAD", ContainerPath, {Restype("account"), Comp("properties")},
           {}, {}, {200})]

BlobReadSpecs == [
    Blob_Download |-> Op("GET", BlobPath, {}, {}, {}, {200, 206}),
    Blob_GetProperties |-> Op("HEAD", BlobPath, {}, {}, {}, {200}),
    Blob_Delete |-> Op("DELETE", BlobPath, {}, {}, {}, {202})]

BlobExpirySpecs == [
    Blob_Undelete |-> Op("PUT", BlobPath, {Comp("undelete")}, {}, {}, {200}),
    Blob_SetExpiry |->
        Op("PUT", BlobPath, {Comp("expiry")},
           {Has("x-ms-expiry-option")}, {}, {200}),
    Blob_SetHTTPHeaders |->
        Op("PUT", BlobPath, {Comp("properties")},
           {}, {"x-ms-lease-id"}, {200})]

BlobPolicySpecs == [
    Blob_SetImmutabilityPolicy |->
        Op("PUT", BlobPath, {Comp("immutabilityPolicies")}, {}, {}, {200}),
    Blob_DeleteImmutabilityPolicy |->
        Op("DELETE", BlobPath, {Comp("immutabilityPolicies")}, {}, {}, {200}),
    Blob_SetLegalHold |->
        Op("PUT", BlobPath, {Comp("legalhold")},
           {Has("x-ms-legal-hold")}, {}, {200}),
    Blob_SetMetadata |->
        Op("PUT", BlobPath, {Comp("metadata")}, {}, {"x-ms-lease-id"}, {200})]

BlobLeaseSpecs == [
    Blob_AcquireLease |->
        Op("PUT", BlobPath, {Comp("lease")},
           {Is("x-ms-lease-action", "acquire")},
           {"x-ms-proposed-lease-id"}, {201}),
    Blob_ReleaseLease |->
        Op("PUT", BlobPath, {Comp("lease")},
           {Has("x-ms-lease-id"),
            Is("x-ms-lease-action", "release")},
           {}, {200}),
    Blob_RenewLease |->
        Op("PUT", BlobPath, {Comp("lease")},
           {Has("x-ms-lease-id"),
            Is("x-ms-lease-action", "renew")},
           {}, {200}),
    Blob_ChangeLease |->
        Op("PUT", BlobPath, {Comp("lease")},
           {Has("x-ms-lease-id"),
            Has("x-ms-proposed-lease-id"),
            Is("x-ms-lease-action", "change")},
           {}, {200}),
    Blob_BreakLease |->
        Op("PUT", BlobPath, {Comp("lease")},
           {Is("x-ms-lease-action", "break")}, {}, {202})]

BlobCopySpecs == [
    Blob_CreateSnapshot |->
        Op("PUT", BlobPath, {Comp("snapshot")}, {}, {"x-ms-lease-id"}, {201}),
    Blob_StartCopyFromURL |->
        Op("PUT", BlobPath, {},
           {Has("x-ms-copy-source")},
           {"x-ms-access-tier", "x-ms-lease-id", "x-ms-legal-hold"}, {202}),
    Blob_CopyFromURL |->
        Op("PUT", BlobPath, {},
           {Has("x-ms-copy-source"),
            Is("x-ms-requires-sync", "true")},
           {"x-ms-access-tier", "x-ms-lease-id", "x-ms-legal-hold"}, {202}),
    Blob_AbortCopyFromURL |->
        Op("PUT", BlobPath, {Has("copyid"), Comp("copy")},
           {Is("x-ms-copy-action", "abort")}, {"x-ms-lease-id"}, {204})]

BlobTierSpecs == [
    Blob_SetTier |->
        Op("PUT", BlobPath, {Comp("tier")},
           {Has("x-ms-access-tier")}, {"x-ms-lease-id"}, {200, 202}),
    Blob_GetAccountInfo |->
        Op("GET", BlobPath, {Restype("account"), Comp("properties")},
           {}, {}, {200}),
    Blob_GetAccountInfoWithHead |->
        Op("HEAD", BlobPath, {Restype("account"), Comp("properties")},
           {}, {}, {200})]

BlobQuerySpecs == [
    Blob_Query |-> Op("POST", BlobPath, {Comp("query")}, {}, {}, {200, 206}),
    Blob_GetTags |-> Op("GET", BlobPath, {Comp("tags")}, {}, {}, {200}),
    Blob_SetTags |->
        Op("PUT", BlobPath, {Comp("tags")}, {}, {"x-ms-lease-id"}, {204})]

PageBlobWriteSpecs == [
    PageBlob_Create |->
        Op("PUT", BlobPath, {},
           {Has("Content-Length"),
            Has("x-ms-blob-content-length"),
            Is("x-ms-blob-type", "PageBlob")},
           {"x-ms-access-tier", "x-ms-lease-id", "x-ms-legal-hold"}, {201}),
    PageBlob_UploadPages |->
        Op("PUT", BlobPath, {Comp("page")},
           {Has("Content-Length"),
            Is("x-ms-page-write", "update")},
           {"x-ms-lease-id", "x-ms-range"}, {201}),
    PageBlob_ClearPages |->
        Op("PUT", BlobPath, {Comp("page")},
           {Has("Content-Length"),
            Is("x-ms-page-write", "clear")},
           {"x-ms-lease-id", "x-ms-range"}, {201})]

PageBlobRangeSpecs == [
    PageBlob_UploadPagesFromURL |->
        Op("PUT", BlobPath, {Comp("page")},
           {Has("x-ms-copy-source"),
            Has("x-ms-source-range"),
            Has("Content-Length"),
            Has("x-ms-range"),
            Is("x-ms-page-write", "update")},
           {"x-ms-lease-id"}, {201}),
    PageBlob_GetPageRanges |->
        Op("GET", BlobPath, {Comp("pagelist")}, {}, {}, {200}),
    PageBlob_GetPageRangesDiff |->
        Op("GET", BlobPath, {Comp("pagelist")}, {}, {}, {200})]

PageBlobPropertiesSpecs == [
    PageBlob_Resize |->
        Op("PUT", BlobPath, {Comp("properties")},
           {Has("x-ms-blob-content-length")}, {"x-ms-lease-id"}, {200}),
    PageBlob_UpdateSequenceNumber |->
        Op("PUT", BlobPath, {Comp("properties")},
           {OneOf("x-ms-sequence-number-action",
                  {"max", "update", "increment"})},
           {"x-ms-lease-id"}, {200}),
    PageBlob_CopyIncremental |->
        Op("PUT", BlobPath, {Comp("incrementalcopy")},
           {Has("x-ms-copy-source")}, {}, {202})]

AppendBlobSpecs == [
    AppendBlob_Create |->
        Op("PUT", BlobPath, {},
           {Has("Content-Length"),
            Is("x-ms-blob-type", "AppendBlob")},
           {"x-ms-lease-id", "x-ms-legal-hold"}, {201}),
    AppendBlob_AppendBlock |->
        Op("PUT", BlobPath, {Comp("appendblock")},
           {Has("Content-Length")}, {"x-ms-lease-id"}, {201})]

AppendBlobUrlSpecs == [
    AppendBlob_AppendBlockFromUrl |->
        Op("PUT", BlobPath, {Comp("appendblock")},
           {Has("x-ms-copy-source"),
            Has("Content-Length")},
           {"x-ms-lease-id", "x-ms-source-range"}, {201}),
    AppendBlob_Seal |->
        Op("PUT", BlobPath, {Comp("seal")}, {}, {"x-ms-lease-id"}, {200})]

BlockBlobUploadSpecs == [
    BlockBlob_Upload |->
        Op("PUT", BlobPath, {},
           {Has("Content-Length"),
            Is("x-ms-blob-type", "BlockBlob")},
           {"x-ms-access-tier", "x-ms-lease-id", "x-ms-legal-hold"}, {201}),
    BlockBlob_PutBlobFromUrl |->
        Op("PUT", BlobPath, {},
           {Has("Content-Length"),
            Has("x-ms-copy-source"),
            Is("x-ms-blob-type", "BlockBlob")},
           {"x-ms-access-tier", "x-ms-lease-id"}, {201})]

BlockBlobStageSpecs == [
    BlockBlob_StageBlock |->
        Op("PUT", BlobPath, {Has("blockid"), Comp("block")},
           {Has("Content-Length")}, {"x-ms-lease-id"}, {201}),
    BlockBlob_StageBlockFromURL |->
        Op("PUT", BlobPath, {Has("blockid"), Comp("block")},
           {Has("Content-Length"),
            Has("x-ms-copy-source")},
           {"x-ms-lease-id", "x-ms-source-range"}, {201})]

BlockBlobListSpecs == [
    BlockBlob_CommitBlockList |->
        Op("PUT", BlobPath, {Comp("blocklist")},
           {},
           {"x-ms-access-tier", "x-ms-lease-id", "x-ms-legal-hold"}, {201}),
    BlockBlob_GetBlockList |->
        Op("GET", BlobPath, {Comp("blocklist")}, {}, {}, {200})]

BlobSpecifications ==
    ServicePropertiesSpecs @@ ServiceAccountSpecs @@ ContainerSpecs
    @@ ContainerPolicySpecs @@ ContainerBatchSpecs @@ ContainerLeaseSpecs
    @@ ContainerListSpecs @@ BlobReadSpecs @@ BlobExpirySpecs
    @@ BlobPolicySpecs @@ BlobLeaseSpecs @@ BlobCopySpecs @@ BlobTierSpecs
    @@ BlobQuerySpecs @@ PageBlobWriteSpecs @@ PageBlobRangeSpecs
    @@ PageBlobPropertiesSpecs @@ AppendBlobSpecs @@ AppendBlobUrlSpecs
    @@ BlockBlobUploadSpecs @@ BlockBlobStageSpecs @@ BlockBlobListSpecs

(***************************************************************************)
(* The status codes of the handler behind each operation                   *)
(* (operationHandlerMapping and the responses of the handler it names); no *)
(* code where the handler throws NotImplementedError.                      *)
(***************************************************************************)
ServiceHandlerStatus ==
    Each({"Service_SetProperties", "Service_SubmitBatch"}, {202})
    @@ Each({"Service_GetProperties", "Service_GetStatistics",
             "Service_ListContainersSegment", "Service_GetUserDelegationKey",
             "Service_GetAccountInfo", "Service_GetAccountInfoWithHead",
             "Service_FilterBlobs"}, {200})

ContainerHandlerStatus ==
    Each({"Container_Create", "Container_AcquireLease"}, {201})
    @@ Each({"Container_Delete", "Container_SubmitBatch",
             "Container_BreakLease"}, {202})
    @@ Each({"Container_Restore"}, {})
    @@ Each(DOMAIN ContainerSpecs \cup DOMAIN ContainerPolicySpecs
            \cup DOMAIN ContainerBatchSpecs \cup DOMAIN ContainerLeaseSpecs
            \cup DOMAIN ContainerListSpecs, {200})

BlobHandlerStatus ==
    Each({"Blob_Undelete", "Blob_SetExpiry", "Blob_SetImmutabilityPolicy",
          "Blob_DeleteImmutabilityPolicy", "Blob_SetLegalHold",
          "Blob_Query"}, {})
    @@ Each({"Blob_AcquireLease", "Blob_CreateSnapshot"}, {201})
    @@ Each({"Blob_Delete", "Blob_BreakLease", "Blob_StartCopyFromURL",
             "Blob_CopyFromURL"}, {202})
    @@ Each({"Blob_AbortCopyFromURL", "Blob_SetTags"}, {204})
    @@ Each({"Blob_Download"}, {200, 206})
    @@ Each({"Blob_SetTier"}, {200, 202})
    @@ Each({"Blob_GetProperties", "Blob_SetHTTPHeaders", "Blob_SetMetadata",
             "Blob_ReleaseLease", "Blob_RenewLease", "Blob_ChangeLease",
             "Blob_GetAccountInfo", "Blob_GetAccountInfoWithHead",
             "Blob_GetTags"}, {200})

PageBlobHandlerStatus ==
    Each({"PageBlob_Create", "PageBlob_UploadPages", "PageBlob_ClearPages"},
         {201})
    @@ Each({"PageBlob_UploadPagesFromURL", "PageBlob_GetPageRangesDiff",
             "PageBlob_CopyIncremental"}, {})
    @@ Each({"PageBlob_GetPageRanges", "PageBlob_Resize",
             "PageBlob_UpdateSequenceNumber"}, {200})

AppendBlobHandlerStatus ==
    Each({"AppendBlob_Create", "AppendBlob_AppendBlock"}, {201})
    @@ Each({"AppendBlob_AppendBlockFromUrl"}, {})
    @@ Each({"AppendBlob_Seal"}, {200})

BlockBlobHandlerStatus ==
    Each({"BlockBlob_Upload", "BlockBlob_StageBlock",
          "BlockBlob_CommitBlockList"}, {201})
    @@ Each({"BlockBlob_PutBlobFromUrl", "BlockBlob_StageBlockFromURL"}, {})
    @@ Each({"BlockBlob_GetBlockList"}, {200})

BlobServiceStatus ==
    ServiceHandlerStatus @@ ContainerHandlerStatus @@ BlobHandlerStatus
    @@ PageBlobHandlerStatus @@ AppendBlobHandlerStatus
    @@ BlockBlobHandlerStatus

(***************************************************************************)
(* OPERATION_ACCOUNT_SAS_PERMISSIONS.                                      *)
(***************************************************************************)
AccountInfoSAS ==
    Each({"Service_GetAccountInfo", "Service_GetAccountInfoWithHead",
          "Container_GetAccountInfo", "Container_GetAccountInfoWithHead",
          "Blob_GetAccountInfo", "Blob_GetAccountInfoWithHead"},
         Needs({"s", "c", "o"}, {"r", "c", "d", "l", "p", "u", "w"}))

ServiceSAS ==
    Each({"Service_ListContainersSegment"}, Needs({"s"}, {"l"}))
    @@ Each({"Service_GetProperties", "Service_GetStatistics"},
            Needs({"s"}, {"r"}))
    @@ Each({"Service_SetProperties"}, Needs({"s"}, {"w"}))
    @@ Each({"Service_SubmitBatch"}, Needs(AnyOf, AnyOf))

ContainerSAS ==
    Each({"Container_Create"}, Needs({"c"}, {"c", "w"}))
    @@ Each({"Container_SetAccessPolicy", "Container_GetAccessPolicy"},
            Needs({"c"}, {}))
    @@ Each({"Container_GetProperties", "Container_GetPropertiesWithHead"},
            Needs({"c"}, {"r"}))
    @@ Each({"Container_SetMetadata", "Container_RenewLease",
             "Container_ChangeLease", "Container_AcquireLease",
             "Container_ReleaseLease"}, Needs({"c"}, {"w"}))
    @@ Each({"Container_BreakLease"}, Needs({"c"}, {"w", "d"}))
    @@ Each({"Container_Delete"}, Needs({"c"}, {"d"}))
    @@ Each({"Container_ListBlobHierarchySegment",
             "Container_ListBlobFlatSegment"}, Needs({"c"}, {"l"}))

BlobAccountSAS ==
    Each({"BlockBlob_Upload", "PageBlob_Create", "AppendBlob_Create",
          "Blob_CreateSnapshot", "Blob_StartCopyFromURL"},
         Needs({"o"}, {"w", "c"}))
    @@ Each({"Blob_Download", "Blob_GetProperties"}, Needs({"o"}, {"r"}))
    @@ Each({"Blob_SetHTTPHeaders", "Blob_SetMetadata", "Blob_RenewLease",
             "Blob_ChangeLease", "Blob_AcquireLease", "Blob_ReleaseLease"},
            Needs({"o"}, {"w"}))
    @@ Each({"Blob_Delete"}, Needs({"o"}, {"d"}))
    @@ Each({"Blob_BreakLease"}, Needs({"o"}, {"d", "w"}))

BlobContentSAS ==
    Each({"Blob_CopyFromURL", "PageBlob_CopyIncremental"},
         Needs({"o"}, {"w", "c"}))
    @@ Each({"Blob_AbortCopyFromURL", "BlockBlob_StageBlock",
             "BlockBlob_CommitBlockList", "PageBlob_UploadPages",
             "PageBlob_ClearPages", "Blob_SetTier",
             "PageBlob_UpdateSequenceNumber"}, Needs({"o"}, {"w"}))
    @@ Each({"BlockBlob_GetBlockList", "PageBlob_GetPageRanges",
             "PageBlob_GetPageRangesDiff"}, Needs({"o"}, {"r"}))
    @@ Each({"AppendBlob_AppendBlock"}, Needs({"o"}, {"a", "w"}))
    @@ Each({"Blob_SetTags", "Blob_GetTags"}, Needs({"o"}, {"t"}))
    @@ Each({"Service_FilterBlobs"}, Needs({"o"}, {"f"}))
    @@ Each({"Container_FilterBlobs"}, Needs({"c"}, {"f"}))

BlobAccountSASPermissions ==
    AccountInfoSAS @@ ServiceSAS @@ ContainerSAS @@ BlobAccountSAS
    @@ BlobContentSAS

(***************************************************************************)
(* OPERATION_BLOB_SAS_BLOB_PERMISSIONS, for a signature of one blob, and   *)
(* OPERATION_BLOB_SAS_CONTAINER_PERMISSIONS, for one of a container: the   *)
(* permissions of which one is needed.                                     *)
(***************************************************************************)
BlobSASOfOthers ==
    Each({"Service_SetProperties", "Service_GetProperties",
          "Service_GetStatistics", "Service_ListContainersSegment",
          "Service_GetAccountInfo", "Service_GetAccountInfoWithHead",
          "Container_Create", "Container_GetProperties",
          "Container_GetPropertiesWithHead", "Container_Delete",
          "Container_SetMetadata", "Container_GetAccessPolicy",
          "Container_SetAccessPolicy", "Container_AcquireLease",
          "Container_ReleaseLease", "Container_RenewLease",
          "Container_BreakLease", "Container_ChangeLease",
          "Container_ListBlobFlatSegment",
          "Container_ListBlobHierarchySegment"}, {})
    @@ Each({"Container_GetAccountInfo", "Container_GetAccountInfoWithHead"},
            {"r"})

BlobSASOfBlobs ==
    Each({"Blob_Download", "Blob_GetProperties", "Blob_GetAccountInfo",
          "Blob_GetAccountInfoWithHead", "PageBlob_GetPageRanges",
          "PageBlob_GetPageRangesDiff", "BlockBlob_GetBlockList"}, {"r"})
    @@ Each({"Blob_Delete"}, {"d"})
    @@ Each({"Blob_Undelete", "Blob_SetHTTPHeaders", "Blob_SetMetadata",
             "Blob_AcquireLease", "Blob_ReleaseLease", "Blob_RenewLease",
             "Blob_ChangeLease", "Blob_AbortCopyFromURL", "Blob_SetTier",
             "PageBlob_UploadPages", "PageBlob_ClearPages", "PageBlob_Resize",
             "PageBlob_UpdateSequenceNumber", "BlockBlob_StageBlock",
             "BlockBlob_StageBlockFromURL", "BlockBlob_CommitBlockList"},
            {"w"})
    @@ Each({"Blob_BreakLease"}, {"d", "w"})
    @@ Each({"Blob_CreateSnapshot", "Blob_StartCopyFromURL",
             "Blob_CopyFromURL", "PageBlob_Create",
             "PageBlob_CopyIncremental", "AppendBlob_Create",
             "BlockBlob_Upload"}, {"w", "c"})
    @@ Each({"AppendBlob_AppendBlock"}, {"a", "w"})
    @@ Each({"Blob_SetTags", "Blob_GetTags"}, {"t"})

BlobSASBlobPermissions == BlobSASOfOthers @@ BlobSASOfBlobs

ContainerSASOfContainers ==
    Each({"Container_SubmitBatch"}, AnyOf)
    @@ Each({"Container_ListBlobFlatSegment",
             "Container_ListBlobHierarchySegment"}, {"l"})
    @@ Each({"Container_FilterBlobs"}, {"f"})
    @@ BlobSASOfOthers

ContainerSASOfBlobs == BlobSASOfBlobs

BlobSASContainerPermissions == ContainerSASOfContainers @@ ContainerSASOfBlobs

\* CONTAINER_PUBLIC_READ_OPERATIONS and BLOB_PUBLIC_READ_OPERATIONS.
BlobPublicReads ==
    {"Blob_Download", "Blob_GetProperties", "PageBlob_GetPageRanges",
     "PageBlob_GetPageRangesDiff", "BlockBlob_GetBlockList"}
ContainerPublicReads ==
    BlobPublicReads \cup
    {"Container_GetProperties", "Container_GetPropertiesWithHead",
     "Container_GetAccessPolicy", "Container_ListBlobFlatSegment",
     "Container_ListBlobHierarchySegment"}
=============================================================================
