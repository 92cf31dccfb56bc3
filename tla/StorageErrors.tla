---------------------------- MODULE StorageErrors ----------------------------
(* The errors a service refuses requests with, and the status each is      *)
(* answered with: StorageErrorFactory of the three services.               *)
EXTENDS OperationSpecs

BlobRequestErrors ==
       Each({"InvalidQueryParameterValue", "OutOfRangeInput",
               "InvalidOperation"}, 400)
    @@ Each({"ContainerNotFound", "BlobNotFound", "ResourceNotFound"}, 404)
    @@ Each({"BlockCountExceedsLimit", "ContainerAlreadyExists",
               "BlobAlreadyExists"}, 409)
    @@ Each({"RequestEntityTooLarge"}, 413)

BlobBlockErrors ==
       Each({"InvalidBlockList", "InvalidAuthenticationInfo",
               "Md5Mismatch", "InvalidLeaseDuration",
               "InvalidLeaseBreakPeriod", "InvalidId", "InvalidBlobOrBlock"}, 400)
    @@ Each({"LeaseAlreadyPresent", "LeaseIsBreakingAndCannotBeAcquired",
               "LeaseNotPresentWithLeaseOperation"}, 409)
    @@ Each({"InvalidPageRange", "InvalidPageRange2"}, 416)

BlobLeaseErrors ==
       Each({"BlobSnapshotsPresent"}, 400)
    @@ Each({"AuthorizationFailure"}, 403)
    @@ Each({"LeaseIdMismatchWithLeaseOperation",
               "LeaseIsBrokenAndCannotBeRenewed",
               "LeaseIsBreakingAndCannotBeChanged",
               "BlobLeaseIdMismatchWithLeaseOperation",
               "BlobLeaseNotPresentWithLeaseOperation"}, 409)
    @@ Each({"ContainerLeaseIdMissing",
               "ContainerLeaseIdMismatchWithContainerOperation",
               "ContainerLeaseLost", "BlobLeaseIdMissing",
               "BlobLeaseIdMismatchWithBlobOperation", "BlobLeaseLost"}, 412)

BlobTierErrors ==
       Each({"AccessTierNotSupportedForBlobType",
               "MultipleConditionHeadersNotSupported"}, 400)
    @@ Each({"AuthenticationFailed", "AuthorizationSourceIPMismatch",
               "AuthorizationProtocolMismatch",
               "AuthorizationPermissionMismatch",
               "AuthorizationServiceMismatch",
               "AuthorizationResourceTypeMismatch"}, 403)
    @@ Each({"BlobInvalidBlobType", "BlobSnapshotsPresent_hassnapshot",
               "BlobCannotChangeToLowerTier",
               "BlobBlobTierInadequateForContentLength"}, 409)

BlobConditionErrors ==
       Each({"NotModified"}, 304)
    @@ Each({"BothUserTagsAndSourceTagsCopyPresentException",
               "UnsatisfiableCondition", "InvalidHeaderValue",
               "InvalidAPIVersion"}, 400)
    @@ Each({"FeatureVersionMismatch", "CopyIdMismatch",
               "NoPendingCopyOperation", "SnapshotsPresent"}, 409)
    @@ Each({"ConditionNotMet", "MaxBlobSizeConditionNotMet",
               "AppendPositionConditionNotMet",
               "SequenceNumberConditionNotMet"}, 412)

BlobNameErrors ==
       Each({"InvalidCorsHeaderValue", "InvalidResourceName",
               "OutOfRangeName", "InvalidMetadata", "EmptyTagName",
               "DuplicateTagNames", "TagsTooLarge", "InvalidTag",
               "InvalidXmlDocument"}, 400)
    @@ Each({"corsPreflightFailure"}, 403)
    @@ Each({"BlobArchived", "UnexpectedSyncCopyStatus", "BlobSealed"}, 409)

BlobErrors ==
    BlobRequestErrors @@ BlobBlockErrors @@ BlobLeaseErrors
    @@ BlobTierErrors @@ BlobConditionErrors @@ BlobNameErrors

QueueRequestErrors ==
       Each({"InvalidHeaderValue", "InvalidAPIVersion", "InvalidUri",
               "InvalidAuthenticationInfo", "InvalidCorsHeaderValue",
               "InvalidOperation"}, 400)
    @@ Each({"corsPreflightFailure", "AuthenticationFailed",
               "AuthorizationFailure"}, 403)
    @@ Each({"ResourceNotFound"}, 404)
    @@ Each({"notImplement", "InternalError"}, 500)

QueueAccessErrors ==
       Each({"InvalidXmlDocument", "InvalidQueryParameterValue",
               "OutOfRangeQueryParameterValue"}, 400)
    @@ Each({"AuthorizationSourceIPMismatch",
               "AuthorizationProtocolMismatch",
               "AuthorizationPermissionMismatch",
               "AuthorizationServiceMismatch",
               "AuthorizationResourceTypeMismatch"}, 403)

QueueMessageErrors ==
       Each({"MessageTooLarge", "PopReceiptMismatch",
               "InvalidResourceName", "OutOfRangeName"}, 400)
    @@ Each({"MessageNotFound", "QueueNotFound"}, 404)
    @@ Each({"QueueAlreadyExists"}, 409)
    @@ Each({"RequestBodyTooLarge"}, 413)

QueueErrors ==
    QueueRequestErrors @@ QueueAccessErrors @@ QueueMessageErrors

TableRequestErrors ==
       Each({"InvalidHeaderValue", "InvalidAPIVersion", "InvalidInput",
               "TableNameEmpty", "InvalidOperation"}, 400)
    @@ Each({"AuthorizationSourceIPMismatch",
               "AuthorizationProtocolMismatch",
               "AuthorizationPermissionMismatch",
               "AuthorizationServiceMismatch",
               "AuthorizationResourceTypeMismatch"}, 403)
    @@ Each({"TableAlreadyExists"}, 409)

TableEntityErrors ==
       Each({"AccountNameEmpty", "PropertiesNeedValue",
               "QueryConditionInvalid", "InvalidResourceName",
               "OutOfRangeName"}, 400)
    @@ Each({"AuthorizationFailure"}, 403)
    @@ Each({"TableNotExist", "TableNotFound", "ResourceNotFound",
               "EntityNotFound"}, 404)
    @@ Each({"EntityAlreadyExist"}, 409)
    @@ Each({"PreconditionFailed"}, 412)
    @@ Each({"AtomFormatNotSupported"}, 415)

TableValueErrors ==
       Each({"InvalidXmlDocument", "InvalidQueryParameterValue",
               "InvalidCorsHeaderValue", "InvalidAuthenticationInfo",
               "PropertyValueTooLargeError", "EntityTooLarge"}, 400)
    @@ Each({"corsPreflightFailure", "AuthenticationFailed"}, 403)
    @@ Each({"RequestBodyTooLarge"}, 413)
    @@ Each({"NotImplementedError"}, 501)

TableErrors ==
    TableRequestErrors @@ TableEntityErrors @@ TableValueErrors
=============================================================================
