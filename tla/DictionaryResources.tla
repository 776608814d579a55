------------------------ MODULE DictionaryResources -------------------------
(***************************************************************************)
(* The request functions of the dictionary objects, packages, message      *)
(* classes and feature toggles, and the methods of their handlers that     *)
(* only ask.                                                               *)
(***************************************************************************)
EXTENDS Resources

-----------------------------------------------------------------------------
(* Domain.  Reading states no version, whatever was asked for. *)

validateDomainName == Unread
createDomain == Unread
lockDomain == NeedsHandle
checkDomainSyntax == NoErrors
updateDomain == Unread
unlockDomain == Unread
activateDomain == activateObjectInSession
checkDeletionDomain == Unread
deleteDomain == Unread
getDomain == Unversioned
getDomainTransport == Unversioned

DomainType ==
  TypeOf([validate |-> validateDomainName, create |-> createDomain,
          lock |-> lockDomain, check |-> checkDomainSyntax,
          write |-> updateDomain, unlock |-> unlockDomain,
          activate |-> activateDomain, verdict |-> checkDeletionDomain,
          delete |-> deleteDomain],
         getDomain, "active", "none")

DomainRead == Reads("Domain", "read", Passed, getDomain)
DomainReadMetadata == ReadsMetadata("Domain", Passed, getDomain)
DomainReadTransport == ReadsTransport("Domain", getDomainTransport)
DomainValidate == Validates("Domain", validateDomainName)
DomainCheck == Checks("Domain", checkDomainSyntax)

-----------------------------------------------------------------------------
(* Data element. *)

validateDataElementName == Unread
createDataElement == Unread
lockDataElement == NeedsHandle
checkDataElement == NoErrorsBut
updateDataElement == Unread
unlockDataElement == Unread
activateDataElement == Heeding(assertActivationSucceeded)
checkDeletionDataElement == Unread
deleteDataElement == Unread
getDataElement == Unversioned
getDataElementTransport == Unversioned

DataElementType ==
  TypeOf([validate |-> validateDataElementName, create |-> createDataElement,
          lock |-> lockDataElement, check |-> checkDataElement,
          write |-> updateDataElement, unlock |-> unlockDataElement,
          activate |-> activateDataElement,
          verdict |-> checkDeletionDataElement, delete |-> deleteDataElement],
         getDataElement, "active", "none")

DataElementRead == Reads("DataElement", "read", Passed, getDataElement)
DataElementReadMetadata == ReadsMetadata("DataElement", Passed, getDataElement)
DataElementReadTransport ==
  ReadsTransport("DataElement", getDataElementTransport)
DataElementValidate == Validates("DataElement", validateDataElementName)
DataElementCheck == Checks("DataElement", checkDataElement)

-----------------------------------------------------------------------------
(* Authorization field. *)

validateAuthorizationFieldName == Unread
createAuthorizationField == Unread
lockAuthorizationField == NeedsHandle
checkAuthorizationField == NoErrors
updateAuthorizationField == Unread
unlockAuthorizationField == Unread
activateAuthorizationField == Heeding(assertActivationSucceeded)
checkDeletionAuthorizationField == Unread
deleteAuthorizationField == Unread
readAuthorizationField == OrActive

AuthorizationFieldType ==
  TypeOf([validate |-> validateAuthorizationFieldName,
          create |-> createAuthorizationField, lock |-> lockAuthorizationField,
          check |-> checkAuthorizationField,
          write |-> updateAuthorizationField,
          unlock |-> unlockAuthorizationField,
          activate |-> activateAuthorizationField,
          verdict |-> checkDeletionAuthorizationField,
          delete |-> deleteAuthorizationField],
         readAuthorizationField, "inactive", "inactive")

AuthorizationFieldRead ==
  Reads("AuthorizationField", "read", OrActive, readAuthorizationField)
AuthorizationFieldReadMetadata ==
  ReadsMetadata("AuthorizationField", OrActive, readAuthorizationField)
AuthorizationFieldValidate ==
  Validates("AuthorizationField", validateAuthorizationFieldName)
AuthorizationFieldCheck ==
  Checks("AuthorizationField", checkAuthorizationField)

-----------------------------------------------------------------------------
(* Table type.  check() does not look at the report; what was written is *)
(* read back, a table type not found being none.                         *)

validateTableTypeName == Unread
createTableType == Unread
acquireTableTypeLockHandle == NeedsHandle
runTableTypeCheckRun == Unread
updateTableType == Unread
unlockTableType == Unread
activateTableType == activateObjectInSession
checkDeletionTableType == Unread
deleteTableType == Unread
getTableTypeMetadata == Unversioned
getTableTypeTransport == Unversioned

TableTypeType ==
  TypeOf([validate |-> validateTableTypeName, create |-> createTableType,
          lock |-> acquireTableTypeLockHandle, check |-> runTableTypeCheckRun,
          write |-> updateTableType, unlock |-> unlockTableType,
          activate |-> activateTableType, verdict |-> checkDeletionTableType,
          delete |-> deleteTableType, read |-> Taking({"gone"})],
         getTableTypeMetadata, "active", "none")

TableTypeRead == Reads("TableType", "read", Passed, getTableTypeMetadata)
TableTypeReadMetadata ==
  ReadsMetadata("TableType", Passed, getTableTypeMetadata)
TableTypeReadTransport == ReadsTransport("TableType", getTableTypeTransport)
TableTypeValidate == Validates("TableType", validateTableTypeName)
TableTypeCheck == Checks("TableType", runTableTypeCheckRun)

-----------------------------------------------------------------------------
(* Package.  check() does not look at the report. *)

validatePackageBasic == Unread
createPackage == Unread
lockPackage == NeedsHandle
checkPackage == Unread
updatePackage == Unread
unlockPackage == Unread
checkPackageDeletion == Unread
deletePackage == Heeding({"flawed"})
getPackage == OrActive
getPackageTransport == Unversioned

PackageType ==
  TypeOf([validate |-> validatePackageBasic, create |-> createPackage,
          lock |-> lockPackage, check |-> checkPackage,
          write |-> updatePackage, unlock |-> unlockPackage,
          verdict |-> checkPackageDeletion, delete |-> deletePackage],
         getPackage, "inactive", "none")

PackageRead == Reads("Package", "read", Passed, getPackage)
PackageReadMetadata == ReadsMetadata("Package", Always("active"), getPackage)
PackageReadTransport == ReadsTransport("Package", getPackageTransport)
PackageValidate == Validates("Package", validatePackageBasic)
PackageCheck == Checks("Package", checkPackage)

-----------------------------------------------------------------------------
(* Message class. *)

createMessageClass == Unread
lockMessageClass == NeedsHandle
updateMessageClass == Unread
unlockMessageClass == Unread
checkDeletionMessageClass == Unread
deleteMessageClass == Unread
getMessageClassSource == Unversioned

MessageClassType ==
  TypeOf([create |-> createMessageClass, lock |-> lockMessageClass,
          write |-> updateMessageClass, unlock |-> unlockMessageClass,
          verdict |-> checkDeletionMessageClass,
          delete |-> deleteMessageClass],
         getMessageClassSource, "none", "none")

MessageClassRead ==
  Reads("MessageClass", "read", Passed, getMessageClassSource)
MessageClassReadMetadata ==
  ReadsMetadata("MessageClass", Passed, getMessageClassSource)
MessageClassValidate == Validates("MessageClass", Unread)

-----------------------------------------------------------------------------
(* Feature toggle. *)

validateFeatureToggleName == Unread
createFeatureToggle == Unread
lockFeatureToggle == NeedsHandle
checkFeatureToggle == NoErrors
updateFeatureToggle == Unread
unlockFeatureToggle == Unread
activateFeatureToggle == Heeding(assertActivationSucceeded)
checkDeletionFeatureToggle == Unread
deleteFeatureToggle == Unread
readFeatureToggle == OrActive

FeatureToggleType ==
  TypeOf([validate |-> validateFeatureToggleName,
          create |-> createFeatureToggle, lock |-> lockFeatureToggle,
          check |-> checkFeatureToggle, write |-> updateFeatureToggle,
          unlock |-> unlockFeatureToggle, activate |-> activateFeatureToggle,
          verdict |-> checkDeletionFeatureToggle,
          delete |-> deleteFeatureToggle],
         readFeatureToggle, "inactive", "none")

FeatureToggleRead ==
  Reads("FeatureToggle", "read", OrActive, readFeatureToggle)
FeatureToggleReadMetadata ==
  ReadsMetadata("FeatureToggle", OrActive, readFeatureToggle)
FeatureToggleValidate == Validates("FeatureToggle", validateFeatureToggleName)
FeatureToggleCheck == Checks("FeatureToggle", checkFeatureToggle)

(* The source of a feature toggle is a document of its own. *)

readFeatureToggleSource == OrActive
uploadFeatureToggleSource == Unread

FeatureToggleReadSource ==
  Querying("FeatureToggle", "readSource", "source",
    readFeatureToggleSource, Unread)

-----------------------------------------------------------------------------
(* Service binding.  create() hands on what the activation and the checks  *)
(* answer, activate() throws on it.                                        *)

getServiceBindingTypes == Heeding({"silent"})
transportCheckServiceBinding == Unread
createServiceBinding == Unread
checkServiceBinding == Unread
activateServiceBinding == Unread
deleteServiceBinding == Unread
readServiceBinding == IfGiven

CreatedServiceBinding ==
  TypeOf([validate |-> getServiceBindingTypes, create |-> createServiceBinding,
          check |-> checkServiceBinding, activate |-> activateServiceBinding],
         readServiceBinding, "none", "inactive")

ServiceBindingType ==
  TypeOf([activate |-> Heeding(assertActivationSucceeded),
          delete |-> deleteServiceBinding],
         readServiceBinding, "active", "none")

ServiceBindingRead ==
  Reads("ServiceBinding", "read", Passed, readServiceBinding)
ServiceBindingReadMetadata ==
  [ReadsMetadata("ServiceBinding", Passed, readServiceBinding)
     EXCEPT !.absent = TRUE]
ServiceBindingReadTransport ==
  Querying("ServiceBinding", "readTransport", "transport", Unversioned,
    transportCheckServiceBinding)
ServiceBindingValidate == Validates("ServiceBinding", getServiceBindingTypes)
ServiceBindingCheck == Checks("ServiceBinding", checkServiceBinding)

-----------------------------------------------------------------------------
(* All of them. *)
DictionaryQueries ==
  {DomainRead, DomainReadMetadata, DomainReadTransport, DomainValidate,
   DomainCheck, DataElementRead, DataElementReadMetadata,
   DataElementReadTransport, DataElementValidate, DataElementCheck,
   AuthorizationFieldRead, AuthorizationFieldReadMetadata,
   AuthorizationFieldValidate, AuthorizationFieldCheck, TableTypeRead,
   TableTypeReadMetadata, TableTypeReadTransport, TableTypeValidate,
   TableTypeCheck, PackageRead, PackageReadMetadata, PackageReadTransport,
   PackageValidate, PackageCheck, MessageClassRead, MessageClassReadMetadata,
   MessageClassValidate, FeatureToggleRead, FeatureToggleReadMetadata,
   FeatureToggleValidate, FeatureToggleCheck, FeatureToggleReadSource,
   ServiceBindingRead, ServiceBindingReadMetadata,
   ServiceBindingReadTransport, ServiceBindingValidate, ServiceBindingCheck}

DictionaryTypes ==
  [Domain |-> DomainType, DataElement |-> DataElementType,
   AuthorizationField |-> AuthorizationFieldType, TableType |-> TableTypeType,
   Package |-> PackageType, MessageClass |-> MessageClassType,
   FeatureToggle |-> FeatureToggleType, ServiceBinding |-> ServiceBindingType]
=============================================================================
