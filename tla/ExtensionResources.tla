------------------------- MODULE ExtensionResources -------------------------
(***************************************************************************)
(* The request functions of behavior and service definitions,              *)
(* enhancements, metadata extensions, append structures, scalar functions  *)
(* and their implementations, and the methods of their handlers that only  *)
(* ask.                                                                    *)
(***************************************************************************)
EXTENDS Resources

-----------------------------------------------------------------------------
(* Behavior definition.  check() does not look at the report. *)

validate == Unread
createBehaviorDefinition == Unread
lock == NeedsHandle
check == Unread
updateBehaviorDefinition == Unread
unlock == Unread
activate == activateObjectInSession
checkDeletionBehaviorDefinition == Unread
deleteBehaviorDefinition == Unread
readSource == OrInactive
readBehaviorDefinition == OrInactive
getBehaviorDefinitionTransport == Unversioned

BehaviorDefinitionType ==
  TypeOf([validate |-> validate, create |-> createBehaviorDefinition,
          lock |-> lock, check |-> check, write |-> updateBehaviorDefinition,
          unlock |-> unlock, activate |-> activate,
          verdict |-> checkDeletionBehaviorDefinition,
          delete |-> deleteBehaviorDefinition],
         readSource, "inactive", "inactive")

BehaviorDefinitionRead ==
  Reads("BehaviorDefinition", "read", Passed, readSource)
BehaviorDefinitionReadMetadata ==
  ReadsMetadata("BehaviorDefinition", Always("inactive"),
    readBehaviorDefinition)
BehaviorDefinitionReadTransport ==
  ReadsTransport("BehaviorDefinition", getBehaviorDefinitionTransport)
BehaviorDefinitionValidate == Validates("BehaviorDefinition", validate)
BehaviorDefinitionCheck == Checks("BehaviorDefinition", check)

-----------------------------------------------------------------------------
(* Enhancement.  check() does not look at the report. *)

validateEnhancementName == Unread
createEnhancement == Unread
lockEnhancement == NeedsHandle
checkEnhancement == Unread
updateEnhancement == Unread
unlockEnhancement == Unread
activateEnhancement == activateObjectInSession
checkDeletionEnhancement == Unread
deleteEnhancement == Unread
getEnhancementSource == OrActive
getEnhancementMetadata == Unversioned
getEnhancementTransport == Unversioned

EnhancementType ==
  TypeOf([validate |-> validateEnhancementName, create |-> createEnhancement,
          lock |-> lockEnhancement, check |-> checkEnhancement,
          write |-> updateEnhancement, unlock |-> unlockEnhancement,
          activate |-> activateEnhancement,
          verdict |-> checkDeletionEnhancement, delete |-> deleteEnhancement],
         getEnhancementSource, "inactive", "inactive")

EnhancementRead == Reads("Enhancement", "read", Passed, getEnhancementSource)
EnhancementReadMetadata ==
  ReadsMetadata("Enhancement", Passed, getEnhancementMetadata)
EnhancementReadTransport ==
  ReadsTransport("Enhancement", getEnhancementTransport)
EnhancementValidate == Validates("Enhancement", validateEnhancementName)
EnhancementCheck == Checks("Enhancement", checkEnhancement)

-----------------------------------------------------------------------------
(* Service definition. *)

validateServiceDefinitionName == Unread
createServiceDefinition == Unread
lockServiceDefinition == NeedsHandle
checkServiceDefinition == NoErrors
updateServiceDefinition == Unread
unlockServiceDefinition == Unread
activateServiceDefinition == Heeding(assertActivationSucceeded)
checkDeletionServiceDefinition == Unread
deleteServiceDefinition == Unread
getServiceDefinitionSource == OrInactive
getServiceDefinition == OrInactive
getServiceDefinitionTransport == Unversioned

ServiceDefinitionType ==
  TypeOf([validate |-> validateServiceDefinitionName,
          create |-> createServiceDefinition, lock |-> lockServiceDefinition,
          check |-> checkServiceDefinition, write |-> updateServiceDefinition,
          unlock |-> unlockServiceDefinition,
          activate |-> activateServiceDefinition,
          verdict |-> checkDeletionServiceDefinition,
          delete |-> deleteServiceDefinition],
         getServiceDefinitionSource, "inactive", "none")

ServiceDefinitionRead ==
  Reads("ServiceDefinition", "read", Passed, getServiceDefinitionSource)
ServiceDefinitionReadMetadata ==
  ReadsMetadata("ServiceDefinition", Always("inactive"), getServiceDefinition)
ServiceDefinitionReadTransport ==
  ReadsTransport("ServiceDefinition", getServiceDefinitionTransport)
ServiceDefinitionValidate ==
  Validates("ServiceDefinition", validateServiceDefinitionName)
ServiceDefinitionCheck == Checks("ServiceDefinition", checkServiceDefinition)

-----------------------------------------------------------------------------
(* Metadata extension.  The validation takes 400 for an answer; check() *)
(* does not look at the report.                                         *)

validateMetadataExtension == Taking({"bad", "kerberos"})
createMetadataExtension == Unread
lockMetadataExtension == NeedsHandle
checkMetadataExtension == Unread
updateMetadataExtension == Unread
unlockMetadataExtension == Unread
deleteMetadataExtension == Unread
activateMetadataExtension == activateObjectInSession
readMetadataExtensionSource == OnlyInactive
readMetadataExtension == Unversioned
getMetadataExtensionTransport == Unversioned

MetadataExtensionType ==
  TypeOf([validate |-> validateMetadataExtension,
          create |-> createMetadataExtension, lock |-> lockMetadataExtension,
          check |-> checkMetadataExtension, write |-> updateMetadataExtension,
          unlock |-> unlockMetadataExtension,
          delete |-> deleteMetadataExtension,
          activate |-> activateMetadataExtension],
         readMetadataExtensionSource, "active", "none")

MetadataExtensionRead ==
  Reads("MetadataExtension", "read", Passed, readMetadataExtensionSource)
MetadataExtensionReadMetadata ==
  ReadsMetadata("MetadataExtension", Passed, readMetadataExtension)
MetadataExtensionReadTransport ==
  ReadsTransport("MetadataExtension", getMetadataExtensionTransport)
MetadataExtensionValidate ==
  Validates("MetadataExtension", validateMetadataExtension)
MetadataExtensionCheck == Checks("MetadataExtension", checkMetadataExtension)

-----------------------------------------------------------------------------
(* Append structure.  update() polls for the active version of what it *)
(* has written inactive.                                               *)

validateAppendStructureName == Unread
createAppendStructure == Unread
lockAppendStructure == NeedsHandle
checkAppendStructure == NoErrors
updateAppendStructure == Unread
unlockAppendStructure == Unread
activateAppendStructure == Heeding(assertActivationSucceeded)
checkDeletionAppendStructure == Unread
deleteAppendStructure == Unread
getAppendStructureSource == OrInactive
getAppendStructure == OrInactive
getAppendStructureTransport == Unversioned

AppendStructureType ==
  TypeOf([validate |-> validateAppendStructureName,
          create |-> createAppendStructure, lock |-> lockAppendStructure,
          check |-> checkAppendStructure, write |-> updateAppendStructure,
          unlock |-> unlockAppendStructure,
          activate |-> activateAppendStructure,
          verdict |-> checkDeletionAppendStructure,
          delete |-> deleteAppendStructure],
         getAppendStructureSource, "active", "none")

AppendStructureRead ==
  Reads("AppendStructure", "read", Passed, getAppendStructureSource)
AppendStructureReadMetadata ==
  ReadsMetadata("AppendStructure", Always("inactive"), getAppendStructure)
AppendStructureReadTransport ==
  ReadsTransport("AppendStructure", getAppendStructureTransport)
AppendStructureValidate ==
  ValidatesIfSupported("AppendStructure", {"gone", "unsupported"},
    validateAppendStructureName)
AppendStructureCheck == Checks("AppendStructure", checkAppendStructure)

-----------------------------------------------------------------------------
(* Scalar function.  update() polls for the active version of what it has *)
(* written inactive.                                                      *)

validateScalarFunctionName == Unread
createScalarFunction == Unread
lockScalarFunction == NeedsHandle
checkScalarFunction == NoErrors
updateScalarFunction == Unread
unlockScalarFunction == Unread
activateScalarFunction == Heeding(assertActivationSucceeded)
checkDeletionScalarFunction == Unread
deleteScalarFunction == Unread
getScalarFunctionSource == OrInactive
getScalarFunction == OrInactive
getScalarFunctionTransport == Unversioned

ScalarFunctionType ==
  TypeOf([validate |-> validateScalarFunctionName,
          create |-> createScalarFunction, lock |-> lockScalarFunction,
          check |-> checkScalarFunction, write |-> updateScalarFunction,
          unlock |-> unlockScalarFunction, activate |-> activateScalarFunction,
          verdict |-> checkDeletionScalarFunction,
          delete |-> deleteScalarFunction],
         getScalarFunctionSource, "active", "none")

ScalarFunctionRead ==
  Reads("ScalarFunction", "read", Passed, getScalarFunctionSource)
ScalarFunctionReadMetadata ==
  ReadsMetadata("ScalarFunction", Always("inactive"), getScalarFunction)
ScalarFunctionReadTransport ==
  ReadsTransport("ScalarFunction", getScalarFunctionTransport)
ScalarFunctionValidate ==
  ValidatesIfSupported("ScalarFunction", {"gone", "unsupported"},
    validateScalarFunctionName)
ScalarFunctionCheck == Checks("ScalarFunction", checkScalarFunction)

-----------------------------------------------------------------------------
(* Scalar function implementation. *)

validateScalarFunctionImplementationName == Unread
createScalarFunctionImplementation == Unread
lockScalarFunctionImplementation == NeedsHandle
checkScalarFunctionImplementation == NoErrors
updateScalarFunctionImplementation == Unread
unlockScalarFunctionImplementation == Unread
activateScalarFunctionImplementation == Heeding(assertActivationSucceeded)
checkDeletionScalarFunctionImplementation == Unread
deleteScalarFunctionImplementation == Unread
getScalarFunctionImplementationSource == OrInactive
getScalarFunctionImplementation == OrInactive
getScalarFunctionImplementationTransport == Unversioned

ScalarFunctionImplementationType ==
  TypeOf([validate |-> validateScalarFunctionImplementationName,
          create |-> createScalarFunctionImplementation,
          lock |-> lockScalarFunctionImplementation,
          check |-> checkScalarFunctionImplementation,
          write |-> updateScalarFunctionImplementation,
          unlock |-> unlockScalarFunctionImplementation,
          activate |-> activateScalarFunctionImplementation,
          verdict |-> checkDeletionScalarFunctionImplementation,
          delete |-> deleteScalarFunctionImplementation],
         getScalarFunctionImplementationSource, "none", "none")

ScalarFunctionImplementationRead ==
  Reads("ScalarFunctionImplementation", "read", Passed,
    getScalarFunctionImplementationSource)
ScalarFunctionImplementationReadMetadata ==
  ReadsMetadata("ScalarFunctionImplementation", Always("inactive"),
    getScalarFunctionImplementation)
ScalarFunctionImplementationReadTransport ==
  ReadsTransport("ScalarFunctionImplementation",
    getScalarFunctionImplementationTransport)
ScalarFunctionImplementationValidate ==
  ValidatesIfSupported("ScalarFunctionImplementation", {"gone",
    "unsupported"}, validateScalarFunctionImplementationName)
ScalarFunctionImplementationCheck ==
  Checks("ScalarFunctionImplementation", checkScalarFunctionImplementation)

-----------------------------------------------------------------------------
(* All of them. *)
ExtensionQueries ==
  {BehaviorDefinitionRead, BehaviorDefinitionReadMetadata,
   BehaviorDefinitionReadTransport, BehaviorDefinitionValidate,
   BehaviorDefinitionCheck, EnhancementRead, EnhancementReadMetadata,
   EnhancementReadTransport, EnhancementValidate, EnhancementCheck,
   ServiceDefinitionRead, ServiceDefinitionReadMetadata,
   ServiceDefinitionReadTransport, ServiceDefinitionValidate,
   ServiceDefinitionCheck, MetadataExtensionRead,
   MetadataExtensionReadMetadata, MetadataExtensionReadTransport,
   MetadataExtensionValidate, MetadataExtensionCheck, AppendStructureRead,
   AppendStructureReadMetadata, AppendStructureReadTransport,
   AppendStructureValidate, AppendStructureCheck, ScalarFunctionRead,
   ScalarFunctionReadMetadata, ScalarFunctionReadTransport,
   ScalarFunctionValidate, ScalarFunctionCheck,
   ScalarFunctionImplementationRead,
   ScalarFunctionImplementationReadMetadata,
   ScalarFunctionImplementationReadTransport,
   ScalarFunctionImplementationValidate, ScalarFunctionImplementationCheck}

ExtensionTypes ==
  [BehaviorDefinition |-> BehaviorDefinitionType,
   Enhancement |-> EnhancementType,
   ServiceDefinition |-> ServiceDefinitionType,
   MetadataExtension |-> MetadataExtensionType,
   AppendStructure |-> AppendStructureType,
   ScalarFunction |-> ScalarFunctionType,
   ScalarFunctionImplementation |-> ScalarFunctionImplementationType]
=============================================================================
