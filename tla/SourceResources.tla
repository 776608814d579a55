-------------------------- MODULE SourceResources ---------------------------
(***************************************************************************)
(* The request functions of the source objects of the dictionary, of       *)
(* access control and of transformations: how each takes the answer to     *)
(* its request and which version it asks for; and the methods of their     *)
(* handlers that only ask.                                                 *)
(***************************************************************************)
EXTENDS Resources

-----------------------------------------------------------------------------
(* DDL source (CDS view). *)

validateDdlName == Unread
createDdl == Unread
lockDDLS == NeedsHandle
checkDdl == OnceMore(NoErrors, {"unprocessed"})
updateDdl == Unread
unlockDDLS == Unread
activateDDLS == activateObjectInSession
checkDeletionDdl == Unread
deleteDdl == Unread
getDdlSource == IfGiven
getDdlMetadata == IfGiven
getDdlTransport == Unversioned

DdlType ==
  TypeOf([validate |-> validateDdlName, create |-> createDdl,
          lock |-> lockDDLS, check |-> checkDdl, write |-> updateDdl,
          unlock |-> unlockDDLS, activate |-> activateDDLS,
          verdict |-> checkDeletionDdl, delete |-> deleteDdl],
         getDdlSource, "inactive", "inactive")

DdlRead == Reads("Ddl", "read", Passed, getDdlSource)
DdlReadMetadata == ReadsMetadata("Ddl", Passed, getDdlMetadata)
DdlReadTransport == ReadsTransport("Ddl", getDdlTransport)
DdlValidate == Validates("Ddl", validateDdlName)
DdlCheck == ChecksGiven("Ddl", "check", checkDdl)

-----------------------------------------------------------------------------
(* Structure. *)

validateStructureName == Unread
createStructure == Unread
lockStructure == NeedsHandle
checkStructure == NoErrorsBut
uploadStructure == Unread
unlockStructure == Unread
activateStructure == activateObjectInSession
checkDeletionStructure == Unread
deleteStructure == Unread
getStructureSource == IfGiven
getStructureMetadata == IfGiven
getStructureTransport == Unversioned

StructureType ==
  TypeOf([validate |-> validateStructureName, create |-> createStructure,
          lock |-> lockStructure, check |-> checkStructure,
          write |-> uploadStructure, unlock |-> unlockStructure,
          activate |-> activateStructure, verdict |-> checkDeletionStructure,
          delete |-> deleteStructure],
         getStructureSource, "inactive", "inactive")

StructureRead == Reads("Structure", "read", Passed, getStructureSource)
StructureReadMetadata ==
  ReadsMetadata("Structure", Passed, getStructureMetadata)
StructureReadTransport == ReadsTransport("Structure", getStructureTransport)
StructureValidate == Validates("Structure", validateStructureName)
StructureCheck == Checks("Structure", checkStructure)

-----------------------------------------------------------------------------
(* Table.  check() runs the check and does not look at its report. *)

validateTableName == Unread
createTable == Unread
acquireTableLockHandle == NeedsHandle
runTableCheckRun == Unread
updateTable == Unread
unlockTable == Unread
activateTable == activateObjectInSession
checkDeletionTable == Unread
deleteTable == Unread
getTableSource == IfGiven
getTableMetadata == IfGiven
getTableTransport == Unversioned

TableType ==
  TypeOf([validate |-> validateTableName, create |-> createTable,
          lock |-> acquireTableLockHandle, check |-> runTableCheckRun,
          write |-> updateTable, unlock |-> unlockTable,
          activate |-> activateTable, verdict |-> checkDeletionTable,
          delete |-> deleteTable],
         getTableSource, "inactive", "none")

TableRead == Reads("Table", "read", Passed, getTableSource)
TableReadMetadata == ReadsMetadata("Table", Passed, getTableMetadata)
TableReadTransport == ReadsTransport("Table", getTableTransport)
TableValidate == Validates("Table", validateTableName)
TableCheck == Checks("Table", runTableCheckRun)

-----------------------------------------------------------------------------
(* Access control. *)

validateAccessControlName == Unread
createAccessControl == Unread
lockAccessControl == NeedsHandle
checkAccessControl == OnceMore(NoErrors, {"unprocessed"})
updateAccessControl == Unread
unlockAccessControl == Unread
activateAccessControl == Heeding(assertActivationSucceeded)
checkDeletionAccessControl == Unread
deleteAccessControl == Unread
getAccessControlSource == OrInactive
getAccessControl == OrInactive
getAccessControlTransport == Unversioned

AccessControlType ==
  TypeOf([validate |-> validateAccessControlName,
          create |-> createAccessControl, lock |-> lockAccessControl,
          check |-> checkAccessControl, write |-> updateAccessControl,
          unlock |-> unlockAccessControl, activate |-> activateAccessControl,
          verdict |-> checkDeletionAccessControl,
          delete |-> deleteAccessControl],
         getAccessControlSource, "inactive", "none")

AccessControlRead ==
  Reads("AccessControl", "read", Passed, getAccessControlSource)
AccessControlReadMetadata ==
  ReadsMetadata("AccessControl", Always("inactive"), getAccessControl)
AccessControlReadTransport ==
  ReadsTransport("AccessControl", getAccessControlTransport)
AccessControlValidate == Validates("AccessControl", validateAccessControlName)
AccessControlCheck == Checks("AccessControl", checkAccessControl)

-----------------------------------------------------------------------------
(* Transformation. *)

validateTransformationName == Unread
createTransformation == Unread
lockTransformation == NeedsHandle
checkTransformation == NoErrors
updateTransformation == Unread
unlockTransformation == Unread
activateTransformation == Heeding(assertActivationSucceeded)
checkDeletionTransformation == Unread
deleteTransformation == Unread
getTransformationSource == OrInactive
getTransformation == OrInactive
getTransformationTransport == Unversioned

TransformationType ==
  TypeOf([validate |-> validateTransformationName,
          create |-> createTransformation, lock |-> lockTransformation,
          check |-> checkTransformation, write |-> updateTransformation,
          unlock |-> unlockTransformation, activate |-> activateTransformation,
          verdict |-> checkDeletionTransformation,
          delete |-> deleteTransformation],
         getTransformationSource, "inactive", "none")

TransformationRead ==
  Reads("Transformation", "read", Passed, getTransformationSource)
TransformationReadMetadata ==
  ReadsMetadata("Transformation", Always("inactive"), getTransformation)
TransformationReadTransport ==
  ReadsTransport("Transformation", getTransformationTransport)
TransformationValidate ==
  ValidatesIfSupported("Transformation", {"gone"}, validateTransformationName)
TransformationCheck == Checks("Transformation", checkTransformation)

-----------------------------------------------------------------------------
(* All of them. *)
SourceQueries ==
  {DdlRead, DdlReadMetadata, DdlReadTransport, DdlValidate, DdlCheck,
   StructureRead, StructureReadMetadata, StructureReadTransport,
   StructureValidate, StructureCheck, TableRead, TableReadMetadata,
   TableReadTransport, TableValidate, TableCheck, AccessControlRead,
   AccessControlReadMetadata, AccessControlReadTransport,
   AccessControlValidate, AccessControlCheck, TransformationRead,
   TransformationReadMetadata, TransformationReadTransport,
   TransformationValidate, TransformationCheck}

SourceTypes ==
  [Ddl |-> DdlType, Structure |-> StructureType, Table |-> TableType,
   AccessControl |-> AccessControlType, Transformation |-> TransformationType]
=============================================================================
