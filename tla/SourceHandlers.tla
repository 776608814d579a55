--------------------------- MODULE SourceHandlers ---------------------------
(***************************************************************************)
(* The handlers of objects that are maintained as source text (DDL         *)
(* sources, structures, tables, access controls, behavior definitions,     *)
(* ...): each of their methods as a chain.  A handler is named after its   *)
(* Adt* class; a method is named after the handler and the method, "Write" *)
(* being update() with options.lockHandle.                                 *)
(***************************************************************************)
EXTENDS Chains

-----------------------------------------------------------------------------
(* Ddl *)

DdlCreate == Create("Ddl")
DdlUpdate == SourceUpdate("Ddl")
DdlWrite == SourceWrite("Ddl")
DdlDelete == CheckedDelete("Ddl")
DdlActivate == ActivateChain("Ddl")
DdlLock == LockChain("Ddl")
DdlUnlock == UnlockChain("Ddl")
DdlLegacyDelete == LegacyDelete("Ddl")

-----------------------------------------------------------------------------
(* Structure: the catch of create() leaves the session type alone. *)

StructureCreate == [Create("Structure") EXCEPT !.catch = "keep"]
StructureUpdate == SourceUpdate("Structure")
StructureWrite == SourceWrite("Structure")
StructureDelete == CheckedDelete("Structure")
StructureActivate == ActivateChain("Structure")
StructureLock == LockChain("Structure")
StructureUnlock == UnlockChain("Structure")

-----------------------------------------------------------------------------
(* Table *)

TableCreate == Create("Table")
TableUpdate == SourceUpdate("Table")
TableWrite == SourceWrite("Table")
TableDelete == CheckedDelete("Table")
TableActivate == ActivateChain("Table")
TableLock == LockChain("Table")
TableUnlock == UnlockChain("Table")

-----------------------------------------------------------------------------
(* AccessControl *)

AccessControlCreate == PlainCreate("AccessControl")
AccessControlUpdate == SourceUpdate("AccessControl")
AccessControlWrite == SourceWrite("AccessControl")
AccessControlDelete == CheckedDelete("AccessControl")
AccessControlActivate == ActivateChain("AccessControl")
AccessControlLock == LockChain("AccessControl")
AccessControlUnlock == UnlockChain("AccessControl")

-----------------------------------------------------------------------------
(* Transformation *)

TransformationCreate == PlainCreate("Transformation")
TransformationUpdate == SourceUpdate("Transformation")
TransformationWrite == SourceWrite("Transformation")
TransformationDelete == CheckedDelete("Transformation")
TransformationActivate == ActivateChain("Transformation")
TransformationLock == LockChain("Transformation")
TransformationUnlock == UnlockChain("Transformation")

-----------------------------------------------------------------------------
(* BehaviorDefinition *)

BehaviorDefinitionCreate == Create("BehaviorDefinition")
BehaviorDefinitionUpdate == SourceUpdate("BehaviorDefinition")
BehaviorDefinitionWrite == SourceWrite("BehaviorDefinition")
BehaviorDefinitionDelete == CheckedDelete("BehaviorDefinition")
BehaviorDefinitionActivate == ActivateChain("BehaviorDefinition")
BehaviorDefinitionLock == LockChain("BehaviorDefinition")
BehaviorDefinitionUnlock == UnlockChain("BehaviorDefinition")

-----------------------------------------------------------------------------
(* Enhancement *)

EnhancementCreate == Create("Enhancement")
EnhancementUpdate == SourceUpdate("Enhancement")
EnhancementWrite == SourceWrite("Enhancement")
EnhancementDelete == CheckedDelete("Enhancement")
EnhancementActivate == ActivateChain("Enhancement")
EnhancementLock == LockChain("Enhancement")
EnhancementUnlock == UnlockChain("Enhancement")

-----------------------------------------------------------------------------
(* ServiceDefinition *)

ServiceDefinitionCreate == PlainCreate("ServiceDefinition")
ServiceDefinitionUpdate == SourceUpdate("ServiceDefinition")
ServiceDefinitionWrite == SourceWrite("ServiceDefinition")
ServiceDefinitionDelete == CheckedDelete("ServiceDefinition")
ServiceDefinitionActivate == ActivateChain("ServiceDefinition")
ServiceDefinitionLock == LockChain("ServiceDefinition")
ServiceDefinitionUnlock == UnlockChain("ServiceDefinition")

-----------------------------------------------------------------------------
(* MetadataExtension: deleted by a DELETE on the object itself, without    *)
(* asking first; HTTP reports a refusal.                                   *)

MetadataExtensionCreate == PlainCreate("MetadataExtension")
MetadataExtensionUpdate ==
  [SourceUpdate("MetadataExtension")
     EXCEPT !.rescue = <<Unlock, When("cleanup", Plain("deleteProven"))>>]
MetadataExtensionWrite == SourceWrite("MetadataExtension")
MetadataExtensionDelete ==
  Simple(<<"MetadataExtension", "delete">>, "delete", <<Plain("deleteProven")>>)
MetadataExtensionActivate == ActivateChain("MetadataExtension")
MetadataExtensionLock == LockChain("MetadataExtension")
MetadataExtensionUnlock == UnlockChain("MetadataExtension")

-----------------------------------------------------------------------------
(* The three handlers written in the later, shorter style: the session     *)
(* goes back to stateless in a finally around the UNLOCK.                  *)

BracketedUnlock == FinallyStateless(Stateful(When("held", Plain("unlock"))))

AppendStructureCreate == PlainCreate("AppendStructure")
AppendStructureUpdate ==
  UpdateChain("AppendStructure",
    <<Lock, When("body", Plain("write")), When("body", Soft("poll")),
      BracketedUnlock>> \o ActivateAndPoll \o ReadBack,
    <<BracketedUnlock, DeleteOnFailure>>)
AppendStructureWrite == SourceWrite("AppendStructure")
AppendStructureDelete == CheckedDelete("AppendStructure")
AppendStructureActivate == ActivateChain("AppendStructure")
AppendStructureLock == LockChain("AppendStructure")
AppendStructureUnlock ==
  UnlockWith("AppendStructure", FinallyStateless(Stateful(Plain("unlock"))))

ScalarFunctionCreate == PlainCreate("ScalarFunction")
ScalarFunctionUpdate ==
  UpdateChain("ScalarFunction",
    <<Lock, When("body", Plain("check")), When("body", Plain("write")),
      When("body", Soft("poll")), BracketedUnlock>>
      \o CheckAndActivate \o ReadBack,
    <<BracketedUnlock, DeleteOnFailure>>)
ScalarFunctionWrite == SourceWrite("ScalarFunction")
ScalarFunctionDelete == CheckedDelete("ScalarFunction")
ScalarFunctionActivate == ActivateChain("ScalarFunction")
ScalarFunctionLock == LockChain("ScalarFunction")
ScalarFunctionUnlock ==
  UnlockWith("ScalarFunction", FinallyStateless(Stateful(Plain("unlock"))))

(* ScalarFunctionImplementation: update() and updateMetadata() only lock,  *)
(* write and unlock; the outer finally resets the session.                 *)
LockWriteUnlock(type, method) ==
  [UpdateChain(type, <<Lock, Plain("write"), When("held", Plain("unlock"))>>,
               <<When("held", Plain("unlock"))>>)
     EXCEPT !.name = <<type, method>>, !.catchUnlocked = "keep",
            !.exit = "stateless"]

ScalarFunctionImplementationCreate ==
  PlainCreate("ScalarFunctionImplementation")
ScalarFunctionImplementationUpdate ==
  LockWriteUnlock("ScalarFunctionImplementation", "update")
ScalarFunctionImplementationUpdateMetadata ==
  LockWriteUnlock("ScalarFunctionImplementation", "updateMetadata")
ScalarFunctionImplementationWrite == SourceWrite("ScalarFunctionImplementation")
ScalarFunctionImplementationWriteMetadata ==
  [SourceWrite("ScalarFunctionImplementation")
     EXCEPT !.name[2] = "writeMetadata"]
ScalarFunctionImplementationDelete ==
  CheckedDelete("ScalarFunctionImplementation")
ScalarFunctionImplementationActivate ==
  ActivateChain("ScalarFunctionImplementation")
ScalarFunctionImplementationLock == LockChain("ScalarFunctionImplementation")
ScalarFunctionImplementationUnlock ==
  UnlockWith("ScalarFunctionImplementation",
             FinallyStateless(Stateful(Plain("unlock"))))
-----------------------------------------------------------------------------
(* All of them. *)
SourceChains ==
  {DdlCreate, DdlUpdate, DdlWrite, DdlDelete, DdlActivate, DdlLock,
    DdlUnlock, DdlLegacyDelete, StructureCreate, StructureUpdate,
    StructureWrite, StructureDelete, StructureActivate, StructureLock,
    StructureUnlock, TableCreate, TableUpdate, TableWrite, TableDelete,
    TableActivate, TableLock, TableUnlock, AccessControlCreate,
    AccessControlUpdate, AccessControlWrite, AccessControlDelete,
    AccessControlActivate, AccessControlLock, AccessControlUnlock,
    TransformationCreate, TransformationUpdate, TransformationWrite,
    TransformationDelete, TransformationActivate, TransformationLock,
    TransformationUnlock, BehaviorDefinitionCreate,
    BehaviorDefinitionUpdate, BehaviorDefinitionWrite,
    BehaviorDefinitionDelete, BehaviorDefinitionActivate,
    BehaviorDefinitionLock, BehaviorDefinitionUnlock, EnhancementCreate,
    EnhancementUpdate, EnhancementWrite, EnhancementDelete,
    EnhancementActivate, EnhancementLock, EnhancementUnlock,
    ServiceDefinitionCreate, ServiceDefinitionUpdate,
    ServiceDefinitionWrite, ServiceDefinitionDelete,
    ServiceDefinitionActivate, ServiceDefinitionLock,
    ServiceDefinitionUnlock, MetadataExtensionCreate,
    MetadataExtensionUpdate, MetadataExtensionWrite,
    MetadataExtensionDelete, MetadataExtensionActivate,
    MetadataExtensionLock, MetadataExtensionUnlock, AppendStructureCreate,
    AppendStructureUpdate, AppendStructureWrite, AppendStructureDelete,
    AppendStructureActivate, AppendStructureLock, AppendStructureUnlock,
    ScalarFunctionCreate, ScalarFunctionUpdate, ScalarFunctionWrite,
    ScalarFunctionDelete, ScalarFunctionActivate, ScalarFunctionLock,
    ScalarFunctionUnlock, ScalarFunctionImplementationCreate,
    ScalarFunctionImplementationUpdate,
    ScalarFunctionImplementationUpdateMetadata,
    ScalarFunctionImplementationWrite,
    ScalarFunctionImplementationWriteMetadata,
    ScalarFunctionImplementationDelete,
    ScalarFunctionImplementationActivate, ScalarFunctionImplementationLock,
    ScalarFunctionImplementationUnlock}
=============================================================================
