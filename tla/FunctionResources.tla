------------------------- MODULE FunctionResources --------------------------
(***************************************************************************)
(* The request functions of function groups, includes and modules, and the *)
(* methods of their handlers that only ask.                                *)
(***************************************************************************)
EXTENDS Resources

-----------------------------------------------------------------------------
(* Function group.  The Kerberos error of create() is taken for success. *)

validateFunctionGroupName == Unread
createFunctionGroup == Taking({"kerberos"})
lockFunctionGroup == NeedsHandle
checkFunctionGroup == NoErrorsBut
updateFunctionGroup == Unread
activateFunctionGroup == Heeding(assertActivationSucceeded)
checkDeletionFunctionGroup == Unread
deleteFunctionGroup == Unread
unlockFunctionGroup == Unread
getFunctionGroup == Unversioned
getFunctionGroupTransport == Unversioned

FunctionGroupType ==
  TypeOf([validate |-> validateFunctionGroupName,
          create |-> createFunctionGroup, lock |-> lockFunctionGroup,
          check |-> checkFunctionGroup, write |-> updateFunctionGroup,
          activate |-> activateFunctionGroup,
          verdict |-> checkDeletionFunctionGroup,
          delete |-> deleteFunctionGroup, unlock |-> unlockFunctionGroup],
         getFunctionGroup, "active", "none")

FunctionGroupRead == Reads("FunctionGroup", "read", Passed, getFunctionGroup)
FunctionGroupReadMetadata ==
  ReadsMetadata("FunctionGroup", Passed, getFunctionGroup)
FunctionGroupReadTransport ==
  ReadsTransport("FunctionGroup", getFunctionGroupTransport)
FunctionGroupValidate == Validates("FunctionGroup", validateFunctionGroupName)
FunctionGroupCheck == Checks("FunctionGroup", checkFunctionGroup)

-----------------------------------------------------------------------------
(* Function include. *)

validateFunctionIncludeName == Unread
createFunctionInclude == Unread
lockFunctionInclude == NeedsHandle
checkFunctionInclude == NoErrors
updateFunctionInclude == Unread
unlockFunctionInclude == Unread
activateFunctionInclude == activateObjectInSession
checkDeletionFunctionInclude == Unread
deleteFunctionInclude == Heeding({"flawed"})
readFunctionIncludeSource == OrActive
readFunctionInclude == OrActive

FunctionIncludeType ==
  TypeOf([validate |-> validateFunctionIncludeName,
          create |-> createFunctionInclude, lock |-> lockFunctionInclude,
          check |-> checkFunctionInclude, write |-> updateFunctionInclude,
          unlock |-> unlockFunctionInclude,
          activate |-> activateFunctionInclude,
          verdict |-> checkDeletionFunctionInclude,
          delete |-> deleteFunctionInclude],
         readFunctionIncludeSource, "inactive", "inactive")

FunctionIncludeRead ==
  Reads("FunctionInclude", "read", OrActive, readFunctionIncludeSource)
FunctionIncludeReadMetadata ==
  ReadsMetadata("FunctionInclude", OrActive, readFunctionInclude)
FunctionIncludeValidate ==
  Validates("FunctionInclude", validateFunctionIncludeName)
FunctionIncludeCheck ==
  ChecksGiven("FunctionInclude", "check", checkFunctionInclude)

-----------------------------------------------------------------------------
(* Function module.  Warnings of the check fail it. *)

validateFunctionModuleName == Unread
createFunctionModule == Unread
lockFunctionModule == NeedsHandle
checkFunctionModule == NoWarnings
updateFunctionModule == Unread
unlockFunctionModule == Unread
activateFunctionModule == activateObjectInSession
checkDeletionFunctionModule == Unread
deleteFunctionModule == Unread
getFunctionSource == IfGiven
getFunctionMetadata == IfGiven
getFunctionModuleTransport == Unversioned

FunctionModuleType ==
  TypeOf([validate |-> validateFunctionModuleName,
          create |-> createFunctionModule, lock |-> lockFunctionModule,
          check |-> checkFunctionModule, write |-> updateFunctionModule,
          unlock |-> unlockFunctionModule, activate |-> activateFunctionModule,
          verdict |-> checkDeletionFunctionModule,
          delete |-> deleteFunctionModule],
         getFunctionSource, "inactive", "none")

FunctionModuleRead ==
  Reads("FunctionModule", "read", Passed, getFunctionSource)
FunctionModuleReadMetadata ==
  ReadsMetadata("FunctionModule", Passed, getFunctionMetadata)
FunctionModuleReadTransport ==
  ReadsTransport("FunctionModule", getFunctionModuleTransport)
FunctionModuleValidate ==
  Validates("FunctionModule", validateFunctionModuleName)
FunctionModuleCheck == Checks("FunctionModule", checkFunctionModule)

(* The source of a function include is written by a function of its own. *)

uploadFunctionIncludeSource == Unread

(* create() without activation reads back what it has created; not found,   *)
(* it waits and asks once more, and then goes on whatever the answer.       *)
CreatedFunctionGroup ==
  [FunctionGroupType EXCEPT
     !.requests["read"] = [Unread EXCEPT !.again = {"gone"},
                                         !.throws = @ \ {"gone"}]]

-----------------------------------------------------------------------------
(* All of them. *)
FunctionQueries ==
  {FunctionGroupRead, FunctionGroupReadMetadata, FunctionGroupReadTransport,
   FunctionGroupValidate, FunctionGroupCheck, FunctionIncludeRead,
   FunctionIncludeReadMetadata, FunctionIncludeValidate, FunctionIncludeCheck,
   FunctionModuleRead, FunctionModuleReadMetadata, FunctionModuleReadTransport,
   FunctionModuleValidate, FunctionModuleCheck}

FunctionTypes ==
  [FunctionGroup |-> FunctionGroupType,
   FunctionInclude |-> FunctionIncludeType,
   FunctionModule |-> FunctionModuleType]
=============================================================================
