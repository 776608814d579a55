--------------------------- MODULE ClassResources ---------------------------
(***************************************************************************)
(* The request functions of classes and their local includes, interfaces,  *)
(* programs and behavior implementations, and the methods of their         *)
(* handlers that only ask.                                                 *)
(***************************************************************************)
EXTENDS Resources

-----------------------------------------------------------------------------
(* Class. *)

validateClassName == Unread
createClass == Unread
lockClass == NeedsHandle
checkClass == NoErrors
updateClass == Unread
unlockClass == Unread
activateClass == activateObjectInSession
checkDeletionClass == Unread
deleteClass == Unread
getClassSource == IfGiven

ClassType ==
  TypeOf([validate |-> validateClassName, create |-> createClass,
          lock |-> lockClass, check |-> checkClass, write |-> updateClass,
          unlock |-> unlockClass, activate |-> activateClass,
          verdict |-> checkDeletionClass, delete |-> deleteClass],
         getClassSource, "inactive", "none")

ClassRead == Reads("Class", "read", Passed, getClassSource)
ClassValidate == Validates("Class", validateClassName)
ClassCheck == ChecksGiven("Class", "check", checkClass)

-----------------------------------------------------------------------------
(* Interface. *)

validateInterfaceName == Unread
createInterface == Unread
lockInterface == NeedsHandle
checkInterface == NoErrors
uploadInterface == Unread
unlockInterface == Unread
activateInterface == activateObjectInSession
checkDeletionInterface == Unread
deleteInterface == Unread
getInterfaceSource == IfGiven
getInterfaceMetadata == IfGiven
getInterfaceTransport == Unversioned

InterfaceType ==
  TypeOf([validate |-> validateInterfaceName, create |-> createInterface,
          lock |-> lockInterface, check |-> checkInterface,
          write |-> uploadInterface, unlock |-> unlockInterface,
          activate |-> activateInterface, verdict |-> checkDeletionInterface,
          delete |-> deleteInterface],
         getInterfaceSource, "inactive", "inactive")

InterfaceRead == Reads("Interface", "read", Passed, getInterfaceSource)
InterfaceReadMetadata ==
  ReadsMetadata("Interface", Passed, getInterfaceMetadata)
InterfaceReadTransport == ReadsTransport("Interface", getInterfaceTransport)
InterfaceValidate == Validates("Interface", validateInterfaceName)
InterfaceCheck == ChecksGiven("Interface", "check", checkInterface)

-----------------------------------------------------------------------------
(* Program. *)

validateProgramName == Unread
createProgram == Unread
lockProgram == NeedsHandle
checkProgram == NoErrors
uploadProgramSource == Unread
unlockProgram == Unread
activateProgram == activateObjectInSession
checkDeletionProgram == Unread
deleteProgram == Unread
getProgramSource == IfGiven
getProgramMetadata == IfGiven
getProgramTransport == Unversioned

ProgramType ==
  TypeOf([validate |-> validateProgramName, create |-> createProgram,
          lock |-> lockProgram, check |-> checkProgram,
          write |-> uploadProgramSource, unlock |-> unlockProgram,
          activate |-> activateProgram, verdict |-> checkDeletionProgram,
          delete |-> deleteProgram],
         getProgramSource, "inactive", "none")

ProgramRead == Reads("Program", "read", Passed, getProgramSource)
ProgramReadMetadata == ReadsMetadata("Program", Passed, getProgramMetadata)
ProgramReadTransport == ReadsTransport("Program", getProgramTransport)
ProgramValidate == Validates("Program", validateProgramName)
ProgramCheck == ChecksGiven("Program", "check", checkProgram)

-----------------------------------------------------------------------------
(* What a class shares with its includes, which have no metadata and no    *)
(* transport request of their own.                                         *)

getClassMetadata == IfGiven
getClassTransport == Unversioned

ClassReadMetadata == ReadsMetadata("Class", Passed, getClassMetadata)
ClassReadTransport == ReadsTransport("Class", getClassTransport)

-----------------------------------------------------------------------------
(* The includes of a class: validate() and check() run the same check on   *)
(* the content they are given; read() asks for the active version unless   *)
(* told otherwise.                                                         *)

checkClassInclude == NoErrors
updateClassInclude == Unread

checkClassLocalTypes == checkClassInclude
updateClassLocalTypes == updateClassInclude
getClassImplementationsInclude == OrActive

LocalTypesType ==
  TypeOf([lock |-> lockClass, check |-> checkClassLocalTypes,
          write |-> updateClassLocalTypes, unlock |-> unlockClass,
          activate |-> activateClass],
         getClassImplementationsInclude, "none", "none")
LocalTypesValidate ==
  ChecksGiven("Class", "validateLocalTypes", checkClassLocalTypes)
LocalTypesRead ==
  Reads("Class", "readLocalTypes", OrActive, getClassImplementationsInclude)
LocalTypesCheck ==
  ChecksGiven("Class", "checkLocalTypes", checkClassLocalTypes)

checkClassDefinitions == checkClassInclude
updateClassDefinitions == updateClassInclude
getClassDefinitionsInclude == OrActive

LocalDefinitionsType ==
  TypeOf([lock |-> lockClass, check |-> checkClassDefinitions,
          write |-> updateClassDefinitions, unlock |-> unlockClass,
          activate |-> activateClass],
         getClassDefinitionsInclude, "none", "none")
LocalDefinitionsValidate ==
  ChecksGiven("Class", "validateLocalDefinitions", checkClassDefinitions)
LocalDefinitionsRead ==
  Reads("Class", "readLocalDefinitions", OrActive, getClassDefinitionsInclude)
LocalDefinitionsCheck ==
  ChecksGiven("Class", "checkLocalDefinitions", checkClassDefinitions)

checkClassMacros == checkClassInclude
updateClassMacros == updateClassInclude
getClassMacrosInclude == OrActive

LocalMacrosType ==
  TypeOf([lock |-> lockClass, check |-> checkClassMacros,
          write |-> updateClassMacros, unlock |-> unlockClass,
          activate |-> activateClass],
         getClassMacrosInclude, "none", "none")
LocalMacrosValidate ==
  ChecksGiven("Class", "validateLocalMacros", checkClassMacros)
LocalMacrosRead ==
  Reads("Class", "readLocalMacros", OrActive, getClassMacrosInclude)
LocalMacrosCheck == ChecksGiven("Class", "checkLocalMacros", checkClassMacros)

checkClassLocalTestClass == checkClassInclude
updateClassTestInclude == Unread
activateClassTestClasses == activateObjectInSession
getClassTestClassesInclude == OrActive

LocalTestClassType ==
  TypeOf([lock |-> lockClass, check |-> checkClassLocalTestClass,
          write |-> updateClassTestInclude, unlock |-> unlockClass,
          activate |-> activateClassTestClasses],
         getClassTestClassesInclude, "none", "none")
LocalTestClassValidate ==
  ChecksGiven("Class", "validateLocalTestClass", checkClassLocalTestClass)
LocalTestClassRead ==
  Reads("Class", "readLocalTestClass", OrActive, getClassTestClassesInclude)
LocalTestClassCheck ==
  ChecksGiven("Class", "checkLocalTestClass", checkClassLocalTestClass)

ClassCheckTestClass ==
  ChecksGiven("Class", "checkTestClass", checkClassLocalTestClass)

(* The chains that work on an include, by name. *)
IncludeTypes ==
  [name \in {<<"Class", method \o include>> :
               method \in {"update", "delete"},
               include \in {"LocalTypes", "LocalDefinitions", "LocalMacros",
                            "LocalTestClass"}} \cup
             {<<"Class", "updateTestClasses">>,
              <<"Class", "activateTestClasses">>} |->
     CASE name[2] \in {"updateLocalTypes", "deleteLocalTypes"} ->
            LocalTypesType
       [] name[2] \in {"updateLocalDefinitions", "deleteLocalDefinitions"} ->
            LocalDefinitionsType
       [] name[2] \in {"updateLocalMacros", "deleteLocalMacros"} ->
            LocalMacrosType
       [] OTHER -> LocalTestClassType]

-----------------------------------------------------------------------------
(* Behavior implementation: a class, except for its own include.  The check *)
(* before the write is a check of what is saved: the content of the include *)
(* is not the source of a class.                                            *)

validateBehaviorImplementationName == Taking({"bad", "kerberos"})
updateBehaviorImplementation == Unread
getBehaviorImplementationSource == IfGiven
getBehaviorImplementationMetadata == IfGiven
getBehaviorImplementationTransport == Unversioned

BehaviorImplementationType ==
  TypeOf([validate |-> validateBehaviorImplementationName,
          create |-> createClass, lock |-> lockClass, check |-> checkClass,
          write |-> updateBehaviorImplementation, unlock |-> unlockClass,
          activate |-> activateClass, verdict |-> checkDeletionClass,
          delete |-> deleteClass],
         getBehaviorImplementationSource, "inactive", "none")
BehaviorImplementationRead ==
  Reads("BehaviorImplementation", "read", Passed,
    getBehaviorImplementationSource)
BehaviorImplementationReadMetadata ==
  ReadsMetadata("BehaviorImplementation", Passed,
    getBehaviorImplementationMetadata)
BehaviorImplementationReadTransport ==
  ReadsTransport("BehaviorImplementation", getBehaviorImplementationTransport)
BehaviorImplementationValidate ==
  Validates("BehaviorImplementation", validateBehaviorImplementationName)
BehaviorImplementationCheck == Checks("BehaviorImplementation", checkClass)

-----------------------------------------------------------------------------
(* All of them. *)
ClassQueries ==
  {ClassRead, ClassValidate, ClassCheck, InterfaceRead, InterfaceReadMetadata,
   InterfaceReadTransport, InterfaceValidate, InterfaceCheck, ProgramRead,
   ProgramReadMetadata, ProgramReadTransport, ProgramValidate, ProgramCheck,
   ClassReadMetadata, ClassReadTransport, LocalTypesValidate, LocalTypesRead,
   LocalTypesCheck, LocalDefinitionsValidate, LocalDefinitionsRead,
   LocalDefinitionsCheck, LocalMacrosValidate, LocalMacrosRead,
   LocalMacrosCheck, LocalTestClassValidate, LocalTestClassRead,
   LocalTestClassCheck, ClassCheckTestClass, BehaviorImplementationRead,
   BehaviorImplementationReadMetadata, BehaviorImplementationReadTransport,
   BehaviorImplementationValidate, BehaviorImplementationCheck}

ClassTypes ==
  [Class |-> ClassType, Interface |-> InterfaceType, Program |-> ProgramType,
   BehaviorImplementation |-> BehaviorImplementationType]
=============================================================================
