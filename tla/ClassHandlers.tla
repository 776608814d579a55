--------------------------- MODULE ClassHandlers ----------------------------
(***************************************************************************)
(* The handlers of classes, their local includes, interfaces, programs and *)
(* behavior implementations, with the legacy variants, as chains.  All     *)
(* handlers of a class and its includes work on the lock of the class.     *)
(***************************************************************************)
EXTENDS Chains

(* create() and delete() that run their request in a stateful session.     *)
ToggledCreate(type) ==
  [Create(type) EXCEPT !.steps = <<Toggled(Marking(Plain("create")))>>,
                       !.rescue = <<Toggled(DeleteIfCreated)>>]

ToggledDelete(type, verdict) ==
  [Simple(<<type, "delete">>, "delete",
          <<Plain(verdict), Stateful(Plain("delete"))>>)
     EXCEPT !.exit = "stateless"]

UnlockThenToggledDelete == <<Unlock, Toggled(DeleteOnFailure)>>

-----------------------------------------------------------------------------
(* Class: delete() keeps the answer of the deletion check without looking  *)
(* at it.                                                                  *)

ClassCreate == ToggledCreate("Class")
ClassUpdate ==
  UpdateChain("Class", SourceWindow \o CheckAndActivate,
              UnlockThenToggledDelete)
ClassWrite == SourceWrite("Class")
ClassDelete == ToggledDelete("Class", "verdictUnread")
ClassActivate == ActivateChain("Class")
ClassLock == LockChain("Class")
ClassUnlock == UnlockChain("Class")

(* The test include of a class, through the methods of AdtClass itself.    *)
ClassLockTestClasses ==
  Simple(<<"Class", "lockTestClasses">>, "lock", <<Lock>>)
ClassUnlockTestClasses ==
  [UnlockChain("Class") EXCEPT !.name[2] = "unlockTestClasses",
                               !.tracked = FALSE]
ClassUpdateTestClasses ==
  [UpdateChain("Class", <<Lock, Plain("write"), Unlock>>, <<Unlock>>)
     EXCEPT !.name[2] = "updateTestClasses", !.catchUnlocked = "keep"]
ClassActivateTestClasses ==
  [ActivateChain("Class") EXCEPT !.name[2] = "activateTestClasses"]

(***************************************************************************)
(* The handlers of the local includes lock the class through the           *)
(* capability, without a critical section, and do not touch the session    *)
(* when the LOCK fails.  Deleting an include is writing an empty one.      *)
(***************************************************************************)
IncludeChain(method, steps) ==
  [Simple(<<"Class", method>>, "update", steps)
     EXCEPT !.tracked = TRUE, !.rescue = <<Unlock>>]

IncludeUpdate(method) ==
  IncludeChain(method,
    <<Lock, When("body", Plain("check")), Plain("write"), Unlock>>)

IncludeDelete(method) ==
  IncludeChain(method, <<Lock, Plain("write"), Unlock>>)

LocalTypesUpdate == IncludeUpdate("updateLocalTypes")
LocalTypesDelete == IncludeDelete("deleteLocalTypes")
LocalDefinitionsUpdate == IncludeUpdate("updateLocalDefinitions")
LocalDefinitionsDelete == IncludeDelete("deleteLocalDefinitions")
LocalMacrosUpdate == IncludeUpdate("updateLocalMacros")
LocalMacrosDelete == IncludeDelete("deleteLocalMacros")
LocalTestClassUpdate ==
  IncludeChain("updateLocalTestClass",
    <<Lock, When("body", Plain("check")), Plain("write"), Unlock,
      When("activate", Plain("activate"))>>)
LocalTestClassDelete == IncludeDelete("deleteLocalTestClass")

(* A legacy system: the whole chain in one stateful session, which the     *)
(* inner finally ends; what follows is outside of the try.                 *)
ClassLegacyUpdate ==
  [UpdateChain("Class",
     <<Lock, When("body", Plain("check")), When("body", Plain("write")),
       [ThenStateless(When("held", Plain("unlock"))) EXCEPT !.closes = TRUE]>>
       \o CheckAndActivate,
     <<When("held", Plain("unlock"))>>)
     EXCEPT !.name[2] = "updateLegacy", !.tracked = FALSE,
            !.catchUnlocked = "keep", !.exit = "stateless"]
ClassLegacyDelete == LegacyDelete("Class")

-----------------------------------------------------------------------------
(* Interface *)

InterfaceCreate ==
  [Create("Interface") EXCEPT !.rescue = <<Toggled(DeleteIfCreated)>>]
InterfaceUpdate ==
  UpdateChain("Interface", SourceWindow \o CheckAndActivate \o ReadBack,
              UnlockThenToggledDelete)
InterfaceWrite == SourceWrite("Interface")
InterfaceDelete == ToggledDelete("Interface", "verdict")
InterfaceActivate == ActivateChain("Interface")
InterfaceLock == LockChain("Interface")
InterfaceUnlock == UnlockChain("Interface")
InterfaceLegacyDelete == LegacyDelete("Interface")

-----------------------------------------------------------------------------
(* Program *)

ProgramCreate == ToggledCreate("Program")
ProgramUpdate ==
  UpdateChain("Program", SourceWindow \o CheckAndActivate,
              UnlockThenToggledDelete)
ProgramWrite == SourceWrite("Program")
ProgramDelete == ToggledDelete("Program", "verdict")
ProgramActivate == ActivateChain("Program")
ProgramLock == LockChain("Program")
ProgramUnlock == UnlockChain("Program")
ProgramLegacyDelete == LegacyDelete("Program")

-----------------------------------------------------------------------------
(***************************************************************************)
(* BehaviorImplementation works through an AdtClass of its own.  It writes *)
(* the main source always and the implementations include if there is one, *)
(* and opens no critical section.  The class.delete() of the catch is one  *)
(* try: the deletion check is folded into the delete that follows it; the  *)
(* first request of create() reads the system information.                 *)
(***************************************************************************)
BehaviorImplementationCreate ==
  Simple(<<"BehaviorImplementation", "create">>, "create",
         <<Plain("validate"), FinallyStateless(Stateful(Plain("create")))>>)
BehaviorImplementationUpdate ==
  [UpdateChain("BehaviorImplementation",
     <<Lock, Plain("check"), Plain("write"), When("body", Plain("write")),
       When("body", Soft("poll")), Unlock>> \o CheckAndActivate \o ReadBack,
     <<Unlock, FinallyStateless(Stateful(DeleteOnFailure))>>)
     EXCEPT !.window = FALSE]
BehaviorImplementationWrite ==
  WriteChain("BehaviorImplementation", <<Plain("write"), Plain("write")>>)
BehaviorImplementationDelete ==
  ToggledDelete("BehaviorImplementation", "verdictUnread")
BehaviorImplementationActivate == ActivateChain("BehaviorImplementation")
BehaviorImplementationLock == LockChain("BehaviorImplementation")
BehaviorImplementationUnlock == UnlockChain("BehaviorImplementation")
-----------------------------------------------------------------------------
(* All of them. *)
ClassChains ==
  {ClassCreate, ClassUpdate, ClassWrite, ClassDelete, ClassActivate,
    ClassLock, ClassUnlock, ClassLockTestClasses, ClassUnlockTestClasses,
    ClassUpdateTestClasses, ClassActivateTestClasses, LocalTypesUpdate,
    LocalTypesDelete, LocalDefinitionsUpdate, LocalDefinitionsDelete,
    LocalMacrosUpdate, LocalMacrosDelete, LocalTestClassUpdate,
    LocalTestClassDelete, ClassLegacyUpdate, ClassLegacyDelete,
    InterfaceCreate, InterfaceUpdate, InterfaceWrite, InterfaceDelete,
    InterfaceActivate, InterfaceLock, InterfaceUnlock,
    InterfaceLegacyDelete, ProgramCreate, ProgramUpdate, ProgramWrite,
    ProgramDelete, ProgramActivate, ProgramLock, ProgramUnlock,
    ProgramLegacyDelete, BehaviorImplementationCreate,
    BehaviorImplementationUpdate, BehaviorImplementationWrite,
    BehaviorImplementationDelete, BehaviorImplementationActivate,
    BehaviorImplementationLock, BehaviorImplementationUnlock}
=============================================================================
