-------------------------- MODULE FunctionHandlers --------------------------
(***************************************************************************)
(* The handlers of function groups, their includes and function modules,   *)
(* and the legacy variants of their delete(), as chains.                   *)
(***************************************************************************)
EXTENDS Chains

-----------------------------------------------------------------------------
(* FunctionGroup: create() waits, checks and activates by itself. *)

FunctionGroupCreate ==
  [Simple(<<"FunctionGroup", "create">>, "create",
          <<Plain("validate"), Plain("create"), Marking(Soft("poll"))>>
            \o CheckAndActivate \o ReadBack)
     EXCEPT !.catch = "stateless", !.rescue = <<DeleteIfCreated>>]
FunctionGroupUpdate ==
  UpdateChain("FunctionGroup",
    <<Lock, Plain("fetch"), Plain("write"), Soft("poll"), Unlock>>
      \o CheckAndActivate \o ReadBack,
    UnlockThenDelete)
FunctionGroupWrite == PatchWrite("FunctionGroup")
FunctionGroupDelete == CheckedDelete("FunctionGroup")
FunctionGroupActivate == ActivateChain("FunctionGroup")
FunctionGroupLock == LockChain("FunctionGroup")
FunctionGroupUnlock == UnlockChain("FunctionGroup")
FunctionGroupLegacyDelete == LegacyDelete("FunctionGroup")

-----------------------------------------------------------------------------
(* FunctionInclude: create() with a source also uploads and activates it.  *)
(* (body is both xmlContent, which is checked, and the source.)            *)

FunctionIncludeCreate ==
  [Simple(<<"FunctionInclude", "create">>, "create",
          <<Plain("validate"), Marking(Plain("create")), When("body", Lock),
            When("body", Plain("write")), When("body", Unlock),
            When("body", Plain("activate"))>>)
     EXCEPT !.window = TRUE, !.tracked = TRUE, !.catchUnlocked = "stateless",
            !.rescue = <<Unlock, DeleteIfCreated>>]
FunctionIncludeUpdate ==
  UpdateChain("FunctionInclude",
    <<Lock, When("body", Plain("check")), Plain("write"),
      When("body", Plain("write")), When("body", Soft("poll")), Unlock>>
      \o CheckAndActivate \o ReadBack,
    UnlockThenDelete)
FunctionIncludeWrite ==
  WriteChain("FunctionInclude",
             <<Plain("write"), When("body", Plain("write"))>>)
FunctionIncludeDelete == CheckedDelete("FunctionInclude")
FunctionIncludeActivate == ActivateChain("FunctionInclude")
FunctionIncludeLock == LockChain("FunctionInclude")
FunctionIncludeUnlock == UnlockChain("FunctionInclude")

-----------------------------------------------------------------------------
(* FunctionModule *)

FunctionModuleCreate == Create("FunctionModule")
FunctionModuleUpdate == SourceUpdate("FunctionModule")
FunctionModuleWrite == SourceWrite("FunctionModule")
FunctionModuleDelete == CheckedDelete("FunctionModule")
FunctionModuleActivate == ActivateChain("FunctionModule")
FunctionModuleLock == LockChain("FunctionModule")
FunctionModuleUnlock == UnlockChain("FunctionModule")
FunctionModuleLegacyDelete == LegacyDelete("FunctionModule")
-----------------------------------------------------------------------------
(* All of them. *)
FunctionChains ==
  {FunctionGroupCreate, FunctionGroupUpdate, FunctionGroupWrite,
    FunctionGroupDelete, FunctionGroupActivate, FunctionGroupLock,
    FunctionGroupUnlock, FunctionGroupLegacyDelete, FunctionIncludeCreate,
    FunctionIncludeUpdate, FunctionIncludeWrite, FunctionIncludeDelete,
    FunctionIncludeActivate, FunctionIncludeLock, FunctionIncludeUnlock,
    FunctionModuleCreate, FunctionModuleUpdate, FunctionModuleWrite,
    FunctionModuleDelete, FunctionModuleActivate, FunctionModuleLock,
    FunctionModuleUnlock, FunctionModuleLegacyDelete}
=============================================================================
