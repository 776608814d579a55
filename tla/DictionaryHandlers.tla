------------------------- MODULE DictionaryHandlers -------------------------
(***************************************************************************)
(* The handlers of objects that are maintained as XML documents (domains,  *)
(* data elements, table types, authorization fields, packages, message     *)
(* classes, feature toggles, service bindings): each of their methods as a *)
(* chain, but for the publication of service bindings.  Where the          *)
(* update function reads the object, patches the XML and writes it back,   *)
(* the chain has a fetch before the write.                                 *)
(***************************************************************************)
EXTENDS Chains

-----------------------------------------------------------------------------
(* Domain and DataElement *)

DomainCreate == Create("Domain")
DomainUpdate == PatchUpdate("Domain")
DomainWrite == PatchWrite("Domain")
DomainDelete == CheckedDelete("Domain")
DomainActivate == ActivateChain("Domain")
DomainLock == LockChain("Domain")
DomainUnlock == UnlockChain("Domain")

DataElementCreate == Create("DataElement")
DataElementUpdate == PatchUpdate("DataElement")
DataElementWrite == PatchWrite("DataElement")
DataElementDelete == CheckedDelete("DataElement")
DataElementActivate == ActivateChain("DataElement")
DataElementLock == LockChain("DataElement")
DataElementUnlock == UnlockChain("DataElement")

-----------------------------------------------------------------------------
(* AuthorizationField: the document is built from the configuration alone, *)
(* nothing is read first.                                                  *)

AuthorizationFieldCreate == Create("AuthorizationField")
AuthorizationFieldUpdate ==
  UpdateChain("AuthorizationField",
    <<Lock, When("body", Plain("check")), Plain("write"), Soft("poll"), Unlock>>
      \o CheckAndActivate \o ReadBack,
    UnlockThenDelete)
AuthorizationFieldWrite == SourceWrite("AuthorizationField")
AuthorizationFieldDelete == CheckedDelete("AuthorizationField")
AuthorizationFieldActivate == ActivateChain("AuthorizationField")
AuthorizationFieldLock == LockChain("AuthorizationField")
AuthorizationFieldUnlock == UnlockChain("AuthorizationField")

-----------------------------------------------------------------------------
(* TableType: nothing is checked before the write, and there is only a     *)
(* write when a row type was given.                                        *)

TableTypeCreate == Create("TableType")
TableTypeUpdate ==
  UpdateChain("TableType",
    <<Lock, When("body", Plain("fetch")), When("body", Plain("write")),
      When("body", Soft("poll")), Unlock>> \o CheckAndActivate \o ReadBack,
    UnlockThenDelete)
TableTypeWrite == PatchWrite("TableType")
TableTypeDelete == CheckedDelete("TableType")
TableTypeActivate == ActivateChain("TableType")
TableTypeLock == LockChain("TableType")
TableTypeUnlock == UnlockChain("TableType")

-----------------------------------------------------------------------------
(* Package: create() waits for the package before it calls it created, and *)
(* deletePackage reads the result of the deletion, so that delete() need   *)
(* not heed the verdict.  A package is never activated.                    *)

PackageCreate ==
  [Simple(<<"Package", "create">>, "create",
          <<Plain("validate"), Plain("create"), Marking(Soft("poll"))>>)
     EXCEPT !.catch = "stateless",
            !.rescue =
              <<When("created", When("cleanup", Plain("deleteProven")))>>]
PackageUpdate ==
  UpdateChain("Package", PatchWindow \o <<Plain("read")>>,
              <<Unlock, When("cleanup", Plain("deleteProven"))>>)
PackageWrite == PatchWrite("Package")
PackageDelete ==
  Simple(<<"Package", "delete">>, "delete",
         <<Plain("verdictUnread"), Plain("deleteProven")>>)
PackageLock == LockChain("Package")
PackageUnlock == UnlockChain("Package")

-----------------------------------------------------------------------------
(* MessageClass: the session stays stateful from LOCK to UNLOCK without    *)
(* being set again, and the catch always ends it.  Never activated.        *)

MessageClassCreate == [Create("MessageClass") EXCEPT !.rescue = << >>]
MessageClassUpdate ==
  UpdateChain("MessageClass",
    <<Lock, Plain("fetch"), Plain("write"),
      ThenStateless(When("held", Plain("unlock")))>>,
    <<FinallyStateless(When("held", Plain("unlock")))>>)
MessageClassDelete == CheckedDelete("MessageClass")
MessageClassLock == LockChain("MessageClass")
MessageClassUnlock ==
  UnlockWith("MessageClass", ThenStateless(Plain("unlock")))

-----------------------------------------------------------------------------
(* FeatureToggle: create() with a source runs the whole chain up to the    *)
(* activation; update() writes the metadata and then the source, if any.   *)
(* (body is both xmlContent, which is checked, and source, which is        *)
(* written: a caller that has one of them has the other.)                  *)

FeatureToggleCreate ==
  [Simple(<<"FeatureToggle", "create">>, "create",
          <<Marking(Plain("create")), When("body", Lock),
            When("body", Plain("write")), When("body", Unlock),
            When("body", Plain("activate"))>>)
     EXCEPT !.window = TRUE, !.tracked = TRUE, !.catchUnlocked = "stateless",
            !.rescue =
              <<FinallyStateless(Stateful(When("held", Plain("unlock")))),
                DeleteIfCreated>>]
FeatureToggleUpdate ==
  UpdateChain("FeatureToggle",
    <<Lock, When("body", Plain("check")), Plain("write"),
      When("body", Plain("write")), Soft("poll"), Unlock>> \o CheckAndActivate,
    UnlockThenDelete)
FeatureToggleWrite ==
  WriteChain("FeatureToggle", <<Plain("write"), When("body", Plain("write"))>>)
FeatureToggleDelete == CheckedDelete("FeatureToggle")
FeatureToggleActivate == ActivateChain("FeatureToggle")
FeatureToggleLock == LockChain("FeatureToggle")
FeatureToggleUnlock == UnlockChain("FeatureToggle")

-----------------------------------------------------------------------------
(* ServiceBinding: nothing is locked.  create() begins with the binding    *)
(* types and the transport check of validate() and ends with the service   *)
(* that was generated.  delete() first looks whether the binding is        *)
(* published.                                                              *)

ServiceBindingCreate ==
  Simple(<<"ServiceBinding", "create">>, "create",
         <<Plain("validate"), Plain("validate"), Plain("create"),
           Plain("check"), When("activate", Plain("activate")),
           Plain("read"), Plain("read"), When("activate", Plain("check"))>>)
ServiceBindingDelete ==
  Simple(<<"ServiceBinding", "delete">>, "delete",
         <<Soft("poll"), Plain("verdict"), Plain("delete")>>)
ServiceBindingActivate == ActivateChain("ServiceBinding")

-----------------------------------------------------------------------------
(* All of them. *)
DictionaryChains ==
  {DomainCreate, DomainUpdate, DomainWrite, DomainDelete, DomainActivate,
    DomainLock, DomainUnlock, DataElementCreate, DataElementUpdate,
    DataElementWrite, DataElementDelete, DataElementActivate,
    DataElementLock, DataElementUnlock, AuthorizationFieldCreate,
    AuthorizationFieldUpdate, AuthorizationFieldWrite,
    AuthorizationFieldDelete, AuthorizationFieldActivate,
    AuthorizationFieldLock, AuthorizationFieldUnlock, TableTypeCreate,
    TableTypeUpdate, TableTypeWrite, TableTypeDelete, TableTypeActivate,
    TableTypeLock, TableTypeUnlock, PackageCreate, PackageUpdate,
    PackageWrite, PackageDelete, PackageLock, PackageUnlock,
    MessageClassCreate, MessageClassUpdate, MessageClassDelete,
    MessageClassLock, MessageClassUnlock, FeatureToggleCreate,
    FeatureToggleUpdate, FeatureToggleWrite, FeatureToggleDelete,
    FeatureToggleActivate, FeatureToggleLock, FeatureToggleUnlock,
    ServiceBindingCreate, ServiceBindingDelete, ServiceBindingActivate}
=============================================================================
