-------------------------- MODULE HandlerResources --------------------------
(***************************************************************************)
(* The methods of all handlers that change an object or ask for it, with   *)
(* the records of their types, and what is known of some of them.          *)
(***************************************************************************)
EXTENDS Handlers, SourceResources, ExtensionResources, DictionaryResources,
        FunctionResources, ClassResources, TLC

(* Without the methods that only lock or unlock, or work with the lock of  *)
(* the caller.                                                             *)
AllMethods ==
  {c \in AllHandlers :
     ~c.uses /\ c.kind \in {"create", "update", "delete", "activate"}}

AllQueries ==
  UNION {SourceQueries, ExtensionQueries, DictionaryQueries, FunctionQueries,
         ClassQueries}

AllTypes ==
  SourceTypes @@ ExtensionTypes @@ DictionaryTypes @@ FunctionTypes @@ ClassTypes

(* Methods that do not use the functions of the others of their type.      *)
SpecialTypes ==
  IncludeTypes @@ <<"FunctionGroup", "create">> :> CreatedFunctionGroup
    @@ <<"ServiceBinding", "create">> :> CreatedServiceBinding

(* The record of the type of a method, or its own.                         *)
HandlerRecord(c) ==
  IF c.name \in DOMAIN SpecialTypes THEN SpecialTypes[c.name]
                                    ELSE AllTypes[c.name[1]]

-----------------------------------------------------------------------------
(* Types. *)

(* Saved in the one version there is. *)
SavingActive == {"Package", "MessageClass"}

(* Deleted by a DELETE on the object, without the deletion API. *)
DeletingDirectly == {"MetadataExtension"}

(* Not looking at the report of a check. *)
IgnoringReport ==
  {"BehaviorDefinition", "Enhancement", "MetadataExtension", "Package",
   "Table"}

(* Read, and read back, without stating the version. *)
ReadingAnyVersion ==
  {"Domain", "DataElement", "FunctionGroup", "TableType", "MetadataExtension"}

ReadingBackUnstated ==
  ReadingAnyVersion \cup {"Table", "FunctionModule", "BehaviorImplementation"}

-----------------------------------------------------------------------------
(* Methods. *)

(* Learning whether a deletion was performed. *)
ReadingDeletion ==
  {<<"Package", "delete">>, <<"FunctionInclude", "delete">>,
   <<"MetadataExtension", "delete">>}
    \cup {<<t, "deleteLegacy">> : t \in DOMAIN AllTypes}

(* Not reading the answer to an activation. *)
IgnoringActivation == {<<"ServiceBinding", "create">>}

(* Taking an error for success. *)
CreatingUnproven == {<<"FunctionGroup", "create">>}
=============================================================================
