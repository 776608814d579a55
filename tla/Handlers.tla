------------------------------ MODULE Handlers ------------------------------
(***************************************************************************)
(* The methods of all handlers, and what is known of some of them.         *)
(***************************************************************************)
EXTENDS SourceHandlers, DictionaryHandlers, FunctionHandlers, ClassHandlers

AllHandlers ==
  SourceChains \cup DictionaryChains \cup FunctionChains \cup ClassChains

(* Methods that take a lock and may end in a stateful session although     *)
(* they have none any more.                                                *)
EndingStateful ==
  {<<"Class", m>> :
     m \in {"update", "updateTestClasses", "updateLocalTypes",
            "deleteLocalTypes", "updateLocalDefinitions",
            "deleteLocalDefinitions", "updateLocalMacros",
            "deleteLocalMacros", "updateLocalTestClass",
            "deleteLocalTestClass"}}
    \cup {<<"Interface", "update">>, <<"Program", "update">>}

(* delete() methods that do not look at the answer of the deletion check.  *)
IgnoringVerdict ==
  {<<"Class", "delete">>, <<"BehaviorImplementation", "delete">>}
=============================================================================
