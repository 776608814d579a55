-------------------------- MODULE MCObjectVersions --------------------------
(***************************************************************************)
(* Instances of ObjectVersions for TLC: all methods of all handlers that   *)
(* change an object or ask for it, and the ones a run singles out.         *)
(***************************************************************************)
EXTENDS ObjectVersions, HandlerShapes, HandlerResources

(* Created with all they are to contain. *)
MCWhole == {"ServiceBinding"}

(* Checking what is saved instead of what is to be written. *)
MCChecksSaved == {"BehaviorImplementation"}

(* The methods are those the shapes are stated of, with the same records.  *)
ASSUME CatalogueOfHandlers ==
  /\ Catalogue \subseteq AllMethods /\ Queries \subseteq AllQueries
  /\ \A c \in Catalogue : RecordOf(c) = HandlerRecord(c)

AppendStructureOnly == {AppendStructureUpdate}
=============================================================================
