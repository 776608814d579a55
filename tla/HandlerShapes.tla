---------------------------- MODULE HandlerShapes ---------------------------
(***************************************************************************)
(* The methods of the handlers have the shapes the theorems about          *)
(* AdtSession and about ObjectVersions ask for (modules                    *)
(* AdtSessionEffects_proofs and ObjectVersions_proofs).                    *)
(***************************************************************************)
EXTENDS HandlerResources, ChainShapes

(* All of them read a document under the lock, if they lock at all.        *)
ASSUME AllLockBeforeReading == \A c \in AllHandlers : LocksBeforeReading(c)

(* The updates do what they were asked for.                                *)
ASSUME UpdatesAreDelivering ==
  \A c \in AllHandlers : c.kind = "update" => Delivers(c)

(* The deletions are not mistaken, but for those that ignore the verdict.  *)
ASSUME DeletionsDelete ==
  \A c \in AllHandlers :
    c.kind = "delete" /\ c.name \notin IgnoringVerdict => Deletes(c)

(* The creations clean up what they have created themselves.               *)
ASSUME CreationsCleanUp ==
  \A c \in AllHandlers : c.kind = "create" => CleansUpOwn(c)

(* Methods with a lock of their own keep the session as long as they have  *)
(* it.                                                                     *)
ASSUME AllStayStateful == \A c \in AllHandlers : ~c.uses => StaysStateful(c)

(* And they end it, but for those of EndingStateful.                       *)
ASSUME LockingMethodsReset ==
  \A c \in AllHandlers :
    TakesLock(c) /\ c.name \notin EndingStateful => Resets(c)

-----------------------------------------------------------------------------
(* What the methods do to the versions of an object.                       *)

(* They write and activate under one lock, and read back last.             *)
ASSUME AllWriteFirmly ==
  \A c \in AllHandlers :
    ChecksFirmly(c) /\ WritesFirmly(c) /\ ReadsBackLast(c)

(* They create what they are to create, and delete what they are to delete *)
(* after a deletion check, if they do not learn of it otherwise.           *)
ASSUME CreationsCreate ==
  \A c \in AllHandlers : c.kind = "create" => CreatesFirmly(c)

ASSUME AllDeleteFirmly ==
  \A c \in AllHandlers :
    c.kind = "delete" =>
      /\ DeletesFirmly(c)
      /\ \/ c.name \in IgnoringVerdict \cup ReadingDeletion
         \/ DeletesChecked(c)
=============================================================================
