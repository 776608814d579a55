--------------------------- MODULE HandlerAnswers ---------------------------
(***************************************************************************)
(* The request functions of the handlers read their answers as the         *)
(* theorems about ObjectVersions ask for (module ObjectVersions_proofs).   *)
(***************************************************************************)
EXTENDS HandlerResources, ResourceShapes

(* Reads of every type notice errors. *)
ASSUME ReadsNoticeErrors == \A q \in AllQueries : NoticesErrors(q)

(* They pass the version on where there is one to pass, but for the types  *)
(* of ReadingAnyVersion.                                                   *)
ASSUME ReadsPassVersion ==
  \A q \in AllQueries :
    q.name[1] \notin ReadingAnyVersion \cup SavingActive => PassesVersion(q)

(* Checks notice what they report, but for the types of IgnoringReport.    *)
ASSUME ChecksNoticeReports ==
  /\ \A q \in AllQueries : q.name[1] \notin IgnoringReport => NoticesReport(q)
  /\ \A c \in AllMethods :
       c.name[1] \notin IgnoringReport => HeedsReport(c, HandlerRecord(c))

(* Locks and writes are noticed to fail by all methods, activations and    *)
(* creations by all but one.                                               *)
ASSUME WritesHeedAnswers ==
  \A c \in AllMethods :
    /\ HeedsLock(c, HandlerRecord(c)) /\ HeedsWrite(c, HandlerRecord(c))
    /\ c.name \notin IgnoringActivation => HeedsActivation(c, HandlerRecord(c))
    /\ c.name \notin CreatingUnproven => HeedsCreate(c, HandlerRecord(c))

(* So are deletions and refused deletion checks; refused deletions by the  *)
(* methods of ReadingDeletion.                                             *)
ASSUME DeletionsHeedAnswers ==
  \A c \in AllMethods :
    c.kind = "delete" =>
      /\ HeedsDeletion(c, HandlerRecord(c)) /\ HeedsVerdict(c, HandlerRecord(c))
      /\ c.name \in ReadingDeletion =>
           HeedsRefusal(c, HandlerRecord(c), DeletingDirectly)

(* What is read back is what was written, but for the types of             *)
(* ReadingBackUnstated.                                                    *)
ASSUME UpdatesReadOwn ==
  \A c \in AllMethods :
    c.name[1] \notin ReadingBackUnstated =>
      ReadsOwn(c, HandlerRecord(c), SavingActive)
=============================================================================
