---------------------------- MODULE MCAdtSession ----------------------------
(***************************************************************************)
(* Instances of AdtSession for TLC: the catalogues of the runs.            *)
(***************************************************************************)
EXTENDS AdtSession, HandlerAnswers

(* Two callers on one document: the handlers that read, patch and write.   *)
SharedDomain == {DomainUpdate, DomainLock, DomainUnlock, DomainWrite}

(* Two callers on one class or include: handlers that bracket their lock   *)
(* or not, record it or not, delete with it, create and clean up.          *)
SharedClass ==
  {ClassCreate, ClassUpdateTestClasses, LocalTypesDelete, ClassLegacyUpdate,
   ClassLegacyDelete, FunctionIncludeCreate, FunctionIncludeDelete,
   FunctionIncludeLock}

SharedObjects == SharedDomain \cup SharedClass

HandleSymmetry == Permutations(Handle)
CallerAndHandleSymmetry == Permutations(Caller) \cup Permutations(Handle)

-----------------------------------------------------------------------------
(* The catalogues of the runs that show a claim of the documentation to    *)
(* fail: the handler that shows it, and what it needs.                     *)

ClassWithDelete == {ClassCreate, ClassDelete}
DomainWithLock == {DomainLock, DomainUpdate, DomainWrite, DomainUnlock}
=============================================================================
