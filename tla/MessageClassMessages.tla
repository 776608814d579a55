------------------------ MODULE MessageClassMessages ------------------------
(***************************************************************************)
(* Single messages of a message class (core/messageClass/                  *)
(* AdtMessageClassMessage.ts).  A message has no resource of its own to    *)
(* write to: create(), update() and delete() read the document of the      *)
(* class, change the one message in it and write the whole document back,  *)
(* under a lock of the message and a lock of the class.  The callers work  *)
(* on one class, each over a connection of its own.                        *)
(*                                                                         *)
(* Of the system it is assumed what the comments of the handler say: a     *)
(* document written upserts the messages it has, leaves alone the ones it  *)
(* does not mention, and removes those it lists as deleted; besides, that  *)
(* a document is only taken under both locks, and that either lock is held *)
(* by one session at a time.                                               *)
(***************************************************************************)
CONSTANTS
  Caller,
  Message,  \* message numbers
  Text,     \* what a message may say
  None      \* no text, no holder

ASSUME NoneAssumption == None \notin Caller \cup Text
ASSUME MessageAssumption == Message # {}

VARIABLES
  saved,        \* server: the messages of the class
  messageLock,  \* server: who has locked each message
  classLock,    \* server: who has locked the class
  call,         \* the calls under way
  fresh,        \* history: callers whose document nobody has outdated
  stale,        \* history: TRUE once an outdated document was written
  meant,        \* history: what the last call about each message wrote
  spoiled       \* history: callers who may have left a lock behind,
                \* because a LOCK was lost or an UNLOCK failed for good

vars == <<saved, messageLock, classLock, call, fresh, stale, meant, spoiled>>

server == <<saved, messageLock, classLock>>
history == <<fresh, stale, meant>>

MaybeText == Text \cup {None}

Holder == Caller \cup {None}

(* What a call awaits; the try block goes from lockMessage to unlockClass. *)
Trying == {"lockMessage", "lockClass", "put", "unlockMessages", "unlockClass"}

Cleanup == {"cleanMessages", "cleanClass"}

Phases == {"idle", "read", "resolved", "rejected"} \cup Trying \cup Cleanup

(***************************************************************************)
(* no, text   the message and what it is to say, None to delete it         *)
(* document   the class as it was read                                     *)
(* message, class   messageLockHandle and classLockHandle are set          *)
(***************************************************************************)
Call ==
  [phase : Phases, no : Message, text : MaybeText,
   document : [Message -> MaybeText], message : BOOLEAN, class : BOOLEAN]

(* A document is written with both handles in it. *)
TypeOK ==
  /\ saved \in [Message -> MaybeText]
  /\ messageLock \in [Message -> Holder]
  /\ classLock \in Holder
  /\ call \in [Caller -> Call]
  /\ fresh \subseteq Caller
  /\ stale \in BOOLEAN
  /\ meant \in [Message -> MaybeText]
  /\ spoiled \subseteq Caller
  /\ \A p \in Caller :
       call[p].phase = "put" => call[p].message /\ call[p].class

(* Between two calls a caller keeps nothing of the one before. *)
Idle ==
  [phase |-> "idle", no |-> CHOOSE m \in Message : TRUE, text |-> None,
   document |-> [m \in Message |-> None], message |-> FALSE, class |-> FALSE]

Init ==
  /\ saved \in [Message -> MaybeText]
  /\ messageLock = [m \in Message |-> None]
  /\ classLock = None
  /\ call = [p \in Caller |-> Idle]
  /\ fresh = {}
  /\ stale = FALSE
  /\ meant = saved
  /\ spoiled = {}

-----------------------------------------------------------------------------
(* The code between two awaits. *)

Awaits(p, phase) == call[p].phase = phase

Settled(p) == call[p].phase \in {"resolved", "rejected"}

(* The document is done with once it was written or the try block left.    *)
Spent(k) == [k EXCEPT !.text = None, !.document = Idle.document]

(* Mutant: a lock response without a handle is not an error. *)
SucceedUnread(k) ==
  CASE k.phase = "lockMessage" -> [k EXCEPT !.phase = "lockClass"]
    [] k.phase = "lockClass" -> [k EXCEPT !.phase = "put"]
    [] k.phase = "put" -> [Spent(k) EXCEPT !.phase = "unlockMessages"]
    [] k.phase = "unlockMessages" -> [k EXCEPT !.phase = "unlockClass"]
    [] k.phase = "unlockClass" -> [k EXCEPT !.phase = "resolved"]

(* A request of the try block has been answered. *)
Succeed(k) ==
  CASE k.phase = "lockMessage" ->
         [k EXCEPT !.phase = "lockClass", !.message = TRUE]
    [] k.phase = "lockClass" -> [k EXCEPT !.phase = "put", !.class = TRUE]
    [] k.phase = "put" -> [Spent(k) EXCEPT !.phase = "unlockMessages"]
    [] k.phase = "unlockMessages" ->
         [k EXCEPT !.phase = "unlockClass", !.message = FALSE]
    [] k.phase = "unlockClass" ->
         [k EXCEPT !.phase = "resolved", !.class = FALSE]

(* Mutant: without the lock of the class there is nothing to clean up.     *)
CleanIfClass(k) ==
  IF ~k.class THEN "rejected"
  ELSE IF k.message THEN "cleanMessages" ELSE "cleanClass"

(* The first request of the catch block. *)
Clean(k) ==
  IF k.message THEN "cleanMessages"
  ELSE IF k.class THEN "cleanClass" ELSE "rejected"

(* A request has failed, or was one of the catch block. *)
GoOn(k) ==
  [Spent(k) EXCEPT !.phase =
     CASE @ \in Trying -> Clean(k)
       [] @ = "cleanMessages" /\ k.class -> "cleanClass"
       [] OTHER -> "rejected"]

(* Mutant: a message is deleted by leaving it out. *)
SaveLeavingOut(old, k) ==
  [m \in Message |->
     LET given == IF m = k.no THEN k.text ELSE k.document[m]
     IN IF given # None THEN given ELSE old[m]]

(***************************************************************************)
(* What the document of a call makes of the class: it has the messages     *)
(* that were read, with the one the call is about; to delete that one, it  *)
(* is listed as deleted if it was there.                                   *)
(***************************************************************************)
Save(old, k) ==
  [m \in Message |->
     LET given == IF m = k.no THEN k.text ELSE k.document[m]
         deleted == m = k.no /\ k.document[m] # None
     IN IF given # None THEN given
        ELSE IF deleted THEN None ELSE old[m]]

-----------------------------------------------------------------------------
(* The system carries out the request a call awaits. *)

Perform(p) ==
  LET no == call[p].no
  IN CASE call[p].phase = "lockMessage" ->
            /\ messageLock[no] \in {None, p}
            /\ messageLock' = [messageLock EXCEPT ![no] = p]
            /\ UNCHANGED <<saved, classLock, history>>
       [] call[p].phase = "lockClass" ->
            /\ classLock \in {None, p}
            /\ classLock' = p
            /\ UNCHANGED <<saved, messageLock, history>>
       [] call[p].phase = "put" ->
            /\ classLock = p /\ messageLock[no] = p
            /\ saved' = Save(saved, call[p])
            /\ fresh' = {}
            /\ stale' = (stale \/ p \notin fresh)
            /\ meant' = [meant EXCEPT ![no] = call[p].text]
            /\ UNCHANGED <<messageLock, classLock>>
       [] call[p].phase \in {"unlockMessages", "cleanMessages"} ->
            /\ messageLock' =
                 [messageLock EXCEPT ![no] = IF @ = p THEN None ELSE @]
            /\ UNCHANGED <<saved, classLock, history>>
       [] call[p].phase \in {"unlockClass", "cleanClass"} ->
            /\ classLock = p
            /\ classLock' = None
            /\ UNCHANGED <<saved, messageLock, history>>
       [] OTHER -> FALSE

-----------------------------------------------------------------------------
(* The actions. *)

(* create() and update() with a text, delete() with none.                  *)
Start(p, no, text) ==
  /\ Awaits(p, "idle")
  /\ call' = [call EXCEPT ![p] = [@ EXCEPT !.phase = "read", !.no = no,
                                           !.text = text]]
  /\ UNCHANGED <<server, history, spoiled>>

(* The document arrives, before anything is locked. *)
Read(p) ==
  /\ Awaits(p, "read")
  /\ call' = [call EXCEPT ![p] = [@ EXCEPT !.phase = "lockMessage",
                                           !.document = saved]]
  /\ fresh' = fresh \cup {p}
  /\ UNCHANGED <<server, stale, meant, spoiled>>

(* There is no such class, or the request fails. *)
Unread(p) ==
  /\ Awaits(p, "read")
  /\ call' = [call EXCEPT ![p].phase = "rejected"]
  /\ UNCHANGED <<server, history, spoiled>>

Answer(p) ==
  /\ Perform(p)
  /\ call' = [call EXCEPT ![p] = IF @.phase \in Cleanup THEN GoOn(@)
                                                       ELSE Succeed(@)]
  /\ UNCHANGED spoiled

(* The request fails although it is carried out. *)
Lose(p) ==
  /\ Perform(p)
  /\ call' = [call EXCEPT ![p] = GoOn(@)]
  /\ spoiled' = IF call[p].phase \in {"lockMessage", "lockClass"}
                  THEN spoiled \cup {p} ELSE spoiled

Refuse(p) ==
  /\ call[p].phase \in Trying \cup Cleanup
  /\ call' = [call EXCEPT ![p] = GoOn(@)]
  /\ spoiled' = IF call[p].phase \in Cleanup THEN spoiled \cup {p}
                                             ELSE spoiled
  /\ UNCHANGED <<server, history>>

(* The caller may begin anew. *)
Return(p) ==
  /\ Settled(p)
  /\ call' = [call EXCEPT ![p] = Idle]
  /\ fresh' = fresh \ {p}
  /\ UNCHANGED <<server, stale, meant, spoiled>>

(* The system ends the session of a caller, and with it its locks.         *)
Expire(p) ==
  /\ classLock = p \/ \E m \in Message : messageLock[m] = p
  /\ classLock' = IF classLock = p THEN None ELSE classLock
  /\ messageLock' =
       [m \in Message |-> IF messageLock[m] = p THEN None ELSE messageLock[m]]
  /\ UNCHANGED <<saved, history, call, spoiled>>

Respond(p) == Read(p) \/ Unread(p) \/ Answer(p) \/ Lose(p) \/ Refuse(p)

Next ==
  \E p \in Caller :
    \/ \E no \in Message, text \in MaybeText : Start(p, no, text)
    \/ Respond(p) \/ Return(p) \/ Expire(p)

Spec == Init /\ [][Next]_vars

-----------------------------------------------------------------------------
(***************************************************************************)
(* Two locks are taken one after the other, and the second may fail with   *)
(* the first one held, as may the write and either UNLOCK: a call that has *)
(* settled has left neither behind, unless the answer to its LOCK was lost *)
(* or its last UNLOCK failed (AdtMessageClassMessage.ts:231-256).          *)
(***************************************************************************)
NoLockLeft ==
  \A p \in Caller :
    Settled(p) /\ p \notin spoiled
    => classLock # p /\ \A m \in Message : messageLock[m] # p

(***************************************************************************)
(* As long as no document is written that somebody else has outdated, each *)
(* message says what the last call about it wrote: the others in the       *)
(* document are preserved, and a deleted one is gone, although the system  *)
(* does not remove what is left out (xml.ts:127-132).                      *)
(***************************************************************************)
Preserved == ~stale => saved = meant

(***************************************************************************)
(* A claim of comments that the code does not keep up when several callers *)
(* change messages of one class: the other messages are preserved.  The    *)
(* document is read before the class is locked.                            *)
(***************************************************************************)
OthersPreserved == saved = meant
=============================================================================
