-------------------- MODULE MessageClassMessages_proofs --------------------
(***************************************************************************)
(* Proofs about MessageClassMessages, for any callers, messages and texts. *)
(* IInv adds to the invariants which handles a call has at each request,   *)
(* that a lock in the system has its handle in a call that is still to     *)
(* give it back, and that a document nobody has outdated is what is saved. *)
(***************************************************************************)
EXTENDS MessageClassMessages, TLAPS

Handles ==
  \A p \in Caller :
    /\ call[p].phase \in {"lockClass", "put", "unlockMessages"}
         => call[p].message
    /\ call[p].phase \in {"put", "unlockMessages", "unlockClass"}
         => call[p].class

LocksHaveHandles ==
  \A p \in Caller \ spoiled :
    /\ \A m \in Message : messageLock[m] = p =>
         /\ m = call[p].no /\ call[p].message
         /\ call[p].phase \in {"lockClass", "put", "unlockMessages",
                               "cleanMessages"}
    /\ classLock = p =>
         /\ call[p].class
         /\ call[p].phase \in {"put", "unlockMessages", "unlockClass",
                               "cleanMessages", "cleanClass"}

FreshDocuments ==
  \A p \in fresh :
    call[p].phase \in {"lockMessage", "lockClass", "put"}
      => call[p].document = saved

IInv == TypeOK /\ Handles /\ LocksHaveHandles /\ FreshDocuments /\ Preserved

-----------------------------------------------------------------------------
LEMMA IdleIsCall == Idle \in Call
<1>1. (CHOOSE m \in Message : TRUE) \in Message
  BY MessageAssumption
<1> QED
  BY <1>1 DEF Idle, Call, Phases, MaybeText

LEMMA InitHolds == Init => IInv
<1> SUFFICES ASSUME Init PROVE IInv
  OBVIOUS
<1>1. TypeOK
  BY IdleIsCall DEF Init, TypeOK, Holder, Idle
<1>2. \A p \in Caller : call[p].phase = "idle"
  BY DEF Init, Idle
<1> QED
  BY <1>1, <1>2, NoneAssumption
     DEF Init, IInv, Handles, LocksHaveHandles, FreshDocuments, Preserved

(***************************************************************************)
(* What becomes of a call once a request has succeeded or failed.          *)
(***************************************************************************)
LEMMA SpentIsCall ==
  ASSUME NEW k \in Call
  PROVE  /\ Spent(k) \in Call
         /\ Spent(k).phase = k.phase /\ Spent(k).no = k.no
         /\ Spent(k).message = k.message /\ Spent(k).class = k.class
BY IdleIsCall DEF Spent, Call, MaybeText

LEMMA GoOnIsCall ==
  ASSUME NEW k \in Call, k.phase \in Trying \cup Cleanup
  PROVE  /\ GoOn(k) \in Call
         /\ GoOn(k).no = k.no
         /\ GoOn(k).message = k.message /\ GoOn(k).class = k.class
         /\ GoOn(k).phase \in {"cleanMessages", "cleanClass", "rejected"}
         /\ k.phase \in Trying => GoOn(k).phase = Clean(k)
         /\ k.phase = "cleanMessages" /\ k.class
              => GoOn(k).phase = "cleanClass"
         /\ k.phase = "cleanMessages" /\ ~k.class
              => GoOn(k).phase = "rejected"
         /\ k.phase = "cleanClass" => GoOn(k).phase = "rejected"
<1> DEFINE f == CASE k.phase \in Trying -> Clean(k)
                  [] k.phase = "cleanMessages" /\ k.class -> "cleanClass"
                  [] OTHER -> "rejected"
<1>1. GoOn(k) = [Spent(k) EXCEPT !.phase = f]
  BY SpentIsCall DEF GoOn
<1>2. /\ k.phase \in Trying => f = Clean(k)
      /\ k.phase = "cleanMessages" /\ k.class => f = "cleanClass"
      /\ k.phase = "cleanMessages" /\ ~k.class => f = "rejected"
      /\ k.phase = "cleanClass" => f = "rejected"
  BY DEF Trying
<1>3. Clean(k) \in {"cleanMessages", "cleanClass", "rejected"}
  BY DEF Clean
<1>4. f \in {"cleanMessages", "cleanClass", "rejected"}
  BY <1>2, <1>3 DEF Cleanup
<1> HIDE DEF f
<1> QED
  BY <1>1, <1>2, <1>4, SpentIsCall DEF Call, Phases, Cleanup

LEMMA SucceedIsCall ==
  ASSUME NEW k \in Call, k.phase \in Trying
  PROVE  /\ Succeed(k) \in Call
         /\ Succeed(k).no = k.no
         /\ k.phase = "lockMessage" =>
              /\ Succeed(k).phase = "lockClass" /\ Succeed(k).message
              /\ Succeed(k).class = k.class
              /\ Succeed(k).document = k.document
         /\ k.phase = "lockClass" =>
              /\ Succeed(k).phase = "put" /\ Succeed(k).class
              /\ Succeed(k).message = k.message
              /\ Succeed(k).document = k.document
         /\ k.phase = "put" =>
              /\ Succeed(k).phase = "unlockMessages"
              /\ Succeed(k).class = k.class
              /\ Succeed(k).message = k.message
         /\ k.phase = "unlockMessages" =>
              /\ Succeed(k).phase = "unlockClass" /\ ~Succeed(k).message
              /\ Succeed(k).class = k.class
         /\ k.phase = "unlockClass" =>
              /\ Succeed(k).phase = "resolved" /\ ~Succeed(k).class
              /\ Succeed(k).message = k.message
<1>1. CASE k.phase = "lockMessage"
  BY <1>1 DEF Succeed, Call, Phases, Trying
<1>2. CASE k.phase = "lockClass"
  BY <1>2 DEF Succeed, Call, Phases, Trying
<1>3. CASE k.phase = "put"
  BY <1>3, SpentIsCall DEF Succeed, Call, Phases, Trying
<1>4. CASE k.phase = "unlockMessages"
  BY <1>4 DEF Succeed, Call, Phases, Trying
<1>5. CASE k.phase = "unlockClass"
  BY <1>5 DEF Succeed, Call, Phases, Trying
<1> QED
  BY <1>1, <1>2, <1>3, <1>4, <1>5 DEF Trying

-----------------------------------------------------------------------------
(***************************************************************************)
(* Steps of a call that leave the system alone.                            *)
(***************************************************************************)
LEMMA CallGoesOn ==
  ASSUME IInv, NEW p \in Caller, NEW k \in Call,
         call' = [call EXCEPT ![p] = k],
         UNCHANGED <<server, stale, meant>>,
         fresh' \in SUBSET (fresh \cup {p}),
         spoiled' \in {spoiled, spoiled \cup {p}},
         k.phase \notin Trying \ {"lockMessage"},
         p \in fresh' /\ k.phase = "lockMessage" => k.document = saved,
         \/ p \in spoiled'
         \/ /\ classLock = p => k.class /\ k.phase \in {"cleanMessages",
                                                        "cleanClass"}
            /\ \A m \in Message : messageLock[m] = p =>
                 k.message /\ k.no = m /\ k.phase = "cleanMessages"
  PROVE  IInv'
<1>1. call \in [Caller -> Call]
  BY DEF IInv, TypeOK
<1>2. /\ call'[p] = k
      /\ \A q \in Caller \ {p} : call'[q] = call[q]
  BY <1>1
<1>3. TypeOK'
  BY <1>1, <1>2 DEF IInv, TypeOK, server, Trying
<1>4. Handles'
  BY <1>2 DEF IInv, Handles, Trying
<1>5. LocksHaveHandles'
  BY <1>2 DEF IInv, LocksHaveHandles, server
<1>6. FreshDocuments' /\ Preserved'
  BY <1>2 DEF IInv, FreshDocuments, Preserved, server, Trying, TypeOK
<1> QED
  BY <1>3, <1>4, <1>5, <1>6 DEF IInv

(* A call of somebody whose LOCKs and last UNLOCKs have gone well.         *)
LEMMA NoLockBefore ==
  ASSUME IInv, NEW p \in Caller \ spoiled,
         call[p].phase \in {"idle", "read", "resolved", "rejected"}
  PROVE  classLock # p /\ \A m \in Message : messageLock[m] # p
BY DEF IInv, LocksHaveHandles

LEMMA StartKeeps ==
  ASSUME IInv, NEW p \in Caller, NEW no \in Message, NEW text \in MaybeText,
         Start(p, no, text)
  PROVE  IInv'
<1> DEFINE k == [call[p] EXCEPT !.phase = "read", !.no = no, !.text = text]
<1>1. call[p] \in Call
  BY DEF IInv, TypeOK
<1>2. k \in Call /\ k.phase = "read"
  BY <1>1 DEF Call, Phases
<1>3. call' = [call EXCEPT ![p] = k]
  BY DEF Start
<1> HIDE DEF k
<1> QED
  BY <1>2, <1>3, NoLockBefore, CallGoesOn DEF Start, Awaits, history, Trying

LEMMA ReadKeeps ==
  ASSUME IInv, NEW p \in Caller, Read(p)
  PROVE  IInv'
<1> DEFINE k == [call[p] EXCEPT !.phase = "lockMessage", !.document = saved]
<1>1. call[p] \in Call /\ saved \in [Message -> MaybeText]
  BY DEF IInv, TypeOK
<1>2. k \in Call /\ k.phase = "lockMessage" /\ k.document = saved
  BY <1>1 DEF Call, Phases, Trying
<1>3. call' = [call EXCEPT ![p] = k]
  BY DEF Read
<1>4. UNCHANGED <<server, stale, meant, spoiled>> /\ fresh' = fresh \cup {p}
  BY DEF Read
<1>5. p \notin spoiled =>
        classLock # p /\ \A m \in Message : messageLock[m] # p
  BY NoLockBefore DEF Read, Awaits
<1>6. k.phase \notin Trying \ {"lockMessage"}
  BY <1>2
<1> HIDE DEF k
<1> QED
  BY <1>2, <1>3, <1>4, <1>5, <1>6, CallGoesOn

LEMMA UnreadKeeps ==
  ASSUME IInv, NEW p \in Caller, Unread(p)
  PROVE  IInv'
<1> DEFINE k == [call[p] EXCEPT !.phase = "rejected"]
<1>1. call[p] \in Call
  BY DEF IInv, TypeOK
<1>2. k \in Call /\ k.phase = "rejected"
  BY <1>1 DEF Call, Phases
<1>3. call' = [call EXCEPT ![p] = k]
  BY DEF Unread
<1> HIDE DEF k
<1> QED
  BY <1>2, <1>3, NoLockBefore, CallGoesOn DEF Unread, Awaits, history, Trying

LEMMA ReturnKeeps ==
  ASSUME IInv, NEW p \in Caller, Return(p)
  PROVE  IInv'
<1>1. Idle \in Call /\ Idle.phase = "idle"
  BY IdleIsCall DEF Idle
<1> QED
  BY <1>1, NoLockBefore, CallGoesOn DEF Return, Settled, Trying

(* A request fails: the catch block gives back whatever has a handle.      *)
LEMMA RefuseKeeps ==
  ASSUME IInv, NEW p \in Caller, Refuse(p)
  PROVE  IInv'
<1> DEFINE k == GoOn(call[p])
<1>1. call[p] \in Call /\ call[p].phase \in Trying \cup Cleanup
  BY DEF IInv, TypeOK, Refuse
<1>2. call' = [call EXCEPT ![p] = k] /\ UNCHANGED <<server, stale, meant, fresh>>
  BY DEF Refuse, history
<1>3. k \in Call /\ k.phase \in {"cleanMessages", "cleanClass", "rejected"}
  BY <1>1, GoOnIsCall
<1>4. ASSUME call[p].phase \in Trying, p \notin spoiled
      PROVE  /\ classLock = p => k.class /\ k.phase \in {"cleanMessages",
                                                         "cleanClass"}
             /\ \A m \in Message : messageLock[m] = p =>
                  k.message /\ k.no = m /\ k.phase = "cleanMessages"
  BY <1>1, <1>4, GoOnIsCall DEF IInv, LocksHaveHandles, Clean
<1>5. call[p].phase \in Cleanup => p \in spoiled'
  BY DEF Refuse
<1>6. spoiled' \in {spoiled, spoiled \cup {p}}
  BY DEF Refuse
<1> HIDE DEF k
<1>7. k.phase \notin Trying
  BY <1>3 DEF Trying
<1>8. p \in spoiled' \/ (call[p].phase \in Trying /\ p \notin spoiled)
  BY <1>1, <1>5, <1>6
<1>9. k.phase # "lockMessage"
  BY <1>3
<1> QED
  BY <1>2, <1>3, <1>4, <1>6, <1>7, <1>8, <1>9, CallGoesOn

(* The end of a session takes locks away.                                  *)
LEMMA ExpireKeeps ==
  ASSUME IInv, NEW p \in Caller, Expire(p)
  PROVE  IInv'
<1>1. TypeOK'
  BY DEF IInv, TypeOK, Expire, history, Holder
<1>2. /\ \A m \in Message, q \in Caller :
           messageLock'[m] = q => messageLock[m] = q
      /\ \A q \in Caller : classLock' = q => classLock = q
  BY NoneAssumption DEF Expire
<1>3. LocksHaveHandles'
  BY <1>2 DEF IInv, LocksHaveHandles, Expire
<1>4. Handles' /\ FreshDocuments' /\ Preserved'
  BY DEF IInv, Handles, FreshDocuments, Preserved, Expire, history
<1> QED
  BY <1>1, <1>3, <1>4 DEF IInv

-----------------------------------------------------------------------------
(***************************************************************************)
(* A document that is what is saved but for one message changes that       *)
(* message and no other.                                                   *)
(***************************************************************************)
LEMMA SaveOfFresh ==
  ASSUME NEW k \in Call, NEW old \in [Message -> MaybeText], k.document = old
  PROVE  Save(old, k) = [old EXCEPT ![k.no] = k.text]
<1>1. ASSUME NEW m \in Message
      PROVE  Save(old, k)[m] = IF m = k.no THEN k.text ELSE old[m]
  BY DEF Save
<1> QED
  BY <1>1 DEF Save, Call

LEMMA SaveIsClass ==
  ASSUME NEW k \in Call, NEW old \in [Message -> MaybeText]
  PROVE  Save(old, k) \in [Message -> MaybeText]
<1>1. ASSUME NEW m \in Message
      PROVE  Save(old, k)[m] \in {k.text, None, k.document[m], old[m]}
  BY DEF Save
<1> QED
  BY <1>1 DEF Save, Call, MaybeText

(* What the system does, and the types it keeps.                           *)
LEMMA Performed ==
  ASSUME TypeOK, NEW p \in Caller, Perform(p)
  PROVE  /\ call[p].phase \in Trying \cup Cleanup
         /\ saved' \in [Message -> MaybeText]
         /\ messageLock' \in [Message -> Holder] /\ classLock' \in Holder
         /\ fresh' \subseteq fresh
         /\ stale' \in BOOLEAN /\ meant' \in [Message -> MaybeText]
         /\ \A q \in Caller \ {p} :
              /\ classLock' = q => classLock = q
              /\ \A m \in Message :
                   messageLock'[m] = q => messageLock[m] = q
         /\ call[p].phase # "put" => UNCHANGED <<saved, history>>
         /\ call[p].phase = "put" =>
              /\ saved' = Save(saved, call[p]) /\ fresh' = {}
              /\ stale' = (stale \/ p \notin fresh)
              /\ meant' = [meant EXCEPT ![call[p].no] = call[p].text]
<1> USE NoneAssumption
<1>1. call[p] \in Call /\ call[p].no \in Message /\ call[p].text \in MaybeText
  BY DEF TypeOK, Call
<1>2. CASE call[p].phase = "lockMessage"
  BY <1>1, <1>2 DEF Perform, TypeOK, Holder, history, Trying
<1>3. CASE call[p].phase = "lockClass"
  BY <1>1, <1>3 DEF Perform, TypeOK, Holder, history, Trying
<1>4. CASE call[p].phase = "put"
  BY <1>1, <1>4, SaveIsClass DEF Perform, TypeOK, Holder, Trying
<1>5. CASE call[p].phase \in {"unlockMessages", "cleanMessages"}
  BY <1>1, <1>5 DEF Perform, TypeOK, Holder, history, Trying, Cleanup
<1>6. CASE call[p].phase \in {"unlockClass", "cleanClass"}
  BY <1>1, <1>6 DEF Perform, TypeOK, Holder, history, Trying, Cleanup
<1> QED
  BY <1>2, <1>3, <1>4, <1>5, <1>6 DEF Perform

(***************************************************************************)
(* A request is carried out and the call goes on as k, which has the       *)
(* handles of the locks the system has given to p, unless one was lost.    *)
(***************************************************************************)
LEMMA PerformKeeps ==
  ASSUME IInv, NEW p \in Caller, NEW k \in Call, Perform(p),
         call' = [call EXCEPT ![p] = k],
         spoiled' \in {spoiled, spoiled \cup {p}},
         k.phase \in {"lockClass", "put", "unlockMessages"} => k.message,
         k.phase \in {"put", "unlockMessages", "unlockClass"} => k.class,
         k.phase # "lockMessage",
         k.phase \in {"lockClass", "put"}
           => /\ call[p].phase \in {"lockMessage", "lockClass"}
              /\ k.document = call[p].document,
         \/ p \in spoiled'
         \/ /\ classLock' = p =>
                 /\ k.class
                 /\ k.phase \in {"put", "unlockMessages", "unlockClass",
                                 "cleanMessages", "cleanClass"}
            /\ \A m \in Message : messageLock'[m] = p =>
                 /\ m = k.no /\ k.message
                 /\ k.phase \in {"lockClass", "put", "unlockMessages",
                                 "cleanMessages"}
  PROVE  IInv'
<1>1. call \in [Caller -> Call] /\ TypeOK
  BY DEF IInv, TypeOK
<1>2. /\ call'[p] = k
      /\ \A q \in Caller \ {p} : call'[q] = call[q]
  BY <1>1
<1>3. TypeOK'
  BY <1>1, <1>2, Performed DEF TypeOK
<1>4. Handles'
  BY <1>2 DEF IInv, Handles
<1>5. LocksHaveHandles'
  BY <1>1, <1>2, Performed DEF IInv, LocksHaveHandles
<1>6. FreshDocuments'
  <2>1. CASE call[p].phase = "put"
    BY <1>1, <2>1, Performed DEF FreshDocuments
  <2>2. CASE call[p].phase # "put"
    BY <1>1, <1>2, <2>2, Performed
       DEF IInv, FreshDocuments, history, TypeOK
  <2> QED
    BY <2>1, <2>2
<1>7. Preserved'
  <2>1. CASE call[p].phase = "put"
    <3> SUFFICES ASSUME ~stale' PROVE saved' = meant'
      BY DEF Preserved
    <3>1. ~stale /\ p \in fresh /\ saved = meant
      BY <1>1, <2>1, Performed DEF IInv, Preserved
    <3>2. call[p].document = saved
      BY <2>1, <3>1 DEF IInv, FreshDocuments
    <3>3. saved' = [saved EXCEPT ![call[p].no] = call[p].text]
      BY <1>1, <2>1, <3>2, Performed, SaveOfFresh DEF TypeOK
    <3> QED
      BY <1>1, <2>1, <3>1, <3>3, Performed
  <2>2. CASE call[p].phase # "put"
    BY <1>1, <2>2, Performed DEF IInv, Preserved, history
  <2> QED
    BY <2>1, <2>2
<1> QED
  BY <1>3, <1>4, <1>5, <1>6, <1>7 DEF IInv

-----------------------------------------------------------------------------
LEMMA AnswerKeeps ==
  ASSUME IInv, NEW p \in Caller, Answer(p)
  PROVE  IInv'
<1> DEFINE k == IF call[p].phase \in Cleanup THEN GoOn(call[p])
                                            ELSE Succeed(call[p])
<1>1. /\ Perform(p) /\ TypeOK
      /\ call[p] \in Call /\ call[p].no \in Message
      /\ call' = [call EXCEPT ![p] = k] /\ spoiled' = spoiled
  BY DEF IInv, TypeOK, Answer, Call
<1>2. CASE call[p].phase = "lockMessage"
  <2>1. k \in Call /\ k.phase = "lockClass" /\ k.message /\ k.no = call[p].no
        /\ k.document = call[p].document
    BY <1>1, <1>2, SucceedIsCall DEF Trying, Cleanup
  <2>2. p \notin spoiled =>
          /\ classLock' # p
          /\ \A m \in Message : messageLock'[m] = p => m = call[p].no
    BY <1>1, <1>2 DEF IInv, LocksHaveHandles, Perform, TypeOK
  <2> HIDE DEF k
  <2> QED
    BY <1>1, <1>2, <2>1, <2>2, PerformKeeps
<1>3. CASE call[p].phase = "lockClass"
  <2>1. k \in Call /\ k.phase = "put" /\ k.class /\ k.no = call[p].no
        /\ k.document = call[p].document /\ k.message
    BY <1>1, <1>3, SucceedIsCall DEF Trying, Cleanup, IInv, Handles
  <2>2. p \notin spoiled =>
          \A m \in Message : messageLock'[m] = p => m = call[p].no
    BY <1>1, <1>3 DEF IInv, LocksHaveHandles, Perform
  <2> HIDE DEF k
  <2> QED
    BY <1>1, <1>3, <2>1, <2>2, PerformKeeps
<1>4. CASE call[p].phase = "put"
  <2>1. k \in Call /\ k.phase = "unlockMessages" /\ k.no = call[p].no
        /\ k.class /\ k.message
    BY <1>1, <1>4, SucceedIsCall DEF Trying, Cleanup, IInv, Handles
  <2>2. p \notin spoiled =>
          \A m \in Message : messageLock'[m] = p => m = call[p].no
    BY <1>1, <1>4 DEF IInv, LocksHaveHandles, Perform
  <2> HIDE DEF k
  <2> QED
    BY <1>1, <1>4, <2>1, <2>2, PerformKeeps
<1>5. CASE call[p].phase = "unlockMessages"
  <2>1. k \in Call /\ k.phase = "unlockClass" /\ k.class
    BY <1>1, <1>5, SucceedIsCall DEF Trying, Cleanup, IInv, Handles
  <2>2. p \notin spoiled => \A m \in Message : messageLock'[m] # p
    BY <1>1, <1>5, NoneAssumption DEF IInv, LocksHaveHandles, Perform, TypeOK
  <2> HIDE DEF k
  <2> QED
    BY <1>1, <2>1, <2>2, PerformKeeps
<1>6. CASE call[p].phase = "unlockClass"
  <2>1. k \in Call /\ k.phase = "resolved"
    BY <1>1, <1>6, SucceedIsCall DEF Trying, Cleanup
  <2>2. p \notin spoiled =>
          classLock' # p /\ \A m \in Message : messageLock'[m] # p
    BY <1>1, <1>6, NoneAssumption DEF IInv, LocksHaveHandles, Perform
  <2> HIDE DEF k
  <2> QED
    BY <1>1, <2>1, <2>2, PerformKeeps
<1>7. CASE call[p].phase = "cleanMessages"
  <2>1. /\ k \in Call /\ k.class = call[p].class
        /\ k.phase \in {"cleanClass", "rejected"}
        /\ call[p].class => k.phase = "cleanClass"
    BY <1>1, <1>7, GoOnIsCall DEF Trying, Cleanup
  <2>2. p \notin spoiled =>
          /\ classLock' = p => call[p].class
          /\ \A m \in Message : messageLock'[m] # p
    BY <1>1, <1>7, NoneAssumption DEF IInv, LocksHaveHandles, Perform, TypeOK
  <2> HIDE DEF k
  <2> QED
    BY <1>1, <2>1, <2>2, PerformKeeps
<1>8. CASE call[p].phase = "cleanClass"
  <2>1. k \in Call /\ k.phase = "rejected"
    BY <1>1, <1>8, GoOnIsCall DEF Trying, Cleanup
  <2>2. p \notin spoiled =>
          classLock' # p /\ \A m \in Message : messageLock'[m] # p
    BY <1>1, <1>8, NoneAssumption DEF IInv, LocksHaveHandles, Perform
  <2> HIDE DEF k
  <2> QED
    BY <1>1, <2>1, <2>2, PerformKeeps
<1> QED
  BY <1>1, <1>2, <1>3, <1>4, <1>5, <1>6, <1>7, <1>8 DEF Perform

(* A request is carried out, but the caller takes it for failed.           *)
LEMMA LoseKeeps ==
  ASSUME IInv, NEW p \in Caller, Lose(p)
  PROVE  IInv'
<1> DEFINE k == GoOn(call[p])
<1>1. /\ Perform(p) /\ TypeOK
      /\ call[p] \in Call
      /\ call' = [call EXCEPT ![p] = k]
      /\ spoiled' \in {spoiled, spoiled \cup {p}}
  BY DEF IInv, TypeOK, Lose
<1>2. call[p].phase \in Trying \cup Cleanup
  BY <1>1, Performed
<1>3. /\ k \in Call /\ k.no = call[p].no
      /\ k.message = call[p].message /\ k.class = call[p].class
      /\ k.phase \in {"cleanMessages", "cleanClass", "rejected"}
      /\ call[p].phase \in Trying => k.phase = Clean(call[p])
      /\ call[p].phase = "cleanMessages" /\ call[p].class
           => k.phase = "cleanClass"
  BY <1>1, <1>2, GoOnIsCall
<1>4. CASE call[p].phase \in {"lockMessage", "lockClass"}
  <2>1. p \in spoiled'
    BY <1>4 DEF Lose
  <2> HIDE DEF k
  <2> QED
    BY <1>1, <1>3, <2>1, PerformKeeps
<1>5. CASE call[p].phase = "put"
  <2>1. call[p].message /\ call[p].class /\ k.phase = "cleanMessages"
    BY <1>3, <1>5 DEF IInv, Handles, Clean, Trying
  <2>2. p \notin spoiled =>
          \A m \in Message : messageLock'[m] = p => m = call[p].no
    BY <1>1, <1>5 DEF IInv, LocksHaveHandles, Perform
  <2> HIDE DEF k
  <2> QED
    BY <1>1, <1>3, <2>1, <2>2, PerformKeeps
<1>6. CASE call[p].phase = "unlockMessages"
  <2>1. call[p].message /\ call[p].class /\ k.phase = "cleanMessages"
    BY <1>3, <1>6 DEF IInv, Handles, Clean, Trying
  <2>2. p \notin spoiled => \A m \in Message : messageLock'[m] # p
    BY <1>1, <1>6, NoneAssumption DEF IInv, LocksHaveHandles, Perform, TypeOK
  <2> HIDE DEF k
  <2> QED
    BY <1>1, <1>3, <2>1, <2>2, PerformKeeps
<1>7. CASE call[p].phase = "cleanMessages"
  <2>1. p \notin spoiled =>
          /\ classLock' = p => call[p].class
          /\ \A m \in Message : messageLock'[m] # p
    BY <1>1, <1>7, NoneAssumption DEF IInv, LocksHaveHandles, Perform, TypeOK
  <2> HIDE DEF k
  <2> QED
    BY <1>1, <1>3, <1>7, <2>1, PerformKeeps
<1>8. CASE call[p].phase \in {"unlockClass", "cleanClass"}
  <2>1. p \notin spoiled =>
          classLock' # p /\ \A m \in Message : messageLock'[m] # p
    BY <1>1, <1>8, NoneAssumption DEF IInv, LocksHaveHandles, Perform
  <2> HIDE DEF k
  <2> QED
    BY <1>1, <1>3, <2>1, PerformKeeps
<1> QED
  BY <1>1, <1>4, <1>5, <1>6, <1>7, <1>8 DEF Perform

LEMMA StutterKeeps == ASSUME IInv, UNCHANGED vars PROVE IInv'
BY DEF IInv, vars, TypeOK, Handles, LocksHaveHandles, FreshDocuments, Preserved

LEMMA NextKeeps == ASSUME IInv, [Next]_vars PROVE IInv'
<1>1. ASSUME NEW p \in Caller, NEW no \in Message, NEW text \in MaybeText,
             Start(p, no, text)
      PROVE  IInv'
  BY <1>1, StartKeeps
<1>2. ASSUME NEW p \in Caller, Respond(p) PROVE IInv'
  BY <1>2, ReadKeeps, UnreadKeeps, AnswerKeeps, LoseKeeps, RefuseKeeps
     DEF Respond
<1>3. ASSUME NEW p \in Caller, Return(p) \/ Expire(p) PROVE IInv'
  BY <1>3, ReturnKeeps, ExpireKeeps
<1> QED
  BY <1>1, <1>2, <1>3, StutterKeeps DEF Next

LEMMA Invariance == Spec => []IInv
BY InitHolds, NextKeeps, PTL DEF Spec

(* The types, and that a document is only written with both handles.       *)
THEOREM TypeCorrect == Spec => []TypeOK
BY Invariance, PTL DEF IInv

(***************************************************************************)
(* A call that has settled has given both locks back, unless a LOCK was    *)
(* lost or its last UNLOCK failed.                                         *)
(***************************************************************************)
THEOREM LocksGivenBack == Spec => []NoLockLeft
<1>1. IInv => NoLockLeft
  BY DEF IInv, LocksHaveHandles, NoLockLeft, Settled
<1> QED
  BY <1>1, Invariance, PTL

(***************************************************************************)
(* As long as no outdated document is written, every message says what the *)
(* last call about it wrote.                                               *)
(***************************************************************************)
THEOREM MessagesPreserved == Spec => []Preserved
BY Invariance, PTL DEF IInv
=============================================================================
