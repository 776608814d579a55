------------------------ MODULE BatchRecorder_proofs ------------------------
(***************************************************************************)
(* Proofs about BatchRecorder, for any set of requests and of executions,  *)
(* provided that nobody calls batchExecute() or reset() during a batch.    *)
(*                                                                         *)
(* resolveAll() pairs by position and compares only the numbers of         *)
(* responses and promises.  That this is enough rests on Recorded: while a *)
(* batch is under way the recorder can only grow, so the snapshot sent is  *)
(* a prefix of what is recorded, and equal numbers mean equal requests.    *)
(***************************************************************************)
EXTENDS BatchRecorder, TLAPS

(* The two arrays hold the same requests, once each, all of them pending.  *)
InStep ==
  /\ parts = deferred
  /\ \A i, j \in DOMAIN deferred : deferred[i] = deferred[j] => i = j
  /\ \A i \in DOMAIN deferred : promise[deferred[i]] = "pending"

(* What a batch under way has sent is a prefix of what is recorded.        *)
Recorded ==
  \A e \in Execution :
    /\ Len(sent[e]) <= Len(deferred)
    /\ \A i \in DOMAIN sent[e] : sent[e][i] = deferred[i]

(* There is at most one batch under way.                                   *)
OneBatch == \A e, f \in Execution : UnderWay(e) /\ UnderWay(f) => e = f

IInv ==
  /\ TypeOK
  /\ InStep
  /\ Recorded
  /\ OneBatch
  /\ OwnResponse

-----------------------------------------------------------------------------
(* What resolveAll() does in a state of IInv: a promise that is not        *)
(* deferred is left alone, and those deferred are all settled, each one    *)
(* fulfilled with the response to its own request.                         *)
LEMMA Resolving ==
  ASSUME IInv, NEW e \in Execution, UnderWay(e),
         NEW n \in 0 .. Len(sent[e]), NEW refused \in SUBSET (1 .. n),
         ResolveAll(SubSeq(sent[e], 1, n), refused)
  PROVE  /\ promise' \in [Request -> States]
         /\ answer' \in [Request -> Request]
         /\ \A r \in Request :
              IF Places(r) = {}
                THEN promise'[r] = promise[r] /\ answer'[r] = answer[r]
                ELSE /\ promise[r] = "pending"
                     /\ promise'[r] \in {"fulfilled", "rejected"}
                     /\ promise'[r] = "fulfilled" => answer'[r] = r
<1> DEFINE responses == SubSeq(sent[e], 1, n)
           mismatch == Len(responses) # Len(deferred)
           Bad(r) == mismatch \/ Places(r) \cap refused # {}
<1>1. /\ sent[e] \in Seq(Request)
      /\ deferred \in Seq(Request)
      /\ promise \in [Request -> States]
      /\ answer \in [Request -> Request]
  BY DEF IInv, TypeOK
<1>2. /\ Len(responses) = n
      /\ \A i \in 1 .. n : responses[i] = sent[e][i]
  BY <1>1
<1>3. ~mismatch => \A i \in DOMAIN deferred : responses[i] = deferred[i]
  <2> SUFFICES ASSUME ~mismatch, NEW i \in DOMAIN deferred
               PROVE  responses[i] = deferred[i]
    OBVIOUS
  <2>1. n = Len(deferred) /\ i \in 1 .. n
    BY <1>1, <1>2
  <2>2. i \in DOMAIN sent[e]
    BY <1>1, <2>1
  <2> QED
    BY <1>2, <2>1, <2>2 DEF IInv, Recorded
<1>4. ASSUME NEW r \in Request, Places(r) # {}
      PROVE  /\ (CHOOSE i \in Places(r) : TRUE) \in DOMAIN deferred
             /\ deferred[CHOOSE i \in Places(r) : TRUE] = r
             /\ promise[r] = "pending"
  <2>1. (CHOOSE i \in Places(r) : TRUE) \in Places(r)
    BY <1>4
  <2> QED
    BY <2>1 DEF Places, IInv, InStep
<1>5. promise' = [r \in Request |-> IF Places(r) = {} THEN promise[r]
                                    ELSE IF Bad(r) THEN "rejected"
                                    ELSE "fulfilled"]
  BY DEF ResolveAll
<1>6. answer' = [r \in Request |-> IF Places(r) = {} \/ Bad(r) THEN answer[r]
                                   ELSE responses[CHOOSE i \in Places(r) : TRUE]]
  BY DEF ResolveAll
<1>7. ASSUME NEW r \in Request, Places(r) # {}, ~Bad(r)
      PROVE  responses[CHOOSE i \in Places(r) : TRUE] = r
  BY <1>3, <1>4, <1>7
<1> HIDE DEF responses, mismatch, Bad
<1>8. promise' \in [Request -> States]
  BY <1>1, <1>5 DEF States
<1>9. answer' \in [Request -> Request]
  BY <1>1, <1>6, <1>7
<1> QED
  BY <1>4, <1>5, <1>6, <1>7, <1>8, <1>9

-----------------------------------------------------------------------------
LEMMA InitHolds == Init => IInv
BY DEF Init, IInv, TypeOK, InStep, Recorded, OneBatch, OwnResponse,
       UnderWay, States

(* Recording appends to what is recorded, so it keeps a prefix one.        *)
LEMMA RecordKeeps ==
  ASSUME IInv, NEW r \in Request, Record(r)
  PROVE  IInv'
<1> USE DEF Record
<1>1. r \notin {deferred[i] : i \in DOMAIN deferred}
  BY DEF IInv, InStep
<1>2. /\ deferred \in Seq(Request)
      /\ Len(deferred') = Len(deferred) + 1
      /\ \A i \in 1 .. Len(deferred) : deferred'[i] = deferred[i]
      /\ deferred'[Len(deferred) + 1] = r
      /\ DOMAIN deferred' = 1 .. Len(deferred) + 1
      /\ DOMAIN deferred = 1 .. Len(deferred)
  BY DEF IInv, TypeOK
<1>3. TypeOK'
  BY DEF IInv, TypeOK, States
<1>4. InStep'
  BY <1>1, <1>2 DEF IInv, TypeOK, InStep
<1>5. Recorded'
  BY <1>2 DEF IInv, TypeOK, Recorded
<1>6. OneBatch' /\ OwnResponse'
  BY DEF IInv, TypeOK, OneBatch, OwnResponse, UnderWay
<1> QED
  BY <1>3, <1>4, <1>5, <1>6 DEF IInv

(* batchExecute() sends all that is recorded, and no other is under way.   *)
LEMMA ExecuteKeeps ==
  ASSUME IInv, Exclusive, NEW e \in Execution, Execute(e)
  PROVE  IInv'
<1> USE DEF Execute
<1>1. TypeOK'
  BY DEF IInv, TypeOK, recorder
<1>2. InStep' /\ OwnResponse'
  BY DEF IInv, InStep, OwnResponse, recorder
<1>3. Recorded'
  BY DEF IInv, TypeOK, InStep, Recorded, recorder
<1>4. OneBatch'
  BY DEF IInv, TypeOK, OneBatch, UnderWay, Undisturbed
<1> QED
  BY <1>1, <1>2, <1>3, <1>4 DEF IInv

(* A batch that settles was the only one, and leaves the recorder empty.   *)
LEMMA RespondKeeps ==
  ASSUME IInv, NEW e \in Execution, Respond(e)
  PROVE  IInv'
<1> USE DEF Respond, Reset
<1>0. PICK n \in 0 .. Len(sent[e]) :
        \E refused \in SUBSET (1 .. n) :
          ResolveAll(SubSeq(sent[e], 1, n), refused)
  OBVIOUS
<1>1. PICK refused \in SUBSET (1 .. n) :
        ResolveAll(SubSeq(sent[e], 1, n), refused)
  BY <1>0
<1>2. /\ promise' \in [Request -> States]
      /\ answer' \in [Request -> Request]
      /\ \A r \in Request : promise'[r] = "fulfilled" => answer'[r] = r
  BY <1>1, Resolving DEF IInv, OwnResponse
<1>3. \A f \in Execution : sent'[f] = << >>
  BY DEF IInv, TypeOK, OneBatch, UnderWay
<1>4. TypeOK'
  BY <1>2 DEF IInv, TypeOK
<1>5. InStep' /\ Recorded' /\ OneBatch' /\ OwnResponse'
  BY <1>2, <1>3 DEF InStep, Recorded, OneBatch, OwnResponse, UnderWay
<1> QED
  BY <1>4, <1>5 DEF IInv

(* A failed batch leaves the recorder as it is.                            *)
LEMMA MissKeeps ==
  ASSUME IInv, NEW e \in Execution, Miss(e)
  PROVE  IInv'
BY DEF Miss, IInv, TypeOK, InStep, Recorded, OneBatch, OwnResponse, UnderWay,
       recorder

(* reset() finds no batch under way.                                       *)
LEMMA DiscardKeeps ==
  ASSUME IInv, Exclusive, Discard
  PROVE  IInv'
BY DEF Discard, Reset, Undisturbed, IInv, TypeOK, InStep, Recorded, OneBatch,
       OwnResponse, UnderWay

LEMMA NextKeeps ==
  ASSUME IInv, Exclusive, [Next]_vars
  PROVE  IInv'
<1>1. CASE UNCHANGED vars
  BY <1>1 DEF vars, recorder, IInv, TypeOK, InStep, Recorded, OneBatch,
              OwnResponse, UnderWay
<1>2. CASE Next
  BY <1>2, RecordKeeps, ExecuteKeeps, RespondKeeps, MissKeeps, DiscardKeeps
     DEF Next
<1> QED
  BY <1>1, <1>2

LEMMA Invariance ==
  ASSUME Exclusive
  PROVE  Spec => []IInv
<1>1. Init => IInv
  BY InitHolds
<1>2. IInv /\ [Next]_vars => IInv'
  BY NextKeeps
<1> QED
  BY <1>1, <1>2, PTL DEF Spec

(***************************************************************************)
(* The two arrays of the recorder stay equally long, whatever is recorded, *)
(* cut short or discarded.                                                 *)
(***************************************************************************)
THEOREM Typing ==
  ASSUME Exclusive
  PROVE  Spec => []TypeOK
<1>1. IInv => TypeOK
  BY DEF IInv
<1> QED
  BY <1>1, Invariance, PTL

(***************************************************************************)
(* Every fulfilled promise has the response to its own request, whatever   *)
(* is recorded while the batch is under way (BatchRecordingConnection).    *)
(***************************************************************************)
THEOREM OwnResponses ==
  ASSUME Exclusive
  PROVE  Spec => []OwnResponse
<1>1. IInv => OwnResponse
  BY DEF IInv
<1> QED
  BY <1>1, Invariance, PTL

-----------------------------------------------------------------------------
(* Under IInv a promise is pending and not dropped when it is deferred,    *)
(* and fulfilled only with its own response.                               *)
LEMMA Fates ==
  ASSUME IInv, NEW r \in Request
  PROVE  /\ Fate(r) = IF promise[r] = "pending" /\ Places(r) = {}
                        THEN "dropped" ELSE promise[r]
         /\ Fate(r) = "pending" <=> Places(r) # {}
BY DEF IInv, TypeOK, InStep, OwnResponse, Fate, Dropped, Places, States

LEMMA InitRefines == Init => Promises!Init
BY DEF Init, Promises!Init, Fate, Dropped, Places

LEMMA RecordRefines ==
  ASSUME IInv, IInv', NEW r \in Request, Record(r)
  PROVE  Promises!Make(r)
<1> DEFINE F == [q \in Request |-> Fate(q)]
<1>1. /\ deferred \in Seq(Request)
      /\ Len(deferred') = Len(deferred) + 1
      /\ \A i \in 1 .. Len(deferred) : deferred'[i] = deferred[i]
      /\ deferred'[Len(deferred) + 1] = r
      /\ DOMAIN deferred' = 1 .. Len(deferred) + 1
      /\ DOMAIN deferred = 1 .. Len(deferred)
  BY DEF IInv, TypeOK, Record
<1>2. Places(r)' # {}
  BY <1>1 DEF Places
<1>3. ASSUME NEW q \in Request \ {r}
      PROVE  (Places(q)' = {}) <=> (Places(q) = {})
  BY <1>1 DEF Places
<1>4. \A q \in Request \ {r} : promise'[q] = promise[q]
  BY DEF Record, IInv, TypeOK
<1>5. promise[r] = "unmade" /\ promise'[r] = "pending"
  BY DEF Record, IInv, TypeOK
<1>6. \A q \in Request \ {r} : Fate(q)' = Fate(q)
  <2> SUFFICES ASSUME NEW q \in Request \ {r}
               PROVE  Fate(q)' = Fate(q)
    OBVIOUS
  <2>1. answer'[q] = answer[q]
    BY DEF Record
  <2> QED
    BY <1>3, <1>4, <2>1 DEF Fate, Dropped
<1>7. Fate(r) = "unmade" /\ Fate(r)' = "pending"
  BY <1>2, <1>5 DEF Fate, Dropped
<1> QED
  BY <1>6, <1>7 DEF Promises!Make

(* The responses settle all that is pending.                               *)
LEMMA RespondRefines ==
  ASSUME IInv, IInv', NEW e \in Execution, Respond(e)
  PROVE  Promises!Batch
<1>0. PICK n \in 0 .. Len(sent[e]) :
        \E refused \in SUBSET (1 .. n) :
          ResolveAll(SubSeq(sent[e], 1, n), refused)
  BY DEF Respond
<1>1. PICK refused \in SUBSET (1 .. n) :
        ResolveAll(SubSeq(sent[e], 1, n), refused)
  BY <1>0
<1>2. \A r \in Request : Places(r)' = {}
  BY DEF Respond, Reset, Places
<1>3. ASSUME NEW r \in Request
      PROVE  IF Fate(r) = "pending"
               THEN Fate(r)' \in {"fulfilled", "rejected"}
               ELSE Fate(r)' = Fate(r)
  <2>1. CASE Places(r) = {}
    <3>1. promise'[r] = promise[r] /\ answer'[r] = answer[r]
      BY <1>1, <2>1, Resolving DEF Respond
    <3> QED
      BY <1>2, <2>1, <3>1, Fates DEF Fate, Dropped
  <2>2. CASE Places(r) # {}
    <3>1. /\ promise'[r] \in {"fulfilled", "rejected"}
          /\ promise'[r] = "fulfilled" => answer'[r] = r
      BY <1>1, <2>2, Resolving DEF Respond
    <3> QED
      BY <2>2, <3>1, Fates DEF Fate, Dropped
  <2> QED
    BY <2>1, <2>2
<1>4. \E r \in Request : Fate(r) = "pending"
  <2>1. 1 \in DOMAIN sent[e] /\ 1 \in DOMAIN deferred
    BY DEF Respond, UnderWay, IInv, TypeOK, Recorded
  <2>2. deferred[1] \in Request /\ 1 \in Places(deferred[1])
    BY <2>1 DEF IInv, TypeOK, Places
  <2> QED
    BY <2>2, Fates
<1> DEFINE verdict == [r \in Request |-> IF Fate(r) = "pending"
                                           THEN Fate(r)' ELSE "rejected"]
<1>5. verdict \in [Request -> Promises!Settled]
  BY <1>3 DEF Promises!Settled
<1>6. [r \in Request |-> Fate(r)]'
        = [r \in Request |-> IF Fate(r) = "pending" THEN verdict[r] ELSE Fate(r)]
  BY <1>3
<1> QED
  BY <1>4, <1>5, <1>6 DEF Promises!Batch

(* reset() of the client drops all that is pending.                        *)
LEMMA DiscardRefines ==
  ASSUME IInv, IInv', Discard
  PROVE  Promises!Drop
<1>1. \A r \in Request : Places(r)' = {}
  BY DEF Discard, Reset, Places
<1>2. promise' = promise /\ answer' = answer
  BY DEF Discard
<1>3. ASSUME NEW r \in Request
      PROVE  Fate(r)' = IF Fate(r) = "pending" THEN "dropped" ELSE Fate(r)
  BY <1>1, <1>2, Fates DEF Fate, Dropped, IInv, InStep, Places
<1> QED
  BY <1>3 DEF Promises!Drop

(* Sending a batch, or its failure, settles nothing.                       *)
LEMMA OthersStutter ==
  ASSUME UNCHANGED <<deferred, promise, answer>>
  PROVE  UNCHANGED [r \in Request |-> Fate(r)]
BY DEF Fate, Dropped, Places

LEMMA NextRefines ==
  ASSUME IInv, IInv', [Next]_vars
  PROVE  [Promises!Next]_[r \in Request |-> Fate(r)]
<1>1. CASE UNCHANGED vars
  BY <1>1, OthersStutter DEF vars, recorder
<1>2. ASSUME NEW r \in Request, Record(r)
      PROVE  Promises!Next
  BY <1>2, RecordRefines DEF Promises!Next
<1>3. ASSUME NEW e \in Execution, Execute(e)
      PROVE  UNCHANGED [r \in Request |-> Fate(r)]
  BY <1>3, OthersStutter DEF Execute, recorder
<1>4. ASSUME NEW e \in Execution, Respond(e)
      PROVE  Promises!Next
  BY <1>4, RespondRefines DEF Promises!Next
<1>5. ASSUME NEW e \in Execution, Miss(e)
      PROVE  UNCHANGED [r \in Request |-> Fate(r)]
  BY <1>5, OthersStutter DEF Miss, recorder
<1>6. CASE Discard
  BY <1>6, DiscardRefines DEF Promises!Next
<1> QED
  BY <1>1, <1>2, <1>3, <1>4, <1>5, <1>6 DEF Next

(***************************************************************************)
(* The recorder implements what a batch client promises: a batch settles   *)
(* all the pending promises, each for good and with its own response, and  *)
(* only reset() drops one.                                                 *)
(***************************************************************************)
THEOREM Refinement ==
  ASSUME Exclusive
  PROVE  Spec => KeepsPromises
<1>1. Init => Promises!Init
  BY InitRefines
<1>2. IInv /\ IInv' /\ [Next]_vars
        => [Promises!Next]_[r \in Request |-> Fate(r)]
  BY NextRefines
<1> QED
  BY <1>1, <1>2, Invariance, PTL DEF Spec, KeepsPromises, Promises!Spec
=============================================================================
