---------------------------- MODULE BatchRecorder ----------------------------
(***************************************************************************)
(* BatchRecordingConnection and the batchExecute() of the two batch        *)
(* clients.  A request made on the recording connection is not sent: it is *)
(* appended to parts, and the two ends of its promise to deferred.         *)
(* batchExecute() takes a snapshot of the parts, sends them as one request *)
(* and, when the response is there, gives its parts to resolveAll(), which *)
(* pairs them with whatever is in deferred by then.                        *)
(*                                                                         *)
(* Of the system the model assumes that a batch response has one part for  *)
(* each part of the request, in their order, or fewer when it is cut off.  *)
(***************************************************************************)
EXTENDS Naturals, Sequences

CONSTANTS
  Request,     \* the requests callers make
  Execution,   \* the calls to batchExecute() that may be under way together
  Exclusive    \* TRUE: nobody calls batchExecute() or reset() during a batch

ASSUME ExclusiveAssumption == Exclusive \in BOOLEAN

VARIABLES
  parts,       \* the requests recorded
  deferred,    \* the promises recorded, by the request they are for
  sent,        \* the snapshot each batchExecute() has sent, << >> if none
  promise,     \* the state of the promise of each request
  answer       \* the request whose response fulfilled the promise

recorder == <<parts, deferred>>
vars == <<recorder, sent, promise, answer>>

States == {"unmade", "pending", "fulfilled", "rejected"}

(* The types; a part and the promise of it have the same index. *)
TypeOK ==
  /\ parts \in Seq(Request)
  /\ deferred \in Seq(Request)
  /\ Len(parts) = Len(deferred)
  /\ sent \in [Execution -> Seq(Request)]
  /\ promise \in [Request -> States]
  /\ answer \in [Request -> Request]

UnderWay(e) == sent[e] # << >>

Undisturbed == Exclusive => \A e \in Execution : ~UnderWay(e)

-----------------------------------------------------------------------------
(* makeAdtRequest(): at any time, also while a batch is under way. *)
Record(r) ==
  /\ promise[r] = "unmade"
  /\ parts' = Append(parts, r)
  /\ deferred' = Append(deferred, r)
  /\ promise' = [promise EXCEPT ![r] = "pending"]
  /\ UNCHANGED <<sent, answer>>

(* Mutant: the recorder is emptied when the batch is sent. *)
ExecuteAndReset(e) ==
  /\ ~UnderWay(e)
  /\ Undisturbed
  /\ parts # << >>
  /\ sent' = [sent EXCEPT ![e] = parts]
  /\ parts' = << >>
  /\ deferred' = << >>
  /\ UNCHANGED <<promise, answer>>

(* batchExecute() up to its await; without parts it returns at once. *)
Execute(e) ==
  /\ ~UnderWay(e)
  /\ Undisturbed
  /\ parts # << >>
  /\ sent' = [sent EXCEPT ![e] = parts]
  /\ UNCHANGED <<recorder, promise, answer>>

(* Mutant: reset() forgets the promises. *)
ResetParts ==
  /\ parts' = << >>
  /\ UNCHANGED deferred

(* reset() of the recorder. *)
Reset ==
  /\ parts' = << >>
  /\ deferred' = << >>

(* The places of a promise among the deferred ones. *)
Places(r) == {i \in DOMAIN deferred : deferred[i] = r}

(* Mutant: responses are paired as far as they go. *)
ResolvePaired(responses, refused) ==
  /\ promise' =
       [r \in Request |->
          IF Places(r) = {} THEN promise[r]
          ELSE IF Places(r) \cap refused # {} THEN "rejected"
          ELSE IF \E i \in Places(r) : i <= Len(responses) THEN "fulfilled"
          ELSE promise[r]]
  /\ answer' =
       [r \in Request |->
          IF promise'[r] = "fulfilled" /\ promise[r] = "pending"
            THEN responses[CHOOSE i \in Places(r) : i <= Len(responses)]
            ELSE answer[r]]

(***************************************************************************)
(* resolveAll(): responses[i] is the request the i-th part responds to,    *)
(* refused the parts with a status of 400 or more.                         *)
(***************************************************************************)
ResolveAll(responses, refused) ==
  LET mismatch == Len(responses) # Len(deferred)
  IN /\ promise' =
          [r \in Request |->
             IF Places(r) = {} THEN promise[r]
             ELSE IF mismatch \/ Places(r) \cap refused # {} THEN "rejected"
             ELSE "fulfilled"]
     /\ answer' =
          [r \in Request |->
             IF Places(r) = {} \/ mismatch \/ Places(r) \cap refused # {}
               THEN answer[r]
               ELSE responses[CHOOSE i \in Places(r) : TRUE]]

(* The response is there: resolveAll() settles and resets. *)
Respond(e) ==
  /\ UnderWay(e)
  /\ \E n \in 0 .. Len(sent[e]) :
       \E refused \in SUBSET (1 .. n) :
         ResolveAll(SubSeq(sent[e], 1, n), refused)
  /\ Reset
  /\ sent' = [sent EXCEPT ![e] = << >>]

(* The batch request fails, or its response cannot be parsed. *)
Miss(e) ==
  /\ UnderWay(e)
  /\ sent' = [sent EXCEPT ![e] = << >>]
  /\ UNCHANGED <<recorder, promise, answer>>

(* reset() of the batch client. *)
Discard ==
  /\ Undisturbed
  /\ parts # << >>
  /\ Reset
  /\ UNCHANGED <<sent, promise, answer>>

-----------------------------------------------------------------------------
Init ==
  /\ parts = << >>
  /\ deferred = << >>
  /\ sent = [e \in Execution |-> << >>]
  /\ promise = [r \in Request |-> "unmade"]
  /\ answer = [r \in Request |-> r]

Next ==
  \/ \E r \in Request : Record(r)
  \/ \E e \in Execution : Execute(e) \/ Respond(e) \/ Miss(e)
  \/ Discard

Spec == Init /\ [][Next]_vars
-----------------------------------------------------------------------------
(***************************************************************************)
(* A promise that is fulfilled is fulfilled with the response to its own   *)
(* request, although responses carry no identity and requests may be       *)
(* recorded while the batch is under way: resolveAll() compares counts     *)
(* only, which is enough when Exclusive.  It is not otherwise: a late      *)
(* response can then meet as many promises of other requests.              *)
(***************************************************************************)
OwnResponse == \A r \in Request : promise[r] = "fulfilled" => answer[r] = r

(* A pending promise that the recorder no longer knows. *)
Dropped(r) == promise[r] = "pending" /\ Places(r) = {}

Fate(r) ==
  IF Dropped(r) THEN "dropped"
  ELSE IF promise[r] = "fulfilled" /\ answer[r] # r THEN "foreign"
  ELSE promise[r]

Promises == INSTANCE BatchPromises WITH fate <- [r \in Request |-> Fate(r)]

(***************************************************************************)
(* The recorder keeps the promise of a batch client (when Exclusive):      *)
(* resolveAll() settles all pending promises at once and each for good,    *)
(* nothing but reset() leaves one behind, and each is fulfilled with the   *)
(* response to its own request.                                            *)
(***************************************************************************)
KeepsPromises == Promises!Spec
=============================================================================
