--------------------------- MODULE WsClient_proofs ---------------------------
(***************************************************************************)
(* Proofs about WsClient, for any requests and correlation ids.  IInv adds *)
(* to the invariants that an entry of the pending map is for a pending     *)
(* request with that id, and that a pending request that shares its id     *)
(* with no other does have its entry.                                      *)
(***************************************************************************)
EXTENDS WsClient, TLAPS

Entries ==
  \A c \in Correlation :
    pending[c] # None => id[pending[c]] = c /\ promise[pending[c]] = "pending"

OwnEntry ==
  \A r \in Request : promise[r] = "pending" /\ OwnId(r) => pending[id[r]] = r

Made ==
  /\ \A r \in sending \cup answered : promise[r] # "unmade"
  /\ \A m \in inbox \cup strays : promise[m.to] # "unmade"
  /\ \A r \in Request : promise[r] = "unmade" => answer[r] = r

Armed == \A r \in Request : promise[r] = "pending" <=> r \in armed

IInv == TypeOK /\ Entries /\ OwnEntry /\ Made /\ Armed /\ OwnAnswer

(* An id once given stays, so what is shared stays shared.                 *)
LEMMA SharedStays ==
  ASSUME TypeOK, NEW r \in Request, promise[r] # "unmade", ~OwnId(r),
         \A q \in Request : id[q] # None => id'[q] = id[q]
  PROVE  ~OwnId(r)'
BY DEF TypeOK, OwnId

LEMMA InitHolds == Init => IInv
BY DEF Init, IInv, TypeOK, Entries, OwnEntry, Made, Armed, OwnAnswer, OwnId,
       States, Message

LEMMA MakeKeeps ==
  ASSUME IInv, NEW r \in Request, NEW c \in Correlation, Make(r, c)
  PROVE  IInv'
<1> USE NoneAssumption DEF Make
<1>1. TypeOK'
  BY DEF IInv, TypeOK, States
<1>2. Made'
  BY DEF IInv, TypeOK, Made, Message
<1>8. Armed'
  BY DEF IInv, TypeOK, Armed
<1>3. Entries'
  <2> SUFFICES ASSUME NEW d \in Correlation, pending'[d] # None
               PROVE  /\ id'[pending'[d]] = d
                      /\ promise'[pending'[d]] = "pending"
    BY DEF Entries
  <2>1. CASE d = c
    BY <2>1 DEF IInv, TypeOK
  <2>2. CASE d # c
    <3>1. /\ pending'[d] = pending[d]
          /\ pending[d] \in Request
          /\ id[pending[d]] = d
          /\ promise[pending[d]] = "pending"
      BY <2>2 DEF IInv, TypeOK, Entries
    <3>2. pending[d] # r
      BY <3>1
    <3> QED
      BY <3>1, <3>2 DEF IInv, TypeOK
  <2> QED
    BY <2>1, <2>2
<1>4. ASSUME NEW q \in Request \ {r}, promise[q] # "unmade", OwnId(q)'
      PROVE  OwnId(q) /\ id[q] # c
  <2>1. id'[r] = c /\ \A p \in Request \ {r} : id'[p] = id[p]
    BY DEF IInv, TypeOK
  <2>2. id[q] # c
    BY <1>4, <2>1 DEF OwnId
  <2>3. id[q] # None /\ id[r] = None
    BY <1>4 DEF IInv, TypeOK
  <2> QED
    BY <1>4, <2>1, <2>2, <2>3 DEF OwnId
<1>5. OwnEntry'
  BY <1>4 DEF IInv, TypeOK, OwnEntry
<1>6. \A q \in Request : promise'[q] # "unmade" /\ OwnId(q)' => answer'[q] = q
  <2> SUFFICES ASSUME NEW q \in Request, promise'[q] # "unmade", OwnId(q)'
               PROVE  answer[q] = q
    OBVIOUS
  <2>1. CASE q = r
    BY <2>1 DEF IInv, Made, TypeOK, OwnAnswer
  <2>2. CASE q # r
    <3>1. promise[q] # "unmade"
      BY <2>2 DEF IInv, TypeOK
    <3> QED
      BY <1>4, <2>2, <3>1 DEF IInv, TypeOK, OwnAnswer
  <2> QED
    BY <2>1, <2>2
<1>7. \A m \in strays' : ~OwnId(m.to)'
  BY SharedStays DEF IInv, TypeOK, Made, OwnAnswer, Message
<1> QED
  BY <1>1, <1>2, <1>3, <1>5, <1>6, <1>7, <1>8 DEF IInv, OwnAnswer

(* What ends a request deletes the entry of its id, which is its own or    *)
(* that of another request with the same id.                               *)
LEMMA EndKeeps ==
  ASSUME IInv, NEW r \in Request, promise[r] # "unmade",
         armed' = armed \ {r}, Delete(id[r]), Settle(r, "rejected"),
         sending' \subseteq sending,
         UNCHANGED <<id, answered, inbox, answer, strays>>
  PROVE  IInv'
<1> USE DEF Delete, Settle
<1>1. TypeOK'
  BY DEF IInv, TypeOK, States
<1>2. Made' /\ Armed'
  BY DEF IInv, TypeOK, Made, Armed, Message
<1>3. Entries'
  BY NoneAssumption DEF IInv, TypeOK, Entries
<1>4. \A q \in Request : OwnId(q)' <=> OwnId(q)
  BY DEF OwnId
<1>5. OwnEntry'
  BY <1>4 DEF IInv, TypeOK, OwnEntry, OwnId
<1>6. OwnAnswer'
  BY <1>4 DEF IInv, TypeOK, OwnAnswer, Message
<1> QED
  BY <1>1, <1>2, <1>3, <1>5, <1>6 DEF IInv

LEMMA DeliverKeeps ==
  ASSUME IInv, NEW m \in inbox, Deliver(m)
  PROVE  IInv'
<1> DEFINE c == id[m.to]
           r == pending[c]
<1>1. /\ m \in Message
      /\ m.to \in Request
      /\ m.kind \in {"response", "error"}
      /\ promise[m.to] # "unmade"
      /\ c \in Correlation
  BY DEF IInv, TypeOK, Made, Message
<1>2. \A q \in Request : OwnId(q)' <=> OwnId(q)
  BY DEF Deliver, OwnId
<1>3. CASE r # None
  <2>1. /\ r \in Request
        /\ id[r] = c
        /\ promise[r] = "pending"
    BY <1>1, <1>3 DEF IInv, TypeOK, Entries
  <2>2. PICK s \in {"resolved", "rejected"} :
          promise' = [promise EXCEPT ![r] = s]
    BY <1>3, <2>1 DEF Deliver, EntryOf, Settle, IInv, TypeOK
  <2>3. /\ pending' = [pending EXCEPT ![c] = None]
        /\ armed' = armed \ {r}
        /\ answer' = [answer EXCEPT ![r] = m.to]
        /\ inbox' = inbox \ {m}
        /\ UNCHANGED <<id, sending, answered, strays>>
    BY <1>3 DEF Deliver, EntryOf, Delete
  <2> HIDE DEF c, r
  <2>4. TypeOK'
    BY <1>1, <2>1, <2>2, <2>3 DEF IInv, TypeOK, States
  <2>5. Made' /\ Armed'
    BY <2>1, <2>2, <2>3 DEF IInv, TypeOK, Made, Armed, Message
  <2>6. Entries'
    BY <1>1, <2>1, <2>2, <2>3, NoneAssumption DEF IInv, TypeOK, Entries
  <2>7. OwnEntry'
    <3> SUFFICES ASSUME NEW q \in Request, promise'[q] = "pending", OwnId(q)
                 PROVE  pending'[id[q]] = q
      BY <1>2, <2>3 DEF OwnEntry
    <3>1. q # r /\ promise[q] = "pending"
      BY <2>1, <2>2 DEF IInv, TypeOK
    <3>2. id[q] # c
      BY <2>1, <3>1 DEF OwnId
    <3> QED
      BY <2>3, <3>1, <3>2 DEF IInv, TypeOK, OwnEntry
  <2>8. OwnId(r) => m.to = r
    BY <1>1, <2>1 DEF OwnId, c
  <2>9. ASSUME NEW q \in Request, promise'[q] # "unmade", OwnId(q)
        PROVE  answer'[q] = q
    <3>1. promise[q] # "unmade"
      BY <2>1, <2>2, <2>9 DEF IInv, TypeOK
    <3>2. answer[q] = q
      BY <2>9, <3>1 DEF IInv, OwnAnswer
    <3> QED
      BY <1>1, <2>1, <2>3, <2>8, <2>9, <3>2 DEF IInv, TypeOK
  <2>10. OwnAnswer'
    BY <1>2, <2>3, <2>9 DEF IInv, TypeOK, OwnAnswer, Message
  <2> QED
    BY <2>4, <2>5, <2>6, <2>7, <2>10 DEF IInv
<1>4. CASE r = None
  <2>1. /\ inbox' = inbox \ {m}
        /\ strays' = IF promise[m.to] = "pending" THEN strays \cup {m}
                                                  ELSE strays
        /\ UNCHANGED <<promise, pending, armed, answer, id, sending, answered>>
    BY <1>4 DEF Deliver, EntryOf
  <2>2. promise[m.to] = "pending" => ~OwnId(m.to)
    BY <1>1, <1>4, NoneAssumption DEF IInv, OwnEntry
  <2> HIDE DEF c, r
  <2>3. TypeOK' /\ Made'
    BY <1>1, <2>1 DEF IInv, TypeOK, Made
  <2>4. Entries' /\ Armed' /\ OwnEntry'
    BY <1>2, <2>1 DEF IInv, Entries, Armed, OwnEntry
  <2>5. OwnAnswer'
    BY <1>2, <2>1, <2>2, <1>1 DEF IInv, TypeOK, OwnAnswer, Message
  <2> QED
    BY <2>3, <2>4, <2>5 DEF IInv
<1> QED
  BY <1>3, <1>4

(* The steps that neither make nor end a request.                          *)
LEMMA OtherKeeps ==
  ASSUME IInv, UNCHANGED <<promise, id, pending, armed, answer, strays>>,
         TypeOK', sending' \subseteq sending,
         \A r \in answered' : r \in answered \/ promise[r] # "unmade",
         \A m \in inbox' : m \in inbox \/ promise[m.to] # "unmade"
  PROVE  IInv'
BY DEF IInv, Entries, OwnEntry, Made, Armed, OwnAnswer, OwnId

LEMMA NextKeeps ==
  ASSUME IInv, [Next]_vars
  PROVE  IInv'
<1>1. CASE UNCHANGED vars
  BY <1>1 DEF vars, client, IInv, TypeOK, Entries, OwnEntry, Made, Armed,
              OwnAnswer, OwnId
<1>2. ASSUME NEW r \in Request, NEW c \in Correlation, Make(r, c)
      PROVE  IInv'
  BY <1>2, MakeKeeps
<1>3. ASSUME NEW r \in Request, Sent(r)
      PROVE  IInv'
  <2>1. TypeOK'
    BY <1>3 DEF Sent, IInv, TypeOK
  <2> QED
    BY <1>3, <2>1, OtherKeeps DEF Sent
<1>4. ASSUME NEW r \in Request, SendFails(r)
      PROVE  IInv'
  <2>1. promise[r] # "unmade"
    BY <1>4 DEF SendFails, IInv, Made
  <2> QED
    BY <1>4, <2>1, EndKeeps DEF SendFails
<1>5. ASSUME NEW r \in Request, Timeout(r)
      PROVE  IInv'
  <2>1. promise[r] # "unmade"
    BY <1>5 DEF Timeout, IInv, Armed
  <2> QED
    BY <1>5, <2>1, EndKeeps DEF Timeout
<1>6. ASSUME NEW r \in Request, Reply(r)
      PROVE  IInv'
  <2>1. TypeOK'
    BY <1>6 DEF Reply, client, IInv, TypeOK, Message
  <2>2. \A m \in inbox' : m \in inbox \/ promise[m.to] # "unmade"
    BY <1>6 DEF Reply
  <2> QED
    BY <1>6, <2>1, <2>2, OtherKeeps DEF Reply, client
<1>7. ASSUME NEW m \in inbox, Deliver(m)
      PROVE  IInv'
  BY <1>7, DeliverKeeps
<1>8. ASSUME NEW m \in inbox, Drop(m)
      PROVE  IInv'
  <2>1. TypeOK'
    BY <1>8 DEF Drop, client, IInv, TypeOK
  <2> QED
    BY <1>8, <2>1, OtherKeeps DEF Drop, client
<1> QED
  BY <1>1, <1>2, <1>3, <1>4, <1>5, <1>6, <1>7, <1>8 DEF Next

LEMMA Invariance == Spec => []IInv
<1>1. Init => IInv
  BY InitHolds
<1>2. IInv /\ [Next]_vars => IInv'
  BY NextKeeps
<1> QED
  BY <1>1, <1>2, PTL DEF Spec

(***************************************************************************)
(* The types, and that a request has an id exactly when it was made.       *)
(***************************************************************************)
THEOREM Typing == Spec => []TypeOK
<1>1. IInv => TypeOK
  BY DEF IInv
<1> QED
  BY <1>1, Invariance, PTL

(***************************************************************************)
(* Every pending promise of request() has its timer running, whatever ids  *)
(* are reused and however sending fails (AdtClientsWS.request): none can   *)
(* be orphaned.                                                            *)
(***************************************************************************)
THEOREM NoOrphans == Spec => []NoOrphan
<1>1. IInv => NoOrphan
  BY DEF IInv, Entries, Armed, NoOrphan
<1> QED
  BY <1>1, Invariance, PTL

(***************************************************************************)
(* A request whose id no other uses is settled by its own answer or none,  *)
(* and its answer never reaches the event handlers while it waits.         *)
(***************************************************************************)
THEOREM OwnAnswers == Spec => []OwnAnswer
<1>1. IInv => OwnAnswer
  BY DEF IInv
<1> QED
  BY <1>1, Invariance, PTL
=============================================================================
