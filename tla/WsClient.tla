------------------------------- MODULE WsClient -------------------------------
(***************************************************************************)
(* AdtClientsWS: requests and answers over one WebSocket.  request() puts  *)
(* its promise into the pending map under a correlation id, arms a timer   *)
(* and hands the message to the transport; the promise is settled by the   *)
(* message with that id, by the timer, or by the transport when it cannot  *)
(* send.  Messages that match no entry go to the event handlers.           *)
(*                                                                         *)
(* The id is a random UUID unless the caller gives one, as in a retry: the *)
(* model lets callers give any id, in use, used before or new.  Of the     *)
(* system it assumes that it answers a request at most once, and that the  *)
(* answer has the id of the request; it may take any time, or be lost,     *)
(* also because of disconnect(), which leaves the pending map alone.       *)
(***************************************************************************)
EXTENDS Naturals

CONSTANTS
  Request,      \* the calls of request()
  Correlation,  \* correlation ids
  None          \* no id, no request

ASSUME NoneAssumption == None \notin Request \cup Correlation

VARIABLES
  promise,      \* the state of the promise of each request
  id,           \* its correlation id
  pending,      \* the map from ids to requests
  armed,        \* requests whose timer is running
  sending,      \* requests whose transport.send() has not settled
  answered,     \* requests the system has answered
  inbox,        \* answers under way
  answer,       \* the request whose answer settled the promise
  strays        \* answers that went to the event handlers while somebody
                \* waited for them

client == <<promise, id, pending, armed, sending>>
vars   == <<client, answered, inbox, answer, strays>>

States == {"unmade", "pending", "resolved", "rejected"}

Message == [to : Request, kind : {"response", "error"}]

TypeOK ==
  /\ promise \in [Request -> States]
  /\ id \in [Request -> Correlation \cup {None}]
  /\ pending \in [Correlation -> Request \cup {None}]
  /\ armed \subseteq Request
  /\ sending \subseteq Request
  /\ answered \subseteq Request
  /\ inbox \subseteq Message
  /\ answer \in [Request -> Request]
  /\ strays \subseteq Message
  /\ \A r \in Request : (id[r] = None) <=> (promise[r] = "unmade")

(* Mutant: a rejected request is put back, to be made again. *)
SettleReopening(r, state) ==
  promise' = [promise EXCEPT ![r] = IF state = "rejected" THEN "unmade"
                                    ELSE state]

(* Settling a promise that is settled has no effect. *)
Settle(r, state) ==
  promise' = [promise EXCEPT ![r] = IF @ = "pending" THEN state ELSE @]

(* this.pending.delete(correlationId), whoever the entry is for. *)
Delete(c) == pending' = [pending EXCEPT ![c] = None]

-----------------------------------------------------------------------------
(* Mutant: an id that is in use keeps its entry. *)
MakeFirstWins(r, c) ==
  /\ promise[r] = "unmade"
  /\ promise' = [promise EXCEPT ![r] = "pending"]
  /\ id' = [id EXCEPT ![r] = c]
  /\ pending' = IF pending[c] = None THEN [pending EXCEPT ![c] = r] ELSE pending
  /\ armed' = IF pending[c] = None THEN armed \cup {r} ELSE armed
  /\ sending' = sending \cup {r}
  /\ UNCHANGED <<answered, inbox, answer, strays>>

(* request(), up to the call of transport.send(). *)
Make(r, c) ==
  /\ promise[r] = "unmade"
  /\ promise' = [promise EXCEPT ![r] = "pending"]
  /\ id' = [id EXCEPT ![r] = c]
  /\ pending' = [pending EXCEPT ![c] = r]
  /\ armed' = armed \cup {r}
  /\ sending' = sending \cup {r}
  /\ UNCHANGED <<answered, inbox, answer, strays>>

(* Mutant: the cleanup of the catch is in a finally. *)
SendFinally(r) ==
  /\ r \in sending
  /\ sending' = sending \ {r}
  /\ Delete(id[r])
  /\ UNCHANGED <<promise, id, armed, answered, inbox, answer, strays>>

(* transport.send() resolves; there is no then. *)
Sent(r) ==
  /\ r \in sending
  /\ sending' = sending \ {r}
  /\ UNCHANGED <<promise, id, pending, armed, answered, inbox, answer, strays>>

(* transport.send() rejects. *)
SendFails(r) ==
  /\ r \in sending
  /\ sending' = sending \ {r}
  /\ armed' = armed \ {r}
  /\ Delete(id[r])
  /\ Settle(r, "rejected")
  /\ UNCHANGED <<id, answered, inbox, answer, strays>>

(* Mutant: the callback of the timer does not delete the entry. *)
TimeoutLeavingEntry(r) ==
  /\ r \in armed
  /\ armed' = armed \ {r}
  /\ Settle(r, "rejected")
  /\ UNCHANGED <<id, pending, sending, answered, inbox, answer, strays>>

(* The timer of a request fires. *)
Timeout(r) ==
  /\ r \in armed
  /\ armed' = armed \ {r}
  /\ Delete(id[r])
  /\ Settle(r, "rejected")
  /\ UNCHANGED <<id, sending, answered, inbox, answer, strays>>

(* The system answers a request that has been handed to the transport. *)
Reply(r) ==
  /\ promise[r] # "unmade"
  /\ r \notin answered
  /\ answered' = answered \cup {r}
  /\ \E kind \in {"response", "error"} :
       inbox' = inbox \cup {[to |-> r, kind |-> kind]}
  /\ UNCHANGED <<client, answer, strays>>

(* Mutant: there is one slot for the request under way, as it were. *)
EntryOfAny(c) ==
  IF \E d \in Correlation : pending[d] # None
    THEN pending[CHOOSE d \in Correlation : pending[d] # None]
    ELSE None

(* The request a message with this id is for, if any. *)
EntryOf(c) == pending[c]

(* handleMessage() *)
Deliver(m) ==
  LET c == id[m.to]
      r == EntryOf(c)
  IN /\ m \in inbox
     /\ inbox' = inbox \ {m}
     /\ IF r # None
          THEN /\ armed' = armed \ {r}
               /\ Delete(c)
               /\ Settle(r, IF m.kind = "error" THEN "rejected" ELSE "resolved")
               /\ answer' = [answer EXCEPT ![r] = m.to]
               /\ UNCHANGED strays
          ELSE /\ strays' = IF promise[m.to] = "pending"
                              THEN strays \cup {m} ELSE strays
               /\ UNCHANGED <<promise, pending, armed, answer>>
     /\ UNCHANGED <<id, sending, answered>>

(* The answer is lost with the connection. *)
Drop(m) ==
  /\ m \in inbox
  /\ inbox' = inbox \ {m}
  /\ UNCHANGED <<client, answered, answer, strays>>

-----------------------------------------------------------------------------
Init ==
  /\ promise = [r \in Request |-> "unmade"]
  /\ id = [r \in Request |-> None]
  /\ pending = [c \in Correlation |-> None]
  /\ armed = {}
  /\ sending = {}
  /\ answered = {}
  /\ inbox = {}
  /\ answer = [r \in Request |-> r]
  /\ strays = {}

Next ==
  \/ \E r \in Request :
       \/ \E c \in Correlation : Make(r, c)
       \/ Sent(r) \/ SendFails(r) \/ Timeout(r) \/ Reply(r)
  \/ \E m \in inbox : Deliver(m) \/ Drop(m)

Spec == Init /\ [][Next]_vars

(* The timers of the runtime fire; nothing is assumed of the transport. *)
FairSpec == Spec /\ \A r \in Request : WF_vars(Timeout(r))

-----------------------------------------------------------------------------
(* No other request was made with the id of this one. *)
OwnId(r) == \A q \in Request \ {r} : id[q] # id[r]

(***************************************************************************)
(* No promise is orphaned: while it is pending its timer is running, even  *)
(* when another request takes over its entry, or its late failure deletes  *)
(* the entry of another.  And who has an entry is pending.                 *)
(***************************************************************************)
NoOrphan ==
  /\ \A r \in Request : promise[r] = "pending" <=> r \in armed
  /\ \A c \in Correlation : pending[c] # None => promise[pending[c]] = "pending"

(***************************************************************************)
(* A request with an id of its own is settled by its own answer or by      *)
(* none, and its answer is not taken for an event while it waits.  (With a *)
(* reused id neither holds: a retry can be given the late answer to the    *)
(* request it repeats.)                                                    *)
(***************************************************************************)
OwnAnswer ==
  /\ \A r \in Request : promise[r] # "unmade" /\ OwnId(r) => answer[r] = r
  /\ \A m \in strays : ~OwnId(m.to)

(***************************************************************************)
(* Every request settles, whatever the transport and the system do and     *)
(* whatever ids are used.                                                  *)
(***************************************************************************)
EveryRequestSettles ==
  \A r \in Request : promise[r] = "pending" ~> promise[r] # "pending"
=============================================================================
