--------------------------- MODULE AcceptNegotiation ---------------------------
(***************************************************************************)
(* utils/acceptNegotiation.ts: a request refused with 406 or 415 is sent   *)
(* once more with the media types the refusal names, and what was learned  *)
(* is kept in two caches, one per header, by method and URL.  The caches   *)
(* and the switch belong to the module: the clients of every connection    *)
(* in the process share them, and calls are suspended at each await.       *)
(*                                                                         *)
(* A media type is an element of Type; an Accept header is a set of them,  *)
(* {} when there is none.  Of a system the model assumes that whether it   *)
(* serves a request depends on the request alone, that a refused request   *)
(* has no effect, and that its refusals of one resource name the same      *)
(* types each time; which types those are is left open.                    *)
(***************************************************************************)
EXTENDS Naturals

CONSTANTS
  Call,         \* calls of makeAdtRequest
  Connection,
  Method, Url,  \* HTTP methods, URLs
  Type,         \* media types
  Asks,         \* the headers callers give
  None,         \* no media type
  Serves,       \* Serves[c][k]: the types c's system can answer k in
  Takes,        \* Takes[c][k]: the types it takes as k's body
  Names,        \* Names[c][k]: what extractSupportedAccept() finds in its 406
  Suggests,     \* Suggests[c][k]: what extractSupportedContentType() finds
                \* first in its 415, or None
  Environment   \* whether ADT_ACCEPT_CORRECTION is not "false"

Key     == Method \X Url
Headers == [accept : SUBSET Type, content : Type \cup {None}]
Target  == [conn : Connection, method : Method, url : Url]

ASSUME NoneAssumption == None \notin Type
ASSUME TargetAssumption == Connection # {} /\ Method # {} /\ Url # {}
ASSUME AsksAssumption == Asks \subseteq Headers
ASSUME SystemsAssumption ==
  /\ Serves \in [Connection -> [Key -> SUBSET Type]]
  /\ Takes \in [Connection -> [Key -> SUBSET (Type \cup {None})]]
  /\ Names \in [Connection -> [Key -> SUBSET Type]]
  /\ Suggests \in [Connection -> [Key -> Type \cup {None}]]
  /\ Environment \in BOOLEAN

VARIABLES
  acceptCache,       \* by key; {}: no entry
  contentTypeCache,  \* by key; None: no entry
  override,          \* acceptCorrectionOverride
  wrapped,           \* connections whose makeAdtRequest negotiates
  pc,                \* where each call is
  to,                \* its connection, method and URL
  asked,             \* the headers its caller gave
  correcting,        \* its enableCorrection
  sent,              \* the headers it sent last
  retry,             \* the header it retried with another value
  performed,         \* how often the system performed it
  heardAccept,       \* by key: what refusals named since the caches were
  heardContentType   \* last cleared

caches == <<acceptCache, contentTypeCache>>
switch == <<override, wrapped>>
heard  == <<heardAccept, heardContentType>>
begun  == <<to, asked, correcting>>
vars   == <<caches, switch, pc, begun, sent, retry, performed, heard>>

Options == {"unset", "on", "off"}

TypeOK ==
  /\ acceptCache \in [Key -> SUBSET Type]
  /\ contentTypeCache \in [Key -> Type \cup {None}]
  /\ override \in Options
  /\ wrapped \subseteq Connection
  /\ pc \in [Call -> {"idle", "waiting", "served", "failed",
                      "refused406", "refused415"}]
  /\ to \in [Call -> Target]
  /\ asked \in [Call -> Headers]
  /\ correcting \in [Call -> BOOLEAN]
  /\ sent \in [Call -> Headers]
  /\ retry \in [Call -> {"none", "accept", "content"}]
  /\ performed \in [Call -> Nat]
  /\ heardAccept \in [Key -> SUBSET SUBSET Type]
  /\ heardContentType \in [Key -> SUBSET Type]

-----------------------------------------------------------------------------
(* The system: what it has at a target, and what it thinks of a request.   *)
Resource(t) == <<t.method, t.url>>
Named(t)     == Names[t.conn][Resource(t)]
Suggested(t) == Suggests[t.conn][Resource(t)]

NotAcceptable(t, h) ==
  h.accept # {} /\ h.accept \cap Serves[t.conn][Resource(t)] = {}
UnsupportedMediaType(t, h) ==
  h.content \notin Takes[t.conn][Resource(t)]

-----------------------------------------------------------------------------
(* Mutant: the key is the URL alone. *)
BuildCacheKeyByUrl(t) == <<CHOOSE m \in Method : TRUE, t.url>>

BuildCacheKey(t) == <<t.method, t.url>>

(* getAcceptCorrectionEnabled(), when the override is o *)
Enabled(o) == o = "on" \/ (o = "unset" /\ Environment)

(* The constructor of AdtClient or AdtRuntimeClient, on connection c with  *)
(* this enableAcceptCorrection.                                            *)
Construct(c, option) ==
  /\ override' = IF option = "unset" THEN override ELSE option
  /\ wrapped' = IF Enabled(override') THEN wrapped \cup {c} ELSE wrapped
  /\ UNCHANGED <<caches, pc, begun, sent, retry, performed, heard>>

(* Mutant: only the first of the caches is cleared. *)
ClearAcceptOnly ==
  /\ acceptCache' = [k \in Key |-> {}]
  /\ heardAccept' = [k \in Key |-> {}]
  /\ heardContentType' = [k \in Key |-> {}]
  /\ UNCHANGED <<contentTypeCache, switch, pc, begun, sent, retry, performed>>

ClearAcceptCache ==
  /\ acceptCache' = [k \in Key |-> {}]
  /\ contentTypeCache' = [k \in Key |-> None]
  /\ heardAccept' = [k \in Key |-> {}]
  /\ heardContentType' = [k \in Key |-> {}]
  /\ UNCHANGED <<switch, pc, begun, sent, retry, performed>>

(* Mutant: the caches are read whether the call corrects or not. *)
FirstHeadersAlways(t, h, correct) ==
  LET k == BuildCacheKey(t)
  IN [accept |-> IF acceptCache[k] # {} THEN acceptCache[k] ELSE h.accept,
      content |-> IF contentTypeCache[k] # None
                    THEN contentTypeCache[k] ELSE h.content]

(* What the first request says: a cached value replaces the caller's.      *)
FirstHeaders(t, h, correct) ==
  LET k == BuildCacheKey(t)
  IN [accept |-> IF correct /\ acceptCache[k] # {}
                   THEN acceptCache[k] ELSE h.accept,
      content |-> IF correct /\ contentTypeCache[k] # None
                    THEN contentTypeCache[k] ELSE h.content]

(* A call begins.  Some code calls makeAdtRequestWithAcceptNegotiation()   *)
(* directly, and so negotiates on a connection that is not wrapped; on one *)
(* that is, both ways reach the request beneath the wrapper.               *)
MakeRequest(p, t, h, directly) ==
  /\ pc[p] = "idle"
  /\ pc' = [pc EXCEPT ![p] = "waiting"]
  /\ to' = [to EXCEPT ![p] = t]
  /\ asked' = [asked EXCEPT ![p] = h]
  /\ correcting' = [correcting EXCEPT ![p] =
       (directly \/ t.conn \in wrapped) /\ Enabled(override)]
  /\ sent' = [sent EXCEPT ![p] = FirstHeaders(t, h, correcting'[p])]
  /\ UNCHANGED <<caches, switch, retry, performed, heard>>

(* Mutant: no retry when the cache has the value, which another call may   *)
(* have put there while this one was waiting.                              *)
CorrectsAcceptUnlessCached(p) ==
  /\ correcting[p] /\ retry[p] = "none"
  /\ Named(to[p]) # {}
  /\ acceptCache[BuildCacheKey(to[p])] # Named(to[p])

CorrectsAccept(p) ==
  /\ correcting[p] /\ retry[p] = "none"
  /\ Named(to[p]) # {} /\ sent[p].accept # Named(to[p])

CorrectsContentType(p) ==
  /\ correcting[p] /\ retry[p] = "none"
  /\ Suggested(to[p]) # None /\ sent[p].content # Suggested(to[p])

(* The answer is a 406. *)
Refused406(p) ==
  /\ pc[p] = "waiting" /\ NotAcceptable(to[p], sent[p])
  /\ heardAccept' = [heardAccept EXCEPT ![Resource(to[p])] =
                       @ \cup {Named(to[p])}]
  /\ \/ /\ CorrectsAccept(p)
        /\ acceptCache' =
             [acceptCache EXCEPT ![BuildCacheKey(to[p])] = Named(to[p])]
        /\ sent' = [sent EXCEPT ![p].accept = Named(to[p])]
        /\ retry' = [retry EXCEPT ![p] = "accept"]
        /\ UNCHANGED pc
     \/ /\ ~CorrectsAccept(p)
        /\ pc' = [pc EXCEPT ![p] = "refused406"]
        /\ UNCHANGED <<acceptCache, sent, retry>>
  /\ UNCHANGED <<contentTypeCache, switch, begun, performed, heardContentType>>

(* Mutant: the whole list of types is cached, as for Accept. *)
Refused415CachingList(p) ==
  /\ pc[p] = "waiting" /\ UnsupportedMediaType(to[p], sent[p])
  /\ CorrectsContentType(p)
  /\ contentTypeCache' =
       [contentTypeCache EXCEPT ![BuildCacheKey(to[p])] = {Suggested(to[p])}]
  /\ sent' = [sent EXCEPT ![p].content = Suggested(to[p])]
  /\ retry' = [retry EXCEPT ![p] = "content"]
  /\ UNCHANGED <<acceptCache, switch, pc, begun, performed, heard>>

(* The answer is a 415; of the types it names the retry takes the first.   *)
Refused415(p) ==
  /\ pc[p] = "waiting" /\ UnsupportedMediaType(to[p], sent[p])
  /\ heardContentType' = [heardContentType EXCEPT ![Resource(to[p])] =
                            @ \cup ({Suggested(to[p])} \ {None})]
  /\ \/ /\ CorrectsContentType(p)
        /\ contentTypeCache' =
             [contentTypeCache EXCEPT ![BuildCacheKey(to[p])] = Suggested(to[p])]
        /\ sent' = [sent EXCEPT ![p].content = Suggested(to[p])]
        /\ retry' = [retry EXCEPT ![p] = "content"]
        /\ UNCHANGED pc
     \/ /\ ~CorrectsContentType(p)
        /\ pc' = [pc EXCEPT ![p] = "refused415"]
        /\ UNCHANGED <<contentTypeCache, sent, retry>>
  /\ UNCHANGED <<acceptCache, switch, begun, performed, heardAccept>>

(* The system performs the request, and its answer arrives. *)
Served(p) ==
  /\ pc[p] = "waiting"
  /\ ~NotAcceptable(to[p], sent[p]) /\ ~UnsupportedMediaType(to[p], sent[p])
  /\ performed' = [performed EXCEPT ![p] = @ + 1]
  /\ pc' = [pc EXCEPT ![p] = "served"]
  /\ UNCHANGED <<caches, switch, begun, sent, retry, heard>>

(* Mutant: any failure is worth a retry. *)
FailsRetrying(p) ==
  /\ pc[p] = "waiting"
  /\ \/ UNCHANGED performed
     \/ /\ ~NotAcceptable(to[p], sent[p])
        /\ ~UnsupportedMediaType(to[p], sent[p])
        /\ performed' = [performed EXCEPT ![p] = @ + 1]
  /\ IF correcting[p] /\ retry[p] = "none"
       THEN retry' = [retry EXCEPT ![p] = "accept"] /\ UNCHANGED pc
       ELSE pc' = [pc EXCEPT ![p] = "failed"] /\ UNCHANGED retry
  /\ UNCHANGED <<caches, switch, begun, sent, heard>>

(* The call fails in another way; its answer may have been lost.           *)
Fails(p) ==
  /\ pc[p] = "waiting"
  /\ \/ UNCHANGED performed
     \/ /\ ~NotAcceptable(to[p], sent[p])
        /\ ~UnsupportedMediaType(to[p], sent[p])
        /\ performed' = [performed EXCEPT ![p] = @ + 1]
  /\ pc' = [pc EXCEPT ![p] = "failed"]
  /\ UNCHANGED <<caches, switch, begun, sent, retry, heard>>

-----------------------------------------------------------------------------
Init ==
  /\ acceptCache = [k \in Key |-> {}]
  /\ contentTypeCache = [k \in Key |-> None]
  /\ override = "unset"
  /\ wrapped = {}
  /\ pc = [p \in Call |-> "idle"]
  /\ to = [p \in Call |-> CHOOSE t \in Target : TRUE]
  /\ asked = [p \in Call |-> [accept |-> {}, content |-> None]]
  /\ correcting = [p \in Call |-> FALSE]
  /\ sent = asked
  /\ retry = [p \in Call |-> "none"]
  /\ performed = [p \in Call |-> 0]
  /\ heardAccept = [k \in Key |-> {}]
  /\ heardContentType = [k \in Key |-> {}]

Next ==
  \/ \E c \in Connection, option \in Options : Construct(c, option)
  \/ ClearAcceptCache
  \/ \E p \in Call :
       \/ \E t \in Target, h \in Asks, directly \in BOOLEAN :
            MakeRequest(p, t, h, directly)
       \/ Refused406(p) \/ Refused415(p) \/ Served(p) \/ Fails(p)

Spec == Init /\ [][Next]_vars

-----------------------------------------------------------------------------
(***************************************************************************)
(* Correction never repeats an effect: however the answers of a call are   *)
(* refused, lost or late, the system performs it at most once.             *)
(***************************************************************************)
OneEffect == \A p \in Call : performed[p] <= 1

(***************************************************************************)
(* What the caches hold for a method and URL is what a refusal of that     *)
(* very method and URL named, one that arrived after clearAcceptCache():   *)
(* no call that was under way then, or that used what it had read before,  *)
(* puts back what was forgotten.                                           *)
(***************************************************************************)
ClearForgets ==
  \A k \in Key :
    /\ acceptCache[k] # {} => acceptCache[k] \in heardAccept[k]
    /\ contentTypeCache[k] # None => contentTypeCache[k] \in heardContentType[k]

(***************************************************************************)
(* A call that began while correction was off, or on a connection that was *)
(* not wrapped, says what its caller asked, in its only request, although  *)
(* the caches are full and clients switch correction on under it.          *)
(***************************************************************************)
OffIsVerbatim ==
  \A p \in Call :
    pc[p] # "idle" /\ ~correcting[p] => sent[p] = asked[p] /\ retry[p] = "none"

(***************************************************************************)
(* A call that corrects, to a system whose refusals name a type it serves  *)
(* and first a type it takes, is refused for one header only when its one  *)
(* retry was spent on the other: not because another call, or a call on    *)
(* another connection to another system, changed the caches under it.      *)
(***************************************************************************)
Candid(t) ==
  /\ Named(t) \cap Serves[t.conn][Resource(t)] # {}
  /\ Suggested(t) \in Takes[t.conn][Resource(t)] \ {None}

RetrySuffices ==
  \A p \in Call :
    correcting[p] /\ Candid(to[p]) =>
      /\ pc[p] = "refused406" => retry[p] = "content"
      /\ pc[p] = "refused415" => retry[p] = "accept"
=============================================================================
