----------------------- MODULE AcceptNegotiation_proofs -----------------------
(***************************************************************************)
(* Proofs about AcceptNegotiation, for any calls, connections, media types *)
(* and systems.  IInv adds to the invariants that a call that has not      *)
(* retried or not begun is as it was, that what is waiting has not been    *)
(* performed, and that a retry says what the refusal named.                *)
(***************************************************************************)
EXTENDS AcceptNegotiation, TLAPS

Progress ==
  \A p \in Call :
    /\ pc[p] \in {"idle", "waiting"} => performed[p] = 0
    /\ pc[p] = "idle" => retry[p] = "none"

Retried ==
  \A p \in Call :
    /\ retry[p] = "accept" => sent[p].accept = Named(to[p])
    /\ retry[p] = "content" => sent[p].content = Suggested(to[p])

IInv == /\ TypeOK /\ Progress /\ OneEffect /\ ClearForgets
        /\ OffIsVerbatim /\ Retried /\ RetrySuffices

USE DEF Key, Target, Headers, Options, caches, switch, heard, begun

LEMMA InitHolds == Init => IInv
<1> SUFFICES ASSUME Init PROVE IInv
  OBVIOUS
<1>1. (CHOOSE t \in Target : TRUE) \in Target
  <2>1. PICK c \in Connection, m \in Method, u \in Url : TRUE
    BY TargetAssumption
  <2>2. [conn |-> c, method |-> m, url |-> u] \in Target
    OBVIOUS
  <2> HIDE DEF Target
  <2> QED
    BY <2>2
<1>2. TypeOK
  <2> HIDE DEF Target
  <2> QED
    BY <1>1 DEF Init, TypeOK
<1> QED
  BY <1>2 DEF Init, IInv, Progress, OneEffect, ClearForgets, OffIsVerbatim,
              Retried, RetrySuffices

(* What a call refers to has its type.                                     *)
LEMMA Systems ==
  ASSUME NEW t \in Target
  PROVE  /\ Resource(t) \in Key /\ BuildCacheKey(t) = Resource(t)
         /\ Named(t) \in SUBSET Type
         /\ Suggested(t) \in Type \cup {None}
BY SystemsAssumption DEF Resource, BuildCacheKey, Named, Suggested

(* Steps of the module's functions leave the calls alone, and the caches   *)
(* hold what was heard.                                                    *)
LEMMA SwitchKeeps ==
  ASSUME IInv,
         \/ \E c \in Connection, option \in Options : Construct(c, option)
         \/ ClearAcceptCache
  PROVE  IInv'
<1>1. UNCHANGED <<pc, to, asked, correcting, sent, retry, performed>>
  BY DEF Construct, ClearAcceptCache
<1>2. TypeOK' /\ ClearForgets'
  BY DEF IInv, TypeOK, ClearForgets, Construct, ClearAcceptCache
<1> QED
  BY <1>1, <1>2 DEF IInv, Progress, OneEffect, OffIsVerbatim, Retried,
                    RetrySuffices

LEMMA RequestKeeps ==
  ASSUME IInv, NEW p \in Call, NEW t \in Target, NEW h \in Asks,
         NEW directly \in BOOLEAN, MakeRequest(p, t, h, directly)
  PROVE  IInv'
<1> USE DEF MakeRequest
<1>1. FirstHeaders(t, h, correcting'[p]) \in Headers
  BY AsksAssumption, Systems DEF IInv, TypeOK, FirstHeaders
<1>2. ~correcting'[p] => FirstHeaders(t, h, correcting'[p]) = h
  BY AsksAssumption DEF FirstHeaders
<1>3. correcting' \in [Call -> BOOLEAN]
  BY DEF IInv, TypeOK, Enabled
<1>4. TypeOK'
  BY <1>1, <1>3, AsksAssumption DEF IInv, TypeOK
<1>5. \A q \in Call \ {p} : /\ pc'[q] = pc[q] /\ to'[q] = to[q]
                            /\ asked'[q] = asked[q] /\ sent'[q] = sent[q]
                            /\ correcting'[q] = correcting[q]
  BY DEF IInv, TypeOK
<1>6. /\ pc'[p] = "waiting" /\ asked'[p] = h /\ retry'[p] = "none"
      /\ sent'[p] = FirstHeaders(t, h, correcting'[p])
  BY DEF IInv, TypeOK, Progress
<1>7. Progress' /\ OneEffect' /\ ClearForgets'
  BY <1>5, <1>6 DEF IInv, Progress, OneEffect, ClearForgets
<1>8. OffIsVerbatim' /\ Retried' /\ RetrySuffices'
  BY <1>2, <1>5, <1>6 DEF IInv, OffIsVerbatim, Retried, RetrySuffices
<1> QED
  BY <1>4, <1>7, <1>8 DEF IInv

(* A step of one call keeps the invariants on headers if it keeps them for *)
(* that call.                                                              *)
LEMMA CallKeeps ==
  ASSUME IInv, NEW p \in Call, pc[p] # "idle",
         UNCHANGED <<to, asked, correcting>>,
         \A q \in Call \ {p} : /\ pc'[q] = pc[q] /\ sent'[q] = sent[q]
                               /\ retry'[q] = retry[q],
         ~correcting[p] => sent'[p] = sent[p] /\ retry'[p] = retry[p],
         retry'[p] = "accept" => sent'[p].accept = Named(to[p]),
         retry'[p] = "content" => sent'[p].content = Suggested(to[p]),
         correcting[p] /\ Candid(to[p]) =>
           /\ pc'[p] = "refused406" => retry'[p] = "content"
           /\ pc'[p] = "refused415" => retry'[p] = "accept"
  PROVE  OffIsVerbatim' /\ Retried' /\ RetrySuffices'
<1>1. OffIsVerbatim'
  BY DEF IInv, OffIsVerbatim
<1>2. Retried'
  <2> SUFFICES ASSUME NEW q \in Call
               PROVE  /\ retry'[q] = "accept" => sent'[q].accept = Named(to[q])
                      /\ retry'[q] = "content" =>
                           sent'[q].content = Suggested(to[q])
    BY DEF Retried, Named, Suggested, Resource
  <2> QED
    BY DEF IInv, Retried
<1>3. RetrySuffices'
  <2> SUFFICES ASSUME NEW q \in Call, correcting[q], Candid(to[q])
               PROVE  /\ pc'[q] = "refused406" => retry'[q] = "content"
                      /\ pc'[q] = "refused415" => retry'[q] = "accept"
    BY DEF RetrySuffices, Candid, Named, Suggested, Resource
  <2> QED
    BY DEF IInv, RetrySuffices
<1> QED
  BY <1>1, <1>2, <1>3

(* A call that retries after a refusal corrects.  When it does not retry,  *)
(* it has, or the refusal names nothing the system serves.                 *)
LEMMA AcceptKeeps ==
  ASSUME IInv, NEW p \in Call, Refused406(p)
  PROVE  IInv'
<1> USE DEF Refused406
<1>1. /\ to[p] \in Target /\ UNCHANGED <<to, asked, correcting, performed>>
      /\ BuildCacheKey(to[p]) = Resource(to[p])
      /\ Resource(to[p]) \in Key /\ Named(to[p]) \in SUBSET Type
  BY Systems DEF IInv, TypeOK
<1>2. \A q \in Call \ {p} : /\ pc'[q] = pc[q] /\ sent'[q] = sent[q]
                            /\ retry'[q] = retry[q]
  BY DEF IInv, TypeOK
<1>3. TypeOK'
  <2>1. sent' \in [Call -> Headers]
    <3>1. sent[p] \in Headers
      BY DEF IInv, TypeOK
    <3>2. [sent[p] EXCEPT !.accept = Named(to[p])] \in Headers
      BY <1>1, <3>1
    <3>3. \/ UNCHANGED sent
          \/ sent' = [sent EXCEPT ![p] = [sent[p] EXCEPT !.accept = Named(to[p])]]
      OBVIOUS
    <3> HIDE DEF Headers
    <3> QED
      BY <3>2, <3>3 DEF IInv, TypeOK
  <2>2. acceptCache' \in [Key -> SUBSET Type]
    BY <1>1 DEF IInv, TypeOK
  <2>3. heardAccept' \in [Key -> SUBSET SUBSET Type]
    BY <1>1 DEF IInv, TypeOK
  <2>4. /\ pc' \in [Call -> {"idle", "waiting", "served", "failed",
                            "refused406", "refused415"}]
        /\ retry' \in [Call -> {"none", "accept", "content"}]
    BY DEF IInv, TypeOK
  <2> QED
    BY <2>1, <2>2, <2>3, <2>4 DEF IInv, TypeOK
<1>4. ClearForgets'
  BY <1>1 DEF IInv, TypeOK, ClearForgets
<1>5. Progress' /\ OneEffect'
  BY <1>1, <1>2 DEF IInv, TypeOK, Progress, OneEffect
<1> HIDE DEF Refused406
<1>6. CASE CorrectsAccept(p)
  <2>1. /\ correcting[p] /\ retry'[p] = "accept" /\ pc'[p] = "waiting"
        /\ pc[p] = "waiting" /\ sent'[p].accept = Named(to[p])
    BY <1>6 DEF IInv, TypeOK, CorrectsAccept, Refused406
  <2> QED
    BY <1>1, <1>2, <1>3, <1>4, <1>5, <2>1, CallKeeps DEF IInv
<1>7. CASE ~CorrectsAccept(p)
  <2>1. /\ UNCHANGED <<sent, retry>> /\ pc'[p] = "refused406"
        /\ pc[p] = "waiting"
    BY <1>7 DEF IInv, TypeOK, Refused406
  <2>2. correcting[p] /\ Candid(to[p]) => retry[p] = "content"
    <3>1. retry[p] \in {"none", "accept", "content"}
      BY DEF IInv, TypeOK
    <3>2. Candid(to[p]) => sent[p].accept # Named(to[p]) /\ Named(to[p]) # {}
      BY DEF Refused406, Candid, NotAcceptable, Named
    <3> QED
      BY <1>7, <3>1, <3>2 DEF CorrectsAccept, IInv, Retried
  <2>3. /\ retry[p] = "accept" => sent[p].accept = Named(to[p])
        /\ retry[p] = "content" => sent[p].content = Suggested(to[p])
    BY DEF IInv, Retried
  <2> QED
    BY <1>1, <1>2, <1>3, <1>4, <1>5, <2>1, <2>2, <2>3, CallKeeps DEF IInv
<1> QED
  BY <1>6, <1>7

LEMMA ContentTypeKeeps ==
  ASSUME IInv, NEW p \in Call, Refused415(p)
  PROVE  IInv'
<1> USE DEF Refused415
<1>1. /\ to[p] \in Target /\ UNCHANGED <<to, asked, correcting, performed>>
      /\ BuildCacheKey(to[p]) = Resource(to[p])
      /\ Resource(to[p]) \in Key /\ Suggested(to[p]) \in Type \cup {None}
  BY Systems DEF IInv, TypeOK
<1>2. \A q \in Call \ {p} : /\ pc'[q] = pc[q] /\ sent'[q] = sent[q]
                            /\ retry'[q] = retry[q]
  BY DEF IInv, TypeOK
<1>3. TypeOK'
  <2>1. sent' \in [Call -> Headers]
    <3>1. sent[p] \in Headers
      BY DEF IInv, TypeOK
    <3>2. [sent[p] EXCEPT !.content = Suggested(to[p])] \in Headers
      BY <1>1, <3>1
    <3>3. \/ UNCHANGED sent
          \/ sent' = [sent EXCEPT ![p] = [sent[p] EXCEPT !.content = Suggested(to[p])]]
      OBVIOUS
    <3> HIDE DEF Headers
    <3> QED
      BY <3>2, <3>3 DEF IInv, TypeOK
  <2>2. contentTypeCache' \in [Key -> Type \cup {None}]
    BY <1>1 DEF IInv, TypeOK
  <2>3. heardContentType' \in [Key -> SUBSET Type]
    BY <1>1 DEF IInv, TypeOK
  <2>4. /\ pc' \in [Call -> {"idle", "waiting", "served", "failed",
                            "refused406", "refused415"}]
        /\ retry' \in [Call -> {"none", "accept", "content"}]
    BY DEF IInv, TypeOK
  <2> QED
    BY <2>1, <2>2, <2>3, <2>4 DEF IInv, TypeOK
<1>4. ClearForgets'
  BY <1>1 DEF IInv, TypeOK, ClearForgets, CorrectsContentType
<1>5. Progress' /\ OneEffect'
  BY <1>1, <1>2 DEF IInv, TypeOK, Progress, OneEffect
<1> HIDE DEF Refused415
<1>6. CASE CorrectsContentType(p)
  <2>1. /\ correcting[p] /\ retry'[p] = "content" /\ pc'[p] = "waiting"
        /\ pc[p] = "waiting" /\ sent'[p].content = Suggested(to[p])
    BY <1>6 DEF IInv, TypeOK, CorrectsContentType, Refused415
  <2> QED
    BY <1>1, <1>2, <1>3, <1>4, <1>5, <2>1, CallKeeps DEF IInv
<1>7. CASE ~CorrectsContentType(p)
  <2>1. /\ UNCHANGED <<sent, retry>> /\ pc'[p] = "refused415"
        /\ pc[p] = "waiting"
    BY <1>7 DEF IInv, TypeOK, Refused415
  <2>2. correcting[p] /\ Candid(to[p]) => retry[p] = "accept"
    <3>1. retry[p] \in {"none", "accept", "content"}
      BY DEF IInv, TypeOK
    <3>2. Candid(to[p]) => /\ sent[p].content # Suggested(to[p])
                           /\ Suggested(to[p]) # None
      BY DEF Refused415, Candid, UnsupportedMediaType, Suggested
    <3> QED
      BY <1>7, <3>1, <3>2 DEF CorrectsContentType, IInv, Retried
  <2>3. /\ retry[p] = "accept" => sent[p].accept = Named(to[p])
        /\ retry[p] = "content" => sent[p].content = Suggested(to[p])
    BY DEF IInv, Retried
  <2> QED
    BY <1>1, <1>2, <1>3, <1>4, <1>5, <2>1, <2>2, <2>3, CallKeeps DEF IInv
<1> QED
  BY <1>6, <1>7

(* The call ends otherwise; what is waiting has not been performed.        *)
LEMMA EndKeeps ==
  ASSUME IInv, NEW p \in Call, Served(p) \/ Fails(p)
  PROVE  IInv'
<1>1. /\ pc[p] = "waiting" /\ pc'[p] \in {"served", "failed"}
      /\ UNCHANGED <<caches, switch, begun, sent, retry, heard>>
      /\ \A q \in Call \ {p} : pc'[q] = pc[q]
  BY DEF IInv, TypeOK, Served, Fails
<1>2. performed[p] = 0
  BY <1>1 DEF IInv, Progress
<1>3. /\ performed'[p] \in {0, 1} /\ performed' \in [Call -> Nat]
      /\ \A q \in Call \ {p} : performed'[q] = performed[q]
  <2>1. UNCHANGED performed \/ performed' = [performed EXCEPT ![p] = 1]
    BY <1>2 DEF Served, Fails
  <2>2. performed \in [Call -> Nat]
    BY DEF IInv, TypeOK
  <2>3. CASE UNCHANGED performed
    BY <1>2, <2>2, <2>3
  <2>4. CASE performed' = [performed EXCEPT ![p] = 1]
    BY <2>2, <2>4
  <2> QED
    BY <2>1, <2>3, <2>4
<1>4. TypeOK'
  <2>1. pc' \in [Call -> {"idle", "waiting", "served", "failed",
                         "refused406", "refused415"}]
    BY DEF IInv, TypeOK, Served, Fails
  <2> QED
    BY <1>1, <1>3, <2>1 DEF IInv, TypeOK
<1>5. Progress' /\ OneEffect' /\ ClearForgets'
  BY <1>1, <1>3 DEF IInv, Progress, OneEffect, ClearForgets
<1>6. OffIsVerbatim' /\ Retried' /\ RetrySuffices'
  BY <1>1, CallKeeps DEF IInv, Retried
<1> QED
  BY <1>4, <1>5, <1>6 DEF IInv

LEMMA StutterKeeps == ASSUME IInv, UNCHANGED vars PROVE IInv'
BY DEF vars, IInv, TypeOK, Progress, OneEffect, ClearForgets, OffIsVerbatim,
       Retried, RetrySuffices, Candid, Named, Suggested, Resource

LEMMA StepKeeps == IInv /\ [Next]_vars => IInv'
<1> SUFFICES ASSUME IInv, [Next]_vars PROVE IInv'
  OBVIOUS
<1> HIDE DEF Target, Options
<1>1. CASE \/ \E c \in Connection, option \in Options : Construct(c, option)
           \/ ClearAcceptCache
  BY <1>1, SwitchKeeps
<1>2. ASSUME NEW p \in Call,
             \E t \in Target, h \in Asks, directly \in BOOLEAN :
               MakeRequest(p, t, h, directly)
      PROVE  IInv'
  BY <1>2, RequestKeeps
<1>3. ASSUME NEW p \in Call,
             Refused406(p) \/ Refused415(p) \/ Served(p) \/ Fails(p)
      PROVE  IInv'
  BY <1>3, AcceptKeeps, ContentTypeKeeps, EndKeeps
<1>4. CASE UNCHANGED vars
  BY <1>4, StutterKeeps
<1> QED
  BY <1>1, <1>2, <1>3, <1>4 DEF Next

LEMMA Invariance == Spec => []IInv
BY InitHolds, StepKeeps, PTL DEF Spec

(***************************************************************************)
(* The types of the calls, the caches and the switch, for any systems.     *)
(***************************************************************************)
THEOREM Typing == Spec => []TypeOK
<1>1. IInv => TypeOK
  BY DEF IInv
<1> QED
  BY <1>1, Invariance, PTL

(***************************************************************************)
(* However its answers are refused or lost, a call is performed at most    *)
(* once (makeAdtRequestWithAcceptNegotiation() retries refusals alone).    *)
(***************************************************************************)
THEOREM AtMostOnce == Spec => []OneEffect
<1>1. IInv => OneEffect
  BY DEF IInv
<1> QED
  BY <1>1, Invariance, PTL

(***************************************************************************)
(* The caches hold, for a method and URL, what a refusal of that method    *)
(* and URL has named since clearAcceptCache().                             *)
(***************************************************************************)
THEOREM Forgotten == Spec => []ClearForgets
<1>1. IInv => ClearForgets
  BY DEF IInv
<1> QED
  BY <1>1, Invariance, PTL

(***************************************************************************)
(* A call that began with correction off says what its caller asked, and   *)
(* once: what other calls learn does not reach it.                         *)
(***************************************************************************)
THEOREM Verbatim == Spec => []OffIsVerbatim
<1>1. IInv => OffIsVerbatim
  BY DEF IInv
<1> QED
  BY <1>1, Invariance, PTL

(***************************************************************************)
(* Against a candid system the one retry is enough for one wrong header,   *)
(* whatever the other calls, connections and systems put into the caches.  *)
(***************************************************************************)
THEOREM Suffices == Spec => []RetrySuffices
<1>1. IInv => RetrySuffices
  BY DEF IInv
<1> QED
  BY <1>1, Invariance, PTL
===============================================================================
