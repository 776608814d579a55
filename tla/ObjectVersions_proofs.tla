------------------------ MODULE ObjectVersions_proofs ------------------------
(***************************************************************************)
(* What a call achieves and what it tells its caller, for every catalogue  *)
(* and all queries the request functions of which read their answers as    *)
(* module ResourceShapes says, any contents, and other developers at work  *)
(* between any two requests.                                               *)
(***************************************************************************)
EXTENDS ObjectVersions, ResourceShapes, WellFoundedInduction, TLAPS

-----------------------------------------------------------------------------
(* The inductive invariant all theorems rest on. *)

Calls ==
  [task : Catalogue \cup Queries, phase : Phases, at : Nat,
   options : SUBSET Options, version : Asked, content : MaybeContent,
   again : BOOLEAN, held : BOOLEAN, made : BOOLEAN, got : MaybeContent,
   flagged : BOOLEAN, upset : BOOLEAN]

(* Types without a distinct inactive version have none, and what does not  *)
(* exist is not locked.                                                    *)
ObjectKnown ==
  /\ object \in Objects
  /\ objectType \in Immediate => object.inactive = None
  /\ Exists(object) \/ object.lock = "free"

Asking == call.phase \in {"query", "answered", "failed"}

(* A call is a method of the type of the object, and a chain awaits one of *)
(* its requests.                                                           *)
CallKnown ==
  /\ call \in Calls
  /\ call.task.name[1] = objectType
  /\ IF Asking THEN call.task \in Queries
               ELSE call.task \in Catalogue /\ call.content \in Contents
  /\ call.phase \in {"main", "rescue"} =>
       call.at \in DOMAIN Part(call.task, call.phase)

IInv ==
  /\ objectType \in STRING
  /\ ObjectKnown
  /\ call = Idle \/ CallKnown

-----------------------------------------------------------------------------
(* A chain has a first step among those it has not skipped. *)
LEMMA FirstOf ==
  ASSUME NEW S \in SUBSET Nat, S # {}
  PROVE  \E j \in S : \A m \in S : j <= m
<1>1. PICK j \in S : \A m \in S : ~(<<m, j>> \in OpToRel(<, Nat))
  BY NatLessThanWellFounded, WFMin
<1>2. \A m \in S : ~(m < j)
  BY <1>1 DEF OpToRel
<1>3. QED
  BY <1>2

(* The parts of a chain are sequences of steps. *)
LEMMA PartType ==
  ASSUME NEW c \in Catalogue, NEW phase \in {"main", "rescue"}
  PROVE  Part(c, phase) \in Seq(Step) /\ DOMAIN Part(c, phase) \subseteq Nat
<1>1. c \in Chain
  BY ChainsAssumption DEF WellFormed
<1>2. c.steps \in Seq(Step) /\ c.rescue \in Seq(Step)
  BY <1>1 DEF Chain
<1>3. Part(c, phase) \in Seq(Step)
  BY <1>2 DEF Part
<1>4. QED
  BY <1>3

(* The readings are readings. *)
LEMMA RecordType ==
  ASSUME NEW c \in Catalogue
  PROVE  /\ RecordOf(c) \in TypeRecord
         /\ c.name \in STRING \X STRING
<1>1. c.name \in STRING \X STRING
  BY ChainsAssumption DEF WellFormed, Chain
<1>2. CASE c.name \in DOMAIN Special
  BY <1>1, <1>2, ResourceAssumption DEF RecordOf
<1>3. CASE c.name \notin DOMAIN Special
  BY <1>1, <1>3, ResourceAssumption DEF RecordOf
<1>4. QED
  BY <1>2, <1>3

(* A call that is not idle is known, and one that is idle awaits nothing. *)
LEMMA CallPhase ==
  ASSUME IInv
  PROVE  /\ call # Idle => CallKnown
         /\ Busy => CallKnown /\ call # Idle
         /\ CallKnown => call # Idle
<1>1. Idle.phase = "idle"
  BY DEF Idle
<1>2. CallKnown => call.phase \in Phases
  BY DEF CallKnown, Calls
<1>3. QED
  BY <1>1, <1>2 DEF IInv, Busy, Phases

-----------------------------------------------------------------------------
(* What the server does. *)

Outcomes == [object : Objects, answer : Answers, got : MaybeContent]

Looks == {"fetch", "poll", "read", "source"}

(* The outcome of a request that is carried out, by the request.           *)
EffectOf(out) ==
  /\ Pending \in Looks =>
       /\ out.object = object /\ out.answer = "ok" /\ Exists(object)
       /\ out.got \in Shown(Stated) /\ out.got # None
  /\ Pending \notin Looks => out.got = None
  /\ Pending \in {"validate", "metadata", "transport"} =>
       out.object = object /\ out.answer = "ok"
  /\ Pending = "create" =>
       /\ ~Exists(object) /\ out.answer = "ok"
       /\ out.object \in {Saving(object, call.content), Saving(object, Blank),
                          [object EXCEPT !.active = Blank]}
  /\ Pending = "lock" =>
       /\ Exists(object) /\ object.lock = "free" /\ out.answer = "ok"
       /\ out.object = [object EXCEPT !.lock = "ours"]
  /\ Pending = "check" =>
       /\ out.object = object /\ Exists(object)
       /\ out.answer \in Replies \ {"silent"}
  /\ Pending = "write" =>
       /\ Exists(object) /\ object.lock = "ours" /\ out.answer = "ok"
       /\ out.object = Saving(object, call.content)
  /\ Pending = "unlock" =>
       out.answer = "ok" /\ out.object = [object EXCEPT !.lock = "free"]
  /\ Pending = "activate" =>
       /\ Exists(object)
       /\ \/ out.object = object /\ out.answer \in {"flawed", "excused"}
          \/ out.object = Activated(object) /\ out.answer \in {"ok", "warned"}
  /\ Pending \in {"verdict", "verdictUnread"} =>
       /\ out.object = object
       /\ \/ object.lock = "free" /\ out.answer = "ok"
          \/ out.answer \in {"flawed", "silent"}
  /\ Pending \in {"delete", "deleteProven", "deleteLocked"} =>
       Exists(object) /\ out.object = Nothing /\ out.answer = "ok"

(* The requests are those the model knows. *)
LEMMA PendingType ==
  ASSUME IInv, Busy
  PROVE  /\ Pending \in Requests \cup {"source", "metadata", "transport"}
         /\ ReadingOf \in Reading
<1>1. CallKnown
  BY CallPhase
<1>2. CASE call.phase = "query"
  <2>1. call.task \in Query
    BY <1>1, <1>2, QueriesAssumption DEF CallKnown, Asking
  <2>2. QED
    BY <1>2, <2>1 DEF Pending, ReadingOf, Query, Requests
<1>3. CASE call.phase \in {"main", "rescue"}
  <2>1. call.task \in Catalogue /\ call.at \in DOMAIN Part(call.task, call.phase)
    BY <1>1, <1>3 DEF CallKnown, Asking
  <2>2. Part(call.task, call.phase)[call.at] \in Step
    BY <1>3, <2>1, PartType
  <2>3. Pending = Part(call.task, call.phase)[call.at].req
    BY <1>3 DEF Pending
  <2>4. Pending \in Requests
    BY <2>2, <2>3 DEF Step
  <2>5. RecordOf(call.task).requests \in [Requests -> Reading]
    BY <2>1, RecordType DEF TypeRecord
  <2>6. QED
    BY <1>3, <2>4, <2>5 DEF ReadingOf
<1>4. QED
  BY <1>2, <1>3 DEF Busy

(* What a reader is shown may be there. *)
LEMMA ShownType ==
  ASSUME IInv, NEW told, NEW x \in Shown(told)
  PROVE  x \in {object.active, object.inactive} /\ x \in MaybeContent
<1>1. {object.active, object.inactive} \subseteq MaybeContent
  BY DEF IInv, ObjectKnown, Objects
<1>2. x \in {object.active, Newest(object)}
  BY DEF Shown
<1>3. QED
  BY <1>1, <1>2 DEF Newest

(* The arms of Carried, one by one. *)
LEMMA CarriedEffects ==
  ASSUME IInv, Busy, NEW out \in Carried
  PROVE  EffectOf(out) /\ out.answer \in Answers
<1> DEFINE mine == object.lock = "ours" /\ call.held
<1> USE DEF Outcome, Answering
<1>1. CASE Pending \in {"validate", "metadata", "transport"}
  <2>1. out.object = object /\ out.answer = "ok" /\ out.got = None
    BY <1>1 DEF Carried
  <2>2. QED
    BY <1>1, <2>1 DEF EffectOf, Answers, Replies, Looks
<1>2. CASE Pending = "create"
  <2>1. /\ ~Exists(object)
        /\ out \in {Outcome(o, "ok", None) :
                      o \in IF objectType \in Whole
                              THEN {Saving(object, call.content)}
                              ELSE {Saving(object, Blank),
                                    [object EXCEPT !.active = Blank]}}
    BY <1>2 DEF Carried
  <2>2. /\ ~Exists(object) /\ out.answer = "ok" /\ out.got = None
        /\ out.object \in {Saving(object, call.content),
                           Saving(object, Blank),
                           [object EXCEPT !.active = Blank]}
    BY <2>1
  <2>3. QED
    BY <1>2, <2>2 DEF EffectOf, Answers, Replies, Looks
<1>3. CASE Pending = "lock"
  <2>1. /\ Exists(object) /\ object.lock = "free"
        /\ out = Outcome([object EXCEPT !.lock = "ours"], "ok", None)
    BY <1>3 DEF Carried
  <2>2. QED
    BY <1>3, <2>1 DEF EffectOf, Answers, Replies, Looks
<1>4. CASE Pending \in Looks
  <2>1. /\ Exists(object)
        /\ \E x \in Shown(Stated) \ {None} : out = Outcome(object, "ok", x)
    BY <1>4 DEF Carried, Looks
  <2>2. QED
    BY <1>4, <2>1 DEF EffectOf, Answers, Replies, Looks
<1>5. CASE Pending = "check"
  <2>1. /\ Exists(object)
        /\ out \in Answering(UNION {Report(x) : x \in Checked})
    BY <1>5 DEF Carried
  <2>2. \A x : Report(x) \subseteq Replies \ {"silent"}
    BY DEF Report, Replies
  <2>3. /\ out.object = object /\ out.got = None
        /\ out.answer \in Replies \ {"silent"}
    BY <2>1, <2>2
  <2>4. QED
    BY <1>5, <2>1, <2>3 DEF EffectOf, Answers, Looks
<1>6. CASE Pending = "write"
  <2>1. /\ Exists(object) /\ mine
        /\ out = Outcome(Saving(object, call.content), "ok", None)
    BY <1>6 DEF Carried
  <2>2. QED
    BY <1>6, <2>1 DEF EffectOf, Answers, Replies, Looks
<1>7. CASE Pending = "unlock"
  <2>1. out = Outcome([object EXCEPT !.lock = "free"], "ok", None)
    BY <1>7 DEF Carried
  <2>2. QED
    BY <1>7, <2>1 DEF EffectOf, Answers, Replies, Looks
<1>8. CASE Pending = "activate"
  <2>1. /\ Exists(object)
        /\ out \in IF Newest(object) \in Faulty
                     THEN Answering({"flawed", "excused"})
                     ELSE {Outcome(Activated(object), a, None) :
                             a \in {"ok", "warned"}}
    BY <1>8 DEF Carried
  <2>2. /\ out.got = None
        /\ \/ out.object = object /\ out.answer \in {"flawed", "excused"}
           \/ out.object = Activated(object) /\ out.answer \in {"ok", "warned"}
    BY <2>1
  <2>3. QED
    BY <1>8, <2>1, <2>2 DEF EffectOf, Answers, Replies, Looks
<1>9. CASE Pending \in {"verdict", "verdictUnread"}
  <2>1. out \in Answering(IF object.lock = "free" THEN {"ok"}
                                                  ELSE {"flawed", "silent"})
    BY <1>9 DEF Carried
  <2>2. /\ out.object = object /\ out.got = None
        /\ \/ object.lock = "free" /\ out.answer = "ok"
           \/ out.answer \in {"flawed", "silent"}
    BY <2>1
  <2>3. QED
    BY <1>9, <2>2 DEF EffectOf, Answers, Replies, Looks
<1>10. CASE Pending \in {"delete", "deleteProven", "deleteLocked"}
  <2>1. Exists(object) /\ out = Outcome(Nothing, "ok", None)
    BY <1>10 DEF Carried
  <2>2. QED
    BY <1>10, <2>1 DEF EffectOf, Answers, Replies, Looks
<1>11. QED
  BY <1>1, <1>2, <1>3, <1>4, <1>5, <1>6, <1>7, <1>8, <1>9, <1>10, PendingType
     DEF Requests, Looks

(* Only chains change the object. *)
LEMMA PendingChain ==
  ASSUME IInv, Busy,
         Pending \notin {"source", "metadata", "transport", "validate", "check"}
  PROVE  /\ call.phase \in {"main", "rescue"}
         /\ call.task \in Catalogue /\ call.content \in Contents
<1>1. CallKnown
  BY CallPhase
<1>2. call.phase # "query"
  <2>1. SUFFICES ASSUME call.phase = "query" PROVE FALSE
    OBVIOUS
  <2>2. call.task \in Query
    BY <1>1, <2>1, QueriesAssumption DEF CallKnown, Asking
  <2>3. QED
    BY <2>1, <2>2 DEF Query, Pending
<1>3. QED
  BY <1>1, <1>2 DEF CallKnown, Asking, Busy

(* An object as it may be. *)
Sound(o) ==
  /\ o \in Objects
  /\ objectType \in Immediate => o.inactive = None
  /\ Exists(o) \/ o.lock = "free"

(* Saving leaves a sound object with the content saved. *)
LEMMA SavingSound ==
  ASSUME NEW o, Sound(o), NEW x \in Contents
  PROVE  /\ Sound(Saving(o, x)) /\ Exists(Saving(o, x))
         /\ Newest(Saving(o, x)) = x /\ Saving(o, x).lock = o.lock
         /\ objectType \notin Immediate => Saving(o, x).active = o.active
<1>1. o \in Objects /\ x # None /\ x \in MaybeContent
  BY ContentsAssumption DEF Sound, MaybeContent
<1>2. CASE objectType \in Immediate
  BY <1>1, <1>2 DEF Sound, Saving, Objects, Exists, Newest
<1>3. CASE objectType \notin Immediate
  BY <1>1, <1>3 DEF Sound, Saving, Objects, Exists, Newest
<1>4. QED
  BY <1>2, <1>3

(* Activating leaves the newest content as the only one. *)
LEMMA ActivatedSound ==
  ASSUME NEW o, Sound(o), Exists(o)
  PROVE  /\ Sound(Activated(o)) /\ Exists(Activated(o))
         /\ Newest(Activated(o)) = Newest(o)
         /\ Activated(o).inactive = None /\ Activated(o).lock = o.lock
<1>1. o \in Objects /\ Newest(o) \in MaybeContent /\ Newest(o) # None
  BY DEF Sound, Newest, Objects, Exists
<1>2. None \in MaybeContent
  BY DEF MaybeContent
<1>3. /\ Activated(o) \in Objects
      /\ Activated(o).active = Newest(o) /\ Activated(o).inactive = None
      /\ Activated(o).lock = o.lock
  BY <1>1, <1>2 DEF Activated, Objects
<1>4. QED
  BY <1>1, <1>3 DEF Sound, Exists, Newest

(* What was deleted is no object. *)
LEMMA NothingSound ==
  Sound(Nothing) /\ ~Exists(Nothing) /\ Nothing.lock = "free"
BY DEF Sound, Nothing, Exists, Newest, Objects, MaybeContent

(* Who has locked the object makes no difference to its contents. *)
LEMMA LockSound ==
  ASSUME NEW o, Sound(o), NEW l \in {"free", "ours", "theirs"}
  PROVE  LET p == [o EXCEPT !.lock = l]
         IN /\ Exists(o) \/ l = "free" => Sound(p)
            /\ Newest(p) = Newest(o) /\ (Exists(p) <=> Exists(o))
            /\ p.active = o.active /\ p.inactive = o.inactive /\ p.lock = l
BY DEF Sound, Objects, Exists, Newest

(* A request that is carried out leaves a sound object. *)
LEMMA CarriedSound ==
  ASSUME IInv, Busy, NEW out \in Carried
  PROVE  Sound(out.object) /\ out.got \in MaybeContent
<1>1. Sound(object) /\ EffectOf(out)
  BY CarriedEffects DEF Sound, IInv, ObjectKnown
<1>2. CASE Pending \in {"create", "write"}
  <2>1. call.content \in Contents /\ Blank \in Contents
    BY <1>2, PendingChain, ContentsAssumption
  <2>2. Sound(Saving(object, call.content)) /\ Sound(Saving(object, Blank))
    BY <1>1, <2>1, SavingSound
  <2>3. Sound([object EXCEPT !.active = Blank])
    <3>1. Blank \in MaybeContent /\ Blank # None
      BY <2>1, ContentsAssumption DEF MaybeContent
    <3>2. QED
      BY <1>1, <3>1 DEF Sound, Objects, Exists, Newest
  <2>4. out.got = None
    BY <1>1, <1>2 DEF EffectOf, Looks
  <2>5. QED
    BY <1>1, <1>2, <2>2, <2>3, <2>4 DEF EffectOf, MaybeContent
<1>3. CASE Pending \in {"lock", "unlock"}
  <2>1. out.object \in {[object EXCEPT !.lock = "ours"],
                        [object EXCEPT !.lock = "free"]}
        /\ (Pending = "lock" => Exists(object)) /\ out.got = None
        /\ (Pending = "unlock" => out.object = [object EXCEPT !.lock = "free"])
    BY <1>1, <1>3 DEF EffectOf, Looks
  <2>2. QED
    BY <1>1, <1>3, <2>1, LockSound DEF MaybeContent
<1>4. CASE Pending = "activate"
  <2>1. /\ Exists(object) /\ out.got = None
        /\ out.object \in {object, Activated(object)}
    BY <1>1, <1>4 DEF EffectOf, Looks
  <2>2. QED
    BY <1>1, <2>1, ActivatedSound DEF MaybeContent
<1>5. CASE Pending \in {"delete", "deleteProven", "deleteLocked"}
  BY <1>1, <1>5, NothingSound DEF EffectOf, Looks, MaybeContent
<1>6. CASE Pending \in Looks
  BY <1>1, <1>6, ShownType DEF EffectOf
<1>7. CASE Pending \in {"validate", "metadata", "transport", "check", "verdict",
                        "verdictUnread"}
  BY <1>1, <1>7 DEF EffectOf, Looks, MaybeContent
<1>8. QED
  BY <1>2, <1>3, <1>4, <1>5, <1>6, <1>7, PendingType DEF Requests, Looks

(* A request that is refused leaves the object as it is.                   *)
RefusalOf(out) ==
  /\ out.object = object /\ out.got = None
  /\ out.answer = "gone" => Absent \/ Pending = "validate"
  /\ \/ out.answer \in Errors
     \/ Pending = "lock" /\ out.answer = "silent"
     \/ Pending = "activate" /\ out.answer = "flawed"
     \/ /\ Pending \in {"delete", "deleteProven"} /\ out.answer = "flawed"
        /\ object.lock # "free" /\ objectType \notin Direct
     \/ Pending = "check" /\ out.answer \in Replies \ {"silent"}

(* The caller of a request that was carried out is told that it failed.    *)
LossOf(out) ==
  /\ \E o \in Carried : out.object = o.object
  /\ out.got = None
  /\ \/ out.answer = "failed"
     \/ out.answer = "kerberos" /\ Pending = "create"

(* What becomes of a request. *)
LEMMA OutcomeEffects ==
  ASSUME IInv, Busy, NEW out \in Accepted \cup Refused \cup Lost
  PROVE  /\ out \in Carried \/ RefusalOf(out) \/ LossOf(out)
         /\ Sound(out.object) /\ out.got \in MaybeContent
         /\ out.answer \in Answers
<1>1. CASE out \in Accepted
  <2>1. out \in Carried
    BY <1>1 DEF Accepted
  <2>2. QED
    BY <2>1, CarriedSound, CarriedEffects
<1>2. CASE out \in Refused
  <2>1. /\ out.object = object /\ out.got = None
        /\ \/ out.answer = "failed"
           \/ out.answer = "gone" /\ Absent
           \/ out.answer \in {"bad", "kerberos"}
           \/ out.answer \in {"gone", "unsupported"} /\ Pending = "validate"
           \/ out.answer = "silent" /\ Pending = "lock"
           \/ /\ out.answer = "flawed"
              /\ \/ Pending = "activate"
                 \/ /\ Pending \in {"delete", "deleteProven"}
                    /\ object.lock # "free" /\ objectType \notin Direct
           \/ /\ out.answer \in {"excused", "flawed", "unprocessed"}
              /\ Pending = "check"
    BY <1>2 DEF Refused, Answering, Outcome
  <2>2. RefusalOf(out)
    BY <2>1 DEF RefusalOf, Errors, Replies
  <2>3. out.answer \in Answers
    BY <2>2 DEF RefusalOf, Answers, Replies
  <2>4. QED
    BY <2>1, <2>2, <2>3 DEF Sound, IInv, ObjectKnown, MaybeContent
<1>3. CASE out \in Lost
  <2>1. PICK o \in Accepted,
             a \in {"failed"} \cup {x \in {"kerberos"} : Pending = "create"} :
          out = Outcome(o.object, a, None)
    BY <1>3 DEF Lost
  <2>2. o \in Carried
    BY DEF Accepted
  <2>3. out.object = o.object /\ out.answer = a /\ out.got = None
    BY <2>1 DEF Outcome
  <2>4. LossOf(out)
    BY <2>2, <2>3 DEF LossOf
  <2>5. QED
    BY <2>2, <2>3, <2>4, CarriedSound DEF Answers, Errors, MaybeContent
<1>4. QED
  BY <1>1, <1>2, <1>3

-----------------------------------------------------------------------------
(* What the code does with the answer. *)

(* What a call remembers. *)
Notes(k, out) ==
  LET step == Part(call.task, call.phase)[call.at]
      told == ~Throws(out.answer)
      locked == told /\ Pending = "lock"
  IN /\ k.task = call.task /\ k.options = call.options
     /\ k.version = call.version /\ k.content = call.content
     /\ k.again = FALSE
     /\ k.got = IF Pending \in {"read", "source"} THEN out.got
                                                      ELSE call.got
     /\ k.flagged <=>
          \/ call.flagged
          \/ Pending = "check" /\ ChecksContent /\ out.answer = "flawed"
     /\ k.held <=> (call.held \/ locked) /\ ~(told /\ Pending = "unlock")
     /\ k.upset <=> call.upset /\ ~locked
     /\ k.made <=>
          \/ call.made
          \/ call.phase = "main" /\ step.marks /\ (told \/ step.soft)

(* Where the call goes from the i-th step of a part. *)
Goes(phase, i) ==
  LET rest == StepsAfter(i, Part(call.task, phase),
                         FlagsOf(call.options, call'.held, call'.made))
  IN \/ /\ rest = {} /\ call'.at = call.at
        /\ call'.phase = IF phase = "main" THEN "resolved" ELSE "rejected"
     \/ /\ call'.phase = phase /\ call'.at \in rest
        /\ \A k \in rest : call'.at <= k

(* The ways a call takes an answer: it asks again, a query settles, a      *)
(* chain goes on, its catch block is entered, or it is left behind.        *)
Repeats(out) ==
  /\ AsksAgain(out.answer)
  /\ call' = [call EXCEPT !.again = TRUE]

Tells(out) ==
  /\ ~AsksAgain(out.answer)
  /\ Notes(call', out)
  /\ call.phase = "query" /\ call'.at = call.at
  /\ call'.phase = IF /\ Throws(out.answer)
                      /\ ~(call.task.absent /\ out.answer = "gone")
                     THEN "failed" ELSE "answered"

GoesOn(out) ==
  /\ ~AsksAgain(out.answer)
  /\ Notes(call', out)
  /\ call.phase \in {"main", "rescue"}
  /\ \/ ~Throws(out.answer)
     \/ Part(call.task, call.phase)[call.at].soft
     \/ call.phase = "rescue"
  /\ Goes(call.phase, call.at)

Fails(out) ==
  /\ ~AsksAgain(out.answer)
  /\ Notes(call', out)
  /\ call.phase = "main" /\ Throws(out.answer)
  /\ ~Part(call.task, call.phase)[call.at].soft
  /\ \/ call'.phase = "rejected" /\ call'.at = call.at
     \/ Goes("rescue", 0)

(* What Noting() changes. *)
LEMMA NotingEffects ==
  ASSUME IInv, Busy, NEW out, out.got \in MaybeContent
  PROVE  /\ Notes(Noting(out), out) /\ Noting(out) \in Calls
         /\ Noting(out).phase = call.phase /\ Noting(out).at = call.at
<1> DEFINE told == ~Throws(out.answer)
           step == Part(call.task, call.phase)[call.at]
           locked == told /\ Pending = "lock"
           got == IF Pending \in {"read", "source"} THEN out.got ELSE call.got
           flagged == call.flagged \/ (/\ Pending = "check"
                                       /\ ChecksContent
                                       /\ out.answer = "flawed")
           held == (call.held \/ locked) /\ ~(told /\ Pending = "unlock")
           upset == call.upset /\ ~locked
           made == call.made \/ (/\ call.phase = "main"
                                 /\ step.marks /\ (told \/ step.soft))
<1>1. call \in Calls
  BY CallPhase DEF CallKnown
<1>2. Noting(out) = [call EXCEPT !.again = FALSE, !.got = got,
                                 !.flagged = flagged, !.held = held,
                                 !.upset = upset, !.made = made]
  BY DEF Noting
<1>3. got \in MaybeContent
  BY <1>1 DEF Calls
<1>4. flagged \in BOOLEAN /\ held \in BOOLEAN /\ upset \in BOOLEAN
      /\ made \in BOOLEAN
  OBVIOUS
<1> HIDE DEF got, flagged, held, upset, made
<1>5. /\ Noting(out) \in Calls
      /\ Noting(out).task = call.task /\ Noting(out).options = call.options
      /\ Noting(out).version = call.version
      /\ Noting(out).content = call.content
      /\ Noting(out).phase = call.phase /\ Noting(out).at = call.at
      /\ Noting(out).again = FALSE /\ Noting(out).got = got
      /\ Noting(out).flagged = flagged /\ Noting(out).held = held
      /\ Noting(out).upset = upset /\ Noting(out).made = made
  BY <1>1, <1>2, <1>3, <1>4 DEF Calls
<1>6. QED
  BY <1>5 DEF Notes, got, flagged, held, upset, made

(* The call that sends a request of a part. *)
Sent(k, phase, at) == [k EXCEPT !.phase = phase, !.at = at]

(* Wherever a call goes on it remembers the same. *)
LEMMA NotesStay ==
  ASSUME NEW k \in Calls, NEW out, Notes(k, out), NEW phase, NEW at
  PROVE  /\ Notes(Sent(k, phase, at), out)
         /\ Sent(k, phase, at).phase = phase /\ Sent(k, phase, at).at = at
         /\ Sent(k, phase, at).held = k.held
         /\ Sent(k, phase, at).made = k.made
         /\ phase \in Phases /\ at \in Nat => Sent(k, phase, at) \in Calls
BY DEF Calls, Notes, Sent

(* And when it has settled. *)
LEMMA NotesSettled ==
  ASSUME NEW k \in Calls, NEW out, Notes(k, out), NEW phase
  PROVE  /\ Notes(Settled(k, phase), out)
         /\ Settled(k, phase).phase = phase /\ Settled(k, phase).at = k.at
         /\ Settled(k, phase).held = k.held
         /\ Settled(k, phase).made = k.made
         /\ phase \in Phases => Settled(k, phase) \in Calls
BY DEF Calls, Notes, Settled

(* Going() as what becomes of the call. *)
LEMMA GoingEffects ==
  ASSUME IInv, Busy, NEW out, out.got \in MaybeContent,
         NEW phase \in {"main", "rescue"}, NEW i,
         call.task \in Catalogue, call' = Going(Noting(out), phase, i)
  PROVE  Notes(call', out) /\ Goes(phase, i) /\ call' \in Calls
<1> DEFINE k == Noting(out)
           rest == StepsAfter(i, Part(k.task, phase),
                              FlagsOf(k.options, k.held, k.made))
           next == CHOOSE j \in rest : \A m \in rest : j <= m
<1>1. Notes(k, out) /\ k \in Calls /\ k.at = call.at
  BY NotingEffects
<1>2. k.task = call.task /\ k.options = call.options
  BY <1>1 DEF Notes
<1>3. call' = IF rest = {}
                THEN Settled(k, IF phase = "main" THEN "resolved"
                                                  ELSE "rejected")
                ELSE Sent(k, phase, next)
  BY DEF Going, Sent
<1>4. rest \subseteq Nat
  BY <1>2, PartType DEF StepsAfter
<1> HIDE DEF k, rest, next
<1>5. CASE rest = {}
  <2>1. /\ Notes(call', out) /\ call'.at = call.at
        /\ call'.phase = IF phase = "main" THEN "resolved" ELSE "rejected"
        /\ k.held = call'.held /\ k.made = call'.made /\ call' \in Calls
    BY <1>1, <1>3, <1>5, NotesSettled DEF Phases
  <2>2. QED
    BY <1>2, <1>5, <2>1 DEF Goes, rest
<1>6. CASE rest # {}
  <2>1. \E j \in rest : \A m \in rest : j <= m
    BY <1>4, <1>6, FirstOf
  <2>2. next \in rest /\ \A m \in rest : next <= m
    BY <2>1 DEF next
  <2>3. /\ Notes(call', out) /\ call'.phase = phase /\ call'.at = next
        /\ k.held = call'.held /\ k.made = call'.made /\ call' \in Calls
    BY <1>1, <1>3, <1>4, <1>6, <2>2, NotesStay DEF Phases
  <2>4. QED
    BY <1>2, <2>2, <2>3 DEF Goes, rest
<1>7. QED
  BY <1>5, <1>6

(* A request has an outcome, which the call takes in one of its ways. *)
LEMMA ResponseEffects ==
  ASSUME IInv, Respond
  PROVE  /\ Busy /\ CallKnown /\ call # Idle /\ objectType' = objectType
         /\ call' \in Calls
         /\ \E out \in Accepted \cup Refused \cup Lost :
              /\ object' = out.object
              /\ Repeats(out) \/ Tells(out) \/ GoesOn(out) \/ Fails(out)
<1>1. Busy /\ CallKnown /\ call # Idle /\ objectType' = objectType
  BY CallPhase DEF Respond
<1>2. PICK out \in Accepted \cup Refused \cup Lost :
        object' = out.object /\ call' = After(out)
  BY DEF Respond
<1> DEFINE k == Noting(out)
           throws == Throws(out.answer)
           step == Part(call.task, call.phase)[call.at]
<1>3. out.got \in MaybeContent
  BY <1>1, OutcomeEffects
<1>4. call \in Calls /\ k \in Calls /\ Notes(k, out) /\ k.at = call.at
  BY <1>1, <1>3, NotingEffects DEF CallKnown
<1>5. CASE AsksAgain(out.answer)
  <2>1. call' = [call EXCEPT !.again = ~@]
    BY <1>2, <1>5 DEF After
  <2>2. ~call.again
    BY <1>5 DEF AsksAgain
  <2>3. Repeats(out)
    BY <1>5, <2>1, <2>2 DEF Repeats
  <2>4. call' \in Calls
    BY <1>4, <2>3 DEF Repeats, Calls
  <2>5. QED
    BY <1>1, <1>2, <2>3, <2>4
<1>6. CASE ~AsksAgain(out.answer) /\ call.phase = "query"
  <2>1. call' = Settled(k, IF throws
                              /\ ~(call.task.absent /\ out.answer = "gone")
                             THEN "failed" ELSE "answered")
    BY <1>2, <1>6 DEF After
  <2>2. Tells(out) /\ call' \in Calls
    BY <1>4, <1>6, <2>1, NotesSettled DEF Tells, Phases
  <2>3. QED
    BY <1>1, <1>2, <2>2
<1>7. CASE ~AsksAgain(out.answer) /\ call.phase # "query"
  <2>1. call.phase \in {"main", "rescue"} /\ call.task \in Catalogue
    BY <1>1, <1>7 DEF Busy, CallKnown, Asking
  <2>2. CASE ~throws \/ step.soft \/ call.phase = "rescue"
    <3>1. call' = Going(k, call.phase, call.at)
      BY <1>2, <1>7, <2>2 DEF After
    <3>2. Notes(call', out) /\ Goes(call.phase, call.at) /\ call' \in Calls
      BY <1>1, <1>3, <2>1, <3>1, GoingEffects
    <3>3. GoesOn(out)
      BY <1>7, <2>1, <2>2, <3>2 DEF GoesOn
    <3>4. QED
      BY <1>1, <1>2, <3>2, <3>3
  <2>3. CASE ~(~throws \/ step.soft \/ call.phase = "rescue")
    <3>1. call' = IF LeftWindow THEN Settled(k, "rejected")
                                ELSE Going(k, "rescue", 0)
      BY <1>2, <1>7, <2>3 DEF After
    <3>2. /\ Notes(call', out) /\ call' \in Calls
          /\ \/ call'.phase = "rejected" /\ call'.at = call.at
             \/ Goes("rescue", 0)
      BY <1>1, <1>3, <1>4, <2>1, <3>1, GoingEffects, NotesSettled
         DEF Phases
    <3>3. Fails(out)
      BY <1>7, <2>1, <2>3, <3>2 DEF Fails
    <3>4. QED
      BY <1>1, <1>2, <3>2, <3>3
  <2>4. QED
    BY <2>2, <2>3
<1>8. QED
  BY <1>5, <1>6, <1>7

-----------------------------------------------------------------------------
(* The other actions. *)

(* What a call begins with. *)
Begun ==
  /\ ~call'.held /\ ~call'.made /\ ~call'.flagged /\ ~call'.upset
  /\ ~call'.again /\ call'.got = None /\ call'.at = 1

(* A method is called. *)
LEMMA StartEffects ==
  ASSUME IInv, StartChain \/ StartQuery
  PROVE  /\ call = Idle /\ CallKnown' /\ Begun
         /\ call'.phase \in {"main", "query"}
         /\ objectType' = objectType /\ object' = object
<1>1. {"main", "query"} \subseteq Phases /\ 1 \in Nat /\ {} \subseteq Options
      /\ "none" \in Asked /\ None \in MaybeContent
      /\ Contents \subseteq MaybeContent
  BY DEF Phases, Asked, MaybeContent
<1>2. CASE StartChain
  <2>0. PICK c \in Catalogue, x \in Contents \ {Blank} :
          /\ call = Idle /\ c.name[1] = objectType
          /\ \E options \in SUBSET OptionsOf(c) :
               call' = [Beginning(c, "main") EXCEPT !.content = x,
                                                    !.options = options]
    BY <1>2 DEF StartChain
  <2>1. PICK options \in SUBSET OptionsOf(c) :
          call' = [Beginning(c, "main") EXCEPT !.content = x,
                                               !.options = options]
    BY <2>0
  <2>2. options \subseteq Options
    BY DEF OptionsOf
  <2>3. /\ call' \in Calls /\ call'.task = c /\ call'.phase = "main"
        /\ call'.content = x /\ Begun
    BY <1>1, <2>1, <2>2 DEF Beginning, Calls, Begun
  <2>4. objectType' = objectType /\ object' = object
    BY <1>2 DEF StartChain
  <2>5. 1 \in DOMAIN c.steps
    <3>1. c.steps \in Seq(Step) /\ c.steps # << >>
      BY ChainsAssumption DEF WellFormed, Chain
    <3>2. QED
      BY <3>1
  <2>6. (CallKnown)'
    BY <2>0, <2>3, <2>4, <2>5 DEF CallKnown, Asking, Part, Begun
  <2>7. QED
    BY <2>0, <2>3, <2>4, <2>6
<1>3. CASE StartQuery
  <2>1. PICK q \in Queries, v \in Asked, x \in MaybeContent \ {Blank} :
          /\ call = Idle /\ q.name[1] = objectType
          /\ call' = [Beginning(q, "query") EXCEPT !.version = v,
                                                   !.content = x]
    BY <1>3 DEF StartQuery
  <2>2. /\ call' \in Calls /\ call'.task = q /\ call'.phase = "query"
        /\ call'.content = x /\ Begun
    BY <1>1, <2>1 DEF Beginning, Calls, Begun
  <2>3. objectType' = objectType /\ object' = object
    BY <1>3 DEF StartQuery
  <2>4. (CallKnown)'
    BY <2>1, <2>2, <2>3 DEF CallKnown, Asking
  <2>5. QED
    BY <2>1, <2>2, <2>3, <2>4
<1>4. QED
  BY <1>2, <1>3

(* The call of somebody who has worked on the object. *)
Upset ==
  /\ Busy /\ call # Idle
  /\ call'.upset = TRUE
  /\ call'.task = call.task /\ call'.phase = call.phase
  /\ call'.at = call.at /\ call'.options = call.options
  /\ call'.version = call.version /\ call'.content = call.content
  /\ call'.again = call.again /\ call'.held = call.held
  /\ call'.made = call.made /\ call'.got = call.got
  /\ call'.flagged = call.flagged
  /\ CallKnown'

(* What other developers and the system do to the object. *)
LEMMA OthersEffects ==
  ASSUME IInv, Others
  PROVE  /\ objectType' = objectType /\ Sound(object)'
         /\ \/ Upset
            \/ call' = call /\ object' = [object EXCEPT !.lock = "free"]
         /\ ~Exists(object) => ~Exists(object')
<1>1. Sound(object)
  BY DEF IInv, ObjectKnown, Sound
<1>2. ASSUME NEW o, Meddle(o)
      PROVE  Upset /\ object' = o /\ objectType' = objectType
  <2>1. Busy /\ CallKnown /\ call # Idle /\ object' = o
        /\ objectType' = objectType /\ call' = [call EXCEPT !.upset = TRUE]
    BY <1>2, CallPhase DEF Meddle
  <2>2. /\ call' \in Calls
        /\ call'.upset = TRUE
        /\ call'.task = call.task /\ call'.phase = call.phase
        /\ call'.at = call.at /\ call'.options = call.options
        /\ call'.version = call.version /\ call'.content = call.content
        /\ call'.again = call.again /\ call'.held = call.held
        /\ call'.made = call.made /\ call'.got = call.got
        /\ call'.flagged = call.flagged
    BY <2>1 DEF CallKnown, Calls
  <2>3. CallKnown'
    BY <2>1, <2>2 DEF CallKnown, Asking
  <2>4. QED
    BY <2>1, <2>2, <2>3 DEF Upset
<1>3. CASE OthersLock
  <2>1. /\ Exists(object) /\ Upset /\ objectType' = objectType
        /\ object' = [object EXCEPT !.lock = "theirs"]
    BY <1>2, <1>3 DEF OthersLock
  <2>2. Sound(object')
    BY <1>1, <2>1, LockSound
  <2>3. QED
    BY <2>1, <2>2 DEF Sound
<1>4. CASE OthersSave
  <2>1. PICK x \in Contents \ Faulty :
          /\ object.lock = "theirs" /\ Upset /\ objectType' = objectType
          /\ object' = [Saving(object, x) EXCEPT !.lock = "free"]
    BY <1>2, <1>4 DEF OthersSave
  <2>2. Exists(object)
    BY <1>1, <2>1 DEF Sound
  <2>3. Sound(Saving(object, x)) /\ Exists(Saving(object, x))
    BY <1>1, SavingSound
  <2>4. Sound(object')
    BY <2>1, <2>3, LockSound
  <2>5. QED
    BY <2>1, <2>2, <2>4 DEF Sound
<1>5. CASE OthersActivate
  <2>1. /\ Exists(object) /\ Upset /\ objectType' = objectType
        /\ object' = Activated(object)
    BY <1>2, <1>5 DEF OthersActivate
  <2>2. Sound(object')
    BY <1>1, <2>1, ActivatedSound
  <2>3. QED
    BY <2>1, <2>2 DEF Sound
<1>6. CASE OthersDelete
  <2>1. Upset /\ objectType' = objectType /\ object' = Nothing
    BY <1>2, <1>6 DEF OthersDelete
  <2>2. Sound(object') /\ ~Exists(object')
    BY <2>1, NothingSound
  <2>3. QED
    BY <2>1, <2>2 DEF Sound
<1>7. CASE Expire
  <2>1. /\ objectType' = objectType /\ call' = call
        /\ object' = [object EXCEPT !.lock = "free"]
    BY <1>7 DEF Expire
  <2>2. Sound(object') /\ (Exists(object') <=> Exists(object))
    BY <1>1, <2>1, LockSound
  <2>3. QED
    BY <2>1, <2>2 DEF Sound
<1>8. QED
  BY <1>3, <1>4, <1>5, <1>6, <1>7 DEF Others

-----------------------------------------------------------------------------
(* The invariant, and type correctness. *)

(* Another call on an object of the same type is known, if it goes on with *)
(* a method of the same kind and awaits one of its requests.               *)
LEMMA CallGoesOn ==
  ASSUME IInv, CallKnown, objectType' = objectType, call' \in Calls,
         call'.task = call.task, call'.content = call.content,
         Asking' <=> Asking,
         call'.phase \in {"main", "rescue"} =>
           call'.at \in DOMAIN Part(call.task, call'.phase)
  PROVE  CallKnown'
BY DEF CallKnown, Asking

(* A call takes an answer as the same call of the same method. *)
LEMMA ResponseKnown ==
  ASSUME IInv, Respond
  PROVE  CallKnown' /\ Sound(object)'
<1>1. Busy /\ CallKnown /\ call # Idle /\ objectType' = objectType
      /\ call' \in Calls
  BY ResponseEffects
<1>2. PICK out \in Accepted \cup Refused \cup Lost :
        /\ object' = out.object
        /\ Repeats(out) \/ Tells(out) \/ GoesOn(out) \/ Fails(out)
  BY ResponseEffects
<1>3. Sound(object')
  BY <1>1, <1>2, OutcomeEffects
<1>4. Sound(object)'
  BY <1>1, <1>3 DEF Sound
<1>5. CASE Repeats(out)
  <2>1. /\ call'.task = call.task /\ call'.content = call.content
        /\ call'.phase = call.phase /\ call'.at = call.at
    BY <1>1, <1>5 DEF Repeats, CallKnown, Calls
  <2>2. CallKnown'
    BY <1>1, <2>1, CallGoesOn DEF Asking, CallKnown
  <2>3. QED
    BY <1>4, <2>2
<1>6. CASE Tells(out)
  <2>1. /\ call'.task = call.task /\ call'.content = call.content
        /\ call'.phase \in {"answered", "failed"} /\ call.phase = "query"
    BY <1>6 DEF Tells, Notes
  <2>2. CallKnown'
    BY <1>1, <2>1, CallGoesOn DEF Asking
  <2>3. QED
    BY <1>4, <2>2
<1>7. CASE GoesOn(out) \/ Fails(out)
  <2>1. /\ call'.task = call.task /\ call'.content = call.content
        /\ call.phase \in {"main", "rescue"}
        /\ \/ call'.phase = "rejected"
           \/ Goes(call.phase, call.at)
           \/ Goes("rescue", 0)
    BY <1>7 DEF GoesOn, Fails, Notes
  <2>2. ASSUME NEW phase \in {"main", "rescue"}, NEW i, Goes(phase, i)
        PROVE  \/ call'.phase \in {"resolved", "rejected"}
               \/ /\ call'.phase = phase
                  /\ call'.at \in DOMAIN Part(call.task, phase)
    BY <2>2 DEF Goes, StepsAfter
  <2>3. CallKnown'
    BY <1>1, <2>1, <2>2, CallGoesOn DEF Asking
  <2>4. QED
    BY <1>4, <2>3
<1>8. QED
  BY <1>2, <1>5, <1>6, <1>7

(* The invariant holds. *)
LEMMA InitIInv == Init => IInv
<1> SUFFICES ASSUME Init PROVE IInv
  OBVIOUS
<1>1. objectType \in STRING
  <2>1. PICK q \in Catalogue \cup Queries : objectType = q.name[1]
    BY DEF Init, Types
  <2>2. q.name \in STRING \X STRING
    BY ChainsAssumption, QueriesAssumption DEF WellFormed, Chain, Query
  <2>3. QED
    BY <2>1, <2>2
<1>2. QED
  BY <1>1 DEF Init, IInv, ObjectKnown

(* Every step keeps it. *)
LEMMA NextIInv == IInv /\ [Next]_vars => IInv'
<1> SUFFICES ASSUME IInv, [Next]_vars PROVE IInv'
  OBVIOUS
<1>1. CASE StartChain \/ StartQuery
  BY <1>1, StartEffects DEF IInv, ObjectKnown, Exists, Newest
<1>2. CASE Respond
  BY <1>2, ResponseKnown, ResponseEffects DEF IInv, ObjectKnown, Sound
<1>3. CASE Return
  BY <1>3 DEF Return, IInv, ObjectKnown, Exists, Newest
<1>4. CASE Others
  <2>1. CallKnown' \/ call' = Idle
    <3>1. CASE Upset
      BY <3>1 DEF Upset
    <3>2. CASE call' = call
      BY <1>4, <3>2, OthersEffects DEF IInv, CallKnown, Asking
    <3>3. QED
      BY <1>4, <3>1, <3>2, OthersEffects
  <2>2. QED
    BY <1>4, <2>1, OthersEffects DEF IInv, ObjectKnown, Sound
<1>5. CASE UNCHANGED vars
  BY <1>5 DEF vars, IInv, ObjectKnown, CallKnown, Asking, Exists, Newest
<1>6. QED
  BY <1>1, <1>2, <1>3, <1>4, <1>5 DEF Next

(* So it holds throughout. *)
LEMMA Invariance == Spec => []IInv
BY InitIInv, NextIInv, PTL DEF Spec

(* The variables have their types: the object has contents or none, a call *)
(* what its method and its caller have given it.                           *)
THEOREM Typing == Spec => []TypeOK
<1>1. IInv => TypeOK
  <2>1. CallKnown =>
          /\ call.phase \in Phases /\ call.at \in Nat
          /\ call.options \subseteq Options /\ call.version \in Asked
          /\ {call.content, call.got} \subseteq MaybeContent
          /\ {call.again, call.held, call.made, call.flagged, call.upset}
               \subseteq BOOLEAN
    BY DEF CallKnown, Calls
  <2>2. QED
    BY <2>1 DEF IInv, ObjectKnown, TypeOK
<1>2. QED
  BY <1>1, Invariance, PTL

-----------------------------------------------------------------------------
(* Answers that are noticed. *)

(* A request is sent once more by the functions that do so.                *)
AskedAgain == Busy /\ call.again => ReadingOf.again # {}

(* Every step keeps that. *)
LEMMA AskedAgainHolds == Spec => []AskedAgain
<1>1. Init => AskedAgain
  BY DEF Init, AskedAgain, Busy, Idle
<1>2. IInv /\ AskedAgain /\ [Next]_vars => AskedAgain'
  <2> SUFFICES ASSUME IInv, AskedAgain, [Next]_vars PROVE AskedAgain'
    OBVIOUS
  <2>1. CASE StartChain \/ StartQuery
    BY <2>1, StartEffects DEF Begun, AskedAgain
  <2>2. CASE Respond
    <3>1. PICK out \in Accepted \cup Refused \cup Lost :
            Repeats(out) \/ Tells(out) \/ GoesOn(out) \/ Fails(out)
      BY <2>2, ResponseEffects
    <3>2. CASE Repeats(out)
      <4>1. ReadingOf.again # {}
        BY <3>2 DEF Repeats, AsksAgain
      <4>2. /\ call'.task = call.task /\ call'.phase = call.phase
            /\ call'.at = call.at
        BY <2>2, <3>2, ResponseEffects DEF Repeats, CallKnown, Calls
      <4>3. ReadingOf' = ReadingOf
        BY <4>2 DEF ReadingOf, Pending
      <4>4. QED
        BY <4>1, <4>3 DEF AskedAgain
    <3>3. CASE Tells(out) \/ GoesOn(out) \/ Fails(out)
      BY <3>3 DEF Tells, GoesOn, Fails, Notes, AskedAgain
    <3>4. QED
      BY <3>1, <3>2, <3>3
  <2>3. CASE Return
    BY <2>3 DEF Return, AskedAgain, Busy, Idle
  <2>4. CASE Others
    <3>1. CASE Upset
      <4>1. ReadingOf' = ReadingOf
        BY <3>1 DEF Upset, ReadingOf, Pending
      <4>2. QED
        BY <3>1, <4>1 DEF Upset, AskedAgain
    <3>2. CASE call' = call
      BY <3>2 DEF AskedAgain, Busy, ReadingOf, Pending
    <3>3. QED
      BY <2>4, <3>1, <3>2, OthersEffects
  <2>5. CASE UNCHANGED vars
    BY <2>5 DEF vars, AskedAgain, Busy, ReadingOf, Pending
  <2>6. QED
    BY <2>1, <2>2, <2>3, <2>4, <2>5 DEF Next
<1>3. QED
  BY <1>1, <1>2, Invariance, PTL DEF Spec

(* What is noticed is thrown, and not asked for once more. *)
LEMMA Noticed ==
  ASSUME Busy, AskedAgain, NEW answers, Notices(ReadingOf, answers),
         NEW a \in answers
  PROVE  Throws(a) /\ ~AsksAgain(a)
<1>1. call.again => ReadingOf.again # {}
  BY DEF AskedAgain
<1>2. QED
  BY <1>1 DEF Notices, Throws, AsksAgain

-----------------------------------------------------------------------------
(* What queries tell. *)

(* Unless another developer upsets the call, the object keeps its contents *)
(* between its requests.                                                   *)
LEMMA QuietStays ==
  ASSUME IInv, Others \/ UNCHANGED vars
  PROVE  \/ Upset /\ Others
         \/ /\ call' = call /\ objectType' = objectType
            /\ object'.active = object.active
            /\ object'.inactive = object.inactive
            /\ Newest(object') = Newest(object)
            /\ Exists(object') <=> Exists(object)
            /\ object'.lock \in {object.lock, "free"}
<1>1. CASE Others /\ ~Upset
  <2>1. /\ call' = call /\ objectType' = objectType
        /\ object' = [object EXCEPT !.lock = "free"]
    BY <1>1, OthersEffects
  <2>2. Sound(object)
    BY DEF IInv, ObjectKnown, Sound
  <2>3. QED
    BY <2>1, <2>2, LockSound
<1>2. CASE UNCHANGED vars
  BY <1>2 DEF vars
<1>3. QED
  BY <1>1, <1>2

(* Once a call has settled nobody upsets it. *)
LEMMA SettledStays ==
  ASSUME IInv, ~Busy, Others \/ UNCHANGED vars
  PROVE  /\ call' = call /\ objectType' = objectType
         /\ object'.active = object.active
         /\ object'.inactive = object.inactive
         /\ Newest(object') = Newest(object)
         /\ Exists(object') <=> Exists(object)
BY QuietStays DEF Upset

(* A read that is answered with source or with none. *)
LEMMA SourceAnswered ==
  ASSUME IInv, Respond, call'.phase = "answered", call'.task.req = "source"
  PROVE  \E out \in Accepted \cup Refused \cup Lost :
           /\ object' = out.object /\ Tells(out)
           /\ call.phase = "query" /\ Pending = "source"
           /\ call'.got = out.got
           /\ call.task \in Queries /\ call.task.req = "source"
           /\ Stated = call.task.told[call.version]
           /\ ReadingOf = call.task.reading
<1>1. /\ Busy /\ CallKnown
      /\ \E out \in Accepted \cup Refused \cup Lost :
           /\ object' = out.object
           /\ Repeats(out) \/ Tells(out) \/ GoesOn(out) \/ Fails(out)
  BY ResponseEffects
<1>2. PICK out \in Accepted \cup Refused \cup Lost :
        /\ object' = out.object
        /\ Repeats(out) \/ Tells(out) \/ GoesOn(out) \/ Fails(out)
  BY <1>1
<1>3. Tells(out)
  <2>1. ~Repeats(out)
    BY <1>1 DEF Repeats, Busy, CallKnown, Calls
  <2>2. ~GoesOn(out) /\ ~Fails(out)
    BY DEF GoesOn, Fails, Goes
  <2>3. QED
    BY <1>2, <2>1, <2>2
<1>4. call.phase = "query" /\ call'.task = call.task
  BY <1>3 DEF Tells, Notes
<1>5. Pending = "source" /\ call.task \in Queries
  BY <1>1, <1>4 DEF Pending, CallKnown, Asking
<1>6. call'.got = out.got
  BY <1>3, <1>5 DEF Tells, Notes
<1>7. QED
  BY <1>2, <1>3, <1>4, <1>5, <1>6 DEF Stated, ReadingOf

(***************************************************************************)
(* Where reads notice every error, "there is none" is said only of an      *)
(* object, or an active version, that is not there: the one error that     *)
(* does not fail the call is 404, and 404 is the answer exactly then.      *)
(***************************************************************************)
THEOREM AbsencesProven ==
  ASSUME \A q \in Queries : NoticesErrors(q)
  PROVE  Spec => []AbsenceProven
<1>1. Init => AbsenceProven
  BY DEF Init, AbsenceProven, Idle
<1>2. IInv /\ AskedAgain /\ AbsenceProven /\ [Next]_vars => AbsenceProven'
  <2> SUFFICES ASSUME IInv, AskedAgain, AbsenceProven, [Next]_vars
               PROVE  AbsenceProven'
    OBVIOUS
  <2>1. CASE StartChain \/ StartQuery
    BY <2>1, StartEffects DEF AbsenceProven
  <2>2. CASE Respond
    <3> SUFFICES ASSUME call'.phase = "answered",
                        call'.task.req = "source", call'.got = None
                 PROVE  \/ ~Exists(object')
                        \/ /\ object'.active = None
                           /\ call'.task.told[call'.version] = "active"
      BY DEF AbsenceProven, Exists, Newest
    <3>1. PICK out \in Accepted \cup Refused \cup Lost :
           /\ object' = out.object /\ Tells(out)
           /\ call.phase = "query" /\ Pending = "source"
           /\ call'.got = out.got
           /\ call.task \in Queries /\ call.task.req = "source"
           /\ Stated = call.task.told[call.version]
           /\ ReadingOf = call.task.reading
      BY <2>2, SourceAnswered
    <3>2. Busy /\ call'.task = call.task /\ call'.version = call.version
      BY <3>1 DEF Busy, Tells, Notes
    <3>3. Notices(ReadingOf, Errors)
      BY <3>1 DEF NoticesErrors
    <3>4. out.answer \in Errors => out.answer = "gone"
      BY <3>1, <3>2, <3>3, Noticed DEF Tells
    <3>5. out \notin Carried
      BY <3>1, <3>2, CarriedEffects DEF EffectOf, Looks
    <3>6. ~LossOf(out)
      BY <3>1, <3>4 DEF LossOf, Errors
    <3>7. RefusalOf(out)
      BY <3>2, <3>5, <3>6, OutcomeEffects
    <3>8. Absent /\ object' = object
      BY <3>1, <3>4, <3>7 DEF RefusalOf
    <3>9. QED
      BY <3>1, <3>2, <3>8 DEF Absent
  <2>3. CASE Return
    BY <2>3 DEF Return, AbsenceProven, Idle
  <2>4. CASE Others \/ UNCHANGED vars
    <3>1. CASE Busy
      <4>1. call'.phase # "answered"
        BY <2>4, <3>1, OthersEffects DEF Upset, Busy, vars
      <4>2. QED
        BY <4>1 DEF AbsenceProven
    <3>2. CASE ~Busy
      BY <2>4, <3>2, SettledStays DEF AbsenceProven, Exists, Newest
    <3>3. QED
      BY <3>1, <3>2
  <2>5. QED
    BY <2>1, <2>2, <2>3, <2>4 DEF Next
<1>3. QED
  BY <1>1, <1>2, Invariance, AskedAgainHolds, PTL DEF Spec

(***************************************************************************)
(* Where the version the caller asks for is the one the request states, or *)
(* there is only one, a caller who reads the active version is shown it,   *)
(* if there is one, and one who reads the inactive version is shown what   *)
(* was saved last.                                                         *)
(***************************************************************************)
THEOREM VersionsHonoured ==
  ASSUME \A q \in Queries :
           q.name[1] \notin AnyVersion \cup Immediate => PassesVersion(q)
  PROVE  Spec => []VersionHonoured
<1>1. Init => VersionHonoured
  BY DEF Init, VersionHonoured, Idle
<1>2. IInv /\ VersionHonoured /\ [Next]_vars => VersionHonoured'
  <2> SUFFICES ASSUME IInv, VersionHonoured, [Next]_vars
               PROVE  VersionHonoured'
    OBVIOUS
  <2>1. CASE StartChain \/ StartQuery
    BY <2>1, StartEffects DEF VersionHonoured
  <2>2. CASE Respond
    <3> SUFFICES ASSUME call'.phase = "answered",
                        call'.task.req = "source", call'.got # None,
                        objectType' \notin AnyVersion
                 PROVE  /\ /\ call'.version = "active"
                           /\ object'.active # None
                           => call'.got = object'.active
                        /\ call'.version = "inactive" =>
                             call'.got = Newest(object')
      BY DEF VersionHonoured, Newest
    <3>1. PICK out \in Accepted \cup Refused \cup Lost :
           /\ object' = out.object /\ Tells(out)
           /\ call.phase = "query" /\ Pending = "source"
           /\ call'.got = out.got
           /\ call.task \in Queries /\ call.task.req = "source"
           /\ Stated = call.task.told[call.version]
           /\ ReadingOf = call.task.reading
      BY <2>2, SourceAnswered
    <3>2. /\ Busy /\ call'.version = call.version /\ CallKnown
          /\ objectType' = objectType
      BY <2>2, <3>1, ResponseEffects DEF Busy, Tells, Notes
    <3>3. objectType \notin Immediate =>
            /\ call.version = "active" => Stated = "active"
            /\ call.version = "inactive" => Stated = "inactive"
      <4>1. objectType \notin Immediate => PassesVersion(call.task)
        BY <3>1, <3>2 DEF CallKnown
      <4>2. QED
        BY <3>1, <4>1 DEF PassesVersion, Versions
    <3>4. objectType \in Immediate => Newest(object) = object.active
      BY DEF IInv, ObjectKnown, Newest
    <3>5. out \in Carried
      BY <3>1, <3>2, OutcomeEffects DEF RefusalOf, LossOf
    <3>6. object' = object /\ call'.got \in Shown(Stated)
      BY <3>1, <3>2, <3>5, CarriedEffects DEF EffectOf, Looks
    <3>7. /\ Stated = "active" /\ object.active # None =>
               Shown(Stated) = {object.active}
          /\ Stated = "inactive" => Shown(Stated) = {Newest(object)}
          /\ Shown(Stated) \subseteq {object.active, Newest(object)}
      BY DEF Shown
    <3>8. QED
      BY <3>2, <3>3, <3>4, <3>6, <3>7
  <2>3. CASE Return
    BY <2>3 DEF Return, VersionHonoured, Idle
  <2>4. CASE Others \/ UNCHANGED vars
    <3>1. CASE Busy
      <4>1. call'.phase # "answered"
        BY <2>4, <3>1, OthersEffects DEF Upset, Busy, vars
      <4>2. QED
        BY <4>1 DEF VersionHonoured
    <3>2. CASE ~Busy
      BY <2>4, <3>2, SettledStays DEF VersionHonoured, Newest
    <3>3. QED
      BY <3>1, <3>2
  <2>5. QED
    BY <2>1, <2>2, <2>3, <2>4 DEF Next
<1>3. QED
  BY <1>1, <1>2, Invariance, PTL DEF Spec

-----------------------------------------------------------------------------
(* What a check has reported. *)

(* A call that knows of errors has failed, or is cleaning up.              *)
ReportHeeded ==
  call # Idle /\ call.flagged /\ objectType \notin IgnoresCheck =>
    call.phase \in {"rescue", "rejected", "failed"}

(* A check of what is to be written that reports errors is thrown. *)
LEMMA ReportThrown ==
  ASSUME \A q \in Queries :
           q.name[1] \notin IgnoresCheck => NoticesReport(q),
         \A c \in Catalogue :
           c.name[1] \notin IgnoresCheck =>
             ChecksFirmly(c) /\ HeedsReport(c, RecordOf(c)),
         IInv, AskedAgain, Busy, objectType \notin IgnoresCheck,
         Pending = "check", ChecksContent
  PROVE  /\ Throws("flawed") /\ ~AsksAgain("flawed")
         /\ call.phase \in {"query", "main"}
         /\ call.phase = "main" => ~call.task.steps[call.at].soft
<1>1. CallKnown
  BY CallPhase
<1>2. CASE call.phase = "query"
  <2>1. /\ call.task \in Queries /\ call.task.req = "check"
        /\ call.task.gives /\ ReadingOf = call.task.reading
    BY <1>1, <1>2 DEF CallKnown, Asking, Pending, ReadingOf, ChecksContent
  <2>2. Notices(ReadingOf, {"flawed"})
    BY <1>1, <2>1 DEF NoticesReport, CallKnown
  <2>3. QED
    BY <1>2, <2>2, Noticed
<1>3. CASE call.phase # "query"
  <2>1. /\ call.phase = "main" /\ call.task \in Catalogue
        /\ \E i \in DOMAIN call.task.steps :
             i > call.at /\ call.task.steps[i].req = "write"
    BY <1>1, <1>3 DEF ChecksContent, CallKnown, Asking, Busy
  <2>2. /\ call.at \in DOMAIN call.task.steps
        /\ call.task.steps[call.at].req = "check"
        /\ ReadingOf = RecordOf(call.task).requests["check"]
    BY <1>1, <2>1 DEF CallKnown, Part, Pending, ReadingOf
  <2>3. /\ ChecksFirmly(call.task)
        /\ HeedsReport(call.task, RecordOf(call.task))
    BY <1>1, <2>1 DEF CallKnown
  <2>4. PICK i \in DOMAIN call.task.steps :
          i > call.at /\ call.task.steps[i].req = "write"
    BY <2>1
  <2>5. call.at < i
    <3>1. DOMAIN call.task.steps \subseteq Nat
      BY <2>1, PartType DEF Part
    <3>2. QED
      BY <2>2, <2>4, <3>1
  <2>6. Notices(ReadingOf, {"flawed"}) /\ ~call.task.steps[call.at].soft
    BY <2>2, <2>3, <2>4, <2>5 DEF ChecksFirmly, HeedsReport
  <2>7. QED
    BY <2>1, <2>6, Noticed
<1>4. QED
  BY <1>2, <1>3

(***************************************************************************)
(* Where the checks before a write and the checks of a given content fail  *)
(* on what is reported, a call in which a check has reported errors does   *)
(* not resolve and writes nothing, whether the report was the answer to    *)
(* the first check run or to its repetition.                               *)
(***************************************************************************)
THEOREM ReportsHeeded ==
  ASSUME \A q \in Queries :
           q.name[1] \notin IgnoresCheck => NoticesReport(q),
         \A c \in Catalogue :
           c.name[1] \notin IgnoresCheck =>
             ChecksFirmly(c) /\ HeedsReport(c, RecordOf(c))
  PROVE  Spec => []ReportedNotWritten
<1>1. Init => ReportHeeded
  BY DEF Init, ReportHeeded
<1>2. IInv /\ AskedAgain /\ ReportHeeded /\ [Next]_vars => ReportHeeded'
  <2> SUFFICES ASSUME IInv, AskedAgain, ReportHeeded, [Next]_vars
               PROVE  ReportHeeded'
    OBVIOUS
  <2>1. CASE StartChain \/ StartQuery
    BY <2>1, StartEffects DEF ReportHeeded, Begun
  <2>2. CASE Respond
    <3> SUFFICES ASSUME call'.flagged, objectType \notin IgnoresCheck
                 PROVE  call'.phase \in {"rescue", "rejected", "failed"}
      BY <2>2, ResponseEffects DEF ReportHeeded
    <3>1. Busy /\ CallKnown /\ call # Idle
      BY <2>2, ResponseEffects
    <3>2. PICK out \in Accepted \cup Refused \cup Lost :
            Repeats(out) \/ Tells(out) \/ GoesOn(out) \/ Fails(out)
      BY <2>2, ResponseEffects
    <3>3. CASE Repeats(out)
      <4>1. call'.phase = call.phase /\ call'.flagged = call.flagged
        BY <3>1, <3>3 DEF Repeats, CallKnown, Calls
      <4>2. QED
        BY <3>1, <4>1 DEF ReportHeeded
    <3>4. CASE call.flagged /\ ~Repeats(out)
      <4>1. call.phase = "rescue"
        BY <3>1, <3>4 DEF ReportHeeded, Busy
      <4>2. GoesOn(out) /\ Goes("rescue", call.at)
        BY <3>2, <3>4, <4>1 DEF Tells, GoesOn, Fails
      <4>3. QED
        BY <4>2 DEF Goes
    <3>5. CASE ~call.flagged /\ ~Repeats(out)
      <4>1. Pending = "check" /\ ChecksContent /\ out.answer = "flawed"
        BY <3>2, <3>5 DEF Tells, GoesOn, Fails, Notes
      <4>2. /\ Throws(out.answer)
            /\ call.phase = "main" => ~call.task.steps[call.at].soft
            /\ call.phase \in {"query", "main"}
        BY <3>1, <4>1, ReportThrown
      <4>3. ~GoesOn(out)
        BY <4>2 DEF GoesOn, Part
      <4>4. CASE Tells(out)
        BY <4>1, <4>2, <4>4 DEF Tells
      <4>5. CASE Fails(out)
        BY <4>5 DEF Fails, Goes
      <4>6. QED
        BY <3>2, <3>5, <4>3, <4>4, <4>5
    <3>6. QED
      BY <3>3, <3>4, <3>5
  <2>3. CASE Return
    BY <2>3 DEF Return, ReportHeeded
  <2>4. CASE Others
    <3>1. CASE Upset
      BY <2>4, <3>1, OthersEffects DEF Upset, ReportHeeded
    <3>2. CASE call' = call
      BY <2>4, <3>2, OthersEffects DEF ReportHeeded
    <3>3. QED
      BY <2>4, <3>1, <3>2, OthersEffects
  <2>5. CASE UNCHANGED vars
    BY <2>5 DEF vars, ReportHeeded
  <2>6. QED
    BY <2>1, <2>2, <2>3, <2>4, <2>5 DEF Next
<1>3. ReportHeeded => ReportedNotWritten
  BY DEF ReportHeeded, ReportedNotWritten
<1>4. QED
  BY <1>1, <1>2, <1>3, Invariance, AskedAgainHolds, PTL DEF Spec

-----------------------------------------------------------------------------
(* What a chain has done.                                                  *)

(* The steps of the try block that lie behind the call. *)
Behind ==
  IF call.phase \in {"main", "resolved"}
    THEN {i \in DOMAIN call.task.steps : call.phase = "main" => i < call.at}
    ELSE {}

(* The flags that are up to the caller. *)
CallerFlags == FlagsOf(call.options, FALSE, FALSE)

(* The caller wants a request of this kind. *)
Asks(r) ==
  \E i \in DOMAIN call.task.steps :
    call.task.steps[i].req = r /\ Sure(call.task.steps[i], CallerFlags)

(* A request of this kind lies behind that was sent if the caller wanted   *)
(* it, and did not fail.                                                   *)
Done(r) ==
  \E i \in Behind :
    call.task.steps[i].req = r /\ Sure(call.task.steps[i], CallerFlags)

(* What was written is the newest content until somebody else changes it.  *)
Written == Done("write") /\ ~call.upset => Newest(object) = call.content

(* What was activated is active. *)
ActivationDone ==
  /\ Done("activate") /\ ~call.upset
  /\ call.task.name \notin IgnoresActivation
  => object.inactive = None /\ Exists(object)

(* What was read back is what was written. *)
OwnReadBack ==
  /\ Done("read") /\ Asks("write")
  /\ objectType \notin BackUnstated /\ ~call.upset
  => call.got = call.content

(* What was created exists. *)
Created ==
  /\ Done("create") /\ ~call.upset
  /\ call.task.kind = "create" /\ call.task.name \notin Unproven
  => Exists(object)

(* What may be deleted is not locked, and what was deleted does not exist. *)
Deletable ==
  /\ Done("verdict") /\ ~call.upset
  /\ call.task.kind = "delete"
  /\ call.task.name \notin IgnoresVerdict \cup ReadsDeletion
  => object.lock = "free"

Deleted ==
  /\ \E r \in Deletions : Done(r)
  /\ ~call.upset \/ call.task.name \in ReadsDeletion
  /\ call.task.kind = "delete" /\ call.task.name \notin IgnoresVerdict
  => ~Exists(object)

-----------------------------------------------------------------------------
(* The chain goes on. *)

(* A response, with what became of its request. *)
Responds(out) ==
  /\ Busy /\ CallKnown /\ objectType' = objectType
  /\ out \in Accepted \cup Refused \cup Lost
  /\ object' = out.object
  /\ Repeats(out) \/ Tells(out) \/ GoesOn(out) \/ Fails(out)

(* Every response is one. *)
LEMMA SomeResponse ==
  ASSUME IInv, Respond
  PROVE  \E out : Responds(out)
BY ResponseEffects DEF Responds

(* It is to the same call. *)
LEMMA RespondsSame ==
  ASSUME NEW out, Responds(out)
  PROVE  /\ call'.task = call.task /\ call'.options = call.options
         /\ call'.content = call.content /\ CallerFlags' = CallerFlags
         /\ Repeats(out) =>
              /\ call'.phase = call.phase /\ call'.at = call.at
              /\ call'.upset = call.upset /\ call'.got = call.got
              /\ call'.made = call.made
<1>1. CASE Repeats(out)
  BY <1>1 DEF Responds, CallKnown, Calls, Repeats, CallerFlags
<1>2. CASE ~Repeats(out)
  BY <1>2 DEF Responds, Tells, GoesOn, Fails, Notes, CallerFlags
<1>3. QED
  BY <1>1, <1>2

(* The position of a chain. *)
LEMMA MainPosition ==
  ASSUME IInv, Busy, call.phase = "main"
  PROVE  /\ call.task \in Catalogue /\ call.content \in Contents
         /\ DOMAIN call.task.steps \subseteq Nat
         /\ call.at \in DOMAIN call.task.steps
         /\ Pending = call.task.steps[call.at].req
         /\ Sends(call.task, Pending) /\ Pending \in Requests
         /\ ReadingOf = RecordOf(call.task).requests[Pending]
         /\ call.task.name[1] = objectType
<1>1. CallKnown
  BY CallPhase
<1>2. /\ call.task \in Catalogue /\ call.content \in Contents
      /\ call.at \in DOMAIN call.task.steps
      /\ Pending = call.task.steps[call.at].req
      /\ ReadingOf = RecordOf(call.task).requests[Pending]
      /\ call.task.name[1] = objectType
  BY <1>1 DEF CallKnown, Asking, Part, Pending, ReadingOf
<1>3. call.task.steps \in Seq(Step) /\ DOMAIN call.task.steps \subseteq Nat
  BY <1>2, PartType DEF Part
<1>4. call.task.steps[call.at] \in Step
  BY <1>2, <1>3
<1>5. QED
  BY <1>2, <1>3, <1>4 DEF Sends, Step

(* What lies behind after a response lay behind before it, or is the       *)
(* request answered.                                                       *)
LEMMA BehindAfter ==
  ASSUME IInv, NEW out, Responds(out), NEW i \in Behind',
         Sure(call.task.steps[i], CallerFlags)
  PROVE  \/ i \in Behind
         \/ /\ call.phase = "main" /\ i = call.at /\ GoesOn(out)
            /\ ~Throws(out.answer) /\ Pending = call.task.steps[i].req
<1>1. /\ call'.phase \in {"main", "resolved"}
      /\ i \in DOMAIN call.task.steps
      /\ call'.phase = "main" => i < call'.at
  BY RespondsSame DEF Behind
<1>2. CASE Repeats(out)
  BY <1>1, <1>2, RespondsSame DEF Behind
<1>3. CASE ~Repeats(out)
  <2>1. GoesOn(out) /\ call.phase = "main" /\ Goes("main", call.at)
    BY <1>1, <1>3 DEF Responds, Tells, GoesOn, Fails, Goes
  <2>2. /\ call.at \in DOMAIN call.task.steps
        /\ DOMAIN call.task.steps \subseteq Nat
        /\ Pending = call.task.steps[call.at].req
    BY <2>1, MainPosition DEF Responds
  <2> DEFINE rest == StepsAfter(call.at, call.task.steps,
                                FlagsOf(call.options, call'.held, call'.made))
  <2>3. CallerFlags \subseteq FlagsOf(call.options, call'.held, call'.made)
    BY DEF CallerFlags, FlagsOf
  <2>4. call.at < i => i \in rest
    BY <1>1, <2>3 DEF StepsAfter, Sure
  <2>5. \/ rest = {} /\ call'.phase = "resolved"
        \/ call'.phase = "main" /\ \A k \in rest : call'.at <= k
    BY <2>1 DEF Goes, Part
  <2>6. call'.phase = "main" => call'.at \in Nat
    BY <2>1, <2>2 DEF Goes, StepsAfter, Part
  <2>7. ~(call.at < i)
    BY <1>1, <2>2, <2>4, <2>5, <2>6
  <2>8. i < call.at => i \in Behind
    BY <1>1, <2>1 DEF Behind
  <2>9. i = call.at => ~Throws(out.answer)
    BY <2>1 DEF GoesOn, Sure, Part
  <2>10. i < call.at \/ i = call.at
    BY <1>1, <2>2, <2>7
  <2>11. QED
    BY <2>1, <2>2, <2>8, <2>9, <2>10
<1>4. QED
  BY <1>2, <1>3

(* So does what is done. *)
LEMMA DoneAfter ==
  ASSUME IInv, NEW out, Responds(out), NEW r, Done(r)'
  PROVE  \/ Done(r) /\ call.phase = "main"
         \/ /\ call.phase = "main" /\ Pending = r
            /\ GoesOn(out) /\ ~Throws(out.answer)
<1>1. PICK i \in Behind' :
        /\ call'.task.steps[i].req = r
        /\ Sure(call'.task.steps[i], CallerFlags')
  BY DEF Done
<1>2. call'.task = call.task /\ CallerFlags' = CallerFlags
  BY RespondsSame
<1>3. Done(r) => call.phase = "main"
  BY DEF Done, Behind, Responds, Busy
<1>4. QED
  BY <1>1, <1>2, <1>3, BehindAfter DEF Done

(* The requests that do not come after one that is behind. *)
LEMMA PendingAfter ==
  ASSUME IInv, Busy, NEW i \in Behind, NEW requests,
         NoneAfter(call.task, i, requests)
  PROVE  Pending \notin requests
<1>1. call.phase = "main" /\ i \in DOMAIN call.task.steps /\ i < call.at
  BY DEF Behind, Busy
<1>2. QED
  BY <1>1, MainPosition DEF NoneAfter

(* What a request of the try block heeds does not pass. *)
LEMMA Heeded ==
  ASSUME IInv, AskedAgain, Busy, call.phase = "main", NEW answers,
         Heeds(call.task, RecordOf(call.task), Pending, answers),
         NEW a, ~Throws(a)
  PROVE  a \notin answers
<1>1. Notices(ReadingOf, answers)
  BY MainPosition DEF Heeds
<1>2. QED
  BY <1>1, Noticed

(* If everything it may fail with is heeded, the request that passes was   *)
(* carried out.                                                            *)
LEMMA Performed ==
  ASSUME IInv, AskedAgain, NEW out, Responds(out), call.phase = "main",
         NEW answers, Errors \subseteq answers,
         Pending = "lock" => "silent" \in answers,
         Pending = "activate" => "flawed" \in answers,
         Pending \in {"delete", "deleteProven"} =>
           \/ "flawed" \in answers \/ object.lock = "free"
           \/ objectType \in Direct,
         Pending # "check",
         Heeds(call.task, RecordOf(call.task), Pending, answers),
         ~Throws(out.answer)
  PROVE  out \in Carried /\ EffectOf(out)
<1>1. Busy
  BY DEF Responds
<1>2. out.answer \notin answers
  BY <1>1, Heeded
<1>3. out \in Carried \/ RefusalOf(out) \/ LossOf(out)
  BY <1>1, OutcomeEffects DEF Responds
<1>4. ~LossOf(out)
  BY <1>2 DEF LossOf, Errors
<1>5. ~RefusalOf(out)
  BY <1>2 DEF RefusalOf
<1>6. QED
  BY <1>1, <1>3, <1>4, <1>5, CarriedEffects

(* What other developers did is forgotten with the lock only. *)
LEMMA UpsetAfter ==
  ASSUME NEW out, Responds(out), ~call'.upset
  PROVE  \/ ~call.upset
         \/ Pending = "lock" /\ ~Throws(out.answer) /\ ~Repeats(out)
<1>1. CASE Repeats(out)
  BY <1>1, RespondsSame
<1>2. CASE ~Repeats(out)
  BY <1>2 DEF Responds, Tells, GoesOn, Fails, Notes
<1>3. QED
  BY <1>1, <1>2

(* Whether its caller learns of it or not, a request is carried out, or    *)
(* not.                                                                    *)
LEMMA ObjectAfter ==
  ASSUME IInv, NEW out, Responds(out)
  PROVE  \/ object' = object
         \/ \E o : EffectOf(o) /\ object' = o.object
<1>1. Busy /\ object' = out.object
  BY DEF Responds
<1>2. out \in Carried \/ RefusalOf(out) \/ LossOf(out)
  BY <1>1, OutcomeEffects DEF Responds
<1>3. CASE out \in Carried
  BY <1>1, <1>3, CarriedEffects
<1>4. CASE RefusalOf(out)
  BY <1>1, <1>4 DEF RefusalOf
<1>5. CASE LossOf(out)
  <2>1. PICK o \in Carried : out.object = o.object
    BY <1>5 DEF LossOf
  <2>2. EffectOf(o)
    BY <1>1, CarriedEffects
  <2>3. QED
    BY <1>1, <2>1, <2>2
<1>6. QED
  BY <1>2, <1>3, <1>4, <1>5

(* Most requests leave the contents of the object alone. *)
LEMMA ContentsAfter ==
  ASSUME IInv, NEW out, Responds(out),
         Pending \notin {"create", "write", "activate"} \cup Deletions
  PROVE  /\ object'.active = object.active
         /\ object'.inactive = object.inactive
         /\ Newest(object') = Newest(object)
         /\ Exists(object') <=> Exists(object)
         /\ object'.lock # object.lock => Pending \in {"lock", "unlock"}
         /\ Pending # "lock" => object'.lock \in {object.lock, "free"}
<1>1. Sound(object) /\ Busy
  BY DEF IInv, ObjectKnown, Sound, Responds
<1>2. CASE object' = object
  BY <1>2
<1>3. CASE \E o : EffectOf(o) /\ object' = o.object
  <2>1. PICK o : EffectOf(o) /\ object' = o.object
    BY <1>3
  <2>2. \/ object' = object
        \/ object' = [object EXCEPT !.lock = "ours"] /\ Pending = "lock"
        \/ object' = [object EXCEPT !.lock = "free"] /\ Pending = "unlock"
    BY <1>1, <2>1, PendingType DEF EffectOf, Requests, Deletions, Looks
  <2>3. CASE object' = object
    BY <2>3
  <2>4. CASE object' = [object EXCEPT !.lock = "ours"] /\ Pending = "lock"
    BY <1>1, <2>4, LockSound
  <2>5. CASE object' = [object EXCEPT !.lock = "free"] /\ Pending = "unlock"
    BY <1>1, <2>5, LockSound
  <2>6. QED
    BY <2>2, <2>3, <2>4, <2>5
<1>4. QED
  BY <1>2, <1>3, ObjectAfter

(* Nothing is done when a method is called, or when it has returned. *)
LEMMA DoneAnew ==
  ASSUME IInv, StartChain \/ StartQuery \/ Return, NEW r
  PROVE  ~Done(r)'
<1>1. CASE StartChain \/ StartQuery
  <2>1. CallKnown' /\ call'.at = 1 /\ call'.phase \in {"main", "query"}
    BY <1>1, StartEffects DEF Begun
  <2>2. CASE call'.phase = "main"
    <3>1. call'.task \in Catalogue
      BY <2>1, <2>2 DEF CallKnown, Asking
    <3>2. DOMAIN call'.task.steps \subseteq Nat \ {0}
      BY <3>1, ChainsAssumption DEF WellFormed, Chain
    <3>3. QED
      BY <2>1, <2>2, <3>2 DEF Done, Behind
  <2>3. CASE call'.phase = "query"
    BY <2>3 DEF Done, Behind
  <2>4. QED
    BY <2>1, <2>2, <2>3
<1>2. CASE Return
  BY <1>2 DEF Return, Idle, Done, Behind
<1>3. QED
  BY <1>1, <1>2

(* What is done stays done. *)
LEMMA DoneStays ==
  ASSUME IInv, Others \/ UNCHANGED vars, NEW r
  PROVE  Done(r)' <=> Done(r)
<1>1. /\ call'.task = call.task /\ call'.phase = call.phase
      /\ call'.at = call.at /\ call'.options = call.options
  BY QuietStays DEF Upset
<1>2. QED
  BY <1>1 DEF Done, Behind, CallerFlags

-----------------------------------------------------------------------------
(* Writes and activations. *)

(* The newest content survives all requests but deletions. *)
LEMMA NewestAfter ==
  ASSUME IInv, NEW out, Responds(out), call.phase = "main",
         Newest(object) = call.content, Pending \notin Deletions
  PROVE  Newest(object') = call.content /\ Exists(object')
<1>1. /\ Sound(object) /\ Busy /\ call.content \in Contents
      /\ call.content # None
  BY MainPosition, ContentsAssumption
     DEF IInv, ObjectKnown, Sound, Responds
<1>2. Exists(object)
  BY <1>1 DEF Exists
<1>3. CASE Pending \in {"create", "write", "activate"}
  <2>1. CASE object' = object
    BY <1>2, <2>1
  <2>2. CASE \E o : EffectOf(o) /\ object' = o.object
    <3>1. \/ object' = Saving(object, call.content)
          \/ object' \in {object, Activated(object)}
      BY <1>2, <1>3, <2>2 DEF EffectOf
    <3>2. QED
      BY <1>1, <1>2, <3>1, SavingSound, ActivatedSound
  <2>3. QED
    BY <2>1, <2>2, ObjectAfter
<1>4. CASE Pending \notin {"create", "write", "activate"}
  BY <1>2, <1>4, ContentsAfter
<1>5. QED
  BY <1>3, <1>4

(* A write that passes has written, and nobody undoes it unnoticed. *)
LEMMA ResponseWritten ==
  ASSUME \A c \in Catalogue : WritesFirmly(c) /\ HeedsWrite(c, RecordOf(c)),
         IInv, AskedAgain, Written, NEW out, Responds(out)
  PROVE  Written'
<1> SUFFICES ASSUME Done("write")', ~call'.upset
             PROVE  Newest(object') = call.content
  BY RespondsSame DEF Written, Newest
<1>1. Busy /\ call.phase = "main"
  BY DoneAfter DEF Responds
<1>2. /\ WritesFirmly(call.task) /\ HeedsWrite(call.task, RecordOf(call.task))
      /\ call.content \in Contents
  BY <1>1, MainPosition
<1>3. CASE Done("write")
  <2>1. PICK i \in Behind : call.task.steps[i].req = "write"
    BY <1>3 DEF Done
  <2>2. i \in DOMAIN call.task.steps
    BY DEF Behind
  <2>3. Pending \notin Deletions \cup {"lock"}
    BY <1>1, <1>2, <2>1, <2>2, PendingAfter DEF WritesFirmly
  <2>4. ~call.upset
    BY <2>3, UpsetAfter
  <2>5. QED
    BY <1>1, <1>3, <2>3, <2>4, NewestAfter DEF Written
<1>4. CASE Pending = "write" /\ ~Throws(out.answer)
  <2>1. EffectOf(out)
    BY <1>1, <1>2, <1>4, Performed DEF HeedsWrite
  <2>2. object' = Saving(object, call.content)
    BY <1>4, <2>1 DEF EffectOf, Responds
  <2>3. Sound(object)
    BY DEF IInv, ObjectKnown, Sound
  <2>4. QED
    BY <1>2, <2>2, <2>3, SavingSound
<1>5. QED
  BY <1>3, <1>4, DoneAfter

(* It stays what it is. *)
LEMMA WrittenHolds ==
  ASSUME \A c \in Catalogue : WritesFirmly(c) /\ HeedsWrite(c, RecordOf(c))
  PROVE  Spec => []Written
<1>1. Init => Written
  BY DEF Init, Written, Done, Behind, Idle
<1>2. IInv /\ AskedAgain /\ Written /\ [Next]_vars => Written'
  <2> SUFFICES ASSUME IInv, AskedAgain, Written, [Next]_vars PROVE Written'
    OBVIOUS
  <2>1. CASE StartChain \/ StartQuery \/ Return
    BY <2>1, DoneAnew DEF Written
  <2>2. CASE Respond
    BY <2>2, SomeResponse, ResponseWritten
  <2>3. CASE Others \/ UNCHANGED vars
    <3>1. Done("write")' <=> Done("write")
      BY <2>3, DoneStays
    <3>2. QED
      BY <2>3, <3>1, QuietStays DEF Upset, Written, Newest
  <2>4. QED
    BY <2>1, <2>2, <2>3 DEF Next
<1>3. QED
  BY <1>1, <1>2, Invariance, AskedAgainHolds, PTL DEF Spec

(* An activation that passes has activated the newest content. *)
LEMMA ResponseActivated ==
  ASSUME \A c \in Catalogue :
           /\ WritesFirmly(c)
           /\ c.name \notin IgnoresActivation =>
                HeedsActivation(c, RecordOf(c)),
         IInv, AskedAgain, ActivationDone, NEW out, Responds(out)
  PROVE  ActivationDone'
<1> SUFFICES ASSUME Done("activate")', ~call'.upset,
                    call.task.name \notin IgnoresActivation
             PROVE  object'.inactive = None /\ Exists(object')
  BY RespondsSame DEF ActivationDone, Exists, Newest
<1>1. Busy /\ call.phase = "main" /\ Sound(object)
  BY DoneAfter DEF Responds, IInv, ObjectKnown, Sound
<1>2. WritesFirmly(call.task) /\ HeedsActivation(call.task, RecordOf(call.task))
  BY <1>1, MainPosition
<1>3. CASE Done("activate")
  <2>1. PICK i \in Behind : call.task.steps[i].req = "activate"
    BY <1>3 DEF Done
  <2>2. i \in DOMAIN call.task.steps
    BY DEF Behind
  <2>3. Pending \notin Deletions \cup {"lock", "write"}
    BY <1>1, <1>2, <2>1, <2>2, PendingAfter DEF WritesFirmly
  <2>4. object.inactive = None /\ Exists(object)
    BY <1>3, <2>3, UpsetAfter DEF ActivationDone
  <2>5. CASE Pending \in {"create", "activate"}
    <3>1. object' \in {object, Activated(object)}
      BY <2>4, <2>5, ObjectAfter DEF EffectOf
    <3>2. QED
      BY <1>1, <2>4, <3>1, ActivatedSound
  <2>6. CASE Pending \notin {"create", "activate"}
    BY <2>3, <2>4, <2>6, ContentsAfter
  <2>7. QED
    BY <2>5, <2>6
<1>4. CASE Pending = "activate" /\ ~Throws(out.answer)
  <2>1. EffectOf(out)
    BY <1>1, <1>2, <1>4, Performed DEF HeedsActivation
  <2>2. out.answer \notin Errors \cup {"flawed", "excused"}
    BY <1>1, <1>2, <1>4, Heeded DEF HeedsActivation
  <2>3. Exists(object) /\ object' = Activated(object)
    BY <1>4, <2>1, <2>2 DEF EffectOf, Responds
  <2>4. QED
    BY <1>1, <2>3, ActivatedSound
<1>5. QED
  BY <1>3, <1>4, DoneAfter

(* It stays active. *)
LEMMA ActivationHolds ==
  ASSUME \A c \in Catalogue :
           /\ WritesFirmly(c)
           /\ c.name \notin IgnoresActivation =>
                HeedsActivation(c, RecordOf(c))
  PROVE  Spec => []ActivationDone
<1>1. Init => ActivationDone
  BY DEF Init, ActivationDone, Done, Behind, Idle
<1>2. IInv /\ AskedAgain /\ ActivationDone /\ [Next]_vars => ActivationDone'
  <2> SUFFICES ASSUME IInv, AskedAgain, ActivationDone, [Next]_vars
               PROVE  ActivationDone'
    OBVIOUS
  <2>1. CASE StartChain \/ StartQuery \/ Return
    BY <2>1, DoneAnew DEF ActivationDone
  <2>2. CASE Respond
    BY <2>2, SomeResponse, ResponseActivated
  <2>3. CASE Others \/ UNCHANGED vars
    <3>1. Done("activate")' <=> Done("activate")
      BY <2>3, DoneStays
    <3>2. QED
      BY <2>3, <3>1, QuietStays DEF Upset, ActivationDone, Exists, Newest
  <2>4. QED
    BY <2>1, <2>2, <2>3 DEF Next
<1>3. QED
  BY <1>1, <1>2, Invariance, AskedAgainHolds, PTL DEF Spec

(* Whether a call makes a firm request is up to its caller. *)
LEMMA MakesFirm ==
  ASSUME CallKnown, NEW r,
         \A i \in DOMAIN call.task.steps :
           call.task.steps[i].req = r => Firm(call.task.steps[i])
  PROVE  Makes(r) <=> Asks(r)
<1>1. CallerFlags \subseteq FlagsOf(call.options, TRUE, call.made)
  BY DEF CallerFlags, FlagsOf
<1>2. FlagsOf(call.options, TRUE, call.made) \cap (Options \cup {"inert"})
        \subseteq CallerFlags
  BY DEF CallerFlags, FlagsOf, Options
<1>3. QED
  BY <1>1, <1>2 DEF Makes, Asks, Taken, Firm, Sure

(* A call that resolves has done what is firm. *)
LEMMA ResolvedDone ==
  ASSUME CallKnown, call.phase = "resolved", NEW r, Makes(r),
         \A i \in DOMAIN call.task.steps :
           call.task.steps[i].req = r => Firm(call.task.steps[i])
  PROVE  Done(r)
<1>1. PICK i \in DOMAIN call.task.steps :
        /\ call.task.steps[i].req = r
        /\ Sure(call.task.steps[i], CallerFlags)
  BY MakesFirm DEF Asks
<1>2. i \in Behind
  BY DEF Behind
<1>3. QED
  BY <1>1, <1>2 DEF Done

(***************************************************************************)
(* Where a method writes and activates under one lock, nothing of it is    *)
(* swallowed, writes fail on every error and activations also on the       *)
(* messages of an answer 200 that activated nothing, a call that resolves  *)
(* has saved what it was given and has left nothing inactive - unless      *)
(* another developer came in after the lock was given back.                *)
(***************************************************************************)
THEOREM WritesLast ==
  ASSUME \A c \in Catalogue :
           /\ WritesFirmly(c) /\ HeedsWrite(c, RecordOf(c))
           /\ c.name \notin IgnoresActivation =>
                HeedsActivation(c, RecordOf(c))
  PROVE  Spec => []WritesTakeEffect
<1>1. IInv /\ Written /\ ActivationDone => WritesTakeEffect
  <2> SUFFICES ASSUME IInv, Written, ActivationDone,
                      call.phase = "resolved", ~call.upset
               PROVE  /\ Makes("write") => Newest(object) = call.content
                      /\ /\ Makes("activate")
                         /\ call.task.name \notin IgnoresActivation
                         => object.inactive = None /\ Exists(object)
    BY DEF WritesTakeEffect
  <2>1. CallKnown
    BY CallPhase DEF Idle
  <2>2. WritesFirmly(call.task)
    BY <2>1 DEF CallKnown, Asking
  <2>3. \A i \in DOMAIN call.task.steps :
          call.task.steps[i].req \in {"write", "activate"} =>
            Firm(call.task.steps[i])
    BY <2>2 DEF WritesFirmly
  <2>4. \A r \in {"write", "activate"} : Makes(r) => Done(r)
    BY <2>1, <2>3, ResolvedDone
  <2>5. QED
    BY <2>4 DEF Written, ActivationDone
<1>2. Spec => []Written
  BY WrittenHolds
<1>3. Spec => []ActivationDone
  BY ActivationHolds
<1>4. QED
  BY <1>1, <1>2, <1>3, Invariance, PTL

-----------------------------------------------------------------------------
(* Reading back. *)

(* A chain awaits no request the options of the caller have it skip. *)
Wanted ==
  call.phase = "main" =>
    call.task.steps[call.at].needs \subseteq FlagsOf(call.options, TRUE, TRUE)

(* Every step keeps that. *)
LEMMA WantedHolds == Spec => []Wanted
<1>1. Init => Wanted
  BY DEF Init, Wanted, Idle
<1>2. IInv /\ Wanted /\ [Next]_vars => Wanted'
  <2> SUFFICES ASSUME IInv, Wanted, [Next]_vars, call'.phase = "main"
               PROVE  call'.task.steps[call'.at].needs
                        \subseteq FlagsOf(call'.options, TRUE, TRUE)
    BY DEF Wanted
  <2>1. CASE StartChain \/ StartQuery
    <3>1. CallKnown' /\ call'.at = 1
      BY <2>1, StartEffects DEF Begun
    <3>2. call'.task \in Catalogue
      BY <3>1 DEF CallKnown, Asking
    <3>3. QED
      BY <3>1, <3>2, ChainsAssumption DEF WellFormed
  <2>2. CASE Respond
    <3>1. PICK out : Responds(out)
      BY <2>2, SomeResponse
    <3>2. call'.task = call.task /\ call'.options = call.options
      BY <3>1, RespondsSame
    <3>3. CASE Repeats(out)
      BY <3>1, <3>2, <3>3, RespondsSame DEF Wanted
    <3>4. CASE ~Repeats(out)
      <4>1. Goes("main", call.at)
        BY <3>1, <3>4 DEF Responds, Tells, GoesOn, Fails, Goes
      <4>2. call.task.steps[call'.at].needs
              \subseteq FlagsOf(call.options, call'.held, call'.made)
        BY <4>1 DEF Goes, StepsAfter, Part
      <4>3. QED
        BY <3>2, <4>2 DEF FlagsOf
    <3>5. QED
      BY <3>3, <3>4
  <2>3. CASE Return
    BY <2>3 DEF Return, Idle
  <2>4. CASE Others \/ UNCHANGED vars
    BY <2>4, QuietStays DEF Upset, Wanted
  <2>5. QED
    BY <2>1, <2>2, <2>3, <2>4 DEF Next
<1>3. QED
  BY <1>1, <1>2, Invariance, PTL DEF Spec

(* When it reads back a call has written. *)
LEMMA WrittenBefore ==
  ASSUME IInv, Busy, call.phase = "main", ReadsBackLast(call.task),
         Asks("write"), NEW i \in DOMAIN call.task.steps,
         call.task.steps[i].req = "read", i < call.at \/ i = call.at
  PROVE  Done("write")
<1>1. PICK j \in DOMAIN call.task.steps :
        /\ call.task.steps[j].req = "write"
        /\ Sure(call.task.steps[j], CallerFlags)
  BY DEF Asks
<1>2. NoneAfter(call.task, i, {"write", "read"})
  BY <1>1 DEF ReadsBackLast, Sends
<1>3. ~(i < j) /\ i # j
  BY <1>1, <1>2 DEF NoneAfter
<1>4. j < call.at
  BY <1>3, MainPosition
<1>5. QED
  BY <1>1, <1>4 DEF Done, Behind

(* It reads the newest version, or the one there is. *)
LEMMA ReadsNewest ==
  ASSUME IInv, Wanted, Busy, call.phase = "main", Pending = "read",
         Sends(call.task, "write"), ReadsBackLast(call.task),
         ReadsOwn(call.task, RecordOf(call.task), Immediate)
  PROVE  Shown(Stated) = {Newest(object)}
<1>1. CASE objectType \in Immediate
  <2>1. Newest(object) = object.active
    BY <1>1 DEF IInv, ObjectKnown, Newest
  <2>2. QED
    BY <2>1 DEF Shown
<1>2. CASE objectType \notin Immediate
  <2>1. /\ call.at \in DOMAIN call.task.steps
        /\ call.task.steps[call.at].req = "read"
        /\ RecordOf(call.task).source[RecordOf(call.task).back] = "inactive"
    BY <1>2, MainPosition DEF ReadsOwn
  <2>2. ~Earlier("activate")
    <3> SUFFICES ASSUME NEW i \in Taken, call.task.steps[i].req = "activate"
                 PROVE  FALSE
      BY DEF Earlier
    <3>1. /\ "activate" \in call.task.steps[i].needs
          /\ "inert" \in call.task.steps[call.at].needs
      BY <2>1 DEF Taken, ReadsBackLast
    <3>2. /\ "activate" \in FlagsOf(call.options, TRUE, call.made)
          /\ "inert" \in FlagsOf(call.options, TRUE, TRUE)
      BY <3>1 DEF Taken, Wanted
    <3>3. "inert" \notin call.options
      <4>1. call.options \subseteq Options
        BY CallPhase DEF CallKnown, Calls
      <4>2. QED
        BY <4>1 DEF Options
    <3>4. QED
      BY <3>2, <3>3 DEF FlagsOf
  <2>3. Stated = "inactive"
    BY <2>1, <2>2 DEF Stated
  <2>4. QED
    BY <2>3 DEF Shown
<1>3. QED
  BY <1>1, <1>2

(* So it reads what it has written. *)
LEMMA ResponseReadBack ==
  ASSUME \A c \in Catalogue :
           /\ WritesFirmly(c) /\ HeedsWrite(c, RecordOf(c))
           /\ ReadsBackLast(c)
           /\ c.name[1] \notin BackUnstated =>
                ReadsOwn(c, RecordOf(c), Immediate),
         IInv, AskedAgain, Wanted, Written, OwnReadBack,
         NEW out, Responds(out)
  PROVE  OwnReadBack'
<1> SUFFICES ASSUME Done("read")', Asks("write"), ~call'.upset,
                    objectType \notin BackUnstated
             PROVE  call'.got = call.content
  BY RespondsSame DEF OwnReadBack, Asks, Responds
<1>1. Busy /\ call.phase = "main"
  BY DoneAfter DEF Responds
<1>2. /\ WritesFirmly(call.task) /\ ReadsBackLast(call.task)
      /\ ReadsOwn(call.task, RecordOf(call.task), Immediate)
      /\ Sends(call.task, "write")
  BY <1>1, MainPosition DEF Asks, Sends
<1>3. PICK i \in Behind' :
        /\ call.task.steps[i].req = "read"
        /\ Sure(call.task.steps[i], CallerFlags)
  BY RespondsSame DEF Done
<1>4. i \in DOMAIN call.task.steps
  BY RespondsSame DEF Behind
<1>5. \/ i \in Behind
      \/ /\ i = call.at /\ GoesOn(out) /\ ~Throws(out.answer)
         /\ Pending = "read"
  BY <1>3, BehindAfter
<1>6. Done("write")
  BY <1>1, <1>2, <1>3, <1>4, <1>5, WrittenBefore DEF Behind
<1>7. PICK j \in Behind : call.task.steps[j].req = "write"
  BY <1>6 DEF Done
<1>8. Pending # "lock"
  <2>1. j \in DOMAIN call.task.steps
    BY DEF Behind
  <2>2. NoneAfter(call.task, j, Deletions \cup {"lock"})
    BY <1>2, <1>7, <2>1 DEF WritesFirmly
  <2>3. QED
    BY <1>1, <2>2, PendingAfter
<1>9. ~call.upset
  BY <1>8, UpsetAfter
<1>10. CASE i \in Behind
  <2>1. call.got = call.content
    BY <1>3, <1>9, <1>10 DEF OwnReadBack, Done
  <2>2. NoneAfter(call.task, i, {"write", "read"})
    BY <1>2, <1>3, <1>4 DEF ReadsBackLast
  <2>3. Pending # "read" /\ Pending # "source"
    <3>1. Pending \in Requests
      BY <1>1, MainPosition
    <3>2. QED
      BY <1>1, <1>10, <2>2, <3>1, PendingAfter DEF Requests
  <2>4. QED
    BY <2>1, <2>3, RespondsSame DEF Responds, Tells, GoesOn, Fails, Notes
<1>11. CASE i = call.at /\ GoesOn(out) /\ ~Throws(out.answer)
            /\ Pending = "read"
  <2>1. Heeds(call.task, RecordOf(call.task), "read", Errors)
    BY <1>2, <1>11 DEF Heeds, ReadsOwn
  <2>2. EffectOf(out)
    BY <1>1, <1>11, <2>1, Performed
  <2>3. out.got \in Shown(Stated)
    BY <1>11, <2>2 DEF EffectOf, Looks
  <2>4. out.got = call.content
    BY <1>1, <1>2, <1>6, <1>9, <1>11, <2>3, ReadsNewest DEF Written
  <2>5. QED
    BY <1>11, <2>4 DEF GoesOn, Notes
<1>12. QED
  BY <1>5, <1>10, <1>11

(***************************************************************************)
(* Where, moreover, what is read back is read once, after the writes, and  *)
(* states the inactive version unless the type has only one, an update     *)
(* without activation returns what it has written, and not the active      *)
(* version that came before it.                                            *)
(***************************************************************************)
THEOREM ReadsBackOwn ==
  ASSUME \A c \in Catalogue :
           /\ WritesFirmly(c) /\ HeedsWrite(c, RecordOf(c))
           /\ ReadsBackLast(c)
           /\ c.name[1] \notin BackUnstated =>
                ReadsOwn(c, RecordOf(c), Immediate)
  PROVE  Spec => []ReadBackOwn
<1>1. Init => OwnReadBack
  BY DEF Init, OwnReadBack, Done, Behind, Idle
<1>2. /\ IInv /\ AskedAgain /\ Wanted /\ Written /\ OwnReadBack
      /\ [Next]_vars
      => OwnReadBack'
  <2> SUFFICES ASSUME IInv, AskedAgain, Wanted, Written, OwnReadBack,
                      [Next]_vars
               PROVE  OwnReadBack'
    OBVIOUS
  <2>1. CASE StartChain \/ StartQuery \/ Return
    BY <2>1, DoneAnew DEF OwnReadBack
  <2>2. CASE Respond
    BY <2>2, SomeResponse, ResponseReadBack
  <2>3. CASE Others \/ UNCHANGED vars
    <3>1. Done("read")' <=> Done("read")
      BY <2>3, DoneStays
    <3>2. QED
      BY <2>3, <3>1, QuietStays
         DEF Upset, OwnReadBack, Asks, CallerFlags
  <2>4. QED
    BY <2>1, <2>2, <2>3 DEF Next
<1>3. IInv /\ OwnReadBack => ReadBackOwn
  <2> SUFFICES ASSUME IInv, OwnReadBack,
                      call.phase = "resolved", ~call.upset,
                      Makes("write"), Makes("read"),
                      objectType \notin BackUnstated
               PROVE  call.got = call.content
    BY DEF ReadBackOwn
  <2>1. CallKnown
    BY CallPhase DEF Idle
  <2>2. /\ WritesFirmly(call.task) /\ ReadsBackLast(call.task)
        /\ Sends(call.task, "write")
    BY <2>1 DEF CallKnown, Asking, Makes, Taken, Sends
  <2>3. \A i \in DOMAIN call.task.steps :
          call.task.steps[i].req \in {"write", "read"} =>
            Firm(call.task.steps[i])
    BY <2>2 DEF WritesFirmly, ReadsBackLast
  <2>4. Done("read") /\ Asks("write")
    BY <2>1, <2>3, ResolvedDone, MakesFirm
  <2>5. QED
    BY <2>4 DEF OwnReadBack
<1>4. Spec => []Written
  BY WrittenHolds
<1>5. QED
  BY <1>1, <1>2, <1>3, <1>4, Invariance, AskedAgainHolds, WantedHolds, PTL
     DEF Spec

-----------------------------------------------------------------------------
(* Creations. *)

(* Only deletions make an object cease to exist. *)
LEMMA ExistsAfter ==
  ASSUME IInv, NEW out, Responds(out), Exists(object),
         Pending \notin Deletions
  PROVE  Exists(object')
<1>1. Sound(object) /\ Busy
  BY DEF Responds, IInv, ObjectKnown, Sound
<1>2. CASE Pending \in {"create", "write", "activate"}
  <2>1. \/ object' \in {object, Activated(object)}
        \/ object' = Saving(object, call.content)
    BY <1>2, ObjectAfter DEF EffectOf
  <2>2. call.content \in Contents
    BY <1>1, <1>2, PendingChain
  <2>3. QED
    BY <1>1, <2>1, <2>2, ActivatedSound, SavingSound
<1>3. CASE Pending \notin {"create", "write", "activate"}
  BY <1>3, ContentsAfter
<1>4. QED
  BY <1>2, <1>3

(* A creation that passes has created. *)
LEMMA ResponseCreated ==
  ASSUME \A c \in Catalogue :
           c.kind = "create" =>
             /\ CreatesFirmly(c) /\ HeedsLock(c, RecordOf(c))
             /\ c.name \notin Unproven => HeedsCreate(c, RecordOf(c)),
         IInv, AskedAgain, Created, NEW out, Responds(out)
  PROVE  Created'
<1> SUFFICES ASSUME Done("create")', ~call'.upset,
                    call.task.kind = "create",
                    call.task.name \notin Unproven
             PROVE  Exists(object')
  BY RespondsSame DEF Created, Exists, Newest
<1>1. Busy /\ call.phase = "main" /\ Sound(object)
  BY DoneAfter DEF Responds, IInv, ObjectKnown, Sound
<1>2. /\ CreatesFirmly(call.task)
      /\ HeedsLock(call.task, RecordOf(call.task))
      /\ HeedsCreate(call.task, RecordOf(call.task))
  BY <1>1, MainPosition
<1>3. CASE Pending = "create" /\ ~Throws(out.answer)
  <2>1. EffectOf(out)
    BY <1>1, <1>2, <1>3, Performed DEF HeedsCreate
  <2>2. object' \in {Saving(object, call.content), Saving(object, Blank),
                     [object EXCEPT !.active = Blank]}
    BY <1>3, <2>1 DEF EffectOf, Responds
  <2>3. call.content \in Contents /\ Blank \in Contents /\ Blank # None
    BY <1>1, MainPosition, ContentsAssumption
  <2>4. Exists([object EXCEPT !.active = Blank])
    BY <1>1, <2>3 DEF Sound, Objects, Exists, Newest
  <2>5. QED
    BY <1>1, <2>2, <2>3, <2>4, SavingSound
<1>4. CASE Done("create")
  <2>1. Pending \notin Deletions
    BY <1>1, <1>2, MainPosition DEF CreatesFirmly
  <2>2. CASE ~call.upset
    BY <1>4, <2>1, <2>2, ExistsAfter DEF Created
  <2>3. CASE Pending = "lock" /\ ~Throws(out.answer)
    <3>1. EffectOf(out)
      BY <1>1, <1>2, <2>3, Performed DEF HeedsLock
    <3>2. Exists(object)
      BY <2>3, <3>1 DEF EffectOf
    <3>3. QED
      BY <2>1, <3>2, ExistsAfter
  <2>4. QED
    BY <2>2, <2>3, UpsetAfter
<1>5. QED
  BY <1>3, <1>4, DoneAfter

(* What was created stays there. *)
LEMMA CreatedHolds ==
  ASSUME \A c \in Catalogue :
           c.kind = "create" =>
             /\ CreatesFirmly(c) /\ HeedsLock(c, RecordOf(c))
             /\ c.name \notin Unproven => HeedsCreate(c, RecordOf(c))
  PROVE  Spec => []Created
<1>1. Init => Created
  BY DEF Init, Created, Done, Behind, Idle
<1>2. IInv /\ AskedAgain /\ Created /\ [Next]_vars => Created'
  <2> SUFFICES ASSUME IInv, AskedAgain, Created, [Next]_vars PROVE Created'
    OBVIOUS
  <2>1. CASE StartChain \/ StartQuery \/ Return
    BY <2>1, DoneAnew DEF Created
  <2>2. CASE Respond
    BY <2>2, SomeResponse, ResponseCreated
  <2>3. CASE Others \/ UNCHANGED vars
    <3>1. Done("create")' <=> Done("create")
      BY <2>3, DoneStays
    <3>2. QED
      BY <2>3, <3>1, QuietStays DEF Upset, Created, Exists, Newest
  <2>4. QED
    BY <2>1, <2>2, <2>3 DEF Next
<1>3. QED
  BY <1>1, <1>2, Invariance, AskedAgainHolds, PTL DEF Spec

-----------------------------------------------------------------------------
(* Deletions. *)

(* What does not exist comes into being by creations only. *)
LEMMA GoneAfter ==
  ASSUME IInv, NEW out, Responds(out), ~Exists(object), Pending # "create"
  PROVE  ~Exists(object')
<1>1. CASE Pending \in {"write", "activate"} \cup Deletions
  BY <1>1, ObjectAfter DEF EffectOf, Deletions
<1>2. CASE Pending \notin {"write", "activate"} \cup Deletions
  BY <1>2, ContentsAfter
<1>3. QED
  BY <1>1, <1>2

(* A lock is given by LOCK only. *)
LEMMA FreeAfter ==
  ASSUME IInv, NEW out, Responds(out), object.lock = "free",
         Pending # "lock"
  PROVE  object'.lock = "free"
<1>1. Sound(object) /\ Busy
  BY DEF Responds, IInv, ObjectKnown, Sound
<1>2. CASE Pending \in {"create", "write"}
  <2>1. call.content \in Contents /\ Blank \in Contents
    BY <1>1, <1>2, PendingChain, ContentsAssumption
  <2>2. \/ object' = object
        \/ object' \in {Saving(object, call.content), Saving(object, Blank),
                        [object EXCEPT !.active = Blank]}
    BY <1>2, ObjectAfter DEF EffectOf
  <2>3. [object EXCEPT !.active = Blank].lock = "free"
    BY <1>1 DEF Sound, Objects
  <2>4. /\ Saving(object, call.content).lock = "free"
        /\ Saving(object, Blank).lock = "free"
    BY <1>1, <2>1, SavingSound
  <2>5. QED
    BY <2>2, <2>3, <2>4
<1>3. CASE Pending \in {"activate"} \cup Deletions
  <2>1. \/ object' = object
        \/ object' = Activated(object) /\ Exists(object)
        \/ object' = Nothing
    BY <1>3, ObjectAfter DEF EffectOf, Deletions
  <2>2. QED
    BY <1>1, <2>1, ActivatedSound, NothingSound
<1>4. CASE Pending \notin {"create", "write", "activate"} \cup Deletions
  BY <1>4, ContentsAfter
<1>5. QED
  BY <1>2, <1>3, <1>4

(***************************************************************************)
(* A method that deletes either learns of a refusal from the answer to the *)
(* deletion, or asks before it and heeds what it is told.                  *)
(***************************************************************************)
DeletesHeeding(c) ==
  /\ DeletesFirmly(c) /\ HeedsDeletion(c, RecordOf(c))
  /\ IF c.name \in ReadsDeletion
       THEN HeedsRefusal(c, RecordOf(c), Direct)
       ELSE DeletesChecked(c) /\ HeedsVerdict(c, RecordOf(c))

(* A deletion check that passes was of an object that is not locked. *)
LEMMA ResponseDeletable ==
  ASSUME \A c \in Catalogue :
           c.kind = "delete" /\ c.name \notin IgnoresVerdict =>
             DeletesHeeding(c),
         IInv, AskedAgain, Deletable, NEW out, Responds(out)
  PROVE  Deletable'
<1> SUFFICES ASSUME Done("verdict")', ~call'.upset,
                    call.task.kind = "delete",
                    call.task.name \notin IgnoresVerdict \cup ReadsDeletion
             PROVE  object'.lock = "free"
  BY RespondsSame DEF Deletable
<1>1. Busy /\ call.phase = "main"
  BY DoneAfter DEF Responds
<1>2. /\ DeletesChecked(call.task)
      /\ HeedsVerdict(call.task, RecordOf(call.task))
  BY <1>1, MainPosition DEF DeletesHeeding
<1>3. Pending # "lock"
  BY <1>1, <1>2, MainPosition DEF DeletesChecked
<1>4. CASE Done("verdict")
  BY <1>3, <1>4, UpsetAfter, FreeAfter DEF Deletable
<1>5. CASE Pending = "verdict" /\ ~Throws(out.answer)
  <2>1. EffectOf(out)
    BY <1>1, <1>2, <1>5, Performed DEF HeedsVerdict
  <2>2. out.answer \notin Errors \cup {"flawed", "silent"}
    BY <1>1, <1>2, <1>5, Heeded DEF HeedsVerdict
  <2>3. object.lock = "free"
    BY <1>5, <2>1, <2>2 DEF EffectOf
  <2>4. QED
    BY <1>3, <2>3, FreeAfter
<1>6. QED
  BY <1>4, <1>5, DoneAfter

(* It remains free, as long as nobody upsets the call. *)
LEMMA DeletableHolds ==
  ASSUME \A c \in Catalogue :
           c.kind = "delete" /\ c.name \notin IgnoresVerdict =>
             DeletesHeeding(c)
  PROVE  Spec => []Deletable
<1>1. Init => Deletable
  BY DEF Init, Deletable, Done, Behind, Idle
<1>2. IInv /\ AskedAgain /\ Deletable /\ [Next]_vars => Deletable'
  <2> SUFFICES ASSUME IInv, AskedAgain, Deletable, [Next]_vars
               PROVE  Deletable'
    OBVIOUS
  <2>1. CASE StartChain \/ StartQuery \/ Return
    BY <2>1, DoneAnew DEF Deletable
  <2>2. CASE Respond
    BY <2>2, SomeResponse, ResponseDeletable
  <2>3. CASE Others \/ UNCHANGED vars
    <3>1. Done("verdict")' <=> Done("verdict")
      BY <2>3, DoneStays
    <3>2. QED
      BY <2>3, <3>1, QuietStays DEF Upset, Deletable
  <2>4. QED
    BY <2>1, <2>2, <2>3 DEF Next
<1>3. QED
  BY <1>1, <1>2, Invariance, AskedAgainHolds, PTL DEF Spec

(* A deletion that passes has deleted, and nothing is created after it. *)
LEMMA ResponseDeleted ==
  ASSUME \A c \in Catalogue :
           c.kind = "delete" /\ c.name \notin IgnoresVerdict =>
             DeletesHeeding(c),
         IInv, AskedAgain, Deletable, Deleted, NEW out, Responds(out)
  PROVE  Deleted'
<1> SUFFICES ASSUME NEW r \in Deletions, Done(r)',
                    ~call'.upset \/ call.task.name \in ReadsDeletion,
                    call.task.kind = "delete",
                    call.task.name \notin IgnoresVerdict
             PROVE  ~Exists(object')
  BY RespondsSame DEF Deleted, Exists, Newest
<1>1. Busy /\ call.phase = "main"
  BY DoneAfter DEF Responds
<1>2. /\ DeletesHeeding(call.task) /\ DeletesFirmly(call.task)
      /\ HeedsDeletion(call.task, RecordOf(call.task))
  BY <1>1, MainPosition DEF DeletesHeeding
<1>3. call.task.name \notin ReadsDeletion => Pending # "lock" /\ ~call.upset
  <2>1. call.task.name \notin ReadsDeletion => Pending # "lock"
    BY <1>1, <1>2, MainPosition DEF DeletesHeeding, DeletesChecked
  <2>2. QED
    BY <2>1, UpsetAfter
<1>4. Pending # "create"
  BY <1>1, <1>2, MainPosition DEF DeletesFirmly
<1>5. CASE Done(r)
  <2>1. ~Exists(object)
    BY <1>3, <1>5 DEF Deleted
  <2>2. QED
    BY <1>4, <2>1, GoneAfter
<1>6. CASE Pending = r /\ ~Throws(out.answer)
  <2>1. EffectOf(out)
    <3>1. CASE call.task.name \in ReadsDeletion /\ objectType \notin Direct
      <4>1. HeedsRefusal(call.task, RecordOf(call.task), Direct)
        BY <1>2, <3>1 DEF DeletesHeeding
      <4>2. CASE r \in {"delete", "deleteProven"}
        <5>1. Heeds(call.task, RecordOf(call.task), Pending,
                    Errors \cup {"flawed"})
          BY <1>1, <1>2, <1>6, <3>1, <4>1, <4>2, MainPosition
             DEF HeedsDeletion, HeedsRefusal, Heeds, Notices
        <5>2. QED
          BY <1>1, <1>6, <4>2, <5>1, Performed
      <4>3. CASE r = "deleteLocked"
        BY <1>1, <1>2, <1>6, <4>3, Performed DEF HeedsDeletion, Deletions
      <4>4. QED
        BY <4>2, <4>3 DEF Deletions
    <3>2. CASE call.task.name \in ReadsDeletion /\ objectType \in Direct
      BY <1>1, <1>2, <1>6, <3>2, Performed DEF HeedsDeletion, Deletions
    <3>3. CASE call.task.name \notin ReadsDeletion
      <4>1. /\ call.at \in DOMAIN call.task.steps
            /\ call.task.steps[call.at].req \in Deletions
        BY <1>1, <1>6, MainPosition
      <4>2. PICK i \in DOMAIN call.task.steps :
              /\ i < call.at /\ call.task.steps[i].req = "verdict"
              /\ Sure(call.task.steps[i], {})
        BY <1>2, <3>3, <4>1 DEF DeletesHeeding, DeletesChecked
      <4>3. Done("verdict")
        BY <1>1, <4>2 DEF Done, Behind, Sure
      <4>4. object.lock = "free"
        BY <1>3, <3>3, <4>3 DEF Deletable
      <4>5. QED
        BY <1>1, <1>2, <1>6, <4>4, Performed DEF HeedsDeletion, Deletions
    <3>4. QED
      BY <3>1, <3>2, <3>3
  <2>2. object' = Nothing
    BY <1>6, <2>1 DEF EffectOf, Responds, Deletions
  <2>3. QED
    BY <2>2, NothingSound
<1>7. QED
  BY <1>5, <1>6, DoneAfter

(* What was deleted stays deleted. *)
LEMMA DeletedHolds ==
  ASSUME \A c \in Catalogue :
           c.kind = "delete" /\ c.name \notin IgnoresVerdict =>
             DeletesHeeding(c)
  PROVE  Spec => []Deleted
<1>1. Init => Deleted
  BY DEF Init, Deleted, Done, Behind, Idle
<1>2. IInv /\ AskedAgain /\ Deletable /\ Deleted /\ [Next]_vars => Deleted'
  <2> SUFFICES ASSUME IInv, AskedAgain, Deletable, Deleted, [Next]_vars
               PROVE  Deleted'
    OBVIOUS
  <2>1. CASE StartChain \/ StartQuery \/ Return
    BY <2>1, DoneAnew DEF Deleted
  <2>2. CASE Respond
    BY <2>2, SomeResponse, ResponseDeleted
  <2>3. CASE Others \/ UNCHANGED vars
    <3> SUFFICES ASSUME NEW r \in Deletions, Done(r)',
                        ~call'.upset \/ call'.task.name \in ReadsDeletion,
                        call'.task.kind = "delete",
                        call'.task.name \notin IgnoresVerdict
                 PROVE  ~Exists(object')
      BY DEF Deleted, Exists, Newest
    <3>1. Done(r)
      BY <2>3, DoneStays
    <3>2. /\ call'.task = call.task
          /\ ~Exists(object) => ~Exists(object')
      BY <2>3, QuietStays, OthersEffects DEF Upset
    <3>3. ~call'.upset => ~call.upset
      BY <2>3, QuietStays DEF Upset
    <3>4. QED
      BY <3>1, <3>2, <3>3 DEF Deleted
  <2>4. QED
    BY <2>1, <2>2, <2>3 DEF Next
<1>3. Spec => []Deletable
  BY DeletableHolds
<1>4. QED
  BY <1>1, <1>2, <1>3, Invariance, AskedAgainHolds, PTL DEF Spec

(***************************************************************************)
(* Where creations fail on every error, and deletions either on a refusal  *)
(* in the answer to the deletion or on the deletion check before it, a     *)
(* create() that resolves has left an object and a delete() that resolves  *)
(* none.  What the deletion check has promised, another developer may      *)
(* break; what the deletion has answered, nobody.                          *)
(***************************************************************************)
THEOREM ExistenceAsTold ==
  ASSUME \A c \in Catalogue :
           /\ c.kind = "create" =>
                /\ CreatesFirmly(c) /\ HeedsLock(c, RecordOf(c))
                /\ c.name \notin Unproven => HeedsCreate(c, RecordOf(c))
           /\ c.kind = "delete" /\ c.name \notin IgnoresVerdict =>
                DeletesHeeding(c)
  PROVE  Spec => []ExistenceDelivered
<1>1. IInv /\ Created /\ Deleted => ExistenceDelivered
  <2> SUFFICES ASSUME IInv, Created, Deleted, call.phase = "resolved"
               PROVE  /\ /\ call.task.kind = "create" /\ ~call.upset
                         /\ call.task.name \notin Unproven
                         => Exists(object)
                      /\ /\ call.task.kind = "delete"
                         /\ ~call.upset \/ call.task.name \in ReadsDeletion
                         /\ call.task.name \notin IgnoresVerdict
                         => ~Exists(object)
    BY DEF ExistenceDelivered
  <2>1. call.task \in Catalogue
    BY CallPhase DEF Idle, CallKnown, Asking
  <2>2. ASSUME NEW i \in DOMAIN call.task.steps,
               Sure(call.task.steps[i], {})
        PROVE  Done(call.task.steps[i].req)
    BY <2>2 DEF Done, Behind, Sure
  <2>3. call.task.kind = "create" => Done("create")
    BY <2>1, <2>2 DEF CreatesFirmly
  <2>4. call.task.kind = "delete" /\ call.task.name \notin IgnoresVerdict
          => \E r \in Deletions : Done(r)
    BY <2>1, <2>2 DEF DeletesHeeding, DeletesFirmly
  <2>5. QED
    BY <2>3, <2>4 DEF Created, Deleted
<1>2. Spec => []Created
  BY CreatedHolds
<1>3. Spec => []Deleted
  BY DeletedHolds
<1>4. QED
  BY <1>1, <1>2, <1>3, Invariance, PTL
=============================================================================
