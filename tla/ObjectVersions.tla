--------------------------- MODULE ObjectVersions ---------------------------
(***************************************************************************)
(* What a call does to the two versions of one repository object, and what *)
(* it tells its caller about them.  ADT saves an object inactive and       *)
(* activates it apart from that; nearly every refusal - a deletion that is *)
(* not performed, an activation that activates nothing, a check that finds *)
(* errors - arrives with a success status, so that a method is as good as  *)
(* its request functions are at reading answers (module Resources).        *)
(*                                                                         *)
(* One call at a time runs on the object: a method that changes it, as a   *)
(* chain (module Chains), or a method that only asks.  Session types and   *)
(* the lock registry are the business of AdtSession; here it is the        *)
(* content of requests and answers.  Other developers work on the object   *)
(* whenever it is not locked, between any two requests of the call, and    *)
(* the system may drop the lock of the call.                               *)
(***************************************************************************)
EXTENDS Chains, Resources

CONSTANTS
  Catalogue,   \* the methods that change objects, as chains
  Queries,     \* the methods that only ask
  Resource,    \* the TypeRecord of each type
  Special,     \* by name, the chains with a TypeRecord of their own
  Contents,    \* what an object may contain
  Faulty,      \* contents with syntax errors
  Blank,       \* what an object just created contains, but for
  Whole,       \* types created with all they are to contain
  None,        \* no such version; nothing was read
  Immediate,   \* types without a distinct inactive version
  Direct,      \* types deleted by a DELETE on the object itself
  ChecksSaved  \* types whose check before the write is of what is saved

CONSTANTS      \* what is known of the methods, by type or name
  IgnoresCheck,    \* types that do not look at the report of a check
  AnyVersion,      \* types that are read without stating the version
  BackUnstated,    \* types that are read back without stating the version
  IgnoresVerdict,  \* delete methods that do not notice a refusal
  ReadsDeletion,   \* methods that learn whether the deletion was performed
  IgnoresActivation,  \* create methods that do not read the activation
  Unproven         \* create methods that may take an error for success

ASSUME ChainsAssumption ==
  \A c \in Catalogue :
    /\ WellFormed(c) /\ ~c.uses
    /\ c.kind \in {"create", "update", "delete", "activate"}
ASSUME QueriesAssumption == Queries \subseteq Query
ASSUME ResourceAssumption ==
  /\ \A c \in Catalogue :
       c.name \notin DOMAIN Special => c.name[1] \in DOMAIN Resource
  /\ \A t \in DOMAIN Resource : Resource[t] \in TypeRecord
  /\ \A n \in DOMAIN Special : Special[n] \in TypeRecord
ASSUME ContentsAssumption ==
  /\ None \notin Contents
  /\ Faulty \subseteq Contents
  /\ Blank \in Contents \ Faulty

VARIABLES
  objectType,  \* the type of the object
  object,      \* server: the contents of its versions, who has locked it
  call         \* the call under way

vars == <<objectType, object, call>>

Types == {task.name[1] : task \in UNION {Catalogue, Queries}}

MaybeContent == Contents \cup {None}

Objects ==
  [active : MaybeContent, inactive : MaybeContent,
   lock : {"free", "ours", "theirs"}]

(***************************************************************************)
(* phase    main, rescue: awaiting a request of the try or of the catch    *)
(*          block of a chain, which resolves or rejects; query: awaiting   *)
(*          the answer to a query, which is answered or fails              *)
(* version  the version a query asks for                                   *)
(* content  what the caller wants saved, or checked                        *)
(* again    TRUE when the request awaited is the second attempt            *)
(* held, made   lockHandle and objectCreated are set                       *)
(* got      what was read last                                             *)
(* flagged  TRUE when a check has reported errors in content               *)
(* upset    TRUE when another developer has changed the object since the   *)
(*          call began, or since it was granted its lock                   *)
(***************************************************************************)
Phases ==
  {"main", "rescue", "resolved", "rejected", "query", "answered", "failed"}

Idle == [phase |-> "idle"]

TypeOK ==
  /\ objectType \in STRING
  /\ object \in Objects
  /\ call # Idle =>
       /\ call.phase \in Phases
       /\ call.at \in Nat
       /\ call.options \subseteq Options
       /\ call.version \in Asked
       /\ {call.content, call.got} \subseteq MaybeContent
       /\ {call.again, call.held, call.made, call.flagged, call.upset}
            \subseteq BOOLEAN

-----------------------------------------------------------------------------
(* Reading the state. *)

Busy == call.phase \in {"main", "rescue", "query"}

RecordOf(c) ==
  IF c.name \in DOMAIN Special THEN Special[c.name] ELSE Resource[c.name[1]]

Part(c, phase) == IF phase = "main" THEN c.steps ELSE c.rescue

(* The request awaited. *)
Pending ==
  IF call.phase = "query" THEN call.task.req
                          ELSE Part(call.task, call.phase)[call.at].req

ReadingOf ==
  IF call.phase = "query" THEN call.task.reading
                          ELSE RecordOf(call.task).requests[Pending]

(* The steps of the chain the call takes unless one fails. *)
Taken ==
  {i \in DOMAIN call.task.steps :
     call.task.steps[i].needs \subseteq FlagsOf(call.options, TRUE, call.made)}

Makes(r) == \E i \in Taken : call.task.steps[i].req = r

Earlier(r) == \E i \in Taken : i < call.at /\ call.task.steps[i].req = r

(***************************************************************************)
(* The version a read request states: after an activation the active one,  *)
(* else what update() asks for when it polls or reads back.                *)
(***************************************************************************)
Stated ==
  IF call.phase = "query" THEN call.task.told[call.version]
  ELSE LET record == RecordOf(call.task)
       IN record.source[IF Earlier("activate") THEN "active"
                        ELSE IF Pending = "read" THEN record.back
                        ELSE record.written]

(* A check before the write is given what is to be written. *)
ChecksContent ==
  IF call.phase = "query" THEN call.task.gives /\ call.content # None
  ELSE /\ call.phase = "main"
       /\ \E i \in DOMAIN call.task.steps :
            i > call.at /\ call.task.steps[i].req = "write"
       /\ objectType \notin ChecksSaved

Newest(o) == IF o.inactive # None THEN o.inactive ELSE o.active

Exists(o) == Newest(o) # None

Saving(o, x) ==
  IF objectType \in Immediate THEN [o EXCEPT !.active = x]
                        ELSE [o EXCEPT !.inactive = x]

Activated(o) == [o EXCEPT !.active = Newest(o), !.inactive = None]

Nothing == [active |-> None, inactive |-> None, lock |-> "free"]

-----------------------------------------------------------------------------
(***************************************************************************)
(* The server.  An outcome is what becomes of the object, the answer, and  *)
(* the content in the answer.                                              *)
(***************************************************************************)
Outcome(o, answer, x) == [object |-> o, answer |-> answer, got |-> x]

Answering(answers) == {Outcome(object, a, None) : a \in answers}

(* The active version where there is none: not found, or the newest (the   *)
(* comment at AdtDomain.ts:475); no version stated: either.                *)
Shown(told) ==
  CASE told = "active" /\ object.active # None -> {object.active}
    [] told = "unstated" -> {object.active, Newest(object)}
    [] OTHER -> {Newest(object)}

(* What a check run says of a content. *)
Report(x) ==
  {"excused", "unprocessed"} \cup
  (IF x \in Faulty THEN {"flawed"} ELSE {"ok", "warned", "echo"})

(* The contents a check may be of. *)
Checked ==
  IF ChecksContent THEN {call.content}
  ELSE IF call.phase = "query" THEN Shown(Stated) \ {None}
  ELSE {Newest(object)}

(* What becomes of a request that the server carries out. *)
Carried ==
  LET exists == Exists(object)
      mine == object.lock = "ours" /\ call.held
  IN CASE Pending = "validate" -> Answering({"ok"})
       [] Pending = "create" /\ ~exists ->
            {Outcome(o, "ok", None) :
               o \in IF objectType \in Whole
                       THEN {Saving(object, call.content)}
                       ELSE {Saving(object, Blank),
                             [object EXCEPT !.active = Blank]}}
       [] Pending = "lock" /\ exists /\ object.lock = "free" ->
            {Outcome([object EXCEPT !.lock = "ours"], "ok", None)}
       [] Pending \in {"fetch", "poll", "read", "source"} /\ exists ->
            {Outcome(object, "ok", x) : x \in Shown(Stated) \ {None}}
       [] Pending \in {"metadata", "transport"} /\ exists -> Answering({"ok"})
       [] Pending = "check" /\ exists ->
            Answering(UNION {Report(x) : x \in Checked})
       [] Pending = "write" /\ exists /\ mine ->
            {Outcome(Saving(object, call.content), "ok", None)}
       [] Pending = "unlock" /\ mine ->
            {Outcome([object EXCEPT !.lock = "free"], "ok", None)}
       [] Pending = "activate" /\ exists /\ object.lock # "theirs" ->
            IF Newest(object) \in Faulty
              THEN Answering({"flawed", "excused"})
              ELSE {Outcome(Activated(object), a, None) :
                      a \in {"ok", "warned"}}
       [] Pending \in {"verdict", "verdictUnread"} /\ exists ->
            Answering(IF object.lock = "free" THEN {"ok"}
                                              ELSE {"flawed", "silent"})
       [] /\ Pending \in {"delete", "deleteProven"}
          /\ exists /\ object.lock = "free" ->
            {Outcome(Nothing, "ok", None)}
       [] Pending = "deleteLocked" /\ exists /\ mine ->
            {Outcome(Nothing, "ok", None)}
       [] OTHER -> {}

(* A write of faulty content is refused where saving is activating. *)
Accepted ==
  {out \in Carried :
     ~(/\ objectType \in Immediate
       /\ Pending = "write" /\ call.content \in Faulty)}

(* What a request the server does not carry out may be answered: 404       *)
(* exactly when what it is for is not there.                               *)
Absent ==
  \/ ~Exists(object) /\ Pending \notin {"validate", "create"}
  \/ /\ Pending \in {"fetch", "poll", "read", "source"}
     /\ Stated = "active" /\ object.active = None

Refused ==
  Answering(
    {"failed"}
      \cup {a \in {"gone"} : Absent}
      \cup {a \in {"bad", "kerberos"} : Pending \in {"validate", "create"}}
      \cup {a \in {"gone", "unsupported"} : Pending = "validate"}
      \cup {a \in {"silent"} : Pending = "lock"}
      \cup {a \in {"flawed"} :
              \/ Pending = "activate" /\ ~Exists(object)
              \/ /\ Pending \in {"delete", "deleteProven"}
                 /\ object.lock # "free" /\ objectType \notin Direct}
      \cup {a \in {"excused", "flawed", "unprocessed"} :
              Pending = "check" /\ ~Exists(object)})

(* Carried out, but the caller gets an error: a timeout, or the Kerberos   *)
(* error that comes with a creation that succeeded.                        *)
Lost ==
  {Outcome(out.object, a, None) :
     out \in Accepted,
     a \in {"failed"} \cup {x \in {"kerberos"} : Pending = "create"}}

-----------------------------------------------------------------------------
(* The code between two awaits. *)

(* Whether the request is sent once more. *)
AsksAgain(answer) == ~call.again /\ answer \in ReadingOf.again

Throws(answer) ==
  answer \in IF call.again THEN ReadingOf.rethrows ELSE ReadingOf.throws

(* Mutant: the body of an error answer is taken for source. *)
NotingAnyBody(out) ==
  [call EXCEPT !.again = FALSE,
               !.got = IF out.got = None THEN out.answer ELSE out.got]

(* What the code knows after the answer. *)
Noting(out) ==
  LET told == ~Throws(out.answer)
      step == Part(call.task, call.phase)[call.at]
      locked == told /\ Pending = "lock"
  IN [call EXCEPT
        !.again = FALSE,
        !.got = IF Pending \in {"read", "source"} THEN out.got ELSE @,
        !.flagged = @ \/ (/\ Pending = "check"
                          /\ ChecksContent
                          /\ out.answer = "flawed"),
        !.held = (@ \/ locked) /\ ~(told /\ Pending = "unlock"),
        !.upset = @ /\ ~locked,
        !.made = @ \/ (/\ call.phase = "main"
                       /\ step.marks /\ (told \/ step.soft))]

Settled(k, verdict) == [k EXCEPT !.phase = verdict]

(* The next request of a part after its i-th, or the end of the call. *)
Going(k, phase, i) ==
  LET rest == StepsAfter(i, Part(k.task, phase),
                         FlagsOf(k.options, k.held, k.made))
      next == CHOOSE j \in rest : \A m \in rest : j <= m
  IN IF rest = {}
       THEN Settled(k, IF phase = "main" THEN "resolved" ELSE "rejected")
       ELSE [k EXCEPT !.phase = phase, !.at = next]

(* Whether the inner try, if there is one, has been left. *)
LeftWindow ==
  /\ call.task.window
  /\ \E i \in 1 .. call.at - 1 : call.task.steps[i].closes

(***************************************************************************)
(* The answer arrives.  A chain goes on, on failure in its catch block     *)
(* unless the failure is swallowed or the catch was left behind; a query   *)
(* settles, with 404 for an answer if it takes it for one.                 *)
(***************************************************************************)
After(out) ==
  LET k == Noting(out)
      throws == Throws(out.answer)
      step == Part(call.task, call.phase)[call.at]
  IN IF AsksAgain(out.answer) THEN [call EXCEPT !.again = ~@]
     ELSE IF call.phase = "query" THEN
       Settled(k, IF throws /\ ~(call.task.absent /\ out.answer = "gone")
                    THEN "failed" ELSE "answered")
     ELSE IF ~throws \/ step.soft \/ call.phase = "rescue" THEN
       Going(k, call.phase, call.at)
     ELSE IF LeftWindow THEN Settled(k, "rejected")
     ELSE Going(k, "rescue", 0)

-----------------------------------------------------------------------------
(* The actions. *)

Beginning(task, phase) ==
  [task |-> task, phase |-> phase, at |-> 1, options |-> {},
   version |-> "none", content |-> None, again |-> FALSE, held |-> FALSE,
   made |-> FALSE, got |-> None, flagged |-> FALSE, upset |-> FALSE]

StartChain ==
  \E c \in Catalogue, x \in Contents \ {Blank} :
    /\ call = Idle
    /\ c.name[1] = objectType
    /\ \E options \in SUBSET OptionsOf(c) :
         call' = [Beginning(c, "main") EXCEPT !.content = x,
                                              !.options = options]
    /\ UNCHANGED <<objectType, object>>

StartQuery ==
  \E q \in Queries, v \in Asked, x \in MaybeContent \ {Blank} :
    /\ call = Idle
    /\ q.name[1] = objectType
    /\ x # None => q.gives
    /\ v # "none" => q.req \in {"source", "metadata", "check"}
    /\ call' = [Beginning(q, "query") EXCEPT !.version = v, !.content = x]
    /\ UNCHANGED <<objectType, object>>

Respond ==
  /\ Busy
  /\ \E out \in Accepted \cup Refused \cup Lost :
       /\ object' = out.object
       /\ call' = After(out)
  /\ UNCHANGED objectType

Return ==
  /\ call # Idle /\ ~Busy
  /\ call' = Idle
  /\ UNCHANGED <<objectType, object>>

(* Another developer, while a call is under way. *)
Meddle(o) ==
  /\ Busy
  /\ object' = o
  /\ call' = [call EXCEPT !.upset = TRUE]
  /\ UNCHANGED objectType

OthersLock ==
  /\ object.lock = "free"
  /\ Exists(object)
  /\ Meddle([object EXCEPT !.lock = "theirs"])

OthersSave ==
  \E x \in Contents \ Faulty :
    /\ object.lock = "theirs"
    /\ Meddle([Saving(object, x) EXCEPT !.lock = "free"])

OthersActivate ==
  /\ object.lock # "ours"
  /\ Exists(object)
  /\ Newest(object) \notin Faulty
  /\ Meddle(Activated(object))

OthersDelete ==
  /\ object.lock = "free"
  /\ Meddle(Nothing)

(* The system ends the session the lock belongs to. *)
Expire ==
  /\ object.lock = "ours"
  /\ object' = [object EXCEPT !.lock = "free"]
  /\ UNCHANGED <<objectType, call>>

Init ==
  /\ objectType \in Types
  /\ object \in Objects
  /\ object.active \notin Faulty
  /\ objectType \in Immediate => object.inactive = None
  /\ Exists(object) \/ object.lock = "free"
  /\ object.lock # "ours"
  /\ call = Idle

Others == OthersLock \/ OthersSave \/ OthersActivate \/ OthersDelete \/ Expire

Next == StartChain \/ StartQuery \/ Respond \/ Return \/ Others

Spec == Init /\ [][Next]_vars

-----------------------------------------------------------------------------
(***************************************************************************)
(* What is saved and what is activated is what was asked for: when a       *)
(* method that writes resolves, the newest version has the content of the  *)
(* caller, and when one that activates resolves, nothing is left inactive, *)
(* although an activation that activates nothing succeeds on the wire and  *)
(* most failures on the way are swallowed (activationUtils.ts) - unless    *)
(* another developer came in after the lock was given back.  The methods   *)
(* of IgnoresActivation may leave what they created inactive.              *)
(***************************************************************************)
WritesTakeEffect ==
  call.phase = "resolved" /\ ~call.upset =>
    /\ Makes("write") => Newest(object) = call.content
    /\ Makes("activate") /\ call.task.name \notin IgnoresActivation
         => object.inactive = None /\ Exists(object)

(***************************************************************************)
(* Source in which the check before the write has reported an error is not *)
(* written, and no check of it resolves, also when the first check run did *)
(* not process the object and was repeated; the types of IgnoresCheck,     *)
(* which do not look at the report, do both.                               *)
(***************************************************************************)
ReportedNotWritten ==
  call # Idle /\ call.flagged /\ objectType \notin IgnoresCheck =>
    /\ call.phase \notin {"resolved", "answered"}
    /\ call.phase = "main" => Pending # "write"

(***************************************************************************)
(* An update without activation that reads the object back returns what it *)
(* has written, not the active version that came before it                 *)
(* (updateNoActivateReadsInactive.test.ts); where BackUnstated leaves the  *)
(* choice to the system it may return either.                              *)
(***************************************************************************)
ReadBackOwn ==
  /\ call.phase = "resolved" /\ ~call.upset
  /\ Makes("write") /\ Makes("read") /\ objectType \notin BackUnstated
  => call.got = call.content

(***************************************************************************)
(* A caller who reads the active version is shown the active version if    *)
(* there is one, whatever has been saved since, and a caller who reads the *)
(* inactive version what was saved last: the version survives the way from *)
(* the handler through its defaults to the query of the request - except   *)
(* for the types of AnyVersion.                                            *)
(***************************************************************************)
VersionHonoured ==
  /\ call.phase = "answered"
  /\ call.task.req = "source" /\ call.got # None
  /\ objectType \notin AnyVersion
  => /\ call.version = "active" /\ object.active # None
          => call.got = object.active
     /\ call.version = "inactive" => call.got = Newest(object)

(***************************************************************************)
(* "There is none" is said only of what is not there: no other failure of  *)
(* a read is taken for the absence of the object or of its active version. *)
(***************************************************************************)
AbsenceProven ==
  /\ call.phase = "answered"
  /\ call.task.req = "source" /\ call.got = None
  => \/ ~Exists(object)
     \/ object.active = None /\ call.task.told[call.version] = "active"

(***************************************************************************)
(* A create() that resolves has left an object, a delete() that resolves   *)
(* none, although the deletion API reports a refusal with a success status *)
(* (deletionCheck.ts).  Another developer who takes a lock between the     *)
(* deletion check and the deletion is only noticed by the methods of       *)
(* ReadsDeletion; those of IgnoresVerdict and Unproven may be wrong.       *)
(***************************************************************************)
ExistenceDelivered ==
  call.phase = "resolved" =>
    /\ /\ call.task.kind = "create"
       /\ ~call.upset
       /\ call.task.name \notin Unproven
       => Exists(object)
    /\ /\ call.task.kind = "delete"
       /\ ~call.upset \/ call.task.name \in ReadsDeletion
       /\ call.task.name \notin IgnoresVerdict
       => ~Exists(object)

(***************************************************************************)
(* A claim of a unit test the code does not keep up for all handlers: an   *)
(* update without activation never reads the active version.               *)
(***************************************************************************)
NeverReadsStale ==
  /\ call.phase = "main" /\ Pending \in {"poll", "read"}
  /\ Earlier("write") /\ "activate" \notin call.options
  => Stated # "active"
=============================================================================
