------------------------------- MODULE Chains -------------------------------
(***************************************************************************)
(* The vocabulary in which the operations of the Adt* handlers are         *)
(* written down.  A handler method (create, update, delete, lock, ...) is  *)
(* straight-line asynchronous code: it awaits one ADT request after the    *)
(* other, toggles the session type of the connection between them, and     *)
(* has one catch and one finally.  A chain is that method as data.         *)
(*                                                                         *)
(* A step stands for one awaited request and what the code does around it: *)
(*   req     the request                                                   *)
(*   needs   the flags that must all hold for the step to run (its if)     *)
(*   before  session type set just before the request                      *)
(*   after   session type set when the request succeeded                   *)
(*   fail    session type set when it failed (an inner finally)            *)
(*   soft    TRUE when an inner catch swallows the failure                 *)
(*   marks   TRUE when passing the step sets objectCreated                 *)
(*   closes  TRUE when the inner try that is the critical section ends     *)
(***************************************************************************)
EXTENDS Integers, Sequences

Requests ==
  {"validate", "create", "lock", "check", "fetch", "write", "poll", "read",
   "unlock", "activate", "verdict", "verdictUnread", "delete", "deleteProven",
   "deleteLocked"}

Modes == {"stateful", "stateless"}

ModeChanges == Modes \cup {"keep"}

(* Mutant: a session type is set although the code sets none. *)
SwitchAlways(mode, change) == change

Switch(mode, change) == IF change = "keep" THEN mode ELSE change

(***************************************************************************)
(* What the caller passes: source or XML (body), activateOnUpdate or       *)
(* activateOnCreate (activate), deleteOnFailure (cleanup).  The other      *)
(* flags are facts about the call: inert (no activation was asked for),    *)
(* held (lockHandle is set), created (objectCreated is set).               *)
(***************************************************************************)
Options == {"body", "activate", "cleanup"}

Flags == Options \cup {"inert", "held", "created"}

Kinds == {"create", "update", "write", "delete", "lock", "unlock", "activate"}

Step ==
  [req : Requests, needs : SUBSET Flags, before : ModeChanges,
   after : ModeChanges, fail : ModeChanges, soft : BOOLEAN, marks : BOOLEAN,
   closes : BOOLEAN]

(***************************************************************************)
(* name     the object type and the method, as in <<"Domain", "update">>   *)
(* kind     what the caller asked for ("write" is update() with            *)
(*          options.lockHandle)                                            *)
(* steps    the try block;  rescue  the requests its catch block sends,    *)
(*          each of them under a try of its own                            *)
(* window   TRUE when the body is bracketed by beginCriticalSection and    *)
(*          its disposer                                                   *)
(* tracked  TRUE when the handle is recorded in the LockRegistry           *)
(* uses     TRUE when it works with the lock handle the caller passes in   *)
(* catch, catchUnlocked, exit   session type set on entering the catch,    *)
(*          on entering it without a handle, and in the finally            *)
(***************************************************************************)
Chain ==
  [name : STRING \X STRING, kind : Kinds, steps : Seq(Step),
   rescue : Seq(Step), window : BOOLEAN, tracked : BOOLEAN, uses : BOOLEAN,
   catch : ModeChanges, catchUnlocked : ModeChanges, exit : ModeChanges]

(***************************************************************************)
(* Every method sends a first request unconditionally.  An inner try that  *)
(* is the critical section ends with the UNLOCK, nothing is locked after   *)
(* it, and the catch block neither locks nor has an inner try.             *)
(***************************************************************************)
WellFormed(c) ==
  /\ c \in Chain
  /\ c.steps # << >>
  /\ c.steps[1].needs = {}
  /\ \A i \in DOMAIN c.steps : c.steps[i].closes =>
       /\ c.steps[i].req = "unlock"
       /\ \A j \in DOMAIN c.steps : i < j => c.steps[j].req # "lock"
  /\ \A i \in DOMAIN c.rescue :
       c.rescue[i].req # "lock" /\ ~c.rescue[i].closes

(* The options that make a difference to a method. *)
OptionsOf(c) ==
  {f \in Options :
     \/ \E i \in DOMAIN c.steps : f \in c.steps[i].needs
     \/ \E i \in DOMAIN c.rescue : f \in c.rescue[i].needs
     \/ f = "activate" /\ c.kind = "create"}

(* A method that takes a lock for itself, and begins with it. *)
TakesLock(c) == c.kind # "lock" /\ c.steps[1].req = "lock"

(* The flags of a call that was passed some options. *)
FlagsOf(options, held, created) ==
  options \cup {f \in {"inert", "held", "created"} :
                  \/ f = "inert" /\ "activate" \notin options
                  \/ f = "held" /\ held
                  \/ f = "created" /\ created}

(* Mutant: a step may be followed by itself. *)
StepsFrom(i, steps, flags) ==
  {j \in DOMAIN steps : i <= j /\ steps[j].needs \subseteq flags}

(* The steps after the i-th that the code does not skip. *)
StepsAfter(i, steps, flags) ==
  {j \in DOMAIN steps : i < j /\ steps[j].needs \subseteq flags}

-----------------------------------------------------------------------------
(* Steps as the handlers combine them. *)

Plain(r) ==
  [req |-> r, needs |-> {}, before |-> "keep", after |-> "keep",
   fail |-> "keep", soft |-> FALSE, marks |-> FALSE, closes |-> FALSE]

Soft(r) == [Plain(r) EXCEPT !.soft = TRUE]

When(flag, s) == [s EXCEPT !.needs = @ \cup {flag}]

Stateful(s) == [s EXCEPT !.before = "stateful"]

ThenStateless(s) == [s EXCEPT !.after = "stateless"]

FinallyStateless(s) == [s EXCEPT !.after = "stateless", !.fail = "stateless"]

Marking(s) == [s EXCEPT !.marks = TRUE]

(* Mutant: LOCK is sent without setStateful before it. *)
LockUnbracketed == Plain("lock")

Lock == Stateful(Plain("lock"))

(* Mutant: a failing UNLOCK is swallowed. *)
UnlockSwallowed == ThenStateless(Stateful(When("held", Soft("unlock"))))

Unlock == ThenStateless(Stateful(When("held", Plain("unlock"))))

(* The catch of update() and create(): delete when the caller asked for it, *)
(* create() only what it created itself.                                    *)
DeleteOnFailure == When("cleanup", Plain("delete"))

(* Mutant: the catch of create() does not ask for objectCreated. *)
DeleteUnconditionally == DeleteOnFailure

DeleteIfCreated == When("created", DeleteOnFailure)

(* The same in the handlers that bracket the request by a session toggle.   *)
Toggled(s) == ThenStateless(Stateful(s))

-----------------------------------------------------------------------------
(* Chains as the handlers share them. *)

Simple(name, kind, steps) ==
  [name |-> name, kind |-> kind, steps |-> steps, rescue |-> << >>,
   window |-> FALSE, tracked |-> FALSE, uses |-> FALSE, catch |-> "keep",
   catchUnlocked |-> "keep", exit |-> "keep"]

(* create() that only posts the object. *)
PlainCreate(type) == Simple(<<type, "create">>, "create", <<Plain("create")>>)

(* create() whose catch resets the session and may delete. *)
Create(type) ==
  [Simple(<<type, "create">>, "create", <<Marking(Plain("create"))>>)
     EXCEPT !.rescue = <<DeleteIfCreated>>, !.catch = "stateless"]

(* Mutant: the catch of update() does not reset the session without a lock. *)
UpdateChainUnreset(type, steps, rescue) ==
  [Simple(<<type, "update">>, "update", steps)
     EXCEPT !.rescue = rescue, !.window = TRUE, !.tracked = TRUE]

(* update(): LOCK ... UNLOCK under a critical section, then the rest. *)
UpdateChain(type, steps, rescue) ==
  [Simple(<<type, "update">>, "update", steps)
     EXCEPT !.rescue = rescue, !.window = TRUE, !.tracked = TRUE,
            !.catchUnlocked = "stateless"]

(* update() with options.lockHandle: the write alone. *)
WriteChain(type, steps) ==
  [Simple(<<type, "write">>, "write", steps) EXCEPT !.uses = TRUE]

SourceWrite(type) == WriteChain(type, <<Plain("write")>>)

PatchWrite(type) == WriteChain(type, <<Plain("fetch"), Plain("write")>>)

(* Mutant: the answer of the deletion check is not looked at. *)
DeleteUnchecked(type) ==
  Simple(<<type, "delete">>, "delete",
         <<Plain("verdictUnread"), Plain("delete")>>)

(* delete(): ask the system, heed its answer, then delete. *)
CheckedDelete(type) ==
  Simple(<<type, "delete">>, "delete", <<Plain("verdict"), Plain("delete")>>)

(***************************************************************************)
(* delete() of the legacy handlers: no deletion API on old systems, so     *)
(* LOCK and DELETE with the handle; the lock goes with the object.  The    *)
(* lock is not recorded in the registry.                                   *)
(***************************************************************************)
LegacyDelete(type) ==
  [Simple(<<type, "deleteLegacy">>, "delete", <<Lock, Plain("deleteLocked")>>)
     EXCEPT !.window = TRUE, !.exit = "stateless",
            !.rescue = <<When("held", Plain("unlock"))>>]

LockChain(type) ==
  [Simple(<<type, "lock">>, "lock", <<Lock>>) EXCEPT !.tracked = TRUE]

UnlockWith(type, step) ==
  [Simple(<<type, "unlock">>, "unlock", <<step>>)
     EXCEPT !.tracked = TRUE, !.uses = TRUE]

UnlockChain(type) == UnlockWith(type, Toggled(Plain("unlock")))

ActivateChain(type) ==
  Simple(<<type, "activate">>, "activate", <<Plain("activate")>>)

-----------------------------------------------------------------------------
(* The stretches most update() methods are made of. *)

(* Mutant: a failing write is swallowed. *)
SourceWindowWriteSwallowed ==
  <<Lock, When("body", Plain("check")), When("body", Soft("write")),
    When("body", Soft("poll")), Unlock>>

(* Source handlers: check and write the source only if there is one, then  *)
(* read with long polling until the inactive version is there.             *)
SourceWindow ==
  <<Lock, When("body", Plain("check")), When("body", Plain("write")),
    When("body", Soft("poll")), Unlock>>

(* Mutant: the object is read before it is locked. *)
PatchWindowReadFirst ==
  <<Plain("fetch"), Lock, When("body", Plain("check")), Plain("write"),
    Soft("poll"), Unlock>>

(* XML handlers: the update function reads the object, patches the XML and *)
(* writes it back.                                                         *)
PatchWindow ==
  <<Lock, When("body", Plain("check")), Plain("fetch"), Plain("write"),
    Soft("poll"), Unlock>>

ActivateAndPoll ==
  <<When("activate", Plain("activate")), When("activate", Soft("poll"))>>

ReadBack == <<When("inert", Plain("read"))>>

CheckAndActivate == <<Plain("check")>> \o ActivateAndPoll

UnlockThenDelete == <<Unlock, DeleteOnFailure>>

SourceUpdate(type) ==
  UpdateChain(type, SourceWindow \o CheckAndActivate \o ReadBack,
              UnlockThenDelete)

PatchUpdate(type) ==
  UpdateChain(type, PatchWindow \o CheckAndActivate \o ReadBack,
              UnlockThenDelete)
=============================================================================
