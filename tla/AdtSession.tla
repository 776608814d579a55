----------------------------- MODULE AdtSession -----------------------------
(***************************************************************************)
(* One connection to an ABAP system, shared by everything an AdtClient     *)
(* hands out: the session type, the nesting count of critical sections and *)
(* the registry of held locks on the client side, the objects and their    *)
(* locks on the server side.                                               *)
(*                                                                         *)
(* Callers run the methods of the handlers, given as chains of requests    *)
(* (module Chains).  JavaScript is single-threaded: what the code does     *)
(* between two awaits is one step, and a step ends by sending the next     *)
(* request or by settling the promise.  Any number of promises may be      *)
(* under way on the connection at the same time.                           *)
(*                                                                         *)
(* Of the server the model assumes that it                                 *)
(*   - may refuse any request at any time, and that an answer may be lost  *)
(*     after the request was carried out (the client then sees an error);  *)
(*   - handles the requests of a session one after the other;              *)
(*   - grants a lock only on an existing object that nobody has locked,    *)
(*     writes and unlocks only with the handle of the lock, and deletes    *)
(*     through the deletion API only what is not locked;                   *)
(*   - answers a deletion it will not perform with success, as             *)
(*     utils/deletionCheck.ts reports, unless the result is read.          *)
(***************************************************************************)
EXTENDS Chains, FiniteSets

CONSTANTS
  Caller,       \* promises that may be under way together
  Obj,          \* repository objects
  Handle,       \* lock handles the server issues
  NoHandle,     \* undefined
  Catalogue,    \* the methods callers may call, as chains
  Offered,      \* the options callers make use of
  Protected,    \* objects the server may refuse to delete
  UnlocksAll,   \* TRUE: unlockAll() may be called
  OneAtATime,   \* TRUE: a caller awaits every promise before the next call
  LeavesStateful,   \* methods known to end in a stateful session
  IgnoresVerdict    \* delete methods known not to notice a refusal

ASSUME CallerAssumption == IsFiniteSet(Caller)
ASSUME HandleAssumption == NoHandle \notin Handle
ASSUME CatalogueAssumption ==
  \A c \in Catalogue : WellFormed(c)
ASSUME ProtectedAssumption == Protected \subseteq Obj
ASSUME SwitchesAssumption == UnlocksAll \in BOOLEAN /\ OneAtATime \in BOOLEAN

VARIABLES
  mode,       \* the session type of the connection
  sections,   \* the nesting count of its critical section
  registry,   \* LockRegistry: the handle in the thunk kept for each object
  exists,     \* server: the objects there are
  lockedBy,   \* server: the handle of the lock on each object
  undeletable,\* server: the objects it refuses to delete
  typeOf,     \* the type of each object
  acked,      \* handles whose grant reached a handler that records it
  call,       \* what each caller is doing
  held,       \* its variable lockHandle
  made,       \* callers whose variable objectCreated is set
  open,       \* callers whose critical section is not disposed of
  base,       \* what the document a caller fetched is worth
  done,       \* what the server has done for a call (Deeds)
  kept,       \* handles a caller got from lock() and has not given back
  sweeping,   \* TRUE while unlockAll() runs
  backlog     \* the entries of its snapshot still to be unlocked

session == <<mode, sections, registry>>
server  == <<exists, lockedBy>>
fixed   == <<undeletable, typeOf>>
locals  == <<call, held, made, open, base, done, kept>>
sweep   == <<sweeping, backlog>>
vars    == <<session, server, fixed, acked, locals, sweep>>

MaybeHandle == Handle \cup {NoHandle}

Types == {c.name[1] : c \in Catalogue}

(* main and rescue: awaiting a request of the try or of the catch block.   *)
Phases == {"main", "rescue", "resolved", "rejected"}

Call ==
  [chain : Catalogue, object : Obj, options : SUBSET Options,
   phase : Phases, at : Nat]

Idle == [phase |-> "idle"]

Deeds == {"create", "write", "activate"}

TypeOK ==
  /\ mode \in Modes
  /\ sections \in Int
  /\ registry \in [Obj -> MaybeHandle]
  /\ exists \subseteq Obj
  /\ lockedBy \in [Obj -> MaybeHandle]
  /\ undeletable \subseteq Obj
  /\ typeOf \in [Obj -> Types]
  /\ acked \subseteq Handle
  /\ call \in [Caller -> Call \cup {Idle}]
  /\ held \in [Caller -> MaybeHandle]
  /\ made \subseteq Caller
  /\ open \subseteq Caller
  /\ base \in [Caller -> {"none", "current", "outdated"}]
  /\ done \in [Caller -> SUBSET Deeds]
  /\ kept \in [Caller -> [Obj -> MaybeHandle]]
  /\ sweeping \in BOOLEAN
  /\ backlog \in [Obj -> MaybeHandle]

-----------------------------------------------------------------------------
(* Reading the state. *)

Busy(p) == call[p].phase \in {"main", "rescue"}

Settled(p) == call[p].phase \in {"resolved", "rejected"}

ChainOf(p) == call[p].chain

Part(p, phase) == IF phase = "main" THEN ChainOf(p).steps ELSE ChainOf(p).rescue

(* The request a busy caller awaits. *)
Pending(p) == Part(p, call[p].phase)[call[p].at]

Awaits(p, requests) == Busy(p) /\ Pending(p).req \in requests

Target(p) == call[p].object

(* A handle the server has not issued to anybody who still knows it. *)
Fresh(g) ==
  /\ g \notin acked
  /\ \A o \in Obj : g \notin {lockedBy[o], registry[o], backlog[o]}
  /\ \A p \in Caller : g # held[p] /\ \A o \in Obj : g # kept[p][o]

-----------------------------------------------------------------------------
(* The code between two awaits. *)

(* Mutant: the critical section is disposed of on success only. *)
SettleLeakingSection(p, verdict, m, stillOpen) ==
  LET c == ChainOf(p)
      finally == p \in stillOpen \/ ~c.window
  IN /\ call' = [call EXCEPT ![p].phase = verdict]
     /\ mode' = IF finally THEN Switch(m, c.exit) ELSE m
     /\ open' = IF verdict = "resolved" THEN stillOpen \ {p} ELSE stillOpen
     /\ kept' = IF c.kind = "lock" \/ c.uses
                  THEN [kept EXCEPT ![p][Target(p)] = held'[p]]
                  ELSE kept

(***************************************************************************)
(* Send the next request of a part after its i-th step, or settle when     *)
(* there is none: m is the session type so far, stillOpen the critical     *)
(* sections not disposed of.  Settling runs the finally and hands the      *)
(* lock handle to or from the caller.                                      *)
(***************************************************************************)
Settle(p, verdict, m, stillOpen) ==
  LET c == ChainOf(p)
      finally == p \in stillOpen \/ ~c.window
  IN /\ call' = [call EXCEPT ![p].phase = verdict]
     /\ mode' = IF finally THEN Switch(m, c.exit) ELSE m
     /\ open' = stillOpen \ {p}
     /\ kept' = IF c.kind = "lock" \/ c.uses
                  THEN [kept EXCEPT ![p][Target(p)] = held'[p]]
                  ELSE kept

Send(p, phase, j, m, stillOpen) ==
  /\ call' = [call EXCEPT ![p].phase = phase, ![p].at = j]
  /\ mode' = Switch(m, Part(p, phase)[j].before)
  /\ open' = stillOpen
  /\ UNCHANGED kept

Proceed(p, phase, i, m, stillOpen) ==
  LET flags == FlagsOf(call[p].options, held'[p] # NoHandle, p \in made')
      rest == StepsAfter(i, Part(p, phase), flags)
  IN \/ /\ rest = {}
        /\ Settle(p, IF phase = "main" THEN "resolved" ELSE "rejected",
                  m, stillOpen)
     \/ \E j \in rest :
          /\ \A k \in rest : j <= k
          /\ Send(p, phase, j, m, stillOpen)

(* Mutant: a flag instead of a count. *)
DisposeAll == sections' = IF open' = open THEN sections ELSE 0

(* The disposer of a critical section counts down once. *)
Dispose == sections' = IF open' = open THEN sections ELSE sections - 1

(***************************************************************************)
(* A request succeeded: the code after the await.                          *)
(***************************************************************************)
Succeed(p) ==
  LET s == Pending(p)
  IN /\ made' = IF s.marks THEN made \cup {p} ELSE made
     /\ Proceed(p, call[p].phase, call[p].at, Switch(mode, s.after),
                IF s.closes THEN open \ {p} ELSE open)
     /\ Dispose

(***************************************************************************)
(* A request failed.  A swallowed failure, and every failure in the catch  *)
(* block, lets the code go on; a failure after the inner try was left      *)
(* rejects at once; any other enters the catch block.                      *)
(***************************************************************************)
Fail(p) ==
  LET c == ChainOf(p)
      s == Pending(p)
      m == Switch(mode, s.fail)
      caught == Switch(m, c.catch)
      swallowed == s.soft \/ call[p].phase = "rescue"
      uncovered == c.window /\ p \notin open
  IN /\ made' = IF s.marks /\ s.soft THEN made \cup {p} ELSE made
     /\ held' = held
     /\ \/ /\ swallowed
           /\ Proceed(p, call[p].phase, call[p].at, m, open)
        \/ /\ ~swallowed
           /\ uncovered
           /\ Settle(p, "rejected", m, open)
        \/ /\ ~swallowed
           /\ ~uncovered
           /\ Proceed(p, "rescue", 0,
                      IF held[p] = NoHandle
                        THEN Switch(caught, c.catchUnlocked)
                        ELSE caught,
                      open)
     /\ Dispose

-----------------------------------------------------------------------------
(* The server. *)

(* Whether it can carry out the request a caller awaits. *)
Allowed(p) ==
  LET r == Pending(p).req
      o == Target(p)
  IN /\ r = "create" => o \notin exists
     /\ r \notin {"validate", "create"} => o \in exists
     /\ r = "lock" => lockedBy[o] = NoHandle
     /\ r \in {"write", "unlock", "deleteLocked"} =>
          lockedBy[o] = held[p] /\ held[p] # NoHandle
     /\ r \in {"delete", "deleteProven"} => lockedBy[o] = NoHandle
     /\ r \in {"verdict", "deleteProven", "deleteLocked"} =>
          o \notin undeletable

Grants(p) ==
  IF Pending(p).req = "lock" THEN {g \in Handle : Fresh(g)} ELSE {NoHandle}

Releases(p) == Pending(p).req \in {"unlock", "deleteLocked"}

Destroys(p) ==
  \/ Pending(p).req \in {"deleteProven", "deleteLocked"}
  \/ Pending(p).req = "delete" /\ Target(p) \notin undeletable

(***************************************************************************)
(* Carry out the request; g is the handle of a granted lock.  A write      *)
(* makes what others fetched of the object outdated and the last           *)
(* activation of the call worthless.                                       *)
(***************************************************************************)
Perform(p, g) ==
  LET r == Pending(p).req
      o == Target(p)
  IN /\ exists' = IF r = "create" THEN exists \cup {o}
                  ELSE IF Destroys(p) THEN exists \ {o} ELSE exists
     /\ lockedBy' = IF r = "lock" THEN [lockedBy EXCEPT ![o] = g]
                    ELSE IF Releases(p) THEN [lockedBy EXCEPT ![o] = NoHandle]
                    ELSE lockedBy
     /\ base' = [q \in Caller |->
                   IF q = p /\ r = "fetch" THEN "current"
                   ELSE IF q = p /\ r = "write" THEN "none"
                   ELSE IF /\ r = "write"
                           /\ base[q] = "current"
                           /\ Target(q) = o THEN "outdated"
                   ELSE base[q]]
     /\ done' = IF r = "write"
                  THEN [done EXCEPT ![p] = (@ \ {"activate"}) \cup {"write"}]
                ELSE IF r \in {"create", "activate"}
                  THEN [done EXCEPT ![p] = @ \cup {r}]
                ELSE done

-----------------------------------------------------------------------------
(* The actions. *)

(* The caller is allowed to begin something on the connection. *)
Free == OneAtATime => ~sweeping /\ \A q \in Caller : call[q] = Idle

(***************************************************************************)
(* Call a method: open its critical section, send its first request.  The  *)
(* methods that work with a lock handle get one lock() returned; lock() is *)
(* not called for an object whose handle the caller still has.             *)
(***************************************************************************)
Start(p) ==
  \E c \in Catalogue, o \in Obj :
    /\ call[p] = Idle
    /\ Free
    /\ typeOf[o] = c.name[1]
    /\ c.uses => kept[p][o] # NoHandle
    /\ c.kind = "lock" => kept[p][o] = NoHandle
    /\ \E opts \in SUBSET (OptionsOf(c) \cap Offered) :
         call' = [call EXCEPT ![p] =
                    [chain |-> c, object |-> o, options |-> opts,
                     phase |-> "main", at |-> 1]]
    /\ held' = [held EXCEPT ![p] = IF c.uses THEN kept[p][o] ELSE NoHandle]
    /\ open' = IF c.window THEN open \cup {p} ELSE open
    /\ sections' = IF c.window THEN sections + 1 ELSE sections
    /\ mode' = Switch(mode, c.steps[1].before)
    /\ UNCHANGED <<registry, server, fixed, acked, made, base, done, kept,
                   sweep>>

(* The request is carried out and the caller learns of it. *)
Answer(p) ==
  LET r == Pending(p).req
      o == Target(p)
      tracked == ChainOf(p).tracked
  IN /\ Busy(p)
     /\ Allowed(p)
     /\ \E g \in Grants(p) :
          /\ Perform(p, g)
          /\ held' = IF r = "lock" THEN [held EXCEPT ![p] = g]
                     ELSE IF r = "unlock" THEN [held EXCEPT ![p] = NoHandle]
                     ELSE held
          /\ registry' = IF tracked /\ r = "lock"
                           THEN [registry EXCEPT ![o] = g]
                         ELSE IF tracked /\ r = "unlock"
                           THEN [registry EXCEPT ![o] = NoHandle]
                         ELSE registry
          /\ acked' = IF tracked /\ r = "lock" THEN acked \cup {g}
                      ELSE IF Releases(p) THEN acked \ {lockedBy[o]}
                      ELSE acked
     /\ Succeed(p)
     /\ UNCHANGED <<fixed, sweep>>

(* Mutant: the lock is untracked whether or not UNLOCK succeeds. *)
RefuseUntracking(p) ==
  /\ Busy(p)
  /\ Fail(p)
  /\ registry' = IF ChainOf(p).tracked /\ Pending(p).req = "unlock"
                   THEN [registry EXCEPT ![Target(p)] = NoHandle]
                   ELSE registry
  /\ UNCHANGED <<server, fixed, acked, base, done, sweep>>

(* The request is not carried out: refused, or never arrived. *)
Refuse(p) ==
  /\ Busy(p)
  /\ Fail(p)
  /\ UNCHANGED <<registry, server, fixed, acked, base, done, sweep>>

(* The request is carried out, but the caller sees a timeout. *)
Lose(p) ==
  /\ Busy(p)
  /\ Allowed(p)
  /\ \E g \in Grants(p) : Perform(p, g)
  /\ acked' = IF Releases(p) THEN acked \ {lockedBy[Target(p)]} ELSE acked
  /\ Fail(p)
  /\ UNCHANGED <<registry, fixed, sweep>>

(* The promise has been awaited; its local variables are gone. *)
Return(p) ==
  /\ Settled(p)
  /\ call' = [call EXCEPT ![p] = Idle]
  /\ held' = [held EXCEPT ![p] = NoHandle]
  /\ made' = made \ {p}
  /\ base' = [base EXCEPT ![p] = "none"]
  /\ done' = [done EXCEPT ![p] = {}]
  /\ UNCHANGED <<session, server, fixed, acked, open, kept, sweep>>

-----------------------------------------------------------------------------
(* unlockAll(): one stateful stretch over a snapshot of the registry.      *)

SweepStart ==
  /\ UnlocksAll
  /\ ~sweeping
  /\ Free
  /\ \E o \in Obj : registry[o] # NoHandle
  /\ sweeping' = TRUE
  /\ backlog' = registry
  /\ mode' = "stateful"
  /\ UNCHANGED <<sections, registry, server, fixed, acked, locals>>

(* The entry is done with; after the last one the finally runs. *)
Strike(o) ==
  /\ backlog' = [backlog EXCEPT ![o] = NoHandle]
  /\ sweeping' = (\E x \in Obj \ {o} : backlog[x] # NoHandle)
  /\ mode' = IF sweeping' THEN mode ELSE "stateless"
  /\ UNCHANGED <<sections, exists, fixed, locals>>

(* The server releases the lock the thunk asks it to release. *)
ReleaseBacklog(o) ==
  /\ backlog[o] # NoHandle
  /\ lockedBy[o] = backlog[o]
  /\ lockedBy' = [lockedBy EXCEPT ![o] = NoHandle]
  /\ acked' = acked \ {backlog[o]}

SweepUnlocked(o) ==
  /\ ReleaseBacklog(o)
  /\ registry' = [registry EXCEPT ![o] = NoHandle]
  /\ Strike(o)

SweepLost(o) ==
  /\ ReleaseBacklog(o)
  /\ Strike(o)
  /\ UNCHANGED registry

(* Mutant: unlockAll() drops the entry before it asks for the release. *)
SweepRefusedUntracking(o) ==
  /\ backlog[o] # NoHandle
  /\ registry' = [registry EXCEPT ![o] = NoHandle]
  /\ Strike(o)
  /\ UNCHANGED <<lockedBy, acked>>

SweepRefused(o) ==
  /\ backlog[o] # NoHandle
  /\ Strike(o)
  /\ UNCHANGED <<registry, lockedBy, acked>>

-----------------------------------------------------------------------------
Init ==
  /\ mode = "stateless"
  /\ sections = 0
  /\ registry = [o \in Obj |-> NoHandle]
  /\ exists \in SUBSET Obj
  /\ undeletable \in SUBSET Protected
  /\ typeOf \in [Obj -> Types]
  /\ lockedBy = [o \in Obj |-> NoHandle]
  /\ acked = {}
  /\ call = [p \in Caller |-> Idle]
  /\ held = [p \in Caller |-> NoHandle]
  /\ made = {}
  /\ open = {}
  /\ base = [p \in Caller |-> "none"]
  /\ done = [p \in Caller |-> {}]
  /\ kept = [p \in Caller |-> [o \in Obj |-> NoHandle]]
  /\ sweeping = FALSE
  /\ backlog = [o \in Obj |-> NoHandle]

Response(p) == Answer(p) \/ Refuse(p) \/ Lose(p)

Sweep ==
  \/ SweepStart
  \/ \E o \in Obj : SweepUnlocked(o) \/ SweepLost(o) \/ SweepRefused(o)

Next ==
  \/ \E p \in Caller : Start(p) \/ Response(p) \/ Return(p)
  \/ Sweep

Spec == Init /\ [][Next]_vars

(* The connection gives every request a timeout: it is answered or fails. *)
FairSpec == Spec /\ \A p \in Caller : WF_vars(Response(p))
-----------------------------------------------------------------------------
(* Invariants. *)

(***************************************************************************)
(* The nesting count of the connection is the number of calls under way    *)
(* that have not left their critical section: however calls interleave and *)
(* fail, the raised timeout neither stays on for later requests nor ends   *)
(* while a call that brackets its window still holds its lock              *)
(* (utils/criticalSection.ts).                                             *)
(***************************************************************************)
CriticalSections ==
  /\ sections = Cardinality(open)
  /\ \A p \in open : Busy(p)
  /\ \A p \in Caller :
       Busy(p) /\ ChainOf(p).window /\ held[p] # NoHandle => p \in open

(***************************************************************************)
(* No lock is abandoned: as long as the server keeps a lock whose handle a *)
(* recording handler was given, the registry has that very handle under    *)
(* the name of the object, so that pendingLocks shows it and unlockAll()   *)
(* can release it - also while a call to unlockAll() is under way.         *)
(***************************************************************************)
NoAbandonedLock ==
  \A o \in Obj : lockedBy[o] \in acked => registry[o] = lockedBy[o]

(***************************************************************************)
(* Used one call at a time, a method that takes a lock for itself leaves   *)
(* the session stateless, on success and on error, unless it had to give   *)
(* up on its lock (ARCHITECTURE.md on stateful mode); the methods of       *)
(* LeavesStateful do not.                                                  *)
(***************************************************************************)
SessionReset ==
  \A p \in Caller :
    /\ OneAtATime
    /\ Settled(p)
    /\ TakesLock(ChainOf(p))
    /\ held[p] = NoHandle
    /\ ChainOf(p).name \notin LeavesStateful
    => mode = "stateless"

(***************************************************************************)
(* Used one call at a time, every request a method sends with a lock of    *)
(* its own - writing, deleting, unlocking - goes out in the stateful       *)
(* session that holds the lock.                                            *)
(***************************************************************************)
OwnLockStateful ==
  \A p \in Caller :
    /\ OneAtATime
    /\ Awaits(p, {"write", "unlock", "deleteLocked"})
    /\ ~ChainOf(p).uses
    /\ held[p] # NoHandle
    => mode = "stateful"

(***************************************************************************)
(* An update that resolves has done what was asked, whatever failed on the *)
(* way: its lock is given back, the source or document it was given has    *)
(* been written, and if activation was asked for, the last write has been  *)
(* activated.                                                              *)
(***************************************************************************)
UpdateDelivered ==
  \A p \in Caller :
    Settled(p) /\ call[p].phase = "resolved" /\ ChainOf(p).kind = "update"
    => /\ held[p] = NoHandle
       /\ "body" \in call[p].options => "write" \in done[p]
       /\ "activate" \in call[p].options => "activate" \in done[p]

(***************************************************************************)
(* Used one call at a time, a delete that resolves has deleted the object: *)
(* the refusal of ADT, reported with a success status, is noticed          *)
(* (utils/deletionCheck.ts); the methods of IgnoresVerdict do not.         *)
(***************************************************************************)
DeleteDelivered ==
  \A p \in Caller :
    /\ OneAtATime
    /\ Settled(p)
    /\ call[p].phase = "resolved"
    /\ ChainOf(p).kind = "delete"
    /\ ChainOf(p).name \notin IgnoresVerdict
    => Target(p) \notin exists

(***************************************************************************)
(* deleteOnFailure of a create() only ever goes for an object the system   *)
(* has created for this very call, and when it was asked for: never for    *)
(* one that was there before and made the create request fail.             *)
(***************************************************************************)
CleanupOnlyOwn ==
  \A p \in Caller :
    /\ Awaits(p, {"delete", "deleteProven"})
    /\ ChainOf(p).kind = "create"
    => "create" \in done[p] /\ "cleanup" \in call[p].options

(***************************************************************************)
(* No update is lost: a handler that reads the document, patches it and    *)
(* writes it back never gets to write a document read before another       *)
(* caller's write, because it reads under the lock it writes with.         *)
(***************************************************************************)
NoLostUpdate ==
  \A p \in Caller :
    Awaits(p, {"write"}) /\ base[p] = "outdated" => ~Allowed(p)

(***************************************************************************)
(* Claims of the documentation that the code does not keep up in all       *)
(* cases.                                                                  *)
(***************************************************************************)
(* deletionCheck.ts: a resolved delete entitles to believe the object gone. *)
DeleteAlwaysDelivered ==
  \A p \in Caller :
    /\ Settled(p)
    /\ call[p].phase = "resolved"
    /\ ChainOf(p).kind = "delete"
    => Target(p) \notin exists

(* LockCapability.ts: the session stays stateful while the lock is held.   *)
KeptLockStateful ==
  \A p \in Caller :
    Awaits(p, {"write"}) /\ ChainOf(p).uses /\ lockedBy[Target(p)] = held[p]
    => mode = "stateful"

(* Every call settles: no failure makes a method wait or repeat forever.   *)
EveryCallSettles == \A p \in Caller : Busy(p) ~> Settled(p)
=============================================================================
