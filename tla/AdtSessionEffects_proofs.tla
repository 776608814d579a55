---------------------- MODULE AdtSessionEffects_proofs ----------------------
(***************************************************************************)
(* What the calls of a connection achieve, for every catalogue whose       *)
(* chains have the shapes of module ChainShapes (HandlerShapes: those of   *)
(* the handlers have them), any finite number of callers and any objects   *)
(* and handles: updates and deletions deliver, no update is lost, cleaning *)
(* up deletes only what the call has created, and the session is stateful  *)
(* while a method has a lock of its own and stateless after it.            *)
(***************************************************************************)
EXTENDS AdtSession_proofs, ChainShapes

(* The steps of the try block that lie behind a caller. *)
Behind(p) ==
  IF call[p].phase \in {"main", "resolved"}
    THEN {i \in DOMAIN ChainOf(p).steps :
            call[p].phase = "main" => i < call[p].at}
    ELSE {}

-----------------------------------------------------------------------------
(* The history of the calls, for all chains. *)

(* A caller between two calls has no variables. *)
NewCalls ==
  \A p \in Caller :
    call[p] = Idle => base[p] = "none" /\ done[p] = {} /\ p \notin made

(* Callers pass the options that make a difference. *)
OptionsKnown ==
  \A p \in Caller :
    call[p] # Idle => call[p].options \subseteq OptionsOf(ChainOf(p))

(* What a request is sent under still holds when it is answered. *)
Conditions ==
  \A p \in Caller : Busy(p) =>
    /\ Pending(p).needs \cap Options \subseteq call[p].options
    /\ "created" \in Pending(p).needs => p \in made

(* What no call skips and none swallows has been done when it is behind;   *)
(* an activation may since have been overtaken by a write.                 *)
DeedsDone ==
  \A p \in Caller : \A i \in Behind(p) :
    LET s == ChainOf(p).steps[i]
    IN Sure(s, call[p].options) =>
         /\ s.req \in {"create", "write"} => s.req \in done[p]
         /\ s.req = "activate" =>
              \/ "activate" \in done[p]
              \/ \E j \in Behind(p) :
                   i < j /\ ChainOf(p).steps[j].req = "write"
         /\ s.req = "verdict" => Target(p) \notin undeletable

(* The UNLOCK that ends a lock has ended it when it is behind. *)
LocksEnded ==
  \A p \in Caller : \A i \in Behind(p) :
    /\ EndsLock(ChainOf(p).steps[i])
    /\ \A j \in DOMAIN ChainOf(p).steps :
         i < j => ChainOf(p).steps[j].req # "lock"
    => held[p] = NoHandle

Known(p) == {held[p]} \cup {kept[p][o] : o \in Obj}

(* No two callers know the same handle. *)
HandlesOwned ==
  \A p, q \in Caller :
    p # q => Known(p) \cap Known(q) \subseteq {NoHandle}

History ==
  /\ NewCalls /\ OptionsKnown /\ Conditions /\ DeedsDone /\ LocksEnded
  /\ HandlesOwned

-----------------------------------------------------------------------------
(* The invariants that depend on the shape of the chains. *)

(* What has been read has been read after the last LOCK, and no lock under *)
(* which an outdated document could be written is the caller's.            *)
ReadLast ==
  \A p \in Caller :
    Busy(p) /\ base[p] # "none" =>
      /\ call[p].phase = "main" =>
           \E i \in Behind(p) : ChainOf(p).steps[i].req = "fetch"
      /\ base[p] = "outdated" =>
           held[p] = NoHandle \/ lockedBy[Target(p)] # held[p]

(* objectCreated is set by calls that have created the object. *)
MadeCreated ==
  \A p \in Caller :
    p \in made /\ ChainOf(p).kind = "create" => "create" \in done[p]

(* One call at a time. *)
Alone ==
  /\ \A o \in Obj : backlog[o] # NoHandle => sweeping
  /\ OneAtATime =>
       /\ \A p, q \in Caller : p # q => call[p] = Idle \/ call[q] = Idle
       /\ sweeping => \A p \in Caller : call[p] = Idle

(* The step that deletes is behind. *)
DeletedBehind ==
  OneAtATime =>
    \A p \in Caller : \A i \in Behind(p) :
      LET s == ChainOf(p).steps[i]
      IN /\ Sure(s, {})
         /\ \A j \in DOMAIN ChainOf(p).steps :
              i < j => ChainOf(p).steps[j].req # "create"
         /\ \/ s.req \in {"deleteProven", "deleteLocked"}
            \/ /\ s.req = "delete"
               /\ \E j \in DOMAIN ChainOf(p).steps :
                    /\ j < i
                    /\ ChainOf(p).steps[j].req = "verdict"
                    /\ Sure(ChainOf(p).steps[j], {})
         => Target(p) \notin exists

(* A request is sent in the session type set for it. *)
SentIn ==
  OneAtATime =>
    \A p \in Caller :
      Busy(p) /\ Pending(p).before # "keep" => mode = Pending(p).before

(* A call with a lock of its own has taken it, is before the UNLOCK that   *)
(* would end it, and is in a stateful session.                             *)
HoldsStateful ==
  OneAtATime =>
    \A p \in Caller :
      Busy(p) /\ ~ChainOf(p).uses /\ held[p] # NoHandle =>
        /\ call[p].phase = "main" =>
             MayHold(ChainOf(p), call[p].at) /\ mode = "stateful"
        /\ /\ call[p].phase = "rescue"
           /\ Pending(p).req \in {"write", "unlock", "deleteLocked"}
           => mode = "stateful"

(* A method that begins with LOCK has its lock until the first UNLOCK.     *)
HoldsFirst ==
  \A p \in Caller :
    /\ Busy(p) /\ call[p].phase = "main" /\ 1 < call[p].at
    /\ TakesLock(ChainOf(p)) /\ ~ChainOf(p).steps[1].soft
    /\ \A i \in Behind(p) : ChainOf(p).steps[i].req # "unlock"
    => held[p] # NoHandle

(***************************************************************************)
(* How far a call that is to end the session has come with it: the methods *)
(* whose finally ends it, and those that end it with the UNLOCK.           *)
(***************************************************************************)
FinallyReset(p) ==
  EndsInFinally(ChainOf(p)) =>
    /\ Settled(p) => mode = "stateless"
    /\ Busy(p) /\ ChainOf(p).window /\ p \notin open => mode = "stateless"

UnlockReset(p) ==
  EndsWithUnlock(ChainOf(p)) =>
    /\ Settled(p) /\ held[p] = NoHandle => mode = "stateless"
    /\ /\ Busy(p) /\ call[p].phase = "main"
       /\ \E i \in Behind(p) : ChainOf(p).steps[i].req = "unlock"
       => mode = "stateless"
    /\ /\ Busy(p) /\ call[p].phase = "rescue" /\ held[p] = NoHandle
       => \/ mode = "stateless"
          \/ Pending(p).after = "stateless" /\ Pending(p).fail = "stateless"

Resetting ==
  OneAtATime =>
    \A p \in Caller :
      call[p] # Idle /\ TakesLock(ChainOf(p)) =>
        FinallyReset(p) /\ UnlockReset(p)

-----------------------------------------------------------------------------
(* The control flow between two awaits. *)

FlagsAfter(p) == FlagsOf(call[p].options, held'[p] # NoHandle, p \in made')

(* The call of p after a step: the same method, somewhere else.            *)
Same(p) ==
  /\ call'[p].chain = call[p].chain
  /\ call'[p].object = call[p].object
  /\ call'[p].options = call[p].options

(* Proceed() as what becomes of the call, the session and the section.     *)
SettledBy(p, verdict, m, so) ==
  /\ call'[p].phase = verdict
  /\ mode' = IF p \in so \/ ~ChainOf(p).window
               THEN Switch(m, ChainOf(p).exit) ELSE m
  /\ open' = so \ {p}

SentBy(p, phase, i, m, so) ==
  /\ call'[p].phase = phase
  /\ call'[p].at \in StepsAfter(i, Part(p, phase), FlagsAfter(p))
  /\ \A k \in StepsAfter(i, Part(p, phase), FlagsAfter(p)) : call'[p].at <= k
  /\ mode' = Switch(m, Part(p, phase)[call'[p].at].before)
  /\ open' = so

Goes(p, phase, i, m, so) ==
  \/ /\ StepsAfter(i, Part(p, phase), FlagsAfter(p)) = {}
     /\ SettledBy(p, IF phase = "main" THEN "resolved" ELSE "rejected", m, so)
  \/ SentBy(p, phase, i, m, so)

(* The others do not notice; the caller is given the handle it has or none. *)
OnlyCallOf(p) ==
  /\ \A q \in Caller \ {p} : call'[q] = call[q] /\ kept'[q] = kept[q]
  /\ \A o \in Obj : kept'[p][o] \in {kept[p][o], held'[p]}

(* A settled call: its method, its verdict and where its section ends. *)
LEMMA SettleEffects ==
  ASSUME TypeOK, NEW p \in Caller, call[p].phase # "idle",
         NEW verdict \in {"resolved", "rejected"}, NEW m, NEW so,
         Settle(p, verdict, m, so)
  PROVE  SettledBy(p, verdict, m, so) /\ Same(p) /\ OnlyCallOf(p)
<1>1. call[p] \in Call
  BY CallType
<1>2. /\ call' = [call EXCEPT ![p].phase = verdict]
      /\ mode' = IF p \in so \/ ~ChainOf(p).window
                    THEN Switch(m, ChainOf(p).exit) ELSE m
      /\ open' = so \ {p}
      /\ \/ kept' = [kept EXCEPT ![p][Target(p)] = held'[p]]
         \/ kept' = kept
  BY DEF Settle
<1>3. call'[p] = [call[p] EXCEPT !.phase = verdict]
  BY <1>2 DEF TypeOK
<1>4. Same(p) /\ call'[p].phase = verdict
  BY <1>1, <1>3 DEF Call, Same
<1>5. OnlyCallOf(p)
  BY <1>2 DEF OnlyCallOf, TypeOK
<1>6. QED
  BY <1>2, <1>4, <1>5 DEF SettledBy

(* A call that sends its next request, or settles for want of one. *)
LEMMA ProceedEffects ==
  ASSUME TypeOK, NEW p \in Caller, call[p].phase # "idle",
         NEW phase \in {"main", "rescue"}, NEW i, NEW m, NEW so,
         Proceed(p, phase, i, m, so)
  PROVE  Goes(p, phase, i, m, so) /\ Same(p) /\ OnlyCallOf(p)
<1> DEFINE rest == StepsAfter(i, Part(p, phase), FlagsAfter(p))
<1>1. call[p] \in Call
  BY CallType
<1>2. CASE /\ rest = {}
           /\ Settle(p, IF phase = "main" THEN "resolved" ELSE "rejected",
                     m, so)
  BY <1>2, SettleEffects DEF Goes
<1>3. CASE \E j \in rest : (\A k \in rest : j <= k) /\ Send(p, phase, j, m, so)
  <2>1. PICK j \in rest : (\A k \in rest : j <= k) /\ Send(p, phase, j, m, so)
    BY <1>3
  <2>2. /\ call' = [call EXCEPT ![p].phase = phase, ![p].at = j]
        /\ mode' = Switch(m, Part(p, phase)[j].before)
        /\ open' = so /\ kept' = kept
    BY <2>1 DEF Send
  <2>3. call'[p] = [call[p] EXCEPT !.phase = phase, !.at = j]
    BY <2>2 DEF TypeOK
  <2>4. Same(p) /\ call'[p].phase = phase /\ call'[p].at = j
    BY <1>1, <2>3 DEF Call, Same
  <2>5. OnlyCallOf(p)
    BY <2>2 DEF OnlyCallOf, TypeOK
  <2>6. SentBy(p, phase, i, m, so)
    BY <2>1, <2>2, <2>4 DEF SentBy
  <2>7. QED
    BY <2>4, <2>5, <2>6 DEF Goes
<1>4. QED
  BY <1>2, <1>3 DEF Proceed, FlagsAfter

(* The session type on entering the catch block. *)
Entry(p) ==
  LET caught == Switch(Switch(mode, Pending(p).fail), ChainOf(p).catch)
  IN IF held[p] = NoHandle THEN Switch(caught, ChainOf(p).catchUnlocked)
                           ELSE caught

(* The ways a request turns out for the call that awaits it.               *)
Passes(p) ==
  /\ Answer(p)
  /\ Goes(p, call[p].phase, call[p].at, Switch(mode, Pending(p).after),
          IF Pending(p).closes THEN open \ {p} ELSE open)

Swallows(p) ==
  /\ Pending(p).soft \/ call[p].phase = "rescue"
  /\ Goes(p, call[p].phase, call[p].at, Switch(mode, Pending(p).fail), open)

GivesUp(p) ==
  /\ call[p].phase = "main" /\ ChainOf(p).window /\ p \notin open
  /\ SettledBy(p, "rejected", Switch(mode, Pending(p).fail), open)

Enters(p) ==
  /\ call[p].phase = "main" /\ ~Pending(p).soft
  /\ p \in open \/ ~ChainOf(p).window
  /\ Goes(p, "rescue", 0, Entry(p), open)

Fails(p) == Swallows(p) \/ GivesUp(p) \/ Enters(p)

(* A response passes a request or fails it, and concerns one call alone. *)
LEMMA ResponseEffects ==
  ASSUME IInv, NEW p \in Caller, Response(p)
  PROVE  /\ Busy(p) /\ call[p].phase # "idle"
         /\ Same(p) /\ OnlyCallOf(p)
         /\ \/ Passes(p)
            \/ Fails(p) /\ held' = held
<1>1. Busy(p) /\ call[p].phase \in {"main", "rescue"} /\ TypeOK
      /\ call[p].phase # "idle"
  BY DEF IInv, Response, Answer, Refuse, Lose, Busy
<1>2. CASE Answer(p)
  <2>1. Proceed(p, call[p].phase, call[p].at, Switch(mode, Pending(p).after),
                IF Pending(p).closes THEN open \ {p} ELSE open)
    BY <1>2 DEF Answer, Succeed
  <2>2. QED
    BY <1>1, <1>2, <2>1, ProceedEffects DEF Passes
<1>3. CASE Fail(p)
  <2>1. /\ held' = held
        /\ \/ /\ Pending(p).soft \/ call[p].phase = "rescue"
              /\ Proceed(p, call[p].phase, call[p].at,
                         Switch(mode, Pending(p).fail), open)
           \/ /\ ~(Pending(p).soft \/ call[p].phase = "rescue")
              /\ ChainOf(p).window /\ p \notin open
              /\ Settle(p, "rejected", Switch(mode, Pending(p).fail), open)
           \/ /\ ~(Pending(p).soft \/ call[p].phase = "rescue")
              /\ p \in open \/ ~ChainOf(p).window
              /\ Proceed(p, "rescue", 0, Entry(p), open)
    BY <1>3 DEF Fail, Entry
  <2>2. Same(p) /\ OnlyCallOf(p) /\ Fails(p)
    BY <1>1, <2>1, ProceedEffects, SettleEffects
       DEF Fails, Swallows, GivesUp, Enters
  <2>3. QED
    BY <1>1, <2>1, <2>2
<1>4. QED
  BY <1>2, <1>3 DEF Response, Refuse, Lose

(* The position of a busy caller, as a step of its chain. *)
LEMMA BusyPosition ==
  ASSUME IInv, NEW p \in Caller, Busy(p)
  PROVE  /\ call[p] \in Call /\ call[p] # Idle
         /\ ChainOf(p) \in Catalogue /\ Target(p) \in Obj
         /\ call[p].at \in Nat
         /\ call[p].phase = "main" =>
              /\ call[p].at \in DOMAIN ChainOf(p).steps
              /\ Pending(p) = ChainOf(p).steps[call[p].at]
         /\ call[p].phase = "rescue" =>
              /\ call[p].at \in DOMAIN ChainOf(p).rescue
              /\ Pending(p) = ChainOf(p).rescue[call[p].at]
         /\ call[p].phase \in {"main", "rescue"}
<1>1. call[p].phase \in {"main", "rescue"} /\ TypeOK
  BY DEF IInv, Busy
<1>2. call[p].at \in DOMAIN Part(p, call[p].phase)
  BY DEF IInv, Positions
<1>3. call[p] # Idle
  BY <1>1 DEF Idle
<1>4. QED
  BY <1>1, <1>2, <1>3, CallType DEF Part, Pending

(* The steps of a chain are numbered by natural numbers from 1. *)
LEMMA StepNumbers ==
  ASSUME NEW c \in Catalogue
  PROVE  /\ DOMAIN c.steps \subseteq Nat \ {0}
         /\ DOMAIN c.rescue \subseteq Nat \ {0}
         /\ \A i \in DOMAIN c.steps : c.steps[i].soft \in BOOLEAN
                                     /\ c.steps[i].needs \subseteq Flags
         /\ \A i \in DOMAIN c.rescue : c.rescue[i].soft \in BOOLEAN
                                     /\ c.rescue[i].needs \subseteq Flags
<1>1. c.steps \in Seq(Step) /\ c.rescue \in Seq(Step)
  BY ChainType
<1>2. \A i \in DOMAIN c.steps : i \in Nat \ {0} /\ c.steps[i] \in Step
  BY <1>1
<1>3. \A i \in DOMAIN c.rescue : i \in Nat \ {0} /\ c.rescue[i] \in Step
  BY <1>1
<1>4. QED
  BY <1>2, <1>3 DEF Step

-----------------------------------------------------------------------------
(* What a response does to the variables of the call. *)

(* Steps come to lie behind a call that passes them or skips them; the one *)
(* it has awaited is among them. *)
LEMMA BehindAfter ==
  ASSUME IInv, NEW p \in Caller, Response(p)
  PROVE  \A i \in Behind(p)' :
           /\ call[p].phase = "main" /\ i \in DOMAIN ChainOf(p).steps
           /\ call[p].at \in Behind(p)'
           /\ \/ i \in Behind(p) /\ i < call[p].at
              \/ /\ i = call[p].at
                 /\ Answer(p) \/ ChainOf(p).steps[i].soft
              \/ /\ call[p].at < i
                 /\ ~(ChainOf(p).steps[i].needs \subseteq FlagsAfter(p))
<1>1. /\ Busy(p) /\ Same(p)
      /\ Passes(p) \/ Fails(p)
  BY ResponseEffects
<1>2. /\ call[p].phase \in {"main", "rescue"} /\ ChainOf(p) \in Catalogue
      /\ call[p].at \in Nat
      /\ call[p].phase = "main" => Pending(p) = ChainOf(p).steps[call[p].at]
  BY <1>1, BusyPosition
<1>3. ChainOf(p)' = ChainOf(p)
  BY <1>1 DEF Same, ChainOf
<1>4. SUFFICES ASSUME NEW i \in Behind(p)'
               PROVE  /\ call[p].phase = "main" /\ i \in DOMAIN ChainOf(p).steps
                      /\ call[p].at \in Behind(p)'
                      /\ \/ i \in Behind(p) /\ i < call[p].at
                         \/ /\ i = call[p].at
                            /\ Answer(p) \/ ChainOf(p).steps[i].soft
                         \/ /\ call[p].at < i
                            /\ ~(ChainOf(p).steps[i].needs
                                   \subseteq FlagsAfter(p))
  OBVIOUS
<1>5. /\ i \in DOMAIN ChainOf(p).steps /\ i \in Nat
      /\ call'[p].phase \in {"main", "resolved"}
      /\ call'[p].phase = "main" => i < call'[p].at
  BY <1>2, <1>3, StepNumbers DEF Behind
<1>6. PICK m, so :
        /\ Goes(p, call[p].phase, call[p].at, m, so)
        /\ Answer(p) \/ Pending(p).soft \/ call[p].phase = "rescue"
  BY <1>1, <1>2, <1>5
     DEF Passes, Fails, Swallows, GivesUp, Enters, Goes, SettledBy, SentBy
<1>7. call[p].phase = "main"
  BY <1>2, <1>5, <1>6 DEF Goes, SettledBy, SentBy
<1>8. call[p].at < i => ~(ChainOf(p).steps[i].needs \subseteq FlagsAfter(p))
  <2>1. SUFFICES ASSUME call[p].at < i,
                        ChainOf(p).steps[i].needs \subseteq FlagsAfter(p)
                 PROVE  FALSE
    OBVIOUS
  <2>2. i \in StepsAfter(call[p].at, Part(p, "main"), FlagsAfter(p))
    BY <1>5, <2>1 DEF StepsAfter, Part
  <2>3. SentBy(p, "main", call[p].at, m, so)
    BY <1>6, <1>7, <2>2 DEF Goes
  <2>4. call'[p].at <= i /\ call'[p].at \in DOMAIN ChainOf(p).steps
        /\ call'[p].phase = "main"
    BY <2>2, <2>3 DEF SentBy, StepsAfter, Part
  <2>5. call'[p].at \in Nat
    BY <1>2, <2>4, StepNumbers
  <2>6. QED
    BY <1>5, <2>4, <2>5
<1>9. i < call[p].at => i \in Behind(p)
  BY <1>5, <1>7 DEF Behind
<1>10. call[p].at \in Behind(p)'
  <2>1. call[p].at \in DOMAIN ChainOf(p).steps
    BY <1>1, <1>7, BusyPosition
  <2>2. call'[p].phase = "main" => call[p].at < call'[p].at
    BY <1>6, <1>7 DEF Goes, SettledBy, SentBy, StepsAfter
  <2>3. QED
    BY <1>3, <1>5, <2>1, <2>2 DEF Behind
<1>11. QED
  BY <1>2, <1>5, <1>6, <1>7, <1>8, <1>9, <1>10

(* And they stay behind it as long as it neither fails nor returns. *)
LEMMA BehindStays ==
  ASSUME IInv, NEW p \in Caller, Response(p), NEW i \in Behind(p)',
         NEW j \in DOMAIN ChainOf(p).steps, j <= i
  PROVE  j \in Behind(p)'
<1>1. ChainOf(p)' = ChainOf(p) /\ Busy(p)
  BY ResponseEffects DEF Same, ChainOf
<1>2. /\ call'[p].phase \in {"main", "resolved"}
      /\ call'[p].phase = "main" => i < call'[p].at
      /\ i \in DOMAIN ChainOf(p).steps
  BY <1>1 DEF Behind
<1>3. i \in Nat /\ j \in Nat
  BY <1>1, <1>2, BusyPosition, StepNumbers
<1>4. call'[p].phase = "main" => call'[p].at \in Nat
  <2>1. TypeOK'
    BY NextKeeps DEF Next, IInv
  <2>2. call'[p].phase = "main" => call'[p] \in Call
    BY <2>1 DEF TypeOK, Idle
  <2>3. QED
    BY <2>2 DEF Call
<1>5. QED
  BY <1>1, <1>2, <1>3, <1>4 DEF Behind

(* A request is carried out on the object of the call, or nothing happens  *)
(* on the server; answered means carried out.                              *)
Performed(p) == Allowed(p) /\ \E g \in Grants(p) : Perform(p, g)

(* What carrying out a request changes, and for whom. *)
LEMMA ServerEffects ==
  ASSUME IInv, NEW p \in Caller, Response(p)
  PROVE  /\ undeletable' = undeletable /\ typeOf' = typeOf
         /\ sweeping' = sweeping /\ backlog' = backlog
         /\ Performed(p) \/ UNCHANGED <<exists, lockedBy, base, done>>
         /\ Answer(p) => Performed(p)
<1>1. /\ undeletable' = undeletable /\ typeOf' = typeOf
      /\ sweeping' = sweeping /\ backlog' = backlog
  BY DEF Response, Answer, Refuse, Lose, fixed, sweep
<1>2. Refuse(p) => UNCHANGED <<exists, lockedBy, base, done>>
  BY DEF Refuse, server
<1>3. Answer(p) \/ Lose(p) => Performed(p)
  BY DEF Answer, Lose, Performed
<1>4. QED
  BY <1>1, <1>2, <1>3 DEF Response

(* The record of what has been done grows by what is answered; a write     *)
(* makes the activation before it worthless.                               *)
LEMMA ResponseDone ==
  ASSUME IInv, NEW p \in Caller, Response(p)
  PROVE  /\ \A q \in Caller \ {p} : done'[q] = done[q]
         /\ done[p] \cap {"create", "write"} \subseteq done'[p]
         /\ Pending(p).req # "write" => done[p] \subseteq done'[p]
         /\ Answer(p) =>
              /\ Pending(p).req \in Deeds => Pending(p).req \in done'[p]
              /\ Pending(p).req = "verdict" => Target(p) \notin undeletable
<1>1. done \in [Caller -> SUBSET Deeds]
  BY DEF IInv, TypeOK
<1>2. Performed(p) =>
        /\ done' = IF Pending(p).req = "write"
                     THEN [done EXCEPT ![p] = (@ \ {"activate"}) \cup {"write"}]
                   ELSE IF Pending(p).req \in {"create", "activate"}
                     THEN [done EXCEPT ![p] = @ \cup {Pending(p).req}]
                   ELSE done
        /\ Pending(p).req = "verdict" => Target(p) \notin undeletable
  BY DEF Performed, Perform, Allowed
<1>3. CASE Performed(p)
  <2>1. \A q \in Caller \ {p} : done'[q] = done[q]
    BY <1>1, <1>2, <1>3
  <2>2. /\ Pending(p).req = "write" =>
             done'[p] = (done[p] \ {"activate"}) \cup {"write"}
        /\ Pending(p).req \in {"create", "activate"} =>
             done'[p] = done[p] \cup {Pending(p).req}
        /\ Pending(p).req \notin Deeds => done'[p] = done[p]
    BY <1>1, <1>2, <1>3 DEF Deeds
  <2>3. QED
    BY <1>2, <1>3, <2>1, <2>2 DEF Deeds
<1>4. QED
  BY <1>3, ServerEffects

(* The variable lockHandle changes with an answer to LOCK or UNLOCK alone. *)
LEMMA ResponseHeld ==
  ASSUME IInv, NEW p \in Caller, Response(p)
  PROVE  /\ \A q \in Caller \ {p} : held'[q] = held[q]
         /\ \/ /\ held'[p] = held[p]
               /\ Answer(p) => Pending(p).req \notin {"lock", "unlock"}
            \/ /\ Answer(p) /\ Pending(p).req = "lock"
               /\ held'[p] \in Handle /\ held'[p] # NoHandle
               /\ Fresh(held'[p])
               /\ lockedBy' = [lockedBy EXCEPT ![Target(p)] = held'[p]]
            \/ /\ Answer(p) /\ Pending(p).req = "unlock"
               /\ held'[p] = NoHandle
<1>1. held \in [Caller -> MaybeHandle]
  BY DEF IInv, TypeOK
<1>2. CASE Answer(p)
  <2>1. PICK g \in Grants(p) :
          /\ Perform(p, g)
          /\ held' = IF Pending(p).req = "lock" THEN [held EXCEPT ![p] = g]
                     ELSE IF Pending(p).req = "unlock"
                       THEN [held EXCEPT ![p] = NoHandle]
                     ELSE held
    BY <1>2 DEF Answer
  <2>2. CASE Pending(p).req = "lock"
    <3>1. g \in Handle /\ Fresh(g) /\ g # NoHandle
      BY <2>2, HandleAssumption DEF Grants
    <3>2. /\ held' = [held EXCEPT ![p] = g]
          /\ lockedBy' = [lockedBy EXCEPT ![Target(p)] = g]
      BY <2>1, <2>2 DEF Perform
    <3>3. held'[p] = g /\ \A q \in Caller \ {p} : held'[q] = held[q]
      BY <1>1, <3>2
    <3>4. QED
      BY <1>2, <2>2, <3>1, <3>2, <3>3
  <2>3. CASE Pending(p).req = "unlock"
    BY <1>1, <1>2, <2>1, <2>3
  <2>4. CASE Pending(p).req \notin {"lock", "unlock"}
    BY <1>1, <1>2, <2>1, <2>4
  <2>5. QED
    BY <2>2, <2>3, <2>4
<1>3. CASE ~Answer(p)
  <2>1. held' = held
    BY <1>3 DEF Response, Refuse, Lose, Fail
  <2>2. QED
    BY <1>3, <2>1
<1>4. QED
  BY <1>2, <1>3

(* objectCreated is set past a step that sets it. *)
LEMMA ResponseMade ==
  ASSUME IInv, NEW p \in Caller, Response(p)
  PROVE  /\ made \subseteq made' /\ made' \subseteq made \cup {p}
         /\ p \in made' => \/ p \in made
                           \/ /\ Pending(p).marks
                              /\ Answer(p) \/ Pending(p).soft
<1>1. Answer(p) => made' = IF Pending(p).marks THEN made \cup {p} ELSE made
  BY DEF Answer, Succeed
<1>2. Refuse(p) \/ Lose(p) =>
        made' = IF Pending(p).marks /\ Pending(p).soft
                  THEN made \cup {p} ELSE made
  BY DEF Refuse, Lose, Fail
<1>3. QED
  BY <1>1, <1>2 DEF Response

(* What the caller has read. *)
LEMMA ResponseBase ==
  ASSUME IInv, NEW p \in Caller, Response(p)
  PROVE  /\ \A q \in Caller \ {p} :
              \/ base'[q] = base[q]
              \/ /\ base[q] = "current" /\ base'[q] = "outdated"
                 /\ Target(q) = Target(p)
                 /\ Pending(p).req = "write" /\ Allowed(p)
         /\ \/ /\ base'[p] = base[p]
               /\ Pending(p).req = "write" => ~Answer(p)
            \/ base'[p] = "current" /\ Pending(p).req = "fetch"
            \/ base'[p] = "none" /\ Pending(p).req = "write"
<1>1. Performed(p) =>
        /\ Allowed(p)
        /\ base' = [q \in Caller |->
                   IF q = p /\ Pending(p).req = "fetch" THEN "current"
                   ELSE IF q = p /\ Pending(p).req = "write" THEN "none"
                   ELSE IF /\ Pending(p).req = "write"
                           /\ base[q] = "current"
                           /\ Target(q) = Target(p) THEN "outdated"
                   ELSE base[q]]
  BY DEF Performed, Perform
<1>2. QED
  BY <1>1, ServerEffects

(* A step that has been sent has found its conditions. *)
LEMMA ResponseSends ==
  ASSUME IInv, NEW p \in Caller, Response(p), Busy(p)'
  PROVE  /\ Pending(p)'.needs \subseteq FlagsAfter(p)
         /\ Pending(p)' \in Step
         /\ call'[p].phase = "main" => call[p].phase = "main"
<1>1. /\ Busy(p) /\ Same(p)
      /\ Passes(p) \/ Fails(p)
  BY ResponseEffects
<1>2. call[p].phase \in {"main", "rescue"} /\ ChainOf(p) \in Catalogue
      /\ call[p].phase # "idle"
  BY <1>1, BusyPosition DEF Busy
<1>3. PICK phase \in {"main", "rescue"} :
        /\ \E i, m, so : Goes(p, phase, i, m, so)
        /\ phase = "main" => call[p].phase = "main"
  BY <1>1, <1>2
     DEF Passes, Fails, Swallows, GivesUp, Enters, SettledBy, Busy
<1>4. PICK i, m, so : Goes(p, phase, i, m, so)
  BY <1>3
<1>5. SentBy(p, phase, i, m, so)
  BY <1>4 DEF Goes, SettledBy, Busy
<1>6. /\ call'[p].phase = phase
      /\ call'[p].at \in DOMAIN Part(p, phase)
      /\ Part(p, phase)[call'[p].at].needs \subseteq FlagsAfter(p)
  BY <1>5 DEF SentBy, StepsAfter
<1>7. Part(p, phase)' = Part(p, phase)
  BY <1>1 DEF Same, Part, ChainOf
<1>8. Part(p, phase) \in Seq(Step)
  BY <1>2, PartType DEF IInv
<1>9. Pending(p)' = Part(p, phase)[call'[p].at]
  BY <1>1, <1>6 DEF Pending, Part, ChainOf, Same
<1>10. QED
  BY <1>3, <1>6, <1>8, <1>9

(* The call itself goes on being a call of its method. *)
LEMMA CallStays ==
  ASSUME IInv, NEW p \in Caller, Response(p)
  PROVE  /\ Busy(p) /\ call[p] # Idle
         /\ ChainOf(p)' = ChainOf(p) /\ Target(p)' = Target(p)
         /\ call'[p].options = call[p].options
         /\ call'[p].phase \in Phases /\ call'[p] # Idle
<1>1. Busy(p) /\ Same(p) /\ (Passes(p) \/ Fails(p))
  BY ResponseEffects
<1>2. call[p].phase \in {"main", "rescue"} /\ call[p] # Idle
  BY <1>1 DEF Busy, Idle
<1>3. call'[p].phase \in Phases
  BY <1>1, <1>2 DEF Passes, Fails, Swallows, GivesUp, Enters, Goes, SettledBy,
                    SentBy, Phases
<1>4. call'[p] # Idle
  BY <1>3 DEF Phases, Idle
<1>5. QED
  BY <1>1, <1>2, <1>3, <1>4 DEF Same, ChainOf, Target

(* Everybody whose call has not changed is where he was. *)
LEMMA OthersStay ==
  ASSUME NEW q, call'[q] = call[q]
  PROVE  /\ ChainOf(q)' = ChainOf(q) /\ Target(q)' = Target(q)
         /\ Busy(q)' <=> Busy(q)
         /\ Settled(q)' <=> Settled(q)
         /\ Pending(q)' = Pending(q)
         /\ Behind(q)' = Behind(q)
BY DEF ChainOf, Target, Busy, Settled, Pending, Part, Behind

-----------------------------------------------------------------------------
(* Every step keeps the history. *)

(* A response keeps what the caller has been told and what it has passed.  *)
LEMMA ResponseConditions ==
  ASSUME IInv, History, NEW p \in Caller, Response(p)
  PROVE  (NewCalls /\ OptionsKnown /\ Conditions)'
<1>1. \A q \in Caller \ {p} : call'[q] = call[q]
  BY ResponseEffects DEF OnlyCallOf
<1>2. NewCalls'
  <2>1. SUFFICES ASSUME NEW q \in Caller, call'[q] = Idle
                 PROVE  base'[q] = "none" /\ done'[q] = {} /\ q \notin made'
    BY DEF NewCalls
  <2>2. q # p /\ call[q] = Idle
    BY <1>1, <2>1, CallStays
  <2>3. base[q] = "none" /\ done[q] = {} /\ q \notin made
    BY <2>2 DEF History, NewCalls
  <2>4. QED
    BY <2>2, <2>3, ResponseBase, ResponseDone, ResponseMade
<1>3. OptionsKnown'
  BY <1>1, CallStays, OthersStay DEF History, OptionsKnown
<1>4. Conditions'
  <2>1. SUFFICES ASSUME NEW q \in Caller, Busy(q)'
                 PROVE  /\ Pending(q)'.needs \cap Options \subseteq call'[q].options
                        /\ "created" \in Pending(q)'.needs => q \in made'
    BY DEF Conditions
  <2>2. CASE q = p
    <3>1. Pending(p)'.needs \subseteq FlagsAfter(p)
      BY <2>1, <2>2, ResponseSends
    <3>2. call'[p].options = call[p].options
      BY CallStays
    <3>3. call[p].options \subseteq Options
      BY CallStays, BusyPosition DEF Call
    <3>4. QED
      BY <2>2, <3>1, <3>2, <3>3 DEF FlagsAfter, FlagsOf, Options
  <2>3. CASE q # p
    BY <1>1, <2>1, <2>3, OthersStay, ResponseMade DEF History, Conditions
  <2>4. QED
    BY <2>2, <2>3
<1>5. QED
  BY <1>2, <1>3, <1>4

(* A response does what comes to lie behind. *)
LEMMA ResponseDeeds ==
  ASSUME IInv, History, NEW p \in Caller, Response(p)
  PROVE  DeedsDone'
<1>1. \A q \in Caller \ {p} : call'[q] = call[q]
  BY ResponseEffects DEF OnlyCallOf
<1>2. undeletable' = undeletable
  BY ServerEffects
<1>3. SUFFICES
        ASSUME NEW q \in Caller, NEW i \in Behind(q)',
               Sure(ChainOf(q)'.steps[i], call'[q].options)
        PROVE  LET s == ChainOf(q)'.steps[i]
               IN /\ s.req \in {"create", "write"} => s.req \in done'[q]
                  /\ s.req = "activate" =>
                       \/ "activate" \in done'[q]
                       \/ \E j \in Behind(q)' :
                            i < j /\ ChainOf(q)'.steps[j].req = "write"
                  /\ s.req = "verdict" => Target(q)' \notin undeletable'
  BY DEF DeedsDone
<1>4. CASE q # p
  <2>1. done'[q] = done[q]
    BY <1>4, ResponseDone
  <2>2. QED
    BY <1>1, <1>2, <1>3, <1>4, <2>1, OthersStay DEF History, DeedsDone
<1>5. CASE q = p
  <2> DEFINE s == ChainOf(p).steps[i]
  <2>1. /\ ChainOf(p)' = ChainOf(p) /\ Target(p)' = Target(p)
        /\ call'[p].options = call[p].options /\ Busy(p)
    BY CallStays
  <2>2. /\ call[p].phase = "main" /\ i \in DOMAIN ChainOf(p).steps
        /\ call[p].at \in Behind(p)'
        /\ \/ i \in Behind(p) /\ i < call[p].at
           \/ i = call[p].at /\ (Answer(p) \/ s.soft)
           \/ call[p].at < i /\ ~(s.needs \subseteq FlagsAfter(p))
    BY <1>3, <1>5, BehindAfter
  <2>3. Pending(p) = ChainOf(p).steps[call[p].at]
    BY <2>1, <2>2, BusyPosition
  <2>4. CASE i \in Behind(p) /\ i < call[p].at
    <3>1. /\ s.req \in {"create", "write"} => s.req \in done[p]
          /\ s.req = "activate" =>
               \/ "activate" \in done[p]
               \/ \E j \in Behind(p) :
                    i < j /\ ChainOf(p).steps[j].req = "write"
          /\ s.req = "verdict" => Target(p) \notin undeletable
      BY <1>3, <1>5, <2>1, <2>4 DEF History, DeedsDone
    <3>2. \A j \in Behind(p) : j \in Behind(p)'
      <4>1. TAKE j \in Behind(p)
      <4>2. j \in DOMAIN ChainOf(p).steps /\ j < call[p].at
        BY <2>2, <4>1 DEF Behind
      <4>3. j \in Nat /\ call[p].at \in Nat
        BY <2>1, <4>2, BusyPosition, StepNumbers
      <4>4. j <= call[p].at
        BY <4>2, <4>3
      <4>5. QED
        BY <2>2, <4>2, <4>4, BehindStays
    <3>3. QED
      BY <1>2, <1>5, <2>1, <2>2, <2>3, <2>4, <3>1, <3>2, ResponseDone
  <2>5. CASE i = call[p].at /\ Answer(p)
    BY <1>2, <1>5, <2>1, <2>3, <2>5, ResponseDone DEF Deeds
  <2>6. ~(i = call[p].at /\ s.soft)
    BY <1>3, <1>5, <2>1 DEF Sure
  <2>7. ~(call[p].at < i /\ ~(s.needs \subseteq FlagsAfter(p)))
    BY <1>3, <1>5, <2>1 DEF Sure, FlagsAfter, FlagsOf
  <2>8. QED
    BY <2>2, <2>4, <2>5, <2>6, <2>7
<1>6. QED
  BY <1>4, <1>5

(* A response to UNLOCK ends the lock; so does passing it without one. *)
LEMMA ResponseEndsLocks ==
  ASSUME IInv, History, NEW p \in Caller, Response(p)
  PROVE  LocksEnded'
<1>1. \A q \in Caller \ {p} : call'[q] = call[q] /\ held'[q] = held[q]
  BY ResponseEffects, ResponseHeld DEF OnlyCallOf
<1>2. SUFFICES
        ASSUME NEW q \in Caller, NEW i \in Behind(q)',
               EndsLock(ChainOf(q)'.steps[i]),
               \A j \in DOMAIN ChainOf(q)'.steps :
                 i < j => ChainOf(q)'.steps[j].req # "lock"
        PROVE  held'[q] = NoHandle
  BY DEF LocksEnded
<1>3. CASE q # p
  BY <1>1, <1>2, <1>3, OthersStay DEF History, LocksEnded
<1>4. CASE q = p
  <2> DEFINE s == ChainOf(p).steps[i]
  <2>1. ChainOf(p)' = ChainOf(p) /\ Busy(p)
    BY CallStays
  <2>2. /\ call[p].phase = "main" /\ i \in DOMAIN ChainOf(p).steps
        /\ \/ i \in Behind(p) /\ i < call[p].at
           \/ i = call[p].at /\ (Answer(p) \/ s.soft)
           \/ call[p].at < i /\ ~(s.needs \subseteq FlagsAfter(p))
    BY <1>2, <1>4, BehindAfter
  <2>3. /\ Pending(p) = ChainOf(p).steps[call[p].at]
        /\ call[p].at \in DOMAIN ChainOf(p).steps
    BY <2>1, <2>2, BusyPosition
  <2>4. s.req = "unlock" /\ ~s.soft /\ s.needs \subseteq {"held"}
    BY <1>2, <1>4, <2>1 DEF EndsLock, Sure
  <2>5. CASE i \in Behind(p) /\ i < call[p].at
    <3>1. held[p] = NoHandle
      BY <1>2, <1>4, <2>1, <2>5 DEF History, LocksEnded
    <3>2. Pending(p).req # "lock"
      BY <1>2, <1>4, <2>1, <2>3, <2>5
    <3>3. QED
      BY <1>4, <3>1, <3>2, ResponseHeld
  <2>6. CASE i = call[p].at /\ Answer(p)
    BY <1>4, <2>3, <2>4, <2>6, ResponseHeld
  <2>7. CASE call[p].at < i /\ ~(s.needs \subseteq FlagsAfter(p))
    BY <1>4, <2>4, <2>7 DEF FlagsAfter, FlagsOf
  <2>8. QED
    BY <2>2, <2>4, <2>5, <2>6, <2>7
<1>5. QED
  BY <1>3, <1>4

(* A handle the server grants is known to nobody else. *)
LEMMA ResponseOwned ==
  ASSUME IInv, History, NEW p \in Caller, Response(p)
  PROVE  HandlesOwned'
<1>1. \A q \in Caller \ {p} : Known(q)' = Known(q)
  BY ResponseEffects, ResponseHeld DEF OnlyCallOf, Known
<1>2. Known(p)' \subseteq Known(p) \cup {held'[p]}
  BY ResponseEffects DEF OnlyCallOf, Known
<1>3. \/ held'[p] \in Known(p) \cup {NoHandle}
      \/ \A q \in Caller : held'[p] \notin Known(q)
  BY ResponseHeld DEF Fresh, Known
<1>4. HandlesOwned
  BY DEF History
<1>5. QED
  BY <1>1, <1>2, <1>3, <1>4 DEF HandlesOwned

(* Every response keeps the history of the calls. *)
LEMMA ResponseHistory ==
  ASSUME IInv, History, NEW p \in Caller, Response(p)
  PROVE  History'
BY ResponseConditions, ResponseDeeds, ResponseEndsLocks, ResponseOwned
   DEF History

(* A call begins with the first step, which has no conditions, and with a  *)
(* handle its caller has. *)
LEMMA StartEffects ==
  ASSUME IInv, NEW p \in Caller, Start(p)
  PROVE  /\ call[p] = Idle /\ Free
         /\ \A q \in Caller \ {p} : call'[q] = call[q] /\ held'[q] = held[q]
         /\ call'[p] # Idle /\ call'[p].phase = "main" /\ call'[p].at = 1
         /\ ChainOf(p)' \in Catalogue /\ Target(p)' \in Obj
         /\ call'[p].options \subseteq OptionsOf(ChainOf(p)')
         /\ held'[p] = IF ChainOf(p)'.uses
                         THEN kept[p][Target(p)'] ELSE NoHandle
         /\ open' = IF ChainOf(p)'.window THEN open \cup {p} ELSE open
         /\ mode' = Switch(mode, ChainOf(p)'.steps[1].before)
         /\ Busy(p)' /\ ~Settled(p)' /\ Behind(p)' = {}
         /\ Pending(p)' = ChainOf(p)'.steps[1] /\ Pending(p)'.needs = {}
         /\ UNCHANGED <<exists, lockedBy, undeletable, made, base, done, kept,
                        sweeping, backlog>>
<1>1. PICK c \in Catalogue, o \in Obj, opts \in SUBSET Options :
        /\ call[p] = Idle /\ Free
        /\ opts \subseteq OptionsOf(c)
        /\ call' = [call EXCEPT ![p] =
                      [chain |-> c, object |-> o, options |-> opts,
                       phase |-> "main", at |-> 1]]
        /\ held' = [held EXCEPT ![p] = IF c.uses THEN kept[p][o] ELSE NoHandle]
        /\ open' = IF c.window THEN open \cup {p} ELSE open
        /\ mode' = Switch(mode, c.steps[1].before)
        /\ UNCHANGED <<exists, lockedBy, undeletable, made, base, done, kept,
                       sweeping, backlog>>
  BY DEF Start, server, fixed, sweep, OptionsOf
<1>2. call'[p] = [chain |-> c, object |-> o, options |-> opts,
                  phase |-> "main", at |-> 1]
  BY <1>1 DEF IInv, TypeOK
<1>3. held'[p] = IF c.uses THEN kept[p][o] ELSE NoHandle
  BY <1>1 DEF IInv, TypeOK
<1>4. \A q \in Caller \ {p} : call'[q] = call[q] /\ held'[q] = held[q]
  BY <1>1 DEF IInv, TypeOK
<1>5. ChainOf(p)' = c /\ Target(p)' = o
  BY <1>2 DEF ChainOf, Target
<1>6. /\ call'[p].phase = "main" /\ call'[p].at = 1
      /\ call'[p].options = opts /\ call'[p] # Idle
  BY <1>2 DEF Idle
<1>7. Busy(p)' /\ ~Settled(p)'
  BY <1>6 DEF Busy, Settled
<1>8. Pending(p)' = c.steps[1] /\ c.steps[1].needs = {}
  BY <1>5, <1>6, CatalogueAssumption DEF Pending, Part, WellFormed
<1>9. Behind(p)' = {}
  <2>1. SUFFICES ASSUME NEW i \in Behind(p)' PROVE FALSE
    OBVIOUS
  <2>2. i \in DOMAIN c.steps /\ i < 1
    BY <1>5, <1>6 DEF Behind
  <2>3. QED
    BY <2>2, StepNumbers
<1>10. QED
  BY <1>1, <1>3, <1>4, <1>5, <1>6, <1>7, <1>8, <1>9

(* A returned call leaves no variables behind. *)
LEMMA ReturnEffects ==
  ASSUME IInv, NEW p \in Caller, Return(p)
  PROVE  /\ Settled(p) /\ call'[p] = Idle
         /\ ~Busy(p)' /\ ~Settled(p)' /\ Behind(p)' = {}
         /\ held'[p] = NoHandle /\ base'[p] = "none" /\ done'[p] = {}
         /\ p \notin made' /\ made' \subseteq made
         /\ \A q \in Caller \ {p} :
              /\ call'[q] = call[q] /\ held'[q] = held[q]
              /\ base'[q] = base[q] /\ done'[q] = done[q]
              /\ q \in made' <=> q \in made
         /\ UNCHANGED <<mode, exists, lockedBy, undeletable, open, kept,
                        sweeping, backlog>>
<1>1. /\ Settled(p)
      /\ call' = [call EXCEPT ![p] = Idle]
      /\ held' = [held EXCEPT ![p] = NoHandle]
      /\ made' = made \ {p}
      /\ base' = [base EXCEPT ![p] = "none"]
      /\ done' = [done EXCEPT ![p] = {}]
      /\ UNCHANGED <<mode, exists, lockedBy, undeletable, open, kept,
                     sweeping, backlog>>
  BY DEF Return, session, server, fixed, sweep
<1>2. call'[p] = Idle
  BY <1>1 DEF IInv, TypeOK
<1>3. ~Busy(p)' /\ ~Settled(p)' /\ Behind(p)' = {}
  BY <1>2 DEF Busy, Settled, Behind, Idle
<1>4. QED
  BY <1>1, <1>2, <1>3 DEF IInv, TypeOK

(* What is neither a caller's nor the fate of an object does not matter.   *)
LEMMA HistoryFrame ==
  ASSUME History, UNCHANGED <<call, held, made, base, done, kept, undeletable>>
  PROVE  History'
<1>1. \A q \in Caller : call'[q] = call[q]
  OBVIOUS
<1>2. (NewCalls /\ OptionsKnown)'
  BY <1>1, OthersStay DEF History, NewCalls, OptionsKnown
<1>3. Conditions'
  BY <1>1, OthersStay DEF History, Conditions
<1>4. DeedsDone'
  BY <1>1, OthersStay DEF History, DeedsDone
<1>5. LocksEnded'
  BY <1>1, OthersStay DEF History, LocksEnded
<1>6. HandlesOwned'
  BY DEF History, HandlesOwned, Known
<1>7. QED
  BY <1>2, <1>3, <1>4, <1>5, <1>6 DEF History

(* A new call has nothing behind it and no conditions to meet. *)
LEMMA StartHistory ==
  ASSUME IInv, History, NEW p \in Caller, Start(p)
  PROVE  History'
<1>1. /\ call[p] = Idle /\ call'[p] # Idle /\ Behind(p)' = {}
      /\ \A q \in Caller \ {p} : call'[q] = call[q] /\ held'[q] = held[q]
      /\ Pending(p)'.needs = {} /\ Target(p)' \in Obj
      /\ call'[p].options \subseteq OptionsOf(ChainOf(p)')
      /\ UNCHANGED <<undeletable, made, base, done, kept>>
      /\ held'[p] = IF ChainOf(p)'.uses THEN kept[p][Target(p)'] ELSE NoHandle
  BY StartEffects
<1>2. (NewCalls /\ OptionsKnown)'
  BY <1>1, OthersStay DEF History, NewCalls, OptionsKnown
<1>3. Conditions'
  BY <1>1, OthersStay DEF History, Conditions
<1>4. DeedsDone'
  BY <1>1, OthersStay DEF History, DeedsDone
<1>5. LocksEnded'
  BY <1>1, OthersStay DEF History, LocksEnded
<1>6. HandlesOwned'
  <2>1. \A q \in Caller : Known(q)' \subseteq Known(q) \cup {NoHandle}
    BY <1>1 DEF Known
  <2>2. QED
    BY <2>1 DEF History, HandlesOwned
<1>7. QED
  BY <1>2, <1>3, <1>4, <1>5, <1>6 DEF History

(* Nor has a caller whose call has returned. *)
LEMMA ReturnHistory ==
  ASSUME IInv, History, NEW p \in Caller, Return(p)
  PROVE  History'
<1>1. /\ call'[p] = Idle /\ ~Busy(p)' /\ Behind(p)' = {}
      /\ held'[p] = NoHandle /\ base'[p] = "none" /\ done'[p] = {}
      /\ p \notin made' /\ UNCHANGED <<undeletable, kept>>
      /\ \A q \in Caller \ {p} :
           /\ call'[q] = call[q] /\ held'[q] = held[q]
           /\ base'[q] = base[q] /\ done'[q] = done[q]
           /\ q \in made' <=> q \in made
  BY ReturnEffects
<1>2. (NewCalls /\ OptionsKnown)'
  BY <1>1, OthersStay DEF History, NewCalls, OptionsKnown
<1>3. Conditions'
  BY <1>1, OthersStay DEF History, Conditions
<1>4. DeedsDone'
  BY <1>1, OthersStay DEF History, DeedsDone
<1>5. LocksEnded'
  BY <1>1, OthersStay DEF History, LocksEnded
<1>6. HandlesOwned'
  <2>1. \A q \in Caller : Known(q)' \subseteq Known(q) \cup {NoHandle}
    BY <1>1 DEF Known
  <2>2. QED
    BY <2>1 DEF History, HandlesOwned
<1>7. QED
  BY <1>2, <1>3, <1>4, <1>5, <1>6 DEF History

(* unlockAll() is none of the callers' business. *)
LEMMA SweepEffects ==
  ASSUME Sweep
  PROVE  UNCHANGED <<call, held, made, open, base, done, kept, undeletable,
                     typeOf, exists>>
BY DEF Sweep, SweepStart, SweepUnlocked, SweepLost, SweepRefused, Strike,
       ReleaseBacklog, locals, fixed, server

(* At the beginning nothing has happened. *)
LEMMA InitHistory == Init => History
<1> SUFFICES ASSUME Init PROVE History
  OBVIOUS
<1>1. \A p \in Caller :
        /\ call[p] = Idle /\ base[p] = "none" /\ done[p] = {} /\ p \notin made
        /\ held[p] = NoHandle /\ kept[p] = [o \in Obj |-> NoHandle]
  BY DEF Init
<1>2. \A p \in Caller : ~Busy(p) /\ Behind(p) = {}
  BY <1>1 DEF Busy, Behind, Idle
<1>3. \A p \in Caller : Known(p) \subseteq {NoHandle}
  BY <1>1 DEF Known
<1>4. QED
  BY <1>1, <1>2, <1>3
     DEF History, NewCalls, OptionsKnown, Conditions, DeedsDone, LocksEnded,
         HandlesOwned

(* The history is kept whatever happens. *)
LEMMA HistoryKept == IInv /\ History /\ [Next]_vars => History'
<1> SUFFICES ASSUME IInv, History, [Next]_vars PROVE History'
  OBVIOUS
<1>1. ASSUME NEW p \in Caller, Start(p) \/ Response(p) \/ Return(p)
      PROVE  History'
  BY <1>1, StartHistory, ResponseHistory, ReturnHistory
<1>2. CASE Sweep
  BY <1>2, SweepEffects, HistoryFrame
<1>3. CASE UNCHANGED vars
  BY <1>3, HistoryFrame DEF vars, locals, fixed
<1>4. QED
  BY <1>1, <1>2, <1>3 DEF Next

(* And so it holds in every reachable state. *)
LEMMA HistoryHolds == Spec => []History
BY InitHistory, HistoryKept, Invariance, PTL DEF Spec

-----------------------------------------------------------------------------
(* Updates deliver. *)

(* A call that has resolved has its whole chain behind it. *)
LEMMA ResolvedBehind ==
  ASSUME NEW p, Settled(p), call[p].phase = "resolved"
  PROVE  Behind(p) = DOMAIN ChainOf(p).steps
BY DEF Behind

(* Whatever failed on the way and whoever else used the connection, an     *)
(* update() that resolves has given back its lock, written the source or   *)
(* document it was given and activated the last write if asked to          *)
(* (Adt*.ts, update()). *)
THEOREM UpdatesDeliver ==
  ASSUME \A c \in Catalogue : c.kind = "update" => Delivers(c)
  PROVE  Spec => []UpdateDelivered
<1>1. IInv /\ History => UpdateDelivered
  <2>1. SUFFICES ASSUME IInv, History, NEW p \in Caller, Settled(p),
                        call[p].phase = "resolved", ChainOf(p).kind = "update"
                 PROVE  /\ held[p] = NoHandle
                        /\ "body" \in call[p].options => "write" \in done[p]
                        /\ "activate" \in call[p].options =>
                             "activate" \in done[p]
    BY DEF UpdateDelivered
  <2> DEFINE c == ChainOf(p)
  <2>2. call[p].phase # "idle" /\ call[p] # Idle
    BY <2>1 DEF Idle
  <2>3. c \in Catalogue /\ Delivers(c) /\ Behind(p) = DOMAIN c.steps
    BY <2>1, <2>2, CallType, ResolvedBehind DEF IInv
  <2>4. call[p].options \subseteq OptionsOf(c)
    BY <2>1, <2>2 DEF History, OptionsKnown
  <2>5. held[p] = NoHandle
    <3>1. PICK i \in DOMAIN c.steps :
            /\ EndsLock(c.steps[i])
            /\ \A j \in DOMAIN c.steps : i < j => c.steps[j].req # "lock"
      BY <2>3 DEF Delivers
    <3>2. QED
      BY <2>1, <2>3, <3>1 DEF History, LocksEnded
  <2>6. ASSUME "body" \in call[p].options PROVE "write" \in done[p]
    <3>1. PICK i \in DOMAIN c.steps :
            c.steps[i].req = "write" /\ Sure(c.steps[i], {"body"})
      BY <2>3, <2>4, <2>6 DEF Delivers
    <3>2. Sure(c.steps[i], call[p].options)
      BY <2>6, <3>1 DEF Sure
    <3>3. QED
      BY <2>1, <2>3, <3>1, <3>2 DEF History, DeedsDone
  <2>7. ASSUME "activate" \in call[p].options PROVE "activate" \in done[p]
    <3>1. PICK i \in DOMAIN c.steps :
            /\ c.steps[i].req = "activate" /\ Sure(c.steps[i], {"activate"})
            /\ \A j \in DOMAIN c.steps : i < j => c.steps[j].req # "write"
      BY <2>3, <2>4, <2>7 DEF Delivers
    <3>2. Sure(c.steps[i], call[p].options)
      BY <2>7, <3>1 DEF Sure
    <3>3. QED
      BY <2>1, <2>3, <3>1, <3>2 DEF History, DeedsDone
  <2>8. QED
    BY <2>5, <2>6, <2>7
<1>2. QED
  BY <1>1, Invariance, HistoryHolds, PTL

-----------------------------------------------------------------------------
(* No update is lost. *)

(* In the try block, what was behind stays behind, and so does what has    *)
(* been awaited. *)
LEMMA BehindGrows ==
  ASSUME IInv, NEW p \in Caller, Response(p), call'[p].phase = "main"
  PROVE  /\ call[p].phase = "main"
         /\ call[p].at < call'[p].at /\ call'[p].at \in Nat
         /\ call'[p].at \in DOMAIN ChainOf(p).steps
         /\ call[p].at \in Behind(p)'
         /\ Behind(p) \subseteq Behind(p)'
         /\ \A k \in DOMAIN ChainOf(p).steps :
              call[p].at < k /\ k < call'[p].at
              => ~(ChainOf(p).steps[k].needs \subseteq FlagsAfter(p))
<1>1. /\ Busy(p) /\ Same(p)
      /\ Passes(p) \/ Fails(p)
  BY ResponseEffects
<1>2. ChainOf(p)' = ChainOf(p)
  BY <1>1 DEF Same, ChainOf
<1>3. /\ call[p].phase = "main"
      /\ \E m, so : SentBy(p, "main", call[p].at, m, so)
  BY <1>1 DEF Passes, Fails, Swallows, GivesUp, Enters, Goes, SettledBy,
              SentBy, Busy
<1>4. /\ call[p].at < call'[p].at
      /\ call'[p].at \in DOMAIN ChainOf(p).steps
      /\ \A k \in StepsAfter(call[p].at, ChainOf(p).steps, FlagsAfter(p)) :
           call'[p].at <= k
  BY <1>3 DEF SentBy, StepsAfter, Part
<1>5. /\ call[p].at \in DOMAIN ChainOf(p).steps /\ call[p].at \in Nat
      /\ ChainOf(p) \in Catalogue
  BY <1>1, <1>3, BusyPosition
<1>6. call[p].at \in Behind(p)'
  BY <1>2, <1>4, <1>5 DEF Behind
<1>7. ASSUME NEW i \in Behind(p) PROVE i \in Behind(p)'
  <2>1. i \in DOMAIN ChainOf(p).steps /\ i < call[p].at
    BY <1>3, <1>7 DEF Behind
  <2>2. i <= call[p].at
    BY <1>5, <2>1, StepNumbers
  <2>3. QED
    BY <1>6, <2>1, <2>2, BehindStays
<1>8. ASSUME NEW k \in DOMAIN ChainOf(p).steps,
             call[p].at < k, k < call'[p].at,
             ChainOf(p).steps[k].needs \subseteq FlagsAfter(p)
      PROVE  FALSE
  <2>1. call'[p].at <= k
    BY <1>4, <1>8 DEF StepsAfter
  <2>2. k \in Nat /\ call'[p].at \in Nat
    BY <1>4, <1>5, StepNumbers
  <2>3. QED
    BY <1>8, <2>1, <2>2
<1>9. call'[p].at \in Nat
  BY <1>4, <1>5, StepNumbers
<1>10. QED
  BY <1>3, <1>4, <1>6, <1>7, <1>8, <1>9

(* A lock is only ever replaced by none or by a new one. *)
LEMMA LocksChange ==
  ASSUME IInv, NEW p \in Caller, Response(p), NEW o \in Obj
  PROVE  \/ lockedBy'[o] = lockedBy[o]
         \/ lockedBy'[o] = NoHandle
         \/ Fresh(lockedBy'[o])
<1>1. lockedBy \in [Obj -> MaybeHandle]
  BY DEF IInv, TypeOK
<1>2. ASSUME NEW g \in Grants(p), Perform(p, g)
      PROVE  \/ lockedBy'[o] = lockedBy[o] \/ lockedBy'[o] = NoHandle
             \/ Fresh(lockedBy'[o])
  <2>1. lockedBy' = IF Pending(p).req = "lock"
                      THEN [lockedBy EXCEPT ![Target(p)] = g]
                    ELSE IF Releases(p)
                      THEN [lockedBy EXCEPT ![Target(p)] = NoHandle]
                    ELSE lockedBy
    BY <1>2 DEF Perform
  <2>2. Pending(p).req = "lock" => Fresh(g)
    BY DEF Grants
  <2>3. QED
    BY <1>1, <2>1, <2>2
<1>3. QED
  BY <1>2, ServerEffects DEF Performed

(* A read is outdated by a write under a lock that is not the reader's,    *)
(* and a method that reads under its lock takes no other. *)
LEMMA ResponseReadLast ==
  ASSUME \A c \in Catalogue : LocksBeforeReading(c),
         IInv, History, ReadLast, NEW p \in Caller, Response(p)
  PROVE  ReadLast'
<1>1. \A q \in Caller \ {p} : call'[q] = call[q] /\ held'[q] = held[q]
  BY ResponseEffects, ResponseHeld DEF OnlyCallOf
<1>2. SUFFICES ASSUME NEW q \in Caller, Busy(q)', base'[q] # "none"
               PROVE  /\ call'[q].phase = "main" =>
                           \E i \in Behind(q)' :
                             ChainOf(q)'.steps[i].req = "fetch"
                      /\ base'[q] = "outdated" =>
                           \/ held'[q] = NoHandle
                           \/ lockedBy'[Target(q)'] # held'[q]
  BY DEF ReadLast
<1>3. CASE q # p
  <2>1. /\ Busy(q) /\ ChainOf(q)' = ChainOf(q) /\ Target(q)' = Target(q)
        /\ Behind(q)' = Behind(q) /\ call'[q] = call[q] /\ held'[q] = held[q]
    BY <1>1, <1>2, <1>3, OthersStay
  <2>2. base[q] # "none"
    BY <1>2, <1>3, ResponseBase
  <2>3. /\ call[q].phase = "main" =>
             \E i \in Behind(q) : ChainOf(q).steps[i].req = "fetch"
        /\ base[q] = "outdated" =>
             held[q] = NoHandle \/ lockedBy[Target(q)] # held[q]
    BY <2>1, <2>2 DEF ReadLast
  <2>4. CASE base'[q] = base[q]
    <3>1. Target(q) \in Obj
      BY <2>1, BusyPosition
    <3>2. Fresh(lockedBy'[Target(q)]) => lockedBy'[Target(q)] # held[q]
      BY DEF Fresh
    <3>3. QED
      BY <2>1, <2>3, <2>4, <3>1, <3>2, LocksChange
  <2>5. CASE base'[q] # base[q]
    <3>1. /\ Target(q) = Target(p) /\ Pending(p).req = "write" /\ Allowed(p)
      BY <1>3, <2>5, ResponseBase
    <3>2. lockedBy[Target(q)] = held[p] /\ held[p] # NoHandle
      BY <3>1 DEF Allowed
    <3>3. held[q] # held[p]
      BY <1>3, <3>2 DEF History, HandlesOwned, Known
    <3>4. lockedBy' = lockedBy
      BY <3>1, ServerEffects DEF Performed, Perform, Releases
    <3>5. QED
      BY <2>1, <2>3, <3>2, <3>3, <3>4
  <2>6. QED
    BY <2>4, <2>5
<1>4. CASE q = p
  <2>1. /\ Busy(p) /\ ChainOf(p)' = ChainOf(p) /\ Target(p)' = Target(p)
    BY CallStays
  <2>2. ChainOf(p) \in Catalogue /\ Target(p) \in Obj
    BY <2>1, BusyPosition
  <2>3. ASSUME call'[p].phase = "main"
        PROVE  \E i \in Behind(p)' : ChainOf(p).steps[i].req = "fetch"
    <3>1. /\ call[p].phase = "main" /\ call[p].at \in Behind(p)'
          /\ Behind(p) \subseteq Behind(p)'
      BY <2>3, BehindGrows
    <3>2. Pending(p) = ChainOf(p).steps[call[p].at]
      BY <2>1, <3>1, BusyPosition
    <3>3. CASE Pending(p).req = "fetch"
      BY <3>1, <3>2, <3>3
    <3>4. CASE Pending(p).req # "fetch"
      <4>1. base[p] # "none"
        BY <1>2, <1>4, <3>4, ResponseBase
      <4>2. QED
        BY <2>1, <3>1, <4>1 DEF ReadLast
    <3>5. QED
      BY <3>3, <3>4
  <2>4. ASSUME base'[p] = "outdated", held'[p] # NoHandle
        PROVE  lockedBy'[Target(p)] # held'[p]
    <3>1. base[p] = "outdated"
      BY <2>4, ResponseBase
    <3>2. /\ call[p].phase = "main" =>
               \E i \in Behind(p) : ChainOf(p).steps[i].req = "fetch"
          /\ held[p] = NoHandle \/ lockedBy[Target(p)] # held[p]
      BY <2>1, <3>1 DEF ReadLast
    <3>3. Pending(p).req # "lock"
      <4>1. SUFFICES ASSUME Pending(p).req = "lock" PROVE FALSE
        OBVIOUS
      <4>2. call[p].phase = "main"
        BY <2>1, <4>1, BusyPosition, ClosingType DEF IInv
      <4>3. PICK i \in Behind(p) : ChainOf(p).steps[i].req = "fetch"
        BY <3>2, <4>2
      <4>4. i \in DOMAIN ChainOf(p).steps /\ i < call[p].at
        BY <4>2 DEF Behind
      <4>5. call[p].at \in DOMAIN ChainOf(p).steps
            /\ ChainOf(p).steps[call[p].at].req = "lock"
        BY <2>1, <4>1, <4>2, BusyPosition
      <4>6. QED
        BY <2>2, <4>3, <4>4, <4>5 DEF LocksBeforeReading
    <3>4. held'[p] = held[p]
      BY <2>4, <3>3, ResponseHeld
    <3>5. Fresh(lockedBy'[Target(p)]) => lockedBy'[Target(p)] # held[p]
      BY DEF Fresh
    <3>6. QED
      BY <2>2, <2>4, <3>2, <3>4, <3>5, LocksChange
  <2>5. QED
    BY <1>4, <2>1, <2>3, <2>4
<1>5. QED
  BY <1>3, <1>4

(* What has been read has been read under the last lock, in every          *)
(* reachable state. *)
LEMMA ReadLastHolds ==
  ASSUME \A c \in Catalogue : LocksBeforeReading(c)
  PROVE  Spec => []ReadLast
<1>1. Init => ReadLast
  BY DEF Init, ReadLast
<1>2. IInv /\ History /\ ReadLast /\ [Next]_vars => ReadLast'
  <2> SUFFICES ASSUME IInv, History, ReadLast, [Next]_vars PROVE ReadLast'
    OBVIOUS
  <2>1. ASSUME NEW p \in Caller, Start(p) PROVE ReadLast'
    <3>1. /\ call[p] = Idle
          /\ \A q \in Caller \ {p} : call'[q] = call[q] /\ held'[q] = held[q]
          /\ UNCHANGED <<lockedBy, base>>
      BY <2>1, StartEffects
    <3>2. base'[p] = "none"
      BY <3>1 DEF History, NewCalls
    <3>3. QED
      BY <3>1, <3>2, OthersStay DEF ReadLast
  <2>2. ASSUME NEW p \in Caller, Return(p) PROVE ReadLast'
    BY <2>2, ReturnEffects, OthersStay DEF ReadLast
  <2>3. ASSUME NEW p \in Caller, Response(p) PROVE ReadLast'
    BY <2>3, ResponseReadLast
  <2>4. CASE Sweep
    <3>1. UNCHANGED <<call, held, base>>
      BY <2>4, SweepEffects
    <3>2. \A o \in Obj : lockedBy'[o] = lockedBy[o] \/ lockedBy'[o] = NoHandle
      BY <2>4 DEF Sweep, SweepStart, SweepUnlocked, SweepLost, SweepRefused,
                  Strike, ReleaseBacklog, server, IInv, TypeOK
    <3>3. \A p \in Caller : Busy(p) => Target(p) \in Obj
      BY BusyPosition
    <3>4. QED
      BY <3>1, <3>2, <3>3, OthersStay DEF ReadLast
  <2>5. CASE UNCHANGED vars
    <3>1. UNCHANGED <<call, held, base, lockedBy>>
      BY <2>5 DEF vars, locals, server
    <3>2. QED
      BY <3>1, OthersStay DEF ReadLast
  <2>6. QED
    BY <2>1, <2>2, <2>3, <2>4, <2>5 DEF Next
<1>3. QED
  BY <1>1, <1>2, Invariance, HistoryHolds, PTL DEF Spec

(* A method that reads a document, patches it and writes it back never     *)
(* gets to write one that another caller has overwritten since, if it      *)
(* reads under the lock it writes with (the XML handlers' update()). *)
THEOREM UpdatesNotLost ==
  ASSUME \A c \in Catalogue : LocksBeforeReading(c)
  PROVE  Spec => []NoLostUpdate
<1>1. ReadLast => NoLostUpdate
  BY DEF ReadLast, NoLostUpdate, Awaits, Allowed
<1>2. QED
  BY <1>1, ReadLastHolds, PTL

-----------------------------------------------------------------------------
(* Cleaning up deletes only what the call has created. *)

(* objectCreated is set past the answer to the creation. *)
LEMMA ResponseMadeCreated ==
  ASSUME \A c \in Catalogue : c.kind = "create" => CleansUpOwn(c),
         IInv, History, MadeCreated, NEW p \in Caller, Response(p)
  PROVE  MadeCreated'
<1>1. \A q \in Caller \ {p} : call'[q] = call[q] /\ done'[q] = done[q]
  BY ResponseEffects, ResponseDone DEF OnlyCallOf
<1>2. ASSUME NEW q \in Caller \ {p}, q \in made', ChainOf(q)'.kind = "create"
      PROVE  "create" \in done'[q]
  BY <1>1, <1>2, OthersStay, ResponseMade DEF MadeCreated
<1>3. ASSUME p \in made', ChainOf(p)'.kind = "create"
      PROVE  "create" \in done'[p]
  <2>1. Busy(p) /\ ChainOf(p)' = ChainOf(p)
    BY CallStays
  <2>2. /\ ChainOf(p) \in Catalogue /\ CleansUpOwn(ChainOf(p))
        /\ call[p].phase \in {"main", "rescue"}
    BY <1>3, <2>1, BusyPosition
  <2>3. CASE p \in made
    BY <1>3, <2>1, <2>3, ResponseDone DEF MadeCreated
  <2>4. CASE p \notin made
    <3>1. Pending(p).marks /\ (Answer(p) \/ Pending(p).soft)
      BY <1>3, <2>4, ResponseMade
    <3>2. /\ call[p].phase = "main"
          /\ call[p].at \in DOMAIN ChainOf(p).steps
          /\ Pending(p) = ChainOf(p).steps[call[p].at]
      BY <2>1, <2>2, <3>1, BusyPosition DEF CleansUpOwn
    <3>3. PICK j \in DOMAIN ChainOf(p).steps :
            /\ j <= call[p].at
            /\ ChainOf(p).steps[j].req = "create"
            /\ Sure(ChainOf(p).steps[j], {})
      BY <2>2, <3>1, <3>2 DEF CleansUpOwn
    <3>4. CASE j = call[p].at
      BY <3>1, <3>2, <3>3, <3>4, ResponseDone DEF Sure, Deeds
    <3>5. CASE j # call[p].at
      <4>1. j \in Nat /\ call[p].at \in Nat
        BY <2>2, <3>2, StepNumbers
      <4>2. j < call[p].at
        BY <3>3, <3>5, <4>1
      <4>3. j \in Behind(p)
        BY <3>2, <4>2 DEF Behind
      <4>4. Sure(ChainOf(p).steps[j], call[p].options)
        BY <3>3 DEF Sure
      <4>5. "create" \in done[p]
        BY <3>3, <4>3, <4>4 DEF History, DeedsDone
      <4>6. QED
        BY <4>5, ResponseDone
    <3>6. QED
      BY <3>4, <3>5
  <2>5. QED
    BY <2>3, <2>4
<1>4. QED
  BY <1>2, <1>3 DEF MadeCreated

(* deleteOnFailure of a create() only goes for what this very call has     *)
(* created and when it was asked for: never for an object that was there   *)
(* before and made the creation fail (Adt*.ts, create()). *)
THEOREM CleaningUpOwn ==
  ASSUME \A c \in Catalogue : c.kind = "create" => CleansUpOwn(c)
  PROVE  Spec => []CleanupOnlyOwn
<1>1. Init => MadeCreated
  BY DEF Init, MadeCreated
<1>2. IInv /\ History /\ MadeCreated /\ [Next]_vars => MadeCreated'
  <2> SUFFICES ASSUME IInv, History, MadeCreated, [Next]_vars
               PROVE  MadeCreated'
    OBVIOUS
  <2>1. ASSUME NEW p \in Caller, Start(p) PROVE MadeCreated'
    <3>1. /\ call[p] = Idle /\ UNCHANGED <<made, done>>
          /\ \A q \in Caller \ {p} : call'[q] = call[q]
      BY <2>1, StartEffects
    <3>2. p \notin made'
      BY <3>1 DEF History, NewCalls
    <3>3. QED
      BY <3>1, <3>2, OthersStay DEF MadeCreated
  <2>2. ASSUME NEW p \in Caller, Return(p) PROVE MadeCreated'
    BY <2>2, ReturnEffects, OthersStay DEF MadeCreated
  <2>3. ASSUME NEW p \in Caller, Response(p) PROVE MadeCreated'
    BY <2>3, ResponseMadeCreated
  <2>4. CASE Sweep
    BY <2>4, SweepEffects, OthersStay DEF MadeCreated
  <2>5. CASE UNCHANGED vars
    <3>1. UNCHANGED <<call, made, done>>
      BY <2>5 DEF vars, locals
    <3>2. QED
      BY <3>1, OthersStay DEF MadeCreated
  <2>6. QED
    BY <2>1, <2>2, <2>3, <2>4, <2>5 DEF Next
<1>3. IInv /\ History /\ MadeCreated => CleanupOnlyOwn
  <2>1. SUFFICES ASSUME IInv, History, MadeCreated, NEW p \in Caller,
                        Awaits(p, {"delete", "deleteProven"}),
                        ChainOf(p).kind = "create"
                 PROVE  "create" \in done[p] /\ "cleanup" \in call[p].options
    BY DEF CleanupOnlyOwn
  <2>2. Busy(p) /\ Pending(p).req \in {"delete", "deleteProven"}
    BY <2>1 DEF Awaits
  <2>3. CleansUpOwn(ChainOf(p))
    BY <2>1, <2>2, BusyPosition
  <2>4. {"created", "cleanup"} \subseteq Pending(p).needs
    BY <2>1, <2>2, <2>3, BusyPosition DEF CleansUpOwn
  <2>5. p \in made /\ "cleanup" \in call[p].options
    BY <2>1, <2>2, <2>4 DEF History, Conditions, Options
  <2>6. QED
    BY <2>1, <2>5 DEF MadeCreated
<1>4. QED
  BY <1>1, <1>2, <1>3, Invariance, HistoryHolds, PTL DEF Spec

-----------------------------------------------------------------------------
(* One call at a time. *)

(* Whoever awaits every promise before the next call has at most one call  *)
(* under way, and none during unlockAll(). *)
LEMMA AloneHolds == Spec => []Alone
<1>1. Init => Alone
  BY DEF Init, Alone
<1>2. IInv /\ Alone /\ [Next]_vars => Alone'
  <2> SUFFICES ASSUME IInv, Alone, [Next]_vars PROVE Alone'
    OBVIOUS
  <2>1. ASSUME NEW p \in Caller, Start(p) PROVE Alone'
    <3>1. /\ Free /\ UNCHANGED <<sweeping, backlog>>
          /\ \A q \in Caller \ {p} : call'[q] = call[q]
      BY <2>1, StartEffects
    <3>2. QED
      BY <3>1, Zenon DEF Alone, Free
  <2>2. ASSUME NEW p \in Caller, Return(p) PROVE Alone'
    <3>1. /\ UNCHANGED <<sweeping, backlog>>
          /\ \A q \in Caller : call[q] = Idle => call'[q] = Idle
      BY <2>2, ReturnEffects
    <3>2. QED
      BY <3>1, Zenon DEF Alone
  <2>3. ASSUME NEW p \in Caller, Response(p) PROVE Alone'
    <3>1. /\ UNCHANGED <<sweeping, backlog>>
          /\ call[p] # Idle
          /\ \A q \in Caller \ {p} : call'[q] = call[q]
      BY <2>3, ServerEffects, CallStays, ResponseEffects DEF OnlyCallOf
    <3>2. QED
      BY <3>1, Zenon DEF Alone
  <2>4. CASE SweepStart
    <3>1. sweeping' = TRUE /\ Free /\ call' = call
      BY <2>4 DEF SweepStart, locals
    <3>2. QED
      BY <3>1, Zenon DEF Alone, Free
  <2>5. ASSUME NEW o \in Obj, SweepUnlocked(o) \/ SweepLost(o) \/ SweepRefused(o)
        PROVE  Alone'
    <3>1. /\ backlog[o] # NoHandle /\ call' = call
          /\ backlog' = [backlog EXCEPT ![o] = NoHandle]
          /\ sweeping' = (\E x \in Obj \ {o} : backlog[x] # NoHandle)
      BY <2>5 DEF SweepUnlocked, SweepLost, SweepRefused, ReleaseBacklog,
                  Strike, locals
    <3>2. \A x \in Obj : backlog'[x] # NoHandle =>
            x # o /\ backlog[x] # NoHandle
      BY <3>1 DEF IInv, TypeOK
    <3>3. \A x \in Obj : backlog'[x] # NoHandle => sweeping'
      BY <3>1, <3>2, Zenon
    <3>4. sweeping
      BY <3>1, Zenon DEF Alone
    <3>5. QED
      BY <3>1, <3>3, <3>4, Zenon DEF Alone
  <2>6. CASE UNCHANGED vars
    <3>1. UNCHANGED <<call, sweeping, backlog>>
      BY <2>6 DEF vars, locals, sweep
    <3>2. QED
      BY <3>1, Zenon DEF Alone
  <2>7. QED
    BY <2>1, <2>2, <2>3, <2>4, <2>5, <2>6 DEF Next, Sweep
<1>3. QED
  BY <1>1, <1>2, Invariance, PTL DEF Spec

(* Then a step of a call is the only thing that happens to the session. *)
LEMMA OnlyCall ==
  ASSUME Alone, OneAtATime, NEW p \in Caller, NEW q \in Caller, q # p,
         call[p] # Idle \/ Free, call'[q] = call[q]
  PROVE  /\ call'[q] = Idle /\ ~Busy(q)' /\ ~Settled(q)' /\ Behind(q)' = {}
<1>1. call[q] = Idle
  BY Zenon DEF Alone, Free
<1>2. QED
  BY <1>1 DEF Idle, Busy, Settled, Behind

(* unlockAll() runs while nothing else does. *)
LEMMA SweepAlone ==
  ASSUME Alone, OneAtATime, Sweep
  PROVE  \A p \in Caller :
           /\ call'[p] = Idle /\ ~Busy(p)' /\ ~Settled(p)' /\ Behind(p)' = {}
<1>1. call' = call
  BY SweepEffects
<1>2. \A p \in Caller : call[p] = Idle
  <2>1. CASE SweepStart
    BY <2>1, Zenon DEF SweepStart, Free
  <2>2. CASE \E o \in Obj : SweepUnlocked(o) \/ SweepLost(o) \/ SweepRefused(o)
    <3>1. \E o \in Obj : backlog[o] # NoHandle
      BY <2>2 DEF SweepUnlocked, SweepLost, SweepRefused, ReleaseBacklog
    <3>2. QED
      BY <3>1, Zenon DEF Alone
  <2>3. QED
    BY <2>1, <2>2 DEF Sweep
<1>3. QED
  BY <1>1, <1>2 DEF Idle, Busy, Settled, Behind

-----------------------------------------------------------------------------
(* Deletions deliver. *)

(* A deletion that is behind has deleted the object. *)
LEMMA ResponseDeleted ==
  ASSUME IInv, History, Alone, DeletedBehind, NEW p \in Caller, Response(p)
  PROVE  DeletedBehind'
<1>1. SUFFICES
        ASSUME OneAtATime, NEW q \in Caller, NEW i \in Behind(q)',
               Sure(ChainOf(q)'.steps[i], {}),
               \A j \in DOMAIN ChainOf(q)'.steps :
                 i < j => ChainOf(q)'.steps[j].req # "create",
               \/ ChainOf(q)'.steps[i].req \in {"deleteProven", "deleteLocked"}
               \/ /\ ChainOf(q)'.steps[i].req = "delete"
                  /\ \E j \in DOMAIN ChainOf(q)'.steps :
                       /\ j < i
                       /\ ChainOf(q)'.steps[j].req = "verdict"
                       /\ Sure(ChainOf(q)'.steps[j], {})
        PROVE  Target(q)' \notin exists'
  BY Zenon DEF DeletedBehind
<1>2. /\ Busy(p) /\ call[p] # Idle
      /\ ChainOf(p)' = ChainOf(p) /\ Target(p)' = Target(p)
  BY CallStays
<1>3. q = p
  BY <1>1, <1>2, OnlyCall, ResponseEffects DEF OnlyCallOf
<1> DEFINE c == ChainOf(p)
<1>4. /\ call[p].phase = "main" /\ i \in DOMAIN c.steps
      /\ \/ i \in Behind(p) /\ i < call[p].at
         \/ i = call[p].at /\ (Answer(p) \/ c.steps[i].soft)
         \/ call[p].at < i /\ ~(c.steps[i].needs \subseteq FlagsAfter(p))
  BY <1>1, <1>3, BehindAfter
<1>5. /\ Pending(p) = c.steps[call[p].at]
      /\ call[p].at \in DOMAIN c.steps /\ call[p].at \in Nat
      /\ c \in Catalogue
  BY <1>2, <1>4, BusyPosition
<1>6. CASE i \in Behind(p) /\ i < call[p].at
  <2>1. Target(p) \notin exists
    BY <1>1, <1>2, <1>3, <1>6, Zenon DEF DeletedBehind
  <2>2. Pending(p).req # "create"
    BY <1>1, <1>2, <1>3, <1>5, <1>6
  <2>3. exists' \subseteq exists
    BY <2>2, ServerEffects DEF Performed, Perform
  <2>4. QED
    BY <1>2, <1>3, <2>1, <2>3
<1>7. CASE i = call[p].at /\ Answer(p)
  <2>1. Pending(p).req = "delete" => Target(p) \notin undeletable
    <3>1. SUFFICES ASSUME Pending(p).req = "delete"
                   PROVE  Target(p) \notin undeletable
      OBVIOUS
    <3>2. PICK j \in DOMAIN c.steps :
            j < i /\ c.steps[j].req = "verdict" /\ Sure(c.steps[j], {})
      BY <1>1, <1>2, <1>3, <1>5, <1>7, <3>1
    <3>3. j \in Behind(p)
      BY <1>4, <1>7, <3>2 DEF Behind
    <3>4. Sure(c.steps[j], call[p].options)
      BY <3>2 DEF Sure
    <3>5. QED
      BY <3>2, <3>3, <3>4 DEF History, DeedsDone
  <2>2. Destroys(p) /\ Pending(p).req # "create"
    BY <1>1, <1>2, <1>3, <1>5, <1>7, <2>1 DEF Destroys
  <2>3. exists' = exists \ {Target(p)}
    BY <1>7, <2>2, ServerEffects DEF Performed, Perform
  <2>4. QED
    BY <1>2, <1>3, <2>3
<1>8. ~(i = call[p].at /\ c.steps[i].soft)
  BY <1>1, <1>2, <1>3 DEF Sure
<1>9. c.steps[i].needs \subseteq FlagsAfter(p)
  BY <1>1, <1>2, <1>3 DEF Sure
<1>10. QED
  BY <1>4, <1>6, <1>7, <1>8, <1>9

(* Used one call at a time, a delete() that resolves has deleted the       *)
(* object: the refusal that ADT reports with a success status is noticed   *)
(* (utils/deletionCheck.ts). *)
THEOREM DeletionsDeliver ==
  ASSUME \A c \in Catalogue :
           c.kind = "delete" /\ c.name \notin IgnoresVerdict => Deletes(c)
  PROVE  Spec => []DeleteDelivered
<1>1. Init => DeletedBehind
  <2>1. Init => \A p \in Caller : Behind(p) = {}
    BY DEF Init, Behind, Idle
  <2>2. QED
    BY <2>1 DEF DeletedBehind
<1>2. IInv /\ History /\ Alone /\ DeletedBehind /\ [Next]_vars => DeletedBehind'
  <2> SUFFICES ASSUME IInv, History, Alone, DeletedBehind, [Next]_vars
               PROVE  DeletedBehind'
    OBVIOUS
  <2>1. ASSUME NEW p \in Caller, Start(p) PROVE DeletedBehind'
    <3>1. /\ exists' = exists /\ Behind(p)' = {}
          /\ \A q \in Caller \ {p} : call'[q] = call[q]
      BY <2>1, StartEffects
    <3>2. QED
      BY <3>1, OthersStay DEF DeletedBehind
  <2>2. ASSUME NEW p \in Caller, Return(p) PROVE DeletedBehind'
    BY <2>2, ReturnEffects, OthersStay DEF DeletedBehind
  <2>3. ASSUME NEW p \in Caller, Response(p) PROVE DeletedBehind'
    BY <2>3, ResponseDeleted
  <2>4. CASE Sweep
    BY <2>4, SweepEffects, OthersStay DEF DeletedBehind
  <2>5. CASE UNCHANGED vars
    <3>1. UNCHANGED <<call, exists>>
      BY <2>5 DEF vars, locals, server
    <3>2. QED
      BY <3>1, OthersStay DEF DeletedBehind
  <2>6. QED
    BY <2>1, <2>2, <2>3, <2>4, <2>5 DEF Next
<1>3. IInv /\ DeletedBehind => DeleteDelivered
  <2>1. SUFFICES ASSUME IInv, DeletedBehind, OneAtATime, NEW p \in Caller,
                        Settled(p), call[p].phase = "resolved",
                        ChainOf(p).kind = "delete",
                        ChainOf(p).name \notin IgnoresVerdict
                 PROVE  Target(p) \notin exists
    BY Zenon DEF DeleteDelivered
  <2>2. ChainOf(p) \in Catalogue /\ Behind(p) = DOMAIN ChainOf(p).steps
    BY <2>1, CallType, ResolvedBehind DEF IInv
  <2>3. Deletes(ChainOf(p))
    BY <2>1, <2>2
  <2>4. QED
    BY <2>1, <2>2, <2>3, Zenon DEF DeletedBehind, Deletes
<1>4. QED
  BY <1>1, <1>2, <1>3, Invariance, HistoryHolds, AloneHolds, PTL DEF Spec

-----------------------------------------------------------------------------
(* Session types. *)

(* What a change of the session type leads to. *)
LEMMA SwitchStays ==
  ASSUME NEW m, NEW change \in ModeChanges
  PROVE  /\ change = "stateful" => Switch(m, change) = "stateful"
         /\ change = "stateless" => Switch(m, change) = "stateless"
         /\ m = "stateful" /\ change # "stateless" =>
              Switch(m, change) = "stateful"
         /\ m = "stateless" /\ change # "stateful" =>
              Switch(m, change) = "stateless"
BY DEF Switch, ModeChanges, Modes

(* A call that goes on after its i-th step either settles, or awaits the   *)
(* first later request it does not skip. *)
LEMMA GoesOn ==
  ASSUME IInv, NEW p \in Caller, Busy(p), Same(p),
         NEW phase \in {"main", "rescue"}, NEW i, NEW m, NEW so,
         Goes(p, phase, i, m, so)
  PROVE  \/ /\ Settled(p)' /\ ~Busy(p)'
            /\ \E verdict \in {"resolved", "rejected"} :
                 SettledBy(p, verdict, m, so)
         \/ /\ Busy(p)' /\ ~Settled(p)' /\ call'[p].phase = phase
            /\ call'[p].at \in DOMAIN Part(p, phase) /\ i < call'[p].at
            /\ Pending(p)' = Part(p, phase)[call'[p].at]
            /\ Pending(p)'.needs \subseteq FlagsAfter(p)
            /\ mode' = Switch(m, Pending(p)'.before)
            /\ open' = so
<1>1. CASE \E verdict \in {"resolved", "rejected"} : SettledBy(p, verdict, m, so)
  BY <1>1 DEF SettledBy, Settled, Busy
<1>2. CASE SentBy(p, phase, i, m, so)
  <2>1. /\ call'[p].phase = phase
        /\ call'[p].at \in DOMAIN Part(p, phase) /\ i < call'[p].at
        /\ Part(p, phase)[call'[p].at].needs \subseteq FlagsAfter(p)
        /\ mode' = Switch(m, Part(p, phase)[call'[p].at].before)
        /\ open' = so
    BY <1>2 DEF SentBy, StepsAfter
  <2>2. Pending(p)' = Part(p, phase)[call'[p].at]
    BY <2>1 DEF Pending, Part, ChainOf, Same
  <2>3. Busy(p)' /\ ~Settled(p)'
    BY <2>1 DEF Busy, Settled
  <2>4. QED
    BY <2>1, <2>2, <2>3
<1>3. QED
  BY <1>1, <1>2 DEF Goes

(* The requests of a call have session types. *)
LEMMA PendingModes ==
  ASSUME IInv, NEW p \in Caller, Busy(p)
  PROVE  /\ Pending(p).before \in ModeChanges
         /\ Pending(p).after \in ModeChanges
         /\ Pending(p).fail \in ModeChanges
         /\ Pending(p).soft \in BOOLEAN /\ Pending(p).closes \in BOOLEAN
         /\ ChainOf(p).catch \in ModeChanges
         /\ ChainOf(p).catchUnlocked \in ModeChanges
         /\ ChainOf(p).exit \in ModeChanges
<1>1. /\ ChainOf(p) \in Catalogue
      /\ ChainOf(p).steps \in Seq(Step) /\ ChainOf(p).rescue \in Seq(Step)
  BY BusyPosition, ChainType
<1>2. QED
  BY <1>1, BusyPosition, ChainType, StepsType

(* Nobody but the call sets the session type between sending and answer. *)
LEMMA SentInHolds == Spec => []SentIn
<1>1. Init => SentIn
  BY DEF Init, SentIn, Busy, Idle
<1>2. IInv /\ Alone /\ SentIn /\ [Next]_vars => SentIn'
  <2> SUFFICES ASSUME IInv, Alone, SentIn, [Next]_vars, OneAtATime,
                      NEW q \in Caller, Busy(q)', Pending(q)'.before # "keep"
               PROVE  mode' = Pending(q)'.before
    BY Zenon DEF SentIn
  <2>1. ASSUME NEW p \in Caller, Start(p) PROVE mode' = Pending(q)'.before
    <3>1. /\ Free /\ mode' = Switch(mode, ChainOf(p)'.steps[1].before)
          /\ Pending(p)' = ChainOf(p)'.steps[1]
          /\ \A r \in Caller \ {p} : call'[r] = call[r]
      BY <2>1, StartEffects
    <3>2. q = p
      BY <3>1, OnlyCall
    <3>3. QED
      BY <3>1, <3>2 DEF Switch
  <2>2. ASSUME NEW p \in Caller, Return(p) PROVE mode' = Pending(q)'.before
    <3>1. q # p /\ call'[q] = call[q] /\ mode' = mode
      BY <2>2, ReturnEffects
    <3>2. QED
      BY <3>1, OthersStay DEF SentIn
  <2>3. ASSUME NEW p \in Caller, Response(p) PROVE mode' = Pending(q)'.before
    <3>1. /\ Busy(p) /\ Same(p) /\ (Passes(p) \/ Fails(p))
          /\ call[p] # Idle /\ call[p].phase \in {"main", "rescue"}
          /\ \A r \in Caller \ {p} : call'[r] = call[r]
      BY <2>3, ResponseEffects, BusyPosition DEF OnlyCallOf
    <3>2. q = p
      BY <3>1, OnlyCall
    <3>3. PICK phase \in {"main", "rescue"} :
            \E i, m, so : Goes(p, phase, i, m, so)
      BY <3>1, <3>2
         DEF Passes, Fails, Swallows, GivesUp, Enters, SettledBy, Busy
    <3>4. PICK i, m, so : Goes(p, phase, i, m, so)
      BY <3>3
    <3>5. mode' = Switch(m, Pending(p)'.before)
      BY <3>1, <3>2, <3>4, GoesOn
    <3>6. QED
      BY <3>2, <3>5 DEF Switch
  <2>4. CASE Sweep
    BY <2>4, SweepAlone
  <2>5. CASE UNCHANGED vars
    <3>1. call' = call /\ mode' = mode
      BY <2>5 DEF vars, locals, session
    <3>2. QED
      BY <3>1, OthersStay DEF SentIn
  <2>6. QED
    BY <2>1, <2>2, <2>3, <2>4, <2>5 DEF Next
<1>3. QED
  BY <1>1, <1>2, Invariance, AloneHolds, PTL DEF Spec

-----------------------------------------------------------------------------
(* The session is stateful while a method has a lock of its own. *)

(* In the try block the lock is held before the UNLOCK that ends it, and   *)
(* nothing but that UNLOCK ends the session. *)
LEMMA HoldsOn ==
  ASSUME IInv, SentIn, HoldsStateful, OneAtATime, NEW p \in Caller,
         Response(p), StaysStateful(ChainOf(p)), ~ChainOf(p).uses,
         call'[p].phase = "main", held'[p] # NoHandle
  PROVE  MayHold(ChainOf(p), call'[p].at) /\ mode' = "stateful"
<1> DEFINE c == ChainOf(p)
           at == call[p].at
<1>1. /\ Busy(p) /\ Same(p)
      /\ \/ Passes(p)
         \/ Fails(p) /\ held' = held
  BY ResponseEffects
<1>2. /\ call[p].phase = "main" /\ at < call'[p].at /\ call'[p].at \in Nat
      /\ call'[p].at \in DOMAIN c.steps
      /\ \A k \in DOMAIN c.steps :
           at < k /\ k < call'[p].at => ~(c.steps[k].needs \subseteq FlagsAfter(p))
  BY BehindGrows
<1>3. /\ c \in Catalogue /\ at \in DOMAIN c.steps /\ at \in Nat
      /\ Pending(p) = c.steps[at]
  BY <1>1, <1>2, BusyPosition
<1>4. \A k \in DOMAIN c.steps :
        at < k /\ k < call'[p].at => ~EndsLock(c.steps[k])
  BY <1>2 DEF EndsLock, Sure, FlagsAfter, FlagsOf
<1>5. PICK m, so :
        /\ Goes(p, "main", at, m, so)
        /\ \/ Answer(p) /\ m = Switch(mode, Pending(p).after)
           \/ /\ Pending(p).soft /\ held' = held
              /\ m = Switch(mode, Pending(p).fail)
  BY <1>1, <1>2 DEF Passes, Fails, Swallows, GivesUp, Enters, Goes, SettledBy,
                    SentBy
<1>6. /\ Pending(p)' = c.steps[call'[p].at]
      /\ mode' = Switch(m, c.steps[call'[p].at].before)
  BY <1>1, <1>2, <1>5, GoesOn DEF Settled, Part
<1>7. c.steps[call'[p].at].before \in ModeChanges
  BY <1>2, <1>3, ChainType, StepsType
<1>8. CASE Answer(p) /\ Pending(p).req = "lock"
  <2>1. MayHold(c, call'[p].at)
    BY <1>2, <1>3, <1>4, <1>8 DEF MayHold
  <2>2. mode = "stateful"
    BY <1>1, <1>3, <1>8, Zenon DEF SentIn, StaysStateful
  <2>3. m = "stateful"
    <3>1. m = Switch(mode, Pending(p).after) \/ held' = held
      BY <1>5
    <3>2. held'[p] # held[p]
      BY <1>8, ResponseHeld DEF Fresh
    <3>3. Pending(p).after # "stateless"
      BY <1>3, <1>8 DEF StaysStateful
    <3>4. QED
      BY <1>1, <2>2, <3>1, <3>2, <3>3, PendingModes, SwitchStays
  <2>4. QED
    BY <1>2, <1>6, <1>7, <2>1, <2>3, SwitchStays DEF StaysStateful
<1>9. CASE ~(Answer(p) /\ Pending(p).req = "lock")
  <2>1. held'[p] = held[p] /\ (Answer(p) => Pending(p).req # "unlock")
    BY <1>9, ResponseHeld
  <2>2. MayHold(c, at) /\ mode = "stateful"
    BY <1>1, <1>2, <2>1, Zenon DEF HoldsStateful
  <2>3. ~EndsLock(c.steps[at])
    BY <1>3, <1>5, <2>1 DEF EndsLock, Sure
  <2>4. MayHold(c, call'[p].at)
    <3>1. PICK j \in DOMAIN c.steps :
            /\ j < at /\ c.steps[j].req = "lock"
            /\ \A k \in DOMAIN c.steps : j < k /\ k < at => ~EndsLock(c.steps[k])
      BY <2>2 DEF MayHold
    <3>2. ASSUME NEW k \in DOMAIN c.steps, j < k, k < call'[p].at
          PROVE  ~EndsLock(c.steps[k])
      <4>1. k < at \/ k = at \/ at < k
        BY <1>3, StepNumbers
      <4>2. QED
        BY <1>4, <2>3, <3>1, <3>2, <4>1
    <3>3. j < call'[p].at
      BY <1>2, <1>3, <3>1, StepNumbers
    <3>4. QED
      BY <3>1, <3>2, <3>3 DEF MayHold
  <2>5. m = "stateful"
    <3>1. Pending(p).req # "unlock" => Pending(p).after # "stateless"
      BY <1>3, <2>2 DEF StaysStateful
    <3>2. Pending(p).soft => Pending(p).fail # "stateless"
      BY <1>3, <2>2 DEF StaysStateful
    <3>3. QED
      BY <1>1, <1>5, <2>1, <2>2, <3>1, <3>2, PendingModes, SwitchStays
  <2>6. QED
    BY <1>2, <1>6, <1>7, <2>4, <2>5, SwitchStays DEF StaysStateful
<1>10. QED
  BY <1>8, <1>9

(* In the catch block the session is the one in which the lock is held, or *)
(* the request returns to it. *)
LEMMA HoldsInCatch ==
  ASSUME IInv, HoldsStateful, OneAtATime, NEW p \in Caller,
         Response(p), StaysStateful(ChainOf(p)), ~ChainOf(p).uses,
         Busy(p)', call'[p].phase = "rescue", held'[p] # NoHandle,
         Pending(p)'.req \in {"write", "unlock", "deleteLocked"}
  PROVE  mode' = "stateful"
<1> DEFINE c == ChainOf(p)
<1>1. /\ Busy(p) /\ Same(p)
      /\ \/ Passes(p)
         \/ Fails(p) /\ held' = held
  BY ResponseEffects
<1>2. c \in Catalogue /\ call[p].phase \in {"main", "rescue"}
  BY <1>1, BusyPosition
<1>3. PICK i, m, so :
        /\ Goes(p, "rescue", i, m, so)
        /\ \/ i = call[p].at /\ call[p].phase = "rescue"
           \/ /\ call[p].phase = "main" /\ m = Entry(p) /\ held' = held
  BY <1>1 DEF Passes, Fails, Swallows, GivesUp, Enters, Goes, SettledBy,
              SentBy, Busy
<1>4. /\ call'[p].at \in DOMAIN c.rescue /\ i < call'[p].at
      /\ Pending(p)' = c.rescue[call'[p].at]
      /\ mode' = Switch(m, c.rescue[call'[p].at].before)
  BY <1>1, <1>3, GoesOn DEF Part
<1>5. c.rescue[call'[p].at].before \in ModeChanges
  BY <1>2, <1>4, ChainType, StepsType
<1>6. CASE c.rescue[call'[p].at].before = "stateful"
  BY <1>4, <1>5, <1>6, SwitchStays
<1>7. CASE c.rescue[call'[p].at].before # "stateful"
  <2>1. /\ c.rescue[call'[p].at].before = "keep"
        /\ call'[p].at = 1 /\ c.catch # "stateless"
        /\ \A k \in DOMAIN c.steps :
             MayHold(c, k) => c.steps[k].fail # "stateless"
    BY <1>4, <1>7 DEF StaysStateful
  <2>2. call[p].phase = "main" /\ m = Entry(p) /\ held' = held
    <3>1. ~(i = call[p].at /\ call[p].phase = "rescue")
      <4>1. SUFFICES ASSUME i = call[p].at, call[p].phase = "rescue" PROVE FALSE
        OBVIOUS
      <4>2. call[p].at \in Nat \ {0}
        BY <1>1, <1>2, <4>1, BusyPosition, StepNumbers
      <4>3. QED
        BY <1>4, <2>1, <4>1, <4>2
    <3>2. QED
      BY <1>3, <3>1
  <2>3. MayHold(c, call[p].at) /\ mode = "stateful"
    BY <1>1, <2>2, Zenon DEF HoldsStateful
  <2>4. Pending(p).fail # "stateless"
    BY <1>1, <2>1, <2>2, <2>3, BusyPosition
  <2>5. Switch(Switch(mode, Pending(p).fail), c.catch) = "stateful"
    BY <1>1, <2>1, <2>3, <2>4, PendingModes, SwitchStays
  <2>6. m = "stateful"
    BY <2>2, <2>5 DEF Entry
  <2>7. QED
    BY <1>4, <2>1, <2>6 DEF Switch
<1>8. QED
  BY <1>6, <1>7

(* Used one call at a time, every request a method sends with a lock of    *)
(* its own - writing, deleting, unlocking - goes out in the stateful       *)
(* session that holds the lock (Adt*.ts, update() and delete()). *)
THEOREM OwnLocksStateful ==
  ASSUME \A c \in Catalogue : ~c.uses => StaysStateful(c)
  PROVE  Spec => []OwnLockStateful
<1>1. Init => HoldsStateful
  BY DEF Init, HoldsStateful, Busy, Idle
<1>2. IInv /\ Alone /\ SentIn /\ HoldsStateful /\ [Next]_vars => HoldsStateful'
  <2> SUFFICES ASSUME IInv, Alone, SentIn, HoldsStateful, [Next]_vars,
                      OneAtATime, NEW q \in Caller, Busy(q)',
                      ~ChainOf(q)'.uses, held'[q] # NoHandle
               PROVE  /\ call'[q].phase = "main" =>
                           /\ MayHold(ChainOf(q)', call'[q].at)
                           /\ mode' = "stateful"
                      /\ /\ call'[q].phase = "rescue"
                         /\ Pending(q)'.req \in
                              {"write", "unlock", "deleteLocked"}
                         => mode' = "stateful"
    BY Zenon DEF HoldsStateful
  <2> DEFINE Goal == /\ call'[q].phase = "main" =>
                          /\ MayHold(ChainOf(q)', call'[q].at)
                          /\ mode' = "stateful"
                     /\ /\ call'[q].phase = "rescue"
                        /\ Pending(q)'.req \in
                             {"write", "unlock", "deleteLocked"}
                        => mode' = "stateful"
  <2>1. ASSUME NEW p \in Caller, Start(p) PROVE Goal
    <3>1. /\ Free
          /\ held'[p] = IF ChainOf(p)'.uses
                          THEN kept[p][Target(p)'] ELSE NoHandle
          /\ \A r \in Caller \ {p} : call'[r] = call[r]
      BY <2>1, StartEffects
    <3>2. q = p
      BY <3>1, OnlyCall
    <3>3. QED
      BY <3>1, <3>2
  <2>2. ASSUME NEW p \in Caller, Return(p) PROVE Goal
    <3>1. q # p /\ call'[q] = call[q] /\ mode' = mode /\ held'[q] = held[q]
      BY <2>2, ReturnEffects
    <3>2. QED
      BY <3>1, OthersStay DEF HoldsStateful
  <2>3. ASSUME NEW p \in Caller, Response(p) PROVE Goal
    <3>1. /\ Busy(p) /\ call[p] # Idle
          /\ ChainOf(p)' = ChainOf(p) /\ ChainOf(p) \in Catalogue
          /\ \A r \in Caller \ {p} : call'[r] = call[r]
      BY <2>3, CallStays, ResponseEffects, BusyPosition DEF OnlyCallOf
    <3>2. q = p
      BY <3>1, OnlyCall
    <3>3. StaysStateful(ChainOf(p)) /\ ~ChainOf(p).uses
      BY <3>1, <3>2
    <3>4. QED
      BY <2>3, <3>1, <3>2, <3>3, HoldsOn, HoldsInCatch
  <2>4. CASE Sweep
    BY <2>4, SweepAlone
  <2>5. CASE UNCHANGED vars
    <3>1. call' = call /\ mode' = mode /\ held' = held
      BY <2>5 DEF vars, locals, session
    <3>2. QED
      BY <3>1, OthersStay DEF HoldsStateful
  <2>6. QED
    BY <2>1, <2>2, <2>3, <2>4, <2>5 DEF Next
<1>3. HoldsStateful => OwnLockStateful
  BY Zenon DEF HoldsStateful, OwnLockStateful, Awaits, Busy
<1>4. QED
  BY <1>1, <1>2, <1>3, Invariance, AloneHolds, SentInHolds, PTL DEF Spec

-----------------------------------------------------------------------------
(* A method that takes a lock leaves the session stateless. *)

(* Until it has passed an UNLOCK, a method that begins with LOCK has its   *)
(* lock: a refused LOCK ends the try block. *)
LEMMA ResponseHoldsFirst ==
  ASSUME IInv, HoldsFirst, NEW p \in Caller, Response(p),
         call'[p].phase = "main",
         TakesLock(ChainOf(p)), ~ChainOf(p).steps[1].soft,
         \A i \in Behind(p)' : ChainOf(p).steps[i].req # "unlock"
  PROVE  held'[p] # NoHandle
<1>1. Passes(p) \/ Fails(p)
  BY ResponseEffects
<1>2. /\ call[p].phase = "main" /\ call[p].at \in Behind(p)'
      /\ Behind(p) \subseteq Behind(p)'
  BY BehindGrows
<1>3. Busy(p)
  BY ResponseEffects
<1>4. /\ Pending(p) = ChainOf(p).steps[call[p].at]
      /\ call[p].at \in DOMAIN ChainOf(p).steps
      /\ call[p].at \in Nat \ {0}
  BY <1>2, <1>3, BusyPosition, StepNumbers
<1>5. CASE call[p].at = 1
  <2>1. Pending(p).req = "lock" /\ ~Pending(p).soft
    BY <1>4, <1>5 DEF TakesLock
  <2>2. Answer(p)
    BY <1>1, <1>2, <2>1
       DEF Passes, Fails, Swallows, GivesUp, Enters, Goes, SettledBy, SentBy
  <2>3. QED
    BY <2>1, <2>2, ResponseHeld
<1>6. CASE call[p].at # 1
  <2>1. 1 < call[p].at
    BY <1>4, <1>6
  <2>2. held[p] # NoHandle
    BY <1>2, <1>3, <2>1 DEF HoldsFirst
  <2>3. Pending(p).req # "unlock"
    BY <1>2, <1>4
  <2>4. QED
    BY <2>2, <2>3, ResponseHeld
<1>7. QED
  BY <1>5, <1>6

(* And so it is in every reachable state. *)
LEMMA HoldsFirstHolds == Spec => []HoldsFirst
<1>1. Init => HoldsFirst
  BY DEF Init, HoldsFirst, Busy, Idle
<1>2. IInv /\ HoldsFirst /\ [Next]_vars => HoldsFirst'
  <2> SUFFICES ASSUME IInv, HoldsFirst, [Next]_vars,
                      NEW q \in Caller, Busy(q)', call'[q].phase = "main",
                      1 < call'[q].at, TakesLock(ChainOf(q)'),
                      ~ChainOf(q)'.steps[1].soft,
                      \A i \in Behind(q)' : ChainOf(q)'.steps[i].req # "unlock"
               PROVE  held'[q] # NoHandle
    BY DEF HoldsFirst
  <2>1. ASSUME NEW p \in Caller, Start(p) PROVE held'[q] # NoHandle
    <3>1. /\ call'[p].at = 1
          /\ \A r \in Caller \ {p} : call'[r] = call[r] /\ held'[r] = held[r]
      BY <2>1, StartEffects
    <3>2. q # p
      BY <3>1
    <3>3. QED
      BY <3>1, <3>2, OthersStay DEF HoldsFirst
  <2>2. ASSUME NEW p \in Caller, Return(p) PROVE held'[q] # NoHandle
    <3>1. q # p /\ call'[q] = call[q] /\ held'[q] = held[q]
      BY <2>2, ReturnEffects
    <3>2. QED
      BY <3>1, OthersStay DEF HoldsFirst
  <2>3. ASSUME NEW p \in Caller, Response(p) PROVE held'[q] # NoHandle
    <3>1. CASE q = p
      BY <2>3, <3>1, CallStays, ResponseHoldsFirst
    <3>2. CASE q # p
      <4>1. call'[q] = call[q] /\ held'[q] = held[q]
        BY <2>3, <3>2, ResponseEffects, ResponseHeld DEF OnlyCallOf
      <4>2. QED
        BY <4>1, OthersStay DEF HoldsFirst
    <3>3. QED
      BY <3>1, <3>2
  <2>4. CASE Sweep
    BY <2>4, SweepEffects, OthersStay DEF HoldsFirst
  <2>5. CASE UNCHANGED vars
    <3>1. call' = call /\ held' = held
      BY <2>5 DEF vars, locals
    <3>2. QED
      BY <3>1, OthersStay DEF HoldsFirst
  <2>6. QED
    BY <2>1, <2>2, <2>3, <2>4, <2>5 DEF Next
<1>3. QED
  BY <1>1, <1>2, Invariance, PTL DEF Spec

(* A section that has been left before the end has been left with the      *)
(* UNLOCK that ends the session, and nothing returns to it afterwards; one *)
(* that is left at the end ends the session then. *)
LEMMA ResponseFinally ==
  ASSUME IInv, NEW p \in Caller, Response(p), FinallyReset(p)
  PROVE  FinallyReset(p)'
<1> DEFINE c == ChainOf(p)
           at == call[p].at
<1>1. /\ Busy(p) /\ Same(p) /\ (Passes(p) \/ Fails(p))
      /\ ChainOf(p)' = c
  BY ResponseEffects, CallStays
<1>2. SUFFICES ASSUME EndsInFinally(c)
               PROVE  /\ Settled(p)' => mode' = "stateless"
                      /\ Busy(p)' /\ c.window /\ p \notin open' =>
                           mode' = "stateless"
  BY <1>1 DEF FinallyReset
<1>3. /\ c \in Catalogue /\ at \in Nat /\ c.window \in BOOLEAN
      /\ c.exit = "stateless"
  BY <1>1, <1>2, BusyPosition, ChainType DEF EndsInFinally
(* Outside the section there is no way back into a stateful session. *)
<1>4. ASSUME c.window, p \notin open
      PROVE  /\ mode = "stateless" /\ call[p].phase = "main"
             /\ \A j \in DOMAIN c.steps : at <= j => NeverStateful(c.steps[j])
             /\ at \in DOMAIN c.steps /\ Pending(p) = c.steps[at]
  <2>1. /\ mode = "stateless" /\ call[p].phase = "main"
    BY <1>1, <1>2, <1>4 DEF FinallyReset, Coverage, IInv
  <2>2. PICK i \in DOMAIN c.steps : i < at /\ c.steps[i].closes
    BY <1>1, <1>4 DEF Coverage, IInv
  <2>3. at \in DOMAIN c.steps /\ Pending(p) = c.steps[at]
    BY <1>1, <2>1, BusyPosition
  <2>4. \A j \in DOMAIN c.steps : at <= j => i < j
    BY <1>3, <2>2, StepNumbers
  <2>5. QED
    BY <1>2, <2>1, <2>2, <2>3, <2>4 DEF EndsInFinally
<1>5. CASE GivesUp(p)
  <2>1. mode = "stateless" /\ Pending(p).fail # "stateful"
    BY <1>3, <1>4, <1>5 DEF GivesUp, NeverStateful
  <2>2. mode' = Switch(mode, Pending(p).fail) /\ ~Busy(p)'
    BY <1>1, <1>5 DEF GivesUp, SettledBy, Busy
  <2>3. QED
    BY <1>1, <2>1, <2>2, PendingModes, SwitchStays
<1>6. CASE Enters(p)
  <2>1. p \in open \/ ~c.window
    BY <1>6 DEF Enters
  <2>2. \/ \E verdict \in {"resolved", "rejected"} :
             ~Busy(p)' /\ SettledBy(p, verdict, Entry(p), open)
        \/ ~Settled(p)' /\ open' = open
    BY <1>1, <1>6, GoesOn DEF Enters
  <2>3. QED
    BY <1>3, <2>1, <2>2 DEF SettledBy, Switch
<1>7. CASE Passes(p) \/ Swallows(p)
  <2>1. PICK m, so :
          /\ Goes(p, call[p].phase, at, m, so)
          /\ \/ /\ m = Switch(mode, Pending(p).after)
                /\ so = IF Pending(p).closes THEN open \ {p} ELSE open
             \/ m = Switch(mode, Pending(p).fail) /\ so = open
    BY <1>7 DEF Passes, Swallows
  <2>2. ASSUME c.window, p \notin so
        PROVE  /\ m = "stateless" /\ call[p].phase = "main"
               /\ \A j \in DOMAIN c.steps : at < j => NeverStateful(c.steps[j])
    <3>1. CASE p \notin open
      <4>1. Pending(p).after # "stateful" /\ Pending(p).fail # "stateful"
        BY <1>3, <1>4, <2>2, <3>1 DEF NeverStateful
      <4>2. m = "stateless"
        BY <1>1, <1>4, <2>1, <2>2, <3>1, <4>1, PendingModes, SwitchStays
      <4>3. \A j \in DOMAIN c.steps : at < j => at <= j
        BY <1>3, StepNumbers
      <4>4. QED
        BY <1>4, <2>2, <3>1, <4>2, <4>3
    <3>2. CASE p \in open
      <4>1. Pending(p).closes /\ m = Switch(mode, Pending(p).after)
        BY <2>1, <2>2, <3>2
      <4>2. /\ call[p].phase = "main" /\ at \in DOMAIN c.steps
            /\ Pending(p) = c.steps[at]
        BY <1>1, <4>1, BusyPosition, ClosingType DEF IInv
      <4>3. /\ Pending(p).after = "stateless"
            /\ \A j \in DOMAIN c.steps : at < j => NeverStateful(c.steps[j])
        BY <1>2, <4>1, <4>2 DEF EndsInFinally
      <4>4. QED
        BY <4>1, <4>2, <4>3 DEF Switch
    <3>3. QED
      BY <3>1, <3>2
  <2>3. \/ \E verdict \in {"resolved", "rejected"} :
             ~Busy(p)' /\ SettledBy(p, verdict, m, so)
        \/ /\ ~Settled(p)' /\ open' = so
           /\ call'[p].at \in DOMAIN Part(p, call[p].phase) /\ at < call'[p].at
           /\ Pending(p)' = Part(p, call[p].phase)[call'[p].at]
           /\ mode' = Switch(m, Pending(p)'.before)
    BY <1>1, <2>1, BusyPosition, GoesOn
  <2>4. CASE ~Busy(p)' /\ \E verdict \in {"resolved", "rejected"} :
                            SettledBy(p, verdict, m, so)
    BY <1>3, <2>2, <2>4 DEF SettledBy, Switch
  <2>5. CASE /\ ~Settled(p)' /\ open' = so
             /\ call'[p].at \in DOMAIN Part(p, call[p].phase)
             /\ at < call'[p].at
             /\ Pending(p)' = Part(p, call[p].phase)[call'[p].at]
             /\ mode' = Switch(m, Pending(p)'.before)
    <3>1. SUFFICES ASSUME c.window, p \notin so PROVE mode' = "stateless"
      BY <2>5
    <3>2. /\ m = "stateless"
          /\ call'[p].at \in DOMAIN c.steps
          /\ Pending(p)' = c.steps[call'[p].at]
          /\ NeverStateful(c.steps[call'[p].at])
      BY <2>2, <2>5, <3>1 DEF Part
    <3>3. c.steps[call'[p].at].before \in ModeChanges
      BY <1>3, <3>2, ChainType, StepsType
    <3>4. QED
      BY <2>5, <3>2, <3>3, SwitchStays DEF NeverStateful
  <2>6. QED
    BY <2>3, <2>4, <2>5
<1>8. QED
  BY <1>1, <1>5, <1>6, <1>7 DEF Fails

(* In the catch block, what is sent without a lock in a stateful session   *)
(* ends that session itself. *)
LEMMA ResetInCatch ==
  ASSUME IInv, NEW p \in Caller, Busy(p), Same(p), ChainOf(p)' = ChainOf(p),
         EndsWithUnlock(ChainOf(p)), NEW i, NEW m, NEW so,
         Goes(p, "rescue", i, m, so), held'[p] = NoHandle => m = "stateless"
  PROVE  UnlockReset(p)'
<1> DEFINE c == ChainOf(p)
           s == c.rescue[call'[p].at]
<1>1. /\ c \in Catalogue /\ c.exit \in ModeChanges /\ c.exit # "stateful"
      /\ call[p].options \subseteq Options
  BY BusyPosition, ChainType DEF EndsWithUnlock, Call
<1>2. \/ ~Busy(p)' /\ \E verdict \in {"resolved", "rejected"} :
                        SettledBy(p, verdict, m, so)
      \/ /\ ~Settled(p)' /\ call'[p].phase = "rescue"
         /\ call'[p].at \in DOMAIN c.rescue
         /\ Pending(p)' = s /\ s.needs \subseteq FlagsAfter(p)
         /\ mode' = Switch(m, s.before)
  BY GoesOn DEF Part
<1>3. CASE ~Busy(p)' /\ \E verdict \in {"resolved", "rejected"} :
                          SettledBy(p, verdict, m, so)
  <2>1. held'[p] = NoHandle => mode' = "stateless"
    BY <1>1, <1>3, SwitchStays DEF SettledBy
  <2>2. QED
    BY <1>3, <2>1 DEF UnlockReset
<1>4. CASE /\ ~Settled(p)' /\ call'[p].phase = "rescue"
           /\ call'[p].at \in DOMAIN c.rescue
           /\ Pending(p)' = s /\ s.needs \subseteq FlagsAfter(p)
           /\ mode' = Switch(m, s.before)
  <2>1. ASSUME held'[p] = NoHandle
        PROVE  \/ mode' = "stateless"
               \/ s.after = "stateless" /\ s.fail = "stateless"
    <3>1. m = "stateless" /\ s.before \in ModeChanges
      BY <1>1, <1>4, <2>1, ChainType, StepsType
    <3>2. s.req # "unlock"
      BY <1>1, <1>4, <2>1 DEF EndsWithUnlock, FlagsAfter, FlagsOf, Options
    <3>3. s.before = "stateful" => s.after = "stateless" /\ s.fail = "stateless"
      BY <1>4, <3>2 DEF EndsWithUnlock
    <3>4. QED
      BY <1>4, <3>1, <3>3, SwitchStays
  <2>2. QED
    BY <1>4, <2>1 DEF UnlockReset
<1>5. QED
  BY <1>2, <1>3, <1>4

(* Whichever way a method ends, the first UNLOCK has been passed with its  *)
(* lock, or the catch block has found none or given it back. *)
LEMMA ResponseUnlock ==
  ASSUME IInv, HoldsFirst, NEW p \in Caller, Response(p),
         TakesLock(ChainOf(p)), UnlockReset(p)
  PROVE  UnlockReset(p)'
<1> DEFINE c == ChainOf(p)
           at == call[p].at
<1>1. /\ Busy(p) /\ Same(p) /\ (Passes(p) \/ Fails(p))
      /\ ChainOf(p)' = c
  BY ResponseEffects, CallStays
<1>2. /\ c \in Catalogue /\ at \in Nat
      /\ call[p].phase \in {"main", "rescue"}
      /\ Pending(p).after \in ModeChanges /\ Pending(p).fail \in ModeChanges
      /\ c.exit \in ModeChanges
  BY <1>1, BusyPosition, PendingModes
<1>3. SUFFICES ASSUME EndsWithUnlock(c) PROVE UnlockReset(p)'
  BY <1>1 DEF UnlockReset
<1>4. CASE call[p].phase = "rescue"
  <2>1. PICK m, so :
          /\ Goes(p, "rescue", at, m, so)
          /\ \/ Answer(p) /\ m = Switch(mode, Pending(p).after)
             \/ held' = held /\ m = Switch(mode, Pending(p).fail)
    BY <1>4, ResponseEffects DEF Passes, Fails, Swallows, GivesUp, Enters
  <2>2. /\ Pending(p).after # "stateful" /\ Pending(p).fail # "stateful"
        /\ Pending(p).req = "unlock" => Pending(p).after = "stateless"
        /\ Pending(p).req # "lock"
    BY <1>1, <1>3, <1>4, BusyPosition, ClosingType DEF EndsWithUnlock, IInv
  <2>3. ASSUME held'[p] = NoHandle PROVE m = "stateless"
    <3>1. CASE held[p] = NoHandle
      <4>1. \/ mode = "stateless"
            \/ Pending(p).after = "stateless" /\ Pending(p).fail = "stateless"
        BY <1>1, <1>3, <1>4, <3>1 DEF UnlockReset
      <4>2. QED
        BY <1>2, <2>1, <2>2, <4>1, SwitchStays
    <3>2. CASE held[p] # NoHandle
      <4>1. Answer(p) /\ Pending(p).req = "unlock" /\ ~(held' = held)
        BY <2>2, <2>3, <3>2, ResponseHeld
      <4>2. QED
        BY <1>2, <2>1, <2>2, <4>1, SwitchStays
    <3>3. QED
      BY <3>1, <3>2
  <2>4. QED
    BY <1>1, <1>3, <2>1, <2>3, ResetInCatch
<1>5. CASE call[p].phase = "main"
  <2>1. PICK u \in DOMAIN c.steps :
          /\ EndsLock(c.steps[u]) /\ c.steps[u].after = "stateless"
          /\ \A j \in DOMAIN c.steps :
               /\ j < u => c.steps[j].req # "unlock"
               /\ u < j => NeverStateful(c.steps[j])
    BY <1>3 DEF EndsWithUnlock
  <2>2. /\ at \in DOMAIN c.steps /\ Pending(p) = c.steps[at]
        /\ DOMAIN c.steps \subseteq Nat \ {0}
    BY <1>1, <1>2, <1>5, BusyPosition, StepNumbers
  <2>3. \A i \in DOMAIN c.steps : c.steps[i].req = "unlock" => u <= i
    BY <2>1, <2>2
(* Past the UNLOCK, the session is stateless and stays so. *)
  <2>4. ASSUME NEW i \in DOMAIN c.steps, c.steps[i].req = "unlock", i < at
        PROVE  /\ mode = "stateless" /\ u < at
               /\ Pending(p).after # "stateful" /\ Pending(p).fail # "stateful"
    <3>1. u < at
      BY <1>2, <2>2, <2>3, <2>4
    <3>2. i \in Behind(p)
      BY <1>5, <2>4 DEF Behind
    <3>3. mode = "stateless"
      BY <1>1, <1>3, <1>5, <2>4, <3>2 DEF UnlockReset
    <3>4. QED
      BY <2>1, <2>2, <3>1, <3>3 DEF NeverStateful
  <2>5. CASE GivesUp(p)
    <3>1. PICK i \in DOMAIN c.steps : i < at /\ c.steps[i].closes
      BY <1>1, <2>5 DEF GivesUp, Coverage, IInv
    <3>2. c.steps[i].req = "unlock"
      BY <1>2, <3>1, ChainShape
    <3>3. Switch(mode, Pending(p).fail) = "stateless"
      BY <1>2, <2>4, <3>1, <3>2, SwitchStays
    <3>4. mode' = "stateless" /\ ~Busy(p)'
      BY <1>1, <1>2, <1>3, <2>5, <3>3, SwitchStays
         DEF GivesUp, SettledBy, EndsWithUnlock, Busy
    <3>5. QED
      BY <3>4 DEF UnlockReset
  <2>6. CASE Enters(p)
    <3>1. held' = held
      BY <1>5, <2>6, ResponseEffects
         DEF Passes, Enters, Goes, SettledBy, SentBy
    <3>2. held'[p] = NoHandle => Entry(p) = "stateless"
      BY <1>3, <3>1 DEF Entry, EndsWithUnlock, Switch
    <3>3. QED
      BY <1>1, <1>3, <2>6, <3>2, ResetInCatch DEF Enters
  <2>7. CASE Passes(p) \/ Swallows(p)
    <3>1. PICK m, so :
            /\ Goes(p, "main", at, m, so)
            /\ \/ Answer(p) /\ m = Switch(mode, Pending(p).after)
               \/ Pending(p).soft /\ m = Switch(mode, Pending(p).fail)
      BY <1>5, <2>7 DEF Passes, Swallows
    <3>2. ASSUME NEW i \in Behind(p)', c.steps[i].req = "unlock"
          PROVE  /\ m = "stateless"
                 /\ \A j \in DOMAIN c.steps : at < j => NeverStateful(c.steps[j])
      <4>1. i \in DOMAIN c.steps
        BY <3>2, BehindAfter
      <4>2. u \in Behind(p)'
        BY <2>1, <2>3, <3>2, <4>1, BehindStays
      <4>3. \/ u < at
            \/ u = at /\ (Answer(p) \/ c.steps[u].soft)
            \/ at < u /\ ~(c.steps[u].needs \subseteq FlagsAfter(p))
        BY <4>2, BehindAfter
      <4>4. CASE u < at
        <5>1. /\ mode = "stateless"
              /\ Pending(p).after # "stateful" /\ Pending(p).fail # "stateful"
          BY <2>1, <2>4, <4>4 DEF EndsLock
        <5>2. m = "stateless"
          BY <1>2, <3>1, <5>1, SwitchStays
        <5>3. \A j \in DOMAIN c.steps : at < j => u < j
          BY <1>2, <2>2, <4>4
        <5>4. QED
          BY <2>1, <5>2, <5>3
      <4>5. CASE u = at
        <5>1. m = Switch(mode, "stateless")
          BY <2>1, <2>2, <3>1, <4>5 DEF EndsLock, Sure
        <5>2. QED
          BY <2>1, <4>5, <5>1 DEF Switch
      <4>6. CASE at < u /\ ~(c.steps[u].needs \subseteq FlagsAfter(p))
        <5>1. held'[p] = NoHandle
          BY <2>1, <4>6 DEF EndsLock, Sure, FlagsAfter, FlagsOf
        <5>2. \A k \in Behind(p) : c.steps[k].req # "unlock"
          <6>1. SUFFICES ASSUME NEW k \in Behind(p), c.steps[k].req = "unlock"
                         PROVE  FALSE
            OBVIOUS
          <6>2. k \in DOMAIN c.steps /\ k < at
            BY <1>5, <6>1 DEF Behind
          <6>3. u <= k
            BY <2>3, <6>1, <6>2
          <6>4. QED
            BY <1>2, <2>2, <4>6, <6>2, <6>3
        <5>3. Pending(p).req # "unlock"
          BY <2>1, <2>2, <4>6
        <5>4. CASE at = 1
          <6>1. Pending(p).req = "lock" /\ ~Pending(p).soft
            BY <1>3, <2>2, <5>4 DEF TakesLock, EndsWithUnlock
          <6>2. Answer(p)
            BY <3>1, <6>1
          <6>3. QED
            BY <5>1, <6>1, <6>2, ResponseHeld
        <5>5. CASE at # 1
          <6>1. 1 < at
            BY <2>2, <5>5
          <6>2. ~c.steps[1].soft
            BY <1>3 DEF EndsWithUnlock
          <6>3. held[p] # NoHandle
            BY <1>1, <1>5, <5>2, <6>1, <6>2 DEF HoldsFirst
          <6>4. QED
            BY <5>1, <5>3, <6>3, ResponseHeld
        <5>6. QED
          BY <5>4, <5>5
      <4>7. QED
        BY <4>3, <4>4, <4>5, <4>6
    <3>3. \/ /\ ~Busy(p)' /\ SettledBy(p, "resolved", m, so)
          \/ /\ ~Settled(p)' /\ call'[p].phase = "main"
             /\ call'[p].at \in DOMAIN c.steps /\ at < call'[p].at
             /\ mode' = Switch(m, c.steps[call'[p].at].before)
      BY <3>1 DEF Goes, SettledBy, SentBy, StepsAfter, Part, Busy, Settled
    <3>4. CASE ~Busy(p)' /\ SettledBy(p, "resolved", m, so)
      <4>1. u \in Behind(p)'
        BY <1>1, <3>4 DEF Behind, SettledBy
      <4>2. m = "stateless"
        BY <2>1, <3>2, <4>1 DEF EndsLock
      <4>3. mode' = "stateless"
        BY <1>2, <1>3, <3>4, <4>2, SwitchStays DEF SettledBy, EndsWithUnlock
      <4>4. QED
        BY <3>4, <4>3 DEF UnlockReset
    <3>5. CASE /\ ~Settled(p)' /\ call'[p].phase = "main"
               /\ call'[p].at \in DOMAIN c.steps /\ at < call'[p].at
               /\ mode' = Switch(m, c.steps[call'[p].at].before)
      <4>1. ASSUME NEW i \in Behind(p)', c.steps[i].req = "unlock"
            PROVE  mode' = "stateless"
        <5>1. m = "stateless" /\ NeverStateful(c.steps[call'[p].at])
          BY <3>2, <3>5, <4>1
        <5>2. c.steps[call'[p].at].before \in ModeChanges
          BY <1>2, <3>5, ChainType, StepsType
        <5>3. QED
          BY <3>5, <5>1, <5>2, SwitchStays DEF NeverStateful
      <4>2. QED
        BY <1>1, <3>5, <4>1 DEF UnlockReset
    <3>6. QED
      BY <3>3, <3>4, <3>5
  <2>8. QED
    BY <1>1, <2>5, <2>6, <2>7 DEF Fails
<1>6. QED
  BY <1>2, <1>4, <1>5

(* Used one call at a time, a method that takes a lock for itself leaves   *)
(* the session stateless, on success and on error, unless it had to give   *)
(* up on its lock (ARCHITECTURE.md on stateful mode). *)
THEOREM SessionsReset ==
  ASSUME \A c \in Catalogue :
           TakesLock(c) /\ c.name \notin LeavesStateful => Resets(c)
  PROVE  Spec => []SessionReset
<1>1. Init => Resetting
  BY DEF Init, Resetting
<1>2. IInv /\ Alone /\ HoldsFirst /\ Resetting /\ [Next]_vars => Resetting'
  <2> SUFFICES ASSUME IInv, Alone, HoldsFirst, Resetting, [Next]_vars,
                      OneAtATime, NEW q \in Caller, call'[q] # Idle,
                      TakesLock(ChainOf(q)')
               PROVE  FinallyReset(q)' /\ UnlockReset(q)'
    BY Zenon DEF Resetting
  <2>1. ASSUME NEW p \in Caller, Start(p)
        PROVE  FinallyReset(q)' /\ UnlockReset(q)'
    <3>1. /\ Free /\ Busy(p)' /\ ~Settled(p)' /\ Behind(p)' = {}
          /\ call'[p].phase = "main"
          /\ open' = IF ChainOf(p)'.window THEN open \cup {p} ELSE open
          /\ \A r \in Caller \ {p} : call'[r] = call[r]
      BY <2>1, StartEffects
    <3>2. q = p
      BY <3>1, OnlyCall
    <3>3. FinallyReset(p)'
      BY <3>1 DEF FinallyReset
    <3>4. UnlockReset(p)'
      BY <3>1 DEF UnlockReset
    <3>5. QED
      BY <3>2, <3>3, <3>4
  <2>2. ASSUME NEW p \in Caller, Return(p)
        PROVE  FinallyReset(q)' /\ UnlockReset(q)'
    <3>1. /\ Settled(p) /\ call'[p] = Idle
          /\ \A r \in Caller \ {p} : call'[r] = call[r]
      BY <2>2, ReturnEffects
    <3>2. call[p] # Idle
      BY <3>1 DEF Settled, Idle
    <3>3. QED
      BY <3>1, <3>2, OnlyCall
  <2>3. ASSUME NEW p \in Caller, Response(p)
        PROVE  FinallyReset(q)' /\ UnlockReset(q)'
    <3>1. /\ call[p] # Idle /\ ChainOf(p)' = ChainOf(p)
          /\ \A r \in Caller \ {p} : call'[r] = call[r]
      BY <2>3, CallStays, ResponseEffects DEF OnlyCallOf
    <3>2. q = p
      BY <3>1, OnlyCall
    <3>3. TakesLock(ChainOf(p)) /\ FinallyReset(p) /\ UnlockReset(p)
      BY <3>1, <3>2, Zenon DEF Resetting
    <3>4. QED
      BY <2>3, <3>2, <3>3, ResponseFinally, ResponseUnlock
  <2>4. CASE Sweep
    BY <2>4, SweepAlone
  <2>5. CASE UNCHANGED vars
    <3>1. UNCHANGED <<call, mode, held, open>>
      BY <2>5 DEF vars, locals, session
    <3>2. FinallyReset(q) /\ UnlockReset(q)
      BY <3>1, OthersStay, Zenon DEF Resetting
    <3>3. FinallyReset(q)'
      BY <3>1, <3>2, OthersStay DEF FinallyReset
    <3>4. UnlockReset(q)'
      BY <3>1, <3>2, OthersStay DEF UnlockReset
    <3>5. QED
      BY <3>3, <3>4
  <2>6. QED
    BY <2>1, <2>2, <2>3, <2>4, <2>5 DEF Next
<1>3. IInv /\ Resetting => SessionReset
  <2>1. SUFFICES ASSUME IInv, Resetting, OneAtATime, NEW p \in Caller,
                        Settled(p), TakesLock(ChainOf(p)), held[p] = NoHandle,
                        ChainOf(p).name \notin LeavesStateful
                 PROVE  mode = "stateless"
    BY Zenon DEF SessionReset
  <2>2. call[p].phase # "idle" /\ call[p] # Idle
    BY <2>1 DEF Settled, Idle
  <2>3. Resets(ChainOf(p))
    BY <2>1, <2>2, CallType DEF IInv
  <2>4. FinallyReset(p) /\ UnlockReset(p)
    BY <2>1, <2>2, Zenon DEF Resetting
  <2>5. QED
    BY <2>1, <2>3, <2>4 DEF Resets, FinallyReset, UnlockReset
<1>4. QED
  BY <1>1, <1>2, <1>3, Invariance, AloneHolds, HoldsFirstHolds, PTL DEF Spec
=============================================================================
