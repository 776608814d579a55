-------------------------- MODULE AdtSession_proofs --------------------------
(***************************************************************************)
(* For every catalogue of well-formed chains, any finite number of callers *)
(* and any objects and handles: the types, the count of critical sections  *)
(* and that no lock is abandoned.                                          *)
(***************************************************************************)
EXTENDS AdtSession, FiniteSetTheorems, TLAPS

-----------------------------------------------------------------------------
(* The inductive invariant. *)

(* A busy caller awaits a request of its chain. *)
Positions ==
  \A p \in Caller : Busy(p) => call[p].at \in DOMAIN Part(p, call[p].phase)

(***************************************************************************)
(* A call has left its critical section before the end only past the       *)
(* UNLOCK that closes it, and has no lock then.                            *)
(***************************************************************************)
Coverage ==
  \A p \in Caller :
    Busy(p) /\ ChainOf(p).window /\ p \notin open
    => /\ call[p].phase = "main"
       /\ held[p] = NoHandle
       /\ \E i \in DOMAIN ChainOf(p).steps :
            i < call[p].at /\ ChainOf(p).steps[i].closes

OpenBusy == \A p \in open : Busy(p)

Counted == sections = Cardinality(open)

IInv ==
  TypeOK /\ Positions /\ Coverage /\ OpenBusy /\ Counted /\ NoAbandonedLock

(* What Proceed does to the caller: it sends a later request or settles.   *)
Continues(p, phase, i, so) ==
  /\ \E j \in DOMAIN Part(p, phase) :
       i < j /\ call' = [call EXCEPT ![p].phase = phase, ![p].at = j]
  /\ open' = so

Ends(p, so) ==
  /\ \E v \in {"resolved", "rejected"} : call' = [call EXCEPT ![p].phase = v]
  /\ open' = so \ {p}

Moves(p, phase, i, so) == Continues(p, phase, i, so) \/ Ends(p, so)

(* What the answer to a request does to the caller, however it turns out.  *)
Advances(p) ==
  \/ Moves(p, call[p].phase, call[p].at, open)
  \/ /\ Pending(p).closes
     /\ Pending(p).req # "lock"
     /\ held'[p] = NoHandle
     /\ call[p].phase = "main"
     /\ Moves(p, call[p].phase, call[p].at, open \ {p})
  \/ /\ p \in open \/ ~ChainOf(p).window
     /\ Moves(p, "rescue", 0, open)

-----------------------------------------------------------------------------
(* The data of the chains. *)

(* A change of the session type leads to a session type. *)
LEMMA SwitchType ==
  ASSUME NEW m \in Modes, NEW change \in ModeChanges
  PROVE  Switch(m, change) \in Modes
BY DEF Switch, ModeChanges

(* The fields of a chain of the catalogue have their types. *)
LEMMA ChainType ==
  ASSUME NEW c \in Catalogue
  PROVE  /\ c.steps \in Seq(Step) /\ c.rescue \in Seq(Step)
         /\ c.steps # << >>
         /\ c.window \in BOOLEAN /\ c.tracked \in BOOLEAN /\ c.uses \in BOOLEAN
         /\ c.catch \in ModeChanges /\ c.catchUnlocked \in ModeChanges
         /\ c.exit \in ModeChanges
BY CatalogueAssumption DEF WellFormed, Chain

(* What closes a critical section is an UNLOCK after every LOCK, and the
   catch block of a method neither locks nor closes. *)
LEMMA ChainShape ==
  ASSUME NEW c \in Catalogue
  PROVE  /\ \A i \in DOMAIN c.steps : c.steps[i].closes =>
              /\ c.steps[i].req = "unlock"
              /\ \A j \in DOMAIN c.steps : i < j => c.steps[j].req # "lock"
         /\ \A i \in DOMAIN c.rescue :
              c.rescue[i].req # "lock" /\ ~c.rescue[i].closes
BY CatalogueAssumption DEF WellFormed

(* So have the fields of a step. *)
LEMMA StepsType ==
  ASSUME NEW s \in Seq(Step), NEW i \in DOMAIN s
  PROVE  /\ s[i] \in Step /\ i \in Nat \ {0}
         /\ s[i].before \in ModeChanges /\ s[i].after \in ModeChanges
         /\ s[i].fail \in ModeChanges /\ s[i].soft \in BOOLEAN
         /\ s[i].marks \in BOOLEAN /\ s[i].closes \in BOOLEAN
<1>1. s[i] \in Step /\ i \in Nat \ {0}
  OBVIOUS
<1>2. QED
  BY <1>1 DEF Step

(* A caller that is not idle runs a chain of the catalogue on an object. *)
LEMMA CallType ==
  ASSUME TypeOK, NEW p \in Caller, call[p].phase # "idle"
  PROVE  /\ call[p] \in Call
         /\ ChainOf(p) \in Catalogue
         /\ call[p].phase \in Phases
         /\ call[p].at \in Nat
         /\ Target(p) \in Obj
<1>1. call[p] \in Call
  BY DEF TypeOK, Idle
<1>2. QED
  BY <1>1 DEF Call, ChainOf, Target

(* The try and the catch block of a call are sequences of steps. *)
LEMMA PartType ==
  ASSUME TypeOK, NEW p \in Caller, call[p].phase # "idle", NEW phase
  PROVE  Part(p, phase) \in Seq(Step)
BY CallType, ChainType DEF Part

(* The request a busy caller awaits is a step of its chain. *)
LEMMA PendingType ==
  ASSUME TypeOK, Positions, NEW p \in Caller, Busy(p)
  PROVE  /\ call[p].phase # "idle"
         /\ Pending(p).after \in ModeChanges
         /\ Pending(p).fail \in ModeChanges
         /\ Pending(p).closes \in BOOLEAN
<1>1. call[p].phase # "idle"
  BY DEF Busy
<1>2. call[p].at \in DOMAIN Part(p, call[p].phase)
  BY DEF Positions
<1>3. Part(p, call[p].phase) \in Seq(Step)
  BY <1>1, PartType
<1>4. QED
  BY <1>1, <1>2, <1>3, StepsType DEF Pending

(* Only the UNLOCK of the try block closes, and no LOCK comes after it.    *)
LEMMA ClosingType ==
  ASSUME TypeOK, Positions, NEW p \in Caller, Busy(p)
  PROVE  /\ Pending(p).closes =>
              call[p].phase = "main" /\ Pending(p).req = "unlock"
         /\ call[p].phase = "rescue" => Pending(p).req # "lock"
         /\ call[p].phase = "main" =>
              \A i \in DOMAIN ChainOf(p).steps :
                i < call[p].at /\ ChainOf(p).steps[i].closes
                => Pending(p).req # "lock"
<1>1. call[p].phase # "idle" /\ call[p].phase \in {"main", "rescue"}
  BY DEF Busy
<1>2. ChainOf(p) \in Catalogue
  BY <1>1, CallType
<1>3. call[p].at \in DOMAIN Part(p, call[p].phase)
  BY DEF Positions
<1>4. CASE call[p].phase = "main"
  <2>1. Pending(p) = ChainOf(p).steps[call[p].at]
        /\ call[p].at \in DOMAIN ChainOf(p).steps
    BY <1>3, <1>4 DEF Pending, Part
  <2>2. QED
    BY <1>2, <1>4, <2>1, ChainShape
<1>5. CASE call[p].phase = "rescue"
  <2>1. Pending(p) = ChainOf(p).rescue[call[p].at]
        /\ call[p].at \in DOMAIN ChainOf(p).rescue
    BY <1>3, <1>5 DEF Pending, Part
  <2>2. QED
    BY <1>2, <1>5, <2>1, ChainShape
<1>6. QED
  BY <1>1, <1>4, <1>5

-----------------------------------------------------------------------------
(* The code between two awaits. *)

(* Settling a promise ends the call and closes its critical section. *)
LEMMA SettleEnds ==
  ASSUME TypeOK, NEW p \in Caller, call[p].phase # "idle",
         NEW verdict \in {"resolved", "rejected"}, NEW m \in Modes,
         NEW so \in SUBSET Caller, held' \in [Caller -> MaybeHandle],
         Settle(p, verdict, m, so)
  PROVE  /\ Ends(p, so)
         /\ mode' \in Modes
         /\ kept' \in [Caller -> [Obj -> MaybeHandle]]
<1>1. ChainOf(p) \in Catalogue /\ Target(p) \in Obj
  BY CallType
<1>2. Ends(p, so)
  BY DEF Settle, Ends
<1>3. mode' \in Modes
  BY <1>1, ChainType, SwitchType DEF Settle
<1>4. kept' \in [Caller -> [Obj -> MaybeHandle]]
  BY <1>1 DEF Settle, TypeOK
<1>5. QED
  BY <1>2, <1>3, <1>4

(* Going on after an await sends a later request or ends the call. *)
LEMMA ProceedMoves ==
  ASSUME TypeOK, NEW p \in Caller, call[p].phase # "idle",
         NEW phase \in {"main", "rescue"}, NEW i \in Nat, NEW m \in Modes,
         NEW so \in SUBSET Caller, held' \in [Caller -> MaybeHandle],
         Proceed(p, phase, i, m, so)
  PROVE  /\ Moves(p, phase, i, so)
         /\ mode' \in Modes
         /\ kept' \in [Caller -> [Obj -> MaybeHandle]]
<1> DEFINE rest == StepsAfter(i, Part(p, phase),
                     FlagsOf(call[p].options, held'[p] # NoHandle, p \in made'))
<1>1. CASE Settle(p, IF phase = "main" THEN "resolved" ELSE "rejected", m, so)
  BY <1>1, SettleEnds DEF Moves
<1>2. CASE \E j \in rest : Send(p, phase, j, m, so)
  <2>1. PICK j \in rest : Send(p, phase, j, m, so)
    BY <1>2
  <2>2. j \in DOMAIN Part(p, phase) /\ i < j
    BY <2>1 DEF StepsAfter
  <2>3. Continues(p, phase, i, so)
    BY <2>1, <2>2 DEF Send, Continues
  <2>4. mode' \in Modes
    BY <2>1, <2>2, PartType, StepsType, SwitchType DEF Send
  <2>5. kept' \in [Caller -> [Obj -> MaybeHandle]]
    BY <2>1 DEF Send, TypeOK
  <2>6. QED
    BY <2>3, <2>4, <2>5 DEF Moves
<1>3. QED
  BY <1>1, <1>2 DEF Proceed

(* The code after a request that succeeded: see Advances. *)
LEMMA SucceedAdvances ==
  ASSUME TypeOK, Positions, NEW p \in Caller, Busy(p),
         held' \in [Caller -> MaybeHandle],
         Pending(p).req = "unlock" => held'[p] = NoHandle,
         Succeed(p)
  PROVE  /\ Advances(p)
         /\ mode' \in Modes
         /\ kept' \in [Caller -> [Obj -> MaybeHandle]]
         /\ made' \subseteq Caller
         /\ Dispose
<1> DEFINE so == IF Pending(p).closes THEN open \ {p} ELSE open
<1>1. /\ call[p].phase \in {"main", "rescue"} /\ call[p].phase # "idle"
      /\ call[p].at \in Nat
      /\ so \in SUBSET Caller
  BY CallType DEF Busy, TypeOK
<1>2. Switch(mode, Pending(p).after) \in Modes
  BY PendingType, SwitchType DEF TypeOK
<1>3. Proceed(p, call[p].phase, call[p].at,
              Switch(mode, Pending(p).after), so)
  BY DEF Succeed
<1>4. /\ Moves(p, call[p].phase, call[p].at, so)
      /\ mode' \in Modes
      /\ kept' \in [Caller -> [Obj -> MaybeHandle]]
  BY <1>1, <1>2, <1>3, ProceedMoves
<1>5. Advances(p)
  BY <1>4, ClosingType, PendingType DEF Advances
<1>6. made' \subseteq Caller /\ Dispose
  BY DEF Succeed, TypeOK
<1>7. QED
  BY <1>4, <1>5, <1>6

(* The code after a request that failed: see Advances. *)
LEMMA FailAdvances ==
  ASSUME TypeOK, Positions, NEW p \in Caller, Busy(p), Fail(p)
  PROVE  /\ Advances(p)
         /\ mode' \in Modes
         /\ kept' \in [Caller -> [Obj -> MaybeHandle]]
         /\ made' \subseteq Caller
         /\ held' = held
         /\ Dispose
<1> DEFINE c == ChainOf(p)
           m == Switch(mode, Pending(p).fail)
           caught == Switch(m, c.catch)
           entry == IF held[p] = NoHandle
                      THEN Switch(caught, c.catchUnlocked) ELSE caught
<1>1. /\ call[p].phase \in {"main", "rescue"} /\ call[p].phase # "idle"
      /\ call[p].at \in Nat
      /\ open \in SUBSET Caller
      /\ c \in Catalogue
  BY CallType DEF Busy, TypeOK
<1>2. m \in Modes
  BY PendingType, SwitchType DEF TypeOK
<1>3. caught \in Modes
  BY <1>1, <1>2, ChainType, SwitchType
<1>4. entry \in Modes
  BY <1>1, <1>3, ChainType, SwitchType
<1>5. held' = held /\ held' \in [Caller -> MaybeHandle]
  BY DEF Fail, TypeOK
<1>6. made' \subseteq Caller /\ Dispose
  BY DEF Fail, TypeOK
<1>7. CASE Proceed(p, call[p].phase, call[p].at, m, open)
  <2>1. /\ Moves(p, call[p].phase, call[p].at, open)
        /\ mode' \in Modes
        /\ kept' \in [Caller -> [Obj -> MaybeHandle]]
    BY <1>1, <1>2, <1>5, <1>7, ProceedMoves
  <2>2. QED
    BY <1>5, <1>6, <2>1 DEF Advances
<1>8. CASE Settle(p, "rejected", m, open)
  <2>1. /\ Ends(p, open)
        /\ mode' \in Modes
        /\ kept' \in [Caller -> [Obj -> MaybeHandle]]
    BY <1>1, <1>2, <1>5, <1>8, SettleEnds
  <2>2. QED
    BY <1>5, <1>6, <2>1 DEF Advances, Moves
<1>9. CASE /\ ~(c.window /\ p \notin open)
           /\ Proceed(p, "rescue", 0, entry, open)
  <2>1. /\ Moves(p, "rescue", 0, open)
        /\ mode' \in Modes
        /\ kept' \in [Caller -> [Obj -> MaybeHandle]]
    BY <1>1, <1>4, <1>5, <1>9, ProceedMoves
  <2>2. QED
    BY <1>5, <1>6, <1>9, <2>1 DEF Advances
<1>10. QED
  BY <1>7, <1>8, <1>9 DEF Fail

-----------------------------------------------------------------------------
(* Every way a request turns out keeps the callers' part of the invariant. *)

(* A call that goes on awaits a step of the block it is in. *)
LEMMA ContinuesCall ==
  ASSUME TypeOK, NEW p \in Caller, call[p].phase # "idle",
         NEW phase \in {"main", "rescue"}, NEW i \in Nat, NEW so,
         Continues(p, phase, i, so)
  PROVE  /\ call' \in [Caller -> Call \cup {Idle}]
         /\ \A q \in Caller \ {p} : call'[q] = call[q]
         /\ call'[p].chain = call[p].chain
         /\ call'[p].phase = phase
         /\ call'[p].at \in DOMAIN Part(p, phase)
         /\ i < call'[p].at
<1>1. PICK j \in DOMAIN Part(p, phase) :
        i < j /\ call' = [call EXCEPT ![p].phase = phase, ![p].at = j]
  BY DEF Continues
<1>2. j \in Nat
  BY <1>1, PartType, StepsType
<1>3. call[p] \in Call
  BY CallType
<1>4. [call[p] EXCEPT !.phase = phase, !.at = j] \in Call
  BY <1>2, <1>3 DEF Call, Phases
<1>5. call'[p] = [call[p] EXCEPT !.phase = phase, !.at = j]
  BY <1>1 DEF TypeOK
<1>6. call' \in [Caller -> Call \cup {Idle}]
  BY <1>1, <1>4 DEF TypeOK
<1>7. call'[p].chain = call[p].chain /\ call'[p].phase = phase
      /\ call'[p].at = j
  BY <1>3, <1>5 DEF Call
<1>8. QED
  BY <1>1, <1>6, <1>7 DEF TypeOK

(* A call that ends is settled. *)
LEMMA EndsCall ==
  ASSUME TypeOK, NEW p \in Caller, call[p].phase # "idle", NEW so, Ends(p, so)
  PROVE  /\ call' \in [Caller -> Call \cup {Idle}]
         /\ \A q \in Caller \ {p} : call'[q] = call[q]
         /\ call'[p].phase \in {"resolved", "rejected"}
<1>1. PICK v \in {"resolved", "rejected"} :
        call' = [call EXCEPT ![p].phase = v]
  BY DEF Ends
<1>2. call[p] \in Call
  BY CallType
<1>3. [call[p] EXCEPT !.phase = v] \in Call
  BY <1>1, <1>2 DEF Call, Phases
<1>4. call'[p] = [call[p] EXCEPT !.phase = v]
  BY <1>1 DEF TypeOK
<1>5. call' \in [Caller -> Call \cup {Idle}]
  BY <1>1, <1>3 DEF TypeOK
<1>6. call'[p].phase = v
  BY <1>2, <1>4 DEF Call
<1>7. QED
  BY <1>1, <1>5, <1>6 DEF TypeOK

(* The disposer keeps the nesting count equal to the open sections. *)
LEMMA CountedKept ==
  ASSUME TypeOK, Counted, NEW p \in Caller, Dispose,
         open' = open \/ open' = open \ {p}
  PROVE  Counted' /\ sections' \in Int
<1>1. IsFiniteSet(open)
  BY CallerAssumption, FS_Subset DEF TypeOK
<1>2. Cardinality(open) \in Nat
  BY <1>1, FS_CardinalityType
<1>3. CASE open' = open
  BY <1>2, <1>3 DEF Counted, Dispose
<1>4. CASE open' = open \ {p} /\ open' # open
  <2>1. p \in open
    BY <1>4
  <2>2. Cardinality(open \ {p}) = Cardinality(open) - 1
    BY <1>1, <2>1, FS_RemoveElement
  <2>3. QED
    BY <1>2, <1>4, <2>2 DEF Counted, Dispose
<1>5. QED
  BY <1>3, <1>4

(* What one caller does leaves the calls of the others as they are. *)
LEMMA OthersKept ==
  ASSUME NEW p \in Caller, NEW q \in Caller \ {p},
         call'[q] = call[q], held'[q] = held[q]
  PROVE  /\ Busy(q)' = Busy(q)
         /\ ChainOf(q)' = ChainOf(q)
         /\ \A phase : Part(q, phase)' = Part(q, phase)
BY DEF Busy, ChainOf, Part

(* However a request turns out, the count and the coverage are kept. *)
LEMMA AdvancesKeeps ==
  ASSUME TypeOK, Positions, Coverage, OpenBusy, Counted,
         NEW p \in Caller, Busy(p), Advances(p), Dispose,
         held' \in [Caller -> MaybeHandle],
         \A q \in Caller \ {p} : held'[q] = held[q],
         Pending(p).req # "lock" => held'[p] \in {held[p], NoHandle}
  PROVE  /\ call' \in [Caller -> Call \cup {Idle}]
         /\ open' \in SUBSET Caller
         /\ sections' \in Int
         /\ Positions' /\ Coverage' /\ OpenBusy' /\ Counted'
<1>1. /\ call[p].phase \in {"main", "rescue"} /\ call[p].phase # "idle"
      /\ call[p].at \in Nat
  BY CallType DEF Busy
<1>2. open' = open \/ open' = open \ {p}
  BY DEF Advances, Moves, Continues, Ends
<1>3. /\ call' \in [Caller -> Call \cup {Idle}]
      /\ \A q \in Caller \ {p} : call'[q] = call[q]
  BY <1>1, ContinuesCall, EndsCall DEF Advances, Moves
<1>4. Counted' /\ sections' \in Int
  BY <1>2, CountedKept
<1>5. open' \in SUBSET Caller
  BY <1>2 DEF TypeOK
<1>6. ASSUME NEW q \in Caller \ {p}
      PROVE  /\ Busy(q)' = Busy(q) /\ ChainOf(q)' = ChainOf(q)
             /\ \A phase : Part(q, phase)' = Part(q, phase)
             /\ call'[q] = call[q] /\ held'[q] = held[q]
             /\ q \in open' <=> q \in open
  BY <1>2, <1>3, OthersKept
<1>7. CASE \E so : Ends(p, so)
  <2>1. PICK so : Ends(p, so)
    BY <1>7
  <2>2. call'[p].phase \in {"resolved", "rejected"}
    BY <1>1, <2>1, EndsCall
  <2>3. ~Busy(p)' /\ p \notin open'
    BY <2>1, <2>2 DEF Busy, Ends
  <2>4. Positions'
    BY <1>6, <2>3 DEF Positions
  <2>5. Coverage'
    BY <1>6, <2>3 DEF Coverage
  <2>6. OpenBusy'
    BY <1>5, <1>6, <2>3 DEF OpenBusy
  <2>7. QED
    BY <1>3, <1>4, <1>5, <2>4, <2>5, <2>6
<1>8. ASSUME NEW phase \in {"main", "rescue"}, NEW i \in Nat, NEW so,
             Continues(p, phase, i, so)
      PROVE  /\ call'[p].chain = call[p].chain /\ call'[p].phase = phase
             /\ call'[p].at \in DOMAIN Part(p, phase) /\ i < call'[p].at
             /\ Busy(p)' /\ ChainOf(p)' = ChainOf(p)
             /\ Positions' /\ OpenBusy'
  <2>1. /\ call'[p].chain = call[p].chain /\ call'[p].phase = phase
        /\ call'[p].at \in DOMAIN Part(p, phase) /\ i < call'[p].at
    BY <1>1, <1>8, ContinuesCall
  <2>2. Busy(p)' /\ ChainOf(p)' = ChainOf(p)
    BY <2>1 DEF Busy, ChainOf
  <2>3. Part(p, phase)' = Part(p, phase)
    BY <2>2 DEF Part
  <2>4. Positions'
    BY <1>6, <2>1, <2>3 DEF Positions
  <2>5. OpenBusy'
    BY <1>5, <1>6, <2>2 DEF OpenBusy
  <2>6. QED
    BY <2>1, <2>2, <2>4, <2>5
<1>9. ASSUME ~Busy(p)' \/ ~ChainOf(p)'.window \/ p \in open'
             \/ /\ call'[p].phase = "main"
                /\ held'[p] = NoHandle
                /\ \E k \in DOMAIN ChainOf(p)'.steps :
                     k < call'[p].at /\ ChainOf(p)'.steps[k].closes
      PROVE  Coverage'
  BY <1>6, <1>9 DEF Coverage
<1>10. CASE Continues(p, call[p].phase, call[p].at, open)
  <2>1. /\ call'[p].phase = call[p].phase /\ call[p].at < call'[p].at
        /\ ChainOf(p)' = ChainOf(p) /\ Positions' /\ OpenBusy'
        /\ call'[p].at \in DOMAIN Part(p, call[p].phase)
    BY <1>1, <1>8, <1>10
  <2>2. CASE ChainOf(p).window /\ p \notin open
    <3>1. /\ call[p].phase = "main" /\ held[p] = NoHandle
          /\ \E k \in DOMAIN ChainOf(p).steps :
               k < call[p].at /\ ChainOf(p).steps[k].closes
      BY <2>2 DEF Coverage
    <3>2. held'[p] = NoHandle
      BY <3>1, ClosingType
    <3>3. PICK k \in DOMAIN ChainOf(p).steps :
            k < call[p].at /\ ChainOf(p).steps[k].closes
      BY <3>1
    <3>4. call'[p].at \in Nat
      BY <1>1, <2>1, PartType, StepsType
    <3>5. k \in Nat
      BY <1>1, CallType, ChainType, StepsType
    <3>6. k < call'[p].at
      BY <1>1, <2>1, <3>3, <3>4, <3>5
    <3>7. Coverage'
      BY <1>9, <2>1, <3>1, <3>2, <3>3, <3>6
    <3>8. QED
      BY <1>3, <1>4, <1>5, <2>1, <3>7
  <2>3. CASE ~ChainOf(p).window \/ p \in open
    <3>1. Coverage'
      BY <1>9, <1>10, <2>1, <2>3 DEF Continues
    <3>2. QED
      BY <1>3, <1>4, <1>5, <2>1, <3>1
  <2>4. QED
    BY <2>2, <2>3
<1>11. CASE /\ Pending(p).closes
            /\ held'[p] = NoHandle
            /\ call[p].phase = "main"
            /\ Continues(p, call[p].phase, call[p].at, open \ {p})
  <2>1. /\ call'[p].phase = call[p].phase /\ call[p].at < call'[p].at
        /\ ChainOf(p)' = ChainOf(p) /\ Positions' /\ OpenBusy'
    BY <1>1, <1>8, <1>11
  <2>2. call[p].at \in DOMAIN ChainOf(p).steps
        /\ ChainOf(p).steps[call[p].at].closes
    BY <1>11 DEF Positions, Part, Pending
  <2>3. Coverage'
    BY <1>9, <1>11, <2>1, <2>2
  <2>4. QED
    BY <1>3, <1>4, <1>5, <2>1, <2>3
<1>12. CASE /\ p \in open \/ ~ChainOf(p).window
            /\ Continues(p, "rescue", 0, open)
  <2>1. ChainOf(p)' = ChainOf(p) /\ Positions' /\ OpenBusy'
    BY <1>8, <1>12
  <2>2. Coverage'
    BY <1>9, <1>12, <2>1 DEF Continues
  <2>3. QED
    BY <1>3, <1>4, <1>5, <2>1, <2>2
<1>13. QED
  BY <1>7, <1>10, <1>11, <1>12 DEF Advances, Moves

-----------------------------------------------------------------------------
(* The server and the registry. *)

(* Carrying out a request keeps the types of the server's variables and of *)
(* what the callers know of their documents.                               *)
LEMMA PerformType ==
  ASSUME TypeOK, NEW p \in Caller, call[p].phase # "idle",
         NEW g \in MaybeHandle, Perform(p, g)
  PROVE  /\ exists' \subseteq Obj
         /\ lockedBy' \in [Obj -> MaybeHandle]
         /\ base' \in [Caller -> {"none", "current", "outdated"}]
         /\ done' \in [Caller -> SUBSET Deeds]
<1>1. Target(p) \in Obj
  BY CallType
<1>2. exists' \subseteq Obj
  BY <1>1 DEF Perform, TypeOK
<1>3. lockedBy' \in [Obj -> MaybeHandle]
  BY <1>1 DEF Perform, TypeOK, MaybeHandle
<1>4. base' \in [Caller -> {"none", "current", "outdated"}]
  BY DEF Perform, TypeOK
<1>5. done' \in [Caller -> SUBSET Deeds]
  BY DEF Perform, TypeOK, Deeds
<1>6. QED
  BY <1>2, <1>3, <1>4, <1>5

(* A handle the server may grant is a new one; any other answer carries    *)
(* none.                                                                   *)
LEMMA GrantsType ==
  ASSUME NEW p \in Caller, NEW g \in Grants(p)
  PROVE  /\ g \in MaybeHandle
         /\ Pending(p).req = "lock" => g \in Handle /\ Fresh(g)
BY DEF Grants, MaybeHandle

(* No answer makes the registry lose a lock it should have: the grant is   *)
(* recorded in the step that acknowledges it, and an entry is only removed *)
(* in the step that releases the lock.                                     *)
LEMMA AnswerRecords ==
  ASSUME TypeOK, NoAbandonedLock, NEW p \in Caller, Answer(p)
  PROVE  /\ NoAbandonedLock'
         /\ acked' \subseteq Handle
         /\ registry' \in [Obj -> MaybeHandle]
         /\ held' \in [Caller -> MaybeHandle]
<1> DEFINE r == Pending(p).req
           o == Target(p)
<1>1. o \in Obj /\ call[p].phase # "idle"
  BY CallType DEF Answer, Busy
<1>2. PICK g \in Grants(p) :
        /\ Perform(p, g)
        /\ held' = IF r = "lock" THEN [held EXCEPT ![p] = g]
                   ELSE IF r = "unlock" THEN [held EXCEPT ![p] = NoHandle]
                   ELSE held
        /\ registry' = IF ChainOf(p).tracked /\ r = "lock"
                         THEN [registry EXCEPT ![o] = g]
                       ELSE IF ChainOf(p).tracked /\ r = "unlock"
                         THEN [registry EXCEPT ![o] = NoHandle]
                       ELSE registry
        /\ acked' = IF ChainOf(p).tracked /\ r = "lock" THEN acked \cup {g}
                    ELSE IF Releases(p) THEN acked \ {lockedBy[o]}
                    ELSE acked
  BY DEF Answer
<1>3. g \in MaybeHandle /\ (r = "lock" => g \in Handle /\ Fresh(g))
  BY GrantsType
<1>4. acked' \subseteq Handle
  BY <1>2, <1>3 DEF TypeOK
<1>5. registry' \in [Obj -> MaybeHandle] /\ held' \in [Caller -> MaybeHandle]
  BY <1>1, <1>2, <1>3 DEF TypeOK, MaybeHandle
<1>6. NoHandle \notin acked'
  BY <1>4, HandleAssumption
<1>7. lockedBy' = IF r = "lock" THEN [lockedBy EXCEPT ![o] = g]
                  ELSE IF Releases(p) THEN [lockedBy EXCEPT ![o] = NoHandle]
                  ELSE lockedBy
  BY <1>2 DEF Perform
<1>8. NoAbandonedLock'
  <2>1. SUFFICES ASSUME NEW x \in Obj, lockedBy'[x] \in acked'
                 PROVE  registry'[x] = lockedBy'[x]
    BY DEF NoAbandonedLock
  <2>2. lockedBy[x] \in acked => registry[x] = lockedBy[x]
    BY DEF NoAbandonedLock
  <2>3. CASE r = "lock"
    <3>1. g \notin acked /\ g # lockedBy[x]
      BY <1>3, <2>3 DEF Fresh
    <3>2. ~Releases(p)
      BY <2>3 DEF Releases
    <3>3. QED
      BY <1>1, <1>2, <1>7, <2>1, <2>2, <2>3, <3>1, <3>2 DEF TypeOK
  <2>4. CASE r # "lock" /\ Releases(p)
    <3>1. x # o /\ lockedBy'[x] = lockedBy[x]
      BY <1>1, <1>6, <1>7, <2>1, <2>4 DEF TypeOK
    <3>2. registry'[x] = registry[x] /\ acked' \subseteq acked
      BY <1>1, <1>2, <2>4, <3>1 DEF TypeOK
    <3>3. QED
      BY <2>1, <2>2, <3>1, <3>2
  <2>5. CASE r # "lock" /\ ~Releases(p)
    <3>1. r # "unlock"
      BY <2>5 DEF Releases
    <3>2. QED
      BY <1>2, <1>7, <2>1, <2>2, <2>5, <3>1
  <2>6. QED
    BY <2>3, <2>4, <2>5
<1>9. QED
  BY <1>4, <1>5, <1>8

(* A lost answer acknowledges nothing: the lock it may have set is nobody's *)
(* yet, the one it may have released is no longer there.                   *)
LEMMA LoseRecords ==
  ASSUME TypeOK, NoAbandonedLock, NEW p \in Caller, Lose(p)
  PROVE  NoAbandonedLock' /\ acked' \subseteq Handle
<1> DEFINE r == Pending(p).req
           o == Target(p)
<1>1. o \in Obj /\ call[p].phase # "idle"
  BY CallType DEF Lose, Busy
<1>2. PICK g \in Grants(p) : Perform(p, g)
  BY DEF Lose
<1>3. r = "lock" => g \in Handle /\ Fresh(g)
  BY GrantsType
<1>4. /\ acked' \subseteq acked
      /\ registry' = registry
  BY DEF Lose
<1>5. acked' \subseteq Handle /\ NoHandle \notin acked'
  BY <1>4, HandleAssumption DEF TypeOK
<1>6. lockedBy' = IF r = "lock" THEN [lockedBy EXCEPT ![o] = g]
                  ELSE IF Releases(p) THEN [lockedBy EXCEPT ![o] = NoHandle]
                  ELSE lockedBy
  BY <1>2 DEF Perform
<1>7. ASSUME NEW x \in Obj, lockedBy'[x] \in acked'
      PROVE  lockedBy'[x] = lockedBy[x]
  <2>1. r = "lock" => g \notin acked
    BY <1>3 DEF Fresh
  <2>2. QED
    BY <1>1, <1>4, <1>5, <1>6, <1>7, <2>1 DEF TypeOK
<1>8. QED
  BY <1>4, <1>5, <1>7 DEF NoAbandonedLock

-----------------------------------------------------------------------------
(* The invariant, action by action. *)

(* In the first state nothing is locked, open or under way. *)
LEMMA InitHolds == Init => IInv
<1> SUFFICES ASSUME Init PROVE IInv
  OBVIOUS
<1>1. TypeOK
  <2>1. /\ mode \in Modes /\ sections \in Int
        /\ acked \subseteq Handle /\ made \subseteq Caller /\ open \subseteq Caller
    BY DEF Init, Modes
  <2>2. sweeping \in BOOLEAN
    BY Zenon DEF Init
  <2>3. exists \subseteq Obj /\ typeOf \in [Obj -> Types]
    BY DEF Init
  <2>4. undeletable \subseteq Obj
    BY ProtectedAssumption DEF Init
  <2>5. /\ registry \in [Obj -> MaybeHandle]
        /\ lockedBy \in [Obj -> MaybeHandle]
        /\ backlog \in [Obj -> MaybeHandle]
        /\ held \in [Caller -> MaybeHandle]
        /\ kept \in [Caller -> [Obj -> MaybeHandle]]
    BY DEF Init, MaybeHandle
  <2>6. /\ call \in [Caller -> Call \cup {Idle}]
        /\ base \in [Caller -> {"none", "current", "outdated"}]
        /\ done \in [Caller -> SUBSET Deeds]
    BY DEF Init
  <2>7. QED
    BY <2>1, <2>2, <2>3, <2>4, <2>5, <2>6 DEF TypeOK
<1>2. \A p \in Caller : ~Busy(p)
  BY DEF Init, Busy, Idle
<1>3. Positions /\ Coverage
  BY <1>2 DEF Positions, Coverage
<1>4. OpenBusy
  BY DEF Init, OpenBusy
<1>5. Counted
  BY FS_EmptySet DEF Init, Counted
<1>6. NoAbandonedLock
  BY DEF Init, NoAbandonedLock
<1>7. QED
  BY <1>1, <1>3, <1>4, <1>5, <1>6 DEF IInv

(* Calling a method opens at most the critical section of the caller, who  *)
(* had none, and awaits the first request of the chain.                    *)
LEMMA StartKeeps ==
  ASSUME IInv, NEW p \in Caller, Start(p)
  PROVE  IInv'
<1> USE DEF IInv
<1>1. PICK c \in Catalogue, o \in Obj, opts \in SUBSET Options :
        /\ call[p] = Idle
        /\ call' = [call EXCEPT ![p] =
                     [chain |-> c, object |-> o, options |-> opts,
                      phase |-> "main", at |-> 1]]
        /\ held' = [held EXCEPT ![p] = IF c.uses THEN kept[p][o] ELSE NoHandle]
        /\ open' = IF c.window THEN open \cup {p} ELSE open
        /\ sections' = IF c.window THEN sections + 1 ELSE sections
        /\ mode' = Switch(mode, c.steps[1].before)
        /\ UNCHANGED <<registry, server, fixed, acked, made, base, done, kept,
                       sweep>>
  BY DEF Start, OptionsOf
<1>2. /\ call'[p].chain = c /\ call'[p].phase = "main" /\ call'[p].at = 1
      /\ call'[p] = [chain |-> c, object |-> o, options |-> opts,
                     phase |-> "main", at |-> 1]
  BY <1>1 DEF TypeOK
<1>3. 1 \in DOMAIN c.steps
  BY ChainType
<1>4. p \notin open
  BY <1>1 DEF OpenBusy, Busy, Idle
<1>5. ASSUME NEW q \in Caller \ {p}
      PROVE  /\ call'[q] = call[q] /\ held'[q] = held[q]
             /\ q \in open' <=> q \in open
             /\ Busy(q)' = Busy(q) /\ ChainOf(q)' = ChainOf(q)
             /\ \A phase : Part(q, phase)' = Part(q, phase)
  <2>1. call'[q] = call[q] /\ held'[q] = held[q] /\ (q \in open' <=> q \in open)
    BY <1>1 DEF TypeOK
  <2>2. QED
    BY <2>1, OthersKept
<1>6. Busy(p)' /\ ChainOf(p)' = c /\ Part(p, call[p].phase)' = c.steps
  BY <1>2 DEF Busy, ChainOf, Part
<1>7. TypeOK'
  <2>1. call' \in [Caller -> Call \cup {Idle}]
    BY <1>1 DEF TypeOK, Call, Phases
  <2>2. mode' \in Modes
    BY <1>1, <1>3, ChainType, StepsType, SwitchType DEF TypeOK
  <2>3. held' \in [Caller -> MaybeHandle]
    BY <1>1 DEF TypeOK, MaybeHandle
  <2>4. sections' \in Int /\ open' \subseteq Caller
    BY <1>1 DEF TypeOK
  <2>5. QED
    BY <1>1, <2>1, <2>2, <2>3, <2>4
       DEF TypeOK, server, fixed, sweep
<1>8. Positions'
  BY <1>2, <1>3, <1>5, <1>6 DEF Positions
<1>9. Coverage'
  BY <1>1, <1>5, <1>6 DEF Coverage
<1>10. OpenBusy'
  BY <1>5, <1>6, <1>7 DEF OpenBusy, TypeOK
<1>11. Counted'
  <2>1. IsFiniteSet(open) /\ Cardinality(open) \in Nat
    BY CallerAssumption, FS_Subset, FS_CardinalityType DEF TypeOK
  <2>2. Cardinality(open \cup {p}) = Cardinality(open) + 1
    BY <1>4, <2>1, FS_AddElement
  <2>3. QED
    BY <1>1, <2>2 DEF Counted
<1>12. NoAbandonedLock'
  BY <1>1 DEF NoAbandonedLock, server
<1>13. QED
  BY <1>7, <1>8, <1>9, <1>10, <1>11, <1>12

(* A request that is answered. *)
LEMMA AnswerKeeps ==
  ASSUME IInv, NEW p \in Caller, Answer(p)
  PROVE  IInv'
<1> USE DEF IInv
<1>1. Busy(p) /\ call[p].phase # "idle" /\ Succeed(p)
      /\ UNCHANGED <<fixed, sweep>>
  BY DEF Answer, Busy
<1>2. /\ NoAbandonedLock' /\ acked' \subseteq Handle
      /\ registry' \in [Obj -> MaybeHandle]
      /\ held' \in [Caller -> MaybeHandle]
  BY AnswerRecords
<1>3. /\ \A q \in Caller \ {p} : held'[q] = held[q]
      /\ Pending(p).req = "unlock" => held'[p] = NoHandle
      /\ Pending(p).req # "lock" => held'[p] \in {held[p], NoHandle}
  BY DEF Answer, TypeOK
<1>4. PICK g \in MaybeHandle : Perform(p, g)
  BY GrantsType DEF Answer
<1>5. /\ exists' \subseteq Obj
      /\ lockedBy' \in [Obj -> MaybeHandle]
      /\ base' \in [Caller -> {"none", "current", "outdated"}]
      /\ done' \in [Caller -> SUBSET Deeds]
  BY <1>1, <1>4, PerformType
<1>6. /\ Advances(p) /\ Dispose
      /\ mode' \in Modes
      /\ kept' \in [Caller -> [Obj -> MaybeHandle]]
      /\ made' \subseteq Caller
  BY <1>1, <1>2, <1>3, SucceedAdvances
<1>7. /\ call' \in [Caller -> Call \cup {Idle}]
      /\ open' \in SUBSET Caller
      /\ sections' \in Int
      /\ Positions' /\ Coverage' /\ OpenBusy' /\ Counted'
  BY <1>1, <1>2, <1>3, <1>6, AdvancesKeeps
<1>8. TypeOK'
  BY <1>1, <1>2, <1>5, <1>6, <1>7 DEF TypeOK, fixed, sweep
<1>9. QED
  BY <1>2, <1>7, <1>8

(* A request that fails, carried out or not. *)
LEMMA FailKeeps ==
  ASSUME IInv, NEW p \in Caller, Busy(p), Fail(p), UNCHANGED <<registry, fixed, sweep>>,
         NoAbandonedLock', acked' \subseteq Handle,
         exists' \subseteq Obj,
         lockedBy' \in [Obj -> MaybeHandle],
         base' \in [Caller -> {"none", "current", "outdated"}],
         done' \in [Caller -> SUBSET Deeds]
  PROVE  IInv'
<1> USE DEF IInv
<1>1. /\ Advances(p) /\ Dispose
      /\ mode' \in Modes
      /\ kept' \in [Caller -> [Obj -> MaybeHandle]]
      /\ made' \subseteq Caller
      /\ held' = held
  BY FailAdvances
<1>2. held' \in [Caller -> MaybeHandle]
  BY <1>1 DEF TypeOK
<1>3. /\ call' \in [Caller -> Call \cup {Idle}]
      /\ open' \in SUBSET Caller
      /\ sections' \in Int
      /\ Positions' /\ Coverage' /\ OpenBusy' /\ Counted'
  BY <1>1, <1>2, AdvancesKeeps
<1>4. TypeOK'
  BY <1>1, <1>2, <1>3 DEF TypeOK, fixed, sweep
<1>5. QED
  BY <1>3, <1>4

(* A request that is refused changes nothing on the server. *)
LEMMA RefuseKeeps ==
  ASSUME IInv, NEW p \in Caller, Refuse(p)
  PROVE  IInv'
<1>1. /\ Busy(p) /\ Fail(p)
      /\ UNCHANGED <<registry, server, fixed, acked, base, done, sweep>>
  BY DEF Refuse
<1>2. NoAbandonedLock'
  BY <1>1 DEF IInv, NoAbandonedLock, server
<1>3. /\ acked' \subseteq Handle /\ exists' \subseteq Obj
      /\ lockedBy' \in [Obj -> MaybeHandle]
      /\ base' \in [Caller -> {"none", "current", "outdated"}]
      /\ done' \in [Caller -> SUBSET Deeds]
  BY <1>1 DEF IInv, TypeOK, server
<1>4. QED
  BY <1>1, <1>2, <1>3, FailKeeps

(* A request whose answer is lost changes the server alone. *)
LEMMA LoseKeeps ==
  ASSUME IInv, NEW p \in Caller, Lose(p)
  PROVE  IInv'
<1>1. /\ Busy(p) /\ call[p].phase # "idle" /\ Fail(p)
      /\ UNCHANGED <<registry, fixed, sweep>>
  BY DEF Lose, Busy
<1>2. NoAbandonedLock' /\ acked' \subseteq Handle
  BY LoseRecords DEF IInv
<1>3. PICK g \in MaybeHandle : Perform(p, g)
  BY GrantsType DEF Lose
<1>4. /\ exists' \subseteq Obj
      /\ lockedBy' \in [Obj -> MaybeHandle]
      /\ base' \in [Caller -> {"none", "current", "outdated"}]
      /\ done' \in [Caller -> SUBSET Deeds]
  BY <1>1, <1>3, PerformType DEF IInv
<1>5. QED
  BY <1>1, <1>2, <1>4, FailKeeps

(* A settled call has no critical section left to dispose of. *)
LEMMA ReturnKeeps ==
  ASSUME IInv, NEW p \in Caller, Return(p)
  PROVE  IInv'
<1> USE DEF IInv
<1>1. /\ Settled(p)
      /\ call' = [call EXCEPT ![p] = Idle]
      /\ held' = [held EXCEPT ![p] = NoHandle]
      /\ made' = made \ {p}
      /\ base' = [base EXCEPT ![p] = "none"]
      /\ done' = [done EXCEPT ![p] = {}]
      /\ UNCHANGED <<session, server, fixed, acked, open, kept, sweep>>
  BY DEF Return
<1>2. TypeOK'
  BY <1>1 DEF TypeOK, MaybeHandle, session, server, fixed, sweep
<1>3. ~Busy(p) /\ ~Busy(p)'
  BY <1>1 DEF Settled, Busy, Idle, TypeOK
<1>4. ASSUME NEW q \in Caller \ {p}
      PROVE  /\ call'[q] = call[q] /\ held'[q] = held[q]
             /\ Busy(q)' = Busy(q) /\ ChainOf(q)' = ChainOf(q)
             /\ \A phase : Part(q, phase)' = Part(q, phase)
  <2>1. call'[q] = call[q] /\ held'[q] = held[q]
    BY <1>1 DEF TypeOK
  <2>2. QED
    BY <2>1, OthersKept
<1>5. Positions'
  BY <1>3, <1>4 DEF Positions
<1>6. Coverage'
  BY <1>1, <1>3, <1>4 DEF Coverage
<1>7. OpenBusy'
  BY <1>1, <1>3, <1>4 DEF OpenBusy, TypeOK
<1>8. Counted' /\ NoAbandonedLock'
  BY <1>1 DEF Counted, NoAbandonedLock, session, server
<1>9. QED
  BY <1>2, <1>5, <1>6, <1>7, <1>8

(* The callers do not notice a step that leaves their variables and the    *)
(* critical sections alone.                                                *)
LEMMA LocalsKept ==
  ASSUME IInv, UNCHANGED <<locals, sections>>, TypeOK', NoAbandonedLock'
  PROVE  IInv'
<1>1. \A p \in Caller :
        /\ Busy(p)' = Busy(p)
        /\ ChainOf(p)' = ChainOf(p)
        /\ \A phase : Part(p, phase)' = Part(p, phase)
  BY DEF locals, Busy, ChainOf, Part
<1>2. Positions'
  BY <1>1 DEF IInv, Positions, locals
<1>3. Coverage'
  BY <1>1 DEF IInv, Coverage, locals
<1>4. OpenBusy' /\ Counted'
  BY <1>1 DEF IInv, OpenBusy, Counted, locals, TypeOK
<1>5. QED
  BY <1>2, <1>3, <1>4 DEF IInv

(* unlockAll() removes an entry only with the lock it stands for. *)
LEMMA SweepKeeps ==
  ASSUME IInv, Sweep
  PROVE  IInv'
<1> USE DEF IInv
<1>1. CASE SweepStart
  <2>1. TypeOK'
    BY <1>1 DEF SweepStart, TypeOK, Modes, server, fixed, locals
  <2>2. NoAbandonedLock'
    BY <1>1 DEF SweepStart, NoAbandonedLock, server
  <2>3. UNCHANGED <<locals, sections>>
    BY <1>1 DEF SweepStart
  <2>4. QED
    BY <2>1, <2>2, <2>3, LocalsKept
<1>2. ASSUME NEW o \in Obj, Strike(o),
             registry' = registry \/ registry' = [registry EXCEPT ![o] = NoHandle],
             \/ lockedBy' = lockedBy /\ acked' = acked /\ registry' = registry
             \/ ReleaseBacklog(o)
      PROVE  IInv'
  <2>1. /\ backlog' = [backlog EXCEPT ![o] = NoHandle]
        /\ sweeping' \in BOOLEAN
        /\ mode' \in Modes
        /\ UNCHANGED <<sections, exists, fixed, locals>>
    BY <1>2 DEF Strike, TypeOK, Modes
  <2>2. TypeOK'
    BY <1>2, <2>1 DEF TypeOK, ReleaseBacklog, MaybeHandle, fixed, locals
  <2>3. NoAbandonedLock'
    <3>1. NoHandle \notin acked
      BY HandleAssumption DEF TypeOK
    <3>2. QED
      BY <1>2, <3>1 DEF NoAbandonedLock, ReleaseBacklog, TypeOK
  <2>4. QED
    BY <2>1, <2>2, <2>3, LocalsKept
<1>3. CASE \E o \in Obj : SweepUnlocked(o) \/ SweepLost(o) \/ SweepRefused(o)
  BY <1>2, <1>3 DEF SweepUnlocked, SweepLost, SweepRefused
<1>4. QED
  BY <1>1, <1>3 DEF Sweep

(* Every step keeps the invariant. *)
LEMMA NextKeeps == IInv /\ [Next]_vars => IInv'
<1> SUFFICES ASSUME IInv, [Next]_vars PROVE IInv'
  OBVIOUS
<1>1. ASSUME NEW p \in Caller, Start(p) PROVE IInv'
  BY <1>1, StartKeeps
<1>2. ASSUME NEW p \in Caller, Response(p) PROVE IInv'
  BY <1>2, AnswerKeeps, RefuseKeeps, LoseKeeps DEF Response
<1>3. ASSUME NEW p \in Caller, Return(p) PROVE IInv'
  BY <1>3, ReturnKeeps
<1>4. CASE Sweep
  BY <1>4, SweepKeeps
<1>5. CASE UNCHANGED vars
  <2>1. TypeOK'
    BY <1>5 DEF IInv, TypeOK, vars, session, server, fixed, locals, sweep
  <2>2. NoAbandonedLock'
    BY <1>5 DEF IInv, NoAbandonedLock, vars, session, server
  <2>3. UNCHANGED <<locals, sections>>
    BY <1>5 DEF vars, session
  <2>4. QED
    BY <2>1, <2>2, <2>3, LocalsKept
<1>6. QED
  BY <1>1, <1>2, <1>3, <1>4, <1>5 DEF Next

-----------------------------------------------------------------------------
(* The theorems. *)

(* The invariant holds in every reachable state. *)
LEMMA Invariance == Spec => []IInv
BY InitHolds, NextKeeps, PTL DEF Spec

(* Every variable keeps its type, whatever methods the callers call, in    *)
(* whatever order they interleave and however the system answers.          *)
THEOREM Typing == Spec => []TypeOK
<1>1. IInv => TypeOK
  BY DEF IInv
<1>2. QED
  BY <1>1, Invariance, PTL

(* The nesting count of the connection is the number of calls inside their *)
(* critical section; a call that has a lock and brackets its window is one *)
(* of them.                                                                *)
THEOREM SectionsCounted == Spec => []CriticalSections
<1>1. IInv => CriticalSections
  BY DEF IInv, CriticalSections, Counted, OpenBusy, Coverage
<1>2. QED
  BY <1>1, Invariance, PTL

(* A lock whose handle a recording handler has been given is in the        *)
(* registry for as long as the server keeps it, during unlockAll() too.    *)
THEOREM LocksRecorded == Spec => []NoAbandonedLock
<1>1. IInv => NoAbandonedLock
  BY DEF IInv
<1>2. QED
  BY <1>1, Invariance, PTL
=============================================================================
