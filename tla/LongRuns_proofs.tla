-------------------------- MODULE LongRuns_proofs --------------------------
(***************************************************************************)
(* Proofs about LongRuns, for any callers and any number of attempts.      *)
(* That a reported end belongs to the right run rests on where the things  *)
(* that show a run come from: what the repository shows is a pull that is  *)
(* under way or over, what the legacy handler keeps is a legacy run that   *)
(* is over, and a caller who asks has had its run accepted.                *)
(***************************************************************************)
EXTENDS LongRuns, TLAPS

Shows ==
  shown \in Caller =>
    run[shown] \in {"running"} \cup EndStates /\ call[shown].kind = "pull"

Keeps ==
  latest \in Caller =>
    run[latest] \in EndStates /\ call[latest].kind = "unitTestLegacy"

(* A conversation that has not been started has no run and no report.      *)
Unstarted ==
  \A p \in Caller :
    call[p].phase \in {"idle", "preparing", "starting"}
      => call[p].report = None /\ run[p] = "none"

AsksForSomething ==
  \A p \in Caller :
    call[p].phase \in {"asked", "sleeping", "finishing", "handed"} =>
      /\ run[p] # "none"
      /\ call[p].kind = "unitTestLegacy" => latest \in Caller

(* A pull under way has replaced the earlier one.                          *)
PullShows ==
  \A p \in Caller :
    call[p].kind = "pull" /\ run[p] \notin {"none", "accepted"}
      => shown # Earlier

OverWhenReported ==
  \A p \in Caller :
    call[p].report # None /\ call[p].report.of \in Caller
      => call[p].report.end \in EndStates

(* Only pulls are aborted, and they ask by themselves.                     *)
PullsPoll ==
  \A p \in Caller :
    /\ call[p].aborted => call[p].kind = "pull"
    /\ call[p].kind = "pull" => call[p].phase # "handed"

IInv ==
  /\ TypeOK /\ Shows /\ Keeps /\ Unstarted /\ AsksForSomething /\ PullShows
  /\ OverWhenReported /\ PullsPoll /\ ReportsOwnEnd

(***************************************************************************)
(* The conversations, as far as the proofs depend on them.                 *)
(***************************************************************************)
LEMMA KindsAre ==
  Kinds = {"pull", "activation", "classProfile", "programProfile", "atc",
           "atcWaiting", "unitTest", "unitTestLegacy"}
BY DEF Kinds, Conversation

LEMMA Conversations ==
  /\ Conversation["pull"].bound = "clock"
  /\ ~Conversation["pull"].synchronous
  /\ Conversation["unitTestLegacy"].synchronous
  /\ Conversation["unitTestLegacy"].bound = "none"
BY DEF Conversation, pullRepo, unitTestRunLegacy, unitTestRun

LEMMA BeforeIsSequence ==
  ASSUME NEW k \in Kinds
  PROVE  Len(Conversation[k].before) \in Nat
<1>1. /\ Conversation["pull"].before = <<"repository">>
      /\ Conversation["activation"].before = << >>
      /\ Conversation["classProfile"].before = <<"parameters", "user">>
      /\ Conversation["programProfile"].before = <<"parameters">>
  BY DEF Conversation, pullRepo, activateObjectsGroup,
     runClassWithProfiling, runProgramWithProfiling
<1>2. /\ Conversation["atc"].before = <<"variant", "worklist">>
      /\ Conversation["atcWaiting"].before = <<"variant", "worklist">>
      /\ Conversation["unitTest"].before = << >>
      /\ Conversation["unitTestLegacy"].before = << >>
  BY DEF Conversation, atcRun, atcRunWaiting, unitTestRun, unitTestRunLegacy
<1>3. PICK s \in {<< >>, <<"repository">>, <<"parameters">>,
                 <<"parameters", "user">>, <<"variant", "worklist">>} :
        Conversation[k].before = s
  BY <1>1, <1>2, KindsAre
<1> QED
  BY <1>3

LEMMA InitHolds == Init => IInv
<1> SUFFICES ASSUME Init PROVE IInv
  OBVIOUS
<1> USE CallersAssumption DEF Init
<1>1. \A p \in Caller : call[p] = Fresh /\ run[p] = "none"
  BY DEF Run
<1>2. Fresh \in Call
  BY KindsAre DEF Fresh, Call, Phases
<1>3. TypeOK
  BY <1>2 DEF TypeOK, Run, RunStates, EndStates
<1> QED
  BY <1>1, <1>3 DEF IInv, Shows, Keeps, Unstarted, AsksForSomething,
     PullShows, OverWhenReported, PullsPoll, ReportsOwnEnd, Fresh

-----------------------------------------------------------------------------
(***************************************************************************)
(* Reports stay right: a run that has ended stays as it ended, and a rival *)
(* remains one.                                                            *)
(***************************************************************************)
GoodReport(p) ==
  LET report == call[p].report
      others == \/ Rivals(p) # {}
                \/ call[p].kind = "pull" /\ report.early
                \/ call[p].kind \in Profiles /\ run[Earlier] # "none"
  IN report # None =>
       /\ run[report.of] = report.end
       /\ report.end \in EndStates \/ report.early
       /\ report.of # p => others /\ call[p].kind \in Unidentified

LEMMA AllGood == ReportsOwnEnd <=> \A p \in Caller : GoodReport(p)
BY DEF ReportsOwnEnd, GoodReport

(* What every step but a Begin leaves alone of the other conversations.    *)
Continues ==
  /\ \A q \in Caller :
       /\ call[q].phase # "idle" =>
            call'[q].phase # "idle" /\ call'[q].kind = call[q].kind
       /\ run[q] \in EndStates => run'[q] = run[q]
  /\ run'[Earlier] = run[Earlier]

LEMMA ReportStays ==
  ASSUME IInv, Continues, NEW p \in Caller, call[p].phase # "idle",
         call'[p].report = call[p].report
  PROVE  GoodReport(p)'
<1> SUFFICES ASSUME call[p].report # None
             PROVE  GoodReport(p)'
  BY DEF GoodReport
<1>1. GoodReport(p)
  BY AllGood DEF IInv
<1>2. call[p].report \in Report
  BY DEF IInv, TypeOK, Call
<1>3. run'[call[p].report.of] = call[p].report.end
  BY <1>1, <1>2 DEF IInv, OverWhenReported, Continues, GoodReport, Report, Run
<1>4. Rivals(p) \subseteq Rivals(p)'
  BY DEF Rivals, Continues
<1>5. call'[p].kind = call[p].kind
  BY DEF Continues
<1> QED
  BY <1>1, <1>3, <1>4, <1>5 DEF GoodReport, Continues

(***************************************************************************)
(* Steps of one conversation, after its start, that report nothing and do  *)
(* not touch the system.                                                   *)
(***************************************************************************)
LEMMA ConversationGoesOn ==
  ASSUME IInv, NEW p \in Caller, NEW k \in Call,
         call' = [call EXCEPT ![p] = k],
         UNCHANGED <<run, shown, latest>>,
         call[p].phase \in {"asked", "sleeping", "finishing", "handed"},
         k.phase \notin {"idle", "preparing", "starting"},
         k.kind = call[p].kind,
         k.kind = "pull" => k.phase # "handed",
         k.aborted => call[p].aborted \/ k.kind = "pull",
         k.report # None /\ k.report.of \in Caller
           => k.report.end \in EndStates,
         GoodReport(p)'
  PROVE  IInv'
<1>1. call \in [Caller -> Call]
  BY DEF IInv, TypeOK
<1>2. /\ call'[p] = k
      /\ \A q \in Caller \ {p} : call'[q] = call[q]
  BY <1>1
<1>3. TypeOK'
  BY <1>1 DEF IInv, TypeOK
<1>4. Continues
  BY <1>2 DEF Continues
<1>5. Unstarted' /\ OverWhenReported' /\ PullsPoll'
  BY <1>2 DEF IInv, Unstarted, OverWhenReported, PullsPoll
<1>6. Shows' /\ Keeps' /\ AsksForSomething' /\ PullShows'
  BY <1>2 DEF IInv, Shows, Keeps, AsksForSomething, PullShows
<1>7. ASSUME NEW q \in Caller \ {p} PROVE GoodReport(q)'
  <2>1. CASE call[q].phase = "idle"
    BY <1>2, <2>1 DEF IInv, Unstarted, GoodReport
  <2>2. CASE call[q].phase # "idle"
    BY <1>2, <1>4, <2>2, ReportStays
  <2> QED
    BY <2>1, <2>2
<1>8. ReportsOwnEnd'
  BY <1>7 DEF ReportsOwnEnd, GoodReport
<1> QED
  BY <1>3, <1>5, <1>6, <1>8 DEF IInv

(***************************************************************************)
(* Steps of one conversation up to its start.                              *)
(***************************************************************************)
LEMMA ConversationBegins ==
  ASSUME IInv, NEW p \in Caller, NEW k \in Call,
         call' = [call EXCEPT ![p] = k],
         UNCHANGED <<run, shown, latest>>,
         call[p].phase \in {"idle", "preparing", "starting"},
         k.phase \in {"preparing", "starting", "rejected"},
         call[p].phase # "idle" => k.kind = call[p].kind,
         k.aborted => k.kind = "pull",
         k.report = None
  PROVE  IInv'
<1>1. call \in [Caller -> Call]
  BY DEF IInv, TypeOK
<1>2. /\ call'[p] = k
      /\ \A q \in Caller \ {p} : call'[q] = call[q]
  BY <1>1
<1>3. TypeOK'
  BY <1>1 DEF IInv, TypeOK
<1>4. Continues
  BY <1>2 DEF Continues
<1>5. run[p] = "none"
  BY DEF IInv, Unstarted
<1>6. Unstarted' /\ OverWhenReported' /\ PullsPoll'
  BY <1>2, <1>5 DEF IInv, Unstarted, OverWhenReported, PullsPoll
<1>7. Shows' /\ Keeps' /\ AsksForSomething' /\ PullShows'
  BY <1>2, <1>5
     DEF IInv, Shows, Keeps, AsksForSomething, PullShows, EndStates
<1>8. ASSUME NEW q \in Caller PROVE GoodReport(q)'
  <2>1. CASE q = p
    BY <1>2, <2>1 DEF GoodReport
  <2>2. CASE q # p /\ call[q].phase = "idle"
    BY <1>2, <2>2 DEF IInv, Unstarted, GoodReport
  <2>3. CASE q # p /\ call[q].phase # "idle"
    BY <1>2, <1>4, <2>3, ReportStays
  <2> QED
    BY <2>1, <2>2, <2>3
<1>9. ReportsOwnEnd'
  BY <1>8 DEF ReportsOwnEnd, GoodReport
<1> QED
  BY <1>3, <1>6, <1>7, <1>9 DEF IInv

(***************************************************************************)
(* The system accepts a run, or has it over at once, and the conversation  *)
(* goes on or not.                                                         *)
(***************************************************************************)
LEMMA RunBegins ==
  ASSUME IInv, NEW p \in Caller, NEW s \in {"accepted"} \cup EndStates,
         NEW f \in {"handed", "asked", "rejected"},
         call[p].phase = "starting",
         call' = [call EXCEPT ![p].phase = f],
         run' = [run EXCEPT ![p] = s],
         shown' = shown,
         call[p].kind = "pull" => s = "accepted" /\ f # "handed",
         \/ latest' = latest /\ (call[p].kind = "unitTestLegacy"
                                   => f = "rejected")
         \/ latest' = p /\ call[p].kind = "unitTestLegacy" /\ s \in EndStates
  PROVE  IInv'
<1>1. call \in [Caller -> Call] /\ run \in [Run -> RunStates]
  BY DEF IInv, TypeOK
<1>2. /\ call'[p] = [call[p] EXCEPT !.phase = f]
      /\ \A q \in Caller \ {p} : call'[q] = call[q]
  BY <1>1
<1>3. call'[p] \in Call
  BY <1>1, <1>2 DEF Call, Phases
<1>4. /\ call'[p].phase = f
      /\ call'[p].kind = call[p].kind
      /\ call'[p].report = call[p].report
      /\ call'[p].aborted = call[p].aborted
  BY <1>1, <1>2 DEF Call
<1>5. /\ run[p] = "none"
      /\ run'[p] = s
      /\ \A r \in Run \ {p} : run'[r] = run[r]
      /\ call[p].report = None
  BY <1>1 DEF IInv, Unstarted, Run
<1>6. TypeOK'
  BY <1>1, <1>3 DEF IInv, TypeOK, RunStates, EndStates, Run
<1>7. Continues
  BY <1>2, <1>4, <1>5, CallersAssumption DEF Continues, Run, EndStates
<1>8. Unstarted' /\ OverWhenReported' /\ PullsPoll'
  BY <1>2, <1>4, <1>5
     DEF IInv, Unstarted, OverWhenReported, PullsPoll, Run
<1>9. shown # p /\ latest # p
  BY <1>5 DEF IInv, Shows, Keeps, EndStates
<1>10. Shows' /\ Keeps'
  BY <1>2, <1>4, <1>5, <1>9 DEF IInv, Shows, Keeps, Run
<1>11. AsksForSomething' /\ PullShows'
  BY <1>2, <1>4, <1>5
     DEF IInv, AsksForSomething, PullShows, Run, EndStates
<1>12. ASSUME NEW q \in Caller PROVE GoodReport(q)'
  <2>1. CASE q = p
    BY <1>4, <1>5, <2>1 DEF GoodReport
  <2>2. CASE q # p /\ call[q].phase = "idle"
    BY <1>2, <2>2 DEF IInv, Unstarted, GoodReport
  <2>3. CASE q # p /\ call[q].phase # "idle"
    BY <1>2, <1>7, <2>3, ReportStays
  <2> QED
    BY <2>1, <2>2, <2>3
<1>13. ReportsOwnEnd'
  BY <1>12 DEF ReportsOwnEnd, GoodReport
<1> QED
  BY <1>6, <1>8, <1>10, <1>11, <1>13 DEF IInv

(***************************************************************************)
(* Steps of the system that leave the conversations alone.                 *)
(***************************************************************************)
LEMMA SystemGoesOn ==
  ASSUME IInv, UNCHANGED <<call, latest>>,
         run' \in [Run -> RunStates],
         shown' \in {shown, None} \cup Caller,
         run'[Earlier] = run[Earlier],
         \A q \in Caller :
           /\ run'[q] # run[q]
              => \/ run[q] = "accepted" /\ run'[q] = "running"
                 \/ run[q] = "running" /\ run'[q] \in EndStates
           /\ shown' = q => \/ shown = q
                            \/ run'[q] = "running" /\ call[q].kind = "pull"
           /\ run[q] = "accepted" /\ run'[q] # run[q] /\ call[q].kind = "pull"
              => shown' # Earlier
  PROVE  IInv'
<1> USE CallersAssumption
<1>1. TypeOK'
  BY DEF IInv, TypeOK, Run
<1>2. Continues
  BY DEF Continues, EndStates
<1>3. Unstarted' /\ OverWhenReported' /\ PullsPoll'
  BY DEF IInv, Unstarted, OverWhenReported, PullsPoll
<1>4. Shows'
  BY DEF IInv, Shows, EndStates
<1>5. Keeps' /\ AsksForSomething'
  BY DEF IInv, Keeps, AsksForSomething, EndStates
<1>6. PullShows'
  BY DEF IInv, PullShows, EndStates
<1>7. ASSUME NEW q \in Caller PROVE GoodReport(q)'
  <2>1. CASE call[q].phase = "idle"
    BY <2>1 DEF IInv, Unstarted, GoodReport
  <2>2. CASE call[q].phase # "idle"
    BY <1>2, <2>2, ReportStays
  <2> QED
    BY <2>1, <2>2
<1>8. ReportsOwnEnd'
  BY <1>7 DEF ReportsOwnEnd, GoodReport
<1> QED
  BY <1>1, <1>3, <1>4, <1>5, <1>6, <1>8 DEF IInv

-----------------------------------------------------------------------------
(* The actions. *)

LEMMA BeginKeeps ==
  ASSUME IInv, NEW p \in Caller, NEW kind \in Kinds, Begin(p, kind)
  PROVE  IInv'
<1>1. Len(Conversation[kind].before) \in Nat
  BY BeforeIsSequence
<1>2. PICK first \in 1 .. Len(Conversation[kind].before) + 1 :
        call' = [call EXCEPT
                   ![p] = [Fresh EXCEPT
                             !.kind = kind, !.at = first,
                             !.phase =
                               IF first > Len(Conversation[kind].before)
                                 THEN "starting" ELSE "preparing"]]
  BY DEF Begin
<1> DEFINE f == IF first > Len(Conversation[kind].before)
                  THEN "starting" ELSE "preparing"
<1> DEFINE k == [Fresh EXCEPT !.kind = kind, !.at = first, !.phase = f]
<1>3. first \in Nat
  BY <1>1
<1>4. /\ k \in Call
      /\ k.phase \in {"preparing", "starting"}
      /\ ~k.aborted /\ k.report = None
  BY <1>3 DEF Fresh, Call, Phases
<1>5. /\ call[p].phase = "idle"
      /\ call' = [call EXCEPT ![p] = k]
      /\ UNCHANGED <<run, shown, latest>>
  BY <1>2 DEF Begin
<1> HIDE DEF k
<1> QED
  BY <1>4, <1>5, ConversationBegins

LEMMA PreparationKeeps ==
  ASSUME IInv, NEW p \in Caller, Prepared(p) \/ Unprepared(p)
  PROVE  IInv'
<1>1. PICK n \in Nat, f \in {"preparing", "starting", "rejected"} :
        call' = [call EXCEPT ![p] = [call[p] EXCEPT !.at = n, !.phase = f]]
  <2>1. call[p] \in Call
    BY DEF IInv, TypeOK
  <2>2. CASE Prepared(p)
    <3> DEFINE n == call[p].at + 1
    <3> DEFINE f == IF n > Len(Of(p).before) THEN "starting"
                                             ELSE "preparing"
    <3>1. call[p].phase = "preparing" /\ n \in Nat
      BY <2>1, <2>2 DEF Prepared, Call
    <3>2. call' = [call EXCEPT ![p] = [call[p] EXCEPT !.at = n, !.phase = f]]
      BY <2>2, <3>1 DEF Prepared
    <3> HIDE DEF n
    <3> QED
      BY <3>1, <3>2
  <2>3. CASE Unprepared(p)
    <3>1. call[p] = [call[p] EXCEPT !.at = call[p].at]
      BY <2>1 DEF Call
    <3> QED
      BY <2>1, <2>3, <3>1 DEF Unprepared, Rejects, Goes, Call
  <2> QED
    BY <2>2, <2>3
<1> DEFINE k == [call[p] EXCEPT !.at = n, !.phase = f]
<1>2. call[p].phase = "preparing" /\ UNCHANGED <<run, shown, latest>>
  BY DEF Prepared, Unprepared
<1>3. call[p] \in Call /\ call[p].report = None
      /\ (call[p].aborted => call[p].kind = "pull")
  BY <1>2 DEF IInv, TypeOK, Unstarted, PullsPoll
<1>4. /\ k \in Call
      /\ k.phase \in {"preparing", "starting", "rejected"}
      /\ k.kind = call[p].kind
      /\ k.aborted => k.kind = "pull"
      /\ k.report = None
  BY <1>3 DEF Call, Phases
<1>5. call' = [call EXCEPT ![p] = k]
  BY <1>1
<1> HIDE DEF k
<1> QED
  BY <1>2, <1>4, <1>5, ConversationBegins

(* A conversation that is rejected before anything has come of its run.    *)
LEMMA RejectedEarly ==
  ASSUME IInv, NEW p \in Caller, call[p].phase = "starting", Rejects(p),
         UNCHANGED <<run, shown, latest>>
  PROVE  IInv'
<1> DEFINE k == [call[p] EXCEPT !.phase = "rejected"]
<1>1. call[p] \in Call /\ call[p].report = None
      /\ (call[p].aborted => call[p].kind = "pull")
  BY DEF IInv, TypeOK, Unstarted, PullsPoll
<1>2. /\ k \in Call
      /\ k.phase = "rejected"
      /\ k.kind = call[p].kind
      /\ k.aborted => k.kind = "pull"
      /\ k.report = None
  BY <1>1 DEF Call, Phases
<1>3. call' = [call EXCEPT ![p] = k]
  BY DEF Rejects, Goes
<1> HIDE DEF k
<1> QED
  BY <1>2, <1>3, ConversationBegins

LEMMA StartKeeps ==
  ASSUME IInv, NEW p \in Caller,
         Started(p) \/ NotStarted(p) \/ StartUnreadable(p)
  PROVE  IInv'
<1>1. CASE Started(p)
  <2>1. PICK s \in {"accepted"} \cup EndStates :
          /\ run' = [run EXCEPT ![p] = s]
          /\ Of(p).synchronous => s \in EndStates
          /\ ~Of(p).synchronous => s = "accepted"
    BY <1>1 DEF Started
  <2>2. PICK f \in {"handed", "asked", "rejected"} :
          /\ call' = [call EXCEPT ![p].phase = f]
          /\ Of(p).bound # "none" => f # "handed"
    BY <1>1 DEF Started, AskOrGiveUp, Goes
  <2>3. call[p].kind = "pull" => s = "accepted" /\ f # "handed"
    BY <2>1, <2>2, Conversations DEF Of
  <2>4. call[p].kind = "unitTestLegacy" => latest' = p /\ s \in EndStates
    BY <1>1, <2>1, Conversations DEF Of, Started
  <2>5. call[p].kind # "unitTestLegacy" => latest' = latest
    BY <1>1 DEF Started
  <2>6. call[p].phase = "starting" /\ shown' = shown
    BY <1>1 DEF Started
  <2> QED
    BY <2>1, <2>2, <2>3, <2>4, <2>5, <2>6, RunBegins
<1>2. CASE NotStarted(p) \/ StartUnreadable(p)
  <2>1. /\ call[p].phase = "starting" /\ Rejects(p)
        /\ UNCHANGED <<shown, latest>>
        /\ run' = run \/ run' = [run EXCEPT ![p] = "accepted"]
    BY <1>2 DEF NotStarted, StartUnreadable
  <2>2. CASE run' = run
    BY <2>1, <2>2, RejectedEarly
  <2>3. CASE run' = [run EXCEPT ![p] = "accepted"]
    BY <2>1, <2>3, RunBegins DEF Rejects, Goes
  <2> QED
    BY <2>1, <2>2, <2>3
<1> QED
  BY <1>1, <1>2

(* Steps that only move a conversation, or count an attempt.               *)
LEMMA MoveKeeps ==
  ASSUME IInv, NEW p \in Caller, NEW n \in Nat, NEW l \in BOOLEAN,
         NEW f \in {"asked", "sleeping", "handed", "resolved", "rejected",
                    "finishing"},
         call' = [call EXCEPT ![p] = [@ EXCEPT !.phase = f, !.tries = n,
                                               !.late = l]],
         call[p].phase \in {"asked", "sleeping", "finishing", "handed"},
         call[p].kind = "pull" => f # "handed",
         UNCHANGED <<run, shown, latest>>
  PROVE  IInv'
<1> DEFINE k == [call[p] EXCEPT !.phase = f, !.tries = n, !.late = l]
<1>1. call[p] \in Call /\ call \in [Caller -> Call]
  BY DEF IInv, TypeOK
<1>2. /\ k \in Call
      /\ k.phase = f
      /\ k.kind = call[p].kind
      /\ k.aborted = call[p].aborted
      /\ k.report = call[p].report
  BY <1>1 DEF Call, Phases
<1>3. call' = [call EXCEPT ![p] = k]
  OBVIOUS
<1> HIDE DEF k
<1>4. Continues
  BY <1>1, <1>2, <1>3 DEF Continues
<1>5. GoodReport(p)'
  BY <1>1, <1>2, <1>3, <1>4, ReportStays
<1>6. k.report # None /\ k.report.of \in Caller
        => k.report.end \in EndStates
  BY <1>2 DEF IInv, OverWhenReported
<1> QED
  BY <1>2, <1>3, <1>5, <1>6, ConversationGoesOn

LEMMA GoesKeeps ==
  ASSUME IInv, NEW p \in Caller,
         NEW f \in {"asked", "sleeping", "handed", "resolved", "rejected"},
         Goes(p, f),
         call[p].phase \in {"asked", "sleeping", "finishing", "handed"},
         call[p].kind = "pull" => f # "handed",
         UNCHANGED <<run, shown, latest>>
  PROVE  IInv'
<1>1. call[p] \in Call
  BY DEF IInv, TypeOK
<1>2. [call[p] EXCEPT !.phase = f]
        = [call[p] EXCEPT !.phase = f, !.tries = call[p].tries,
                          !.late = call[p].late]
  BY <1>1 DEF Call
<1>3. /\ call[p].tries \in Nat
      /\ call[p].late \in BOOLEAN
  BY <1>1 DEF Call
<1>4. call' = [call EXCEPT
                 ![p] = [@ EXCEPT !.phase = f, !.tries = call[p].tries,
                                  !.late = call[p].late]]
  BY <1>2 DEF Goes
<1> QED
  BY <1>3, <1>4, MoveKeeps

LEMMA PollKeeps ==
  ASSUME IInv, NEW p \in Caller,
         Ask(p) \/ AnswerRunning(p) \/ AnswerFails(p) \/ Wake(p) \/ Finish(p)
  PROVE  IInv'
<1>1. CASE Ask(p)
  BY <1>1, GoesKeeps DEF Ask
<1>2. CASE Wake(p)
  BY <1>2, GoesKeeps DEF Wake, AskOrGiveUp
<1>3. CASE Finish(p)
  BY <1>3, GoesKeeps DEF Finish, Resolves, Rejects
<1>4. ASSUME call[p].phase = "asked", Pause(p), UNCHANGED <<run, shown, latest>>
      PROVE  IInv'
  <2>1. CASE Of(p).bound = "none"
    BY <1>4, <2>1, Conversations, GoesKeeps DEF Pause, Of
  <2>2. CASE Of(p).bound = "attempts"
    <3> DEFINE n == call[p].tries + 1
    <3> DEFINE f == IF n < Attempts THEN "sleeping" ELSE "rejected"
    <3>1. call[p] \in Call
      BY DEF IInv, TypeOK
    <3>2. /\ n \in Nat
          /\ call[p].late \in BOOLEAN
      BY <3>1 DEF Call
    <3>3. call' = [call EXCEPT ![p].tries = n, ![p].phase = f]
      BY <1>4, <2>2 DEF Pause
    <3>4. [call[p] EXCEPT !.tries = n, !.phase = f]
            = [call[p] EXCEPT !.phase = f, !.tries = n,
                              !.late = call[p].late]
      BY <3>1 DEF Call
    <3>5. call' = [call EXCEPT ![p] = [@ EXCEPT !.phase = f, !.tries = n,
                                                !.late = call[p].late]]
      BY <3>1, <3>3, <3>4 DEF IInv, TypeOK
    <3>6. f \in {"sleeping", "rejected"}
      OBVIOUS
    <3> HIDE DEF n, f
    <3> QED
      BY <1>4, <3>2, <3>5, <3>6, MoveKeeps
  <2>3. CASE Of(p).bound \notin {"none", "attempts"}
    BY <1>4, <2>3, GoesKeeps DEF Pause
  <2> QED
    BY <2>1, <2>2, <2>3
<1>5. CASE AnswerRunning(p)
  BY <1>4, <1>5 DEF AnswerRunning
<1>6. CASE AnswerFails(p)
  BY <1>4, <1>6, GoesKeeps DEF AnswerFails, Rejects
<1> QED
  BY <1>1, <1>2, <1>3, <1>5, <1>6

LEMMA AbortKeeps ==
  ASSUME IInv, NEW p \in Caller, Abort(p)
  PROVE  IInv'
<1> DEFINE f == IF call[p].phase = "sleeping" THEN "rejected"
                                              ELSE call[p].phase
<1> DEFINE k == [call[p] EXCEPT !.aborted = TRUE, !.phase = f]
<1>1. call[p] \in Call /\ call \in [Caller -> Call]
  BY DEF IInv, TypeOK
<1>2. call' = [call EXCEPT ![p] = k] /\ UNCHANGED <<run, shown, latest>>
  BY <1>1 DEF Abort
<1>3. /\ k \in Call
      /\ k.phase = f /\ k.kind = call[p].kind /\ k.aborted
      /\ k.report = call[p].report
  BY <1>1 DEF Call, Phases
<1>4. CASE call[p].phase \in {"preparing", "starting"}
  <2>1. f = call[p].phase /\ call[p].kind = "pull" /\ call[p].report = None
    BY <1>4 DEF Abort, IInv, Unstarted
  <2> HIDE DEF k
  <2> QED
    BY <1>2, <1>3, <1>4, <2>1, ConversationBegins
<1>5. CASE call[p].phase \in {"asked", "sleeping", "finishing"}
  <2>1. f \in {"asked", "finishing", "rejected"} /\ call[p].kind = "pull"
    BY <1>5 DEF Abort
  <2> HIDE DEF k
  <2>2. Continues
    BY <1>1, <1>2, <1>3, <1>5, <2>1 DEF Continues
  <2>3. GoodReport(p)'
    BY <1>1, <1>2, <1>3, <1>5, <2>2, ReportStays
  <2>4. k.report # None /\ k.report.of \in Caller
          => k.report.end \in EndStates
    BY <1>3 DEF IInv, OverWhenReported
  <2> QED
    BY <1>2, <1>3, <1>5, <2>1, <2>3, <2>4, ConversationGoesOn
<1> QED
  BY <1>4, <1>5 DEF Abort, Awaiting

LEMMA ExpireKeeps ==
  ASSUME IInv, NEW p \in Caller, Expire(p)
  PROVE  IInv'
<1>1. call[p] \in Call /\ call \in [Caller -> Call]
  BY DEF IInv, TypeOK
<1>2. /\ call[p].phase \in {"asked", "sleeping"}
      /\ UNCHANGED <<run, shown, latest>>
  BY DEF Expire
<1>3. [call[p] EXCEPT !.late = TRUE]
        = [call[p] EXCEPT !.phase = call[p].phase, !.tries = call[p].tries,
                          !.late = TRUE]
  BY <1>1 DEF Call
<1>4. call[p].tries \in Nat
  BY <1>1 DEF Call
<1>5. call' = [call EXCEPT
                 ![p] = [@ EXCEPT !.phase = call[p].phase,
                                  !.tries = call[p].tries,
                                  !.late = TRUE]]
  BY <1>1, <1>3 DEF Expire
<1> QED
  BY <1>2, <1>4, <1>5, MoveKeeps

-----------------------------------------------------------------------------
(***************************************************************************)
(* A conversation reports: what it saw is a run that is over, or, by a     *)
(* pull that the repository does not show yet, what was there before.      *)
(***************************************************************************)
LEMMA ListedAre ==
  ASSUME NEW p \in Caller, NEW r \in Listed(p)
  PROVE  /\ call[p].kind = "pull" => r = shown /\ shown # None
         /\ call[p].kind \in Profiles =>
              /\ r \in Run /\ run[r] \in EndStates
              /\ r # Earlier => call[r].kind \in Profiles
         /\ call[p].kind = "unitTestLegacy" => r = latest
         /\ call[p].kind \notin Unidentified => r = p
<1>1. CASE call[p].kind = "pull"
  BY <1>1 DEF Listed, Profiles, Unidentified
<1>2. CASE call[p].kind \in Profiles
  BY <1>2 DEF Listed, Profiles, Unidentified
<1>3. CASE call[p].kind = "unitTestLegacy"
  BY <1>3 DEF Listed, Profiles, Unidentified
<1>4. CASE call[p].kind \notin Unidentified
  BY <1>4 DEF Listed, Profiles, Unidentified
<1> QED
  BY <1>1, <1>2, <1>3, <1>4 DEF Unidentified

LEMMA AnswerEndKeeps ==
  ASSUME IInv, NEW p \in Caller, AnswerEnd(p)
  PROVE  IInv'
<1> USE CallersAssumption
<1>1. PICK r \in Listed(p), f \in {"rejected", "resolved", "finishing"} :
        /\ Terminal(p, r)
        /\ call' = [call EXCEPT ![p].phase = f, ![p].report = ReportOf(p, r)]
  <2>1. PICK r \in Listed(p) :
          /\ Terminal(p, r)
          /\ call' = [call EXCEPT ![p].phase = Concluding(p, r),
                                  ![p].report = ReportOf(p, r)]
    BY DEF AnswerEnd
  <2>2. Concluding(p, r) \in {"rejected", "resolved", "finishing"}
    BY DEF Concluding
  <2> QED
    BY <2>1, <2>2
<1> DEFINE k == [call[p] EXCEPT !.phase = f, !.report = ReportOf(p, r)]
<1>2. /\ call[p].phase = "asked"
      /\ UNCHANGED <<run, shown, latest>>
      /\ call[p] \in Call /\ call \in [Caller -> Call]
      /\ run \in [Run -> RunStates] /\ shown \in Run \cup {None}
      /\ latest \in Run
  BY DEF IInv, TypeOK, AnswerEnd
<1>3. call' = [call EXCEPT ![p] = k]
  BY <1>1, <1>2
<1>4. r \in Run
  BY <1>1, <1>2, ListedAre DEF Run, Unidentified
<1>5. ReportOf(p, r) \in Report
  BY <1>2, <1>4 DEF ReportOf, Report
<1>6. /\ k \in Call
      /\ k.phase = f /\ k.kind = call[p].kind
      /\ k.report = ReportOf(p, r) /\ k.aborted = call[p].aborted
  BY <1>2, <1>5 DEF Call, Phases
<1>7. run[p] # "none" /\ (call[p].kind = "unitTestLegacy" => latest \in Caller)
  BY <1>2 DEF IInv, AsksForSomething
<1>8. run[r] \in EndStates \/ (r = Earlier /\ run[p] = "accepted")
  <2>1. CASE call[p].kind = "pull"
    <3>1. r = shown /\ shown # None /\ run[r] \in EndStates \cup {"none"}
      BY <1>1, <2>1, ListedAre DEF Terminal
    <3>2. r \in Caller => run[r] # "none"
      BY <3>1 DEF IInv, Shows, EndStates
    <3>3. r = Earlier => run[p] = "accepted"
      BY <1>7, <2>1, <3>1 DEF IInv, PullShows
    <3> QED
      BY <1>4, <3>1, <3>2, <3>3 DEF Run
  <2>2. CASE call[p].kind # "pull"
    BY <1>1, <2>2 DEF Terminal, EndStates
  <2> QED
    BY <2>1, <2>2
<1>9. \A q \in Caller : run[q] # "none" => call[q].phase # "idle"
  BY DEF IInv, Unstarted
<1>10. r # p => /\ call[p].kind \in Unidentified
                /\ \/ Rivals(p) # {}
                   \/ call[p].kind = "pull" /\ run[p] = "accepted"
                   \/ call[p].kind \in Profiles /\ run[Earlier] # "none"
  <2> SUFFICES ASSUME r # p
               PROVE  /\ call[p].kind \in Unidentified
                      /\ \/ Rivals(p) # {}
                         \/ call[p].kind = "pull" /\ run[p] = "accepted"
                         \/ call[p].kind \in Profiles /\ run[Earlier] # "none"
    OBVIOUS
  <2>1. call[p].kind \in Unidentified
    BY <1>1, ListedAre
  <2>2. CASE call[p].kind = "pull"
    <3>1. r = shown
      BY <1>1, <2>2, ListedAre
    <3>2. CASE r = Earlier
      <4>1. run[p] = "accepted"
        BY <1>7, <2>2, <3>1, <3>2 DEF IInv, PullShows
      <4> QED
        BY <2>1, <2>2, <4>1
    <3>3. CASE r \in Caller
      <4>1. run[r] # "none" /\ call[r].kind = "pull"
        BY <3>1, <3>3 DEF IInv, Shows, EndStates
      <4>2. r \in Rivals(p)
        BY <1>9, <2>2, <3>3, <4>1 DEF Rivals
      <4> QED
        BY <2>1, <4>2
    <3> QED
      BY <1>4, <3>2, <3>3 DEF Run
  <2>3. CASE call[p].kind \in Profiles
    <3>1. run[r] \in EndStates /\ (r # Earlier => call[r].kind \in Profiles)
      BY <1>1, <2>3, ListedAre
    <3>2. CASE r = Earlier
      BY <2>1, <2>3, <3>1, <3>2 DEF EndStates
    <3>3. CASE r \in Caller
      <4>1. r \in Rivals(p)
        BY <1>9, <2>3, <3>1, <3>3 DEF Rivals, EndStates
      <4> QED
        BY <2>1, <4>1
    <3> QED
      BY <1>4, <3>2, <3>3 DEF Run
  <2>4. CASE call[p].kind = "unitTestLegacy"
    <3>1. r = latest /\ r \in Caller
      BY <1>1, <1>7, <2>4, ListedAre
    <3>2. run[r] # "none" /\ call[r].kind = "unitTestLegacy"
      BY <3>1 DEF IInv, Keeps, EndStates
    <3>3. r \in Rivals(p)
      BY <1>9, <2>4, <3>1, <3>2 DEF Rivals
    <3> QED
      BY <2>1, <3>3
  <2> QED
    BY <2>1, <2>2, <2>3, <2>4 DEF Unidentified
<1>11. Rivals(p) \subseteq Rivals(p)'
  BY <1>2, <1>3, <1>6 DEF Rivals
<1>12. GoodReport(p)'
  <2>1. call'[p] = k
    BY <1>2, <1>3
  <2>2. /\ ReportOf(p, r).of = r
        /\ ReportOf(p, r).end = run[r]
        /\ ReportOf(p, r).early = (run[p] = "accepted")
    BY DEF ReportOf
  <2> HIDE DEF k
  <2> QED
    BY <1>2, <1>6, <1>8, <1>10, <1>11, <2>1, <2>2 DEF GoodReport
<1>13. k.report.of \in Caller => k.report.end \in EndStates
  BY <1>6, <1>8 DEF ReportOf
<1> HIDE DEF k
<1>14. k.aborted => call[p].aborted
  BY <1>6
<1> QED
  BY <1>2, <1>3, <1>6, <1>12, <1>13, <1>14, ConversationGoesOn

-----------------------------------------------------------------------------
LEMMA SystemKeeps ==
  ASSUME IInv, NEW p \in Caller, Appear(p) \/ End(p) \/ Unlink
  PROVE  IInv'
<1> USE CallersAssumption
<1>1. run \in [Run -> RunStates] /\ p # Earlier
  BY DEF IInv, TypeOK
<1>2. CASE Appear(p)
  <2>1. run' = [run EXCEPT ![p] = "running"] /\ run[p] = "accepted"
        /\ UNCHANGED <<call, latest>>
    BY <1>2 DEF Appear
  <2>2. call[p].kind = "pull" /\ shown # None => shown' = p
    BY <1>2 DEF Appear
  <2>3. call[p].kind # "pull" \/ shown = None => shown' = shown
    BY <1>2 DEF Appear
  <2> QED
    BY <1>1, <2>1, <2>2, <2>3, SystemGoesOn DEF Run, RunStates
<1>3. CASE End(p)
  <2>1. PICK end \in EndStates : run' = [run EXCEPT ![p] = end]
    BY <1>3 DEF End
  <2> QED
    BY <1>1, <1>3, <2>1, SystemGoesOn DEF End, Run, RunStates, EndStates
<1>4. CASE Unlink
  BY <1>1, <1>4, SystemGoesOn DEF Unlink
<1> QED
  BY <1>2, <1>3, <1>4

LEMMA StutterKeeps == ASSUME IInv, UNCHANGED vars PROVE IInv'
BY DEF IInv, vars, TypeOK, Shows, Keeps, Unstarted, AsksForSomething,
   PullShows, OverWhenReported, PullsPoll, ReportsOwnEnd, Rivals

LEMMA NextKeeps == ASSUME IInv, [Next]_vars PROVE IInv'
<1>1. CASE UNCHANGED vars
  BY <1>1, StutterKeeps
<1>2. CASE Unlink
  <2>1. UNCHANGED <<run, latest, call>> /\ shown' = None
    BY <1>2 DEF Unlink
  <2> QED
    BY <2>1, CallersAssumption, SystemGoesOn DEF IInv, TypeOK
<1>3. ASSUME NEW p \in Caller, NEW k \in Kinds, Begin(p, k) PROVE IInv'
  BY <1>3, BeginKeeps
<1>4. ASSUME NEW p \in Caller, Answer(p) PROVE IInv'
  BY <1>4, PreparationKeeps, StartKeeps, AnswerEndKeeps, PollKeeps DEF Answer
<1>5. ASSUME NEW p \in Caller, Ask(p) \/ Wake(p) PROVE IInv'
  BY <1>5, PollKeeps
<1>6. ASSUME NEW p \in Caller,
             Abort(p) \/ Expire(p) \/ Appear(p) \/ End(p)
      PROVE  IInv'
  BY <1>6, AbortKeeps, ExpireKeeps, SystemKeeps
<1> QED
  BY <1>1, <1>2, <1>3, <1>4, <1>5, <1>6 DEF Next

LEMMA Invariance == Spec => []IInv
BY InitHolds, NextKeeps, PTL DEF Spec

(* The types of the runs and the conversations.                            *)
THEOREM TypeCorrect == Spec => []TypeOK
BY Invariance, PTL DEF IInv

(***************************************************************************)
(* What a conversation reports is the end of a run that is over, and its   *)
(* own wherever the run is known by an id or nobody else can interfere.    *)
(***************************************************************************)
THEOREM ReportsAreOwn == Spec => []ReportsOwnEnd
BY Invariance, PTL DEF IInv

(* A pull begins to poll when it was started or wakes up, unless aborted.  *)
LEMMA StepAfterAbort ==
  ASSUME IInv, [Next]_vars, NEW p \in Caller, call[p].aborted,
         call'[p].phase = "asked"
  PROVE  call[p].phase = "asked"
<1> SUFFICES ASSUME call[p].phase # "asked" PROVE FALSE
  OBVIOUS
<1>1. call \in [Caller -> Call] /\ call[p].kind = "pull"
      /\ call[p].phase # "handed"
  BY DEF IInv, TypeOK, PullsPoll
<1>2. ASSUME NEW q \in Caller,
             \/ \E k \in Kinds : Begin(q, k)
             \/ Prepared(q) \/ Unprepared(q) \/ NotStarted(q)
             \/ StartUnreadable(q) \/ Finish(q) \/ Abort(q) \/ Expire(q)
      PROVE  FALSE
  <2>1. ASSUME NEW k \in Kinds, Begin(q, k) PROVE FALSE
    BY <1>1, <2>1 DEF Begin, Fresh
  <2>2. CASE Prepared(q)
    BY <1>1, <2>2 DEF Prepared, Call
  <2>3. CASE Unprepared(q) \/ NotStarted(q) \/ StartUnreadable(q)
    BY <1>1, <2>3
       DEF Unprepared, NotStarted, StartUnreadable, Rejects, Goes, Call
  <2>4. CASE Finish(q)
    BY <1>1, <2>4 DEF Finish, Resolves, Rejects, Goes, Call
  <2>5. CASE Abort(q) \/ Expire(q)
    BY <1>1, <2>5 DEF Abort, Expire, Call
  <2> QED
    BY <1>2, <2>1, <2>2, <2>3, <2>4, <2>5
<1>3. ASSUME NEW q \in Caller, Started(q) \/ Wake(q) PROVE FALSE
  BY <1>1, <1>3 DEF Started, Wake, AskOrGiveUp, Goes, Call
<1>4. ASSUME NEW q \in Caller, Ask(q) PROVE FALSE
  BY <1>1, <1>4 DEF Ask, Goes
<1>5. ASSUME NEW q \in Caller, AnswerEnd(q) PROVE FALSE
  BY <1>1, <1>5 DEF AnswerEnd, Concluding
<1>6. ASSUME NEW q \in Caller, AnswerRunning(q) \/ AnswerFails(q) PROVE FALSE
  BY <1>1, <1>6 DEF AnswerRunning, AnswerFails, Pause, Rejects, Goes
<1>7. ASSUME NEW q \in Caller, Appear(q) \/ End(q) \/ Unlink PROVE FALSE
  BY <1>7 DEF Appear, End, Unlink
<1>8. CASE Unlink \/ UNCHANGED vars
  BY <1>8 DEF Unlink, vars
<1> QED
  BY <1>2, <1>3, <1>4, <1>5, <1>6, <1>7, <1>8 DEF Next, Answer

(* Once aborted, a pull does not begin to poll.                            *)
THEOREM AbortEndsPolling == Spec => NothingAfterAbort
<1>1. IInv /\ [Next]_vars
      => [\A p \in Caller :
            call[p].aborted /\ call'[p].phase = "asked"
              => call[p].phase = "asked"]_vars
  BY StepAfterAbort
<1> QED
  BY <1>1, Invariance, PTL DEF Spec, NothingAfterAbort
=============================================================================
