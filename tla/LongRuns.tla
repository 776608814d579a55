------------------------------ MODULE LongRuns ------------------------------
(***************************************************************************)
(* Work that goes on in the system after the request that started it was   *)
(* answered: abapGit pulls, activation runs, profiled class and program    *)
(* executions, ATC runs and unit test runs.  A conversation starts such a  *)
(* run and finds out how it ended, by polling of its own or by what the    *)
(* caller asks later.  Some conversations know their run by an id, others  *)
(* look at something that shows one run or another: the repository shows   *)
(* the last pull, the list of traces those of earlier executions, and the  *)
(* legacy unit test handler keeps the last result, whatever id it is asked *)
(* for.                                                                    *)
(*                                                                         *)
(* All pulls are of one repository, all unit tests run with one handler.   *)
(***************************************************************************)
EXTENDS Integers, Sequences

CONSTANTS
  Caller,    \* one conversation each
  Earlier,   \* the run before them
  Attempts,  \* maxTraceAttempts
  None

ASSUME CallersAssumption == Earlier \notin Caller /\ None \notin Caller \cup {Earlier}
ASSUME AttemptsAssumption == Attempts \in Nat \ {0}

-----------------------------------------------------------------------------
(***************************************************************************)
(* A conversation:                                                         *)
(*   before       the requests before the one that starts the run          *)
(*   spare        those that may fail, or are left out                     *)
(*   reads        TRUE when something must be read from the answer to the  *)
(*                start, the id of the run or its outcome                  *)
(*   synchronous  TRUE when the run has ended when the start is answered   *)
(*   bound        what ends the polling: a clock, a number of attempts;    *)
(*                nothing where polling, if any, is up to the caller       *)
(*   final        what is asked for at the end                             *)
(***************************************************************************)
pullRepo ==
  [before |-> <<"repository">>, spare |-> {}, reads |-> FALSE,
   synchronous |-> FALSE, bound |-> "clock", final |-> "log"]

activateObjectsGroup ==
  [before |-> << >>, spare |-> {}, reads |-> TRUE,
   synchronous |-> FALSE, bound |-> "clock", final |-> "results"]

(* The execution is over, but its trace is written some time later. *)
runClassWithProfiling ==
  [before |-> <<"parameters", "user">>, spare |-> {"user"}, reads |-> FALSE,
   synchronous |-> FALSE, bound |-> "attempts", final |-> "none"]

runProgramWithProfiling ==
  [before |-> <<"parameters">>, spare |-> {}, reads |-> FALSE,
   synchronous |-> FALSE, bound |-> "none", final |-> "none"]

atcRun ==
  [before |-> <<"variant", "worklist">>, spare |-> {}, reads |-> TRUE,
   synchronous |-> FALSE, bound |-> "none", final |-> "findings"]

(* The statistics come with the answer to the start; what the caller asks  *)
(* for with the id of the worklist are the findings.                       *)
atcRunWaiting == [atcRun EXCEPT !.synchronous = TRUE, !.final = "none"]

unitTestRun ==
  [before |-> << >>, spare |-> {}, reads |-> TRUE,
   synchronous |-> FALSE, bound |-> "none", final |-> "results"]

unitTestRunLegacy ==
  [unitTestRun EXCEPT !.reads = FALSE, !.synchronous = TRUE,
                      !.final = "none"]

Conversation ==
  [pull |-> pullRepo, activation |-> activateObjectsGroup,
   classProfile |-> runClassWithProfiling,
   programProfile |-> runProgramWithProfiling,
   atc |-> atcRun, atcWaiting |-> atcRunWaiting,
   unitTest |-> unitTestRun, unitTestLegacy |-> unitTestRunLegacy]

Kinds == DOMAIN Conversation

(* Conversations that list traces, and take the first one. *)
Profiles == {"classProfile", "programProfile"}

(* Conversations that do not ask for their run by its id. *)
Unidentified == Profiles \cup {"pull", "unitTestLegacy"}

-----------------------------------------------------------------------------
VARIABLES
  run,     \* server: what has become of the run of each caller
  shown,   \* server: the pull the repository shows, None once unlinked
  latest,  \* the legacy handler: whose result it keeps
  call     \* the conversations

vars == <<run, shown, latest, call>>

Run == Caller \cup {Earlier}

RunStates == {"none", "accepted", "running", "succeeded", "failed"}

EndStates == {"succeeded", "failed"}

(***************************************************************************)
(* phase   preparing: a request before the start is awaited; starting: the *)
(*         start; asked: a poll; sleeping: the pause before the next;      *)
(*         finishing: the last request; handed: the caller has the id or   *)
(*         the trace list and may ask; resolved, rejected                  *)
(* report  the run the conversation has reported the end of, its end, and  *)
(*         whether the repository did not show the own pull yet            *)
(***************************************************************************)
Phases ==
  {"idle", "preparing", "starting", "asked", "sleeping", "finishing",
   "handed", "resolved", "rejected"}

Awaiting == {"preparing", "starting", "asked", "sleeping", "finishing"}

Report == [of : Run, end : RunStates, early : BOOLEAN]

Call ==
  [kind : Kinds, phase : Phases, at : Nat, tries : Nat,
   aborted : BOOLEAN, late : BOOLEAN, report : Report \cup {None}]

TypeOK ==
  /\ run \in [Run -> RunStates]
  /\ shown \in Run \cup {None}
  /\ latest \in Run
  /\ call \in [Caller -> Call]

Fresh ==
  [kind |-> "pull", phase |-> "idle", at |-> 1, tries |-> 0,
   aborted |-> FALSE, late |-> FALSE, report |-> None]

Init ==
  /\ run \in {[r \in Run |-> IF r = Earlier THEN end ELSE "none"] :
                end \in EndStates \cup {"none"}}
  /\ shown = Earlier
  /\ latest = Earlier
  /\ call = [p \in Caller |-> Fresh]

-----------------------------------------------------------------------------
(* Reading the state. *)

Of(p) == Conversation[call[p].kind]

Goes(p, phase) == call' = [call EXCEPT ![p].phase = phase]

Resolves(p) == Goes(p, "resolved")

Rejects(p) == Goes(p, "rejected")

(* The runs the answer to a poll may be about. *)
Listed(p) ==
  CASE call[p].kind = "pull" -> {shown} \ {None}
    [] call[p].kind \in Profiles ->
         {r \in Run : run[r] \in EndStates
                      /\ (r # Earlier => call[r].kind \in Profiles)}
    [] call[p].kind = "unitTestLegacy" -> {latest}
    [] OTHER -> {p}

(* Mutant: a run that is under way is taken for one that has ended. *)
TerminalWhenShown(p, r) == run[r] # "accepted"

(* Whether the answer to a poll is taken for the end of run r: for a pull  *)
(* every status but R, also that of a repository that was never pulled,    *)
(* for an ATC run the one status "finished".                               *)
Terminal(p, r) ==
  run[r] \in CASE call[p].kind = "pull" -> EndStates \cup {"none"}
               [] call[p].kind = "atc" -> {"succeeded"}
               [] OTHER -> EndStates

(* Mutant: whatever the repository shows is reported. *)
ReportOfShown(p, r) ==
  [of |-> shown, end |-> run[r], early |-> run[p] = "accepted"]

(* What is reported of run r. *)
ReportOf(p, r) ==
  [of |-> r, end |-> run[r], early |-> run[p] = "accepted"]

-----------------------------------------------------------------------------
(* The start of a conversation. *)

Begin(p, k) ==
  /\ call[p].phase = "idle"
  /\ \E first \in 1 .. Len(Conversation[k].before) + 1 :
       /\ \A i \in 1 .. first - 1 :
            Conversation[k].before[i] = "variant"
       /\ call' = [call EXCEPT
                     ![p] = [Fresh EXCEPT
                               !.kind = k, !.at = first,
                               !.phase =
                                 IF first > Len(Conversation[k].before)
                                   THEN "starting" ELSE "preparing"]]
  /\ UNCHANGED <<run, shown, latest>>

(* A request before the start is answered; the repository must be there.   *)
Prepared(p) ==
  /\ call[p].phase = "preparing"
  /\ call[p].kind = "pull" => shown # None
  /\ LET next == call[p].at + 1
     IN call' = [call EXCEPT
                   ![p].at = next,
                   ![p].phase = IF next > Len(Of(p).before)
                                  THEN "starting" ELSE @]
  /\ UNCHANGED <<run, shown, latest>>

Unprepared(p) ==
  /\ call[p].phase = "preparing"
  /\ Of(p).before[call[p].at] \notin Of(p).spare
  /\ Rejects(p)
  /\ UNCHANGED <<run, shown, latest>>

(* Mutants: the signal is only looked at in the pause, the clock nowhere.  *)
AskUnlessLate(p) == Goes(p, IF call[p].late THEN "rejected" ELSE "asked")
AskUnlessAborted(p) == Goes(p, IF call[p].aborted THEN "rejected" ELSE "asked")

(* The top of the loop: who is aborted or late does not ask once more.     *)
AskOrGiveUp(p) ==
  Goes(p, IF call[p].aborted \/ call[p].late THEN "rejected" ELSE "asked")

(* The start is answered. *)
Started(p) ==
  /\ call[p].phase = "starting"
  /\ IF Of(p).synchronous
       THEN \E end \in EndStates : run' = [run EXCEPT ![p] = end]
       ELSE run' = [run EXCEPT ![p] = "accepted"]
  /\ latest' = IF call[p].kind = "unitTestLegacy" THEN p ELSE latest
  /\ IF Of(p).bound = "none" THEN Goes(p, "handed") ELSE AskOrGiveUp(p)
  /\ UNCHANGED shown

(* It fails; the run may have been started all the same.                   *)
NotStarted(p) ==
  /\ call[p].phase = "starting"
  /\ Rejects(p)
  /\ run' \in {run, [run EXCEPT ![p] = "accepted"]}
  /\ UNCHANGED <<shown, latest>>

(* It is answered, but without what must be read from it.                  *)
StartUnreadable(p) ==
  /\ call[p].phase = "starting"
  /\ Of(p).reads
  /\ Rejects(p)
  /\ run' = [run EXCEPT ![p] = "accepted"]
  /\ UNCHANGED <<shown, latest>>

-----------------------------------------------------------------------------
(* Finding out how it ended. *)

(* The caller asks with the id it was handed, or looks at the list.        *)
Ask(p) ==
  /\ call[p].phase = "handed"
  /\ Goes(p, "asked")
  /\ UNCHANGED <<run, shown, latest>>

(* Where the conversation goes that has seen the end of run r: an          *)
(* activation that failed is an error, the log of a pull is read when it   *)
(* failed.                                                                 *)
Concluding(p, r) ==
  IF call[p].kind = "activation" /\ run[r] = "failed" THEN "rejected"
  ELSE IF \/ Of(p).final = "none"
          \/ Of(p).final = "log" /\ run[r] # "failed" THEN "resolved"
  ELSE "finishing"

AnswerEnd(p) ==
  /\ call[p].phase = "asked"
  /\ \E r \in Listed(p) :
       /\ Terminal(p, r)
       /\ call' = [call EXCEPT ![p].phase = Concluding(p, r),
                               ![p].report = ReportOf(p, r)]
  /\ UNCHANGED <<run, shown, latest>>

(* Where the conversation goes after a poll that did not show an end.      *)
Pause(p) ==
  CASE Of(p).bound = "none" -> Goes(p, "handed")
    [] Of(p).bound = "attempts" ->
         call' = [call EXCEPT
                    ![p].tries = @ + 1,
                    ![p].phase = IF call[p].tries + 1 < Attempts
                                   THEN "sleeping" ELSE "rejected"]
    [] OTHER -> Goes(p, IF call[p].aborted THEN "rejected" ELSE "sleeping")

(* Not there yet, or not in the list: an unlinked repository is polled on, *)
(* and the trace may not have been written.                                *)
AnswerRunning(p) ==
  /\ call[p].phase = "asked"
  /\ \/ Listed(p) = {} \/ call[p].kind \in Profiles
     \/ \E r \in Listed(p) : ~Terminal(p, r)
  /\ Pause(p)
  /\ UNCHANGED <<run, shown, latest>>

(* The poll fails or cannot be read, or onProgress throws.  Lookups of     *)
(* traces swallow it, a status the caller asked for can be asked again.    *)
AnswerFails(p) ==
  /\ call[p].phase = "asked"
  /\ call[p].kind # "unitTestLegacy"
  /\ IF Of(p).bound = "clock" THEN Rejects(p) ELSE Pause(p)
  /\ UNCHANGED <<run, shown, latest>>

(* The timer of the pause.                                                 *)
Wake(p) ==
  /\ call[p].phase = "sleeping"
  /\ AskOrGiveUp(p)
  /\ UNCHANGED <<run, shown, latest>>

(* The last request: the error log is best-effort.                         *)
Finish(p) ==
  /\ call[p].phase = "finishing"
  /\ \/ Resolves(p)
     \/ Of(p).final # "log" /\ Rejects(p)
  /\ UNCHANGED <<run, shown, latest>>

(* The caller aborts, which ends the pause and nothing else.               *)
Abort(p) ==
  /\ call[p].kind = "pull"
  /\ call[p].phase \in Awaiting
  /\ call' = [call EXCEPT ![p].aborted = TRUE,
                          ![p].phase = IF @ = "sleeping" THEN "rejected"
                                                         ELSE @]
  /\ UNCHANGED <<run, shown, latest>>

(* The deadline passes: maxPollDurationMs, maxWaitTime.                    *)
Expire(p) ==
  /\ Of(p).bound = "clock"
  /\ call[p].phase \in {"asked", "sleeping"}
  /\ ~call[p].late
  /\ call' = [call EXCEPT ![p].late = TRUE]
  /\ UNCHANGED <<run, shown, latest>>

-----------------------------------------------------------------------------
(* The system. *)

(* An accepted run is under way, and a pull is what the repository shows.  *)
Appear(p) ==
  /\ run[p] = "accepted"
  /\ run' = [run EXCEPT ![p] = "running"]
  /\ shown' = IF call[p].kind = "pull" /\ shown # None THEN p ELSE shown
  /\ UNCHANGED <<latest, call>>

End(p) ==
  /\ run[p] = "running"
  /\ \E end \in EndStates : run' = [run EXCEPT ![p] = end]
  /\ UNCHANGED <<shown, latest, call>>

(* Somebody unlinks the repository. *)
Unlink ==
  /\ shown # None
  /\ shown' = None
  /\ UNCHANGED <<run, latest, call>>

-----------------------------------------------------------------------------
(* A request is answered or times out. *)
Answer(p) ==
  \/ Prepared(p) \/ Unprepared(p)
  \/ Started(p) \/ NotStarted(p) \/ StartUnreadable(p)
  \/ AnswerEnd(p) \/ AnswerRunning(p) \/ AnswerFails(p)
  \/ Finish(p)

Next ==
  \/ \E p \in Caller :
       \/ \E k \in Kinds : Begin(p, k)
       \/ Answer(p) \/ Ask(p) \/ Wake(p) \/ Abort(p) \/ Expire(p)
       \/ Appear(p) \/ End(p)
  \/ Unlink

(* Requests have timeouts, timers fire, and time passes; nothing says that *)
(* a run ever ends.                                                        *)
Fairness ==
  \A p \in Caller :
    WF_vars(Answer(p)) /\ WF_vars(Wake(p)) /\ WF_vars(Expire(p))

Spec == Init /\ [][Next]_vars /\ Fairness
-----------------------------------------------------------------------------
Rivals(p) ==
  {q \in Caller \ {p} :
     /\ call[q].phase # "idle"
     /\ \/ call[q].kind = call[p].kind
        \/ {call[p].kind, call[q].kind} \subseteq Profiles}

(***************************************************************************)
(* What a conversation reports is the end of a run that has ended that     *)
(* way, and it is its own run: always where the run is known by its id;    *)
(* for a pull if the repository shows it already and nobody else pulled    *)
(* (poll.ts:71-83); for a profiled execution if there is no other trace    *)
(* (ClassExecutor.ts:145); for the legacy unit tests if nobody else has    *)
(* run any with the handler (AdtUnitTestLegacy.ts:69-94).                  *)
(***************************************************************************)
ReportsOwnEnd ==
  \A p \in Caller :
    LET report == call[p].report
        others == \/ Rivals(p) # {}
                  \/ call[p].kind = "pull" /\ report.early
                  \/ call[p].kind \in Profiles /\ run[Earlier] # "none"
    IN report # None =>
         /\ run[report.of] = report.end
         /\ report.end \in EndStates \/ report.early
         /\ report.of # p => others /\ call[p].kind \in Unidentified

(***************************************************************************)
(* Once aborted, a pull polls no more: not when it is aborted in the pause *)
(* nor while a poll is awaited, nor before the first one (poll.ts:54-58).  *)
(* What was on the way then is still sent, the start of the pull included, *)
(* and an end that is seen all the same is reported.                       *)
(***************************************************************************)
NothingAfterAbort ==
  [][\A p \in Caller :
       call[p].aborted /\ call'[p].phase = "asked"
         => call[p].phase = "asked"]_vars

(***************************************************************************)
(* Every conversation settles, or hands the caller the id, even if the run *)
(* never ends, the repository is gone or no trace is ever written.         *)
(***************************************************************************)
EveryWaitEnds ==
  \A p \in Caller :
    call[p].phase \in Awaiting ~> call[p].phase \notin Awaiting
=============================================================================
