----------------------------- MODULE Resources ------------------------------
(***************************************************************************)
(* The vocabulary in which the request functions of core/<type>/ are       *)
(* written down.  Such a function builds one request, awaits it, and       *)
(* decides from the answer whether to throw.  Of the body of the request   *)
(* the model keeps what the object is asked for, of the answer what the    *)
(* functions tell apart.                                                   *)
(*                                                                         *)
(* Answers with a success status (2xx):                                    *)
(*   ok           nothing to remark                                        *)
(*   silent       what was to be read from it is missing: the lock handle, *)
(*                the isDeletable of a deletion check                      *)
(*   warned       messages, warnings at most                               *)
(*   echo         the completion notice of the check run repeated as an    *)
(*                error message                                            *)
(*   excused      error messages, among them one the text of which some    *)
(*                check functions tolerate                                 *)
(*   flawed       error messages, none of which is tolerated               *)
(*   unprocessed  the check run did not process the object                 *)
(* Answers with an error status, and no answer at all:                     *)
(*   gone 404, bad 400, kerberos 400 with the Kerberos text,               *)
(*   unsupported 405 or 501, failed any other, timeouts included           *)
(***************************************************************************)
EXTENDS Chains

Replies ==
  {"ok", "silent", "warned", "echo", "excused", "flawed", "unprocessed"}

Errors == {"gone", "bad", "kerberos", "unsupported", "failed"}

Answers == Replies \cup Errors

(***************************************************************************)
(* How a function takes the answer to its request:                         *)
(*   throws    answers it throws on                                        *)
(*   again     answers to the first attempt on which it asks once more     *)
(*   rethrows  answers to the second attempt it throws on                  *)
(***************************************************************************)
Reading ==
  [throws : SUBSET Answers, again : SUBSET Answers, rethrows : SUBSET Answers]

ThrowsOn(answers) == [throws |-> answers, again |-> {}, rethrows |-> {}]

(* The answer is handed on as it is; makeAdtRequest rejects on errors.     *)
Unread == ThrowsOn(Errors)

(* Functions that also throw on what they read in the answer.              *)
Heeding(answers) == ThrowsOn(Errors \cup answers)

(* Functions that take some errors for an answer.                          *)
Taking(answers) == ThrowsOn(Errors \ answers)

(* The lock handle is read from the answer.                                *)
NeedsHandle == Heeding({"silent"})

(* Mutant: error messages of a check run are not looked at. *)
ReportUnread == Heeding({"unprocessed"})

(* parseCheckRunResponse() and a throw on has_errors: errors apart from    *)
(* the echoed status text, and objects that were not processed.            *)
NoErrors == Heeding({"flawed", "excused", "unprocessed"})

(* The same, but a tolerated text anywhere in the report excuses it all.   *)
NoErrorsBut == Heeding({"flawed", "unprocessed"})

(* Warnings are errors, too.                                               *)
NoWarnings == Heeding({"flawed", "excused", "warned", "unprocessed"})

(* Asked once more on some answers, which then pass.                       *)
OnceMore(reading, answers) ==
  [reading EXCEPT !.again = answers, !.throws = @ \ answers,
                  !.rethrows = reading.throws \ answers]

(* Mutants: an activation, and a verdict, is not looked at. *)
NoFailure == {}
NoRefusal == {}

(***************************************************************************)
(* utils/activationUtils.ts: the endpoint answers 200 also when it         *)
(* activates nothing, and an E message is the one sign of it.              *)
(***************************************************************************)
detectActivationFailure == {"flawed", "excused"}

assertActivationSucceeded == detectActivationFailure

activateObjectInSession == Heeding(detectActivationFailure)

(* utils/deletionCheck.ts: refused, and a verdict that was not stated.     *)
assertDeletable == {"flawed", "silent"}

(***************************************************************************)
(* Which version a request states.  A caller asks for the active or the    *)
(* inactive version or for none in particular; the query of the request    *)
(* tells the server one of them or leaves it unstated.                     *)
(***************************************************************************)
Versions == {"active", "inactive"}
Asked == Versions \cup {"none"}
Told == Versions \cup {"unstated"}

(* The version as the caller gave it, or with a default. *)
Passed == [a \in Asked |-> a]

OrActive == [Passed EXCEPT !["none"] = "active"]

OrInactive == [Passed EXCEPT !["none"] = "inactive"]

Unversioned == [a \in Asked |-> "unstated"]

IfGiven == [a \in Asked |-> IF a = "none" THEN "unstated" ELSE a]

OnlyInactive == [IfGiven EXCEPT !["active"] = "unstated"]

Always(v) == [a \in Asked |-> v]

-----------------------------------------------------------------------------
(***************************************************************************)
(* A type: its request functions in the places of the requests of a chain, *)
(* the function read() reads with, and what update() asks for when it      *)
(* polls for what it has written and when it reads it back.                *)
(***************************************************************************)
TypeRecord ==
  [requests : [Requests -> Reading], source : [Asked -> Told],
   written : Asked, back : Asked]

(* Reading, patching and writing back is one function; the answer of the   *)
(* deletion check is handed to assertDeletable or not.                     *)
Place ==
  [r \in Requests |->
     CASE r = "fetch" -> "write"
       [] r = "verdictUnread" -> "verdict"
       [] r \in {"deleteProven", "deleteLocked"} -> "delete"
       [] OTHER -> r]

Placed(f) ==
  [r \in Requests |->
     LET reading == IF Place[r] \in DOMAIN f THEN f[Place[r]] ELSE Unread
     IN IF r = "verdict"
          THEN [reading EXCEPT !.throws = @ \cup assertDeletable]
          ELSE reading]

TypeOf(f, source, written, back) ==
  [requests |-> Placed(f), source |-> source, written |-> written,
   back |-> back]

-----------------------------------------------------------------------------
(***************************************************************************)
(* The methods of a handler that send one request and change nothing:      *)
(*   req      what is asked for                                            *)
(*   told     the version the request states, by the version the caller    *)
(*            asked for                                                    *)
(*   reading  how the answer is taken                                      *)
(*   absent   TRUE when 404 becomes a resolved "there is none"             *)
(*   gives    TRUE when a check is given the content, if there is one, to  *)
(*            be checked instead of what is saved                          *)
(***************************************************************************)
Query ==
  [name : STRING \X STRING,
   req : {"source", "metadata", "transport", "validate", "check"},
   told : [Asked -> Told], reading : Reading, absent : BOOLEAN,
   gives : BOOLEAN]

Querying(type, method, req, told, reading) ==
  [name |-> <<type, method>>, req |-> req, told |-> told,
   reading |-> reading, absent |-> FALSE, gives |-> FALSE]

(* Mutant: the handler does not pass the version on. *)
ThroughDefault(pass, fn) == [a \in Asked |-> fn["none"]]

Through(pass, fn) == [a \in Asked |-> fn[pass[a]]]

(* Mutant: every error is taken for an object that does not exist. *)
ReadsOrNothing(type, method, pass, fn) ==
  [Querying(type, method, "source", Through(pass, fn), Taking({"failed"}))
     EXCEPT !.absent = TRUE]

Reads(type, method, pass, fn) ==
  [Querying(type, method, "source", Through(pass, fn), Unread)
     EXCEPT !.absent = TRUE]

ReadsMetadata(type, pass, fn) ==
  Querying(type, "readMetadata", "metadata", Through(pass, fn), Unread)

ReadsTransport(type, fn) ==
  Querying(type, "readTransport", "transport", fn, Unread)

Validates(type, fn) == Querying(type, "validate", "validate", Unversioned, fn)

(* Some errors mean that the system does not offer the validation.         *)
ValidatesIfSupported(type, answers, fn) ==
  Validates(type, [fn EXCEPT !.throws = @ \ answers])

(* check(config, status): the inactive version unless status is 'active'.  *)
Checks(type, fn) == Querying(type, "check", "check", OrInactive, fn)

ChecksGiven(type, method, fn) ==
  [Checks(type, fn) EXCEPT !.name[2] = method, !.gives = TRUE]
=============================================================================
