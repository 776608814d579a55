--------------------------- MODULE ResourceShapes ---------------------------
(***************************************************************************)
(* How the request functions of a type must read the answers of the system *)
(* for its methods to tell their callers the truth.  Every shape is a      *)
(* statement about one query, or about the functions in the places of the  *)
(* requests of one chain; the order of those requests is the business of   *)
(* module ChainShapes.                                                     *)
(***************************************************************************)
EXTENDS Resources, ChainShapes

(* Whichever attempt it is the answer to, none of them is passed over.     *)
Notices(reading, answers) ==
  /\ answers \subseteq reading.throws
  /\ answers \cap reading.again = {}
  /\ reading.again = {} \/ answers \subseteq reading.rethrows

-----------------------------------------------------------------------------
(* Queries. *)

(* A read fails on every error, but for 404 if that is an answer.          *)
NoticesErrors(q) == q.req = "source" => Notices(q.reading, Errors)

(* The version the caller asks for is the one the request states.          *)
PassesVersion(q) ==
  q.req = "source" => \A v \in Versions : q.told[v] = v

(* The check of a content that is given fails on what it reports.          *)
NoticesReport(q) ==
  q.req = "check" /\ q.gives => Notices(q.reading, {"flawed"})

-----------------------------------------------------------------------------
(* Chains, with the record of their type. *)

(* The function of a request the chain sends notices some answers.         *)
Heeds(c, record, r, answers) ==
  Sends(c, r) => Notices(record.requests[r], answers)

(* What a check before a write reports. *)
HeedsReport(c, record) ==
  (\E i, j \in DOMAIN c.steps :
     i < j /\ c.steps[i].req = "check" /\ c.steps[j].req = "write")
  => Notices(record.requests["check"], {"flawed"})

(* That there is no lock, or that it has no handle. *)
HeedsLock(c, record) == Heeds(c, record, "lock", Errors \cup {"silent"})

(* That nothing was created; that nothing was written. *)
HeedsCreate(c, record) == Heeds(c, record, "create", Errors)

HeedsWrite(c, record) == Heeds(c, record, "write", Errors)

(* That nothing was activated, although the system says 200. *)
HeedsActivation(c, record) ==
  Heeds(c, record, "activate", Errors \cup {"flawed", "excused"})

(* That the deletion would be refused. *)
HeedsVerdict(c, record) ==
  Heeds(c, record, "verdict", Errors \cup {"flawed", "silent"})

(* That the deletion has failed; that it was refused with a success status *)
(* (not by the types of direct, which have no deletion API).               *)
HeedsDeletion(c, record) ==
  \A r \in Deletions : Heeds(c, record, r, Errors)

HeedsRefusal(c, record, direct) ==
  c.name[1] \in direct \/ \A r \in {"delete", "deleteProven"} :
                            Heeds(c, record, r, {"flawed"})

(* What is read back is read in the version that was written, which for    *)
(* the types of immediate is the only one.                                 *)
ReadsOwn(c, record, immediate) ==
  Sends(c, "write") /\ Sends(c, "read") =>
    /\ Notices(record.requests["read"], Errors)
    /\ c.name[1] \in immediate \/ record.source[record.back] = "inactive"
=============================================================================
