---------------------------- MODULE ChainShapes -----------------------------
(***************************************************************************)
(* What the order of the requests of a method, their conditions and the    *)
(* session types around them must be like for the method to keep what its  *)
(* callers rely on.  Every shape is a statement about one chain alone; the *)
(* proofs show what follows from it for any number of callers, however     *)
(* they interleave and however the system answers.                         *)
(***************************************************************************)
EXTENDS Chains

(* A request that a call with these flags does not skip, and whose failure *)
(* is not swallowed.                                                       *)
Sure(s, flags) == ~s.soft /\ s.needs \subseteq flags

(* The UNLOCK that no call with a lock gets past without giving it back.   *)
EndsLock(s) == s.req = "unlock" /\ Sure(s, {"held"})

-----------------------------------------------------------------------------
(* Nothing is read before the lock is taken. *)
LocksBeforeReading(c) ==
  \A i, j \in DOMAIN c.steps :
    i < j /\ c.steps[i].req = "fetch" => c.steps[j].req # "lock"

(* The lock is given back for good, source or document that is given is    *)
(* written, and what is activated on demand is not written again.          *)
Delivers(c) ==
  /\ \E i \in DOMAIN c.steps :
       /\ EndsLock(c.steps[i])
       /\ \A j \in DOMAIN c.steps : i < j => c.steps[j].req # "lock"
  /\ "body" \in OptionsOf(c) =>
       \E i \in DOMAIN c.steps :
         c.steps[i].req = "write" /\ Sure(c.steps[i], {"body"})
  /\ "activate" \in OptionsOf(c) =>
       \E i \in DOMAIN c.steps :
         /\ c.steps[i].req = "activate" /\ Sure(c.steps[i], {"activate"})
         /\ \A j \in DOMAIN c.steps : i < j => c.steps[j].req # "write"

(* The object is deleted in a way that its refusal is noticed: the answer  *)
(* is read, or the deletion check before it is heeded.                     *)
Deletes(c) ==
  \E i \in DOMAIN c.steps :
    /\ Sure(c.steps[i], {})
    /\ \A j \in DOMAIN c.steps : i < j => c.steps[j].req # "create"
    /\ \/ c.steps[i].req \in {"deleteProven", "deleteLocked"}
       \/ /\ c.steps[i].req = "delete"
          /\ \E j \in DOMAIN c.steps :
               /\ j < i
               /\ c.steps[j].req = "verdict" /\ Sure(c.steps[j], {})

(* objectCreated is set past the creation only, and what the catch block   *)
(* deletes it deletes under objectCreated and deleteOnFailure.             *)
CleansUpOwn(c) ==
  /\ \A i \in DOMAIN c.steps :
       /\ c.steps[i].req \notin {"delete", "deleteProven"}
       /\ c.steps[i].marks =>
            \E j \in DOMAIN c.steps :
              j <= i /\ c.steps[j].req = "create" /\ Sure(c.steps[j], {})
  /\ \A i \in DOMAIN c.rescue :
       /\ ~c.rescue[i].marks
       /\ c.rescue[i].req \in {"delete", "deleteProven"} =>
            {"created", "cleanup"} \subseteq c.rescue[i].needs

-----------------------------------------------------------------------------
(* Session types. *)

(* The i-th request may be sent with a lock the method has taken itself.   *)
MayHold(c, i) ==
  \E j \in DOMAIN c.steps :
    /\ j < i /\ c.steps[j].req = "lock"
    /\ \A k \in DOMAIN c.steps : j < k /\ k < i => ~EndsLock(c.steps[k])

(* LOCK is sent stateful, nothing ends the session while the lock may be   *)
(* held, and the catch block starts in it or returns to it.                *)
StaysStateful(c) ==
  /\ \A i \in DOMAIN c.steps : c.steps[i].req = "lock" =>
       c.steps[i].before = "stateful" /\ c.steps[i].after # "stateless"
  /\ \A i \in DOMAIN c.steps : MayHold(c, i) =>
       /\ c.steps[i].before # "stateless"
       /\ c.steps[i].req # "unlock" => c.steps[i].after # "stateless"
       /\ c.steps[i].soft => c.steps[i].fail # "stateless"
  /\ \A i \in DOMAIN c.rescue :
       c.rescue[i].req \in {"write", "unlock", "deleteLocked"} =>
         \/ c.rescue[i].before = "stateful"
         \/ /\ c.rescue[i].before = "keep"
            /\ i = 1 /\ c.catch # "stateless"
            /\ \A k \in DOMAIN c.steps :
                 MayHold(c, k) => c.steps[k].fail # "stateless"

NeverStateful(s) == "stateful" \notin {s.before, s.after, s.fail}

(* The finally ends the session, or the inner one has done so.             *)
EndsInFinally(c) ==
  /\ c.exit = "stateless"
  /\ \A i \in DOMAIN c.steps : c.steps[i].closes =>
       /\ c.steps[i].after = "stateless"
       /\ \A j \in DOMAIN c.steps : i < j => NeverStateful(c.steps[j])

(***************************************************************************)
(* The session ends with the first UNLOCK, the one that cannot be passed   *)
(* with the lock; the catch block ends it when there is no lock, and what  *)
(* it sends stateful it ends itself.                                       *)
(***************************************************************************)
EndsWithUnlock(c) ==
  /\ ~c.steps[1].soft
  /\ \E u \in DOMAIN c.steps :
       /\ EndsLock(c.steps[u]) /\ c.steps[u].after = "stateless"
       /\ \A j \in DOMAIN c.steps :
            /\ j < u => c.steps[j].req # "unlock"
            /\ u < j => NeverStateful(c.steps[j])
  /\ c.catchUnlocked = "stateless" /\ c.exit # "stateful"
  /\ \A i \in DOMAIN c.rescue :
       LET s == c.rescue[i]
       IN /\ s.fail # "stateful" /\ s.after # "stateful"
          /\ s.req = "unlock" => s.after = "stateless" /\ "held" \in s.needs
          /\ s.before = "stateful" /\ s.req # "unlock" =>
               s.after = "stateless" /\ s.fail = "stateless"

Resets(c) == EndsInFinally(c) \/ EndsWithUnlock(c)

-----------------------------------------------------------------------------
(* What lasts: the shapes module ObjectVersions_proofs asks for. *)

Deletions == {"delete", "deleteProven", "deleteLocked"}

(* The method sends this request, unless something fails. *)
Sends(c, r) == \E i \in DOMAIN c.steps : c.steps[i].req = r

(* A request that fails the method when it fails, and that is sent as the  *)
(* options of the caller say, whatever happened before it.                 *)
Firm(s) == ~s.soft /\ s.needs \subseteq Options \cup {"inert"}

(* Some requests do not come after the i-th. *)
NoneAfter(c, i, requests) ==
  \A j \in DOMAIN c.steps : i < j => c.steps[j].req \notin requests

(* The checks before a write are not swallowed. *)
ChecksFirmly(c) ==
  \A i, j \in DOMAIN c.steps :
    c.steps[i].req = "check" /\ i < j /\ c.steps[j].req = "write" =>
      ~c.steps[i].soft

(* The creation is, and nothing is deleted. *)
CreatesFirmly(c) ==
  /\ \E i \in DOMAIN c.steps :
       c.steps[i].req = "create" /\ Sure(c.steps[i], {})
  /\ \A r \in Deletions : ~Sends(c, r)

(* So are the writes and the activations, they are under one lock, and     *)
(* nothing is written after an activation.                                 *)
WritesFirmly(c) ==
  \A i \in DOMAIN c.steps :
    /\ c.steps[i].req = "write" =>
         Firm(c.steps[i]) /\ NoneAfter(c, i, Deletions \cup {"lock"})
    /\ c.steps[i].req = "activate" =>
         /\ Firm(c.steps[i])
         /\ NoneAfter(c, i, Deletions \cup {"lock", "write"})

(* What is read back is read once, after the writes and without an         *)
(* activation.                                                             *)
ReadsBackLast(c) ==
  \A i \in DOMAIN c.steps : c.steps[i].req = "read" /\ Sends(c, "write") =>
    /\ Firm(c.steps[i]) /\ NoneAfter(c, i, {"write", "read"})
    /\ \A j \in DOMAIN c.steps : c.steps[j].req = "activate" =>
         "activate" \in c.steps[j].needs /\ "inert" \in c.steps[i].needs

(* The object is deleted, by a method that creates nothing. *)
DeletesFirmly(c) ==
  /\ ~Sends(c, "create")
  /\ \E i \in DOMAIN c.steps :
       c.steps[i].req \in Deletions /\ Sure(c.steps[i], {})

(* Every deletion comes after a deletion check, and nothing is locked.     *)
DeletesChecked(c) ==
  /\ ~Sends(c, "lock")
  /\ \A j \in DOMAIN c.steps : c.steps[j].req \in Deletions =>
       \E i \in DOMAIN c.steps :
         i < j /\ c.steps[i].req = "verdict" /\ Sure(c.steps[i], {})
=============================================================================
