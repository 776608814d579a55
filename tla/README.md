# Specifications of mcp-abap-adt-clients

TLA+ modules, TLC configurations and TLAPS proofs about the TypeScript clients
for the ABAP Development Tools (ADT) in this repository. Paths below are
relative to the `src/` directory of the package unless they start with `docs/`.

## 1. The system

The package turns ADT, an HTTP interface of ABAP systems, into typed clients.
Everything the clients do ends in `connection.makeAdtRequest()`, supplied by
another package. JavaScript is single-threaded, so the code between two `await`s
is atomic; everything else may interleave: any number of promises can be under
way on one connection.

| Part | State it keeps | Operations | Talks to |
|---|---|---|---|
| Connection (external) | session type (stateful/stateless), nesting count of critical sections | `makeAdtRequest`, `setSessionType`, `begin/endCriticalSection` | the ABAP system |
| `utils/criticalSection.ts` | one `closed` flag per window | `beginCriticalSection` and its disposer | connection |
| `core/shared/LockRegistry.ts` | a map from object key to unlock thunk | `track`, `untrack`, `pending`, `unlockAll` | handlers, connection |
| `core/*/Adt*.ts` (about 40 handlers) | none between calls; `lockHandle`, `objectCreated` within one | `create`, `update` (whole chain, or low-level with `options.lockHandle`), `delete`, `activate`, `lock`, `unlock`, `read*`, `check`, `validate` | connection, registry |
| `clients/AdtClient.ts` | the registry | factories, `unlockAll()`, `pendingLocks` | handlers |
| `batch/` | recorded parts and the two ends of their promises | record, `batchExecute`, `reset` | connection |
| `clients/AdtClientsWS.ts` | map from correlation id to promise and timer | `request`, `handleMessage`, `sendEvent`, `disconnect` | WebSocket transport |
| `utils/acceptNegotiation.ts` | two module-wide header caches | one retry after 406 or 415 | connection |
| `core/*/{create,read,check,update,delete,activation}.ts` | none | build one request and decide from its answer whether to throw | connection |
| `core/messageClass/AdtMessageClassMessage.ts` | two lock handles and a document within a call | `create`, `update`, `delete` of one message in the document of its class | connection |
| `clients/abapGit/`, `core/shared/groupActivation.ts`, `executors/`, `core/unitTest/`, `runtime/atc/` | loop variables; the last result in the legacy unit tests | start a job and find out how it ended: polling with a deadline, an abort, a number of attempts, or by what the caller asks | connection |
| `core/service/AdtService.ts` | none | create, activate, delete, publish and unpublish service bindings | connection |
| `runtime/`, `core/shared/AdtUtils.ts`, `core/transport/` | none | single requests, parsing | connection |

### What is hard

* One session type for the whole connection. A lock lives in the stateful
  session; handlers toggle the type between awaits, in `try`, `catch`, `finally`
  and nested `try` blocks, differently from handler to handler.
* Every request can fail in the middle of a chain, and a failure the client
  sees (a timeout) may have been carried out by the system.
* Clean-up code sends requests that fail too. `deleteOnFailure` deletes objects.
* Locks survive the call that took them: in the registry, in the hands of the
  caller of `lock()`, or in nobody's, when the answer to LOCK was lost.
* `unlockAll()` iterates over a snapshot with an await per entry.
* Read, patch, write of XML documents by several callers.
* Refused deletions, activations that activate nothing and checks that find
  errors, all of which ADT reports with HTTP 200.
* Two versions of each object, and a version parameter that passes a handler, a
  function of the type and a builder of the URL, each with its own default.
* Work that goes on after its request was answered, and may never end or be
  taken for somebody else's.
* Batch responses are paired with promises by position alone.
* Header caches and a switch shared by all connections of the process.
* WebSocket timers, late answers, failing sends and reused correlation ids.

`PROJECT.json` lists these hazards line by line with the properties for them.

### What makes each part correct

* Critical sections: the nesting count is the number of windows open, always.
* Registry: a lock a recording handler was granted is in the registry for as
  long as the system keeps it.
* Handlers: an update that resolves has written and activated; a delete that
  resolves has deleted; a failed create deletes at most what it made; no update
  is lost; the session type is right while a lock is used and reset after it.
* Batch: every promise settles once, together, with its own response.
* WebSocket: no promise is orphaned, answers reach the request they belong to.
* Negotiation: a correction repeats no effect, the shared caches hold what was
  named for their key, a call that does not correct is sent as it was asked.
* Request functions: what a method reports of its object - written, activated,
  gone, absent, read in that version - is so.
* Long runs: every wait ends, and what is reported is the end of one's own run.
* Messages: both locks are given back, and the other messages are preserved.

## 2. Modules

| Module | What it is |
|---|---|
| `Chains` | the vocabulary of handler methods: a step per awaited request, and the shapes methods share |
| `SourceHandlers`, `DictionaryHandlers`, `FunctionHandlers`, `ClassHandlers` | the methods of the handlers, each as one chain |
| `Resources` | the vocabulary of request functions: the answers they tell apart, and the versions they ask for |
| `SourceResources`, `ExtensionResources`, `DictionaryResources`, `FunctionResources`, `ClassResources` | the request functions of each type, and the methods that only ask |
| `Handlers`, `HandlerResources` | all handler methods; with the records of their types, and the methods that differ from the rest |
| `AdtSession` | the machine that runs chains: connection, registry, system, callers, `unlockAll()` |
| `MCAdtSession` | catalogues of handlers for TLC |
| `ObjectVersions` | the machine that runs chains and queries over the two versions of one object |
| `MCObjectVersions` | all methods and types for TLC |
| `ChainShapes`, `ResourceShapes` | what the proofs need to know of a chain, and of the functions in it: predicates on a single method |
| `HandlerShapes`, `HandlerAnswers` | that the methods of the handlers satisfy them (`ASSUME`s, evaluated by TLC) |
| `AdtSession_proofs`, `AdtSessionEffects_proofs` | proofs about `AdtSession`: locks and sections; what the calls achieve |
| `ObjectVersions_proofs` | proofs about `ObjectVersions` |
| `LongRuns`, `LongRuns_proofs` | work that outlives its request, and the conversations about it; proofs |
| `MessageClassMessages`, `MessageClassMessages_proofs` | single messages under the lock of the message and of the class; proofs |
| `BatchPromises` | what a batch client promises (abstract) |
| `BatchRecorder`, `BatchRecorder_proofs` | the recording connection and `batchExecute()`; proofs |
| `WsClient`, `WsClient_proofs` | `AdtClientsWS`; proofs |
| `AcceptNegotiation`, `AcceptNegotiation_proofs` | header correction and its caches; proofs |
| `MCAcceptNegotiation` | two systems, one of which names the wrong types |

### Handlers as chains

A handler method is straight-line asynchronous code with one `catch` and at most
one `finally`. `Chains` writes it down as data: the sequence of the requests it
awaits (`steps`), those of its `catch` (`rescue`), and for each request

* `needs`: the conditions of the `if`s around it (`body`: there is a source or
  document to write; `activate`, `cleanup`: options; `held`, `created`, `inert`:
  the handler's own variables);
* `before`, `after`, `fail`: the `setSessionType` calls before it, after its
  success and in an inner `finally`;
* `soft`: an inner `catch` swallows its failure; `marks`: `objectCreated = true`;
  `closes`: an inner `try` with the critical section ends here.

A chain further says whether the method brackets its body by
`beginCriticalSection` (`window`), records its lock (`tracked`), uses the
caller's lock handle (`uses`), and what session type its `catch` and `finally`
set. Handlers differ exactly in these respects, and the handler modules keep the
differences: `StructureCreate` does not reset the session, `ClassDelete` does not
read the verdict, `BehaviorImplementationUpdate` opens no critical section, and
so on. A request to the object's `read`, long polling or not, is `read`, `fetch`
(when its result is patched and written back) or `poll`. Validations of the
arguments, which throw before anything happens, are left out.

### Request functions as records

`Resources` abstracts the answer to a request to the twelve cases the functions of
`core/<type>/` tell apart: seven with a success status (`ok`, `silent`, `warned`,
`echo`, `excused`, `flawed`, `unprocessed`) and five errors (`gone` 404, `bad` 400,
`kerberos`, `unsupported`, `failed`). A function is then the set of answers it
throws on (`Reading`), with those on which it asks once more. `Unread` hands the
answer on, `Heeding` also throws on what it reads in it, `Taking` accepts some
errors. A function that takes a version is a map from the version asked for
(`active`, `inactive`, none) to the one the request states (or `unstated`): `IfGiven`,
`OrActive`, `Always("inactive")`, `Unversioned`. A `TypeRecord` puts the functions of
a type in the places of the requests of a chain; a `Query` is a method that sends
one request and changes nothing. The definitions have the names of the functions
they model, so that `checkDdlSyntax`, `lockTable` or `readClass` can be compared with
the file they are in.

### The machine

`AdtSession` has one action per thing that can happen between two awaits:

| Action | Code |
|---|---|
| `Start(p)` | a method is called: critical section opened, first request sent |
| `Answer(p)` | the request is carried out and its `await` returns: track or untrack, set the session type, send the next request or settle |
| `Refuse(p)` | the `await` throws and nothing was done: swallow, or enter the `catch`, or go on in it |
| `Lose(p)` | the `await` throws although the system carried the request out |
| `Return(p)` | the caller has awaited the promise |
| `SweepStart`, `SweepUnlocked`, `SweepLost`, `SweepRefused` | `unlockAll()`: snapshot, one UNLOCK per entry with its three outcomes, the `finally` after the last |

Operators `Succeed`, `Fail`, `Settle`, `Dispose` are the control flow all methods
share; `Allowed` and `Perform` are the system.

Assumptions about the system, stated in the header of the module: it may refuse
anything and answers may be lost; it serves the requests of one session one after
the other; it locks only what exists and is unlocked, writes and unlocks only
with the right handle, deletes through the deletion API only what is unlocked;
a refused deletion looks like a success. Two answers on one connection are
processed in the order the system gave them. `unlockAll()` is not called while
another `unlockAll()` runs.

### Object versions

`ObjectVersions` runs one method at a time, chain or query, on one object of any
type: `StartChain` and `StartQuery` begin a call, `Respond` is an answer and the code
up to the next `await`, `Return` ends the call. `Carried` is what the system does
with a request it carries out, `Refused` and `Lost` are its other answers. `After`
is the control flow: ask again, swallow, enter the `catch`, settle. Between any two
requests other developers lock, save, activate or delete the object
(`OthersLock`, ... `OthersDelete`) and the system may end the session of the lock
(`Expire`). `upset` records that they did after the lock was granted or, without a
lock, since the call began; the properties excuse the caller then, except where
the code reads enough to notice.

The methods differ, and seven constants, given their values in `HandlerResources`
and `Handlers`, name the ones that promise less. Each is as small as it can be: TLC finds a violation when one of the
types or methods is taken out of its set (or any other deletion is put into
`ReadsDeletion`, which works the other way round).

| Constant | Meaning | Where |
|---|---|---|
| `IgnoresCheck` | the report of the check is handed on, not read | `check.ts` of behavior definitions, enhancements, metadata extensions, packages, tables |
| `AnyVersion` | `read()` states no version, or loses the one asked for | the read functions of domains, data elements, function groups, table types, metadata extensions |
| `BackUnstated` | `update()` reads back without stating the version | as above, and tables, function modules, behavior implementations |
| `IgnoresVerdict` | `delete()` does not look at the deletion check | `AdtClass.ts`, `AdtBehaviorImplementation.ts` |
| `ReadsDeletion` | the other way round: the answer of the deletion is read, so that a lock taken after the check is noticed | packages, function includes, metadata extensions, legacy deletions |
| `IgnoresActivation` | `create()` activates and does not read the messages | `AdtService.ts:386`; its `activate()` does (line 577) |
| `Unproven` | `create()` takes an error for success | `functionGroup/create.ts`: the Kerberos text |

### Long runs

`Conversation` has a record for each of eight ways to start a run and learn its
end: the requests before the start, what must be read from its answer, what bounds
the polling, the request at the end. `Begin`, `Prepared`, `Started`, `AnswerEnd`,
`AnswerRunning`, `AnswerFails`, `Wake`, `Finish` follow the loops of
`pollUntilTerminal()`, `waitForActivationRun()` and `runWithProfiling()`; `Ask` is a
caller that asks with the id it was handed (unit tests, ATC). `Abort` is the
`AbortSignal` of a pull, `Expire` its `maxPollDurationMs` and the `maxWaitTime` of an
activation. `Appear` and `End` are the system, which may never end a run; `Unlink`
takes the repository away under a pull. A start that fails, or whose answer
cannot be read, may have started the run. `Listed` says what a poll shows: one's own
run where there is an id, else what the repository, the list of traces or the
legacy handler shows.

### Messages of a message class

A call reads the document of the class, locks the message, locks the class, writes
the document, and unlocks both (`Read`, then `Answer` for each request; `Refuse` and
`Lose` go to the `catch`, with its two swallowed unlocks). The module assumes of the
system what the comments of `xml.ts` say: writing upserts the messages in the
document and removes those listed as deleted; and that it writes only under both
locks. `stale` records that a document was written which somebody else had outdated:
the document is read before either lock, so the locks do not prevent that
(`DocMessages`).

### Batch

`Record` is `makeAdtRequest` of the recording connection, `Execute` is
`batchExecute()` up to its await, `Respond` the rest with `resolveAll()`, `Miss`
its rejection (the request or the parsing fails), `Discard` is `reset()`. A
response has a part per request, in order, or is cut short; `refused` are parts
with a status of 400 or more. `BatchPromises` is the contract; the refinement maps
the promise of a request to its `fate`: a pending promise no longer in the
recorder is `dropped`, one fulfilled by a foreign response is `foreign`, which
the contract does not know. `Exclusive` is the assumption that nobody calls
`batchExecute()` or `reset()` during a batch. Without it `OwnResponse` fails: two
executions send the same part, the first response resets the recorder, a new
request is recorded, and the second response has the right number of parts.

### WebSocket

`Make` is `request()` up to `transport.send()`; `Sent`, `SendFails`, `Timeout` and
`Deliver` are the four continuations; `Reply` and `Drop` are the other end.
Callers may give any correlation id, so a retry with an id in use, or used
before, is a behaviour of the model. `strays` is a history variable: answers
dispatched to event handlers while their request was pending.

### Negotiation

`MakeRequest` is `makeAdtRequestWithAcceptNegotiation()` up to its first await, on a
wrapped connection or called directly; `Refused406`, `Refused415`, `Served` and
`Fails` are the answers, each with the code that handles it. `Construct` is what a
client constructor does to the module: it sets the switch for every client of
the process, and wraps its connection. `ClearAcceptCache` is `clearAcceptCache()`.
The two caches, the switch and the set of wrapped connections belong to the
module, not to a connection, as in the code. `heardAccept` and `heardContentType`
are history variables: what refusals of a method and URL have named since the
caches were cleared. The model takes header values as sets of media types, so
two orders of one list are equal; the systems answer alike each time, and may
name types they do not serve.

## 3. Runs

| Run | Question | Size |
|---|---|---|
| `SeqHandlers` | all 203 methods, every option, every failure and lost answer at every request, one call at a time, with `unlockAll()` | 1 object, 2 handles, 1 caller; 111 k states |
| `Concurrent` | two callers and `unlockAll()` on one domain, class or function include: handlers that read, patch and write, that bracket or record their lock differently, delete with it, create and clean up | 712 k states, depth 33 |
| `Versions` | every method that changes or asks for an object (the 203 less those that only lock, unlock or work with the caller's lock, and 144 queries), every answer, with other developers at work | 1 object, 3 contents; 298 k states |
| `Runs` | two conversations of any kinds beside an earlier run, with failures, aborts, deadlines and runs that never end | 2 attempts; 406 k states |
| `Messages` | two callers create, change and delete messages of one class | 2 messages; 2.6 M states, depth 44 |
| `Batch` | recording around batches that succeed, fail, are cut short | 4 requests; 2.9 k states |
| `Ws` | three requests on two ids | 177 k states |
| `Negotiation` | two calls of two methods on one URL, over two connections to systems that differ, one of which names the wrong types; clients constructed and caches cleared at any time | 2 types; 217 k states |
| `DocDelete`, `DocKeptLock`, `DocReadBack`, `DocMessages` | statements of comments or tests the code does not keep; each ends in the counterexample | |

**Bounds.** The methods of one handler act on one object; objects of different
types do not interact except through the session type and the nesting count, so
one object of a type chosen in the initial state covers the pairings of a
handler with itself, and `DocKeptLock` uses two. Two handles are enough for an
old lock, in the registry or in a snapshot, and a new one; handles are reused
when nobody knows them any more (`Fresh`). Two callers suffice for every pairwise
interleaving. In `Concurrent` `Offered` leaves out options that add
branches already covered by `SeqHandlers`. Symmetry (callers, handles) is used in
`Concurrent` only, which checks no liveness. Three WebSocket requests on
two ids give a request with an id of its own next to two that share one. The
batch runs may stop when all requests are settled, and so may `Ws`; there
deadlock is not an error. `Runs` may stop when both conversations have settled. In
the other runs it is: some caller or system step is always possible.

`Versions` has three contents: what a new object contains, a sound and a faulty
one, which are what the functions tell apart; an object starts with any
combination of versions and any lock but the caller's own, and each call starts
from a state some earlier call left. Two attempts at a trace (`Attempts`) give a
lookup that is repeated and one that gives up; the code's default only repeats the
same step more often. Two messages are one that a call is about and one it must
leave alone; `Messages` has one text, so that a message is there or not, and
`DocMessages` two, so that an old text can come back.

**What they show.** `SeqHandlers` is the reference for the handlers. `SessionReset`
and `DeleteDelivered` hold for all methods but those named in `EndingStateful`
and `IgnoringVerdict`; the lists are as short as they can be, and
`DocDelete` shows an entry of the second to be necessary.
`CleanupOnlyOwn` relates the flag `objectCreated` to what the system did: the
delete of `deleteOnFailure` is sent only by a call whose own create it carried
out. The methods in them are the updates of classes, interfaces and programs, whose
`catch` resets the session only after the delete of `deleteOnFailure` succeeded,
those of the includes of a class, which reset nothing when their LOCK fails, and
the two `delete()` that keep the answer of the deletion check without looking at
it.
`Concurrent` leaves out `SessionReset` and `OwnLockStateful`: with several
callers on one connection they do not hold (the session type is shared), which
is why the documentation asks callers to await one chain before the next.
`DocKeptLock` shows the same with a single caller who holds a lock.

`Versions` is the reference for what a resolved promise means. `WritesTakeEffect` and
`ExistenceDelivered` follow refusals that arrive with a success status through the
steps that swallow failures; `ReportedNotWritten` the check whose repetition lets
more pass (`ddl/check.ts:59`); `ReadBackOwn` and `VersionHonoured` the version through
its defaults; `AbsenceProven` the one error that means "there is none".
`DocReadBack` shows an `update()` without activation that waits for the active
version after it has written the inactive one, against what
`updateNoActivateReadsInactive.test.ts` says of that path; the handler of scalar
functions does the same (`AdtScalarFunction.ts:233`).

`Runs` shows that every wait ends, whatever the system does, and that no poll
begins after an abort. `ReportsOwnEnd` says exactly when the end reported may be
somebody else's: a pull whose first poll still sees the previous status
(`poll.ts:71-83`) or that another pull overtook, a profiled execution when other
traces are in the list (`ClassExecutor.ts:145`), a legacy unit test run when the
handler ran another.

`Messages` shows that both locks are given back on every path through the nested
`try` blocks, and that the others' messages survive as long as nobody writes an
outdated document; `DocMessages` that the code does not prevent the latter.

Met while modelling, visible in the chains, and without a run of their own: the
`create()` of most handlers takes `activateOnCreate` and does not activate
(`AdtDomain.ts:139`); `lockTestClasses()` records no lock (`AdtClass.ts:625`); a failing
`deleteOnFailure` leaves the session stateful (`AdtProgram.ts:461`); a rejected
`batchExecute()` leaves the recorder filled, so that the next one sends everything
again (`AdtClientBatch.ts:127`); a `delete()` of a service binding that is refused may
have unpublished it (`AdtService.ts:521`).

`Negotiation` runs with one call per caller: two are enough for every pair of
reads and writes of one cache entry, of a switch and of a clear. It also shows
what is *not* true and therefore not stated. A cached value replaces the
caller's header, also one given for that read (`README.md:519` calls it an
override). A 415 names first the type of its own error page
(`acceptNegotiation.ts:88`), so a system that is not candid can leave a type in
the cache that later dooms a request whose own header was right. And a request
wrong in both headers fails once although each could be corrected. The switch is
on when nothing is set, and the note `README.md:537` ("Disabled by default") is
out of date.

**Fairness.** Liveness is checked in three runs. `SeqHandlers` assumes only that each
request is answered or fails (`WF(Response)`), which the timeout of
`makeAdtRequest` provides (`utils/timeouts.ts`); nothing is assumed of callers.
`Ws` assumes only that timers fire (`WF(Timeout)`); nothing is assumed of the
transport, which may never answer. `Runs` assumes that a request is answered or
times out (`WF(Answer)`), that the timer of a pause fires (`WF(Wake)`) and that time
passes a deadline (`WF(Expire)`); nothing says that a run is ever carried out or
ends, nor that anybody aborts.

## 4. Proofs

TLC checks small instances, TLAPS the following for all values of the constants.

**AdtSession** (`Typing`, `SectionsCounted`, `LocksRecorded`), for any catalogue of
well-formed chains (`CatalogueAssumption`; TLC evaluates it on the whole
catalogue), any finite set of callers, any objects and handles. The inductive
invariant `IInv` adds to `TypeOK` and `NoAbandonedLock`

* `Positions`: a busy caller awaits a request that exists in its chain;
* `Coverage`: a caller whose method brackets its window and whose lock handle is
  set, or whose LOCK is under way, has its critical section open;
* `OpenBusy`: only busy callers have a critical section open;
* `Counted`: the nesting count is the cardinality of `open`.

`CriticalSections` is not inductive without `Coverage`: a method with an inner
`try` closes its section before it ends, which is harmless only because chains
end that `try` with the UNLOCK and lock nothing after it (`WellFormed`).
`NoAbandonedLock` is inductive because a handle granted is `Fresh`: it is in no
snapshot that `unlockAll()` may still be working on, so striking an old entry
never erases a newer lock, and because the system releases a lock only for its
own handle. The control flow of the chains is covered by lemmas on `Succeed` and
`Fail` (`SucceedAdvances`, `FailAdvances`, `AdvancesKeeps`), used by one lemma per
action.

**BatchRecorder** (`OwnResponses`, `Refinement`), assuming `Exclusive`. What is sent
is a prefix of what is recorded while a batch is under way (`Recorded`), at most
one is (`OneBatch`), and the two arrays agree (`InStep`); so equal numbers mean
equal requests, which is what makes the comparison in `resolveAll()` sufficient.
`Refinement` maps each step to a step of `BatchPromises` or a stutter.

**WsClient** (`NoOrphans`, `OwnAnswers`), with no assumption on ids. `Entries`: an
entry is for a pending request with that id; `OwnEntry`: a pending request that
shares its id with none has its entry.

**AcceptNegotiation** (`AtMostOnce`, `Forgotten`, `Verbatim`, `Suffices`), for any
calls, connections, keys, types and any systems. `Progress`: a call that waits has
not been performed; `Retried`: a retried header is what the refusal named. With
`Retried` a second refusal for the same header by a candid system is impossible,
whatever is in the caches, which is why `RetrySuffices` needs no assumption on
the other calls.

**LongRuns** (`TypeCorrect`, `ReportsAreOwn`, `AbortEndsPolling`), for any callers and
any number of attempts. `ReportsOwnEnd` is about one's own run; what makes it
inductive is where the things come from that show a run: `Shows` (the repository
shows a pull that is under way or over), `Keeps` (the legacy handler keeps a run that
is over), `Unstarted`, `AsksForSomething` (who asks has had its run accepted) and
`PullShows` (a pull under way has replaced the earlier one). `ReportStays` keeps a
report true while other runs go on: a run that is over does not change. For
`NothingAfterAbort` the invariant adds that only pulls are aborted and that they
never hand the polling to the caller (`PullsPoll`).

**MessageClassMessages** (`TypeCorrect`, `LocksGivenBack`, `MessagesPreserved`), for any
callers, messages and texts. `Handles` says which handles a call has at each request,
`LocksHaveHandles` that a lock in the system, unless its holder is `spoiled`, has its
handle in a call that has still to give it back, and `FreshDocuments` that a document
nobody has outdated is what is saved, from the read to the write.

`Typing` and `TypeCorrect` state the type invariants of all modules with proofs,
which are more than types in places: equal lengths of the two arrays of the batch,
an id exactly for a request made, a document written only with both handles.

### From one method to all interleavings

Two machines run the methods of the handlers, and most of their properties do not
hold of every chain: a method that skips its UNLOCK would break them. What they
need to know of a method is a predicate on the method alone, its *shape*, in
`ChainShapes` (the order of the requests, their conditions, what is swallowed, the
session types around them) and `ResourceShapes` (the answers its functions notice,
the versions they state). Each theorem has the form

    ASSUME <every method has the shape>  PROVE  Spec => []Property

for any catalogue, any number of callers, any contents, any types, and any
behaviour of the system and of other developers the model allows. That the 203 methods and 144 queries of this
code have the shapes is finite data: `HandlerShapes` (assumed by `MCObjectVersions`,
run `Versions`) and `HandlerAnswers` (assumed by `MCAdtSession`, runs `SeqHandlers`,
`Concurrent`) state it as `ASSUME`s that TLC evaluates. So a new handler, or a change
of one, needs no new proof and no new run: it has the shapes or an `ASSUME` fails.
The methods exempted are the same ones the properties exempt (`EndingStateful`,
`IgnoringVerdict`, `IgnoringReport`, ...).

**AdtSession, what calls achieve** (`AdtSessionEffects_proofs`). `Behind(p)` is the set
of steps of the `try` block a caller has passed; the invariants say what follows for
the session, the object and the lock from what is behind.

* `UpdatesDeliver` (`Delivers`): `History` relates what is behind to what the
  system has carried out (`DeedsDone`), under the options the caller passed.
* `UpdatesNotLost` (`LocksBeforeReading`): `ReadLast`: a caller whose document somebody
  has outdated has no lock any more, or one the system has dropped, so that it cannot
  write. A method that reads first does not have the shape; `DocMessages` shows what
  becomes of it.
* `CleaningUpOwn` (`CleansUpOwn`): `MadeCreated`: `objectCreated` implies that
  this very call's create was carried out.
* `DeletionsDeliver` (`Deletes`): `DeletedBehind`: behind a deletion whose refusal would
  have been noticed there is no object; nothing comes between the deletion check and
  the deletion when one call at a time runs (`Alone`).
* `OwnLocksStateful` (`StaysStateful`): `HoldsStateful` follows the session type through
  the `before`, `after` and `fail` of every step that may run with a lock (`MayHold`),
  and into the `catch`.
* `SessionsReset` (`Resets`): a method ends the session in its `finally`, or its UNLOCK
  does and every way into the `catch` is covered; `Resetting` says at each point who
  is still to do so.

**ObjectVersions** (`ObjectVersions_proofs`): all of its properties. `IInv` is the type
invariant with two facts about the object (`ObjectKnown`) and the position of the call
(`CallKnown`). `EffectOf`, `RefusalOf` and `LossOf` characterise the three kinds of
outcome, `Repeats`, `Tells`, `GoesOn` and `Fails` the four ways a call takes an answer;
all later proofs use these and not the definitions. Three lemmas carry the arguments:
`Noticed` (an answer a function notices is thrown, at the first attempt or the second:
`AskedAgain`), `Performed` (a request that passes, and whose failures are noticed, was
carried out) and `DoneAfter` (what is done after an answer was done before it or is
what was answered).

* `WritesLast`: `Written` and `ActivationDone` say that what a firm request behind the
  call has achieved is still there. They hold in the middle of a call only because
  nothing is locked after a write: a second LOCK would forget (`upset`) that others
  had been there.
* `ReportsHeeded`: `ReportHeeded`: a call that knows of errors is in its `catch` or over.
* `ReadsBackOwn`: `OwnReadBack` with `Written`, and `Wanted`: a chain awaits no request
  its options skip, so that what is read back with `inert` comes after no activation.
* `VersionsHonoured`, `AbsencesProven`: about the one step in which a query is answered.
* `ExistenceAsTold`: `Created`; `Deleted` with `Deletable`, which says that an object
  whose deletion check passed is not locked, as long as nobody has come in. A method of
  `ReadsDeletion` does not need it (`DeletesHeeding`).

Only model-checked: liveness (`EveryCallSettles`, `EveryRequestSettles`,
`EveryWaitEnds`), which is beyond the prover, as is ENABLED; the four violations; and
that the methods have their shapes, which is data. No theorem is about a recursive
definition; the modules have none.

## 5. Not modelled

* Text: building and parsing of XML and multipart bodies, URLs, headers, content
  types and formatting. Where a decision hangs on it, the decision is modelled
  (the answers of `Resources`, the parts of a batch response).
* Argument validation that throws before anything happens, and logging.
* `FeatureToggle.switchFeature()` and `getRuntimeState()`; publishing and unpublishing
  of service bindings, whose jobs are posted without reading their answers.
* Transport requests, `AdtUtils`, the debugger, memory, traces, dumps, feeds and logs
  of `runtime/`, linking and listing of abapGit repositories: single requests with
  no state in the client.
* `sendEvent()` and the event handlers of the WebSocket client, and the debugger
  session over it, which keeps no state.
* Scripts, examples and tools of the repository.

An answer to LOCK that is lost leaves a lock that no client code can know of;
`NoAbandonedLock` is therefore about locks whose grant arrived. Handlers on a batch
recorder are not composed with `AdtSession`: a method that awaits a second request
waits for a `batchExecute()` its caller cannot reach. Session types and versions
are checked apart, by `AdtSession` and `ObjectVersions`, over the same chains.

## 6. Plan

In this order:

1. *Publication*: the states of a service binding beside its versions, with the
   guards of `updateServiceBinding()` and the unpublishing before a deletion.
2. *Batch and handlers*: methods on a recording connection: which of them can
   complete, and which wait for a `batchExecute()` that cannot come.
3. *Registry contract*: an abstract specification of `LockRegistry` and
   `AdtSession` as an implementation of it, with a proof; a switch for answers
   that overtake each other, under which `unlockAll()` deletes by key.
4. *Algorithms*: package hierarchy and batch parsing on bounded inputs.
5. *Proofs*: the registry contract; that the shapes are necessary where they look
   stronger than the properties (one lock per method, one reading back).
