# Verification of the Codex mail ingress in tiny-claude-plugins

This directory holds TLA+ models of the repository's programs, TLC
configurations that check them on small instances, and proofs that TLAPS checks
for every value of the constants. The modelling starts where most is at stake:
`packages/agent-mail-codex`, the daemon that takes mail from a mailbox on disk
and delivers it, at least once and in order, into turns of one Codex thread.

Paths below are relative to `packages/agent-mail-codex/src/` unless they start
with `plugins/`, `docs/` or `packages/`.

## 1. Inventory

### The ingress daemon

| Part | State | Operations | Talks to |
|---|---|---|---|
| Kernel (`kernel/mod.ts`) | in-memory cursor, event index, batcher, retry series, terminal outcomes, turn-to-batch bindings | one run: open lease, acquire owner, baseline, replay, rebatch, then the loop (settle, renew, poll, enqueue, deliver, wait), shutdown | store by transactions, mailbox by scans, owner by requests; reads the owner's event stream |
| Store (`store/*.ts`) | cursor, source events, batches, leases (SQLite) | open, load, nine state changes | one transaction each, a lease check in front |
| Lease, supervisor (`store/sqlite.ts`, `operator/supervisor.ts`) | the row owner/expiry, one renewal time per process | open, renew, expire, release | other supervisor processes through the row |
| Batcher (`batcher/mod.ts`) | buffer, window end | add, flush | kernel |
| Policy (`policy/mod.ts`) | none | decide: queue, start or steer | kernel, owner snapshot |
| Retry (`retry/mod.ts`) | attempts and first failure per series | decide, reset, cancel | kernel |
| Mailbox (`mailbox/fs.ts`) | files on disk (written by the mail server) | baseline, readAfter | kernel |
| Turn session (`owner/turn_session.ts`) | active turn, idempotency map, open server requests, human gate | startTurn, steerTurn, notifications, server requests | transport, event stream |
| Transport (`owner/app_server_transport.ts`) | pending requests, failure | request, dispatch, process exit | app server over stdio |
| Production owner (`kernel/production.ts`) | transport, session, registered thread | acquire, release, snapshot, events, close | kernel, hand-off |
| Request arbitration (`owner/request_policy.ts`) | open requests, the responder of each | open, applyPolicyDecision, answered, expire | session |
| Hand-off (`owner/handoff.ts`, `operator/live_ownership.ts`, `operator/production_run.ts`) | owner, pending deliveries, acknowledged transitions, persisted owner state | release, acquire | operator, daemon, kernel |
| Thread lifecycle (`owner/thread_lifecycle.ts`) | stored thread id | create once, resume exactly | app server |
| Recovery (`kernel/recovery.ts`, `owner/reconnect.ts`, `operator/recovery_commands.ts`) | none of their own | classify a loaded state; replay, dead-letter, cursor reset | store |
| Migrations (`migrations/mod.ts`) | schema version | migrate | SQLite |
| Shadow (`verification/shadow.ts`) | observed events, comparison | observe without delivering | mailbox, store |
| Schemas, configuration, flags, status, observability, permissions, CLI | none that a protocol depends on | validation and reporting | operator |

### The plugins

`plugins/agent-mail-monitor` (watches over the same mailbox, by file and by
product, a shadow check against SQLite, a monitor of its own for Codex, and a
lookup of one message), `plugins/kittens-saved` (a ledger of counted events),
`plugins/ultragoal` (a stop guard and the escalation it waits for),
`plugins/rg-flag-guard` (a filter over one command line); the other plugins and
`scripts/` hold skills, texts and release checks.

### What is hard

* **Two clocks of progress.** A batch passes pending, delivering, accepted, while
  the mail it carries is observed, batched and finally passed by a cursor.
  Urgent mail steers a running turn and so *overtakes* older mail; the cursor is
  one number.
* **Three sources of truth after a crash**: the outbox, `source_events` and the
  mailbox above the cursor. The restart has to make each message appear in
  exactly one place.
* **An unreliable call.** A request may be refused, may time out after it took
  effect, and its terminal notification may be read before its response is
  handled.
* **A failure inside the handling of a failure**: the retry's transition can
  itself be refused.
* **A lease without fencing**: checked before a transaction, not during an
  app-server call, and renewed by a loop that may be busy.

`PROJECT.json` lists each hazard at its line with the properties that watch it.

### What makes each part correct

* kernel and store: no mail lost, none in two batches, acceptance only of what a
  completed turn was given, every delivering batch has something that will settle
  it, settled is final, every message settles in the end;
* policy and session: routine mail never steers; nothing is sent unmarked;
* lease: one driver at a time; a dead owner does not block the binding;
* batcher: pieces partition the burst in order; retry: bounded series;
* arbitration: exactly one answer per server request; hand-off: never two owners,
  no delivery lost between them; recovery: classification agrees with the states
  the kernel can leave.

## 2. Modules

Three specifications describe the ingress, and three describe what stands around it.
They are checked apart; where they meet, each models the other's calls.

**The kernel and what it drives**

| Module | Models | Kind |
|---|---|---|
| `IngressDomain` | ids, batches as sets of ids, urgency, the batcher's cap | operators |
| `DurableStore` | the outbox of one binding; a `StateChange` is an operator | state, operators |
| `CodexThread` | app server (external), `TurnSession`, transport, as the kernel meets them | state, operators |
| `IngressKernel` | `IngressKernel.run` and its environment | specification, properties |
| `RecoveryPlan` | `reconcileRecovery` (`kernel/recovery.ts`), asked about every durable state of the kernel | operators, a property |
| `MailDelivery` | what the ingress promises | abstract specification |
| `IngressRefinement` | the mapping from kernel to promise | refinement |
| `IngressInvariant` | the inductive invariants | invariants |
| `IngressKernelProof` | lemmas about the operators of store, thread and kernel; types; acceptance, finality, write-ahead, steering | proofs |
| `IngressMailProof` | where mail is: one batch, none lost, the recovery plan | proofs |
| `IngressPromiseProof` | which turn carries a batch, and the refinement of `MailDelivery` | proofs |
| `MCIngressKernel` | values for TLC | instances |

**The lease**: `BindingLease`, `BindingLeaseProof`, `MCBindingLease` (competing
supervisors).

**The hand-off**: `OwnershipHandoff` composes the daemon's main procedure
(`operator/production_run.ts`), its authority and its clients
(`operator/live_ownership.ts`), the commands of `cli.ts`, the owner adapter and the
session, over the owner file. `OwnershipHandoffProof` has its theorems.

**The owner of a thread**

| Module | Models | Kind |
|---|---|---|
| `RequestArbiter` | `owner/request_policy.ts`: policy of each mode, open requests, claims, answers | state, operators, properties |
| `OwnerSession` | the transport's read loop and calls, the adapter's acquire, release and close, the session's server requests, through the arbiter's operations | specification, properties |
| `RequestPromise` | what the app server may rely on | abstract specification |
| `ThreadLifecycle` | `owner/thread_lifecycle.ts` over processes that die | specification, properties |
| `OwnerSessionProof` | theorems about lifecycle, arbiter and session, each alone and side by side | proofs |
| `MCOwner` | the three side by side | instances |

**Components met through one call at a time** (`MCComponents`)

| Module | Models |
|---|---|
| `BurstBatcher` | `batcher/mod.ts` on sequences: window, both caps, collapse, flush; the encoder's size limit |
| `RetrySeries`, `Reconnect` | `retry/mod.ts`; `owner/reconnect.ts`: outage at each boundary of a delivery, bounded reconnect, bounded replay |
| `StoreTwins` | `store/memory.ts` and `store/sqlite.ts` under the same calls |
| `Migrations` | `migrations/mod.ts` by processes of several releases |
| `RecoveryCommands` | `operator/recovery_commands.ts` by overlapping operators |
| `HandoffCommands` | `owner/handoff.ts` and the offline commands of `operator/ownership_commands.ts` |
| `ControlSurface` | `operator/control.ts`, a function of what the caller observed |
| `ComponentsProof` | theorems about each of them and about all side by side; the lemmas on numbers, sums, sequences and recursion these need |

**The plugin `agent-mail-monitor`** (`MCMonitor`)

| Module | Models |
|---|---|
| `MailboxFiles` | the inboxes on disk, read one after the other while mail lands (`core/mailbox.ts`) |
| `MailWatch` | the `watch` and `monitor` commands (`commands/watch.ts`, `cli.ts`) |
| `ShadowTail` | the `shadow` command and its check against SQLite |
| `ProductWatch` | the `product` command and the pages of `core/am.ts` |
| `CodexMonitor` | `scripts/codex-monitor.ts` with its app server |
| `MessageLookup` | the `message` command: the fan-out over projects and its exit code |
| `MonitorProof` | theorems about all of them |

### How the steps correspond to the code

A step is everywhere the code between two awaits at which something else can
matter; what runs without an await is one step, however long.

*The kernel* is sequential; a step holds at most one transaction or one app-server
exchange. `pc` names the place:

| pc | code (`kernel/mod.ts`) | steps |
|---|---|---|
| down | no run, or one that ended | `Start` (142-202) |
| recover | after the baseline | `Replay` (206-219), `Rebatch` (353-363) |
| head | top of the loop | `Settle` (271-344), `Poll` (393-428) |
| enqueue | due batches | `Enqueue` (430-457), `LoadOutbox` (459-460) |
| deliver | the loop over pending batches | `SkipOrQueue`, `BeginDelivery`, `EncodeOrMarkFails`, `PassEnds` |
| calling | request not sent yet | `SessionRemembers`, `SessionRefuses`, `ServerAccepts`, `ServerRefuses` |
| answered | the server took it, the response is under way | `Response`, `ResponseLost` |
| binding | the acceptance is known | `Bind`, `BindFails` |
| bound | settling inside the try | `Settle`, `SettlingFails`, `BoundSettled` |

The catch block of a delivery (532-579) is the operator `DeliveryFails`, which
every failing step uses; it contains the case in which the store refuses the
retry, which ends the run.

*The hand-off* has four actors: the main procedure (`daemon`, `session`), the
transition that holds the authority (`lock`, `step`), the kernel's calls on the
session (`turn`), and the command lines (`cli`, each with its connection `inbox`).
`Begin` is the entry of `#serialize`; a release goes through `ReleaseOwnership`,
`CloseConnection`, `ReleaseDone`, an acquire through `Spawn`, `KernelAcquires` and
`Proven`, or through a time-out and `StartAborted`; a command through `TakeSnapshot`,
`Send`, `Receive`, `Persist`.

*The owner's session*: the read loop awaits a frame's handler before it takes the
next one, and the only await of a handler is the write of an answer, so a
`Dispatch…` step is one frame. A call that a response resolved continues in a later
step (`InitializeReturns`, `ResumeReturns`, `TurnReturns`): frames may be read
before. `ConnectionBreaks`, `CallTimesOut` and `Close` may come anywhere.

*The others*: `Migrations` separates the read of the version, the awaited backup,
BEGIN and each statement; `RecoveryCommands` the two loads and the save;
`HandoffCommands` load and save; the watches the reading of each inbox.

### Abstractions, and what justifies them

Kernel:

* A batch *is* the set of its message ids. The code's id is made of the first and
  the last of them; two batches with the same ends would share a message, which
  `MailInOneBatch` excludes.
* Mail ids arrive in order, as the mail server assigns them. The code cuts batches in
  the order of arrival, which is then the order of ids, so the buffer is a set and
  `Poll` and `SealedBatches` cut by id. The two differ only when a file becomes
  readable after a higher id was observed; no property depends on the cut there.
* Both `flush` and the drain of an expired window emit one batch, because the
  buffer never exceeds the cap after `add` (`BurstBatcher` has the sequences).
* The lease is left out of the kernel. Losing it ends the run between two steps,
  and so do a shutdown, the `ownership_lost` exits and a store failure outside a
  delivery: `Crash` stands for all of them. A shutdown settles once more before it
  ends; that is a `Settle` followed by a `Crash`.
* A transaction that fails leaves no trace; a failure after its commit is `Crash`.
* `turnBatchIds` is not kept apart from the rows' `accepted_turn_id`: a binding is
  dropped whenever settling meets a row that is not delivering, and a row that
  becomes pending again loses its turn and is looked at by the next `Settle` before
  it can be delivered again.
* `terminals` also holds the turns of past sessions: a new session is never
  notified of them. A crash discards the batches bound to them by `Replay`.
* The text of an error decides whether it counts as permanent; the model lets
  either happen wherever the text is the app server's.
* The elapsed budget of a retry series may run out from the second failure on.
* `backoff` holds the batches whose `next_attempt_at` lies ahead; time passes by
  `RetryDue`, the batch window by `WindowEnds`.
* The encoder's only failure is an event that left the index.

Lease: one unit of time is 5 s: `TTL = 4`, `RenewEvery = 1`. `left` counts the
row's expiry down, which keeps behaviours without a clock bound finite. A supervisor
checks the row (`Check`), then commits (`Commit`, `CommitRenewal`), and anything
may happen in between. `PassTime` is how long the calls of one pass may take
together. `Prompt` says whether a supervisor that can act always acts before time
passes; without it a process may be suspended anywhere. A killed process leaves a
row naming `Ghost`, since the owner id contains its pid.

Hand-off and owner:

* One binding and one thread, since the configuration names the only one; the
  session runs in headless mode and holds no request over an await there, so
  `unresolvedRequestIds` is empty; `OwnerSession` has the requests. The queue of
  `owner/handoff.ts` is in `HandoffCommands`: the daemon's own automaton has none.
* An operator issues one command at a time, each fresh or a repeat of the one just
  before; an earlier one may still go on in the daemon (`MayIssue`). `SlowPersist`
  says whether the daemon may be back from a crash before a command has written the
  acknowledgement it holds; systemd waits 5 s, so the run excludes it.
* Runtime snapshot, heartbeat and log files are left out.
* A frame is its kind. A refused call of the arbiter throws and changes nothing,
  so it is the absence of a step.
* The adapter creates its session in headless mode; `mode` is a parameter, because
  the session's code for the human modes is there and callers may use it.

Components: byte counts are scaled down, keeping that the batcher's overhead per
event exceeds the encoder's (`SizesAssumption` says by how much; the kernel passes no
caps to the batcher, `kernel/mod.ts:170`, so the defaults hold); the elapsed and attempt budgets of the retry classes
are small numbers; a migration is its version and whether it is destructive; a
recovery row is cursor, thread, outbox, dead letters and audit trail; a control
request is the set of facts the code branches on.

Plugin: a file's name carries its id, so a file is its id and its inbox. An inbox is
a tree of directories, any of which may be unreadable: `ReadInbox` sees any part of
the inbox and notes the rest as excused. Files are not deleted (the mail server's
retention is external). Between the lines of one product page only labels are
looked up, so a page is printed in one step; a lookup that throws leaves the lines
before it printed and ends the watch (`PrintingFails`). A failure of the app server anywhere in `CodexMonitor`
is `MonitorFails`, since each ends the process. A missing `am` program, which
aborts a lookup as a whole, is left out.

## 3. Runs

| Run | Bounds | Shows |
|---|---|---|
| `KernelSafety` | 3 messages (the last urgent), cap 3, 9 turns, 1 retry, 2 faults of crash, rpc, turn, store; 1.0 M states | `TypeOK`, `NoMailLost`, `MailInOneBatch`, `AcceptedWasCompleted`, `DeliveringHasOwner`, `RoutineNeverSteers`, `PlanIsComplete`, `WriteAhead`, `SettledIsFinal`, `CalmInv` |
| `KernelLiveness` | 2 messages, cap 2, 7 turns, 2 retries, the same faults; 123 k states | `EveryMailSettles` |
| `KernelPromise` | 3 messages, cap 2, 9 turns, 2 faults of crash, app-server death, unreadable file, turn, store; 645 k states | `ImplementsMailDelivery`, `KernelInv` |
| `LeaseShortPass` | 3 supervisors, pass of 4 units, prompt; 1.8 k states | `TypeOK`, `OneDriver`, `LeaseOutlivesPass` |
| `LeaseStalls` | 2 supervisors that stall at will, pass of 2; 7.9 k states | `LeaseExtendedByOwner`, `CrashIsRecovered` |
| `Handoff` | 3 commands, 3 faults; 106 k states | `HandoffInv`, `HumanHasThreadAlone`, `RepeatIsAnswered`, `AuthorityIsFreed`, `SettlesOnOneOwner` |
| `Owner` | 3 calls, 2 requests, 2 frames in flight, 2 clients, 2 threads, 3 processes; 255 k states | `PromiseKept` (the refinement of `RequestPromise`), `OneAnswerOnTheWire`, `NoCallOutlivesConnection`, `NothingHoldsMailBack`, `LateAnswersNeverCount`, `AnswersAreFinal`, `OwnsTheBoundThread`, `BindingIsFinal`, `OwnersInv` |
| `Components` | see the cfg; 818 k states | `BatcherPromise`, `ReconnectPromise`, `TestsCarryOver`, `MigrationPromise`, `OperatorPromise`, `ComponentsInv` |
| `Monitor` | 2 inboxes, 3 messages, 4 posts with 3 time stamps, page of 2, 3 projects, fan-out 2; 760 k states | `MonitorPromise`, `CodexPromise` |

`CalmInv`, `KernelInv`, `HandoffInv`, `OwnersInv` and `ComponentsInv` are the inductive
invariants of section 4, whose parts include the types; those of the plugin are inside
`MonitorPromise`.

### What the composed promises say

* `BatcherPromise`: the sealed batches and the buffer together are the mail that came
  in, once and in order, with collapse or without; without collapse the encoder accepts
  every sealed batch; no event outstays its window by more than a pass.
* `ReconnectPromise`: a delivery is committed only if it reached the thread, reaches
  it again only after an outage that left its acceptance open, and no outage loses it;
  connect attempts keep both budgets; the pieces of a replay cover the mail once.
* `TestsCarryOver`: whatever the memory store grants, SQLite grants, leaving the same
  binding, so that tests that run on memory say something about production.
* `MigrationPromise`: each version once and in order, whole releases or nothing, a
  backup before what destroys.
* `OperatorPromise`: the recovery row is the seed with its own audit trail applied;
  a token's confirmation changes the state that was shown; the outbox is kept; queued
  mail survives every sequence of hand-offs in order; a human takes over an idle
  thread only; the actions of the control surface agree with one another.
* `MonitorPromise`: each watch prints what its mark passed, once, in order and nothing
  below the mark it adopted; shadow follows each message to exactly one outcome; the
  product watch leaves out only what a full page or a late time stamp excuses, and
  warns exactly while it should; the lookup's exit code agrees with what it probed.
* `CodexPromise`: the frontier passes only mail of a completed turn; nothing is given
  twice; no turn is left running behind a waiting monitor.

`Components` and `Monitor` put independent parts side by side: a variable chosen at
the start says which of them moves. The parts share no state (or, in `Monitor`, only
a mailbox they never write), so checking them one at a time loses nothing.

### Why the bounds are enough

Three messages are needed for an overtaking: one whose turn runs, a routine one that
waits, an urgent one that steers. With a cap of 2 or 1 they overflow the batcher. Two
faults allow a failure while another is handled (a crash after a lost response, a
failed settling after a failed turn, two crashes of one start). `MaxTurn` must not be
what stops a behaviour: a message enters at most `MaxFault + 1` turns by faults in
these runs, and a bound chosen too small shows as a deadlock at `calling`, which every
kernel run looks for. `MaxAttempts` is 8 in the code; 1 and 2 reach the limit with the
faults there are.

Three commands are a release, its acquire and either a repeat of one of them or a
rival; three faults allow one on the daemon's side, one on the command's and one while
either is being recovered from. Three calls are initialize, resume and one turn; two
requests meet in the one gate of the session; two clients are the owner and a rival.
The batcher's four events exceed its cap of three and its byte cap with three large ones.
Three releases with two destructive versions let a newer process overtake an older one
in the middle of a backup. Two inboxes are enough for a lower id to land in the one
already read; `Monitor` also passes with 4 messages (10.4 M states). The runs
other than those of kernel and lease say CHECK_DEADLOCK FALSE: commands, connections,
events and mail come to their bounds and the system rests.

### Violations, where the code departs from what its documents say

Each of these runs checks one sentence of the repository, and TLC shows a behaviour
of the code that breaks it. `PROJECT.json` quotes the sentences.

| Run | Faults | What happens |
|---|---|---|
| `KernelOvertaken` | none | An urgent batch is accepted before an older routine one. Its acceptance drops the routine one's events from the index (`kernel/mod.ts:302`), so that batch can no longer be encoded; it is still pending, so the retry out of "delivering" is refused, and the run ends. After the restart the index is whole again and it is delivered: the cost is a restart, not mail. |
| `KernelRebatchLoss` | one crash | Observed events that exceed the cap are sealed by the restart's `batcher.add`, whose result is dropped (`kernel/mod.ts:362`); later mail moves the cursor past them. With the cap of 50 a crash between observing and enqueueing more than 50 messages is needed. |
| `HandoffInterruptsTurn` | none needed | A release that runs while the kernel awaits the response of `turn/start` finds no active turn and closes the connection under it (`kernel/production.ts:149`). |

More disagreements were found with the same modules. They have no run of their own;
each shows with the constants given here in a configuration of the module named.

| Property | Constants | What happens |
|---|---|---|
| `AcceptedWithinCursor` (`MCIngressKernel`, `Spec`) | `MaxMsg=3 UrgentMail<-LastUrgent MaxBatch=1 MaxTurn=6 MaxAttempts=2 FaultKinds<-NoFaults MaxFault=0` | Accepting an overtaken batch writes its smaller last id to the cursor (`store/sqlite.ts:511`), a state that `kernel/recovery.ts:99` rejects. |
| `NoMailLost` (`MCIngressKernel`, `Spec`) | `MaxMsg=2 UrgentMail<-NoneUrgent MaxBatch=2 MaxTurn=6 MaxAttempts=2 FaultKinds<-HalfWrittenMail MaxFault=1` | A scan skips an unreadable file, the cursor passes it (`mailbox/fs.ts:159`). |
| `EveryMailSettles` (`MCIngressKernel`, `FairSpec`) | `MaxMsg=1 UrgentMail<-NoneUrgent MaxBatch=2 MaxTurn=6 MaxAttempts=2 FaultKinds<-AppServerDeath MaxFault=1` | The batch of the interrupted turn stays delivering until a restart nobody triggers (`kernel/production.ts:226`). |
| `EveryMailSettles` (`MCIngressKernel`, `FairSpec`) | the same with `MaxMsg=2 FaultKinds<-NotificationFirst MaxFault=0` | `turn/completed` dispatched before the continuation of the `turn/start` response leaves the session active for ever (`owner/turn_session.ts:199`). |
| `OneDriver` (`MCBindingLease`, `Spec`) | `Supervisors<-TwoSupervisors TTL=4 RenewEvery=1 PassTime=6 Prompt=TRUE` | A 30 s request outlives a 20 s lease renewed at the top of the loop (`kernel/mod.ts:381`). |
| `HumanHasThreadAlone` (`OwnershipHandoff`, `Spec`) | `MaxCommands=3 MaxFaults=3 SlowPersist=TRUE` | A daemon that dies after its acknowledgement and is back before the command has written the owner file opens a session beside the human (`operator/live_ownership.ts:433`). |
| `RecordedHumanIsAlone` (`OwnershipHandoff`, `Spec`) | those of `Handoff` | An acquire whose command gave up leaves the owner file at human beside a session (`operator/live_ownership.ts:87`). |
| `PlanIsComplete` (`MCIngressKernel`, `Spec`) | those of `KernelPromise` | A message inside a batch's range that the batch does not carry is in no action of the plan; and a state with a baseline but no acceptance is refused. |

The remaining findings in `PROJECT.json` are conditions that a property states in the
open: `LateAnswersNeverCount` is about requests with an owner, because
`applyPolicyDecision` checks nothing for the others; `NothingHoldsMailBack` is about
the headless mode, because in human mode a later request overwrites the gate;
`TestsCarryOver` compares in one direction; `RecoveryPromise` says what survives two
operators; `WatchPromise` and `LookupPromise` excuse what `excused` and `errored`,
`skipped`, `aborted` record.

The passing kernel runs leave out exactly the conditions where a property would fail:
`KernelSafety` uses a cap that its three messages do not exceed and no unreadable
file; `KernelLiveness` has no app-server death and no notification before its
response. `KernelPromise` includes the first three.

### Fairness

`KernelLiveness` assumes weak fairness of the kernel's own steps (an event loop that
keeps running, and systemd's `Restart=on-failure`; after a clean shutdown an
operator), of turns ending, of notifications being read, of the clock (`RetryDue`,
`WindowEnds`), and of files being finished. The app server ends every turn as
completed or failed; no fault is ever required. `LeaseStalls` assumes that time
passes, that a stopped supervisor is started again, and that a supervisor finishes
the transaction it began. `Handoff` assumes that the daemon's process and a running
command keep going, that systemd restarts the service, and that a poll meets its
deadline; nobody has to issue a command. `Owner` assumes weak fairness of the read
loop only, which is what `RequestPromise` asks for.

## 4. Proofs

All for arbitrary constants under the modules' assumptions (`MaxMsg` natural,
`MaxBatch` and `MaxAttempts` positive, any set of urgent ids, any fault kinds; any
sets of requests and clients, the session's own client among them; any positive
numbers of threads and processes; any number of commands and faults; any migrating
processes, releases and destructive versions; any owners, hashes and batches; any retry
budgets; any caps, window and kinds of events within `SizesAssumption`; any operators,
threads and seed rows; any command lines, turns, requests and deliveries; any numbers of
inboxes, messages and projects). A theorem that needs more says so in its
statement.

| Theorem | Statement |
|---|---|
| *Kernel* | |
| `TypeCorrect` | `Spec => []TypeOK` |
| `KernelIsConsistent` | `Spec => []KernelInv` |
| `AcceptedIsTrue` | `Spec => []AcceptedWasCompleted` |
| `SettledStays` | `Spec => SettledIsFinal` |
| `MarkedBeforeSent` | `Spec => WriteAhead` |
| `OnlyUrgentSteers` | `Spec => []RoutineNeverSteers` |
| `OneBatchPerMail` | `Spec => []MailInOneBatch` |
| `MailIsNotLost` | `Spec /\ [](MailIsWhole /\ RestartFits) => []NoMailLost` |
| `SmallMailboxLosesNothing` | without unreadable files and with `MaxMsg <= MaxBatch`: `Spec => []NoMailLost` |
| `RecoveryPlanCompletes` | `Spec /\ [](MailIsWhole /\ RestartFits) => []PlanIsComplete` |
| `EveryDeliveryIsOwned` | without app-server deaths: `Spec => []DeliveringHasOwner` |
| `CalmIsOrderly` | under the conditions of the two before: `Spec => []CalmInv` |
| `KernelKeepsPromise` | `Spec => ImplementsMailDelivery`: the kernel implements `MailDelivery` |
| *Lease* | |
| `LeaseTyped` | `Spec => []TypeOK` |
| `OwnerExtends` | `Spec => LeaseExtendedByOwner` |
| `LeaseOutlives` | for prompt supervisors with `RenewEvery <= TTL` and `PassTime <= TTL - RenewEvery + 1`: `Spec => []LeaseOutlivesPass` |
| `LeaseExcludes` | the same for `[]OneDriver` |
| *Hand-off* | |
| `HandoffIsConsistent` | `Spec => []HandoffInv` |
| `HumanIsAlone` | with `~SlowPersist`: `Spec => []HumanHasThreadAlone` |
| `RepeatsAreAnswered` | `Spec => RepeatIsAnswered` |
| *Owner of a thread* | |
| `LateAnswersRefused` | `ArbiterSpec => []LateAnswersNeverCount` |
| `FirstAnswerStands` | `ArbiterSpec => AnswersAreFinal` |
| `OwnerIsConsistent` | `OwnerSpec => []OwnerInv` |
| `OneAnswerPerRequest` | `OwnerSpec => []OneAnswerOnTheWire` |
| `CallsAreTold` | `OwnerSpec => []NoCallOutlivesConnection` |
| `MailIsNotHeldBack` | `OwnerSpec => []NothingHoldsMailBack` |
| `SessionAnswersStand` | `OwnerSpec => AnswersAreFinal` |
| `OwnerKeepsPromise` | `OwnerSpec => PromiseSafe`: every step is one of `RequestPromise` |
| `OwnershipIsOfTheBoundThread` | `LifecycleSpec => []OwnsTheBoundThread` |
| `BindingNeverReplaced` | `LifecycleSpec => BindingIsFinal` |
| `OwnersAreConsistent` | `MCSpec => []OwnersInv` (the `MCSpec` of `MCOwner`) |
| *Other components* | |
| `MigrationsAgree` | `MigrationsSpec => []MigrationsInv` |
| `MigrationsKeepPromise` | `MigrationsSpec => []MigrationPromise` |
| `StoresStayAlike` | `TwinsSpec => []TwinsInv` |
| `MemoryTestsCarryOver` | `TwinsSpec => []TestsCarryOver` |
| `ReconnectIsConsistent` | `ReconnectSpec => []ReconnectInv` |
| `ReconnectKeepsPromise` | `ReconnectSpec => []ReconnectPromise` |
| `BatcherKeepsPromise` | `BatcherSpec => []BatcherPromise` |
| `HandoffsKeepMail` | `HandoffCommandsSpec => []HandoffPromise` |
| `RecoveryKeepsPromise` | `RecoverySpec => []RecoveryPromise` |
| `ControlKeepsPromise` | `ControlSpec => []ControlPromise` |
| `ComponentsAreConsistent` | `MCSpec => []ComponentsInv` (the `MCSpec` of `MCComponents`) |
| `OperatorsKeepPromise` | `MCSpec => []OperatorPromise` |
| *Plugin* | |
| `CodexIsConsistent` | `CodexSpec => []CodexInv` |
| `CodexKeepsPromise` | `CodexSpec => []CodexPromise` |
| `WatchKeepsPromise` | `WatchSpec => []WatchPromise` |
| `ShadowKeepsPromise` | `ShadowSpec => []ShadowPromise` |
| `ProductKeepsPromise` | `ProductSpec => []ProductPromise` |
| `LookupKeepsPromise` | `LookupSpec => []LookupPromise` |
| `MonitorKeepsPromise` | `MCSpec => []MonitorPromise` (the `MCSpec` of `MCMonitor`) |

`ArbiterSpec`, `BatcherSpec`, `WatchSpec` and the others named after a component are the
specifications of that component alone (initial states and steps), which `MCOwner`,
`MCComponents` and `MCMonitor` run as their parts. Their inductive invariants are checked
there too, inside `OwnersInv`, `ComponentsInv` and `MonitorPromise`. The theorems about an
`MCSpec` are about those compositions: every behaviour of one is, read for the variables of
one component, a behaviour of that component (`ComponentsStart`, `ComponentsStep`), so its
invariant carries over. In `MCOwner` session and arbiter share entries, and the argument is
made for both at once (`OwnersHold`).

### Data

Three kinds of recursion over data stand in the models: running totals and flattened
sequences, the replay of an audit trail, and the splitting of a buffer, whose recursion
jumps by the length of each piece. The library's induction theorems take an operator as
parameter and cannot be used; what is used instead is about sets. `NatSetInduction` says
that a set of naturals with 0 and every successor is `Nat` (from `WFMin`), and
`RecursionExists` builds, from it, the function that a definition by descent determines.
Each recursive function of the models is first shown to exist that way (`TotalExists`,
`FlatExists`, `HistoryExists`, `OverflowSplits`, `DrainedSplits`, `PassExists`), since
TLA+ defines it by a choice, and then derived to have the property that counts, by
induction again (`DescentInduction`). Sorting is treated alike: that a finite set can be
listed in a total order is `ListingExists`, on which the sorted queues and printed batches
rest.

### The kernel

**Types** are inductive with `MemoryInv`: `current` is a batch exactly while a call
is in progress, and what the batcher sealed are batches (non-empty).

**Acceptance** rests on a chain from the accepted row back to the request:
`PendingIsUnbound` (a row that is not delivering, accepted or given up has no turn),
`BoundWasReceived` (a delivering row with a turn names a turn that was given it),
`CallWasReceived` (between the server's acceptance and the bind, the turn in hand was
given the batch in hand) and `RememberedWasReceived` (so was each turn in the
idempotency map). Without the last two, `Bind` would not preserve the second;
turn inputs only grow, and a completed turn stays completed, so all persist.

**Finality** needs `CallIsMarked` (the batch of a call is delivering), `TodoIsPending`
(whatever this pass still has to look at is pending), and `FailuresAreOpen`: a batch
with a positive attempt count is not settled. The last covers the settling that fails
after a bind: the batch may be accepted by then, but acceptance reset its count, so
its first failure asks for a retry, which the store refuses, instead of a dead letter,
which the store would not. This is where `MaxAttempts > 0` is used.
What the failing settling itself counted before the store refused it
(`CountsOfSettling`) is of a delivering row, so it disturbs none of this
(`SettlingCountsOfOpenRows`).

**Write-ahead** is `CallIsMarked` at the two steps that change a turn's input, and
**steering** is `SteerIsUrgent`: a call by turn/steer carries an urgent batch, decided
on the indexed events, which are a subset of the batch's.

**One batch per mail** is `BatchingInv`. Rows, sealed batches and the buffer are
pairwise disjoint (`CarriersApart`), which a poll preserves only because the event
index holds every observed message after the cursor (`IndexHoldsObserved`): what was
observed is not taken for new. Sealed batches exist only between a poll and the end
of its enqueueing (`DueIsEnqueuing`), so that a poll never meets older ones. It holds
under every fault, the restart that drops batches included: dropping is not doubling.
By the same invariant a due batch never has a row already, so the branch of the
enqueueing for a row that exists (`kernel/mod.ts:430`) is not taken.

**No mail lost** is not a matter of carriers but of order: a cursor is one number, and
says something about the messages below it only if rows are filled from below.
`OrderInv` states that: observed mail has no gap (`ObservedInOrder`), nor has the mail
with rows (`OutboxInOrder`), sealed batches come before the buffer (`SealedInOrder`),
what was observed is in a row, sealed or buffered once the restart has run
(`NothingForgotten`), and either cursor is at the baseline or at a message that has a
row (`CursorsInOutbox`). So whatever lies below a cursor lies below a message with a
row, and has one. `OrderInv` is preserved by every step but two, and the two
hypotheses of `MailIsNotLost` say exactly that these do not happen: `MailIsWhole` (no
file is ever unreadable) and `RestartFits` (no batch is sealed while a restart
rebuilds its buffer). Both are findings of section 3, with a behaviour each that
loses mail. They are conditions on the behaviour; `SmallMailboxLosesNothing`
derives them from the constants of `KernelSafety`.

**The recovery plan** is complete under the same two conditions: without `OutboxInOrder`
a message inside a batch's range need not be in the batch, and the plan leaves it out.

**Owned deliveries** need the session's view: `CarriageInv` says that at most one turn
runs (`OneActiveTurn`), that turns were given rows of the outbox only
(`CarriedHasRow`), and that a delivering row is bound, except for the one of the call
in progress (`DeliveringIsBound`, `CallIsUnbound`). `OwnersAlive` adds that the turn it is
bound to was not cut off; only the death of the app server under a running kernel does
that, and this is the theorem's condition and a finding of section 3.

**The refinement** `KernelKeepsPromise` maps a message to history, waiting, accepted or
dead by the row that holds it, and a turn to what it has finished
(`IngressRefinement`). The step that matters is settling: the promise accepts mail only
of a turn that completed with it. That a batch inside the running turn is not settled
by another one (`SoleCarrier`, the last part of `CarriageInv`) is what makes the
end of a turn a step of the promise. It needs every place from which the kernel could
take a turn id: the row, the answer in flight, and the idempotency map, which survives
the retry of a call whose response was lost. The theorem has no condition on the
faults: a lost message stays in the abstract state "waiting", which the promise's
safety allows.

### The lease

`LeaseOutlivesPass` is inductive. Between renewals `left` is at least
`TTL - RenewEvery` plus what `renewIn` has left, a pass begins with `renewIn > 0`, and
so the lease outlives the rest of the pass; whoever runs is therefore the holder, and
no other can open. `OwnerExtends` needs none of this, only the types: it is the
part of the lease that holds however long a process was suspended.

### The hand-off

`HumanHasThreadAlone` says something about a release that was acknowledged, so the
invariant follows the acknowledgement. `AtStake` names the places where it can be: the
daemon's cache of transitions, the connection, the command that has not written it
yet. While it is in one of them (`ReleaseHolds`), and from then on with the owner file
(`ToldHolds`), nothing may exist that could bring a session back: no session, no turn,
no transition under way, no queued acquire, and a daemon that is down or knows the
owner is human (`HumanAtRest`). The one way out is a daemon that boots from a file not
yet written, excluded by `~SlowPersist`; with `SlowPersist` the human is not alone
(section 3). The remaining parts make this inductive: at most the last command is
under way (`CommandsInTurn`), a repeat has the kind of the command it repeats
(`IdsNameFirst`), what the cache holds was issued, of that kind (`CacheAgrees`), an
answer belongs to a command that was sent (`InboxWasSent`), the lock is held by a
request in the daemon (`LockIsHeld`), a dead daemon remembers nothing (`DownIsEmpty`).

`RepeatsAreAnswered` is an action property with another reason: a request is carried
out once, so the revision never exceeds the number of requests before (`RevisionCounts`),
and a repeat is looked up before its revision is compared.

### The owner of a thread

**The arbiter**: `LateAnswersNeverCount` is not inductive without the claim: an answer
is recorded with the claim it was made under, a claim is taken by a client that is
connected, and a time-out or a disconnect after the answer changes neither.
`Rightful` says so of one entry, `Becomes` says that a step keeps it and never touches
an answer, and each operation of the arbiter is shown to be a `Becomes` of the entry it
works on.

**The session** uses those operations with less care: it writes the entry of a request
without asking whether there is one. That answers stand there too
(`SessionAnswersStand`) follows from `AsksAreFresh`: a request is asked once, so one
that is still in the input has no entry and nothing on the wire. `WireAgrees` then
ties the wire to the arbiter: at most one answer, and the recorded one. The other
conjuncts of `OwnerInv` are the arbiter's invariant, that open requests were
opened, and the two properties about gate and calls, which are inductive beside it.
`OwnerKeepsPromise` maps a request by entry and wire to `RequestPromise`, whose fairness
part (`Settled`) is not covered by it.

**The lifecycle**: `LifecycleInv` adds to the types what each await holds (`Awaiting`:
a resume has a stored thread that the configuration does not contradict, a first start
has neither a stored nor an expected one) and what an owner holds (`Owning`: the stored
thread, again uncontradicted).

### Migrations

That a process may act on a version it read long ago is what the invariant has to
survive. `ReadIsBehind`: what was read is never above the schema, since the schema only
grows. A process that was overtaken then fails by itself: the first row it would insert
is of a version the schema has already (`DraftContinues` says that a draft continues the
schema, which nobody else can change while its transaction is open: `WriterIsOpen`), and
the primary key refuses it. So whoever commits read the schema as it still was, and the
backup, whose version lies between what was read and the schema (`BackupIsRecent`), is of
exactly the version that the commit starts from. The lower half
is not idle: a process that died leaves backups under its name, of schemas that may be
older than what its successor reads.

### The two stores

`TestsCarryOver` leaves the open handle out, and is not inductive without it: memory
refuses an open where another's handle is still open, so SQLite must not keep a
handle that memory has forgotten. `TwinsInv` adds just that. `CarriesOver` is what a call
may make of two such stores: memory refuses where SQLite grants, or both answer the same
and leave stores that are alike again. It is shown for opening, for closing, for every
kind of change (`ChangeCarriesOver`), and for the transaction around a change with
its look at the lease, the expiry that drops it, and the crash before the commit
(`TransactionCarriesOver`). The two kinds of call that separate the stores, an open
beside a forgotten handle and an upsert of another hash, are where memory refuses.

### Reconnect

Of a delivery that an outage cuts off, the controller remembers the boundary it had
reached. `BoundariesTell` says what that reveals of the thread: before a
response it was served at most as often as outages left its acceptance open; after one
it was served, and once the connection is gone that outage is among those counted;
after the commit the delivery is committed. Together with `UnbegunIsUnserved` this gives "once, and again only for an
ambiguous outage" (`AtLeastOnce`) through any number of outages (`AmbiguityIsOutage` keeps
that count bounded). The budget is carried by `TriesAreCounted`: the attempts granted to a
connection never exceed what its retry series has counted, and a series is of another class
only if it is over, so that a disconnect never inherits one that a delivery began. That the
pieces of a replay neither overlap nor leave a gap needs only that the
last id handed out was mail (`ReplayedUpToMail`).

### The batcher

That order is kept needs what a piece is: a prefix, at least one event long, the longest
that fits (`PrefixIsLongest`). `OverflowSplits` and `DrainedSplits` then say of a whole
buffer that its pieces and what stays flatten back to it, that each piece is `Whole`, and
that what stays fits. `flush` drains the buffer but returns the first piece only. Nothing
is lost by it because what waits fits a batch up to each of its events (`PrefixesFit`, a
conjunct of `BatcherInv`), so the first piece is all of it. Fitting as a
whole would not be enough: with collapse an event is hidden by later ones, so a longer
buffer may fit where a shorter one does not. When an event makes the buffer overflow, a
tail of it stays, whose prefixes fit because an event hidden in a sequence is hidden in
each tail that keeps it (`LeftFits`, `LeftoverFits`). That the encoder takes every piece (`WholeEncodes`) compares two sums
over the same events: the piece fits the batcher's cap, or is a single event;
`SizesAssumption` does the rest, a single event by the limit the mailbox puts on subjects,
a longer piece because it is either short enough for any subjects or long enough for
the batcher's overhead to cover the encoder's frame. With collapse that claim is false,
because the encoder writes what the batcher no longer counts.

`WindowHolds` carries the third promise. A window that holds events back was not over at
the last pass, and ends within a window of the arrival of everything behind it: what an
early flush leaves keeps an older window, never a younger one, so it leaves no later
than if it had opened its own. The conjunct on lengths in `BatcherInv` only bounds what
was sealed.

### Recovery commands

`AuditExplainsRow` is not inductive for the row alone, because a command saves a draft that
it made of a row that may be gone. So the invariant says the same of every draft that is
loaded and not yet saved: it is explained by its own trail (`Explained`), it changed what
was shown (`AsShown`), and it kept the outbox (`Retained`). Of a confirmation that was
checked and has not loaded again, `Checked` says that its token still shows the row as it
is, or that another save raced it; the save of any operator makes that true of all others
(`RaceMarked`). `HistoryGoesOn`: a trail that grows by one changes no state before. The
target of a replay stays one the binding had heard of although the row may be overwritten,
since every row that was ever saved keeps the seed's dead letters.

### Hand-off commands and control

The queue is followed by counting: `HandoffInv` adds that deliveries taken and waiting
together are no more than were enqueued, which bounds the histories, and that the row a
command has loaded is idle when it says human (`Idle`), so that a save of an old row cannot
put a busy thread under a human. `QueueInOrder` says what the sort returns: the same ids,
none twice, in order; `FirstIsTaken` that its head is below all others. The control surface
is a function of its request, and `ControlAnswers` a case analysis over its actions.

### The Codex monitor

The frontier is moved in one step, to the highest id of the batch, when the turn has
completed; what makes this right happened several steps before, while mail kept landing.
`PassMissesNone`: during a pass every file in an inbox was read, is in an inbox still to be
read, or landed too late to be blamed on the pass; so when the pass is over, the batch
leaves none out up to its highest id, and none that lands meanwhile below it is
blamed either (`BatchMissesNone`). That the status read belongs to this batch's turn, not
to the one before, is `WireIsOfTheTurn`: turn, unread lines, the answer and the status
have only the combinations that one turn produces, so a reported completion is the
completion of the batch (`CompletedIsServed`). The next turn is asked for when that line was
read (`TurnFollowsLoop`); what was given to a turn is at or below the frontier or in the
batch (`GivenIsPassed`), which is why no message is given twice. All this holds
although the end of a turn may be read in one chunk with its answer, before the loop has
gone on.

### The plugin's other processes

The watch, the shadow tail and the Codex monitor share one difficulty, that mail lands in
an inbox the pass has read already, and answer it alike: `WatchSeesAll` and `ShadowSeesDue`
account for every file as seen, in an inbox still to be read, or excused. In the watch
`EmitsTheRest` follows the sorted queue of a pass, `PrintedIsPassed` keeps the lines in
order across passes. In the tail, `SeenIsShown` ties the set in memory to what was printed,
and `MissesAreReads` the countdown of a follower to the reads of SQLite that missed, from
which "diverged only after `Confirm` reads" follows. The product watch needs only that what
was printed, cut or missed is of the past (`PastIsPassed`); the work is in what a page
is: the newest of the messages above the mark, printed from the oldest (`PrintedInOrder`,
which also covers a page that a failing label lookup cuts short). In the lookup,
`ProbesAccount` says that every candidate is to be probed, was probed or was left out,
and that the message's own project was probed in vain only if its probe failed, because a
message, once delivered, stays where it is.

### Model-checked only

Every invariant and every action property of the passing runs has a theorem, except for
these:

* liveness under fairness, which the prover does not handle: `EveryMailSettles`,
  `CrashIsRecovered`, `AuthorityIsFreed`, `SettlesOnOneOwner`, and the fairness part of
  `PromiseKept` (its steps are `OwnerKeepsPromise`);
* where a theorem has a condition (`NoMailLost`, `DeliveringHasOwner`, `PlanIsComplete`,
  `CalmInv`, `OneDriver`, `LeaseOutlivesPass`, `HumanHasThreadAlone`), what happens outside
  of it is shown by the violations of section 3, on small instances.

## 5. Not modelled

* Schemas, configuration, error classes and protocol version checks: validation of
  shapes, without state.
* Status, live status, observability, notifications, permission checks and the other
  commands of `cli.ts`; the plugin's `doctor` and `introspect`: they report.
* `verification/shadow.ts`, the load harness and the acceptance collector: drivers of
  the other components on fakes, whose state is a report.
* Fakes and contract suites: test code. The memory store, which is a store too, is in
  `StoreTwins`.
* `plugins/kittens-saved`, `plugins/ultragoal`, `plugins/rg-flag-guard`, `scripts/`:
  programs of their own, see the plan.

Within the modelled components: the policy of human owners beyond queueing and
`decideAfterRefresh`, which has no caller; the poll class of retries, which differs in
numbers; the parsing of files and the rendering of turns; the lists a run returns;
runtime snapshot and heartbeat of the daemon; systemd's start limit; `am`'s label
lookups. Mail whose id is at or below the kernel's cursor is listed as a hazard
without a property: one comparison loses it, and no protocol follows.

## 6. Plan

1. `KittensLedger` (one file, one lock, writers that die) and the stop guard of
   `ultragoal` (a decision over files an assistant writes).
2. `verification/shadow.ts` as an observer of the kernel's specification.
