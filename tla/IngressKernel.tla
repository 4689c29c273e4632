---------------------------- MODULE IngressKernel ----------------------------
(***************************************************************************)
(* IngressKernel.run (kernel/mod.ts): one supervisor process that polls    *)
(* the mailbox, batches what is new into the durable outbox, delivers      *)
(* pending batches to the Codex thread by policy, and accepts a batch only *)
(* when the turn that carried it completed.                                *)
(*                                                                         *)
(* The kernel is one sequential program; its awaits are where the mailbox, *)
(* the app server, the notifications and the clock move.  A step below is  *)
(* the code between two awaits that matter, and holds at most one durable  *)
(* transaction or one app-server exchange.  The lease is in BindingLease.  *)
(***************************************************************************)
EXTENDS CodexThread

CONSTANTS
    MaxAttempts,  \* retries of one delivery series (8 in the code)
    FaultKinds,   \* which faults may happen
    MaxFault      \* bound on the faults of a behaviour

ASSUME KernelAssumption ==
    /\ MaxAttempts \in Nat \ {0}
    /\ MaxFault \in Nat
    /\ FaultKinds \subseteq {"crash", "appserver", "rpc", "turn", "store",
                             "overtake", "unreadable"}

VARIABLES
    inbox,        \* ids of the mail files of this agent in the mailbox
    unreadable,   \* those whose file cannot be read or parsed yet
    pc,           \* where the kernel is
    stopReason,   \* why the kernel last stopped
    cursorId,     \* the in-memory cursor
    eventIndex,   \* ids whose MailEvent is held in memory
    buffer,       \* the batcher's buffer
    windowOver,   \* the batch window of that buffer has ended
    due,          \* batches the batcher sealed, not yet enqueued
    todo,         \* pending batches this pass still has to look at
    current,      \* the batch being delivered
    method,       \* the app-server method of that delivery
    turnId,       \* the turn it steers or was accepted by
    attempts,     \* RetryPolicy's in-memory attempt counts
    faults        \* faults so far

mailVars   == <<inbox, unreadable>>
callVars   == <<current, method, turnId>>
memoryVars == <<cursorId, eventIndex, buffer, windowOver, due, todo, callVars, attempts>>
vars == <<storeVars, threadVars, mailVars, memoryVars, pc, stopReason, faults>>

Methods == {"none", "turn/start", "turn/steer"}

TypeOK ==
    /\ StoreTypeOK
    /\ ThreadTypeOK
    /\ inbox \subseteq MessageIds
    /\ unreadable \subseteq MessageIds
    /\ pc \in {"down", "recover", "head", "enqueue", "deliver", "calling",
               "answered", "binding", "bound"}
    /\ stopReason \in {"none", "crash", "error"}
    /\ cursorId \in 0..MaxMsg
    /\ eventIndex \subseteq MessageIds
    /\ buffer \subseteq MessageIds
    /\ windowOver \in BOOLEAN
    /\ due \subseteq Batches
    /\ todo \subseteq Batches
    /\ current \in Batches \cup {NoBatch}
    /\ method \in Methods
    /\ turnId \in TurnIds \cup {NoTurn}
    /\ attempts \in [Batches -> 0..MaxAttempts]
    /\ faults \in 0..MaxFault

NoAttempts == [b \in Batches |-> 0]

Init ==
    /\ StoreInit
    /\ ThreadInit
    /\ inbox = {}
    /\ unreadable = {}
    /\ pc = "down"
    /\ stopReason = "none"
    /\ cursorId = 0
    /\ eventIndex = {}
    /\ buffer = {}
    /\ windowOver = FALSE
    /\ due = {}
    /\ todo = {}
    /\ current = NoBatch
    /\ method = "none"
    /\ turnId = NoTurn
    /\ attempts = NoAttempts
    /\ faults = 0

Fault(kind) ==
    /\ kind \in FaultKinds
    /\ faults < MaxFault
    /\ faults' = faults + 1

CallEnds ==
    /\ current' = NoBatch
    /\ method' = "none"
    /\ turnId' = NoTurn

-----------------------------------------------------------------------------
(* The mailbox (external): a new message takes the next id.  Ids of other  *)
(* recipients leave gaps, which nothing here depends on.                   *)

MailArrives(m) ==
    /\ inbox = 1..(m - 1)
    /\ inbox' = inbox \cup {m}
    /\ \/ unreadable' = unreadable /\ UNCHANGED faults
       \/ Fault("unreadable") /\ unreadable' = unreadable \cup {m}
    /\ UNCHANGED <<storeVars, threadVars, memoryVars, pc, stopReason>>

MailBecomesReadable(m) ==
    /\ m \in unreadable
    /\ unreadable' = unreadable \ {m}
    /\ UNCHANGED <<storeVars, threadVars, inbox, memoryVars, pc, stopReason, faults>>

(* FsMailboxSource: a scan returns every readable message after the cursor *)
(* and skips the files it cannot use.                                      *)
ReadAfter(c) == {m \in inbox \ unreadable : m > c}

BaselineId == IF ReadAfter(0) = {} THEN 0 ELSE Max(ReadAfter(0))

-----------------------------------------------------------------------------
(* Start and stop *)

(* Everything in memory is gone, the owner and its app server with it. *)
Stop(reason) ==
    /\ pc' = "down"
    /\ stopReason' = reason
    /\ SessionCloses
    /\ cursorId' = 0
    /\ eventIndex' = {}
    /\ buffer' = {}
    /\ windowOver' = FALSE
    /\ due' = {}
    /\ todo' = {}
    /\ CallEnds
    /\ attempts' = NoAttempts

(* The process is killed, is told to shut down, loses the lease or fails a *)
(* transaction outside a delivery: all end the run between two steps.      *)
Crash ==
    /\ pc # "down"
    /\ Fault("crash")
    /\ Stop("crash")
    /\ UNCHANGED <<storeVars, mailVars>>

(* A run opens the lease, owner and session, takes a baseline only if no   *)
(* durable cursor exists, and indexes every observed event.                *)
Start ==
    /\ pc = "down"
    /\ SessionOpens
    /\ \/ baselined /\ UNCHANGED storeVars
       \/ SetBaseline(BaselineId)
    /\ pc' = "recover"
    /\ stopReason' = "none"
    /\ cursorId' = cursor'
    /\ eventIndex' = sourceEvents
    /\ UNCHANGED <<mailVars, buffer, windowOver, due, todo, callVars, attempts, faults>>

(* Mutation: the replay filter lets dead letters through. *)
ReplayDeadLetters ==
    LET left == InState("delivering") \cup InState("dead_letter") IN
    /\ pc = "recover"
    /\ left # {}
    /\ TransitionBatch(Earliest(left), batchState[Earliest(left)], "pending", NoTurn, FALSE)
    /\ UNCHANGED <<threadVars, mailVars, memoryVars, pc, stopReason, faults>>

(* A delivering batch left by a crash is replayed under the same id. *)
Replay ==
    /\ pc = "recover"
    /\ InState("delivering") # {}
    /\ TransitionBatch(Earliest(InState("delivering")), "delivering", "pending", NoTurn, FALSE)
    /\ UNCHANGED <<threadVars, mailVars, memoryVars, pc, stopReason, faults>>

(* Mutation: events that a batch carries already are batched again. *)
UnbatchedOrCovered == {m \in sourceEvents : m > cursorId}

(* Observed events after the cursor that no batch carries.  They are added *)
(* to the batcher; the batches that add() seals are not used.              *)
Unbatched == {m \in sourceEvents : m > cursorId /\ ~Covered(m)}

(* Mutation: delivering batches are not replayed after a restart. *)
RebatchWithoutReplay ==
    /\ pc = "recover"
    /\ buffer' = Unbatched \ UNION SealedBatches(Unbatched)
    /\ pc' = "head"
    /\ UNCHANGED <<storeVars, threadVars, mailVars, cursorId, eventIndex, windowOver,
                   due, todo, callVars, attempts, stopReason, faults>>

(* Mutation: observed but unbatched events are forgotten by a restart. *)
RebatchNothing ==
    /\ pc = "recover"
    /\ InState("delivering") = {}
    /\ pc' = "head"
    /\ UNCHANGED <<storeVars, threadVars, mailVars, memoryVars, stopReason, faults>>

Rebatch ==
    /\ pc = "recover"
    /\ InState("delivering") = {}
    /\ buffer' = Unbatched \ UNION SealedBatches(Unbatched)
    /\ pc' = "head"
    /\ UNCHANGED <<storeVars, threadVars, mailVars, cursorId, eventIndex, windowOver,
                   due, todo, callVars, attempts, stopReason, faults>>

-----------------------------------------------------------------------------
(* RetryPolicy.decide for the delivery class: give up on a permanent       *)
(* failure, past the attempt limit, or (from the second failure on) when   *)
(* the elapsed budget may have run out.                                    *)

(* Mutation: the attempt limit is never looked at. *)
GivesUpNever(n, permanent) == permanent

GivesUp(n, permanent) == permanent \/ n = MaxAttempts
MayGiveUp(n, permanent) == GivesUp(n, permanent) \/ n > 0

(* What happens to a batch whose delivery failed, by the failures counted. *)
RetryOrDeadLetter(counts, b, permanent) ==
    \/ /\ ~GivesUp(counts[b], permanent)
       /\ TransitionBatch(b, "delivering", "pending", NoTurn, TRUE)
       /\ attempts' = [counts EXCEPT ![b] = @ + 1]
    \/ /\ MayGiveUp(counts[b], permanent)
       /\ DeadLetter(b)
       /\ attempts' = [counts EXCEPT ![b] = 0]

-----------------------------------------------------------------------------
(* Settling terminal outcomes (settleTerminalOutcomes) *)

Settleable == {t \in terminals : InFlight(t) # {}}

(* Mutation: any terminal outcome counts as completion. *)
SettleAnyTerminal(t) ==
    LET b == EarliestEnding(InFlight(t)) IN
    /\ AcceptBatch(b, t)
    /\ cursorId' = Max({cursorId, Last(b)})
    /\ attempts' = [attempts EXCEPT ![b] = 0]
    /\ eventIndex' = {m \in eventIndex : m > cursorId'}

SettleCompleted(t) ==
    LET b == EarliestEnding(InFlight(t)) IN
    /\ turnState[t] = "completed"
    /\ AcceptBatch(b, t)
    /\ cursorId' = Max({cursorId, Last(b)})
    /\ attempts' = [attempts EXCEPT ![b] = 0]
    /\ eventIndex' = {m \in eventIndex : m > cursorId'}

(* The failure's text decides whether it counts as permanent. *)
SettleFailed(t) ==
    /\ turnState[t] = "failed"
    /\ \E permanent \in BOOLEAN :
           RetryOrDeadLetter(attempts, EarliestEnding(InFlight(t)), permanent)
    /\ UNCHANGED <<cursorId, eventIndex>>

Settle ==
    /\ pc \in {"head", "bound"}
    /\ Settleable # {}
    /\ LET t == Min(Settleable) IN SettleCompleted(t) \/ SettleFailed(t)
    /\ UNCHANGED <<threadVars, mailVars, buffer, windowOver, due, todo, callVars,
                   pc, stopReason, faults>>

-----------------------------------------------------------------------------
(* One pass of the main loop *)

(* Read the mailbox, observe what is new, and add it to the batcher: an    *)
(* expired window is drained first, then the caps seal full batches.       *)
Poll ==
    LET new    == ReadAfter(cursorId) \ eventIndex
        kept   == IF windowOver THEN {} ELSE buffer
        sealed == SealedBatches(kept \cup new) IN
    /\ pc = "head"
    /\ Settleable = {}
    /\ eventIndex' = eventIndex \cup new
    /\ ObserveSourceEvents(new)
    /\ due' = sealed \cup (IF windowOver THEN {buffer} ELSE {})
    /\ buffer' = (kept \cup new) \ UNION sealed
    /\ windowOver' = FALSE
    /\ pc' = "enqueue"
    /\ UNCHANGED <<threadVars, mailVars, cursorId, todo, callVars, attempts, stopReason, faults>>

WindowEnds ==
    /\ buffer # {}
    /\ ~windowOver
    /\ windowOver' = TRUE
    /\ UNCHANGED <<storeVars, threadVars, mailVars, cursorId, eventIndex, buffer, due, todo,
                   callVars, attempts, pc, stopReason, faults>>

(* A sealed batch becomes a pending outbox row unless its id is known. *)
Enqueue ==
    /\ pc = "enqueue"
    /\ due # {}
    /\ LET b == Earliest(due) IN
         /\ IF b \in Outbox THEN UNCHANGED storeVars ELSE EnqueueBatch(b)
         /\ due' = due \ {b}
    /\ UNCHANGED <<threadVars, mailVars, cursorId, eventIndex, buffer, windowOver, todo,
                   callVars, attempts, pc, stopReason, faults>>

LoadOutbox ==
    /\ pc = "enqueue"
    /\ due = {}
    /\ todo' = InState("pending")
    /\ pc' = "deliver"
    /\ UNCHANGED <<storeVars, threadVars, mailVars, cursorId, eventIndex, buffer, windowOver,
                   due, callVars, attempts, stopReason, faults>>

(* The end of a pass; the wait that follows it lets anything else happen. *)
PassEnds ==
    /\ pc = "deliver"
    /\ todo = {}
    /\ pc' = "head"
    /\ UNCHANGED <<storeVars, threadVars, mailVars, memoryVars, stopReason, faults>>

-----------------------------------------------------------------------------
(* Delivering one pending batch *)

NextTodo == Earliest(todo)

(* DefaultDeliveryPolicy on a headless thread: idle starts a turn, and an  *)
(* active turn is steered only by urgent mail, as far as the events still  *)
(* indexed tell.                                                           *)

(* Mutation: urgency is judged over everything that is waiting. *)
MustQueueNothingUrgent(b) == sessionTurn # NoTurn /\ ~IsUrgent(eventIndex)

MustQueue(b) == sessionTurn # NoTurn /\ ~IsUrgent(b \cap eventIndex)

SkipOrQueue ==
    /\ pc = "deliver"
    /\ todo # {}
    /\ NextTodo \in backoff \/ MustQueue(NextTodo)
    /\ todo' = todo \ {NextTodo}
    /\ UNCHANGED <<storeVars, threadVars, mailVars, cursorId, eventIndex, buffer, windowOver,
                   due, callVars, attempts, pc, stopReason, faults>>

Deliverable(b) == b \notin backoff /\ ~MustQueue(b)

(* Mutation: the batch is sent before it is marked. *)
BeginDeliveryUnmarked ==
    /\ pc = "deliver"
    /\ todo # {}
    /\ Deliverable(NextTodo)
    /\ NextTodo \subseteq eventIndex
    /\ current' = NextTodo
    /\ turnId' = sessionTurn
    /\ method' = IF sessionTurn = NoTurn THEN "turn/start" ELSE "turn/steer"
    /\ pc' = "calling"
    /\ UNCHANGED <<storeVars, threadVars, mailVars, cursorId, eventIndex, buffer, windowOver,
                   due, todo, attempts, stopReason, faults>>

(* Encode the batch and mark it delivering before anything is sent. *)
BeginDelivery ==
    /\ pc = "deliver"
    /\ todo # {}
    /\ Deliverable(NextTodo)
    /\ NextTodo \subseteq eventIndex
    /\ TransitionBatch(NextTodo, "pending", "delivering", acceptedTurn[NextTodo], FALSE)
    /\ current' = NextTodo
    /\ turnId' = sessionTurn
    /\ method' = IF sessionTurn = NoTurn THEN "turn/start" ELSE "turn/steer"
    /\ pc' = "calling"
    /\ UNCHANGED <<threadVars, mailVars, cursorId, eventIndex, buffer, windowOver, due, todo,
                   attempts, stopReason, faults>>

(* The delivery of b threw: retry it later or give it up, and go on.  The   *)
(* retry leaves "delivering", so the store refuses it for a batch that is  *)
(* in another state, and that ends the run; giving up asks no state.       *)
DeliveryFails(counts, b, permanent) ==
    /\ \/ /\ RetryOrDeadLetter(counts, b, permanent)
          /\ todo' = todo \ {b}
          /\ CallEnds
          /\ pc' = "deliver"
          /\ UNCHANGED <<threadVars, cursorId, eventIndex, buffer, windowOver, due, stopReason>>
       \/ /\ ~GivesUp(counts[b], permanent)
          /\ batchState[b] # "delivering"
          /\ Stop("error")
          /\ UNCHANGED storeVars
    /\ UNCHANGED mailVars

(* A batch one of whose events left the index cannot be encoded, and the   *)
(* mark may fail in the store: the batch is still pending then.            *)
EncodeOrMarkFails ==
    /\ pc = "deliver"
    /\ todo # {}
    /\ Deliverable(NextTodo)
    /\ \/ ~(NextTodo \subseteq eventIndex) /\ UNCHANGED faults
       \/ Fault("store")
    /\ DeliveryFails(attempts, NextTodo, FALSE)

(* The session answers from its idempotency map, without a request. *)
SessionRemembers ==
    /\ pc = "calling"
    /\ KnownAcceptance(current, method, turnId)
    /\ turnId' = idempotency[current]
    /\ pc' = "binding"
    /\ UNCHANGED <<storeVars, threadVars, mailVars, cursorId, eventIndex, buffer, windowOver,
                   due, todo, current, method, attempts, stopReason, faults>>

(* The session or its transport refuses before sending: transport failed,  *)
(* thread no longer idle, turn no longer the active one.                   *)
SessionRefuses ==
    /\ pc = "calling"
    /\ ~KnownAcceptance(current, method, turnId)
    /\ ~SessionAllows(current, method, turnId)
    /\ DeliveryFails(attempts, current, FALSE)
    /\ UNCHANGED faults

(* The app server takes the request: a new turn, or input to the turn. *)
ServerAccepts ==
    /\ pc = "calling"
    /\ SessionAllows(current, method, turnId)
    /\ \E t \in TurnIds :
         /\ \/ method = "turn/start" /\ ServerStartsTurn(t, current)
            \/ method = "turn/steer" /\ t = turnId /\ ServerSteersTurn(t, current)
         /\ turnId' = t
    /\ pc' = "answered"
    /\ UNCHANGED <<storeVars, mailVars, cursorId, eventIndex, buffer, windowOver, due, todo,
                   current, method, attempts, stopReason, faults>>

(* The app server answers with an error: it is busy, the turn is over, or  *)
(* a fault; the error's text decides whether it counts as permanent.       *)
ServerRefuses ==
    /\ pc = "calling"
    /\ SessionAllows(current, method, turnId)
    /\ \/ /\ IF method = "turn/start" THEN ~ThreadIdle ELSE turnState[turnId] # "active"
          /\ UNCHANGED faults
       \/ Fault("rpc")
    /\ \E permanent \in BOOLEAN : DeliveryFails(attempts, current, permanent)

Response ==
    /\ pc = "answered"
    /\ ResponseHandled(current, method, turnId)
    /\ pc' = "binding"
    /\ UNCHANGED <<storeVars, mailVars, memoryVars, stopReason, faults>>

(* The request times out after the server took it, or the transport fails. *)
ResponseLost ==
    /\ pc = "answered"
    /\ \/ ~serverUp /\ UNCHANGED faults
       \/ Fault("rpc")
    /\ DeliveryFails(attempts, current, FALSE)

(* The turn is recorded on the delivering batch. *)
Bind ==
    /\ pc = "binding"
    /\ TransitionBatch(current, "delivering", "delivering", turnId, FALSE)
    /\ todo' = todo \ {current}
    /\ pc' = "bound"
    /\ UNCHANGED <<threadVars, mailVars, cursorId, eventIndex, buffer, windowOver, due, callVars,
                   attempts, stopReason, faults>>

BindFails ==
    /\ pc = "binding"
    /\ Fault("store")
    /\ DeliveryFails(attempts, current, FALSE)

(* The counts a failed settling leaves: of a failed turn, retry.decide was *)
(* asked about the batch before the store was, unless the store failed to  *)
(* load; a series that gives up is forgotten.                              *)
CountsOfSettling ==
    LET t == Min(Settleable)
        b == EarliestEnding(InFlight(t)) IN
    {attempts} \cup {[attempts EXCEPT ![b] = n] :
        n \in {k \in {0, attempts[b] + 1} : turnState[t] = "failed" /\ k <= MaxAttempts}}

(* The settling after a bind runs inside the delivery's try: its failure   *)
(* counts as a failure of the batch just bound, settled by then or not.    *)
SettlingFails ==
    /\ pc = "bound"
    /\ Settleable # {}
    /\ Fault("store")
    /\ \E counts \in CountsOfSettling : DeliveryFails(counts, current, FALSE)

BoundSettled ==
    /\ pc = "bound"
    /\ Settleable = {}
    /\ CallEnds
    /\ pc' = "deliver"
    /\ UNCHANGED <<storeVars, threadVars, mailVars, cursorId, eventIndex, buffer, windowOver, due,
                   todo, attempts, stopReason, faults>>

-----------------------------------------------------------------------------
(* The app server, its notifications and the clock *)

TurnCompletes(t) ==
    /\ TurnEnds(t, "completed")
    /\ UNCHANGED <<storeVars, mailVars, memoryVars, pc, stopReason, faults>>

TurnFails(t) ==
    /\ Fault("turn")
    /\ TurnEnds(t, "failed")
    /\ UNCHANGED <<storeVars, mailVars, memoryVars, pc, stopReason>>

ServerDies ==
    /\ Fault("appserver")
    /\ AppServerExits
    /\ UNCHANGED <<storeVars, mailVars, memoryVars, pc, stopReason>>

(* While a response is being handled a notification of the same chunk may  *)
(* be dispatched first; elsewhere notifications come after the response.   *)
Notification(t) ==
    /\ pc = "answered" => "overtake" \in FaultKinds
    /\ TurnStartedNotification(t) \/ TerminalNotification(t)
    /\ UNCHANGED <<storeVars, mailVars, memoryVars, pc, stopReason, faults>>

RetryDue(b) ==
    /\ RetryTimeArrives(b)
    /\ UNCHANGED <<threadVars, mailVars, memoryVars, pc, stopReason, faults>>

-----------------------------------------------------------------------------
KernelStep ==
    \/ Start \/ Replay \/ Rebatch
    \/ Settle \/ Poll \/ Enqueue \/ LoadOutbox \/ PassEnds
    \/ SkipOrQueue \/ BeginDelivery \/ EncodeOrMarkFails
    \/ SessionRemembers \/ SessionRefuses \/ ServerAccepts \/ ServerRefuses
    \/ Response \/ ResponseLost \/ Bind \/ BindFails \/ SettlingFails
    \/ BoundSettled

Environment ==
    \/ \E m \in MessageIds : MailArrives(m) \/ MailBecomesReadable(m)
    \/ \E t \in TurnIds : TurnCompletes(t) \/ TurnFails(t) \/ Notification(t)
    \/ \E b \in Batches : RetryDue(b)
    \/ WindowEnds
    \/ ServerDies
    \/ Crash

Next == KernelStep \/ Environment

Spec == Init /\ [][Next]_vars

(* The event loop keeps running the kernel and systemd restarts a failed   *)
(* run; turns end, notifications are read, the clock moves, a file that    *)
(* is being written is finished.  No fault is ever required to happen.     *)
Fairness ==
    /\ WF_vars(KernelStep)
    /\ WF_vars(\E t \in TurnIds : TurnCompletes(t))
    /\ WF_vars(\E t \in TurnIds : Notification(t))
    /\ WF_vars(\E b \in Batches : RetryDue(b))
    /\ WF_vars(WindowEnds)
    /\ WF_vars(\E m \in MessageIds : MailBecomesReadable(m))

FairSpec == Spec /\ Fairness

-----------------------------------------------------------------------------
(* Properties *)

(* No mail is lost: a message that arrived after the baseline is in an     *)
(* outbox batch before the cursor (durable or in memory) passes it, so     *)
(* that after a crash at any point it is either in the outbox or read      *)
(* again.  Concerns observe, enqueue, accept and restart together.         *)
NoMailLost ==
    \A m \in inbox :
        baselined /\ baseline < m /\ m <= Max({cursor, cursorId}) => Covered(m)

(* No message is carried by two batches, whatever was re-read from the     *)
(* mailbox, rebuilt from source_events or left in the batcher by a crash.  *)
MailInOneBatch ==
    \A b, c \in Outbox : b # c => b \cap c = {}

(* Acceptance is never invented: an accepted batch names a turn that was   *)
(* given this batch and completed, also when responses were lost, turns    *)
(* failed, and several batches shared a turn.                              *)
AcceptedWasCompleted ==
    \A b \in InState("accepted") :
        /\ acceptedTurn[b] # NoTurn
        /\ Received(b, acceptedTurn[b])
        /\ turnState[acceptedTurn[b]] = "completed"

(* Every delivering batch has an owner: the call in progress, a turn that  *)
(* was given the batch and whose outcome will settle it, or the restart    *)
(* that will replay it.  Without one it would be in flight forever.        *)
DeliveringHasOwner ==
    \A b \in InState("delivering") :
        \/ pc \in {"down", "recover"}
        \/ b = current
        \/ /\ acceptedTurn[b] # NoTurn
           /\ Received(b, acceptedTurn[b])
           /\ turnState[acceptedTurn[b]] # "interrupted"

(* Routine mail never steers: every batch a turn was given after its first *)
(* is urgent.                                                              *)
RoutineNeverSteers ==
    \A t \in TurnIds : \A i \in 2..Len(turnInput[t]) : IsUrgent(turnInput[t][i])

(* Write-ahead: whatever reaches a turn is durably marked delivering at    *)
(* that moment, so a crash right after is replayed, and nothing accepted   *)
(* or dead-lettered is ever sent again.                                    *)
WriteAhead ==
    [][\A t \in TurnIds : turnInput'[t] # turnInput[t] =>
            batchState[turnInput'[t][Len(turnInput'[t])]] = "delivering"]_vars

(* Accepted and dead-lettered are final although deadLetter checks no      *)
(* state and is reached, after a failed settling, for a batch that was     *)
(* just accepted; and the outbox is never discarded.                       *)
SettledIsFinal ==
    [][\A b \in Outbox :
            /\ batchState'[b] # "absent"
            /\ batchState[b] \in {"accepted", "dead_letter"} =>
                  batchState'[b] = batchState[b]]_vars

(* Every message after the baseline is eventually accepted or              *)
(* dead-lettered, across retries, queueing, overtaking and restarts.       *)
EveryMailSettles ==
    \A m \in MessageIds :
        (baselined /\ baseline < m /\ m \in inbox) ~>
            \E b \in Outbox : m \in b /\ batchState[b] \in {"accepted", "dead_letter"}

(* The cursor stays at or past every accepted batch, also when batches are *)
(* accepted out of order: reconcileRecovery (kernel/recovery.ts:99) counts *)
(* a state in which it does not as corrupt.                                *)
AcceptedWithinCursor == \A b \in InState("accepted") : Last(b) <= cursor

(* A batch that cannot be delivered does not end the run: later events     *)
(* continue.                                                               *)
RunSurvivesBatch == stopReason # "error"
=============================================================================
