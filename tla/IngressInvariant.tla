-------------------------- MODULE IngressInvariant --------------------------
(***************************************************************************)
(* The inductive invariants behind the kernel's theorems.                  *)
(***************************************************************************)
EXTENDS IngressKernel

(* Where the kernel stands in its loop constrains what it holds in memory: *)
(* a call in progress has a batch, a window runs only over buffered mail,  *)
(* and nothing is buffered before the restart has rebuilt the buffer.      *)
MemoryInv ==
    /\ pc \in {"calling", "answered", "binding", "bound"} => current \in Batches
    /\ windowOver => buffer # {}
    /\ pc \in {"down", "recover"} => buffer = {} /\ ~windowOver

TypeInv == TypeOK /\ MemoryInv

(* A turn that was not started yet holds no input. *)
UnusedIsEmpty == \A t \in TurnIds : turnState[t] = "unused" => turnInput[t] = <<>>

(* A pending batch is bound to no turn. *)
PendingIsUnbound == \A b \in InState("pending") : acceptedTurn[b] = NoTurn

(* A delivering batch is bound only to a turn that was given it. *)
BoundWasReceived ==
    \A b \in InState("delivering") :
        acceptedTurn[b] # NoTurn => Received(b, acceptedTurn[b])

(* So is the call whose answer the kernel is handling, *)
CallWasReceived ==
    pc \in {"answered", "binding"} => turnId \in TurnIds /\ Received(current, turnId)

(* and every answer the session remembers. *)
RememberedWasReceived ==
    \A b \in Batches : idempotency[b] # NoTurn => Received(b, idempotency[b])

(* Wherever the kernel may take a turn id from (the row it binds, the      *)
(* answer in flight, the session's idempotency map), the turn was given    *)
(* that very batch, through lost responses, retries and restarts.          *)
AcceptanceInv ==
    /\ AcceptedWasCompleted
    /\ UnusedIsEmpty
    /\ PendingIsUnbound
    /\ BoundWasReceived
    /\ CallWasReceived
    /\ RememberedWasReceived

(* The batch of a call in progress is marked delivering, the batch just    *)
(* bound has a row, and there is no current batch outside a call. *)
CallIsMarked ==
    CASE pc \in {"calling", "answered", "binding"} -> batchState[current] = "delivering"
      [] pc = "bound" -> batchState[current] # "absent"
      [] OTHER -> current = NoBatch

(* Only a batch that is still open has failures counted against it, so a   *)
(* settled one is never given up a second time. *)
FailuresAreOpen ==
    \A b \in Batches : attempts[b] > 0 => batchState[b] \in {"pending", "delivering"}

(* What the pass still has to look at has not moved since it was loaded. *)
TodoIsPending ==
    \A b \in todo : (b = current /\ pc # "bound") \/ batchState[b] = "pending"

(* Only urgent mail is on its way into a running turn. *)
SteerIsUrgent == pc = "calling" /\ method = "turn/steer" => IsUrgent(current)

(* The outbox agrees with what the pass in memory believes of it. *)
DeliveryInv == CallIsMarked /\ FailuresAreOpen /\ TodoIsPending /\ SteerIsUrgent

-----------------------------------------------------------------------------
(* Where mail is on its way from the mailbox into the outbox *)

(* While the kernel runs it holds every observed message after its cursor  *)
(* in memory, so a poll never takes one of them for new. *)
IndexHoldsObserved ==
    pc # "down" =>
        /\ eventIndex \subseteq sourceEvents
        /\ \A m \in sourceEvents : m > cursorId => m \in eventIndex

(* Whatever is buffered, sealed or in a row was observed before. *)
BatchedWasObserved ==
    /\ buffer \subseteq sourceEvents
    /\ \A b \in due \cup Outbox : b \subseteq sourceEvents

(* Sealed batches exist only until the pass has enqueued them. *)
DueIsEnqueuing == due # {} => pc = "enqueue"

(* The rows, the sealed batches and the buffer share no message. *)
CarriersApart ==
    /\ MailInOneBatch
    /\ \A b \in due \cup Outbox : b \cap buffer = {}
    /\ \A b \in due, c \in due \cup Outbox : b # c => b \cap c = {}
    /\ due \cap Outbox = {}

(* Observed mail is mail of this agent after the baseline, which neither   *)
(* cursor ever falls behind. *)
AfterBaseline ==
    /\ baseline \in inbox \cup {0}
    /\ \A m \in sourceEvents : m \in inbox /\ baseline < m
    /\ ~baselined => pc = "down" /\ sourceEvents = {} /\ cursor = 0 /\ baseline = 0
    /\ baseline <= cursor
    /\ pc # "down" => baseline <= cursorId

BatchingInv ==
    /\ IndexHoldsObserved
    /\ BatchedWasObserved
    /\ DueIsEnqueuing
    /\ CarriersApart
    /\ AfterBaseline

-----------------------------------------------------------------------------
(* Which turn carries which batch *)

(* The thread runs at most one turn. *)
OneActiveTurn ==
    \A t, u \in TurnIds : turnState[t] = "active" /\ turnState[u] = "active" => t = u

(* A turn was only ever given batches of the outbox. *)
CarriedHasRow == \A t \in TurnIds, b \in Batches : Received(b, t) => b \in Outbox

(* A call starts from an unbound row, and every other delivering row is    *)
(* bound, except between a crash and its replay. *)
CallIsUnbound ==
    pc \in {"calling", "answered", "binding"} => acceptedTurn[current] = NoTurn

DeliveringIsBound ==
    pc \notin {"down", "recover"} =>
        \A b \in InState("delivering") :
            (b = current /\ pc # "bound") \/ acceptedTurn[b] # NoTurn

(* A batch inside the running turn is settled by no other turn: no row, no *)
(* answer in flight and no remembered answer names another one.            *)
SoleCarrier ==
    \A t \in TurnIds, b \in Batches : turnState[t] = "active" /\ Received(b, t) =>
        /\ batchState[b] # "accepted"
        /\ batchState[b] = "delivering" => acceptedTurn[b] \in {NoTurn, t}
        /\ idempotency[b] \in {NoTurn, t}
        /\ pc \in {"answered", "binding"} /\ current = b => turnId = t

CarriageInv ==
    /\ OneActiveTurn
    /\ CarriedHasRow
    /\ CallIsUnbound
    /\ DeliveringIsBound
    /\ SoleCarrier

(* The inductive invariant of the kernel, under any faults. *)
KernelInv ==
    /\ AcceptanceInv
    /\ DeliveryInv
    /\ BatchingInv
    /\ CarriageInv

-----------------------------------------------------------------------------
(* What holds besides while no mail file is met half-written and no        *)
(* restart finds more unbatched mail than one batch carries (what add()    *)
(* seals then is dropped): mail moves through the pass in the order of its *)
(* ids. *)
MailIsWhole == unreadable = {}
RestartFits == pc = "recover" => SealedBatches(Unbatched) = {}

Before(b, c) == \A x \in b, y \in c : x < y

ObservedInOrder ==
    \A m \in sourceEvents, n \in inbox : baseline < n /\ n < m => n \in sourceEvents

OutboxInOrder ==
    \A m, n \in sourceEvents : Covered(m) /\ n < m => Covered(n)

SealedInOrder ==
    /\ \A b \in due : Before(b, buffer)
    /\ \A b, c \in due : b = c \/ Before(b, c) \/ Before(c, b)

(* After the restart every observed message is in a row, sealed or buffered. *)
NothingForgotten ==
    pc \notin {"down", "recover"} =>
        \A m \in sourceEvents : Covered(m) \/ m \in buffer \/ \E b \in due : m \in b

(* Either cursor stands at the baseline or at a message of the outbox. *)
CursorsInOutbox ==
    /\ cursor = baseline \/ Covered(cursor)
    /\ pc # "down" => cursorId = baseline \/ Covered(cursorId)
    /\ pc = "down" => cursorId = 0

OrderInv ==
    /\ ObservedInOrder
    /\ OutboxInOrder
    /\ SealedInOrder
    /\ NothingForgotten
    /\ CursorsInOutbox

(* And while the app server does not die under a running kernel: no turn   *)
(* that a batch waits for was cut off.                                     *)
OwnersAlive ==
    pc # "down" =>
        /\ \A b \in Batches :
              idempotency[b] # NoTurn => turnState[idempotency[b]] # "interrupted"
        /\ pc \in {"answered", "binding"} => turnState[turnId] # "interrupted"
        /\ pc # "recover" =>
              \A b \in InState("delivering") :
                  acceptedTurn[b] # NoTurn => turnState[acceptedTurn[b]] # "interrupted"

(* Where neither files nor the app server fail, mail stands in order and   *)
(* every turn that a batch waits for can still end.                        *)
CalmInv == OrderInv /\ OwnersAlive
=============================================================================
