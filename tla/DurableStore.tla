---------------------------- MODULE DurableStore ----------------------------
(***************************************************************************)
(* The durable outbox of one binding (store/sqlite.ts): the source cursor, *)
(* the observed mail metadata and the batches with their delivery state.   *)
(* Each operator below is one StateChange applied in one SQLite            *)
(* transaction, so it is one atomic step: the named crash points inside a  *)
(* transaction roll all of it back.                                        *)
(***************************************************************************)
EXTENDS IngressDomain

CONSTANTS
    MaxTurn      \* bound on the Codex turns of a behaviour

ASSUME TurnAssumption == MaxTurn \in Nat

TurnIds == 1..MaxTurn
NoTurn  == 0

VARIABLES
    cursor,        \* cursors.last_message_id
    baselined,     \* cursors.baseline_initialized
    baseline,      \* history: the cursor that setBaseline stored
    sourceEvents,  \* ids of the source_events rows
    batchState,    \* batches.state; "absent" when there is no row
    acceptedTurn,  \* batches.accepted_turn_id
    backoff        \* batches whose next_attempt_at lies in the future

storeVars == <<cursor, baselined, baseline, sourceEvents, batchState,
               acceptedTurn, backoff>>

BatchStates == {"absent", "pending", "delivering", "accepted", "dead_letter"}

StoreTypeOK ==
    /\ cursor \in 0..MaxMsg
    /\ baselined \in BOOLEAN
    /\ baseline \in 0..MaxMsg
    /\ sourceEvents \subseteq MessageIds
    /\ batchState \in [Batches -> BatchStates]
    /\ acceptedTurn \in [Batches -> TurnIds \cup {NoTurn}]
    /\ backoff \subseteq Batches

StoreInit ==
    /\ cursor = 0
    /\ baselined = FALSE
    /\ baseline = 0
    /\ sourceEvents = {}
    /\ batchState = [b \in Batches |-> "absent"]
    /\ acceptedTurn = [b \in Batches |-> NoTurn]
    /\ backoff = {}

-----------------------------------------------------------------------------
(* Views of a loaded DeliveryState *)

InState(s) == {b \in Batches : batchState[b] = s}

Outbox == {b \in Batches : batchState[b] # "absent"}

Covered(m) == \E b \in Outbox : m \in b

(* The batches a turn carries that still wait for its outcome. *)
InFlight(t) == {b \in InState("delivering") : acceptedTurn[b] = t}

-----------------------------------------------------------------------------
(* State changes *)

(* setBaseline is refused once the binding has any delivery state. *)
SetBaseline(c) ==
    /\ ~baselined
    /\ Outbox = {}
    /\ sourceEvents = {}
    /\ cursor' = c
    /\ baseline' = c
    /\ baselined' = TRUE
    /\ UNCHANGED <<sourceEvents, batchState, acceptedTurn, backoff>>

ObserveSourceEvents(ms) ==
    /\ sourceEvents' = sourceEvents \cup ms
    /\ UNCHANGED <<cursor, baselined, baseline, batchState, acceptedTurn, backoff>>

(* The primary key refuses a second row with the same batch id. *)
EnqueueBatch(b) ==
    /\ batchState[b] = "absent"
    /\ batchState' = [batchState EXCEPT ![b] = "pending"]
    /\ acceptedTurn' = [acceptedTurn EXCEPT ![b] = NoTurn]
    /\ UNCHANGED <<cursor, baselined, baseline, sourceEvents, backoff>>

(* transitionBatch checks the state it leaves, then writes the new state,  *)
(* the bound turn and whether a retry time lies ahead.                     *)
TransitionBatch(b, from, to, turn, wait) ==
    /\ batchState[b] = from
    /\ batchState' = [batchState EXCEPT ![b] = to]
    /\ acceptedTurn' = [acceptedTurn EXCEPT ![b] = turn]
    /\ backoff' = IF wait THEN backoff \cup {b} ELSE backoff \ {b}
    /\ UNCHANGED <<cursor, baselined, baseline, sourceEvents>>

(* Mutation: the acceptance moves the cursor to the newest observed event. *)
AcceptBatchToNewest(b, turn) ==
    /\ batchState[b] \in {"pending", "delivering"}
    /\ batchState' = [batchState EXCEPT ![b] = "accepted"]
    /\ acceptedTurn' = [acceptedTurn EXCEPT ![b] = turn]
    /\ cursor' = Max(sourceEvents)
    /\ baselined' = TRUE
    /\ UNCHANGED <<baseline, sourceEvents, backoff>>

(* acceptBatch records the acceptance and overwrites the cursor with the   *)
(* batch's last id in the same transaction.                                *)
AcceptBatch(b, turn) ==
    /\ batchState[b] \in {"pending", "delivering"}
    /\ batchState' = [batchState EXCEPT ![b] = "accepted"]
    /\ acceptedTurn' = [acceptedTurn EXCEPT ![b] = turn]
    /\ cursor' = Last(b)
    /\ baselined' = TRUE
    /\ UNCHANGED <<baseline, sourceEvents, backoff>>

(* deadLetter asks only that the row exists. *)
DeadLetter(b) ==
    /\ batchState[b] # "absent"
    /\ batchState' = [batchState EXCEPT ![b] = "dead_letter"]
    /\ UNCHANGED <<cursor, baselined, baseline, sourceEvents, acceptedTurn, backoff>>

(* The clock passes next_attempt_at. *)
RetryTimeArrives(b) ==
    /\ b \in backoff
    /\ batchState[b] = "pending"
    /\ backoff' = backoff \ {b}
    /\ UNCHANGED <<cursor, baselined, baseline, sourceEvents, batchState, acceptedTurn>>

=============================================================================
