-------------------------- MODULE IngressPromiseProof --------------------------
(***************************************************************************)
(* The kernel implements MailDelivery, step by step, and every delivering  *)
(* batch has an owner.  Both rest on which turn carries which batch: a     *)
(* batch inside the running turn is settled by no other turn.              *)
(***************************************************************************)
EXTENDS IngressMailProof, IngressRefinement

USE DomainAssumption, TurnAssumption, KernelAssumption

-----------------------------------------------------------------------------
(* What a step can do to the carriage of batches *)

InCall == {"calling", "answered", "binding", "bound"}

(* Turns end, notifications are read, the kernel goes on between calls. *)
CarriageRests ==
    /\ UNCHANGED <<batchState, acceptedTurn, turnInput, current, turnId>>
    /\ \A t \in TurnIds : turnState'[t] = "active" => turnState[t] = "active"
    /\ \A b \in Batches : idempotency'[b] \in {NoTurn, idempotency[b]}
    /\ \/ pc' = pc
       \/ {pc, pc'} \cap (InCall \cup {"down", "recover"}) = {}

(* A row goes to rest: pending again, pending for the first time, or dead. *)
RowRests(b) ==
    /\ UNCHANGED <<turnState, turnInput, idempotency>>
    /\ \E s \in {"pending", "dead_letter"} :
          /\ batchState' = [batchState EXCEPT ![b] = s]
          /\ s = "dead_letter" => batchState[b] # "absent"
    /\ acceptedTurn' \in {acceptedTurn, [acceptedTurn EXCEPT ![b] = NoTurn]}
    /\ \/ pc \in {"recover", "enqueue", "head", "bound"} /\ UNCHANGED <<pc, current, turnId>>
       \/ pc' = "deliver" /\ current' = NoBatch /\ current \in {b, NoBatch} /\ pc \in InCall \cup {"deliver"}

(* The owner is gone: no turn runs. *)
CarriageStops ==
    /\ UNCHANGED <<batchState, acceptedTurn, turnInput>>
    /\ pc' = "down"
    /\ \A t \in TurnIds : turnState'[t] # "active"

LEMMA RetryRests ==
    ASSUME NEW counts, NEW b \in Batches, NEW permanent, RetryOrDeadLetter(counts, b, permanent)
    PROVE  /\ \E s \in {"pending", "dead_letter"} :
                 /\ batchState' = [batchState EXCEPT ![b] = s]
                 /\ s = "dead_letter" => batchState[b] # "absent"
           /\ acceptedTurn' \in {acceptedTurn, [acceptedTurn EXCEPT ![b] = NoTurn]}
BY DEF RetryOrDeadLetter, TransitionBatch, DeadLetter

LEMMA StopStops ==
    ASSUME NEW reason, Stop(reason), UNCHANGED storeVars
    PROVE  CarriageStops
<1>1. turnState' = Interrupted /\ pc' = "down" /\ turnInput' = turnInput
  BY DEF Stop, SessionCloses
<1> QED BY <1>1 DEF CarriageStops, Interrupted, storeVars

LEMMA FailureRestsOrStops ==
    ASSUME NEW counts, NEW b \in Batches, NEW permanent, DeliveryFails(counts, b, permanent),
           current \in {b, NoBatch}, pc \in InCall \cup {"deliver"}
    PROVE  RowRests(b) \/ CarriageStops
<1>1. CASE /\ RetryOrDeadLetter(counts, b, permanent)
           /\ CallEnds
           /\ pc' = "deliver"
           /\ UNCHANGED threadVars
  BY <1>1, RetryRests DEF RowRests, CallEnds, threadVars
<1>2. CASE Stop("error") /\ UNCHANGED storeVars
  BY <1>2, StopStops
<1> QED BY <1>1, <1>2 DEF DeliveryFails

(* A settling accepts the earliest batch of a completed turn, or puts the  *)
(* earliest batch of a failed turn to rest. *)
LEMMA SettleAcceptsOrRestsRow ==
    ASSUME TypeOK, Settle
    PROVE  /\ UNCHANGED <<turnState, turnInput, idempotency, pc, current, turnId>>
           /\ pc \in {"head", "bound"}
           /\ \E t \in TurnIds : \E b \in InFlight(t) :
                 \/ turnState[t] = "completed" /\ AcceptBatch(b, t)
                 \/ RowRests(b)
<1> DEFINE t == Min(Settleable)
           b == EarliestEnding(InFlight(t))
<1>1. t \in Settleable /\ t \in TurnIds
  BY SettleableTurn DEF Settle, TypeOK
<1>2. b \in InFlight(t) /\ b \in Batches
  BY <1>1, InFlightChoice DEF Settleable
<1>3. UNCHANGED <<turnState, turnInput, idempotency, pc, current, turnId>> /\ pc \in {"head", "bound"}
  BY DEF Settle, threadVars, callVars
<1>4. CASE SettleCompleted(t)
  BY <1>1, <1>2, <1>3, <1>4 DEF SettleCompleted
<1>5. CASE SettleFailed(t)
  <2>1. PICK permanent \in BOOLEAN : RetryOrDeadLetter(attempts, b, permanent)
    BY <1>5 DEF SettleFailed
  <2>2. RowRests(b)
    BY <1>2, <1>3, <2>1, RetryRests DEF RowRests
  <2> QED BY <1>1, <1>2, <1>3, <2>2
<1> QED BY <1>4, <1>5 DEF Settle

LEMMA CarriageMoves ==
    ASSUME TypeInv, DeliveryInv, [Next]_vars
    PROVE  \/ CarriageRests \/ CarriageStops
           \/ \E b \in Batches : RowRests(b)
           \/ Start \/ Rebatch \/ Settle \/ BeginDelivery \/ SessionRemembers \/ ServerAccepts
           \/ Response \/ Bind \/ BoundSettled
<1>0. TypeOK /\ (pc \in InCall => current \in Batches) /\ (pc \notin InCall => current = NoBatch)
  BY DEF TypeInv, MemoryInv, DeliveryInv, CallIsMarked, InCall
<1> USE DEF storeVars, threadVars, mailVars, memoryVars, callVars, sessionVars
<1>1. CASE Replay
  <2>1. InState("delivering") \in SUBSET Batches /\ InState("delivering") # {}
    BY <1>1 DEF Replay, InState
  <2>2. Earliest(InState("delivering")) \in Batches
    BY <2>1, EarliestExists
  <2> QED BY <1>1, <2>2 DEF Replay, TransitionBatch, RowRests
<1>2. CASE Enqueue
  <2>1. due \in SUBSET Batches /\ due # {}
    BY <1>0, <1>2 DEF Enqueue, TypeOK
  <2>2. Earliest(due) \in Batches
    BY <2>1, EarliestExists
  <2>3. CASE UNCHANGED storeVars
    BY <1>2, <2>3 DEF Enqueue, CarriageRests
  <2>4. CASE EnqueueBatch(Earliest(due))
    BY <1>2, <2>2, <2>4 DEF Enqueue, EnqueueBatch, RowRests
  <2> QED BY <1>2, <2>3, <2>4 DEF Enqueue
<1>3. CASE EncodeOrMarkFails
  <2>1. NextTodo \in Batches /\ pc = "deliver" /\ current = NoBatch
    BY <1>0, <1>3, NextTodoIsBatch DEF EncodeOrMarkFails, InCall
  <2> QED BY <1>3, <2>1, FailureRestsOrStops DEF EncodeOrMarkFails
<1>4. CASE SessionRefuses \/ ServerRefuses \/ ResponseLost \/ BindFails \/ SettlingFails
  <2>1. PICK counts, permanent : DeliveryFails(counts, current, permanent)
    BY <1>4 DEF SessionRefuses, ServerRefuses, ResponseLost, BindFails, SettlingFails
  <2>2. pc \in InCall
    BY <1>4 DEF SessionRefuses, ServerRefuses, ResponseLost, BindFails, SettlingFails, InCall
  <2> QED BY <1>0, <2>1, <2>2, FailureRestsOrStops
<1>5. CASE Poll \/ LoadOutbox \/ PassEnds \/ SkipOrQueue
  BY <1>5 DEF Poll, ObserveSourceEvents, LoadOutbox, PassEnds, SkipOrQueue, CarriageRests, InCall
<1>6. CASE Crash
  BY <1>6, StopStops DEF Crash
<1>7. CASE WindowEnds \/ UNCHANGED vars
           \/ (\E m \in MessageIds : MailArrives(m) \/ MailBecomesReadable(m))
           \/ (\E b \in Batches : RetryDue(b))
  BY <1>7 DEF WindowEnds, vars, MailArrives, MailBecomesReadable, RetryDue, RetryTimeArrives,
     CarriageRests
<1>8. CASE ServerDies \/ (\E t \in TurnIds : TurnCompletes(t) \/ TurnFails(t))
  BY <1>0, <1>8 DEF ServerDies, AppServerExits, Interrupted, TurnCompletes, TurnFails, TurnEnds,
     CarriageRests, TypeOK, ThreadTypeOK
<1>9. CASE \E t \in TurnIds : Notification(t)
  BY <1>9 DEF Notification, TurnStartedNotification, TerminalNotification, CarriageRests
<1> QED BY <1>1, <1>2, <1>3, <1>4, <1>5, <1>6, <1>7, <1>8, <1>9 DEF Next, KernelStep, Environment

-----------------------------------------------------------------------------
(* The carriage invariant *)

LEMMA CarriageInit == Init => CarriageInv
<1> SUFFICES ASSUME Init PROVE CarriageInv
  OBVIOUS
<1>1. /\ \A t \in TurnIds : turnState[t] = "unused" /\ turnInput[t] = <<>>
      /\ pc = "down" /\ InState("delivering") = {}
  BY DEF Init, StoreInit, ThreadInit, InState
<1>2. CarriedHasRow
  BY <1>1 DEF CarriedHasRow, Received, Range
<1> QED BY <1>1, <1>2 DEF CarriageInv, OneActiveTurn, CallIsUnbound, DeliveringIsBound, SoleCarrier

(* Batches a turn was given have rows: input grows by the batch of the     *)
(* call, which is marked. *)
LEMMA CarriedStaysRow ==
    ASSUME TypeInv, DeliveryInv, CarriedHasRow, [Next]_vars
    PROVE  CarriedHasRow'
<1> SUFFICES ASSUME NEW t \in TurnIds, NEW b \in Batches, Received(b, t)'
             PROVE  batchState'[b] # "absent"
  BY DEF CarriedHasRow, Outbox
<1>0. RowsMoveForward
  BY DeliveryStep
<1>1. CASE turnInput'[t] = turnInput[t]
  <2>1. b \in Outbox
    BY <1>1 DEF CarriedHasRow, Received
  <2> QED BY <1>0, <2>1 DEF RowsMoveForward
<1>2. CASE turnInput'[t] # turnInput[t]
  <2>1. /\ pc = "calling" /\ current \in Batches
        /\ turnInput'[t] = <<current>> \/ turnInput'[t] = Append(turnInput[t], current)
    BY <1>2, InputGrowsByCurrent
  <2>2. current \in Outbox
    BY <2>1 DEF DeliveryInv, CallIsMarked, Outbox
  <2>3. turnInput[t] \in Seq(Batches)
    BY DEF TypeInv, TypeOK, ThreadTypeOK
  <2>4. b = current \/ Received(b, t)
    <3>1. CASE turnInput'[t] = <<current>>
      BY <3>1 DEF Received, Range
    <3>2. CASE turnInput'[t] = Append(turnInput[t], current)
      <4> DEFINE old == turnInput[t]
      <4>1. PICK i \in DOMAIN Append(old, current) : Append(old, current)[i] = b
        BY <3>2 DEF Received, Range
      <4>2. (i \in DOMAIN old /\ old[i] = b) \/ b = current
        BY <2>1, <2>3, <4>1
      <4> QED BY <4>2 DEF Received, Range
    <3> QED BY <2>1, <3>1, <3>2
  <2>5. b \in Outbox
    BY <2>2, <2>4 DEF CarriedHasRow
  <2> QED BY <1>0, <2>5 DEF RowsMoveForward
<1> QED BY <1>1, <1>2

(* The rest of the invariant, whose parts the steps move together. *)
CarriagePart == OneActiveTurn /\ CallIsUnbound /\ DeliveringIsBound /\ SoleCarrier

LEMMA RestsKeepsCarriage ==
    ASSUME CarriagePart, CarriageRests
    PROVE  CarriagePart'
<1> USE DEF CarriageRests, CarriagePart
<1>1. OneActiveTurn'
  BY DEF OneActiveTurn
<1>2. CallIsUnbound' /\ DeliveringIsBound'
  BY DEF CallIsUnbound, DeliveringIsBound, InState, InCall
<1>3. SoleCarrier'
  <2> SUFFICES ASSUME NEW t \in TurnIds, NEW b \in Batches, turnState'[t] = "active", Received(b, t)'
               PROVE  /\ batchState'[b] # "accepted"
                      /\ batchState'[b] = "delivering" => acceptedTurn'[b] \in {NoTurn, t}
                      /\ idempotency'[b] \in {NoTurn, t}
                      /\ pc' \in {"answered", "binding"} /\ current' = b => turnId' = t
    BY DEF SoleCarrier
  <2>1. turnState[t] = "active" /\ Received(b, t)
    BY DEF Received
  <2>2. pc' \in {"answered", "binding"} => pc' = pc
    BY DEF InCall
  <2> QED BY <2>1, <2>2 DEF SoleCarrier
<1> QED BY <1>1, <1>2, <1>3

LEMMA StopsKeepsCarriage ==
    ASSUME CarriageStops
    PROVE  CarriagePart'
BY DEF CarriageStops, CarriagePart, OneActiveTurn, CallIsUnbound, DeliveringIsBound, SoleCarrier

LEMMA RowRestsKeepsCarriage ==
    ASSUME TypeOK, CarriagePart, NEW b \in Batches, RowRests(b)
    PROVE  CarriagePart'
<1>1. /\ batchState \in [Batches -> BatchStates] /\ acceptedTurn \in [Batches -> TurnIds \cup {NoTurn}]
  BY DEF TypeOK, StoreTypeOK
<1>2. PICK s \in {"pending", "dead_letter"} : batchState' = [batchState EXCEPT ![b] = s]
  BY DEF RowRests
<1>3. /\ batchState'[b] = s
      /\ \A c \in Batches : c # b => batchState'[c] = batchState[c] /\ acceptedTurn'[c] = acceptedTurn[c]
  BY <1>1, <1>2 DEF RowRests
<1>4. UNCHANGED <<turnState, turnInput, idempotency>>
  BY DEF RowRests
<1>5. \/ pc' = pc /\ current' = current /\ turnId' = turnId
         /\ pc \in {"recover", "enqueue", "head", "bound"}
      \/ pc' = "deliver" /\ current' = NoBatch /\ current \in {b, NoBatch} /\ pc \notin {"down", "recover"}
  BY DEF RowRests, InCall
<1>6. OneActiveTurn'
  BY <1>4 DEF CarriagePart, OneActiveTurn
<1>7. CallIsUnbound'
  BY <1>5 DEF CallIsUnbound
<1>8. DeliveringIsBound'
  <2> SUFFICES ASSUME pc' \notin {"down", "recover"}, NEW c \in Batches, batchState'[c] = "delivering"
               PROVE  (c = current' /\ pc' # "bound") \/ acceptedTurn'[c] # NoTurn
    BY DEF DeliveringIsBound, InState
  <2>1. c # b /\ batchState[c] = "delivering" /\ acceptedTurn'[c] = acceptedTurn[c]
    BY <1>2, <1>3
  <2>2. pc \notin {"down", "recover"}
    BY <1>5
  <2>3. (c = current /\ pc # "bound") \/ acceptedTurn[c] # NoTurn
    BY <2>1, <2>2 DEF CarriagePart, DeliveringIsBound, InState
  <2>4. c # NoBatch
    BY NoBatchIsNone
  <2> QED BY <1>5, <2>1, <2>3, <2>4
<1>9. SoleCarrier'
  <2> SUFFICES ASSUME NEW t \in TurnIds, NEW c \in Batches, turnState[t] = "active", Received(c, t)
               PROVE  /\ batchState'[c] # "accepted"
                      /\ batchState'[c] = "delivering" => acceptedTurn'[c] \in {NoTurn, t}
                      /\ idempotency[c] \in {NoTurn, t}
    BY <1>4, <1>5 DEF SoleCarrier, Received
  <2>1. /\ batchState[c] # "accepted"
        /\ batchState[c] = "delivering" => acceptedTurn[c] \in {NoTurn, t}
        /\ idempotency[c] \in {NoTurn, t}
    BY DEF CarriagePart, SoleCarrier
  <2> QED BY <1>2, <1>3, <2>1
<1> QED BY <1>6, <1>7, <1>8, <1>9 DEF CarriagePart

(* A batch bound to a completed turn is inside no running one. *)
LEMMA AcceptKeepsCarriage ==
    ASSUME TypeOK, CarriagePart, NEW t \in TurnIds, NEW b \in InFlight(t), AcceptBatch(b, t),
           turnState[t] = "completed", pc \in {"head", "bound"},
           UNCHANGED <<turnState, turnInput, idempotency, pc, current, turnId>>
    PROVE  CarriagePart'
<1>1. /\ b \in Batches /\ batchState[b] = "delivering" /\ acceptedTurn[b] = t
      /\ batchState' = [batchState EXCEPT ![b] = "accepted"]
      /\ acceptedTurn' = [acceptedTurn EXCEPT ![b] = t]
      /\ batchState \in [Batches -> BatchStates] /\ acceptedTurn \in [Batches -> TurnIds \cup {NoTurn}]
      /\ t # NoTurn
  BY DEF InFlight, InState, AcceptBatch, TypeOK, StoreTypeOK, TurnIds, NoTurn
<1>2. OneActiveTurn' /\ CallIsUnbound'
  BY DEF CarriagePart, OneActiveTurn, CallIsUnbound
<1>3. DeliveringIsBound'
  BY <1>1 DEF CarriagePart, DeliveringIsBound, InState
<1>4. SoleCarrier'
  <2> SUFFICES ASSUME NEW u \in TurnIds, NEW c \in Batches, turnState[u] = "active", Received(c, u)
               PROVE  /\ batchState'[c] # "accepted"
                      /\ batchState'[c] = "delivering" => acceptedTurn'[c] \in {NoTurn, u}
                      /\ idempotency[c] \in {NoTurn, u}
    BY DEF SoleCarrier, Received
  <2>1. /\ batchState[c] # "accepted"
        /\ batchState[c] = "delivering" => acceptedTurn[c] \in {NoTurn, u}
        /\ idempotency[c] \in {NoTurn, u}
    BY DEF CarriagePart, SoleCarrier
  <2>2. u # t
    OBVIOUS
  <2>3. c # b
    BY <1>1, <2>1, <2>2
  <2> QED BY <1>1, <2>1, <2>3
<1> QED BY <1>2, <1>3, <1>4 DEF CarriagePart

(* The app server takes the batch of an unbound row that no answer is      *)
(* remembered for, into the only turn that runs. *)
LEMMA AcceptsKeepsCarriage ==
    ASSUME TypeInv, DeliveryInv, CarriagePart, ServerAccepts
    PROVE  CarriagePart'
<1> USE DEF TypeInv, TypeOK, ThreadTypeOK
<1>1. PICK t \in TurnIds :
         /\ \/ method = "turn/start" /\ ServerStartsTurn(t, current)
            \/ method = "turn/steer" /\ t = turnId /\ ServerSteersTurn(t, current)
         /\ turnId' = t
  BY DEF ServerAccepts
<1>2. /\ pc = "calling" /\ pc' = "answered" /\ current \in Batches /\ idempotency[current] = NoTurn
      /\ UNCHANGED <<batchState, acceptedTurn, current, idempotency>>
      /\ acceptedTurn[current] = NoTurn
  BY <1>1 DEF ServerAccepts, ServerStartsTurn, ServerSteersTurn, sessionVars, MemoryInv, SessionAllows,
         storeVars, CarriagePart, CallIsUnbound
<1>3. /\ \A u \in TurnIds : turnState'[u] = "active" => u = t
      /\ \A u \in TurnIds : turnState'[u] = "active" /\ turnState[u] # "active" =>
            turnInput'[u] = <<current>>
      /\ turnState[t] = "active" => turnInput'[t] = Append(turnInput[t], current)
  BY <1>1 DEF ServerStartsTurn, ServerSteersTurn, ThreadIdle, CarriagePart, OneActiveTurn
<1>4. \A b \in Batches : Received(b, t)' /\ turnState'[t] = "active" =>
          b = current \/ (turnState[t] = "active" /\ Received(b, t))
  <2> SUFFICES ASSUME NEW b \in Batches, Received(b, t)', turnState'[t] = "active", b # current
               PROVE  turnState[t] = "active" /\ Received(b, t)
    OBVIOUS
  <2>1. turnState[t] = "active"
    BY <1>3 DEF Received, Range
  <2> DEFINE old == turnInput[t]
  <2>2. old \in Seq(Batches) /\ turnInput'[t] = Append(old, current)
    BY <1>3, <2>1
  <2> HIDE DEF old
  <2>3. PICK i \in DOMAIN Append(old, current) : Append(old, current)[i] = b
    BY <2>2 DEF Received, Range
  <2>4. i \in DOMAIN old /\ old[i] = b
    BY <1>2, <2>2, <2>3
  <2> QED BY <2>1, <2>4 DEF Received, Range, old
<1>5. OneActiveTurn'
  BY <1>3 DEF OneActiveTurn
<1>6. CallIsUnbound' /\ DeliveringIsBound'
  BY <1>2 DEF CarriagePart, CallIsUnbound, DeliveringIsBound, InState
<1>7. SoleCarrier'
  <2> SUFFICES ASSUME NEW u \in TurnIds, NEW b \in Batches, turnState'[u] = "active", Received(b, u)'
               PROVE  /\ batchState[b] # "accepted"
                      /\ batchState[b] = "delivering" => acceptedTurn[b] \in {NoTurn, u}
                      /\ idempotency[b] \in {NoTurn, u}
                      /\ current = b => turnId' = u
    BY <1>2 DEF SoleCarrier
  <2>1. u = t /\ turnId' = u
    BY <1>1, <1>3
  <2>2. CASE b = current
    BY <1>2, <2>1, <2>2 DEF DeliveryInv, CallIsMarked
  <2>3. CASE b # current
    BY <1>4, <2>1, <2>3 DEF CarriagePart, SoleCarrier
  <2> QED BY <2>2, <2>3
<1> QED BY <1>5, <1>6, <1>7 DEF CarriagePart

LEMMA CarriageStep ==
    ASSUME TypeInv, AcceptanceInv, DeliveryInv, CarriageInv, [Next]_vars
    PROVE  CarriageInv'
<1>0. TypeOK /\ (pc \in InCall => current \in Batches) /\ (pc \notin InCall => current = NoBatch)
  BY DEF TypeInv, MemoryInv, DeliveryInv, CallIsMarked, InCall
<1>1. CarriagePart /\ CarriedHasRow
  BY DEF CarriageInv, CarriagePart
<1>2. CarriedHasRow'
  BY <1>1, CarriedStaysRow
<1> SUFFICES CarriagePart'
  BY <1>2 DEF CarriageInv, CarriagePart
<1> USE DEF CarriagePart, storeVars, threadVars, mailVars, memoryVars, callVars, sessionVars
<1>3. CASE Settle
  <2>1. PICK t \in TurnIds : \E b \in InFlight(t) :
          (turnState[t] = "completed" /\ AcceptBatch(b, t)) \/ RowRests(b)
    BY <1>0, <1>3, SettleAcceptsOrRestsRow
  <2>2. PICK b \in InFlight(t) : (turnState[t] = "completed" /\ AcceptBatch(b, t)) \/ RowRests(b)
    BY <2>1
  <2>3. /\ UNCHANGED <<turnState, turnInput, idempotency, pc, current, turnId>>
        /\ pc \in {"head", "bound"} /\ b \in Batches
    BY <1>0, <1>3, <2>2, SettleAcceptsOrRestsRow DEF InFlight, InState
  <2> HIDE DEF CarriagePart
  <2> QED BY <1>0, <1>1, <2>2, <2>3, AcceptKeepsCarriage, RowRestsKeepsCarriage
<1>4. CASE Start
  <2>1. /\ UNCHANGED <<batchState, acceptedTurn, turnState, turnInput>>
        /\ idempotency' = NoIdempotency /\ pc' = "recover" /\ pc = "down"
    BY <1>4 DEF Start, SetBaseline, SessionOpens
  <2>2. OneActiveTurn' /\ CallIsUnbound' /\ DeliveringIsBound'
    BY <1>1, <2>1 DEF OneActiveTurn, CallIsUnbound, DeliveringIsBound
  <2>3. SoleCarrier'
    BY <1>1, <2>1 DEF SoleCarrier, NoIdempotency, Received
  <2> QED BY <2>2, <2>3
<1>5. CASE Rebatch
  <2>1. /\ UNCHANGED <<batchState, acceptedTurn, turnState, turnInput, idempotency>>
        /\ pc' = "head" /\ InState("delivering") = {}
    BY <1>5 DEF Rebatch
  <2> QED BY <1>1, <2>1 DEF OneActiveTurn, CallIsUnbound, DeliveringIsBound, SoleCarrier, InState,
          Received
<1>6. CASE BeginDelivery
  <2>1. /\ NextTodo \in Batches /\ batchState[NextTodo] = "pending"
        /\ TransitionBatch(NextTodo, "pending", "delivering", acceptedTurn[NextTodo], FALSE)
        /\ UNCHANGED <<turnState, turnInput, idempotency>>
        /\ pc = "deliver" /\ pc' = "calling" /\ current' = NextTodo /\ current = NoBatch
    BY <1>0, <1>6, NextTodoIsBatch DEF BeginDelivery, TransitionBatch, InCall
  <2>2. acceptedTurn[NextTodo] = NoTurn
    BY <2>1 DEF AcceptanceInv, PendingIsUnbound, InState
  <2>3. /\ batchState' = [batchState EXCEPT ![NextTodo] = "delivering"]
        /\ acceptedTurn' = acceptedTurn
        /\ batchState \in [Batches -> BatchStates]
    BY <1>0, <2>1, <2>2 DEF TransitionBatch, TypeOK, StoreTypeOK
  <2>4. OneActiveTurn' /\ CallIsUnbound'
    BY <1>1, <2>1, <2>2, <2>3 DEF OneActiveTurn, CallIsUnbound
  <2>5. DeliveringIsBound'
    BY <1>1, <2>1, <2>3, NoBatchIsNone DEF DeliveringIsBound, InState
  <2>6. SoleCarrier'
    BY <1>1, <2>1, <2>2, <2>3 DEF SoleCarrier, Received
  <2> QED BY <2>4, <2>5, <2>6
<1>7. CASE SessionRemembers
  <2>1. /\ UNCHANGED <<batchState, acceptedTurn, turnState, turnInput, idempotency, current>>
        /\ turnId' = idempotency[current] /\ idempotency[current] # NoTurn
        /\ pc = "calling" /\ pc' = "binding" /\ current \in Batches
    BY <1>0, <1>7 DEF SessionRemembers, KnownAcceptance, InCall
  <2>2. OneActiveTurn' /\ CallIsUnbound' /\ DeliveringIsBound'
    BY <1>1, <2>1 DEF OneActiveTurn, CallIsUnbound, DeliveringIsBound, InState
  <2>3. SoleCarrier'
    BY <1>1, <2>1 DEF SoleCarrier, Received
  <2> QED BY <2>2, <2>3
<1>8. CASE Response
  <2>1. /\ UNCHANGED <<batchState, acceptedTurn, turnState, turnInput, current, turnId>>
        /\ idempotency' = [idempotency EXCEPT ![current] = turnId]
        /\ idempotency \in [Batches -> TurnIds \cup {NoTurn}]
        /\ pc = "answered" /\ pc' = "binding" /\ current \in Batches
    BY <1>0, <1>8 DEF Response, ResponseHandled, InCall, TypeOK, ThreadTypeOK
  <2>2. OneActiveTurn' /\ CallIsUnbound' /\ DeliveringIsBound'
    BY <1>1, <2>1 DEF OneActiveTurn, CallIsUnbound, DeliveringIsBound, InState
  <2>3. SoleCarrier'
    BY <1>1, <2>1 DEF SoleCarrier, Received
  <2> QED BY <2>2, <2>3
<1>9. CASE Bind
  <2>1. /\ TransitionBatch(current, "delivering", "delivering", turnId, FALSE)
        /\ UNCHANGED <<turnState, turnInput, idempotency, current, turnId>>
        /\ pc = "binding" /\ pc' = "bound" /\ current \in Batches
        /\ turnId \in TurnIds /\ turnId # NoTurn
    <3>1. /\ TransitionBatch(current, "delivering", "delivering", turnId, FALSE)
          /\ UNCHANGED <<turnState, turnInput, idempotency, current, turnId>>
          /\ pc = "binding" /\ pc' = "bound"
      BY <1>9 DEF Bind
    <3>2. turnId \in TurnIds
      BY <3>1 DEF AcceptanceInv, CallWasReceived
    <3>3. NoTurn \notin TurnIds
      BY DEF TurnIds, NoTurn
    <3> QED BY <1>0, <3>1, <3>2, <3>3 DEF InCall
  <2>2. /\ batchState' = [batchState EXCEPT ![current] = "delivering"]
        /\ acceptedTurn' = [acceptedTurn EXCEPT ![current] = turnId]
        /\ batchState \in [Batches -> BatchStates]
        /\ acceptedTurn \in [Batches -> TurnIds \cup {NoTurn}]
    BY <1>0, <2>1 DEF TransitionBatch, TypeOK, StoreTypeOK
  <2>3. OneActiveTurn' /\ CallIsUnbound'
    BY <1>1, <2>1 DEF OneActiveTurn, CallIsUnbound
  <2>4. DeliveringIsBound'
    BY <1>1, <2>1, <2>2 DEF DeliveringIsBound, InState
  <2>5. SoleCarrier'
    BY <1>1, <2>1, <2>2 DEF SoleCarrier, Received
  <2> QED BY <2>3, <2>4, <2>5
<1>10. CASE BoundSettled
  <2>1. /\ UNCHANGED <<batchState, acceptedTurn, turnState, turnInput, idempotency>>
        /\ pc = "bound" /\ pc' = "deliver" /\ current' = NoBatch
    BY <1>10 DEF BoundSettled, CallEnds
  <2>2. OneActiveTurn' /\ CallIsUnbound' /\ DeliveringIsBound'
    BY <1>1, <2>1 DEF OneActiveTurn, CallIsUnbound, DeliveringIsBound, InState
  <2>3. SoleCarrier'
    BY <1>1, <2>1 DEF SoleCarrier, Received
  <2> QED BY <2>2, <2>3
<1> HIDE DEF CarriagePart
<1> QED BY <1>0, <1>1, <1>3, <1>4, <1>5, <1>6, <1>7, <1>8, <1>9, <1>10, CarriageMoves,
           RestsKeepsCarriage, StopsKeepsCarriage, RowRestsKeepsCarriage, AcceptsKeepsCarriage

(* The kernel's inductive invariant, whatever fails: acceptance follows    *)
(* the turn, the outbox agrees with the pass, mail is in one carrier, and  *)
(* a batch inside the running turn belongs to no other. *)
THEOREM KernelIsConsistent == Spec => []KernelInv
<1>1. Spec => [](TypeInv /\ AcceptanceInv)
  BY TypeInit, TypeStep, AcceptanceInit, AcceptanceStep, PTL DEF Spec
<1>2. TypeInv /\ AcceptanceInv /\ DeliveryInv /\ CarriageInv /\ [Next]_vars => CarriageInv'
  BY CarriageStep
<1>3. Spec => []CarriageInv
  BY <1>1, <1>2, DeliveryAgrees, CarriageInit, PTL DEF Spec
<1>4. AcceptanceInv /\ DeliveryInv /\ BatchingInv /\ CarriageInv => KernelInv
  BY DEF KernelInv
<1> QED BY <1>1, <1>3, <1>4, DeliveryAgrees, BatchingHolds, PTL

LEMMA KernelHolds == Spec => [](TypeInv /\ KernelInv)
BY KernelIsConsistent, BatchingHolds, PTL

-----------------------------------------------------------------------------
(* Every delivering batch has an owner *)

(* While the app server does not die on its own, turns are cut off only    *)
(* when the kernel goes down. *)
LEMMA NoTurnCutOff ==
    ASSUME TypeInv, "appserver" \notin FaultKinds, [Next]_vars, pc' # "down",
           NEW t \in TurnIds, turnState'[t] = "interrupted"
    PROVE  turnState[t] = "interrupted"
<1> USE DEF storeVars, threadVars, mailVars, memoryVars, callVars, sessionVars
<1>1. CASE ServerAccepts
  <2>1. PICK u \in TurnIds : ServerStartsTurn(u, current) \/ ServerSteersTurn(u, current)
    BY <1>1 DEF ServerAccepts
  <2>2. turnState' = turnState \/ turnState' = [turnState EXCEPT ![u] = "active"]
    BY <2>1 DEF ServerStartsTurn, ServerSteersTurn
  <2>3. turnState \in [TurnIds -> TurnStates]
    BY DEF TypeInv, TypeOK, ThreadTypeOK
  <2> QED BY <2>2, <2>3
<1>2. CASE \E u \in TurnIds : TurnCompletes(u) \/ TurnFails(u)
  <2>1. PICK u \in TurnIds, o \in {"completed", "failed"} : turnState' = [turnState EXCEPT ![u] = o]
    BY <1>2 DEF TurnCompletes, TurnFails, TurnEnds
  <2>2. turnState \in [TurnIds -> TurnStates]
    BY DEF TypeInv, TypeOK, ThreadTypeOK
  <2> QED BY <2>1, <2>2
<1>3. CASE ~ServerAccepts /\ ~(\E u \in TurnIds : TurnCompletes(u) \/ TurnFails(u))
  <2>1. turnState' = turnState
    BY <1>3 DEF Next, KernelStep, Environment, vars, Start, SessionOpens, Replay, Rebatch, Settle,
       Poll, Enqueue, LoadOutbox, PassEnds, SkipOrQueue, BeginDelivery, EncodeOrMarkFails,
       DeliveryFails, Stop, SessionRemembers, SessionRefuses, ServerRefuses, Response,
       ResponseHandled, ResponseLost, Bind, BindFails, SettlingFails, BoundSettled, MailArrives,
       MailBecomesReadable, Notification, TurnStartedNotification, TerminalNotification,
       RetryDue, WindowEnds, ServerDies, Fault, Crash
  <2> QED BY <2>1
<1> QED BY <1>1, <1>2, <1>3

LEMMA OwnersStep ==
    ASSUME TypeInv, AcceptanceInv, DeliveryInv, CarriageInv, OwnersAlive,
           "appserver" \notin FaultKinds, [Next]_vars
    PROVE  OwnersAlive'
<1> SUFFICES ASSUME pc' # "down" PROVE OwnersAlive'
  BY DEF OwnersAlive
<1>0. /\ TypeOK /\ (pc \in InCall => current \in Batches)
      /\ \A t \in TurnIds : turnState'[t] = "interrupted" => turnState[t] = "interrupted"
      /\ batchState \in [Batches -> BatchStates]
      /\ acceptedTurn \in [Batches -> TurnIds \cup {NoTurn}]
      /\ idempotency \in [Batches -> TurnIds \cup {NoTurn}]
  BY NoTurnCutOff DEF TypeInv, MemoryInv, InCall, TypeOK, StoreTypeOK, ThreadTypeOK
<1>1. /\ \A b \in Batches : idempotency[b] # NoTurn => idempotency[b] \in TurnIds
      /\ \A b \in Batches : acceptedTurn[b] # NoTurn => acceptedTurn[b] \in TurnIds
      /\ pc \in {"answered", "binding"} => turnId \in TurnIds
  BY <1>0 DEF AcceptanceInv, CallWasReceived
<1> USE DEF OwnersAlive, InState, storeVars, threadVars, mailVars, memoryVars, callVars, sessionVars
<1>2. CASE CarriageRests
  BY <1>0, <1>1, <1>2 DEF CarriageRests, InCall
<1>3. CASE CarriageStops
  BY <1>3 DEF CarriageStops
<1>4. CASE \E b \in Batches : RowRests(b)
  <2>1. PICK b \in Batches : RowRests(b)
    BY <1>4
  <2>2. /\ UNCHANGED <<turnState, idempotency>> /\ pc # "down"
        /\ pc' \notin {"answered", "binding"} /\ (pc' # "recover" => pc # "recover")
    BY <2>1 DEF RowRests, InCall
  <2>3. \A c \in Batches : batchState'[c] = "delivering" =>
          batchState[c] = "delivering" /\ acceptedTurn'[c] = acceptedTurn[c]
    BY <1>0, <2>1 DEF RowRests
  <2> QED BY <2>2, <2>3
<1>5. CASE Start
  BY <1>5 DEF Start, SessionOpens, NoIdempotency
<1>6. CASE Rebatch
  BY <1>6 DEF Rebatch
<1>7. CASE Settle
  <2>1. PICK t \in TurnIds : \E b \in InFlight(t) : AcceptBatch(b, t) \/ RowRests(b)
    BY <1>0, <1>7, SettleAcceptsOrRestsRow
  <2>2. PICK b \in InFlight(t) : AcceptBatch(b, t) \/ RowRests(b)
    BY <2>1
  <2>3. CASE AcceptBatch(b, t)
    <3>1. /\ batchState' = [batchState EXCEPT ![b] = "accepted"]
          /\ acceptedTurn' = [acceptedTurn EXCEPT ![b] = t]
          /\ UNCHANGED <<turnState, idempotency, pc, turnId>>
      BY <1>0, <1>7, <2>3, SettleAcceptsOrRestsRow DEF AcceptBatch
    <3> QED BY <1>0, <3>1
  <2>4. CASE RowRests(b)
    BY <1>4, <2>4 DEF InFlight
  <2> QED BY <2>2, <2>3, <2>4
<1>8. CASE BeginDelivery
  <2>1. /\ NextTodo \in Batches /\ batchState[NextTodo] = "pending"
        /\ TransitionBatch(NextTodo, "pending", "delivering", acceptedTurn[NextTodo], FALSE)
        /\ UNCHANGED <<turnState, idempotency>> /\ pc = "deliver" /\ pc' = "calling"
    BY <1>0, <1>8, NextTodoIsBatch DEF BeginDelivery, TransitionBatch
  <2>2. acceptedTurn[NextTodo] = NoTurn
    BY <2>1 DEF AcceptanceInv, PendingIsUnbound
  <2> QED BY <1>0, <2>1, <2>2 DEF TransitionBatch
<1>9. CASE SessionRemembers
  BY <1>0, <1>9 DEF SessionRemembers, KnownAcceptance, InCall
<1>10. CASE ServerAccepts
  <2>1. /\ UNCHANGED <<batchState, acceptedTurn, idempotency>> /\ pc = "calling" /\ pc' = "answered"
    BY <1>10 DEF ServerAccepts, ServerStartsTurn, ServerSteersTurn
  <2>2. turnState'[turnId'] = "active"
    BY <1>0, <1>10 DEF ServerAccepts, ServerStartsTurn, ServerSteersTurn, TypeOK, ThreadTypeOK
  <2> QED BY <1>0, <1>1, <2>1, <2>2
<1>11. CASE Response
  BY <1>0, <1>11 DEF Response, ResponseHandled, InCall
<1>12. CASE Bind
  BY <1>0, <1>12 DEF Bind, TransitionBatch, InCall
<1>13. CASE BoundSettled
  BY <1>13 DEF BoundSettled
<1> HIDE DEF OwnersAlive
<1> QED BY <1>2, <1>3, <1>4, <1>5, <1>6, <1>7, <1>8, <1>9, <1>10, <1>11, <1>12, <1>13, CarriageMoves

LEMMA OwnersHold ==
    ASSUME "appserver" \notin FaultKinds
    PROVE  Spec => [](TypeInv /\ KernelInv /\ OwnersAlive)
<1>1. Init => OwnersAlive
  BY DEF Init, OwnersAlive
<1>2. TypeInv /\ KernelInv /\ OwnersAlive /\ [Next]_vars => OwnersAlive'
  BY OwnersStep DEF KernelInv
<1> QED BY <1>1, <1>2, KernelHolds, PTL DEF Spec

(* Every delivering batch belongs to the call in progress, to a turn that  *)
(* was given it and can still end, or to the restart that replays it, as   *)
(* long as the app server does not die under a running kernel. *)
THEOREM EveryDeliveryIsOwned ==
    ASSUME "appserver" \notin FaultKinds
    PROVE  Spec => []DeliveringHasOwner
<1>1. TypeInv /\ KernelInv /\ OwnersAlive => DeliveringHasOwner
  BY DEF KernelInv, CarriageInv, DeliveringIsBound, AcceptanceInv, BoundWasReceived, OwnersAlive,
         DeliveringHasOwner, InState
<1> QED BY <1>1, OwnersHold, PTL

(* And what holds in the calm all the same: mail in order, owners alive.   *)
THEOREM CalmIsOrderly ==
    ASSUME "unreadable" \notin FaultKinds, "appserver" \notin FaultKinds, MaxMsg <= MaxBatch
    PROVE  Spec => []CalmInv
<1>1. OrderInv /\ OwnersAlive => CalmInv
  BY DEF CalmInv
<1> QED BY <1>1, CalmOrderHolds, OwnersHold, PTL

-----------------------------------------------------------------------------
(* The kernel implements MailDelivery *)

(* What only depends on the mailbox, the baseline and which batches are    *)
(* settled stays with them. *)
LEMMA SameStanding ==
    ASSUME UNCHANGED <<inbox, baselined, baseline>>,
           \A m \in MessageIds : \A s \in {"accepted", "dead_letter"} :
               CarriedIn(m, s)' <=> CarriedIn(m, s)
    PROVE  Standing' = Standing
<1>1. \A m \in MessageIds : StandingOf(m)' = StandingOf(m)
  BY DEF StandingOf
<1> QED BY <1>1 DEF Standing

LEMMA RowStaysOpen ==
    ASSUME TypeOK, NEW b \in Batches, NEW s \in {"pending", "delivering"},
           batchState' = [batchState EXCEPT ![b] = s],
           batchState[b] \notin {"accepted", "dead_letter"},
           UNCHANGED <<inbox, baselined, baseline>>
    PROVE  Standing' = Standing
<1>1. batchState \in [Batches -> BatchStates]
  BY DEF TypeOK, StoreTypeOK
<1>2. \A s1 \in {"accepted", "dead_letter"} : InState(s1)' = InState(s1)
  BY <1>1 DEF InState
<1>3. \A m \in MessageIds : \A s1 \in {"accepted", "dead_letter"} :
        CarriedIn(m, s1)' <=> CarriedIn(m, s1)
  BY <1>2 DEF CarriedIn
<1> QED BY <1>3, SameStanding

(* A message of the outbox stands as its batch does. *)
Settled == {"accepted", "dead_letter"}

LEMMA CarriedMail ==
    ASSUME TypeOK, BatchingInv, NEW b \in Outbox, NEW m \in b
    PROVE  /\ m \in MessageIds
           /\ StandingOf(m) = IF batchState[b] \in Settled THEN batchState[b] ELSE "waiting"
<1>1. m \in sourceEvents /\ b \in Batches
  BY DEF BatchingInv, BatchedWasObserved, Outbox
<1>2. m \in inbox /\ baseline < m /\ m \in MessageIds
  BY <1>1 DEF BatchingInv, AfterBaseline, TypeOK, StoreTypeOK
<1>3. ~(m <= baseline)
  BY <1>2 DEF MessageIds, TypeOK, StoreTypeOK
<1>4. ASSUME NEW s \in Settled PROVE CarriedIn(m, s) <=> batchState[b] = s
  <2>1. ASSUME CarriedIn(m, s) PROVE batchState[b] = s
    <3>1. PICK c \in InState(s) : m \in c
      BY <2>1 DEF CarriedIn
    <3>2. c \in Outbox /\ batchState[c] = s
      BY <3>1 DEF InState, Outbox, Settled
    <3>3. c = b
      BY <3>1, <3>2 DEF BatchingInv, CarriersApart, MailInOneBatch
    <3> QED BY <3>2, <3>3
  <2> QED BY <1>1, <2>1 DEF CarriedIn, InState
<1> QED BY <1>2, <1>3, <1>4 DEF StandingOf, Settled

(* An open batch settles, and all its mail with it. *)
LEMMA RowSettles ==
    ASSUME TypeOK, BatchingInv, NEW b \in Outbox, batchState[b] \notin Settled,
           NEW s \in Settled, batchState' = [batchState EXCEPT ![b] = s],
           UNCHANGED <<inbox, baselined, baseline>>
    PROVE  /\ b \subseteq Promise!Waiting
           /\ Promise!Become(b, s)
<1>1. batchState \in [Batches -> BatchStates] /\ b \in Batches
  BY DEF TypeOK, StoreTypeOK, Outbox
<1>2. \A m \in b : m \in MessageIds /\ StandingOf(m) = "waiting"
  BY CarriedMail
<1>3. b \subseteq Promise!Waiting
  BY <1>2 DEF Promise!Waiting, Promise!MessageIds, MessageIds, Standing
<1>4. \A r \in Settled : InState(r)' = IF r = s THEN InState(r) \cup {b} ELSE InState(r)
  BY <1>1 DEF InState, Settled
<1>5. \A m : \A r \in Settled : CarriedIn(m, r)' <=> CarriedIn(m, r) \/ (r = s /\ m \in b)
  BY <1>4 DEF CarriedIn
<1>6. ASSUME NEW m \in MessageIds
      PROVE  StandingOf(m)' = IF m \in b THEN s ELSE StandingOf(m)
  <2>1. CASE m \in b
    <3>1. m \in inbox /\ ~(baselined /\ m <= baseline) /\ ~CarriedIn(m, "accepted")
          /\ ~CarriedIn(m, "dead_letter")
      BY <1>2, <2>1 DEF StandingOf
    <3> QED BY <1>5, <2>1, <3>1 DEF StandingOf, Settled
  <2>2. CASE m \notin b
    BY <1>5, <2>2 DEF StandingOf, Settled
  <2> QED BY <2>1, <2>2
<1>7. Promise!Become(b, s)
  BY <1>6 DEF Promise!Become, Standing, Promise!MessageIds, MessageIds
<1> QED BY <1>3, <1>7

(* New mail waits from the moment it arrives. *)
LEMMA ArrivalWaits ==
    ASSUME TypeOK, BatchingInv, NEW m \in MessageIds, MailArrives(m)
    PROVE  Standing[m] = "absent" /\ Promise!Become({m}, "waiting")
<1>1. /\ m \notin inbox /\ inbox' = inbox \cup {m}
      /\ UNCHANGED <<baselined, baseline, batchState>>
  BY DEF MailArrives, storeVars, MessageIds
<1>2. ~(baselined /\ m <= baseline)
  <2>1. baseline < m
    <3>1. baseline \in 1..(m - 1) \/ baseline = 0
      BY DEF MailArrives, BatchingInv, AfterBaseline
    <3> QED BY <3>1 DEF MessageIds
  <2> QED BY <2>1 DEF MessageIds, TypeOK, StoreTypeOK
<1>3. \A s \in Settled : InState(s)' = InState(s) /\ ~CarriedIn(m, s)
  <2>1. \A b \in Outbox : m \notin b
    BY <1>1 DEF BatchingInv, BatchedWasObserved, AfterBaseline
  <2>2. \A s \in Settled : InState(s) \subseteq Outbox
    BY DEF InState, Outbox, Settled
  <2> QED BY <1>1, <2>1, <2>2 DEF InState, CarriedIn
<1>4. StandingOf(m) = "absent" /\ StandingOf(m)' = "waiting"
  BY <1>1, <1>2, <1>3 DEF StandingOf, CarriedIn, Settled
<1>5. \A n \in MessageIds \ {m} : StandingOf(n)' = StandingOf(n)
  BY <1>1, <1>3 DEF StandingOf, CarriedIn, Settled
<1> QED BY <1>4, <1>5 DEF Standing, Promise!Become, Promise!MessageIds, MessageIds

(* The first start draws the baseline over an empty outbox. *)
LEMMA StartDrawsBaseline ==
    ASSUME TypeOK, Start, Shown' = Shown
    PROVE  Standing' = Standing \/ \E c \in 0..MaxMsg : Promise!DrawBaseline(c)
<1>1. CASE UNCHANGED storeVars
  <2>1. UNCHANGED <<inbox, baselined, baseline, batchState>>
    BY <1>1 DEF Start, storeVars, mailVars
  <2>2. \A s : InState(s)' = InState(s)
    BY <2>1 DEF InState
  <2> QED BY <2>1, <2>2, SameStanding DEF CarriedIn
<1>2. CASE SetBaseline(BaselineId)
  <2>1. /\ ~baselined /\ baselined' = TRUE /\ baseline' = BaselineId
        /\ inbox' = inbox /\ batchState' = batchState /\ Outbox = {}
        /\ BaselineId \in 0..MaxMsg
    BY <1>2, BaselineIsId DEF SetBaseline, Start, mailVars
  <2>2. \A m : \A s \in Settled : ~CarriedIn(m, s) /\ ~CarriedIn(m, s)'
    BY <2>1 DEF CarriedIn, InState, Outbox, Settled
  <2>3. \A m \in MessageIds : StandingOf(m) = IF m \in inbox THEN "waiting" ELSE "absent"
    BY <2>1, <2>2 DEF StandingOf, Settled
  <2>4. \A m \in MessageIds :
          StandingOf(m)' = IF StandingOf(m) = "waiting" /\ m <= BaselineId
                           THEN "history" ELSE StandingOf(m)
    BY <2>1, <2>2, <2>3 DEF StandingOf, Settled
  <2>5. Promise!DrawBaseline(BaselineId)
    BY <2>3, <2>4 DEF Promise!DrawBaseline, Promise!Become, Promise!Waiting, Standing,
       Promise!MessageIds, MessageIds
  <2> QED BY <2>1, <2>5
<1> QED BY <1>1, <1>2 DEF Start

(* Only a turn that completes adds to what was shown: a completed turn     *)
(* stays completed and is given nothing more. *)
LEMMA CompletedStays ==
    ASSUME TypeInv, [Next]_vars, ~\E t \in TurnIds : TurnCompletes(t), NEW t \in TurnIds
    PROVE  /\ turnState'[t] = "completed" <=> turnState[t] = "completed"
           /\ turnState[t] = "completed" => turnInput'[t] = turnInput[t]
<1>0. turnState \in [TurnIds -> TurnStates] /\ turnInput \in [TurnIds -> Seq(Batches)]
  BY DEF TypeInv, TypeOK, ThreadTypeOK
<1> USE DEF storeVars, threadVars, mailVars, memoryVars, callVars, sessionVars
<1>1. CASE ServerAccepts
  <2>1. PICK u \in TurnIds : \/ method = "turn/start" /\ ServerStartsTurn(u, current)
                             \/ method = "turn/steer" /\ u = turnId /\ ServerSteersTurn(u, current)
    BY <1>1 DEF ServerAccepts
  <2>2. CASE ServerStartsTurn(u, current)
    <3>1. /\ turnState[u] = "unused" /\ turnState' = [turnState EXCEPT ![u] = "active"]
          /\ turnInput' = [turnInput EXCEPT ![u] = <<current>>]
      BY <2>2 DEF ServerStartsTurn
    <3> QED BY <1>0, <3>1
  <2>3. CASE ServerSteersTurn(u, current)
    <3>1. /\ turnState[u] = "active" /\ turnState' = turnState
          /\ turnInput' = [turnInput EXCEPT ![u] = Append(@, current)]
      BY <2>3 DEF ServerSteersTurn
    <3> QED BY <1>0, <3>1
  <2> QED BY <2>1, <2>2, <2>3
<1>2. CASE \E u \in TurnIds : TurnFails(u)
  <2>1. PICK u \in TurnIds : /\ turnState[u] = "active" /\ turnInput' = turnInput
                             /\ turnState' = [turnState EXCEPT ![u] = "failed"]
    BY <1>2 DEF TurnFails, TurnEnds
  <2> QED BY <1>0, <2>1
<1>3. CASE turnState' = Interrupted /\ turnInput' = turnInput
  BY <1>3 DEF Interrupted
<1>4. CASE UNCHANGED <<turnState, turnInput>>
  BY <1>4
<1>5. ASSUME NEW counts, NEW b, NEW permanent, DeliveryFails(counts, b, permanent)
      PROVE  turnInput' = turnInput /\ (turnState' = Interrupted \/ turnState' = turnState)
  BY <1>5 DEF DeliveryFails, Stop, SessionCloses
<1>6. CASE EncodeOrMarkFails \/ SessionRefuses \/ ServerRefuses \/ ResponseLost \/ BindFails
           \/ SettlingFails
  BY <1>3, <1>4, <1>5, <1>6 DEF EncodeOrMarkFails, SessionRefuses, ServerRefuses, ResponseLost,
     BindFails, SettlingFails
<1>7. CASE ServerDies \/ Crash
  BY <1>3, <1>7 DEF ServerDies, AppServerExits, Crash, Stop, SessionCloses
<1>8. CASE \/ KernelStep /\ ~ServerAccepts
              /\ ~(EncodeOrMarkFails \/ SessionRefuses \/ ServerRefuses \/ ResponseLost
                   \/ BindFails \/ SettlingFails)
           \/ UNCHANGED vars
           \/ \E m \in MessageIds : MailArrives(m) \/ MailBecomesReadable(m)
           \/ \E u \in TurnIds : Notification(u)
           \/ \E b \in Batches : RetryDue(b)
           \/ WindowEnds
  <2>1. UNCHANGED <<turnState, turnInput>>
    BY <1>8 DEF KernelStep, vars, Start, SessionOpens, Replay, Rebatch, Settle, Poll, Enqueue,
       LoadOutbox, PassEnds, SkipOrQueue, BeginDelivery, SessionRemembers, Response,
       ResponseHandled, Bind, BoundSettled, MailArrives, MailBecomesReadable, Notification,
       TurnStartedNotification, TerminalNotification, RetryDue, WindowEnds
  <2> QED BY <1>4, <2>1
<1> QED BY <1>1, <1>2, <1>6, <1>7, <1>8 DEF Next, Environment

LEMMA ShownStays ==
    ASSUME TypeInv, [Next]_vars, ~\E t \in TurnIds : TurnCompletes(t)
    PROVE  Shown' = Shown
<1>1. CompletedTurns' = CompletedTurns
  BY CompletedStays DEF CompletedTurns
<1>2. \A t \in CompletedTurns : \A b : Received(b, t)' <=> Received(b, t)
  BY CompletedStays DEF CompletedTurns, Received
<1> QED BY <1>1, <1>2 DEF Shown

(* A turn completes: what it was given waits, or was given up meanwhile. *)
LEMMA CompletionShows ==
    ASSUME TypeInv, KernelInv, NEW t \in TurnIds, TurnCompletes(t)
    PROVE  \E ms \in SUBSET MessageIds : Promise!Show(ms)
<1> DEFINE ms == {m \in MessageIds : \E b \in Batches : Received(b, t) /\ m \in b}
<1>0. TypeOK /\ BatchingInv /\ CarriageInv
  BY DEF TypeInv, KernelInv
<1>1. /\ turnState[t] = "active" /\ turnInput' = turnInput
      /\ turnState' = [turnState EXCEPT ![t] = "completed"]
      /\ UNCHANGED <<inbox, baselined, baseline, batchState>>
      /\ turnState \in [TurnIds -> TurnStates]
  BY <1>0 DEF TurnCompletes, TurnEnds, storeVars, mailVars, TypeOK, ThreadTypeOK
<1>2. ASSUME NEW m \in ms PROVE Standing[m] \in {"waiting", "dead_letter"}
  <2>1. PICK b \in Batches : Received(b, t) /\ m \in b
    OBVIOUS
  <2>2. b \in Outbox /\ batchState[b] # "accepted"
    BY <1>0, <1>1, <2>1 DEF CarriageInv, CarriedHasRow, SoleCarrier
  <2>3. StandingOf(m) \in {"waiting", "dead_letter"}
    BY <1>0, <2>1, <2>2, CarriedMail DEF Settled
  <2> QED BY <2>3 DEF Standing
<1>3. Standing' = Standing
  <2>1. \A s : InState(s)' = InState(s)
    BY <1>1 DEF InState
  <2> QED BY <1>1, <2>1, SameStanding DEF CarriedIn
<1>4. Shown' = Shown \cup ms
  <2>1. CompletedTurns' = CompletedTurns \cup {t}
    BY <1>1 DEF CompletedTurns
  <2>2. \A u, b : Received(b, u)' <=> Received(b, u)
    BY <1>1 DEF Received
  <2> QED BY <2>1, <2>2 DEF Shown
<1>5. Promise!Show(ms)
  BY <1>2, <1>3, <1>4 DEF Promise!Show
<1> QED BY <1>5

(* Mail and baseline move only when mail arrives and at the first start. *)
LEMMA LineStays ==
    ASSUME TypeInv, BatchingInv, [Next]_vars, ~Start, ~\E m \in MessageIds : MailArrives(m)
    PROVE  UNCHANGED <<inbox, baselined, baseline>>
<1>1. CASE MailRests \/ MailForgotten \/ MailEnqueued \/ Rebatch \/ Poll
  BY <1>1 DEF MailRests, MailForgotten, MailEnqueued, Rebatch, Poll, ObserveSourceEvents,
     storeVars, mailVars
<1>2. CASE MailAccepted
  BY <1>2 DEF MailAccepted, BatchingInv, AfterBaseline, TypeInv, TypeOK, StoreTypeOK
<1> QED BY <1>1, <1>2, MailMoves

LEMMA RestingRow ==
    ASSUME TypeInv, KernelInv, [Next]_vars, NEW b \in Batches, RowRests(b),
           UNCHANGED <<inbox, baselined, baseline>>, Shown' = Shown
    PROVE  Standing' = Standing \/ Promise!GiveUp(b)
<1>0. /\ TypeOK /\ BatchingInv /\ RowsMoveForward
      /\ batchState \in [Batches -> BatchStates]
  BY DeliveryStep DEF TypeInv, KernelInv, TypeOK, StoreTypeOK
<1>1. PICK s \in {"pending", "dead_letter"} :
        /\ batchState' = [batchState EXCEPT ![b] = s]
        /\ s = "dead_letter" => b \in Outbox
  BY DEF RowRests, Outbox
<1>2. batchState[b] \in Settled => b \in Outbox /\ batchState[b] = s
  BY <1>0, <1>1 DEF RowsMoveForward, Outbox, Settled
<1>3. CASE s = "pending"
  <2>1. batchState[b] \notin Settled
    BY <1>2, <1>3 DEF Settled
  <2> QED BY <1>0, <1>1, <1>3, <2>1, RowStaysOpen DEF Settled
<1>4. CASE s = "dead_letter" /\ batchState[b] \in Settled
  <2>1. batchState' = batchState
    BY <1>0, <1>1, <1>2, <1>4
  <2>2. \A r : InState(r)' = InState(r)
    BY <2>1 DEF InState
  <2> QED BY <2>2, SameStanding DEF CarriedIn
<1>5. CASE s = "dead_letter" /\ batchState[b] \notin Settled
  <2>1. b \subseteq Promise!Waiting /\ Promise!Become(b, "dead_letter")
    BY <1>0, <1>1, <1>5, RowSettles DEF Settled
  <2> QED BY <2>1 DEF Promise!GiveUp
<1> QED BY <1>1, <1>3, <1>4, <1>5

(* What the kernel accepts was shown in a turn that completed. *)
LEMMA AcceptedRow ==
    ASSUME TypeInv, KernelInv, NEW t \in TurnIds, NEW b \in InFlight(t), AcceptBatch(b, t),
           turnState[t] = "completed", UNCHANGED <<inbox, baselined, baseline>>, Shown' = Shown
    PROVE  Promise!Accept(b)
<1>1. /\ TypeOK /\ BatchingInv /\ b \in Batches /\ b \in Outbox
      /\ batchState[b] = "delivering" /\ acceptedTurn[b] = t
      /\ batchState' = [batchState EXCEPT ![b] = "accepted"]
  BY DEF TypeInv, KernelInv, InFlight, InState, Outbox, AcceptBatch
<1>2. b \subseteq Promise!Waiting /\ Promise!Become(b, "accepted")
  BY <1>1, RowSettles DEF Settled
<1>3. Received(b, t)
  <2>1. t # NoTurn
    BY DEF TurnIds, NoTurn
  <2> QED BY <1>1, <2>1 DEF KernelInv, AcceptanceInv, BoundWasReceived, InState
<1>4. b \subseteq Shown
  BY <1>1, <1>3 DEF Shown, CompletedTurns, Batches
<1> QED BY <1>2, <1>4 DEF Promise!Accept

LEMMA PromiseInit == Init => Promise!Init
<1> SUFFICES ASSUME Init PROVE Promise!Init
  OBVIOUS
<1>1. inbox = {} /\ \A t \in TurnIds : turnState[t] = "unused"
  BY DEF Init, ThreadInit
<1>2. CompletedTurns = {}
  BY <1>1 DEF CompletedTurns
<1> QED BY <1>1, <1>2 DEF Promise!Init, Standing, StandingOf, Shown, Promise!MessageIds, MessageIds

LEMMA PromiseStep ==
    ASSUME TypeInv, KernelInv, [Next]_vars
    PROVE  [Promise!Next]_Promise!mailDeliveryVars
<1>0. /\ TypeOK /\ DeliveryInv /\ BatchingInv
      /\ (pc \in InCall => current \in Batches)
      /\ \A b \in Batches : b \in SUBSET Promise!MessageIds
  BY DEF TypeInv, MemoryInv, KernelInv, InCall, Batches, MessageIds, Promise!MessageIds
<1> USE DEF storeVars, threadVars, mailVars, memoryVars, callVars, sessionVars
<1>1. CASE \E t \in TurnIds : TurnCompletes(t)
  <2>1. \E ms \in SUBSET MessageIds : Promise!Show(ms)
    BY <1>1, CompletionShows
  <2> QED BY <2>1 DEF Promise!Next, Promise!MessageIds, MessageIds
<1>2. CASE ~\E t \in TurnIds : TurnCompletes(t)
  <2>0. Shown' = Shown
    BY <1>2, ShownStays
  <2>1. CASE \E m \in MessageIds : MailArrives(m)
    <3>1. PICK m \in MessageIds : MailArrives(m)
      BY <2>1
    <3>2. Promise!Arrive(m)
      BY <1>0, <2>0, <3>1, ArrivalWaits DEF Promise!Arrive
    <3> QED BY <3>2 DEF Promise!Next, Promise!MessageIds, MessageIds
  <2>2. CASE Start
    <3>1. Standing' = Standing \/ \E c \in 0..MaxMsg : Promise!DrawBaseline(c)
      BY <1>0, <2>0, <2>2, StartDrawsBaseline
    <3> QED BY <2>0, <3>1 DEF Promise!Next, Promise!mailDeliveryVars
  <2>3. CASE ~Start /\ ~\E m \in MessageIds : MailArrives(m)
    <3>0. UNCHANGED <<inbox, baselined, baseline>>
      BY <1>0, <2>3, LineStays
    <3>1. CASE batchState' = batchState
      <4>1. \A s : InState(s)' = InState(s)
        BY <3>1 DEF InState
      <4>2. Standing' = Standing
        BY <3>0, <4>1, SameStanding DEF CarriedIn
      <4> QED BY <2>0, <4>2 DEF Promise!mailDeliveryVars
    <3>2. ASSUME NEW b \in Batches, RowRests(b)
          PROVE  [Promise!Next]_Promise!mailDeliveryVars
      <4>1. Standing' = Standing \/ Promise!GiveUp(b)
        BY <2>0, <3>0, <3>2, RestingRow
      <4>2. b \in SUBSET Promise!MessageIds
        BY <1>0
      <4> QED BY <2>0, <4>1, <4>2 DEF Promise!Next, Promise!mailDeliveryVars
    <3>3. CASE Settle
      <4>1. PICK t \in TurnIds : \E b \in InFlight(t) :
                 (turnState[t] = "completed" /\ AcceptBatch(b, t)) \/ RowRests(b)
        BY <1>0, <3>3, SettleAcceptsOrRestsRow
      <4>2. PICK b \in InFlight(t) : (turnState[t] = "completed" /\ AcceptBatch(b, t)) \/ RowRests(b)
        BY <4>1
      <4>3. b \in Batches /\ b \in SUBSET Promise!MessageIds
        BY <1>0 DEF InFlight, InState
      <4>4. CASE turnState[t] = "completed" /\ AcceptBatch(b, t)
        <5>1. Promise!Accept(b)
          BY <2>0, <3>0, <4>4, AcceptedRow
        <5> QED BY <4>3, <5>1 DEF Promise!Next
      <4> QED BY <3>2, <4>2, <4>3, <4>4
    <3>4. CASE BeginDelivery
      <4>1. /\ NextTodo \in Batches /\ batchState[NextTodo] = "pending"
            /\ batchState' = [batchState EXCEPT ![NextTodo] = "delivering"]
        BY <1>0, <3>4, NextTodoIsBatch DEF BeginDelivery, TransitionBatch
      <4>2. Standing' = Standing
        BY <1>0, <3>0, <4>1, RowStaysOpen
      <4> QED BY <2>0, <4>2 DEF Promise!mailDeliveryVars
    <3>5. CASE Bind
      <4>1. /\ current \in Batches /\ batchState[current] = "delivering"
            /\ batchState' = [batchState EXCEPT ![current] = "delivering"]
        BY <1>0, <3>5 DEF Bind, TransitionBatch, InCall
      <4>2. Standing' = Standing
        BY <1>0, <3>0, <4>1, RowStaysOpen
      <4> QED BY <2>0, <4>2 DEF Promise!mailDeliveryVars
    <3>6. CASE \/ CarriageRests \/ CarriageStops \/ Rebatch \/ SessionRemembers
               \/ ServerAccepts \/ Response \/ BoundSettled
      <4>1. batchState' = batchState
        BY <3>6 DEF CarriageRests, CarriageStops, Rebatch, SessionRemembers, ServerAccepts,
           Response, BoundSettled
      <4> QED BY <3>1, <4>1
    <3> QED BY <1>0, <2>3, <3>2, <3>3, <3>4, <3>5, <3>6, CarriageMoves
  <2> QED BY <2>1, <2>2, <2>3
<1> QED BY <1>1, <1>2

(* The kernel, with its outbox, its session and the app server's turns,    *)
(* does nothing MailDelivery does not allow: mail is history or waits, is  *)
(* accepted only after a completed turn was given it, and is settled once. *)
THEOREM KernelKeepsPromise == Spec => ImplementsMailDelivery
<1>1. TypeInv /\ KernelInv /\ [Next]_vars => [Promise!Next]_Promise!mailDeliveryVars
  BY PromiseStep
<1> QED BY <1>1, PromiseInit, KernelHolds, PTL DEF Spec, ImplementsMailDelivery, Promise!Spec
=============================================================================
