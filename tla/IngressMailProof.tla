--------------------------- MODULE IngressMailProof ---------------------------
(***************************************************************************)
(* The way of the mail into the outbox: no message is in two batches, and  *)
(* none is lost, from the agreement of the cursors, the index, the batcher *)
(* and the rows with what was observed.                                    *)
(***************************************************************************)
EXTENDS IngressKernelProof, RecoveryPlan

USE DomainAssumption

-----------------------------------------------------------------------------
(* What a step can do to the mail on its way *)

(* Nothing moves; the kernel may go on within its loop. *)
MailRests ==
    /\ UNCHANGED <<cursor, baselined, baseline, sourceEvents, inbox, cursorId, eventIndex,
                   buffer, due, Outbox>>
    /\ \/ pc' = pc
       \/ /\ pc \notin {"down", "recover"} /\ pc' \notin {"down", "recover"}
          /\ pc = "enqueue" => due = {}

(* The kernel stops and forgets what it held in memory. *)
MailForgotten ==
    /\ UNCHANGED <<cursor, baselined, baseline, sourceEvents, inbox, Outbox>>
    /\ pc' = "down" /\ cursorId' = 0 /\ eventIndex' = {} /\ buffer' = {} /\ due' = {}

(* A row of the outbox is accepted and takes both cursors with it. *)
MailAccepted ==
    /\ UNCHANGED <<baseline, sourceEvents, inbox, buffer, due, Outbox, pc>>
    /\ pc \in {"head", "bound"}
    /\ \E b \in Outbox :
          /\ cursor' = Last(b)
          /\ baselined' = TRUE
          /\ cursorId' = Max({cursorId, Last(b)})
          /\ eventIndex' = {m \in eventIndex : m > cursorId'}

(* A sealed batch is enqueued, or its row is there already. *)
MailEnqueued ==
    /\ UNCHANGED <<cursor, baselined, baseline, sourceEvents, inbox, cursorId, eventIndex,
                   buffer, pc>>
    /\ pc = "enqueue"
    /\ Earliest(due) \in due
    /\ due' = due \ {Earliest(due)}
    /\ Outbox' = Outbox \cup {Earliest(due)}

(* Rows that exist move between their states. *)
LEMMA RowKept ==
    ASSUME TypeOK, NEW b \in Outbox, NEW s \in BatchStates \ {"absent"},
           batchState' = [batchState EXCEPT ![b] = s]
    PROVE  Outbox' = Outbox
<1>1. batchState \in [Batches -> BatchStates] /\ b \in Batches /\ batchState[b] # "absent"
  BY DEF TypeOK, StoreTypeOK, Outbox
<1>2. \A c \in Batches : batchState'[c] # "absent" <=> batchState[c] # "absent"
  BY <1>1
<1> QED BY <1>2 DEF Outbox

LEMMA SameOutbox ==
    ASSUME batchState' = batchState
    PROVE  Outbox' = Outbox
BY DEF Outbox

LEMMA RetryKeepsRows ==
    ASSUME TypeOK, NEW counts, NEW b \in Batches, NEW permanent,
           RetryOrDeadLetter(counts, b, permanent)
    PROVE  Outbox' = Outbox /\ UNCHANGED <<cursor, baselined, baseline, sourceEvents>>
<1>1. \/ /\ batchState[b] # "absent"
         /\ \/ batchState' = [batchState EXCEPT ![b] = "pending"]
            \/ batchState' = [batchState EXCEPT ![b] = "dead_letter"]
  BY DEF RetryOrDeadLetter, TransitionBatch, DeadLetter
<1>2. Outbox' = Outbox
  BY <1>1, RowKept DEF Outbox, BatchStates
<1> QED BY <1>2 DEF RetryOrDeadLetter, TransitionBatch, DeadLetter

LEMMA FailureForgetsOrRests ==
    ASSUME TypeOK, NEW counts, NEW b \in Batches, NEW permanent,
           DeliveryFails(counts, b, permanent),
           pc \notin {"down", "recover", "enqueue"}
    PROVE  MailRests \/ MailForgotten
<1>1. CASE /\ RetryOrDeadLetter(counts, b, permanent)
           /\ pc' = "deliver"
           /\ UNCHANGED <<cursorId, eventIndex, buffer, due>>
           /\ UNCHANGED mailVars
  BY <1>1, RetryKeepsRows DEF MailRests, mailVars
<1>2. CASE Stop("error") /\ UNCHANGED storeVars /\ UNCHANGED mailVars
  BY <1>2, SameOutbox DEF MailForgotten, Stop, storeVars, mailVars
<1> QED BY <1>1, <1>2 DEF DeliveryFails

(* Settling accepts a row, or moves one by a failure. *)
LEMMA SettleAcceptsOrRests ==
    ASSUME TypeOK, Settle
    PROVE  MailAccepted \/ MailRests
<1> DEFINE t == Min(Settleable)
           b == EarliestEnding(InFlight(t))
<1>1. t \in Settleable
  BY SettleableTurn DEF Settle, TypeOK
<1>2. b \in Batches /\ b \in Outbox
  BY <1>1, InFlightChoice DEF Settleable, InFlight, InState, Outbox
<1>3. UNCHANGED <<inbox, buffer, due, pc>> /\ pc \in {"head", "bound"}
  BY DEF Settle, mailVars
<1>4. CASE SettleCompleted(t)
  <2>1. /\ batchState' = [batchState EXCEPT ![b] = "accepted"]
        /\ cursor' = Last(b) /\ baselined' = TRUE
        /\ cursorId' = Max({cursorId, Last(b)})
        /\ eventIndex' = {m \in eventIndex : m > cursorId'}
        /\ UNCHANGED <<baseline, sourceEvents>>
    BY <1>4 DEF SettleCompleted, AcceptBatch
  <2>2. Outbox' = Outbox
    BY <1>2, <2>1, RowKept DEF BatchStates
  <2> QED BY <1>2, <1>3, <2>1, <2>2 DEF MailAccepted
<1>5. CASE SettleFailed(t)
  <2>1. PICK permanent \in BOOLEAN : RetryOrDeadLetter(attempts, b, permanent)
    BY <1>5 DEF SettleFailed
  <2>2. UNCHANGED <<cursorId, eventIndex>>
    BY <1>5 DEF SettleFailed
  <2> QED BY <1>2, <1>3, <2>1, <2>2, RetryKeepsRows DEF MailRests
<1> QED BY <1>4, <1>5 DEF Settle

LEMMA EnqueueEnqueues ==
    ASSUME TypeOK, Enqueue
    PROVE  MailEnqueued
<1>1. due \in SUBSET Batches /\ due # {}
  BY DEF Enqueue, TypeOK
<1>2. Earliest(due) \in due /\ Earliest(due) \in Batches
  BY <1>1, EarliestExists
<1>3. Outbox' = Outbox \cup {Earliest(due)}
  <2>1. CASE Earliest(due) \in Outbox
    BY <2>1, SameOutbox DEF Enqueue, storeVars
  <2>2. CASE Earliest(due) \notin Outbox
    <3>1. batchState' = [batchState EXCEPT ![Earliest(due)] = "pending"]
      BY <2>2 DEF Enqueue, EnqueueBatch
    <3>2. batchState \in [Batches -> BatchStates]
      BY DEF TypeOK, StoreTypeOK
    <3>3. \A c \in Batches : batchState'[c] # "absent" <=> (batchState[c] # "absent" \/ c = Earliest(due))
      BY <1>2, <3>1, <3>2
    <3> QED BY <1>2, <3>3 DEF Outbox
  <2> QED BY <2>1, <2>2
<1>4. UNCHANGED <<cursor, baselined, baseline, sourceEvents>>
  BY DEF Enqueue, EnqueueBatch, storeVars
<1> QED BY <1>2, <1>3, <1>4 DEF MailEnqueued, Enqueue, mailVars

(* Every step of the kernel and its surroundings is one of these. *)
LEMMA MailMoves ==
    ASSUME TypeInv, [Next]_vars
    PROVE  \/ MailRests \/ MailForgotten \/ MailAccepted \/ MailEnqueued
           \/ Start \/ Rebatch \/ Poll
           \/ \E m \in MessageIds : MailArrives(m)
<1>0. TypeOK /\ (pc \in {"calling", "answered", "binding", "bound"} => current \in Batches)
  BY DEF TypeInv, MemoryInv
<1> USE DEF storeVars, threadVars, mailVars, memoryVars, callVars, sessionVars
<1>1. CASE Replay
  <2>1. InState("delivering") \in SUBSET Batches /\ InState("delivering") # {}
    BY <1>1 DEF Replay, InState
  <2> DEFINE b == Earliest(InState("delivering"))
  <2>2. b \in Outbox
    BY <2>1, EarliestExists DEF InState, Outbox
  <2>3. batchState' = [batchState EXCEPT ![b] = "pending"]
    BY <1>1 DEF Replay, TransitionBatch
  <2>4. Outbox' = Outbox
    BY <1>0, <2>2, <2>3, RowKept DEF BatchStates
  <2> QED BY <1>1, <2>4 DEF Replay, TransitionBatch, MailRests
<1>2. CASE LoadOutbox \/ PassEnds \/ SkipOrQueue \/ BoundSettled
  BY <1>2, SameOutbox DEF LoadOutbox, PassEnds, SkipOrQueue, BoundSettled, MailRests
<1>3. CASE BeginDelivery
  <2>1. /\ batchState[NextTodo] = "pending" /\ NextTodo \in Batches
        /\ batchState' = [batchState EXCEPT ![NextTodo] = "delivering"]
    BY <1>0, <1>3, NextTodoIsBatch DEF BeginDelivery, TransitionBatch
  <2>2. Outbox' = Outbox
    BY <1>0, <2>1, RowKept DEF Outbox, BatchStates
  <2> QED BY <1>3, <2>2 DEF BeginDelivery, TransitionBatch, MailRests
<1>4. CASE EncodeOrMarkFails
  BY <1>0, <1>4, NextTodoIsBatch, FailureForgetsOrRests DEF EncodeOrMarkFails
<1>5. CASE SessionRefuses \/ ServerRefuses \/ ResponseLost \/ BindFails \/ SettlingFails
  <2>1. PICK counts, permanent : DeliveryFails(counts, current, permanent)
    BY <1>5 DEF SessionRefuses, ServerRefuses, ResponseLost, BindFails, SettlingFails
  <2>2. pc \in {"calling", "answered", "binding", "bound"}
    BY <1>5 DEF SessionRefuses, ServerRefuses, ResponseLost, BindFails, SettlingFails
  <2> QED BY <1>0, <2>1, <2>2, FailureForgetsOrRests
<1>6. CASE SessionRemembers \/ ServerAccepts \/ Response
  BY <1>6, SameOutbox DEF SessionRemembers, ServerAccepts, Response, MailRests
<1>7. CASE Bind
  <2>1. /\ batchState[current] = "delivering" /\ current \in Batches
        /\ batchState' = [batchState EXCEPT ![current] = "delivering"]
    BY <1>0, <1>7 DEF Bind, TransitionBatch
  <2>2. Outbox' = Outbox
    BY <1>0, <2>1, RowKept DEF Outbox, BatchStates
  <2> QED BY <1>7, <2>2 DEF Bind, TransitionBatch, MailRests
<1>8. CASE Crash
  BY <1>8, SameOutbox DEF Crash, Stop, MailForgotten
<1>9. CASE WindowEnds \/ ServerDies \/ UNCHANGED vars
           \/ (\E m \in MessageIds : MailBecomesReadable(m))
           \/ (\E t \in TurnIds : TurnCompletes(t) \/ TurnFails(t) \/ Notification(t))
           \/ (\E b \in Batches : RetryDue(b))
  BY <1>9, SameOutbox DEF WindowEnds, ServerDies, vars, MailBecomesReadable, TurnCompletes,
     TurnFails, Notification, RetryDue, RetryTimeArrives, MailRests
<1> QED BY <1>0, <1>1, <1>2, <1>3, <1>4, <1>5, <1>6, <1>7, <1>8, <1>9, SettleAcceptsOrRests,
           EnqueueEnqueues
        DEF Next, KernelStep, Environment

-----------------------------------------------------------------------------
(* No message in two batches *)

LEMMA BatchingInit == Init => BatchingInv
BY DEF Init, StoreInit, ThreadInit, BatchingInv, IndexHoldsObserved, BatchedWasObserved,
       DueIsEnqueuing, CarriersApart, MailInOneBatch, AfterBaseline, Outbox

(* What a poll takes for new was never observed, and lies past the cursor. *)
LEMMA PollTakesUnseen ==
    ASSUME TypeOK, BatchingInv, pc # "down"
    PROVE  /\ (ReadAfter(cursorId) \ eventIndex) \cap sourceEvents = {}
           /\ ReadAfter(cursorId) \ eventIndex \in SUBSET MessageIds
           /\ \A m \in ReadAfter(cursorId) \ eventIndex : m \in inbox /\ baseline < m /\ cursorId < m
<1>1. ReadAfter(cursorId) \in SUBSET MessageIds
  BY ReadAfterIds
<1>2. \A m \in ReadAfter(cursorId) : m \in inbox /\ cursorId < m
  BY DEF ReadAfter
<1>3. baseline <= cursorId /\ baseline \in Int /\ cursorId \in Int
  BY DEF BatchingInv, AfterBaseline, TypeOK, StoreTypeOK
<1>4. \A m \in sourceEvents : m > cursorId => m \in eventIndex
  BY DEF BatchingInv, IndexHoldsObserved
<1>5. MessageIds \in SUBSET Int
  BY DEF MessageIds
<1>6. ASSUME NEW m \in ReadAfter(cursorId) \ eventIndex
      PROVE  m \notin sourceEvents /\ m \in inbox /\ baseline < m /\ cursorId < m
  <2>1. m \in Int /\ m \in inbox /\ cursorId < m
    BY <1>1, <1>2, <1>5, <1>6
  <2>2. m \notin sourceEvents
    BY <1>3, <1>4, <1>6, <2>1
  <2>3. baseline < m
    BY <1>3, <2>1
  <2> QED BY <2>1, <2>2, <2>3
<1> QED BY <1>1, <1>6

(* A poll puts the old buffer and the unseen mail into new carriers, each  *)
(* message into one. *)
LEMMA PollKeepsBatching ==
    ASSUME TypeInv, BatchingInv, Poll
    PROVE  BatchingInv'
<1> DEFINE new    == ReadAfter(cursorId) \ eventIndex
           kept   == IF windowOver THEN {} ELSE buffer
           sealed == SealedBatches(kept \cup new)
<1>0. TypeOK /\ pc = "head" /\ (windowOver => buffer # {})
  BY DEF Poll, TypeInv, MemoryInv
<1>1. /\ new \cap sourceEvents = {} /\ new \in SUBSET MessageIds
      /\ \A m \in new : m \in inbox /\ baseline < m
  BY <1>0, PollTakesUnseen
<1>2. /\ eventIndex' = eventIndex \cup new
      /\ sourceEvents' = sourceEvents \cup new
      /\ due' = sealed \cup (IF windowOver THEN {buffer} ELSE {})
      /\ buffer' = (kept \cup new) \ UNION sealed
      /\ pc' = "enqueue"
      /\ UNCHANGED <<cursor, baselined, baseline, inbox, cursorId, batchState>>
  BY DEF Poll, ObserveSourceEvents, mailVars
<1>3. Outbox' = Outbox
  BY <1>2, SameOutbox
<1>4. /\ \A b \in sealed : b \subseteq kept \cup new
      /\ \A b, c \in sealed : b # c => b \cap c = {}
  BY SealedAreParts
<1>5. kept \subseteq buffer /\ (windowOver => kept = {})
  OBVIOUS
<1>6. /\ buffer \subseteq sourceEvents
      /\ \A b \in Outbox : b \subseteq sourceEvents /\ b \cap buffer = {}
      /\ MailInOneBatch
  BY DEF BatchingInv, BatchedWasObserved, CarriersApart
<1>7. sealed \in SUBSET Batches
  <2>1. kept \cup new \in SUBSET MessageIds
    BY <1>0, <1>1 DEF TypeOK
  <2> QED BY <2>1, SealedAreBatches
<1> HIDE DEF new, kept, sealed
<1>8. IndexHoldsObserved'
  BY <1>0, <1>1, <1>2 DEF BatchingInv, IndexHoldsObserved
<1>9. BatchedWasObserved' /\ DueIsEnqueuing'
  BY <1>2, <1>3, <1>4, <1>5, <1>6 DEF BatchedWasObserved, DueIsEnqueuing
<1>10. CarriersApart'
  <2>1. \A b \in Outbox : b \cap new = {}
    BY <1>1, <1>6
  <2>2. MailInOneBatch'
    BY <1>3, <1>6 DEF MailInOneBatch
  <2>3. \A b \in due' : b \subseteq buffer \cup new
    BY <1>2, <1>4, <1>5
  <2>4. \A b \in Outbox : \A c \in due' : b \cap c = {}
    BY <1>6, <2>1, <2>3
  <2>5. \A b \in due' : b \cap buffer' = {}
    BY <1>1, <1>2, <1>4, <1>5, <1>6
  <2>6. \A b, c \in due' : b # c => b \cap c = {}
    BY <1>1, <1>2, <1>4, <1>5, <1>6
  <2>7. \A b \in Outbox : b \cap buffer' = {}
    BY <1>2, <1>5, <1>6, <2>1
  <2>8. {} \notin due'
    BY <1>0, <1>2, <1>7 DEF Batches, NoBatch
  <2>9. due' \cap Outbox = {}
    <3> SUFFICES ASSUME NEW b \in due', b \in Outbox PROVE b = {}
      BY <2>8
    <3>1. b \cap b = {}
      BY <2>4
    <3> QED BY <3>1
  <2> QED BY <1>3, <2>2, <2>4, <2>5, <2>6, <2>7, <2>9 DEF CarriersApart
<1>11. AfterBaseline'
  BY <1>0, <1>1, <1>2 DEF BatchingInv, AfterBaseline
<1> QED BY <1>8, <1>9, <1>10, <1>11 DEF BatchingInv

LEMMA StartKeepsBatching ==
    ASSUME TypeInv, BatchingInv, Start
    PROVE  BatchingInv'
<1>1. /\ pc = "down" /\ pc' = "recover" /\ cursorId' = cursor' /\ eventIndex' = sourceEvents
      /\ UNCHANGED <<inbox, buffer, due, sourceEvents, batchState>>
  BY DEF Start, SetBaseline, storeVars, mailVars
<1>2. TypeOK /\ Outbox' = Outbox
  BY <1>1, SameOutbox DEF TypeInv
<1>3. IndexHoldsObserved' /\ BatchedWasObserved' /\ DueIsEnqueuing'
  BY <1>1, <1>2 DEF BatchingInv, IndexHoldsObserved, BatchedWasObserved, DueIsEnqueuing
<1>4. CarriersApart'
  BY <1>1, <1>2 DEF BatchingInv, CarriersApart, MailInOneBatch
<1>5. AfterBaseline'
  <2>1. CASE baselined /\ UNCHANGED storeVars
    BY <1>1, <2>1 DEF BatchingInv, AfterBaseline, storeVars
  <2>2. CASE SetBaseline(BaselineId)
    <3>1. /\ sourceEvents = {} /\ cursor' = BaselineId /\ baseline' = BaselineId
          /\ baselined' = TRUE
      BY <2>2 DEF SetBaseline
    <3>2. BaselineId \in 0..MaxMsg /\ BaselineId \in inbox \cup {0}
      <4>1. CASE ReadAfter(0) = {}
        BY <4>1 DEF BaselineId
      <4>2. CASE ReadAfter(0) # {}
        <5>1. ReadAfter(0) \in SUBSET (0..MaxMsg)
          BY <1>2, ReadAfterIds DEF MessageIds
        <5>2. Max(ReadAfter(0)) \in ReadAfter(0)
          BY <4>2, <5>1, BoundedMax
        <5> QED BY <4>2, <5>1, <5>2 DEF BaselineId, ReadAfter
      <4> QED BY <4>1, <4>2
    <3> QED BY <1>1, <3>1, <3>2 DEF AfterBaseline
  <2> QED BY <2>1, <2>2 DEF Start
<1> QED BY <1>3, <1>4, <1>5 DEF BatchingInv

(* The later of the in-memory cursor and the end of an accepted row. *)
LEMMA LaterCursor ==
    ASSUME TypeOK, NEW b \in Outbox
    PROVE  /\ Last(b) \in b /\ Last(b) \in MessageIds
           /\ Max({cursorId, Last(b)}) \in {cursorId, Last(b)}
           /\ Max({cursorId, Last(b)}) >= cursorId
<1>1. b \in Batches
  BY DEF Outbox
<1>2. Last(b) \in b /\ Last(b) \in MessageIds
  BY <1>1, BatchEnds, BatchEndsAreIds
<1>3. {cursorId, Last(b)} \in SUBSET (0..MaxMsg)
  BY <1>2 DEF TypeOK, MessageIds
<1> QED BY <1>2, <1>3, BoundedMax

LEMMA BatchingStep ==
    ASSUME TypeInv, BatchingInv, [Next]_vars
    PROVE  BatchingInv'
<1>0. TypeOK
  BY DEF TypeInv
<1> USE DEF BatchingInv, IndexHoldsObserved, BatchedWasObserved, DueIsEnqueuing, CarriersApart,
            MailInOneBatch, AfterBaseline
<1>1. CASE MailRests
  BY <1>1 DEF MailRests
<1>2. CASE MailForgotten
  BY <1>2 DEF MailForgotten
<1>3. CASE MailAccepted
  <2>1. PICK b \in Outbox : /\ cursor' = Last(b) /\ baselined' = TRUE
                            /\ cursorId' = Max({cursorId, Last(b)})
                            /\ eventIndex' = {m \in eventIndex : m > cursorId'}
    BY <1>3 DEF MailAccepted
  <2>2. /\ Last(b) \in sourceEvents /\ Last(b) \in Int /\ cursorId' \in {cursorId, Last(b)}
        /\ cursorId' >= cursorId /\ cursorId \in Int /\ baseline \in Int
        /\ \A m \in sourceEvents : m \in Int
    BY <1>0, <2>1, LaterCursor DEF TypeOK, StoreTypeOK, MessageIds
  <2>3. IndexHoldsObserved'
    <3>1. \A m \in sourceEvents : m > cursorId' => m > cursorId
      BY <2>1, <2>2
    <3>2. pc # "down" /\ UNCHANGED <<sourceEvents, pc>>
      BY <1>3 DEF MailAccepted
    <3> QED BY <2>1, <3>1, <3>2
  <2>4. AfterBaseline'
    BY <1>3, <2>1, <2>2 DEF MailAccepted
  <2> QED BY <1>3, <2>3, <2>4 DEF MailAccepted
<1>4. CASE MailEnqueued
  BY <1>4 DEF MailEnqueued
<1>5. CASE Rebatch
  <2>1. /\ buffer' = Unbatched \ UNION SealedBatches(Unbatched) /\ pc = "recover" /\ pc' = "head"
        /\ UNCHANGED <<cursor, baselined, baseline, sourceEvents, inbox, cursorId, eventIndex,
                       due, batchState>>
    BY <1>5 DEF Rebatch, storeVars, mailVars
  <2>2. Outbox' = Outbox /\ due = {}
    BY <2>1, SameOutbox
  <2>3. buffer' \subseteq sourceEvents /\ \A b \in Outbox : b \cap buffer' = {}
    BY <2>1 DEF Unbatched, Covered
  <2> QED BY <2>1, <2>2, <2>3
<1>6. CASE \E m \in MessageIds : MailArrives(m)
  <2>1. PICK m \in MessageIds : MailArrives(m)
    BY <1>6
  <2>2. /\ inbox \subseteq inbox'
        /\ UNCHANGED <<cursor, baselined, baseline, sourceEvents, cursorId, eventIndex, buffer,
                       due, batchState, pc>>
    BY <2>1 DEF MailArrives, storeVars, memoryVars
  <2> QED BY <2>2, SameOutbox
<1> HIDE DEF BatchingInv
<1> QED BY <1>1, <1>2, <1>3, <1>4, <1>5, <1>6, MailMoves, StartKeepsBatching, PollKeepsBatching

LEMMA BatchingHolds == Spec => [](TypeInv /\ BatchingInv)
<1>1. TypeInv /\ BatchingInv /\ [Next]_vars => BatchingInv'
  BY BatchingStep
<1> QED BY <1>1, TypeInit, TypeStep, BatchingInit, PTL DEF Spec

(* No message is carried by two batches, whatever was polled again after   *)
(* a crash, rebuilt from source_events or left in the batcher, for every   *)
(* cap and under every fault. *)
THEOREM OneBatchPerMail == Spec => []MailInOneBatch
<1>1. BatchingInv => MailInOneBatch
  BY DEF BatchingInv, CarriersApart
<1> QED BY <1>1, BatchingHolds, PTL

-----------------------------------------------------------------------------
(* No mail lost: the order in which mail is carried *)

LEMMA OrderInit == Init => OrderInv
BY DEF Init, StoreInit, ThreadInit, OrderInv, ObservedInOrder, OutboxInOrder, SealedInOrder,
       NothingForgotten, CursorsInOutbox

(* Observed mail up to either cursor is in the outbox. *)
LEMMA CursorCoversObserved ==
    ASSUME TypeOK, BatchingInv, OrderInv, NEW c \in {cursor, cursorId}, NEW m \in sourceEvents,
           m <= c
    PROVE  Covered(m)
<1>1. /\ m \in Int /\ c \in Int /\ baseline \in Int /\ baseline < m /\ 0 < m
      /\ \A n \in sourceEvents : n \in Int
  BY DEF TypeOK, StoreTypeOK, MessageIds, BatchingInv, AfterBaseline
<1>2. c = baseline \/ c = 0 \/ Covered(c)
  BY DEF OrderInv, CursorsInOutbox
<1>3. Covered(c)
  BY <1>1, <1>2
<1>4. c \in sourceEvents
  BY <1>3 DEF Covered, BatchingInv, BatchedWasObserved
<1>5. m = c \/ m < c
  BY <1>1
<1> QED BY <1>3, <1>4, <1>5 DEF OrderInv, OutboxInOrder

(* Nothing but observed mail lies between the baseline and the cursor. *)
LEMMA CursorIsObserved ==
    ASSUME TypeOK, BatchingInv, OrderInv, NEW c \in {cursor, cursorId}, NEW m \in inbox,
           baseline < m, m <= c
    PROVE  m \in sourceEvents
<1>1. m \in Int /\ c \in Int /\ baseline \in Int /\ 0 < m
  BY DEF TypeOK, StoreTypeOK, MessageIds
<1>2. c = baseline \/ c = 0 \/ Covered(c)
  BY DEF OrderInv, CursorsInOutbox
<1>3. Covered(c)
  BY <1>1, <1>2
<1>4. c \in sourceEvents
  BY <1>3 DEF Covered, BatchingInv, BatchedWasObserved
<1>5. m = c \/ m < c
  BY <1>1
<1> QED BY <1>4, <1>5 DEF OrderInv, ObservedInOrder

(* A poll takes everything that is not observed yet, so it comes after all *)
(* that is. *)
LEMMA PollTakesTheRest ==
    ASSUME TypeOK, BatchingInv, OrderInv, MailIsWhole, pc # "down"
    PROVE  /\ \A n \in inbox : baseline < n =>
                 n \in sourceEvents \/ n \in ReadAfter(cursorId) \ eventIndex
           /\ \A m \in sourceEvents, n \in ReadAfter(cursorId) \ eventIndex : m < n
<1>1. ASSUME NEW n \in inbox, baseline < n, n \notin sourceEvents
      PROVE  n \in ReadAfter(cursorId) \ eventIndex
  <2>1. n \in Int /\ cursorId \in Int
    BY DEF TypeOK, MessageIds
  <2>2. ~(n <= cursorId)
    BY <1>1, CursorIsObserved
  <2>3. n \notin eventIndex
    BY <1>1 DEF BatchingInv, IndexHoldsObserved
  <2> QED BY <1>1, <2>1, <2>2, <2>3 DEF ReadAfter, MailIsWhole
<1>2. ASSUME NEW m \in sourceEvents, NEW n \in ReadAfter(cursorId) \ eventIndex
      PROVE  m < n
  <2>1. n \in inbox /\ baseline < n /\ n \notin sourceEvents /\ n \in Int /\ m \in Int
    BY PollTakesUnseen DEF TypeOK, StoreTypeOK, MessageIds
  <2>2. ~(n < m)
    BY <2>1 DEF OrderInv, ObservedInOrder
  <2> QED BY <2>1, <2>2
<1> QED BY <1>1, <1>2

LEMMA PollKeepsOrder ==
    ASSUME TypeInv, BatchingInv, OrderInv, MailIsWhole, Poll
    PROVE  OrderInv'
<1> DEFINE new    == ReadAfter(cursorId) \ eventIndex
           kept   == IF windowOver THEN {} ELSE buffer
           sealed == SealedBatches(kept \cup new)
<1>0. TypeOK /\ pc = "head"
  BY DEF Poll, TypeInv
<1>1. /\ \A n \in inbox : baseline < n => n \in sourceEvents \/ n \in new
      /\ \A m \in sourceEvents, n \in new : m < n
      /\ new \in SUBSET MessageIds /\ new \cap sourceEvents = {}
  BY <1>0, PollTakesTheRest, PollTakesUnseen
<1>2. /\ sourceEvents' = sourceEvents \cup new
      /\ due' = sealed \cup (IF windowOver THEN {buffer} ELSE {})
      /\ buffer' = (kept \cup new) \ UNION sealed
      /\ pc' = "enqueue"
      /\ UNCHANGED <<cursor, baseline, inbox, cursorId, batchState>>
  BY DEF Poll, ObserveSourceEvents, mailVars
<1>3. Outbox' = Outbox /\ \A m : Covered(m)' <=> Covered(m)
  BY <1>2, SameOutbox DEF Covered
<1>4. /\ buffer \subseteq sourceEvents /\ due = {}
      /\ \A m : Covered(m) => m \in sourceEvents
  BY <1>0 DEF BatchingInv, BatchedWasObserved, DueIsEnqueuing, Covered
<1>5. kept \cup new \in SUBSET MessageIds
  BY <1>0, <1>1 DEF TypeOK
<1>6. \A b \in sealed : b \subseteq kept \cup new
  BY SealedAreParts
<1>7. \A b \in sealed :
        /\ \A x \in b, y \in buffer' : x < y
        /\ \A c \in sealed : b = c \/ Before(b, c) \/ Before(c, b)
  BY <1>2, <1>5, SealedAreOrdered DEF Before
<1>8. windowOver => kept = {}
  OBVIOUS
<1>9. \A m \in sourceEvents, n \in new : m < n /\ ~(n < m)
  <2>1. \A m \in sourceEvents : m \in Int
    BY <1>0 DEF TypeOK, StoreTypeOK, MessageIds
  <2>2. \A m \in new : m \in Int
    BY <1>1 DEF MessageIds
  <2> QED BY <1>1, <2>1, <2>2
<1>10. kept \subseteq buffer /\ (~windowOver => kept = buffer)
  OBVIOUS
<1> HIDE DEF new, kept, sealed
<1>11. ObservedInOrder'
  BY <1>1, <1>2 DEF ObservedInOrder
<1>12. OutboxInOrder'
  BY <1>2, <1>3, <1>4, <1>9 DEF OrderInv, OutboxInOrder
<1>13. SealedInOrder'
  <2>1. CASE windowOver
    <3>1. due' = sealed \cup {buffer} /\ buffer' \subseteq new
      BY <1>2, <1>8, <2>1
    <3>2. Before(buffer, buffer')
      BY <1>4, <1>9, <3>1 DEF Before
    <3>3. \A b \in sealed : Before(b, buffer') /\ Before(buffer, b)
      BY <1>4, <1>6, <1>7, <1>8, <1>9, <2>1 DEF Before
    <3> QED BY <1>7, <3>1, <3>2, <3>3 DEF SealedInOrder
  <2>2. CASE ~windowOver
    BY <1>2, <1>7, <2>2 DEF SealedInOrder, Before
  <2> QED BY <2>1, <2>2
<1>14. NothingForgotten'
  <2> SUFFICES ASSUME NEW m \in sourceEvents'
               PROVE  Covered(m) \/ m \in buffer' \/ \E b \in due' : m \in b
    BY <1>3 DEF NothingForgotten
  <2>1. CASE m \in sourceEvents /\ ~Covered(m)
    <3>1. m \in buffer
      BY <1>0, <1>4, <2>1 DEF OrderInv, NothingForgotten
    <3> QED BY <1>2, <1>10, <3>1
  <2>2. CASE m \in new
    BY <1>2, <2>2
  <2> QED BY <1>2, <2>1, <2>2
<1>15. CursorsInOutbox'
  BY <1>0, <1>2, <1>3 DEF OrderInv, CursorsInOutbox
<1> QED BY <1>11, <1>12, <1>13, <1>14, <1>15 DEF OrderInv

(* The first of the sealed batches becomes a row: all that was observed    *)
(* before it is in the outbox. *)
LEMMA EnqueueKeepsOrder ==
    ASSUME TypeInv, BatchingInv, OrderInv, MailEnqueued
    PROVE  OrderInv'
<1> DEFINE b == Earliest(due)
<1>0. TypeOK /\ pc = "enqueue"
  BY DEF MailEnqueued, TypeInv
<1>1. /\ b \in due /\ due' = due \ {b} /\ Outbox' = Outbox \cup {b} /\ b \in Batches
      /\ UNCHANGED <<cursor, baselined, baseline, sourceEvents, inbox, cursorId, eventIndex,
                     buffer, pc>>
  BY <1>0 DEF MailEnqueued, TypeOK
<1>2. \A m : Covered(m)' <=> Covered(m) \/ m \in b
  BY <1>1 DEF Covered
<1>3. \A c \in due : First(b) <= First(c) /\ First(c) \in c /\ First(c) \in MessageIds
  <2>1. due \in SUBSET Batches /\ due # {}
    BY <1>0, <1>1 DEF TypeOK
  <2>2. \A c \in due : First(b) <= First(c)
    BY <2>1, EarliestExists
  <2> QED BY <2>1, <2>2, BatchEnds, BatchEndsAreIds
<1>4. \A c \in due : c = b \/ Before(b, c)
  <2> SUFFICES ASSUME NEW c \in due, c # b, Before(c, b) PROVE FALSE
    BY <1>1 DEF OrderInv, SealedInOrder
  <2>1. First(c) < First(b)
    BY <1>1, <1>3 DEF Before
  <2> QED BY <1>1, <1>3, <2>1 DEF MessageIds
<1>5. /\ Before(b, buffer) /\ b \subseteq sourceEvents
      /\ \A m \in sourceEvents : m \in Int
  BY <1>0, <1>1 DEF OrderInv, SealedInOrder, BatchingInv, BatchedWasObserved, TypeOK,
                    StoreTypeOK, MessageIds
<1> HIDE DEF b
<1>6. OutboxInOrder'
  <2> SUFFICES ASSUME NEW m \in sourceEvents, NEW n \in sourceEvents, m \in b, n < m
               PROVE  Covered(n) \/ n \in b
    BY <1>1, <1>2 DEF OrderInv, OutboxInOrder
  <2>1. Covered(n) \/ n \in buffer \/ \E c \in due : n \in c
    BY <1>0 DEF OrderInv, NothingForgotten
  <2>2. n \notin buffer
    BY <1>5 DEF Before
  <2>3. ASSUME NEW c \in due, n \in c PROVE n \in b
    BY <1>4, <1>5, <2>3 DEF Before
  <2> QED BY <2>1, <2>2, <2>3
<1>7. SealedInOrder'
  BY <1>1 DEF OrderInv, SealedInOrder
<1>8. NothingForgotten'
  BY <1>0, <1>1, <1>2 DEF OrderInv, NothingForgotten
<1>9. CursorsInOutbox' /\ ObservedInOrder'
  BY <1>1, <1>2 DEF OrderInv, CursorsInOutbox, ObservedInOrder
<1> QED BY <1>6, <1>7, <1>8, <1>9 DEF OrderInv

(* A restart rebuilds the buffer from all that was observed and is in no   *)
(* row: mail up to the cursor is in one. *)
LEMMA RebatchKeepsOrder ==
    ASSUME TypeInv, BatchingInv, OrderInv, RestartFits, Rebatch
    PROVE  OrderInv'
<1>1. /\ buffer' = Unbatched \ UNION SealedBatches(Unbatched) /\ pc = "recover" /\ pc' = "head"
      /\ UNCHANGED <<cursor, baseline, sourceEvents, inbox, cursorId, due, batchState>>
  BY DEF Rebatch, storeVars, mailVars
<1>2. Outbox' = Outbox /\ (\A m : Covered(m)' <=> Covered(m)) /\ due = {}
  BY <1>1, SameOutbox DEF Covered, BatchingInv, DueIsEnqueuing
<1>3. buffer' = Unbatched
  BY <1>1 DEF RestartFits
<1>4. ASSUME NEW m \in sourceEvents, ~Covered(m)
      PROVE  m \in Unbatched
  <2>1. ~(m <= cursorId)
    BY <1>4, CursorCoversObserved DEF TypeInv
  <2>2. m \in Int /\ cursorId \in Int
    BY DEF TypeInv, TypeOK, StoreTypeOK, MessageIds
  <2> QED BY <1>4, <2>1, <2>2 DEF Unbatched
<1>5. NothingForgotten'
  BY <1>1, <1>2, <1>3, <1>4 DEF NothingForgotten
<1> QED BY <1>1, <1>2, <1>5 DEF OrderInv, ObservedInOrder, OutboxInOrder, SealedInOrder,
                                CursorsInOutbox

LEMMA OrderStep ==
    ASSUME TypeInv, BatchingInv, OrderInv, MailIsWhole, RestartFits, [Next]_vars
    PROVE  OrderInv'
<1>0. TypeOK
  BY DEF TypeInv
<1> USE DEF OrderInv, ObservedInOrder, OutboxInOrder, SealedInOrder, NothingForgotten,
            CursorsInOutbox
<1>1. CASE MailRests
  <2>1. \A m : Covered(m)' <=> Covered(m)
    BY <1>1 DEF MailRests, Covered
  <2> QED BY <1>1, <2>1 DEF MailRests
<1>2. CASE MailForgotten
  <2>1. \A m : Covered(m)' <=> Covered(m)
    BY <1>2 DEF MailForgotten, Covered
  <2> QED BY <1>2, <2>1 DEF MailForgotten
<1>3. CASE MailAccepted
  <2>1. PICK b \in Outbox : cursor' = Last(b) /\ cursorId' = Max({cursorId, Last(b)})
    BY <1>3 DEF MailAccepted
  <2>2. Covered(Last(b)) /\ cursorId' \in {cursorId, Last(b)}
    BY <1>0, <2>1, LaterCursor DEF Covered
  <2>3. \A m : Covered(m)' <=> Covered(m)
    BY <1>3 DEF MailAccepted, Covered
  <2> QED BY <1>3, <2>1, <2>2, <2>3 DEF MailAccepted
<1>4. CASE Start
  <2>1. /\ pc = "down" /\ pc' = "recover" /\ cursorId' = cursor'
        /\ UNCHANGED <<inbox, buffer, due, sourceEvents, batchState>>
        /\ \/ UNCHANGED <<cursor, baseline>>
           \/ sourceEvents = {} /\ cursor' = baseline'
    BY <1>4 DEF Start, SetBaseline, storeVars, mailVars
  <2>2. \A m : Covered(m)' <=> Covered(m)
    BY <2>1, SameOutbox DEF Covered
  <2> QED BY <2>1, <2>2
<1>5. CASE \E m \in MessageIds : MailArrives(m)
  <2>1. PICK m \in MessageIds : MailArrives(m)
    BY <1>5
  <2>2. /\ inbox = 1..(m - 1) /\ inbox' = inbox \cup {m} /\ m \in Int
        /\ UNCHANGED <<cursor, baseline, sourceEvents, cursorId, buffer, due, batchState, pc>>
    BY <2>1 DEF MailArrives, storeVars, memoryVars, MessageIds
  <2>3. \A n : Covered(n)' <=> Covered(n)
    BY <2>2, SameOutbox DEF Covered
  <2>4. \A n \in sourceEvents : ~(m < n)
    BY <2>2 DEF BatchingInv, AfterBaseline
  <2> QED BY <2>2, <2>3, <2>4
<1> HIDE DEF OrderInv
<1> QED BY <1>0, <1>1, <1>2, <1>3, <1>4, <1>5, MailMoves, RebatchKeepsOrder, PollKeepsOrder,
           EnqueueKeepsOrder

(* As long as every mail file is whole when it is read and no restart      *)
(* finds more unbatched mail than one batch carries, mail is carried in    *)
(* the order of its ids. *)
LEMMA OrderHolds == Spec /\ [](MailIsWhole /\ RestartFits) => [](TypeInv /\ BatchingInv /\ OrderInv)
<1>1. TypeInv /\ BatchingInv /\ OrderInv /\ MailIsWhole /\ RestartFits /\ [Next]_vars => OrderInv'
  BY OrderStep
<1> QED BY <1>1, BatchingHolds, OrderInit, PTL DEF Spec

LEMMA OrderLosesNothing ==
    ASSUME TypeInv, BatchingInv, OrderInv
    PROVE  NoMailLost
<1>0. TypeOK
  BY DEF TypeInv
<1> SUFFICES ASSUME NEW m \in inbox, baseline < m, m <= Max({cursor, cursorId})
             PROVE  Covered(m)
  BY DEF NoMailLost
<1>1. Max({cursor, cursorId}) \in {cursor, cursorId}
  <2>1. {cursor, cursorId} \in SUBSET (0..MaxMsg)
    BY <1>0 DEF TypeOK, StoreTypeOK
  <2> QED BY <2>1, BoundedMax
<1> QED BY <1>0, <1>1, CursorIsObserved, CursorCoversObserved

(* No mail is lost: under crashes, store, request and turn faults, a       *)
(* message after the baseline is in an outbox row before either cursor     *)
(* passes it. *)
THEOREM MailIsNotLost == Spec /\ [](MailIsWhole /\ RestartFits) => []NoMailLost
BY OrderHolds, OrderLosesNothing, PTL

-----------------------------------------------------------------------------
(* Where the hypotheses hold by the constants *)

LEMMA WholeStep ==
    ASSUME MailIsWhole, "unreadable" \notin FaultKinds, [Next]_vars
    PROVE  MailIsWhole'
<1> USE DEF MailIsWhole, mailVars
<1>1. CASE \E m \in MessageIds : MailArrives(m) \/ MailBecomesReadable(m)
  BY <1>1 DEF MailArrives, MailBecomesReadable, Fault
<1>2. CASE KernelStep
  BY <1>2 DEF KernelStep, Start, Replay, Rebatch, Settle, Poll, Enqueue, LoadOutbox, PassEnds,
     SkipOrQueue, BeginDelivery, EncodeOrMarkFails, DeliveryFails, SessionRemembers,
     SessionRefuses, ServerAccepts, ServerRefuses, Response, ResponseLost, Bind, BindFails,
     SettlingFails, BoundSettled
<1>3. CASE UNCHANGED vars
  BY <1>3 DEF vars
<1> QED BY <1>1, <1>2, <1>3 DEF Next, Environment, TurnCompletes, TurnFails, Notification,
        RetryDue, WindowEnds, ServerDies, Crash

(* A mailbox that fits into one batch is never cut by a restart. *)
LEMMA SmallMailboxFits ==
    ASSUME TypeOK, MaxMsg <= MaxBatch
    PROVE  RestartFits
<1>1. IsFiniteSet(MessageIds) /\ Cardinality(MessageIds) = MaxMsg
  <2>1. 1 \in Int /\ MaxMsg \in Int
    BY DomainAssumption
  <2>2. IsFiniteSet(1..MaxMsg) /\ Cardinality(1..MaxMsg) = IF 1 > MaxMsg THEN 0 ELSE MaxMsg - 1 + 1
    BY <2>1, FS_Interval
  <2> QED BY <2>2, DomainAssumption DEF MessageIds
<1>2. Unbatched \in SUBSET MessageIds
  BY DEF Unbatched, TypeOK, StoreTypeOK
<1>3. Cardinality(Unbatched) <= MaxMsg /\ Cardinality(Unbatched) \in Nat
  BY <1>1, <1>2, FS_Subset, FS_CardinalityType
<1>4. Cardinality(Unbatched) <= MaxBatch
  BY <1>3, DomainAssumption
<1> QED BY <1>2, <1>4, NothingSealedWithinCap DEF RestartFits

LEMMA CalmOrderHolds ==
    ASSUME "unreadable" \notin FaultKinds, MaxMsg <= MaxBatch
    PROVE  Spec => [](TypeInv /\ BatchingInv /\ OrderInv)
<1>1. Init => MailIsWhole
  BY DEF Init, MailIsWhole
<1>2. MailIsWhole /\ [Next]_vars => MailIsWhole'
  BY WholeStep
<1>3. TypeInv => RestartFits
  BY SmallMailboxFits DEF TypeInv
<1> QED BY <1>1, <1>2, <1>3, BatchingHolds, OrderHolds, PTL DEF Spec

(* Without half-written files, and while no more mail exists than one      *)
(* batch carries, nothing is lost whatever else fails. *)
THEOREM SmallMailboxLosesNothing ==
    ASSUME "unreadable" \notin FaultKinds, MaxMsg <= MaxBatch
    PROVE  Spec => []NoMailLost
BY CalmOrderHolds, OrderLosesNothing, PTL

-----------------------------------------------------------------------------
(* The recovery plan *)

LEMMA AcceptedWithinCursorUnlessRefused ==
    ASSUME TypeOK, ~Refuses, NEW b \in InState("accepted")
    PROVE  Last(b) <= cursor
<1> DEFINE ends == {Last(c) : c \in InState("accepted")} \cup {0}
<1>1. \A c \in InState("accepted") : Last(c) \in 0..MaxMsg
  BY BatchEndsAreIds DEF InState, MessageIds
<1>2. ends \in SUBSET (0..MaxMsg) /\ ends # {}
  BY <1>1, DomainAssumption
<1>3. Max(ends) \in 0..MaxMsg /\ Max(ends) >= Last(b)
  <2>1. Last(b) \in ends
    OBVIOUS
  <2> HIDE DEF ends
  <2> QED BY <1>2, <2>1, BoundedMax, DomainAssumption
<1>4. ~(Max(ends) > cursor)
  BY DEF Refuses, AcceptanceWithoutCursor, MaxAcceptedCursor
<1>5. cursor \in Int /\ Last(b) \in Int
  BY <1>1 DEF TypeOK, StoreTypeOK
<1> HIDE DEF ends
<1> QED BY <1>3, <1>4, <1>5

LEMMA OrderMakesPlanComplete ==
    ASSUME TypeOK, BatchingInv, OrderInv
    PROVE  PlanIsComplete
<1> SUFFICES ASSUME ~Refuses
             PROVE  /\ \A m \in ToRebatch : \A b \in Outbox : m \notin b
                    /\ \A m \in sourceEvents : m > cursor =>
                         m \in ToRebatch \/ \E b \in Deliver \cup ReplayAmbiguous \cup RetainedDeadLetters : m \in b
  BY DEF PlanIsComplete
<1>1. ASSUME NEW m \in ToRebatch, NEW b \in Outbox, m \in b
      PROVE  FALSE
  <2>1. b \in Batches /\ First(b) \in Int /\ Last(b) \in Int /\ m \in Int
    BY <1>1, BatchEndsAreIds DEF Outbox, Batches, MessageIds
  <2>2. m \in First(b)..Last(b)
    BY <1>1, <2>1, BatchWithinEnds
  <2> QED BY <1>1, <2>2 DEF ToRebatch, CoveredByRange, RangeOf
<1>2. ASSUME NEW m \in sourceEvents, m > cursor, m \notin ToRebatch
      PROVE  \E b \in Deliver \cup ReplayAmbiguous \cup RetainedDeadLetters : m \in b
  <2>1. PICK b \in Outbox : m \in First(b)..Last(b)
    BY <1>2 DEF ToRebatch, CoveredByRange, RangeOf
  <2>2. Last(b) \in b /\ Last(b) \in Int /\ Covered(Last(b)) /\ Last(b) \in sourceEvents
    <3>1. b \in Batches
      BY DEF Outbox
    <3>2. Last(b) \in b /\ Last(b) \in Int
      BY <3>1, BatchEnds, BatchEndsAreIds DEF MessageIds
    <3> QED BY <3>2 DEF Covered, BatchingInv, BatchedWasObserved
  <2>3. m \in Int /\ m <= Last(b)
    BY <2>1
  <2>4. Covered(m)
    BY <2>2, <2>3 DEF OrderInv, OutboxInOrder
  <2>5. PICK c \in Outbox : m \in c
    BY <2>4 DEF Covered
  <2>6. c \in Batches /\ batchState[c] \in BatchStates /\ batchState[c] # "absent"
    BY DEF Outbox, TypeOK, StoreTypeOK
  <2>7. batchState[c] # "accepted"
    <3> SUFFICES ASSUME c \in InState("accepted") PROVE FALSE
      BY <2>6 DEF InState
    <3>1. Last(c) <= cursor
      BY AcceptedWithinCursorUnlessRefused
    <3>2. m <= Last(c) /\ Last(c) \in Int /\ cursor \in Int
      BY <2>5, <2>6, BatchWithinEnds, BatchEndsAreIds DEF MessageIds, TypeOK, StoreTypeOK
    <3> QED BY <1>2, <2>3, <3>1, <3>2
  <2> QED BY <2>5, <2>6, <2>7 DEF BatchStates, InState, Deliver, ReplayAmbiguous, RetainedDeadLetters
<1> QED BY <1>1, <1>2

(* The recovery plan for any durable state the kernel leaves behind leaves *)
(* out no observed mail and puts none into a second batch. *)
THEOREM RecoveryPlanCompletes == Spec /\ [](MailIsWhole /\ RestartFits) => []PlanIsComplete
<1>1. TypeInv /\ BatchingInv /\ OrderInv => PlanIsComplete
  BY OrderMakesPlanComplete DEF TypeInv
<1> QED BY <1>1, OrderHolds, PTL
=============================================================================
