------------------------- MODULE IngressKernelProof -------------------------
(***************************************************************************)
(* The kernel: type correctness, and what its outbox keeps, for every      *)
(* mailbox bound, batch cap, number of turns, attempt limit and choice of  *)
(* faults.  First the facts of IngressDomain that all the proofs share     *)
(* (which of its choices exist, that the batcher seals batches).           *)
(* Acceptance is never invented: the turn that an acceptance names reaches *)
(* the row through the answer in flight, the idempotency map and the       *)
(* delivering row, and AcceptanceInv follows it through all of them.       *)
(* Write-ahead, finality and the steering rule are what a step may never   *)
(* do, from the agreement of the outbox with the pass in memory            *)
(* (DeliveryInv).                                                          *)
(***************************************************************************)
EXTENDS IngressInvariant, TLAPS, FiniteSetTheorems, WellFoundedInduction

-----------------------------------------------------------------------------
(* Facts about the operators of IngressDomain *)

(* A nonempty set of natural numbers has a least element. *)
LEMMA NatMin ==
    ASSUME NEW S \in SUBSET Nat, S # {}
    PROVE  Min(S) \in S /\ \A y \in S : Min(S) <= y
<1> DEFINE Less == {p \in Nat \X Nat : p[1] < p[2]}
<1>1. IsWellFoundedOn(Less, Nat)
  BY NatLessThanWellFounded DEF OpToRel
<1>2. \A x, y \in Nat : y < x => <<y, x>> \in Less
  OBVIOUS
<1> HIDE DEF Less
<1>3. PICK x \in S : \A y \in S : ~(<<y, x>> \in Less)
  BY <1>1, WFMin
<1>4. ASSUME NEW y \in S PROVE x <= y
  <2>1. ~(y < x)
    BY <1>2, <1>3
  <2> QED BY <2>1
<1>5. \A y \in S : x <= y
  BY <1>4
<1> QED BY <1>5 DEF Min

(* A nonempty set of naturals below a bound has a greatest element. *)
LEMMA BoundedMax ==
    ASSUME NEW n \in Nat, NEW S \in SUBSET (0..n), S # {}
    PROVE  Max(S) \in S /\ \A y \in S : Max(S) >= y
<1> DEFINE Down == {n - x : x \in S}
<1>1. Down \in SUBSET Nat
  BY SMT
<1>2. Down # {}
  BY Zenon
<1>3. Min(Down) \in Down /\ \A y \in Down : Min(Down) <= y
  BY <1>1, <1>2, NatMin
<1>4. PICK x \in S : Min(Down) = n - x
  BY <1>3
<1>5. \A y \in S : x >= y
  BY <1>3, <1>4
<1> QED BY <1>4, <1>5 DEF Max

(* The first and the last id of a batch are ids of the batch. *)
LEMMA BatchEnds ==
    ASSUME NEW b \in Batches
    PROVE  First(b) \in b /\ Last(b) \in b
<1>1. b \in SUBSET Nat /\ b \in SUBSET (0..MaxMsg) /\ b # {}
  BY DomainAssumption DEF Batches, MessageIds, NoBatch
<1>2. First(b) \in b
  BY <1>1, NatMin DEF First
<1>3. Last(b) \in b
  BY <1>1, BoundedMax, DomainAssumption DEF Last
<1> QED BY <1>2, <1>3

LEMMA BatchEndsAreIds ==
    ASSUME NEW b \in Batches
    PROVE  First(b) \in MessageIds /\ Last(b) \in MessageIds
BY BatchEnds DEF Batches

(* Every id of a batch lies between its first and its last. *)
LEMMA BatchWithinEnds ==
    ASSUME NEW b \in Batches, NEW m \in b
    PROVE  First(b) <= m /\ m <= Last(b)
<1>1. b \in SUBSET Nat /\ b \in SUBSET (0..MaxMsg) /\ b # {}
  BY DomainAssumption DEF Batches, MessageIds, NoBatch
<1>2. First(b) <= m
  BY <1>1, NatMin DEF First
<1>3. m <= Last(b)
  <2>1. Last(b) \in b /\ Last(b) >= m
    BY <1>1, BoundedMax, DomainAssumption DEF Last
  <2> QED BY <1>1, <2>1
<1> QED BY <1>2, <1>3

(* A nonempty set of batches has an earliest one: the choice the outbox    *)
(* order makes exists. *)
LEMMA EarliestExists ==
    ASSUME NEW bs \in SUBSET Batches, bs # {}
    PROVE  Earliest(bs) \in bs /\ \A c \in bs : First(Earliest(bs)) <= First(c)
<1> DEFINE Firsts == {First(b) : b \in bs}
<1>1. \A b \in bs : First(b) \in Nat
  BY BatchEndsAreIds DEF MessageIds
<1>2. Firsts \in SUBSET Nat
  BY <1>1
<1>3. Firsts # {}
  BY Zenon
<1>4. Min(Firsts) \in Firsts /\ \A y \in Firsts : Min(Firsts) <= y
  BY <1>2, <1>3, NatMin
<1>5. PICK b \in bs : Min(Firsts) = First(b)
  BY <1>4
<1>6. \A c \in bs : First(b) <= First(c)
  BY <1>4, <1>5
<1> QED BY <1>6 DEF Earliest

LEMMA EarliestEndingExists ==
    ASSUME NEW bs \in SUBSET Batches, bs # {}
    PROVE  EarliestEnding(bs) \in bs
<1> DEFINE Lasts == {Last(b) : b \in bs}
<1>1. \A b \in bs : Last(b) \in Nat
  BY BatchEndsAreIds DEF MessageIds
<1>2. Lasts \in SUBSET Nat
  BY <1>1
<1>3. Lasts # {}
  BY Zenon
<1>4. Min(Lasts) \in Lasts /\ \A y \in Lasts : Min(Lasts) <= y
  BY <1>2, <1>3, NatMin
<1>5. PICK b \in bs : Min(Lasts) = Last(b)
  BY <1>4
<1>6. \A c \in bs : Last(b) <= Last(c)
  BY <1>4, <1>5
<1> QED BY <1>6 DEF EarliestEnding

(* Everything the batcher seals out of a buffer is a batch of that         *)
(* buffer's messages. *)
LEMMA SealedAreBatches ==
    ASSUME NEW S \in SUBSET MessageIds
    PROVE  SealedBatches(S) \in SUBSET Batches
<1> SUFFICES ASSUME NEW b \in SealedBatches(S)
             PROVE  b \in Batches
  OBVIOUS
<1>1. PICK m \in S : b = {x \in S : PieceOf(x, S) = PieceOf(m, S)}
  BY DEF SealedBatches
<1>2. m \in b
  BY <1>1
<1> QED BY <1>1, <1>2 DEF Batches, NoBatch

-----------------------------------------------------------------------------
(* The batcher cuts a buffer into consecutive pieces *)

(* Sealed batches are parts of the buffer, and no two share a message. *)
LEMMA SealedAreParts ==
    ASSUME NEW S
    PROVE  /\ \A b \in SealedBatches(S) : b \subseteq S
           /\ \A b, c \in SealedBatches(S) : b # c => b \cap c = {}
<1>1. \A b \in SealedBatches(S) : \E m \in S : b = {x \in S : PieceOf(x, S) = PieceOf(m, S)}
  BY DEF SealedBatches
<1>2. ASSUME NEW b \in SealedBatches(S), NEW c \in SealedBatches(S), b \cap c # {}
      PROVE  b = c
  <2>1. PICK m \in S : b = {x \in S : PieceOf(x, S) = PieceOf(m, S)}
    BY <1>1
  <2>2. PICK n \in S : c = {x \in S : PieceOf(x, S) = PieceOf(n, S)}
    BY <1>1
  <2>3. PieceOf(m, S) = PieceOf(n, S)
    BY <1>2, <2>1, <2>2
  <2> QED BY <2>1, <2>2, <2>3
<1> QED BY <1>1, <1>2

LEMMA QuotientsGrow ==
    ASSUME NEW d \in Nat \ {0}, NEW i \in Nat, NEW j \in Nat, i <= j
    PROVE  (i - 1) \div d <= (j - 1) \div d
OBVIOUS

(* A later message never lies in an earlier piece. *)
LEMMA PiecesGrow ==
    ASSUME NEW S \in SUBSET MessageIds, NEW x \in S, NEW y \in S, x <= y
    PROVE  /\ PieceOf(x, S) \in Int /\ PieceOf(y, S) \in Int
           /\ PieceOf(x, S) <= PieceOf(y, S)
<1> DEFINE upTo(m) == {z \in S : z <= m}
<1>1. IsFiniteSet(MessageIds)
  BY DomainAssumption, FS_Interval DEF MessageIds
<1>2. IsFiniteSet(upTo(x)) /\ IsFiniteSet(upTo(y))
  BY <1>1, FS_Subset
<1>3. upTo(x) \subseteq upTo(y)
  <2>1. \A z \in S : z \in Int
    BY DEF MessageIds
  <2>2. \A z \in S : z <= x => z <= y
    BY <2>1
  <2> QED BY <2>2
<1>4. /\ Cardinality(upTo(x)) \in Nat /\ Cardinality(upTo(y)) \in Nat
      /\ Cardinality(upTo(x)) <= Cardinality(upTo(y))
  BY <1>2, <1>3, FS_Subset, FS_CardinalityType
<1> QED BY <1>4, QuotientsGrow, DomainAssumption DEF PieceOf

(* The pieces come in the order of the ids, and what stays in the buffer   *)
(* comes after everything that was sealed. *)
LEMMA SealedAreOrdered ==
    ASSUME NEW S \in SUBSET MessageIds, NEW b \in SealedBatches(S)
    PROVE  /\ \A x \in b, y \in S \ UNION SealedBatches(S) : x < y
           /\ \A c \in SealedBatches(S) :
                 \/ b = c
                 \/ \A x \in b, y \in c : x < y
                 \/ \A x \in b, y \in c : y < x
<1> DEFINE P(m) == PieceOf(m, S)
<1>1. \A x, y \in S : P(x) \in Int /\ P(y) \in Int /\ (P(x) < P(y) => x < y)
  <2> SUFFICES ASSUME NEW x \in S, NEW y \in S
               PROVE  P(x) \in Int /\ P(y) \in Int /\ (P(x) < P(y) => x < y)
    OBVIOUS
  <2>1. x \in Int /\ y \in Int
    BY DEF MessageIds
  <2>2. CASE x <= y
    <3>1. P(x) \in Int /\ P(y) \in Int /\ P(x) <= P(y)
      BY <2>2, PiecesGrow
    <3>2. x = y => P(x) = P(y)
      OBVIOUS
    <3> QED BY <2>1, <2>2, <3>1, <3>2
  <2>3. CASE y <= x
    <3>1. P(x) \in Int /\ P(y) \in Int /\ P(y) <= P(x)
      BY <2>3, PiecesGrow
    <3> QED BY <3>1
  <2> QED BY <2>1, <2>2, <2>3
<1>2. SealedBatches(S) = { {x \in S : P(x) = P(m)} : m \in {y \in S : \E z \in S : P(y) < P(z)} }
  BY DEF SealedBatches
<1> HIDE DEF P
<1>3. PICK m \in S : (\E z \in S : P(m) < P(z)) /\ b = {x \in S : P(x) = P(m)}
  BY <1>2
<1>4. ASSUME NEW x \in b, NEW y \in S \ UNION SealedBatches(S)
      PROVE  x < y
  <2>1. PICK z \in S : P(m) < P(z)
    BY <1>3
  <2>2. ~(P(y) < P(z))
    BY <1>2, <1>4
  <2>3. P(x) = P(m) /\ x \in S
    BY <1>3
  <2>4. P(x) < P(y)
    BY <1>1, <2>1, <2>2, <2>3
  <2> QED BY <1>1, <2>3, <2>4
<1>5. ASSUME NEW c \in SealedBatches(S), b # c
      PROVE  (\A x \in b, y \in c : x < y) \/ (\A x \in b, y \in c : y < x)
  <2>1. PICK n \in S : c = {x \in S : P(x) = P(n)}
    BY <1>2, <1>5
  <2>2. P(m) # P(n)
    BY <1>3, <1>5, <2>1
  <2>3. P(m) < P(n) \/ P(n) < P(m)
    BY <1>1, <2>2
  <2> QED BY <1>1, <1>3, <2>1, <2>3
<1> QED BY <1>4, <1>5

(* A buffer within the cap seals nothing. *)
LEMMA NothingSealedWithinCap ==
    ASSUME NEW S \in SUBSET MessageIds, Cardinality(S) <= MaxBatch
    PROVE  SealedBatches(S) = {}
<1>1. IsFiniteSet(S)
  <2>1. IsFiniteSet(MessageIds)
    BY DomainAssumption, FS_Interval DEF MessageIds
  <2> QED BY <2>1, FS_Subset
<1>2. ASSUME NEW m \in S PROVE PieceOf(m, S) = 0
  <2> DEFINE upTo == {x \in S : x <= m}
  <2>1. IsFiniteSet(upTo) /\ Cardinality(upTo) \in Nat /\ Cardinality(upTo) <= Cardinality(S)
        /\ Cardinality(S) \in Nat
    BY <1>1, FS_Subset, FS_CardinalityType
  <2>2. m \in upTo
    BY DEF MessageIds
  <2>3. Cardinality(upTo) # 0
    BY <2>1, <2>2, FS_EmptySet
  <2>4. Cardinality(upTo) - 1 \in 0..(MaxBatch - 1)
    BY <2>1, <2>3, DomainAssumption
  <2>5. \A i \in 0..(MaxBatch - 1) : i \div MaxBatch = 0
    BY DomainAssumption
  <2> QED BY <2>4, <2>5 DEF PieceOf
<1>3. \A y, z \in S : ~(PieceOf(y, S) < PieceOf(z, S))
  BY <1>2
<1> QED BY <1>3 DEF SealedBatches

USE DomainAssumption, TurnAssumption, KernelAssumption

-----------------------------------------------------------------------------
(* Type correctness *)

(* The ids the mailbox offers, and the baseline drawn from them, are ids. *)
LEMMA ReadAfterIds ==
    ASSUME TypeOK, NEW c
    PROVE  ReadAfter(c) \in SUBSET MessageIds
BY DEF ReadAfter, TypeOK

LEMMA BaselineIsId ==
    ASSUME TypeOK
    PROVE  BaselineId \in 0..MaxMsg
<1>1. CASE ReadAfter(0) = {}
  BY <1>1 DEF BaselineId
<1>2. CASE ReadAfter(0) # {}
  <2>1. ReadAfter(0) \in SUBSET (0..MaxMsg)
    BY ReadAfterIds DEF MessageIds
  <2>2. Max(ReadAfter(0)) \in ReadAfter(0)
    BY <1>2, <2>1, BoundedMax
  <2> QED BY <1>2, <2>1, <2>2 DEF BaselineId
<1> QED BY <1>1, <1>2

LEMMA TypeInit == Init => TypeInv
<1> SUFFICES ASSUME Init PROVE TypeInv
  OBVIOUS
<1> USE DEF Init, StoreInit, ThreadInit
<1>1. StoreTypeOK
  <2>1. /\ batchState \in [Batches -> BatchStates]
        /\ acceptedTurn \in [Batches -> TurnIds \cup {NoTurn}]
    BY DEF BatchStates
  <2>2. /\ cursor \in 0..MaxMsg /\ baseline \in 0..MaxMsg
        /\ sourceEvents \subseteq MessageIds /\ backoff \subseteq Batches
    OBVIOUS
  <2> QED BY <2>1, <2>2 DEF StoreTypeOK
<1>2. ThreadTypeOK
  <2>1. /\ turnState \in [TurnIds -> TurnStates]
        /\ idempotency \in [Batches -> TurnIds \cup {NoTurn}]
    BY DEF TurnStates, NoIdempotency
  <2>2. turnInput \in [TurnIds -> Seq(Batches)]
    OBVIOUS
  <2> QED BY <2>1, <2>2 DEF ThreadTypeOK
<1>3. attempts \in [Batches -> 0..MaxAttempts]
  BY DEF NoAttempts
<1>4. /\ cursorId \in 0..MaxMsg /\ faults \in 0..MaxFault
      /\ method \in Methods /\ turnId \in TurnIds \cup {NoTurn}
      /\ current \in Batches \cup {NoBatch}
      /\ pc = "down" /\ stopReason = "none"
  BY DEF Methods
<1>5. /\ inbox = {} /\ unreadable = {} /\ eventIndex = {} /\ buffer = {}
      /\ due = {} /\ todo = {} /\ windowOver = FALSE
  OBVIOUS
<1> HIDE DEF Init, StoreInit, ThreadInit
<1>6. TypeOK
  BY <1>1, <1>2, <1>3, <1>4, <1>5 DEF TypeOK
<1> QED BY <1>4, <1>5, <1>6 DEF TypeInv, MemoryInv

(* Each transaction of the store keeps the rows well typed. *)
LEMMA TransitionTyped ==
    ASSUME StoreTypeOK, NEW b \in Batches, NEW from, NEW to \in BatchStates,
           NEW turn \in TurnIds \cup {NoTurn}, NEW wait \in BOOLEAN,
           TransitionBatch(b, from, to, turn, wait)
    PROVE  StoreTypeOK'
BY DEF StoreTypeOK, TransitionBatch

LEMMA DeadLetterTyped ==
    ASSUME StoreTypeOK, NEW b, DeadLetter(b)
    PROVE  StoreTypeOK'
BY DEF StoreTypeOK, DeadLetter, BatchStates

LEMMA AcceptTyped ==
    ASSUME StoreTypeOK, NEW b \in Batches, NEW turn \in TurnIds, AcceptBatch(b, turn)
    PROVE  StoreTypeOK'
<1>1. Last(b) \in 0..MaxMsg
  BY BatchEndsAreIds DEF MessageIds
<1> QED BY <1>1 DEF StoreTypeOK, AcceptBatch, BatchStates

LEMMA Zeroed ==
    ASSUME attempts \in [Batches -> 0..MaxAttempts], NEW b \in Batches,
           attempts' = [attempts EXCEPT ![b] = 0]
    PROVE  attempts' \in [Batches -> 0..MaxAttempts]
OBVIOUS

(* The counts a failed settling leaves stay within their limit. *)
LEMMA SettlingCounts ==
    ASSUME TypeOK, Settleable # {}
    PROVE  CountsOfSettling \subseteq [Batches -> 0..MaxAttempts]
<1> DEFINE b == EarliestEnding(InFlight(Min(Settleable)))
<1>1. attempts \in [Batches -> 0..MaxAttempts]
  BY DEF TypeOK
<1> SUFFICES ASSUME NEW counts \in CountsOfSettling
             PROVE  counts \in [Batches -> 0..MaxAttempts]
  OBVIOUS
<1>2. CASE b \in Batches
  <2>1. \/ counts = attempts
        \/ \E n \in {k \in {0, attempts[b] + 1} : k <= MaxAttempts} :
              counts = [attempts EXCEPT ![b] = n]
    BY DEF CountsOfSettling
  <2>2. {k \in {0, attempts[b] + 1} : k <= MaxAttempts} \subseteq 0..MaxAttempts
    BY <1>1, <1>2, KernelAssumption
  <2> QED BY <1>1, <2>1, <2>2
<1>3. CASE b \notin Batches
  BY <1>1, <1>3 DEF CountsOfSettling
<1> QED BY <1>2, <1>3

(* A failed delivery leaves the row and its attempt count well typed. *)
LEMMA RetryTyped ==
    ASSUME StoreTypeOK, NEW counts \in [Batches -> 0..MaxAttempts],
           NEW b \in Batches, NEW permanent, RetryOrDeadLetter(counts, b, permanent)
    PROVE  StoreTypeOK' /\ attempts' \in [Batches -> 0..MaxAttempts]
<1>1. CASE /\ ~GivesUp(counts[b], permanent)
           /\ TransitionBatch(b, "delivering", "pending", NoTurn, TRUE)
           /\ attempts' = [counts EXCEPT ![b] = @ + 1]
  <2>1. StoreTypeOK'
    BY <1>1, TransitionTyped DEF BatchStates
  <2>2. counts[b] # MaxAttempts
    BY <1>1 DEF GivesUp
  <2> QED BY <1>1, <2>1, <2>2
<1>2. CASE /\ MayGiveUp(counts[b], permanent)
           /\ DeadLetter(b)
           /\ attempts' = [counts EXCEPT ![b] = 0]
  <2>1. StoreTypeOK'
    BY <1>2, DeadLetterTyped
  <2> QED BY <1>2, <2>1
<1> QED BY <1>1, <1>2 DEF RetryOrDeadLetter

(* A stopped process has forgotten everything in memory. *)
LEMMA StopTyped ==
    ASSUME ThreadTypeOK, NEW reason \in {"none", "crash", "error"}, Stop(reason)
    PROVE  /\ ThreadTypeOK'
           /\ MemoryInv'
           /\ pc' = "down" /\ stopReason' = reason
           /\ cursorId' \in 0..MaxMsg
           /\ eventIndex' = {} /\ buffer' = {} /\ due' = {} /\ todo' = {}
           /\ windowOver' = FALSE
           /\ current' = NoBatch /\ method' = "none" /\ turnId' = NoTurn
           /\ attempts' \in [Batches -> 0..MaxAttempts]
<1>1. ThreadTypeOK'
  <2>1. turnState' \in [TurnIds -> TurnStates]
    BY DEF Stop, SessionCloses, Interrupted, ThreadTypeOK, TurnStates
  <2>2. /\ terminals' \subseteq TurnIds
        /\ idempotency' \in [Batches -> TurnIds \cup {NoTurn}]
        /\ sessionTurn' = NoTurn
        /\ turnInput' \in [TurnIds -> Seq(Batches)]
    BY DEF Stop, SessionCloses, ThreadTypeOK, NoIdempotency
  <2>3. serverUp' = FALSE
    BY DEF Stop, SessionCloses
  <2> QED BY <2>1, <2>2, <2>3 DEF ThreadTypeOK
<1>2. attempts' \in [Batches -> 0..MaxAttempts]
  BY DEF Stop, NoAttempts
<1> QED BY <1>1, <1>2 DEF Stop, CallEnds, MemoryInv

(* A failed delivery attempt ends the call, or the run, and keeps the types. *)
LEMMA DeliveryFailsTyped ==
    ASSUME TypeInv, NEW counts \in [Batches -> 0..MaxAttempts], NEW b \in Batches,
           NEW permanent, DeliveryFails(counts, b, permanent),
           pc \in {"deliver", "calling", "answered", "binding", "bound"},
           faults' \in 0..MaxFault
    PROVE  TypeInv'
<1> USE DEF TypeInv, TypeOK
<1>1. inbox' \subseteq MessageIds /\ unreadable' \subseteq MessageIds
  BY DEF DeliveryFails, mailVars
<1>2. CASE /\ RetryOrDeadLetter(counts, b, permanent)
           /\ todo' = todo \ {b}
           /\ CallEnds
           /\ pc' = "deliver"
           /\ UNCHANGED <<threadVars, cursorId, eventIndex, buffer, windowOver, due, stopReason>>
  <2>1. StoreTypeOK' /\ attempts' \in [Batches -> 0..MaxAttempts]
    BY <1>2, RetryTyped
  <2>2. ThreadTypeOK'
    BY <1>2 DEF threadVars, ThreadTypeOK
  <2>3. /\ pc' = "deliver" /\ current' = NoBatch /\ method' = "none" /\ turnId' = NoTurn
        /\ todo' \subseteq todo
        /\ UNCHANGED <<cursorId, eventIndex, buffer, windowOver, due, stopReason>>
    BY <1>2 DEF CallEnds
  <2> QED BY <1>1, <2>1, <2>2, <2>3 DEF Methods, MemoryInv
<1>3. CASE Stop("error") /\ UNCHANGED storeVars
  <2>1. StoreTypeOK'
    BY <1>3 DEF StoreTypeOK, storeVars
  <2> QED BY <1>1, <1>3, <2>1, StopTyped DEF Methods
<1> QED BY <1>2, <1>3 DEF DeliveryFails

(* Settling a turn accepts or retries one of its batches. *)
LEMMA InFlightChoice ==
    ASSUME NEW t, InFlight(t) # {}
    PROVE  EarliestEnding(InFlight(t)) \in InFlight(t) /\ EarliestEnding(InFlight(t)) \in Batches
<1>1. InFlight(t) \in SUBSET Batches
  BY DEF InFlight, InState
<1> QED BY <1>1, EarliestEndingExists

LEMMA SettleableTurn ==
    ASSUME ThreadTypeOK, Settleable # {}
    PROVE  Min(Settleable) \in Settleable /\ Min(Settleable) \in TurnIds
<1>1. Settleable \in SUBSET TurnIds
  BY DEF Settleable, ThreadTypeOK
<1>2. Settleable \in SUBSET Nat
  BY <1>1 DEF TurnIds
<1> QED BY <1>1, <1>2, NatMin

LEMMA NextTodoIsBatch ==
    ASSUME TypeOK, todo # {}
    PROVE  NextTodo \in todo /\ NextTodo \in Batches
<1>1. todo \in SUBSET Batches
  BY DEF TypeOK
<1> QED BY <1>1, EarliestExists DEF NextTodo

LEMMA SettleTyped ==
    ASSUME TypeInv, Settle
    PROVE  TypeInv'
<1> USE DEF TypeInv, TypeOK
<1> DEFINE t == Min(Settleable)
           b == EarliestEnding(InFlight(t))
<1>1. t \in Settleable /\ t \in TurnIds
  BY SettleableTurn DEF Settle
<1>2. b \in Batches
  BY <1>1, InFlightChoice DEF Settleable
<1>3. /\ StoreTypeOK' /\ attempts' \in [Batches -> 0..MaxAttempts]
      /\ cursorId' \in 0..MaxMsg /\ eventIndex' \subseteq MessageIds
  <2>1. CASE SettleCompleted(t)
    <3> DEFINE both == {cursorId, Last(b)}
    <3>1. both \in SUBSET (0..MaxMsg) /\ both # {}
      BY <1>2, BatchEndsAreIds DEF MessageIds
    <3>2. Max(both) \in both
      BY <3>1, BoundedMax
    <3>3. cursorId' = Max(both)
      BY <2>1 DEF SettleCompleted
    <3>4. StoreTypeOK'
      BY <1>1, <1>2, <2>1, AcceptTyped DEF SettleCompleted
    <3>5. attempts' \in [Batches -> 0..MaxAttempts]
      BY <2>1, Zeroed DEF SettleCompleted
    <3>6. eventIndex' \subseteq eventIndex
      BY <2>1 DEF SettleCompleted
    <3>7. cursorId' \in 0..MaxMsg
      BY <3>1, <3>2, <3>3
    <3> QED BY <3>4, <3>5, <3>6, <3>7
  <2>2. CASE SettleFailed(t)
    <3>1. StoreTypeOK' /\ attempts' \in [Batches -> 0..MaxAttempts]
      BY <1>2, <2>2, RetryTyped DEF SettleFailed
    <3> QED BY <2>2, <3>1 DEF SettleFailed
  <2> QED BY <2>1, <2>2 DEF Settle
<1>4. ThreadTypeOK'
  BY DEF Settle, threadVars, ThreadTypeOK
<1>5. UNCHANGED <<mailVars, buffer, windowOver, due, todo, callVars, pc, stopReason, faults>>
  BY DEF Settle
<1> HIDE DEF t, b
<1> QED BY <1>3, <1>4, <1>5 DEF MemoryInv, mailVars, callVars, Methods

LEMMA PollTyped ==
    ASSUME TypeInv, Poll
    PROVE  TypeInv'
<1> USE DEF TypeInv, TypeOK, MemoryInv
<1> DEFINE new    == ReadAfter(cursorId) \ eventIndex
           kept   == IF windowOver THEN {} ELSE buffer
           sealed == SealedBatches(kept \cup new)
<1>1. new \in SUBSET MessageIds /\ kept \in SUBSET MessageIds
  BY ReadAfterIds
<1>2. sealed \in SUBSET Batches
  BY <1>1, SealedAreBatches
<1>3. windowOver => buffer \in Batches
  BY DEF Batches, NoBatch
<1> HIDE DEF new, kept, sealed
<1>4. /\ due' = sealed \cup (IF windowOver THEN {buffer} ELSE {})
      /\ buffer' = (kept \cup new) \ UNION sealed
      /\ eventIndex' = eventIndex \cup new
      /\ sourceEvents' = sourceEvents \cup new
      /\ windowOver' = FALSE /\ pc' = "enqueue"
      /\ UNCHANGED <<cursor, baselined, baseline, batchState, acceptedTurn, backoff>>
      /\ UNCHANGED <<threadVars, mailVars, cursorId, todo, callVars, attempts, stopReason,
                     faults>>
  BY DEF Poll, ObserveSourceEvents, new, kept, sealed
<1>5. due' \subseteq Batches /\ buffer' \subseteq MessageIds /\ eventIndex' \subseteq MessageIds
  BY <1>1, <1>2, <1>3, <1>4
<1>6. StoreTypeOK'
  BY <1>1, <1>4 DEF StoreTypeOK
<1>7. ThreadTypeOK'
  BY <1>4 DEF threadVars, ThreadTypeOK
<1> QED BY <1>4, <1>5, <1>6, <1>7 DEF mailVars, callVars, Methods

LEMMA CrashTyped ==
    ASSUME TypeInv, Crash
    PROVE  TypeInv'
<1>1. Stop("crash") /\ faults' \in 0..MaxFault /\ UNCHANGED <<storeVars, mailVars>>
  BY DEF Crash, Fault, TypeInv, TypeOK
<1>2. StoreTypeOK'
  BY <1>1 DEF TypeInv, TypeOK, StoreTypeOK, storeVars
<1>3. inbox' \subseteq MessageIds /\ unreadable' \subseteq MessageIds
  BY <1>1 DEF TypeInv, TypeOK, mailVars
<1> QED BY <1>1, <1>2, <1>3, StopTyped DEF TypeInv, TypeOK, Methods

LEMMA StartTyped ==
    ASSUME TypeInv, Start
    PROVE  TypeInv'
<1>1. StoreTypeOK'
  <2>1. CASE UNCHANGED storeVars
    BY <2>1 DEF TypeInv, TypeOK, StoreTypeOK, storeVars
  <2>2. CASE SetBaseline(BaselineId)
    BY <2>2, BaselineIsId DEF TypeInv, TypeOK, StoreTypeOK, SetBaseline
  <2> QED BY <2>1, <2>2 DEF Start
<1>2. ThreadTypeOK'
  <2>1. idempotency' \in [Batches -> TurnIds \cup {NoTurn}]
    BY DEF Start, SessionOpens, NoIdempotency
  <2>2. serverUp' = TRUE /\ sessionTurn' = NoTurn /\ UNCHANGED <<turnState, turnInput, terminals>>
    BY DEF Start, SessionOpens
  <2> QED BY <2>1, <2>2 DEF TypeInv, TypeOK, ThreadTypeOK
<1>3. /\ pc = "down" /\ pc' = "recover" /\ stopReason' = "none"
      /\ cursorId' = cursor' /\ eventIndex' = sourceEvents
      /\ UNCHANGED <<mailVars, buffer, windowOver, due, todo, callVars, attempts, faults>>
  BY DEF Start
<1>4. cursorId' \in 0..MaxMsg /\ eventIndex' \subseteq MessageIds
  BY <1>1, <1>3 DEF TypeInv, TypeOK, StoreTypeOK
<1> QED BY <1>1, <1>2, <1>3, <1>4 DEF TypeInv, TypeOK, MemoryInv, mailVars, callVars, Methods

LEMMA BeginDeliveryTyped ==
    ASSUME TypeInv, BeginDelivery
    PROVE  TypeInv'
<1>1. NextTodo \in Batches /\ pc = "deliver" /\ pc' = "calling" /\ current' = NextTodo
  BY NextTodoIsBatch DEF BeginDelivery, TypeInv
<1>2. StoreTypeOK'
  <2>1. acceptedTurn[NextTodo] \in TurnIds \cup {NoTurn}
    BY <1>1 DEF TypeInv, TypeOK, StoreTypeOK
  <2>2. TransitionBatch(NextTodo, "pending", "delivering", acceptedTurn[NextTodo], FALSE)
    BY DEF BeginDelivery
  <2> QED BY <1>1, <2>1, <2>2, TransitionTyped DEF TypeInv, TypeOK, BatchStates
<1>3. /\ method' \in Methods /\ turnId' = sessionTurn
      /\ UNCHANGED <<threadVars, mailVars, cursorId, eventIndex, buffer, windowOver, due, todo,
                     attempts, stopReason, faults>>
  BY DEF BeginDelivery, Methods
<1>4. ThreadTypeOK' /\ turnId' \in TurnIds \cup {NoTurn}
  BY <1>3 DEF TypeInv, TypeOK, ThreadTypeOK, threadVars
<1> QED BY <1>1, <1>2, <1>3, <1>4 DEF TypeInv, TypeOK, MemoryInv, mailVars

LEMMA EncodeOrMarkFailsTyped ==
    ASSUME TypeInv, EncodeOrMarkFails
    PROVE  TypeInv'
<1>1. NextTodo \in Batches
  BY NextTodoIsBatch DEF EncodeOrMarkFails, TypeInv
<1>2. faults' \in 0..MaxFault
  BY DEF EncodeOrMarkFails, Fault, TypeInv, TypeOK
<1>3. attempts \in [Batches -> 0..MaxAttempts]
  BY DEF TypeInv, TypeOK
<1> QED BY <1>1, <1>2, <1>3, DeliveryFailsTyped DEF EncodeOrMarkFails

LEMMA ServerAcceptsTyped ==
    ASSUME TypeInv, ServerAccepts
    PROVE  TypeInv'
<1>1. PICK t \in TurnIds :
         /\ \/ method = "turn/start" /\ ServerStartsTurn(t, current)
            \/ method = "turn/steer" /\ t = turnId /\ ServerSteersTurn(t, current)
         /\ turnId' = t
  BY DEF ServerAccepts
<1>2. current \in Batches
  BY DEF ServerAccepts, TypeInv, MemoryInv
<1>3. ThreadTypeOK'
  <2>1. CASE ServerStartsTurn(t, current)
    <3>1. turnInput' \in [TurnIds -> Seq(Batches)]
      BY <1>2, <2>1 DEF ServerStartsTurn, TypeInv, TypeOK, ThreadTypeOK
    <3>2. turnState' \in [TurnIds -> TurnStates]
      BY <2>1 DEF ServerStartsTurn, TypeInv, TypeOK, ThreadTypeOK, TurnStates
    <3> QED BY <2>1, <3>1, <3>2
            DEF ServerStartsTurn, TypeInv, TypeOK, ThreadTypeOK, sessionVars
  <2>2. CASE ServerSteersTurn(t, current)
    <3>1. turnInput' \in [TurnIds -> Seq(Batches)]
      BY <1>2, <2>2 DEF ServerSteersTurn, TypeInv, TypeOK, ThreadTypeOK
    <3> QED BY <2>2, <3>1 DEF ServerSteersTurn, TypeInv, TypeOK, ThreadTypeOK, sessionVars
  <2> QED BY <1>1, <2>1, <2>2
<1>4. /\ pc = "calling" /\ pc' = "answered" /\ turnId' \in TurnIds
      /\ UNCHANGED <<storeVars, mailVars, cursorId, eventIndex, buffer, windowOver, due, todo,
                     current, method, attempts, stopReason, faults>>
  BY <1>1 DEF ServerAccepts
<1>5. StoreTypeOK'
  BY <1>4 DEF TypeInv, TypeOK, StoreTypeOK, storeVars
<1> QED BY <1>2, <1>3, <1>4, <1>5 DEF TypeInv, TypeOK, MemoryInv, mailVars

(* Every step of the kernel, the mailbox, the app server and the clock     *)
(* preserves the type invariant. *)
LEMMA TypeStep == TypeInv /\ [Next]_vars => TypeInv'
<1> SUFFICES ASSUME TypeInv, [Next]_vars PROVE TypeInv'
  OBVIOUS
<1> USE DEF TypeInv, TypeOK, MemoryInv, StoreTypeOK, ThreadTypeOK, Methods,
            storeVars, threadVars, mailVars, memoryVars, callVars, sessionVars
<1>1. CASE Replay
  <2>1. Earliest(InState("delivering")) \in Batches
    <3>1. InState("delivering") \in SUBSET Batches /\ InState("delivering") # {}
      BY <1>1 DEF Replay, InState
    <3> QED BY <3>1, EarliestExists
  <2>2. StoreTypeOK'
    BY <1>1, <2>1, TransitionTyped DEF Replay, BatchStates
  <2> QED BY <1>1, <2>2 DEF Replay
<1>2. CASE Rebatch
  BY <1>2 DEF Rebatch, Unbatched
<1>3. CASE Enqueue
  BY <1>3 DEF Enqueue, EnqueueBatch, BatchStates
<1>4. CASE LoadOutbox
  BY <1>4 DEF LoadOutbox, InState
<1>5. CASE PassEnds
  BY <1>5 DEF PassEnds
<1>6. CASE SkipOrQueue
  BY <1>6 DEF SkipOrQueue
<1>7. CASE SessionRemembers
  BY <1>7 DEF SessionRemembers
<1>8. CASE SessionRefuses
  <2>1. faults' \in 0..MaxFault
    BY <1>8 DEF SessionRefuses
  <2> QED BY <1>8, <2>1, DeliveryFailsTyped DEF SessionRefuses
<1>9. CASE ServerRefuses
  <2>1. faults' \in 0..MaxFault
    BY <1>9 DEF ServerRefuses, Fault
  <2> QED BY <1>9, <2>1, DeliveryFailsTyped DEF ServerRefuses
<1>10. CASE ResponseLost
  <2>1. faults' \in 0..MaxFault
    BY <1>10 DEF ResponseLost, Fault
  <2> QED BY <1>10, <2>1, DeliveryFailsTyped DEF ResponseLost
<1>11. CASE BindFails
  <2>1. faults' \in 0..MaxFault
    BY <1>11 DEF BindFails, Fault
  <2> QED BY <1>11, <2>1, DeliveryFailsTyped DEF BindFails
<1>12. CASE Response
  BY <1>12 DEF Response, ResponseHandled
<1>13. CASE Bind
  <2>1. StoreTypeOK'
    BY <1>13, TransitionTyped DEF Bind, BatchStates
  <2> QED BY <1>13, <2>1 DEF Bind
<1>14. CASE BoundSettled
  BY <1>14 DEF BoundSettled, CallEnds
<1>15. CASE SettlingFails
  <2>1. faults' \in 0..MaxFault
    BY <1>15 DEF SettlingFails, Fault
  <2>2. CountsOfSettling \subseteq [Batches -> 0..MaxAttempts]
    BY <1>15, SettlingCounts DEF SettlingFails
  <2>3. PICK counts \in CountsOfSettling : DeliveryFails(counts, current, FALSE)
    BY <1>15 DEF SettlingFails
  <2> QED BY <1>15, <2>1, <2>2, <2>3, DeliveryFailsTyped DEF SettlingFails
<1>16. CASE WindowEnds
  BY <1>16 DEF WindowEnds
<1>17. CASE \E m \in MessageIds : MailArrives(m) \/ MailBecomesReadable(m)
  BY <1>17 DEF MailArrives, MailBecomesReadable, Fault
<1>18. CASE \E t \in TurnIds : TurnCompletes(t) \/ TurnFails(t)
  <2>1. PICK t \in TurnIds : TurnCompletes(t) \/ TurnFails(t)
    BY <1>18
  <2>2. turnState' \in [TurnIds -> TurnStates]
    BY <2>1 DEF TurnCompletes, TurnFails, TurnEnds, TurnStates
  <2> QED BY <2>1, <2>2 DEF TurnCompletes, TurnFails, TurnEnds, Fault
<1>19. CASE \E t \in TurnIds : Notification(t)
  <2>1. PICK t \in TurnIds : TurnStartedNotification(t) \/ TerminalNotification(t)
    BY <1>19 DEF Notification
  <2>2. idempotency' \in [Batches -> TurnIds \cup {NoTurn}]
    BY <2>1 DEF TurnStartedNotification, TerminalNotification
  <2> QED BY <1>19, <2>1, <2>2
          DEF Notification, TurnStartedNotification, TerminalNotification
<1>20. CASE \E b \in Batches : RetryDue(b)
  BY <1>20 DEF RetryDue, RetryTimeArrives
<1>21. CASE ServerDies
  <2>1. turnState' \in [TurnIds -> TurnStates]
    BY <1>21 DEF ServerDies, AppServerExits, Interrupted, TurnStates
  <2>2. /\ serverUp' = FALSE /\ faults' \in 0..MaxFault
        /\ UNCHANGED <<storeVars, mailVars, memoryVars, pc, stopReason, turnInput, sessionVars>>
    BY <1>21 DEF ServerDies, AppServerExits, Fault
  <2>3. ThreadTypeOK'
    BY <2>1, <2>2
  <2> HIDE DEF ThreadTypeOK
  <2>4. StoreTypeOK'
    BY <2>2
  <2> HIDE DEF StoreTypeOK
  <2> QED BY <2>2, <2>3, <2>4
<1>22. CASE UNCHANGED vars
  BY <1>22 DEF vars
<1> HIDE DEF TypeInv
<1> QED BY <1>1, <1>2, <1>3, <1>4, <1>5, <1>6, <1>7, <1>8, <1>9, <1>10, <1>11, <1>12, <1>13,
           <1>14, <1>15, <1>16, <1>17, <1>18, <1>19, <1>20, <1>21, <1>22, StartTyped, SettleTyped,
           PollTyped, BeginDeliveryTyped, EncodeOrMarkFailsTyped, ServerAcceptsTyped, CrashTyped
        DEF Next, KernelStep, Environment

(* Every reachable state is well typed: batches stay in the outbox's four  *)
(* states, attempts within the limit, what the batcher seals is a batch.   *)
THEOREM TypeCorrect == Spec => []TypeOK
<1>1. Spec => []TypeInv
  BY TypeInit, TypeStep, PTL DEF Spec
<1>2. TypeInv => TypeOK
  BY DEF TypeInv
<1> QED BY <1>1, <1>2, PTL

-----------------------------------------------------------------------------
(* Acceptance is never invented *)

(* The part of AcceptanceInv about the outbox and the part about the thread. *)
OutboxPart == AcceptedWasCompleted /\ PendingIsUnbound /\ BoundWasReceived
ThreadPart == UnusedIsEmpty /\ RememberedWasReceived

LEMMA AcceptanceParts == AcceptanceInv <=> OutboxPart /\ ThreadPart /\ CallWasReceived
BY DEF AcceptanceInv, OutboxPart, ThreadPart

LEMMA AcceptanceInit == Init => AcceptanceInv
<1> SUFFICES ASSUME Init PROVE AcceptanceInv
  OBVIOUS
<1>1. InState("accepted") = {} /\ InState("pending") = {} /\ InState("delivering") = {}
  BY DEF Init, StoreInit, InState
<1>2. UnusedIsEmpty /\ RememberedWasReceived /\ CallWasReceived
  BY DEF Init, ThreadInit, NoIdempotency, UnusedIsEmpty, RememberedWasReceived, CallWasReceived
<1> QED BY <1>1, <1>2 DEF AcceptanceInv, AcceptedWasCompleted, PendingIsUnbound, BoundWasReceived

-----------------------------------------------------------------------------
(* What leaves the parts alone *)

(* The outbox part survives whenever turns only grow their input and no    *)
(* completed turn changes its state. *)
TurnsGrow ==
    /\ \A b \in Batches, t \in TurnIds : Received(b, t) => Received(b, t)'
    /\ \A t \in TurnIds : turnState[t] = "completed" => turnState'[t] = "completed"

LEMMA OutboxFrame ==
    ASSUME TypeOK, OutboxPart, TurnsGrow, UNCHANGED <<batchState, acceptedTurn>>
    PROVE  OutboxPart'
<1>1. \A b \in Batches : acceptedTurn[b] \in TurnIds \cup {NoTurn}
  BY DEF TypeOK, StoreTypeOK
<1>2. PendingIsUnbound'
  BY DEF OutboxPart, PendingIsUnbound, InState
<1>3. BoundWasReceived'
  <2> SUFFICES ASSUME NEW b \in Batches, batchState'[b] = "delivering", acceptedTurn'[b] # NoTurn
               PROVE  Received(b, acceptedTurn[b])'
    BY DEF BoundWasReceived, InState
  <2>1. Received(b, acceptedTurn[b])
    BY DEF OutboxPart, BoundWasReceived, InState
  <2>2. acceptedTurn[b] \in TurnIds
    BY <1>1
  <2>3. \A t \in TurnIds : Received(b, t) => Received(b, t)'
    BY DEF TurnsGrow
  <2>4. acceptedTurn'[b] = acceptedTurn[b]
    OBVIOUS
  <2> QED BY <2>1, <2>2, <2>3, <2>4 DEF Received
<1>4. AcceptedWasCompleted'
  <2> SUFFICES ASSUME NEW b \in Batches, batchState'[b] = "accepted"
               PROVE  /\ acceptedTurn'[b] # NoTurn
                      /\ Received(b, acceptedTurn[b])'
                      /\ turnState'[acceptedTurn'[b]] = "completed"
    BY DEF AcceptedWasCompleted, InState
  <2>1. /\ acceptedTurn[b] # NoTurn
        /\ Received(b, acceptedTurn[b])
        /\ turnState[acceptedTurn[b]] = "completed"
    BY DEF OutboxPart, AcceptedWasCompleted, InState
  <2>2. acceptedTurn[b] \in TurnIds
    BY <1>1, <2>1
  <2>3. \A t \in TurnIds : Received(b, t) => Received(b, t)'
    BY DEF TurnsGrow
  <2>4. acceptedTurn'[b] = acceptedTurn[b]
    OBVIOUS
  <2> QED BY <2>1, <2>2, <2>3, <2>4 DEF Received, TurnsGrow
<1> QED BY <1>2, <1>3, <1>4 DEF OutboxPart

LEMMA SameTurnsGrow ==
    ASSUME UNCHANGED <<turnState, turnInput>>
    PROVE  TurnsGrow
BY DEF TurnsGrow, Received

LEMMA ThreadFrame ==
    ASSUME ThreadPart, UNCHANGED <<turnState, turnInput, idempotency>>
    PROVE  ThreadPart'
BY DEF ThreadPart, UnusedIsEmpty, RememberedWasReceived, Received

LEMMA CallFrame ==
    ASSUME CallWasReceived,
           pc' \notin {"answered", "binding"} \/ UNCHANGED <<pc, current, turnId, turnInput>>
    PROVE  CallWasReceived'
BY DEF CallWasReceived, Received

(* A step that touches neither rows, turns, memory of answers nor a call. *)
LEMMA AcceptanceFrame ==
    ASSUME TypeOK, AcceptanceInv,
           UNCHANGED <<batchState, acceptedTurn, turnState, turnInput, idempotency>>,
           pc' \notin {"answered", "binding"} \/ UNCHANGED <<pc, current, turnId>>
    PROVE  AcceptanceInv'
<1>1. OutboxPart' /\ ThreadPart' /\ CallWasReceived'
  BY AcceptanceParts, OutboxFrame, SameTurnsGrow, ThreadFrame, CallFrame
<1> QED BY <1>1 DEF AcceptanceInv, OutboxPart, ThreadPart

-----------------------------------------------------------------------------
(* What the store's transactions do to the outbox part *)

(* Going back to pending unbinds the row; a dead letter leaves all three   *)
(* state sets. *)
LEMMA ToPending ==
    ASSUME TypeOK, OutboxPart, NEW b \in Batches, NEW from, NEW wait,
           TransitionBatch(b, from, "pending", NoTurn, wait),
           UNCHANGED <<turnState, turnInput>>
    PROVE  OutboxPart'
<1>1. /\ batchState' = [batchState EXCEPT ![b] = "pending"]
      /\ acceptedTurn' = [acceptedTurn EXCEPT ![b] = NoTurn]
  BY DEF TransitionBatch
<1> QED BY <1>1 DEF OutboxPart, AcceptedWasCompleted, PendingIsUnbound, BoundWasReceived,
                    InState, Received, TypeOK, StoreTypeOK

LEMMA ToDeadLetter ==
    ASSUME TypeOK, OutboxPart, NEW b \in Batches, DeadLetter(b),
           UNCHANGED <<turnState, turnInput>>
    PROVE  OutboxPart'
<1>1. /\ batchState' = [batchState EXCEPT ![b] = "dead_letter"]
      /\ acceptedTurn' = acceptedTurn
  BY DEF DeadLetter
<1> QED BY <1>1 DEF OutboxPart, AcceptedWasCompleted, PendingIsUnbound, BoundWasReceived,
                    InState, Received, TypeOK, StoreTypeOK

(* A row becomes, or stays, delivering bound to no turn or to one that was *)
(* given the batch. *)
LEMMA ToDelivering ==
    ASSUME TypeOK, OutboxPart, NEW b \in Batches, NEW from, NEW turn, NEW wait,
           TransitionBatch(b, from, "delivering", turn, wait),
           turn # NoTurn => Received(b, turn),
           UNCHANGED <<turnState, turnInput>>
    PROVE  OutboxPart'
<1>1. /\ batchState' = [batchState EXCEPT ![b] = "delivering"]
      /\ acceptedTurn' = [acceptedTurn EXCEPT ![b] = turn]
  BY DEF TransitionBatch
<1> QED BY <1>1 DEF OutboxPart, AcceptedWasCompleted, PendingIsUnbound, BoundWasReceived,
                    InState, Received, TypeOK, StoreTypeOK

LEMMA ToAccepted ==
    ASSUME TypeOK, OutboxPart, NEW b \in Batches, NEW turn \in TurnIds, AcceptBatch(b, turn),
           Received(b, turn), turnState[turn] = "completed",
           UNCHANGED <<turnState, turnInput>>
    PROVE  OutboxPart'
<1>1. /\ batchState' = [batchState EXCEPT ![b] = "accepted"]
      /\ acceptedTurn' = [acceptedTurn EXCEPT ![b] = turn]
  BY DEF AcceptBatch
<1>2. turn # NoTurn
  BY DEF TurnIds, NoTurn
<1> QED BY <1>1, <1>2 DEF OutboxPart, AcceptedWasCompleted, PendingIsUnbound, BoundWasReceived,
                    InState, Received, TypeOK, StoreTypeOK

LEMMA RetryKeepsOutbox ==
    ASSUME TypeOK, OutboxPart, NEW counts, NEW b \in Batches, NEW permanent,
           RetryOrDeadLetter(counts, b, permanent), UNCHANGED <<turnState, turnInput>>
    PROVE  OutboxPart'
BY ToPending, ToDeadLetter DEF RetryOrDeadLetter

(* The owner goes away: running turns are interrupted, answers forgotten. *)
LEMMA StopKeepsAcceptance ==
    ASSUME TypeOK, AcceptanceInv, NEW reason, Stop(reason), UNCHANGED storeVars
    PROVE  AcceptanceInv'
<1>1. /\ turnState' = Interrupted /\ turnInput' = turnInput
      /\ idempotency' = NoIdempotency /\ pc' = "down"
  BY DEF Stop, SessionCloses
<1>2. OutboxPart'
  <2>1. TurnsGrow
    BY <1>1 DEF TurnsGrow, Received, Interrupted
  <2> QED BY <2>1, AcceptanceParts, OutboxFrame DEF storeVars
<1>3. UnusedIsEmpty'
  BY <1>1 DEF AcceptanceInv, UnusedIsEmpty, Interrupted, TypeOK, ThreadTypeOK
<1>4. RememberedWasReceived'
  BY <1>1 DEF RememberedWasReceived, NoIdempotency
<1>5. CallWasReceived'
  BY <1>1 DEF CallWasReceived
<1> QED BY <1>2, <1>3, <1>4, <1>5 DEF AcceptanceInv, OutboxPart

(* A failed delivery moves its row out of the way and ends the call, or    *)
(* ends the run; the turns are as they were. *)
LEMMA FailureKeepsAcceptance ==
    ASSUME TypeInv, AcceptanceInv, NEW counts, NEW b \in Batches, NEW permanent,
           DeliveryFails(counts, b, permanent)
    PROVE  AcceptanceInv'
<1>1. TypeOK
  BY DEF TypeInv
<1>2. CASE RetryOrDeadLetter(counts, b, permanent) /\ UNCHANGED threadVars /\ pc' = "deliver"
  <2>1. UNCHANGED <<turnState, turnInput, idempotency>>
    BY <1>2 DEF threadVars
  <2>2. OutboxPart'
    BY <1>1, <1>2, <2>1, AcceptanceParts, RetryKeepsOutbox
  <2>3. ThreadPart'
    BY <2>1, AcceptanceParts, ThreadFrame
  <2>4. CallWasReceived'
    BY <1>2 DEF CallWasReceived
  <2> QED BY <2>2, <2>3, <2>4 DEF AcceptanceInv, OutboxPart, ThreadPart
<1>3. CASE Stop("error") /\ UNCHANGED storeVars
  BY <1>1, <1>3, StopKeepsAcceptance
<1> QED BY <1>2, <1>3 DEF DeliveryFails

-----------------------------------------------------------------------------
(* The actions that move a turn id *)

LEMMA SettleKeepsAcceptance ==
    ASSUME TypeInv, AcceptanceInv, Settle
    PROVE  AcceptanceInv'
<1> DEFINE t == Min(Settleable)
           b == EarliestEnding(InFlight(t))
<1>1. TypeOK /\ UNCHANGED <<turnState, turnInput, idempotency, pc, current, turnId>>
  BY DEF TypeInv, Settle, threadVars, callVars
<1>2. t \in Settleable /\ t \in TurnIds
  BY <1>1, SettleableTurn DEF Settle, TypeOK
<1>3. b \in InFlight(t) /\ b \in Batches
  BY <1>2, InFlightChoice DEF Settleable
<1>4. Received(b, t)
  <2>1. acceptedTurn[b] = t /\ b \in InState("delivering")
    BY <1>3 DEF InFlight
  <2>2. t # NoTurn
    BY <1>2 DEF TurnIds, NoTurn
  <2> QED BY <2>1, <2>2 DEF AcceptanceInv, BoundWasReceived
<1>5. OutboxPart'
  <2>1. CASE SettleCompleted(t)
    <3>1. AcceptBatch(b, t) /\ turnState[t] = "completed"
      BY <2>1 DEF SettleCompleted
    <3> QED BY <1>1, <1>2, <1>3, <1>4, <3>1, ToAccepted, AcceptanceParts
  <2>2. CASE SettleFailed(t)
    <3>1. PICK permanent \in BOOLEAN : RetryOrDeadLetter(attempts, b, permanent)
      BY <2>2 DEF SettleFailed
    <3> QED BY <1>1, <1>3, <3>1, RetryKeepsOutbox, AcceptanceParts
  <2> QED BY <2>1, <2>2 DEF Settle
<1>6. ThreadPart' /\ CallWasReceived'
  BY <1>1, AcceptanceParts, ThreadFrame, CallFrame
<1> QED BY <1>5, <1>6 DEF AcceptanceInv, OutboxPart, ThreadPart

(* Input only accumulates when the app server takes a request. *)
LEMMA AcceptsGrows ==
    ASSUME TypeInv, AcceptanceInv, ServerAccepts
    PROVE  /\ TurnsGrow
           /\ turnId' \in TurnIds /\ Received(current, turnId)'
           /\ UnusedIsEmpty'
<1> USE DEF TypeInv, TypeOK, ThreadTypeOK
<1>1. PICK t \in TurnIds :
         /\ \/ method = "turn/start" /\ ServerStartsTurn(t, current)
            \/ method = "turn/steer" /\ t = turnId /\ ServerSteersTurn(t, current)
         /\ turnId' = t
  BY DEF ServerAccepts
<1>2. current \in Batches /\ current' = current
  BY DEF ServerAccepts, MemoryInv
<1>3. CASE ServerStartsTurn(t, current)
  <2>1. /\ turnState[t] = "unused" /\ turnState' = [turnState EXCEPT ![t] = "active"]
        /\ turnInput' = [turnInput EXCEPT ![t] = <<current>>]
    BY <1>3 DEF ServerStartsTurn
  <2>2. turnInput[t] = <<>>
    BY <2>1 DEF AcceptanceInv, UnusedIsEmpty
  <2>3. \A b : ~Received(b, t)
    BY <2>2 DEF Received, Range
  <2>4. TurnsGrow
    BY <2>1, <2>3 DEF TurnsGrow, Received
  <2>5. Received(current, turnId)'
    BY <1>1, <1>2, <2>1 DEF Received, Range
  <2>6. UnusedIsEmpty'
    BY <2>1 DEF AcceptanceInv, UnusedIsEmpty
  <2> QED BY <1>1, <2>4, <2>5, <2>6
<1>4. CASE ServerSteersTurn(t, current)
  <2>1. /\ turnState[t] = "active" /\ turnState' = turnState
        /\ turnInput' = [turnInput EXCEPT ![t] = Append(turnInput[t], current)]
    BY <1>4 DEF ServerSteersTurn
  <2>2. turnInput[t] \in Seq(Batches)
    OBVIOUS
  <2> DEFINE old == turnInput[t]
             new == Append(turnInput[t], current)
  <2>3. /\ \A i \in DOMAIN old : i \in DOMAIN new /\ new[i] = old[i]
        /\ Len(old) + 1 \in DOMAIN new /\ new[Len(old) + 1] = current
    BY <1>2, <2>2
  <2>4. turnInput'[t] = new /\ \A u \in TurnIds \ {t} : turnInput'[u] = turnInput[u]
    BY <2>1
  <2> HIDE DEF new
  <2>5. Received(current, turnId)'
    BY <1>1, <1>2, <2>3, <2>4 DEF Received, Range
  <2>6. \A b \in Batches, u \in TurnIds : Received(b, u) => Received(b, u)'
    <3> SUFFICES ASSUME NEW b \in Batches, NEW u \in TurnIds, Received(b, u)
                 PROVE  b \in Range(turnInput'[u])
      BY DEF Received
    <3>1. CASE u = t
      <4>1. PICK i \in DOMAIN old : old[i] = b
        BY <3>1 DEF Received, Range
      <4>2. i \in DOMAIN new /\ new[i] = b
        BY <2>3, <4>1
      <4> QED BY <2>4, <3>1, <4>2 DEF Range
    <3>2. CASE u # t
      BY <2>4, <3>2 DEF Received
    <3> QED BY <3>1, <3>2
  <2>7. UnusedIsEmpty'
    BY <2>1 DEF AcceptanceInv, UnusedIsEmpty
  <2> QED BY <1>1, <2>1, <2>5, <2>6, <2>7 DEF TurnsGrow
<1> QED BY <1>1, <1>3, <1>4

LEMMA ServerAcceptsKeepsAcceptance ==
    ASSUME TypeInv, AcceptanceInv, ServerAccepts
    PROVE  AcceptanceInv'
<1>1. TypeOK /\ UNCHANGED <<batchState, acceptedTurn, idempotency>>
  BY DEF TypeInv, ServerAccepts, ServerStartsTurn, ServerSteersTurn, storeVars, sessionVars
<1>2. OutboxPart'
  BY <1>1, AcceptsGrows, OutboxFrame, AcceptanceParts
<1>3. RememberedWasReceived'
  <2> SUFFICES ASSUME NEW b \in Batches, idempotency'[b] # NoTurn
               PROVE  Received(b, idempotency[b])'
    BY DEF RememberedWasReceived
  <2>1. idempotency[b] \in TurnIds /\ Received(b, idempotency[b])
    BY <1>1 DEF AcceptanceInv, RememberedWasReceived, TypeOK, ThreadTypeOK
  <2>2. \A u \in TurnIds : Received(b, u) => Received(b, u)'
    BY AcceptsGrows DEF TurnsGrow
  <2> QED BY <1>1, <2>1, <2>2 DEF Received
<1>4. CallWasReceived'
  BY AcceptsGrows DEF CallWasReceived
<1> QED BY <1>2, <1>3, <1>4, AcceptsGrows DEF AcceptanceInv, OutboxPart

LEMMA StartKeepsAcceptance ==
    ASSUME TypeInv, AcceptanceInv, Start
    PROVE  AcceptanceInv'
<1>1. /\ UNCHANGED <<batchState, acceptedTurn, turnState, turnInput>>
      /\ idempotency' = NoIdempotency /\ pc' = "recover"
  BY DEF Start, SetBaseline, SessionOpens, storeVars
<1>2. OutboxPart'
  BY <1>1, OutboxFrame, SameTurnsGrow, AcceptanceParts DEF TypeInv
<1>3. UnusedIsEmpty' /\ RememberedWasReceived' /\ CallWasReceived'
  BY <1>1 DEF AcceptanceInv, UnusedIsEmpty, RememberedWasReceived, CallWasReceived, NoIdempotency
<1> QED BY <1>2, <1>3 DEF AcceptanceInv, OutboxPart

(* A terminal notification forgets answers, the end of a turn closes it.   *)
LEMMA ThreadStepKeepsAcceptance ==
    ASSUME TypeInv, AcceptanceInv, UNCHANGED <<storeVars, memoryVars, pc, turnInput>>,
           \A t \in TurnIds : turnState[t] \notin {"active"} => turnState'[t] = turnState[t],
           \A t \in TurnIds : turnState[t] = "active" => turnState'[t] # "unused",
           \A b \in Batches : idempotency'[b] \in {NoTurn, idempotency[b]}
    PROVE  AcceptanceInv'
<1>1. UNCHANGED <<batchState, acceptedTurn, turnInput, pc, current, turnId>>
  BY DEF storeVars, memoryVars, callVars
<1>2. OutboxPart'
  <2>1. TurnsGrow
    BY <1>1 DEF TurnsGrow, Received
  <2> QED BY <1>1, <2>1, OutboxFrame, AcceptanceParts DEF TypeInv
<1>3. UnusedIsEmpty'
  BY <1>1 DEF AcceptanceInv, UnusedIsEmpty, TypeInv, TypeOK, ThreadTypeOK, TurnStates
<1>4. RememberedWasReceived'
  BY <1>1 DEF AcceptanceInv, RememberedWasReceived, Received
<1>5. CallWasReceived'
  BY <1>1, CallFrame DEF AcceptanceInv
<1> QED BY <1>2, <1>3, <1>4, <1>5 DEF AcceptanceInv, OutboxPart

LEMMA AcceptanceStep == TypeInv /\ AcceptanceInv /\ [Next]_vars => AcceptanceInv'
<1> SUFFICES ASSUME TypeInv, AcceptanceInv, [Next]_vars PROVE AcceptanceInv'
  OBVIOUS
<1>0. TypeOK /\ (pc \in {"calling", "answered", "binding", "bound"} => current \in Batches)
  BY DEF TypeInv, MemoryInv
<1> USE DEF storeVars, threadVars, mailVars, memoryVars, callVars, sessionVars
<1>1. CASE Replay
  <2>1. InState("delivering") \in SUBSET Batches /\ InState("delivering") # {}
    BY <1>1 DEF Replay, InState
  <2>2. Earliest(InState("delivering")) \in Batches
    BY <2>1, EarliestExists
  <2>3. OutboxPart'
    BY <1>0, <1>1, <2>2, ToPending, AcceptanceParts DEF Replay
  <2>4. ThreadPart' /\ CallWasReceived'
    BY <1>1, ThreadFrame, AcceptanceParts DEF Replay, CallWasReceived
  <2> QED BY <2>3, <2>4 DEF AcceptanceInv, OutboxPart, ThreadPart
<1>2. CASE Enqueue
  <2>1. CASE UNCHANGED storeVars
    BY <1>0, <1>2, <2>1, AcceptanceFrame DEF Enqueue
  <2>2. CASE \E b \in due : EnqueueBatch(b)
    <3>1. PICK b \in Batches : EnqueueBatch(b)
      BY <1>0, <2>2 DEF TypeOK
    <3>2. /\ batchState' = [batchState EXCEPT ![b] = "pending"]
          /\ acceptedTurn' = [acceptedTurn EXCEPT ![b] = NoTurn]
      BY <3>1 DEF EnqueueBatch
    <3>3. UNCHANGED <<turnState, turnInput, idempotency, pc, current, turnId>>
      BY <1>2 DEF Enqueue
    <3>4. OutboxPart'
      BY <1>0, <3>2, <3>3 DEF AcceptanceInv, OutboxPart, AcceptedWasCompleted, PendingIsUnbound,
             BoundWasReceived, InState, Received, TypeOK, StoreTypeOK
    <3>5. ThreadPart' /\ CallWasReceived'
      BY <3>3, ThreadFrame, CallFrame, AcceptanceParts
    <3> QED BY <3>4, <3>5 DEF AcceptanceInv, OutboxPart, ThreadPart
  <2>3. due \in SUBSET Batches /\ due # {}
    BY <1>0, <1>2 DEF Enqueue, TypeOK
  <2>4. Earliest(due) \in due
    BY <2>3, EarliestExists
  <2> QED BY <1>2, <2>1, <2>2, <2>4 DEF Enqueue
<1>3. CASE Rebatch
  BY <1>0, <1>3, AcceptanceFrame DEF Rebatch
<1>4. CASE Poll
  BY <1>0, <1>4, AcceptanceFrame DEF Poll, ObserveSourceEvents
<1>5. CASE LoadOutbox \/ PassEnds \/ SkipOrQueue \/ BoundSettled
  BY <1>0, <1>5, AcceptanceFrame DEF LoadOutbox, PassEnds, SkipOrQueue, BoundSettled
<1>6. CASE BeginDelivery
  <2>1. /\ NextTodo \in Batches /\ batchState[NextTodo] = "pending"
        /\ TransitionBatch(NextTodo, "pending", "delivering", acceptedTurn[NextTodo], FALSE)
        /\ UNCHANGED <<turnState, turnInput, idempotency>> /\ pc' = "calling"
    BY <1>0, <1>6, NextTodoIsBatch DEF BeginDelivery, TransitionBatch
  <2>2. acceptedTurn[NextTodo] = NoTurn
    BY <2>1 DEF AcceptanceInv, PendingIsUnbound, InState
  <2>3. OutboxPart'
    BY <1>0, <2>1, <2>2, ToDelivering, AcceptanceParts
  <2>4. ThreadPart' /\ CallWasReceived'
    BY <2>1, ThreadFrame, AcceptanceParts DEF CallWasReceived
  <2> QED BY <2>3, <2>4 DEF AcceptanceInv, OutboxPart, ThreadPart
<1>7. CASE EncodeOrMarkFails
  <2>1. NextTodo \in Batches
    BY <1>0, <1>7, NextTodoIsBatch DEF EncodeOrMarkFails
  <2> QED BY <1>7, <2>1, FailureKeepsAcceptance DEF EncodeOrMarkFails
<1>8. CASE SessionRemembers
  <2>1. /\ current \in Batches /\ idempotency[current] # NoTurn
        /\ turnId' = idempotency[current] /\ UNCHANGED <<current, turnInput, idempotency>>
    BY <1>0, <1>8 DEF SessionRemembers, KnownAcceptance
  <2>2. turnId' \in TurnIds /\ Received(current, turnId)'
    BY <1>0, <2>1 DEF AcceptanceInv, RememberedWasReceived, TypeOK, ThreadTypeOK, Received
  <2>3. OutboxPart'
    BY <1>0, <1>8, OutboxFrame, SameTurnsGrow, AcceptanceParts DEF SessionRemembers
  <2>4. ThreadPart'
    BY <1>8, ThreadFrame, AcceptanceParts DEF SessionRemembers
  <2> QED BY <2>2, <2>3, <2>4 DEF AcceptanceInv, OutboxPart, ThreadPart, CallWasReceived
<1>9. CASE SessionRefuses \/ ServerRefuses \/ ResponseLost \/ BindFails \/ SettlingFails
  BY <1>0, <1>9, FailureKeepsAcceptance
     DEF SessionRefuses, ServerRefuses, ResponseLost, BindFails, SettlingFails
<1>10. CASE Response
  <2>1. /\ current \in Batches /\ pc = "answered" /\ pc' = "binding"
        /\ idempotency' = [idempotency EXCEPT ![current] = turnId]
        /\ UNCHANGED <<batchState, acceptedTurn, turnState, turnInput, current, turnId>>
    BY <1>0, <1>10 DEF Response, ResponseHandled
  <2>2. turnId \in TurnIds /\ Received(current, turnId)
    BY <2>1 DEF AcceptanceInv, CallWasReceived
  <2>3. RememberedWasReceived'
    BY <1>0, <2>1, <2>2 DEF AcceptanceInv, RememberedWasReceived, Received, TypeOK, ThreadTypeOK
  <2>4. OutboxPart' /\ UnusedIsEmpty' /\ CallWasReceived'
    BY <1>0, <2>1, <2>2, OutboxFrame, SameTurnsGrow, AcceptanceParts
       DEF AcceptanceInv, UnusedIsEmpty, CallWasReceived, Received
  <2> QED BY <2>3, <2>4 DEF AcceptanceInv, OutboxPart
<1>11. CASE Bind
  <2>1. current \in Batches /\ turnId \in TurnIds /\ Received(current, turnId)
    BY <1>0, <1>11 DEF Bind, AcceptanceInv, CallWasReceived
  <2>2. OutboxPart'
    BY <1>0, <1>11, <2>1, ToDelivering, AcceptanceParts DEF Bind
  <2>3. ThreadPart' /\ CallWasReceived'
    BY <1>11, ThreadFrame, AcceptanceParts DEF Bind, CallWasReceived
  <2> QED BY <2>2, <2>3 DEF AcceptanceInv, OutboxPart, ThreadPart
<1>12. CASE Crash
  BY <1>0, <1>12, StopKeepsAcceptance DEF Crash
<1>13. CASE WindowEnds \/ UNCHANGED vars
       \/ (\E m \in MessageIds : MailArrives(m) \/ MailBecomesReadable(m))
       \/ (\E b \in Batches : RetryDue(b))
  BY <1>0, <1>13, AcceptanceFrame
     DEF WindowEnds, vars, MailArrives, MailBecomesReadable, RetryDue, RetryTimeArrives
<1>14. CASE ServerDies \/ (\E t \in TurnIds : TurnCompletes(t) \/ TurnFails(t))
  <2>1. /\ UNCHANGED <<storeVars, memoryVars, pc, turnInput, idempotency>>
        /\ \A t \in TurnIds : turnState[t] \notin {"active"} => turnState'[t] = turnState[t]
        /\ \A t \in TurnIds : turnState[t] = "active" => turnState'[t] # "unused"
    BY <1>0, <1>14 DEF ServerDies, AppServerExits, Interrupted, TurnCompletes, TurnFails,
                       TurnEnds, TypeOK, ThreadTypeOK
  <2> QED BY <2>1, ThreadStepKeepsAcceptance
<1>15. CASE \E t \in TurnIds : Notification(t)
  <2>1. /\ UNCHANGED <<storeVars, memoryVars, pc, turnInput, turnState>>
        /\ \A b \in Batches : idempotency'[b] \in {NoTurn, idempotency[b]}
    BY <1>15 DEF Notification, TurnStartedNotification, TerminalNotification
  <2> QED BY <1>0, <2>1, ThreadStepKeepsAcceptance
<1> QED BY <1>1, <1>2, <1>3, <1>4, <1>5, <1>6, <1>7, <1>8, <1>9, <1>10, <1>11, <1>12, <1>13,
           <1>14, <1>15, StartKeepsAcceptance, SettleKeepsAcceptance,
           ServerAcceptsKeepsAcceptance
        DEF Next, KernelStep, Environment

(* The cursor and the outbox never claim a delivery that did not happen:   *)
(* every accepted batch names a turn that was given the batch and          *)
(* completed, for every mailbox, cap, retry limit and set of faults. *)
THEOREM AcceptedIsTrue == Spec => []AcceptedWasCompleted
<1>1. Spec => [](TypeInv /\ AcceptanceInv)
  BY TypeInit, TypeStep, AcceptanceInit, AcceptanceStep, PTL DEF Spec
<1>2. AcceptanceInv => AcceptedWasCompleted
  BY DEF AcceptanceInv
<1> QED BY <1>1, <1>2, PTL

-----------------------------------------------------------------------------
(* Write-ahead, finality and the steering rule *)

LEMMA DeliveryInit == Init => DeliveryInv
BY DEF Init, DeliveryInv, CallIsMarked, FailuresAreOpen, TodoIsPending, SteerIsUrgent, NoAttempts

LEMMA NoBatchIsNone == NoBatch \notin Batches
BY DEF Batches

(* A step that leaves the rows, the pass and the call alone. *)
LEMMA DeliveryFrame ==
    ASSUME DeliveryInv, UNCHANGED <<batchState, attempts, todo, pc, current, method>>
    PROVE  DeliveryInv'
BY DEF DeliveryInv, CallIsMarked, FailuresAreOpen, TodoIsPending, SteerIsUrgent

(* A step moves rows only as an outbox may: no row disappears and no       *)
(* settled row moves. *)
RowsMoveForward ==
    \A b \in Outbox :
        /\ batchState'[b] # "absent"
        /\ batchState[b] \in {"accepted", "dead_letter"} => batchState'[b] = batchState[b]

(* The row of b goes to state s, with its count of failures. *)
RowMoves(counts, b, s) ==
    /\ batchState' = [batchState EXCEPT ![b] = s]
    /\ \E n \in 0..MaxAttempts :
          /\ attempts' = [counts EXCEPT ![b] = n]
          /\ n > 0 => s \in {"pending", "delivering"}

LEMMA OneRowMoves ==
    ASSUME TypeOK, NEW b \in Batches, batchState[b] \in {"absent", "pending", "delivering"},
           NEW s \in BatchStates \ {"absent"}, batchState' = [batchState EXCEPT ![b] = s]
    PROVE  RowsMoveForward
BY DEF RowsMoveForward, Outbox, TypeOK, StoreTypeOK

LEMMA SameRows ==
    ASSUME batchState' = batchState
    PROVE  RowsMoveForward
BY DEF RowsMoveForward, Outbox

(* Failures are counted of rows that are open. *)
OfOpenRows(counts) ==
    \A b \in Batches : counts[b] > 0 => batchState[b] \in {"pending", "delivering"}

LEMMA FailuresStayOpen ==
    ASSUME TypeOK, NEW counts \in [Batches -> 0..MaxAttempts], OfOpenRows(counts),
           NEW b \in Batches, NEW s, RowMoves(counts, b, s)
    PROVE  FailuresAreOpen'
<1>1. PICK n \in 0..MaxAttempts :
        /\ attempts' = [counts EXCEPT ![b] = n]
        /\ n > 0 => s \in {"pending", "delivering"}
  BY DEF RowMoves
<1>2. batchState' = [batchState EXCEPT ![b] = s]
  BY DEF RowMoves
<1>3. batchState \in [Batches -> BatchStates]
  BY DEF TypeOK, StoreTypeOK
<1> QED BY <1>1, <1>2, <1>3 DEF FailuresAreOpen, OfOpenRows

LEMMA CountsAreOfOpenRows ==
    ASSUME TypeOK, DeliveryInv
    PROVE  attempts \in [Batches -> 0..MaxAttempts] /\ OfOpenRows(attempts)
BY DEF TypeOK, DeliveryInv, FailuresAreOpen, OfOpenRows

(* A row that opens, reopens or is marked keeps its count. *)
LEMMA RowMovesOpen ==
    ASSUME TypeOK, NEW b \in Batches, NEW s \in {"pending", "delivering"},
           batchState' = [batchState EXCEPT ![b] = s], attempts' = attempts
    PROVE  RowMoves(attempts, b, s)
<1>1. attempts \in [Batches -> 0..MaxAttempts]
  BY DEF TypeOK
<1>2. attempts[b] \in 0..MaxAttempts /\ attempts' = [attempts EXCEPT ![b] = attempts[b]]
  BY <1>1
<1> QED BY <1>2 DEF RowMoves

(* A row whose count is cleared may go anywhere. *)
LEMMA RowMovesRested ==
    ASSUME NEW counts, NEW b, NEW s, batchState' = [batchState EXCEPT ![b] = s],
           attempts' = [counts EXCEPT ![b] = 0]
    PROVE  RowMoves(counts, b, s)
<1>1. 0 \in 0..MaxAttempts /\ ~(0 > 0)
  BY KernelAssumption
<1> QED BY <1>1, Zenon DEF RowMoves

(* A failure that may be retried or given up moves the row accordingly. *)
LEMMA RetryMoves ==
    ASSUME TypeOK, NEW counts \in [Batches -> 0..MaxAttempts], NEW b \in Batches,
           NEW permanent, RetryOrDeadLetter(counts, b, permanent)
    PROVE  \/ batchState[b] = "delivering" /\ RowMoves(counts, b, "pending")
           \/ MayGiveUp(counts[b], permanent) /\ RowMoves(counts, b, "dead_letter")
<1>1. CASE /\ ~GivesUp(counts[b], permanent)
           /\ TransitionBatch(b, "delivering", "pending", NoTurn, TRUE)
           /\ attempts' = [counts EXCEPT ![b] = @ + 1]
  <2>1. counts[b] + 1 \in 0..MaxAttempts /\ attempts' = [counts EXCEPT ![b] = counts[b] + 1]
    BY <1>1, KernelAssumption DEF GivesUp
  <2>2. batchState[b] = "delivering" /\ batchState' = [batchState EXCEPT ![b] = "pending"]
    BY <1>1 DEF TransitionBatch
  <2> QED BY <2>1, <2>2 DEF RowMoves
<1>2. CASE /\ MayGiveUp(counts[b], permanent)
           /\ DeadLetter(b)
           /\ attempts' = [counts EXCEPT ![b] = 0]
  <2>1. batchState' = [batchState EXCEPT ![b] = "dead_letter"]
    BY <1>2 DEF DeadLetter
  <2> QED BY <1>2, <2>1, RowMovesRested
<1> QED BY <1>1, <1>2 DEF RetryOrDeadLetter

(* Stopping forgets the pass. *)
LEMMA StopForgets ==
    ASSUME NEW reason, Stop(reason)
    PROVE  DeliveryInv'
BY DEF Stop, CallEnds, NoAttempts, DeliveryInv, CallIsMarked, FailuresAreOpen, TodoIsPending,
       SteerIsUrgent

(* A failed attempt moves an open row.  When the batch is already settled  *)
(* (only a failed settling finds it so) no failure counts against it and   *)
(* the failure is not permanent, so it is not given up: the run ends. *)
LEMMA FailureMovesForward ==
    ASSUME TypeInv, DeliveryInv, NEW counts \in [Batches -> 0..MaxAttempts], OfOpenRows(counts),
           NEW b \in Batches, NEW permanent \in BOOLEAN,
           DeliveryFails(counts, b, permanent), current \in {b, NoBatch}, batchState[b] # "absent",
           permanent => batchState[b] \in {"pending", "delivering"}
    PROVE  DeliveryInv' /\ RowsMoveForward
<1>0. TypeOK
  BY DEF TypeInv
<1>1. CASE Stop("error") /\ UNCHANGED storeVars
  BY <1>1, StopForgets, SameRows DEF storeVars
<1>2. CASE /\ RetryOrDeadLetter(counts, b, permanent)
           /\ todo' = todo \ {b}
           /\ CallEnds
           /\ pc' = "deliver"
  <2>1. MayGiveUp(counts[b], permanent) => batchState[b] \in {"pending", "delivering"}
    <3>1. counts[b] > 0 => batchState[b] \in {"pending", "delivering"}
      BY DEF OfOpenRows
    <3>2. MayGiveUp(counts[b], permanent) => permanent \/ counts[b] > 0
      BY KernelAssumption DEF MayGiveUp, GivesUp
    <3> QED BY <3>1, <3>2
  <2>2. PICK s \in {"pending", "dead_letter"} :
          batchState[b] \in {"pending", "delivering"} /\ RowMoves(counts, b, s)
    BY <1>0, <1>2, <2>1, RetryMoves
  <2>3. batchState' = [batchState EXCEPT ![b] = s]
    BY <2>2 DEF RowMoves
  <2>4. RowsMoveForward
    BY <1>0, <2>2, <2>3, OneRowMoves DEF BatchStates
  <2>5. FailuresAreOpen'
    BY <1>0, <2>2, FailuresStayOpen
  <2>6. todo' = todo \ {b} /\ current' = NoBatch /\ pc' = "deliver" /\ todo \subseteq Batches
    BY <1>0, <1>2 DEF CallEnds, TypeOK
  <2>7. TodoIsPending'
    <3> SUFFICES ASSUME NEW c \in todo \ {b} PROVE batchState'[c] = "pending"
      BY <2>6 DEF TodoIsPending
    <3>1. c \in todo \ {current} /\ c \in Batches
      BY <2>6, NoBatchIsNone
    <3>2. batchState[c] = "pending"
      BY <3>1 DEF DeliveryInv, TodoIsPending
    <3> QED BY <1>0, <2>3, <3>1, <3>2 DEF TypeOK, StoreTypeOK
  <2>8. CallIsMarked' /\ SteerIsUrgent'
    BY <2>6 DEF CallIsMarked, SteerIsUrgent
  <2> QED BY <2>4, <2>5, <2>7, <2>8 DEF DeliveryInv
<1> QED BY <1>1, <1>2 DEF DeliveryFails

(* A settling that fails has counted of a delivering row only. *)
LEMMA SettlingCountsOfOpenRows ==
    ASSUME TypeOK, DeliveryInv, Settleable # {}, NEW counts \in CountsOfSettling
    PROVE  OfOpenRows(counts)
<1> DEFINE t == Min(Settleable)
           b == EarliestEnding(InFlight(t))
<1>1. t \in Settleable
  BY SettleableTurn DEF TypeOK
<1> HIDE DEF t
<1>2. b \in Batches /\ b \in InFlight(t)
  BY <1>1, InFlightChoice DEF Settleable
<1>3. batchState[b] = "delivering"
  BY <1>2 DEF InFlight, InState
<1>4. attempts \in [Batches -> 0..MaxAttempts] /\ OfOpenRows(attempts)
  BY CountsAreOfOpenRows
<1>5. PICK n : counts = attempts \/ counts = [attempts EXCEPT ![b] = n]
  BY DEF CountsOfSettling, t
<1> QED BY <1>2, <1>3, <1>4, <1>5 DEF OfOpenRows

(* Settling moves one delivering row. *)
LEMMA SettleMovesDelivering ==
    ASSUME TypeInv, Settle
    PROVE  \E b \in Batches : \E s \in {"pending", "accepted", "dead_letter"} :
               batchState[b] = "delivering" /\ RowMoves(attempts, b, s)
<1> DEFINE t == Min(Settleable)
           b == EarliestEnding(InFlight(t))
<1>0. TypeOK
  BY DEF TypeInv
<1>1. t \in Settleable
  BY SettleableTurn DEF Settle, TypeInv, TypeOK
<1>2. b \in Batches /\ batchState[b] = "delivering"
  BY <1>1, InFlightChoice DEF Settleable, InFlight, InState
<1>3. CASE SettleCompleted(t)
  <2>1. /\ batchState' = [batchState EXCEPT ![b] = "accepted"]
        /\ attempts' = [attempts EXCEPT ![b] = 0]
    BY <1>3 DEF SettleCompleted, AcceptBatch
  <2>2. RowMoves(attempts, b, "accepted")
    BY <2>1, RowMovesRested
  <2> QED BY <1>2, <2>2
<1>4. CASE SettleFailed(t)
  <2>1. PICK permanent \in BOOLEAN : RetryOrDeadLetter(attempts, b, permanent)
    BY <1>4 DEF SettleFailed
  <2>2. attempts \in [Batches -> 0..MaxAttempts]
    BY <1>0 DEF TypeOK
  <2> QED BY <1>0, <1>2, <2>1, <2>2, RetryMoves
<1> QED BY <1>3, <1>4 DEF Settle

(* A step that moves one row to an open state outside a call. *)
LEMMA RowOpens ==
    ASSUME TypeOK, DeliveryInv, NEW b \in Batches, NEW s \in {"pending", "delivering"},
           batchState[b] \in {"absent", "pending", "delivering"},
           batchState' = [batchState EXCEPT ![b] = s], attempts' = attempts
    PROVE  FailuresAreOpen' /\ RowsMoveForward
<1>1. RowMoves(attempts, b, s)
  BY RowMovesOpen
<1> QED BY <1>1, FailuresStayOpen, CountsAreOfOpenRows, OneRowMoves DEF DeliveryInv, BatchStates

LEMMA DeliveryStep ==
    ASSUME TypeInv, DeliveryInv, [Next]_vars
    PROVE  DeliveryInv' /\ RowsMoveForward
<1>0. TypeOK /\ (pc \in {"calling", "answered", "binding", "bound"} => current \in Batches)
  BY DEF TypeInv, MemoryInv
<1> USE DEF storeVars, threadVars, mailVars, memoryVars, callVars, sessionVars
<1>1. CASE Replay
  <2>1. InState("delivering") \in SUBSET Batches /\ InState("delivering") # {}
    BY <1>1 DEF Replay, InState
  <2> DEFINE b == Earliest(InState("delivering"))
  <2>2. b \in Batches /\ batchState[b] = "delivering"
    BY <2>1, EarliestExists DEF InState
  <2>3. batchState' = [batchState EXCEPT ![b] = "pending"]
    BY <1>1 DEF Replay, TransitionBatch
  <2> HIDE DEF b
  <2>4. pc = "recover" /\ UNCHANGED <<attempts, todo, pc, current, method>>
    BY <1>1 DEF Replay
  <2>5. FailuresAreOpen' /\ RowsMoveForward
    BY <1>0, <2>2, <2>3, <2>4, RowOpens
  <2>6. CallIsMarked' /\ TodoIsPending' /\ SteerIsUrgent'
    BY <1>0, <2>2, <2>3, <2>4 DEF DeliveryInv, CallIsMarked, TodoIsPending, SteerIsUrgent,
       TypeOK, StoreTypeOK
  <2> QED BY <2>5, <2>6 DEF DeliveryInv
<1>2. CASE Settle
  <2>1. PICK b \in Batches, s \in {"pending", "accepted", "dead_letter"} :
          batchState[b] = "delivering" /\ RowMoves(attempts, b, s)
    BY <1>2, SettleMovesDelivering
  <2>2. batchState' = [batchState EXCEPT ![b] = s]
    BY <2>1 DEF RowMoves
  <2>3. pc \in {"head", "bound"} /\ UNCHANGED <<todo, pc, current, method>>
    BY <1>2 DEF Settle
  <2>4. FailuresAreOpen' /\ RowsMoveForward
    BY <1>0, <2>1, <2>2, FailuresStayOpen, CountsAreOfOpenRows, OneRowMoves DEF DeliveryInv, BatchStates
  <2>5. CallIsMarked' /\ TodoIsPending' /\ SteerIsUrgent'
    BY <1>0, <2>1, <2>2, <2>3 DEF DeliveryInv, CallIsMarked, TodoIsPending, SteerIsUrgent,
       TypeOK, StoreTypeOK
  <2> QED BY <2>4, <2>5 DEF DeliveryInv
<1>3. CASE Enqueue
  <2>1. CASE UNCHANGED storeVars
    BY <1>3, <2>1, SameRows, DeliveryFrame DEF Enqueue
  <2>2. CASE \E b \in due : EnqueueBatch(b)
    <3>1. PICK b \in Batches : EnqueueBatch(b)
      BY <1>0, <2>2 DEF TypeOK
    <3>2. batchState[b] = "absent" /\ batchState' = [batchState EXCEPT ![b] = "pending"]
      BY <3>1 DEF EnqueueBatch
    <3>3. pc = "enqueue" /\ UNCHANGED <<attempts, todo, pc, current, method>>
      BY <1>3 DEF Enqueue
    <3>4. FailuresAreOpen' /\ RowsMoveForward
      BY <1>0, <3>2, <3>3, RowOpens
    <3>5. CallIsMarked' /\ TodoIsPending' /\ SteerIsUrgent'
      BY <1>0, <3>2, <3>3 DEF DeliveryInv, CallIsMarked, TodoIsPending, SteerIsUrgent,
         TypeOK, StoreTypeOK
    <3> QED BY <3>4, <3>5 DEF DeliveryInv
  <2>3. due \in SUBSET Batches /\ due # {}
    BY <1>0, <1>3 DEF Enqueue, TypeOK
  <2>4. Earliest(due) \in due
    BY <2>3, EarliestExists
  <2> QED BY <1>3, <2>1, <2>2, <2>4 DEF Enqueue
<1>4. CASE LoadOutbox
  <2>1. /\ todo' = InState("pending") /\ pc = "enqueue" /\ pc' = "deliver"
        /\ UNCHANGED <<batchState, attempts, current, method>>
    BY <1>4 DEF LoadOutbox
  <2>2. DeliveryInv'
    BY <2>1 DEF DeliveryInv, CallIsMarked, FailuresAreOpen, TodoIsPending, SteerIsUrgent, InState
  <2> QED BY <2>1, <2>2, SameRows
<1>5. CASE Start \/ Rebatch \/ Poll \/ PassEnds \/ SkipOrQueue
  <2>1. /\ pc \in {"down", "recover", "head", "deliver"}
        /\ pc' \in {"recover", "head", "enqueue", "deliver"}
        /\ todo' \subseteq todo
        /\ UNCHANGED <<batchState, attempts, current, method>>
    BY <1>5 DEF Start, SetBaseline, Rebatch, Poll, ObserveSourceEvents, PassEnds, SkipOrQueue
  <2>2. DeliveryInv'
    BY <2>1 DEF DeliveryInv, CallIsMarked, FailuresAreOpen, TodoIsPending, SteerIsUrgent
  <2> QED BY <2>1, <2>2, SameRows
<1>6. CASE BeginDelivery
  <2>1. /\ NextTodo \in Batches /\ batchState[NextTodo] = "pending"
        /\ batchState' = [batchState EXCEPT ![NextTodo] = "delivering"]
        /\ current' = NextTodo /\ todo' = todo /\ pc = "deliver" /\ pc' = "calling"
        /\ todo \subseteq Batches /\ current = NoBatch /\ attempts' = attempts
    BY <1>0, <1>6, NextTodoIsBatch
       DEF BeginDelivery, TransitionBatch, TypeOK, DeliveryInv, CallIsMarked
  <2>2. method' = "turn/steer" => IsUrgent(NextTodo)
    <3>1. method' = "turn/steer" => sessionTurn # NoTurn
      BY <1>6 DEF BeginDelivery
    <3>2. sessionTurn # NoTurn => IsUrgent(NextTodo \cap eventIndex)
      BY <1>6 DEF BeginDelivery, Deliverable, MustQueue
    <3> QED BY <3>1, <3>2 DEF IsUrgent
  <2>3. CallIsMarked' /\ TodoIsPending'
    BY <1>0, <2>1, NoBatchIsNone
       DEF DeliveryInv, CallIsMarked, TodoIsPending, TypeOK, StoreTypeOK
  <2>4. SteerIsUrgent'
    BY <2>1, <2>2 DEF SteerIsUrgent
  <2>5. FailuresAreOpen' /\ RowsMoveForward
    BY <1>0, <2>1, RowOpens
  <2> QED BY <2>3, <2>4, <2>5 DEF DeliveryInv
<1>7. CASE EncodeOrMarkFails
  <2>1. NextTodo \in todo /\ NextTodo \in Batches /\ current = NoBatch
    BY <1>0, <1>7, NextTodoIsBatch DEF EncodeOrMarkFails, DeliveryInv, CallIsMarked
  <2>2. batchState[NextTodo] = "pending"
    BY <2>1, NoBatchIsNone DEF DeliveryInv, TodoIsPending
  <2> QED BY <1>0, <1>7, <2>1, <2>2, FailureMovesForward, CountsAreOfOpenRows DEF EncodeOrMarkFails
<1>8. CASE SessionRefuses \/ ServerRefuses \/ ResponseLost \/ BindFails
  <2>1. PICK permanent \in BOOLEAN : DeliveryFails(attempts, current, permanent)
    BY <1>8 DEF SessionRefuses, ServerRefuses, ResponseLost, BindFails
  <2>2. pc \in {"calling", "answered", "binding"}
    BY <1>8 DEF SessionRefuses, ServerRefuses, ResponseLost, BindFails
  <2>3. current \in Batches /\ batchState[current] = "delivering"
    BY <1>0, <2>2 DEF DeliveryInv, CallIsMarked
  <2> QED BY <1>0, <2>1, <2>3, FailureMovesForward, CountsAreOfOpenRows
<1>9. CASE SessionRemembers \/ ServerAccepts \/ Response
  <2>1. /\ pc \in {"calling", "answered"} /\ pc' \in {"answered", "binding"}
        /\ UNCHANGED <<batchState, attempts, todo, current, method>>
    BY <1>9 DEF SessionRemembers, ServerAccepts, Response
  <2>2. DeliveryInv'
    BY <2>1 DEF DeliveryInv, CallIsMarked, FailuresAreOpen, TodoIsPending, SteerIsUrgent
  <2> QED BY <2>1, <2>2, SameRows
<1>10. CASE Bind
  <2>1. /\ pc = "binding" /\ current \in Batches /\ batchState[current] = "delivering"
        /\ batchState' = [batchState EXCEPT ![current] = "delivering"]
        /\ todo' = todo \ {current} /\ current' = current /\ pc' = "bound"
        /\ attempts' = attempts
    BY <1>0, <1>10 DEF Bind, TransitionBatch
  <2>2. FailuresAreOpen' /\ RowsMoveForward
    BY <1>0, <2>1, RowOpens
  <2>3. CallIsMarked' /\ TodoIsPending' /\ SteerIsUrgent'
    BY <1>0, <2>1 DEF DeliveryInv, CallIsMarked, TodoIsPending, SteerIsUrgent, TypeOK, StoreTypeOK
  <2> QED BY <2>2, <2>3 DEF DeliveryInv
<1>11. CASE SettlingFails
  <2>1. /\ Settleable # {} /\ current \in Batches /\ batchState[current] # "absent"
        /\ \E counts \in CountsOfSettling : DeliveryFails(counts, current, FALSE)
    BY <1>0, <1>11 DEF SettlingFails, DeliveryInv, CallIsMarked
  <2>2. PICK counts \in CountsOfSettling : DeliveryFails(counts, current, FALSE)
    BY <2>1
  <2>3. counts \in [Batches -> 0..MaxAttempts] /\ OfOpenRows(counts)
    BY <1>0, <2>1, SettlingCounts, SettlingCountsOfOpenRows
  <2> QED BY <2>1, <2>2, <2>3, FailureMovesForward
<1>12. CASE BoundSettled
  <2>1. /\ pc = "bound" /\ pc' = "deliver" /\ current' = NoBatch /\ todo' = todo
        /\ UNCHANGED <<batchState, attempts>>
    BY <1>12 DEF BoundSettled, CallEnds
  <2>2. DeliveryInv'
    BY <2>1 DEF DeliveryInv, CallIsMarked, FailuresAreOpen, TodoIsPending, SteerIsUrgent
  <2> QED BY <2>1, <2>2, SameRows
<1>13. CASE Crash
  BY <1>13, StopForgets, SameRows DEF Crash
<1>14. CASE Environment \/ UNCHANGED vars
  <2>1. Crash \/ UNCHANGED <<batchState, attempts, todo, pc, current, method>>
    BY <1>14 DEF Environment, vars, MailArrives, MailBecomesReadable, TurnCompletes, TurnFails,
                 Notification, RetryDue, RetryTimeArrives, WindowEnds, ServerDies
  <2> QED BY <1>13, <2>1, DeliveryFrame, SameRows
<1> QED BY <1>1, <1>2, <1>3, <1>4, <1>5, <1>6, <1>7, <1>8, <1>9, <1>10, <1>11, <1>12, <1>14
        DEF Next, KernelStep

LEMMA DeliveryAgrees == Spec => [](TypeInv /\ DeliveryInv)
<1>1. TypeInv /\ DeliveryInv /\ [Next]_vars => DeliveryInv'
  BY DeliveryStep
<1> QED BY <1>1, TypeInit, TypeStep, DeliveryInit, PTL DEF Spec

-----------------------------------------------------------------------------
(* Once accepted or dead-lettered a batch is never touched again, and no   *)
(* row is ever removed, although deadLetter itself checks no state. *)
THEOREM SettledStays == Spec => SettledIsFinal
<1>1. TypeInv /\ DeliveryInv /\ [Next]_vars =>
        \A b \in Outbox :
            /\ batchState'[b] # "absent"
            /\ batchState[b] \in {"accepted", "dead_letter"} => batchState'[b] = batchState[b]
  BY DeliveryStep DEF RowsMoveForward
<1> QED BY <1>1, DeliveryAgrees, PTL DEF Spec, SettledIsFinal

(* Only the app server's acceptance of a request adds input to a turn, and *)
(* the request is for the current batch. *)
LEMMA InputGrowsByCurrent ==
    ASSUME TypeInv, DeliveryInv, [Next]_vars, NEW t \in TurnIds, turnInput'[t] # turnInput[t]
    PROVE  /\ pc = "calling" /\ current \in Batches
           /\ \/ turnInput'[t] = <<current>>
              \/ turnInput'[t] = Append(turnInput[t], current) /\ method = "turn/steer"
<1> USE DEF storeVars, threadVars, mailVars, memoryVars, callVars, sessionVars
<1>1. CASE ServerAccepts
  <2>1. PICK u \in TurnIds :
          \/ method = "turn/start" /\ ServerStartsTurn(u, current)
          \/ method = "turn/steer" /\ ServerSteersTurn(u, current)
    BY <1>1 DEF ServerAccepts
  <2>2. pc = "calling" /\ current \in Batches
    BY <1>1 DEF ServerAccepts, TypeInv, MemoryInv
  <2> QED BY <2>1, <2>2 DEF ServerStartsTurn, ServerSteersTurn, TypeInv, TypeOK, ThreadTypeOK
<1>2. CASE ~ServerAccepts
  <2>1. turnInput' = turnInput
    BY <1>2 DEF Next, KernelStep, Environment, vars, Start, SessionOpens, Replay, Rebatch, Settle,
       Poll, Enqueue, LoadOutbox, PassEnds, SkipOrQueue, BeginDelivery, EncodeOrMarkFails, DeliveryFails, Stop,
       SessionCloses, SessionRemembers, SessionRefuses, ServerRefuses, Response,
       ResponseHandled, ResponseLost, Bind, BindFails, SettlingFails, BoundSettled, MailArrives,
       MailBecomesReadable, TurnCompletes, TurnFails, TurnEnds, Notification,
       TurnStartedNotification, TerminalNotification, RetryDue, WindowEnds, ServerDies,
       AppServerExits, Crash
  <2> QED BY <2>1
<1> QED BY <1>1, <1>2

(* Whatever reaches the app server is marked delivering at that moment. *)
THEOREM MarkedBeforeSent == Spec => WriteAhead
<1>1. ASSUME TypeInv, DeliveryInv, [Next]_vars, NEW t \in TurnIds, turnInput'[t] # turnInput[t]
      PROVE  batchState[turnInput'[t][Len(turnInput'[t])]] = "delivering"
  <2>1. batchState[current] = "delivering" /\ current \in Batches
    BY <1>1, InputGrowsByCurrent DEF DeliveryInv, CallIsMarked
  <2>2. turnInput[t] \in Seq(Batches)
    BY <1>1 DEF TypeInv, TypeOK, ThreadTypeOK
  <2>3. turnInput'[t] = <<current>> \/ turnInput'[t] = Append(turnInput[t], current)
    BY <1>1, InputGrowsByCurrent
  <2>4. turnInput'[t][Len(turnInput'[t])] = current
    <3> DEFINE old == turnInput[t]
               new == turnInput'[t]
    <3>1. old \in Seq(Batches) /\ (new = <<current>> \/ new = Append(old, current))
      BY <2>2, <2>3
    <3> HIDE DEF old, new
    <3>2. new[Len(new)] = current
      BY <2>1, <3>1
    <3> QED BY <3>2 DEF new
  <2> QED BY <2>1, <2>4
<1>2. TypeInv /\ DeliveryInv /\ [Next]_vars =>
        \A t \in TurnIds : turnInput'[t] # turnInput[t] =>
            batchState[turnInput'[t][Len(turnInput'[t])]] = "delivering"
  BY <1>1
<1> QED BY <1>2, DeliveryAgrees, PTL DEF Spec, WriteAhead

(* Routine mail never enters a turn that is already running. *)
THEOREM OnlyUrgentSteers == Spec => []RoutineNeverSteers
<1>1. Init => RoutineNeverSteers
  BY DEF Init, ThreadInit, RoutineNeverSteers
<1>2. TypeInv /\ DeliveryInv /\ RoutineNeverSteers /\ [Next]_vars => RoutineNeverSteers'
  <2> SUFFICES ASSUME TypeInv, DeliveryInv, RoutineNeverSteers, [Next]_vars,
                      NEW t \in TurnIds, NEW i \in 2..Len(turnInput'[t])
               PROVE  IsUrgent(turnInput'[t][i])
    BY DEF RoutineNeverSteers
  <2>1. CASE turnInput'[t] = turnInput[t]
    BY <2>1 DEF RoutineNeverSteers
  <2>2. CASE turnInput'[t] # turnInput[t]
    <3>1. turnInput[t] \in Seq(Batches)
      BY DEF TypeInv, TypeOK, ThreadTypeOK
    <3>2. CASE turnInput'[t] = <<current>>
      BY <3>2
    <3>3. CASE turnInput'[t] = Append(turnInput[t], current) /\ method = "turn/steer"
      <4>1. IsUrgent(current) /\ current \in Batches
        BY <2>2, <3>3, InputGrowsByCurrent DEF DeliveryInv, SteerIsUrgent
      <4>2. CASE i \in 2..Len(turnInput[t])
        BY <3>1, <3>3, <4>1, <4>2 DEF RoutineNeverSteers
      <4>3. CASE i = Len(turnInput[t]) + 1
        BY <3>1, <3>3, <4>1, <4>3
      <4> QED BY <3>1, <3>3, <4>1, <4>2, <4>3
    <3> QED BY <2>2, <3>2, <3>3, InputGrowsByCurrent
  <2> QED BY <2>1, <2>2
<1> QED BY <1>1, <1>2, DeliveryAgrees, PTL DEF Spec
=============================================================================
