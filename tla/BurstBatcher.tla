---------------------------- MODULE BurstBatcher ----------------------------
(***************************************************************************)
(* The burst batcher (batcher/mod.ts) on sequences of events, as a kernel  *)
(* pass and an operator's flush drive it, and the size of the turn text    *)
(* that is encoded from each batch (encode/mod.ts).                        *)
(*                                                                         *)
(* An event is its id, the bytes of its subject, the rank of its task      *)
(* state (0: its subject names none; all of them name one task) and the    *)
(* time it was added.  Byte counts are scaled down; what is kept of them   *)
(* is that the batcher's overhead per event exceeds the encoder's, by      *)
(* enough for the encoder's frame once a batch comes near the cap.         *)
(***************************************************************************)
EXTENDS Integers, SequencesExt

CONSTANTS
    EventKinds, \* [size, rank] of the events a behaviour may add
    MaxEvents,  \* maxEvents, 50: the kernel passes no caps, so the defaults hold
    MaxBytes,   \* maxBytes, and the encoder's MAX_ENCODED_BYTES: 32 KiB both
    Overhead,   \* PER_EVENT_OVERHEAD
    LineCost,   \* what the encoder adds to each subject: "- #id ", and the id again
    Frame,      \* the encoder's delimiters and instructions
    WindowMs,   \* the window; zero is refused by the configuration
    MaxAdded,   \* bound: events added
    MaxNow      \* bound: the clock

ASSUME BatcherAssumption ==
    /\ \A k \in EventKinds : k.size \in Nat /\ k.rank \in 0..3
    /\ {MaxEvents, MaxBytes, WindowMs} \subseteq Nat \ {0}
    /\ {Overhead, LineCost, Frame, MaxAdded, MaxNow} \subseteq Nat

(* A batch of one event encodes: the mailbox skips subjects beyond 512     *)
(* bytes (mailbox/fs.ts, SUBJECT_MAX_BYTES).  Of a longer batch either the *)
(* lines are far from the cap, or what the batcher counts for them beyond  *)
(* the encoder makes up for the frame: 50 events at most, 64 bytes of      *)
(* overhead, ids of a dozen digits, a frame below 1 KiB.                   *)
ASSUME SizesAssumption ==
    /\ \A k \in EventKinds : k.size + LineCost + Frame <= MaxBytes
    /\ \A n \in 2..MaxEvents :
         \/ n * Overhead >= n * LineCost + Frame
         \/ \A k \in EventKinds : n * (k.size + LineCost) + Frame <= MaxBytes

VARIABLES
    collapse,  \* deterministicCollapse
    buffer,
    windowEnds, \* windowEndsAt, NoWindow for null
    clock,     \* the time now
    lastPass,  \* history: when add was called last
    added,     \* history: every event given to add
    sealed     \* history: the batches that came out, in order

batcherVars == <<collapse, buffer, windowEnds, clock, lastPass, added, sealed>>

NoWindow == -1

Events ==
    [id : 1..MaxAdded, size : {k.size : k \in EventKinds}, rank : {k.rank : k \in EventKinds},
     at : 0..MaxNow]

BatcherTypeOK ==
    /\ collapse \in BOOLEAN
    /\ buffer \in Seq(Events) /\ added \in Seq(Events) /\ sealed \in Seq(Seq(Events))
    /\ \A s \in {buffer, added} : Len(s) <= MaxAdded
    /\ windowEnds \in {NoWindow} \cup 0..MaxNow + WindowMs
    /\ clock \in 0..MaxNow /\ lastPass \in 0..MaxNow
    /\ Len(sealed) <= MaxAdded

BatcherInit ==
    /\ collapse \in BOOLEAN
    /\ buffer = <<>> /\ windowEnds = NoWindow
    /\ clock = 0 /\ lastPass = 0
    /\ added = <<>> /\ sealed = <<>>

-----------------------------------------------------------------------------
(* Sizes *)

(* collapseTaskStateSequence: of a run of task states whose ranks do not   *)
(* fall, the last one is visible.                                          *)
Hidden(s, i) ==
    /\ collapse
    /\ i < Len(s)
    /\ s[i].rank > 0 /\ s[i + 1].rank >= s[i].rank

Total(counts) ==
    LET total[n \in 0..Len(counts)] == IF n = 0 THEN 0 ELSE total[n - 1] + counts[n]
    IN  total[Len(counts)]

VisibleBytes(s) ==
    Total([i \in 1..Len(s) |-> IF Hidden(s, i) THEN 0 ELSE s[i].size + Overhead])

EncodedBytes(s) == Frame + Total([i \in 1..Len(s) |-> s[i].size + LineCost])

Fits(s) == Len(s) <= MaxEvents /\ VisibleBytes(s) <= MaxBytes

(* Mutant: the prefix counts the event that no longer fits. *)
PrefixLengthOffByOne(s) ==
    Max({n \in 1..Len(s) : \A k \in 2..n - 1 : Fits(SubSeq(s, 1, k))})

(* takePrefixWithinCaps: grown one event at a time while it fits, and one  *)
(* event at least.                                                         *)
PrefixLength(s) == Max({n \in 1..Len(s) : \A k \in 2..n : Fits(SubSeq(s, 1, k))})

PrefixOf(s) == SubSeq(s, 1, PrefixLength(s))
LeftFrom(s, i) == SubSeq(s, i, Len(s))

(* drainAll: the buffer in pieces; of what is left from each position on.  *)
Drained(s) ==
    LET drained[i \in 1..Len(s) + 1] ==
            LET rest == LeftFrom(s, i)
            IN  IF rest = <<>> THEN <<>>
                ELSE <<PrefixOf(rest)>> \o drained[i + PrefixLength(rest)]
    IN  drained[1]

(* What a buffer beyond its caps gives off, and what stays.                *)
Overflow(s) ==
    LET over[i \in 1..Len(s) + 1] ==
            LET rest == LeftFrom(s, i)
                later == over[i + PrefixLength(rest)]
            IN  IF Fits(rest) THEN [out |-> <<>>, rest |-> rest]
                ELSE [out |-> <<PrefixOf(rest)>> \o later.out, rest |-> later.rest]
    IN  over[1]

-----------------------------------------------------------------------------
(* One event pushed: an empty buffer opens a window, a full one gives off. *)
(* What stays behind keeps the window of the events before it.             *)
Pushed(b, e) ==
    LET over == Overflow(Append(b.buffer, e))
    IN  [buffer |-> over.rest,
         out    |-> b.out \o over.out,
         window |-> IF b.buffer = <<>> THEN clock + WindowMs ELSE b.window]

Closed ==
    IF windowEnds # NoWindow /\ clock >= windowEnds /\ buffer # <<>>
    THEN [buffer |-> <<>>, out |-> Drained(buffer), window |-> NoWindow]
    ELSE [buffer |-> buffer, out |-> <<>>, window |-> windowEnds]

(* add, as a kernel pass calls it.  The flush that follows it there, for a *)
(* window that is over by then, is out of reach: add closes such a window  *)
(* first, and a new one ends later than now.                               *)
Add(kinds) ==
    LET events == [i \in 1..Len(kinds) |->
                    [id |-> Len(added) + i, size |-> kinds[i].size,
                     rank |-> kinds[i].rank, at |-> clock]]
        pushed[i \in 0..Len(kinds)] ==
            IF i = 0 THEN Closed ELSE Pushed(pushed[i - 1], events[i])
        b == pushed[Len(kinds)]
    IN  /\ Len(added) + Len(kinds) <= MaxAdded
        /\ added' = added \o events
        /\ buffer' = b.buffer /\ windowEnds' = b.window
        /\ sealed' = sealed \o b.out
        /\ lastPass' = clock
        /\ UNCHANGED <<collapse, clock>>

(* flush: the first of the drained batches; others would be gone. *)
Flush ==
    /\ buffer # <<>>
    /\ sealed' = Append(sealed, Head(Drained(buffer)))
    /\ buffer' = <<>> /\ windowEnds' = NoWindow
    /\ UNCHANGED <<collapse, clock, lastPass, added>>

BatcherTick ==
    /\ clock < MaxNow
    /\ clock' = clock + 1
    /\ UNCHANGED <<collapse, buffer, windowEnds, lastPass, added, sealed>>

BatcherNext ==
    \/ \E n \in 0..2 : \E kinds \in [1..n -> EventKinds] : Add(kinds)
    \/ Flush
    \/ BatcherTick

-----------------------------------------------------------------------------
(* Properties *)

(* The batches and the buffer together are the mail that came in, each     *)
(* event once and in order: through early flushes, closed windows and an   *)
(* operator's flush, with collapse or without.  A flush returns the first  *)
(* of the drained batches and drops the others; there are none, since what *)
(* an early flush leaves behind still fits up to each of its events.       *)
MailKeepsItsOrder == FlattenSeq(sealed) \o buffer = added

(* Without collapse, the encoder accepts what the batcher seals: its cap   *)
(* is on other bytes than the batcher's, and a batch it refuses is a dead  *)
(* letter.  (With it the encoder still writes the events that collapse     *)
(* hides from the batcher's count.)                                        *)
SealedBatchEncodes ==
    collapse \/ \A i \in DOMAIN sealed :
        Len(sealed[i]) <= MaxEvents /\ EncodedBytes(sealed[i]) <= MaxBytes

(* An event leaves the buffer by the first pass after its window: what     *)
(* stays behind an early flush, and what joins a window late, included.    *)
NobodyOverstays == \A i \in DOMAIN buffer : lastPass < buffer[i].at + WindowMs

BatcherPromise == MailKeepsItsOrder /\ SealedBatchEncodes /\ NobodyOverstays

(* The inductive invariant: what waits is within the caps, up to each of   *)
(* its events; every event counts once at most; and a window that holds    *)
(* events back is one that the last pass did not find over, opened no      *)
(* later than the first of them came.                                      *)
PrefixesFit(s) == \A n \in 0..Len(s) : Fits(SubSeq(s, 1, n))

WindowHolds ==
    /\ windowEnds <= clock + WindowMs
    /\ buffer # <<>> => lastPass < windowEnds
    /\ \A i \in DOMAIN buffer : windowEnds <= buffer[i].at + WindowMs

BatcherInv ==
    /\ BatcherTypeOK
    /\ PrefixesFit(buffer)
    /\ Len(sealed) + Len(buffer) <= Len(added)
    /\ MailKeepsItsOrder /\ SealedBatchEncodes
    /\ WindowHolds
=============================================================================
