--------------------------- MODULE HandoffCommands ---------------------------
(***************************************************************************)
(* The hand-off automaton (owner/handoff.ts) with everything it offers,    *)
(* and the offline commands that restore it from the stored owner row,     *)
(* move it and save it (operator/ownership_commands.ts).  The live daemon  *)
(* is module OwnershipHandoff; here the owner of the automaton, the store  *)
(* and the mail that is queued are the caller's (external).                *)
(*                                                                         *)
(* An automaton is a record; each operation answers one, or Refuses.  The  *)
(* commands load and save in two steps, so that two of them may overlap.   *)
(***************************************************************************)
EXTENDS Integers, SequencesExt

CONSTANTS
    CommandLines, \* who issues commands
    Turns,        \* turn ids
    Requests,     \* request ids
    MaxMailId,    \* bound: delivery ids; a delivery's sequence is its id
    MaxEnqueued   \* bound: deliveries enqueued

ASSUME HandoffCommandsAssumption == MaxMailId \in Nat /\ MaxEnqueued \in Nat

VARIABLES
    handoff,  \* the automaton of the process that owns the thread
    stored,   \* the owner row: the snapshot of an automaton, or Absent
    issued,   \* per command line: none, or the command and the row it loaded
    enqueued, \* history: ids in the order they were enqueued
    taken     \* history: [id, waiting] of each delivery taken, with what it was taken from

handoffVars == <<handoff, stored, issued, enqueued, taken>>

Absent == [owner |-> "absent"]
Refuses == [owner |-> "refused"]
NotIssued == [kind |-> "none"]

New == [owner |-> "headless", turn |-> "none", requests |-> {}, pending |-> <<>>]

MailIds == 1..MaxMailId
Automata ==
    [owner : {"headless", "human"}, turn : Turns \cup {"none"}, requests : SUBSET Requests,
     pending : Seq(MailIds)]
Rows == Automata \cup {Absent}

HandoffTypeOK ==
    /\ handoff \in Automata /\ stored \in Rows
    /\ issued \in [CommandLines -> {NotIssued} \cup [kind : {"ensure"}, row : Rows]
                                              \cup [kind : {"release", "acquire"}, row : Automata]]
    /\ enqueued \in Seq(MailIds) /\ Len(enqueued) <= MaxEnqueued
    /\ taken \in Seq([id : MailIds, waiting : SUBSET MailIds, busy : 0..MaxEnqueued])
    /\ Len(taken) <= MaxEnqueued

HandoffCommandsInit ==
    /\ handoff = New /\ stored \in {Absent, New}
    /\ issued = [c \in CommandLines |-> NotIssued]
    /\ enqueued = <<>> /\ taken = <<>>

-----------------------------------------------------------------------------
(* ExclusiveHandoff *)

InOrder(pending) ==
    LET places == DOMAIN pending
        order == CHOOSE p \in Bijection(places, places) :
                    \A j, k \in places : j < k => pending[p[j]] <= pending[p[k]]
    IN  [i \in places |-> pending[order[i]]]

(* releaseToHuman: only active protocol work blocks it. *)
Released(h) ==
    IF h.owner # "headless" \/ h.turn # "none" \/ h.requests # {} THEN Refuses
    ELSE [h EXCEPT !.owner = "human"]

(* reacquireHeadless, which must name the exact thread. *)
Reacquired(h, exactThread) ==
    IF h.owner # "human" \/ ~exactThread THEN Refuses
    ELSE [h EXCEPT !.owner = "headless"]

Becomes(h) == handoff' = h /\ UNCHANGED <<stored, issued>>

SetActiveTurn(t) ==
    /\ handoff.owner = "headless"
    /\ Becomes([handoff EXCEPT !.turn = t]) /\ UNCHANGED <<enqueued, taken>>

OpenRequest(r) ==
    /\ handoff.owner = "headless"
    /\ Becomes([handoff EXCEPT !.requests = @ \cup {r}]) /\ UNCHANGED <<enqueued, taken>>

ResolveRequest(r) ==
    /\ Becomes([handoff EXCEPT !.requests = @ \ {r}]) /\ UNCHANGED <<enqueued, taken>>

(* enqueue: mail arrives whoever owns the thread; an id that waits already *)
(* is not queued twice.                                                    *)
Enqueue(id) ==
    /\ Len(enqueued) < MaxEnqueued
    /\ enqueued' = Append(enqueued, id)
    /\ Becomes(IF Contains(handoff.pending, id) THEN handoff
               ELSE [handoff EXCEPT !.pending = Append(@, id)])
    /\ UNCHANGED taken

TakeNextForDelivery ==
    /\ handoff.owner = "headless" /\ handoff.pending # <<>>
    /\ LET sorted == InOrder(handoff.pending)
       IN  /\ Becomes([handoff EXCEPT !.pending = Tail(sorted)])
           /\ taken' = Append(taken, [id |-> Head(sorted), waiting |-> ToSet(Tail(sorted)),
                                      busy |-> Len(enqueued)])
    /\ UNCHANGED enqueued

ReleaseToHuman ==
    /\ Released(handoff) # Refuses
    /\ Becomes(Released(handoff)) /\ UNCHANGED <<enqueued, taken>>

ReacquireHeadless(exactThread) ==
    /\ Reacquired(handoff, exactThread) # Refuses
    /\ Becomes(Reacquired(handoff, exactThread)) /\ UNCHANGED <<enqueued, taken>>

-----------------------------------------------------------------------------
(* OwnershipCommands *)

LoadRow(c, kind) ==
    /\ issued[c] = NotIssued
    /\ kind = "ensure" \/ stored # Absent
    /\ issued' = [issued EXCEPT ![c] = [kind |-> kind, row |-> stored]]
    /\ UNCHANGED <<handoff, stored, enqueued, taken>>

(* What the command saves; Refuses when it throws before saving, and the   *)
(* row itself when there is nothing to save.                               *)
Answer(command, exactThread) ==
    CASE command.kind = "ensure"  -> IF command.row = Absent THEN New ELSE Refuses
      [] command.kind = "release" -> Released(command.row)
      [] command.kind = "acquire" -> Reacquired(command.row, exactThread)

SaveRow(c, exactThread) ==
    /\ issued[c] # NotIssued
    /\ issued' = [issued EXCEPT ![c] = NotIssued]
    /\ LET next == Answer(issued[c], exactThread)
       IN  stored' = IF next = Refuses THEN stored
                     ELSE [next EXCEPT !.pending = InOrder(@)]
    /\ UNCHANGED <<handoff, enqueued, taken>>

(* The owner may write its own state through the same store (external).    *)
StoreSnapshot ==
    /\ stored' = [handoff EXCEPT !.pending = InOrder(@)]
    /\ UNCHANGED <<handoff, issued, enqueued, taken>>

HandoffCommandsNext ==
    \/ \E t \in Turns \cup {"none"} : SetActiveTurn(t)
    \/ \E r \in Requests : OpenRequest(r) \/ ResolveRequest(r)
    \/ \E id \in MailIds : Enqueue(id)
    \/ TakeNextForDelivery \/ ReleaseToHuman
    \/ \E exact \in BOOLEAN : ReacquireHeadless(exact)
    \/ \E c \in CommandLines : \E kind \in {"ensure", "release", "acquire"} : LoadRow(c, kind)
    \/ \E c \in CommandLines, exact \in BOOLEAN : SaveRow(c, exact)
    \/ StoreSnapshot

-----------------------------------------------------------------------------
(* Properties *)

(* Mail that is queued across hand-offs is lost to none of them: an id     *)
(* waits, once, or was taken since it was last enqueued.                   *)
QueueSurvivesHandoffs ==
    /\ IsInjective(handoff.pending)
    /\ \A i \in DOMAIN enqueued :
         \/ Contains(handoff.pending, enqueued[i])
         \/ \E k \in DOMAIN taken : taken[k].id = enqueued[i] /\ taken[k].busy >= i

(* What is taken is the first, by sequence, of what waits. *)
TakenInSequence == \A k \in DOMAIN taken : \A id \in taken[k].waiting : taken[k].id < id

(* Whatever commands overlap, a row that says human was released from a    *)
(* state without a turn and without requests.                              *)
Idle(h) == h.owner = "human" => h.turn = "none" /\ h.requests = {}
HumanTakesOverIdle == Idle(handoff) /\ Idle(stored)

HandoffPromise == QueueSurvivesHandoffs /\ TakenInSequence /\ HumanTakesOverIdle

(* The inductive invariant: the rows that commands loaded are idle too, and*)
(* no delivery is both taken and waiting for one time it was enqueued.     *)
HandoffInv ==
    /\ HandoffTypeOK
    /\ HandoffPromise
    /\ \A c \in CommandLines : issued[c] # NotIssued => Idle(issued[c].row)
    /\ Len(taken) + Len(handoff.pending) <= Len(enqueued)
=============================================================================
