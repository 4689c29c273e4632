---------------------------- MODULE IngressDomain ----------------------------
(***************************************************************************)
(* Identifiers of the Agent Mail ingress: message ids, delivery batches,   *)
(* urgency and the burst batcher's cap, shared by every module about the   *)
(* delivery path.                                                          *)
(*                                                                         *)
(* A batch is identified by the set of message ids it carries.  The code's *)
(* key is "batch:<binding>:<first>-<last>" and the record keeps eventIds;  *)
(* both are functions of that set.                                         *)
(***************************************************************************)
EXTENDS Integers, FiniteSetsExt

CONSTANTS
    MaxMsg,      \* the mailbox bound: message ids are 1..MaxMsg
    UrgentMail,  \* ids of importance high/urgent or with ack_required
    MaxBatch     \* events a batch may carry (maxEvents, 50 in the code)

ASSUME DomainAssumption ==
    /\ MaxMsg \in Nat
    /\ MaxBatch \in Nat \ {0}
    /\ UrgentMail \subseteq 1..MaxMsg

MessageIds == 1..MaxMsg

NoBatch == {}
Batches == (SUBSET MessageIds) \ {NoBatch}

First(b) == Min(b)
Last(b)  == Max(b)

(* The outbox is read ORDER BY first_message_id. *)
Earliest(bs) == CHOOSE b \in bs : \A c \in bs : First(b) <= First(c)

(* The batch with the smallest last id: the order in which one turn's      *)
(* batches are settled.                                                    *)
EarliestEnding(bs) == CHOOSE b \in bs : \A c \in bs : Last(b) <= Last(c)

(* urgencyFromEvents: one urgent event makes the batch urgent. *)
IsUrgent(events) == events \cap UrgentMail # {}

(* Position, from 0, of the cap-sized piece of S that message m falls in   *)
(* when the ids of S are buffered in ascending order.                      *)
PieceOf(m, S) == (Cardinality({x \in S : x <= m}) - 1) \div MaxBatch

(* What the batcher seals while a buffer holding S exceeds its cap: every  *)
(* full piece that something follows.  The rest stays in the buffer.       *)
SealedBatches(S) ==
    { {x \in S : PieceOf(x, S) = PieceOf(m, S)} :
        m \in {y \in S : \E z \in S : PieceOf(y, S) < PieceOf(z, S)} }

=============================================================================
