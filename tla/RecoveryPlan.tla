----------------------------- MODULE RecoveryPlan -----------------------------
(***************************************************************************)
(* reconcileRecovery (kernel/recovery.ts): the replay plan for a durable   *)
(* state, a pure function of the cursor, the outbox and the observed mail. *)
(* Nothing in src/ but its tests calls it; the kernel recovers by its own  *)
(* passes (module IngressKernel).  Here it is asked about every durable    *)
(* state the kernel leaves behind, at any point of a pass or a crash.      *)
(***************************************************************************)
EXTENDS IngressKernel

(* The last message of the accepted batches, 0 when there is none. *)
MaxAcceptedCursor == Max({Last(b) : b \in InState("accepted")} \cup {0})

AcceptanceWithoutCursor ==
    \/ \E b \in InState("accepted") : acceptedTurn[b] = NoTurn
    \/ MaxAcceptedCursor > cursor

CursorWithoutAcceptance == cursor > 0 /\ MaxAcceptedCursor < cursor

Refuses == AcceptanceWithoutCursor \/ CursorWithoutAcceptance

(* A batch covers its whole range of ids, with the ids it does not carry.  *)
RangeOf(b) == First(b)..Last(b)
CoveredByRange == UNION {RangeOf(b) : b \in Outbox}

(* Mutant: dead letters do not count as covered. *)
ToRebatchOfLive == {m \in sourceEvents : m > cursor /\ \A b \in Outbox :
                    batchState[b] # "dead_letter" => m \notin RangeOf(b)}

ToRebatch == {m \in sourceEvents : m > cursor /\ m \notin CoveredByRange}

Deliver == InState("pending")
ReplayAmbiguous == InState("delivering")
RetainedDeadLetters == InState("dead_letter")

(* The plan is made of whole outbox rows: what it sends again it sends as  *)
(* the batch it was, what it rebatches is in no batch, and it leaves out   *)
(* no observed mail beyond the cursor.                                     *)
PlanIsComplete ==
    Refuses \/
        /\ \A m \in ToRebatch : \A b \in Outbox : m \notin b
        /\ \A m \in sourceEvents : m > cursor =>
             m \in ToRebatch \/ \E b \in Deliver \cup ReplayAmbiguous \cup RetainedDeadLetters : m \in b
=============================================================================
