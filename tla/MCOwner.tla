------------------------------ MODULE MCOwner -------------------------------
(***************************************************************************)
(* The parts of one owner, checked side by side: part, chosen at the       *)
(* start, says which of them moves.  The arbiter with several clients and  *)
(* the session share the arbiter's entries.                                *)
(***************************************************************************)
EXTENDS OwnerSession, ThreadLifecycle

VARIABLE part

MCRequests == 1..2
MCClients == {Self, "tui"}

allVars == <<vars, lifecycleVars, part>>

MCInit ==
    /\ part \in {"session", "arbiter", "lifecycle"}
    /\ OwnerInit
    /\ LifecycleInit
    /\ part # "session" => mode = "headless"
    /\ part # "lifecycle" => created = 0 /\ stored = 0

MCNext ==
    /\ UNCHANGED part
    /\ \/ part = "session" /\ OwnerNext /\ UNCHANGED lifecycleVars
       \/ part = "arbiter" /\ ArbiterNext
            /\ UNCHANGED <<lifecycleVars, wireVars, owner, call, calls, mode, open, gate>>
       \/ part = "lifecycle" /\ LifecycleNext /\ UNCHANGED vars

MCSpec == MCInit /\ [][MCNext]_allVars /\ OwnerFairness

(* The inductive invariants of the parts.  The session's relates requests  *)
(* to frames, which the arbiter's part has none of.                        *)
OwnersInv ==
    /\ OwnerTypeOK /\ LifecycleTypeOK
    /\ ArbiterInv
    /\ part = "session" => OwnerInv
=============================================================================
