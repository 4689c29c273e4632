----------------------------- MODULE MCComponents -----------------------------
(***************************************************************************)
(* The components that keep a state of their own and meet the rest of the  *)
(* program through one call at a time.  They share no variable, so a       *)
(* behaviour exercises one of them, `part`, and the others rest.           *)
(***************************************************************************)
EXTENDS BurstBatcher, Reconnect, StoreTwins, Migrations, RecoveryCommands,
        HandoffCommands, ControlSurface

VARIABLE part

Parts == {"batcher", "reconnect", "replay", "twins", "migrations", "recovery", "handoff",
          "control"}

mcVars == <<part, batcherVars, reconnectVars, twinVars, migrationVars, recoveryVars,
            handoffVars, request>>

MCEventKinds ==
    {[size |-> 1, rank |-> 0], [size |-> 4, rank |-> 1], [size |-> 1, rank |-> 3]}
MCMaxAttempts == [connect |-> 3, delivery |-> 2]
MCMaxElapsed == [connect |-> 2, delivery |-> 2]
MCBaseDelay == [connect |-> 1, delivery |-> 1]
MCMaxDelay == [connect |-> 2, delivery |-> 2]
MCSeedRows == {r \in Seeds : r.cursor = 1 /\ r.pending = {} /\ r.dead = BatchNames}

(* A part at rest has one state. *)
Resting(p, state, value) == part # p => state = value

MCInit ==
    /\ part \in Parts
    /\ BatcherInit /\ Resting("batcher", collapse, FALSE)
    /\ ReconnectInit /\ TwinsInit
    /\ MigrationsInit
    /\ Resting("migrations", process,
               [p \in Migrators |-> [at |-> "idle", release |-> 1, from |-> 0, hook |-> FALSE]])
    /\ RecoveryInit
    /\ HandoffCommandsInit /\ Resting("handoff", stored, Absent)
    /\ IF part = "control" THEN ControlInit
       ELSE request = CHOOSE r \in ControlRequests : ~r.confirm

Steps(p, next) == part = p /\ next /\ UNCHANGED part

MCNext ==
    \/ /\ Steps("batcher", BatcherNext)
       /\ UNCHANGED <<reconnectVars, twinVars, migrationVars, recoveryVars, handoffVars, request>>
    \/ /\ Steps("reconnect", ReconnectNext) \/ Steps("replay", ReplayNext)
       /\ UNCHANGED <<batcherVars, twinVars, migrationVars, recoveryVars, handoffVars, request>>
    \/ /\ Steps("twins", TwinsNext)
       /\ UNCHANGED <<batcherVars, reconnectVars, migrationVars, recoveryVars, handoffVars, request>>
    \/ /\ Steps("migrations", MigrationsNext)
       /\ UNCHANGED <<batcherVars, reconnectVars, twinVars, recoveryVars, handoffVars, request>>
    \/ /\ Steps("recovery", RecoveryNext)
       /\ UNCHANGED <<batcherVars, reconnectVars, twinVars, migrationVars, handoffVars, request>>
    \/ /\ Steps("handoff", HandoffCommandsNext)
       /\ UNCHANGED <<batcherVars, reconnectVars, twinVars, migrationVars, recoveryVars, request>>
    \/ /\ Steps("control", ControlNext)
       /\ UNCHANGED <<batcherVars, reconnectVars, twinVars, migrationVars, recoveryVars, handoffVars>>

MCSpec == MCInit /\ [][MCNext]_mcVars

Symmetry == Permutations(Operators)

(* The inductive invariants of the components. *)
ComponentsInv ==
    /\ part \in Parts
    /\ BatcherInv
    /\ ReconnectInv
    /\ TwinsInv
    /\ MigrationsInv
    /\ RecoveryInv
    /\ HandoffInv
    /\ request \in ControlRequests

(* What an operator relies on, of three surfaces: recovery_commands.ts     *)
(* explains and keeps what it changes, handoff.ts keeps the queue and the  *)
(* idle thread across owners, control.ts answers consistently.             *)
OperatorPromise == RecoveryPromise /\ HandoffPromise /\ ControlPromise
=============================================================================
