----------------------------- MODULE CodexThread -----------------------------
(***************************************************************************)
(* The bound Codex thread as the kernel meets it: the private app server's *)
(* turns (external), and the TurnSession that mirrors them from responses  *)
(* and notifications (owner/turn_session.ts, owner/app_server_transport.ts)*)
(*                                                                         *)
(* A request's response is processed in two stages.  The transport's read  *)
(* loop resolves the request's promise and then dispatches the following   *)
(* lines of the same chunk before startTurn's continuation runs, so a      *)
(* terminal notification can overtake the response it follows on the wire. *)
(***************************************************************************)
EXTENDS DurableStore, Sequences

VARIABLES
    turnState,      \* each turn's state at the app server
    turnInput,      \* the batches each turn was given, in order
    serverUp,       \* is the app server process alive
    sessionTurn,    \* TurnSession.#activeTurnId
    terminals,      \* turns whose terminal notification the event pump has seen,
                    \* and turns of past sessions, which are never notified
    idempotency     \* TurnSession.#idempotency: the turn recorded for a batch

threadVars == <<turnState, turnInput, serverUp, sessionTurn, terminals, idempotency>>
sessionVars == <<sessionTurn, terminals, idempotency>>

TurnStates == {"unused", "active", "completed", "failed", "interrupted"}

ThreadTypeOK ==
    /\ turnState \in [TurnIds -> TurnStates]
    /\ turnInput \in [TurnIds -> Seq(Batches)]
    /\ serverUp \in BOOLEAN
    /\ sessionTurn \in TurnIds \cup {NoTurn}
    /\ terminals \subseteq TurnIds
    /\ idempotency \in [Batches -> TurnIds \cup {NoTurn}]

NoIdempotency == [b \in Batches |-> NoTurn]

ThreadInit ==
    /\ turnState = [t \in TurnIds |-> "unused"]
    /\ turnInput = [t \in TurnIds |-> <<>>]
    /\ serverUp = FALSE
    /\ sessionTurn = NoTurn
    /\ terminals = {}
    /\ idempotency = NoIdempotency

-----------------------------------------------------------------------------
(* The app server (external) *)

ThreadIdle == \A t \in TurnIds : turnState[t] # "active"

Received(b, t) == b \in Range(turnInput[t])

(* turn/start on an idle thread opens a fresh turn with the input. *)
ServerStartsTurn(t, b) ==
    /\ serverUp
    /\ ThreadIdle
    /\ turnState[t] = "unused"
    /\ \A u \in TurnIds : u < t => turnState[u] # "unused"
    /\ turnState' = [turnState EXCEPT ![t] = "active"]
    /\ turnInput' = [turnInput EXCEPT ![t] = <<b>>]
    /\ UNCHANGED <<serverUp, sessionVars>>

(* turn/steer adds the input to the turn while it still runs. *)
ServerSteersTurn(t, b) ==
    /\ serverUp
    /\ turnState[t] = "active"
    /\ turnInput' = [turnInput EXCEPT ![t] = Append(@, b)]
    /\ UNCHANGED <<turnState, serverUp, sessionVars>>

TurnEnds(t, outcome) ==
    /\ serverUp
    /\ turnState[t] = "active"
    /\ turnState' = [turnState EXCEPT ![t] = outcome]
    /\ UNCHANGED <<turnInput, serverUp, sessionVars>>

(* The process dies, and with it the turn it was running. *)
Interrupted ==
    [t \in TurnIds |-> IF turnState[t] = "active" THEN "interrupted" ELSE turnState[t]]

AppServerExits ==
    /\ serverUp
    /\ serverUp' = FALSE
    /\ turnState' = Interrupted
    /\ UNCHANGED <<turnInput, sessionVars>>

-----------------------------------------------------------------------------
(* The session *)

(* A new owner on a freshly spawned app server, with an empty session. *)
SessionOpens ==
    /\ serverUp' = TRUE
    /\ sessionTurn' = NoTurn
    /\ idempotency' = NoIdempotency
    /\ UNCHANGED <<turnState, turnInput, terminals>>

(* The owner goes away: its child process is killed or loses its stdin. *)
SessionCloses ==
    /\ serverUp' = FALSE
    /\ turnState' = Interrupted
    /\ sessionTurn' = NoTurn
    /\ terminals' = {t \in TurnIds : turnState[t] # "unused"}
    /\ idempotency' = NoIdempotency
    /\ UNCHANGED turnInput

(* turn/started: adopted only while the session believes the thread idle. *)
TurnStartedNotification(t) ==
    /\ serverUp
    /\ turnState[t] = "active"
    /\ sessionTurn = NoTurn
    /\ sessionTurn' = t
    /\ UNCHANGED <<turnState, turnInput, serverUp, terminals, idempotency>>

(* turn/completed and turn/failed: clear the active turn if it is this     *)
(* one, forget a failed turn's idempotency records, wake the event pump.   *)
TerminalNotification(t) ==
    /\ serverUp
    /\ turnState[t] \in {"completed", "failed"}
    /\ t \notin terminals
    /\ terminals' = terminals \cup {t}
    /\ sessionTurn' = IF sessionTurn = t THEN NoTurn ELSE sessionTurn
    /\ idempotency' = [b \in Batches |->
            IF turnState[t] = "failed" /\ idempotency[b] = t THEN NoTurn ELSE idempotency[b]]
    /\ UNCHANGED <<turnState, turnInput, serverUp>>

(* startTurn and steerTurn answer from the idempotency map when the key is *)
(* known (for a steer, only if it is bound to the expected turn).          *)
KnownAcceptance(b, method, expected) ==
    /\ serverUp
    /\ idempotency[b] # NoTurn
    /\ method = "turn/steer" => idempotency[b] = expected

(* The checks both methods make before they send a request. *)
SessionAllows(b, method, expected) ==
    /\ serverUp
    /\ idempotency[b] = NoTurn
    /\ sessionTurn = expected
    /\ method = "turn/start" <=> expected = NoTurn

(* The continuation of startTurn/steerTurn after the response arrived:     *)
(* startTurn records the turn as active, whatever was notified meanwhile.  *)
ResponseHandled(b, method, t) ==
    /\ sessionTurn' = IF method = "turn/start" THEN t ELSE sessionTurn
    /\ idempotency' = [idempotency EXCEPT ![b] = t]
    /\ UNCHANGED <<turnState, turnInput, serverUp, terminals>>

=============================================================================
