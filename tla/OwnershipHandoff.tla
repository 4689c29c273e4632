-------------------------- MODULE OwnershipHandoff --------------------------
(***************************************************************************)
(* Handing the bound thread from the daemon to a human and back:           *)
(* the daemon's main procedure and session (operator/production_run.ts),   *)
(* its authority and the commands that talk to it over a unix socket       *)
(* (operator/live_ownership.ts), the owner adapter (kernel/production.ts)  *)
(* and the hand-off automaton behind it (owner/handoff.ts).                *)
(*                                                                         *)
(* A step is the code between two awaits.  One binding, one thread: thread *)
(* ids agree, as the configuration names the only one.  TurnSession runs   *)
(* in headless mode here and answers server requests at once, so           *)
(* unresolvedRequestIds is empty at every await (module OwnerSession).     *)
(***************************************************************************)
EXTENDS Integers

CONSTANTS
    MaxCommands, \* bound: invocations of release-owner and acquire-owner
    MaxFaults,   \* bound: crashes, signals, failed spawns, slow starts, CLI timeouts
    SlowPersist  \* may a daemon start while a command still holds an acknowledgement

ASSUME HandoffAssumption ==
    /\ MaxCommands \in Nat
    /\ MaxFaults \in Nat
    /\ SlowPersist \in BOOLEAN

Commands == 1..MaxCommands
RequestIds == Commands  \* an id is named after the first command that carries it

Free == 0   \* no transition holds the authority
Main == -1  \* the first startSession, called by runProductionIngress itself

VARIABLES
    daemon,   \* the process: down, boot (control socket not served yet), serving, stopping
    session,  \* variable "session" and how far its kernel is
    turn,     \* the thread's turn as the TurnSession of that session knows it
    live,     \* LiveOwnerSnapshot: owner, connection, revision
    lock,     \* whose transition #serialize lets run
    step,     \* where that transition awaits
    cache,    \* #cache: the operation acknowledged under a request id
    inbox,    \* the daemon's side of each command's connection
    cli,      \* the command line's side of it
    durable,  \* owner in <owner-state>/<binding>.json
    told,     \* the human holds a resume command and no later acquire was issued
    carried,  \* history: request ids whose transition this daemon has carried out
    faults    \* faults so far

daemonVars == <<daemon, session, turn, live, lock, step, cache, inbox, carried>>
vars == <<daemonVars, cli, durable, told, faults>>

Kinds == {"release", "acquire"}
NewOwner(kind) == IF kind = "release" THEN "human" ELSE "headless"

TypeOK ==
    /\ daemon \in {"down", "boot", "serving", "stopping"}
    /\ session \in {"none", "starting", "acquired", "released", "ended"}
    /\ turn \in {"none", "calling", "active"}
    /\ live \in [owner : {"none", "human", "headless"}, open : BOOLEAN,
                 revision : 0..(MaxCommands + 1)]
    /\ lock \in Commands \cup {Free, Main}
    /\ step \in {"idle", "spawning", "proving", "aborting",
                 "checked", "closing", "closed"}
    /\ cache \in [RequestIds -> Kinds \cup {"none"}]
    /\ inbox \in [Commands -> {"none", "queued", "running", "ok", "refused"}]
    /\ cli \in [Commands -> [at : {"unused", "new", "snapped", "waiting", "acked",
                                   "done", "failed"},
                             kind : Kinds \cup {"none"}, id : RequestIds \cup {0},
                             revision : 0..(MaxCommands + 1)]]
    /\ durable \in {"absent", "headless", "human"}
    /\ told \in BOOLEAN
    /\ carried \subseteq RequestIds
    /\ faults \in 0..MaxFaults

Closed(owner) == [owner |-> owner, open |-> FALSE, revision |-> 0]

Init ==
    /\ daemon = "down" /\ session = "none" /\ turn = "none"
    /\ live = Closed("none")
    /\ lock = Free /\ step = "idle"
    /\ cache = [r \in RequestIds |-> "none"]
    /\ inbox = [c \in Commands |-> "none"]
    /\ cli = [c \in Commands |->
                [at |-> "unused", kind |-> "none", id |-> 0, revision |-> 0]]
    /\ durable = "absent"
    /\ told = FALSE
    /\ carried = {}
    /\ faults = 0

Fault ==
    /\ faults < MaxFaults
    /\ faults' = faults + 1

-----------------------------------------------------------------------------
(* The daemon process *)

(* A start reads the persisted owner.  While that is the human no session  *)
(* is opened and the control socket is served at once.  (systemd waits 5 s *)
(* before a restart; ~SlowPersist: a command that holds an acknowledgement *)
(* has written it by then.)                                                *)
Boot ==
    /\ daemon = "down"
    /\ SlowPersist \/ \A c \in Commands : cli[c].at # "acked"
    /\ IF durable = "human"
       THEN /\ daemon' = "serving" /\ live' = Closed("human")
            /\ UNCHANGED <<lock, step>>
       ELSE /\ daemon' = "boot" /\ live' = Closed("none")
            /\ lock' = Main /\ step' = "spawning"
    /\ UNCHANGED <<session, turn, cache, inbox, carried, cli, durable, told, faults>>

(* The process ends: its memory, its connections and its child go with it. *)
ProcessEnds ==
    /\ daemon' = "down" /\ session' = "none" /\ turn' = "none"
    /\ live' = Closed("none")
    /\ lock' = Free /\ step' = "idle"
    /\ cache' = [r \in RequestIds |-> "none"]
    /\ inbox' = [c \in Commands |-> "none"]
    /\ carried' = {}
    /\ UNCHANGED <<cli, durable, told>>

Crash ==
    /\ daemon # "down"
    /\ Fault
    /\ ProcessEnds

(* Mutation: nobody watches the kernel's task. *)
StopOnSignal ==
    /\ daemon = "serving"
    /\ Fault
    /\ daemon' = "stopping"
    /\ UNCHANGED <<session, turn, live, lock, step, cache, inbox, carried, cli, durable, told>>

(* "await stopped" returns: a signal, or the proven session's kernel ended *)
(* while it was still the current one.  The control socket closes;         *)
(* transitions already taken on keep running until the process exits.      *)
Stop ==
    /\ daemon = "serving"
    /\ \/ session = "ended" /\ live.open /\ UNCHANGED faults
       \/ Fault
    /\ daemon' = "stopping"
    /\ UNCHANGED <<session, turn, live, lock, step, cache, inbox, carried, cli, durable, told>>

Exit ==
    /\ daemon = "stopping"
    /\ ProcessEnds
    /\ UNCHANGED faults

-----------------------------------------------------------------------------
(* The transition that holds the authority *)

(* #serialize lets the next transition in, however this one ended. *)
Unlock ==
    /\ lock' = Free
    /\ step' = "idle"

(* Mutation: the lock is released on success only. *)
RefusedKeepingLock ==
    IF lock = Main
    THEN daemon' = "stopping" /\ Unlock /\ UNCHANGED inbox
    ELSE inbox' = [inbox EXCEPT ![lock] = "refused"] /\ UNCHANGED <<daemon, lock, step>>

(* It throws: the command is refused; a failed first start ends the run. *)
Refused ==
    /\ Unlock
    /\ IF lock = Main
       THEN daemon' = "stopping" /\ UNCHANGED inbox
       ELSE inbox' = [inbox EXCEPT ![lock] = "refused"] /\ UNCHANGED daemon

(* Mutation: the acknowledgement is not remembered. *)
AcknowledgedUncached(kind) ==
    /\ Unlock
    /\ inbox' = [inbox EXCEPT ![lock] = "ok"]
    /\ carried' = carried \cup {cli[lock].id}
    /\ UNCHANGED cache

(* It is acknowledged, and the acknowledgement remembered by request id. *)
Acknowledged(kind) ==
    /\ Unlock
    /\ inbox' = [inbox EXCEPT ![lock] = "ok"]
    /\ cache' = [cache EXCEPT ![cli[lock].id] = kind]
    /\ carried' = carried \cup {cli[lock].id}

(* liveSnapshot: the adapter answers only while it has the ownership. *)
OwnerAnswers == session = "acquired"

(* releaseOwnership of the adapter: the hand-off automaton takes over the  *)
(* turn the session knows of and refuses while there is one; after it the  *)
(* adapter refuses every operation of the kernel.                          *)
HandoffAllows == OwnerAnswers /\ turn # "active"

(* #checkedSnapshot: without a session "live" is the answer; a session     *)
(* whose owner is published but does not answer makes the snapshot throw.  *)
SnapshotAnswers == session = "none" \/ OwnerAnswers
SnapshotMayAnswer == SnapshotAnswers \/ session = "starting"

RevisionMatches(c) == cli[c].revision = live.revision

ReleaseAdmissible == live.owner = "headless" /\ turn # "active"

AcquireAdmissible == live.owner = "human"

(* What both operations require of the snapshot they take. *)
Admissible(c) ==
    /\ SnapshotAnswers
    /\ RevisionMatches(c)
    /\ IF cli[c].kind = "release" THEN ReleaseAdmissible ELSE AcquireAdmissible

(* The acknowledgement known under the request id is the answer, unless    *)
(* the id was used for the other operation.                                *)
AnsweredFromCache(c) ==
    /\ cache[cli[c].id] # "none"
    /\ inbox' = [inbox EXCEPT ![c] =
            IF cache[cli[c].id] = cli[c].kind THEN "ok" ELSE "refused"]
    /\ UNCHANGED <<lock, step>>

(* #serialize lets the requests in one after the other, as they came; each *)
(* is answered from the cache or checked against a fresh snapshot.         *)
Begin(c) ==
    /\ daemon \in {"serving", "stopping"}
    /\ inbox[c] = "queued" /\ \A d \in 1..(c - 1) : inbox[d] # "queued"
    /\ lock = Free
    /\ \/ AnsweredFromCache(c)
       \/ /\ cache[cli[c].id] = "none" /\ ~Admissible(c)
          /\ inbox' = [inbox EXCEPT ![c] = "refused"]
          /\ UNCHANGED <<lock, step>>
       \/ /\ cache[cli[c].id] = "none" /\ Admissible(c)
          /\ inbox' = [inbox EXCEPT ![c] = "running"]
          /\ lock' = c
          /\ step' = IF cli[c].kind = "release" THEN "checked" ELSE "spawning"
    /\ UNCHANGED <<daemon, session, turn, live, cache, carried, cli, durable, told, faults>>

(* Mutation: the revision also counts the release of the owner. *)
ReleaseOwnershipCounted ==
    /\ step = "checked"
    /\ IF HandoffAllows
       THEN /\ session' = "released"
            /\ live' = [live EXCEPT !.owner = "human", !.revision = @ + 1]
            /\ step' = "closing"
            /\ UNCHANGED <<daemon, lock, inbox>>
       ELSE Refused /\ UNCHANGED <<session, live>>
    /\ UNCHANGED <<turn, cache, carried, cli, durable, told, faults>>

(* The session is asked again before the owner changes. *)
ReleaseOwnership ==
    /\ step = "checked"
    /\ IF HandoffAllows
       THEN /\ session' = "released"
            /\ live' = [live EXCEPT !.owner = "human"]
            /\ step' = "closing"
            /\ UNCHANGED <<daemon, lock, inbox>>
       ELSE Refused /\ UNCHANGED <<session, live>>
    /\ UNCHANGED <<turn, cache, carried, cli, durable, told, faults>>

(* stopSession up to its first await: no session any more, the kernel is   *)
(* aborted and the child killed, with whatever it was doing.               *)
SessionStops ==
    /\ session' = "none"
    /\ turn' = "none"

CloseConnection ==
    /\ step = "closing"
    /\ SessionStops
    /\ step' = "closed"
    /\ UNCHANGED <<daemon, live, lock, cache, inbox, carried, cli, durable, told, faults>>

(* The kernel's task has ended; the connection counts as closed. *)
ReleaseDone ==
    /\ step = "closed"
    /\ live' = [live EXCEPT !.open = FALSE, !.revision = @ + 1]
    /\ Acknowledged("release")
    /\ UNCHANGED <<daemon, session, turn, cli, durable, told, faults>>

(* startSession: spawn, compose, run the kernel. *)
Spawn ==
    /\ step = "spawning" /\ session = "none"
    /\ session' = "starting"
    /\ step' = "proving"
    /\ UNCHANGED <<daemon, turn, live, lock, cache, inbox, carried, cli, durable, told, faults>>

SpawnFails ==
    /\ step = "spawning"
    /\ Fault
    /\ Refused
    /\ UNCHANGED <<session, turn, live, cache, carried, cli, durable, told>>

(* The poll finds an owner that answers: ownership counts as proven. *)
Proven ==
    /\ step = "proving" /\ session = "acquired"
    /\ live' = [owner |-> "headless", open |-> TRUE, revision |-> live.revision + 1]
    /\ IF lock = Main
       THEN daemon' = "serving" /\ Unlock /\ UNCHANGED <<inbox, cache, carried>>
       ELSE Acknowledged("acquire") /\ UNCHANGED daemon
    /\ UNCHANGED <<session, turn, cli, durable, told, faults>>

(* The deadline passes.  Nothing else ends the poll: a kernel that stopped *)
(* by itself is waited for all the same.                                   *)
StartTimesOut ==
    /\ step = "proving"
    /\ IF session = "ended" THEN UNCHANGED faults ELSE Fault
    /\ SessionStops
    /\ step' = "aborting"
    /\ UNCHANGED <<daemon, live, lock, cache, inbox, carried, cli, durable, told>>

StartAborted ==
    /\ step = "aborting"
    /\ Refused
    /\ UNCHANGED <<session, turn, live, cache, carried, cli, durable, told, faults>>

-----------------------------------------------------------------------------
(* The kernel in the session, and the turn it starts *)

KernelAcquires ==
    /\ session = "starting"
    /\ session' = "acquired"
    /\ UNCHANGED <<daemon, turn, live, lock, step, cache, inbox, carried, cli, durable, told, faults>>

(* Its run ends by itself: the lease is refused or lost, an error. *)
KernelEnds ==
    /\ session \in {"starting", "acquired", "released"}
    /\ Fault
    /\ session' = "ended" /\ turn' = "none"
    /\ UNCHANGED <<daemon, live, lock, step, cache, inbox, carried, cli, durable, told>>

StartTurn ==
    /\ session = "acquired" /\ turn = "none"
    /\ turn' = "calling"
    /\ UNCHANGED <<daemon, session, live, lock, step, cache, inbox, carried, cli, durable, told, faults>>

(* The response of turn/start: only now does the session know of the turn. *)
TurnStarted ==
    /\ turn = "calling"
    /\ turn' \in {"active", "none"}
    /\ UNCHANGED <<daemon, session, live, lock, step, cache, inbox, carried, cli, durable, told, faults>>

TurnEnds ==
    /\ turn = "active"
    /\ turn' = "none"
    /\ UNCHANGED <<daemon, session, live, lock, step, cache, inbox, carried, cli, durable, told, faults>>

-----------------------------------------------------------------------------
(* The command line *)

(* The control socket accepts connections. *)
Serving == daemon = "serving"

At(c, place) == cli' = [cli EXCEPT ![c].at = place]

Running(c) == cli[c].at \in {"new", "snapped", "waiting", "acked"}

(* The operator's discipline: one command at a time, and --request-id is   *)
(* given only to repeat the command just before; a fresh id otherwise.     *)
MayIssue(c, kind, id) ==
    /\ cli[c].at = "unused"
    /\ \A d \in 1..(c - 1) : cli[d].at \in {"done", "failed"}
    /\ \/ id = c
       \/ c > 1 /\ id = cli[c - 1].id /\ kind = cli[c - 1].kind

(* The human leaves the thread before anyone issues an acquire. *)
Issue(c, kind, id) ==
    /\ MayIssue(c, kind, id)
    /\ cli' = [cli EXCEPT ![c].at = "new", ![c].kind = kind, ![c].id = id]
    /\ told' = (told /\ kind = "release")
    /\ UNCHANGED <<daemonVars, durable, faults>>

TakeSnapshot(c) ==
    /\ cli[c].at = "new"
    /\ Serving /\ SnapshotMayAnswer
    /\ cli' = [cli EXCEPT ![c].at = "snapped", ![c].revision = live.revision]
    /\ UNCHANGED <<daemonVars, durable, told, faults>>

Send(c) ==
    /\ cli[c].at = "snapped"
    /\ Serving
    /\ inbox' = [inbox EXCEPT ![c] = "queued"]
    /\ At(c, "waiting")
    /\ UNCHANGED <<daemon, session, turn, live, lock, step, cache, carried, durable, told, faults>>

Receive(c) ==
    /\ cli[c].at = "waiting"
    /\ inbox[c] \in {"ok", "refused"}
    /\ At(c, IF inbox[c] = "ok" THEN "acked" ELSE "failed")
    /\ inbox' = [inbox EXCEPT ![c] = "none"]
    /\ UNCHANGED <<daemon, session, turn, live, lock, step, cache, carried, durable, told, faults>>

(* Mutation: the outcome is written before the daemon acknowledged it. *)
PersistEarly(c) ==
    /\ cli[c].at \in {"waiting", "acked"}
    /\ durable' = NewOwner(cli[c].kind)
    /\ told' = (cli[c].kind = "release")
    /\ At(c, "done")
    /\ UNCHANGED <<daemonVars, faults>>

(* The acknowledged owner is written, then the resume command printed. *)
Persist(c) ==
    /\ cli[c].at = "acked"
    /\ durable' = NewOwner(cli[c].kind)
    /\ told' = (cli[c].kind = "release")
    /\ At(c, "done")
    /\ UNCHANGED <<daemonVars, faults>>

(* The command fails: no daemon, no snapshot, a lost connection; or, at    *)
(* any point, it times out, is killed or cannot write.  The daemon goes on *)
(* with a request it has received.                                         *)
CommandFails(c) ==
    /\ Running(c)
    /\ \/ /\ \/ cli[c].at \in {"new", "snapped"} /\ ~Serving
             \/ cli[c].at = "new" /\ ~SnapshotAnswers
             \/ cli[c].at = "waiting" /\ inbox[c] = "none"
          /\ UNCHANGED faults
       \/ Fault
    /\ At(c, "failed")
    /\ UNCHANGED <<daemonVars, durable, told>>

-----------------------------------------------------------------------------
SessionNext == KernelAcquires \/ KernelEnds \/ StartTurn \/ TurnStarted \/ TurnEnds

TransitionNext ==
    \/ ReleaseOwnership \/ CloseConnection \/ ReleaseDone
    \/ Spawn \/ SpawnFails \/ Proven \/ StartTimesOut \/ StartAborted

CommandNext(c) ==
    \/ \E kind \in Kinds, id \in RequestIds : Issue(c, kind, id)
    \/ TakeSnapshot(c) \/ Send(c) \/ Receive(c) \/ Persist(c)
    \/ CommandFails(c) \/ Begin(c)

Next ==
    \/ Boot \/ Crash \/ Stop \/ Exit
    \/ TransitionNext \/ SessionNext
    \/ \E c \in Commands : CommandNext(c)

Spec == Init /\ [][Next]_vars

(* The process and a running command keep going, systemd restarts the      *)
(* service, a poll meets its deadline; nobody has to issue a command, and  *)
(* no fault has to happen.                                                 *)
Fairness ==
    /\ WF_vars(Boot) /\ WF_vars(Exit)
    /\ WF_vars(Stop /\ UNCHANGED faults)
    /\ WF_vars(ReleaseOwnership) /\ WF_vars(CloseConnection) /\ WF_vars(ReleaseDone)
    /\ WF_vars(Spawn) /\ WF_vars(Proven) /\ WF_vars(StartAborted)
    /\ WF_vars(StartTimesOut /\ UNCHANGED faults)
    /\ WF_vars(KernelAcquires)
    /\ \A c \in Commands :
          /\ WF_vars(TakeSnapshot(c)) /\ WF_vars(Send(c)) /\ WF_vars(Receive(c))
          /\ WF_vars(Persist(c)) /\ WF_vars(Begin(c))
          /\ WF_vars(CommandFails(c) /\ UNCHANGED faults)

FairSpec == Spec /\ Fairness

-----------------------------------------------------------------------------
(* Properties *)

(* Whoever was told to resume the thread has it alone: from then until the *)
(* next acquire is issued no session of the daemon exists, whatever        *)
(* crashes, restarts, timeouts and repeated commands come in between.      *)
HumanHasThreadAlone == told => session = "none" /\ turn = "none"

(* A repeated command gets the acknowledgement of the one it repeats, be   *)
(* that one still under way, done, or given up by its command line: a      *)
(* request id that was carried out is never refused.                       *)
RepeatIsAnswered ==
    [][\A c \in Commands :
          inbox[c] # "refused" /\ inbox'[c] = "refused" => cli[c].id \notin carried]_vars

(* A transition that has the authority gives it up, also when it fails and *)
(* when the kernel it waits for stopped without a word.                    *)
AuthorityIsFreed == \A h \in Commands \cup {Main} : lock = h ~> lock # h

(* Once the commands and the faults are over, the thread ends with one     *)
(* working owner: a session that has acquired it, or the human recorded    *)
(* for a daemon that serves the command to take it back.                   *)
SettlesOnOneOwner ==
    <>[](/\ daemon = "serving"
         /\ \/ session = "acquired" /\ live.owner = "headless"
            \/ session = "none" /\ live.owner = "human")

(* docs/plans/codex-agent-mail-ingress.md:384: a release waits for the     *)
(* turn; tearing the session down never cuts one off.                      *)
ReleaseInterruptsNoTurn == [][CloseConnection => turn = "none"]_vars

(* With all commands over, the recorded owner "human" means that no        *)
(* session runs.                                                           *)
RecordedHumanIsAlone ==
    durable = "human" /\ lock = Free
        /\ (\A c \in Commands : ~Running(c) /\ inbox[c] # "queued")
    => session = "none"

-----------------------------------------------------------------------------
(* The inductive invariant behind HumanHasThreadAlone and RepeatIsAnswered *)

Issued(c) == cli[c].at # "unused"
Sent(c)   == cli[c].at \notin {"unused", "new", "snapped"}

(* A command is issued when those before it are over, and its id names the *)
(* first of the run of commands that repeat one operation.                 *)
CommandsInTurn ==
    \A c, d \in Commands : d < c /\ Issued(c) => cli[d].at \in {"done", "failed"}

IdsNameFirst ==
    \A c \in Commands : Issued(c) =>
        /\ cli[c].kind \in Kinds
        /\ cli[c].id \in 1..c
        /\ \A d \in cli[c].id..c : cli[d].id = cli[c].id /\ cli[d].kind = cli[c].kind

(* A daemon that is down holds nothing, *)
DownIsEmpty ==
    daemon = "down" =>
        /\ session = "none" /\ turn = "none" /\ lock = Free
        /\ \A c \in Commands : inbox[c] = "none" /\ cache[c] = "none"

(* and one that runs holds only requests that were sent. *)
InboxWasSent == \A c \in Commands : inbox[c] # "none" => Sent(c)

(* The transition that holds the authority is the first start's or that of *)
(* the earliest request; its operation was not carried out before. *)
LockIsHeld ==
    /\ lock = Free <=> step = "idle"
    /\ lock = Main <=> daemon = "boot"
    /\ lock = Main => step \in {"spawning", "proving", "aborting"} /\ live.revision = 0
    /\ lock \in Commands =>
         /\ daemon # "down" /\ inbox[lock] = "running" /\ cache[cli[lock].id] = "none"
         /\ \A d \in Commands : inbox[d] = "queued" => d > lock
         /\ cli[lock].kind =
              IF step \in {"checked", "closing", "closed"} THEN "release" ELSE "acquire"
    /\ step \in {"closing", "closed"} => live.owner = "human"
    /\ step = "closed" => session = "none" /\ turn = "none"

(* What is remembered is what was carried out, and of the kind its id has. *)
CacheAgrees ==
    /\ carried = {r \in RequestIds : cache[r] # "none"}
    /\ \A r \in RequestIds : cache[r] # "none" => Issued(r) /\ cache[r] = cli[r].kind

(* Each request is carried out once, so the revision counts no more than   *)
(* the first start and the requests before the next one.                   *)
RevisionCounts ==
    \A c \in Commands :
        ~Sent(c) \/ inbox[c] = "queued" \/ lock = c => live.revision <= c

(* No session runs and no transition or request could bring one back. *)
HumanAtRest ==
    /\ session = "none" /\ turn = "none" /\ lock = Free
    /\ daemon = "down" \/ (daemon # "boot" /\ live.owner = "human")
    /\ \A c \in Commands : inbox[c] = "queued" => cli[c].kind = "release"

(* The last command issued is a release, and it was acknowledged. *)
AtStake(c) ==
    /\ Issued(c) /\ cli[c].kind = "release"
    /\ \A d \in Commands : d > c => ~Issued(d)
    /\ \/ cli[c].at = "acked"
       \/ cli[c].at = "waiting" /\ inbox[c] = "ok"
       \/ cache[cli[c].id] # "none"

(* So it is from that acknowledgement, wherever it is on its way, *)
ReleaseHolds == \A c \in Commands : AtStake(c) => HumanAtRest

(* and from the moment the human was told, which the owner file survives. *)
ToldHolds ==
    told =>
        /\ HumanAtRest
        /\ durable = "human"
        /\ \A c \in Commands : Running(c) => cli[c].kind = "release"

(* Daemon, commands and owner file agree in every state (live_ownership.ts, *)
(* production_run.ts and the commands of cli.ts); the last conjunct needs   *)
(* the service's restart delay.                                             *)
HandoffInv ==
    /\ TypeOK
    /\ CommandsInTurn
    /\ IdsNameFirst
    /\ DownIsEmpty
    /\ InboxWasSent
    /\ LockIsHeld
    /\ CacheAgrees
    /\ RevisionCounts
    /\ ~SlowPersist => ReleaseHolds /\ ToldHolds
=============================================================================
