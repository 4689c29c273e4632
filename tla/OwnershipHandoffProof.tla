------------------------- MODULE OwnershipHandoffProof -------------------------
(***************************************************************************)
(* That a human who was told to resume the thread has it alone, and that a *)
(* repeated command is answered as the one it repeats, for any number of   *)
(* commands and faults.                                                    *)
(***************************************************************************)
EXTENDS OwnershipHandoff, TLAPS

USE HandoffAssumption

LEMMA HandoffStarts == Init => HandoffInv
<1> SUFFICES ASSUME Init PROVE HandoffInv
  OBVIOUS
<1> USE DEF Init, Closed, RequestIds, Commands, Free
<1>1. TypeOK
  <2>1. 0 \in 0..(MaxCommands + 1) /\ 0 \in 0..MaxFaults
    OBVIOUS
  <2>2. /\ live \in [owner : {"none", "human", "headless"}, open : BOOLEAN,
                     revision : 0..(MaxCommands + 1)]
        /\ cache \in [RequestIds -> Kinds \cup {"none"}]
        /\ inbox \in [Commands -> {"none", "queued", "running", "ok", "refused"}]
        /\ carried \subseteq RequestIds
    BY <2>1 DEF Kinds
  <2>3. cli \in [Commands -> [at : {"unused", "new", "snapped", "waiting", "acked",
                                   "done", "failed"},
                             kind : Kinds \cup {"none"}, id : RequestIds \cup {0},
                             revision : 0..(MaxCommands + 1)]]
    BY <2>1
  <2> QED BY <2>1, <2>2, <2>3 DEF TypeOK
<1>2. CommandsInTurn /\ IdsNameFirst /\ DownIsEmpty /\ InboxWasSent /\ CacheAgrees /\ RevisionCounts
  BY DEF CommandsInTurn, IdsNameFirst, DownIsEmpty, InboxWasSent, CacheAgrees, RevisionCounts,
         Issued, Sent
<1>3. LockIsHeld
  BY DEF LockIsHeld, Main
<1>4. ReleaseHolds /\ ToldHolds
  BY DEF ReleaseHolds, AtStake, Issued, ToldHolds
<1> QED BY <1>1, <1>2, <1>3, <1>4 DEF HandoffInv

-----------------------------------------------------------------------------
(* The human's part, for steps that put nothing new at stake *)

LEMMA RestFrame ==
    ASSUME ReleaseHolds, ToldHolds,
           \A c \in Commands : AtStake(c)' => AtStake(c),
           told' => told,
           HumanAtRest => HumanAtRest',
           durable' = durable,
           \A c \in Commands : Running(c)' => Running(c) /\ cli'[c].kind = cli[c].kind
    PROVE  ReleaseHolds' /\ ToldHolds'
BY DEF ReleaseHolds, ToldHolds

-----------------------------------------------------------------------------
(* The session moves; a transition waits *)

LEMMA SessionStep ==
    ASSUME HandoffInv, SessionNext
    PROVE  HandoffInv'
<1> USE DEF HandoffInv, daemonVars
<1>1. /\ UNCHANGED <<daemon, live, lock, step, cache, inbox, carried, cli, durable, told>>
      /\ session # "none" \/ turn # "none"
      /\ session' \in {"none", "starting", "acquired", "released", "ended"}
      /\ turn' \in {"none", "calling", "active"} /\ faults' \in 0..MaxFaults
  BY DEF SessionNext, KernelAcquires, KernelEnds, StartTurn, TurnStarted, TurnEnds, Fault, TypeOK
<1>2. TypeOK'
  BY <1>1 DEF TypeOK
<1>3. CommandsInTurn' /\ IdsNameFirst' /\ InboxWasSent' /\ CacheAgrees' /\ RevisionCounts'
  BY <1>1 DEF CommandsInTurn, IdsNameFirst, InboxWasSent, CacheAgrees, RevisionCounts, Issued, Sent
<1>4. DownIsEmpty' /\ LockIsHeld'
  BY <1>1 DEF DownIsEmpty, LockIsHeld
<1>5. ~SlowPersist => ReleaseHolds' /\ ToldHolds'
  <2> SUFFICES ASSUME ~SlowPersist PROVE ReleaseHolds' /\ ToldHolds'
    OBVIOUS
  <2>1. ~HumanAtRest
    BY <1>1 DEF HumanAtRest
  <2>2. (\A c \in Commands : AtStake(c)' => AtStake(c))
        /\ \A c \in Commands : Running(c)' => Running(c)
    BY <1>1 DEF AtStake, Issued, Running
  <2> QED BY <1>1, <2>1, <2>2, RestFrame
<1> QED BY <1>2, <1>3, <1>4, <1>5

(* A transition goes from one await to the next. *)
LEMMA TransitionWaits ==
    ASSUME HandoffInv, CloseConnection \/ Spawn \/ StartTimesOut
    PROVE  HandoffInv'
<1> USE DEF HandoffInv
<1>1. /\ UNCHANGED <<daemon, live, lock, cache, inbox, carried, cli, durable, told>>
      /\ session' \in {"none", "starting"} /\ turn' \in {"none", turn}
      /\ faults' \in 0..MaxFaults
      /\ \/ step = "closing" /\ step' = "closed" /\ session' = "none" /\ turn' = "none"
         \/ step = "spawning" /\ step' = "proving"
         \/ step = "proving" /\ step' = "aborting"
  BY DEF CloseConnection, Spawn, StartTimesOut, SessionStops, Fault, TypeOK
<1>2. lock # Free /\ daemon # "down"
  BY <1>1 DEF LockIsHeld, DownIsEmpty
<1>3. TypeOK'
  BY <1>1 DEF TypeOK
<1>4. CommandsInTurn' /\ IdsNameFirst' /\ InboxWasSent' /\ CacheAgrees' /\ RevisionCounts'
  BY <1>1 DEF CommandsInTurn, IdsNameFirst, InboxWasSent, CacheAgrees, RevisionCounts, Issued, Sent
<1>5. DownIsEmpty' /\ LockIsHeld'
  BY <1>1, <1>2 DEF DownIsEmpty, LockIsHeld
<1>6. ~SlowPersist => ReleaseHolds' /\ ToldHolds'
  <2> SUFFICES ASSUME ~SlowPersist PROVE ReleaseHolds' /\ ToldHolds'
    OBVIOUS
  <2>1. ~HumanAtRest
    BY <1>2 DEF HumanAtRest
  <2>2. (\A c \in Commands : AtStake(c)' => AtStake(c))
        /\ \A c \in Commands : Running(c)' => Running(c)
    BY <1>1 DEF AtStake, Issued, Running
  <2> QED BY <1>1, <2>1, <2>2, RestFrame
<1> QED BY <1>3, <1>4, <1>5, <1>6

-----------------------------------------------------------------------------
(* The process starts, stops and ends *)

LEMMA BootStep ==
    ASSUME HandoffInv, Boot
    PROVE  HandoffInv'
<1> USE DEF HandoffInv, Boot, Closed
<1>0. UNCHANGED <<session, turn, cache, inbox, carried, cli, durable, told, faults>>
  OBVIOUS
<1>1. /\ session = "none" /\ turn = "none" /\ lock = Free /\ step = "idle"
      /\ \A c \in Commands : inbox[c] = "none" /\ cache[c] = "none"
  BY DEF DownIsEmpty, LockIsHeld
<1>2. TypeOK'
  <2>1. live' \in [owner : {"none", "human", "headless"}, open : BOOLEAN,
                    revision : 0..(MaxCommands + 1)]
    <3>1. 0 \in 0..(MaxCommands + 1)
      OBVIOUS
    <3>2. \/ live' = [owner |-> "human", open |-> FALSE, revision |-> 0]
          \/ live' = [owner |-> "none", open |-> FALSE, revision |-> 0]
      OBVIOUS
    <3> HIDE DEF Boot, HandoffInv
    <3>3. CASE live' = [owner |-> "human", open |-> FALSE, revision |-> 0]
      BY <3>1, <3>3
    <3>4. CASE live' = [owner |-> "none", open |-> FALSE, revision |-> 0]
      BY <3>1, <3>4
    <3> QED BY <3>2, <3>3, <3>4
  <2>2. daemon' \in {"boot", "serving"} /\ lock' \in {lock, Main} /\ step' \in {step, "spawning"}
    OBVIOUS
  <2> QED BY <1>0, <2>1, <2>2 DEF TypeOK
<1>3. CommandsInTurn' /\ IdsNameFirst' /\ InboxWasSent' /\ CacheAgrees'
  BY <1>0 DEF CommandsInTurn, IdsNameFirst, InboxWasSent, CacheAgrees, Issued, Sent
<1>4. RevisionCounts'
  BY DEF RevisionCounts, Commands
<1>5. DownIsEmpty' /\ LockIsHeld'
  BY <1>1 DEF DownIsEmpty, LockIsHeld, Commands, Main, Free
<1>6. ~SlowPersist => ReleaseHolds' /\ ToldHolds'
  <2> SUFFICES ASSUME ~SlowPersist PROVE ReleaseHolds' /\ ToldHolds'
    OBVIOUS
  <2>1. \A c \in Commands : ~AtStake(c)'
    <3> SUFFICES ASSUME NEW c \in Commands PROVE ~AtStake(c)'
      OBVIOUS
    <3>1. cli[c].at # "acked" /\ inbox[c] = "none"
      BY <1>1
    <3>2. Issued(c) => cli[c].id \in Commands
      BY DEF IdsNameFirst, Commands
    <3> QED BY <1>0, <1>1, <3>1, <3>2 DEF AtStake, Issued
  <2>2. told => HumanAtRest'
    BY <1>1 DEF HumanAtRest, ToldHolds
  <2> QED BY <1>0, <2>1, <2>2 DEF ReleaseHolds, ToldHolds, Running
<1> QED BY <1>2, <1>3, <1>4, <1>5, <1>6

LEMMA ProcessEndsStep ==
    ASSUME HandoffInv, ProcessEnds, faults' \in 0..MaxFaults
    PROVE  HandoffInv'
<1> USE DEF HandoffInv, ProcessEnds, Closed
<1>1. TypeOK'
  BY DEF TypeOK, Kinds
<1>2. CommandsInTurn' /\ IdsNameFirst' /\ InboxWasSent' /\ CacheAgrees'
  BY DEF CommandsInTurn, IdsNameFirst, InboxWasSent, CacheAgrees, Issued, Sent
<1>3. RevisionCounts'
  BY DEF RevisionCounts, Commands
<1>4. DownIsEmpty' /\ LockIsHeld'
  BY DEF DownIsEmpty, LockIsHeld, Commands, RequestIds, Main, Free
<1>5. ~SlowPersist => ReleaseHolds' /\ ToldHolds'
  <2> SUFFICES ASSUME ~SlowPersist PROVE ReleaseHolds' /\ ToldHolds'
    OBVIOUS
  <2>1. HumanAtRest'
    BY DEF HumanAtRest
  <2> QED BY <2>1 DEF ReleaseHolds, ToldHolds, Running
<1> QED BY <1>1, <1>2, <1>3, <1>4, <1>5

LEMMA StopStep ==
    ASSUME HandoffInv, Stop
    PROVE  HandoffInv'
<1> USE DEF HandoffInv
<1>1. /\ daemon = "serving" /\ daemon' = "stopping" /\ faults' \in 0..MaxFaults
      /\ UNCHANGED <<session, turn, live, lock, step, cache, inbox, carried, cli, durable, told>>
  BY DEF Stop, Fault, TypeOK
<1>2. TypeOK'
  BY <1>1 DEF TypeOK
<1>3. CommandsInTurn' /\ IdsNameFirst' /\ InboxWasSent' /\ CacheAgrees' /\ RevisionCounts'
  BY <1>1 DEF CommandsInTurn, IdsNameFirst, InboxWasSent, CacheAgrees, RevisionCounts, Issued, Sent
<1>4. DownIsEmpty' /\ LockIsHeld'
  BY <1>1 DEF DownIsEmpty, LockIsHeld
<1>5. ~SlowPersist => ReleaseHolds' /\ ToldHolds'
  BY <1>1, RestFrame DEF AtStake, Issued, Running, HumanAtRest
<1> QED BY <1>2, <1>3, <1>4, <1>5

-----------------------------------------------------------------------------
(* A transition begins, goes on and ends *)

(* It throws: nothing is acknowledged and the authority is free. *)
LEMMA RefusedStep ==
    ASSUME HandoffInv, lock # Free, Refused,
           UNCHANGED <<session, turn, live, cache, carried, cli, durable, told>>,
           faults' \in 0..MaxFaults
    PROVE  HandoffInv'
<1> USE DEF HandoffInv
<1>1. lock \in Commands \cup {Main} /\ daemon # "down"
  BY DEF TypeOK, DownIsEmpty
<1>2. /\ lock' = Free /\ step' = "idle"
      /\ lock = Main => daemon' = "stopping" /\ inbox' = inbox
      /\ lock \in Commands => daemon' = daemon /\ inbox' = [inbox EXCEPT ![lock] = "refused"]
      /\ Main \notin Commands /\ Free \notin Commands /\ Main # Free
  BY <1>1 DEF Refused, Unlock, Main, Free, Commands
<1>3. TypeOK'
  BY <1>1, <1>2 DEF TypeOK
<1>4. \A c \in Commands : inbox'[c] = inbox[c] \/ (c = lock /\ inbox'[c] = "refused" /\ inbox[c] = "running")
  BY <1>1, <1>2 DEF LockIsHeld, TypeOK
<1>5. CommandsInTurn' /\ IdsNameFirst' /\ InboxWasSent' /\ CacheAgrees' /\ RevisionCounts'
  BY <1>2, <1>4 DEF CommandsInTurn, IdsNameFirst, InboxWasSent, CacheAgrees, RevisionCounts,
     Issued, Sent
<1>6. DownIsEmpty' /\ LockIsHeld'
  BY <1>1, <1>2 DEF DownIsEmpty, LockIsHeld
<1>7. ~SlowPersist => ReleaseHolds' /\ ToldHolds'
  <2> SUFFICES ASSUME ~SlowPersist PROVE ReleaseHolds' /\ ToldHolds'
    OBVIOUS
  <2>1. ~HumanAtRest
    BY DEF HumanAtRest
  <2>2. \A c \in Commands : AtStake(c)' => AtStake(c)
    BY <1>4 DEF AtStake, Issued
  <2> QED BY <2>1, <2>2, RestFrame DEF Running
<1> QED BY <1>3, <1>5, <1>6, <1>7

LEMMA ReleaseOwnershipStep ==
    ASSUME HandoffInv, ReleaseOwnership
    PROVE  HandoffInv'
<1> USE DEF HandoffInv
<1>1. lock \in Commands /\ daemon # "down" /\ daemon # "boot"
  BY DEF ReleaseOwnership, TypeOK, LockIsHeld
<1>2. CASE HandoffAllows
  <2>1. /\ session' = "released" /\ step = "checked" /\ step' = "closing"
        /\ live' = [live EXCEPT !.owner = "human"]
        /\ UNCHANGED <<daemon, turn, lock, inbox, cache, carried, cli, durable, told, faults>>
    BY <1>2 DEF ReleaseOwnership
  <2>2. live'.revision = live.revision /\ live'.owner = "human"
    BY <2>1 DEF TypeOK
  <2>3. TypeOK'
    BY <2>1 DEF TypeOK
  <2>4. CommandsInTurn' /\ IdsNameFirst' /\ InboxWasSent' /\ CacheAgrees' /\ RevisionCounts'
    BY <2>1, <2>2 DEF CommandsInTurn, IdsNameFirst, InboxWasSent, CacheAgrees, RevisionCounts,
       Issued, Sent
  <2>5. DownIsEmpty' /\ LockIsHeld'
    BY <1>1, <2>1, <2>2 DEF DownIsEmpty, LockIsHeld
  <2>6. ~SlowPersist => ReleaseHolds' /\ ToldHolds'
    <3>1. ~HumanAtRest
      BY <1>1 DEF HumanAtRest, Free, Commands
    <3> QED BY <2>1, <3>1, RestFrame DEF AtStake, Issued, Running
  <2> QED BY <2>3, <2>4, <2>5, <2>6
<1>3. CASE ~HandoffAllows
  BY <1>1, <1>3, RefusedStep DEF ReleaseOwnership, Free, Commands, TypeOK
<1> QED BY <1>2, <1>3

LEMMA TransitionFails ==
    ASSUME HandoffInv, SpawnFails \/ StartAborted
    PROVE  HandoffInv'
<1>1. /\ Refused /\ lock # Free /\ faults' \in 0..MaxFaults
      /\ UNCHANGED <<session, turn, live, cache, carried, cli, durable, told>>
  BY DEF SpawnFails, StartAborted, Fault, HandoffInv, TypeOK, LockIsHeld
<1> QED BY <1>1, RefusedStep

(* An operation carried out is remembered under an id of its own kind, and *)
(* what it newly puts at stake repeats it.                                 *)
LEMMA CarriedOut ==
    ASSUME HandoffInv, lock \in Commands, NEW kind \in Kinds, cli[lock].kind = kind,
           Acknowledged(kind), live'.revision = live.revision + 1, UNCHANGED <<daemon, cli>>
    PROVE  /\ inbox' \in [Commands -> {"none", "queued", "running", "ok", "refused"}]
           /\ cache' \in [RequestIds -> Kinds \cup {"none"}]
           /\ carried' \subseteq RequestIds
           /\ live'.revision \in 0..(MaxCommands + 1)
           /\ CommandsInTurn' /\ IdsNameFirst' /\ InboxWasSent' /\ CacheAgrees'
           /\ RevisionCounts'
           /\ \A e \in Commands : AtStake(e)' /\ ~AtStake(e) =>
                 /\ cli[e].kind = kind
                 /\ \A d \in Commands : d > lock /\ Issued(d) => cli[d].kind = kind
<1> USE DEF HandoffInv
<1> DEFINE id == cli[lock].id
<1>1. Issued(lock) /\ Sent(lock) /\ inbox[lock] = "running"
  BY DEF LockIsHeld, InboxWasSent, Issued, Sent
<1>2. /\ id \in 1..lock /\ id \in Commands
      /\ cli[id].id = id /\ cli[id].kind = kind /\ Issued(id)
  <2>1. id \in 1..lock /\ id \in Commands
    BY <1>1 DEF IdsNameFirst, Commands
  <2>2. id \in id..lock
    BY <2>1 DEF Commands
  <2>3. cli[id].id = id /\ cli[id].kind = kind
    BY <1>1, <2>2 DEF IdsNameFirst
  <2>4. id = lock \/ id < lock
    BY <2>1 DEF Commands
  <2>5. Issued(id)
    BY <1>1, <2>1, <2>4 DEF CommandsInTurn, Issued
  <2> QED BY <2>1, <2>3, <2>5
<1>3. /\ inbox' = [inbox EXCEPT ![lock] = "ok"]
      /\ cache' = [cache EXCEPT ![id] = kind]
      /\ carried' = carried \cup {id}
  BY DEF Acknowledged
<1>4. /\ inbox' \in [Commands -> {"none", "queued", "running", "ok", "refused"}]
      /\ cache' \in [RequestIds -> Kinds \cup {"none"}]
      /\ carried' \subseteq RequestIds
  BY <1>2, <1>3 DEF TypeOK, RequestIds
<1>5. /\ inbox'[lock] = "ok"
      /\ \A c \in Commands : c # lock => inbox'[c] = inbox[c]
      /\ cache'[id] = kind
      /\ \A r \in RequestIds : r # id => cache'[r] = cache[r]
  BY <1>2, <1>3 DEF TypeOK, RequestIds
<1>6. CommandsInTurn' /\ IdsNameFirst' /\ InboxWasSent'
  BY <1>1, <1>5 DEF CommandsInTurn, IdsNameFirst, InboxWasSent, Issued, Sent
<1>7. CacheAgrees'
  BY <1>2, <1>3, <1>5 DEF CacheAgrees, Issued, RequestIds, Kinds
<1>8. live.revision <= lock /\ live.revision \in Int
  BY DEF RevisionCounts, TypeOK
<1>9. RevisionCounts'
  <2> SUFFICES ASSUME NEW c \in Commands,
                      (~Sent(c) \/ inbox[c] = "queued") /\ c # lock
               PROVE  live'.revision <= c
    BY <1>1, <1>5 DEF RevisionCounts, Sent, Acknowledged, Unlock, Free, Commands
  <2>1. c > lock
    <3>1. CASE inbox[c] = "queued"
      BY <3>1 DEF LockIsHeld
    <3>2. CASE ~Sent(c)
      BY <1>1, <3>2 DEF CommandsInTurn, Sent, Commands
    <3> QED BY <3>1, <3>2
  <2> QED BY <1>8, <2>1 DEF Commands
<1>10. live'.revision \in 0..(MaxCommands + 1)
  BY <1>8 DEF TypeOK, Commands
<1>11. ASSUME NEW e \in Commands, AtStake(e)', ~AtStake(e)
       PROVE  /\ cli[e].kind = kind
              /\ \A d \in Commands : d > lock /\ Issued(d) => cli[d].kind = kind
  <2>1. Issued(e) /\ \A d \in Commands : d > e => ~Issued(d)
    BY <1>11 DEF AtStake, Issued
  <2>2. lock <= e
    BY <1>1, <2>1 DEF Commands
  <2>3. e = lock \/ cli[e].id = id
    BY <1>5, <1>11, <2>1 DEF AtStake, Issued, IdsNameFirst, RequestIds, Commands
  <2>4. cli[e].id = id
    BY <2>3
  <2>5. \A d \in id..e : cli[d].kind = cli[e].kind
    BY <2>1, <2>4 DEF IdsNameFirst
  <2>6. lock \in id..e
    BY <1>2, <2>2 DEF Commands
  <2>7. cli[e].kind = kind
    BY <2>5, <2>6
  <2>8. ASSUME NEW d \in Commands, d > lock, Issued(d)
        PROVE  d \in id..e
    BY <1>2, <2>1, <2>8 DEF Commands
  <2> QED BY <2>5, <2>7, <2>8
<1> QED BY <1>4, <1>6, <1>7, <1>9, <1>10, <1>11

LEMMA ReleaseDoneStep ==
    ASSUME HandoffInv, ReleaseDone
    PROVE  HandoffInv'
<1> USE DEF HandoffInv
<1>1. /\ lock \in Commands /\ daemon # "down" /\ daemon # "boot"
      /\ cli[lock].kind = "release" /\ "release" \in Kinds
      /\ session = "none" /\ turn = "none" /\ live.owner = "human"
  BY DEF ReleaseDone, TypeOK, LockIsHeld, Kinds
<1>2. /\ Acknowledged("release")
      /\ live' = [live EXCEPT !.open = FALSE, !.revision = @ + 1]
      /\ UNCHANGED <<daemon, session, turn, cli, durable, told, faults>>
  BY DEF ReleaseDone
<1>3. live'.revision = live.revision + 1 /\ live'.owner = "human"
  BY <1>1, <1>2 DEF TypeOK
<1>4. /\ inbox' \in [Commands -> {"none", "queued", "running", "ok", "refused"}]
      /\ cache' \in [RequestIds -> Kinds \cup {"none"}]
      /\ carried' \subseteq RequestIds
      /\ live'.revision \in 0..(MaxCommands + 1)
      /\ CommandsInTurn' /\ IdsNameFirst' /\ InboxWasSent' /\ CacheAgrees'
      /\ RevisionCounts'
      /\ \A e \in Commands : AtStake(e)' /\ ~AtStake(e) =>
            /\ cli[e].kind = "release"
            /\ \A d \in Commands : d > lock /\ Issued(d) => cli[d].kind = "release"
  BY <1>1, <1>2, <1>3, CarriedOut
<1>5. lock' = Free /\ step' = "idle"
  BY <1>2 DEF Acknowledged, Unlock
<1>6. TypeOK'
  <2>1. live' \in [owner : {"none", "human", "headless"}, open : BOOLEAN,
                    revision : 0..(MaxCommands + 1)]
    BY <1>2, <1>3, <1>4 DEF TypeOK
  <2> QED BY <1>2, <1>4, <1>5, <2>1 DEF TypeOK
<1>7. DownIsEmpty' /\ LockIsHeld'
  BY <1>1, <1>2, <1>5 DEF DownIsEmpty, LockIsHeld, Free, Main, Commands
<1>8. ~SlowPersist => ReleaseHolds' /\ ToldHolds'
  <2> SUFFICES ASSUME ~SlowPersist PROVE ReleaseHolds' /\ ToldHolds'
    OBVIOUS
  <2>1. ~HumanAtRest
    BY <1>1 DEF HumanAtRest, Free, Commands
  <2>2. ~told' /\ \A e \in Commands : ~AtStake(e)
    BY <1>2, <2>1 DEF ReleaseHolds, ToldHolds
  <2>3. ASSUME NEW e \in Commands, AtStake(e)' PROVE HumanAtRest'
    <3>1. \A d \in Commands : d > lock /\ Issued(d) => cli[d].kind = "release"
      BY <1>4, <2>2, <2>3
    <3>2. ASSUME NEW d \in Commands, inbox'[d] = "queued" PROVE cli[d].kind = "release"
      <4>1. inbox[d] = "queued"
        BY <1>2, <3>2 DEF Acknowledged, TypeOK
      <4>2. d > lock /\ Issued(d)
        BY <1>1, <4>1 DEF LockIsHeld, InboxWasSent, Issued, Sent
      <4> QED BY <3>1, <4>2
    <3> QED BY <1>1, <1>2, <1>3, <1>5, <3>2 DEF HumanAtRest
  <2> QED BY <2>2, <2>3 DEF ReleaseHolds, ToldHolds
<1> QED BY <1>4, <1>6, <1>7, <1>8

LEMMA ProvenStep ==
    ASSUME HandoffInv, Proven
    PROVE  HandoffInv'
<1> USE DEF HandoffInv
<1>1. /\ lock \in Commands \cup {Main} /\ daemon # "down" /\ session # "none"
      /\ lock \in Commands => cli[lock].kind = "acquire" /\ daemon # "boot"
      /\ Main \notin Commands /\ Main # Free /\ Free \notin Commands
  BY DEF Proven, TypeOK, LockIsHeld, DownIsEmpty, Main, Free, Commands
<1>2. /\ live' = [owner |-> "headless", open |-> TRUE, revision |-> live.revision + 1]
      /\ UNCHANGED <<session, turn, cli, durable, told, faults>>
      /\ lock' = Free /\ step' = "idle"
      /\ daemon' \in {daemon, "serving"} /\ daemon' # "boot"
  BY <1>1 DEF Proven, Unlock, Acknowledged, LockIsHeld
<1>3. live'.revision = live.revision + 1
  BY <1>2
<1>4. /\ inbox' \in [Commands -> {"none", "queued", "running", "ok", "refused"}]
      /\ cache' \in [RequestIds -> Kinds \cup {"none"}]
      /\ carried' \subseteq RequestIds
      /\ live'.revision \in 0..(MaxCommands + 1)
      /\ CommandsInTurn' /\ IdsNameFirst' /\ InboxWasSent' /\ CacheAgrees'
      /\ RevisionCounts'
      /\ \A e \in Commands : AtStake(e)' => AtStake(e)
  <2>1. CASE lock = Main
    <3>1. UNCHANGED <<inbox, cache, carried, cli>> /\ live.revision = 0
      BY <2>1 DEF Proven, LockIsHeld
    <3>2. CommandsInTurn' /\ IdsNameFirst' /\ InboxWasSent' /\ CacheAgrees'
      BY <3>1 DEF CommandsInTurn, IdsNameFirst, InboxWasSent, CacheAgrees, Issued, Sent
    <3>3. RevisionCounts'
      BY <1>3, <3>1 DEF RevisionCounts, Commands
    <3> QED BY <1>3, <3>1, <3>2, <3>3 DEF TypeOK, AtStake, Issued
  <2>2. CASE lock # Main
    <3>1. lock \in Commands /\ Acknowledged("acquire") /\ UNCHANGED <<daemon, cli>>
          /\ cli[lock].kind = "acquire" /\ "acquire" \in Kinds
      BY <1>1, <2>2 DEF Proven, Kinds
    <3>2. \A e \in Commands : AtStake(e)' => cli[e].kind = "release"
      BY <1>2 DEF AtStake
    <3> QED BY <1>3, <3>1, <3>2, CarriedOut
  <2> QED BY <2>1, <2>2
<1>5. TypeOK'
  <2>1. live' \in [owner : {"none", "human", "headless"}, open : BOOLEAN,
                    revision : 0..(MaxCommands + 1)]
    BY <1>2, <1>3, <1>4
  <2> QED BY <1>2, <1>4, <2>1 DEF TypeOK
<1>6. DownIsEmpty' /\ LockIsHeld'
  BY <1>1, <1>2 DEF DownIsEmpty, LockIsHeld
<1>7. ~SlowPersist => ReleaseHolds' /\ ToldHolds'
  <2>1. ~HumanAtRest
    BY <1>1 DEF HumanAtRest
  <2> QED BY <1>2, <1>4, <2>1, RestFrame DEF Running
<1> QED BY <1>4, <1>5, <1>6, <1>7

-----------------------------------------------------------------------------
(* A request comes in *)

(* What is remembered under the id of a request is the request's own operation. *)
LEMMA CacheMatches ==
    ASSUME HandoffInv, NEW c \in Commands, Issued(c), cache[cli[c].id] # "none"
    PROVE  cache[cli[c].id] = cli[c].kind
<1> USE DEF HandoffInv
<1>1. cli[c].id \in 1..c /\ cli[c].id \in RequestIds
  BY DEF IdsNameFirst, RequestIds, Commands
<1>2. cli[c].id \in cli[c].id..c
  BY <1>1 DEF Commands
<1>3. cli[cli[c].id].kind = cli[c].kind
  BY <1>2 DEF IdsNameFirst
<1> QED BY <1>1, <1>3 DEF CacheAgrees

LEMMA BeginStep ==
    ASSUME HandoffInv, NEW c \in Commands, Begin(c)
    PROVE  HandoffInv'
<1> USE DEF HandoffInv
<1>1. /\ UNCHANGED <<daemon, session, turn, live, cache, carried, cli, durable, told, faults>>
      /\ daemon \in {"serving", "stopping"} /\ lock = Free /\ step = "idle"
      /\ inbox[c] = "queued" /\ Sent(c) /\ Issued(c) /\ cli[c].kind \in Kinds
      /\ \A d \in Commands : inbox[d] = "queued" => d >= c
  BY DEF Begin, LockIsHeld, InboxWasSent, IdsNameFirst, Sent, Issued, Commands
<1>2. /\ \A d \in Commands : d # c => inbox'[d] = inbox[d]
      /\ \/ /\ UNCHANGED <<lock, step>>
            /\ \/ inbox'[c] = "ok" /\ cache[cli[c].id] # "none"
               \/ inbox'[c] = "refused"
         \/ /\ inbox'[c] = "running" /\ lock' = c /\ cache[cli[c].id] = "none" /\ Admissible(c)
            /\ step' = IF cli[c].kind = "release" THEN "checked" ELSE "spawning"
      /\ inbox' \in [Commands -> {"none", "queued", "running", "ok", "refused"}]
  BY DEF Begin, AnsweredFromCache, TypeOK
<1>3. TypeOK'
  BY <1>1, <1>2 DEF TypeOK
<1>4. CommandsInTurn' /\ IdsNameFirst' /\ InboxWasSent' /\ CacheAgrees' /\ DownIsEmpty'
  BY <1>1, <1>2 DEF CommandsInTurn, IdsNameFirst, InboxWasSent, CacheAgrees, DownIsEmpty,
     Issued, Sent
<1>5. RevisionCounts'
  BY <1>1, <1>2 DEF RevisionCounts, Sent
<1>6. LockIsHeld'
  BY <1>1, <1>2 DEF LockIsHeld, Free, Main, Commands, Kinds
<1>7. ~SlowPersist => ReleaseHolds' /\ ToldHolds'
  <2> SUFFICES ASSUME ~SlowPersist PROVE ReleaseHolds' /\ ToldHolds'
    OBVIOUS
  <2>1. \A e \in Commands : AtStake(e)' => AtStake(e)
    BY <1>1, <1>2 DEF AtStake, Issued
  <2>2. HumanAtRest => ~Admissible(c)
    BY <1>1 DEF HumanAtRest, Admissible, ReleaseAdmissible
  <2>3. HumanAtRest => HumanAtRest'
    BY <1>1, <1>2, <2>2 DEF HumanAtRest
  <2> QED BY <1>1, <2>1, <2>3, RestFrame DEF Running
<1> QED BY <1>3, <1>4, <1>5, <1>6, <1>7

-----------------------------------------------------------------------------
(* The command line *)

(* No later command is there while one is not over. *)
LEMMA NoneLater ==
    ASSUME HandoffInv, NEW c \in Commands, cli[c].at \notin {"done", "failed"}
    PROVE  \A d \in Commands : d > c => ~Issued(d)
BY DEF HandoffInv, CommandsInTurn, Commands

LEMMA IssueStep ==
    ASSUME HandoffInv, NEW c \in Commands, NEW kind \in Kinds, NEW id \in RequestIds,
           Issue(c, kind, id)
    PROVE  HandoffInv'
<1> USE DEF HandoffInv
<1>1. /\ cli[c].at = "unused" /\ MayIssue(c, kind, id)
      /\ told' = (told /\ kind = "release")
      /\ UNCHANGED <<daemon, session, turn, live, lock, step, cache, inbox, carried,
                     durable, faults>>
      /\ cli' = [cli EXCEPT ![c].at = "new", ![c].kind = kind, ![c].id = id]
  BY DEF Issue, MayIssue, daemonVars
<1>2. /\ cli'[c].at = "new" /\ cli'[c].kind = kind /\ cli'[c].id = id
      /\ \A d \in Commands : d # c => cli'[d] = cli[d]
  BY <1>1 DEF TypeOK
<1>3. \A d \in Commands : d > c => ~Issued(d)
  BY <1>1, NoneLater
<1>4. TypeOK'
  <2>1. cli' \in [Commands -> [at : {"unused", "new", "snapped", "waiting", "acked",
                                     "done", "failed"},
                               kind : Kinds \cup {"none"}, id : RequestIds \cup {0},
                               revision : 0..(MaxCommands + 1)]]
    <3> DEFINE Line == [at : {"unused", "new", "snapped", "waiting", "acked", "done", "failed"},
                        kind : Kinds \cup {"none"}, id : RequestIds \cup {0},
                        revision : 0..(MaxCommands + 1)]
    <3>1. cli \in [Commands -> Line]
      BY DEF TypeOK
    <3>2. cli[c] \in Line
      BY <3>1
    <3>3. cli' = [cli EXCEPT ![c].at = "new", ![c].kind = kind, ![c].id = id]
      BY <1>1
    <3>4. cli'[c] = [at |-> "new", kind |-> kind, id |-> id, revision |-> cli[c].revision]
      BY <3>1, <3>3
    <3> HIDE DEF HandoffInv
    <3> QED BY <3>1, <3>2, <3>3, <3>4
  <2>2. told' \in BOOLEAN
    BY <1>1
  <2> QED BY <1>1, <2>1, <2>2 DEF TypeOK
<1>5. CommandsInTurn'
  <2> SUFFICES ASSUME NEW a \in Commands, NEW d \in Commands, d < a, Issued(a)'
               PROVE  cli'[d].at \in {"done", "failed"}
    BY DEF CommandsInTurn
  <2>1. CASE a = c
    <3>1. d \in 1..(c - 1) /\ d # c
      BY <2>1 DEF Commands
    <3> QED BY <1>1, <1>2, <3>1 DEF MayIssue
  <2>2. CASE a # c
    <3>1. Issued(a) /\ ~(a > c)
      BY <1>2, <1>3, <2>2 DEF Issued
    <3>2. d # c
      BY <2>2, <3>1 DEF Commands
    <3> QED BY <1>2, <3>1, <3>2 DEF CommandsInTurn
  <2> QED BY <2>1, <2>2
<1>6. id = c \/ (c > 1 /\ c - 1 \in Commands /\ Issued(c - 1)
                /\ id = cli[c - 1].id /\ kind = cli[c - 1].kind)
  BY <1>1 DEF MayIssue, Issued, Commands
<1>7. IdsNameFirst'
  <2>1. ASSUME NEW e \in Commands, e # c, Issued(e)
        PROVE  /\ cli[e].id \in 1..e
               /\ \A d \in cli[e].id..e :
                    cli'[d].id = cli[e].id /\ cli'[d].kind = cli[e].kind
    <3>1. e < c /\ cli[e].id \in 1..e
      BY <1>3, <2>1 DEF IdsNameFirst, Commands
    <3>2. \A d \in cli[e].id..e : d \in Commands /\ d # c
      BY <3>1 DEF Commands
    <3> QED BY <1>2, <2>1, <3>1, <3>2 DEF IdsNameFirst
  <2>2. id \in 1..c /\ \A d \in id..c : cli'[d].id = id /\ cli'[d].kind = kind
    <3>1. CASE id = c
      BY <1>2, <3>1 DEF Commands
    <3>2. CASE id # c
      <4>1. /\ c - 1 \in Commands /\ id \in 1..(c - 1)
            /\ \A d \in id..(c - 1) : cli[d].id = id /\ cli[d].kind = kind
        BY <1>6, <3>2 DEF IdsNameFirst
      <4>2. \A d \in id..c : d = c \/ (d \in id..(c - 1) /\ d \in Commands /\ d # c)
        BY <4>1 DEF Commands
      <4>3. id \in 1..c
        BY <4>1 DEF Commands
      <4> QED BY <1>2, <4>1, <4>2, <4>3
    <3> QED BY <3>1, <3>2
  <2>3. \A e \in Commands : e # c => (Issued(e)' <=> Issued(e)) /\ cli'[e] = cli[e]
    BY <1>2 DEF Issued
  <2> QED BY <1>2, <2>1, <2>2, <2>3 DEF IdsNameFirst
<1>8. InboxWasSent' /\ DownIsEmpty' /\ RevisionCounts'
  BY <1>1, <1>2 DEF InboxWasSent, DownIsEmpty, RevisionCounts, Sent
<1>9. LockIsHeld'
  <2>1. lock # c
    BY <1>1 DEF LockIsHeld, InboxWasSent, Sent
  <2> QED BY <1>1, <1>2, <2>1 DEF LockIsHeld
<1>10. CacheAgrees'
  BY <1>1, <1>2 DEF CacheAgrees, Issued, RequestIds
<1>11. ~SlowPersist => ReleaseHolds' /\ ToldHolds'
  <2> SUFFICES ASSUME ~SlowPersist PROVE ReleaseHolds' /\ ToldHolds'
    OBVIOUS
  <2>1. HumanAtRest => HumanAtRest'
    BY <1>1, <1>2 DEF HumanAtRest, InboxWasSent, Sent
  <2>2. ASSUME NEW e \in Commands, AtStake(e)' PROVE HumanAtRest
    <3>1. e = c
      <4>1. e >= c
        BY <1>2, <2>2 DEF AtStake, Issued, Commands
      <4>2. ~(e > c)
        BY <1>2, <1>3, <2>2 DEF AtStake, Issued
      <4> QED BY <4>1, <4>2 DEF Commands
    <3>2. kind = "release" /\ cache[id] # "none"
      BY <1>1, <1>2, <2>2, <3>1 DEF AtStake
    <3>3. id # c
      BY <1>1, <3>2 DEF CacheAgrees, Issued
    <3>4. /\ c - 1 \in Commands /\ Issued(c - 1) /\ cli[c - 1].kind = "release"
          /\ cache[cli[c - 1].id] # "none"
      BY <1>6, <3>2, <3>3
    <3>5. \A d \in Commands : d > c - 1 => ~Issued(d)
      <4>1. \A d \in Commands : d > c - 1 => d = c \/ d > c
        BY DEF Commands
      <4> QED BY <1>1, <1>3, <4>1 DEF Issued
    <3>6. AtStake(c - 1)
      BY <3>4, <3>5 DEF AtStake
    <3> QED BY <3>4, <3>6 DEF ReleaseHolds
  <2>3. told' => told /\ kind = "release"
    BY <1>1
  <2>4. ToldHolds'
    BY <1>1, <1>2, <2>1, <2>3 DEF ToldHolds, Running
  <2> QED BY <2>1, <2>2, <2>4 DEF ReleaseHolds
<1> QED BY <1>4, <1>5, <1>7, <1>8, <1>9, <1>10, <1>11

LEMMA SendStep ==
    ASSUME HandoffInv, NEW c \in Commands, Send(c)
    PROVE  HandoffInv'
<1> USE DEF HandoffInv
<1>1. /\ cli[c].at = "snapped" /\ daemon = "serving"
      /\ inbox' = [inbox EXCEPT ![c] = "queued"]
      /\ cli' = [cli EXCEPT ![c].at = "waiting"]
      /\ UNCHANGED <<daemon, session, turn, live, lock, step, cache, carried,
                     durable, told, faults>>
  BY DEF Send, Serving, At
<1>2. /\ inbox'[c] = "queued" /\ cli'[c].at = "waiting" /\ cli'[c].kind = cli[c].kind
      /\ cli'[c].id = cli[c].id
      /\ \A d \in Commands : d # c => cli'[d] = cli[d] /\ inbox'[d] = inbox[d]
  BY <1>1 DEF TypeOK
<1>3. Issued(c) /\ ~Sent(c) /\ \A d \in Commands : d > c => ~Issued(d)
  BY <1>1, NoneLater DEF Issued, Sent
<1>4. TypeOK'
  BY <1>1 DEF TypeOK
<1>5. /\ \A d \in Commands : cli'[d].kind = cli[d].kind /\ cli'[d].id = cli[d].id
      /\ \A d \in Commands : (Issued(d)' <=> Issued(d)) /\ (Sent(d) => Sent(d)')
      /\ Sent(c)'
  BY <1>1, <1>2 DEF Issued, Sent
<1>6. CommandsInTurn' /\ InboxWasSent' /\ DownIsEmpty'
  BY <1>1, <1>2, <1>5 DEF CommandsInTurn, InboxWasSent, DownIsEmpty
<1>7. IdsNameFirst'
  <2>1. \A e \in Commands : Issued(e) => \A d \in cli[e].id..e : d \in Commands
    BY DEF IdsNameFirst, Commands
  <2> QED BY <1>5, <2>1 DEF IdsNameFirst
<1>8. CacheAgrees' /\ RevisionCounts'
  BY <1>1, <1>2, <1>3, <1>5 DEF CacheAgrees, RevisionCounts, RequestIds
<1>9. LockIsHeld'
  <2>1. lock \in Commands => lock < c
    BY <1>3 DEF LockIsHeld, InboxWasSent, Sent, Issued, Commands
  <2>2. lock \in Commands =>
          /\ inbox'[lock] = "running" /\ cache'[cli'[lock].id] = "none"
          /\ \A d \in Commands : inbox'[d] = "queued" => d > lock
          /\ cli'[lock].kind =
               IF step \in {"checked", "closing", "closed"} THEN "release" ELSE "acquire"
    <3> SUFFICES ASSUME lock \in Commands PROVE <2>2!2
      OBVIOUS
    <3>1. lock # c /\ cli'[lock] = cli[lock] /\ inbox'[lock] = inbox[lock]
      BY <1>2, <2>1 DEF Commands
    <3>2. \A d \in Commands : inbox'[d] = "queued" => d > lock
      BY <1>2, <2>1 DEF LockIsHeld, Commands
    <3> QED BY <1>1, <3>1, <3>2 DEF LockIsHeld
  <2> QED BY <1>1, <2>2 DEF LockIsHeld
<1>10. ~SlowPersist => ReleaseHolds' /\ ToldHolds'
  <2> SUFFICES ASSUME ~SlowPersist PROVE ReleaseHolds' /\ ToldHolds'
    OBVIOUS
  <2>1. cli[c].kind = "release" /\ HumanAtRest => HumanAtRest'
    BY <1>1, <1>2, <1>5 DEF HumanAtRest
  <2>2. ASSUME NEW e \in Commands, AtStake(e)'
        PROVE  AtStake(e) /\ cli[c].kind = "release"
    <3>1. AtStake(e)
      BY <1>1, <1>2, <1>5, <2>2 DEF AtStake, Issued
    <3>2. e = c
      <4>1. ~(c > e) /\ ~(e > c)
        BY <1>3, <3>1 DEF AtStake
      <4> QED BY <4>1 DEF Commands
    <3> QED BY <3>1, <3>2 DEF AtStake
  <2>3. told => cli[c].kind = "release"
    BY <1>1 DEF ToldHolds, Running
  <2>4. \A d \in Commands : Running(d)' => Running(d)
    BY <1>1, <1>2 DEF Running
  <2> QED BY <1>1, <1>5, <2>1, <2>2, <2>3, <2>4 DEF ReleaseHolds, ToldHolds
<1> QED BY <1>4, <1>6, <1>7, <1>8, <1>9, <1>10

(* A command goes from one place to the next without asking anything of *)
(* the daemon.                                                          *)
LEMMA CommandMoves ==
    ASSUME HandoffInv, NEW c \in Commands, NEW place \in {"snapped", "acked", "done", "failed"},
           Running(c), cli'[c].at = place,
           cli' \in [Commands -> [at : {"unused", "new", "snapped", "waiting", "acked",
                                        "done", "failed"},
                                  kind : Kinds \cup {"none"}, id : RequestIds \cup {0},
                                  revision : 0..(MaxCommands + 1)]],
           cli'[c].kind = cli[c].kind, cli'[c].id = cli[c].id,
           place = "snapped" => cli[c].at = "new",
           \A d \in Commands : d # c => cli'[d] = cli[d],
           UNCHANGED <<daemon, session, turn, live, lock, step, cache, carried>>,
           \/ inbox' = inbox
           \/ inbox' = [inbox EXCEPT ![c] = "none"] /\ inbox[c] \in {"ok", "refused"},
           place = "acked" => cli[c].at = "waiting" /\ inbox[c] = "ok"
    PROVE  /\ inbox' \in [Commands -> {"none", "queued", "running", "ok", "refused"}]
           /\ CommandsInTurn' /\ IdsNameFirst' /\ DownIsEmpty' /\ InboxWasSent'
           /\ LockIsHeld' /\ CacheAgrees' /\ RevisionCounts'
           /\ HumanAtRest => HumanAtRest'
           /\ \A e \in Commands : AtStake(e)' => AtStake(e)
           /\ \A e \in Commands : Running(e)' => Running(e) /\ cli'[e].kind = cli[e].kind
<1> USE DEF HandoffInv
<1>1. /\ inbox' \in [Commands -> {"none", "queued", "running", "ok", "refused"}]
      /\ \A d \in Commands : \/ inbox'[d] = inbox[d]
                             \/ d = c /\ inbox'[d] = "none" /\ inbox[d] \in {"ok", "refused"}
  BY DEF TypeOK
<1>2. /\ \A d \in Commands : cli'[d].kind = cli[d].kind /\ cli'[d].id = cli[d].id
      /\ \A d \in Commands : (Issued(d)' <=> Issued(d)) /\ (Sent(d) => Sent(d)')
      /\ \A d \in Commands : Running(d)' => Running(d)
  BY DEF Issued, Sent, Running
<1>3. CommandsInTurn' /\ InboxWasSent' /\ DownIsEmpty'
  BY <1>1, <1>2 DEF CommandsInTurn, InboxWasSent, DownIsEmpty, Running
<1>4. IdsNameFirst'
  <2>1. \A e \in Commands : Issued(e) => \A d \in cli[e].id..e : d \in Commands
    BY DEF IdsNameFirst, Commands
  <2> QED BY <1>2, <2>1 DEF IdsNameFirst
<1>5. CacheAgrees' /\ RevisionCounts'
  BY <1>1, <1>2 DEF CacheAgrees, RevisionCounts, RequestIds
<1>6. LockIsHeld'
  BY <1>1, <1>2 DEF LockIsHeld
<1>7. HumanAtRest => HumanAtRest'
  BY <1>1, <1>2 DEF HumanAtRest
<1>8. \A e \in Commands : AtStake(e)' => AtStake(e)
  BY <1>1, <1>2 DEF AtStake
<1> QED BY <1>1, <1>2, <1>3, <1>4, <1>5, <1>6, <1>7, <1>8

LEMMA TakeSnapshotStep ==
    ASSUME HandoffInv, NEW c \in Commands, TakeSnapshot(c)
    PROVE  HandoffInv'
<1>1. /\ Running(c) /\ cli[c].at = "new"
      /\ cli' = [cli EXCEPT ![c].at = "snapped", ![c].revision = live.revision]
      /\ UNCHANGED <<daemon, session, turn, live, lock, step, cache, inbox, carried,
                     durable, told, faults>>
  BY DEF TakeSnapshot, daemonVars, Running
<1>2. cli' \in [Commands -> [at : {"unused", "new", "snapped", "waiting", "acked",
                                  "done", "failed"},
                            kind : Kinds \cup {"none"}, id : RequestIds \cup {0},
                            revision : 0..(MaxCommands + 1)]]
  <2> DEFINE Line == [at : {"unused", "new", "snapped", "waiting", "acked", "done", "failed"},
                      kind : Kinds \cup {"none"}, id : RequestIds \cup {0},
                      revision : 0..(MaxCommands + 1)]
  <2>1. cli \in [Commands -> Line] /\ live.revision \in 0..(MaxCommands + 1)
    BY DEF HandoffInv, TypeOK
  <2>2. cli[c] \in Line
    BY <2>1
  <2>3. cli' = [cli EXCEPT ![c].at = "snapped", ![c].revision = live.revision]
    BY <1>1
  <2>4. cli'[c] = [at |-> "snapped", kind |-> cli[c].kind, id |-> cli[c].id,
                   revision |-> live.revision]
    BY <2>1, <2>3
  <2> QED BY <2>1, <2>2, <2>3, <2>4
<1>3. /\ cli'[c].at = "snapped" /\ cli'[c].kind = cli[c].kind /\ cli'[c].id = cli[c].id
      /\ \A d \in Commands : d # c => cli'[d] = cli[d]
  BY <1>1 DEF HandoffInv, TypeOK
<1>4. /\ inbox' \in [Commands -> {"none", "queued", "running", "ok", "refused"}]
      /\ CommandsInTurn' /\ IdsNameFirst' /\ DownIsEmpty' /\ InboxWasSent'
      /\ LockIsHeld' /\ CacheAgrees' /\ RevisionCounts'
      /\ HumanAtRest => HumanAtRest'
      /\ \A e \in Commands : AtStake(e)' => AtStake(e)
      /\ \A e \in Commands : Running(e)' => Running(e) /\ cli'[e].kind = cli[e].kind
  BY <1>1, <1>2, <1>3, CommandMoves
<1>5. TypeOK'
  BY <1>1, <1>2 DEF HandoffInv, TypeOK
<1> QED BY <1>1, <1>4, <1>5, RestFrame DEF HandoffInv

LEMMA ReceiveStep ==
    ASSUME HandoffInv, NEW c \in Commands, Receive(c)
    PROVE  HandoffInv'
<1> DEFINE place == IF inbox[c] = "ok" THEN "acked" ELSE "failed"
<1>1. /\ Running(c) /\ cli[c].at = "waiting" /\ inbox[c] \in {"ok", "refused"}
      /\ cli' = [cli EXCEPT ![c].at = place]
      /\ inbox' = [inbox EXCEPT ![c] = "none"]
      /\ UNCHANGED <<daemon, session, turn, live, lock, step, cache, carried,
                     durable, told, faults>>
  BY DEF Receive, At, Running
<1>2. place \in {"acked", "failed"} /\ (place = "acked" => inbox[c] = "ok")
  OBVIOUS
<1> HIDE DEF place
<1>3. /\ cli' \in [Commands -> [at : {"unused", "new", "snapped", "waiting", "acked",
                                     "done", "failed"},
                               kind : Kinds \cup {"none"}, id : RequestIds \cup {0},
                               revision : 0..(MaxCommands + 1)]]
      /\ cli'[c].at = place /\ cli'[c].kind = cli[c].kind /\ cli'[c].id = cli[c].id
      /\ \A d \in Commands : d # c => cli'[d] = cli[d]
  BY <1>1, <1>2 DEF HandoffInv, TypeOK
<1>4. /\ inbox' \in [Commands -> {"none", "queued", "running", "ok", "refused"}]
      /\ CommandsInTurn' /\ IdsNameFirst' /\ DownIsEmpty' /\ InboxWasSent'
      /\ LockIsHeld' /\ CacheAgrees' /\ RevisionCounts'
      /\ HumanAtRest => HumanAtRest'
      /\ \A e \in Commands : AtStake(e)' => AtStake(e)
      /\ \A e \in Commands : Running(e)' => Running(e) /\ cli'[e].kind = cli[e].kind
  BY <1>1, <1>2, <1>3, CommandMoves
<1>5. TypeOK'
  BY <1>1, <1>3, <1>4 DEF HandoffInv, TypeOK
<1> QED BY <1>1, <1>4, <1>5, RestFrame DEF HandoffInv

LEMMA CommandFailsStep ==
    ASSUME HandoffInv, NEW c \in Commands, CommandFails(c)
    PROVE  HandoffInv'
<1>1. /\ Running(c) /\ faults' \in 0..MaxFaults
      /\ cli' = [cli EXCEPT ![c].at = "failed"]
      /\ UNCHANGED <<daemon, session, turn, live, lock, step, cache, inbox, carried,
                     durable, told>>
  BY DEF CommandFails, At, Fault, daemonVars, HandoffInv, TypeOK
<1>2. /\ cli' \in [Commands -> [at : {"unused", "new", "snapped", "waiting", "acked",
                                     "done", "failed"},
                               kind : Kinds \cup {"none"}, id : RequestIds \cup {0},
                               revision : 0..(MaxCommands + 1)]]
      /\ cli'[c].at = "failed" /\ cli'[c].kind = cli[c].kind /\ cli'[c].id = cli[c].id
      /\ \A d \in Commands : d # c => cli'[d] = cli[d]
  BY <1>1 DEF HandoffInv, TypeOK
<1>3. /\ inbox' \in [Commands -> {"none", "queued", "running", "ok", "refused"}]
      /\ CommandsInTurn' /\ IdsNameFirst' /\ DownIsEmpty' /\ InboxWasSent'
      /\ LockIsHeld' /\ CacheAgrees' /\ RevisionCounts'
      /\ HumanAtRest => HumanAtRest'
      /\ \A e \in Commands : AtStake(e)' => AtStake(e)
      /\ \A e \in Commands : Running(e)' => Running(e) /\ cli'[e].kind = cli[e].kind
  BY <1>1, <1>2, CommandMoves
<1>4. TypeOK'
  BY <1>1, <1>2 DEF HandoffInv, TypeOK
<1> QED BY <1>1, <1>3, <1>4, RestFrame DEF HandoffInv

(* The human is told: an acknowledged release, with nothing issued after it. *)
LEMMA PersistStep ==
    ASSUME HandoffInv, NEW c \in Commands, Persist(c)
    PROVE  HandoffInv'
<1>1. /\ Running(c) /\ cli[c].at = "acked"
      /\ cli' = [cli EXCEPT ![c].at = "done"]
      /\ durable' = NewOwner(cli[c].kind) /\ told' = (cli[c].kind = "release")
      /\ UNCHANGED <<daemon, session, turn, live, lock, step, cache, inbox, carried, faults>>
  BY DEF Persist, At, daemonVars, Running
<1>2. /\ cli' \in [Commands -> [at : {"unused", "new", "snapped", "waiting", "acked",
                                     "done", "failed"},
                               kind : Kinds \cup {"none"}, id : RequestIds \cup {0},
                               revision : 0..(MaxCommands + 1)]]
      /\ cli'[c].at = "done" /\ cli'[c].kind = cli[c].kind /\ cli'[c].id = cli[c].id
      /\ \A d \in Commands : d # c => cli'[d] = cli[d]
  BY <1>1 DEF HandoffInv, TypeOK
<1>3. /\ inbox' \in [Commands -> {"none", "queued", "running", "ok", "refused"}]
      /\ CommandsInTurn' /\ IdsNameFirst' /\ DownIsEmpty' /\ InboxWasSent'
      /\ LockIsHeld' /\ CacheAgrees' /\ RevisionCounts'
      /\ HumanAtRest => HumanAtRest'
      /\ \A e \in Commands : AtStake(e)' => AtStake(e)
      /\ \A e \in Commands : Running(e)' => Running(e) /\ cli'[e].kind = cli[e].kind
  BY <1>1, <1>2, CommandMoves
<1>4. TypeOK'
  BY <1>1, <1>2 DEF HandoffInv, TypeOK, NewOwner
<1>5. \A d \in Commands : d > c => ~Issued(d)
  BY <1>1, NoneLater
<1>6. Issued(c)
  BY <1>1 DEF Issued
<1>7. ~SlowPersist => ReleaseHolds' /\ ToldHolds'
  <2> SUFFICES ASSUME ~SlowPersist PROVE ReleaseHolds' /\ ToldHolds'
    OBVIOUS
  <2>1. ReleaseHolds'
    BY <1>3 DEF HandoffInv, ReleaseHolds
  <2>2. \A e \in Commands : ~Running(e)'
    <3> SUFFICES ASSUME NEW e \in Commands, e # c PROVE ~Running(e)
      BY <1>2 DEF Running
    <3>1. CASE e < c
      BY <1>6, <3>1 DEF HandoffInv, CommandsInTurn, Running
    <3>2. CASE e > c
      BY <1>5, <3>2 DEF Issued, Running
    <3> QED BY <3>1, <3>2 DEF Commands
  <2>3. told' => AtStake(c) /\ durable' = "human"
    BY <1>1, <1>5, <1>6 DEF AtStake, NewOwner
  <2> QED BY <1>3, <2>1, <2>2, <2>3 DEF HandoffInv, ReleaseHolds, ToldHolds
<1> QED BY <1>3, <1>4, <1>7 DEF HandoffInv

-----------------------------------------------------------------------------
(* The theorems *)

LEMMA HandoffStep == HandoffInv /\ [Next]_vars => HandoffInv'
<1> SUFFICES ASSUME HandoffInv, [Next]_vars PROVE HandoffInv'
  OBVIOUS
<1>1. CASE Boot
  BY <1>1, BootStep
<1>2. CASE Crash \/ Exit
  <2>1. ProcessEnds /\ faults' \in 0..MaxFaults
    BY <1>2 DEF Crash, Exit, Fault, HandoffInv, TypeOK
  <2> QED BY <2>1, ProcessEndsStep
<1>3. CASE Stop
  BY <1>3, StopStep
<1>4. CASE TransitionNext
  BY <1>4, ReleaseOwnershipStep, TransitionWaits, TransitionFails, ReleaseDoneStep, ProvenStep
     DEF TransitionNext
<1>5. CASE SessionNext
  BY <1>5, SessionStep
<1>6. ASSUME NEW c \in Commands, CommandNext(c) PROVE HandoffInv'
  BY <1>6, IssueStep, TakeSnapshotStep, SendStep, ReceiveStep, PersistStep, CommandFailsStep,
     BeginStep DEF CommandNext
<1>7. CASE UNCHANGED vars
  <2> USE <1>7 DEF vars, daemonVars
  <2>1. TypeOK' /\ CommandsInTurn' /\ IdsNameFirst' /\ DownIsEmpty' /\ InboxWasSent'
    BY DEF HandoffInv, TypeOK, CommandsInTurn, IdsNameFirst, DownIsEmpty, InboxWasSent,
       Issued, Sent
  <2>2. LockIsHeld' /\ CacheAgrees' /\ RevisionCounts'
    BY DEF HandoffInv, LockIsHeld, CacheAgrees, RevisionCounts, Issued, Sent
  <2>3. (ReleaseHolds => ReleaseHolds') /\ (ToldHolds => ToldHolds')
    BY DEF ReleaseHolds, ToldHolds, AtStake, Issued, HumanAtRest, Running
  <2> QED BY <2>1, <2>2, <2>3 DEF HandoffInv
<1> QED BY <1>1, <1>2, <1>3, <1>4, <1>5, <1>6, <1>7 DEF Next

(* Daemon, commands and owner file agree in every reachable state: requests *)
(* are carried out once and in turn, what is remembered is of the kind its  *)
(* id has, and, unless a daemon may start while an acknowledgement is       *)
(* unwritten, a release that was acknowledged leaves nothing that could     *)
(* open a session again.                                                    *)
THEOREM HandoffIsConsistent == Spec => []HandoffInv
<1>1. Init => HandoffInv
  BY HandoffStarts
<1>2. HandoffInv /\ [Next]_vars => HandoffInv'
  BY HandoffStep
<1> QED BY <1>1, <1>2, PTL DEF Spec

(* Whoever was told to resume the thread has it alone, for any number of    *)
(* commands and faults; the service's restart delay is the only assumption. *)
THEOREM HumanIsAlone ==
    ASSUME ~SlowPersist
    PROVE  Spec => []HumanHasThreadAlone
<1>1. HandoffInv => HumanHasThreadAlone
  BY DEF HandoffInv, ToldHolds, HumanAtRest, HumanHasThreadAlone
<1> QED BY <1>1, HandoffIsConsistent, PTL

(* Who refuses a request: one that is checked, and a transition that fails. *)
LEMMA RefusalsAreNew ==
    HandoffInv /\ [Next]_vars =>
        \A c \in Commands :
            inbox[c] # "refused" /\ inbox'[c] = "refused" => cli[c].id \notin carried
<1> SUFFICES ASSUME HandoffInv, [Next]_vars, NEW c \in Commands,
                    inbox[c] # "refused", inbox'[c] = "refused"
             PROVE  cli[c].id \notin carried
  OBVIOUS
<1>1. inbox \in [Commands -> {"none", "queued", "running", "ok", "refused"}]
  BY DEF HandoffInv, TypeOK
<1>2. Refused \/ \E d \in Commands : Begin(d)
  <2>1. inbox' # inbox
    OBVIOUS
  <2>2. CASE Crash \/ Exit
    BY <2>2 DEF Crash, Exit, ProcessEnds
  <2>3. CASE TransitionNext
    BY <1>1, <2>1, <2>3 DEF TransitionNext, ReleaseOwnership, CloseConnection, ReleaseDone, Spawn,
       SpawnFails, Proven, StartTimesOut, StartAborted, Acknowledged
  <2>4. ASSUME NEW d \in Commands, CommandNext(d) PROVE Begin(d)
    BY <1>1, <2>1, <2>4 DEF CommandNext, Issue, TakeSnapshot, Send, Receive, Persist, CommandFails,
       daemonVars
  <2> QED BY <2>1, <2>2, <2>3, <2>4 DEF Next, Boot, Stop, SessionNext, KernelAcquires, KernelEnds,
          StartTurn, TurnStarted, TurnEnds, vars, daemonVars
<1>3. cache[cli[c].id] = "none"
  <2>1. CASE Refused
    <3>1. lock = c /\ lock \in Commands
      BY <1>1, <2>1 DEF Refused, HandoffInv, TypeOK
    <3> QED BY <3>1 DEF HandoffInv, LockIsHeld
  <2>2. ASSUME NEW d \in Commands, Begin(d) PROVE cache[cli[c].id] = "none"
    <3>1. d = c /\ inbox[c] = "queued"
      BY <1>1, <2>2 DEF Begin, AnsweredFromCache
    <3>2. Issued(c)
      BY <3>1 DEF HandoffInv, InboxWasSent, Sent, Issued
    <3>3. ~AnsweredFromCache(c)
      BY <1>1, <3>2, CacheMatches DEF AnsweredFromCache
    <3> QED BY <2>2, <3>1, <3>3 DEF Begin
  <2> QED BY <1>2, <2>1, <2>2
<1> QED BY <1>3 DEF HandoffInv, CacheAgrees

(* A request id that was carried out is never refused afterwards. *)
THEOREM RepeatsAreAnswered == Spec => RepeatIsAnswered
<1>1. HandoffInv /\ [Next]_vars =>
        [\A c \in Commands :
            inbox[c] # "refused" /\ inbox'[c] = "refused" => cli[c].id \notin carried]_vars
  BY RefusalsAreNew
<1> QED BY <1>1, HandoffIsConsistent, PTL DEF Spec, RepeatIsAnswered
=============================================================================
