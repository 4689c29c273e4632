------------------------------ MODULE Reconnect ------------------------------
(***************************************************************************)
(* The reconciliation of one delivery with an outage (owner/reconnect.ts): *)
(* the owner dies at a boundary of the delivery, connects again under the  *)
(* connect budget, resumes the exact thread and plans what becomes of the  *)
(* delivery; and the bounded replay of mail that follows.                  *)
(* The delivery's own progress, the connection and the thread's fate are   *)
(* the callers' (external): the boundaries are those the code names.       *)
(***************************************************************************)
EXTENDS RetrySeries, FiniteSetsExt

CONSTANTS
    MaxDeliveries,  \* bound: deliveries
    MaxOutages,     \* bound: disconnects
    MaxTime,        \* bound: the clock
    ConnectCap,     \* maxConnectAttempts of the controller
    ReplayCap,      \* maxEvents of one replay
    MaxMail         \* bound: mail ids

ASSUME ReconnectAssumption ==
    /\ "connect" \in RetryClasses
    /\ {MaxDeliveries, MaxOutages, MaxTime, ConnectCap, MaxMail} \subseteq Nat
    /\ ReplayCap \in Nat \ {0}

VARIABLES
    series,    \* the connect series of the binding
    time,      \* the clock
    link,      \* up, down (a connect attempt is due) or stopped
    dueAt,     \* nextAttemptAt
    tries,     \* history: attempts granted since the last resumption or acquisition
    outages,   \* history: disconnects
    inFlight,  \* the outstanding delivery and its boundary
    begun,     \* history: deliveries begun
    committed, \* history: deliveries durably committed
    served,    \* history: how often the thread was given each
    ambiguous, \* history: outages at a boundary that leaves acceptance open
    mail,      \* ids in the mailbox
    after,     \* afterMessageId of the next replay
    replayed   \* history: ids replayed, with repetitions counted

deliveryVars == <<inFlight, begun, committed, served, ambiguous>>
linkVars == <<series, time, link, dueAt, tries, outages>>
replayVars == <<mail, after, replayed>>
reconnectVars == <<linkVars, deliveryVars, replayVars>>

Boundaries == {"before_send", "after_write", "after_response", "after_commit"}
NoDelivery == [id |-> 0, boundary |-> "none"]
Deliveries == 1..MaxDeliveries

ConnectSeries ==
    [class : {"none", "connect", "delivery"}, attempt : 0..MaxAttempts["connect"],
     since : 0..MaxTime, cancelled : {"no"} \cup LossReasons]

ReconnectTypeOK ==
    /\ series \in ConnectSeries
    /\ time \in 0..MaxTime /\ dueAt \in Nat /\ tries \in Nat
    /\ link \in {"up", "down", "stopped"} /\ outages \in 0..MaxOutages
    /\ inFlight = NoDelivery
         \/ inFlight \in [id : Deliveries, boundary : Boundaries]
    /\ committed \subseteq Deliveries /\ begun \in 0..MaxDeliveries
    /\ served \in [Deliveries -> Nat] /\ ambiguous \in [Deliveries -> 0..MaxOutages]
    /\ mail \subseteq 1..MaxMail /\ after \in 0..MaxMail
    /\ replayed \in [1..MaxMail -> Nat]

ReconnectInit ==
    /\ series = NoSeries /\ time = 0 /\ link = "up" /\ dueAt = 0 /\ tries = 0 /\ outages = 0
    /\ inFlight = NoDelivery /\ begun = 0 /\ committed = {}
    /\ served = [d \in Deliveries |-> 0] /\ ambiguous = [d \in Deliveries |-> 0]
    /\ mail = {} /\ after = 0 /\ replayed = [i \in 1..MaxMail |-> 0]

-----------------------------------------------------------------------------
(* The delivery, up to each boundary (external) *)

Begin ==
    /\ link = "up" /\ inFlight = NoDelivery /\ begun < MaxDeliveries
    /\ begun' = begun + 1
    /\ inFlight' = [id |-> begun + 1, boundary |-> "before_send"]
    /\ UNCHANGED <<linkVars, replayVars, committed, served, ambiguous>>

Reaches(from, to) ==
    /\ link = "up" /\ inFlight.boundary = from
    /\ inFlight' = [inFlight EXCEPT !.boundary = to]
    /\ UNCHANGED <<linkVars, replayVars, begun, ambiguous>>

Write == Reaches("before_send", "after_write") /\ UNCHANGED <<committed, served>>

Respond ==
    /\ Reaches("after_write", "after_response")
    /\ served' = [served EXCEPT ![inFlight.id] = @ + 1]
    /\ UNCHANGED committed

Commit ==
    /\ Reaches("after_response", "after_commit")
    /\ committed' = committed \cup {inFlight.id}
    /\ UNCHANGED served

DeliveryDone ==
    /\ link = "up" /\ inFlight.boundary = "after_commit"
    /\ inFlight' = NoDelivery
    /\ UNCHANGED <<linkVars, replayVars, begun, committed, served, ambiguous>>

-----------------------------------------------------------------------------
(* planReconnect *)

AcceptanceAmbiguous(boundary) == boundary \in {"after_write", "after_response"}

(* Mutant: a response is taken for the commit. *)
PlanAfterResumeTrusting(d) ==
    IF d.boundary \in {"none", "after_response", "after_commit"} THEN NoDelivery
    ELSE [d EXCEPT !.boundary = "before_send"]

(* planAfterExactResume: continue when idle or committed, else the same    *)
(* batch under the same key.                                               *)
PlanAfterResume(d) ==
    IF d.boundary \in {"none", "after_commit"} THEN NoDelivery
    ELSE [d EXCEPT !.boundary = "before_send"]

-----------------------------------------------------------------------------
(* ReconnectController *)

(* onTransientDisconnect: the next attempt's time, or a stop.              *)
OnTransientDisconnect ==
    LET d == Decide(series, "connect", "transient", time)
    IN  \/ /\ d.kind = "give_up"
           /\ series' = d.series
           /\ link' = "stopped"
           /\ UNCHANGED <<dueAt, tries>>
        \/ /\ d.kind = "retry" /\ d.attempt > ConnectCap
           /\ series' = Cancelled(d.series, "ownership_lost", time)
           /\ link' = "stopped"
           /\ UNCHANGED <<dueAt, tries>>
        \/ /\ d.kind = "retry" /\ d.attempt <= ConnectCap
           /\ series' = d.series
           /\ link' = "down"
           /\ \E delay \in d.delays : dueAt' = time + delay
           /\ tries' = tries + 1

(* The delivery is cut off: the thread may have taken what was written.    *)
CutOff ==
    /\ link = "up" /\ outages < MaxOutages
    /\ outages' = outages + 1
    /\ IF AcceptanceAmbiguous(inFlight.boundary)
       THEN ambiguous' = [ambiguous EXCEPT ![inFlight.id] = @ + 1]
       ELSE UNCHANGED ambiguous
    /\ \/ UNCHANGED served
       \/ /\ inFlight.boundary = "after_write"
          /\ served' = [served EXCEPT ![inFlight.id] = @ + 1]
    /\ UNCHANGED <<time, replayVars, inFlight, begun, committed>>

Disconnect == CutOff /\ OnTransientDisconnect

ConnectDue == link = "down" /\ time >= dueAt

ConnectFails ==
    /\ ConnectDue
    /\ OnTransientDisconnect
    /\ UNCHANGED <<time, outages, deliveryVars, replayVars>>

(* The exact thread is resumed: onResumed, and the plan.                   *)
Resumed ==
    /\ ConnectDue
    /\ link' = "up"
    /\ series' = NoSeries /\ tries' = 0
    /\ inFlight' = PlanAfterResume(inFlight)
    /\ UNCHANGED <<time, dueAt, outages, begun, committed, served, ambiguous, replayVars>>

(* The thread is missing or another one: the plan stops, and no other      *)
(* thread takes its place.                                                 *)
ThreadLost ==
    /\ ConnectDue
    /\ link' = "stopped"
    /\ series' = Cancelled(series, "ownership_lost", time)
    /\ UNCHANGED <<time, dueAt, tries, outages, deliveryVars, replayVars>>

OnOwnershipLost ==
    /\ \/ CutOff
       \/ link = "down" /\ UNCHANGED <<time, outages, deliveryVars, replayVars>>
    /\ link' = "stopped"
    /\ series' = Cancelled(series, "ownership_lost", time)
    /\ UNCHANGED <<dueAt, tries>>

(* An operator has the owner acquire the thread again (external).          *)
Reacquire ==
    /\ link = "stopped" /\ outages < MaxOutages
    /\ link' = "down" /\ dueAt' = time
    /\ outages' = outages + 1 /\ tries' = 0
    /\ UNCHANGED <<series, time, deliveryVars, replayVars>>

ReconnectTick ==
    /\ time < MaxTime
    /\ time' = time + 1
    /\ UNCHANGED <<series, link, dueAt, tries, outages, deliveryVars, replayVars>>

ReconnectNext ==
    \/ Begin \/ Write \/ Respond \/ Commit \/ DeliveryDone
    \/ Disconnect \/ ConnectFails \/ Resumed \/ ThreadLost
    \/ OnOwnershipLost \/ Reacquire \/ ReconnectTick

-----------------------------------------------------------------------------
(* planEventReplay *)

ReplayPlan ==
    LET pending == {m \in mail : m > after}
    IN  {m \in pending : Cardinality({k \in pending : k <= m}) <= ReplayCap}

ReplayArrives(m) ==
    /\ \A k \in mail : k < m
    /\ mail' = mail \cup {m}
    /\ UNCHANGED <<after, replayed, linkVars, deliveryVars>>

ReplayDrain ==
    /\ ReplayPlan # {}
    /\ after' = Max(ReplayPlan)
    /\ replayed' = [i \in 1..MaxMail |-> replayed[i] + IF i \in ReplayPlan THEN 1 ELSE 0]
    /\ UNCHANGED <<mail, linkVars, deliveryVars>>

ReplayNext == ReplayDrain \/ \E m \in 1..MaxMail : ReplayArrives(m)

-----------------------------------------------------------------------------
(* Properties *)

(* At least once, and once only where it can be known: a delivery that was *)
(* committed reached the thread, it reached it again only for an outage    *)
(* that left its acceptance open, and no outage loses a delivery that was  *)
(* begun.                                                                  *)
AtLeastOnce ==
    /\ \A d \in committed : served[d] >= 1
    /\ \A d \in Deliveries : served[d] <= 1 + ambiguous[d]
    /\ begun > 0 => begun \in committed \cup {inFlight.id}

(* A connection that does not come back is given up: until the thread is   *)
(* resumed or an operator asks, no more attempts are granted than the      *)
(* lower of the two budgets, and none later than the elapsed one and one   *)
(* delay after the first.                                                  *)
ConnectsAreBudgeted ==
    /\ tries <= MaxAttempts["connect"] /\ tries <= ConnectCap
    /\ link = "down" /\ tries > 0 =>
         dueAt <= series.since + MaxElapsed["connect"] + MaxDelay["connect"]

(* Replay in bounded pieces covers the mail exactly once, in order.        *)
ReplayCoversMail ==
    \A i \in 1..MaxMail : replayed[i] = IF i \in mail /\ i <= after THEN 1 ELSE 0

ReconnectPromise == AtLeastOnce /\ ConnectsAreBudgeted /\ ReplayCoversMail
-----------------------------------------------------------------------------
(* The inductive invariant *)

(* What the series counts covers what was granted; a series of deliveries  *)
(* is only there because a loss ended it.                                  *)
TriesAreCounted ==
    /\ series = NoSeries \/ series.class = "connect" \/ series.cancelled # "no"
    /\ link # "stopped" => tries <= series.attempt

(* How often the thread may have had the delivery in flight, at each of    *)
(* its boundaries and on either side of an outage.                         *)
BoundariesTell ==
    /\ inFlight # NoDelivery => inFlight.id = begun
    /\ inFlight.boundary \in {"before_send", "after_write"} =>
         served[inFlight.id] <= ambiguous[inFlight.id]
    /\ inFlight.boundary = "after_response" =>
         /\ served[inFlight.id] >= 1
         /\ link # "up" => served[inFlight.id] <= ambiguous[inFlight.id]
    /\ inFlight.boundary = "after_commit" => inFlight.id \in committed

UnbegunIsUnserved == \A d \in Deliveries : d > begun => served[d] = 0

AmbiguityIsOutage == \A d \in Deliveries : ambiguous[d] <= outages

ReplayedUpToMail == after = 0 \/ after \in mail

(* Retries, boundaries and the replayed part agree with what was promised  *)
(* of them (owner/reconnect.ts).                                           *)
ReconnectInv ==
    /\ ReconnectTypeOK
    /\ TriesAreCounted
    /\ BoundariesTell
    /\ UnbegunIsUnserved
    /\ AmbiguityIsOutage
    /\ ReplayedUpToMail
    /\ ReconnectPromise
=============================================================================
