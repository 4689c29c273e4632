----------------------------- MODULE RetrySeries -----------------------------
(***************************************************************************)
(* RetryPolicy (retry/mod.ts): one series of failures, its budgets in      *)
(* attempts and in time since the first of them, and its cancellation.     *)
(* The operators return the decision and the series it leaves behind.      *)
(***************************************************************************)
EXTENDS Integers

CONSTANTS
    MaxAttempts, \* per class: retries granted to one series
    MaxElapsed,  \* per class: time from the first failure
    BaseDelay,   \* per class: baseMs
    MaxDelay     \* per class: maxDelayMs

RetryClasses == DOMAIN MaxAttempts

ASSUME RetryAssumption ==
    \A f \in {MaxAttempts, MaxElapsed, BaseDelay, MaxDelay} :
        /\ DOMAIN f = RetryClasses
        /\ \A c \in RetryClasses : f[c] \in Nat

LossReasons == {"ownership_lost", "lease_lost"}
Failures == {"transient", "permanent"} \cup LossReasons

NoSeries == [class |-> "none", attempt |-> 0, since |-> 0, cancelled |-> "no"]

NewSeries(class, at) == [class |-> class, attempt |-> 0, since |-> at, cancelled |-> "no"]

(* cancel: the series is kept, or made, for the next decide to end.        *)
Cancelled(s, reason, at) ==
    [IF s = NoSeries THEN NewSeries("delivery", at) ELSE s EXCEPT !.cancelled = reason]

(* A series that gives up for good is forgotten.                           *)
(* Mutant: it is kept, and counts on.                                      *)
EndedKept(s) == s
Ended(s) == NoSeries

GiveUp(reason, attempt, left) ==
    [kind |-> "give_up", reason |-> reason, attempt |-> attempt, delays |-> {}, series |-> left]

(* Full jitter over the exponential delay. *)
Delays(class, attempt) ==
    LET exp == BaseDelay[class] * 2 ^ (attempt - 1)
    IN  0..(IF exp < MaxDelay[class] THEN exp ELSE MaxDelay[class])

Counted(s, class, at) ==
    [IF s = NoSeries \/ s.class # class THEN NewSeries(class, at) ELSE s EXCEPT !.attempt = @ + 1]

Decide(s, class, failure, at) ==
    LET counted == Counted(s, class, at)
        n == counted.attempt
        lost == Cancelled(s, failure, at)
    IN  CASE failure = "permanent" -> GiveUp("permanent", 0, Ended(s))
          [] failure \in LossReasons -> GiveUp(failure, lost.attempt, lost)
          [] failure = "transient" /\ s.cancelled # "no" ->
               GiveUp(s.cancelled, s.attempt, Ended(s))
          [] failure = "transient" /\ s.cancelled = "no" /\ n > MaxAttempts[class] ->
               GiveUp("max_attempts", n, Ended(counted))
          [] failure = "transient" /\ s.cancelled = "no" /\ n <= MaxAttempts[class]
               /\ at - counted.since > MaxElapsed[class] ->
               GiveUp("max_elapsed", n, Ended(counted))
          [] OTHER -> [kind |-> "retry", reason |-> "none", attempt |-> n,
                       delays |-> Delays(class, n), series |-> counted]
=============================================================================
