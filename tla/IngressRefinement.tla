-------------------------- MODULE IngressRefinement --------------------------
(***************************************************************************)
(* The kernel with its outbox and thread implements MailDelivery.          *)
(***************************************************************************)
EXTENDS IngressKernel

(* A message stands as the batch that carries it stands. *)
CarriedIn(m, s) == \E b \in InState(s) : m \in b

StandingOf(m) ==
    IF m \notin inbox THEN "absent"
    ELSE IF baselined /\ m <= baseline THEN "history"
    ELSE IF CarriedIn(m, "accepted") THEN "accepted"
    ELSE IF CarriedIn(m, "dead_letter") THEN "dead_letter"
    ELSE "waiting"

CompletedTurns == {t \in TurnIds : turnState[t] = "completed"}

Standing == [m \in MessageIds |-> StandingOf(m)]

Shown == {m \in MessageIds :
            \E t \in CompletedTurns : \E b \in Batches : Received(b, t) /\ m \in b}

Promise == INSTANCE MailDelivery WITH status <- Standing, shown <- Shown

(* The kernel keeps the promise: acceptance only of mail a completed turn  *)
(* was given, acceptance and dead-lettering final, history never shown.    *)
ImplementsMailDelivery == Promise!Spec
=============================================================================
