---------------------------- MODULE MailDelivery ----------------------------
(***************************************************************************)
(* What the ingress promises, without kernel, outbox, cursor or turns:     *)
(* mail that was there before the first start is history; every later      *)
(* message waits until it was shown to the agent in a turn that completed  *)
(* and is then accepted, or it is dead-lettered; both are final.  Showing  *)
(* may repeat (at-least-once).                                             *)
(***************************************************************************)
EXTENDS Integers

CONSTANT MaxMsg

MessageIds == 1..MaxMsg

VARIABLES
    status,  \* each message's standing with the ingress
    shown    \* messages some completed turn was given

mailDeliveryVars == <<status, shown>>

Standings == {"absent", "waiting", "history", "accepted", "dead_letter"}

TypeOK ==
    /\ status \in [MessageIds -> Standings]
    /\ shown \subseteq MessageIds

Init ==
    /\ status = [m \in MessageIds |-> "absent"]
    /\ shown = {}

Become(ms, standing) ==
    status' = [m \in MessageIds |-> IF m \in ms THEN standing ELSE status[m]]

Waiting == {m \in MessageIds : status[m] = "waiting"}

Arrive(m) ==
    /\ status[m] = "absent"
    /\ Become({m}, "waiting")
    /\ UNCHANGED shown

(* The first start draws the line below which mail is history. *)
DrawBaseline(c) ==
    /\ \A m \in MessageIds : status[m] \in {"absent", "waiting"}
    /\ Become({m \in Waiting : m <= c}, "history")
    /\ UNCHANGED shown

(* A turn completes that was given these messages. *)
Show(ms) ==
    /\ \A m \in ms : status[m] \in {"waiting", "dead_letter"}
    /\ shown' = shown \cup ms
    /\ UNCHANGED status

Accept(ms) ==
    /\ ms \subseteq Waiting \cap shown
    /\ Become(ms, "accepted")
    /\ UNCHANGED shown

GiveUp(ms) ==
    /\ ms \subseteq Waiting
    /\ Become(ms, "dead_letter")
    /\ UNCHANGED shown

Next ==
    \/ \E m \in MessageIds : Arrive(m)
    \/ \E c \in 0..MaxMsg : DrawBaseline(c)
    \/ \E ms \in SUBSET MessageIds : Show(ms) \/ Accept(ms) \/ GiveUp(ms)

Spec == Init /\ [][Next]_mailDeliveryVars
=============================================================================
