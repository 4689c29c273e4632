--------------------------- MODULE RequestPromise ---------------------------
(***************************************************************************)
(* What the owner of a thread promises the app server: a request it makes  *)
(* is answered once, while the connection stands, and no request is left   *)
(* without either an answer or the end of the connection.                  *)
(***************************************************************************)
CONSTANT Requests

VARIABLES
    asked,    \* requests the app server made
    answered, \* requests that got an answer on the wire
    up        \* the connection stands

vars == <<asked, answered, up>>

Init == asked = {} /\ answered = {} /\ up = TRUE

Ask(r) ==
    /\ r \notin asked
    /\ asked' = asked \cup {r}
    /\ UNCHANGED <<answered, up>>

(* The answer to a request nobody should have made ends the connection.    *)
AnswerOnce(r) ==
    /\ up
    /\ r \in asked \ answered
    /\ answered' = answered \cup {r}
    /\ up' \in BOOLEAN
    /\ UNCHANGED asked

Break ==
    /\ up
    /\ up' = FALSE
    /\ UNCHANGED <<asked, answered>>

Next == Break \/ \E r \in Requests : Ask(r) \/ AnswerOnce(r)

Settled == \A r \in Requests : (r \in asked) ~> (r \in answered \/ ~up)

Spec == Init /\ [][Next]_vars /\ Settled
=============================================================================
