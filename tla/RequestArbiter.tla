--------------------------- MODULE RequestArbiter ---------------------------
(***************************************************************************)
(* Who may answer a request of the app server (owner/request_policy.ts):   *)
(* the policy of each ownership mode, and ServerRequestArbiter, through    *)
(* which several clients claim and answer.  A refused call throws and      *)
(* changes nothing, so it is the absence of a step.                        *)
(***************************************************************************)
EXTENDS Integers, Sequences

CONSTANTS
    Requests, \* bound: ids of the requests the app server makes
    Clients   \* clients of one arbiter

VARIABLE entries \* #open: what is recorded of each request

NoClient == "nobody"

ASSUME ArbiterAssumption == NoClient \notin Clients

Modes == {"headless", "human", "none", "gateway", "native"}
Kinds == {"elicitation", "approval", "permissions", "userInput", "currentTime", "unknown"}
Answers == {"cancel", "decline", "answered", "reject"}

SoleResponder(mode) ==
    [headless |-> "headless_ingress", human |-> "interactive_human", none |-> "none",
     gateway |-> "gateway_mediator", native |-> "native_owner"][mode]
Roles == {SoleResponder(mode) : mode \in Modes}

HeadlessAnswer ==
    [elicitation |-> "cancel", approval |-> "decline", permissions |-> "answered",
     currentTime |-> "answered", userInput |-> "reject", unknown |-> "reject"]

(* What becomes of a request: its action, and the answer that goes with it.*)
Policy(mode, kind) ==
    CASE mode = "headless" ->
            [action |-> IF HeadlessAnswer[kind] = "reject" THEN "fail_closed"
                                                           ELSE "auto_respond",
             answer |-> HeadlessAnswer[kind]]
      [] mode = "human" /\ kind # "unknown" -> [action |-> "defer", answer |-> "none"]
      [] OTHER -> [action |-> "fail_closed", answer |-> "reject"]

Unopened == [mode |-> "unopened", kind |-> "unknown", claimedBy |-> NoClient,
             answeredBy |-> NoClient, response |-> "none", timedOut |-> FALSE,
             disconnected |-> {}]

Entries ==
    [mode : Modes \cup {"unopened"}, kind : Kinds, claimedBy : Clients \cup {NoClient},
     answeredBy : Clients \cup {NoClient}, response : Answers \cup {"none"},
     timedOut : BOOLEAN, disconnected : SUBSET Clients]

ArbiterTypeOK == entries \in [Requests -> Entries]

ArbiterInit == entries = [r \in Requests |-> Unopened]

Opened(r) == entries[r].mode # "unopened"
OwnerRole(r) == SoleResponder(entries[r].mode)

Opening(mode, kind) == [Unopened EXCEPT !.mode = mode, !.kind = kind]

ClaimAllowed(e, c, role) ==
    /\ ~e.timedOut
    /\ e.answeredBy = NoClient
    /\ role # "none" /\ role = SoleResponder(e.mode)
    /\ e.claimedBy \in {NoClient, c}

(* Mutant: a second answer is not refused. *)
AnswerAllowedAgain(e, c, role) ==
    /\ ~e.timedOut /\ c \notin e.disconnected
    /\ role # "none" /\ role = SoleResponder(e.mode)
    /\ e.claimedBy \in {NoClient, c}

AnswerAllowed(e, c, role) ==
    /\ ~e.timedOut
    /\ c \notin e.disconnected
    /\ role # "none" /\ role = SoleResponder(e.mode)
    /\ e.answeredBy = NoClient
    /\ e.claimedBy \in {NoClient, c}

Answered(e, c, answer) ==
    [e EXCEPT !.claimedBy = c, !.answeredBy = c, !.response = answer]

(* applyPolicyDecision, called with the decision open returned: a deferred *)
(* request is claimed, any other answered; with no owner the answer is     *)
(* recorded without a check.                                               *)
ApplyAllowed(e, c) ==
    LET role == SoleResponder(e.mode)
    IN  CASE Policy(e.mode, e.kind).action = "defer" -> ClaimAllowed(e, c, role)
          [] role = "none" -> TRUE
          [] OTHER -> AnswerAllowed(e, c, role)

Applied(e, c) ==
    LET decision == Policy(e.mode, e.kind)
    IN  CASE decision.action = "defer" -> [e EXCEPT !.claimedBy = c]
          [] SoleResponder(e.mode) = "none" ->
                [e EXCEPT !.answeredBy = c, !.response = decision.answer]
          [] OTHER -> Answered(e, c, decision.answer)

-----------------------------------------------------------------------------
(* Several clients at one arbiter *)

Open(r, mode, kind) ==
    /\ ~Opened(r)
    /\ entries' = [entries EXCEPT ![r] = Opening(mode, kind)]

Claim(r, c, role) ==
    /\ Opened(r)
    /\ ClaimAllowed(entries[r], c, role)
    /\ entries' = [entries EXCEPT ![r].claimedBy = c]

Answer(r, c, role, answer) ==
    /\ Opened(r)
    /\ AnswerAllowed(entries[r], c, role)
    /\ entries' = [entries EXCEPT ![r] = Answered(@, c, answer)]

(* Applied once: its only caller applies a decision where it opened it.    *)
Apply(r, c) ==
    /\ Opened(r)
    /\ entries[r].answeredBy = NoClient
    /\ ApplyAllowed(entries[r], c)
    /\ entries' = [entries EXCEPT ![r] = Applied(@, c)]

(* Mutant: a time-out is marked on an answered request too. *)
MarkTimedOutAnswered(r) ==
    /\ Opened(r)
    /\ entries' = [entries EXCEPT ![r].timedOut = TRUE]

MarkTimedOut(r) ==
    /\ Opened(r)
    /\ entries[r].answeredBy = NoClient
    /\ entries' = [entries EXCEPT ![r].timedOut = TRUE]

RecordDisconnect(c) ==
    entries' = [r \in Requests |->
        IF entries[r].claimedBy = c /\ entries[r].answeredBy = NoClient
        THEN [entries[r] EXCEPT !.disconnected = @ \cup {c}]
        ELSE entries[r]]

ArbiterNext ==
    \/ \E r \in Requests, mode \in Modes, kind \in Kinds : Open(r, mode, kind)
    \/ \E r \in Requests, c \in Clients, role \in Roles : Claim(r, c, role)
    \/ \E r \in Requests, c \in Clients, role \in Roles, a \in Answers : Answer(r, c, role, a)
    \/ \E r \in Requests, c \in Clients : Apply(r, c)
    \/ \E r \in Requests : MarkTimedOut(r)
    \/ \E c \in Clients : RecordDisconnect(c)

-----------------------------------------------------------------------------
(* Properties *)

(* An answer counts only from the client that holds the claim, and never   *)
(* from one that was recorded as gone or for a request that timed out,     *)
(* whatever the order in which clients claim, vanish, time out and answer  *)
(* (request_policy.ts:295: late answers never become authority).           *)
LateAnswersNeverCount ==
    \A r \in Requests :
        Opened(r) /\ OwnerRole(r) # "none" /\ entries[r].answeredBy # NoClient =>
            /\ entries[r].claimedBy = entries[r].answeredBy
            /\ entries[r].answeredBy \notin entries[r].disconnected
            /\ ~entries[r].timedOut

(* Once a request is answered no call of any client changes who answered   *)
(* it or what (request_policy.ts:236: never first-response-wins).          *)
AnswersAreFinal ==
    [][\A r \in Requests : entries[r].answeredBy # NoClient =>
            /\ entries'[r].answeredBy = entries[r].answeredBy
            /\ entries'[r].response = entries[r].response]_entries

(* The inductive invariant behind both: an entry whose answer, if it has   *)
(* one, came from the client entitled to give it.  With no owner the entry *)
(* is recorded without a check.                                            *)
Rightful(e) ==
    /\ e.mode = "unopened" => e = Unopened
    /\ e.mode # "unopened" /\ SoleResponder(e.mode) # "none" /\ e.answeredBy # NoClient =>
         /\ e.claimedBy = e.answeredBy
         /\ e.answeredBy \notin e.disconnected
         /\ ~e.timedOut

ArbiterInv == ArbiterTypeOK /\ \A r \in Requests : Rightful(entries[r])
=============================================================================
