---------------------------- MODULE OwnerSession ----------------------------
(***************************************************************************)
(* One connection to the private app server: the transport's read loop and *)
(* its calls (owner/app_server_transport.ts), the owner adapter that       *)
(* acquires and releases the thread (kernel/production.ts), and the        *)
(* session's handling of server requests (owner/turn_session.ts) through   *)
(* the arbiter.                                                            *)
(*                                                                         *)
(* The read loop awaits each frame's handler before it takes the next, and *)
(* a handler's only await is the write of an answer, which puts the frame  *)
(* in the pipe at once.  A call resolved by a reply goes on in a later     *)
(* step: the loop may dispatch further frames first.                       *)
(* The adapter's sessions are "headless"; mode is a parameter of the       *)
(* session, and the "human" and "none" ones are driven by the same caller. *)
(***************************************************************************)
EXTENDS RequestArbiter

CONSTANTS
    MaxCalls,  \* bound: calls one connection makes
    MaxFrames  \* bound: frames in flight from the app server

Self == "headless-ingress"  \* the session's clientId

ASSUME SessionAssumption ==
    /\ Self \in Clients
    /\ Requests \subseteq Nat \ {0}
    /\ MaxCalls \in Nat
    /\ MaxFrames \in Nat

VARIABLES
    mode,      \* ownershipMode of the TurnSession
    open,      \* TurnSession.#openRequests
    gate,      \* TurnSession.#humanGate
    transport, \* open, failed (#failure) or closed (#closed)
    reading,   \* the read loop runs
    inbound,   \* frames the app server wrote and the loop has not dispatched
    owner,     \* the adapter: how far acquireOwnership is, then released or closed
    call,      \* its call in flight
    calls,     \* #nextId - 1
    unreplied, \* calls the app server received and has not replied to
    wire,      \* answers written, by request
    asked      \* requests made

sessionVars == <<mode, open, gate, entries>>
wireVars == <<transport, reading, inbound, wire, asked, unreplied>>
vars == <<sessionVars, wireVars, owner, call, calls>>

FrameKinds == (Kinds \ {"unknown"}) \cup {"unsupported"}
Frames ==
    [k : {"reply"}, id : 1..MaxCalls, ok : BOOLEAN]
        \cup [k : {"ask"}, r : Requests, kind : FrameKinds]
        \cup [k : {"junk"}]
NoCall == [id |-> 0, state |-> "none"]

OwnerTypeOK ==
    /\ ArbiterTypeOK
    /\ mode \in {"headless", "human", "none"}
    /\ open \subseteq Requests
    /\ gate \in {"none", "approval", "user_input"}
    /\ transport \in {"open", "failed", "closed"}
    /\ reading \in BOOLEAN
    /\ inbound \in Seq(Frames) /\ Len(inbound) <= MaxFrames
    /\ owner \in {"new", "initializing", "initialized", "resuming", "acquired",
                  "refused", "released", "closed"}
    /\ call \in [id : 0..MaxCalls, state : {"none", "pending", "resolved", "rejected"}]
    /\ calls \in 0..MaxCalls
    /\ unreplied \subseteq 1..MaxCalls
    /\ wire \in [Requests -> Seq(Answers)]
    /\ asked \subseteq Requests

OwnerInit ==
    /\ ArbiterInit
    /\ mode \in {"headless", "human", "none"}
    /\ open = {} /\ gate = "none"
    /\ transport = "open" /\ reading = TRUE /\ inbound = <<>>
    /\ owner = "new" /\ call = NoCall /\ calls = 0 /\ unreplied = {}
    /\ wire = [r \in Requests |-> <<>>]
    /\ asked = {}

-----------------------------------------------------------------------------
(* The transport *)

Rejected(c) == IF c.state = "pending" THEN [c EXCEPT !.state = "rejected"] ELSE c

(* #fail: the first failure is kept, and every pending call is rejected.   *)
Fail ==
    /\ transport' = IF transport = "open" THEN "failed" ELSE transport
    /\ call' = IF transport = "open" THEN Rejected(call) ELSE call

(* request: the frame is written, or the write fails.                      *)
BeginCall(to) ==
    /\ transport = "open"
    /\ call = NoCall
    /\ calls < MaxCalls
    /\ calls' = calls + 1
    /\ \/ /\ call' = [id |-> calls + 1, state |-> "pending"]
          /\ unreplied' = unreplied \cup {calls + 1}
          /\ UNCHANGED transport
       \/ /\ call' = [id |-> calls + 1, state |-> "rejected"]
          /\ transport' = "failed"
          /\ UNCHANGED unreplied
    /\ owner' = to
    /\ UNCHANGED <<sessionVars, reading, inbound, wire, asked>>

CallTimesOut ==
    /\ call.state = "pending"
    /\ call' = [call EXCEPT !.state = "rejected"]
    /\ UNCHANGED <<sessionVars, wireVars, owner, calls>>

(* The process exits, or its pipe ends or carries a truncated frame.       *)
ConnectionBreaks ==
    /\ transport = "open"
    /\ Fail
    /\ UNCHANGED <<sessionVars, reading, inbound, wire, asked, unreplied, owner, calls>>

(* A loop whose transport failed goes on with the lines it has buffered    *)
(* and ends at the next read.                                              *)
ReadLoopEnds ==
    /\ reading
    /\ transport # "open"
    /\ reading' = FALSE
    /\ inbound' = <<>>
    /\ UNCHANGED <<sessionVars, transport, wire, asked, unreplied, owner, call, calls>>

-----------------------------------------------------------------------------
(* The session: handleServerRequest and resolveDeferredRequest *)

(* Mutant: the gate is named after the request. *)
GateOfKind(kind) == kind

GateFor(kind) ==
    CASE kind \in {"approval", "permissions"} -> "approval"
      [] kind \in {"userInput", "elicitation"} -> "user_input"
      [] OTHER -> "none"

(* Mutant: a decline is recorded, whatever was answered. *)
HandleServerRequestDeclining(r, kind) ==
    /\ entries' = [entries EXCEPT ![r] = Answered(Opening(mode, kind), Self, "decline")]
    /\ UNCHANGED <<open, gate>>

(* The request is opened, gated when a human owns the thread, and the      *)
(* policy applied; unless it was deferred it is no longer open after that. *)
HandleServerRequest(r, kind) ==
    LET deferred == Policy(mode, kind).action = "defer"
    IN  /\ entries' = [entries EXCEPT ![r] = Applied(Opening(mode, kind), Self)]
        /\ open' = IF deferred THEN open \cup {r} ELSE open \ {r}
        /\ gate' = IF mode = "human" THEN GateFor(kind) ELSE gate

(* Mutant: the gate is left to the next request. *)
ResolveDeferredKeepingGate(r, answer) ==
    /\ r \in open
    /\ AnswerAllowed(entries[r], Self, "interactive_human")
    /\ entries' = [entries EXCEPT ![r] = Answered(@, Self, answer)]
    /\ open' = open \ {r}
    /\ UNCHANGED <<gate, mode, wireVars, owner, call, calls>>

(* A person answers; what is deferred is answered outside of this client,  *)
(* and nothing is written here.                                            *)
ResolveDeferred(r, answer) ==
    /\ r \in open
    /\ AnswerAllowed(entries[r], Self, "interactive_human")
    /\ entries' = [entries EXCEPT ![r] = Answered(@, Self, answer)]
    /\ open' = open \ {r}
    /\ gate' = IF open \ {r} = {} THEN "none" ELSE gate
    /\ UNCHANGED <<mode, wireVars, owner, call, calls>>

-----------------------------------------------------------------------------
(* The read loop: #dispatch of one frame *)

HasFrame(k) == reading /\ inbound # <<>> /\ Head(inbound).k = k

(* A reply settles the call that carries its id; a reply nobody waits for, *)
(* its call having timed out, is dropped.                                  *)
DispatchReply ==
    /\ HasFrame("reply")
    /\ inbound' = Tail(inbound)
    /\ call' = IF call.state = "pending" /\ call.id = Head(inbound).id
               THEN [call EXCEPT !.state = IF Head(inbound).ok THEN "resolved" ELSE "rejected"]
               ELSE call
    /\ UNCHANGED <<sessionVars, transport, reading, wire, asked, unreplied, owner, calls>>

(* Frames the loop cannot dispatch end it.                                 *)
DispatchJunk ==
    /\ HasFrame("junk")
    /\ Fail
    /\ reading' = FALSE /\ inbound' = <<>>
    /\ UNCHANGED <<sessionVars, wire, asked, unreplied, owner, calls>>

(* A method the transport does not know: an error answer, then failure.    *)
DispatchUnsupported ==
    /\ HasFrame("ask") /\ Head(inbound).kind = "unsupported"
    /\ \/ /\ transport = "open"
          /\ wire' = [wire EXCEPT ![Head(inbound).r] = Append(@, "reject")]
       \/ UNCHANGED wire
    /\ Fail
    /\ reading' = FALSE /\ inbound' = <<>>
    /\ UNCHANGED <<sessionVars, asked, unreplied, owner, calls>>

(* Mutant: a request that comes before or after ownership is ignored. *)
DispatchUnownedIgnored ==
    /\ HasFrame("ask") /\ Head(inbound).kind # "unsupported"
    /\ owner # "acquired"
    /\ inbound' = Tail(inbound)
    /\ UNCHANGED <<sessionVars, transport, reading, wire, asked, unreplied, owner, call, calls>>

(* A request while the thread is not owned: the adapter throws.            *)
DispatchUnowned ==
    /\ HasFrame("ask") /\ Head(inbound).kind # "unsupported"
    /\ owner # "acquired"
    /\ Fail
    /\ reading' = FALSE /\ inbound' = <<>>
    /\ UNCHANGED <<sessionVars, wire, asked, unreplied, owner, calls>>

(* A request while it is: the session handles it and the answer, if there  *)
(* is one, is written.  On a failed transport the write is refused, and    *)
(* the loop ends.                                                          *)
DispatchOwned ==
    /\ HasFrame("ask") /\ Head(inbound).kind # "unsupported"
    /\ owner = "acquired"
    /\ LET r == Head(inbound).r
           kind == Head(inbound).kind
           answer == Policy(mode, kind).answer
       IN  /\ HandleServerRequest(r, kind)
           /\ \/ /\ answer # "none" /\ transport = "open"
                 /\ wire' = [wire EXCEPT ![r] = Append(@, answer)]
                 /\ inbound' = Tail(inbound)
                 /\ UNCHANGED <<transport, reading, call>>
              \/ /\ answer # "none"
                 /\ Fail
                 /\ reading' = FALSE /\ inbound' = <<>>
                 /\ UNCHANGED wire
              \/ /\ answer = "none"
                 /\ inbound' = Tail(inbound)
                 /\ UNCHANGED <<transport, reading, wire, call>>
    /\ UNCHANGED <<mode, asked, unreplied, owner, calls>>

ReadLoop ==
    \/ DispatchReply \/ DispatchJunk \/ DispatchUnsupported
    \/ DispatchUnowned \/ DispatchOwned \/ ReadLoopEnds

-----------------------------------------------------------------------------
(* The adapter *)

Continues == call.state \in {"resolved", "rejected"}

(* acquireOwnership: initialize and its notification, then the exact       *)
(* thread's resume; a new session when the proof holds.                    *)
Initialize == owner = "new" /\ BeginCall("initializing")
Resume == owner = "initialized" /\ BeginCall("resuming")

InitializeReturns ==
    /\ owner = "initializing" /\ Continues
    /\ call' = NoCall
    /\ owner' = IF call.state = "resolved" /\ transport = "open"
                THEN "initialized" ELSE "refused"
    /\ UNCHANGED <<sessionVars, wireVars, calls>>

(* #resumeExact: the thread the app server names is the bound one, or not. *)
ResumeReturns ==
    /\ owner = "resuming" /\ Continues
    /\ call' = NoCall
    /\ \/ /\ call.state = "resolved"
          /\ owner' = "acquired"
       \/ owner' = "refused"
    /\ UNCHANGED <<sessionVars, wireVars, calls>>

(* startTurn, and the checks it makes before it calls.                     *)
StartTurn ==
    /\ owner = "acquired"
    /\ mode = "headless" /\ gate = "none" /\ open = {}
    /\ BeginCall("acquired")

TurnReturns ==
    /\ owner \in {"acquired", "released", "closed", "refused"} /\ Continues
    /\ call' = NoCall
    /\ UNCHANGED <<sessionVars, wireVars, owner, calls>>

ReleaseOwnership ==
    /\ owner = "acquired"
    /\ open = {}
    /\ owner' = "released"
    /\ UNCHANGED <<sessionVars, wireVars, call, calls>>

(* Mutant: close leaves the calls in flight to their reader. *)
CloseOnly ==
    /\ owner # "closed"
    /\ owner' = "closed"
    /\ transport' = "closed"
    /\ UNCHANGED <<sessionVars, reading, inbound, wire, asked, unreplied, call, calls>>

Close ==
    /\ owner # "closed"
    /\ owner' = "closed"
    /\ transport' = "closed"
    /\ call' = Rejected(call)
    /\ UNCHANGED <<sessionVars, reading, inbound, wire, asked, unreplied, calls>>

-----------------------------------------------------------------------------
(* The app server (external) *)

ServerWrites(frame) ==
    /\ transport = "open"
    /\ Len(inbound) < MaxFrames
    /\ inbound' = Append(inbound, frame)

ServerReplies(i) ==
    /\ i \in unreplied
    /\ \E ok \in BOOLEAN : ServerWrites([k |-> "reply", id |-> i, ok |-> ok])
    /\ unreplied' = unreplied \ {i}
    /\ UNCHANGED <<sessionVars, transport, reading, wire, asked, owner, call, calls>>

ServerAsks(r, kind) ==
    /\ r \notin asked
    /\ \A s \in Requests : s < r => s \in asked
    /\ ServerWrites([k |-> "ask", r |-> r, kind |-> kind])
    /\ asked' = asked \cup {r}
    /\ UNCHANGED <<sessionVars, transport, reading, wire, unreplied, owner, call, calls>>

ServerGarbles ==
    /\ ServerWrites([k |-> "junk"])
    /\ UNCHANGED <<sessionVars, transport, reading, wire, asked, unreplied, owner, call, calls>>

OwnerNext ==
    \/ ReadLoop
    \/ Initialize \/ InitializeReturns \/ Resume \/ ResumeReturns
    \/ StartTurn \/ TurnReturns \/ ReleaseOwnership \/ Close
    \/ CallTimesOut \/ ConnectionBreaks
    \/ \E r \in Requests, answer \in Answers : ResolveDeferred(r, answer)
    \/ \E i \in 1..MaxCalls : ServerReplies(i)
    \/ \E r \in Requests, kind \in FrameKinds : ServerAsks(r, kind)
    \/ ServerGarbles

OwnerSpec == OwnerInit /\ [][OwnerNext]_vars

(* The event loop runs the read loop; nobody has to answer, call or close. *)
OwnerFairness == WF_vars(ReadLoop)

-----------------------------------------------------------------------------
(* Properties *)

(* What the app server sees of the owner is the promise: one answer to a   *)
(* request, and no request left hanging on a connection that stands, even  *)
(* one that overtakes the acquisition or comes after the release.  A       *)
(* request deferred to a person is not promised.                           *)
Promised == IF mode = "human" THEN {} ELSE asked

Promise == INSTANCE RequestPromise WITH
    asked <- Promised,
    answered <- {r \in Promised : wire[r] # <<>>},
    up <- transport = "open"

PromiseKept == Promise!Spec

(* Its part without Settled: what no step may do.                          *)
PromiseSafe == Promise!Init /\ [][Promise!Next]_Promise!vars

(* An answer that reached the app server is the only one to its request,   *)
(* and the one the arbiter recorded for it, if the request came to the     *)
(* arbiter at all: whatever is retried, refused or fails half-way.         *)
OneAnswerOnTheWire ==
    \A r \in Requests :
        /\ Len(wire[r]) <= 1
        /\ Opened(r) /\ wire[r] # <<>> => wire[r] = <<entries[r].response>>

(* Nothing keeps mail out of the thread for good: the gate is only up      *)
(* while a request is open, and a session that answers by itself leaves    *)
(* none open, on no path through a failed write or a refused request.      *)
NothingHoldsMailBack ==
    /\ gate # "none" => open # {}
    /\ mode # "human" => open = {}

(* No call outlives its connection: however it ends (a failed write, the   *)
(* process, garbage, close), and whichever step of the acquisition or of a *)
(* turn was under way, its caller is told.                                 *)
NoCallOutlivesConnection == transport # "open" => call.state # "pending"

-----------------------------------------------------------------------------
(* The inductive invariant behind them *)

(* A request is asked once: while its frame is on the way, and before,     *)
(* neither the arbiter nor the wire knows of it.                           *)
AsksAreFresh ==
    /\ \A i \in 1..Len(inbound) : inbound[i].k = "ask" =>
          /\ inbound[i].r \in asked
          /\ ~Opened(inbound[i].r) /\ wire[inbound[i].r] = <<>>
    /\ \A i, j \in 1..Len(inbound) :
          i # j /\ inbound[i].k = "ask" /\ inbound[j].k = "ask" => inbound[i].r # inbound[j].r
    /\ \A r \in Requests : r \notin asked => ~Opened(r) /\ wire[r] = <<>>

OpenWasOpened == \A r \in open : Opened(r)

(* What was written is what was recorded, as the answer and not only as a  *)
(* response that may still come.                                           *)
WireAgrees ==
    \A r \in Requests :
        /\ Len(wire[r]) <= 1
        /\ Opened(r) /\ wire[r] # <<>> =>
             entries[r].answeredBy # NoClient /\ wire[r] = <<entries[r].response>>

(* Frames on the way, arbiter, gate, wire and calls agree in every state   *)
(* of a connection (app_server_transport.ts, turn_session.ts).             *)
OwnerInv ==
    /\ OwnerTypeOK
    /\ ArbiterInv
    /\ AsksAreFresh
    /\ OpenWasOpened
    /\ WireAgrees
    /\ NothingHoldsMailBack
    /\ NoCallOutlivesConnection
=============================================================================
