--------------------------- MODULE OwnerSessionProof ---------------------------
(***************************************************************************)
(* That late answers never count and that answers are final, for any set   *)
(* of requests and of clients and any order of their calls; and what the   *)
(* owner of one connection keeps of its promise to the app server, for any *)
(* number of calls, requests and frames in flight.  Before them, which     *)
(* thread a process owns and that a binding is final, for any number of    *)
(* processes and threads; after them, all parts side by side.              *)
(***************************************************************************)
EXTENDS MCOwner, TLAPS

-----------------------------------------------------------------------------
(* The thread and its process *)

LifecycleSpec == LifecycleInit /\ [][LifecycleNext]_lifecycleVars

(* What acquire has established at each of its awaits, and what it keeps   *)
(* while a later acquire of the same process is under way.                 *)
Awaiting ==
    /\ at = "resuming" => stored # NoThread /\ expected \in {NoThread, stored}
    /\ at \in {"starting", "persisting"} => stored = NoThread /\ expected = NoThread
    /\ at = "persisting" => thread # NoThread

Owning == acquired => stored # NoThread /\ thread = stored /\ expected \in {NoThread, stored}

LifecycleInv == LifecycleTypeOK /\ Awaiting /\ Owning

LEMMA UpToCreated ==
  ASSUME NEW n \in 0..MaxThreads, NEW e \in 0..n
  PROVE  e \in Threads \cup {NoThread}
  BY LifecycleAssumption DEF Threads, NoThread

LEMMA LifecycleStarts == LifecycleInit => LifecycleInv
<1> SUFFICES ASSUME LifecycleInit PROVE LifecycleInv
  OBVIOUS
<1>1. MaxThreads \in Nat /\ 1 <= MaxThreads /\ MaxStarts \in Nat
  BY LifecycleAssumption
<1>2. created \in {0, 1} /\ stored \in {0, 1}
  BY DEF LifecycleInit
<1>3. created \in 0..MaxThreads /\ stored \in 0..created
  BY <1>1, <1>2 DEF LifecycleInit
<1>4. stored \in Threads \cup {NoThread}
  BY <1>3, UpToCreated
<1>5. expected \in Threads \cup {NoThread} /\ thread \in Threads \cup {NoThread}
  BY DEF LifecycleInit
<1>6. starts \in 0..MaxStarts
  BY <1>1 DEF LifecycleInit
<1>7. LifecycleTypeOK
  BY <1>3, <1>4, <1>5, <1>6 DEF LifecycleInit, LifecycleTypeOK
<1> QED BY <1>7 DEF LifecycleInit, LifecycleInv, Awaiting, Owning

(* Every step of a process and of the app server keeps what acquire has    *)
(* established.                                                            *)
LEMMA LifecycleStep ==
  ASSUME LifecycleInv, [LifecycleNext]_lifecycleVars
  PROVE  LifecycleInv'
<1> USE LifecycleAssumption DEF NoThread, Threads
<1>1. ASSUME NEW e \in 0..created, Spawn(e) PROVE LifecycleInv'
  <2>1. e \in Threads \cup {NoThread}
    BY UpToCreated DEF LifecycleInv, LifecycleTypeOK
  <2>2. starts + 1 \in 0..MaxStarts
    BY <1>1 DEF Spawn, LifecycleInv, LifecycleTypeOK
  <2> HIDE DEF Threads, NoThread
  <2>3. NoThread \in Threads \cup {NoThread}
    OBVIOUS
  <2>4. LifecycleTypeOK'
    BY <1>1, <2>1, <2>2, <2>3 DEF LifecycleInv, LifecycleTypeOK, Spawn
  <2> QED BY <1>1, <2>4 DEF LifecycleInv, Awaiting, Owning, Spawn
<1>2. CASE Die
  BY <1>2 DEF LifecycleInv, LifecycleTypeOK, Awaiting, Owning, Die
<1>3. CASE Acquire
  BY <1>3 DEF LifecycleInv, LifecycleTypeOK, Awaiting, Owning, Acquire
<1>4. CASE Loaded
  <2>1. CASE stored # NoThread /\ expected \in {NoThread, stored}
    BY <1>4, <2>1 DEF LifecycleInv, LifecycleTypeOK, Awaiting, Owning, Loaded
  <2>2. CASE stored = NoThread /\ expected = NoThread
    BY <1>4, <2>2 DEF LifecycleInv, LifecycleTypeOK, Awaiting, Owning, Loaded
  <2>3. CASE /\ ~(stored # NoThread /\ expected \in {NoThread, stored})
             /\ ~(stored = NoThread /\ expected = NoThread)
    BY <1>4, <2>3 DEF LifecycleInv, LifecycleTypeOK, Awaiting, Owning, Loaded
  <2> QED BY <2>1, <2>2, <2>3
<1>5. CASE Started
  BY <1>5 DEF LifecycleInv, LifecycleTypeOK, Awaiting, Owning, Started
<1>6. CASE Persisted
  <2> HIDE DEF Threads, NoThread
  <2>1. stored' \in {stored, thread}
    BY <1>6 DEF Persisted
  <2>2. LifecycleTypeOK'
    BY <1>6, <2>1 DEF LifecycleInv, LifecycleTypeOK, Persisted
  <2>3. Awaiting'
    BY <1>6 DEF Awaiting, Persisted
  <2>4. Owning'
    BY <1>6, <2>1 DEF LifecycleInv, Awaiting, Owning, Persisted
  <2> QED BY <2>2, <2>3, <2>4 DEF LifecycleInv
<1>7. CASE SnapshotDisowns
  BY <1>7 DEF LifecycleInv, LifecycleTypeOK, Awaiting, Owning, SnapshotDisowns
<1>8. ASSUME NEW actual \in 0..created, Resumed(actual) PROVE LifecycleInv'
  BY <1>8 DEF LifecycleInv, LifecycleTypeOK, Awaiting, Owning, Resumed
<1>9. CASE UNCHANGED lifecycleVars
  BY <1>9 DEF LifecycleInv, LifecycleTypeOK, Awaiting, Owning, lifecycleVars
<1> QED BY <1>1, <1>2, <1>3, <1>4, <1>5, <1>6, <1>7, <1>8, <1>9 DEF LifecycleNext

LEMMA LifecycleInvariant == LifecycleSpec => []LifecycleInv
  BY LifecycleStarts, LifecycleStep, PTL DEF LifecycleSpec

(* A process that believes it owns a thread owns the one that is durably   *)
(* bound and that it was configured for (thread_lifecycle.ts, acquire and  *)
(* snapshot).                                                              *)
THEOREM OwnershipIsOfTheBoundThread == LifecycleSpec => []OwnsTheBoundThread
<1>1. LifecycleInv => OwnsTheBoundThread
  BY DEF LifecycleInv, Owning, OwnsTheBoundThread
<1> QED BY <1>1, LifecycleInvariant, PTL

(* No path replaces a stored thread (thread_lifecycle.ts, persistFirst is  *)
(* reached only when nothing was stored).                                  *)
THEOREM BindingNeverReplaced == LifecycleSpec => BindingIsFinal
<1>1. ASSUME LifecycleInv, [LifecycleNext]_lifecycleVars, stored # NoThread
      PROVE  stored' = stored
  <2>1. ASSUME Persisted PROVE FALSE
    BY <1>1, <2>1 DEF LifecycleInv, Awaiting, Persisted
  <2> QED BY <1>1, <2>1 DEF LifecycleNext, Spawn, Die, Acquire, Loaded, Started,
                            SnapshotDisowns, Resumed, lifecycleVars
<1>2. LifecycleInv /\ [LifecycleNext]_lifecycleVars
        => [stored # NoThread => stored' = stored]_lifecycleVars
  BY <1>1
<1> QED BY <1>2, LifecycleInvariant, PTL DEF LifecycleSpec, BindingIsFinal

-----------------------------------------------------------------------------
(* Every proof from here on uses what is assumed of the constants. *)
USE ArbiterAssumption, SessionAssumption

-----------------------------------------------------------------------------
(* The arbiter among its clients *)

ArbiterSpec == ArbiterInit /\ [][ArbiterNext]_entries

(* What a step may make of one entry.                                      *)
Becomes(e, f) ==
    /\ f \in Entries
    /\ Rightful(f)
    /\ e.answeredBy # NoClient => f.answeredBy = e.answeredBy /\ f.response = e.response

LEMMA UnopenedIsAnEntry == Unopened \in Entries /\ Rightful(Unopened)
  BY DEF Unopened, Entries, Rightful, Kinds, NoClient

LEMMA OpeningIsRightful ==
  ASSUME NEW m \in Modes, NEW kind \in Kinds
  PROVE  Becomes(Unopened, Opening(m, kind))
  BY DEF Becomes, Opening, Unopened, Entries, Rightful, Modes, NoClient

LEMMA ClaimIsRightful ==
  ASSUME NEW e \in Entries, NEW c \in Clients, Rightful(e), e.mode # "unopened",
         e.answeredBy = NoClient
  PROVE  Becomes(e, [e EXCEPT !.claimedBy = c])
  BY DEF Becomes, Entries, Rightful

LEMMA AnswerIsRightful ==
  ASSUME NEW e \in Entries, NEW c \in Clients, NEW role, NEW a \in Answers,
         e.mode # "unopened", AnswerAllowed(e, c, role)
  PROVE  Becomes(e, Answered(e, c, a))
  BY DEF Becomes, Entries, Rightful, AnswerAllowed, Answered

LEMMA PolicyAnswers ==
  ASSUME NEW m \in Modes, NEW kind \in Kinds, Policy(m, kind).action # "defer"
  PROVE  Policy(m, kind).answer \in Answers
  BY DEF Policy, HeadlessAnswer, Kinds, Answers, Modes

LEMMA DeferHasAnOwner ==
  ASSUME NEW m \in Modes, NEW kind \in Kinds, Policy(m, kind).action = "defer"
  PROVE  SoleResponder(m) # "none"
  BY DEF Policy, SoleResponder, HeadlessAnswer, Kinds, Modes

LEMMA ApplyIsRightful ==
  ASSUME NEW e \in Entries, NEW c \in Clients, Rightful(e), e.mode # "unopened",
         e.answeredBy = NoClient, ApplyAllowed(e, c)
  PROVE  Becomes(e, Applied(e, c))
<1> DEFINE decision == Policy(e.mode, e.kind)
           role == SoleResponder(e.mode)
<1>1. CASE decision.action = "defer"
  <2>1. e.mode \in Modes /\ e.kind \in Kinds
    BY DEF Entries
  <2>2. role # "none"
    BY <1>1, <2>1, DeferHasAnOwner
  <2>3. Applied(e, c) = [e EXCEPT !.claimedBy = c]
    BY <1>1, <2>2 DEF Applied
  <2> QED BY <2>3, ClaimIsRightful
<1>2. CASE decision.action # "defer"
  <2>1. e.mode \in Modes /\ e.kind \in Kinds
    BY DEF Entries
  <2>2. decision.answer \in Answers
    BY <1>2, <2>1, PolicyAnswers
  <2>3. CASE role = "none"
    <3>1. Applied(e, c) = [e EXCEPT !.answeredBy = c, !.response = decision.answer]
      BY <1>2, <2>3 DEF Applied
    <3> QED BY <2>2, <2>3, <3>1 DEF Becomes, Entries, Rightful
  <2>4. CASE role # "none"
    <3>1. Applied(e, c) = Answered(e, c, decision.answer) /\ AnswerAllowed(e, c, role)
      BY <1>2, <2>4 DEF Applied, ApplyAllowed
    <3> QED BY <2>2, <3>1, AnswerIsRightful
  <2> QED BY <2>3, <2>4
<1> QED BY <1>1, <1>2

LEMMA TimeOutIsRightful ==
  ASSUME NEW e \in Entries, Rightful(e), e.mode # "unopened", e.answeredBy = NoClient
  PROVE  Becomes(e, [e EXCEPT !.timedOut = TRUE])
  BY DEF Becomes, Entries, Rightful

LEMMA DisconnectIsRightful ==
  ASSUME NEW e \in Entries, NEW c \in Clients, Rightful(e), e.claimedBy = c,
         e.answeredBy = NoClient
  PROVE  Becomes(e, [e EXCEPT !.disconnected = @ \cup {c}])
<1>1. e.mode # "unopened"
  BY ArbiterAssumption DEF Rightful, Unopened
<1> QED BY <1>1 DEF Becomes, Entries, Rightful

LEMMA Unchanged ==
  ASSUME NEW e \in Entries, Rightful(e)
  PROVE  Becomes(e, e)
  BY DEF Becomes

(* Whatever a client calls, every entry becomes one whose answer is        *)
(* rightful, and an answer that is there stays.                            *)
LEMMA StepBecomes ==
  ASSUME ArbiterInv, [ArbiterNext]_entries
  PROVE  /\ entries' \in [Requests -> Entries]
         /\ \A r \in Requests : Becomes(entries[r], entries'[r])
<1> USE DEF ArbiterInv, ArbiterTypeOK
<1>0. \A r \in Requests : entries[r] \in Entries /\ Becomes(entries[r], entries[r])
  BY Unchanged
<1>1. ASSUME NEW r \in Requests, NEW f, Becomes(entries[r], f),
             entries' = [entries EXCEPT ![r] = f]
      PROVE  /\ entries' \in [Requests -> Entries]
             /\ \A q \in Requests : Becomes(entries[q], entries'[q])
  BY <1>0, <1>1 DEF Becomes
<1>2. ASSUME NEW r \in Requests, NEW m \in Modes, NEW kind \in Kinds, Open(r, m, kind)
      PROVE  Becomes(entries[r], Opening(m, kind))
             /\ entries' = [entries EXCEPT ![r] = Opening(m, kind)]
  <2>1. entries[r] = Unopened
    BY <1>2 DEF Open, Opened, Rightful
  <2> QED BY <1>2, <2>1, OpeningIsRightful DEF Open
<1>3. ASSUME NEW r \in Requests, NEW c \in Clients, NEW role, Claim(r, c, role)
      PROVE  Becomes(entries[r], [entries[r] EXCEPT !.claimedBy = c])
             /\ entries' = [entries EXCEPT ![r] = [entries[r] EXCEPT !.claimedBy = c]]
  BY <1>0, <1>3, ClaimIsRightful DEF Claim, ClaimAllowed, Opened
<1>4. ASSUME NEW r \in Requests, NEW c \in Clients, NEW role, NEW a \in Answers,
             Answer(r, c, role, a)
      PROVE  Becomes(entries[r], Answered(entries[r], c, a))
             /\ entries' = [entries EXCEPT ![r] = Answered(entries[r], c, a)]
  BY <1>0, <1>4, AnswerIsRightful DEF Answer, Opened
<1>5. ASSUME NEW r \in Requests, NEW c \in Clients, Apply(r, c)
      PROVE  Becomes(entries[r], Applied(entries[r], c))
             /\ entries' = [entries EXCEPT ![r] = Applied(entries[r], c)]
  BY <1>0, <1>5, ApplyIsRightful DEF Apply, Opened
<1>6. ASSUME NEW r \in Requests, MarkTimedOut(r)
      PROVE  Becomes(entries[r], [entries[r] EXCEPT !.timedOut = TRUE])
             /\ entries' = [entries EXCEPT ![r] = [entries[r] EXCEPT !.timedOut = TRUE]]
  BY <1>0, <1>6, TimeOutIsRightful DEF MarkTimedOut, Opened
<1>7. ASSUME NEW c \in Clients, RecordDisconnect(c)
      PROVE  /\ entries' \in [Requests -> Entries]
             /\ \A r \in Requests : Becomes(entries[r], entries'[r])
  <2>1. ASSUME NEW r \in Requests PROVE Becomes(entries[r], entries'[r])
    <3>1. CASE entries[r].claimedBy = c /\ entries[r].answeredBy = NoClient
      <4>1. entries'[r] = [entries[r] EXCEPT !.disconnected = @ \cup {c}]
        BY <1>7, <3>1 DEF RecordDisconnect
      <4> QED BY <1>0, <3>1, <4>1, DisconnectIsRightful
    <3>2. CASE ~(entries[r].claimedBy = c /\ entries[r].answeredBy = NoClient)
      <4>1. entries'[r] = entries[r]
        BY <1>7, <3>2 DEF RecordDisconnect
      <4> QED BY <1>0, <4>1
    <3> QED BY <3>1, <3>2
  <2>2. \A r \in Requests : entries'[r] \in Entries
    BY <2>1 DEF Becomes
  <2>3. entries' = [r \in Requests |-> entries'[r]]
    BY <1>7 DEF RecordDisconnect
  <2> QED BY <2>1, <2>2, <2>3
<1>8. CASE UNCHANGED entries
  BY <1>0, <1>8
<1> QED
  <2>1. CASE \E r \in Requests, m \in Modes, kind \in Kinds : Open(r, m, kind)
    BY <1>1, <1>2, <2>1
  <2>2. CASE \E r \in Requests, c \in Clients, role \in Roles : Claim(r, c, role)
    BY <1>1, <1>3, <2>2
  <2>3. CASE \E r \in Requests, c \in Clients, role \in Roles, a \in Answers :
               Answer(r, c, role, a)
    BY <1>1, <1>4, <2>3
  <2>4. CASE \E r \in Requests, c \in Clients : Apply(r, c)
    BY <1>1, <1>5, <2>4
  <2>5. CASE \E r \in Requests : MarkTimedOut(r)
    BY <1>1, <1>6, <2>5
  <2> QED BY <1>7, <1>8, <2>1, <2>2, <2>3, <2>4, <2>5 DEF ArbiterNext

LEMMA ArbiterInvariant == ArbiterSpec => []ArbiterInv
<1>1. ArbiterInit => ArbiterInv
  BY UnopenedIsAnEntry DEF ArbiterInit, ArbiterInv, ArbiterTypeOK
<1>2. ArbiterInv /\ [ArbiterNext]_entries => ArbiterInv'
  BY StepBecomes DEF ArbiterInv, ArbiterTypeOK, Becomes
<1> QED BY <1>1, <1>2, PTL DEF ArbiterSpec

(* An answer counts only from the client that holds the claim, never from  *)
(* one recorded as gone nor for a request that timed out                   *)
(* (ServerRequestArbiter.answer, markTimedOut, recordDisconnect).          *)
THEOREM LateAnswersRefused == ArbiterSpec => []LateAnswersNeverCount
<1>1. ArbiterInv => LateAnswersNeverCount
  BY DEF ArbiterInv, Rightful, LateAnswersNeverCount, Opened, OwnerRole
<1> QED BY <1>1, ArbiterInvariant, PTL

(* No call of any client changes an answer that was given                  *)
(* (ServerRequestArbiter: a second answer is refused).                     *)
THEOREM FirstAnswerStands == ArbiterSpec => AnswersAreFinal
<1>1. ArbiterInv /\ [ArbiterNext]_entries =>
        [\A r \in Requests : entries[r].answeredBy # NoClient =>
            /\ entries'[r].answeredBy = entries[r].answeredBy
            /\ entries'[r].response = entries[r].response]_entries
  BY StepBecomes DEF Becomes
<1> QED BY <1>1, ArbiterInvariant, PTL DEF ArbiterSpec, AnswersAreFinal

-----------------------------------------------------------------------------
(* The session of one connection *)

(* Frames leave at the front or all at once, or none does. *)
FramesLeave(f) ==
    f = inbound \/ f = <<>> \/ (inbound # <<>> /\ f = Tail(inbound))

LEMMA FramesShift ==
    ASSUME OwnerTypeOK, NEW f, FramesLeave(f)
    PROVE  /\ f \in Seq(Frames) /\ Len(f) <= MaxFrames
           /\ \E s \in {0, 1} : \A i \in 1..Len(f) : i + s \in 1..Len(inbound) /\ f[i] = inbound[i + s]
<1>1. inbound \in Seq(Frames) /\ Len(inbound) <= MaxFrames
  BY DEF OwnerTypeOK
<1>2. CASE f = inbound
  BY <1>1, <1>2
<1>3. CASE f = <<>>
  BY <1>1, <1>3
<1>4. CASE inbound # <<>> /\ f = Tail(inbound)
  <2>1. f \in Seq(Frames) /\ Len(f) = Len(inbound) - 1
    BY <1>1, <1>4
  <2>2. \A i \in 1..Len(f) : i + 1 \in 1..Len(inbound) /\ f[i] = inbound[i + 1]
    BY <1>1, <1>4, <2>1
  <2> QED BY <1>1, <2>1, <2>2
<1> QED BY <1>2, <1>3, <1>4 DEF FramesLeave

(* What OwnerInv says of the session and the requests, *)
SessionPart ==
    /\ ArbiterInv /\ AsksAreFresh /\ OpenWasOpened /\ WireAgrees /\ NothingHoldsMailBack
    /\ mode \in {"headless", "human", "none"}
    /\ open \subseteq Requests
    /\ gate \in {"none", "approval", "user_input"}
    /\ inbound \in Seq(Frames) /\ Len(inbound) <= MaxFrames
    /\ wire \in [Requests -> Seq(Answers)]
    /\ asked \subseteq Requests

(* and of the calls. *)
CallPart ==
    /\ transport \in {"open", "failed", "closed"}
    /\ reading \in BOOLEAN
    /\ owner \in {"new", "initializing", "initialized", "resuming", "acquired",
                  "refused", "released", "closed"}
    /\ call \in [id : 0..MaxCalls, state : {"none", "pending", "resolved", "rejected"}]
    /\ calls \in 0..MaxCalls
    /\ unreplied \subseteq 1..MaxCalls
    /\ NoCallOutlivesConnection

LEMMA OwnerParts ==
    /\ OwnerInv <=> SessionPart /\ CallPart
    /\ OwnerInv' <=> SessionPart' /\ CallPart'
BY DEF OwnerInv, OwnerTypeOK, ArbiterInv, SessionPart, CallPart

LEMMA OwnerStarts == OwnerInit => OwnerInv
<1> SUFFICES ASSUME OwnerInit PROVE OwnerInv
  OBVIOUS
<1>1. ArbiterInv
  BY UnopenedIsAnEntry DEF OwnerInit, ArbiterInit, ArbiterInv, ArbiterTypeOK
<1>2. \A r \in Requests : ~Opened(r)
  BY DEF OwnerInit, ArbiterInit, Opened, Unopened
<1>3. inbound \in Seq(Frames) /\ Len(inbound) = 0 /\ wire \in [Requests -> Seq(Answers)]
      /\ \A r \in Requests : wire[r] = <<>> /\ Len(wire[r]) = 0
  BY DEF OwnerInit
<1>4. SessionPart
  BY <1>1, <1>2, <1>3 DEF OwnerInit, SessionPart, AsksAreFresh, OpenWasOpened, WireAgrees,
     NothingHoldsMailBack
<1>5. CallPart
  BY DEF OwnerInit, CallPart, NoCall, NoCallOutlivesConnection
<1> QED BY <1>4, <1>5, OwnerParts

(* A step that dispatches, at most, and neither asks nor answers. *)
LEMMA SessionRests ==
    ASSUME SessionPart, OwnerTypeOK, UNCHANGED <<sessionVars, wire, asked>>, FramesLeave(inbound')
    PROVE  SessionPart'
<1> USE DEF SessionPart, sessionVars
<1>1. inbound' \in Seq(Frames) /\ Len(inbound') <= MaxFrames
  BY FramesShift
<1>2. PICK s \in {0, 1} :
        \A i \in 1..Len(inbound') : i + s \in 1..Len(inbound) /\ inbound'[i] = inbound[i + s]
  BY FramesShift
<1>3. ArbiterInv' /\ OpenWasOpened' /\ WireAgrees' /\ NothingHoldsMailBack'
      /\ entries' = entries
  BY DEF ArbiterInv, ArbiterTypeOK, OpenWasOpened, WireAgrees, NothingHoldsMailBack, Opened
<1>4. AsksAreFresh'
  <2>1. ASSUME NEW i \in 1..Len(inbound'), inbound'[i].k = "ask"
        PROVE  /\ inbound'[i].r \in asked
               /\ entries[inbound'[i].r].mode = "unopened" /\ wire[inbound'[i].r] = <<>>
    BY <1>2, <2>1 DEF AsksAreFresh, Opened
  <2>2. ASSUME NEW i \in 1..Len(inbound'), NEW j \in 1..Len(inbound'), i # j,
               inbound'[i].k = "ask", inbound'[j].k = "ask"
        PROVE  inbound'[i].r # inbound'[j].r
    BY <1>2, <2>2 DEF AsksAreFresh
  <2>3. \A r \in Requests : r \notin asked => ~Opened(r)' /\ wire'[r] = <<>>
    BY <1>3 DEF AsksAreFresh, Opened
  <2> QED BY <1>3, <2>1, <2>2, <2>3 DEF AsksAreFresh, Opened
<1> QED BY <1>1, <1>3, <1>4

(* However a transport fails, the call in flight is told. *)
LEMMA FailTells ==
    ASSUME CallPart, Fail
    PROVE  /\ transport' \in {"failed", "closed"}
           /\ call' \in [id : 0..MaxCalls, state : {"none", "pending", "resolved", "rejected"}]
           /\ call'.state # "pending"
BY DEF CallPart, Fail, Rejected, NoCallOutlivesConnection

LEMMA QuietStep ==
    ASSUME OwnerInv,
           \/ DispatchReply \/ DispatchJunk \/ DispatchUnowned \/ ReadLoopEnds
           \/ Initialize \/ Resume \/ StartTurn
           \/ InitializeReturns \/ ResumeReturns \/ TurnReturns
           \/ ReleaseOwnership \/ Close \/ CallTimesOut \/ ConnectionBreaks
    PROVE  OwnerInv' /\ UNCHANGED <<sessionVars, wire, asked>> /\ (transport # "open" => transport' # "open")
<1>0. SessionPart /\ CallPart /\ OwnerTypeOK
  BY OwnerParts DEF OwnerInv
<1>1. CASE DispatchReply
  <2>1. FramesLeave(inbound') /\ UNCHANGED <<sessionVars, wire, asked, transport>>
    BY <1>1 DEF DispatchReply, HasFrame, FramesLeave
  <2>2. CallPart'
    BY <1>0, <1>1 DEF DispatchReply, CallPart, NoCallOutlivesConnection
  <2> QED BY <1>0, <2>1, <2>2, SessionRests, OwnerParts
<1>2. CASE DispatchJunk \/ DispatchUnowned
  <2>1. FramesLeave(inbound') /\ UNCHANGED <<sessionVars, wire, asked, unreplied, owner, calls>>
        /\ Fail /\ reading' = FALSE
    BY <1>2 DEF DispatchJunk, DispatchUnowned, FramesLeave
  <2>2. CallPart' /\ transport' # "open"
    BY <1>0, <2>1, FailTells DEF CallPart, NoCallOutlivesConnection
  <2> QED BY <1>0, <2>1, <2>2, SessionRests, OwnerParts
<1>3. CASE ReadLoopEnds
  <2>1. FramesLeave(inbound') /\ UNCHANGED <<sessionVars, wire, asked, transport>>
    BY <1>3 DEF ReadLoopEnds, FramesLeave
  <2>2. CallPart'
    BY <1>0, <1>3 DEF ReadLoopEnds, CallPart, NoCallOutlivesConnection
  <2> QED BY <1>0, <2>1, <2>2, SessionRests, OwnerParts
<1>4. ASSUME NEW to \in {"initializing", "resuming", "acquired"}, BeginCall(to)
      PROVE  OwnerInv' /\ UNCHANGED <<sessionVars, wire, asked>> /\ transport = "open"
  <2>1. FramesLeave(inbound') /\ UNCHANGED <<sessionVars, wire, asked>>
    BY <1>4 DEF BeginCall, FramesLeave
  <2>2. calls + 1 \in 1..MaxCalls /\ calls + 1 \in 0..MaxCalls
    BY <1>0, <1>4 DEF BeginCall, CallPart
  <2>3. /\ call' \in [id : 0..MaxCalls, state : {"none", "pending", "resolved", "rejected"}]
        /\ call'.state = "pending" => transport' = "open"
        /\ transport' \in {"open", "failed"} /\ unreplied' \subseteq 1..MaxCalls
    <3>1. CASE /\ call' = [id |-> calls + 1, state |-> "pending"]
               /\ unreplied' = unreplied \cup {calls + 1} /\ transport' = transport
      BY <1>0, <1>4, <2>2, <3>1 DEF BeginCall, CallPart
    <3>2. CASE /\ call' = [id |-> calls + 1, state |-> "rejected"]
               /\ unreplied' = unreplied /\ transport' = "failed"
      BY <1>0, <1>4, <2>2, <3>2 DEF BeginCall, CallPart
    <3> QED BY <1>4, <3>1, <3>2 DEF BeginCall
  <2>4. owner' = to /\ calls' = calls + 1 /\ reading' = reading
    BY <1>4 DEF BeginCall
  <2>5. CallPart'
    BY <1>0, <2>2, <2>3, <2>4 DEF CallPart, NoCallOutlivesConnection
  <2> QED BY <1>0, <1>4, <2>1, <2>5, SessionRests, OwnerParts DEF BeginCall
<1>5. CASE InitializeReturns \/ ResumeReturns \/ TurnReturns \/ ReleaseOwnership
  <2>1. FramesLeave(inbound') /\ UNCHANGED <<sessionVars, wire, asked, transport>>
    BY <1>5 DEF InitializeReturns, ResumeReturns, TurnReturns, ReleaseOwnership, wireVars, FramesLeave
  <2>2. /\ UNCHANGED <<transport, reading, unreplied, calls>> /\ call' \in {call, NoCall}
        /\ owner' \in {owner, "initialized", "acquired", "refused", "released"}
    BY <1>5 DEF InitializeReturns, ResumeReturns, TurnReturns, ReleaseOwnership, wireVars
  <2>3. /\ NoCall \in [id : 0..MaxCalls, state : {"none", "pending", "resolved", "rejected"}]
        /\ NoCall.state # "pending"
    BY DEF NoCall
  <2>4. CallPart'
    BY <1>0, <2>2, <2>3 DEF CallPart, NoCallOutlivesConnection
  <2> QED BY <1>0, <2>1, <2>4, SessionRests, OwnerParts
<1>6. CASE Close
  <2>1. FramesLeave(inbound') /\ UNCHANGED <<sessionVars, wire, asked>> /\ transport' = "closed"
    BY <1>6 DEF Close, FramesLeave
  <2>2. CallPart'
    BY <1>0, <1>6 DEF Close, Rejected, CallPart, NoCallOutlivesConnection
  <2> QED BY <1>0, <2>1, <2>2, SessionRests, OwnerParts
<1>7. CASE CallTimesOut
  <2>1. FramesLeave(inbound') /\ UNCHANGED <<sessionVars, wire, asked, transport>>
    BY <1>7 DEF CallTimesOut, wireVars, FramesLeave
  <2>2. CallPart'
    BY <1>0, <1>7 DEF CallTimesOut, wireVars, CallPart, NoCallOutlivesConnection
  <2> QED BY <1>0, <2>1, <2>2, SessionRests, OwnerParts
<1>8. CASE ConnectionBreaks
  <2>1. FramesLeave(inbound') /\ UNCHANGED <<sessionVars, wire, asked, unreplied, owner, calls, reading>>
        /\ Fail
    BY <1>8 DEF ConnectionBreaks, FramesLeave
  <2>2. CallPart' /\ transport' # "open"
    BY <1>0, <2>1, FailTells DEF CallPart, NoCallOutlivesConnection
  <2> QED BY <1>0, <2>1, <2>2, SessionRests, OwnerParts
<1> QED BY <1>1, <1>2, <1>3, <1>4, <1>5, <1>6, <1>7, <1>8 DEF Initialize, Resume, StartTurn

(* The app server writes. *)
LEMMA ServerStep ==
    ASSUME OwnerInv,
           \/ \E i \in 1..MaxCalls : ServerReplies(i)
           \/ \E r \in Requests, kind \in FrameKinds : ServerAsks(r, kind)
           \/ ServerGarbles
    PROVE  OwnerInv'
<1>0. SessionPart /\ CallPart
  BY OwnerParts
<1>1. PICK frame \in Frames :
        /\ ServerWrites(frame)
        /\ \/ frame.k # "ask" /\ asked' = asked
           \/ frame.r \in Requests \ asked /\ asked' = asked \cup {frame.r}
  <2>1. ASSUME NEW i \in 1..MaxCalls, NEW ok \in BOOLEAN
        PROVE  [k |-> "reply", id |-> i, ok |-> ok] \in Frames
    BY DEF Frames
  <2>2. ASSUME NEW r \in Requests, NEW kind \in FrameKinds
        PROVE  [k |-> "ask", r |-> r, kind |-> kind] \in Frames
    BY DEF Frames
  <2>3. [k |-> "junk"] \in Frames
    BY DEF Frames
  <2>4. CASE \E i \in 1..MaxCalls : ServerReplies(i)
    BY <2>1, <2>4 DEF ServerReplies
  <2>5. CASE \E r \in Requests, kind \in FrameKinds : ServerAsks(r, kind)
    <3>1. PICK r \in Requests, kind \in FrameKinds : ServerAsks(r, kind)
      BY <2>5
    <3> QED BY <2>2, <3>1 DEF ServerAsks
  <2>6. CASE ServerGarbles
    BY <2>3, <2>6 DEF ServerGarbles
  <2> QED BY <2>4, <2>5, <2>6
<1>2. /\ UNCHANGED <<sessionVars, transport, reading, wire, owner, call, calls>>
      /\ unreplied' \subseteq unreplied
  BY DEF ServerReplies, ServerAsks, ServerGarbles
<1>3. CallPart'
  BY <1>0, <1>2 DEF CallPart, NoCallOutlivesConnection
<1>4. /\ inbound' = Append(inbound, frame) /\ inbound' \in Seq(Frames)
      /\ Len(inbound') = Len(inbound) + 1 /\ Len(inbound') <= MaxFrames
      /\ inbound'[Len(inbound) + 1] = frame
      /\ \A i \in 1..Len(inbound) : inbound'[i] = inbound[i]
      /\ Len(inbound) \in Nat
  BY <1>0, <1>1 DEF ServerWrites, SessionPart
<1>5. entries' = entries /\ wire' = wire
  BY <1>2 DEF sessionVars
<1>6. AsksAreFresh'
  <2>1. \A i \in 1..Len(inbound') : i \in 1..Len(inbound) \/ i = Len(inbound) + 1
    BY <1>4
  <2>2. \A i \in 1..Len(inbound) : inbound[i].k = "ask" => inbound[i].r \in asked
    BY <1>0 DEF SessionPart, AsksAreFresh
  <2>3. ASSUME NEW i \in 1..Len(inbound'), inbound'[i].k = "ask"
        PROVE  /\ inbound'[i].r \in asked'
               /\ entries[inbound'[i].r].mode = "unopened" /\ wire[inbound'[i].r] = <<>>
    <3>1. CASE i \in 1..Len(inbound)
      BY <1>0, <1>1, <1>4, <2>3, <3>1 DEF SessionPart, AsksAreFresh, Opened
    <3>2. CASE i = Len(inbound) + 1
      BY <1>0, <1>1, <1>4, <2>3, <3>2 DEF SessionPart, AsksAreFresh, Opened
    <3> QED BY <2>1, <3>1, <3>2
  <2>4. ASSUME NEW i \in 1..Len(inbound'), NEW j \in 1..Len(inbound'), i # j,
               inbound'[i].k = "ask", inbound'[j].k = "ask"
        PROVE  inbound'[i].r # inbound'[j].r
    <3>1. CASE i \in 1..Len(inbound) /\ j \in 1..Len(inbound)
      BY <1>0, <1>4, <2>4, <3>1 DEF SessionPart, AsksAreFresh
    <3>2. CASE i \in 1..Len(inbound) /\ j = Len(inbound) + 1
      BY <1>1, <1>4, <2>2, <2>4, <3>2
    <3>3. CASE j \in 1..Len(inbound) /\ i = Len(inbound) + 1
      BY <1>1, <1>4, <2>2, <2>4, <3>3
    <3> QED BY <2>1, <2>4, <3>1, <3>2, <3>3
  <2>5. ASSUME NEW r \in Requests, r \notin asked'
        PROVE  entries[r].mode = "unopened" /\ wire[r] = <<>>
    BY <1>0, <1>1, <2>5 DEF SessionPart, AsksAreFresh, Opened
  <2> QED BY <1>5, <2>3, <2>4, <2>5 DEF AsksAreFresh, Opened
<1>7. SessionPart'
  BY <1>0, <1>1, <1>2, <1>4, <1>6 DEF SessionPart, sessionVars, ArbiterInv, ArbiterTypeOK,
     OpenWasOpened, WireAgrees, NothingHoldsMailBack, Opened
<1> QED BY <1>3, <1>7, OwnerParts

(* The front frame is a request nobody knows of yet, and no other frame is *)
(* that request.                                                           *)
LEMMA HeadIsFresh ==
    ASSUME OwnerInv, HasFrame("ask")
    PROVE  /\ Head(inbound).r \in Requests /\ Head(inbound).kind \in FrameKinds
           /\ Head(inbound).r \in asked
           /\ ~Opened(Head(inbound).r) /\ wire[Head(inbound).r] = <<>>
           /\ \A i \in 2..Len(inbound) : inbound[i].k = "ask" => inbound[i].r # Head(inbound).r
<1>1. /\ inbound \in Seq(Frames) /\ inbound # <<>>
      /\ Head(inbound) = inbound[1] /\ 1 \in 1..Len(inbound) /\ Head(inbound) \in Frames
      /\ inbound[1].k = "ask"
  BY DEF HasFrame, OwnerInv, OwnerTypeOK
<1>2. inbound[1].r \in Requests /\ inbound[1].kind \in FrameKinds
  BY <1>1 DEF Frames
<1>3. inbound[1].r \in asked /\ ~Opened(inbound[1].r) /\ wire[inbound[1].r] = <<>>
  BY <1>1 DEF OwnerInv, AsksAreFresh
<1>4. \A i \in 2..Len(inbound) : i \in 1..Len(inbound) /\ i # 1
  BY <1>1
<1>5. \A i \in 2..Len(inbound) : inbound[i].k = "ask" => inbound[i].r # inbound[1].r
  BY <1>1, <1>4 DEF OwnerInv, AsksAreFresh
<1> QED BY <1>1, <1>2, <1>3, <1>5

(* The request at the front is settled: what the arbiter and the wire say  *)
(* of the others stays, and their frames stay in order or are dropped.     *)
LEMMA HeadLeaves ==
    ASSUME OwnerInv, HasFrame("ask"), inbound' = Tail(inbound) \/ inbound' = <<>>,
           asked' = asked,
           \A r \in Requests : r # Head(inbound).r => entries'[r] = entries[r] /\ wire'[r] = wire[r]
    PROVE  AsksAreFresh' /\ inbound' \in Seq(Frames) /\ Len(inbound') <= MaxFrames
<1> DEFINE q == Head(inbound).r
<1>0. /\ q \in Requests /\ q \in asked /\ asked \subseteq Requests
      /\ \A i \in 2..Len(inbound) : inbound[i].k = "ask" => inbound[i].r # q
  BY HeadIsFresh DEF OwnerInv, OwnerTypeOK
<1>1. inbound \in Seq(Frames) /\ inbound # <<>> /\ Len(inbound) <= MaxFrames
  BY DEF HasFrame, OwnerInv, OwnerTypeOK
<1>2. /\ inbound' \in Seq(Frames) /\ Len(inbound') <= MaxFrames
      /\ \A i \in 1..Len(inbound') : i + 1 \in 2..Len(inbound) /\ inbound'[i] = inbound[i + 1]
  <2>1. CASE inbound' = Tail(inbound)
    BY <1>1, <2>1
  <2>2. CASE inbound' = <<>>
    BY <1>1, <2>2
  <2> QED BY <2>1, <2>2
<1> HIDE DEF q
<1>3. ASSUME NEW i \in 1..Len(inbound'), inbound'[i].k = "ask"
      PROVE  /\ inbound'[i].r \in asked
             /\ entries'[inbound'[i].r].mode = "unopened" /\ wire'[inbound'[i].r] = <<>>
  <2>1. /\ inbound'[i] = inbound[i + 1] /\ i + 1 \in 1..Len(inbound)
        /\ inbound[i + 1].r # q
    BY <1>0, <1>2, <1>3
  <2>2. /\ inbound[i + 1].r \in asked /\ ~Opened(inbound[i + 1].r)
        /\ wire[inbound[i + 1].r] = <<>>
    BY <1>3, <2>1 DEF OwnerInv, AsksAreFresh
  <2> QED BY <1>0, <2>1, <2>2 DEF Opened, q
<1>4. ASSUME NEW i \in 1..Len(inbound'), NEW j \in 1..Len(inbound'), i # j,
             inbound'[i].k = "ask", inbound'[j].k = "ask"
      PROVE  inbound'[i].r # inbound'[j].r
  <2>1. /\ inbound'[i] = inbound[i + 1] /\ i + 1 \in 1..Len(inbound)
        /\ inbound'[j] = inbound[j + 1] /\ j + 1 \in 1..Len(inbound) /\ i + 1 # j + 1
    BY <1>2, <1>4
  <2> QED BY <1>4, <2>1 DEF OwnerInv, AsksAreFresh
<1>5. ASSUME NEW r \in Requests, r \notin asked
      PROVE  entries'[r].mode = "unopened" /\ wire'[r] = <<>>
  BY <1>0, <1>5 DEF OwnerInv, AsksAreFresh, Opened, q
<1> QED BY <1>2, <1>3, <1>4, <1>5 DEF AsksAreFresh, Opened

LEMMA UnsupportedStep ==
    ASSUME OwnerInv, DispatchUnsupported
    PROVE  OwnerInv'
<1>0. SessionPart /\ CallPart /\ HasFrame("ask")
  BY OwnerParts DEF DispatchUnsupported
<1>q. PICK q \in Requests : q = Head(inbound).r
  BY <1>0, HeadIsFresh
<1>1. /\ UNCHANGED <<sessionVars, asked, unreplied, owner, calls>> /\ Fail
      /\ reading' = FALSE /\ inbound' = <<>>
      /\ wire' = wire \/ wire' = [wire EXCEPT ![q] = Append(@, "reject")]
  BY <1>q DEF DispatchUnsupported
<1>2. ~Opened(q) /\ wire[q] = <<>>
  BY <1>0, <1>q, HeadIsFresh
<1>3. Append(wire[q], "reject") = <<"reject">>
  BY <1>2
<1>4. /\ wire' \in [Requests -> Seq(Answers)]
      /\ \A r \in Requests : r # q => wire'[r] = wire[r]
      /\ wire'[q] \in {<<>>, <<"reject">>}
  <2>1. CASE wire' = wire
    BY <1>0, <1>2, <2>1 DEF SessionPart
  <2>2. CASE wire' = [wire EXCEPT ![q] = Append(@, "reject")]
    <3>1. "reject" \in Answers
      BY DEF Answers
    <3>2. <<"reject">> \in Seq(Answers)
      BY <3>1
    <3>3. wire' = [wire EXCEPT ![q] = <<"reject">>]
      BY <1>3, <2>2
    <3> QED BY <1>0, <1>2, <3>2, <3>3 DEF SessionPart
  <2> QED BY <1>1, <2>1, <2>2
<1>5. AsksAreFresh' /\ inbound' \in Seq(Frames) /\ Len(inbound') <= MaxFrames
  BY <1>0, <1>1, <1>4, <1>q, HeadLeaves DEF sessionVars
<1>6. WireAgrees'
  <2>1. Len(<<>>) = 0 /\ Len(<<"reject">>) = 1
    OBVIOUS
  <2>2. entries' = entries
    BY <1>1 DEF sessionVars
  <2>3. ~Opened(q)'
    BY <1>2, <2>2 DEF Opened
  <2>4. Len(wire'[q]) <= 1
    <3>1. CASE wire'[q] = <<>>
      BY <2>1, <3>1
    <3>2. CASE wire'[q] = <<"reject">>
      BY <2>1, <3>2
    <3> QED BY <1>4, <3>1, <3>2
  <2>5. ASSUME NEW r \in Requests, r # q
        PROVE  /\ Len(wire'[r]) <= 1
               /\ Opened(r)' /\ wire'[r] # <<>> =>
                    entries'[r].answeredBy # NoClient /\ wire'[r] = <<entries'[r].response>>
    BY <1>0, <1>4, <2>2, <2>5 DEF SessionPart, WireAgrees, Opened
  <2> QED BY <2>3, <2>4, <2>5 DEF WireAgrees
<1>7. SessionPart'
  BY <1>0, <1>1, <1>4, <1>5, <1>6 DEF SessionPart, sessionVars, ArbiterInv, ArbiterTypeOK,
     OpenWasOpened, NothingHoldsMailBack, Opened
<1>8. CallPart'
  BY <1>0, <1>1, FailTells DEF CallPart, NoCallOutlivesConnection
<1> QED BY <1>7, <1>8, OwnerParts

(* A request handled by the session: it opens and is answered or claimed   *)
(* at once, as the mode says.                                              *)
LEMMA Handled ==
    ASSUME OwnerInv, NEW kind \in FrameKinds \ {"unsupported"}
    PROVE  LET e == Applied(Opening(mode, kind), Self)
               decision == Policy(mode, kind)
           IN  /\ e \in Entries /\ Rightful(e) /\ e.mode = mode /\ mode # "unopened"
               /\ decision.answer # "none" =>
                    /\ decision.action # "defer" /\ decision.answer \in Answers
                    /\ e.answeredBy # NoClient /\ e.response = decision.answer
               /\ decision.action = "defer" <=> mode = "human"
               /\ decision.action = "defer" <=> decision.answer = "none"
<1> DEFINE o == Opening(mode, kind)
           decision == Policy(mode, kind)
<1>1. mode \in {"headless", "human", "none"} /\ mode \in Modes /\ kind \in Kinds
      /\ kind # "unknown" /\ Self \in Clients /\ Self # NoClient
  BY DEF OwnerInv, OwnerTypeOK, Modes, FrameKinds, Self, NoClient
<1>2. o \in Entries /\ Rightful(o) /\ o.mode = mode /\ o.kind = kind
      /\ ~o.timedOut /\ o.disconnected = {} /\ o.answeredBy = NoClient /\ o.claimedBy = NoClient
  BY <1>1, OpeningIsRightful DEF Becomes, Opening, Unopened
<1>3. /\ decision.answer # "none" => decision.action # "defer" /\ decision.answer \in Answers
      /\ decision.action = "defer" <=> mode = "human"
      /\ decision.action = "defer" <=> decision.answer = "none"
  BY <1>1 DEF Policy, HeadlessAnswer, Kinds, Answers
<1>4. SoleResponder(mode) = "none" <=> mode = "none"
  BY <1>1 DEF SoleResponder
<1> HIDE DEF o
<1>5. ApplyAllowed(o, Self)
  BY <1>1, <1>2, <1>3, <1>4 DEF ApplyAllowed, ClaimAllowed, AnswerAllowed
<1>6. Becomes(o, Applied(o, Self))
  BY <1>1, <1>2, <1>5, ApplyIsRightful
<1>7. Applied(o, Self).mode = mode
  BY <1>2 DEF Applied, Answered, Entries
<1>8. decision.action # "defer" =>
        Applied(o, Self).answeredBy = Self /\ Applied(o, Self).response = decision.answer
  BY <1>2 DEF Applied, Answered, Entries
<1> QED BY <1>1, <1>3, <1>6, <1>7, <1>8 DEF Becomes, o

LEMMA OwnedStep ==
    ASSUME OwnerInv, DispatchOwned
    PROVE  OwnerInv'
<1> DEFINE kind == Head(inbound).kind
           answer == Policy(mode, kind).answer
           e == Applied(Opening(mode, kind), Self)
<1>0. SessionPart /\ CallPart /\ HasFrame("ask")
  BY OwnerParts DEF DispatchOwned
<1>q. PICK q \in Requests : q = Head(inbound).r
  BY <1>0, HeadIsFresh
<1>1. /\ HandleServerRequest(q, kind)
      /\ UNCHANGED <<mode, asked, unreplied, owner, calls>>
      /\ \/ /\ answer # "none" /\ wire' = [wire EXCEPT ![q] = Append(@, answer)]
            /\ inbound' = Tail(inbound) /\ UNCHANGED <<transport, reading, call>>
         \/ Fail /\ reading' = FALSE /\ inbound' = <<>> /\ wire' = wire
         \/ /\ inbound' = Tail(inbound)
            /\ UNCHANGED <<transport, reading, wire, call>>
      /\ kind # "unsupported"
  BY <1>q DEF DispatchOwned
<1>2. kind \in FrameKinds /\ ~Opened(q) /\ wire[q] = <<>>
  BY <1>0, <1>q, HeadIsFresh
<1>3. /\ e \in Entries /\ Rightful(e) /\ e.mode = mode /\ mode # "unopened"
      /\ answer # "none" =>
           answer \in Answers /\ e.answeredBy # NoClient /\ e.response = answer
      /\ Policy(mode, kind).action = "defer" <=> mode = "human"
  BY <1>1, <1>2, Handled
<1>4. /\ entries' = [entries EXCEPT ![q] = e]
      /\ open' = IF mode = "human" THEN open \cup {q} ELSE open \ {q}
      /\ gate' = IF mode = "human" THEN GateFor(kind) ELSE gate
  BY <1>1, <1>3 DEF HandleServerRequest
<1> HIDE DEF kind, answer, e
<1>5. /\ entries' \in [Requests -> Entries] /\ entries'[q] = e
      /\ \A r \in Requests : r # q => entries'[r] = entries[r]
  BY <1>0, <1>2, <1>3, <1>4 DEF SessionPart, ArbiterInv, ArbiterTypeOK
<1>6. ArbiterInv'
  BY <1>0, <1>3, <1>5 DEF SessionPart, ArbiterInv, ArbiterTypeOK
<1>7. /\ wire' \in [Requests -> Seq(Answers)]
      /\ \A r \in Requests : r # q => wire'[r] = wire[r]
      /\ \/ wire'[q] = <<>>
         \/ answer # "none" /\ wire'[q] = <<answer>>
  <2>1. CASE answer # "none" /\ wire' = [wire EXCEPT ![q] = Append(@, answer)]
    <3>1. Append(wire[q], answer) = <<answer>> /\ <<answer>> \in Seq(Answers)
      BY <1>2, <1>3, <2>1
    <3> QED BY <1>0, <1>2, <2>1, <3>1 DEF SessionPart
  <2>2. CASE wire' = wire
    BY <1>0, <1>2, <2>2 DEF SessionPart
  <2> QED BY <1>1, <2>1, <2>2
<1>8. AsksAreFresh' /\ inbound' \in Seq(Frames) /\ Len(inbound') <= MaxFrames
  BY <1>0, <1>1, <1>5, <1>7, <1>q, HeadLeaves
<1>9. WireAgrees'
  <2>1. Len(<<>>) = 0 /\ Len(<<answer>>) = 1
    OBVIOUS
  <2>2. /\ Len(wire'[q]) <= 1
        /\ wire'[q] # <<>> =>
             entries'[q].answeredBy # NoClient /\ wire'[q] = <<entries'[q].response>>
    <3>1. CASE wire'[q] = <<>>
      BY <2>1, <3>1
    <3>2. CASE answer # "none" /\ wire'[q] = <<answer>>
      BY <1>3, <1>5, <2>1, <3>2
    <3> QED BY <1>7, <3>1, <3>2
  <2>3. ASSUME NEW r \in Requests, r # q
        PROVE  /\ Len(wire'[r]) <= 1
               /\ Opened(r)' /\ wire'[r] # <<>> =>
                    entries'[r].answeredBy # NoClient /\ wire'[r] = <<entries'[r].response>>
    BY <1>0, <1>5, <1>7, <2>3 DEF SessionPart, WireAgrees, Opened
  <2> QED BY <2>2, <2>3 DEF WireAgrees
<1>10. OpenWasOpened' /\ open' \subseteq Requests
  BY <1>0, <1>2, <1>3, <1>4, <1>5 DEF SessionPart, OpenWasOpened, Opened
<1>11. NothingHoldsMailBack' /\ gate' \in {"none", "approval", "user_input"}
  BY <1>0, <1>1, <1>4 DEF SessionPart, NothingHoldsMailBack, GateFor
<1>12. SessionPart'
  BY <1>0, <1>1, <1>6, <1>7, <1>8, <1>9, <1>10, <1>11 DEF SessionPart
<1>13. CallPart'
  BY <1>0, <1>1, FailTells DEF CallPart, NoCallOutlivesConnection
<1> QED BY <1>12, <1>13, OwnerParts

(* A person answers a deferred request. *)
LEMMA ResolveStep ==
    ASSUME OwnerInv, NEW r \in Requests, NEW answer \in Answers, ResolveDeferred(r, answer)
    PROVE  OwnerInv'
<1>0. SessionPart /\ CallPart
  BY OwnerParts
<1>1. /\ r \in open /\ AnswerAllowed(entries[r], Self, "interactive_human")
      /\ entries' = [entries EXCEPT ![r] = Answered(@, Self, answer)]
      /\ open' = open \ {r}
      /\ gate' = IF open \ {r} = {} THEN "none" ELSE gate
      /\ UNCHANGED <<mode, transport, reading, inbound, wire, asked, unreplied, owner, call, calls>>
  BY DEF ResolveDeferred, wireVars
<1>2. Opened(r) /\ entries[r] \in Entries /\ entries[r].mode # "unopened"
  BY <1>0, <1>1 DEF SessionPart, OpenWasOpened, Opened, ArbiterInv, ArbiterTypeOK
<1>3. Becomes(entries[r], Answered(entries[r], Self, answer))
  BY <1>1, <1>2, AnswerIsRightful
<1>4. Answered(entries[r], Self, answer).mode = entries[r].mode
  BY <1>2 DEF Answered, Entries
<1>5. /\ entries' \in [Requests -> Entries]
      /\ entries'[r] = Answered(entries[r], Self, answer)
      /\ \A s \in Requests : s # r => entries'[s] = entries[s]
  BY <1>0, <1>1, <1>3 DEF SessionPart, ArbiterInv, ArbiterTypeOK, Becomes
<1>6. ArbiterInv'
  BY <1>0, <1>3, <1>5 DEF SessionPart, ArbiterInv, ArbiterTypeOK, Becomes
<1>7. \A s \in Requests : entries'[s].mode = entries[s].mode
  BY <1>4, <1>5
<1>8. AsksAreFresh'
  <2>1. \A i \in 1..Len(inbound) : inbound[i].k = "ask" => inbound[i].r \in Requests
    BY <1>0 DEF SessionPart, AsksAreFresh
  <2> QED BY <1>0, <1>1, <1>7, <2>1 DEF SessionPart, AsksAreFresh, Opened
<1>9. OpenWasOpened' /\ open' \subseteq Requests
  BY <1>0, <1>1, <1>7 DEF SessionPart, OpenWasOpened, Opened
<1>10. WireAgrees'
  <2>1. entries[r].answeredBy = NoClient
    BY <1>1 DEF AnswerAllowed
  <2>2. wire[r] = <<>>
    BY <1>0, <1>2, <2>1 DEF SessionPart, WireAgrees
  <2> QED BY <1>0, <1>1, <1>5, <2>2 DEF SessionPart, WireAgrees, Opened
<1>11. NothingHoldsMailBack' /\ gate' \in {"none", "approval", "user_input"}
  BY <1>0, <1>1 DEF SessionPart, NothingHoldsMailBack
<1>12. SessionPart'
  BY <1>0, <1>1, <1>6, <1>8, <1>9, <1>10, <1>11 DEF SessionPart
<1>13. CallPart'
  BY <1>0, <1>1 DEF CallPart, NoCallOutlivesConnection
<1> QED BY <1>12, <1>13, OwnerParts

-----------------------------------------------------------------------------
(* The theorems of the session *)

LEMMA OwnerStep == OwnerInv /\ [OwnerNext]_vars => OwnerInv'
<1> SUFFICES ASSUME OwnerInv, [OwnerNext]_vars PROVE OwnerInv'
  OBVIOUS
<1>1. CASE UNCHANGED vars
  <2>1. SessionPart /\ CallPart /\ OwnerTypeOK
    BY OwnerParts DEF OwnerInv
  <2>2. FramesLeave(inbound') /\ UNCHANGED <<sessionVars, wire, asked>>
    BY <1>1 DEF vars, wireVars, FramesLeave
  <2>3. CallPart'
    BY <1>1, <2>1 DEF vars, wireVars, CallPart, NoCallOutlivesConnection
  <2> QED BY <2>1, <2>2, <2>3, SessionRests, OwnerParts
<1> QED BY <1>1, QuietStep, UnsupportedStep, OwnedStep, ResolveStep, ServerStep
        DEF OwnerNext, ReadLoop

(* Frames, arbiter, gate, wire and calls agree in every reachable state of *)
(* a connection (the transport's read loop, the session and the adapter).  *)
THEOREM OwnerIsConsistent == OwnerSpec => []OwnerInv
<1>1. OwnerInit => OwnerInv
  BY OwnerStarts
<1>2. OwnerInv /\ [OwnerNext]_vars => OwnerInv'
  BY OwnerStep
<1> QED BY <1>1, <1>2, PTL DEF OwnerSpec

(* A request gets at most one answer, and the one that was recorded        *)
(* (#dispatch, handleServerRequest, resolveDeferredRequest).               *)
THEOREM OneAnswerPerRequest == OwnerSpec => []OneAnswerOnTheWire
<1>1. OwnerInv => OneAnswerOnTheWire
  BY DEF OwnerInv, WireAgrees, OneAnswerOnTheWire
<1> QED BY <1>1, OwnerIsConsistent, PTL

(* However a connection ends, the call in flight is told (#fail, close).   *)
THEOREM CallsAreTold == OwnerSpec => []NoCallOutlivesConnection
<1>1. OwnerInv => NoCallOutlivesConnection
  BY DEF OwnerInv
<1> QED BY <1>1, OwnerIsConsistent, PTL

(* A gate is up only while a request is open, and a session that answers   *)
(* by itself leaves none open (handleServerRequest).                       *)
THEOREM MailIsNotHeldBack == OwnerSpec => []NothingHoldsMailBack
<1>1. OwnerInv => NothingHoldsMailBack
  BY DEF OwnerInv
<1> QED BY <1>1, OwnerIsConsistent, PTL

(* A step either leaves an entry, or moves it as the arbiter may. *)
LEMMA SessionBecomes ==
    OwnerInv /\ [OwnerNext]_vars =>
        \A r \in Requests : entries[r].answeredBy # NoClient =>
            /\ entries'[r].answeredBy = entries[r].answeredBy
            /\ entries'[r].response = entries[r].response
<1> SUFFICES ASSUME OwnerInv, [OwnerNext]_vars, NEW r \in Requests,
                    entries[r].answeredBy # NoClient
             PROVE  /\ entries'[r].answeredBy = entries[r].answeredBy
                    /\ entries'[r].response = entries[r].response
  OBVIOUS
<1>0. entries \in [Requests -> Entries] /\ \A q \in Requests : Rightful(entries[q])
  BY DEF OwnerInv, ArbiterInv, ArbiterTypeOK
<1>1. CASE DispatchOwned
  <2>1. PICK q \in Requests : q = Head(inbound).r
    BY <1>1, HeadIsFresh DEF DispatchOwned
  <2>2. ~Opened(q)
    BY <1>1, <2>1, HeadIsFresh DEF DispatchOwned
  <2>3. entries[q].answeredBy = NoClient
    BY <1>0, <2>2 DEF Opened, Rightful, Unopened
  <2>4. \A s \in Requests : s # q => entries'[s] = entries[s]
    BY <1>0, <1>1, <2>1 DEF DispatchOwned, HandleServerRequest
  <2> QED BY <2>3, <2>4
<1>2. ASSUME NEW s \in Requests, NEW answer \in Answers, ResolveDeferred(s, answer)
      PROVE  entries'[r] = entries[r]
  <2>1. entries[s].answeredBy = NoClient
    BY <1>2 DEF ResolveDeferred, AnswerAllowed
  <2> QED BY <1>0, <1>2, <2>1 DEF ResolveDeferred
<1>3. CASE UNCHANGED vars \/ DispatchUnsupported
  BY <1>3 DEF vars, sessionVars, DispatchUnsupported
<1>4. CASE \/ \E i \in 1..MaxCalls : ServerReplies(i)
           \/ \E q \in Requests, kind \in FrameKinds : ServerAsks(q, kind)
           \/ ServerGarbles
  BY <1>4 DEF ServerReplies, ServerAsks, ServerGarbles, sessionVars
<1> QED BY <1>1, <1>2, <1>3, <1>4, QuietStep DEF OwnerNext, ReadLoop, sessionVars

(* The session handles a request where it finds it, without asking whether *)
(* the arbiter knows it: that an answer stands rests on requests being     *)
(* asked once.                                                             *)
THEOREM SessionAnswersStand == OwnerSpec => AnswersAreFinal
<1>1. OwnerInv /\ [OwnerNext]_vars =>
        [\A r \in Requests : entries[r].answeredBy # NoClient =>
            /\ entries'[r].answeredBy = entries[r].answeredBy
            /\ entries'[r].response = entries[r].response]_entries
  BY SessionBecomes
<1> QED BY <1>1, OwnerIsConsistent, PTL DEF OwnerSpec, AnswersAreFinal

-----------------------------------------------------------------------------
(* The promise to the app server *)

LEMMA PromiseBegins == OwnerInit => Promise!Init
BY DEF OwnerInit, Promise!Init, Promised

(* Requests that have an answer on the wire. *)
OnWire == {r \in Promised : wire[r] # <<>>}

(* Nothing was asked or answered: the connection stands or breaks. *)
LEMMA NothingPromised ==
    ASSUME UNCHANGED <<mode, asked, wire>>, transport # "open" => transport' # "open"
    PROVE  [Promise!Next]_Promise!vars
<1>1. Promised' = Promised /\ OnWire' = OnWire
  BY DEF Promised, OnWire
<1> QED BY <1>1 DEF Promise!Next, Promise!Break, Promise!vars, OnWire

(* One request got its one answer. *)
LEMMA OneAnswered ==
    ASSUME NEW r \in Requests, NEW answer, mode' = mode, asked' = asked, r \in asked,
           wire[r] = <<>>, transport = "open", wire \in [Requests -> Seq(Answers)],
           asked \subseteq Requests,
           wire' = [wire EXCEPT ![r] = Append(@, answer)]
    PROVE  [Promise!Next]_Promise!vars
<1>1. Promised' = Promised
  BY DEF Promised
<1>2. wire'[r] # <<>> /\ \A s \in Requests : s # r => wire'[s] = wire[s]
  <2>1. Append(wire[r], answer) = <<answer>>
    OBVIOUS
  <2>2. <<answer>> # <<>>
    OBVIOUS
  <2> QED BY <2>1, <2>2
<1>3. CASE mode = "human"
  <2>1. Promised = {} /\ OnWire = {} /\ OnWire' = {}
    BY <1>1, <1>3 DEF Promised, OnWire
  <2> QED BY <1>1, <2>1 DEF Promise!Next, Promise!Break, Promise!vars, OnWire
<1>4. CASE mode # "human"
  <2>1. r \in Promised /\ r \notin OnWire /\ OnWire' = OnWire \cup {r}
    BY <1>1, <1>2, <1>4 DEF Promised, OnWire
  <2> QED BY <1>1, <2>1 DEF Promise!Next, Promise!AnswerOnce, OnWire
<1> QED BY <1>3, <1>4

LEMMA PromiseStep == OwnerInv /\ [OwnerNext]_vars => [Promise!Next]_Promise!vars
<1> SUFFICES ASSUME OwnerInv, [OwnerNext]_vars PROVE [Promise!Next]_Promise!vars
  OBVIOUS
<1>0. wire \in [Requests -> Seq(Answers)] /\ asked \subseteq Requests
  BY DEF OwnerInv, OwnerTypeOK
<1>1. CASE DispatchOwned \/ DispatchUnsupported
  <2>1. HasFrame("ask")
    BY <1>1 DEF DispatchOwned, DispatchUnsupported
  <2>2. PICK r \in Requests : r = Head(inbound).r /\ r \in asked /\ wire[r] = <<>>
    BY <2>1, HeadIsFresh
  <2>3. UNCHANGED <<mode, asked>> /\ (transport # "open" => transport' # "open")
    BY <1>1 DEF DispatchOwned, DispatchUnsupported, sessionVars, Fail
  <2>4. \/ wire' = wire
        \/ /\ transport = "open"
           /\ \E answer : wire' = [wire EXCEPT ![r] = Append(@, answer)]
    BY <1>1, <2>2 DEF DispatchOwned, DispatchUnsupported
  <2> QED BY <1>0, <2>2, <2>3, <2>4, NothingPromised, OneAnswered
<1>2. CASE \E r \in Requests, answer \in Answers : ResolveDeferred(r, answer)
  BY <1>2, NothingPromised DEF ResolveDeferred, wireVars
<1>3. CASE (\E i \in 1..MaxCalls : ServerReplies(i)) \/ ServerGarbles
  BY <1>3, NothingPromised DEF ServerReplies, ServerGarbles, sessionVars
<1>4. ASSUME NEW r \in Requests, NEW kind \in FrameKinds, ServerAsks(r, kind)
      PROVE  [Promise!Next]_Promise!vars
  <2>1. r \notin asked /\ asked' = asked \cup {r} /\ UNCHANGED <<mode, wire, transport>>
    BY <1>4 DEF ServerAsks, sessionVars
  <2>2. wire[r] = <<>>
    BY <2>1 DEF OwnerInv, AsksAreFresh
  <2>3. OnWire' = OnWire
    BY <2>1, <2>2 DEF OnWire, Promised
  <2>4. \/ Promised' = Promised
        \/ r \notin Promised /\ Promised' = Promised \cup {r}
    BY <2>1 DEF Promised
  <2> QED BY <2>1, <2>3, <2>4 DEF Promise!Next, Promise!Ask, Promise!vars, OnWire
<1>5. CASE UNCHANGED vars
  BY <1>5, NothingPromised DEF vars, sessionVars, wireVars
<1> QED BY <1>1, <1>2, <1>3, <1>4, <1>5, QuietStep, NothingPromised
        DEF OwnerNext, ReadLoop, sessionVars

(* Every step of a connection is one the promise to the app server allows: *)
(* a request is asked, answered once while the connection stands, or the   *)
(* connection breaks.  What remains of the promise is Settled, a liveness  *)
(* property.                                                               *)
THEOREM OwnerKeepsPromise == OwnerSpec => PromiseSafe
<1>1. OwnerInit => Promise!Init
  BY PromiseBegins
<1>2. OwnerInv /\ [OwnerNext]_vars => [Promise!Next]_Promise!vars
  BY PromiseStep
<1> QED BY <1>1, <1>2, OwnerIsConsistent, PTL DEF OwnerSpec, PromiseSafe

-----------------------------------------------------------------------------
(* The parts of one owner side by side *)

(* Whichever part moves, each keeps its invariant: the thread's process    *)
(* what acquire established, the arbiter its entries, and the session what *)
(* it and the app server agree on; those that rest stay as they are.       *)
OwnersHold == OwnersInv /\ LifecycleInv

LEMMA OwnersStart == MCInit => OwnersHold
<1> SUFFICES ASSUME MCInit PROVE OwnersHold
  OBVIOUS
<1>1. OwnerInv
  BY OwnerStarts DEF MCInit
<1>2. LifecycleInv
  BY LifecycleStarts DEF MCInit
<1> QED BY <1>1, <1>2 DEF OwnersHold, OwnersInv, OwnerInv, LifecycleInv

LEMMA LifecycleRests ==
  ASSUME LifecycleInv, UNCHANGED lifecycleVars
  PROVE  LifecycleInv'
  BY LifecycleStep

(* The arbiter's clients change nothing but its entries. *)
LEMMA ArbiterPartKeeps ==
  ASSUME OwnerTypeOK, ArbiterInv, [ArbiterNext]_entries,
         UNCHANGED <<wireVars, owner, call, calls, mode, open, gate>>
  PROVE  OwnerTypeOK' /\ ArbiterInv'
<1>1. ArbiterInv'
  BY StepBecomes DEF ArbiterInv, ArbiterTypeOK, Becomes
<1>2. OwnerTypeOK'
  <2>1. ArbiterTypeOK'
    BY <1>1 DEF ArbiterInv
  <2> QED BY <2>1 DEF OwnerTypeOK, wireVars
<1> QED BY <1>1, <1>2

LEMMA OwnersStep == OwnersHold /\ [MCNext]_allVars => OwnersHold'
<1> SUFFICES ASSUME OwnersHold, [MCNext]_allVars PROVE OwnersHold'
  OBVIOUS
<1>1. OwnerTypeOK /\ ArbiterInv /\ LifecycleInv /\ (part = "session" => OwnerInv)
  BY DEF OwnersHold, OwnersInv
<1>2. SUFFICES OwnerTypeOK' /\ ArbiterInv' /\ LifecycleInv' /\ (part' = "session" => OwnerInv')
  BY DEF OwnersHold, OwnersInv, LifecycleInv
<1>3. part' = part
  BY DEF MCNext, allVars
<1>4. CASE part = "session" /\ OwnerNext /\ UNCHANGED lifecycleVars
  <2>1. OwnerInv'
    BY <1>1, <1>4, OwnerStep
  <2> QED BY <1>1, <1>4, <2>1, LifecycleRests DEF OwnerInv
<1>5. CASE /\ part = "arbiter" /\ ArbiterNext
           /\ UNCHANGED <<lifecycleVars, wireVars, owner, call, calls, mode, open, gate>>
  BY <1>1, <1>3, <1>5, LifecycleRests, ArbiterPartKeeps
<1>6. ASSUME part = "lifecycle" \/ UNCHANGED allVars, [LifecycleNext]_lifecycleVars, UNCHANGED vars
      PROVE  OwnerTypeOK' /\ ArbiterInv' /\ LifecycleInv' /\ (part' = "session" => OwnerInv')
  <2>1. LifecycleInv'
    BY <1>1, <1>6, LifecycleStep
  <2>2. OwnerTypeOK' /\ ArbiterInv'
    BY <1>1, <1>6, ArbiterPartKeeps DEF vars, sessionVars
  <2>3. part' = "session" => OwnerInv'
    BY <1>1, <1>3, <1>6, OwnerStep
  <2> QED BY <2>1, <2>2, <2>3
<1> QED BY <1>4, <1>5, <1>6 DEF MCNext, allVars

(* In every reachable state the adapter, the arbiter and the thread's      *)
(* process are well typed and every answer is rightful, and the session    *)
(* agrees with the frames, the wire and the calls of its connection        *)
(* (app_server_transport.ts, turn_session.ts, request_policy.ts,           *)
(* thread_lifecycle.ts).                                                   *)
THEOREM OwnersAreConsistent == MCSpec => []OwnersInv
<1>1. MCInit => OwnersHold
  BY OwnersStart
<1>2. OwnersHold /\ [MCNext]_allVars => OwnersHold'
  BY OwnersStep
<1>3. OwnersHold => OwnersInv
  BY DEF OwnersHold
<1> QED BY <1>1, <1>2, <1>3, PTL DEF MCSpec
=============================================================================
