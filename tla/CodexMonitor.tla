----------------------------- MODULE CodexMonitor -----------------------------
(***************************************************************************)
(* The plugin's stand-alone monitor for Codex (scripts/codex-monitor.ts):  *)
(* it starts an app server of its own, reads one project's inbox, hands    *)
(* what is above its frontier to one turn and moves the frontier when the  *)
(* turn has completed.  The inbox is a tree of directories, read one after *)
(* the other.  Every failure ends the process; the frontier is not kept.   *)
(* The app server belongs to this process, so its turns are the monitor's. *)
(***************************************************************************)
EXTENDS MailboxFiles

VARIABLES
    mon,       \* where the loop is, and its frontier
    batch,     \* the ids of the delivery under way
    turn,      \* the app server's turn: none, asked, running, over
    wire,      \* lines the app server wrote and the read loop has not read
    answered,  \* turn/start's promise is resolved
    done,      \* turnStatus
    origin,    \* history: the frontier it began from
    given,     \* history: how many turns were given each id
    served     \* history: ids of the turns that completed
codexVars == <<mon, batch, turn, wire, answered, done, origin, given, served>>

NoMonitor == [at |-> "off", frontier |-> NoMark]
Statuses == {"completed", "failed"}

CodexTypeOK ==
    /\ mon \in [at : {"off", "baseline", "scan", "starting", "running", "wait"},
                frontier : NoMark..MaxMail]
    /\ batch \subseteq Ids /\ served \subseteq Ids
    /\ turn \in {"none", "asked", "running", "over"}
    /\ wire \in Seq({"answer"} \cup Statuses) /\ Len(wire) <= 2
    /\ answered \in BOOLEAN /\ done \in {"none"} \cup Statuses
    /\ origin \in NoMark..MaxMail /\ given \in [Ids -> 0..2]

CodexInit ==
    /\ mon = NoMonitor /\ batch = {} /\ turn = "none" /\ wire = <<>>
    /\ answered = FALSE /\ done = "none"
    /\ origin = NoMark /\ given = [i \in Ids |-> 0] /\ served = {}

deliveryVars == <<batch, turn, wire, answered, done>>
historyVars == <<origin, given, served>>
-----------------------------------------------------------------------------
(* monitor: the app server is started, the thread started or resumed, and  *)
(* the frontier is --since or the highest id there is.                     *)
StartMonitor ==
    /\ mon.at = "off"
    /\ \E since \in NoMark..MaxMail :
         /\ mon' = [at |-> IF since = NoMark THEN "baseline" ELSE "scan", frontier |-> since]
         /\ origin' = since
         /\ PassStarts(Dirs, since)
    /\ batch' = {} /\ turn' = "none" /\ wire' = <<>> /\ answered' = FALSE /\ done' = "none"
    /\ given' = [i \in Ids |-> 0] /\ served' = {}

(* snapshot: a directory that cannot be read throws, see MonitorFails; an  *)
(* inbox that is not there is empty.                                       *)
WalkDir == mon.at \in {"baseline", "scan"} /\ InboxRead /\ UNCHANGED codexVars

Baselined ==
    /\ mon.at = "baseline" /\ scan.todo = {}
    /\ mon' = [at |-> "scan", frontier |-> HighestOf(scan.seen)]
    /\ origin' = HighestOf(scan.seen)
    /\ PassStarts(Dirs, HighestOf(scan.seen))
    /\ UNCHANGED <<deliveryVars, given, served>>

Fresh == {i \in scan.seen : i > mon.frontier}

NothingFresh ==
    /\ mon.at = "scan" /\ PassEnds(mon.frontier) /\ Fresh = {}
    /\ mon' = [mon EXCEPT !.at = "wait"]
    /\ UNCHANGED <<deliveryVars, historyVars>>

(* Mutant: the status of the turn before is left in place. *)
DeliverKeepingStatus ==
    /\ mon.at = "scan" /\ PassEnds(mon.frontier) /\ Fresh # {}
    /\ mon' = [mon EXCEPT !.at = "starting"]
    /\ batch' = Fresh
    /\ turn' = "asked" /\ answered' = FALSE
    /\ given' = [i \in Ids |-> IF i \in Fresh THEN given[i] + 1 ELSE given[i]]
    /\ UNCHANGED <<wire, done, origin, served>>

(* deliver, up to the request turn/start.                                  *)
Deliver ==
    /\ mon.at = "scan" /\ PassEnds(mon.frontier) /\ Fresh # {}
    /\ mon' = [mon EXCEPT !.at = "starting"]
    /\ batch' = Fresh
    /\ turn' = "asked" /\ answered' = FALSE /\ done' = "none"
    /\ given' = [i \in Ids |-> IF i \in Fresh THEN given[i] + 1 ELSE given[i]]
    /\ UNCHANGED <<wire, origin, served>>

(* The app server answers, and the turn ends (external).                   *)
ServerAnswers ==
    /\ turn = "asked"
    /\ turn' = "running" /\ wire' = Append(wire, "answer")
    /\ UNCHANGED <<filesVars, mon, batch, answered, done, historyVars>>

TurnEnds ==
    /\ turn = "running"
    /\ \E status \in Statuses :
         /\ wire' = Append(wire, status)
         /\ served' = IF status = "completed" THEN served \cup batch ELSE served
    /\ turn' = "over"
    /\ UNCHANGED <<filesVars, mon, batch, answered, done, origin, given>>

(* The read loop: lines of one chunk are handled without letting deliver   *)
(* run in between, so the end of the turn may be read before its id is set.*)
ReadLine ==
    /\ wire # <<>>
    /\ IF Head(wire) = "answer" THEN answered' = TRUE /\ UNCHANGED done
       ELSE done' = Head(wire) /\ UNCHANGED answered
    /\ wire' = Tail(wire)
    /\ UNCHANGED <<filesVars, mon, batch, turn, historyVars>>

DeliverResumes ==
    /\ mon.at = "starting" /\ answered
    /\ mon' = [mon EXCEPT !.at = "running"]
    /\ UNCHANGED <<filesVars, deliveryVars, historyVars>>

(* The turn completed: the frontier is the last of the batch.              *)
Delivered ==
    /\ mon.at = "running" /\ done = "completed"
    /\ mon' = [at |-> "wait", frontier |-> Max(batch)]
    /\ UNCHANGED <<filesVars, deliveryVars, historyVars>>

(* --once ends here.                                                       *)
StopsAfterOne ==
    /\ mon.at = "wait" /\ done = "completed"
    /\ mon' = [mon EXCEPT !.at = "off"]
    /\ UNCHANGED <<filesVars, deliveryVars, historyVars>>

WaitEnds ==
    /\ mon.at = "wait"
    /\ mon' = [mon EXCEPT !.at = "scan"]
    /\ PassStarts(Dirs, mon.frontier)
    /\ UNCHANGED <<deliveryVars, historyVars>>

(* The process ends: the turn did not complete, timed out (and is asked to *)
(* stop), the app server failed or exited, a directory was unreadable, a   *)
(* signal.                                                                 *)
MonitorFails ==
    /\ mon.at # "off"
    /\ mon' = [mon EXCEPT !.at = "off"]
    /\ UNCHANGED <<filesVars, deliveryVars, historyVars>>

CodexLands ==
    /\ Lands(IF mon.at \in {"starting", "running"} THEN Max(batch) ELSE mon.frontier,
             mon.at \in {"baseline", "scan"})
    /\ UNCHANGED codexVars

CodexNext ==
    \/ StartMonitor \/ WalkDir \/ Baselined \/ NothingFresh \/ Deliver
    \/ ServerAnswers \/ TurnEnds \/ ReadLine \/ DeliverResumes \/ Delivered
    \/ StopsAfterOne \/ WaitEnds \/ MonitorFails \/ CodexLands

-----------------------------------------------------------------------------
(* Properties *)

(* The frontier passes only mail whose turn has completed, every message   *)
(* is given to at most one turn of a run, and the monitor asks for a turn  *)
(* only when the one before it is over.                                    *)
CodexPromise ==
    /\ origin # NoMark => Answerable(Dirs, origin, mon.frontier) \subseteq served
    /\ \A i \in Ids : given[i] <= 1 /\ (given[i] = 1 => i > origin)
    /\ mon.at \in {"baseline", "scan", "wait"} => turn \in {"none", "over"}
-----------------------------------------------------------------------------
(* The inductive invariant *)

Delivering == mon.at \in {"starting", "running"}

(* A pass has seen, or will read, or is excused from every file above the  *)
(* frontier; so the batch that it yields leaves none out.                  *)
PassMissesNone ==
    mon.at \in {"baseline", "scan"} =>
        In(Dirs) \subseteq scan.seen \cup In(scan.todo) \cup excused

BatchMissesNone ==
    Delivering =>
        /\ batch # {} /\ \A i \in batch : i > mon.frontier
        /\ \A i \in In(Dirs) : mon.frontier < i /\ i <= Max(batch) => i \in batch \cup excused

(* What the app server wrote and has not been read is about the turn the   *)
(* monitor asked for last.                                                 *)
WireIsOfTheTurn ==
    /\ turn \in {"none", "asked"} => wire = <<>> /\ ~answered /\ done = "none"
    /\ turn = "running" => done = "none" /\ wire = IF answered THEN <<>> ELSE <<"answer">>
    /\ turn = "over" =>
         \/ ~answered /\ done = "none" /\ \E s \in Statuses : wire = <<"answer", s>>
         \/ answered /\ done = "none" /\ \E s \in Statuses : wire = <<s>>
         \/ answered /\ done # "none" /\ wire = <<>>

(* A turn that is reported completed, read or not, completed the batch.    *)
CompletedIsServed ==
    done = "completed" \/ (\E k \in DOMAIN wire : wire[k] = "completed") => batch \subseteq served

(* The monitor goes on only after the end of its turn was read.            *)
TurnFollowsLoop ==
    /\ mon.at \in {"baseline", "scan", "wait"} => turn \in {"none", "over"} /\ wire = <<>>
    /\ Delivering => turn # "none"
    /\ mon.at = "running" => answered

(* What was given to a turn is below the frontier, or in the batch.        *)
GivenIsPassed ==
    mon.at # "off" =>
        \A i \in Ids : given[i] = 1 => i <= mon.frontier \/ (Delivering /\ i \in batch)

(* A run has a frontier once it has a baseline, and never goes back.       *)
OriginIsBelow ==
    /\ mon.at # "off" => origin <= mon.frontier
    /\ mon.at = "baseline" => mon.frontier = NoMark

(* The pass over the files, the batch, the turn and the lines about it     *)
(* agree with the frontier (scripts/codex-monitor.ts).                     *)
CodexInv ==
    /\ CodexTypeOK
    /\ PassMissesNone
    /\ BatchMissesNone
    /\ WireIsOfTheTurn
    /\ CompletedIsServed
    /\ TurnFollowsLoop
    /\ GivenIsPassed
    /\ OriginIsBelow
    /\ CodexPromise
=============================================================================
