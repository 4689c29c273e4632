------------------------------ MODULE MailWatch ------------------------------
(***************************************************************************)
(* The `watch` and `monitor` commands on the file mailbox                  *)
(* (commands/watch.ts): a loop that keeps one high-water id over all the   *)
(* inboxes in scope and prints a line for each message above it.  The set  *)
(* of inboxes is resolved once, when the watch is armed.                   *)
(* A watch may be killed at any step; nothing it knows outlives it.        *)
(***************************************************************************)
EXTENDS MailboxFiles

CONSTANTS
    ProjectDir,  \* the caller's own project
    Matching     \* the ids MAIL_WATCH_FILTER lets through

ASSUME MailWatchAssumption == ProjectDir \in Dirs /\ Matching \subseteq Ids

VARIABLES
    watch,    \* the loop: where it is, its inboxes, its mark, its filter
    queue,    \* ids above the mark still to print in this pass
    adopted,  \* history: the mark it began from
    printed   \* history: the ids it printed, in order
watchVars == <<watch, queue, adopted, printed>>

NoWatch == [at |-> "off", dirs |-> {}, last |-> NoMark, filter |-> FALSE, aborted |-> FALSE]

WatchTypeOK ==
    /\ watch \in [at : {"off", "scan", "emit", "sleep"}, dirs : SUBSET Dirs,
                  last : NoMark..MaxMail, filter : BOOLEAN, aborted : BOOLEAN]
    /\ queue \subseteq Ids
    /\ adopted \in NoMark..MaxMail
    /\ printed \in Seq(Ids)

WatchInit == watch = NoWatch /\ queue = {} /\ adopted = NoMark /\ printed = <<>>

-----------------------------------------------------------------------------
(* resolveScopeSlugs: the caller's project, or every project with an inbox *)
(* at this moment; a projects directory that cannot be read has none.      *)
ResolveScopeSlugs(scope) ==
    IF scope = "project" THEN {{ProjectDir}}
    ELSE {{}, {d \in Dirs : In({d}) # {}}}

(* `watch` takes --since and has one project; `monitor` takes a scope and  *)
(* a filter from its environment.                                          *)
ArmWith(dirs, since, filter) ==
    /\ watch.at = "off"
    /\ watch' = [at |-> "scan", dirs |-> dirs, last |-> since, filter |-> filter,
                 aborted |-> FALSE]
    /\ queue' = {} /\ adopted' = since /\ printed' = <<>>
    /\ PassStarts(dirs, since)

Arm ==
    \/ \E dirs \in ResolveScopeSlugs("project"), since \in NoMark..MaxMail :
         ArmWith(dirs, since, FALSE)
    \/ \E scope \in {"project", "all"}, filter \in BOOLEAN :
         \E dirs \in ResolveScopeSlugs(scope) : ArmWith(dirs, NoMark, filter)

WatchReads == watch.at = "scan" /\ ReadInbox /\ UNCHANGED watchVars

(* After the snapshot: stop if aborted, adopt the mark if there is none,   *)
(* else print what is above it.                                            *)
Snapshotted ==
    /\ watch.at = "scan" /\ PassEnds(watch.last)
    /\ LET scopeMax == HighestOf(scan.seen)
       IN  \/ /\ watch.aborted
              /\ watch' = [watch EXCEPT !.at = "off"]
              /\ UNCHANGED <<queue, adopted>>
           \/ /\ ~watch.aborted /\ watch.last = NoMark
              /\ watch' = [watch EXCEPT !.at = "sleep", !.last = scopeMax]
              /\ adopted' = scopeMax
              /\ UNCHANGED queue
           \/ /\ ~watch.aborted /\ watch.last # NoMark /\ scopeMax > watch.last
              /\ watch' = [watch EXCEPT !.at = "emit"]
              /\ queue' = {i \in scan.seen : i > watch.last}
              /\ UNCHANGED adopted
           \/ /\ ~watch.aborted /\ watch.last # NoMark /\ scopeMax <= watch.last
              /\ watch' = [watch EXCEPT !.at = "sleep"]
              /\ UNCHANGED <<queue, adopted>>
    /\ UNCHANGED printed

(* matchesFilter: frontmatter that cannot be read matches nothing.         *)
MatchesFilter(i, readable) == watch.filter => readable /\ i \in Matching

Emit ==
    /\ watch.at = "emit" /\ queue # {}
    /\ LET i == Min(queue)
       IN  /\ queue' = queue \ {i}
           /\ \E readable \in BOOLEAN :
                /\ printed' = IF MatchesFilter(i, readable) THEN Append(printed, i)
                              ELSE printed
                /\ excused' = IF readable THEN excused ELSE excused \cup {i}
    /\ UNCHANGED <<watch, adopted, landed, scan>>

(* Mutant: the mark is read off the mailbox again, not off the snapshot.   *)
EmittedAllFresh ==
    /\ watch.at = "emit" /\ queue = {}
    /\ watch' = [watch EXCEPT !.at = "sleep", !.last = HighestOf(In(watch.dirs))]
    /\ UNCHANGED <<filesVars, queue, adopted, printed>>

EmittedAll ==
    /\ watch.at = "emit" /\ queue = {}
    /\ watch' = [watch EXCEPT !.at = "sleep", !.last = HighestOf(scan.seen)]
    /\ UNCHANGED <<filesVars, queue, adopted, printed>>

(* The sleep ends, at once when the signal aborts it.                      *)
Wake ==
    /\ watch.at = "sleep"
    /\ \/ /\ watch.aborted
          /\ watch' = [watch EXCEPT !.at = "off"]
          /\ UNCHANGED filesVars
       \/ /\ ~watch.aborted
          /\ watch' = [watch EXCEPT !.at = "scan"]
          /\ PassStarts(watch.dirs, watch.last)
    /\ UNCHANGED <<queue, adopted, printed>>

(* SIGINT or SIGTERM; a pass under way prints what it has read.            *)
Abort ==
    /\ watch.at # "off" /\ ~watch.aborted
    /\ watch' = [watch EXCEPT !.aborted = TRUE]
    /\ UNCHANGED <<filesVars, queue, adopted, printed>>

(* The host ends the process (external).                                   *)
Killed ==
    /\ watch.at # "off"
    /\ watch' = [watch EXCEPT !.at = "off"]
    /\ UNCHANGED <<filesVars, queue, adopted, printed>>

WatchLands ==
    /\ Lands(IF watch.at = "emit" THEN HighestOf(scan.seen) ELSE watch.last,
             watch.at = "scan")
    /\ UNCHANGED watchVars

WatchNext ==
    \/ Arm \/ WatchReads \/ Snapshotted \/ Emit \/ EmittedAll \/ Wake \/ Abort \/ Killed
    \/ WatchLands

-----------------------------------------------------------------------------
(* Properties *)

(* A watch prints each message once, in the order of the ids, none at or   *)
(* below the mark it began from; and its mark never passes a message of    *)
(* its inboxes that it could have seen and has not printed, however the    *)
(* mail interleaves with its passes.                                       *)
WatchPromise ==
    /\ Ascending(printed)
    /\ \A k \in DOMAIN printed : printed[k] > adopted
    /\ adopted # NoMark =>
         \A i \in Answerable(watch.dirs, adopted, watch.last) :
           \/ watch.filter /\ i \notin Matching
           \/ \E k \in DOMAIN printed : printed[k] = i
-----------------------------------------------------------------------------
(* The inductive invariant *)

InPrinted(i) == \E k \in DOMAIN printed : printed[k] = i

(* A pass has seen, or will read, or is excused from every file of the     *)
(* watch's inboxes; so what it prints leaves none out.                     *)
WatchSeesAll ==
    watch.at = "scan" =>
        In(watch.dirs) \subseteq scan.seen \cup In(scan.todo) \cup excused

EmitsTheRest ==
    watch.at = "emit" =>
        /\ watch.last # NoMark /\ watch.last < HighestOf(scan.seen)
        /\ queue \subseteq {i \in scan.seen : i > watch.last}
        /\ \A i \in In(watch.dirs) : watch.last < i /\ i <= HighestOf(scan.seen) =>
             i \in queue \cup excused \/ (watch.filter /\ i \notin Matching) \/ InPrinted(i)

(* What was printed is passed, or comes before the rest of the pass.       *)
PrintedIsPassed ==
    watch.at # "off" =>
        \A k \in DOMAIN printed :
          /\ printed[k] <= watch.last \/ (watch.at = "emit" /\ printed[k] <= HighestOf(scan.seen))
          /\ \A i \in queue : watch.at = "emit" => printed[k] < i

AdoptedIsBelow == watch.at # "off" => adopted <= watch.last

WatchInv ==
    /\ WatchTypeOK
    /\ WatchSeesAll
    /\ EmitsTheRest
    /\ PrintedIsPassed
    /\ AdoptedIsBelow
    /\ WatchPromise
=============================================================================
