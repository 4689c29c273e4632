----------------------------- MODULE MessageLookup -----------------------------
(***************************************************************************)
(* The `message` command (commands/message.ts): a message id is unique in  *)
(* the whole mail server, but can be asked for in one project only, so the *)
(* command asks the candidate projects in turn, up to a cap, each call     *)
(* with a deadline of its own, and condenses the outcomes into one exit    *)
(* code.  The message may be delivered while the command runs (external).  *)
(***************************************************************************)
EXTENDS Integers, FiniteSetsExt

CONSTANTS
    NumProjects,  \* the server's projects, in the order it lists them
    Linked,       \* those linked to the product
    MaxFanout     \* MAX_FANOUT

ASSUME MessageLookupAssumption ==
    /\ NumProjects \in Nat \ {0} /\ MaxFanout \in Nat \ {0}
    /\ Linked \subseteq 1..NumProjects

VARIABLES
    home,    \* the project the message is in, 0 while it is in none
    lookup,  \* the command: candidates left, probes made, probes that failed
    code,    \* the exit code
    start    \* history: home and candidates when the command began
lookupVars == <<home, lookup, code, start>>

Projects == 1..NumProjects
NoLookup == [at |-> "off", left |-> {}, probed |-> {}, errored |-> {}, skipped |-> {},
             aborted |-> FALSE]
NoStart == [home |-> 0, candidates |-> {}]

LookupTypeOK ==
    /\ home \in 0..NumProjects
    /\ lookup \in [at : {"off", "probing", "over"}, left : SUBSET Projects,
                   probed : SUBSET Projects, errored : SUBSET Projects,
                   skipped : SUBSET Projects, aborted : BOOLEAN]
    /\ code \in {"none", "OK", "NOT_FOUND", "SERVER_UNREACHABLE"}
    /\ start \in [home : 0..NumProjects, candidates : SUBSET Projects]

LookupInit == home \in 0..NumProjects /\ lookup = NoLookup /\ code = "none" /\ start = NoStart

-----------------------------------------------------------------------------
FirstOf(projects, n) == {p \in projects : Cardinality({q \in projects : q <= p}) <= n}

(* runMessage up to the probes: the projects of the product, or all.       *)
RunMessage ==
    /\ lookup.at = "off"
    /\ \E candidates \in {Linked, Projects} :
         /\ start' = [home |-> home, candidates |-> candidates]
         /\ \/ /\ lookup' = [NoLookup EXCEPT
                    !.at = "probing", !.left = FirstOf(candidates, MaxFanout),
                    !.skipped = candidates \ FirstOf(candidates, MaxFanout)]
               /\ UNCHANGED code
            \/ /\ lookup' = [NoLookup EXCEPT !.at = "over"]  \* the list failed
               /\ code' = "SERVER_UNREACHABLE"
    /\ UNCHANGED home

Candidate == Min(lookup.left)

(* resolveMessage, one probe: robotMessage tells a hit, a clean absence,   *)
(* or an error, which a deadline is too.                                   *)
ProbeHits ==
    /\ lookup.at = "probing" /\ lookup.left # {} /\ home = Candidate
    /\ lookup' = [lookup EXCEPT !.at = "over", !.probed = @ \cup {Candidate}]
    /\ code' = "OK"
    /\ UNCHANGED <<home, start>>

ProbeMisses ==
    /\ lookup.at = "probing" /\ lookup.left # {}
    /\ \E failed \in {{Candidate}} \cup (IF home = Candidate THEN {} ELSE {{}}) :
         lookup' = [lookup EXCEPT !.left = @ \ {Candidate}, !.probed = @ \cup {Candidate},
                                  !.errored = @ \cup failed]
    /\ UNCHANGED <<home, code, start>>

(* The signal ends the loop before the next probe.                         *)
LookupAborted ==
    /\ lookup.at = "probing" /\ lookup.left # {}
    /\ lookup' = [lookup EXCEPT !.left = {}, !.aborted = TRUE]
    /\ UNCHANGED <<home, code, start>>

(* No project answered.                                                    *)
AllProbesFailed == lookup.probed # {} /\ lookup.errored = lookup.probed

NoHit ==
    /\ lookup.at = "probing" /\ lookup.left = {}
    /\ lookup' = [lookup EXCEPT !.at = "over"]
    /\ code' = IF AllProbesFailed THEN "SERVER_UNREACHABLE" ELSE "NOT_FOUND"
    /\ UNCHANGED <<home, start>>

MessageDelivered ==
    /\ home = 0
    /\ home' \in Projects
    /\ UNCHANGED <<lookup, code, start>>

LookupNext ==
    \/ RunMessage \/ ProbeHits \/ ProbeMisses \/ LookupAborted \/ NoHit \/ MessageDelivered

-----------------------------------------------------------------------------
(* Properties *)

(* A message that was there when the command began, in a project that was  *)
(* asked and answered, is found; so a miss means that its project was cut  *)
(* off by the cap, by the signal, by a failure or by the product's scope.  *)
(* The server is called unreachable only when no project answered.         *)
LookupPromise ==
    /\ code = "OK" => home \in lookup.probed \ lookup.errored
    /\ code = "NOT_FOUND" =>
         \/ start.home \notin start.candidates
         \/ start.home \in lookup.errored \cup lookup.skipped
         \/ lookup.aborted
    /\ code = "SERVER_UNREACHABLE" => lookup.probed = lookup.errored
-----------------------------------------------------------------------------
(* The inductive invariant *)

(* Every candidate is still to be probed, was probed, or was left out; and *)
(* one that has the message was probed in vain only if its probe failed.   *)
ProbesAccount ==
    /\ lookup.errored \subseteq lookup.probed
    /\ start.home # 0 => home = start.home
    /\ lookup.at = "off" => code = "none"
    /\ lookup.at = "probing" =>
         /\ code = "none" /\ lookup.left \cap lookup.probed = {}
         /\ start.candidates \subseteq lookup.left \cup lookup.probed \cup lookup.skipped
              \/ lookup.aborted
         /\ start.home \in lookup.probed => start.home \in lookup.errored

LookupInv == LookupTypeOK /\ ProbesAccount /\ LookupPromise
=============================================================================
