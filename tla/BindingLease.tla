---------------------------- MODULE BindingLease ----------------------------
(***************************************************************************)
(* The lease of one binding (store/sqlite.ts) and the supervisors that     *)
(* compete for it.  Every transaction of the kernel first reads the lease  *)
(* row and only then begins; a pass of the kernel's loop may spend time in *)
(* app-server calls, and the lease is renewed only at the top of the loop. *)
(*                                                                         *)
(* Time is relative: "left" counts the row's expires_at down, so that a    *)
(* behaviour needs no bound on the clock.                                  *)
(***************************************************************************)
EXTENDS Integers

CONSTANTS
    Supervisors,
    TTL,         \* leaseTtlSeconds
    RenewEvery,  \* leaseRenewSeconds
    PassTime,    \* longest time the deliveries of one pass take together
    Prompt       \* does a supervisor that can act always act before time passes

ASSUME LeaseAssumption ==
    /\ TTL \in Nat
    /\ RenewEvery \in Nat \ {0}
    /\ PassTime \in Nat
    /\ Prompt \in BOOLEAN

Nobody == "nobody"  \* there is no lease row
Ghost  == "ghost"   \* the row names a process that is gone

ASSUME SupervisorAssumption == Supervisors \cap {Nobody, Ghost} = {}

VARIABLES
    holder,   \* leases.owner_id
    left,     \* expires_at minus now; -1 once it is past
    pc,       \* where each supervisor is
    op,       \* the transaction whose lease check has passed
    renewIn,  \* nextLeaseRenewAt minus now
    busy      \* what is left of the time of this pass

vars == <<holder, left, pc, op, renewIn, busy>>

Ops == {"none", "renew", "load", "mark", "record"}

TypeOK ==
    /\ holder \in Supervisors \cup {Nobody, Ghost}
    /\ left \in -1..TTL
    /\ pc \in [Supervisors ->
                 {"stopped", "loop", "checked", "expired", "pass", "calling"}]
    /\ op \in [Supervisors -> Ops]
    /\ renewIn \in [Supervisors -> 0..RenewEvery]
    /\ busy \in [Supervisors -> 0..PassTime]

Init ==
    /\ holder = Nobody
    /\ left = -1
    /\ pc = [s \in Supervisors |-> "stopped"]
    /\ op = [s \in Supervisors |-> "none"]
    /\ renewIn = [s \in Supervisors |-> 0]
    /\ busy = [s \in Supervisors |-> 0]

Goto(s, place, what) ==
    /\ pc' = [pc EXCEPT ![s] = place]
    /\ op' = [op EXCEPT ![s] = what]

-----------------------------------------------------------------------------
(* Mutation: a lease is taken over in the instant it expires. *)
OpenEarly(s) ==
    /\ pc[s] = "stopped"
    /\ holder = Nobody \/ left <= 0
    /\ holder' = s
    /\ left' = TTL
    /\ renewIn' = [renewIn EXCEPT ![s] = RenewEvery]
    /\ Goto(s, "loop", "none")
    /\ UNCHANGED busy

(* Mutation: any lease row refuses the open, expired or not. *)
OpenUnlessRow(s) ==
    /\ pc[s] = "stopped"
    /\ holder = Nobody
    /\ holder' = s
    /\ left' = TTL
    /\ renewIn' = [renewIn EXCEPT ![s] = RenewEvery]
    /\ Goto(s, "loop", "none")
    /\ UNCHANGED busy

(* open: one transaction that refuses while another owner's lease is live. *)
(* A refused supervisor ends and is started again.                         *)
Open(s) ==
    /\ pc[s] = "stopped"
    /\ holder = Nobody \/ left < 0
    /\ holder' = s
    /\ left' = TTL
    /\ renewIn' = [renewIn EXCEPT ![s] = RenewEvery]
    /\ Goto(s, "loop", "none")
    /\ UNCHANGED busy

(* The transaction the kernel comes to next: at the top of its loop the    *)
(* renewal when it is due, else the load that begins a pass; in a pass the *)
(* mark before a call; after a call the record of its result.              *)
NextOp(s) ==
    CASE pc[s] = "loop" -> IF renewIn[s] = 0 THEN "renew" ELSE "load"
      [] pc[s] = "pass" -> "mark"
      [] pc[s] = "calling" -> "record"
      [] OTHER -> "none"

(* requireLiveLease reads the row before the transaction begins. *)
Check(s) ==
    /\ pc[s] \in {"loop", "pass", "calling"}
    /\ \/ /\ holder = s /\ left >= 0
          /\ Goto(s, "checked", NextOp(s))
       \/ /\ holder = s /\ left < 0
          /\ Goto(s, "expired", "none")
       \/ /\ holder # s
          /\ Goto(s, "stopped", "none")
    /\ UNCHANGED <<holder, left, renewIn, busy>>

(* An expired row is deleted by binding id, whoever owns it by then. *)
DeleteExpired(s) ==
    /\ pc[s] = "expired"
    /\ holder' = Nobody
    /\ left' = -1
    /\ Goto(s, "stopped", "none")
    /\ UNCHANGED <<renewIn, busy>>

(* Mutation: the renewal does not look at the owner again. *)
CommitRenewalOfAny(s) ==
    /\ pc[s] = "checked"
    /\ op[s] = "renew"
    /\ left' = TTL
    /\ renewIn' = [renewIn EXCEPT ![s] = RenewEvery]
    /\ Goto(s, "loop", "none")
    /\ UNCHANGED <<holder, busy>>

(* Mutation: the renewal adds to the old expiry instead of to now. *)
CommitRenewalAdding(s) ==
    /\ pc[s] = "checked"
    /\ op[s] = "renew"
    /\ holder = s
    /\ left' = left + TTL
    /\ renewIn' = [renewIn EXCEPT ![s] = RenewEvery]
    /\ Goto(s, "loop", "none")
    /\ UNCHANGED <<holder, busy>>

(* Mutation: the renewal is scheduled but the row's expiry is not moved. *)
CommitRenewalInMemory(s) ==
    /\ pc[s] = "checked"
    /\ op[s] = "renew"
    /\ renewIn' = [renewIn EXCEPT ![s] = RenewEvery]
    /\ Goto(s, "loop", "none")
    /\ UNCHANGED <<holder, left, busy>>

(* The renewal looks at the owner again inside its transaction; the other  *)
(* changes do not look at the lease.                                       *)
CommitRenewal(s) ==
    /\ pc[s] = "checked"
    /\ op[s] = "renew"
    /\ \/ /\ holder = s
          /\ left' = TTL
          /\ renewIn' = [renewIn EXCEPT ![s] = RenewEvery]
          /\ Goto(s, "loop", "none")
       \/ /\ holder # s
          /\ Goto(s, "stopped", "none")
          /\ UNCHANGED <<left, renewIn>>
    /\ UNCHANGED <<holder, busy>>

Commit(s) ==
    /\ pc[s] = "checked"
    /\ \/ /\ op[s] = "load"
          /\ Goto(s, "pass", "none")
          /\ busy' = [busy EXCEPT ![s] = PassTime]
       \/ /\ op[s] = "mark"
          /\ Goto(s, "calling", "none")
          /\ UNCHANGED busy
       \/ /\ op[s] = "record"
          /\ Goto(s, "pass", "none")
          /\ UNCHANGED busy
    /\ UNCHANGED <<holder, left, renewIn>>

PassEnds(s) ==
    /\ pc[s] = "pass"
    /\ Goto(s, "loop", "none")
    /\ UNCHANGED <<holder, left, renewIn, busy>>

(* A shutdown closes the lease: its own row is deleted. *)
Shutdown(s) ==
    /\ pc[s] = "loop"
    /\ holder' = IF holder = s THEN Nobody ELSE holder
    /\ left' = IF holder = s THEN -1 ELSE left
    /\ Goto(s, "stopped", "none")
    /\ UNCHANGED <<renewIn, busy>>

(* A killed process leaves its row behind; the next one has another id. *)
Crash(s) ==
    /\ pc[s] # "stopped"
    /\ holder' = IF holder = s THEN Ghost ELSE holder
    /\ Goto(s, "stopped", "none")
    /\ UNCHANGED <<left, renewIn, busy>>

Down(n, floor) == IF n > floor THEN n - 1 ELSE n

(* A supervisor that only waits: for its next poll, or for a call. *)
Waits(s) ==
    \/ pc[s] = "stopped"
    \/ pc[s] = "loop" /\ renewIn[s] > 0
    \/ pc[s] = "calling" /\ busy[s] > 0

Tick ==
    /\ Prompt => \A s \in Supervisors : Waits(s)
    /\ left' = Down(left, -1)
    /\ renewIn' = [s \in Supervisors |-> Down(renewIn[s], 0)]
    /\ busy' = [s \in Supervisors |-> IF pc[s] = "calling" THEN Down(busy[s], 0) ELSE busy[s]]
    /\ UNCHANGED <<holder, pc, op>>

SupervisorStep(s) ==
    \/ Open(s) \/ Check(s) \/ DeleteExpired(s) \/ CommitRenewal(s) \/ Commit(s)
    \/ PassEnds(s) \/ Shutdown(s)

Next ==
    \/ \E s \in Supervisors : SupervisorStep(s) \/ Crash(s)
    \/ Tick

Spec == Init /\ [][Next]_vars

(* Time passes, and a supervisor that ended is started again. *)
FairSpec ==
    /\ Spec
    /\ WF_vars(Tick)
    /\ \A s \in Supervisors :
         /\ WF_vars(Open(s))
         /\ WF_vars(Check(s) \/ DeleteExpired(s) \/ CommitRenewal(s) \/ Commit(s))

-----------------------------------------------------------------------------
(* The lease keeps two supervisors from driving the binding's thread at    *)
(* the same time: no two are in an app-server call at once.                *)
OneDriver ==
    \A s, t \in Supervisors : pc[s] = "calling" /\ pc[t] = "calling" => s = t

(* Why: whoever runs holds the row, and the row outlives both the next     *)
(* renewal and what is left of the pass.  Holds when a pass is short       *)
(* enough for the lease and supervisors are prompt.                        *)
InPass(s) ==
    pc[s] \in {"pass", "calling"} \/ (pc[s] = "checked" /\ op[s] \in {"mark", "record"})

LeaseOutlivesPass ==
    \A s \in Supervisors : pc[s] # "stopped" =>
        /\ pc[s] # "expired"
        /\ holder = s
        /\ left >= 0
        /\ renewIn[s] > 0 => left >= TTL - RenewEvery + renewIn[s]
        /\ pc[s] = "checked" /\ op[s] = "load" => renewIn[s] > 0
        /\ InPass(s) => left >= busy[s]

(* Nobody but the owner a row names creates or extends that row, however   *)
(* stale the check was that a supervisor's transaction started from.       *)
LeaseExtendedByOwner ==
    [][\A s \in Supervisors :
          holder' = s /\ (holder # s \/ left' > left) => pc'[s] # pc[s]]_vars

(* The lease that a killed supervisor leaves behind does not keep the      *)
(* binding from being served again.                                        *)
CrashIsRecovered == (holder = Ghost) ~> (holder \in Supervisors)
=============================================================================
