-------------------------- MODULE BindingLeaseProof --------------------------
(***************************************************************************)
(* When the lease does exclude two drivers, for every number of            *)
(* supervisors: supervisors are prompt and a whole pass of deliveries fits *)
(* into what a renewal interval leaves of the lease's lifetime.            *)
(***************************************************************************)
EXTENDS BindingLease, TLAPS

USE LeaseAssumption, SupervisorAssumption

(* Lease, call and pass times stay within their bounds. *)
THEOREM LeaseTyped == Spec => []TypeOK
<1>1. Init => TypeOK
  BY DEF Init, TypeOK, Ops
<1>2. TypeOK /\ [Next]_vars => TypeOK'
  <2> SUFFICES ASSUME TypeOK, [Next]_vars PROVE TypeOK'
    OBVIOUS
  <2> USE DEF TypeOK, Ops, Goto
  <2>1. ASSUME NEW s \in Supervisors, Open(s) PROVE TypeOK'
    BY <2>1 DEF Open
  <2>2. ASSUME NEW s \in Supervisors, Check(s) PROVE TypeOK'
    <3>1. NextOp(s) \in Ops
      BY <2>2 DEF NextOp, Check
    <3> QED BY <2>2, <3>1 DEF Check
  <2>3. ASSUME NEW s \in Supervisors, DeleteExpired(s) PROVE TypeOK'
    BY <2>3 DEF DeleteExpired
  <2>4. ASSUME NEW s \in Supervisors, CommitRenewal(s) PROVE TypeOK'
    BY <2>4 DEF CommitRenewal
  <2>5. ASSUME NEW s \in Supervisors, Commit(s) PROVE TypeOK'
    BY <2>5 DEF Commit
  <2>6. ASSUME NEW s \in Supervisors, PassEnds(s) PROVE TypeOK'
    BY <2>6 DEF PassEnds
  <2>7. ASSUME NEW s \in Supervisors, Shutdown(s) PROVE TypeOK'
    BY <2>7 DEF Shutdown
  <2>8. ASSUME NEW s \in Supervisors, Crash(s) PROVE TypeOK'
    BY <2>8 DEF Crash
  <2>9. CASE Tick
    BY <2>9 DEF Tick, Down
  <2>10. CASE UNCHANGED vars
    BY <2>10 DEF vars
  <2> HIDE DEF TypeOK
  <2> QED BY <2>1, <2>2, <2>3, <2>4, <2>5, <2>6, <2>7, <2>8, <2>9, <2>10
          DEF Next, SupervisorStep
<1> QED BY <1>1, <1>2, PTL DEF Spec

(* A supervisor that runs is the only one. *)
LEMMA OnlyOneRuns ==
    ASSUME LeaseOutlivesPass, NEW s \in Supervisors, pc[s] # "stopped",
           NEW t \in Supervisors, t # s
    PROVE  pc[t] = "stopped"
BY DEF LeaseOutlivesPass

(* Every step of a prompt supervisor, and every tick, leaves the running   *)
(* supervisor a lease that outlives its pass. *)
LEMMA LeaseStep ==
    ASSUME Prompt, RenewEvery <= TTL, PassTime <= TTL - RenewEvery + 1,
           TypeOK, TypeOK', LeaseOutlivesPass, [Next]_vars
    PROVE  LeaseOutlivesPass'
<1> USE DEF TypeOK, Goto
<1>1. ASSUME NEW s \in Supervisors, Open(s) PROVE LeaseOutlivesPass'
  <2>1. \A t \in Supervisors : pc[t] = "stopped"
    BY <1>1 DEF Open, LeaseOutlivesPass
  <2> QED BY <1>1, <2>1 DEF Open, LeaseOutlivesPass, InPass
<1>2. ASSUME NEW s \in Supervisors, Check(s) PROVE LeaseOutlivesPass'
  <2>1. pc[s] # "stopped" /\ \A t \in Supervisors : t # s => pc[t] = "stopped"
    BY <1>2, OnlyOneRuns DEF Check
  <2>2. Goto(s, "checked", NextOp(s)) /\ UNCHANGED <<holder, left, renewIn, busy>>
    BY <1>2, <2>1 DEF Check, LeaseOutlivesPass
  <2>3. CASE pc[s] = "loop"
    <3>1. NextOp(s) = IF renewIn[s] = 0 THEN "renew" ELSE "load"
      BY <2>3 DEF NextOp
    <3> QED BY <2>1, <2>2, <2>3, <3>1 DEF LeaseOutlivesPass, InPass
  <2>4. CASE pc[s] \in {"pass", "calling"}
    <3>1. NextOp(s) \in {"mark", "record"} /\ InPass(s)
      BY <2>4 DEF NextOp, InPass
    <3> QED BY <2>1, <2>2, <2>4, <3>1 DEF LeaseOutlivesPass, InPass
  <2> QED BY <1>2, <2>3, <2>4 DEF Check
<1>3. ASSUME NEW s \in Supervisors, DeleteExpired(s) PROVE LeaseOutlivesPass'
  BY <1>3 DEF DeleteExpired, LeaseOutlivesPass
<1>4. ASSUME NEW s \in Supervisors, CommitRenewal(s) PROVE LeaseOutlivesPass'
  <2>1. pc[s] # "stopped" /\ \A t \in Supervisors : t # s => pc[t] = "stopped"
    BY <1>4, OnlyOneRuns DEF CommitRenewal
  <2> QED BY <1>4, <2>1 DEF CommitRenewal, LeaseOutlivesPass, InPass
<1>5. ASSUME NEW s \in Supervisors, Commit(s) PROVE LeaseOutlivesPass'
  <2>1. pc[s] # "stopped" /\ \A t \in Supervisors : t # s => pc[t] = "stopped"
    BY <1>5, OnlyOneRuns DEF Commit
  <2> QED BY <1>5, <2>1 DEF Commit, LeaseOutlivesPass, InPass
<1>6. ASSUME NEW s \in Supervisors, PassEnds(s) PROVE LeaseOutlivesPass'
  <2>1. pc[s] # "stopped" /\ \A t \in Supervisors : t # s => pc[t] = "stopped"
    BY <1>6, OnlyOneRuns DEF PassEnds
  <2> QED BY <1>6, <2>1 DEF PassEnds, LeaseOutlivesPass, InPass
<1>7. ASSUME NEW s \in Supervisors, Shutdown(s) \/ Crash(s) PROVE LeaseOutlivesPass'
  <2>1. pc[s] # "stopped" /\ \A t \in Supervisors : t # s => pc[t] = "stopped"
    BY <1>7, OnlyOneRuns DEF Shutdown, Crash
  <2> QED BY <1>7, <2>1 DEF Shutdown, Crash, LeaseOutlivesPass
<1>8. CASE Tick
  <2> SUFFICES ASSUME NEW s \in Supervisors, pc'[s] # "stopped"
               PROVE  /\ pc'[s] # "expired"
                      /\ holder' = s
                      /\ left' >= 0
                      /\ renewIn'[s] > 0 => left' >= TTL - RenewEvery + renewIn'[s]
                      /\ pc'[s] = "checked" /\ op'[s] = "load" => renewIn'[s] > 0
                      /\ InPass(s)' => left' >= busy'[s]
    BY DEF LeaseOutlivesPass
  <2>1. pc' = pc /\ op' = op /\ holder' = holder /\ Waits(s)
    BY <1>8 DEF Tick
  <2>2. /\ holder = s /\ left >= 0
        /\ renewIn[s] > 0 => left >= TTL - RenewEvery + renewIn[s]
        /\ pc[s] = "calling" => left >= busy[s]
    BY <2>1 DEF LeaseOutlivesPass, InPass
  <2>3. CASE pc[s] = "loop" /\ renewIn[s] > 0
    BY <1>8, <2>1, <2>2, <2>3 DEF Tick, Down, InPass
  <2>4. CASE pc[s] = "calling" /\ busy[s] > 0
    BY <1>8, <2>1, <2>2, <2>4 DEF Tick, Down, InPass
  <2> QED BY <2>1, <2>3, <2>4 DEF Waits
<1>9. CASE UNCHANGED vars
  BY <1>9 DEF vars, LeaseOutlivesPass, InPass
<1> QED BY <1>1, <1>2, <1>3, <1>4, <1>5, <1>6, <1>7, <1>8, <1>9 DEF Next, SupervisorStep

(* What a supervisor may count on while it is in a pass, if supervisors    *)
(* are prompt and the deliveries of one pass together take no longer than  *)
(* the lease lives after a renewal came due: the row is its own and lives  *)
(* longer than what is left of the pass. *)
THEOREM LeaseOutlives ==
    ASSUME Prompt, RenewEvery <= TTL, PassTime <= TTL - RenewEvery + 1
    PROVE  Spec => []LeaseOutlivesPass
<1>1. Init => LeaseOutlivesPass
  BY DEF Init, LeaseOutlivesPass
<1>2. TypeOK /\ TypeOK' /\ LeaseOutlivesPass /\ [Next]_vars => LeaseOutlivesPass'
  BY LeaseStep
<1> QED BY <1>1, <1>2, LeaseTyped, PTL DEF Spec

(* So the lease keeps two supervisors from driving the thread at once. *)
THEOREM LeaseExcludes ==
    ASSUME Prompt, RenewEvery <= TTL, PassTime <= TTL - RenewEvery + 1
    PROVE  Spec => []OneDriver
<1>1. LeaseOutlivesPass => OneDriver
  BY DEF LeaseOutlivesPass, OneDriver
<1> QED BY <1>1, LeaseOutlives, PTL

-----------------------------------------------------------------------------
(* What the lease promises however slow supervisors and passes are *)

(* Nobody but the owner a row names creates or extends that row: a stale   *)
(* check can delete another owner's row, never prolong it. *)
THEOREM OwnerExtends == Spec => LeaseExtendedByOwner
<1>1. ASSUME TypeOK, [Next]_vars, NEW s \in Supervisors,
             holder' = s, holder # s \/ left' > left
      PROVE  pc'[s] # pc[s]
  <2> USE DEF TypeOK, Goto
  <2>0. Nobody \notin Supervisors /\ Ghost \notin Supervisors
    OBVIOUS
  <2>1. ASSUME NEW u \in Supervisors, Open(u) PROVE pc'[s] # pc[s]
    BY <1>1, <2>1 DEF Open
  <2>2. ASSUME NEW u \in Supervisors, CommitRenewal(u) PROVE pc'[s] # pc[s]
    BY <1>1, <2>2 DEF CommitRenewal
  <2>3. ASSUME NEW u \in Supervisors, Check(u) \/ Commit(u) \/ PassEnds(u)
        PROVE  holder' = holder /\ left' = left
    BY <2>3 DEF Check, Commit, PassEnds
  <2>4. ASSUME NEW u \in Supervisors, DeleteExpired(u) PROVE holder' = Nobody
    BY <2>4 DEF DeleteExpired
  <2>5. ASSUME NEW u \in Supervisors, Shutdown(u) \/ Crash(u)
        PROVE  holder' \in {Nobody, Ghost} \/ (holder' = holder /\ left' = left)
    BY <2>5 DEF Shutdown, Crash
  <2>6. CASE Tick
    <3>1. holder' = holder /\ left \in Int /\ left' \in Int /\ left' <= left
      BY <1>1, <2>6 DEF Tick, Down
    <3>2. ~(holder # s \/ left' > left)
      BY <1>1, <3>1
    <3> QED BY <1>1, <3>2
  <2>7. CASE UNCHANGED vars
    BY <1>1, <2>7 DEF vars
  <2> QED BY <1>1, <2>0, <2>1, <2>2, <2>3, <2>4, <2>5, <2>6, <2>7 DEF Next, SupervisorStep
<1>2. TypeOK /\ [Next]_vars =>
        \A s \in Supervisors :
            holder' = s /\ (holder # s \/ left' > left) => pc'[s] # pc[s]
  BY <1>1
<1> QED BY <1>2, LeaseTyped, PTL DEF Spec, LeaseExtendedByOwner
=============================================================================
