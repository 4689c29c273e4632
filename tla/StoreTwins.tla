------------------------------ MODULE StoreTwins ------------------------------
(***************************************************************************)
(* The two implementations of the durable store, given the same calls: the *)
(* in-memory one that the kernel's and the harness's tests run on          *)
(* (store/memory.ts), and the SQLite one that production runs on           *)
(* (store/sqlite.ts).  Several owners of one process open a binding, lose  *)
(* its lease to the clock, release it and change its state.                *)
(*                                                                         *)
(* A store is a record.  Each operation returns what it answers and the    *)
(* store it leaves; where the two implementations do the same, they share  *)
(* the operator.                                                           *)
(***************************************************************************)
EXTENDS Integers, FiniteSets

CONSTANTS
    Owners,    \* owner ids
    Hashes,    \* configuration hashes
    MaxBatchId, \* bound: batch ids; a batch's last message id is its own id
    MaxClock,  \* bound: the clock
    LeaseTtl,  \* leaseTtlSeconds
    MaxOpens   \* bound: handles

Nobody == "nobody"

ASSUME TwinsAssumption ==
    /\ Nobody \notin Owners
    /\ MaxBatchId \in Nat \ {0} /\ MaxClock \in Nat /\ LeaseTtl \in Nat /\ MaxOpens \in Nat

VARIABLES
    mem,      \* the memory store
    sql,      \* the SQLite store
    handles,  \* the owners' BindingLease handles: none, open or closed
    now,      \* the clock both read
    opens,    \* opens so far
    verdict   \* together, until one of the stores answers otherwise

twinVars == <<mem, sql, handles, now, opens, verdict>>

NoLease == [owner |-> Nobody, expires |-> 0]
BatchIds == 1..MaxBatchId
NoRow == [state |-> "absent", turn |-> "none", wait |-> FALSE]

EmptyStore ==
    [hash |-> "none", lease |-> NoLease, holder |-> Nobody, cursor |-> 0, inited |-> FALSE,
     rows |-> [b \in BatchIds |-> NoRow], events |-> {}]

OutboxRows == [state : {"absent", "pending", "delivering", "accepted", "dead_letter"},
         turn : {"none", "bound"}, wait : BOOLEAN]

Leases == [owner : Owners \cup {Nobody}, expires : 0..MaxClock + LeaseTtl]

Stores ==
    [hash : Hashes \cup {"none"}, lease : Leases,
     holder : Owners \cup {Nobody}, cursor : 0..MaxBatchId, inited : BOOLEAN,
     rows : [BatchIds -> OutboxRows], events : SUBSET BatchIds]

TwinsTypeOK ==
    /\ mem \in Stores /\ sql \in Stores
    /\ handles \in [Owners -> {"none", "open", "closed"}]
    /\ now \in 0..MaxClock
    /\ verdict \in {"together", "memory_refuses", "memory_grants"}

TwinsInit ==
    /\ mem = EmptyStore /\ sql = EmptyStore
    /\ handles = [o \in Owners |-> "none"]
    /\ now = 0 /\ opens = 0 /\ verdict = "together"

-----------------------------------------------------------------------------
(* Leases *)

Granted(s) == [ok |-> TRUE, store |-> s]
Refused(s) == [ok |-> FALSE, store |-> s]

Expired(lease) == now > lease.expires

HeldByOther(s, o) ==
    s.lease # NoLease /\ s.lease.owner # o /\ ~Expired(s.lease)

LeaseTo(s, o, h) ==
    Granted([s EXCEPT !.hash = h, !.holder = o,
                      !.lease = [owner |-> o, expires |-> now + LeaseTtl]])

(* Mutant: the memory store leaves the open handle of another unexamined. *)
MemOpenUnlessLeased(s, o, h) ==
    IF s.hash \in {"none", h} /\ ~HeldByOther(s, o) THEN LeaseTo(s, o, h) ELSE Refused(s)

(* open: the hash, then the handle this process holds, then the lease.     *)
MemOpen(s, o, h) ==
    IF /\ s.hash \in {"none", h}
       /\ s.holder \in {Nobody, o}
       /\ ~HeldByOther(s, o)
    THEN LeaseTo(s, o, h)
    ELSE Refused(s)

(* open: the handle, then, in a transaction, the hash and the lease.       *)
SqlOpen(s, o, h) ==
    IF /\ s.holder \in {Nobody, o}
       /\ s.hash \in {"none", h}
       /\ ~HeldByOther(s, o)
    THEN LeaseTo(s, o, h)
    ELSE Refused(s)

(* requireLiveLease: an expired lease of the caller's is dropped.          *)
RequireLease(s, o) ==
    IF s.lease = NoLease \/ s.lease.owner # o THEN Refused(s)
    ELSE IF Expired(s.lease) THEN Refused([s EXCEPT !.lease = NoLease, !.holder = Nobody])
    ELSE Granted(s)

WithoutLeaseOf(s, o) == IF s.lease.owner = o THEN [s EXCEPT !.lease = NoLease] ELSE s

(* _closeLease: SQLite forgets the open handle, whosever it is.            *)
MemClose(s, o) == WithoutLeaseOf(IF s.holder = o THEN [s EXCEPT !.holder = Nobody] ELSE s, o)
SqlClose(s, o) == WithoutLeaseOf([s EXCEPT !.holder = Nobody], o)

-----------------------------------------------------------------------------
(* Changes *)

Changes ==
    [kind : {"upsertBinding"}, hash : Hashes]
    \cup [kind : {"setBaseline"}, cursor : 0..MaxBatchId]
    \cup [kind : {"renewLease", "releaseLease"}]
    \cup [kind : {"observeSourceEvents", "enqueueBatch", "acceptBatch", "deadLetter"},
          b : BatchIds]
    \cup [kind : {"transitionBatch"}, b : BatchIds, step : {"begin", "bind", "retry"}]

(* What the kernel's transitions leave and enter. *)
From(step) == IF step = "begin" THEN "pending" ELSE "delivering"
Entered(r, step) ==
    CASE step = "begin" -> [r EXCEPT !.state = "delivering", !.wait = FALSE]
      [] step = "bind"  -> [r EXCEPT !.turn = "bound"]
      [] step = "retry" -> [r EXCEPT !.state = "pending", !.wait = TRUE, !.turn = "none"]

HasDeliveryState(s) ==
    s.inited \/ s.events # {} \/ \E b \in BatchIds : s.rows[b] # NoRow

(* applyChange of every kind but upsertBinding: both check the same things *)
(* and write the same rows.                                                *)
Applied(s, o, c) ==
    CASE c.kind = "setBaseline" ->
           IF HasDeliveryState(s) THEN Refused(s)
           ELSE Granted([s EXCEPT !.cursor = c.cursor, !.inited = TRUE])
      [] c.kind = "renewLease" ->
           IF s.lease.owner # o THEN Refused(s)
           ELSE Granted([s EXCEPT !.lease.expires = now + LeaseTtl])
      [] c.kind = "releaseLease" -> Granted(WithoutLeaseOf(s, o))
      [] c.kind = "observeSourceEvents" -> Granted([s EXCEPT !.events = @ \cup {c.b}])
      [] c.kind = "enqueueBatch" ->
           IF s.rows[c.b] # NoRow THEN Refused(s)
           ELSE Granted([s EXCEPT !.rows[c.b].state = "pending"])
      [] c.kind = "transitionBatch" ->
           IF s.rows[c.b].state # From(c.step) THEN Refused(s)
           ELSE Granted([s EXCEPT !.rows[c.b] = Entered(@, c.step)])
      [] c.kind = "acceptBatch" ->
           IF s.rows[c.b].state \notin {"pending", "delivering"} THEN Refused(s)
           ELSE Granted([s EXCEPT !.rows[c.b] = [@ EXCEPT !.state = "accepted", !.turn = "bound"],
                                  !.cursor = c.b, !.inited = TRUE])
      [] c.kind = "deadLetter" ->
           IF s.rows[c.b] = NoRow THEN Refused(s)
           ELSE Granted([s EXCEPT !.rows[c.b].state = "dead_letter"])

(* upsertBinding: memory refuses another hash once there is state.         *)
MemApplied(s, o, c) ==
    IF c.kind # "upsertBinding" THEN Applied(s, o, c)
    ELSE IF s.hash # c.hash /\ (s.cursor > 0 \/ \E b \in BatchIds : s.rows[b] # NoRow)
    THEN Refused(s)
    ELSE Granted([s EXCEPT !.hash = c.hash])

SqlApplied(s, o, c) ==
    IF c.kind # "upsertBinding" THEN Applied(s, o, c) ELSE Granted([s EXCEPT !.hash = c.hash])

(* _transact: on a draft, or in a transaction; an error, or a crash before *)
(* the commit, leaves nothing of it.                                       *)
Transacted(s, o, result, crash) ==
    LET lease == RequireLease(s, o)
    IN  IF ~lease.ok THEN lease
        ELSE IF crash \/ ~result.ok THEN Refused(s) ELSE result

-----------------------------------------------------------------------------
(* The same call to both stores *)

Call(m, s) ==
    /\ mem' = m.store /\ sql' = s.store
    /\ verdict' = CASE m.ok = s.ok -> "together"
                    [] m.ok /\ ~s.ok -> "memory_grants"
                    [] OTHER -> "memory_refuses"

OpenBoth(o, h) ==
    LET m == MemOpen(mem, o, h)
        s == SqlOpen(sql, o, h)
    IN  /\ opens < MaxOpens
        /\ opens' = opens + 1
        /\ Call(m, s)
        /\ handles' = IF m.ok THEN [handles EXCEPT ![o] = "open"] ELSE handles
        /\ UNCHANGED now

TransactBoth(o, c, crash) ==
    /\ handles[o] = "open"
    /\ Call(Transacted(mem, o, MemApplied(mem, o, c), crash),
            Transacted(sql, o, SqlApplied(sql, o, c), crash))
    /\ UNCHANGED <<handles, now, opens>>

CloseBoth(o) ==
    /\ handles[o] = "open"
    /\ handles' = [handles EXCEPT ![o] = "closed"]
    /\ Call(Granted(MemClose(mem, o)), Granted(SqlClose(sql, o)))
    /\ UNCHANGED <<now, opens>>

TwinsTick ==
    /\ now < MaxClock
    /\ now' = now + 1
    /\ UNCHANGED <<mem, sql, handles, opens, verdict>>

TwinsNext ==
    /\ verdict = "together"
    /\ \/ \E o \in Owners, h \in Hashes : OpenBoth(o, h)
       \/ \E o \in Owners, c \in Changes, crash \in BOOLEAN : TransactBoth(o, c, crash)
       \/ \E o \in Owners : CloseBoth(o)
       \/ TwinsTick

-----------------------------------------------------------------------------
(* Properties *)

(* What a test has seen succeed on the memory store succeeds on SQLite and *)
(* leaves the same binding, lease, cursor, mail and outbox: through        *)
(* expired leases, handles closed late, crashes before a commit and        *)
(* changes that are refused.  The reverse does not hold: SQLite also       *)
(* grants some calls that memory refuses.                                  *)
TestsCarryOver ==
    /\ verdict # "memory_grants"
    /\ verdict = "together" => [mem EXCEPT !.holder = Nobody] = [sql EXCEPT !.holder = Nobody]

-----------------------------------------------------------------------------
(* While they answer alike the stores differ at most in that SQLite has    *)
(* forgotten the open handle: it never keeps one that memory has not.      *)
TwinsInv ==
    /\ TwinsTypeOK
    /\ TestsCarryOver
    /\ verdict = "together" => sql.holder \in {Nobody, mem.holder}
=============================================================================
