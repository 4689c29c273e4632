--------------------------- MODULE ThreadLifecycle --------------------------
(***************************************************************************)
(* Which thread the daemon owns (owner/thread_lifecycle.ts): acquire       *)
(* resumes exactly the thread that is durably stored, or starts the first  *)
(* one and stores it, and snapshot gives ownership up when the app server  *)
(* names another.  A process may die at each await.                        *)
(*                                                                         *)
(* The store is the generic ThreadIdStore.  The daemon's own store         *)
(* (operator/production_run.ts, FileThreadIdStore) always holds the        *)
(* configured id, so that with it only the resuming paths are taken.       *)
(***************************************************************************)
EXTENDS Integers

CONSTANTS
    MaxThreads, \* bound: threads the app server creates
    MaxStarts   \* bound: processes

ASSUME LifecycleAssumption == MaxThreads \in Nat \ {0} /\ MaxStarts \in Nat \ {0}

Threads == 1..MaxThreads
NoThread == 0

VARIABLES
    stored,   \* ThreadIdStore: the durable thread id
    created,  \* threads of the app server, in order
    expected, \* expectedThreadId of this process
    at,       \* where acquire awaits
    thread,   \* the thread this process has resumed or started
    acquired, \* #acquired
    starts    \* processes so far

lifecycleVars == <<stored, created, expected, at, thread, acquired, starts>>

LifecycleTypeOK ==
    /\ stored \in Threads \cup {NoThread}
    /\ created \in 0..MaxThreads
    /\ expected \in Threads \cup {NoThread}
    /\ at \in {"down", "up", "loading", "resuming", "starting", "persisting", "done", "refused"}
    /\ thread \in Threads \cup {NoThread}
    /\ acquired \in BOOLEAN
    /\ starts \in 0..MaxStarts

(* A thread made by hand may exist, and be the one that is bound.          *)
LifecycleInit ==
    /\ created \in 0..1
    /\ stored \in 0..created
    /\ expected = NoThread /\ thread = NoThread
    /\ at = "down" /\ acquired = FALSE /\ starts = 0

(* Mutant: a start records the configured id over the stored one. *)
SpawnRecording(e) ==
    /\ at = "down"
    /\ starts < MaxStarts
    /\ starts' = starts + 1
    /\ expected' = e
    /\ stored' = IF e = NoThread THEN stored ELSE e
    /\ thread' = NoThread /\ acquired' = FALSE
    /\ at' = "up"
    /\ UNCHANGED created

Spawn(e) ==
    /\ at = "down"
    /\ starts < MaxStarts
    /\ starts' = starts + 1
    /\ expected' = e
    /\ thread' = NoThread /\ acquired' = FALSE
    /\ at' = "up"
    /\ UNCHANGED <<stored, created>>

Die ==
    /\ at # "down"
    /\ at' = "down"
    /\ acquired' = FALSE
    /\ UNCHANGED <<stored, created, expected, thread, starts>>

(* acquire on a healthy transport: the store is read.                      *)
Acquire ==
    /\ at \in {"up", "done", "refused"}
    /\ at' = "loading"
    /\ UNCHANGED <<stored, created, expected, thread, acquired, starts>>

(* A stored id other than the expected one, and an expected id that is not *)
(* stored, are refused.                                                    *)
Loaded ==
    /\ at = "loading"
    /\ at' = CASE stored # NoThread /\ expected \in {NoThread, stored} -> "resuming"
               [] stored = NoThread /\ expected = NoThread -> "starting"
               [] OTHER -> "refused"
    /\ UNCHANGED <<stored, created, expected, thread, acquired, starts>>

(* Mutant: whatever thread the resume answers with is taken. *)
ResumedAny(actual) ==
    /\ at = "resuming"
    /\ actual \in 1..created
    /\ at' = "done" /\ thread' = actual /\ acquired' = TRUE
    /\ UNCHANGED <<stored, created, expected, starts>>

(* thread/resume names a thread, or fails (NoThread).                      *)
Resumed(actual) ==
    /\ at = "resuming"
    /\ actual \in 0..created
    /\ IF actual = stored
       THEN at' = "done" /\ thread' = actual /\ acquired' = TRUE
       ELSE at' = "refused" /\ UNCHANGED <<thread, acquired>>
    /\ UNCHANGED <<stored, created, expected, starts>>

(* thread/start creates a thread, whose id may never come back.            *)
Started ==
    /\ at = "starting"
    /\ created < MaxThreads
    /\ created' = created + 1
    /\ \/ at' = "persisting" /\ thread' = created + 1
       \/ at' = "refused" /\ UNCHANGED thread
    /\ UNCHANGED <<stored, expected, acquired, starts>>

(* persistFirst returns, or throws with or without the id on disk.         *)
Persisted ==
    /\ at = "persisting"
    /\ \/ at' = "done" /\ acquired' = TRUE /\ stored' = thread
       \/ at' = "refused" /\ UNCHANGED acquired /\ stored' \in {stored, thread}
    /\ UNCHANGED <<created, expected, thread, starts>>

(* snapshot: thread/read names another thread, or the transport is gone.   *)
SnapshotDisowns ==
    /\ at = "done"
    /\ acquired
    /\ acquired' = FALSE
    /\ UNCHANGED <<stored, created, expected, at, thread, starts>>

LifecycleNext ==
    \/ \E e \in 0..created : Spawn(e)
    \/ Die \/ Acquire \/ Loaded \/ Started \/ Persisted \/ SnapshotDisowns
    \/ \E actual \in 0..created : Resumed(actual)

-----------------------------------------------------------------------------
(* Properties *)

(* A process that believes it owns a thread owns the one that is durably   *)
(* bound and that it was configured for, whatever earlier processes died   *)
(* in the middle of and whatever the app server answers.                   *)
OwnsTheBoundThread ==
    acquired => /\ thread = stored
                /\ expected \in {NoThread, stored}

(* The binding of a thread is final: no path replaces a stored thread      *)
(* (thread_lifecycle.ts:172: replacement forbidden).                       *)
BindingIsFinal ==
    [][stored # NoThread => stored' = stored]_lifecycleVars
=============================================================================
