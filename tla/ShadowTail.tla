------------------------------ MODULE ShadowTail ------------------------------
(***************************************************************************)
(* The `shadow` command (commands/shadow.ts): a tail of the file mailbox   *)
(* that keeps the set of ids it has seen instead of a mark, and follows    *)
(* each message of the primary project until SQLite knows of it too or has *)
(* been found without it for `confirm` reads.  After a snapshot a tick has *)
(* no suspension point: it is one step.                                    *)
(***************************************************************************)
EXTENDS MailboxFiles

CONSTANTS
    PrimaryDir,  \* the primary project's inbox
    Confirm      \* reads a message may be absent from SQLite

ASSUME ShadowTailAssumption == PrimaryDir \in Dirs /\ Confirm \in Nat \ {0}

VARIABLES
    tail,        \* off, scan or sleep
    baselined,   \* the first tick is over
    fsSeen,      \* ids seen so far
    pending,     \* the ids followed, with the reads that missed each
    known,       \* ids SQLite has a row for (external)
    adoptedIds,  \* history: ids it began with
    shown,       \* history: how often each id was printed
    outcome,     \* history: what became of each id followed
    reads,       \* history: reads of SQLite since each id was printed
    due          \* history: ids in the inboxes when the pass began
tailVars == <<tail, baselined, fsSeen, pending, known, adoptedIds, shown, outcome, reads, due>>

ShadowTypeOK ==
    /\ tail \in {"off", "scan", "sleep"}
    /\ baselined \in BOOLEAN
    /\ \A s \in {fsSeen, known, adoptedIds, due, DOMAIN pending} : s \subseteq Ids
    /\ \A i \in DOMAIN pending : pending[i] \in 0..(Confirm - 1)
    /\ shown \in [Ids -> 0..2]
    /\ outcome \in [Ids -> {"none", "corroborated", "diverged"}]
    /\ reads \in [Ids -> 0..Confirm]

NothingPending == [i \in {} |-> 0]

ShadowInit ==
    /\ tail = "off" /\ baselined = FALSE /\ fsSeen = {} /\ pending = NothingPending
    /\ known = {} /\ due = {} /\ adoptedIds = {}
    /\ shown = [i \in Ids |-> 0] /\ outcome = [i \in Ids |-> "none"]
    /\ reads = [i \in Ids |-> 0]

-----------------------------------------------------------------------------
ShadowPassStarts ==
    /\ PassStarts(Dirs, NoMark)
    /\ tail' = "scan"
    /\ due' = In(Dirs)
    /\ UNCHANGED known

(* Started, or started over: nothing is kept.                              *)
RunShadow ==
    /\ tail = "off"
    /\ ShadowPassStarts
    /\ baselined' = FALSE /\ fsSeen' = {} /\ pending' = NothingPending /\ adoptedIds' = {}
    /\ shown' = [i \in Ids |-> 0] /\ outcome' = [i \in Ids |-> "none"]
    /\ reads' = [i \in Ids |-> 0]

ShadowReads == tail = "scan" /\ ReadInbox /\ UNCHANGED tailVars

(* queryKnownIds: an agent SQLite has no row for knows nothing.            *)
QueryKnownIds(ids) == {known \cap ids, {}}

(* The desync cross-check of the ids in p: corroborated, diverged at the   *)
(* threshold, or one more miss.                                            *)
CrossCheck(p, found) ==
    LET diverges == {i \in DOMAIN p \ found : p[i] + 1 >= Confirm}
    IN  /\ pending' = [i \in DOMAIN p \ (found \cup diverges) |-> p[i] + 1]
        /\ outcome' = [i \in Ids |-> CASE i \in found -> "corroborated"
                                       [] i \in diverges -> "diverged"
                                       [] OTHER -> outcome[i]]
        /\ reads' = [i \in Ids |-> IF i \in DOMAIN p THEN reads[i] + 1 ELSE reads[i]]

Tick ==
    /\ tail = "scan" /\ scan.todo = {}
    /\ LET fresh == IF baselined THEN scan.seen \ fsSeen ELSE {}
           followed == DOMAIN pending \cup {i \in fresh : landed[i] = PrimaryDir}
           p == [i \in followed |-> IF i \in DOMAIN pending THEN pending[i] ELSE 0]
       IN  /\ shown' = [i \in Ids |-> IF i \in fresh THEN shown[i] + 1 ELSE shown[i]]
           /\ \/ followed # {} /\ \E found \in QueryKnownIds(followed) : CrossCheck(p, found)
              \/ pending' = p /\ UNCHANGED <<outcome, reads>>  \* SQLite unreachable
    /\ fsSeen' = fsSeen \cup scan.seen
    /\ baselined' = TRUE
    /\ adoptedIds' = IF baselined THEN adoptedIds ELSE scan.seen
    /\ tail' = "sleep"
    /\ UNCHANGED <<filesVars, known, due>>

ShadowWakes ==
    /\ tail = "sleep"
    /\ ShadowPassStarts
    /\ UNCHANGED <<baselined, fsSeen, pending, adoptedIds, shown, outcome, reads>>

ShadowStops ==
    /\ tail # "off"
    /\ tail' = "off"
    /\ UNCHANGED <<filesVars, baselined, fsSeen, pending, known, adoptedIds, shown, outcome, reads, due>>

(* Mail lands, and the server writes its row, in either order (external).  *)
ShadowLands == Lands(NoMark, FALSE) /\ UNCHANGED tailVars

SqliteCatchesUp ==
    /\ \E i \in Ids \ known : known' = known \cup {i}
    /\ UNCHANGED <<filesVars, tail, baselined, fsSeen, pending, adoptedIds, shown, outcome, reads, due>>

ShadowNext ==
    \/ RunShadow \/ ShadowReads \/ Tick \/ ShadowWakes \/ ShadowStops
    \/ ShadowLands \/ SqliteCatchesUp

-----------------------------------------------------------------------------
(* Properties *)

(* The tail misses no message for being late: after a tick it has printed  *)
(* every message that was in a readable inbox when the pass began, once,   *)
(* except those it began with.  Each message of the primary project it     *)
(* printed is followed to exactly one end: corroborated only when SQLite   *)
(* has it, diverged only after `confirm` reads without it.                 *)
ShadowPromise ==
    /\ tail = "sleep" => due \ excused \subseteq adoptedIds \cup {i \in Ids : shown[i] = 1}
    /\ \A i \in Ids :
         /\ shown[i] <= IF i \in adoptedIds THEN 0 ELSE 1
         /\ i \in DOMAIN pending \/ outcome[i] # "none" =>
              shown[i] = 1 /\ landed[i] = PrimaryDir
         /\ shown[i] = 1 /\ landed[i] = PrimaryDir =>
              (i \in DOMAIN pending) # (outcome[i] # "none")
         /\ outcome[i] = "corroborated" => i \in known
         /\ outcome[i] = "diverged" => reads[i] = Confirm
-----------------------------------------------------------------------------
(* The inductive invariant *)

(* A pass has seen, or will read, or is excused from every file that was   *)
(* there when it began, and what it has seen is on disk.                   *)
ShadowSeesDue ==
    tail = "scan" => /\ due \subseteq scan.seen \cup In(scan.todo) \cup excused
                     /\ \A i \in scan.seen : landed[i] # 0

(* What was seen was begun with or printed, and is on disk.                *)
SeenIsShown ==
    /\ fsSeen = adoptedIds \cup {i \in Ids : shown[i] = 1}
    /\ ~baselined => fsSeen = {}
    /\ \A i \in fsSeen : landed[i] # 0

(* A follower's misses are the reads since its message was printed.        *)
MissesAreReads ==
    \A i \in Ids : /\ i \in DOMAIN pending => reads[i] = pending[i]
                   /\ shown[i] = 0 => reads[i] = 0

ShadowInv ==
    /\ ShadowTypeOK
    /\ ShadowSeesDue
    /\ SeenIsShown
    /\ MissesAreReads
    /\ ShadowPromise
=============================================================================
