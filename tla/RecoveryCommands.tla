--------------------------- MODULE RecoveryCommands ---------------------------
(***************************************************************************)
(* The operator's mutations of a binding (operator/recovery_commands.ts):  *)
(* a preview with its token, and a confirmation that loads the row, checks *)
(* the token against it, loads the row again, changes it and saves it      *)
(* whole.  Several operators work on one binding, each a step at a time.   *)
(* The store behind the commands is the caller's (external): rows are      *)
(* loaded and saved whole, with no version to compare.                     *)
(***************************************************************************)
EXTENDS Integers, SequencesExt

CONSTANTS
    Operators,
    BatchNames, \* stable batch ids
    Threads,    \* thread ids an operator may bind; non-empty
    MaxCursor,  \* bound: cursor targets
    SeedRows,   \* the rows a binding may start with
    MaxAudit    \* bound: audit rows


VARIABLES
    seed,    \* history: the row before any command
    row,     \* BindingRecoveryState, as saved
    command  \* per operator: the mutation, its token, how far it is, and (history)
             \* whether another saved since the token was checked

recoveryVars == <<seed, row, command>>

Mutations ==
    [op : {"replay_batch", "dead_letter_replay"}, target : BatchNames]
    \cup [op : {"rebind_thread"}, target : Threads]
    \cup [op : {"reset_cursor"}, target : 0..MaxCursor]

Explicit == [none |-> "explicit"]  \* confirmed without a token
NoCommand == [at |-> "none"]

Seeds ==
    [thread : Threads, cursor : 0..MaxCursor, pending : SUBSET BatchNames,
     dead : SUBSET BatchNames, audit : {<<>>}]

ASSUME RecoveryAssumption == MaxCursor \in Nat /\ MaxAudit \in Nat /\ SeedRows \subseteq Seeds

(* A row with the audit trail it has. *)
IsRow(r) ==
    /\ r \in [thread : Threads, cursor : 0..MaxCursor, pending : SUBSET BatchNames,
             dead : SUBSET BatchNames, audit : Seq(ToSet(r.audit))]
    /\ Len(r.audit) <= MaxAudit

RecoveryTypeOK ==
    /\ seed \in Seeds
    /\ IsRow(row)
    /\ DOMAIN command = Operators
    /\ \A o \in Operators :
         LET c == command[o]
         IN  \/ c = NoCommand
             \/ /\ c.at = "shown" /\ c.mutation \in Mutations
                /\ c = [at |-> "shown", mutation |-> c.mutation, token |-> c.token]
             \/ /\ c.at = "checked" /\ c.mutation \in Mutations /\ c.raced \in BOOLEAN
                /\ c = [at |-> "checked", mutation |-> c.mutation, token |-> c.token,
                        raced |-> c.raced]
             \/ /\ c.at = "loaded" /\ IsRow(c.draft)
                /\ c = [at |-> "loaded", draft |-> c.draft]

RecoveryInit ==
    /\ seed \in SeedRows /\ row = seed
    /\ command = [o \in Operators |-> NoCommand]

-----------------------------------------------------------------------------
(* What a preview shows of the row, and what the mutation does to it.  A   *)
(* replayed dead letter stays where it is.                                 *)
Shown(m, r) ==
    CASE m.op = "replay_batch"       -> <<r.pending, r.cursor>>
      [] m.op = "dead_letter_replay" -> <<r.dead, r.pending>>
      [] m.op = "rebind_thread"      -> <<r.thread>>
      [] m.op = "reset_cursor"       -> <<r.cursor>>

Mutated(m, r) ==
    CASE m.op = "rebind_thread" -> [r EXCEPT !.thread = m.target]
      [] m.op = "reset_cursor"  -> [r EXCEPT !.cursor = m.target]
      [] OTHER                  -> [r EXCEPT !.pending = @ \cup {m.target}]

TargetKnown(m, r) ==
    CASE m.op = "replay_batch"       -> m.target \in r.pending \cup r.dead
      [] m.op = "dead_letter_replay" -> m.target \in r.dead
      [] OTHER                       -> TRUE

Token(m, r) == [mutation |-> m, current |-> Shown(m, r), proposed |-> Shown(m, Mutated(m, r))]

Moves(o, state) == command' = [command EXCEPT ![o] = state]

Preview(o, m) ==
    /\ command[o] = NoCommand /\ TargetKnown(m, row)
    /\ Moves(o, [at |-> "shown", mutation |-> m, token |-> Token(m, row)])
    /\ UNCHANGED <<seed, row>>

(* An operator may confirm without having looked. *)
ConfirmUnseen(o, m) ==
    /\ command[o] = NoCommand /\ TargetKnown(m, row)
    /\ Moves(o, [at |-> "checked", mutation |-> m, token |-> Explicit, raced |-> FALSE])
    /\ UNCHANGED <<seed, row>>

Matches(token, m) == token = Token(m, row)

(* The confirmation's own preview and #requireConfirm: a token of another  *)
(* state of the row is refused, and so is a target that is gone.           *)
Confirm(o) ==
    /\ command[o].at = "shown"
    /\ LET c == command[o]
       IN  IF TargetKnown(c.mutation, row) /\ Matches(c.token, c.mutation)
           THEN Moves(o, [at |-> "checked", mutation |-> c.mutation, token |-> c.token,
                          raced |-> FALSE])
           ELSE Moves(o, NoCommand)
    /\ UNCHANGED <<seed, row>>

LoadAgain(o) ==
    /\ command[o].at = "checked" /\ Len(row.audit) < MaxAudit
    /\ LET c == command[o]
           entry == [mutation |-> c.mutation, before |-> Shown(c.mutation, row),
                     token |-> c.token, raced |-> c.raced]
           after == Mutated(c.mutation, row)
       IN  Moves(o, [at |-> "loaded", draft |-> [after EXCEPT !.audit = Append(@, entry)]])
    /\ UNCHANGED <<seed, row>>

(* Mutant: the audit trail is merged with what is stored by now. *)
SavedMerging(draft) == [draft EXCEPT !.audit = Append(row.audit, Last(draft.audit))]

Saved(draft) == draft

Save(o) ==
    /\ command[o].at = "loaded"
    /\ row' = Saved(command[o].draft)
    /\ command' = [p \in Operators |->
                     IF p = o THEN NoCommand
                     ELSE IF command[p].at = "checked" THEN [command[p] EXCEPT !.raced = TRUE]
                     ELSE command[p]]
    /\ UNCHANGED seed

RecoveryNext ==
    \E o \in Operators :
        \/ \E m \in Mutations : Preview(o, m) \/ ConfirmUnseen(o, m)
        \/ Confirm(o) \/ LoadAgain(o) \/ Save(o)

-----------------------------------------------------------------------------
(* Properties *)

(* The row is the seed with the mutations of its own audit trail applied   *)
(* in that order, and each audit row recorded the state it found: whatever *)
(* two operators overwrite of one another, they overwrite it whole.        *)
History(first, audit) ==
    LET history[n \in 0..Len(audit)] ==
            IF n = 0 THEN first ELSE Mutated(audit[n].mutation, history[n - 1])
    IN  history

Bare(r) == [r EXCEPT !.audit = <<>>]

Explained(first, r) ==
    LET history == History(first, r.audit)
    IN  /\ Bare(r) = history[Len(r.audit)]
        /\ \A n \in DOMAIN r.audit :
             r.audit[n].before = Shown(r.audit[n].mutation, history[n - 1])

AuditExplainsRow == Explained(seed, row)

(* A mutation confirmed with a token changes the state the operator was    *)
(* shown, unless another save came between its two loads.                  *)
AsShown(r) ==
    \A i \in DOMAIN r.audit :
        LET entry == r.audit[i]
        IN  entry.token = Explicit \/ entry.raced \/ entry.token.current = entry.before

ConfirmedAsShown == AsShown(row)

(* No command takes mail out of the outbox or a dead letter out of its     *)
(* list, nor puts a batch nobody had heard of into the outbox.             *)
Retained(first, r) ==
    /\ r.dead = first.dead
    /\ first.pending \subseteq r.pending /\ r.pending \subseteq first.pending \cup first.dead

OutboxIsRetained == Retained(seed, row)

RecoveryPromise == AuditExplainsRow /\ ConfirmedAsShown /\ OutboxIsRetained

(* The inductive invariant: whatever is loaded and not yet saved has the   *)
(* same story, and a confirmation that was checked still sees what was     *)
(* shown, or raced; its target is one the binding had heard of.            *)
Checked(c) ==
    /\ c.mutation.op \in {"replay_batch", "dead_letter_replay"} =>
         c.mutation.target \in seed.pending \cup seed.dead
    /\ c.token = Explicit \/ c.raced \/ c.token.current = Shown(c.mutation, row)

RecoveryInv ==
    /\ RecoveryTypeOK
    /\ RecoveryPromise
    /\ \A o \in Operators :
         LET c == command[o]
         IN  /\ c.at = "checked" => Checked(c)
             /\ c.at = "loaded" => Explained(seed, c.draft) /\ AsShown(c.draft) /\ Retained(seed, c.draft)
=============================================================================
