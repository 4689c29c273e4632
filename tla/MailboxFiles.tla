----------------------------- MODULE MailboxFiles -----------------------------
(***************************************************************************)
(* The on-disk mailbox as the plugin's watchers see it: every message is   *)
(* one file, whose name carries its id, in the inbox of one project, and a *)
(* pass reads the inboxes one after the other while mail keeps arriving.   *)
(* Ids are handed out by the mail server and their files may land in any   *)
(* order (external).  A file that is not a message has no id and is left   *)
(* out, as the code leaves it out of the snapshot.                         *)
(***************************************************************************)
EXTENDS Integers, Sequences, FiniteSetsExt

CONSTANTS
    NumDirs,  \* the inboxes, numbered in the order a pass reads them
    MaxMail   \* bound: message ids

ASSUME MailboxFilesAssumption == NumDirs \in Nat \ {0} /\ MaxMail \in Nat \ {0}

VARIABLES
    landed,   \* the inbox each id's file is in, 0 while there is none
    scan,     \* the pass: inboxes still to read, ids read so far
    excused   \* history: ids below an id that was read, whose file landed
              \* after their inbox was read or whose directory could not be read
filesVars == <<landed, scan, excused>>

Dirs == 1..NumDirs
Ids == 1..MaxMail
NoScan == [todo |-> {}, seen |-> {}]
NoMark == -1

FilesTypeOK ==
    /\ landed \in [Ids -> 0..NumDirs]
    /\ scan \in [todo : SUBSET Dirs, seen : SUBSET Ids]
    /\ excused \subseteq Ids

FilesInit == landed = [i \in Ids |-> 0] /\ scan = NoScan /\ excused = {}

In(dirs) == {i \in Ids : landed[i] \in dirs}
HighestOf(ids) == Max(ids \cup {0})
Ascending(s) == \A j, k \in DOMAIN s : j < k => s[j] < s[k]

(* A file lands.  A reader whose mark it does not exceed, or whose pass    *)
(* has read that inbox already, cannot be blamed for it.                   *)
Lands(mark, passing) ==
    \E i \in Ids, d \in Dirs :
      /\ landed[i] = 0
      /\ landed' = [landed EXCEPT ![i] = d]
      /\ excused' = IF i <= mark \/ (passing /\ d \notin scan.todo)
                    THEN excused \cup {i} ELSE excused
      /\ UNCHANGED scan

(* A pass is over: what is above all it read is looked for in the next.    *)
PassEnds(mark) ==
    /\ scan.todo = {}
    /\ excused' = {i \in excused : i <= Max({mark, HighestOf(scan.seen)})}
    /\ UNCHANGED <<landed, scan>>

PassStarts(dirs, mark) ==
    /\ scan' = [todo |-> dirs, seen |-> {}]
    /\ excused' = {i \in excused : i <= mark}
    /\ UNCHANGED landed

NextInbox == Min(scan.todo)

(* An inbox read whole. *)
InboxRead ==
    /\ scan.todo # {}
    /\ scan' = [todo |-> scan.todo \ {NextInbox}, seen |-> scan.seen \cup In({NextInbox})]
    /\ UNCHANGED <<landed, excused>>

(* dirExists and walkMd: an inbox is a tree, and of one that is absent or  *)
(* has directories that cannot be read the rest is taken; the pass goes on.*)
ReadInbox ==
    /\ scan.todo # {}
    /\ \E unread \in SUBSET In({NextInbox}) :
         /\ scan' = [todo |-> scan.todo \ {NextInbox},
                     seen |-> scan.seen \cup (In({NextInbox}) \ unread)]
         /\ excused' = excused \cup unread
    /\ UNCHANGED landed

(* Every id a reader answers for: above where it began, up to its mark.    *)
Answerable(dirs, from, mark) ==
    {i \in In(dirs) : from < i /\ i <= mark} \ excused
=============================================================================
