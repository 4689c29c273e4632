----------------------------- MODULE ProductWatch -----------------------------
(***************************************************************************)
(* The `product` command (commands/product.ts): a watch of every project   *)
(* linked to one product, whose mark is a creation time and not an id.     *)
(* The mail server answers a poll with the messages above the mark, newest *)
(* first, cut at the page size (external); times may repeat, and a message *)
(* may appear under a time that the mark has passed.                       *)
(* The lines of one page are printed with only label lookups in between,   *)
(* which change nothing the watch keeps: a poll is one step, unless such a *)
(* lookup throws and ends the watch with part of the page printed.         *)
(***************************************************************************)
EXTENDS Integers, Sequences, FiniteSetsExt, SequencesExt

CONSTANTS
    MaxPosted,  \* bound: messages
    MaxStamp,   \* bound: creation times
    Limit       \* --limit, the page size

ASSUME ProductWatchAssumption ==
    /\ MaxPosted \in Nat \ {0} /\ MaxStamp \in Nat \ {0}
    /\ Limit \in Nat \ {0}

VARIABLES
    stamp,   \* the creation time of each message, 0 while it does not exist
    product, \* the loop: where it is, its mark, its failures, its warning
    began,   \* history: the mark of the first poll
    lines,   \* history: the messages printed, in order
    missed,  \* history: messages that appeared at or below the mark
    cut      \* history: messages a full page left out
productVars == <<stamp, product, began, lines, missed, cut>>

FailWarnThreshold == 3
Posted == 1..MaxPosted
NoStamp == 0   \* undefined
NoProductWatch ==
    [at |-> "off", started |-> FALSE, lastTs |-> NoStamp, fails |-> 0, warned |-> FALSE]

ProductTypeOK ==
    /\ stamp \in [Posted -> 0..MaxStamp]
    /\ product \in [at : {"off", "on"}, started : BOOLEAN, lastTs : 0..MaxStamp,
                    fails : 0..(FailWarnThreshold + 1), warned : BOOLEAN]
    /\ began \in 0..MaxStamp
    /\ lines \in Seq(Posted)
    /\ missed \subseteq Posted /\ cut \subseteq Posted

ProductInit ==
    /\ stamp = [m \in Posted |-> 0] /\ product = NoProductWatch
    /\ began = 0 /\ lines = <<>> /\ missed = {} /\ cut = {}

-----------------------------------------------------------------------------
RunProductWatch ==
    /\ product.at = "off"
    /\ product' = [NoProductWatch EXCEPT !.at = "on"]
    /\ began' = 0 /\ lines' = <<>> /\ missed' = {} /\ cut' = {}
    /\ UNCHANGED stamp

Newer(m, n) == stamp[m] > stamp[n] \/ (stamp[m] = stamp[n] /\ m > n)

(* productsInbox: what the server returns, newest first.                   *)
Above(mark) == {m \in Posted : stamp[m] > mark}
Page(mark) == {m \in Above(mark) : Cardinality({n \in Above(mark) : Newer(n, m)}) < Limit}

InReadingOrder(page) ==
    CHOOSE s \in [1..Cardinality(page) -> page] :
        /\ Range(s) = page
        /\ \A j, k \in DOMAIN s : j < k => Newer(s[k], s[j])

NewestTs(page) == Max({stamp[m] : m \in page} \cup {NoStamp})

PollOk ==
    /\ product.at = "on"
    /\ LET page == Page(product.lastTs)
           healthy == [product EXCEPT !.started = TRUE, !.fails = 0, !.warned = FALSE]
       IN  IF ~product.started
           THEN /\ product' = [healthy EXCEPT !.lastTs = NewestTs(page)]
                /\ began' = NewestTs(page)
                /\ UNCHANGED <<lines, cut>>
           ELSE /\ product' = [healthy EXCEPT !.lastTs = Max({@, NewestTs(page)})]
                /\ lines' = lines \o InReadingOrder(page)
                /\ cut' = cut \cup (Above(product.lastTs) \ page)
                /\ UNCHANGED began
    /\ UNCHANGED <<stamp, missed>>

(* A label lookup throws: the watch is over, and its mark with it; the     *)
(* lines before are out.                                                   *)
PrintingFails ==
    /\ product.at = "on" /\ product.started
    /\ LET order == InReadingOrder(Page(product.lastTs))
       IN  \E n \in 0..Len(order) - 1 : lines' = lines \o SubSeq(order, 1, n)
    /\ product' = NoProductWatch
    /\ UNCHANGED <<stamp, began, missed, cut>>

(* A failed poll: fatal when it is the first, else counted, and warned of  *)
(* once at the threshold.                                                  *)
PollFails ==
    /\ product.at = "on"
    /\ IF ~product.started THEN product' = NoProductWatch
       ELSE LET n == Min({product.fails + 1, FailWarnThreshold + 1})
            IN  product' = [product EXCEPT !.fails = n,
                                           !.warned = @ \/ n >= FailWarnThreshold]
    /\ UNCHANGED <<stamp, began, lines, missed, cut>>

ProductStops ==
    /\ product.at = "on"
    /\ product' = NoProductWatch
    /\ UNCHANGED <<stamp, began, lines, missed, cut>>

(* A message appears (external).                                           *)
Posts ==
    /\ \E m \in Posted, t \in 1..MaxStamp :
         /\ stamp[m] = 0
         /\ stamp' = [stamp EXCEPT ![m] = t]
         /\ missed' = IF product.started /\ t <= product.lastTs
                      THEN missed \cup {m} ELSE missed
    /\ UNCHANGED <<product, began, lines, cut>>

ProductNext ==
    RunProductWatch \/ PollOk \/ PrintingFails \/ PollFails \/ ProductStops \/ Posts

-----------------------------------------------------------------------------
(* Properties *)

(* The watch prints each message once, oldest first, none at or below the  *)
(* time it began with; the mark passes only messages that were printed,    *)
(* that a full page left out or that appeared behind it; and an outage is  *)
(* warned of from its third failed poll until a poll succeeds.             *)
ProductPromise ==
    /\ \A j, k \in DOMAIN lines :
         j < k => lines[j] # lines[k] /\ stamp[lines[j]] <= stamp[lines[k]]
    /\ product.started =>
         \A m \in Posted :
           LET passed == began < stamp[m] /\ stamp[m] <= product.lastTs
               shown == m \in Range(lines)
           IN  passed /\ m \notin missed \cup cut <=> shown
    /\ product.warned <=> product.fails >= FailWarnThreshold
-----------------------------------------------------------------------------
(* The inductive invariant *)

(* What was printed, missed or cut is of the past: it exists, and once the *)
(* watch has begun it is not above the mark.                               *)
PastIsPassed ==
    /\ \A k \in DOMAIN lines : stamp[lines[k]] > 0
    /\ product.started =>
         /\ product.at = "on" /\ began <= product.lastTs
         /\ \A m \in missed \cup cut : 0 < stamp[m] /\ stamp[m] <= product.lastTs
    /\ product.at = "on" /\ ~product.started =>
         lines = <<>> /\ missed = {} /\ cut = {} /\ product.lastTs = NoStamp

ProductInv == ProductTypeOK /\ PastIsPassed /\ ProductPromise
=============================================================================
