------------------------------- MODULE MCMonitor -------------------------------
(***************************************************************************)
(* The watchers and the lookup of the agent-mail-monitor plugin: separate  *)
(* processes that only read the mailbox, so a behaviour runs one, `part`.  *)
(***************************************************************************)
EXTENDS MailWatch, ShadowTail, ProductWatch, CodexMonitor,
        MessageLookup

VARIABLE part

Parts == {"watch", "shadow", "product", "codex", "lookup"}

mcVars == <<part, filesVars, watchVars, tailVars, productVars, codexVars, lookupVars>>

MCMatching == {1, 3}

MCInit ==
    /\ part \in Parts
    /\ FilesInit /\ WatchInit /\ ShadowInit /\ ProductInit /\ CodexInit
    /\ LookupInit /\ (part # "lookup" => home = 0)

Steps(p, next) == part = p /\ next /\ UNCHANGED part

MCNext ==
    \/ /\ Steps("watch", WatchNext)
       /\ UNCHANGED <<tailVars, productVars, codexVars, lookupVars>>
    \/ /\ Steps("shadow", ShadowNext)
       /\ UNCHANGED <<watchVars, productVars, codexVars, lookupVars>>
    \/ /\ Steps("product", ProductNext)
       /\ UNCHANGED <<filesVars, watchVars, tailVars, codexVars, lookupVars>>
    \/ /\ Steps("codex", CodexNext)
       /\ UNCHANGED <<watchVars, tailVars, productVars, lookupVars>>
    \/ /\ Steps("lookup", LookupNext)
       /\ UNCHANGED <<filesVars, watchVars, tailVars, productVars, codexVars>>

MCSpec == MCInit /\ [][MCNext]_mcVars

(* What each watcher of the plugin and the lookup answer for, with their   *)
(* inductive invariants.                                                   *)
MonitorPromise ==
    /\ part \in Parts
    /\ FilesTypeOK
    /\ WatchInv /\ ShadowInv /\ ProductInv /\ CodexInv /\ LookupInv
=============================================================================
