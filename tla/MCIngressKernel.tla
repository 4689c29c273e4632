--------------------------- MODULE MCIngressKernel ---------------------------
(* Model-checking instances of IngressKernel. *)
EXTENDS IngressRefinement, IngressInvariant, RecoveryPlan

LastUrgent  == {MaxMsg}
NoneUrgent  == {}

NoFaults          == {}
ProcessFaults     == {"crash", "rpc", "turn", "store"}
CrashOnly         == {"crash"}
OwnerFaults       == {"crash", "appserver", "unreadable", "turn", "store"}
AppServerDeath    == {"appserver"}
NotificationFirst == {"overtake"}
HalfWrittenMail   == {"unreadable"}
=============================================================================
