---------------------------- MODULE ControlSurface ----------------------------
(***************************************************************************)
(* The control API of the plugin's skills (operator/control.ts): what it   *)
(* answers to each action, as a function of what the caller observed.      *)
(* Wording, paths and commands are left out but for the one fact that a    *)
(* command which moves ownership was handed out, and for which thread.     *)
(***************************************************************************)
EXTENDS Integers, FiniteSets

CONSTANTS ThreadIds \* the threads a caller or a runtime snapshot may name

VARIABLE request \* ControlRequest, without its action

Actions == {"start", "stop", "status", "doctor", "inspect", "handoff", "acquire",
            "recovery-preview"}

None == "none"

(* RuntimeSnapshot, as far as it is looked at. *)
Snapshots == [agent : BOOLEAN, thread : ThreadIds \cup {None}, adapter : {"owner", "other"}]
NoSnapshot == [agent |-> FALSE, thread |-> None, adapter |-> None]

(* Plugin roots by the parts their path is looked at for: the plugin       *)
(* cache, the directory of the expected version, a directory `local`.      *)
InCache == {"cache_expected", "cache_local", "cache_other"}
UnderExpected == {"cache_expected", "expected"}
UnderLocal == {"cache_local", "local"}
Roots == InCache \cup UnderExpected \cup UnderLocal \cup {"source", "elsewhere"}

ControlRequests ==
    [version : {None, "expected", "other"},
     root : {None} \cup Roots, expectedRoot : {None, "source"},
     agent : BOOLEAN, thread : ThreadIds \cup {None},
     snapshot : Snapshots \cup {NoSnapshot},
     unit : {"active", "inactive", "unknown"}, mailbox : {"present", "missing", "unknown"},
     confirm : BOOLEAN]

ControlInit == request \in ControlRequests

(* The caller observes again. *)
ControlNext == request' \in {[request EXCEPT !.confirm = ~@]}

-----------------------------------------------------------------------------
(* detectVersionDrift. *)
Drift(req) ==
    IF req.version = None THEN "version_drift"
    ELSE IF req.version = "other"
    THEN IF req.root \in InCache THEN "stale_cache" ELSE "version_drift"
    ELSE IF /\ req.expectedRoot # None
            /\ req.root \notin {None, req.expectedRoot} \cup UnderExpected \cup UnderLocal
    THEN "stale_cache"
    ELSE "ok"

KnownThread(req) == IF req.thread # None THEN req.thread ELSE req.snapshot.thread

(* buildDoctorChecks: those that can be unhealthy, and why. *)
Unhealthy(req) ==
    {check \in {"transport", "version", "identity", "inbox", "daemon"} :
        CASE check = "transport" -> req.snapshot.adapter = "other"
          [] check = "version"   -> Drift(req) # "ok"
          [] check = "identity"  -> ~(req.agent \/ req.snapshot.agent)
          [] check = "inbox"     -> req.mailbox = "missing"
          [] check = "daemon"    -> req.unit = "inactive"}

Result(code) == [ok |-> code \in {"ok", "daemon_active"}, code |-> code, moves |-> None]

Start(req) ==
    IF Drift(req) # "ok" THEN Result(Drift(req))
    ELSE IF ~req.agent THEN Result("identity_missing")
    ELSE IF req.unit = "active" THEN Result("daemon_active")
    ELSE Result("ok")

(* handoff and acquire: no check of the version, and the snapshot's thread *)
(* where the caller names none.                                            *)
MoveOwner(req) ==
    IF KnownThread(req) = None THEN Result("thread_missing")
    ELSE IF ~req.confirm THEN Result("confirm_required")
    ELSE [Result("ok") EXCEPT !.moves = KnownThread(req)]

Dispatch(req, action) ==
    CASE action = "doctor" ->
           IF Unhealthy(req) = {} THEN Result("ok") ELSE Result("config_invalid")
      [] action \in {"status", "inspect"} -> Result(Drift(req))
      [] action = "start" -> Start(req)
      [] action \in {"handoff", "acquire"} -> MoveOwner(req)
      [] action \in {"stop", "recovery-preview"} -> Result("ok")

-----------------------------------------------------------------------------
(* Properties *)

(* The actions agree with one another about one installation: what the     *)
(* doctor passes is never refused for its version, nor its start for       *)
(* anything but an agent the caller left to the snapshot; what starts or   *)
(* reports has the version the doctor calls healthy; a running daemon is   *)
(* never started a second time; and ownership moves only on an explicit    *)
(* confirmation, of the thread the caller named if one was named.          *)
ControlPromise ==
    LET A(action) == Dispatch(request, action)
    IN  /\ A("doctor").ok => /\ A("status").ok /\ A("inspect").ok
                             /\ A("start").ok \/ ~request.agent
        /\ \A action \in {"start", "status", "inspect"} :
             A(action).ok => "version" \notin Unhealthy(request)
        /\ request.unit = "active" => A("start").code # "ok"
        /\ \A action \in Actions : A(action).moves # None =>
             /\ action \in {"handoff", "acquire"} /\ request.confirm
             /\ request.thread # None => A(action).moves = request.thread
=============================================================================
