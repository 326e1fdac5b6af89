------------------------ MODULE CloudflareVisibility ------------------------
(* Public, Private and Offline for one admitted project and its related       *)
(* hostnames: createCloudflareVisibilityProvider of                           *)
(* control-center/providers/cloudflare-access.mjs.                            *)
(*                                                                            *)
(* applyVisibility runs one at a time (tunnelApplyLocks); an action is one    *)
(* write to Cloudflare or one save of the state file.  A refused write, a     *)
(* lost answer, a failed save and the end of the process all abandon the      *)
(* call, before or after the effect.  What a call that timed out still does   *)
(* it does before the next one is admitted.                                   *)
EXTENDS Naturals, FiniteSets

CONSTANTS
    Hosts,     \* the hostname of the project and its relatedHostnames
    Rank,      \* the order in which hostPlans lists them
    Wild,      \* hosts a wildcard rule of the tunnel also matches
    NoHost

ASSUME VisibilityConstants ==
    /\ IsFiniteSet(Hosts) /\ Rank \in [Hosts -> Nat]
    /\ Wild \subseteq Hosts /\ NoHost \notin Hosts

VARIABLES
    isClone,    \* the project is a private copy: nothing of it is adopted
    app,        \* hosts with an Access application and its owner policy
    dns,        \* the CNAME of a host: none, plain (no comment) or tagged
    route,      \* the tunnel rule of a host: none, origin or block (404)
    managed,    \* the state file: what it says is ours
    planned,    \* the mode of the last reviewed plan, if its revision still holds
    apply,      \* the call that holds the lock
    exposable,  \* history: hosts that may be served without Access
    wounded,    \* history: hosts left between a write and its save
    raced,      \* history: another writer came between the check and the PUT
    reverted    \* history: a PUT undid the rule of another writer

cfVars == <<isClone, app, dns, route, managed, planned, apply, exposable, wounded, raced, reverted>>

Modes == {"public", "private", "offline"}
Unmanaged == [known |-> FALSE, app |-> FALSE, dns |-> FALSE, route |-> "none"]
NoApply == [mode |-> "none", phase |-> "none", todo |-> {}, host |-> NoHost, at |-> "idle",
            next |-> "none", moved |-> FALSE]

\* Reachable from the Internet through the tunnel.
Served(h) == dns[h] # "none" /\ (route[h] = "origin" \/ (h \in Wild /\ route[h] = "none"))

CfInit ==
    /\ isClone \in BOOLEAN
    /\ app = {}
    /\ dns \in [Hosts -> IF isClone THEN {"none"} ELSE {"none", "plain"}]
    /\ route \in [Hosts -> IF isClone THEN {"none"} ELSE {"none", "origin"}]
    /\ managed = [h \in Hosts |-> Unmanaged]
    /\ planned = {}
    /\ apply = NoApply
    /\ exposable = {h \in Hosts : Served(h)}
    /\ wounded = {} /\ raced = FALSE /\ reverted = FALSE

----------------------------------------------------------------------------
(* readResources and planVisibility                                           *)

\* readResources does not throw: what exists is registered, or it is the plain
\* record or route of a source project, which may be adopted.
Consistent(h) ==
    /\ h \in app <=> managed[h].app
    /\ managed[h].route = route[h] \/ (managed[h].route = "none" /\ route[h] = "origin" /\ ~isClone)
    /\ \/ dns[h] = "none" /\ ~managed[h].dns
       \/ dns[h] = "tagged" /\ managed[h].dns
       \/ dns[h] = "plain" /\ ~managed[h].dns /\ ~isClone

\* "Clone must first be initialized with private visibility"
GroupPlannable(m) ==
    \A h \in Hosts : Consistent(h) /\ ~(isClone /\ m = "public" /\ ~managed[h].known)

PlanGroup(m) ==
    /\ GroupPlannable(m)
    /\ planned' = {m}
    /\ UNCHANGED <<app, dns, route, managed, apply, exposable, wounded, raced, reverted>>

----------------------------------------------------------------------------
(* applyVisibilityLocked                                                      *)

CfAt(step) == apply.at = step
CfGoto(step) == apply' = [apply EXCEPT !.at = step]
History == <<exposable, wounded, raced, reverted>>

\* The reviewed revision is the current one; a group is gated first.
ApplyBegin(m) ==
    /\ apply = NoApply /\ m \in planned /\ GroupPlannable(m)
    /\ apply' = [NoApply EXCEPT !.mode = m, !.todo = Hosts, !.at = "next",
                    !.phase = IF m = "private" /\ Cardinality(Hosts) > 1 THEN "gate" ELSE "apply"]
    /\ exposable' = IF m = "public" THEN Hosts ELSE exposable
    /\ UNCHANGED <<app, dns, route, managed, planned, wounded, raced, reverted>>

\* Mutant: a private host gets its record and its route first.
ApplyFirstRoutes(h) ==
    CASE apply.mode \in {"private", "public"} -> IF apply.phase = "gate" THEN "next" ELSE "dns"
      [] OTHER -> IF dns[h] # "none" /\ ~managed[h].dns THEN "dns" ELSE "adopt"

\* Mutant: a public host loses its gate first.
ApplyFirstUngates(h) ==
    CASE apply.mode = "private" -> IF h \in app THEN IF apply.phase = "gate" THEN "next" ELSE "dns"
                                   ELSE "postApp"
      [] apply.mode = "public" -> IF h \in app THEN "dropApp" ELSE "dns"
      [] OTHER -> IF dns[h] # "none" /\ ~managed[h].dns THEN "dns" ELSE "adopt"

\* Where the work on a host starts.
ApplyFirst(h) ==
    CASE apply.mode = "private" -> IF h \in app THEN IF apply.phase = "gate" THEN "next" ELSE "dns"
                                   ELSE "postApp"
      [] apply.mode = "public" -> "dns"
      [] OTHER -> IF dns[h] # "none" /\ ~managed[h].dns THEN "dns" ELSE "adopt"

\* The plan of a host made when the group was planned must still hold in the
\* first pass; the second pass plans each host again.  Both take the hosts in
\* the order of hostPlans.
StartHost(h) ==
    /\ CfAt("next") /\ h \in apply.todo /\ \A g \in apply.todo : Rank[h] =< Rank[g]
    /\ IF Consistent(h) /\ ~(apply.phase = "gate" /\ apply.moved)
       THEN apply' = [apply EXCEPT !.todo = @ \ {h}, !.host = h, !.at = ApplyFirst(h),
                                   !.moved = apply.phase = "gate" /\ @]
       ELSE apply' = NoApply
    /\ UNCHANGED <<app, dns, route, managed, planned, History>>

NextPhase ==
    /\ CfAt("next") /\ apply.todo = {}
    /\ apply' = IF apply.phase = "gate" THEN [apply EXCEPT !.phase = "apply", !.todo = Hosts]
                ELSE NoApply
    /\ UNCHANGED <<app, dns, route, managed, planned, History>>

Save(h, entry) ==
    /\ managed' = [managed EXCEPT ![h] = entry]
    /\ planned' = {}

Registered(h) == [managed[h] EXCEPT !.known = TRUE]

\* ensureAccess
PostApp ==
    /\ CfAt("postApp")
    /\ app' = app \cup {apply.host}
    /\ exposable' = exposable \ {apply.host}
    /\ planned' = {}
    /\ CfGoto("saveApp")
    /\ UNCHANGED <<dns, route, managed, wounded, raced, reverted>>

SaveApp ==
    /\ CfAt("saveApp")
    /\ Save(apply.host, [Registered(apply.host) EXCEPT !.app = TRUE])
    /\ CfGoto(IF apply.phase = "gate" THEN "next" ELSE "dns")
    /\ UNCHANGED <<app, dns, route, History>>

\* ensureDns: create the record, or mark the one that is adopted.
WriteDns ==
    /\ CfAt("dns")
    /\ dns' = [dns EXCEPT ![apply.host] = "tagged"]
    /\ planned' = {}
    /\ CfGoto("saveDns")
    /\ UNCHANGED <<app, route, managed, History>>

SaveDns ==
    /\ CfAt("saveDns")
    /\ Save(apply.host, [Registered(apply.host) EXCEPT !.dns = TRUE])
    /\ CfGoto(IF apply.mode = "offline" THEN "adopt" ELSE "route")
    /\ UNCHANGED <<app, dns, route, History>>

\* ensureRoute: a missing rule or our blocker is replaced by the origin.
EnsureRoute ==
    /\ CfAt("route")
    /\ apply' = IF route[apply.host] = "origin" THEN [apply EXCEPT !.at = "saveRoute"]
                ELSE [apply EXCEPT !.at = "check", !.next = "origin"]
    /\ UNCHANGED <<app, dns, route, managed, planned, History>>

\* Offline takes the route of a source over before it removes it.
AdoptRoute ==
    /\ CfAt("adopt")
    /\ CfGoto(IF route[apply.host] # "none" /\ managed[apply.host].route = "none" THEN "saveRoute"
              ELSE "withdraw")
    /\ UNCHANGED <<app, dns, route, managed, planned, History>>

\* A wildcard would serve the host without its rule: block it.
Withdraw ==
    LET h == apply.host IN
    /\ CfAt("withdraw")
    /\ apply' = CASE h \in Wild /\ route[h] # "block" -> [apply EXCEPT !.at = "check", !.next = "block"]
                  [] h \notin Wild /\ route[h] = "origin" -> [apply EXCEPT !.at = "check", !.next = "none"]
                  [] OTHER -> [apply EXCEPT !.at = "dropDns"]
    /\ UNCHANGED <<app, dns, route, managed, planned, History>>

\* Mutant: the configuration is not read again before the PUT.
CheckTunnelBlind ==
    /\ CfAt("check")
    /\ CfGoto("put")
    /\ UNCHANGED <<app, dns, route, managed, planned, History>>

\* setIngress: the configuration is still the one that was read.
CheckTunnel ==
    /\ CfAt("check")
    /\ IF apply.moved THEN apply' = NoApply ELSE CfGoto("put")
    /\ UNCHANGED <<app, dns, route, managed, planned, History>>

\* setIngress: the PUT writes the whole configuration.
PutTunnel ==
    /\ CfAt("put")
    /\ route' = [route EXCEPT ![apply.host] = apply.next]
    /\ reverted' = (reverted \/ apply.moved)
    /\ planned' = {}
    /\ apply' = [apply EXCEPT !.at = "readback", !.moved = FALSE]
    /\ UNCHANGED <<app, dns, managed, exposable, wounded, raced>>

\* setIngress: another rule since the PUT makes the readback differ.
Readback ==
    /\ CfAt("readback")
    /\ IF apply.moved THEN /\ apply' = NoApply
                           /\ wounded' = wounded \cup {apply.host}
                      ELSE /\ CfGoto("saveRoute")
                           /\ UNCHANGED wounded
    /\ UNCHANGED <<app, dns, route, managed, planned, exposable, raced, reverted>>

SaveRoute ==
    LET h == apply.host IN
    /\ CfAt("saveRoute")
    /\ Save(h, [Registered(h) EXCEPT !.route = route[h]])
    /\ CfGoto(CASE apply.mode = "offline" -> IF route[h] = "origin" THEN "withdraw" ELSE "dropDns"
                [] apply.mode = "public" /\ h \in app -> "dropApp"
                [] OTHER -> "mode")
    /\ UNCHANGED <<app, dns, route, History>>

\* Public: only after the route was read back and saved.
DropApp ==
    /\ CfAt("dropApp")
    /\ app' = app \ {apply.host}
    /\ planned' = {}
    /\ CfGoto("forgetApp")
    /\ UNCHANGED <<dns, route, managed, History>>

ForgetApp ==
    /\ CfAt("forgetApp")
    /\ Save(apply.host, [managed[apply.host] EXCEPT !.app = FALSE])
    /\ CfGoto("mode")
    /\ UNCHANGED <<app, dns, route, History>>

\* Offline: the record goes last.
DropDns ==
    /\ CfAt("dropDns")
    /\ dns' = [dns EXCEPT ![apply.host] = "none"]
    /\ planned' = IF dns[apply.host] = "none" THEN planned ELSE {}
    /\ CfGoto(IF dns[apply.host] = "none" THEN "mode" ELSE "forgetDns")
    /\ UNCHANGED <<app, route, managed, History>>

ForgetDns ==
    /\ CfAt("forgetDns")
    /\ Save(apply.host, [managed[apply.host] EXCEPT !.dns = FALSE])
    /\ CfGoto("mode")
    /\ UNCHANGED <<app, dns, route, History>>

\* The mode is saved and getVisibility must confirm it; the edge of a private
\* host may not answer with the Access challenge yet.
SaveMode ==
    /\ CfAt("mode")
    /\ Save(apply.host, Registered(apply.host))
    /\ \/ CfGoto("next")
       \/ apply.mode = "private" /\ apply' = NoApply
    /\ UNCHANGED <<app, dns, route, History>>

----------------------------------------------------------------------------
(* What comes from outside                                                    *)

\* A write that is refused or not answered, a save that fails, a process that ends.
Abandon ==
    /\ apply # NoApply
    /\ apply' = NoApply
    /\ wounded' = wounded \cup {h \in Hosts : ~Consistent(h)}
    /\ UNCHANGED <<app, dns, route, managed, planned, exposable, raced, reverted>>

\* Another writer adds a rule of its own to the tunnel.
OtherWriter ==
    /\ planned' = {}
    /\ apply' = IF apply = NoApply THEN apply ELSE [apply EXCEPT !.moved = TRUE]
    /\ raced' = (raced \/ CfAt("put"))
    /\ UNCHANGED <<app, dns, route, managed, exposable, wounded, reverted>>

CfNext ==
    \/ \E m \in Modes : PlanGroup(m) \/ ApplyBegin(m)
    \/ \E h \in Hosts : StartHost(h)
    \/ NextPhase
    \/ PostApp \/ SaveApp \/ WriteDns \/ SaveDns \/ EnsureRoute \/ AdoptRoute \/ Withdraw
    \/ CheckTunnel \/ PutTunnel \/ Readback \/ SaveRoute
    \/ DropApp \/ ForgetApp \/ DropDns \/ ForgetDns \/ SaveMode
    \/ Abandon \/ OtherWriter

CfSpec == CfInit /\ [][CfNext /\ UNCHANGED isClone]_cfVars

----------------------------------------------------------------------------
(* Properties                                                                 *)

\* Resources and state file hold what the provider writes; only a host that a
\* wildcard rule matches is ever blocked by a 404 rule.
CfTypeOK ==
    /\ app \subseteq Hosts /\ exposable \subseteq Hosts /\ wounded \subseteq Hosts
    /\ dns \in [Hosts -> {"none", "plain", "tagged"}]
    /\ route \in [Hosts -> {"none", "origin", "block"}]
    /\ managed \in [Hosts -> [known : BOOLEAN, app : BOOLEAN, dns : BOOLEAN,
                              route : {"none", "origin", "block"}]]
    /\ planned \subseteq Modes
    /\ \A h \in Hosts \ Wild : route[h] # "block"

\* APPLICATION-VISIBILITY.md: a hostname is served without Access only if it
\* already was when it was admitted, or since the owner asked for Public; not
\* because a call ended half way, a wildcard matches or another host is done.
NeverExposed == \A h \in Hosts : Served(h) /\ h \notin app => h \in exposable

\* APPLICATION-VISIBILITY.md: "Every configured related hostname, including API
\* hosts, is protected ... before a route is published", and "Offline removes
\* the managed DNS/route and retains Access.  Public removes only the
\* application's owned Access resources after route verification."
GateBeforeRoute ==
    [][/\ apply.mode = "private" /\ (\E h \in Hosts : ~Served(h) /\ Served(h)') => app = Hosts
       /\ \A h \in app \ app' : /\ apply.mode = "public" /\ managed[h].app
                               /\ route[h] = "origin" /\ managed[h].route = "origin"]_cfVars

\* Between calls the state file and Cloudflare agree, so that the next plan is
\* not refused, unless a call was cut between a write and its save; and a rule
\* of another writer is undone only when "an independent external writer"
\* raced the PUT.
DamageNeedsCause ==
    /\ apply = NoApply => \A h \in Hosts \ wounded : Consistent(h)
    /\ reverted => raced
=============================================================================
