--------------------------- MODULE MCControlCenter ---------------------------
(* What an owner starts from the Control Center, besides backups and clones:  *)
(* operations on databases, the visibility of hostnames, and the two kinds of *)
(* maintenance of platform_runtime_updates.py, of the containers and of the   *)
(* host itself (GATE keeps one out while the other has an operation).  They   *)
(* share no state; in each behaviour one of them runs and the others stand    *)
(* still.                                                                     *)
EXTENDS ManagedDatabases, CloudflareVisibility, RuntimeUpdates, HostUpdates, TLC

CONSTANTS site, api, web, dbms, tool, php, cron, database, viewer

\* The project's own hostname comes first.
HostRank == site :> 1 @@ api :> 2

\* A stateless family of a running and a stopped service, a database, a tool
\* with data of its own.
FamilyServices == web :> <<php, cron>> @@ dbms :> <<database>> @@ tool :> <<viewer>>

VARIABLE part

cc == <<part, dbVars, cfVars, updateVars, hostVars>>

ControlCenterInit ==
    /\ part \in {"databases", "visibility", "runtime", "host"}
    /\ DbInit /\ CfInit /\ UpdatesInit /\ HostInit
    /\ part # "databases" => liveApply
    /\ part # "visibility" => isClone
    /\ part # "host" => needed

ControlCenterNext ==
    /\ UNCHANGED part
    /\ \/ part = "databases" /\ DbNext /\ UNCHANGED <<cfVars, updateVars, hostVars>>
       \/ part = "visibility" /\ CfNext /\ UNCHANGED <<dbVars, isClone, updateVars, hostVars>>
       \/ part = "runtime" /\ UpdatesNext /\ UNCHANGED <<dbVars, cfVars, hostVars>>
       \/ part = "host" /\ HostNext /\ UNCHANGED <<dbVars, cfVars, updateVars>>
       \/ part \in {"runtime", "host"} /\ UNCHANGED cc  \* nothing more need be asked

ControlCenterSpec == ControlCenterInit /\ [][ControlCenterNext]_cc

\* The values the variables of the four parts take.
ControlCenterTypeOK == DbTypeOK /\ CfTypeOK /\ UpdatesTypeOK /\ HostTypeOK

ControlCenterSymmetry == Permutations(Deletes) \cup Permutations(Dbs)
=============================================================================
