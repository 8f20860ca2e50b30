---------------------------- MODULE VhostDriver ----------------------------
(***************************************************************************)
(* executeProxyRenderJob: one file per vhost in the sites directory, a     *)
(* .bak copy beside it while a job is at work, and httpd, which serves the *)
(* files it last loaded.  `apachectl -t' reads every file, so a vhost that *)
(* does not validate fails the job of every other one.                     *)
(* Left out: the staged copy, which nothing reads back, a host without     *)
(* apachectl and httpd, and errors of rename and rm.                       *)
(***************************************************************************)
EXTENDS HostJob

CONSTANTS Vhost, Rendered,   \* vhosts, and what renderApacheVhost can make of a payload
          Broken,            \* the renderings that `apachectl -t' refuses
          Partial            \* a copy cut short

VARIABLES sites, bak, served

vhostVars == <<sites, bak, served>>

VhostInit == /\ sites = [v \in Vhost |-> None]
             /\ bak = [v \in Vhost |-> None]
             /\ served = [v \in Vhost |-> None]

validateApacheConfiguration(files) == \A v \in Vhost : files[v] \notin Broken

(* Faults: the driver does not ask whether the vhost exists; the rollback  *)
(* reloads without validating.                                             *)
StartVhostUnread(v) ==
    /\ \E p \in Rendered : Start(v, p, "install", {})
    /\ UNCHANGED vhostVars

ReloadRestoredVhostUnchecked(v) ==
    /\ At(v, "reloadRestored")
    /\ served' = sites
    /\ Failed(TRUE)
    /\ UNCHANGED <<sites, bak>>

StartVhost(v) ==
    /\ \E p \in Rendered :
          IF sites[v] = None THEN Start(v, p, "install", {})
                             ELSE Start(v, p, "copy", {"file"})
    /\ UNCHANGED vhostVars

(* copyFile writes the copy in place: it is partial before it is whole.    *)
BackUpVhost(v) ==
    \/ /\ At(v, "copy")
       /\ bak' = [bak EXCEPT ![v] = Partial]
       /\ GoTo("copying")
       /\ UNCHANGED <<sites, served>>
    \/ /\ At(v, "copying")
       /\ bak' = [bak EXCEPT ![v] = sites[v]]
       /\ GoTo("install")
       /\ UNCHANGED <<sites, served>>
    \/ /\ At(v, "copying")
       /\ Failed(TRUE)
       /\ UNCHANGED vhostVars

(* writeFileAtomic: the rename is the write; an error comes before it.     *)
InstallVhost(v) ==
    /\ At(v, "install")
    /\ \/ sites' = [sites EXCEPT ![v] = job.payload] /\ GoTo("validate")
       \/ GoTo("restore") /\ UNCHANGED sites
    /\ UNCHANGED <<bak, served>>

ValidateVhost(v) ==
    /\ At(v, "validate")
    /\ GoTo(IF validateApacheConfiguration(sites) THEN "reload" ELSE "restore")
    /\ UNCHANGED vhostVars

ReloadVhost(v) ==
    /\ At(v, "reload")
    /\ \/ served' = sites /\ GoTo("clean")
       \/ GoTo("restore") /\ UNCHANGED served
    /\ UNCHANGED <<sites, bak>>

CompleteVhost(v) ==
    /\ At(v, "clean")
    /\ bak' = [bak EXCEPT ![v] = IF "file" \in job.found THEN None ELSE @]
    /\ Applied
    /\ UNCHANGED <<sites, served>>

RestoreVhost(v) ==
    /\ At(v, "restore")
    /\ IF "file" \in job.found
         THEN sites' = [sites EXCEPT ![v] = bak[v]] /\ bak' = [bak EXCEPT ![v] = None]
         ELSE sites' = [sites EXCEPT ![v] = None] /\ bak' = bak
    /\ GoTo("reloadRestored")
    /\ UNCHANGED served

(* The rollback validates and reloads too; an error is noted, not thrown.  *)
ReloadRestoredVhost(v) ==
    /\ At(v, "reloadRestored")
    /\ \/ validateApacheConfiguration(sites) /\ served' = sites
       \/ served' = served
    /\ Failed(TRUE)
    /\ UNCHANGED <<sites, bak>>

VhostStep(v) == \/ StartVhost(v) \/ BackUpVhost(v) \/ InstallVhost(v)
                \/ ValidateVhost(v) \/ ReloadVhost(v) \/ CompleteVhost(v)
                \/ RestoreVhost(v) \/ ReloadRestoredVhost(v)

VhostType == /\ sites \in [Vhost -> Rendered \cup {None}]
             /\ bak \in [Vhost -> Rendered \cup {None, Partial}]
             /\ served \in [Vhost -> Rendered \cup {None}]
=============================================================================
