------------------------- MODULE HostDrivers_proofs -------------------------
(***************************************************************************)
(* What the drivers of a host promise, for any targets, payloads and       *)
(* passwords.  For every step of a job the invariant says what it has      *)
(* installed already and what its copies hold; a target that a failed or   *)
(* dead job left in doubt is exempt until a job for it is applied again.   *)
(* Each driver is proved alone and leaves the targets of the others alone. *)
(***************************************************************************)
EXTENDS HostDrivers, TLAPS

Payload == Rendered \cup ContainerPayload \cup Password \cup MailPayload \cup {None}
JobRecord == [target : Target \cup {None}, payload : Payload, step : Steps, found : SUBSET Finds]

JobTyped == /\ job \in JobRecord
            /\ applied \in [Target -> Payload]
            /\ unsettled \subseteq Target
            /\ job.target = None => job = Idle

(* A step for target t leaves what is known of every other target alone.   *)
OnlyFor(t) == \A u \in Target \ {t} :
                 /\ applied'[u] = applied[u] /\ (u \in unsettled' <=> u \in unsettled)
                 /\ job.target # u /\ job'.target # u

(* The order in which mail.sync restarts its services.                     *)
LEMMA ServiceNames ==
  /\ Service = {"postfix", "dovecot", "rspamd", "redis"}
  /\ AfterRestart["postfix"] = "dovecot" /\ AfterRestart["dovecot"] = "rspamd"
  /\ AfterRestart["rspamd"] = "redis" /\ AfterRestart["redis"] = "report"
BY DEF Service, AfterRestart

(* The steps of mail.sync after each restart.                              *)
Following == [postfix |-> {"dovecot", "rspamd", "redis", "report"},
              dovecot |-> {"rspamd", "redis", "report"},
              rspamd |-> {"redis", "report"}, redis |-> {"report"}]

LEMMA RestartOrder ==
  /\ \A s \in Service : /\ "report" \in Following[s] /\ s \notin Following[s] /\ s # "dkim"
                       /\ {"key", "generate", "render", "install", "check", "postfix"}
                            \cap Following[s] = {}
  /\ \A s, t \in Service : AfterRestart[t] \in Following[s] <=> t = s \/ t \in Following[s]
BY DEF Service, AfterRestart, Following

(* Without a job, the agent has no target and no payload.                  *)
LEMMA IdleJob == /\ Idle \in JobRecord /\ Idle.target = None /\ Idle.payload = None
                 /\ Idle.step = "idle" /\ Idle.found = {}
BY DEF Idle, JobRecord, Payload, Steps

(* How a job starts, goes on and ends: for one target, the others stay.    *)
LEMMA StartJob ==
  ASSUME JobTyped, NEW t \in Target, NEW p \in Payload, NEW s \in Steps, NEW f \in SUBSET Finds,
         Start(t, p, s, f)
  PROVE  /\ JobTyped' /\ OnlyFor(t) /\ UNCHANGED <<applied, unsettled>> /\ job.target = None
         /\ job'.target = t /\ job'.payload = p /\ job'.step = s /\ job'.found = f
<1>1. job.target = None
  BY IdleJob DEF Start
<1>2. /\ job' \in JobRecord
      /\ job'.target = t /\ job'.payload = p /\ job'.step = s /\ job'.found = f
  BY DEF Start, JobRecord
<1> QED
  BY <1>1, <1>2, HostAssumption DEF Start, JobTyped, OnlyFor

LEMMA GoToJob ==
  ASSUME JobTyped, NEW t \in Target, job.target = t, NEW s \in Steps, GoTo(s)
  PROVE  /\ JobTyped' /\ OnlyFor(t) /\ UNCHANGED <<applied, unsettled>>
         /\ job'.target = t /\ job'.payload = job.payload /\ job'.step = s
         /\ job'.found = job.found
BY HostAssumption DEF GoTo, JobTyped, JobRecord, OnlyFor

LEMMA AppliedJob ==
  ASSUME JobTyped, NEW t \in Target, job.target = t, Applied
  PROVE  /\ JobTyped' /\ OnlyFor(t) /\ job'.target = None
         /\ applied'[t] = job.payload /\ t \notin unsettled'
<1>1. job.payload \in Payload /\ job' \in JobRecord /\ job'.target = None
  BY IdleJob DEF Applied, JobTyped, JobRecord
<1> QED
  BY <1>1, HostAssumption DEF Applied, JobTyped, OnlyFor

LEMMA FailedJob ==
  ASSUME JobTyped, NEW t \in Target, job.target = t, NEW undone \in BOOLEAN, Failed(undone)
  PROVE  /\ JobTyped' /\ OnlyFor(t) /\ job'.target = None /\ UNCHANGED applied
         /\ undone => (t \in unsettled' <=> t \in unsettled)
         /\ ~undone => t \in unsettled'
BY IdleJob, HostAssumption DEF Failed, JobTyped, OnlyFor

LEMMA DeadJob ==
  ASSUME JobTyped, Die
  PROVE  /\ JobTyped' /\ UNCHANGED applied /\ job'.target = None
         /\ \A t \in Target : /\ job.target = t => t \in unsettled'
                              /\ job.target # t => (t \in unsettled' <=> t \in unsettled)
BY IdleJob DEF Die, JobTyped, JobRecord

-----------------------------------------------------------------------------
(* Vhosts.  While a job of v is at work: what is installed and served, and *)
(* what the copy holds, as long as the job may still promise a rollback.   *)
VhostAtWork(v) ==
    /\ job.payload \in Rendered
    /\ job.step \in {"copy", "copying", "install", "validate", "reload", "clean",
                     "restore", "reloadRestored"}
    /\ job.step \in {"validate", "reload", "clean"} => sites[v] = job.payload
    /\ job.step = "reload" => validateApacheConfiguration(sites)
    /\ job.step = "clean" => served[v] = job.payload
    /\ job.step \in {"install", "validate", "reload", "restore"} /\ "file" \in job.found =>
         bak[v] \in Rendered \cup {None}
    /\ v \notin unsettled =>
         /\ job.step # "clean" => served[v] = applied[v]
         /\ job.step \in {"copy", "copying", "install", "reloadRestored"} => sites[v] = applied[v]
         /\ job.step \in {"copy", "copying"} => "file" \in job.found
         /\ job.step \in {"install", "validate", "reload", "restore"} =>
               IF "file" \in job.found THEN bak[v] = applied[v] ELSE applied[v] = None

VhostInv == /\ VhostType /\ ServedConfigurationIsValid /\ AppliedVhostIsServed
            /\ \A v \in Vhost : job.target = v => VhostAtWork(v)

(* While others work, no vhost changes; a death leaves its vhost in doubt. *)
LEMMA VhostFrame ==
  ASSUME VhostInv, UNCHANGED vhostVars,
         \A v \in Vhost : /\ applied'[v] = applied[v] /\ (v \in unsettled' <=> v \in unsettled)
                          /\ job.target # v /\ job'.target # v
  PROVE  VhostInv'
BY DEF VhostInv, VhostType, ServedConfigurationIsValid, AppliedVhostIsServed, vhostVars, Settled,
       validateApacheConfiguration

LEMMA VhostDies ==
  ASSUME VhostInv, UNCHANGED vhostVars, JobTyped, Die
  PROVE  VhostInv'
<1>1. \A v \in Vhost : v \in Target /\ v # None
  BY HostAssumption
<1> QED
  BY <1>1, DeadJob
  DEF VhostInv, VhostType, ServedConfigurationIsValid, AppliedVhostIsServed, vhostVars, Settled,
      validateApacheConfiguration

(* Every step of proxy.render keeps what is promised of vhosts.            *)
LEMMA VhostKeeps ==
  ASSUME JobTyped, VhostInv, NEW v \in Vhost, VhostStep(v)
  PROVE  JobTyped' /\ OnlyFor(v) /\ VhostInv'
<1> DEFINE Goal == JobTyped' /\ OnlyFor(v) /\ VhostInv'
<1>v. /\ v \in Target /\ v # None /\ Rendered \subseteq Payload
      /\ None \notin Broken /\ None \notin Rendered
      /\ \A u \in Vhost : u \in Target
  BY HostAssumption DEF Payload
<1>t. /\ sites \in [Vhost -> Rendered \cup {None}]
      /\ bak \in [Vhost -> Rendered \cup {None, Partial}]
      /\ served \in [Vhost -> Rendered \cup {None}]
      /\ \A u \in Vhost : served[u] \notin Broken
      /\ \A u \in Vhost : Settled(u) => sites[u] = applied[u] /\ served[u] = applied[u]
      /\ \A u \in Vhost : job.target = u => VhostAtWork(u)
  BY DEF VhostInv, VhostType, ServedConfigurationIsValid, AppliedVhostIsServed,
         validateApacheConfiguration
<1>s. {"copy", "copying", "install", "validate", "reload", "clean", "restore", "reloadRestored"}
         \subseteq Steps /\ {"file"} \subseteq Finds
  BY DEF Steps, Finds
(* What is left to show of a step that changes only v's entries.           *)
<1>f. ASSUME JobTyped', OnlyFor(v), VhostType',
             \A u \in Vhost \ {v} : /\ sites'[u] = sites[u]
                                    /\ served'[u] = served[u] \/ served'[u] = sites[u],
             validateApacheConfiguration(served'),
             v \notin unsettled' /\ job'.target # v => sites'[v] = applied'[v] /\ served'[v] = applied'[v],
             job'.target = v => VhostAtWork(v)'
      PROVE  Goal
  <2>1. \A u \in Vhost : Settled(u)' => sites'[u] = applied'[u] /\ served'[u] = applied'[u]
    <3> SUFFICES ASSUME NEW u \in Vhost, Settled(u)'
                 PROVE  sites'[u] = applied'[u] /\ served'[u] = applied'[u]
      OBVIOUS
    <3>1. u \notin unsettled' /\ job'.target # u
      BY DEF Settled
    <3>2. CASE u = v
      BY <1>f, <3>1, <3>2
    <3>3. CASE u # v
      <4>1. u \in Target \ {v} /\ u \in Vhost \ {v}
        BY <1>v, <3>3
      <4>2. Settled(u) /\ applied'[u] = applied[u]
        BY <1>f, <3>1, <4>1 DEF OnlyFor, Settled
      <4>3. sites[u] = applied[u] /\ served[u] = applied[u]
        BY <1>t, <4>2
      <4>4. sites'[u] = sites[u] /\ (served'[u] = served[u] \/ served'[u] = sites[u])
        BY <1>f, <4>1
      <4> QED
        BY <4>2, <4>3, <4>4
    <3> QED
      BY <3>2, <3>3
  <2>2. \A u \in Vhost : job'.target = u => VhostAtWork(u)'
    BY <1>f, <1>v DEF OnlyFor
  <2> QED
    BY <1>f, <2>1, <2>2 DEF VhostInv, ServedConfigurationIsValid, AppliedVhostIsServed
<1>1. CASE StartVhost(v)
  <2>1. PICK p \in Rendered, s \in {"install", "copy"}, f \in SUBSET Finds :
          /\ Start(v, p, s, f)
          /\ s = "install" => f = {} /\ sites[v] = None
          /\ s = "copy" => f = {"file"}
    BY <1>1, <1>s DEF StartVhost
  <2>2. /\ JobTyped' /\ OnlyFor(v) /\ UNCHANGED <<applied, unsettled>> /\ job.target = None
        /\ job'.target = v /\ job'.payload = p /\ job'.step = s /\ job'.found = f
    BY <1>s, <1>v, <2>1, StartJob
  <2>3. UNCHANGED vhostVars
    BY <1>1 DEF StartVhost
  <2>4. v \notin unsettled => sites[v] = applied[v] /\ served[v] = applied[v]
    BY <1>t, <1>v, <2>2 DEF Settled
  <2>5. VhostAtWork(v)'
    BY <2>1, <2>2, <2>3, <2>4 DEF VhostAtWork, vhostVars
  <2> QED
    BY <1>f, <1>t, <2>2, <2>3, <2>5 DEF vhostVars, VhostType, validateApacheConfiguration
<1>w. ASSUME job.target = v PROVE VhostAtWork(v)
  BY <1>t, <1>w
<1>2. CASE BackUpVhost(v)
  <2>1. CASE At(v, "copy") /\ bak' = [bak EXCEPT ![v] = Partial] /\ GoTo("copying")
             /\ UNCHANGED <<sites, served>>
    <3>1. /\ JobTyped' /\ OnlyFor(v) /\ UNCHANGED <<applied, unsettled>> /\ job'.target = v
          /\ job'.payload = job.payload /\ job'.step = "copying" /\ job'.found = job.found
      BY <1>s, <1>v, <2>1, GoToJob DEF At
    <3>2. VhostAtWork(v)'
      BY <1>w, <2>1, <3>1 DEF At, VhostAtWork
    <3> QED
      BY <1>f, <1>t, <2>1, <3>1, <3>2 DEF VhostType, validateApacheConfiguration
  <2>2. CASE At(v, "copying") /\ bak' = [bak EXCEPT ![v] = sites[v]] /\ GoTo("install")
             /\ UNCHANGED <<sites, served>>
    <3>1. /\ JobTyped' /\ OnlyFor(v) /\ UNCHANGED <<applied, unsettled>> /\ job'.target = v
          /\ job'.payload = job.payload /\ job'.step = "install" /\ job'.found = job.found
      BY <1>s, <1>v, <2>2, GoToJob DEF At
    <3>2. VhostAtWork(v)'
      BY <1>t, <1>w, <2>2, <3>1 DEF At, VhostAtWork
    <3> QED
      BY <1>f, <1>t, <2>2, <3>1, <3>2 DEF VhostType, validateApacheConfiguration
  <2>3. CASE At(v, "copying") /\ Failed(TRUE) /\ UNCHANGED vhostVars
    <3>1. /\ JobTyped' /\ OnlyFor(v) /\ job'.target = None /\ UNCHANGED applied
          /\ (v \in unsettled' <=> v \in unsettled)
      BY <1>v, <2>3, FailedJob DEF At
    <3>2. v \notin unsettled => sites[v] = applied[v] /\ served[v] = applied[v]
      BY <1>w, <2>3 DEF At, VhostAtWork
    <3> QED
      BY <1>f, <1>t, <1>v, <2>3, <3>1, <3>2 DEF VhostType, vhostVars, validateApacheConfiguration
  <2> QED
    BY <1>2, <2>1, <2>2, <2>3 DEF BackUpVhost
<1>3. CASE InstallVhost(v)
  <2>1. PICK s \in {"validate", "restore"} :
          /\ GoTo(s) /\ UNCHANGED <<bak, served>>
          /\ s = "validate" => sites' = [sites EXCEPT ![v] = job.payload]
          /\ s = "restore" => UNCHANGED sites
    BY <1>3 DEF InstallVhost
  <2>2. /\ JobTyped' /\ OnlyFor(v) /\ UNCHANGED <<applied, unsettled>> /\ job'.target = v
        /\ job'.payload = job.payload /\ job'.step = s /\ job'.found = job.found
    BY <1>3, <1>s, <1>v, <2>1, GoToJob DEF At, InstallVhost
  <2>3. VhostAtWork(v) /\ job.step = "install"
    BY <1>3, <1>w DEF InstallVhost, At
  <2>4. VhostAtWork(v)'
    BY <1>t, <2>1, <2>2, <2>3 DEF VhostAtWork
  <2>5. VhostType'
    BY <1>t, <2>1, <2>3 DEF VhostType, VhostAtWork
  <2> QED
    BY <1>f, <1>t, <2>1, <2>2, <2>4, <2>5 DEF validateApacheConfiguration
<1>4. CASE ValidateVhost(v)
  <2>1. PICK s \in {"reload", "restore"} :
          GoTo(s) /\ (s = "reload" => validateApacheConfiguration(sites))
    BY <1>4 DEF ValidateVhost
  <2>2. /\ JobTyped' /\ OnlyFor(v) /\ UNCHANGED <<applied, unsettled>> /\ job'.target = v
        /\ job'.payload = job.payload /\ job'.step = s /\ job'.found = job.found
    BY <1>4, <1>s, <1>v, <2>1, GoToJob DEF At, ValidateVhost
  <2>3. VhostAtWork(v) /\ job.step = "validate" /\ UNCHANGED vhostVars
    BY <1>4, <1>w DEF ValidateVhost, At
  <2>4. VhostAtWork(v)'
    BY <2>1, <2>2, <2>3 DEF VhostAtWork, vhostVars, validateApacheConfiguration
  <2> QED
    BY <1>f, <1>t, <2>2, <2>3, <2>4 DEF VhostType, vhostVars, validateApacheConfiguration
<1>5. CASE ReloadVhost(v)
  <2>1. PICK s \in {"clean", "restore"} :
          /\ GoTo(s) /\ UNCHANGED <<sites, bak>>
          /\ s = "clean" => served' = sites
          /\ s = "restore" => UNCHANGED served
    BY <1>5 DEF ReloadVhost
  <2>2. /\ JobTyped' /\ OnlyFor(v) /\ UNCHANGED <<applied, unsettled>> /\ job'.target = v
        /\ job'.payload = job.payload /\ job'.step = s /\ job'.found = job.found
    BY <1>5, <1>s, <1>v, <2>1, GoToJob DEF At, ReloadVhost
  <2>3. VhostAtWork(v) /\ job.step = "reload"
    BY <1>5, <1>w DEF ReloadVhost, At
  <2>4. VhostAtWork(v)'
    BY <2>1, <2>2, <2>3 DEF VhostAtWork
  <2>5. served' = sites \/ served' = served
    BY <2>1
  <2>6. validateApacheConfiguration(served')
    BY <1>t, <2>3, <2>5 DEF VhostAtWork, validateApacheConfiguration
  <2> QED
    BY <1>f, <1>t, <2>1, <2>2, <2>4, <2>5, <2>6 DEF VhostType
<1>6. CASE CompleteVhost(v)
  <2>1. VhostAtWork(v) /\ job.step = "clean" /\ job.target = v
    BY <1>6, <1>w DEF CompleteVhost, At
  <2>2. /\ JobTyped' /\ OnlyFor(v) /\ job'.target = None
        /\ applied'[v] = job.payload /\ v \notin unsettled'
    BY <1>6, <1>v, <2>1, AppliedJob DEF CompleteVhost
  <2>3. VhostType' /\ UNCHANGED <<sites, served>>
    BY <1>6, <1>t DEF CompleteVhost, VhostType
  <2> QED
    BY <1>f, <1>t, <1>v, <2>1, <2>2, <2>3 DEF VhostAtWork, validateApacheConfiguration
<1>7. CASE RestoreVhost(v)
  <2>1. VhostAtWork(v) /\ job.step = "restore" /\ job.target = v
    BY <1>7, <1>w DEF RestoreVhost, At
  <2>2. /\ JobTyped' /\ OnlyFor(v) /\ UNCHANGED <<applied, unsettled>> /\ job'.target = v
        /\ job'.payload = job.payload /\ job'.step = "reloadRestored" /\ job'.found = job.found
    BY <1>7, <1>s, <1>v, <2>1, GoToJob DEF RestoreVhost
  <2>3. /\ sites' = [sites EXCEPT ![v] = IF "file" \in job.found THEN bak[v] ELSE None]
        /\ bak' \in [Vhost -> Rendered \cup {None, Partial}] /\ UNCHANGED served
    BY <1>7, <1>t DEF RestoreVhost
  <2>4. VhostType'
    BY <1>t, <2>1, <2>3 DEF VhostType, VhostAtWork
  <2>5. VhostAtWork(v)'
    BY <1>t, <2>1, <2>2, <2>3 DEF VhostAtWork
  <2> QED
    BY <1>f, <1>t, <2>2, <2>3, <2>4, <2>5 DEF validateApacheConfiguration
<1>8. CASE ReloadRestoredVhost(v)
  <2>1. VhostAtWork(v) /\ job.step = "reloadRestored" /\ job.target = v
    BY <1>8, <1>w DEF ReloadRestoredVhost, At
  <2>2. /\ JobTyped' /\ OnlyFor(v) /\ job'.target = None /\ UNCHANGED applied
        /\ (v \in unsettled' <=> v \in unsettled)
    BY <1>8, <1>v, <2>1, FailedJob DEF ReloadRestoredVhost
  <2>3. /\ UNCHANGED <<sites, bak>>
        /\ served' = served \/ (served' = sites /\ validateApacheConfiguration(sites))
    BY <1>8 DEF ReloadRestoredVhost
  <2>4. validateApacheConfiguration(served')
    BY <1>t, <2>3 DEF validateApacheConfiguration
  <2>5. v \notin unsettled' => sites'[v] = applied'[v] /\ served'[v] = applied'[v]
    BY <2>1, <2>2, <2>3 DEF VhostAtWork
  <2> QED
    BY <1>f, <1>t, <1>v, <2>2, <2>3, <2>4, <2>5 DEF VhostType
<1> QED
  BY <1>1, <1>2, <1>3, <1>4, <1>5, <1>6, <1>7, <1>8 DEF VhostStep

-----------------------------------------------------------------------------
(* Containers.  The copies hold what the host had before the job, as far   *)
(* as it belonged to the last applied payload.                             *)
ContainerRuns(c) ==
    IF applied[c] = None THEN unitFile[c] = None
    ELSE /\ unitFile[c] = Rendering(applied[c])
         /\ running[c] = applied[c]
         /\ applied[c].env # None => envFile[c] = applied[c].env

UnitKept(c) == IF "unit" \in job.found THEN applied[c] # None /\ unitBak[c] = Rendering(applied[c])
               ELSE applied[c] = None

UnitBack(c) == IF "unit" \in job.found THEN applied[c] # None /\ unitFile[c] = Rendering(applied[c])
               ELSE applied[c] = None /\ unitFile[c] = None

EnvKept(c) == applied[c] # None /\ applied[c].env # None =>
                IF job.payload.env # None
                  THEN "env" \in job.found /\ envBak[c] = applied[c].env
                  ELSE envFile[c] = applied[c].env

EnvBack(c) == applied[c] # None /\ applied[c].env # None => envFile[c] = applied[c].env

ContainerAtWork(c) ==
    /\ job.payload \in ContainerPayload
    /\ job.step \in {"copy", "installUnit", "installEnv", "load", "clean", "stop",
                     "restoreUnit", "restoreEnv", "reload"}
    /\ job.step \in {"installEnv", "load", "clean"} => unitFile[c] = Rendering(job.payload)
    /\ job.step \in {"load", "clean"} /\ job.payload.env # None => envFile[c] = job.payload.env
    /\ job.step \in {"installEnv", "restoreEnv"} => job.payload.env # None
    /\ job.step = "clean" => running[c] = job.payload
    /\ "unit" \in job.found =>
         /\ job.step = "copy" => unitFile[c] \in UnitFile
         /\ job.step \in {"installUnit", "installEnv", "load", "stop", "restoreUnit"} =>
              unitBak[c] \in UnitFile
         /\ job.step \in {"restoreEnv", "reload"} => unitFile[c] \in UnitFile
    /\ c \notin unsettled =>
         /\ job.step \in {"copy", "installUnit"} => ContainerRuns(c)
         /\ job.step = "copy" => /\ unitFile[c] # None => "unit" \in job.found
                                 /\ unitFile[c] = None => "unit" \notin job.found
                                 /\ job.payload.env # None /\ envFile[c] # None => "env" \in job.found
         /\ job.step \in {"installUnit", "installEnv", "load", "stop", "restoreUnit"} => UnitKept(c)
         /\ job.step \in {"restoreEnv", "reload"} => UnitBack(c)
         /\ job.step \in {"installUnit", "installEnv", "load", "stop", "restoreUnit", "restoreEnv"}
              => EnvKept(c)
         /\ job.step = "reload" => EnvBack(c)

ContainerInv == /\ ContainerType /\ AppliedContainerRuns
                /\ \A c \in Container : applied[c] \in ContainerPayload \cup {None}
                /\ \A c \in Container : job.target = c => ContainerAtWork(c)

(* While others work, and when the agent dies, no container changes.       *)
LEMMA ContainerFrame ==
  ASSUME ContainerInv, UNCHANGED containerVars,
         \A c \in Container : /\ applied'[c] = applied[c] /\ (c \in unsettled' <=> c \in unsettled)
                              /\ job.target # c /\ job'.target # c
  PROVE  ContainerInv'
BY DEF ContainerInv, ContainerType, AppliedContainerRuns, containerVars, Settled

LEMMA ContainerDies ==
  ASSUME ContainerInv, UNCHANGED containerVars, JobTyped, Die
  PROVE  ContainerInv'
<1>1. \A c \in Container : c \in Target /\ c # None
  BY HostAssumption
<1> QED
  BY <1>1, DeadJob DEF ContainerInv, ContainerType, AppliedContainerRuns, containerVars, Settled

(* The service of a unit file and the environment it was rendered for.     *)
LEMMA StartedPayload ==
  ASSUME NEW p \in ContainerPayload, NEW e, p.env # None => e = p.env
  PROVE  Started(Rendering(p), e) = p
BY DEF Started, Rendering, Instance, ContainerPayload

(* Every step of container.reconcile keeps what is promised of containers. *)
LEMMA ContainerKeeps ==
  ASSUME JobTyped, ContainerInv, NEW c \in Container, ContainerStep(c)
  PROVE  JobTyped' /\ OnlyFor(c) /\ ContainerInv'
<1> DEFINE Goal == JobTyped' /\ OnlyFor(c) /\ ContainerInv'
<1>v. /\ c \in Target /\ c # None /\ ContainerPayload \subseteq Payload
      /\ None \notin ContainerPayload /\ None \notin UnitFile
      /\ \A u \in Container : u \in Target
  BY HostAssumption DEF Payload
<1>t. /\ unitFile \in [Container -> UnitFile \cup {None}]
      /\ unitBak \in [Container -> UnitFile \cup {None}]
      /\ envFile \in [Container -> Env \cup {None}]
      /\ envBak \in [Container -> Env \cup {None}]
      /\ running \in [Container -> ServiceRecord \cup {None}]
      /\ \A u \in Container : applied[u] \in ContainerPayload \cup {None}
      /\ \A u \in Container : Settled(u) => ContainerRuns(u)
      /\ \A u \in Container : job.target = u => ContainerAtWork(u)
  BY DEF ContainerInv, ContainerType, AppliedContainerRuns, ContainerRuns
<1>s. {"copy", "installUnit", "installEnv", "load", "clean", "stop", "restoreUnit",
       "restoreEnv", "reload"} \subseteq Steps /\ {"unit", "env"} \subseteq Finds
  BY DEF Steps, Finds
<1>r. \A p \in ContainerPayload : /\ Rendering(p) \in UnitFile /\ p.unit \in Unit
                                  /\ p.env \in Env \cup {None}
  BY DEF Rendering, UnitFile, ContainerPayload
<1>w. ASSUME job.target = c PROVE ContainerAtWork(c)
  BY <1>t, <1>w
<1>f. ASSUME JobTyped', OnlyFor(c), ContainerType',
             \A u \in Container \ {c} : /\ unitFile'[u] = unitFile[u] /\ envFile'[u] = envFile[u]
                                        /\ running'[u] = running[u],
             applied'[c] \in ContainerPayload \cup {None},
             c \notin unsettled' /\ job'.target # c => ContainerRuns(c)',
             job'.target = c => ContainerAtWork(c)'
      PROVE  Goal
  <2>0. ASSUME NEW u \in Container, u # c
        PROVE  /\ u \in Target \ {c} /\ u \in Container \ {c} /\ applied'[u] = applied[u]
               /\ job'.target # u /\ (Settled(u)' => Settled(u))
    BY <1>f, <1>v, <2>0 DEF OnlyFor, Settled
  <2>1. ASSUME NEW u \in Container, Settled(u)' PROVE ContainerRuns(u)'
    <3>1. u \notin unsettled' /\ job'.target # u
      BY <2>1 DEF Settled
    <3>2. CASE u = c
      BY <1>f, <3>1, <3>2
    <3>3. CASE u # c
      <4>1. ContainerRuns(u)
        BY <1>t, <2>0, <2>1, <3>3
      <4>2. /\ unitFile'[u] = unitFile[u] /\ envFile'[u] = envFile[u]
            /\ running'[u] = running[u] /\ applied'[u] = applied[u]
        BY <1>f, <2>0, <3>3
      <4> QED
        BY <4>1, <4>2 DEF ContainerRuns
    <3> QED
      BY <3>2, <3>3
  <2>2. ASSUME NEW u \in Container, job'.target = u PROVE ContainerAtWork(u)'
    BY <1>f, <2>0, <2>2
  <2>3. ASSUME NEW u \in Container PROVE applied'[u] \in ContainerPayload \cup {None}
    BY <1>f, <1>t, <2>0
  <2> QED
    BY <1>f, <2>1, <2>2, <2>3 DEF ContainerInv, AppliedContainerRuns, ContainerRuns
<1>1. CASE StartContainer(c)
  <2>1. PICK p \in ContainerPayload :
          Start(c, p, "copy", (IF unitFile[c] # None THEN {"unit"} ELSE {})
                              \cup (IF p.env # None /\ envFile[c] # None THEN {"env"} ELSE {}))
    BY <1>1 DEF StartContainer
  <2> DEFINE f == (IF unitFile[c] # None THEN {"unit"} ELSE {})
                  \cup (IF p.env # None /\ envFile[c] # None THEN {"env"} ELSE {})
  <2>2. /\ f \in SUBSET Finds /\ ("unit" \in f <=> unitFile[c] # None)
        /\ ("env" \in f <=> p.env # None /\ envFile[c] # None)
    BY <1>s
  <2>3. Start(c, p, "copy", f)
    BY <2>1
  <2> HIDE DEF f
  <2>4. /\ JobTyped' /\ OnlyFor(c) /\ UNCHANGED <<applied, unsettled>> /\ job.target = None
        /\ job'.target = c /\ job'.payload = p /\ job'.step = "copy" /\ job'.found = f
    BY <1>s, <1>v, <2>2, <2>3, StartJob
  <2>5. UNCHANGED containerVars
    BY <1>1 DEF StartContainer
  <2>6. c \notin unsettled => ContainerRuns(c)
    BY <1>t, <1>v, <2>4 DEF Settled
  <2>7. ContainerAtWork(c)'
    BY <1>t, <2>2, <2>4, <2>5, <2>6 DEF ContainerAtWork, containerVars, ContainerRuns
  <2> QED
    BY <1>f, <1>t, <2>4, <2>5, <2>7 DEF containerVars, ContainerType
<1>2. CASE BackUpContainer(c)
  <2>w. ContainerAtWork(c) /\ job.step = "copy" /\ job.target = c
    BY <1>2, <1>w DEF BackUpContainer, At
  <2>1. CASE /\ unitBak' = [unitBak EXCEPT ![c] = IF "unit" \in job.found THEN unitFile[c] ELSE @]
             /\ envBak' = [envBak EXCEPT ![c] = IF "env" \in job.found THEN envFile[c] ELSE @]
             /\ GoTo("installUnit")
    <3>1. /\ JobTyped' /\ OnlyFor(c) /\ UNCHANGED <<applied, unsettled>> /\ job'.target = c
          /\ job'.payload = job.payload /\ job'.step = "installUnit" /\ job'.found = job.found
      BY <1>s, <1>v, <2>w, <2>1, GoToJob
    <3>2. /\ UNCHANGED <<unitFile, envFile, running>>
          /\ unitBak'[c] = IF "unit" \in job.found THEN unitFile[c] ELSE unitBak[c]
          /\ envBak'[c] = IF "env" \in job.found THEN envFile[c] ELSE envBak[c]
      BY <1>2, <1>t, <2>1 DEF BackUpContainer
    <3>3. ASSUME c \notin unsettled PROVE ContainerRuns(c)' /\ UnitKept(c)' /\ EnvKept(c)'
      <4>1. ContainerRuns(c) /\ applied[c] \in ContainerPayload \cup {None}
        BY <1>t, <2>w, <3>3 DEF ContainerAtWork
      <4>2. ContainerRuns(c)'
        BY <3>1, <3>2, <4>1 DEF ContainerRuns
      <4>3. /\ unitFile[c] # None => "unit" \in job.found
            /\ unitFile[c] = None => "unit" \notin job.found
            /\ job.payload.env # None /\ envFile[c] # None => "env" \in job.found
        BY <2>w, <3>3 DEF ContainerAtWork
      <4>4. applied[c] # None => Rendering(applied[c]) # None
        BY <1>r, <1>v, <4>1
      <4>5. UnitKept(c)'
        BY <3>1, <3>2, <4>1, <4>3, <4>4 DEF ContainerRuns, UnitKept
      <4>6. EnvKept(c)'
        BY <3>1, <3>2, <4>1, <4>3 DEF ContainerRuns, EnvKept
      <4> QED
        BY <4>2, <4>5, <4>6
    <3>4. ContainerAtWork(c)'
      BY <1>t, <2>w, <3>1, <3>2, <3>3 DEF ContainerAtWork
    <3>5. ContainerType'
      BY <1>t, <2>1, <3>2 DEF ContainerType
    <3> QED
      BY <1>f, <1>t, <3>1, <3>2, <3>4, <3>5
  <2>2. CASE Failed(TRUE) /\ UNCHANGED <<unitBak, envBak>>
    <3>1. /\ JobTyped' /\ OnlyFor(c) /\ job'.target = None /\ UNCHANGED applied
          /\ (c \in unsettled' <=> c \in unsettled)
      BY <1>v, <2>w, <2>2, FailedJob
    <3>2. UNCHANGED containerVars
      BY <1>2, <2>2 DEF BackUpContainer, containerVars
    <3>3. c \notin unsettled => ContainerRuns(c)'
      BY <2>w, <3>1, <3>2 DEF ContainerAtWork, ContainerRuns, containerVars
    <3> QED
      BY <1>f, <1>t, <1>v, <3>1, <3>2, <3>3 DEF ContainerType, containerVars
  <2> QED
    BY <1>2, <2>1, <2>2 DEF BackUpContainer
<1>3. CASE InstallContainer(c)
  <2>w. ContainerAtWork(c) /\ job.step \in {"installUnit", "installEnv"} /\ job.target = c
    BY <1>3, <1>w DEF InstallContainer, At
  <2>r. Rendering(job.payload) \in UnitFile /\ job.payload.env \in Env \cup {None}
    BY <1>r, <2>w DEF ContainerAtWork
  <2>1. CASE /\ job.step = "installUnit"
             /\ unitFile' = [unitFile EXCEPT ![c] = Rendering(job.payload)]
             /\ GoTo(IF job.payload.env = None THEN "load" ELSE "installEnv")
             /\ UNCHANGED <<envFile, unitBak, envBak, running>>
    <3>1. PICK s \in {"load", "installEnv"} :
            GoTo(s) /\ (s = "load" <=> job.payload.env = None)
      BY <2>1
    <3>2. /\ JobTyped' /\ OnlyFor(c) /\ UNCHANGED <<applied, unsettled>> /\ job'.target = c
          /\ job'.payload = job.payload /\ job'.step = s /\ job'.found = job.found
      BY <1>s, <1>v, <2>w, <3>1, GoToJob
    <3>3. c \notin unsettled => UnitKept(c)' /\ EnvKept(c)'
      BY <2>w, <2>1, <3>2 DEF ContainerAtWork, UnitKept, EnvKept
    <3>4. unitFile'[c] = Rendering(job.payload)
      BY <1>t, <2>1
    <3>5. ContainerAtWork(c)'
      BY <2>w, <2>1, <3>1, <3>2, <3>3, <3>4 DEF ContainerAtWork
    <3>6. ContainerType'
      BY <1>t, <2>r, <2>1 DEF ContainerType
    <3> QED
      BY <1>f, <1>t, <2>1, <3>2, <3>5, <3>6
  <2>2. CASE /\ job.step = "installEnv"
             /\ envFile' = [envFile EXCEPT ![c] = job.payload.env]
             /\ GoTo("load")
             /\ UNCHANGED <<unitFile, unitBak, envBak, running>>
    <3>2. /\ JobTyped' /\ OnlyFor(c) /\ UNCHANGED <<applied, unsettled>> /\ job'.target = c
          /\ job'.payload = job.payload /\ job'.step = "load" /\ job'.found = job.found
      BY <1>s, <1>v, <2>w, <2>2, GoToJob
    <3>3. c \notin unsettled => UnitKept(c)' /\ EnvKept(c)'
      BY <2>w, <2>2, <3>2 DEF ContainerAtWork, UnitKept, EnvKept
    <3>4. envFile'[c] = job.payload.env
      BY <1>t, <2>2
    <3>5. ContainerAtWork(c)'
      BY <2>w, <2>2, <3>2, <3>3, <3>4 DEF ContainerAtWork
    <3>6. ContainerType'
      BY <1>t, <2>r, <2>2 DEF ContainerType
    <3> QED
      BY <1>f, <1>t, <2>2, <3>2, <3>5, <3>6
  <2>3. CASE GoTo("stop") /\ UNCHANGED containerVars
    <3>2. /\ JobTyped' /\ OnlyFor(c) /\ UNCHANGED <<applied, unsettled>> /\ job'.target = c
          /\ job'.payload = job.payload /\ job'.step = "stop" /\ job'.found = job.found
      BY <1>s, <1>v, <2>w, <2>3, GoToJob
    <3>3. ContainerAtWork(c)'
      BY <2>w, <2>3, <3>2 DEF ContainerAtWork, UnitKept, EnvKept, containerVars
    <3> QED
      BY <1>f, <1>t, <2>3, <3>2, <3>3 DEF ContainerType, containerVars
  <2> QED
    BY <1>3, <2>1, <2>2, <2>3 DEF InstallContainer, At
<1>4. CASE RestartContainer(c)
  <2>w. ContainerAtWork(c) /\ job.step = "load" /\ job.target = c
    BY <1>4, <1>w DEF RestartContainer, At
  <2>1. PICK s \in {"clean", "stop"} :
          /\ GoTo(s)
          /\ s = "clean" => running' = [running EXCEPT ![c] = Started(unitFile[c], envFile[c])]
          /\ s = "stop" => running' = running \/ running' = [running EXCEPT ![c] = None]
    BY <1>4 DEF RestartContainer
  <2>2. /\ JobTyped' /\ OnlyFor(c) /\ UNCHANGED <<applied, unsettled>> /\ job'.target = c
        /\ job'.payload = job.payload /\ job'.step = s /\ job'.found = job.found
    BY <1>s, <1>v, <2>w, <2>1, GoToJob
  <2>3. UNCHANGED <<unitFile, envFile, unitBak, envBak>>
    BY <1>4 DEF RestartContainer
  <2>4. Started(unitFile[c], envFile[c]) = job.payload
    BY <2>w, StartedPayload DEF ContainerAtWork
  <2>5. job.payload \in ServiceRecord
    BY <2>w DEF ContainerAtWork, ContainerPayload, ServiceRecord
  <2>6. /\ \A u \in Container \ {c} : running'[u] = running[u]
        /\ running' \in [Container -> ServiceRecord \cup {None}]
        /\ s = "clean" => running'[c] = job.payload
    BY <1>t, <2>1, <2>4, <2>5
  <2>7. c \notin unsettled /\ s = "stop" => UnitKept(c)' /\ EnvKept(c)'
    BY <2>w, <2>2, <2>3 DEF ContainerAtWork, UnitKept, EnvKept
  <2>8. ContainerAtWork(c)'
    BY <2>w, <2>2, <2>3, <2>6, <2>7 DEF ContainerAtWork
  <2> QED
    BY <1>f, <1>t, <2>2, <2>3, <2>6, <2>8 DEF ContainerType
<1>5. CASE CompleteContainer(c)
  <2>w. ContainerAtWork(c) /\ job.step = "clean" /\ job.target = c
    BY <1>5, <1>w DEF CompleteContainer, At
  <2>1. /\ JobTyped' /\ OnlyFor(c) /\ job'.target = None
        /\ applied'[c] = job.payload /\ c \notin unsettled'
    BY <1>5, <1>v, <2>w, AppliedJob DEF CompleteContainer
  <2>2. UNCHANGED <<unitFile, envFile, running>>
    BY <1>5 DEF CompleteContainer
  <2>3. ContainerType'
    BY <1>5, <1>t DEF CompleteContainer, ContainerType
  <2>4. ContainerRuns(c)' /\ applied'[c] \in ContainerPayload
    BY <1>v, <2>w, <2>1, <2>2 DEF ContainerAtWork, ContainerRuns
  <2> QED
    BY <1>f, <1>v, <2>1, <2>2, <2>3, <2>4
<1>6. CASE StopContainer(c)
  <2>w. ContainerAtWork(c) /\ job.step = "stop" /\ job.target = c
    BY <1>6, <1>w DEF StopContainer, At
  <2>1. /\ JobTyped' /\ OnlyFor(c) /\ UNCHANGED <<applied, unsettled>> /\ job'.target = c
        /\ job'.payload = job.payload /\ job'.step = "restoreUnit" /\ job'.found = job.found
    BY <1>6, <1>s, <1>v, <2>w, GoToJob DEF StopContainer
  <2>2. /\ UNCHANGED <<unitFile, envFile, unitBak, envBak>>
        /\ running' = running \/ running' = [running EXCEPT ![c] = None]
    BY <1>6 DEF StopContainer
  <2>3. /\ \A u \in Container \ {c} : running'[u] = running[u]
        /\ running' \in [Container -> ServiceRecord \cup {None}]
    BY <1>t, <2>2
  <2>4. ContainerAtWork(c)'
    BY <2>w, <2>1, <2>2 DEF ContainerAtWork, UnitKept, EnvKept
  <2> QED
    BY <1>f, <1>t, <2>1, <2>2, <2>3, <2>4 DEF ContainerType
<1>7. CASE RestoreContainer(c)
  <2>w. ContainerAtWork(c) /\ job.step \in {"restoreUnit", "restoreEnv"} /\ job.target = c
    BY <1>7, <1>w DEF RestoreContainer, At
  <2>1. CASE /\ job.step = "restoreUnit"
             /\ unitFile' = [unitFile EXCEPT ![c] = IF "unit" \in job.found THEN unitBak[c] ELSE None]
             /\ unitBak' = [unitBak EXCEPT ![c] = IF "unit" \in job.found THEN None ELSE @]
             /\ GoTo(IF job.payload.env = None THEN "reload" ELSE "restoreEnv")
             /\ UNCHANGED <<envFile, envBak, running>>
    <3>1. PICK s \in {"reload", "restoreEnv"} :
            GoTo(s) /\ (s = "reload" <=> job.payload.env = None)
      BY <2>1
    <3>2. /\ JobTyped' /\ OnlyFor(c) /\ UNCHANGED <<applied, unsettled>> /\ job'.target = c
          /\ job'.payload = job.payload /\ job'.step = s /\ job'.found = job.found
      BY <1>s, <1>v, <2>w, <3>1, GoToJob
    <3>3. unitFile'[c] = IF "unit" \in job.found THEN unitBak[c] ELSE None
      BY <1>t, <2>1
    <3>4. c \notin unsettled => /\ UnitBack(c)' /\ EnvKept(c)'
                                /\ s = "reload" => EnvBack(c)'
      BY <2>w, <2>1, <3>1, <3>2, <3>3 DEF ContainerAtWork, UnitKept, UnitBack, EnvKept, EnvBack
    <3>5. ContainerAtWork(c)'
      BY <2>w, <2>1, <3>1, <3>2, <3>3, <3>4 DEF ContainerAtWork
    <3>6. ContainerType'
      BY <1>t, <2>1 DEF ContainerType
    <3> QED
      BY <1>f, <1>t, <2>1, <3>2, <3>5, <3>6
  <2>2. CASE /\ job.step = "restoreEnv"
             /\ envFile' = [envFile EXCEPT ![c] = IF "env" \in job.found THEN envBak[c] ELSE None]
             /\ envBak' = [envBak EXCEPT ![c] = IF "env" \in job.found THEN None ELSE @]
             /\ GoTo("reload")
             /\ UNCHANGED <<unitFile, unitBak, running>>
    <3>2. /\ JobTyped' /\ OnlyFor(c) /\ UNCHANGED <<applied, unsettled>> /\ job'.target = c
          /\ job'.payload = job.payload /\ job'.step = "reload" /\ job'.found = job.found
      BY <1>s, <1>v, <2>w, <2>2, GoToJob
    <3>3. envFile'[c] = IF "env" \in job.found THEN envBak[c] ELSE None
      BY <1>t, <2>2
    <3>4. c \notin unsettled => UnitBack(c)' /\ EnvBack(c)'
      BY <2>w, <2>2, <3>2, <3>3 DEF ContainerAtWork, UnitBack, EnvKept, EnvBack
    <3>5. ContainerAtWork(c)'
      BY <2>w, <2>2, <3>2, <3>4 DEF ContainerAtWork
    <3>6. ContainerType'
      BY <1>t, <2>2 DEF ContainerType
    <3> QED
      BY <1>f, <1>t, <2>2, <3>2, <3>5, <3>6
  <2> QED
    BY <1>7, <2>1, <2>2 DEF RestoreContainer, At
<1>8. CASE RestartPrevious(c)
  <2>w. ContainerAtWork(c) /\ job.step = "reload" /\ job.target = c
    BY <1>8, <1>w DEF RestartPrevious, At
  <2>1. PICK undone \in BOOLEAN :
          /\ Failed(undone)
          /\ undone /\ "unit" \in job.found =>
               running' = [running EXCEPT ![c] = Started(unitFile[c], envFile[c])]
          /\ ~undone \/ "unit" \notin job.found =>
               running' = running \/ running' = [running EXCEPT ![c] = None]
    BY <1>8 DEF RestartPrevious
  <2>2. UNCHANGED <<unitFile, envFile, unitBak, envBak>>
    BY <1>8 DEF RestartPrevious
  <2>3. /\ JobTyped' /\ OnlyFor(c) /\ job'.target = None /\ UNCHANGED applied
        /\ undone => (c \in unsettled' <=> c \in unsettled)
        /\ ~undone => c \in unsettled'
    BY <1>v, <2>w, <2>1, FailedJob
  <2>4. "unit" \in job.found => Started(unitFile[c], envFile[c]) \in ServiceRecord
    BY <1>t, <2>w DEF ContainerAtWork, UnitFile, Started, Instance, ServiceRecord
  <2>5. /\ \A u \in Container \ {c} : running'[u] = running[u]
        /\ running' \in [Container -> ServiceRecord \cup {None}]
        /\ undone /\ "unit" \in job.found => running'[c] = Started(unitFile[c], envFile[c])
    BY <1>t, <2>1, <2>4
  <2>6. ASSUME c \notin unsettled', "unit" \in job.found PROVE running'[c] = applied[c]
    <3>1. undone /\ UnitBack(c) /\ EnvBack(c)
      BY <2>w, <2>3, <2>6 DEF ContainerAtWork
    <3>2. /\ applied[c] \in ContainerPayload /\ unitFile[c] = Rendering(applied[c])
          /\ applied[c].env # None => envFile[c] = applied[c].env
      BY <1>t, <2>6, <3>1 DEF UnitBack, EnvBack
    <3>3. Started(Rendering(applied[c]), envFile[c]) = applied[c]
      BY <3>2, StartedPayload
    <3> QED
      BY <2>5, <2>6, <3>1, <3>2, <3>3
  <2>7. ASSUME c \notin unsettled' PROVE ContainerRuns(c)'
    <3>1. UnitBack(c) /\ EnvBack(c)
      BY <2>w, <2>3, <2>7 DEF ContainerAtWork
    <3> QED
      BY <2>2, <2>3, <2>6, <2>7, <3>1 DEF UnitBack, EnvBack, ContainerRuns
  <2> QED
    BY <1>f, <1>t, <1>v, <2>2, <2>3, <2>5, <2>7 DEF ContainerType
<1> QED
  BY <1>1, <1>2, <1>3, <1>4, <1>5, <1>6, <1>7, <1>8 DEF ContainerStep

-----------------------------------------------------------------------------
(* Databases.  A job that found no database has none applied to lose; one  *)
(* that works on an applied database never believes it created the role.   *)
DatabaseAtWork(d) ==
    /\ job.payload \in Password
    /\ job.step \in {"role", "database", "user", "login", "dropDatabase", "dropRole"}
    /\ "createdDatabase" \in job.found => applied[d] = None
    /\ d \notin unsettled /\ applied[d] # None =>
         /\ "createdRole" \notin job.found
         /\ job.step = "role" => roles[d] = applied[d]

DatabaseInv == /\ DatabaseType /\ AppliedDatabaseLogsIn
               /\ \A d \in Database : dbs[d] = "absent" => applied[d] = None
               /\ \A d \in Database : job.target = d => DatabaseAtWork(d)

(* Databases that nobody creates between the MariaDB driver's read and its *)
(* CREATE: what the job counts as created of these holds no data.          *)
Guarded == Database \ (Restorable \cap Mariadb)

CreatedIsEmpty ==
    \A d \in Guarded : job.target = d /\ "createdDatabase" \in job.found /\ job.step # "dropRole" =>
        /\ dbs[d] # "inUse"
        /\ d \notin Mariadb => dbs[d] = "empty"

(* While others work, and when the agent dies, no database changes.        *)
LEMMA DatabaseFrame ==
  ASSUME DatabaseInv, UNCHANGED databaseVars,
         \A d \in Database : /\ applied'[d] = applied[d] /\ (d \in unsettled' <=> d \in unsettled)
                             /\ job.target # d /\ job'.target # d
  PROVE  DatabaseInv' /\ CreatedIsEmpty'
BY DEF DatabaseInv, DatabaseType, AppliedDatabaseLogsIn, databaseVars, Settled, Login, CreatedIsEmpty, Guarded

LEMMA DatabaseDies ==
  ASSUME DatabaseInv, UNCHANGED databaseVars, JobTyped, Die
  PROVE  DatabaseInv' /\ CreatedIsEmpty'
<1>1. \A d \in Database : d \in Target /\ d # None
  BY HostAssumption
<1> QED
  BY <1>1, DeadJob
  DEF DatabaseInv, DatabaseType, AppliedDatabaseLogsIn, databaseVars, Settled, Login, CreatedIsEmpty, Guarded

(* Every step of database.reconcile keeps what is promised of databases.   *)
LEMMA DatabaseKeeps ==
  ASSUME JobTyped, DatabaseInv, NEW d \in Database, DatabaseStep(d)
  PROVE  /\ JobTyped' /\ OnlyFor(d) /\ DatabaseInv'
         /\ CreatedIsEmpty => /\ CreatedIsEmpty'
                              /\ d \in Guarded /\ dbs[d] = "inUse" => dbs'[d] = "inUse"
         /\ \A u \in Database \ {d} : dbs'[u] = dbs[u]
<1> DEFINE DataKept == CreatedIsEmpty /\ d \in Guarded =>
                                         /\ dbs[d] = "inUse" => dbs'[d] = "inUse"
                                         /\ (job'.target = d /\ "createdDatabase" \in job'.found
                                               /\ job'.step # "dropRole" =>
                                                 /\ dbs'[d] # "inUse"
                                                 /\ d \notin Mariadb => dbs'[d] = "empty")
           Goal == /\ JobTyped' /\ OnlyFor(d) /\ DatabaseInv'
                   /\ CreatedIsEmpty => /\ CreatedIsEmpty'
                                        /\ d \in Guarded /\ dbs[d] = "inUse" => dbs'[d] = "inUse"
                   /\ \A u \in Database \ {d} : dbs'[u] = dbs[u]
<1>v. /\ d \in Target /\ d # None /\ Password \subseteq Payload /\ None \notin Password
      /\ \A u \in Database : u \in Target
  BY HostAssumption DEF Payload
<1>t. /\ roles \in [Database -> Password \cup {None}]
      /\ dbs \in [Database -> {"absent", "empty", "inUse"}]
      /\ \A u \in Database : Settled(u) /\ applied[u] # None => Login(u, applied[u])
      /\ \A u \in Database : dbs[u] = "absent" => applied[u] = None
      /\ \A u \in Database : job.target = u => DatabaseAtWork(u)
  BY DEF DatabaseInv, DatabaseType, AppliedDatabaseLogsIn
<1>s. /\ {"role", "database", "user", "login", "dropDatabase", "dropRole"} \subseteq Steps
      /\ {"createdDatabase", "createdRole"} \subseteq Finds
  BY DEF Steps, Finds
<1>w. ASSUME job.target = d PROVE DatabaseAtWork(d)
  BY <1>t, <1>w
<1>e. ASSUME job.target = d, "createdDatabase" \in job.found, job.step # "dropRole", CreatedIsEmpty,
             d \in Guarded
      PROVE  dbs[d] # "inUse" /\ (d \notin Mariadb => dbs[d] = "empty")
  BY <1>e DEF CreatedIsEmpty
<1>f. ASSUME JobTyped', OnlyFor(d), DatabaseType', DataKept,
             \A u \in Database \ {d} : roles'[u] = roles[u] /\ dbs'[u] = dbs[u],
             dbs'[d] = "absent" => applied'[d] = None,
             d \notin unsettled' /\ job'.target # d /\ applied'[d] # None => Login(d, applied[d])',
             job'.target = d => DatabaseAtWork(d)'
      PROVE  Goal
  <2>0. ASSUME NEW u \in Database, u # d
        PROVE  /\ u \in Target \ {d} /\ u \in Database \ {d} /\ applied'[u] = applied[u]
               /\ job'.target # u /\ (Settled(u)' => Settled(u))
    BY <1>f, <1>v, <2>0 DEF OnlyFor, Settled
  <2>1. ASSUME NEW u \in Database, Settled(u)', applied'[u] # None PROVE Login(u, applied[u])'
    <3>1. u \notin unsettled' /\ job'.target # u
      BY <2>1 DEF Settled
    <3>2. CASE u = d
      BY <1>f, <2>1, <3>1, <3>2
    <3>3. CASE u # d
      <4>1. Login(u, applied[u])
        BY <1>t, <2>0, <2>1, <3>3
      <4>2. roles'[u] = roles[u] /\ dbs'[u] = dbs[u] /\ applied'[u] = applied[u]
        BY <1>f, <2>0, <3>3
      <4> QED
        BY <4>1, <4>2 DEF Login
    <3> QED
      BY <3>2, <3>3
  <2>2. ASSUME NEW u \in Database, job'.target = u PROVE DatabaseAtWork(u)'
    BY <1>f, <2>0, <2>2
  <2>3. ASSUME NEW u \in Database, dbs'[u] = "absent" PROVE applied'[u] = None
    <3>1. CASE u = d
      BY <1>f, <2>3, <3>1
    <3>2. CASE u # d
      <4>1. dbs'[u] = dbs[u] /\ applied'[u] = applied[u]
        BY <1>f, <2>0, <3>2
      <4> QED
        BY <1>t, <2>3, <4>1
    <3> QED
      BY <3>1, <3>2
  <2>4. CreatedIsEmpty => /\ CreatedIsEmpty'
                          /\ d \in Guarded /\ dbs[d] = "inUse" => dbs'[d] = "inUse"
    BY <1>f, <2>0 DEF CreatedIsEmpty, Guarded
  <2> QED
    BY <1>f, <2>1, <2>2, <2>3, <2>4 DEF DatabaseInv, AppliedDatabaseLogsIn
<1>1. CASE StartDatabase(d)
  <2> DEFINE f == IF d \in Mariadb THEN (IF dbs[d] = "absent" THEN {"createdDatabase"} ELSE {})
                                        \cup (IF roles[d] = None THEN {"createdRole"} ELSE {})
                  ELSE {}
  <2>1. PICK p \in Password : Start(d, p, "role", f)
    BY <1>1 DEF StartDatabase
  <2>2. /\ f \in SUBSET Finds
        /\ "createdDatabase" \in f => dbs[d] = "absent" /\ d \in Mariadb
        /\ "createdRole" \in f => roles[d] = None
    BY <1>s
  <2> HIDE DEF f
  <2>3. /\ JobTyped' /\ OnlyFor(d) /\ UNCHANGED <<applied, unsettled>> /\ job.target = None
        /\ job'.target = d /\ job'.payload = p /\ job'.step = "role" /\ job'.found = f
    BY <1>s, <1>v, <2>1, <2>2, StartJob
  <2>4. UNCHANGED <<roles, dbs>>
    BY <1>1 DEF StartDatabase, databaseVars
  <2>5. d \notin unsettled /\ applied[d] # None => roles[d] = applied[d]
    BY <1>t, <1>v, <2>3 DEF Settled, Login
  <2>6. DatabaseAtWork(d)'
    BY <1>t, <2>2, <2>3, <2>4, <2>5 DEF DatabaseAtWork
  <2> QED
    BY <1>f, <1>t, <2>2, <2>3, <2>4, <2>6 DEF DatabaseType
<1>2. CASE PostgresRole(d)
  <2>w. DatabaseAtWork(d) /\ job.step = "role" /\ job.target = d
    BY <1>2, <1>w DEF PostgresRole, At
  <2> DEFINE found == job.found \cup (IF roles[d] = None THEN {"createdRole"} ELSE {})
  <2>1. job' = [job EXCEPT !.step = "database", !.found = found] /\ UNCHANGED <<applied, unsettled>>
    BY <1>2, <2>w DEF PostgresRole, Created, JobTyped, JobRecord
  <2>2. /\ found \in SUBSET Finds
        /\ "createdDatabase" \in found => "createdDatabase" \in job.found
        /\ "createdRole" \in found => "createdRole" \in job.found \/ roles[d] = None
    BY <1>s DEF JobTyped, JobRecord
  <2> HIDE DEF found
  <2>3. /\ job' \in JobRecord /\ job'.target = d /\ job'.payload = job.payload
        /\ job'.step = "database" /\ job'.found = found
    BY <1>s, <2>w, <2>1, <2>2 DEF JobTyped, JobRecord
  <2>4. JobTyped' /\ OnlyFor(d)
    BY <1>v, <2>w, <2>1, <2>3 DEF JobTyped, OnlyFor
  <2>5. roles' = [roles EXCEPT ![d] = job.payload] /\ UNCHANGED dbs
    BY <1>2 DEF PostgresRole
  <2>6. DatabaseAtWork(d)'
    BY <1>v, <2>w, <2>1, <2>2, <2>3 DEF DatabaseAtWork
  <2>7. DatabaseType'
    BY <1>t, <2>w, <2>5 DEF DatabaseType, DatabaseAtWork
  <2> QED
    BY <1>e, <1>f, <1>t, <2>w, <2>1, <2>2, <2>3, <2>4, <2>5, <2>6, <2>7
<1>3. CASE PostgresDatabase(d)
  <2>w. DatabaseAtWork(d) /\ job.step = "database" /\ job.target = d
    BY <1>3, <1>w DEF PostgresDatabase, At
  <2> DEFINE found == job.found \cup (IF dbs[d] = "absent" THEN {"createdDatabase"} ELSE {})
  <2>1. job' = [job EXCEPT !.step = "login", !.found = found] /\ UNCHANGED <<applied, unsettled>>
    BY <1>3, <2>w DEF PostgresDatabase, Created, JobTyped, JobRecord
  <2>2. /\ found \in SUBSET Finds
        /\ "createdDatabase" \in found => "createdDatabase" \in job.found \/ dbs[d] = "absent"
        /\ "createdRole" \in found => "createdRole" \in job.found
    BY <1>s DEF JobTyped, JobRecord
  <2> HIDE DEF found
  <2>3. /\ job' \in JobRecord /\ job'.target = d /\ job'.payload = job.payload
        /\ job'.step = "login" /\ job'.found = found
    BY <1>s, <2>w, <2>1, <2>2 DEF JobTyped, JobRecord
  <2>4. JobTyped' /\ OnlyFor(d)
    BY <1>v, <2>w, <2>1, <2>3 DEF JobTyped, OnlyFor
  <2>5. dbs' = [dbs EXCEPT ![d] = IF @ = "absent" THEN "empty" ELSE @] /\ UNCHANGED roles
    BY <1>3 DEF PostgresDatabase
  <2>6. dbs'[d] = IF dbs[d] = "absent" THEN "empty" ELSE dbs[d]
    BY <1>t, <2>5
  <2>7. DatabaseAtWork(d)'
    BY <1>t, <2>w, <2>1, <2>2, <2>3 DEF DatabaseAtWork
  <2>8. DatabaseType'
    BY <1>t, <2>5 DEF DatabaseType
  <2> QED
    BY <1>e, <1>f, <1>t, <2>w, <2>1, <2>2, <2>3, <2>4, <2>5, <2>6, <2>7, <2>8
<1>4. CASE MariadbDatabase(d)
  <2>w. DatabaseAtWork(d) /\ job.step = "role" /\ job.target = d /\ d \in Mariadb
    BY <1>4, <1>w DEF MariadbDatabase, At
  <2>1. /\ JobTyped' /\ OnlyFor(d) /\ UNCHANGED <<applied, unsettled>> /\ job'.target = d
        /\ job'.payload = job.payload /\ job'.step = "user" /\ job'.found = job.found
    BY <1>4, <1>s, <1>v, <2>w, GoToJob DEF MariadbDatabase
  <2>2. dbs' = [dbs EXCEPT ![d] = IF @ = "absent" THEN "empty" ELSE @] /\ UNCHANGED roles
    BY <1>4 DEF MariadbDatabase
  <2>3. dbs'[d] = IF dbs[d] = "absent" THEN "empty" ELSE dbs[d]
    BY <1>t, <2>2
  <2>4. DatabaseAtWork(d)' /\ DatabaseType'
    BY <1>t, <2>w, <2>1, <2>2 DEF DatabaseAtWork, DatabaseType
  <2> QED
    BY <1>e, <1>f, <1>t, <2>w, <2>1, <2>2, <2>3, <2>4
<1>5. CASE MariadbUser(d)
  <2>w. DatabaseAtWork(d) /\ job.step = "user" /\ job.target = d
    BY <1>5, <1>w DEF MariadbUser, At
  <2>1. /\ JobTyped' /\ OnlyFor(d) /\ UNCHANGED <<applied, unsettled>> /\ job'.target = d
        /\ job'.payload = job.payload /\ job'.step = "login" /\ job'.found = job.found
    BY <1>5, <1>s, <1>v, <2>w, GoToJob DEF MariadbUser
  <2>2. roles' = [roles EXCEPT ![d] = job.payload] /\ UNCHANGED dbs
    BY <1>5 DEF MariadbUser
  <2>3. DatabaseAtWork(d)' /\ DatabaseType'
    BY <1>t, <2>w, <2>1, <2>2 DEF DatabaseAtWork, DatabaseType
  <2> QED
    BY <1>e, <1>f, <1>t, <2>w, <2>1, <2>2, <2>3
<1>6. CASE CompleteDatabase(d)
  <2>w. DatabaseAtWork(d) /\ job.step = "login" /\ job.target = d
    BY <1>6, <1>w DEF CompleteDatabase, At
  <2>1. /\ JobTyped' /\ OnlyFor(d) /\ job'.target = None
        /\ applied'[d] = job.payload /\ d \notin unsettled'
    BY <1>6, <1>v, <2>w, AppliedJob DEF CompleteDatabase
  <2>2. UNCHANGED <<roles, dbs>> /\ Login(d, job.payload)
    BY <1>6 DEF CompleteDatabase, databaseVars
  <2>3. DatabaseType' /\ Login(d, applied[d])' /\ dbs'[d] # "absent"
    BY <1>t, <2>1, <2>2 DEF Login, DatabaseType
  <2> QED
    BY <1>f, <1>v, <2>1, <2>2, <2>3
<1>7. CASE DatabaseError(d)
  <2>w. DatabaseAtWork(d) /\ job.step \in {"role", "database", "user", "login"} /\ job.target = d
    BY <1>7, <1>w DEF DatabaseError
  <2>1. /\ JobTyped' /\ OnlyFor(d) /\ UNCHANGED <<applied, unsettled>> /\ job'.target = d
        /\ job'.payload = job.payload /\ job'.step = "dropDatabase" /\ job'.found = job.found
    BY <1>7, <1>s, <1>v, <2>w, GoToJob DEF DatabaseError
  <2>2. UNCHANGED <<roles, dbs>>
    BY <1>7 DEF DatabaseError, databaseVars
  <2>3. DatabaseAtWork(d)' /\ DatabaseType'
    BY <1>t, <2>w, <2>1, <2>2 DEF DatabaseAtWork, DatabaseType
  <2> QED
    BY <1>e, <1>f, <1>t, <2>w, <2>1, <2>2, <2>3
<1>8. CASE RollBackDatabase(d)
  <2>w. DatabaseAtWork(d) /\ job.step \in {"dropDatabase", "dropRole"} /\ job.target = d
    BY <1>8, <1>w DEF RollBackDatabase, At
  <2>1. CASE /\ job.step = "dropDatabase"
             /\ dbs' = [dbs EXCEPT ![d] = IF "createdDatabase" \in job.found THEN "absent" ELSE @]
             /\ GoTo("dropRole")
             /\ UNCHANGED roles
    <3>1. /\ JobTyped' /\ OnlyFor(d) /\ UNCHANGED <<applied, unsettled>> /\ job'.target = d
          /\ job'.payload = job.payload /\ job'.step = "dropRole" /\ job'.found = job.found
      BY <1>s, <1>v, <2>w, <2>1, GoToJob
    <3>2. dbs'[d] = IF "createdDatabase" \in job.found THEN "absent" ELSE dbs[d]
      BY <1>t, <2>1
    <3>3. DatabaseAtWork(d)' /\ DatabaseType'
      BY <1>t, <2>w, <2>1, <3>1 DEF DatabaseAtWork, DatabaseType
    <3>4. dbs'[d] = "absent" => applied'[d] = None
      BY <1>t, <2>w, <3>1, <3>2 DEF DatabaseAtWork
    <3> QED
      BY <1>e, <1>f, <2>w, <2>1, <3>1, <3>2, <3>3, <3>4
  <2>2. CASE /\ job.step = "dropRole"
             /\ roles' = [roles EXCEPT ![d] = IF "createdRole" \in job.found THEN None ELSE @]
             /\ Failed("createdRole" \in job.found)
             /\ UNCHANGED dbs
    <3>1. ("createdRole" \in job.found) \in BOOLEAN
      OBVIOUS
    <3>2. /\ JobTyped' /\ OnlyFor(d) /\ job'.target = None /\ UNCHANGED applied
          /\ "createdRole" \notin job.found => d \in unsettled'
          /\ "createdRole" \in job.found => (d \in unsettled' <=> d \in unsettled)
      BY <1>v, <2>w, <2>2, <3>1, FailedJob
    <3>3. d \notin unsettled' => applied'[d] = None
      BY <2>w, <3>1, <3>2 DEF DatabaseAtWork
    <3>4. DatabaseType'
      BY <1>t, <2>2 DEF DatabaseType
    <3> QED
      BY <1>f, <1>t, <1>v, <2>2, <3>2, <3>3, <3>4
  <2>3. CASE Failed(FALSE) /\ UNCHANGED databaseVars
    <3>1. /\ JobTyped' /\ OnlyFor(d) /\ job'.target = None /\ UNCHANGED applied
          /\ d \in unsettled'
      BY <1>v, <2>w, <2>3, FailedJob
    <3>2. UNCHANGED <<roles, dbs>>
      BY <2>3 DEF databaseVars
    <3> QED
      BY <1>f, <1>t, <1>v, <3>1, <3>2 DEF DatabaseType
  <2> QED
    BY <1>8, <2>1, <2>2, <2>3 DEF RollBackDatabase, At
<1> QED
  BY <1>1, <1>2, <1>3, <1>4, <1>5, <1>6, <1>7, <1>8 DEF DatabaseStep

(* The app and a person write to databases while jobs run.                 *)
LEMMA OthersWriteData ==
  ASSUME JobTyped, DatabaseInv, NEW d \in Database, AppWrites(d) \/ RestoreByHand(d)
  PROVE  /\ DatabaseInv' /\ \A u \in Database : dbs[u] = "inUse" => dbs'[u] = "inUse"
         /\ CreatedIsEmpty => CreatedIsEmpty'
<1>1. /\ dbs' = [dbs EXCEPT ![d] = "inUse"] /\ UNCHANGED <<job, applied, unsettled, roles>>
      /\ \/ applied[d] # None
         \/ d \in Restorable /\ dbs[d] = "absent"
  BY DEF AppWrites, RestoreByHand, jobVars
<1>2. /\ dbs' \in [Database -> {"absent", "empty", "inUse"}]
      /\ \A u \in Database : dbs'[u] # dbs[u] => u = d /\ dbs'[u] = "inUse"
  BY <1>1 DEF DatabaseInv, DatabaseType
<1>3. DatabaseInv'
  BY <1>1, <1>2
  DEF DatabaseInv, DatabaseType, AppliedDatabaseLogsIn, Settled, Login, DatabaseAtWork
<1>4. ASSUME CreatedIsEmpty PROVE CreatedIsEmpty'
  BY <1>1, <1>2, <1>4 DEF CreatedIsEmpty, Guarded, DatabaseInv, DatabaseAtWork
<1> QED
  BY <1>2, <1>3, <1>4


-----------------------------------------------------------------------------
(* Mail.  The services restarted so far are down or run on this job's live *)
(* files, as the ones found active do; only a key file that openssl has    *)
(* not filled is replaced.                                                 *)
ServiceAtWork(s) ==
    IF job.step \in Following[s]
    THEN serving[s] \in {job.payload, None} /\ (s \in job.found => serving[s] = job.payload)
    ELSE s \notin job.found

MailAtWork ==
    /\ job.payload \in MailPayload
    /\ job.step \in {"key", "generate", "render", "install", "check", "report"} \cup Service
    /\ job.step = "generate" => dkimKey = CutKey
    /\ "dkim" \in job.found => dkimKey \in Key
    /\ job.step \in {"install", "check", "report"} \cup Service => rendered = job.payload
    /\ job.step \in {"check", "report"} \cup Service => live = job.payload
    /\ \A s \in Service : ServiceAtWork(s)

MailInv == MailType /\ AppliedMailServes /\ (job.target = Mail => MailAtWork)

(* While others work, and when the agent dies, the mail services stay.     *)
LEMMA MailFrame ==
  ASSUME MailInv, UNCHANGED mailVars, applied'[Mail] = applied[Mail],
         Mail \in unsettled' <=> Mail \in unsettled, job.target # Mail, job'.target # Mail
  PROVE  MailInv'
BY DEF MailInv, MailType, AppliedMailServes, mailVars, Settled

LEMMA MailDies ==
  ASSUME MailInv, UNCHANGED mailVars, JobTyped, Die
  PROVE  MailInv'
<1>1. Mail \in Target /\ Mail # None
  BY HostAssumption
<1> QED
  BY <1>1, DeadJob DEF MailInv, MailType, AppliedMailServes, mailVars, Settled

(* Every step of mail.sync keeps what is promised of the mail services.    *)
LEMMA MailKeeps ==
  ASSUME JobTyped, MailInv, MailStep
  PROVE  JobTyped' /\ OnlyFor(Mail) /\ MailInv'
<1> DEFINE Goal == JobTyped' /\ OnlyFor(Mail) /\ MailInv'
           Program == {"key", "generate", "render", "install", "check", "report",
                       "postfix", "dovecot", "rspamd", "redis"}
<1>v. /\ Mail \in Target /\ Mail # None /\ MailPayload \subseteq Payload /\ None \notin MailPayload
      /\ None \notin Key /\ CutKey \notin Key /\ CutKey # None
  BY HostAssumption DEF Payload
<1>t. /\ dkimKey \in Key \cup {None, CutKey} /\ reportedKey \in Key \cup {None}
      /\ rendered \in MailPayload \cup {None} /\ live \in MailPayload \cup {None}
      /\ serving \in [Service -> MailPayload \cup {None}]
      /\ reportedActive \subseteq Service
      /\ reportedKey # None => dkimKey = reportedKey
  BY DEF MailInv, MailType, AppliedMailServes
<1>s. Program \subseteq Steps /\ {"dkim"} \cup Service \subseteq Finds
  BY ServiceNames DEF Steps, Finds
<1>w. ASSUME job.target = Mail
      PROVE  /\ job.payload \in MailPayload /\ job.step \in Program
             /\ job.step = "generate" => dkimKey = CutKey
             /\ "dkim" \in job.found => dkimKey \in Key
             /\ job.step \in Program \ {"key", "generate", "render"} => rendered = job.payload
             /\ job.step \in Program \ {"key", "generate", "render", "install"} => live = job.payload
             /\ \A s \in Service : ServiceAtWork(s)
  BY <1>w, ServiceNames DEF MailInv, MailAtWork
(* A step that goes on in the program.                                     *)
<1>f. ASSUME JobTyped', OnlyFor(Mail), MailType', job'.target = Mail,
             reportedKey' # None => dkimKey' = reportedKey',
             job'.payload \in MailPayload, job'.step \in Program,
             job'.step = "generate" => dkimKey' = CutKey,
             "dkim" \in job'.found => dkimKey' \in Key,
             job'.step \in Program \ {"key", "generate", "render"} => rendered' = job'.payload,
             job'.step \in Program \ {"key", "generate", "render", "install"} => live' = job'.payload,
             \A s \in Service : ServiceAtWork(s)'
      PROVE  Goal
  BY <1>f, ServiceNames DEF MailInv, MailAtWork, AppliedMailServes, Settled
(* Before the restarts nothing is found of a service.                      *)
<1>e. ASSUME job'.step \in {"key", "generate", "render", "install", "check", "postfix"},
             job'.found \subseteq {"dkim"} \/
               /\ job'.found = job.found /\ job.target = Mail
               /\ job.step \in {"key", "generate", "render", "install", "check", "postfix"}
      PROVE  \A s \in Service : ServiceAtWork(s)'
  <2>1. \A s \in Service : s \notin job'.found
    BY <1>e, <1>w, RestartOrder DEF ServiceAtWork
  <2> QED
    BY <1>e, <2>1, RestartOrder DEF ServiceAtWork
(* A step that ends it.                                                    *)
<1>g. ASSUME JobTyped', OnlyFor(Mail), MailType', job'.target = None,
             reportedKey' # None => dkimKey' = reportedKey',
             \/ Mail \in unsettled'
             \/ /\ live' = applied'[Mail] /\ rendered' = applied'[Mail]
                /\ \A s \in Service : serving'[s] \in {applied'[Mail], None}
                /\ \A s \in reportedActive' : serving'[s] = applied'[Mail]
      PROVE  Goal
  BY <1>g, <1>v DEF MailInv, AppliedMailServes, Settled
<1>1. CASE StartMail
  <2>1. PICK p \in MailPayload : Start(Mail, p, "key", {})
    BY <1>1 DEF StartMail
  <2>2. /\ JobTyped' /\ OnlyFor(Mail) /\ job'.target = Mail /\ job'.payload = p
        /\ job'.step = "key" /\ job'.found = {}
    BY <1>s, <1>v, <2>1, StartJob
  <2>3. UNCHANGED <<dkimKey, reportedKey, rendered, live, serving, reportedActive>>
    BY <1>1 DEF StartMail, mailVars
  <2> QED
    BY <1>e, <1>f, <1>t, <2>2, <2>3 DEF MailType
<1>2. CASE DkimStep
  <2>0. UNCHANGED <<reportedKey, rendered, live, serving, reportedActive>> /\ ensureDkimMaterial
    BY <1>2 DEF DkimStep
  <2>1. CASE At(Mail, "key") /\ dkimKey = None /\ dkimKey' = CutKey /\ GoTo("generate")
    <3>1. /\ JobTyped' /\ OnlyFor(Mail) /\ job'.target = Mail /\ job'.payload = job.payload
          /\ job'.step = "generate" /\ job'.found = job.found
      BY <1>s, <1>v, <2>1, GoToJob DEF At
    <3>2. "dkim" \notin job.found /\ reportedKey = None /\ job.payload \in MailPayload
      BY <1>t, <1>v, <1>w, <2>1 DEF At
    <3> QED
      BY <1>e, <1>f, <1>t, <2>0, <2>1, <3>1, <3>2 DEF MailType, At
  <2>2. ASSUME NEW found \in SUBSET {"dkim"}, job.target = Mail,
               job' = [job EXCEPT !.step = "render", !.found = found],
               UNCHANGED <<applied, unsettled>>, "dkim" \in found => dkimKey' \in Key,
               dkimKey' \in Key \cup {CutKey}, reportedKey # None => dkimKey' = reportedKey
        PROVE  Goal
    <3>1. /\ job' \in JobRecord /\ job'.target = Mail /\ job'.payload = job.payload
          /\ job'.step = "render" /\ job'.found = found
      BY <1>s, <2>2 DEF JobTyped, JobRecord
    <3>2. JobTyped' /\ OnlyFor(Mail)
      BY <1>v, <2>2, <3>1 DEF JobTyped, OnlyFor
    <3>3. MailType'
      BY <1>t, <2>0, <2>2 DEF MailType
    <3> QED
      BY <1>e, <1>f, <1>w, <2>0, <2>2, <3>1, <3>2, <3>3
  <2>3. CASE /\ At(Mail, "key") /\ dkimKey # None
             /\ job' = [job EXCEPT !.step = "render",
                                   !.found = IF dkimKey = CutKey THEN {} ELSE {"dkim"}]
             /\ UNCHANGED <<applied, unsettled, dkimKey>>
    <3> DEFINE found == IF dkimKey = CutKey THEN {} ELSE {"dkim"}
    <3>1. /\ found \in SUBSET {"dkim"} /\ ("dkim" \in found => dkimKey \in Key)
          /\ job' = [job EXCEPT !.step = "render", !.found = found]
      BY <1>t, <2>3
    <3> HIDE DEF found
    <3> QED
      BY <1>t, <2>2, <2>3, <3>1 DEF At
  <2>4. CASE /\ At(Mail, "generate")
             /\ dkimKey' \in Key
             /\ job' = [job EXCEPT !.step = "render", !.found = {"dkim"}]
             /\ UNCHANGED <<applied, unsettled>>
    <3>1. reportedKey = None
      BY <1>t, <1>v, <1>w, <2>4 DEF At
    <3> QED
      BY <2>2, <2>4, <3>1 DEF At
  <2>5. CASE At(Mail, "generate") /\ GoTo("render") /\ UNCHANGED dkimKey
    <3>1. /\ JobTyped' /\ OnlyFor(Mail) /\ job'.target = Mail /\ job'.payload = job.payload
          /\ job'.step = "render" /\ job'.found = job.found
      BY <1>s, <1>v, <2>5, GoToJob DEF At
    <3>2. job.payload \in MailPayload /\ ("dkim" \in job.found => dkimKey \in Key)
      BY <1>w, <2>5 DEF At
    <3> QED
      BY <1>e, <1>f, <1>t, <2>0, <2>5, <3>1, <3>2 DEF MailType, At
  <2> QED
    BY <2>0, <2>1, <2>3, <2>4, <2>5 DEF ensureDkimMaterial
<1>3. CASE RenderMail
  <2>1. job.target = Mail /\ job.step = "render"
    BY <1>3 DEF RenderMail, At
  <2>2. /\ JobTyped' /\ OnlyFor(Mail) /\ job'.target = Mail /\ job'.payload = job.payload
        /\ job'.step = "install" /\ job'.found = job.found
    BY <1>3, <1>s, <1>v, <2>1, GoToJob DEF RenderMail
  <2>3. rendered' = job.payload /\ UNCHANGED <<dkimKey, reportedKey, live, serving, reportedActive>>
    BY <1>3 DEF RenderMail
  <2> QED
    BY <1>e, <1>f, <1>t, <1>w, <2>1, <2>2, <2>3 DEF MailType
<1>4. CASE InstallMail
  <2>1. job.target = Mail /\ job.step = "install"
    BY <1>4 DEF InstallMail, At
  <2>2. /\ JobTyped' /\ OnlyFor(Mail) /\ job'.target = Mail /\ job'.payload = job.payload
        /\ job'.step = "check" /\ job'.found = job.found
    BY <1>4, <1>s, <1>v, <2>1, GoToJob DEF InstallMail
  <2>3. live' = rendered /\ UNCHANGED <<dkimKey, reportedKey, rendered, serving, reportedActive>>
    BY <1>4 DEF InstallMail
  <2> QED
    BY <1>e, <1>f, <1>t, <1>w, <2>1, <2>2, <2>3 DEF MailType
<1>5. CASE CheckMail
  <2>1. job.target = Mail /\ job.step = "check"
    BY <1>5 DEF CheckMail, At
  <2>2. /\ JobTyped' /\ OnlyFor(Mail) /\ job'.target = Mail /\ job'.payload = job.payload
        /\ job'.step = "postfix" /\ job'.found = job.found
    BY <1>5, <1>s, <1>v, <2>1, GoToJob DEF CheckMail
  <2>3. UNCHANGED <<dkimKey, reportedKey, rendered, live, serving, reportedActive>>
    BY <1>5 DEF CheckMail, mailVars
  <2> QED
    BY <1>e, <1>f, <1>t, <1>w, <2>1, <2>2, <2>3 DEF MailType
<1>6. CASE RestartMailService
  <2>1. job.target = Mail /\ job.step \in {"postfix", "dovecot", "rspamd", "redis"}
    BY <1>6, ServiceNames DEF RestartMailService
  <2>2. AfterRestart[job.step] \in Program
    BY <2>1, ServiceNames
  <2>3. PICK active \in SUBSET {job.step}, p \in {live, None} :
          /\ RestartDone(active) /\ serving' = [serving EXCEPT ![job.step] = p]
          /\ active # {} => p = live
    <3>1. CASE RestartDone({job.step}) /\ serving' = [serving EXCEPT ![job.step] = live]
      BY <3>1
    <3>2. CASE RestartDone({}) /\ \E p \in {live, None} : serving' = [serving EXCEPT ![job.step] = p]
      BY <3>2
    <3> QED
      BY <1>6, <3>1, <3>2 DEF RestartMailService
  <2>4. /\ job' \in JobRecord /\ job'.target = Mail /\ job'.payload = job.payload
        /\ job'.step = AfterRestart[job.step] /\ job'.found = job.found \cup active
    BY <1>s, <2>1, <2>2, <2>3, ServiceNames DEF RestartDone, JobTyped, JobRecord
  <2>5. JobTyped' /\ OnlyFor(Mail)
    BY <1>v, <2>1, <2>3, <2>4 DEF RestartDone, JobTyped, OnlyFor
  <2>6. UNCHANGED <<dkimKey, reportedKey, rendered, live, reportedActive>>
    BY <1>6 DEF RestartMailService
  <2>7. MailType'
    BY <1>t, <2>3, <2>6 DEF MailType
  <2>8. live = job.payload /\ rendered = job.payload /\ job.payload \in MailPayload
        /\ ("dkim" \in job.found => dkimKey \in Key)
    BY <1>w, <2>1
  <2>9. ASSUME NEW s \in Service PROVE ServiceAtWork(s)'
    <3>1. ServiceAtWork(s) /\ job.step \in Service
      BY <1>w, <2>1, ServiceNames
    <3>2. /\ serving'[s] = IF s = job.step THEN p ELSE serving[s]
          /\ s \in job'.found <=> s \in job.found \/ (s = job.step /\ active # {})
      BY <1>t, <2>3, <2>4
    <3>3. job'.step \in Following[s] <=> job.step = s \/ job.step \in Following[s]
      BY <2>4, <3>1, RestartOrder
    <3>4. CASE s = job.step
      BY <2>3, <2>4, <2>8, <3>1, <3>2, <3>3, <3>4, RestartOrder DEF ServiceAtWork
    <3>5. CASE s # job.step
      BY <2>4, <3>1, <3>2, <3>3, <3>5 DEF ServiceAtWork
    <3> QED
      BY <3>4, <3>5
  <2>10. job'.step # "generate" /\ ("dkim" \in job'.found => dkimKey' \in Key)
    BY <2>1, <2>3, <2>4, <2>6, <2>8, ServiceNames
  <2> QED
    BY <1>f, <1>t, <2>2, <2>4, <2>5, <2>6, <2>7, <2>8, <2>9, <2>10
<1>7. CASE CompleteMail
  <2>1. job.target = Mail /\ job.step = "report"
    BY <1>7 DEF CompleteMail, At
  <2>2. /\ JobTyped' /\ OnlyFor(Mail) /\ job'.target = None
        /\ applied'[Mail] = job.payload
    BY <1>7, <1>v, <2>1, AppliedJob DEF CompleteMail
  <2>3. /\ reportedKey' = IF "dkim" \in job.found THEN dkimKey ELSE None
        /\ reportedActive' = job.found \cap Service
        /\ UNCHANGED <<dkimKey, rendered, live, serving>>
    BY <1>7 DEF CompleteMail
  <2>4. MailType'
    BY <1>t, <1>w, <2>1, <2>3 DEF MailType
  <2>5. \A s \in Service : /\ serving[s] \in {job.payload, None}
                           /\ s \in job.found => serving[s] = job.payload
    BY <1>w, <2>1, RestartOrder DEF ServiceAtWork
  <2> QED
    BY <1>g, <1>w, <2>1, <2>2, <2>3, <2>4, <2>5
<1>8. CASE MailError
  <2>1. job.target = Mail
    BY <1>8 DEF MailError
  <2>2. JobTyped' /\ OnlyFor(Mail) /\ job'.target = None /\ Mail \in unsettled'
    BY <1>8, <1>v, <2>1, FailedJob DEF MailError
  <2>3. /\ UNCHANGED <<dkimKey, reportedKey, rendered, live, reportedActive>>
        /\ serving' = serving \/ serving' = [serving EXCEPT ![job.step] = None]
    BY <1>8 DEF MailError
  <2>4. MailType'
    BY <1>t, <2>3 DEF MailType
  <2> QED
    BY <1>g, <1>t, <2>2, <2>3, <2>4
<1> QED
  BY <1>1, <1>2, <1>3, <1>4, <1>5, <1>6, <1>7, <1>8 DEF MailStep

-----------------------------------------------------------------------------
(* The host: a step of one driver leaves the targets of the others alone.  *)
HostInv == JobTyped /\ VhostInv /\ ContainerInv /\ DatabaseInv /\ MailInv

LEMMA HostInitInv == Init => HostInv /\ CreatedIsEmpty
<1> SUFFICES ASSUME Init PROVE HostInv /\ CreatedIsEmpty
  OBVIOUS
<1> USE DEF Init
<1>1. /\ job = Idle /\ applied = [t \in Target |-> None] /\ unsettled = {}
      /\ job.target = None /\ job.found = {}
  BY IdleJob DEF JobInit
<1>2. JobTyped
  BY <1>1, IdleJob DEF JobTyped, Payload
<1>3. /\ \A t \in Vhost \cup Container \cup Database \cup {Mail} : applied[t] = None /\ job.target # t
      /\ None \notin Broken
  BY <1>1, HostAssumption
<1>4. VhostInv
  BY <1>3 DEF VhostInit, VhostInv, VhostType, ServedConfigurationIsValid, AppliedVhostIsServed,
              validateApacheConfiguration
<1>5. ContainerInv
  BY <1>3 DEF ContainerInit, ContainerInv, ContainerType, AppliedContainerRuns
<1>6. DatabaseInv /\ CreatedIsEmpty
  BY <1>1, <1>3 DEF DatabaseInit, DatabaseInv, DatabaseType, AppliedDatabaseLogsIn, CreatedIsEmpty,
             Guarded
<1>7. MailInv
  BY <1>3 DEF MailInit, MailInv, MailType, AppliedMailServes
<1> QED
  BY <1>2, <1>4, <1>5, <1>6, <1>7 DEF HostInv

(* Every step of the host.                                                 *)
LEMMA HostStepInv ==
  ASSUME HostInv, [Next]_vars
  PROVE  /\ HostInv'
         /\ CreatedIsEmpty =>
              /\ CreatedIsEmpty'
              /\ \A d \in Guarded : dbs[d] = "inUse" => dbs'[d] = "inUse"
<1> DEFINE Goal == /\ HostInv'
                   /\ CreatedIsEmpty =>
                        /\ CreatedIsEmpty'
                        /\ \A d \in Guarded : dbs[d] = "inUse" => dbs'[d] = "inUse"
<1> USE DEF HostInv
<1>k. /\ Vhost \cup Container \cup Database \cup {Mail} \subseteq Target
      /\ \A v \in Vhost : v \notin Container /\ v \notin Database /\ v # Mail
      /\ \A c \in Container : c \notin Database /\ c # Mail
      /\ Mail \notin Database
  BY HostAssumption
<1>o. ASSUME NEW t \in Target, OnlyFor(t), NEW u \in Target, u # t
      PROVE  /\ applied'[u] = applied[u] /\ (u \in unsettled' <=> u \in unsettled)
             /\ job.target # u /\ job'.target # u
  BY <1>o DEF OnlyFor
<1>v. ASSUME NEW t \in Target \ Vhost, OnlyFor(t), UNCHANGED vhostVars PROVE VhostInv'
  BY <1>k, <1>o, <1>v, VhostFrame
<1>c. ASSUME NEW t \in Target \ Container, OnlyFor(t), UNCHANGED containerVars PROVE ContainerInv'
  BY <1>k, <1>o, <1>c, ContainerFrame
<1>d. ASSUME NEW t \in Target \ Database, OnlyFor(t), UNCHANGED databaseVars
      PROVE  /\ DatabaseInv' /\ CreatedIsEmpty'
             /\ \A d \in Guarded : dbs[d] = "inUse" => dbs'[d] = "inUse"
  BY <1>k, <1>o, <1>d, DatabaseFrame DEF databaseVars, Guarded
<1>m. ASSUME NEW t \in Target \ {Mail}, OnlyFor(t), UNCHANGED mailVars PROVE MailInv'
  BY <1>k, <1>o, <1>m, MailFrame
<1>1. CASE VhostWork
  <2>1. PICK v \in Vhost : VhostStep(v)
    BY <1>1 DEF VhostWork
  <2>2. JobTyped' /\ OnlyFor(v) /\ VhostInv'
    BY <2>1, VhostKeeps
  <2>3. v \in Target \ Container /\ v \in Target \ Database /\ v \in Target \ {Mail}
    BY <1>k
  <2> QED
    BY <1>1, <1>c, <1>d, <1>m, <2>2, <2>3 DEF VhostWork
<1>2. CASE ContainerWork
  <2>1. PICK c \in Container : ContainerStep(c)
    BY <1>2 DEF ContainerWork
  <2>2. JobTyped' /\ OnlyFor(c) /\ ContainerInv'
    BY <2>1, ContainerKeeps
  <2>3. c \in Target \ Vhost /\ c \in Target \ Database /\ c \in Target \ {Mail}
    BY <1>k
  <2> QED
    BY <1>2, <1>v, <1>d, <1>m, <2>2, <2>3 DEF ContainerWork
<1>3. CASE DatabaseWork
  <2>0. UNCHANGED <<vhostVars, containerVars, mailVars>>
    BY <1>3 DEF DatabaseWork
  <2>1. PICK d \in Database : DatabaseStep(d) \/ AppWrites(d) \/ RestoreByHand(d)
    BY <1>3 DEF DatabaseWork
  <2>2. CASE DatabaseStep(d)
    <3>1. /\ JobTyped' /\ OnlyFor(d) /\ DatabaseInv'
          /\ CreatedIsEmpty => /\ CreatedIsEmpty'
                               /\ d \in Guarded /\ dbs[d] = "inUse" => dbs'[d] = "inUse"
          /\ \A u \in Database \ {d} : dbs'[u] = dbs[u]
      BY <2>2, DatabaseKeeps
    <3>2. d \in Target \ Vhost /\ d \in Target \ Container /\ d \in Target \ {Mail}
      BY <1>k
    <3> QED
      BY <1>v, <1>c, <1>m, <2>0, <3>1, <3>2 DEF Guarded
  <2>3. CASE AppWrites(d) \/ RestoreByHand(d)
    <3>1. UNCHANGED <<job, applied, unsettled>>
      BY <2>3 DEF AppWrites, RestoreByHand, jobVars
    <3>2. JobTyped' /\ VhostInv' /\ ContainerInv' /\ MailInv'
      BY <2>0, <3>1
      DEF JobTyped, Settled, vhostVars, containerVars, mailVars,
          VhostInv, VhostType, ServedConfigurationIsValid, AppliedVhostIsServed, VhostAtWork,
          validateApacheConfiguration, ContainerInv, ContainerType, AppliedContainerRuns,
          ContainerAtWork, ContainerRuns, UnitKept, UnitBack, EnvKept, EnvBack,
          MailInv, MailType, AppliedMailServes, MailAtWork, ServiceAtWork
    <3> QED
      BY <2>3, <3>2, OthersWriteData DEF Guarded
  <2> QED
    BY <2>1, <2>2, <2>3
<1>4. CASE MailWork
  <2>1. JobTyped' /\ OnlyFor(Mail) /\ MailInv'
    BY <1>4, MailKeeps DEF MailWork
  <2>2. Mail \in Target \ Vhost /\ Mail \in Target \ Container /\ Mail \in Target \ Database
    BY <1>k
  <2> QED
    BY <1>4, <1>v, <1>c, <1>d, <2>1, <2>2 DEF MailWork
<1>5. CASE Crash
  BY <1>5, DeadJob, VhostDies, ContainerDies, DatabaseDies, MailDies DEF Crash, databaseVars, Guarded
<1>6. CASE UNCHANGED vars
  BY <1>6
  DEF vars, jobVars, JobTyped, Settled, vhostVars, containerVars, databaseVars, mailVars,
      VhostInv, VhostType, ServedConfigurationIsValid, AppliedVhostIsServed, VhostAtWork,
      validateApacheConfiguration, ContainerInv, ContainerType, AppliedContainerRuns,
      ContainerAtWork, ContainerRuns, UnitKept, UnitBack, EnvKept, EnvBack,
      DatabaseInv, DatabaseType, AppliedDatabaseLogsIn, DatabaseAtWork, Login, CreatedIsEmpty, Guarded,
      MailInv, MailType, AppliedMailServes, MailAtWork, ServiceAtWork
<1> QED
  BY <1>1, <1>2, <1>3, <1>4, <1>5, <1>6 DEF Next

(* Every variable has its type, the job at work included.                  *)
THEOREM HostTyped == Spec => []TypeOK
<1>1. HostInv => TypeOK
  BY DEF HostInv, VhostInv, ContainerInv, DatabaseInv, MailInv, TypeOK, JobTyped, JobRecord
<1>2. HostInv /\ [Next]_vars => HostInv'
  BY HostStepInv
<1> QED
  BY <1>1, <1>2, HostInitInv, PTL DEF Spec

(* The inductive invariant of the host: what each driver has done by every *)
(* step of its job, and what it leaves behind when the job fails or the    *)
(* agent dies.                                                             *)
THEOREM HostKept == Spec => []HostInv
<1>1. HostInv /\ [Next]_vars => HostInv'
  BY HostStepInv
<1> QED
  BY <1>1, HostInitInv, PTL DEF Spec

(* proxy.render: the virtual host last applied, and not in doubt since, is *)
(* on disk and in the running server.                                      *)
THEOREM VhostsServed == Spec => []AppliedVhostIsServed
<1>1. HostInv => AppliedVhostIsServed
  BY DEF HostInv, VhostInv
<1> QED
  BY <1>1, HostKept, PTL

(* proxy.render: whatever fails or dies, Apache never runs with a          *)
(* configuration its check refuses.                                        *)
THEOREM ServedVhostsAreValid == Spec => []ServedConfigurationIsValid
<1>1. HostInv => ServedConfigurationIsValid
  BY DEF HostInv, VhostInv
<1> QED
  BY <1>1, HostKept, PTL

(* container.reconcile: what was last applied, and is not in doubt since,  *)
(* is the unit and the environment the container was started with.         *)
THEOREM ContainersRun == Spec => []AppliedContainerRuns
<1>1. HostInv => AppliedContainerRuns
  BY DEF HostInv, ContainerInv
<1> QED
  BY <1>1, HostKept, PTL

(* database.reconcile: the password last applied logs in to the database.  *)
THEOREM DatabasesLogIn == Spec => []AppliedDatabaseLogsIn
<1>1. HostInv => AppliedDatabaseLogsIn
  BY DEF HostInv, DatabaseInv
<1> QED
  BY <1>1, HostKept, PTL

(* mail.sync: a mail service runs on the payload last applied or is down,  *)
(* the ones the report calls active run, and the published key signs.      *)
THEOREM MailServes == Spec => []AppliedMailServes
<1>1. HostInv => AppliedMailServes
  BY DEF HostInv, MailInv
<1> QED
  BY <1>1, HostKept, PTL

(* database.reconcile: no job, no failure and no death of the agent drops  *)
(* a database that holds data, unless it is a MariaDB one that a person    *)
(* restores: its driver reads whether there is one before it creates it,   *)
(* so one made in between counts as its own.                               *)
THEOREM GuardedDataStays ==
  Spec => [][\A d \in Guarded : dbs[d] = "inUse" => dbs'[d] = "inUse"]_vars
<1>1. HostInv /\ CreatedIsEmpty /\ [Next]_vars => (HostInv /\ CreatedIsEmpty)'
  BY HostStepInv
<1>2. HostInv /\ CreatedIsEmpty /\ [Next]_vars =>
        [\A d \in Guarded : dbs[d] = "inUse" => dbs'[d] = "inUse"]_vars
  BY HostStepInv
<1> QED
  BY <1>1, <1>2, HostInitInv, PTL DEF Spec

(* The same of all databases, when no MariaDB one is restored by hand.     *)
THEOREM DataNeverDropped ==
  ASSUME Restorable \cap Mariadb = {}
  PROVE  Spec => DataIsNeverDropped
<1>1. [\A d \in Guarded : dbs[d] = "inUse" => dbs'[d] = "inUse"]_vars =>
        [\A d \in Database : dbs[d] = "inUse" => dbs'[d] = "inUse"]_vars
  BY DEF Guarded
<1> QED
  BY <1>1, GuardedDataStays, PTL DEF DataIsNeverDropped

=============================================================================
