-------------------------- MODULE ControlServices --------------------------
(***************************************************************************)
(* The services around the job loop: processes that start on a migrated    *)
(* database, tokens of nodes, passwords shown to operators, records of     *)
(* DDNS clients, rows of apps and databases, the plans made from them, the *)
(* drift cache, backup generations and runtime releases.  What they share, *)
(* these modules leave out or repeat, so each behaviour is one at work.    *)
(***************************************************************************)
EXTENDS StoreStart, NodeEnrollment, MailboxReveals, DdnsRecords, ResourceTables,
        DriftCache, BackupRuns, Releases, ZonePlans, AppPlans

VARIABLE workload

vars == <<storeVars, enrolVars, revealVars, ddnsVars, tableVars,
          driftVars, backupVars, releaseVars, planVars, appVars, workload>>

Init == /\ StoreInit /\ EnrolInit /\ RevealInit /\ DdnsInit /\ TablesInit
        /\ DriftInit /\ BackupInit /\ ReleaseInit /\ PlanInit /\ AppInit
        /\ workload \in {"start", "enrol", "reveal", "ddns", "resources", "drift",
                         "backup", "release", "zonePlans", "appPlans"}

Starting == /\ workload = "start" /\ StoreNext
            /\ UNCHANGED <<enrolVars, revealVars, ddnsVars, tableVars, driftVars,
                           backupVars, releaseVars, planVars, appVars, workload>>

Enrolling == /\ workload = "enrol" /\ EnrolNext
             /\ UNCHANGED <<storeVars, revealVars, ddnsVars, tableVars, driftVars,
                            backupVars, releaseVars, planVars, appVars, workload>>

Revealing == /\ workload = "reveal" /\ RevealNext
             /\ UNCHANGED <<storeVars, enrolVars, ddnsVars, tableVars, driftVars,
                            backupVars, releaseVars, planVars, appVars, workload>>

Addressing == /\ workload = "ddns" /\ DdnsNext
              /\ UNCHANGED <<storeVars, enrolVars, revealVars, tableVars, driftVars,
                             backupVars, releaseVars, planVars, appVars, workload>>

Editing == /\ workload = "resources" /\ TablesNext
           /\ UNCHANGED <<storeVars, enrolVars, revealVars, ddnsVars, driftVars,
                          backupVars, releaseVars, planVars, appVars, workload>>

Watching == /\ workload = "drift" /\ DriftNext
            /\ UNCHANGED <<storeVars, enrolVars, revealVars, ddnsVars, tableVars,
                           backupVars, releaseVars, planVars, appVars, workload>>

BackingUp == /\ workload = "backup" /\ BackupNext
             /\ UNCHANGED <<storeVars, enrolVars, revealVars, ddnsVars, tableVars,
                            driftVars, releaseVars, planVars, appVars, workload>>

Releasing == /\ workload = "release" /\ ReleaseNext
             /\ UNCHANGED <<storeVars, enrolVars, revealVars, ddnsVars, tableVars,
                            driftVars, backupVars, planVars, appVars, workload>>

PlanningZones == /\ workload = "zonePlans" /\ PlanNext
                 /\ UNCHANGED <<storeVars, enrolVars, revealVars, ddnsVars, tableVars,
                                driftVars, backupVars, releaseVars, appVars, workload>>

PlanningApps == /\ workload = "appPlans" /\ AppPlanNext
                /\ UNCHANGED <<storeVars, enrolVars, revealVars, ddnsVars, tableVars,
                               driftVars, backupVars, releaseVars, planVars, workload>>

Next == Starting \/ Enrolling \/ Revealing \/ Addressing \/ Editing
        \/ Watching \/ BackingUp \/ Releasing \/ PlanningZones \/ PlanningApps

(* The fairness of each service, while it is the one at work.              *)
Fairness ==
    /\ \A p \in Process : /\ WF_storeVars(workload = "start" /\ StartStep(p))
                          /\ WF_storeVars(workload = "start" /\ RestartForRelease(p))
    /\ WF_enrolVars(workload = "enrol" /\ AgentCycle)
    /\ \A c \in Call : WF_enrolVars(workload = "enrol" /\ ServeCall(c))
    /\ WF_ddnsVars(workload = "ddns" /\ ApplyStep)
    /\ \A u \in Update : /\ WF_ddnsVars(workload = "ddns" /\ CallUpdate(u))
                         /\ WF_ddnsVars(workload = "ddns" /\ UpdateStep(u))
    /\ WF_driftVars(workload = "drift" /\ ExpireValue)
    /\ WF_driftVars(workload = "drift" /\ loadResourceDriftSummaries)
    /\ \A p \in Refresh :
          WF_driftVars(workload = "drift" /\ (buildResourceDriftSummaries(p) \/ SettlePromise(p)))

Spec == Init /\ [][Next]_vars /\ Fairness
=============================================================================
