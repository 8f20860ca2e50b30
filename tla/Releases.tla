------------------------------ MODULE Releases ------------------------------
(***************************************************************************)
(* The releases of the control runtime on one host: install-release.sh and *)
(* rollback-release.sh move the `current' link, a deployment from another  *)
(* host copies a release and moves it too, and the storage maintenance     *)
(* removes old releases when the disk fills up.  The pass looks at the     *)
(* releases, then at the processes, then removes what it saw.              *)
(* Left out: the release metadata (more names that are kept, as pins are), *)
(* the temporary directories, container images and the capacity report.    *)
(***************************************************************************)
EXTENDS Naturals, Sequences, SequencesExt

CONSTANTS Release,
          Pinned,        \* SIMPLEHOST_STORAGE_PINNED_RELEASES
          Keep,          \* newest releases always kept
          NoRelease,
          Operations     \* installations and rollbacks modelled (a bound)

ASSUME ReleaseAssumption ==
    Pinned \subseteq Release /\ Keep \in Nat /\ NoRelease \notin Release /\ Operations \in Nat

VARIABLES present,    \* complete release directories, the last modified first
          aged,       \* releases older than releaseMinAgeDays
          current,    \* the release the link points to
          job,        \* the operation at work: what, step, release
          done,       \* operations begun
          sweep,      \* the maintenance pass: step, candidates, active release it saw
          switched    \* releases made current since the pass looked

releaseVars == <<present, aged, current, job, done, sweep, switched>>

NoJob == [step |-> "idle", of |-> "none", release |-> NoRelease]
NoPass == [step |-> "idle", candidates |-> {}, active |-> NoRelease]

ReleaseInit ==
    /\ present = <<>> /\ aged = {} /\ current = NoRelease
    /\ job = NoJob /\ done = 0
    /\ sweep = NoPass
    /\ switched = {}

Without(r) == IF r \in ToSet(present)
                THEN RemoveAt(present, CHOOSE i \in DOMAIN present : present[i] = r)
                ELSE present
Link(r) == current' = r /\ switched' = switched \cup {r}

-----------------------------------------------------------------------------
(* One operation at a time, by hand.                                       *)
StartOperation(what, r) ==
    /\ job = NoJob /\ done < Operations /\ done' = done + 1
    /\ what = "rollback" => r \in ToSet(present)
    /\ job' = [step |-> IF what = "install" THEN "build" ELSE IF what = "deploy" THEN "copy"
                        ELSE "link", of |-> what, release |-> r]
    /\ UNCHANGED <<present, aged, current, sweep, switched>>

(* rm -rf of the release that is installed again ...                       *)
RemoveOld ==
    /\ job.step = "build" /\ job' = [job EXCEPT !.step = "move"]
    /\ present' = Without(job.release)
    /\ UNCHANGED <<aged, current, done, sweep, switched>>

(* ... and mv of the new build in its place.                               *)
MoveBuild ==
    /\ job.step = "move" /\ job' = [job EXCEPT !.step = "link"]
    /\ present' = <<job.release>> \o Without(job.release)
    /\ aged' = aged \ {job.release}
    /\ UNCHANGED <<current, done, sweep, switched>>

(* rsync -a from the host of the deployment keeps the modification time.   *)
CopyRelease ==
    /\ job.step = "copy" /\ job' = [job EXCEPT !.step = "link"]
    /\ \/ present' = <<job.release>> \o Without(job.release) /\ aged' = aged \ {job.release}
       \/ present' = Without(job.release) \o <<job.release>> /\ aged' = aged \cup {job.release}
    /\ UNCHANGED <<current, done, sweep, switched>>

LinkCurrent ==
    /\ job.step = "link" /\ job' = NoJob
    /\ Link(job.release)
    /\ UNCHANGED <<present, aged, done, sweep>>

OperationFails ==
    /\ job # NoJob /\ job' = NoJob
    /\ UNCHANGED <<present, aged, current, done, sweep, switched>>

ReleaseAges(r) ==
    /\ r \in ToSet(present) \ aged
    /\ \A i \in DOMAIN present : \A j \in 1..(i - 1) :
          present[j] = r => present[i] \in aged           \* the older ones first
    /\ aged' = aged \cup {r}
    /\ UNCHANGED <<present, current, job, done, sweep, switched>>

-----------------------------------------------------------------------------
(* resolveActiveRelease.  Fault: the link is not resolved.                *)
NothingActive == NoRelease

resolveActiveRelease == current

selectReleaseCandidates ==
    {r \in ToSet(present) \cap aged :
        /\ r \notin Pinned \cup {resolveActiveRelease}
        /\ \E i \in DOMAIN present : present[i] = r /\ i > Keep}

TakeInventory ==
    /\ sweep.step = "idle"
    /\ sweep' = [step |-> "check", candidates |-> selectReleaseCandidates,
                 active |-> resolveActiveRelease]
    /\ switched' = {}
    /\ UNCHANGED <<present, aged, current, job, done>>

(* The processes and the backup runner's state, after the inventory: an    *)
(* installation stops the pass, a rollback or a deployment from elsewhere  *)
(* has no process it looks for.                                            *)
CheckBlockers ==
    /\ sweep.step = "check"
    /\ \E backupRuns, full \in BOOLEAN :
          sweep' = IF job.of = "install" \/ backupRuns \/ ~full
                    THEN NoPass ELSE [sweep EXCEPT !.step = "remove"]
    /\ UNCHANGED <<present, aged, current, job, done, switched>>

(* removeReleaseCandidate: what has gone already is an error of the report. *)
removeReleaseCandidate ==
    /\ sweep.step = "remove"
    /\ \E r \in sweep.candidates :
          /\ present' = IF r = sweep.active THEN present ELSE Without(r)
          /\ sweep' = [sweep EXCEPT !.candidates = @ \ {r}]
    /\ UNCHANGED <<aged, current, job, done, switched>>

EndPass ==
    /\ sweep.step = "remove" /\ sweep.candidates = {} /\ sweep' = NoPass
    /\ UNCHANGED <<present, aged, current, job, done, switched>>

ReleaseNext ==
    \/ RemoveOld \/ MoveBuild \/ CopyRelease \/ LinkCurrent \/ OperationFails
    \/ TakeInventory \/ CheckBlockers \/ removeReleaseCandidate \/ EndPass
    \/ \E r \in Release :
          \/ ReleaseAges(r)
          \/ \E what \in {"install", "rollback", "deploy"} : StartOperation(what, r)

ReleaseSpec == ReleaseInit /\ [][ReleaseNext]_releaseVars

-----------------------------------------------------------------------------
(* Every variable has its type.                                            *)
ReleaseTypeOK ==
    /\ present \in Seq(Release) /\ IsInjective(present)
    /\ aged \subseteq Release /\ switched \subseteq Release
    /\ current \in Release \cup {NoRelease}
    /\ job \in [step : {"idle", "build", "move", "copy", "link"},
                of : {"none", "install", "rollback", "deploy"},
                release : Release \cup {NoRelease}]
    /\ done \in 0..Operations
    /\ sweep \in [step : {"idle", "check", "remove"}, candidates : SUBSET Release,
                  active : Release \cup {NoRelease}]

(* The maintenance pass beside installations, rollbacks and deployments:   *)
(* the release the link points to disappears only while it is itself       *)
(* installed again, or if the link was moved to it after the pass looked.  *)
ActiveReleaseIsKept ==
    [][(current \in ToSet(present) /\ current \notin ToSet(present')) =>
          \/ job.step = "build" /\ job.release = current
          \/ sweep.step = "remove" /\ current \in switched]_releaseVars
=============================================================================
