----------------------------- MODULE MailDriver -----------------------------
(***************************************************************************)
(* executeMailSyncJob for one mail domain: the DKIM key of the domain is   *)
(* generated once and its public half is reported; the rendered files go   *)
(* to the configuration root, then to the live directories of the four     *)
(* services, are checked by `postfix check' and `doveconf -n', and the     *)
(* services are restarted in turn.  Nothing is rolled back.  A service     *)
(* whose unit is missing, or that is not active after its restart, fails   *)
(* nothing: the job is reported applied and the report names it inactive.  *)
(* Left out: packages, Roundcube, MTA-STS documents, the firewall service, *)
(* ownership and SELinux labels; a command among them that throws ends the *)
(* job as MailError does.                                                  *)
(***************************************************************************)
EXTENDS HostJob

CONSTANTS Mail,            \* the target of mail.sync on this host
          MailPayload,
          Unsound,         \* the payloads whose live files the checks refuse
          Key, CutKey      \* DKIM keys, and a key file cut short

VARIABLES dkimKey,         \* the private key file
          reportedKey,     \* the key the last applied report publishes, or None
          rendered,        \* the payload the configuration root was written for
          live,            \* the payload the live files were written for
          serving,         \* per service: the payload it runs with, None while it is down
          reportedActive   \* the services the last applied report calls active

mailVars == <<dkimKey, reportedKey, rendered, live, serving, reportedActive>>

(* What the driver does after restarting each service, in its order.       *)
AfterRestart == [postfix |-> "dovecot", dovecot |-> "rspamd",
                 rspamd |-> "redis", redis |-> "report"]
Service == DOMAIN AfterRestart

MailInit == /\ dkimKey = None
            /\ reportedKey = None
            /\ rendered = None
            /\ live = None
            /\ serving = [s \in Service |-> None]
            /\ reportedActive = {}

(* Faults: every run generates a key; postfix is left running as it was.  *)
ensureDkimMaterialAfresh ==
    \/ /\ At(Mail, "key")
       /\ dkimKey' = CutKey
       /\ GoTo("generate")
    \/ /\ At(Mail, "generate")
       /\ dkimKey' \in Key
       /\ job' = [job EXCEPT !.step = "render", !.found = {"dkim"}]
       /\ UNCHANGED <<applied, unsettled>>

CheckMailOnly ==
    /\ At(Mail, "check")
    /\ live \notin Unsound
    /\ GoTo("dovecot")
    /\ UNCHANGED mailVars

(* ensureDkimMaterial generates a key only when there is no key file, and  *)
(* openssl creates the file before it has a key to write.                  *)
StartMail ==
    /\ \E p \in MailPayload : Start(Mail, p, "key", {})
    /\ UNCHANGED mailVars

ensureDkimMaterial ==
    \/ /\ At(Mail, "key") /\ dkimKey = None
       /\ dkimKey' = CutKey
       /\ GoTo("generate")
    \/ /\ At(Mail, "key") /\ dkimKey # None
       /\ job' = [job EXCEPT !.step = "render",
                             !.found = IF dkimKey = CutKey THEN {} ELSE {"dkim"}]
       /\ UNCHANGED <<applied, unsettled, dkimKey>>
    \/ /\ At(Mail, "generate")
       /\ dkimKey' \in Key
       /\ job' = [job EXCEPT !.step = "render", !.found = {"dkim"}]
       /\ UNCHANGED <<applied, unsettled>>
    \/ /\ At(Mail, "generate")
       /\ GoTo("render")
       /\ UNCHANGED dkimKey

DkimStep == ensureDkimMaterial /\ UNCHANGED <<reportedKey, rendered, live, serving, reportedActive>>

RenderMail ==
    /\ At(Mail, "render")
    /\ rendered' = job.payload
    /\ GoTo("install")
    /\ UNCHANGED <<dkimKey, reportedKey, live, serving, reportedActive>>

(* postconf, master.cf, dovecot and rspamd files, each from the rendered one. *)
InstallMail ==
    /\ At(Mail, "install")
    /\ live' = rendered
    /\ GoTo("check")
    /\ UNCHANGED <<dkimKey, reportedKey, rendered, serving, reportedActive>>

CheckMail ==
    /\ At(Mail, "check")
    /\ live \notin Unsound
    /\ GoTo("postfix")
    /\ UNCHANGED mailVars

(* ensureServiceEnabledAndRestarted: the service runs on the live files    *)
(* and is active; or there is no such unit, or `is-active' fails while it  *)
(* is down or still starting, and the job goes on all the same.            *)
RestartDone(active) ==
    /\ job' = [job EXCEPT !.step = AfterRestart[@], !.found = @ \cup active]
    /\ UNCHANGED <<applied, unsettled>>

(* Fault: a restart that returned is taken for an active service.          *)
RestartUnchecked ==
    /\ job.target = Mail /\ job.step \in Service
    /\ \E p \in {live, None} : serving' = [serving EXCEPT ![job.step] = p]
    /\ RestartDone({job.step})
    /\ UNCHANGED <<dkimKey, reportedKey, rendered, live, reportedActive>>

RestartMailService ==
    /\ job.target = Mail /\ job.step \in Service
    /\ \/ /\ serving' = [serving EXCEPT ![job.step] = live]
          /\ RestartDone({job.step})
       \/ /\ \E p \in {live, None} : serving' = [serving EXCEPT ![job.step] = p]
          /\ RestartDone({})
    /\ UNCHANGED <<dkimKey, reportedKey, rendered, live, reportedActive>>

(* The report publishes the key and says of each service if it is active.  *)
CompleteMail ==
    /\ At(Mail, "report")
    /\ reportedKey' = IF "dkim" \in job.found THEN dkimKey ELSE None
    /\ reportedActive' = job.found \cap Service
    /\ Applied
    /\ UNCHANGED <<dkimKey, rendered, live, serving>>

(* Any command may fail; a restart that fails may have stopped the service. *)
MailError ==
    /\ job.target = Mail /\ job.step # "report"
    /\ Failed(FALSE)
    /\ \/ serving' = serving
       \/ job.step \in Service /\ serving' = [serving EXCEPT ![job.step] = None]
    /\ UNCHANGED <<dkimKey, reportedKey, rendered, live, reportedActive>>

MailStep == \/ StartMail \/ DkimStep \/ RenderMail \/ InstallMail \/ CheckMail
            \/ RestartMailService \/ CompleteMail \/ MailError

MailType == /\ dkimKey \in Key \cup {None, CutKey}
            /\ reportedKey \in Key \cup {None}
            /\ rendered \in MailPayload \cup {None}
            /\ live \in MailPayload \cup {None}
            /\ serving \in [Service -> MailPayload \cup {None}]
            /\ reportedActive \subseteq Service
=============================================================================
