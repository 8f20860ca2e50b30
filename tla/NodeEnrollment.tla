--------------------------- MODULE NodeEnrollment ---------------------------
(***************************************************************************)
(* How a node gets and keeps its bearer token.  The agent registers with   *)
(* the enrollment token until it has one of its own; registerNode issues   *)
(* it to the first registration it accepts, stores its hash and from then  *)
(* on takes nothing else from that node.  The agent keeps the token in     *)
(* node-identity.json only after the reply has come back.  A connection    *)
(* may break while the server still works on the call, so calls of an      *)
(* agent that has given up or died go on beside the next one.              *)
(* Left out: the runtime snapshot, the audit rows, last_used_at, and other *)
(* nodes (every row and file here is one node's own).                      *)
(***************************************************************************)
EXTENDS Naturals

CONSTANTS Token,        \* tokens registerNode can issue (a bound)
          Bootstrap,    \* the enrollment token both sides are configured with
          NoToken,
          Call, NoCall  \* registrations in flight at once (a bound)

ASSUME EnrollmentAssumption ==
    /\ Bootstrap \notin Token /\ NoToken \notin Token /\ Bootstrap # NoToken
    /\ NoCall \notin Call

VARIABLES credential,   \* token whose hash control_plane_agent_node_credentials has
          issued,       \* tokens ever issued
          identity,     \* token in node-identity.json
          agent,        \* the cycle at work: step, token it holds, its call, snapshot due
          call,         \* registrations at the server: step, token presented, reply
          lost,         \* an issued token could not reach the agent's file
          quiet         \* no more deaths, broken connections or database errors

enrolVars == <<credential, issued, identity, agent, call, lost, quiet>>

Free == [step |-> "free", presents |-> NoToken, reply |-> NoToken]
Stopped == [step |-> "down", token |-> NoToken, call |-> NoCall, due |-> TRUE]

EnrolInit ==
    /\ credential = NoToken /\ issued = {} /\ identity = NoToken
    /\ agent = Stopped
    /\ call = [c \in Call |-> Free]
    /\ lost = FALSE /\ quiet = FALSE

-----------------------------------------------------------------------------
(* The agent's cycle.  createNodeSnapshot rewrites the identity with the   *)
(* token it found there; a registration is sent when there is no token or  *)
(* the snapshot is due.                                                    *)
RegistersWhenDue == agent.due          \* fault: no retry without a token

MustRegister == identity = NoToken \/ agent.due

BeginCycle(rewritten) ==
    /\ agent.step = "idle"
    /\ identity' = rewritten
    /\ \/ /\ MustRegister
          /\ \E c \in Call :
                /\ call[c] = Free
                /\ call' = [call EXCEPT ![c].step = "sent",
                                        ![c].presents = IF identity = NoToken
                                                          THEN Bootstrap ELSE identity]
                /\ agent' = [step |-> "register", token |-> identity, call |-> c, due |-> FALSE]
       \/ /\ ~MustRegister
          /\ agent' = [agent EXCEPT !.step = "save", !.token = identity]
          /\ call' = call
    /\ UNCHANGED <<credential, issued, lost, quiet>>

StartCycleAfresh == BeginCycle(NoToken)  \* fault: the token is not rewritten

StartCycle == BeginCycle(identity)

Answer == call[agent.call]

(* The reply: a token if one was issued, or the one presented goes on.     *)
Registered ==
    /\ agent.step = "register" /\ Answer.step = "accepted"
    /\ agent' = [agent EXCEPT !.step = "save", !.call = NoCall,
                              !.token = IF Answer.reply # NoToken THEN Answer.reply ELSE @]
    /\ call' = [call EXCEPT ![agent.call] = Free]
    /\ UNCHANGED <<credential, issued, identity, lost, quiet>>

Rejected ==
    /\ agent.step = "register" /\ Answer.step = "refused"
    /\ agent' = [agent EXCEPT !.step = "idle", !.call = NoCall]
    /\ call' = [call EXCEPT ![agent.call] = Free]
    /\ UNCHANGED <<credential, issued, identity, lost, quiet>>

(* Without a token nothing is saved and the cycle ends; with one it is     *)
(* written before reports are flushed and jobs claimed.                    *)
SaveIdentity ==
    /\ agent.step = "save"
    /\ identity' = IF agent.token = NoToken THEN identity ELSE agent.token
    /\ agent' = [agent EXCEPT !.step = IF agent.token = NoToken THEN "idle" ELSE "claim"]
    /\ UNCHANGED <<credential, issued, call, lost, quiet>>

(* claimJobs: jobs that were run make the next snapshot due.               *)
Claim ==
    /\ agent.step = "claim"
    /\ \E ran \in BOOLEAN :
          /\ ran => agent.token = credential
          /\ agent' = [agent EXCEPT !.step = "idle", !.token = NoToken, !.due = @ \/ ran]
    /\ UNCHANGED <<credential, issued, identity, call, lost, quiet>>

SnapshotGetsOld ==
    /\ agent.step = "idle" /\ agent' = [agent EXCEPT !.due = TRUE]
    /\ UNCHANGED <<credential, issued, identity, call, lost, quiet>>

HoldsNewToken == \/ agent.step = "save" /\ agent.token # identity
                 \/ agent.step = "register" /\ Answer.reply # NoToken

(* The call an agent gave up stays at the server if it is still at work.   *)
Abandon(c) == IF c # NoCall /\ call[c].step \in {"accepted", "refused"}
                THEN [call EXCEPT ![c] = Free] ELSE call

ConnectionBreaks ==
    /\ ~quiet /\ agent.step = "register"
    /\ lost' = (lost \/ HoldsNewToken)
    /\ call' = Abandon(agent.call)
    /\ agent' = [agent EXCEPT !.step = "idle", !.call = NoCall, !.token = NoToken]
    /\ UNCHANGED <<credential, issued, identity, quiet>>

AgentDies ==
    /\ ~quiet /\ agent.step # "down"
    /\ lost' = (lost \/ HoldsNewToken)
    /\ call' = Abandon(agent.call)
    /\ agent' = Stopped
    /\ UNCHANGED <<credential, issued, identity, quiet>>

AgentStarts ==
    /\ agent.step = "down" /\ agent' = [Stopped EXCEPT !.step = "idle"]
    /\ UNCHANGED <<credential, issued, identity, call, lost, quiet>>

-----------------------------------------------------------------------------
(* registerNode: the transaction reads the credential without a lock ...   *)
authenticateNode(c) == call[c].presents = credential

ReadCredential(c) ==
    /\ call[c].step = "sent"
    /\ call' = [call EXCEPT ![c].step =
                  IF credential # NoToken
                    THEN IF authenticateNode(c) THEN "accepted" ELSE "refused"
                    ELSE IF call[c].presents = Bootstrap THEN "issue" ELSE "refused"]
    /\ UNCHANGED <<credential, issued, identity, agent, lost, quiet>>

(* ... and a new token overwrites whatever is there when it commits.       *)
IssueToken(c) ==
    /\ call[c].step = "issue"
    /\ \E t \in Token \ issued :
          /\ credential' = t /\ issued' = issued \cup {t}
          /\ IF c = agent.call
               THEN /\ call' = [call EXCEPT ![c].step = "accepted", ![c].reply = t]
                    /\ lost' = lost
               ELSE call' = [call EXCEPT ![c] = Free] /\ lost' = TRUE
    /\ UNCHANGED <<identity, agent, quiet>>

(* The database fails: rolled back, and an error for the agent if it is    *)
(* still there.                                                            *)
RegistrationFails(c) ==
    /\ ~quiet /\ call[c].step \in {"sent", "issue"}
    /\ call' = [call EXCEPT ![c] = IF c = agent.call THEN [@ EXCEPT !.step = "refused"]
                                     ELSE Free]
    /\ UNCHANGED <<credential, issued, identity, agent, lost, quiet>>

(* The answer of a call nobody waits for is dropped.                       *)
DropAnswer(c) ==
    /\ c # agent.call /\ call[c].step \in {"accepted", "refused"}
    /\ call' = [call EXCEPT ![c] = Free]
    /\ UNCHANGED <<credential, issued, identity, agent, lost, quiet>>

EnrolQuiet == /\ ~quiet /\ quiet' = TRUE
              /\ UNCHANGED <<credential, issued, identity, agent, call, lost>>

-----------------------------------------------------------------------------
AgentCycle == StartCycle \/ Registered \/ Rejected \/ SaveIdentity \/ Claim \/ AgentStarts
ServeCall(c) == ReadCredential(c) \/ IssueToken(c) \/ DropAnswer(c)

EnrolNext == \/ AgentCycle \/ SnapshotGetsOld \/ ConnectionBreaks \/ AgentDies \/ EnrolQuiet
             \/ \E c \in Call : ServeCall(c) \/ RegistrationFails(c)

(* systemd restarts the agent, the agent cycles for ever, and the server   *)
(* ends the calls it has.                                                  *)
EnrolFairness == /\ WF_enrolVars(AgentCycle)
                 /\ \A c \in Call : WF_enrolVars(ServeCall(c))

EnrolSpec == EnrolInit /\ [][EnrolNext]_enrolVars /\ EnrolFairness

-----------------------------------------------------------------------------
(* Every variable has its type.                                            *)
EnrolTypeOK ==
    /\ credential \in Token \cup {NoToken} /\ issued \in SUBSET Token
    /\ identity \in Token \cup {NoToken}
    /\ agent \in [step : {"down", "idle", "register", "save", "claim"},
                  token : Token \cup {NoToken}, call : Call \cup {NoCall}, due : BOOLEAN]
    /\ call \in [Call -> [step : {"free", "sent", "issue", "accepted", "refused"},
                          presents : Token \cup {Bootstrap, NoToken},
                          reply : Token \cup {NoToken}]]
    /\ lost \in BOOLEAN /\ quiet \in BOOLEAN

(* registerNode and the agent's cycle: whatever restarts, retries and      *)
(* overlaps, the stored credential is the token in the agent's file or on  *)
(* its way there, so that no node is locked out, unless the one reply that *)
(* carried a token was lost.                                               *)
LockedOutOnlyByLoss ==
    lost \/ \/ credential \in {NoToken, identity}
            \/ agent.step = "save" /\ agent.token = credential
            \/ /\ agent.call # NoCall
               /\ Answer.step = "accepted" /\ Answer.reply = credential

(* The agent retries for ever: once faults stop, a node whose token was    *)
(* not lost is enrolled and stays so.                                      *)
NodeEnrols == <>[](quiet => lost \/ (credential # NoToken /\ identity = credential))
=============================================================================
