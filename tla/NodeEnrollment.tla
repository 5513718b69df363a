---------------------------- MODULE NodeEnrollment ----------------------------
(***************************************************************************)
(* How a host becomes a node of the Server: an operator's Apply installs   *)
(* the agent over SSH with a token that is good for one enrollment, the     *)
(* agent names itself, trades the token for a credential, registers and     *)
(* sends heartbeats, the Apply watches it past the end of the SSH session,  *)
(* the command line rotates the credential, and operators revoke            *)
(* credentials and retire the node. There is one host; its processes race,  *)
(* die, and lose requests and answers.                                      *)
(***************************************************************************)
EXTENDS Integers, Sequences, FiniteSets

CONSTANTS
  Apply,      \* requests to install the agent on the host, each with a token
  Cli,        \* the process of `setpoint-agent -rotate-credential`
  None,       \* no value
  MaxCreds,   \* bound: credentials the Server issues
  MaxFaults,  \* bound: failing commands, lost messages, deaths
  MaxActs     \* bound: what operators do besides the installation

ASSUME NamesAssumption == Cli \notin Apply /\ None \notin Apply \union {Cli}
ASSUME BoundAssumption == MaxCreds \in Nat \ {0} /\ MaxFaults \in Nat /\ MaxActs \in Nat

\* The daemon an Apply starts goes by the name of the Apply.
Proc == Apply \union {Cli}

VARIABLES
  apc,       \* where the Apply is
  open,      \* its SSH transport is open
  agentID,   \* the identity it read on the host
  fresh,     \* the node was seen after the moment the Apply waits from
  again,     \* the node was seen after the Apply had seen it online
  dirty,     \* one of its clean-ups failed, or the Server died under it
  token,     \* enrollment_tokens: the row of the Apply's token
  creds,     \* agent_credentials, in the order of their creation
  node,      \* nodes: the row of an identity
  host,      \* the agent's files
  proc,      \* the agent's processes
  budget     \* faults and acts that may still happen

apply == <<apc, open, agentID, fresh, again, dirty>>
vars == <<apc, open, agentID, fresh, again, dirty, token, creds, node, host, proc, budget>>

-----------------------------------------------------------------------------

ApplyPc == {"idle", "connected", "probed", "resolved", "selected", "staging",
            "uploaded", "staged", "issued", "written", "tested", "promoted",
            "started", "identified", "online", "closed", "adopted", "assigned",
            "undoToken", "undoRevoke", "undoStaging", "failed", "ok", "gone"}
ProcPc == {"off", "boot", "generated", "named", "enrolling", "holding", "ready",
           "admitted", "running", "beating", "rotated", "saved"}

Off == [pc |-> "off", id |-> None, cred |-> 0, token |-> None]

TypeOK ==
  /\ apc \in [Apply -> ApplyPc]
  /\ open \in [Apply -> BOOLEAN] /\ fresh \in [Apply -> BOOLEAN]
  /\ again \in [Apply -> BOOLEAN] /\ dirty \in [Apply -> BOOLEAN]
  /\ agentID \in [Apply -> Proc \union {None}]
  /\ token \in [Apply -> {"none", "live", "used", "revoked", "expired"}]
  /\ Len(creds) \in 0 .. MaxCreds
  /\ \A c \in DOMAIN creds :
       creds[c] \in [agent : Proc, from : 0 .. (c - 1), revoked : BOOLEAN, barred : BOOLEAN]
  /\ node \in [Proc -> {"absent", "registered", "retired"}]
  /\ host \in [binary : BOOLEAN, token : Apply \union {None}, id : Proc \union {None},
               cred : 0 .. MaxCreds, staging : SUBSET Apply]
  /\ proc \in [Proc -> [pc : ProcPc, id : Proc \union {None}, cred : 0 .. MaxCreds,
                        token : Apply \union {None}]]
  /\ budget \in [fault : 0 .. MaxFaults, act : 0 .. MaxActs]

Init ==
  /\ apc = [a \in Apply |-> "idle"] /\ open = [a \in Apply |-> FALSE]
  /\ agentID = [a \in Apply |-> None]
  /\ fresh = [a \in Apply |-> FALSE] /\ again = [a \in Apply |-> FALSE]
  /\ dirty = [a \in Apply |-> FALSE]
  /\ token = [a \in Apply |-> "none"]
  /\ creds = <<>> /\ node = [p \in Proc |-> "absent"]
  /\ host = [binary |-> FALSE, token |-> None, id |-> None, cred |-> 0, staging |-> {}]
  /\ proc = [p \in Proc |-> Off]
  /\ budget = [fault |-> MaxFaults, act |-> MaxActs]

Fault == budget.fault > 0 /\ budget' = [budget EXCEPT !.fault = @ - 1]
Act == budget.act > 0 /\ budget' = [budget EXCEPT !.act = @ - 1]

-----------------------------------------------------------------------------
(* The Server's tables.                                                    *)

Credential(agent, from) == [agent |-> agent, from |-> from, revoked |-> FALSE, barred |-> FALSE]

Authentic(c, id) == c \in DOMAIN creds /\ creds[c].agent = id /\ ~creds[c].revoked

\* The first use of a credential that replaces another one revokes the one it
\* replaces, and the other replacements of that one.
Superseded(c) ==
  IF creds[c].from = 0 THEN {}
  ELSE {d \in DOMAIN creds : d = creds[c].from \/ (creds[d].from = creds[c].from /\ d # c)}
Activated(c) ==
  [d \in DOMAIN creds |-> [creds[d] EXCEPT !.revoked = @ \/ d \in Superseded(c)]]

\* A mistake the properties must catch: the credential in use is revoked when
\* its replacement is issued, not when it is first used.
RotateEagerly(c) ==
  creds' = Append([Activated(c) EXCEPT ![c].revoked = TRUE], Credential(creds[c].agent, c))

RotateAgentCredential(c) == creds' = Append(Activated(c), Credential(creds[c].agent, c))

\* The credentials that stem from c, and c: the least set with c that holds
\* whatever replaces a member.
Heirs(S) == {d \in DOMAIN creds : creds[d].from \in S}
Line(c) ==
  {d \in DOMAIN creds : \A S \in SUBSET DOMAIN creds : c \in S /\ Heirs(S) \subseteq S => d \in S}

Revoke(C) ==
  creds' = [d \in DOMAIN creds |->
              IF d \in C THEN [creds[d] EXCEPT !.revoked = TRUE, !.barred = TRUE] ELSE creds[d]]

RevokeAgentCredential(c) == Revoke(Line(c))

\* A mistake the properties must catch: an upsert brings a retired node back.
ContactAny(id, registering) ==
  /\ registering \/ node[id] # "absent"
  /\ node' = [node EXCEPT ![id] = "registered"]

\* RegisterNode writes the row of a node that is not retired, RecordHeartbeat
\* that of one that is also known.
Contact(id, registering) ==
  /\ node[id] # "retired" /\ (registering \/ node[id] = "registered")
  /\ node' = [node EXCEPT ![id] = "registered"]

\* Whoever waits for the node learns that it was seen.
Seen(id) ==
  /\ fresh' = [a \in Apply |-> fresh[a] \/ agentID[a] \in {None, id}]
  /\ again' = [a \in Apply |->
                 again[a] \/ (apc[a] \in {"online", "closed"} /\ agentID[a] = id)]

-----------------------------------------------------------------------------
(* Apply, the installation over SSH. Each step is a command on the host or *)
(* a transaction of the Server.                                            *)

Goto(a, here, there) == apc[a] = here /\ apc' = [apc EXCEPT ![a] = there]

\* The clean-ups that are due where the Apply gives up: the token file is
\* removed if the transport is still open, the token is revoked, the staging
\* directory removed.
Unwind(a) ==
  IF apc[a] \in {"written", "tested", "promoted", "started", "identified", "online"} /\ open[a]
    THEN "undoToken"
  ELSE IF apc[a] \in {"issued", "written", "closed", "adopted"} THEN "undoRevoke"
  ELSE IF apc[a] \in {"selected", "staging", "uploaded", "staged"} THEN "undoStaging"
  ELSE "failed"

\* The request, or the host key behind it, is not what the operator confirmed,
\* or the host does not answer.
ConnectRefused(a) ==
  /\ Goto(a, "idle", "failed")
  /\ UNCHANGED <<open, agentID, fresh, again, dirty, token, creds, node, host, proc, budget>>

\* The session is opened, through the gateway where one is named.
Connect(a) ==
  /\ Goto(a, "idle", "connected") /\ open' = [open EXCEPT ![a] = TRUE]
  /\ UNCHANGED <<agentID, fresh, again, dirty, token, creds, node, host, proc, budget>>

\* ProbeHost: an agent that is present ends the Apply.
Probe(a) ==
  /\ apc[a] = "connected"
  /\ apc' = [apc EXCEPT ![a] = IF host.binary THEN "failed" ELSE "probed"]
  /\ open' = [open EXCEPT ![a] = ~host.binary]
  /\ UNCHANGED <<agentID, fresh, again, dirty, token, creds, node, host, proc, budget>>

\* The address the agent will call back: the advertised one, or the only one
\* of the Server's own that routes to the host and that it listens on.
ResolveCallback(a) ==
  /\ Goto(a, "probed", "resolved")
  /\ UNCHANGED <<open, agentID, fresh, again, dirty, token, creds, node, host, proc, budget>>

\* The approved agent for the host's system and architecture.
SelectArtifact(a) ==
  /\ Goto(a, "resolved", "selected")
  /\ UNCHANGED <<open, agentID, fresh, again, dirty, token, creds, node, host, proc, budget>>

\* No callback address, or more than one, no install profile or no artifact
\* fits the host.
Unfit(a) ==
  /\ apc[a] \in {"probed", "resolved"} /\ apc' = [apc EXCEPT ![a] = "failed"]
  /\ open' = [open EXCEPT ![a] = FALSE]
  /\ UNCHANGED <<agentID, fresh, again, dirty, token, creds, node, host, proc, budget>>

PrepareStaging(a) ==
  /\ Goto(a, "selected", "staging")
  /\ host' = [host EXCEPT !.staging = @ \union {a}]
  /\ UNCHANGED <<open, agentID, fresh, again, dirty, token, creds, node, proc, budget>>

UploadAgent(a) ==
  /\ Goto(a, "staging", "uploaded")
  /\ UNCHANGED <<open, agentID, fresh, again, dirty, token, creds, node, host, proc, budget>>

\* The digest of what was uploaded is compared, and the agent itself, run on
\* the host, finds the Server ready; or the installation ends here.
VerifyAgent(a) ==
  /\ apc[a] = "uploaded" /\ \E there \in {"staged", Unwind(a)} : apc' = [apc EXCEPT ![a] = there]
  /\ UNCHANGED <<open, agentID, fresh, again, dirty, token, creds, node, host, proc, budget>>

IssueBootstrapEnrollment(a) ==
  /\ Goto(a, "staged", "issued")
  /\ token' = [token EXCEPT ![a] = "live"]
  /\ UNCHANGED <<open, agentID, fresh, again, dirty, creds, node, host, proc, budget>>

\* The configuration and the token are written to the staging directory, and
\* the removal of the token file is due from here on.
WriteBootstrapFiles(a) ==
  /\ Goto(a, "issued", "written")
  /\ UNCHANGED <<open, agentID, fresh, again, dirty, token, creds, node, host, proc, budget>>

\* The shell's `test ! -e` of the agent's binary, then its three `mv`.
PromoteTest(a) ==
  /\ apc[a] = "written"
  /\ apc' = [apc EXCEPT ![a] = IF host.binary THEN Unwind(a) ELSE "tested"]
  /\ UNCHANGED <<open, agentID, fresh, again, dirty, token, creds, node, host, proc, budget>>

PromoteMove(a) ==
  /\ Goto(a, "tested", "promoted")
  /\ host' = [host EXCEPT !.binary = TRUE, !.token = a]
  /\ fresh' = [fresh EXCEPT ![a] = FALSE]
  /\ UNCHANGED <<open, agentID, again, dirty, token, creds, node, proc, budget>>

StartAgent(a) ==
  /\ Goto(a, "promoted", "started")
  /\ proc' = IF proc[a].pc = "off" THEN [proc EXCEPT ![a].pc = "boot"] ELSE proc
  /\ UNCHANGED <<open, agentID, fresh, again, dirty, token, creds, node, host, budget>>

WaitAgentID(a) ==
  /\ host.id # None /\ Goto(a, "started", "identified")
  /\ agentID' = [agentID EXCEPT ![a] = host.id]
  /\ UNCHANGED <<open, fresh, again, dirty, token, creds, node, host, proc, budget>>

\* The moment the second wait starts from is later than the contact seen here.
WaitOnline(a) ==
  /\ Goto(a, "identified", "online") /\ fresh[a] /\ node[agentID[a]] = "registered"
  /\ fresh' = [fresh EXCEPT ![a] = FALSE]
  /\ UNCHANGED <<open, agentID, again, dirty, token, creds, node, host, proc, budget>>

\* Closing the session may take the agent with it.
CloseTransport(a) ==
  /\ Goto(a, "online", "closed") /\ open' = [open EXCEPT ![a] = FALSE]
  /\ \/ UNCHANGED <<proc, budget>>
     \/ proc[a].pc # "off" /\ Fault /\ proc' = [proc EXCEPT ![a] = Off]
  /\ UNCHANGED <<agentID, fresh, again, dirty, token, creds, node, host>>

WaitHeartbeat(a) ==
  /\ Goto(a, "closed", "adopted") /\ fresh[a] /\ node[agentID[a]] = "registered"
  /\ UNCHANGED <<open, agentID, fresh, again, dirty, token, creds, node, host, proc, budget>>

\* When a site was asked for, UpdateNode finds the node, writes its site, and
\* finds it again; otherwise nobody looks whether the node is still there.
AssignSite(a) ==
  /\ apc[a] = "adopted"
  /\ \E site \in BOOLEAN :
       apc' = [apc EXCEPT ![a] =
                 IF ~site \/ node[agentID[a]] = "registered" THEN "assigned" ELSE Unwind(a)]
  /\ UNCHANGED <<open, agentID, fresh, again, dirty, token, creds, node, host, proc, budget>>

Revoked(a) == [token EXCEPT ![a] = IF @ = "live" THEN "revoked" ELSE @]

\* The token is revoked; an error is tried again on the way out. The staging
\* directory stays, for the session that would remove it is closed.
ApplyDone(a) ==
  /\ Goto(a, "assigned", "ok")
  /\ \/ token' = Revoked(a) /\ UNCHANGED <<dirty, budget>>
     \/ Fault /\ dirty' = [dirty EXCEPT ![a] = TRUE] /\ token' = token
  /\ UNCHANGED <<open, agentID, fresh, again, creds, node, host, proc>>

\* A wait of the Apply runs out of time.
TimesOut(a) ==
  /\ apc[a] \in {"started", "identified", "closed"}
  /\ apc' = [apc EXCEPT ![a] = Unwind(a)]
  /\ UNCHANGED <<open, agentID, fresh, again, dirty, token, creds, node, host, proc, budget>>

\* A command on the host or a transaction of the Server fails under the Apply.
\* Commands that are done before they are known to be done are done here too:
\* the files may have been moved, the agent may have been started.
CommandFails(a) ==
  /\ apc[a] \in {"connected", "selected", "staging", "uploaded", "staged", "issued",
                 "written", "tested", "promoted", "online", "adopted"}
  /\ Fault /\ apc' = [apc EXCEPT ![a] = Unwind(a)]
  /\ open' = [open EXCEPT ![a] = @ /\ apc'[a] # "failed"]
  /\ \/ UNCHANGED <<host, proc>>
     \/ apc[a] = "tested" /\ host' = [host EXCEPT !.binary = TRUE, !.token = a] /\ proc' = proc
     \/ apc[a] = "promoted" /\ proc[a].pc = "off" /\ host' = host
        /\ proc' = [proc EXCEPT ![a].pc = "boot"]
  /\ UNCHANGED <<agentID, fresh, again, dirty, token, creds, node>>

\* The deferred clean-ups, last one first. Each may fail, which nobody hears.
CleanupEnrollmentToken(a) ==
  /\ Goto(a, "undoToken", "undoRevoke")
  /\ \/ host' = [host EXCEPT !.token = None] /\ UNCHANGED <<dirty, budget>>
     \/ Fault /\ dirty' = [dirty EXCEPT ![a] = TRUE] /\ host' = host
  /\ UNCHANGED <<open, agentID, fresh, again, token, creds, node, proc>>

\* A mistake the properties must catch: the token of an Apply that gives up is
\* left to expire.
RevokeOnTheWayOut_Not(a) ==
  /\ Goto(a, "undoRevoke", "undoStaging")
  /\ UNCHANGED <<open, agentID, fresh, again, dirty, token, creds, node, host, proc, budget>>

RevokeOnTheWayOut(a) ==
  /\ Goto(a, "undoRevoke", "undoStaging")
  /\ \/ token' = Revoked(a) /\ UNCHANGED <<dirty, budget>>
     \/ Fault /\ dirty' = [dirty EXCEPT ![a] = TRUE] /\ token' = token
  /\ UNCHANGED <<open, agentID, fresh, again, creds, node, host, proc>>

\* The directory stays when the session that would remove it is closed.
CleanupStaging(a) ==
  /\ Goto(a, "undoStaging", "failed") /\ open' = [open EXCEPT ![a] = FALSE]
  /\ IF ~open[a] THEN UNCHANGED <<host, dirty, budget>>
     ELSE \/ host' = [host EXCEPT !.staging = @ \ {a}] /\ UNCHANGED <<dirty, budget>>
          \/ Fault /\ dirty' = [dirty EXCEPT ![a] = TRUE] /\ host' = host
  /\ UNCHANGED <<agentID, fresh, again, token, creds, node, proc>>

\* The Server's process dies: what it had deferred is not done.
ServerDies ==
  /\ Fault /\ \E a \in Apply : apc[a] \notin {"idle", "failed", "ok", "gone"}
  /\ apc' = [a \in Apply |-> IF apc[a] \in {"idle", "failed", "ok"} THEN apc[a] ELSE "gone"]
  /\ dirty' = [a \in Apply |-> dirty[a] \/ apc'[a] = "gone"]
  /\ open' = [a \in Apply |-> FALSE]
  /\ UNCHANGED <<agentID, fresh, again, token, creds, node, host, proc>>

-----------------------------------------------------------------------------
(* The agent's processes: daemons, and the command line.                   *)

At(p, here, there) == proc[p].pc = here /\ proc' = [proc EXCEPT ![p].pc = there]
Exits(p) == proc' = [proc EXCEPT ![p] = Off]

\* Somebody on the host starts the daemon again, or rotates its credential.
RunByHand(p) ==
  /\ host.binary /\ Act /\ proc[p].pc = "off"
  /\ proc' = [proc EXCEPT ![p].pc = "boot"]
  /\ UNCHANGED <<apply, token, creds, node, host>>

\* LoadOrCreateID: the file is read, or an identity generated.
ReadID(p) ==
  /\ proc[p].pc = "boot"
  /\ proc' = [proc EXCEPT ![p].id = host.id,
                          ![p].pc = IF host.id = None THEN "generated" ELSE "named"]
  /\ UNCHANGED <<apply, token, creds, node, host, budget>>

\* ... and linked to its name, unless another process was first.
LinkID(p) ==
  /\ proc[p].pc = "generated"
  /\ host' = [host EXCEPT !.id = IF @ = None THEN p ELSE @]
  /\ proc' = [proc EXCEPT ![p].id = host'.id, ![p].pc = "named"]
  /\ UNCHANGED <<apply, token, creds, node, budget>>

\* BootstrapCredential: the stored credential, or else the token file, which
\* is read and removed; without either the process ends.
LoadCredential(p) ==
  /\ proc[p].pc = "named" /\ host.cred # 0
  /\ proc' = [proc EXCEPT ![p].cred = host.cred, ![p].pc = "ready"]
  /\ UNCHANGED <<apply, token, creds, node, host, budget>>

ConsumeEnrollmentToken(p) ==
  /\ proc[p].pc = "named" /\ host.cred = 0
  /\ IF host.token = None THEN Exits(p) /\ host' = host
     ELSE /\ proc' = [proc EXCEPT ![p].token = host.token, ![p].pc = "enrolling"]
          /\ host' = [host EXCEPT !.token = None]
  /\ UNCHANGED <<apply, token, creds, node, budget>>

\* EnrollAgentCredential; the answer may get lost on its way back, which ends
\* the process as a refusal does.
Enroll(p) ==
  /\ proc[p].pc = "enrolling" /\ Len(creds) < MaxCreds
  /\ token[proc[p].token] = "live"
  /\ token' = [token EXCEPT ![proc[p].token] = "used"]
  /\ creds' = Append(creds, Credential(proc[p].id, 0))
  /\ \/ proc' = [proc EXCEPT ![p].cred = Len(creds'), ![p].token = None, ![p].pc = "holding"]
        /\ UNCHANGED budget
     \/ Fault /\ Exits(p)
  /\ UNCHANGED <<apply, node, host>>

EnrollRefused(p) ==
  /\ proc[p].pc = "enrolling" /\ token[proc[p].token] # "live" /\ Exits(p)
  /\ UNCHANGED <<apply, token, creds, node, host, budget>>

\* SaveCredential: a file replaced as a whole. A process that has just enrolled
\* starts over without the token.
SaveCredential(p) ==
  /\ proc[p].pc \in {"holding", "rotated"}
  /\ host' = [host EXCEPT !.cred = proc[p].cred]
  /\ proc' = [proc EXCEPT ![p] = IF proc[p].pc = "holding" THEN [Off EXCEPT !.pc = "boot"]
                                 ELSE [@ EXCEPT !.pc = "saved"]]
  /\ UNCHANGED <<apply, token, creds, node, budget>>

\* The new file cannot be installed; the old one, if any, is still there.
SaveFails(p) ==
  /\ proc[p].pc \in {"holding", "rotated"} /\ Fault /\ Exits(p)
  /\ UNCHANGED <<apply, token, creds, node, host>>

\* RotateAndPersistCredential: the Server issues a replacement of the
\* credential that is presented; the answer may get lost.
Rotate(p) ==
  /\ p = Cli /\ proc[p].pc = "ready" /\ Len(creds) < MaxCreds
  /\ Authentic(proc[p].cred, proc[p].id) /\ RotateAgentCredential(proc[p].cred)
  /\ \/ proc' = [proc EXCEPT ![p].cred = Len(creds'), ![p].pc = "rotated"] /\ UNCHANGED budget
     \/ Fault /\ Exits(p)
  /\ UNCHANGED <<apply, token, node, host>>

\* AuthenticateAgent, the transaction before that of a registration or a
\* heartbeat. A refusal ends the process.
Authenticate(p) ==
  /\ proc[p].pc \in {"running", "saved"} \/ (proc[p].pc = "ready" /\ p # Cli)
  /\ IF Authentic(proc[p].cred, proc[p].id)
     THEN creds' = Activated(proc[p].cred)
          /\ proc' = [proc EXCEPT ![p].pc = IF @ = "running" THEN "beating" ELSE "admitted"]
     ELSE creds' = creds /\ Exits(p)
  /\ UNCHANGED <<apply, token, node, host, budget>>

RotateRefused(p) ==
  /\ p = Cli /\ proc[p].pc = "ready" /\ ~Authentic(proc[p].cred, proc[p].id) /\ Exits(p)
  /\ UNCHANGED <<apply, token, creds, node, host, budget>>

\* Where the process goes when its contact was recorded, and when it was not
\* or it does not know: the command line ends, the daemon registers again.
After(p) == IF p = Cli THEN Off ELSE [proc[p] EXCEPT !.pc = "running"]
Otherwise(p) == IF p = Cli THEN Off ELSE [proc[p] EXCEPT !.pc = "ready"]

Register(p) ==
  /\ proc[p].pc = "admitted" /\ Contact(proc[p].id, TRUE) /\ Seen(proc[p].id)
  /\ \/ proc' = [proc EXCEPT ![p] = After(p)] /\ UNCHANGED budget
     \/ Fault /\ proc' = [proc EXCEPT ![p] = Otherwise(p)]
  /\ UNCHANGED <<apc, open, agentID, dirty, token, creds, host>>

Heartbeat(p) ==
  /\ proc[p].pc = "beating" /\ Contact(proc[p].id, FALSE) /\ Seen(proc[p].id)
  /\ \/ proc' = [proc EXCEPT ![p] = After(p)] /\ UNCHANGED budget
     \/ Fault /\ proc' = [proc EXCEPT ![p] = Otherwise(p)]
  /\ UNCHANGED <<apc, open, agentID, dirty, token, creds, host>>

\* The node is retired, which is no reason for the daemon to end.
ContactRefused(p) ==
  /\ proc[p].pc \in {"admitted", "beating"} /\ node[proc[p].id] = "retired"
  /\ proc' = [proc EXCEPT ![p] = Otherwise(p)]
  /\ UNCHANGED <<apply, token, creds, node, host, budget>>

ProcessDies(p) ==
  /\ proc[p].pc # "off" /\ Fault /\ Exits(p)
  /\ UNCHANGED <<apply, token, creds, node, host>>

-----------------------------------------------------------------------------
(* Operators, and the clock.                                               *)

RevokeByOperator(c) ==
  /\ c \in DOMAIN creds /\ Act /\ RevokeAgentCredential(c)
  /\ UNCHANGED <<apply, token, node, host, proc>>

\* RetireNode: the node has no unfinished work; its credentials are revoked.
RetireNode(id) ==
  /\ node[id] = "registered" /\ Act
  /\ node' = [node EXCEPT ![id] = "retired"]
  /\ Revoke({c \in DOMAIN creds : creds[c].agent = id})
  /\ UNCHANGED <<apply, token, host, proc>>

RevokeTokenByOperator(a) ==
  /\ token[a] = "live" /\ Act /\ token' = Revoked(a)
  /\ UNCHANGED <<apply, creds, node, host, proc>>

\* The five minutes of a token are over.
TokenExpires(a) ==
  /\ token[a] = "live" /\ token' = [token EXCEPT ![a] = "expired"]
  /\ UNCHANGED <<apply, creds, node, host, proc, budget>>

ApplyStep(a) ==
  \/ ConnectRefused(a) \/ Connect(a) \/ Probe(a) \/ ResolveCallback(a)
  \/ SelectArtifact(a) \/ Unfit(a) \/ PrepareStaging(a) \/ UploadAgent(a) \/ VerifyAgent(a)
  \/ IssueBootstrapEnrollment(a)
  \/ WriteBootstrapFiles(a) \/ PromoteTest(a) \/ PromoteMove(a) \/ StartAgent(a)
  \/ WaitAgentID(a) \/ WaitOnline(a) \/ CloseTransport(a) \/ WaitHeartbeat(a) \/ AssignSite(a)
  \/ ApplyDone(a) \/ TimesOut(a) \/ CommandFails(a)
  \/ CleanupEnrollmentToken(a) \/ RevokeOnTheWayOut(a) \/ CleanupStaging(a)

ProcStep(p) ==
  \/ RunByHand(p) \/ ReadID(p) \/ LinkID(p) \/ LoadCredential(p) \/ ConsumeEnrollmentToken(p)
  \/ Enroll(p) \/ EnrollRefused(p) \/ SaveCredential(p) \/ SaveFails(p)
  \/ Rotate(p) \/ RotateRefused(p)
  \/ Authenticate(p) \/ Register(p) \/ Heartbeat(p) \/ ContactRefused(p) \/ ProcessDies(p)

Next ==
  \/ \E a \in Apply : ApplyStep(a)
  \/ \E p \in Proc : ProcStep(p)
  \/ \E c \in 1 .. MaxCreds : RevokeByOperator(c)
  \/ \E p \in Proc : RetireNode(p)
  \/ \E a \in Apply : RevokeTokenByOperator(a) \/ TokenExpires(a)
  \/ ServerDies

Spec == Init /\ [][Next]_vars

-----------------------------------------------------------------------------
(* Properties.                                                             *)

\* Whatever was lost or died on the way, the credential the host has saved
\* belongs to the identity it has saved, and only an operator made it useless:
\* a rotation that was cut short never locks the agent out (RotateAgentCredential
\* and authenticateCredential of auth.go, SaveCredential of credential.go).
NeverLockedOut ==
  host.cred # 0 =>
    /\ creds[host.cred].agent = host.id
    /\ creds[host.cred].revoked => creds[host.cred].barred

\* A credential an operator revoked has no heir: what was rotated from it,
\* before or after, is revoked too (RevokeAgentCredential of auth.go).
RevokedStaysOut ==
  \A c, d \in DOMAIN creds : creds[c].barred /\ creds[d].from = c => creds[d].revoked

\* What admits an agent: the credential its host has saved works until an
\* operator revokes it, and then nothing derived from it does (auth.go of the
\* Server, credential.go of the Agent).
CredentialTruth == TypeOK /\ NeverLockedOut /\ RevokedStaysOut

\* A retired node stays retired, and is not seen again by anybody, though its
\* agent may have been admitted before (RegisterNode, RecordHeartbeat).
RetiredForGood ==
  [][\A id \in Proc : node[id] = "retired" =>
       /\ node'[id] = "retired"
       /\ \A a \in Apply : agentID[a] = id => again'[a] = again[a]]_vars

\* An Apply that succeeds has seen the agent online, and once more after that;
\* one that ended, in whichever way, leaves no token behind that still enrolls anybody, unless
\* the revocation itself failed (Apply of service.go).
ApplyKeepsItsWord ==
  \A a \in Apply :
    /\ apc[a] = "ok" => again[a]
    /\ apc[a] \in {"ok", "failed"} /\ ~dirty[a] => token[a] # "live"
=============================================================================
