------------------------------ MODULE ModelCall ------------------------------
(***************************************************************************)
(* One call of a live model: runModel of live/seatbelt-model-process.ts    *)
(* with the egress session of its invocation (file-egress-journal.ts), the *)
(* ConnectBroker it runs (live/connect-broker.ts) and the process the      *)
(* executor starts (NodeProcessExecutor of process-executor.ts).           *)
(*                                                                         *)
(* Everything runs in one Node process: a callback is one step, and        *)
(* between two callbacks any other may come.  A timer may fire whenever it *)
(* is armed.  A journal write may fail, because the lock is taken, the     *)
(* session is full or the disk refuses, before the event is in the file or *)
(* after it.  The Node process may crash; the model process is detached    *)
(* and then runs on.                                                       *)
(*                                                                         *)
(* What a connection asks for is an allowlisted destination, anything else *)
(* the broker refuses ("OTHER"), or a head that is not complete ("PART").  *)
(***************************************************************************)
EXTENDS FiniteSets, Naturals

CONSTANTS Clients, MaxConnections, None

Answers == {"UNAVAILABLE", "THROWN", "ENFORCED", "RECORDED", "AMBIGUOUS"}
Results == {"CONNECTED", "DENIED", "CONNECT_FAILED"}
Requests == {"ALLOWED", "OTHER", "PART"}
Outcomes == {"EXITED", "TIMED_OUT", "OUTPUT_LIMIT", "SPAWN_FAILED"}

ASSUME ModelCallAssumption == None \notin Answers \cup Results \cup Requests \cup Outcomes

VARIABLES
  call,      \* where runModel is, and what it answers
  session,   \* the egress session of the invocation, as the file has it
  broker,    \* closing, and whether a decision could not be recorded
  conns,     \* the connections to the broker's port
  cli        \* the process tree the executor started

vars == <<call, session, broker, conns, cli>>

NewConn == [task |-> "none", client |-> "none", upstream |-> "none", asked |-> None]
NoCli == [leader |-> "none", helper |-> "none", holds |-> FALSE, why |-> "EXITED",
          timer |-> FALSE, hardKill |-> FALSE, ok |-> FALSE, result |-> None]

Serving == {"probing", "launching", "running", "draining", "dropping"}
InProgress == Serving \cup {"opened"}

-----------------------------------------------------------------------------
(* The session and the broker's record *)

(* A write that succeeds is in the file; one that throws may be. *)
Writes(before, after, ok) == session' \in IF ok THEN {after} ELSE {before, after}

(* #record: a failed write is a fault. *)
Records(c, result, ok) ==
  /\ session.state = "OPEN" \/ ~ok
  /\ IF session.state = "OPEN"
     THEN Writes(session, [session EXCEPT !.events[c] = result], ok)
     ELSE UNCHANGED session
  /\ broker' = [broker EXCEPT !.faults = @ \/ ~ok]

Becomes(c, conn) == conns' = [conns EXCEPT ![c] = conn]

(* #refuse, and the end of the handshake: recorded before the client hears it. *)
Refuses(c, conn, result) ==
  \E ok \in BOOLEAN :
    /\ Records(c, result, ok)
    /\ Becomes(c, [conn EXCEPT !.task = "done", !.client = IF ok THEN @ ELSE "gone"])
    /\ UNCHANGED <<call, cli>>

(* Tasks #pending, and what an in-flight one makes of the evidence. *)
Pending == {c \in Clients : conns[c].task \in {"head", "dial"}}

(* Mutant of FaultsAtClose: handshakes that did not settle are forgotten. *)
FaultsForgotten == broker.faults

FaultsAtClose == broker.faults \/ Pending # {}

-----------------------------------------------------------------------------
(* Connections *)

Held == {c \in Clients : conns[c].client = "open"}

(* #accept *)
Accept(c) ==
  /\ call.at \in Serving /\ ~broker.closing
  /\ conns[c].task = "none"
  /\ Cardinality(Held) < MaxConnections
  /\ Becomes(c, [NewConn EXCEPT !.task = "head", !.client = "open"])
  /\ UNCHANGED <<call, session, broker, cli>>

(* Over the limit: refused, and never one of #clients. *)
OverLimit(c) ==
  /\ call.at \in Serving /\ ~broker.closing
  /\ conns[c].task = "none"
  /\ Cardinality(Held) >= MaxConnections
  /\ Refuses(c, [NewConn EXCEPT !.client = "gone"], "DENIED")

Reading(c) == conns[c].task = "head"

SendsPart(c) ==
  /\ Reading(c) /\ conns[c].client = "open"
  /\ Becomes(c, [conns[c] EXCEPT !.asked = "PART"])
  /\ UNCHANGED <<call, session, broker, cli>>

(* A complete head for an allowlisted destination. *)
Asks(c) ==
  LET conn == [conns[c] EXCEPT !.asked = "ALLOWED"]
  IN /\ Reading(c) /\ conns[c].client = "open"
     /\ IF broker.closing
        THEN Refuses(c, conn, "DENIED")
        ELSE Becomes(c, [conn EXCEPT !.task = "dial"]) /\ UNCHANGED <<call, session, broker, cli>>

AsksElse(c) ==
  /\ Reading(c) /\ conns[c].client = "open"
  /\ Refuses(c, [conns[c] EXCEPT !.asked = "OTHER"], "DENIED")

HandshakeTimeout(c) == Reading(c) /\ Refuses(c, conns[c], "DENIED")

(* The client left, or was destroyed, before its head was complete. *)
HeadEnds(c) ==
  /\ Reading(c) /\ conns[c].client = "gone"
  /\ IF conns[c].asked = None
     THEN Becomes(c, [conns[c] EXCEPT !.task = "done"]) /\ UNCHANGED <<call, session, broker, cli>>
     ELSE Refuses(c, conns[c], "DENIED")

(* An unsafe address is denied; no address, or none that answers, is a failure. *)
Unreached == {"DENIED", "CONNECT_FAILED"}

DialFails(c) ==
  /\ conns[c].task = "dial"
  /\ \E result \in Unreached : Refuses(c, conns[c], result)

(* Mutant of MayTunnel: nothing is looked at again after the dial. *)
MayTunnelAnyway(c) == conns[c].task = "dial"

MayTunnel(c) == conns[c].client = "open" /\ ~broker.closing

(* The upstream socket exists: recorded, and piped only if both ends still want it. *)
Dialled(c) ==
  /\ conns[c].task = "dial"
  /\ \E ok \in BOOLEAN :
       /\ Records(c, "CONNECTED", ok)
       /\ Becomes(c, IF ok /\ MayTunnel(c)
                     THEN [conns[c] EXCEPT !.task = "done", !.upstream = "open"]
                     ELSE [conns[c] EXCEPT !.task = "done", !.upstream = "gone", !.client = "gone"])
  /\ UNCHANGED <<call, cli>>

(* Either end of a tunnel takes the other with it. *)
Lost(conn) == [conn EXCEPT !.client = IF @ = "open" THEN "gone" ELSE @,
                           !.upstream = IF @ = "open" THEN "gone" ELSE @]

Leaves(c) ==
  /\ conns[c].client = "open"
  /\ Becomes(c, Lost(conns[c]))
  /\ UNCHANGED <<call, session, broker, cli>>

-----------------------------------------------------------------------------
(* The process tree.  A helper is whatever else of the tree still runs. *)

CliBecomes(process) == cli' = process /\ UNCHANGED <<call, session, broker, conns>>

Supervised == call.at = "running"

Exit ==
  /\ cli.leader = "running"
  /\ \E ok \in BOOLEAN : CliBecomes([cli EXCEPT !.leader = "gone", !.ok = ok])

Fork ==
  /\ cli.leader = "running" /\ cli.helper = "none"
  /\ CliBecomes([cli EXCEPT !.helper = "group", !.holds = TRUE])

(* A session of its own: the group's signals no longer reach it. *)
HelperDetaches == cli.helper = "group" /\ CliBecomes([cli EXCEPT !.helper = "escaped"])
HelperLetsGo == cli.holds /\ CliBecomes([cli EXCEPT !.holds = FALSE])
HelperExits ==
  /\ cli.helper \in {"group", "escaped"}
  /\ CliBecomes([cli EXCEPT !.helper = "gone", !.holds = FALSE])

(* A signal to the process group: SIGTERM may be ignored, SIGKILL may not. *)
Signal(process, mayIgnore) ==
  \E kills, killsHelper \in {TRUE, ~mayIgnore} :
    CliBecomes([process EXCEPT !.leader = IF @ = "running" /\ kills THEN "gone" ELSE @,
                               !.helper = IF @ = "group" /\ killsHelper THEN "gone" ELSE @,
                               !.holds = @ /\ ~(process.helper = "group" /\ killsHelper)])

(* Mutant of Terminate: nothing follows the SIGTERM. *)
TerminateOnce(why, process) ==
  IF process.why = "EXITED"
  THEN Signal([process EXCEPT !.why = why], TRUE)
  ELSE CliBecomes(process)

(* terminate: the first reason stays, and arms the hard kill. *)
Terminate(why, process) ==
  IF process.why = "EXITED"
  THEN Signal([process EXCEPT !.why = why, !.hardKill = TRUE], TRUE)
  ELSE CliBecomes(process)

Timeout == Supervised /\ cli.timer /\ Terminate("TIMED_OUT", [cli EXCEPT !.timer = FALSE])

Overrun ==
  /\ Supervised /\ (cli.leader = "running" \/ cli.holds)
  /\ Terminate("OUTPUT_LIMIT", cli)

HardKill ==
  Supervised /\ cli.hardKill /\ Signal([cli EXCEPT !.hardKill = FALSE], FALSE)

-----------------------------------------------------------------------------
(* runModel *)

Goes(at, answer) == call' = [at |-> at, answer |-> answer]
Opened == [state |-> "OPEN", events |-> [c \in Clients |-> None]]

(* Refused before anything ran: pin, scope, environment, paths, isolation. *)
RefusedEarly ==
  /\ call.at = "idle"
  /\ Goes("answered", "UNAVAILABLE")
  /\ UNCHANGED <<session, broker, conns, cli>>

(* The one session of an invocation; a second open is refused. *)
OpenSession ==
  /\ call.at = "idle"
  /\ \E ok \in BOOLEAN :
       /\ session.state = "NONE" \/ ~ok
       /\ IF session.state = "NONE" THEN Writes(session, Opened, ok) ELSE UNCHANGED session
       /\ IF ok THEN Goes("opened", None) ELSE Goes("answered", "UNAVAILABLE")
  /\ UNCHANGED <<broker, conns, cli>>

StartBroker ==
  /\ call.at = "opened"
  /\ Goes("probing", None)
  /\ UNCHANGED <<session, broker, conns, cli>>

(* #closeSession *)
ClosesSession(ok) == Writes(session, [session EXCEPT !.state = "CLOSED"], ok)

BrokerFails ==
  /\ call.at = "opened"
  /\ \E ok \in BOOLEAN : ClosesSession(ok)
  /\ Goes("answered", "UNAVAILABLE")
  /\ UNCHANGED <<broker, conns, cli>>

ProbeApplies ==
  /\ call.at = "probing"
  /\ Goes("launching", None)
  /\ UNCHANGED <<session, broker, conns, cli>>

(* stopAccepting: where every way out of the try block goes. *)
Shuts(answer) == Goes("draining", answer) /\ broker' = [broker EXCEPT !.closing = TRUE]

(* The profile does not apply, the pin has changed, or the request is refused. *)
NotRun ==
  /\ call.at \in {"probing", "launching"}
  /\ \E answer \in {"UNAVAILABLE", "THROWN"} : Shuts(answer)
  /\ UNCHANGED <<session, conns, cli>>

Spawn ==
  /\ call.at = "launching"
  /\ Goes("running", None)
  /\ cli' = [NoCli EXCEPT !.leader = "running", !.timer = TRUE]
  /\ UNCHANGED <<session, broker, conns>>

SpawnFails ==
  /\ call.at = "launching"
  /\ cli' = [NoCli EXCEPT !.result = "SPAWN_FAILED"]
  /\ Shuts("ENFORCED")
  /\ UNCHANGED <<session, conns>>

(* The child exited and its output is closed: finish clears both timers. *)
Close ==
  /\ Supervised /\ cli.leader = "gone" /\ ~cli.holds
  /\ cli' = [cli EXCEPT !.result = cli.why, !.timer = FALSE, !.hardKill = FALSE]
  /\ Shuts("ENFORCED")
  /\ UNCHANGED <<session, conns>>

(* close, after the grace period or once nothing is pending: every socket it holds is destroyed. *)
Drop ==
  /\ call.at = "draining"
  /\ Goes("dropping", call.answer)
  /\ conns' = [c \in Clients |-> Lost(conns[c])]
  /\ UNCHANGED <<session, broker, cli>>

(* The rest of close, #closeSession, and the evidence read back. *)
Answer ==
  /\ call.at = "dropping"
  /\ broker' = [broker EXCEPT !.faults = FaultsAtClose]
  /\ \E ok, readable \in BOOLEAN :
       /\ ClosesSession(ok)
       /\ Goes("answered", IF call.answer # "ENFORCED" THEN call.answer
                           ELSE IF ~FaultsAtClose /\ ok /\ readable THEN "RECORDED" ELSE "AMBIGUOUS")
  /\ UNCHANGED <<conns, cli>>

(* The Node process dies at any moment; its sockets and timers go with it. *)
Crash ==
  /\ call.at \in InProgress
  /\ Goes("crashed", None)
  /\ conns' = [c \in Clients |-> [Lost(conns[c]) EXCEPT !.task = "done"]]
  /\ cli' = [cli EXCEPT !.timer = FALSE, !.hardKill = FALSE]
  /\ UNCHANGED <<session, broker>>

(* The same invocation once more. *)
Again ==
  /\ call.at \in {"answered", "crashed"}
  /\ Goes("idle", None)
  /\ UNCHANGED <<session, broker, conns, cli>>

-----------------------------------------------------------------------------

Init ==
  /\ call = [at |-> "idle", answer |-> None]
  /\ session = [state |-> "NONE", events |-> [c \in Clients |-> None]]
  /\ broker = [closing |-> FALSE, faults |-> FALSE]
  /\ conns = [c \in Clients |-> NewConn]
  /\ cli = NoCli

ConnStep(c) ==
  \/ Accept(c) \/ OverLimit(c)
  \/ SendsPart(c) \/ Asks(c) \/ AsksElse(c) \/ HandshakeTimeout(c) \/ HeadEnds(c)
  \/ DialFails(c) \/ Dialled(c) \/ Leaves(c)

CliStep ==
  \/ Exit \/ Fork \/ HelperDetaches \/ HelperLetsGo \/ HelperExits
  \/ Timeout \/ Overrun \/ HardKill

CallStep ==
  \/ StartBroker \/ BrokerFails \/ ProbeApplies \/ NotRun \/ Spawn \/ SpawnFails
  \/ Close \/ Drop \/ Answer

Next ==
  \/ \E c \in Clients : ConnStep(c)
  \/ CliStep
  \/ CallStep
  \/ RefusedEarly \/ OpenSession \/ Crash \/ Again

Spec == Init /\ [][Next]_vars

(* Timers fire, and what the event loop has to do next is done. *)
Fairness == WF_vars(CallStep) /\ WF_vars(Timeout) /\ WF_vars(HardKill)
FairSpec == Spec /\ Fairness

-----------------------------------------------------------------------------
(* Properties *)

Session == [state: {"NONE", "OPEN", "CLOSED"}, events: [Clients -> Results \cup {None}]]
Conn == [task: {"none", "head", "dial", "done"}, client: {"none", "open", "gone"},
         upstream: {"none", "open", "gone"}, asked: Requests \cup {None}]
Process == [leader: {"none", "running", "gone"}, helper: {"none", "group", "escaped", "gone"},
            holds: BOOLEAN, why: Outcomes \ {"SPAWN_FAILED"}, timer: BOOLEAN,
            hardKill: BOOLEAN, ok: BOOLEAN, result: Outcomes \cup {None}]

(* Every variable keeps to its type. *)
TypeOK ==
  /\ call \in [at: {"idle", "answered", "crashed"} \cup InProgress, answer: Answers \cup {None}]
  /\ session \in Session
  /\ broker \in [closing: BOOLEAN, faults: BOOLEAN]
  /\ conns \in [Clients -> Conn]
  /\ cli \in Process

(* egressRefusal: whether an adapter may use the answer. *)
Usable ==
  /\ call.answer = "RECORDED"
  /\ \A c \in Clients : session.events[c] # "DENIED"
  /\ cli.result = "EXITED" /\ cli.ok => \E c \in Clients : session.events[c] = "CONNECTED"

(* Evidence given as RECORDED is the whole truth about the call's egress,   *)
(* whatever was in flight when the broker closed: every connection that     *)
(* sent anything is in it, an upstream socket existed exactly where it says *)
(* CONNECTED, and a process whose answer is usable asked for nothing but    *)
(* the allowlist.                                                           *)
EvidenceIsComplete ==
  call.answer = "RECORDED" =>
    \A c \in Clients :
      /\ conns[c].asked # None => session.events[c] # None
      /\ conns[c].upstream # "none" <=> session.events[c] = "CONNECTED"
      /\ Usable => conns[c].asked \notin {"OTHER", "PART"}

(* Once the sockets are dropped no tunnel is open and none opens: not from  *)
(* a dial that was under way, not for a process that outlives the call.     *)
NoTunnelOutlivesCall ==
  call.at \notin {"probing", "launching", "running", "draining"} =>
    \A c \in Clients : conns[c].upstream # "open"

(* Every call ends, whatever its process and its clients do: a process that *)
(* ignores SIGTERM, helpers that hold its output, dials that hang.  Only a  *)
(* helper that left the process group and keeps the output open can hold it *)
(* up.                                                                      *)
CallReturns ==
  call.at \in InProgress ~>
    call.at \in {"answered", "crashed"} \/ (cli.helper = "escaped" /\ cli.holds)

=============================================================================
