------------------------------ MODULE GovernedRun ------------------------------
(***************************************************************************)
(* One governed change from its mint to its reviewed work: the change      *)
(* registry, the admission of its ROOT run, the activation core            *)
(* (activation-core.ts), the execution driver (execution-driver.ts) and    *)
(* the review authority, over the authority archive and the run.           *)
(*                                                                         *)
(* Each process serves one call at a time.  A call is synchronous up to    *)
(* the model call, but between any two of its reads and writes others may  *)
(* act: other calls, and whoever else holds the controller.  Each          *)
(* controller call is one step (its store serializes them; RunStore has    *)
(* the files), each file operation of an append is one, and readGoverned-  *)
(* Model is one: it answers only if nothing changed while it read.  A call *)
(* may end at any step, by an error or a crash.                            *)
(*                                                                         *)
(* The run is its audit trail; every entry holds the run it left.  As in   *)
(* Runner, an entry's position in the trail stands for the occurrence, the *)
(* SHA of a rejection for its iteration, and what the controller decides   *)
(* on other grounds is a free choice: a stop of its own (budget, clock,    *)
(* branch) is a stop by anyone, after which the call that met it ends.     *)
(* Runner has the journal, Controller the states after ACCEPTED.           *)
(***************************************************************************)
EXTENDS AuthorityArchive, FiniteSets

CONSTANTS
  Architects,    \* GPT_ARCHITECT principals
  Others,        \* those of them who also call the controller directly
  Packets,       \* packet documents
  Bundles,       \* what activations are called with: a packet, then its grants
  Corrections,   \* correction documents
  Answers,       \* body of a correction -> <<packet, iteration>> it is for
  Supplied,      \* actor -> the grant a driver was composed with, and its packet
  MaxAudit, MaxStops

Actors == {"IMPLEMENTATION", "ARCHITECT_REVIEW"}

\* The trail names whoever is no architect by its part.
ASSUME GovernedRunAssumption ==
  /\ None \notin Architects /\ Others \subseteq Architects
  /\ Architects \cap {"implementer", "human", "controller"} = {}
  /\ Packets \subseteq Docs /\ Corrections \subseteq Docs
  /\ \A d \in Packets \cup Corrections : IssuerOf[d] \in Architects
  /\ Bundles \subseteq Seq(Docs)
  /\ \A docs \in Bundles : docs # <<>> /\ docs[1] \in Packets
  /\ Answers \in [{BodyOf[d] : d \in Corrections} -> Bodies \X Nat]
  /\ \A actor \in DOMAIN Supplied : Supplied[actor] \in [grant: Docs, packet: Bodies]
  /\ MaxAudit \in Nat /\ MaxStops \in Nat

VARIABLES
  minted,        \* the registry holds the change
  diskMinted,    \* and so does its disk
  admitted,      \* the ROOT run exists
  audit,
  calls          \* what each process is doing

registry == <<minted, diskMinted, admitted>>
vars == <<archiveVars, registry, audit, calls>>

-----------------------------------------------------------------------------
(* The run *)

Active == {"IDLE", "ARCHITECTURE", "PACKET_READY", "IMPLEMENTING", "IMPLEMENTATION_COMPLETE",
           "REMOTE_SHA_READY", "ACCEPTANCE_REVIEW", "CORRECTION_REQUIRED", "ACCEPTED"}
Stops == {"SOFT_STOP", "ARCHITECTURE_STOP", "HUMAN_STOP"}

(* review and grant: the acceptance and the human resume grant the run      *)
(* retains, and whether they are in the archive.                            *)
Retained == {"archived", "unarchived", None}
Run == [state: Active \cup Stops, interrupted: Active \cup {None}, packet: Bodies \cup {None},
        binding: Bodies \cup {None}, review: Retained, grant: Retained,
        correction: Bodies \cup {None}, iterations: Nat, recheck: BOOLEAN]

Fresh == [state |-> "IDLE", interrupted |-> None, packet |-> None, binding |-> None,
          review |-> None, grant |-> None, correction |-> None, iterations |-> 0,
          recheck |-> FALSE]

RunAt(n) == IF n = 0 THEN Fresh ELSE audit[n].run
Now == RunAt(Len(audit))
To(state) == [Now EXCEPT !.state = state]

Commit(run, action, by) ==
  /\ admitted
  /\ Len(audit) < MaxAudit
  /\ audit' = Append(audit, [action |-> action, by |-> by, run |-> run])

Stopped(kind) ==
  /\ Now.state \in Active
  /\ Cardinality({n \in 1..Len(audit) : audit[n].action = "STOP"}) < MaxStops
  /\ Commit([Now EXCEPT !.state = kind, !.interrupted = Now.state], "STOP", "controller")

(* holdsCurrentCorrection *)
HoldsCurrent(run) ==
  /\ run.correction # None
  /\ Answers[run.correction] = <<run.packet, run.iterations + 1>>

(* enterArchitecture and enterArchitectureForActivation: an entry binds the *)
(* run to an intent, or leaves its binding alone.                           *)
Entered(a, body) ==
  /\ Now.state = "IDLE"
  /\ Commit([To("ARCHITECTURE") EXCEPT !.binding = body], "ENTER_ARCHITECTURE", a)

(* #issuePacket: the packet right after a bound entry is the bound one, and *)
(* a re-issued packet has another identity.                                 *)
Issued(a, body) ==
  /\ Now.state = "ARCHITECTURE"
  /\ body # Now.packet
  /\ Len(audit) = 1 /\ Now.binding # None => body = Now.binding
  /\ Commit([To("PACKET_READY") EXCEPT !.packet = body, !.review = None, !.correction = None],
            "ISSUE_PACKET", a)

Begun ==
  /\ Now.state \in {"PACKET_READY", "CORRECTION_REQUIRED"} /\ ~Now.recheck
  /\ Now.state = "CORRECTION_REQUIRED" => HoldsCurrent(Now)
  /\ Commit([To("IMPLEMENTING") EXCEPT !.iterations = @ + 1, !.review = None],
            "BEGIN_IMPLEMENTATION", "implementer")

Reported ==
  /\ Now.state = "IMPLEMENTING"
  /\ Commit(To("IMPLEMENTATION_COMPLETE"), "REPORT_IMPLEMENTATION_COMPLETE", "implementer")

Recorded ==
  /\ Now.state = "IMPLEMENTATION_COMPLETE" /\ ~Now.recheck
  /\ Commit(To("REMOTE_SHA_READY"), "RECORD_REMOTE_SHA", "implementer")

Reviewing(a) ==
  /\ Now.state = "REMOTE_SHA_READY" /\ ~Now.recheck
  /\ Commit(To("ACCEPTANCE_REVIEW"), "BEGIN_REMOTE_ACCEPTANCE", a)

Accepted(a, review) ==
  /\ Now.state = "ACCEPTANCE_REVIEW" /\ ~Now.recheck
  /\ Commit([To("ACCEPTED") EXCEPT !.review = review], "ACCEPT_EXACT_SHA", a)

Rejected(a, review) ==
  /\ Now.state = "ACCEPTANCE_REVIEW" /\ ~Now.recheck
  /\ Commit([To("CORRECTION_REQUIRED") EXCEPT !.review = review], "REJECT_EXACT_SHA", a)

Corrected(a, body) ==
  /\ Now.state = "CORRECTION_REQUIRED" /\ ~Now.recheck
  /\ ~HoldsCurrent(Now)
  /\ Answers[body] = <<Now.packet, Now.iterations + 1>>
  /\ Commit([Now EXCEPT !.correction = body], "ISSUE_CORRECTION_PACKET", a)

-----------------------------------------------------------------------------
(* Whoever else holds the controller *)

ResumeSoft ==
  /\ Now.state = "SOFT_STOP"
  /\ \/ /\ Now.packet # None
        /\ Commit([To(Now.interrupted) EXCEPT !.interrupted = None], "RESUME_SOFT_WITH_REPAIR",
                  "controller")
     \/ /\ Now.packet = None \/ Now.interrupted \in {"IMPLEMENTING", "PACKET_READY"}
        /\ Commit(To("HUMAN_STOP"), "BUDGET_EXHAUSTED", "controller")

ResumeHuman(grant) ==
  /\ Now.state = "HUMAN_STOP"
  /\ Commit([To(Now.interrupted) EXCEPT !.interrupted = None, !.recheck = TRUE, !.grant = grant],
            "RESUME_HUMAN_STOP", "human")

ClearRecheck ==
  /\ Now.state \in Active /\ Now.recheck
  /\ Commit([Now EXCEPT !.recheck = FALSE], "RECHECK_EXTERNAL_REALITY", "controller")

ResumeArchitecture(a) ==
  /\ Now.state = "ARCHITECTURE_STOP"
  /\ Commit([To("ARCHITECTURE") EXCEPT !.interrupted = None], "RETURN_TO_ARCHITECTURE", a)

PacketBodies == {BodyOf[d] : d \in Packets}
CorrectionBodies == {BodyOf[d] : d \in Corrections}

Direct ==
  /\ \/ \E a \in Others : Entered(a, Now.binding) \/ ResumeArchitecture(a) \/ Reviewing(a)
     \/ \E a \in Others, body \in PacketBodies : Issued(a, body)
     \/ \E a \in Others, review \in Retained \ {None} : Accepted(a, review) \/ Rejected(a, review)
     \/ \E a \in Others, body \in CorrectionBodies : Corrected(a, body)
     \/ Begun \/ Reported \/ Recorded \/ ResumeSoft \/ ClearRecheck
     \/ \E grant \in Retained \ {None} : ResumeHuman(grant)
     \/ \E kind \in Stops : Stopped(kind)
  /\ UNCHANGED <<archiveVars, registry, calls>>

-----------------------------------------------------------------------------
(* Calls *)

(* docs: what the call was given; kept: how many of them the archive was     *)
(* handed; seen: where its last read saw the run; facts: the records that    *)
(* read found for its document; next: what follows the archiving.            *)
Call(step, who, docs, seen, facts) ==
  [at |-> step, who |-> who, docs |-> docs, kept |-> 0, seen |-> seen, facts |-> facts,
   next |-> None]
NoCall == Call("none", None, <<>>, 0, {})

Is(p, step) == calls[p].at = step
Goto(p, step) == calls' = [calls EXCEPT ![p].at = step]
Finish(p) == calls' = [calls EXCEPT ![p] = NoCall]
CallOnly == UNCHANGED <<archiveVars, registry, audit>>
RunOnly == UNCHANGED <<archiveVars, registry>>

Document(p) == calls[p].docs[1]
Intent(p) == BodyOf[Document(p)]
Principal(p) == calls[p].who

(* A call still where its last read saw the run. *)
Unmoved(p) == Len(audit) = calls[p].seen

(* An error, a crash, or the answer read: the call is over. *)
End(p) ==
  /\ calls[p] # NoCall
  /\ Finish(p)
  /\ appends' = [appends EXCEPT ![p] = NoAppend]
  /\ UNCHANGED <<archive, diskArchive, registry, audit>>

-----------------------------------------------------------------------------
(* Minting the change and admitting its run *)

Govern(p) ==
  /\ calls[p] = NoCall
  /\ ~minted
  /\ calls' = [calls EXCEPT ![p] = Call("mint", None, <<>>, 0, {})]
  /\ CallOnly

(* EEXIST: another minter's record is answered as it is. *)
Mint(p) ==
  /\ Is(p, "mint")
  /\ minted' = TRUE
  /\ IF minted THEN Finish(p) ELSE Goto(p, "sync_mint")
  /\ UNCHANGED <<archiveVars, diskMinted, admitted, audit>>

SyncMint(p) ==
  /\ Is(p, "sync_mint")
  /\ diskMinted' = TRUE
  /\ Finish(p)
  /\ UNCHANGED <<archiveVars, minted, admitted, audit>>

(* GOAL_NOT_GOVERNED unless the change is minted. *)
Admit ==
  /\ minted /\ ~admitted
  /\ admitted' = TRUE
  /\ UNCHANGED <<archiveVars, minted, diskMinted, audit, calls>>

-----------------------------------------------------------------------------
(* What the governed read model answers *)

(* NextAction is DETERMINATE: every document the run retains resolves. *)
Determinate ==
  /\ minted /\ admitted
  /\ \A body \in {Now.packet, Now.correction} \ {None} : Resolves(body)
  /\ "unarchived" \notin {Now.review, Now.grant}

ByArchitect(n, action, a) == audit[n].action = action /\ audit[n].by = a

(* Mutant of Owned: whose packet it is does not matter. *)
OwnedByEntry(a) ==
  /\ Len(audit) > 0 /\ Now.binding # None
  /\ ByArchitect(1, "ENTER_ARCHITECTURE", a)

(* lineageIn: the bound entry and the issue after it are the principal's. *)
Owned(a) ==
  /\ Len(audit) > 0 /\ Now.binding # None
  /\ ByArchitect(1, "ENTER_ARCHITECTURE", a)
  /\ Len(audit) > 1 => ByArchitect(2, "ISSUE_PACKET", a)

(* positionOf; ADVANCED is anything else. *)
AtIdle == audit = <<>>
AtEntered(a) == Owned(a) /\ Len(audit) = 1 /\ Now.state = "ARCHITECTURE"
AtPacketReady(a) ==
  Owned(a) /\ Len(audit) = 2 /\ Now.state = "PACKET_READY" /\ Now.packet = Now.binding

-----------------------------------------------------------------------------
(* Preserving documents *)

(* Mutant of Preserving: the controller first, its authority later. *)
RelyingAtOnce(p, next) == calls' = [calls EXCEPT ![p].at = next, ![p].seen = 0, ![p].facts = {}]

Preserving(p, next) ==
  calls' = [calls EXCEPT ![p].at = "preserve", ![p].next = next, ![p].facts = {}]

(* The next document is handed to the archive. *)
Preserve(p) ==
  /\ Is(p, "preserve") /\ appends[p].at \in {"none", "kept"}
  /\ calls[p].kept < Len(calls[p].docs)
  /\ BeginAppend(p, calls[p].docs[calls[p].kept + 1])
  /\ calls' = [calls EXCEPT ![p].kept = @ + 1]
  /\ UNCHANGED <<registry, audit>>

AppendFor(p) == Is(p, "preserve") /\ AppendStep(p) /\ UNCHANGED <<registry, audit, calls>>

Preserved(p) ==
  /\ Is(p, "preserve") /\ appends[p].at = "kept"
  /\ calls[p].kept = Len(calls[p].docs)
  /\ appends' = [appends EXCEPT ![p] = NoAppend]
  /\ Goto(p, calls[p].next)
  /\ UNCHANGED <<archive, diskArchive, registry, audit>>

-----------------------------------------------------------------------------
(* activate *)

(* resolve: the packet is the principal's own document, and so are corrections. *)
Activate(p, docs) ==
  /\ calls[p] = NoCall
  /\ Determinate
  /\ calls' = [calls EXCEPT ![p] = Call("locate", IssuerOf[docs[1]], docs, Len(audit),
                                       WithBody(BodyOf[docs[1]]))]
  /\ CallOnly

(* The controller's own record must be where the read model saw it.  Past   *)
(* IDLE only the exact retry of the bound intent goes on, and past the      *)
(* entry only with its packet archived as this very document.               *)
Locate(p) ==
  /\ Is(p, "locate")
  /\ Unmoved(p)
  /\ \/ AtIdle /\ Preserving(p, "enter")
     \/ /\ AtEntered(Principal(p)) /\ Now.binding = Intent(p)
        /\ calls[p].facts = {Document(p)}
        /\ Preserving(p, "issue")
     \/ /\ AtPacketReady(Principal(p)) /\ Now.binding = Intent(p)
        /\ Preserving(p, "confirm")
  /\ CallOnly

(* enterArchitectureForActivation; a write may succeed and its call throw. *)
Enter(p) ==
  /\ Is(p, "enter")
  /\ AtIdle
  /\ Entered(Principal(p), Intent(p))
  /\ \E step \in {"issue", "reread"} : Goto(p, step)
  /\ RunOnly

EnterRefused(p) == Is(p, "enter") /\ Goto(p, "reread") /\ CallOnly

(* Another writer, or this one, moved the run: only its entry for this intent counts. *)
Reread(p) ==
  /\ Is(p, "reread")
  /\ Goto(p, IF AtEntered(Principal(p)) /\ Now.binding = Intent(p) THEN "issue" ELSE "confirm")
  /\ CallOnly

(* issuePacketForOccurrence: while the entry is the run's last. *)
Issue(p) ==
  /\ Is(p, "issue")
  /\ Len(audit) = 1
  /\ Issued(Principal(p), Intent(p))
  /\ Goto(p, "confirm")
  /\ RunOnly

(* Refused or failed: the re-read decides. *)
IssueRefused(p) == Is(p, "issue") /\ Goto(p, "confirm") /\ CallOnly

Confirm(p) ==
  /\ Is(p, "confirm")
  /\ Determinate
  /\ calls' = [calls EXCEPT ![p].at = "report", ![p].seen = Len(audit),
                            ![p].facts = IF Now.packet = None THEN {} ELSE WithBody(Now.packet)]
  /\ CallOnly

Report(p) ==
  /\ Is(p, "report")
  /\ Unmoved(p)
  /\ AtPacketReady(Principal(p)) /\ Now.binding = Intent(p)
  /\ calls[p].facts = {Document(p)}
  /\ Goto(p, "activated")
  /\ CallOnly

ActivateStep(p) ==
  \/ Locate(p) \/ Enter(p) \/ EnterRefused(p) \/ Reread(p) \/ Issue(p) \/ IssueRefused(p)
  \/ Confirm(p) \/ Report(p)

-----------------------------------------------------------------------------
(* applyCorrection *)

(* The last rejection is the entry n. *)
LastRejection(n) ==
  /\ n \in 1..Len(audit) /\ audit[n].action = "REJECT_EXACT_SHA"
  /\ \A m \in n + 1 .. Len(audit) : audit[m].action # "REJECT_EXACT_SHA"

(* The issue right after entry n is the principal's. *)
IssuedAfter(n, a) == n < Len(audit) /\ ByArchitect(n + 1, "ISSUE_CORRECTION_PACKET", a)

ApplyCorrection(p, d) ==
  /\ calls[p] = NoCall
  /\ Determinate
  /\ Now.state = "CORRECTION_REQUIRED" /\ Now.packet # None
  /\ calls' = [calls EXCEPT ![p] = Call("rejection", IssuerOf[d], <<d>>, Len(audit),
                                       WithBody(BodyOf[d]))]
  /\ CallOnly

(* REJECTION_NOT_GOVERNED unless n is the principal's rejection of this packet. *)
GovernedRejection(p, n) ==
  /\ LastRejection(n)
  /\ audit[n].by = Principal(p)
  /\ audit[n].run.packet = Now.packet
  /\ Now.review = "archived"

AlreadyCorrected(p) ==
  /\ Is(p, "rejection") /\ Unmoved(p)
  /\ HoldsCurrent(Now) /\ Now.correction = Intent(p)
  /\ calls[p].facts = {Document(p)}
  /\ \E n \in 1..Len(audit) : GovernedRejection(p, n) /\ IssuedAfter(n, Principal(p))
  /\ Goto(p, "corrected")
  /\ CallOnly

NotYetCorrected(p) ==
  /\ Is(p, "rejection") /\ Unmoved(p)
  /\ GovernedRejection(p, Len(audit))
  /\ ~HoldsCurrent(Now) /\ ~Now.recheck
  /\ Answers[Intent(p)] = <<Now.packet, Now.iterations + 1>>
  /\ calls[p].facts \subseteq {Document(p)}
  /\ Preserving(p, "correct")
  /\ CallOnly

(* issueCorrectionForOccurrence, guarded by the rejection. *)
Correct(p) ==
  /\ Is(p, "correct")
  /\ Unmoved(p)
  /\ Corrected(Principal(p), Intent(p))
  /\ Goto(p, "corrected?")
  /\ RunOnly

CorrectRefused(p) == Is(p, "correct") /\ Goto(p, "corrected?") /\ CallOnly

(* The rejection is still the one first read; what follows it is read again. *)
ConfirmCorrection(p) ==
  /\ Is(p, "corrected?")
  /\ Determinate
  /\ IssuedAfter(calls[p].seen, Principal(p))
  /\ Now.correction # None /\ WithBody(Now.correction) = {Document(p)}
  /\ Goto(p, "corrected")
  /\ CallOnly

CorrectionStep(p) ==
  \/ AlreadyCorrected(p) \/ NotYetCorrected(p) \/ Correct(p) \/ CorrectRefused(p)
  \/ ConfirmCorrection(p)

-----------------------------------------------------------------------------
(* The execution driver *)

ActorOf == [PACKET_READY |-> "IMPLEMENTATION", CORRECTION_REQUIRED |-> "IMPLEMENTATION",
            IMPLEMENTING |-> "IMPLEMENTATION", REMOTE_SHA_READY |-> "ARCHITECT_REVIEW",
            ACCEPTANCE_REVIEW |-> "ARCHITECT_REVIEW"]
RunnerStates == DOMAIN ActorOf \cup {"IMPLEMENTATION_COMPLETE"}

(* The states an actor is called in, and the entry that begins such an occurrence. *)
Entering == [IMPLEMENTING |-> "BEGIN_IMPLEMENTATION", ACCEPTANCE_REVIEW |-> "BEGIN_REMOTE_ACCEPTANCE"]

Reissues == {"ENTER_ARCHITECTURE", "ISSUE_PACKET", "RETURN_TO_ARCHITECTURE"}
Decisions == {"BEGIN_REMOTE_ACCEPTANCE", "ACCEPT_EXACT_SHA", "REJECT_EXACT_SHA",
              "ISSUE_CORRECTION_PACKET"}

(* lineageRefusal is null for the run as entry n left it. *)
Governed(n, a) ==
  /\ n > 1
  /\ ByArchitect(1, "ENTER_ARCHITECTURE", a) /\ ByArchitect(2, "ISSUE_PACKET", a)
  /\ RunAt(n).binding # None
  /\ RunAt(2).packet = RunAt(n).binding /\ RunAt(n).packet = RunAt(n).binding
  /\ \A m \in 3..n : /\ audit[m].action \notin Reissues
                     /\ audit[m].action \in Decisions => audit[m].by = a
                     /\ audit[m].action = "ISSUE_CORRECTION_PACKET"
                          => audit[m - 1].action = "REJECT_EXACT_SHA"

(* The one archived grant the driver was composed with, for this packet. *)
Granted(actor) ==
  /\ actor \in DOMAIN Supplied
  /\ Supplied[actor].packet = Now.packet
  /\ Resolves(BodyOf[Supplied[actor].grant])

Ready(a) ==
  /\ Determinate
  /\ Now.state \in RunnerStates /\ ~Now.recheck
  /\ Now.state = "CORRECTION_REQUIRED" => HoldsCurrent(Now)
  /\ Governed(Len(audit), a)
  /\ Now.state \in DOMAIN ActorOf => Granted(ActorOf[Now.state])

Gate(p, a) ==
  /\ calls[p] = NoCall
  /\ Ready(a)
  /\ calls' = [calls EXCEPT ![p] = Call("gated", a, <<>>, Len(audit), {})]
  /\ CallOnly

(* Mutant of AtPosition: the runner is called without the position. *)
AnyPosition(p) == TRUE

AtPosition(p) == Unmoved(p)

(* runner.step reads the run, and goes on only from the position gated. *)
RunnerReads(p) ==
  /\ Is(p, "gated")
  /\ AtPosition(p)
  /\ Now.state \in RunnerStates
  /\ calls' = [calls EXCEPT ![p].at = IF Now.state \in DOMAIN Entering THEN "dispatch" ELSE "move",
                            ![p].seen = Len(audit)]
  /\ CallOnly

(* The controller's own guards are all that stands between that read and the write. *)
Move(p) ==
  LET state == RunAt(calls[p].seen).state
  IN /\ Is(p, "move")
     /\ \/ state \in {"PACKET_READY", "CORRECTION_REQUIRED"} /\ Begun
        \/ state = "IMPLEMENTATION_COMPLETE" /\ Recorded
        \/ state = "REMOTE_SHA_READY" /\ Reviewing(Principal(p))
     /\ Finish(p)
     /\ RunOnly

(* The actor is called for the occurrence its entry began, a review by the *)
(* principal that began it.  What the journal allows is Runner's.          *)
Dispatch(p) ==
  /\ Is(p, "dispatch") /\ Unmoved(p)
  /\ audit[Len(audit)].action = Entering[Now.state]
  /\ Now.state = "ACCEPTANCE_REVIEW" => audit[Len(audit)].by = Principal(p)
  /\ Goto(p, "called")
  /\ CallOnly

(* A result, or a stop instead, is applied at its occurrence or not at all. *)
ApplyImplementation(p) ==
  /\ Is(p, "called") /\ Unmoved(p)
  /\ Reported
  /\ Finish(p)
  /\ RunOnly

HaltAt(p) ==
  /\ calls[p].at \in {"dispatch", "called"} /\ Unmoved(p)
  /\ \E kind \in Stops : Stopped(kind)
  /\ Finish(p)
  /\ RunOnly

(* preserveReview: the decision (see review), then the correction, if there is one. *)
ApplyReview(p) ==
  /\ Is(p, "called") /\ Unmoved(p)
  /\ Now.state = "ACCEPTANCE_REVIEW"
  /\ \/ Goto(p, "decide")
     \/ \E d \in Corrections :
          /\ IssuerOf[d] = Principal(p) /\ VersionOf[d] = 1
          /\ Answers[BodyOf[d]] = <<Now.packet, Now.iterations + 1>>
          /\ calls' = [calls EXCEPT ![p].at = "preserve", ![p].next = "decide", ![p].docs = <<d>>]
  /\ CallOnly

ReviewRefused(p) ==
  /\ Is(p, "preserve") /\ calls[p].next = "decide" /\ appends[p].at = "refused"
  /\ Unmoved(p)
  /\ Stopped("ARCHITECTURE_STOP")
  /\ Finish(p)
  /\ appends' = [appends EXCEPT ![p] = NoAppend]
  /\ UNCHANGED <<archive, diskArchive, registry>>

(* decideAcceptanceForOccurrence; a review with a correction rejects. *)
Decide(p) ==
  /\ Is(p, "decide") /\ Unmoved(p)
  /\ \/ calls[p].docs = <<>> /\ Accepted(Principal(p), "archived") /\ Finish(p)
     \/ calls[p].docs = <<>> /\ Rejected(Principal(p), "archived") /\ Finish(p)
     \/ calls[p].docs # <<>> /\ Rejected(Principal(p), "archived") /\ Goto(p, "answer")
  /\ RunOnly

(* The correction of the same review, at the rejection it is for. *)
AnswerRejection(p) ==
  /\ Is(p, "answer")
  /\ Len(audit) = calls[p].seen + 1
  /\ Corrected(Principal(p), Intent(p))
  /\ Finish(p)
  /\ RunOnly

DriverStep(p) ==
  \/ RunnerReads(p) \/ Move(p) \/ Dispatch(p) \/ ApplyImplementation(p) \/ HaltAt(p)
  \/ ApplyReview(p) \/ ReviewRefused(p) \/ Decide(p) \/ AnswerRejection(p)

-----------------------------------------------------------------------------
Init ==
  /\ ArchiveInit
  /\ minted = FALSE /\ diskMinted = FALSE /\ admitted = FALSE
  /\ audit = <<>>
  /\ calls = [p \in Procs |-> NoCall]

Process(p) ==
  \/ Govern(p) \/ Mint(p) \/ SyncMint(p)
  \/ \E docs \in Bundles : Activate(p, docs)
  \/ \E d \in Corrections : ApplyCorrection(p, d)
  \/ \E a \in Architects : Gate(p, a)
  \/ Preserve(p) \/ AppendFor(p) \/ Preserved(p)
  \/ ActivateStep(p) \/ CorrectionStep(p) \/ DriverStep(p) \/ End(p)

Next == (\E p \in Procs : Process(p)) \/ Admit \/ Direct

Spec == Init /\ [][Next]_vars

(* A power loss ends every call; a run is as durable as its last write. *)
PowerLoss ==
  /\ LosePower
  /\ minted' \in {minted, diskMinted} /\ diskMinted' = minted'
  /\ calls' = [p \in Procs |-> NoCall]
  /\ UNCHANGED <<admitted, audit>>

PowerSpec == Init /\ [][Next \/ PowerLoss]_vars

-----------------------------------------------------------------------------
(* Properties *)

Steps == {"none", "mint", "sync_mint", "locate", "preserve", "enter", "reread", "issue", "confirm",
          "report", "activated", "rejection", "correct", "corrected?", "corrected", "gated", "move",
          "dispatch", "called", "decide", "answer"}

Actions == {"ENTER_ARCHITECTURE", "ISSUE_PACKET", "BEGIN_IMPLEMENTATION",
            "REPORT_IMPLEMENTATION_COMPLETE", "RECORD_REMOTE_SHA", "BEGIN_REMOTE_ACCEPTANCE",
            "ACCEPT_EXACT_SHA", "REJECT_EXACT_SHA", "ISSUE_CORRECTION_PACKET", "STOP",
            "RESUME_SOFT_WITH_REPAIR", "BUDGET_EXHAUSTED", "RESUME_HUMAN_STOP",
            "RECHECK_EXTERNAL_REALITY", "RETURN_TO_ARCHITECTURE"}

(* Every chain of the archive replays (one document per version, each        *)
(* superseding the one before), whatever writers race to publish; the trail  *)
(* and the calls hold what their readers expect of them.                     *)
TypeOK ==
  /\ ArchiveTypeOK
  /\ minted \in BOOLEAN /\ diskMinted \in BOOLEAN /\ admitted \in BOOLEAN
  /\ audit \in Seq([action: Actions, by: Architects \cup {"implementer", "human", "controller"},
                    run: Run])
  /\ calls \in [Procs -> [at: Steps, who: Architects \cup {None}, docs: Seq(Docs), kept: Nat,
                          seen: Nat, facts: SUBSET Docs, next: Steps \cup {None}]]
  /\ \A p \in Procs : calls[p].seen <= Len(audit) /\ calls[p].kept <= Len(calls[p].docs)

(* The controller relies on authority only after all of it is archived: an   *)
(* entry that an activation, a correction or a review writes has every       *)
(* document of its call in the archive, and a run is admitted only for a     *)
(* minted change (activation-core.ts, runner.ts #applyReview).               *)
EvidencePrecedesReliance ==
  [][/\ admitted' => minted
     /\ \A p \in Procs :
          /\ audit' # audit /\ calls'[p] # calls[p]
          /\ audit'[Len(audit')].by = Principal(p)
          => \A i \in DOMAIN calls[p].docs : calls[p].docs[i] \in archive]_vars

(* The authority of a bound run is in the archive: authority may be ahead of *)
(* the controller, never behind it (activation-core.ts:34-36).               *)
AuthorityNeverBehind ==
  Now.binding # None => WithBody(Now.binding) # {}

(* A call that answered ACTIVATED or APPLIED (or ALREADY_) told the truth,   *)
(* whoever else wrote meanwhile: the entry and the issue, or the rejection   *)
(* and the correction right after it, are its principal's, for its very      *)
(* documents, and those are archived.                                        *)
ReportsAreTrue ==
  \A p \in Procs :
    /\ Is(p, "activated") =>
         /\ Len(audit) > 1
         /\ ByArchitect(1, "ENTER_ARCHITECTURE", Principal(p))
         /\ ByArchitect(2, "ISSUE_PACKET", Principal(p))
         /\ RunAt(1).binding = Intent(p) /\ RunAt(2).packet = Intent(p)
         /\ \A i \in DOMAIN calls[p].docs : calls[p].docs[i] \in archive
    /\ Is(p, "corrected") =>
         /\ Document(p) \in archive
         /\ \E n \in 1..Len(audit) :
              /\ ByArchitect(n, "REJECT_EXACT_SHA", Principal(p))
              /\ IssuedAfter(n, Principal(p))
              /\ RunAt(n + 1).correction = Intent(p)

(* A model call under way, whatever became of the run since its gate, was    *)
(* made for an occurrence of the governed lineage, with the packet, the      *)
(* correction and the human's live-call grant in the archive.                *)
CallsRestOnAuthority ==
  \A p \in Procs : Is(p, "called") =>
    LET run == RunAt(calls[p].seen)
    IN /\ Governed(calls[p].seen, Principal(p))
       /\ \A body \in {run.packet, run.correction} \ {None} : WithBody(body) # {}
       /\ WithBody(BodyOf[Supplied[ActorOf[run.state]].grant]) # {}

(* A run another writer moved is never stepped from a position nobody gated  *)
(* (execution-driver.ts, header): the runner writes the entry right after    *)
(* the gated one, or none.                                                   *)
StepsFollowTheirGate ==
  [][\A p \in Procs : Is(p, "move") /\ audit' # audit /\ calls'[p] # calls[p] => Unmoved(p)]_vars

=============================================================================
