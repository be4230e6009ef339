-------------------------- MODULE GovernedRun_proofs --------------------------
(***************************************************************************)
(* Proofs about AuthorityArchive and GovernedRun: what holds of every      *)
(* governed change, for any processes, documents, architects and grants,   *)
(* while no power is lost.                                                 *)
(***************************************************************************)
EXTENDS GovernedRun, TLAPS

By == Architects \cup {"implementer", "human", "controller"}
Entry == [action: Actions, by: By, run: Run]

-----------------------------------------------------------------------------
(* The run *)

(* The position a run is in, or was stopped in. *)
Place(run) == IF run.state \in Active THEN run.state ELSE run.interrupted
Working == {"IMPLEMENTING", "IMPLEMENTATION_COMPLETE", "REMOTE_SHA_READY", "ACCEPTANCE_REVIEW"}

RunTypeOK == audit \in Seq(Entry)

StopsResumable == Now.state \in Stops => Now.interrupted \in Active

OneBinding == \A n \in 1..Len(audit) : audit[n].run.binding = Now.binding

(* A correction that was issued stays the answer to its iteration: as long   *)
(* as the run is at that iteration, it holds it or has left the rejection.   *)
CorrectionsStand ==
  \A n \in 1..Len(audit) : audit[n].action = "ISSUE_CORRECTION_PACKET" =>
    LET i == audit[n].run.iterations
    IN /\ RunAt(n - 1).iterations = i
       /\ i <= Now.iterations
       /\ Place(Now) \in Working => i < Now.iterations
       /\ Place(Now) = "CORRECTION_REQUIRED" /\ Now.iterations = i => HoldsCurrent(Now)
       /\ Now.correction # None /\ Answers[Now.correction][2] = i + 1
            => Now.correction = audit[n].run.correction

(* Nothing is implemented between a rejection and the end of its state. *)
RejectionStands ==
  Place(Now) = "CORRECTION_REQUIRED" =>
    \A n \in 1..Len(audit) : LastRejection(n) =>
      \A m \in n..Len(audit) : audit[m].run.iterations = Now.iterations

RunInv ==
  /\ RunTypeOK /\ StopsResumable /\ OneBinding /\ CorrectionsStand /\ RejectionStands
  /\ AuthorityNeverBehind

(* What an entry does to the run, whichever operation writes it. *)
Kept(run) ==
  /\ run.iterations = Now.iterations /\ run.packet = Now.packet
  /\ run.correction = Now.correction /\ run.binding = Now.binding

Moves(run, action) ==
  /\ Kept(run) /\ action \notin {"REJECT_EXACT_SHA", "ISSUE_CORRECTION_PACKET"}
  /\ \/ Place(run) = Place(Now)
     \/ /\ Place(run) # "CORRECTION_REQUIRED"
        /\ Place(run) \in Working => Place(Now) \in Working
Binds(run, action) ==
  /\ audit = <<>> /\ action = "ENTER_ARCHITECTURE" /\ WithBody(run.binding) # {}
  /\ Place(run) = "ARCHITECTURE" /\ run.iterations = 0 /\ run.correction = None
Issues(run, action) ==
  /\ action = "ISSUE_PACKET" /\ Place(run) = "PACKET_READY" /\ run.correction = None
  /\ run.iterations = Now.iterations /\ run.binding = Now.binding
Begins(run, action) ==
  /\ action = "BEGIN_IMPLEMENTATION" /\ Place(run) = "IMPLEMENTING"
  /\ run.iterations = Now.iterations + 1
  /\ run.correction = Now.correction /\ run.binding = Now.binding
Rejects(run, action) ==
  /\ action = "REJECT_EXACT_SHA" /\ Kept(run)
  /\ Place(run) = "CORRECTION_REQUIRED" /\ Place(Now) = "ACCEPTANCE_REVIEW"
Corrects(run, action) ==
  /\ action = "ISSUE_CORRECTION_PACKET"
  /\ Place(run) = "CORRECTION_REQUIRED" /\ Place(Now) = "CORRECTION_REQUIRED"
  /\ ~HoldsCurrent(Now) /\ HoldsCurrent(run)
  /\ run.iterations = Now.iterations /\ run.binding = Now.binding

Writes(e) ==
  /\ audit' = Append(audit, e)
  /\ e.run.state \in Stops => e.run.interrupted \in Active
  /\ \/ Moves(e.run, e.action) \/ Binds(e.run, e.action) \/ Issues(e.run, e.action)
     \/ Begins(e.run, e.action) \/ Rejects(e.run, e.action) \/ Corrects(e.run, e.action)

Wrote == \E e \in Entry : Writes(e)

LEMMA NowIsRun ==
  ASSUME RunTypeOK
  PROVE  /\ Now \in Run
         /\ \A n \in 0..Len(audit) : RunAt(n) \in Run
<1>1. Fresh \in Run
  BY DEF Fresh, Run, Active, Retained
<1>2. \A n \in 1..Len(audit) : audit[n].run \in Run
  <2>1. \A n \in 1..Len(audit) : audit[n] \in Entry
    BY DEF RunTypeOK
  <2> QED
    BY <2>1 DEF Entry
<1> QED
  BY <1>1, <1>2 DEF RunTypeOK, Now, RunAt

LEMMA Appended ==
  ASSUME RunTypeOK, NEW e \in Entry, audit' = Append(audit, e)
  PROVE  /\ RunTypeOK'
         /\ Len(audit') = Len(audit) + 1
         /\ \A n \in 1..Len(audit) : audit'[n] = audit[n]
         /\ audit'[Len(audit')] = e
         /\ \A n \in 0..Len(audit) : RunAt(n)' = RunAt(n)
         /\ Now' = e.run
<1>1. /\ audit' \in Seq(Entry) /\ Len(audit') = Len(audit) + 1 /\ Len(audit) \in Nat
      /\ \A n \in 1..Len(audit) : audit'[n] = audit[n]
      /\ audit'[Len(audit')] = e
  BY DEF RunTypeOK
<1> QED
  BY <1>1 DEF RunTypeOK, Now, RunAt

(* Each operation of the controller writes one of the entries above. *)
LEMMA CommitWrites ==
  ASSUME RunInv, NEW run \in Run, NEW action \in Actions, NEW by \in By, Commit(run, action, by),
         run.state \in Stops => run.interrupted \in Active,
         \/ Moves(run, action) \/ Binds(run, action) \/ Issues(run, action)
         \/ Begins(run, action) \/ Rejects(run, action) \/ Corrects(run, action)
  PROVE  Wrote
<1> DEFINE e == [action |-> action, by |-> by, run |-> run]
<1>1. e \in Entry /\ e.run = run /\ e.action = action
  BY DEF Entry
<1>2. audit' = Append(audit, e)
  BY DEF Commit
<1> QED
  BY <1>1, <1>2 DEF Wrote, Writes

LEMMA StopWrites ==
  ASSUME RunInv, NEW kind \in Stops, Stopped(kind)
  PROVE  Wrote
<1>1. Now \in Run /\ Now.state \in Active /\ kind \notin Active
  BY NowIsRun DEF RunInv, Stopped, Stops, Active
<1>2. PICK run \in Run : run = [Now EXCEPT !.state = kind, !.interrupted = Now.state]
  BY <1>1 DEF Run
<1>3. run.interrupted \in Active /\ Place(run) = Place(Now) /\ Kept(run)
  BY <1>1, <1>2 DEF Place, Kept, Run
<1>4. Commit(run, "STOP", "controller") /\ "controller" \in By /\ "STOP" \in Actions
  BY <1>2 DEF Stopped, By, Actions
<1>5. Moves(run, "STOP")
  BY <1>3 DEF Moves
<1> QED
  BY <1>3, <1>4, <1>5, CommitWrites

LEMMA EnterWrites ==
  ASSUME RunInv, NEW a \in Architects, NEW body \in Bodies \cup {None}, Entered(a, body),
         body = Now.binding \/ (AtIdle /\ body # None /\ WithBody(body) # {})
  PROVE  Wrote
<1>1. Now \in Run
  BY NowIsRun DEF RunInv
<1>2. PICK run \in Run : run = [To("ARCHITECTURE") EXCEPT !.binding = body]
  BY <1>1 DEF Run, To, Active
<1>3. /\ run.state = "ARCHITECTURE" /\ Place(run) = "ARCHITECTURE" /\ run.state \notin Stops
      /\ run.binding = body
      /\ run.iterations = Now.iterations /\ run.packet = Now.packet
      /\ run.correction = Now.correction
  BY <1>1, <1>2 DEF Run, To, Active, Stops, Place
<1>4. Commit(run, "ENTER_ARCHITECTURE", a) /\ a \in By /\ "ENTER_ARCHITECTURE" \in Actions
  BY <1>2 DEF Entered, By, Actions
<1>5. Moves(run, "ENTER_ARCHITECTURE") \/ Binds(run, "ENTER_ARCHITECTURE")
  <2>1. CASE body = Now.binding
    BY <1>3, <2>1 DEF Moves, Kept, Working
  <2>2. CASE AtIdle /\ body # None /\ WithBody(body) # {}
    BY <1>3, <2>2 DEF Binds, Now, RunAt, Fresh, AtIdle
  <2> QED
    BY <2>1, <2>2
<1> QED
  BY <1>3, <1>4, <1>5, CommitWrites

LEMMA IssueWrites ==
  ASSUME RunInv, NEW a \in Architects, NEW body \in Bodies, Issued(a, body)
  PROVE  Wrote
<1>1. Now \in Run
  BY NowIsRun DEF RunInv
<1>2. PICK run \in Run :
        run = [To("PACKET_READY") EXCEPT !.packet = body, !.review = None, !.correction = None]
  BY <1>1 DEF Run, To, Active, Retained
<1>3. /\ run.state = "PACKET_READY" /\ Place(run) = "PACKET_READY" /\ run.state \notin Stops
      /\ run.binding = Now.binding /\ run.iterations = Now.iterations /\ run.correction = None
  BY <1>1, <1>2 DEF Run, To, Active, Stops, Place
<1>4. Commit(run, "ISSUE_PACKET", a) /\ a \in By /\ "ISSUE_PACKET" \in Actions
  BY <1>2 DEF Issued, By, Actions
<1>5. Issues(run, "ISSUE_PACKET")
  BY <1>3 DEF Issues
<1> QED
  BY <1>3, <1>4, <1>5, CommitWrites

LEMMA BeginWrites ==
  ASSUME RunInv, Begun
  PROVE  Wrote
<1>1. Now \in Run
  BY NowIsRun DEF RunInv
<1>2. Now.iterations + 1 \in Nat
  BY <1>1 DEF Run
<1>3. PICK run \in Run : run = [To("IMPLEMENTING") EXCEPT !.iterations = @ + 1, !.review = None]
  BY <1>1, <1>2 DEF Run, To, Active, Retained
<1>4. /\ run.state = "IMPLEMENTING" /\ Place(run) = "IMPLEMENTING" /\ run.state \notin Stops
      /\ run.binding = Now.binding /\ run.iterations = Now.iterations + 1
      /\ run.correction = Now.correction
  BY <1>1, <1>3 DEF Run, To, Active, Stops, Place
<1>5. /\ Commit(run, "BEGIN_IMPLEMENTATION", "implementer")
      /\ "implementer" \in By /\ "BEGIN_IMPLEMENTATION" \in Actions
  BY <1>3 DEF Begun, By, Actions
<1>6. Begins(run, "BEGIN_IMPLEMENTATION")
  BY <1>4 DEF Begins
<1> QED
  BY <1>4, <1>5, <1>6, CommitWrites

(* Work goes forward without touching what the run retains. *)
LEMMA ForwardWrites ==
  ASSUME RunInv, NEW state \in Active, NEW action \in Actions, NEW by \in By, NEW run \in Run,
         Commit(run, action, by), run.state = state, Kept(run),
         action \notin {"REJECT_EXACT_SHA", "ISSUE_CORRECTION_PACKET"},
         state # "CORRECTION_REQUIRED", state \in Working => Now.state \in Working
  PROVE  Wrote
<1>1. Place(run) = state /\ run.state \notin Stops
  BY DEF Place, Active, Stops
<1>2. Now.state \in Working => Place(Now) \in Working
  BY DEF Place, Working, Active
<1>3. Moves(run, action)
  BY <1>1, <1>2 DEF Moves
<1> QED
  BY <1>1, <1>3, CommitWrites

LEMMA ReportWrites ==
  ASSUME RunInv, Reported \/ Recorded
  PROVE  Wrote
<1>1. Now \in Run /\ "implementer" \in By
  BY NowIsRun DEF RunInv, By
<1>2. CASE Reported
  <2>1. PICK run \in Run : run = To("IMPLEMENTATION_COMPLETE")
    BY <1>1 DEF To, Run, Active
  <2>2. run.state = "IMPLEMENTATION_COMPLETE" /\ Kept(run) /\ "IMPLEMENTATION_COMPLETE" \in Active
    BY <1>1, <2>1 DEF To, Run, Kept, Active
  <2>3. /\ Commit(run, "REPORT_IMPLEMENTATION_COMPLETE", "implementer") /\ Now.state \in Working
        /\ "REPORT_IMPLEMENTATION_COMPLETE" \in Actions
    BY <1>2, <2>1 DEF Reported, Actions, Working
  <2> QED
    BY <1>1, <2>2, <2>3, ForwardWrites
<1>3. CASE Recorded
  <2>1. PICK run \in Run : run = To("REMOTE_SHA_READY")
    BY <1>1 DEF To, Run, Active
  <2>2. run.state = "REMOTE_SHA_READY" /\ Kept(run) /\ "REMOTE_SHA_READY" \in Active
    BY <1>1, <2>1 DEF To, Run, Kept, Active
  <2>3. /\ Commit(run, "RECORD_REMOTE_SHA", "implementer") /\ Now.state \in Working
        /\ "RECORD_REMOTE_SHA" \in Actions
    BY <1>3, <2>1 DEF Recorded, Actions, Working
  <2> QED
    BY <1>1, <2>2, <2>3, ForwardWrites
<1> QED
  BY <1>2, <1>3

LEMMA ReviewWrites ==
  ASSUME RunInv, NEW a \in Architects, NEW review \in Retained,
         Reviewing(a) \/ Accepted(a, review) \/ Rejected(a, review)
  PROVE  Wrote
<1>1. Now \in Run /\ a \in By
  BY NowIsRun DEF RunInv, By
<1>2. CASE Reviewing(a)
  <2>1. PICK run \in Run : run = To("ACCEPTANCE_REVIEW")
    BY <1>1 DEF To, Run, Active
  <2>2. run.state = "ACCEPTANCE_REVIEW" /\ Kept(run) /\ "ACCEPTANCE_REVIEW" \in Active
    BY <1>1, <2>1 DEF To, Run, Kept, Active
  <2>3. /\ Commit(run, "BEGIN_REMOTE_ACCEPTANCE", a) /\ Now.state \in Working
        /\ "BEGIN_REMOTE_ACCEPTANCE" \in Actions
    BY <1>2, <2>1 DEF Reviewing, Actions, Working
  <2> QED
    BY <1>1, <2>2, <2>3, ForwardWrites
<1>3. CASE Accepted(a, review)
  <2>1. PICK run \in Run : run = [To("ACCEPTED") EXCEPT !.review = review]
    BY <1>1 DEF To, Run, Active
  <2>2. run.state = "ACCEPTED" /\ Kept(run) /\ "ACCEPTED" \in Active /\ "ACCEPTED" \notin Working
    BY <1>1, <2>1 DEF To, Run, Kept, Active, Working
  <2>3. Commit(run, "ACCEPT_EXACT_SHA", a) /\ "ACCEPT_EXACT_SHA" \in Actions
    BY <1>3, <2>1 DEF Accepted, Actions
  <2> QED
    BY <1>1, <2>2, <2>3, ForwardWrites
<1>4. CASE Rejected(a, review)
  <2>1. PICK run \in Run : run = [To("CORRECTION_REQUIRED") EXCEPT !.review = review]
    BY <1>1 DEF To, Run, Active
  <2>2. /\ Commit(run, "REJECT_EXACT_SHA", a) /\ "REJECT_EXACT_SHA" \in Actions
        /\ Now.state = "ACCEPTANCE_REVIEW"
    BY <1>4, <2>1 DEF Rejected, Actions
  <2>3. /\ run.state = "CORRECTION_REQUIRED" /\ Kept(run) /\ run.state \notin Stops
        /\ Place(run) = "CORRECTION_REQUIRED" /\ Place(Now) = "ACCEPTANCE_REVIEW"
    BY <1>1, <2>1, <2>2 DEF To, Run, Kept, Place, Active, Stops
  <2>4. Rejects(run, "REJECT_EXACT_SHA")
    BY <2>3 DEF Rejects
  <2> QED
    BY <1>1, <2>2, <2>3, <2>4, CommitWrites
<1> QED
  BY <1>2, <1>3, <1>4

LEMMA CorrectWrites ==
  ASSUME RunInv, NEW a \in Architects, NEW body \in Bodies, Corrected(a, body)
  PROVE  Wrote
<1>1. Now \in Run /\ a \in By
  BY NowIsRun DEF RunInv, By
<1>2. PICK run \in Run : run = [Now EXCEPT !.correction = body]
  BY <1>1 DEF Run
<1>3. /\ run.state = "CORRECTION_REQUIRED" /\ run.correction = body
      /\ run.iterations = Now.iterations /\ run.binding = Now.binding /\ run.packet = Now.packet
      /\ Now.state = "CORRECTION_REQUIRED" /\ ~HoldsCurrent(Now)
  BY <1>1, <1>2 DEF Run, Corrected
<1>4. HoldsCurrent(run)
  BY <1>3, ArchiveAssumption DEF HoldsCurrent, Corrected
<1>5. /\ Place(run) = "CORRECTION_REQUIRED" /\ Place(Now) = "CORRECTION_REQUIRED"
      /\ run.state \notin Stops
  BY <1>3 DEF Place, Active, Stops
<1>6. Commit(run, "ISSUE_CORRECTION_PACKET", a) /\ "ISSUE_CORRECTION_PACKET" \in Actions
  BY <1>2 DEF Corrected, Actions
<1>7. Corrects(run, "ISSUE_CORRECTION_PACKET")
  BY <1>3, <1>4, <1>5 DEF Corrects
<1> QED
  BY <1>1, <1>5, <1>6, <1>7, CommitWrites

LEMMA ControllerResumes ==
  ASSUME RunInv, NEW grant \in Retained, ResumeSoft \/ ResumeHuman(grant) \/ ClearRecheck
  PROVE  Wrote
<1>1. Now \in Run /\ "controller" \in By /\ "human" \in By
  BY NowIsRun DEF RunInv, By
<1>2. Now.state \in Stops => Now.interrupted \in Active /\ Now.state \notin Active
  BY DEF RunInv, StopsResumable, Stops, Active
<1>3. CASE ResumeSoft
  <2>1. Now.state = "SOFT_STOP" /\ Now.state \in Stops
    BY <1>3 DEF ResumeSoft, Stops
  <2>2. CASE Commit([To(Now.interrupted) EXCEPT !.interrupted = None], "RESUME_SOFT_WITH_REPAIR",
                    "controller")
    <3>1. PICK run \in Run : run = [To(Now.interrupted) EXCEPT !.interrupted = None]
      BY <1>1, <1>2, <2>1 DEF To, Run
    <3>2. Kept(run) /\ Place(run) = Place(Now) /\ run.state \notin Stops
      BY <1>1, <1>2, <2>1, <3>1 DEF To, Run, Kept, Place, Stops, Active
    <3>3. "RESUME_SOFT_WITH_REPAIR" \in Actions /\ Moves(run, "RESUME_SOFT_WITH_REPAIR")
      BY <3>2 DEF Actions, Moves
    <3> QED
      BY <1>1, <2>2, <3>1, <3>2, <3>3, CommitWrites
  <2>3. CASE Commit(To("HUMAN_STOP"), "BUDGET_EXHAUSTED", "controller")
    <3>1. PICK run \in Run : run = To("HUMAN_STOP")
      BY <1>1 DEF To, Run, Stops
    <3>2. Kept(run) /\ Place(run) = Place(Now) /\ run.interrupted \in Active
      BY <1>1, <1>2, <2>1, <3>1 DEF To, Run, Kept, Place, Stops, Active
    <3>3. "BUDGET_EXHAUSTED" \in Actions /\ Moves(run, "BUDGET_EXHAUSTED")
      BY <3>2 DEF Actions, Moves
    <3> QED
      BY <1>1, <2>3, <3>1, <3>2, <3>3, CommitWrites
  <2> QED
    BY <1>3, <2>2, <2>3 DEF ResumeSoft
<1>4. CASE ResumeHuman(grant)
  <2>1. Now.state = "HUMAN_STOP" /\ Now.state \in Stops
    BY <1>4 DEF ResumeHuman, Stops
  <2>2. PICK run \in Run :
          run = [To(Now.interrupted) EXCEPT !.interrupted = None, !.recheck = TRUE, !.grant = grant]
    BY <1>1, <1>2, <2>1 DEF To, Run
  <2>3. Kept(run) /\ Place(run) = Place(Now) /\ run.state \notin Stops
    BY <1>1, <1>2, <2>1, <2>2 DEF To, Run, Kept, Place, Stops, Active
  <2>4. Commit(run, "RESUME_HUMAN_STOP", "human") /\ "RESUME_HUMAN_STOP" \in Actions
    BY <1>4, <2>2 DEF ResumeHuman, Actions
  <2>5. Moves(run, "RESUME_HUMAN_STOP")
    BY <2>3 DEF Moves
  <2> QED
    BY <1>1, <2>3, <2>4, <2>5, CommitWrites
<1>5. CASE ClearRecheck
  <2>1. PICK run \in Run : run = [Now EXCEPT !.recheck = FALSE]
    BY <1>1 DEF Run
  <2>2. Kept(run) /\ Place(run) = Place(Now) /\ run.state \notin Stops
    BY <1>1, <1>5, <2>1 DEF ClearRecheck, Run, Kept, Place, Stops, Active
  <2>3. /\ Commit(run, "RECHECK_EXTERNAL_REALITY", "controller")
        /\ "RECHECK_EXTERNAL_REALITY" \in Actions
    BY <1>5, <2>1 DEF ClearRecheck, Actions
  <2>4. Moves(run, "RECHECK_EXTERNAL_REALITY")
    BY <2>2 DEF Moves
  <2> QED
    BY <1>1, <2>2, <2>3, <2>4, CommitWrites
<1> QED
  BY <1>3, <1>4, <1>5

LEMMA ResumeWrites ==
  ASSUME RunInv, NEW a \in Architects, ResumeArchitecture(a)
  PROVE  Wrote
<1>1. Now \in Run /\ a \in By
  BY NowIsRun DEF RunInv, By
<1>2. PICK run \in Run : run = [To("ARCHITECTURE") EXCEPT !.interrupted = None]
  BY <1>1 DEF To, Run, Active
<1>3. /\ Kept(run) /\ run.state = "ARCHITECTURE"
      /\ "ARCHITECTURE" \in Active /\ "ARCHITECTURE" \notin Working
  BY <1>1, <1>2 DEF To, Run, Kept, Active, Working
<1>4. Commit(run, "RETURN_TO_ARCHITECTURE", a) /\ "RETURN_TO_ARCHITECTURE" \in Actions
  BY <1>2 DEF ResumeArchitecture, Actions
<1> QED
  BY <1>1, <1>3, <1>4, ForwardWrites

-----------------------------------------------------------------------------
(* What the entries keep *)

LEMMA CorrectionsKept ==
  ASSUME RunInv, NEW e \in Entry, Writes(e)
  PROVE  CorrectionsStand'
<1>1. /\ Len(audit') = Len(audit) + 1 /\ Len(audit) \in Nat /\ audit'[Len(audit')] = e
      /\ \A n \in 1..Len(audit) : audit'[n] = audit[n]
      /\ \A n \in 0..Len(audit) : RunAt(n)' = RunAt(n)
      /\ Now' = e.run
  BY Appended DEF RunInv, RunTypeOK, Writes
<1>2. /\ Now \in Run /\ e.run \in Run /\ Now.iterations \in Nat /\ e.run.iterations \in Nat
      /\ RunAt(Len(audit)) = Now
  BY NowIsRun DEF RunInv, Entry, Run, Now
<1>3. SUFFICES ASSUME NEW n \in 1..Len(audit'), audit'[n].action = "ISSUE_CORRECTION_PACKET"
               PROVE  LET i == audit'[n].run.iterations
                      IN /\ RunAt(n - 1)'.iterations = i
                         /\ i <= e.run.iterations
                         /\ Place(e.run) \in Working => i < e.run.iterations
                         /\ Place(e.run) = "CORRECTION_REQUIRED" /\ e.run.iterations = i
                              => HoldsCurrent(e.run)
                         /\ e.run.correction # None /\ Answers[e.run.correction][2] = i + 1
                              => e.run.correction = audit'[n].run.correction
  BY <1>1 DEF CorrectionsStand, Place, HoldsCurrent
<1>4. CASE n = Len(audit) + 1
  <2>1. Corrects(e.run, e.action)
    BY <1>1, <1>3, <1>4 DEF Writes, Moves, Binds, Issues, Begins, Rejects
  <2>2. audit'[n] = e /\ RunAt(n - 1)' = Now
    BY <1>1, <1>2, <1>4
  <2> QED
    BY <1>2, <2>1, <2>2 DEF Corrects, Working
<1>5. CASE n \in 1..Len(audit)
  <2> DEFINE i == audit[n].run.iterations
  <2>1. audit'[n] = audit[n] /\ RunAt(n - 1)' = RunAt(n - 1) /\ i \in Nat
    <3>1. audit[n] \in Entry /\ n - 1 \in 0..Len(audit)
      BY <1>1, <1>5 DEF RunInv, RunTypeOK
    <3>2. i \in Nat
      BY <3>1 DEF Entry, Run
    <3> QED
      BY <1>1, <1>5, <3>1, <3>2
  <2>2. /\ RunAt(n - 1).iterations = i
        /\ i <= Now.iterations
        /\ Place(Now) \in Working => i < Now.iterations
        /\ Place(Now) = "CORRECTION_REQUIRED" /\ Now.iterations = i => HoldsCurrent(Now)
        /\ Now.correction # None /\ Answers[Now.correction][2] = i + 1
             => Now.correction = audit[n].run.correction
    BY <1>3, <1>5, <2>1 DEF RunInv, CorrectionsStand
  <2> HIDE DEF i
  <2> SUFFICES /\ i <= e.run.iterations
               /\ Place(e.run) \in Working => i < e.run.iterations
               /\ Place(e.run) = "CORRECTION_REQUIRED" /\ e.run.iterations = i
                    => HoldsCurrent(e.run)
               /\ e.run.correction # None /\ Answers[e.run.correction][2] = i + 1
                    => e.run.correction = audit[n].run.correction
    BY <2>1, <2>2 DEF i
  <2>3. CASE Moves(e.run, e.action)
    BY <1>2, <2>1, <2>2, <2>3 DEF Moves, Kept, HoldsCurrent
  <2>4. CASE Binds(e.run, e.action)
    BY <1>1, <1>5, <2>4 DEF Binds
  <2>5. CASE Issues(e.run, e.action)
    BY <1>2, <2>1, <2>2, <2>5 DEF Issues, Working
  <2>6. CASE Begins(e.run, e.action)
    BY <1>2, <2>1, <2>2, <2>6 DEF Begins
  <2>7. CASE Rejects(e.run, e.action)
    BY <1>2, <2>1, <2>2, <2>7 DEF Rejects, Kept, Working
  <2>8. CASE Corrects(e.run, e.action)
    <3>1. i < Now.iterations
      BY <1>2, <2>1, <2>2, <2>8 DEF Corrects
    <3>2. Answers[e.run.correction][2] = e.run.iterations + 1
      BY <2>8 DEF Corrects, HoldsCurrent
    <3> QED
      BY <1>2, <2>1, <2>8, <3>1, <3>2 DEF Corrects, Working
  <2> QED
    BY <2>3, <2>4, <2>5, <2>6, <2>7, <2>8 DEF Writes
<1> QED
  BY <1>1, <1>4, <1>5

LEMMA RejectionKept ==
  ASSUME RunInv, NEW e \in Entry, Writes(e)
  PROVE  RejectionStands'
<1>1. /\ Len(audit') = Len(audit) + 1 /\ Len(audit) \in Nat /\ audit'[Len(audit')] = e
      /\ \A n \in 1..Len(audit) : audit'[n] = audit[n]
      /\ Now' = e.run
  BY Appended DEF RunInv, RunTypeOK, Writes
<1>2. SUFFICES ASSUME Place(e.run) = "CORRECTION_REQUIRED", NEW n \in 1..Len(audit'),
                      audit'[n].action = "REJECT_EXACT_SHA",
                      \A m \in n + 1 .. Len(audit') : audit'[m].action # "REJECT_EXACT_SHA",
                      NEW m \in n..Len(audit')
               PROVE  audit'[m].run.iterations = e.run.iterations
  BY <1>1 DEF RejectionStands, Place, LastRejection
<1>3. CASE e.action = "REJECT_EXACT_SHA"
  <2>1. n = Len(audit')
    BY <1>1, <1>2, <1>3
  <2> QED
    BY <1>1, <2>1
<1>4. CASE e.action # "REJECT_EXACT_SHA"
  <2>1. Place(Now) = "CORRECTION_REQUIRED" /\ e.run.iterations = Now.iterations
    BY <1>2, <1>4 DEF Writes, Moves, Kept, Binds, Issues, Begins, Rejects, Corrects
  <2>2. LastRejection(n)
    BY <1>1, <1>2, <1>4 DEF LastRejection
  <2>3. \A k \in n..Len(audit) : audit[k].run.iterations = Now.iterations
    BY <1>1, <2>1, <2>2 DEF RunInv, RejectionStands, LastRejection
  <2> QED
    BY <1>1, <2>1, <2>3
<1> QED
  BY <1>3, <1>4

LEMMA RunStep ==
  ASSUME RunInv, Wrote, archive \subseteq archive'
  PROVE  RunInv'
<1>1. PICK e \in Entry : Writes(e)
  BY DEF Wrote
<1>2. /\ RunTypeOK'
      /\ Len(audit') = Len(audit) + 1 /\ Len(audit) \in Nat /\ audit'[Len(audit')] = e
      /\ \A n \in 1..Len(audit) : audit'[n] = audit[n]
      /\ Now' = e.run
  BY <1>1, Appended DEF RunInv, RunTypeOK, Writes
<1>3. StopsResumable'
  BY <1>1, <1>2 DEF StopsResumable, Writes
<1>4. audit = <<>> \/ e.run.binding = Now.binding
  BY <1>1 DEF Writes, Moves, Kept, Binds, Issues, Begins, Rejects, Corrects
<1>5. OneBinding'
  BY <1>2, <1>4 DEF OneBinding, RunInv
<1>6. AuthorityNeverBehind'
  <2>1. e.run.binding = Now.binding \/ WithBody(e.run.binding) # {}
    BY <1>1 DEF Writes, Moves, Kept, Binds, Issues, Begins, Rejects, Corrects
  <2> QED
    BY <1>2, <2>1 DEF AuthorityNeverBehind, WithBody, RunInv
<1> QED
  BY <1>1, <1>2, <1>3, <1>5, <1>6, CorrectionsKept, RejectionKept DEF RunInv

-----------------------------------------------------------------------------
(* The archive and the calls *)

AppendType == [at: {"none", "link", "sync", "kept", "refused"}, doc: Docs \cup {None}]

AppendOK(p) ==
  /\ appends[p].at # "none" => Doc(p) \in Docs
  /\ appends[p].at = "link" => Succeeds(Doc(p))
  /\ appends[p].at \in {"sync", "kept"} => Doc(p) \in archive

ArchiveInv == ArchiveTypeOK /\ \A p \in Procs : AppendOK(p)

RegistryOK ==
  minted \in BOOLEAN /\ diskMinted \in BOOLEAN /\ admitted \in BOOLEAN /\ (admitted => minted)

CallType == [at: Steps, who: Architects \cup {None}, docs: Seq(Docs), kept: Nat, seen: Nat,
             facts: SUBSET Docs, next: Steps \cup {None}]

Unprincipled == {"none", "mint", "sync_mint"}
Before == Unprincipled \cup {"locate", "rejection", "gated", "move", "dispatch", "called"}
Relying == {"enter", "reread", "issue", "confirm", "report", "activated", "correct", "corrected?",
            "corrected", "decide", "answer"}
WithDocs == (Relying \ {"decide"}) \cup {"locate", "preserve", "rejection"}

(* How far a call is with its documents, and what the archive then holds. *)
Preserves(p) ==
  LET c == calls[p]
  IN /\ c.seen <= Len(audit) /\ c.kept <= Len(c.docs)
     /\ c.at \in Before => c.kept = 0
     /\ c.at \notin Unprincipled => c.who \in Architects
     /\ c.at \in WithDocs => c.docs # <<>>
     /\ c.facts \subseteq archive
     /\ c.at \in Relying => \A i \in 1..Len(c.docs) : c.docs[i] \in archive
     /\ c.at # "preserve" \/ c.kept = 0 => appends[p] = NoAppend
     /\ c.at = "preserve" =>
          /\ c.next \in {"enter", "issue", "confirm", "correct", "decide"}
          /\ c.kept > 0 => Doc(p) = c.docs[c.kept] /\ appends[p].at # "none"
          /\ \A i \in 1..(c.kept - 1) : c.docs[i] \in archive

(* What a correction was read to answer. *)
Answering(p) ==
  LET c == calls[p]
  IN /\ c.at = "rejection" =>
          RunAt(c.seen).state = "CORRECTION_REQUIRED" /\ Len(c.docs) = 1
     /\ c.at \in {"correct", "corrected?"} \/ (c.at = "preserve" /\ c.next = "correct") =>
          /\ c.seen > 0 /\ ByArchitect(c.seen, "REJECT_EXACT_SHA", c.who)
          /\ Answers[BodyOf[c.docs[1]]][2] = RunAt(c.seen).iterations + 1

(* What a driver's call rests on, from its gate on. *)
Rests(n, a) ==
  LET run == RunAt(n)
  IN /\ Governed(n, a)
     /\ \A body \in {run.packet, run.correction} \ {None} : WithBody(body) # {}
     /\ run.state \in DOMAIN ActorOf =>
          WithBody(BodyOf[Supplied[ActorOf[run.state]].grant]) # {}

Driving(p) ==
  LET c == calls[p]
  IN /\ c.at \in {"gated", "move", "dispatch", "called"} => c.docs = <<>> /\ Rests(c.seen, c.who)
     /\ c.at \in {"dispatch", "called"} => RunAt(c.seen).state \in DOMAIN Entering

CallOK(p) == Preserves(p) /\ Answering(p) /\ Driving(p)

(* ReportsAreTrue of one process. *)
Truthful(p) ==
  /\ Is(p, "activated") =>
       /\ Len(audit) > 1
       /\ ByArchitect(1, "ENTER_ARCHITECTURE", Principal(p))
       /\ ByArchitect(2, "ISSUE_PACKET", Principal(p))
       /\ RunAt(1).binding = Intent(p) /\ RunAt(2).packet = Intent(p)
       /\ \A i \in DOMAIN calls[p].docs : calls[p].docs[i] \in archive
  /\ Is(p, "corrected") =>
       /\ Document(p) \in archive
       /\ \E n \in 1..Len(audit) :
            /\ ByArchitect(n, "REJECT_EXACT_SHA", Principal(p))
            /\ IssuedAfter(n, Principal(p))
            /\ RunAt(n + 1).correction = Intent(p)

CallsInv == calls \in [Procs -> CallType] /\ \A p \in Procs : CallOK(p) /\ Truthful(p)

GovernedInv == RunInv /\ ArchiveInv /\ RegistryOK /\ CallsInv

-----------------------------------------------------------------------------
(* The archive *)

(* Every chain stays one document per version, each after the one it supersedes. *)
LEMMA ArchiveStep ==
  ASSUME ArchiveInv, NEW p \in Procs,
         \/ \E d \in Docs : BeginAppend(p, d)
         \/ AppendStep(p)
         \/ appends' = [appends EXCEPT ![p] = NoAppend] /\ UNCHANGED <<archive, diskArchive>>
         \/ UNCHANGED archiveVars
  PROVE  /\ ArchiveInv' /\ archive \subseteq archive'
         /\ \A q \in Procs \ {p} : appends'[q] = appends[q]
<1> USE DEF ArchiveInv, ArchiveTypeOK, AppendOK, AppendType, Doc
<1>1. /\ appends \in [Procs -> AppendType]
      /\ appends[p] \in AppendType
  OBVIOUS
<1>2. CASE \E d \in Docs : BeginAppend(p, d)
  <2>1. PICK d \in Docs : BeginAppend(p, d)
    BY <1>2
  <2> DEFINE step == IF d \in archive THEN "kept"
                     ELSE IF SameVersion(d) = {} /\ Succeeds(d) THEN "link" ELSE "refused"
  <2>2. /\ appends' = [appends EXCEPT ![p] = [at |-> step, doc |-> d]]
        /\ archive' = archive /\ diskArchive' = diskArchive
        /\ step \in {"kept", "link", "refused"}
        /\ step = "kept" => d \in archive
        /\ step = "link" => Succeeds(d)
    BY <2>1 DEF BeginAppend, At
  <2> HIDE DEF step
  <2>3. \A e \in Docs : SameVersion(e)' = SameVersion(e) /\ (Succeeds(e)' <=> Succeeds(e))
    BY <2>2 DEF SameVersion, Chain, Succeeds
  <2>4. /\ appends' \in [Procs -> AppendType]
        /\ appends'[p].at = step /\ appends'[p].doc = d
        /\ \A q \in Procs \ {p} : appends'[q] = appends[q]
    BY <1>1, <2>2
  <2>5. \A q \in Procs : AppendOK(q)'
    BY <2>2, <2>3, <2>4
  <2>6. ArchiveTypeOK'
    BY <2>2, <2>3, <2>4
  <2> QED
    BY <2>2, <2>4, <2>5, <2>6
<1>3. CASE Link(p)
  <2>1. /\ Doc(p) \in Docs /\ Succeeds(Doc(p)) /\ SameVersion(Doc(p)) = {}
        /\ archive' = archive \cup {Doc(p)} /\ diskArchive' = diskArchive
        /\ appends' = [appends EXCEPT ![p].at = "sync"]
    BY <1>3 DEF Link, Into
  <2>2. /\ appends' \in [Procs -> AppendType]
        /\ appends'[p].at = "sync" /\ appends'[p].doc = Doc(p)
        /\ \A q \in Procs \ {p} : appends'[q] = appends[q]
    BY <1>1, <2>1
  <2>3. \A e \in Docs : Succeeds(e) => Succeeds(e)'
    BY <2>1 DEF Succeeds, Chain
  <2>4. \A e \in archive' : SameVersion(e)' = {e} /\ Succeeds(e)'
    BY <2>1, <2>3 DEF SameVersion, Chain
  <2>5. \A q \in Procs : AppendOK(q)'
    BY <2>1, <2>2, <2>3
  <2> QED
    BY <2>1, <2>2, <2>4, <2>5
<1>4. CASE LinkLost(p) \/ SyncChain(p)
  <2> DEFINE step == IF Doc(p) \in archive THEN "kept" ELSE "refused"
  <2>1. /\ Doc(p) \in Docs /\ archive' = archive /\ diskArchive' \subseteq archive
        /\ appends' = [appends EXCEPT ![p].at = step]
        /\ step \in {"kept", "refused"} /\ (step = "kept" => Doc(p) \in archive)
    BY <1>4 DEF LinkLost, SyncChain, Into, Chain
  <2> HIDE DEF step
  <2>2. \A e \in Docs : SameVersion(e)' = SameVersion(e) /\ (Succeeds(e)' <=> Succeeds(e))
    BY <2>1 DEF SameVersion, Chain, Succeeds
  <2>3. /\ appends' \in [Procs -> AppendType]
        /\ appends'[p].at = step /\ appends'[p].doc = Doc(p)
        /\ \A q \in Procs \ {p} : appends'[q] = appends[q]
    BY <1>1, <2>1
  <2>4. \A q \in Procs : AppendOK(q)'
    BY <2>1, <2>2, <2>3
  <2>5. ArchiveTypeOK'
    BY <2>1, <2>2, <2>3
  <2> QED
    BY <2>1, <2>3, <2>4, <2>5
<1>5. CASE appends' = [appends EXCEPT ![p] = NoAppend] /\ UNCHANGED <<archive, diskArchive>>
  <2>1. \A e \in Docs : SameVersion(e)' = SameVersion(e) /\ (Succeeds(e)' <=> Succeeds(e))
    BY <1>5 DEF SameVersion, Chain, Succeeds
  <2>2. /\ appends' \in [Procs -> AppendType]
        /\ appends'[p].at = "none"
        /\ \A q \in Procs \ {p} : appends'[q] = appends[q]
    BY <1>1, <1>5 DEF NoAppend, At
  <2> QED
    BY <1>5, <2>1, <2>2
<1>6. CASE UNCHANGED archiveVars
  BY <1>6 DEF archiveVars, SameVersion, Chain, Succeeds
<1> QED
  BY <1>2, <1>3, <1>4, <1>5, <1>6 DEF AppendStep

-----------------------------------------------------------------------------
(* What other steps leave a call *)

Grown ==
  /\ archive \subseteq archive'
  /\ Len(audit) <= Len(audit')
  /\ \A n \in 1..Len(audit) : audit'[n] = audit[n]
  /\ \A n \in 0..Len(audit) : RunAt(n)' = RunAt(n)

LEMMA WroteGrows ==
  ASSUME RunInv, archive \subseteq archive', audit' = audit \/ Wrote
  PROVE  Grown
<1>1. CASE audit' = audit
  BY <1>1 DEF Grown, RunAt, RunInv, RunTypeOK
<1>2. CASE Wrote
  <2>1. PICK e \in Entry : audit' = Append(audit, e)
    BY <1>2 DEF Wrote, Writes
  <2> QED
    BY <2>1, Appended DEF Grown, RunInv, RunTypeOK
<1> QED
  BY <1>1, <1>2

LEMMA RestsKept ==
  ASSUME RunInv, Grown, NEW n \in Nat, n <= Len(audit), NEW a, Rests(n, a)
  PROVE  Rests(n, a)'
<1>1. Len(audit) \in Nat /\ n \in 0..Len(audit) /\ n > 1
  BY DEF RunInv, RunTypeOK, Rests, Governed
<1>2. RunAt(n)' = RunAt(n) /\ RunAt(2)' = RunAt(2) /\ \A m \in 1..n : audit'[m] = audit[m]
  BY <1>1 DEF Grown
<1>3. Governed(n, a)'
  BY <1>1, <1>2 DEF Rests, Governed, ByArchitect
<1>4. \A body : WithBody(body) # {} => WithBody(body)' # {}
  BY DEF WithBody, Grown
<1> QED
  BY <1>2, <1>3, <1>4 DEF Rests

LEMMA CallKept ==
  ASSUME GovernedInv, Grown, NEW p \in Procs, calls'[p] = calls[p], appends'[p] = appends[p]
  PROVE  CallOK(p)' /\ Truthful(p)'
<1>1. /\ calls[p] \in CallType /\ Len(audit) \in Nat /\ calls[p].seen \in Nat
      /\ calls[p].seen <= Len(audit) /\ CallOK(p) /\ Truthful(p)
  BY DEF GovernedInv, CallsInv, CallOK, Preserves, RunInv, RunTypeOK, CallType
<1>2. calls[p].seen \in 0..Len(audit) /\ RunAt(calls[p].seen)' = RunAt(calls[p].seen)
  BY <1>1 DEF Grown
<1>3. Preserves(p)'
  BY <1>1 DEF CallOK, Preserves, Doc, Grown, GovernedInv, RunInv, RunTypeOK
<1>4. Answering(p)'
  BY <1>1, <1>2 DEF CallOK, Answering, ByArchitect, Grown
<1>5. Driving(p)'
  BY <1>1, <1>2, RestsKept DEF CallOK, Driving, GovernedInv
<1>6. Truthful(p)'
  <2>1. ASSUME Is(p, "activated")
        PROVE  /\ Len(audit') > 1
               /\ ByArchitect(1, "ENTER_ARCHITECTURE", Principal(p))'
               /\ ByArchitect(2, "ISSUE_PACKET", Principal(p))'
               /\ RunAt(1)'.binding = Intent(p) /\ RunAt(2)'.packet = Intent(p)
               /\ \A i \in DOMAIN calls[p].docs : calls[p].docs[i] \in archive'
    BY <1>1, <2>1 DEF Truthful, Grown, ByArchitect, Principal
  <2>2. ASSUME Is(p, "corrected")
        PROVE  /\ Document(p) \in archive'
               /\ \E n \in 1..Len(audit') :
                    /\ ByArchitect(n, "REJECT_EXACT_SHA", Principal(p))'
                    /\ IssuedAfter(n, Principal(p))'
                    /\ RunAt(n + 1)'.correction = Intent(p)
    <3>1. PICK n \in 1..Len(audit) :
            /\ ByArchitect(n, "REJECT_EXACT_SHA", Principal(p))
            /\ IssuedAfter(n, Principal(p))
            /\ RunAt(n + 1).correction = Intent(p)
      BY <1>1, <2>2 DEF Truthful
    <3>2. n + 1 \in 1..Len(audit) /\ n \in 1..Len(audit')
      BY <1>1, <3>1 DEF IssuedAfter, Grown, GovernedInv, RunInv, RunTypeOK
    <3>3. audit'[n] = audit[n] /\ audit'[n + 1] = audit[n + 1] /\ RunAt(n + 1)' = RunAt(n + 1)
      BY <1>1, <3>1, <3>2 DEF Grown
    <3>4. n < Len(audit')
      BY <1>1, <3>1 DEF IssuedAfter, Grown, GovernedInv, RunInv, RunTypeOK
    <3> QED
      BY <1>1, <2>2, <3>1, <3>2, <3>3, <3>4 DEF Truthful, IssuedAfter, ByArchitect, Principal, Grown
  <2> QED
    BY <2>1, <2>2 DEF Truthful, Is, Principal, Intent, Document, ByArchitect
<1> QED
  BY <1>3, <1>4, <1>5, <1>6 DEF CallOK

(* A step of p leaves the calls as they should be if it leaves p's so. *)
LEMMA OneCall ==
  ASSUME GovernedInv, Grown, NEW p \in Procs, NEW c \in CallType,
         calls' = [calls EXCEPT ![p] = c], \A q \in Procs \ {p} : appends'[q] = appends[q],
         calls'[p] = c => CallOK(p)' /\ Truthful(p)'
  PROVE  CallsInv'
<1>1. calls' \in [Procs -> CallType] /\ calls'[p] = c /\ \A q \in Procs \ {p} : calls'[q] = calls[q]
  BY DEF GovernedInv, CallsInv
<1>2. \A q \in Procs : CallOK(q)' /\ Truthful(q)'
  BY <1>1, CallKept
<1> QED
  BY <1>1, <1>2 DEF CallsInv

LEMMA Finished ==
  ASSUME GovernedInv, Grown, NEW p \in Procs, Finish(p), appends'[p] = NoAppend,
         \A q \in Procs \ {p} : appends'[q] = appends[q]
  PROVE  CallsInv'
<1>1. PICK c \in CallType : c = NoCall
  <2>1. "none" \in Steps
    BY DEF Steps
  <2>2. <<>> \in Seq(Docs)
    OBVIOUS
  <2>3. NoCall \in CallType
    BY <2>1, <2>2 DEF NoCall, Call, CallType
  <2> QED
    BY <2>3
<1>2. Len(audit') \in Nat
  BY DEF GovernedInv, RunInv, RunTypeOK, Grown
<1>3. ASSUME calls'[p] = c
      PROVE  CallOK(p)' /\ Truthful(p)'
  BY <1>1, <1>2, <1>3 DEF NoCall, Call, CallOK, Preserves, Answering, Driving, Truthful, Unprincipled,
     WithDocs, Relying, Is
<1> QED
  BY <1>1, <1>3, OneCall DEF Finish

-----------------------------------------------------------------------------
(* The steps *)

Safe ==
  /\ audit' = audit \/ Wrote
  /\ archive \subseteq archive' /\ ArchiveInv' /\ RegistryOK' /\ CallsInv'

LEMMA CallOnlyKeeps ==
  ASSUME GovernedInv, CallOnly
  PROVE  /\ audit' = audit /\ archive' = archive /\ ArchiveInv' /\ RegistryOK' /\ Grown
         /\ \A q \in Procs : appends'[q] = appends[q]
<1>1. /\ audit' = audit /\ archive' = archive /\ appends' = appends /\ diskArchive' = diskArchive
      /\ minted' = minted /\ diskMinted' = diskMinted /\ admitted' = admitted
  BY DEF CallOnly, archiveVars, registry
<1>2. ArchiveInv'
  BY <1>1 DEF GovernedInv, ArchiveInv, ArchiveTypeOK, AppendOK, Doc, SameVersion, Chain, Succeeds
<1> QED
  BY <1>1, <1>2, WroteGrows DEF GovernedInv, RegistryOK

LEMMA RunOnlyKeeps ==
  ASSUME GovernedInv, RunOnly, Wrote
  PROVE  /\ archive' = archive /\ ArchiveInv' /\ RegistryOK' /\ Grown
         /\ \A q \in Procs : appends'[q] = appends[q]
<1>1. /\ archive' = archive /\ appends' = appends /\ diskArchive' = diskArchive
      /\ minted' = minted /\ diskMinted' = diskMinted /\ admitted' = admitted
  BY DEF RunOnly, archiveVars, registry
<1>2. ArchiveInv'
  BY <1>1 DEF GovernedInv, ArchiveInv, ArchiveTypeOK, AppendOK, Doc, SameVersion, Chain, Succeeds
<1> QED
  BY <1>1, <1>2, WroteGrows DEF GovernedInv, RegistryOK

(* What a call's documents and principal are. *)
LEMMA CallFacts ==
  ASSUME GovernedInv, NEW p \in Procs
  PROVE  /\ calls[p] \in CallType /\ CallOK(p) /\ Truthful(p)
         /\ Len(audit) \in Nat /\ calls[p].seen \in 0..Len(audit)
         /\ calls[p].at \notin Unprincipled => Principal(p) \in Architects
         /\ calls[p].docs # <<>> => /\ Document(p) \in Docs /\ Intent(p) \in Bodies /\ Intent(p) # None
                                    /\ 1 \in 1..Len(calls[p].docs)
         /\ calls[p].at # "preserve" => appends[p] = NoAppend
<1>1. calls[p] \in CallType /\ CallOK(p) /\ Truthful(p) /\ Len(audit) \in Nat
  BY DEF GovernedInv, CallsInv, RunInv, RunTypeOK
<1>2. calls[p].seen \in 0..Len(audit) /\ calls[p].docs \in Seq(Docs)
  BY <1>1 DEF CallOK, Preserves, CallType
<1>3. calls[p].docs # <<>> => Document(p) \in Docs /\ 1 \in 1..Len(calls[p].docs)
  BY <1>2 DEF Document
<1>4. Document(p) \in Docs => Intent(p) \in Bodies /\ Intent(p) # None
  BY ArchiveAssumption DEF Intent, Bodies
<1> QED
  BY <1>1, <1>2, <1>3, <1>4 DEF CallOK, Preserves, Principal

LEMMA RegistrySteps ==
  ASSUME GovernedInv, NEW p \in Procs, Govern(p) \/ Mint(p) \/ SyncMint(p)
  PROVE  Safe
<1>1. calls[p] \in CallType /\ CallOK(p) /\ Len(audit) \in Nat
  BY CallFacts
<1>2. CASE Govern(p)
  <2>1. PICK c \in CallType : c = Call("mint", None, <<>>, 0, {})
    <3>1. "mint" \in Steps
      BY DEF Steps
    <3>2. <<>> \in Seq(Docs)
      OBVIOUS
    <3>3. Call("mint", None, <<>>, 0, {}) \in CallType
      BY <3>1, <3>2 DEF Call, CallType
    <3> QED
      BY <3>3
  <2>2. /\ audit' = audit /\ archive' = archive /\ ArchiveInv' /\ RegistryOK' /\ Grown
        /\ \A q \in Procs : appends'[q] = appends[q]
    BY <1>2, CallOnlyKeeps DEF Govern
  <2>3. ASSUME calls'[p] = c
        PROVE  CallOK(p)' /\ Truthful(p)'
    BY <1>1, <1>2, <2>1, <2>2, <2>3 DEF Govern, NoCall, Call, CallOK, Preserves, Answering, Driving,
       Truthful, Unprincipled, WithDocs, Relying, Is
  <2>4. CallsInv'
    BY <1>2, <2>1, <2>2, <2>3, OneCall DEF Govern
  <2> QED
    BY <2>2, <2>4 DEF Safe
<1>3. CASE Mint(p) \/ SyncMint(p)
  <2>1. /\ audit' = audit /\ archive' = archive /\ appends' = appends /\ diskArchive' = diskArchive
        /\ minted' \in BOOLEAN /\ (minted => minted') /\ diskMinted' \in BOOLEAN /\ admitted' = admitted
    BY <1>3 DEF Mint, SyncMint, archiveVars, GovernedInv, RegistryOK
  <2>2. ArchiveInv'
    BY <2>1 DEF GovernedInv, ArchiveInv, ArchiveTypeOK, AppendOK, Doc, SameVersion, Chain, Succeeds
  <2>3. Grown /\ RegistryOK'
    BY <2>1, WroteGrows DEF GovernedInv, RegistryOK
  <2>4. appends'[p] = NoAppend
    BY <1>3, <2>1, CallFacts DEF Mint, SyncMint, Is
  <2>5. CASE Finish(p)
    BY <2>1, <2>2, <2>3, <2>4, <2>5, Finished DEF Safe
  <2>6. CASE Goto(p, "sync_mint") /\ Mint(p)
    <3>1. PICK c \in CallType : c = [calls[p] EXCEPT !.at = "sync_mint"]
      <4>1. "sync_mint" \in Steps
        BY DEF Steps
      <4> QED
        BY <1>1, <4>1 DEF CallType
    <3>2. calls' = [calls EXCEPT ![p] = c]
      BY <2>6, <3>1 DEF Goto
    <3>3. ASSUME calls'[p] = c
          PROVE  CallOK(p)' /\ Truthful(p)'
      BY <1>1, <2>1, <2>4, <2>6, <3>1, <3>3 DEF Mint, CallType, CallOK, Preserves, Answering, Driving,
         Truthful, Before, Unprincipled, WithDocs, Relying, Is
    <3> QED
      BY <2>1, <2>2, <2>3, <3>2, <3>3, OneCall DEF Safe
  <2> QED
    BY <1>3, <2>5, <2>6 DEF Mint, SyncMint
<1> QED
  BY <1>2, <1>3

LEMMA BeginningSteps ==
  ASSUME GovernedInv, NEW p \in Procs,
         \/ \E docs \in Bundles : Activate(p, docs)
         \/ \E d \in Corrections : ApplyCorrection(p, d)
         \/ \E a \in Architects : Gate(p, a)
  PROVE  Safe
<1>1. /\ audit' = audit /\ archive' = archive /\ ArchiveInv' /\ RegistryOK' /\ Grown
      /\ \A q \in Procs : appends'[q] = appends[q]
  BY CallOnlyKeeps DEF Activate, ApplyCorrection, Gate
<1>2. /\ CallOK(p) /\ Len(audit) \in Nat /\ Len(audit) \in 0..Len(audit)
      /\ archive \subseteq Docs /\ RunAt(Len(audit)) = Now
  BY CallFacts DEF GovernedInv, ArchiveInv, ArchiveTypeOK, Now
<1>3. \A body : WithBody(body) \subseteq archive
  BY DEF WithBody
<1>4. calls[p] = NoCall
  BY DEF Activate, ApplyCorrection, Gate
<1>5. appends'[p] = NoAppend
  BY <1>1, <1>4, CallFacts DEF NoCall, Call
<1>6. {"locate", "rejection", "gated"} \subseteq Steps
  BY DEF Steps
<1>7. CASE \E docs \in Bundles : Activate(p, docs)
  <2>1. PICK docs \in Bundles : Activate(p, docs)
    BY <1>7
  <2>2. docs \in Seq(Docs) /\ docs # <<>> /\ IssuerOf[docs[1]] \in Architects
    BY GovernedRunAssumption
  <2>3. PICK c \in CallType :
          c = Call("locate", IssuerOf[docs[1]], docs, Len(audit), WithBody(BodyOf[docs[1]]))
    <3>1. Call("locate", IssuerOf[docs[1]], docs, Len(audit), WithBody(BodyOf[docs[1]])) \in CallType
      BY <1>2, <1>3, <1>6, <2>2 DEF Call, CallType
    <3> QED
      BY <3>1
  <2>4. ASSUME calls'[p] = c
        PROVE  CallOK(p)' /\ Truthful(p)'
    BY <1>1, <1>2, <1>3, <1>5, <2>2, <2>3, <2>4 DEF Call, CallOK, Preserves, Answering, Driving,
       Truthful, Unprincipled, WithDocs, Relying, Is
  <2> QED
    BY <1>1, <2>1, <2>3, <2>4, OneCall DEF Activate, Safe
<1>8. CASE \E d \in Corrections : ApplyCorrection(p, d)
  <2>1. PICK d \in Corrections : ApplyCorrection(p, d)
    BY <1>8
  <2>2. d \in Docs /\ IssuerOf[d] \in Architects
    BY GovernedRunAssumption
  <2>3. <<d>> \in Seq(Docs) /\ <<d>> # <<>> /\ Len(<<d>>) = 1
    BY <2>2
  <2>4. PICK c \in CallType :
          c = Call("rejection", IssuerOf[d], <<d>>, Len(audit), WithBody(BodyOf[d]))
    <3>1. Call("rejection", IssuerOf[d], <<d>>, Len(audit), WithBody(BodyOf[d])) \in CallType
      BY <1>2, <1>3, <1>6, <2>2, <2>3 DEF Call, CallType
    <3> QED
      BY <3>1
  <2>5. RunAt(Len(audit))' = RunAt(Len(audit)) /\ RunAt(Len(audit)).state = "CORRECTION_REQUIRED"
    BY <1>2, <1>1, <2>1 DEF ApplyCorrection, Grown
  <2>6. ASSUME calls'[p] = c
        PROVE  CallOK(p)' /\ Truthful(p)'
    BY <1>1, <1>2, <1>3, <1>5, <2>2, <2>3, <2>4, <2>5, <2>6 DEF Call, CallOK, Preserves, Answering,
       Driving, Truthful, Unprincipled, WithDocs, Relying, Is
  <2> QED
    BY <1>1, <2>1, <2>4, <2>6, OneCall DEF ApplyCorrection, Safe
<1>9. CASE \E a \in Architects : Gate(p, a)
  <2>1. PICK a \in Architects : Gate(p, a)
    BY <1>9
  <2>2. PICK c \in CallType : c = Call("gated", a, <<>>, Len(audit), {})
    <3>1. <<>> \in Seq(Docs)
      OBVIOUS
    <3>2. Call("gated", a, <<>>, Len(audit), {}) \in CallType
      BY <1>2, <1>6, <3>1 DEF Call, CallType
    <3> QED
      BY <3>2
  <2>3. Rests(Len(audit), a)
    <3>1. Determinate /\ Governed(Len(audit), a)
          /\ (Now.state \in DOMAIN ActorOf => Granted(ActorOf[Now.state]))
      BY <2>1 DEF Gate, Ready
    <3>2. \A body : Resolves(body) => WithBody(body) # {}
      BY DEF Resolves
    <3> QED
      BY <1>2, <3>1, <3>2 DEF Rests, Determinate, Granted
  <2>4. Rests(Len(audit), a)'
    BY <1>1, <1>2, <2>3, RestsKept DEF GovernedInv
  <2>5. ASSUME calls'[p] = c
        PROVE  CallOK(p)' /\ Truthful(p)'
    <3>1. Rests(calls[p].seen, calls[p].who)'
      BY <1>1, <2>2, <2>4, <2>5 DEF Call
    <3> QED
      BY <1>1, <1>2, <1>5, <2>2, <3>1, <2>5 DEF Call, CallOK, Preserves, Answering,
         Driving, Truthful, Unprincipled, WithDocs, Relying, Is
  <2> QED
    BY <1>1, <2>1, <2>2, <2>5, OneCall DEF Gate, Safe
<1> QED
  BY <1>7, <1>8, <1>9

LEMMA PreserveSteps ==
  ASSUME GovernedInv, NEW p \in Procs, Preserve(p) \/ AppendFor(p) \/ Preserved(p)
  PROVE  Safe
<1>1. /\ calls[p] \in CallType /\ CallOK(p) /\ Truthful(p) /\ Len(audit) \in Nat
      /\ calls[p].docs \in Seq(Docs) /\ Len(calls[p].docs) \in Nat /\ calls[p].kept \in Nat
      /\ calls[p].at = "preserve"
  BY CallFacts DEF CallType, Preserve, AppendFor, Preserved, Is
<1>2. /\ audit' = audit /\ RegistryOK'
  BY DEF Preserve, AppendFor, Preserved, GovernedInv, RegistryOK, registry
<1>3. /\ \A i \in 1..(calls[p].kept - 1) : calls[p].docs[i] \in archive
      /\ calls[p].kept > 0 => Doc(p) = calls[p].docs[calls[p].kept] /\ appends[p].at # "none"
      /\ calls[p].kept = 0 => appends[p].at = "none"
  BY <1>1 DEF CallOK, Preserves, NoAppend, At
<1>4. appends[p].at \in {"sync", "kept"} => Doc(p) \in archive
  BY DEF GovernedInv, ArchiveInv, AppendOK
<1>5. /\ appends \in [Procs -> AppendType]
      /\ appends[p] \in AppendType
  BY DEF GovernedInv, ArchiveInv, ArchiveTypeOK, AppendType
<1>6. CASE Preserve(p)
  <2>1. /\ calls[p].kept < Len(calls[p].docs) /\ appends[p].at \in {"none", "kept"}
        /\ BeginAppend(p, calls[p].docs[calls[p].kept + 1])
        /\ calls' = [calls EXCEPT ![p].kept = calls[p].kept + 1]
    BY <1>6 DEF Preserve
  <2>2. calls[p].docs[calls[p].kept + 1] \in Docs
    BY <1>1, <2>1
  <2>3. PICK d \in Docs : d = calls[p].docs[calls[p].kept + 1]
    BY <2>2
  <2>4. BeginAppend(p, d)
    BY <2>1, <2>3
  <2>5. /\ ArchiveInv' /\ archive \subseteq archive' /\ Grown
        /\ \A q \in Procs \ {p} : appends'[q] = appends[q]
    BY <1>2, <2>4, ArchiveStep, WroteGrows DEF GovernedInv
  <2>6. appends'[p].at # "none" /\ Doc(p)' = d
    BY <1>5, <2>4 DEF BeginAppend, At, Doc
  <2>7. \A i \in 1..calls[p].kept : calls[p].docs[i] \in archive'
    BY <1>1, <1>3, <1>4, <2>1, <2>5
  <2>8. PICK c \in CallType : c = [calls[p] EXCEPT !.kept = calls[p].kept + 1]
    <3>1. calls[p].kept + 1 \in Nat
      BY <1>1
    <3> QED
      BY <1>1, <3>1 DEF CallType
  <2>9. ASSUME calls'[p] = c
        PROVE  CallOK(p)' /\ Truthful(p)'
    <3>1. /\ c.at = "preserve" /\ c.docs = calls[p].docs /\ c.kept = calls[p].kept + 1
          /\ c.seen = calls[p].seen /\ c.who = calls[p].who /\ c.facts = calls[p].facts
          /\ c.next = calls[p].next
      BY <1>1, <2>8 DEF CallType
    <3>2. Preserves(p)'
      BY <1>1, <1>2, <2>1, <2>3, <2>5, <2>6, <2>7, <2>9, <3>1 DEF CallOK, Preserves, Doc, Before,
         Unprincipled, WithDocs, Relying
    <3>3. Answering(p)'
      BY <1>1, <1>2, <2>9, <3>1 DEF CallOK, Answering, ByArchitect, RunAt
    <3>4. Driving(p)' /\ Truthful(p)'
      BY <1>1, <2>9, <3>1 DEF Driving, Truthful, Is
    <3> QED
      BY <3>2, <3>3, <3>4 DEF CallOK
  <2> QED
    BY <1>2, <2>1, <2>5, <2>8, <2>9, OneCall DEF Safe
<1>7. CASE AppendFor(p)
  <2>1. AppendStep(p) /\ calls' = calls
    BY <1>7 DEF AppendFor
  <2>2. /\ ArchiveInv' /\ archive \subseteq archive' /\ Grown
        /\ \A q \in Procs \ {p} : appends'[q] = appends[q]
    BY <1>2, <2>1, ArchiveStep, WroteGrows DEF GovernedInv
  <2>3. appends[p].at # "none" /\ appends'[p].at # "none" /\ appends'[p].doc = appends[p].doc
    BY <1>5, <2>1 DEF AppendType, AppendStep, Link, LinkLost, SyncChain, Into
  <2>4. PICK c \in CallType : c = calls[p]
    BY <1>1
  <2>5. calls' = [calls EXCEPT ![p] = c]
    BY <2>1, <2>4 DEF GovernedInv, CallsInv
  <2>6. ASSUME calls'[p] = c
        PROVE  CallOK(p)' /\ Truthful(p)'
    <3>1. Preserves(p)'
      BY <1>1, <1>2, <1>3, <2>2, <2>3, <2>4, <2>6 DEF CallOK, Preserves, Doc, Before, Unprincipled,
         WithDocs, Relying
    <3>2. Answering(p)'
      BY <1>1, <1>2, <2>4, <2>6 DEF CallOK, Answering, ByArchitect, RunAt
    <3>3. Driving(p)' /\ Truthful(p)'
      BY <1>1, <2>4, <2>6 DEF Driving, Truthful, Is
    <3> QED
      BY <3>1, <3>2, <3>3 DEF CallOK
  <2> QED
    BY <1>2, <2>2, <2>5, <2>6, OneCall DEF Safe
<1>8. CASE Preserved(p)
  <2>1. /\ appends[p].at = "kept" /\ calls[p].kept = Len(calls[p].docs)
        /\ appends' = [appends EXCEPT ![p] = NoAppend] /\ UNCHANGED <<archive, diskArchive>>
        /\ calls' = [calls EXCEPT ![p].at = calls[p].next]
    BY <1>8 DEF Preserved, Goto
  <2>2. /\ ArchiveInv' /\ archive \subseteq archive' /\ Grown
        /\ \A q \in Procs \ {p} : appends'[q] = appends[q]
    BY <1>2, <2>1, ArchiveStep, WroteGrows DEF GovernedInv
  <2>3. appends'[p] = NoAppend
    BY <1>5, <2>1
  <2>4. \A i \in 1..Len(calls[p].docs) : calls[p].docs[i] \in archive'
    BY <1>1, <1>3, <1>4, <2>1, <2>2
  <2>5. calls[p].next \in {"enter", "issue", "confirm", "correct", "decide"} /\ calls[p].next \in Steps
    BY <1>1 DEF CallOK, Preserves, Steps
  <2>6. PICK c \in CallType : c = [calls[p] EXCEPT !.at = calls[p].next]
    BY <1>1, <2>5 DEF CallType
  <2>7. ASSUME calls'[p] = c
        PROVE  CallOK(p)' /\ Truthful(p)'
    <3>1. /\ c.at = calls[p].next /\ c.docs = calls[p].docs /\ c.kept = calls[p].kept
          /\ c.seen = calls[p].seen /\ c.who = calls[p].who /\ c.facts = calls[p].facts
      BY <1>1, <2>6 DEF CallType
    <3>2. Preserves(p)'
      BY <1>1, <1>2, <2>2, <2>3, <2>4, <2>5, <2>7, <3>1 DEF CallOK, Preserves, Before, Unprincipled,
         WithDocs, Relying
    <3>3. Answering(p)'
      BY <1>1, <1>2, <2>5, <2>7, <3>1 DEF CallOK, Answering, ByArchitect, RunAt
    <3>4. Driving(p)' /\ Truthful(p)'
      BY <1>1, <2>5, <2>7, <3>1 DEF Driving, Truthful, Is
    <3> QED
      BY <3>2, <3>3, <3>4 DEF CallOK
  <2> QED
    BY <1>2, <2>1, <2>2, <2>6, <2>7, OneCall DEF Safe
<1> QED
  BY <1>6, <1>7, <1>8

LEMMA EndStep ==
  ASSUME GovernedInv, NEW p \in Procs, End(p)
  PROVE  Safe
<1>1. /\ audit' = audit /\ RegistryOK' /\ appends' = [appends EXCEPT ![p] = NoAppend]
      /\ UNCHANGED <<archive, diskArchive>> /\ Finish(p)
  BY DEF End, GovernedInv, RegistryOK, registry
<1>2. /\ ArchiveInv' /\ archive \subseteq archive' /\ Grown
      /\ \A q \in Procs \ {p} : appends'[q] = appends[q]
  BY <1>1, ArchiveStep, WroteGrows DEF GovernedInv
<1>3. appends'[p] = NoAppend
  BY <1>1 DEF GovernedInv, ArchiveInv, ArchiveTypeOK
<1> QED
  BY <1>1, <1>2, <1>3, Finished DEF Safe

(* The next step of a call whose documents are archived. *)
LEMMA Onward ==
  ASSUME GovernedInv, Grown, NEW p \in Procs, NEW s \in Relying, Goto(p, s),
         \A q \in Procs : appends'[q] = appends[q],
         calls[p].at \in Relying, calls[p].docs # <<>>,
         s \notin {"correct", "activated", "corrected"}, s = "corrected?" => calls[p].at = "correct"
  PROVE  CallsInv'
<1>1. /\ calls[p] \in CallType /\ CallOK(p) /\ Len(audit) \in Nat /\ appends[p] = NoAppend
      /\ calls[p].seen \in 0..Len(audit)
  BY CallFacts DEF Relying
<1>2. PICK c \in CallType : c = [calls[p] EXCEPT !.at = s]
  <2>1. s \in Steps
    BY DEF Relying, Steps
  <2> QED
    BY <1>1, <2>1 DEF CallType
<1>3. ASSUME calls'[p] = c
      PROVE  CallOK(p)' /\ Truthful(p)'
  <2>1. /\ c.at = s /\ c.docs = calls[p].docs /\ c.kept = calls[p].kept
        /\ c.seen = calls[p].seen /\ c.who = calls[p].who /\ c.facts = calls[p].facts
    BY <1>1, <1>2 DEF CallType
  <2>2. Preserves(p)'
    BY <1>1, <1>3, <2>1 DEF CallOK, Preserves, Before, Unprincipled, WithDocs, Relying, Grown,
       GovernedInv, RunInv, RunTypeOK
  <2>3. Answering(p)'
    <3>1. RunAt(calls[p].seen)' = RunAt(calls[p].seen)
      BY <1>1, <1>3, <2>1 DEF Grown
    <3>2. s # "rejection" /\ s # "preserve"
      BY DEF Relying
    <3>3. calls[p].seen > 0 => audit'[calls[p].seen] = audit[calls[p].seen]
      BY <1>1 DEF Grown
    <3> QED
      BY <1>1, <1>3, <2>1, <3>1, <3>2, <3>3 DEF CallOK, Answering, ByArchitect
  <2>4. Driving(p)' /\ Truthful(p)'
    BY <1>3, <2>1 DEF Driving, Truthful, Is, Relying
  <2> QED
    BY <2>2, <2>3, <2>4 DEF CallOK
<1> QED
  BY <1>2, <1>3, OneCall DEF Goto

(* The start of the archiving. *)
LEMMA PreservingKeeps ==
  ASSUME GovernedInv, CallOnly, NEW p \in Procs, NEW next, Preserving(p, next),
         calls[p].at \in {"locate", "rejection"},
         next \in {"enter", "issue", "confirm", "correct"},
         next = "correct" =>
           /\ calls[p].seen > 0 /\ ByArchitect(calls[p].seen, "REJECT_EXACT_SHA", Principal(p))
           /\ Answers[Intent(p)][2] = RunAt(calls[p].seen).iterations + 1
  PROVE  CallsInv'
<1>1. /\ calls[p] \in CallType /\ CallOK(p) /\ Len(audit) \in Nat /\ appends[p] = NoAppend
      /\ calls[p].seen \in 0..Len(audit)
  BY CallFacts
<1>2. /\ audit' = audit /\ archive' = archive /\ Grown /\ \A q \in Procs : appends'[q] = appends[q]
  BY CallOnlyKeeps
<1>3. PICK c \in CallType : c = [calls[p] EXCEPT !.at = "preserve", !.next = next, !.facts = {}]
  <2>1. "preserve" \in Steps /\ next \in Steps
    BY DEF Steps
  <2>2. {} \in SUBSET Docs
    OBVIOUS
  <2> QED
    BY <1>1, <2>1, <2>2 DEF CallType
<1>4. ASSUME calls'[p] = c
      PROVE  CallOK(p)' /\ Truthful(p)'
  <2>1. /\ c.at = "preserve" /\ c.docs = calls[p].docs /\ c.kept = 0 /\ c.next = next
        /\ c.seen = calls[p].seen /\ c.who = calls[p].who /\ c.facts = {}
        /\ c.docs # <<>> /\ c.who \in Architects
    BY <1>1, <1>3 DEF CallType, CallOK, Preserves, Before, Unprincipled, WithDocs
  <2>2. Preserves(p)'
    BY <1>1, <1>2, <1>4, <2>1 DEF CallOK, Preserves, Before, Unprincipled, WithDocs, Relying
  <2>3. Answering(p)'
    BY <1>2, <1>4, <2>1 DEF Answering, ByArchitect, RunAt, Principal, Intent, Document
  <2>4. Driving(p)' /\ Truthful(p)'
    BY <1>4, <2>1 DEF Driving, Truthful, Is
  <2> QED
    BY <2>2, <2>3, <2>4 DEF CallOK
<1>5. calls' = [calls EXCEPT ![p] = c]
  BY <1>3 DEF Preserving, GovernedInv, CallsInv
<1> QED
  BY <1>2, <1>4, <1>5, OneCall

LEMMA ActivateSteps ==
  ASSUME GovernedInv, NEW p \in Procs, ActivateStep(p)
  PROVE  Safe
<1>1. /\ calls[p] \in CallType /\ CallOK(p) /\ Len(audit) \in Nat /\ Truthful(p)
      /\ calls[p].seen \in 0..Len(audit) /\ appends[p] = NoAppend
      /\ calls[p].docs # <<>> /\ Principal(p) \in Architects
      /\ Document(p) \in Docs /\ Intent(p) \in Bodies /\ Intent(p) # None /\ 1 \in 1..Len(calls[p].docs)
      /\ calls[p].at \in {"locate", "enter", "reread", "issue", "confirm", "report"}
  <2>1. calls[p].at \in {"locate", "enter", "reread", "issue", "confirm", "report"}
    BY DEF ActivateStep, Locate, Enter, EnterRefused, Reread, Issue, IssueRefused, Confirm, Report, Is
  <2>2. calls[p].docs # <<>> /\ calls[p].at \notin Unprincipled /\ calls[p].at # "preserve"
    BY <2>1, CallFacts DEF CallOK, Preserves, WithDocs, Relying, Unprincipled
  <2> QED
    BY <2>1, <2>2, CallFacts
<1>2. calls[p].at \in Relying => \A i \in 1..Len(calls[p].docs) : calls[p].docs[i] \in archive
  BY <1>1 DEF CallOK, Preserves
<1>3. CallOnly => /\ audit' = audit /\ archive' = archive /\ ArchiveInv' /\ RegistryOK' /\ Grown
                  /\ \A q \in Procs : appends'[q] = appends[q]
  BY CallOnlyKeeps
<1>4. CASE Locate(p)
  <2>1. PICK next \in {"enter", "issue", "confirm"} : Preserving(p, next)
    BY <1>4 DEF Locate
  <2>2. CallOnly /\ calls[p].at = "locate"
    BY <1>4 DEF Locate, Is
  <2>3. CallsInv'
    BY <2>1, <2>2, PreservingKeeps
  <2> QED
    BY <1>3, <2>2, <2>3 DEF Safe
<1>5. CASE EnterRefused(p) \/ Reread(p) \/ IssueRefused(p)
  <2>1. PICK s \in {"issue", "reread", "confirm"} : Goto(p, s)
    BY <1>5 DEF EnterRefused, Reread, IssueRefused
  <2>2. CallOnly /\ calls[p].at \in Relying /\ s \in Relying
    BY <1>5 DEF EnterRefused, Reread, IssueRefused, Is, Relying
  <2>3. CallsInv'
    BY <1>1, <1>3, <2>1, <2>2, Onward
  <2> QED
    BY <1>3, <2>2, <2>3 DEF Safe
<1>6. CASE Enter(p) \/ Issue(p)
  <2>1. PICK s \in {"issue", "reread", "confirm"} : Goto(p, s)
    BY <1>6 DEF Enter, Issue
  <2>2. RunOnly /\ calls[p].at \in Relying /\ s \in Relying
    BY <1>6 DEF Enter, Issue, Is, Relying
  <2>3. PICK a \in Architects, body \in Bodies : a = Principal(p) /\ body = Intent(p)
    BY <1>1
  <2>4. Wrote
    <3>1. CASE Enter(p)
      <4>1. Entered(a, body) /\ AtIdle /\ body # None
        BY <1>1, <2>3, <3>1 DEF Enter
      <4>2. WithBody(body) # {}
        BY <1>1, <1>2, <2>2, <2>3 DEF WithBody, Intent, Document
      <4> QED
        BY <4>1, <4>2, EnterWrites DEF GovernedInv
    <3>2. CASE Issue(p)
      BY <2>3, <3>2, IssueWrites DEF Issue, GovernedInv
    <3> QED
      BY <1>6, <3>1, <3>2
  <2>5. /\ archive' = archive /\ ArchiveInv' /\ RegistryOK' /\ Grown
        /\ \A q \in Procs : appends'[q] = appends[q]
    BY <2>2, <2>4, RunOnlyKeeps
  <2>6. CallsInv'
    BY <1>1, <2>1, <2>2, <2>5, Onward
  <2> QED
    BY <2>4, <2>5, <2>6 DEF Safe
<1>7. CASE Confirm(p)
  <2>1. CallOnly /\ calls[p].at = "confirm"
    BY <1>7 DEF Confirm, Is
  <2> DEFINE found == IF Now.packet = None THEN {} ELSE WithBody(Now.packet)
  <2>2. found \subseteq archive /\ archive \subseteq Docs
    BY DEF WithBody, GovernedInv, ArchiveInv, ArchiveTypeOK
  <2>3. PICK c \in CallType :
          c = [calls[p] EXCEPT !.at = "report", !.seen = Len(audit), !.facts = found]
    <3>1. "report" \in Steps
      BY DEF Steps
    <3> HIDE DEF found
    <3> QED
      BY <1>1, <2>2, <3>1 DEF CallType
  <2>4. calls' = [calls EXCEPT ![p] = c]
    BY <1>7, <2>3 DEF Confirm
  <2> HIDE DEF found
  <2>5. ASSUME calls'[p] = c
        PROVE  CallOK(p)' /\ Truthful(p)'
    <3>1. /\ c.at = "report" /\ c.docs = calls[p].docs /\ c.kept = calls[p].kept
          /\ c.seen = Len(audit) /\ c.who = calls[p].who /\ c.facts \subseteq archive
      BY <1>1, <2>2, <2>3 DEF CallType
    <3>2. Preserves(p)'
      BY <1>1, <1>2, <1>3, <2>1, <2>5, <3>1 DEF CallOK, Preserves, Before, Unprincipled, WithDocs,
         Relying
    <3>3. Answering(p)' /\ Driving(p)' /\ Truthful(p)'
      BY <2>5, <3>1 DEF Answering, Driving, Truthful, Is
    <3> QED
      BY <3>2, <3>3 DEF CallOK
  <2> QED
    BY <1>3, <2>1, <2>4, <2>5, OneCall DEF Safe
<1>8. CASE Report(p)
  <2>1. CallOnly /\ calls[p].at = "report"
    BY <1>8 DEF Report, Is
  <2>2. PICK c \in CallType : c = [calls[p] EXCEPT !.at = "activated"]
    <3>1. "activated" \in Steps
      BY DEF Steps
    <3> QED
      BY <1>1, <3>1 DEF CallType
  <2>3. calls' = [calls EXCEPT ![p] = c]
    BY <1>8, <2>2 DEF Report, Goto
  <2>4. /\ Len(audit) > 1
        /\ ByArchitect(1, "ENTER_ARCHITECTURE", Principal(p)) /\ ByArchitect(2, "ISSUE_PACKET", Principal(p))
        /\ RunAt(1).binding = Intent(p) /\ RunAt(2).packet = Intent(p)
    <3>1. Len(audit) = 2 /\ Now.packet = Intent(p) /\ Now.binding = Intent(p)
          /\ ByArchitect(1, "ENTER_ARCHITECTURE", Principal(p))
          /\ ByArchitect(2, "ISSUE_PACKET", Principal(p))
      BY <1>8 DEF Report, AtPacketReady, Owned
    <3>2. RunAt(1).binding = Now.binding /\ RunAt(2) = Now
      BY <3>1 DEF GovernedInv, RunInv, OneBinding, RunAt, Now
    <3> QED
      BY <3>1, <3>2
  <2>5. ASSUME calls'[p] = c
        PROVE  CallOK(p)' /\ Truthful(p)'
    <3>1. /\ c.at = "activated" /\ c.docs = calls[p].docs /\ c.kept = calls[p].kept
          /\ c.seen = calls[p].seen /\ c.who = calls[p].who /\ c.facts = calls[p].facts
      BY <1>1, <2>2 DEF CallType
    <3>2. Preserves(p)'
      BY <1>1, <1>2, <1>3, <2>1, <2>5, <3>1 DEF CallOK, Preserves, Before, Unprincipled, WithDocs,
         Relying
    <3>3. Answering(p)' /\ Driving(p)'
      BY <2>5, <3>1 DEF Answering, Driving
    <3>4. /\ \A i \in DOMAIN c.docs : c.docs[i] \in archive'
          /\ RunAt(1)' = RunAt(1) /\ RunAt(2)' = RunAt(2)
      BY <1>1, <1>2, <1>3, <2>1, <3>1 DEF CallType, Relying, RunAt
    <3>5. Truthful(p)'
      BY <1>3, <2>1, <2>4, <2>5, <3>1, <3>4 DEF Truthful, Is, ByArchitect, Principal, Intent, Document
    <3> QED
      BY <3>2, <3>3, <3>5 DEF CallOK
  <2> QED
    BY <1>3, <2>1, <2>3, <2>5, OneCall DEF Safe
<1> QED
  BY <1>4, <1>5, <1>6, <1>7, <1>8 DEF ActivateStep

(* The correction issued right after the last rejection is the current one. *)
LEMMA CurrentAnswer ==
  ASSUME RunInv, NEW n \in 1..Len(audit), n < Len(audit),
         audit[n + 1].action = "ISSUE_CORRECTION_PACKET",
         Now.correction # None,
         Answers[Now.correction][2] = audit[n + 1].run.iterations + 1
  PROVE  RunAt(n + 1).correction = Now.correction
<1>1. n + 1 \in 1..Len(audit) /\ n + 1 # 0
  BY DEF RunInv, RunTypeOK
<1>2. Now.correction = audit[n + 1].run.correction
  BY <1>1 DEF RunInv, CorrectionsStand
<1> QED
  BY <1>1, <1>2 DEF RunAt

LEMMA CorrectedTruthfully ==
  ASSUME GovernedInv, CallOnly, NEW p \in Procs, Goto(p, "corrected"),
         calls[p].at \in {"rejection", "corrected?"}, calls[p].docs # <<>>,
         \A i \in 1..Len(calls[p].docs) : calls[p].docs[i] \in archive,
         \E n \in 1..Len(audit) :
            /\ ByArchitect(n, "REJECT_EXACT_SHA", Principal(p))
            /\ IssuedAfter(n, Principal(p))
            /\ RunAt(n + 1).correction = Intent(p)
  PROVE  CallsInv'
<1>1. /\ calls[p] \in CallType /\ CallOK(p) /\ Len(audit) \in Nat /\ appends[p] = NoAppend
      /\ calls[p].seen \in 0..Len(audit) /\ 1 \in 1..Len(calls[p].docs)
  BY CallFacts
<1>2. /\ audit' = audit /\ archive' = archive /\ Grown /\ \A q \in Procs : appends'[q] = appends[q]
  BY CallOnlyKeeps
<1>3. PICK c \in CallType : c = [calls[p] EXCEPT !.at = "corrected"]
  <2>1. "corrected" \in Steps
    BY DEF Steps
  <2> QED
    BY <1>1, <2>1 DEF CallType
<1>4. calls' = [calls EXCEPT ![p] = c]
  BY <1>3 DEF Goto
<1>5. ASSUME calls'[p] = c
      PROVE  CallOK(p)' /\ Truthful(p)'
  <2>1. /\ c.at = "corrected" /\ c.docs = calls[p].docs /\ c.kept = calls[p].kept
        /\ c.seen = calls[p].seen /\ c.who = calls[p].who /\ c.facts = calls[p].facts
    BY <1>1, <1>3 DEF CallType
  <2>2. Preserves(p)'
    BY <1>1, <1>2, <1>5, <2>1 DEF CallOK, Preserves, Before, Unprincipled, WithDocs, Relying
  <2>3. Answering(p)' /\ Driving(p)'
    BY <1>5, <2>1 DEF Answering, Driving
  <2>4. \A n \in Nat : RunAt(n)' = RunAt(n)
    BY <1>2 DEF RunAt
  <2>5. PICK n \in 1..Len(audit) :
          /\ ByArchitect(n, "REJECT_EXACT_SHA", Principal(p))
          /\ IssuedAfter(n, Principal(p))
          /\ RunAt(n + 1).correction = Intent(p)
    OBVIOUS
  <2>6. RunAt(n + 1)' = RunAt(n + 1)
    BY <2>4
  <2>7. Truthful(p)'
    BY <1>1, <1>2, <1>5, <2>1, <2>5, <2>6 DEF Truthful, Is, ByArchitect, IssuedAfter, Principal, Intent,
       Document
  <2> QED
    BY <2>2, <2>3, <2>7 DEF CallOK
<1> QED
  BY <1>2, <1>4, <1>5, OneCall

LEMMA CorrectionSteps ==
  ASSUME GovernedInv, NEW p \in Procs, CorrectionStep(p)
  PROVE  Safe
<1>1. /\ calls[p] \in CallType /\ CallOK(p) /\ Len(audit) \in Nat
      /\ calls[p].seen \in 0..Len(audit) /\ appends[p] = NoAppend
      /\ calls[p].docs # <<>> /\ Principal(p) \in Architects
      /\ Document(p) \in Docs /\ Intent(p) \in Bodies /\ Intent(p) # None /\ 1 \in 1..Len(calls[p].docs)
  <2>1. calls[p].at \in {"rejection", "correct", "corrected?"}
    BY DEF CorrectionStep, AlreadyCorrected, NotYetCorrected, Correct, CorrectRefused,
       ConfirmCorrection, Is
  <2>2. calls[p].docs # <<>> /\ calls[p].at \notin Unprincipled /\ calls[p].at # "preserve"
    BY <2>1, CallFacts DEF CallOK, Preserves, WithDocs, Relying, Unprincipled
  <2> QED
    BY <2>1, <2>2, CallFacts
<1>2. CallOnly => /\ audit' = audit /\ archive' = archive /\ ArchiveInv' /\ RegistryOK' /\ Grown
                  /\ \A q \in Procs : appends'[q] = appends[q]
  BY CallOnlyKeeps
<1>3. CASE AlreadyCorrected(p)
  <2>1. CallOnly /\ calls[p].at = "rejection" /\ Len(audit) = calls[p].seen /\ Goto(p, "corrected")
    BY <1>3 DEF AlreadyCorrected, Is, Unmoved
  <2>2. \A i \in 1..Len(calls[p].docs) : calls[p].docs[i] \in archive
    <3>1. Len(calls[p].docs) = 1 /\ calls[p].facts \subseteq archive
      BY <1>1, <2>1 DEF CallOK, Answering, Preserves
    <3>2. calls[p].docs[1] \in archive
      BY <1>3, <3>1 DEF AlreadyCorrected, Document
    <3> QED
      BY <3>1, <3>2
  <2>3. Place(Now) = "CORRECTION_REQUIRED"
    BY <1>1, <2>1 DEF CallOK, Answering, Now, Place, Active
  <2>4. PICK n \in 1..Len(audit) : GovernedRejection(p, n) /\ IssuedAfter(n, Principal(p))
    BY <1>3 DEF AlreadyCorrected
  <2>5. n < Len(audit) /\ n + 1 \in n..Len(audit) /\ audit[n + 1].action = "ISSUE_CORRECTION_PACKET"
    BY <1>1, <2>4 DEF IssuedAfter, ByArchitect
  <2>6. audit[n + 1].run.iterations = Now.iterations
    BY <2>3, <2>4, <2>5 DEF GovernedRejection, GovernedInv, RunInv, RejectionStands
  <2>7. Now.correction # None /\ Answers[Now.correction][2] = Now.iterations + 1
        /\ Now.correction = Intent(p)
    BY <1>3 DEF AlreadyCorrected, HoldsCurrent
  <2>8. RunAt(n + 1).correction = Intent(p)
    BY <2>5, <2>6, <2>7, CurrentAnswer DEF GovernedInv
  <2>9. ByArchitect(n, "REJECT_EXACT_SHA", Principal(p))
    BY <2>4 DEF GovernedRejection, LastRejection, ByArchitect
  <2>10. CallsInv'
    BY <1>1, <2>1, <2>2, <2>4, <2>8, <2>9, CorrectedTruthfully
  <2> QED
    BY <1>2, <2>1, <2>10 DEF Safe
<1>4. CASE NotYetCorrected(p)
  <2>1. CallOnly /\ calls[p].at = "rejection" /\ Len(audit) = calls[p].seen /\ Preserving(p, "correct")
    BY <1>4 DEF NotYetCorrected, Is, Unmoved
  <2>2. /\ calls[p].seen > 0 /\ ByArchitect(calls[p].seen, "REJECT_EXACT_SHA", Principal(p))
        /\ Answers[Intent(p)][2] = RunAt(calls[p].seen).iterations + 1
    BY <1>1, <1>4, <2>1 DEF NotYetCorrected, GovernedRejection, LastRejection, ByArchitect, Now
  <2>3. CallsInv'
    BY <2>1, <2>2, PreservingKeeps
  <2> QED
    BY <1>2, <2>1, <2>3 DEF Safe
<1>5. CASE Correct(p)
  <2>1. RunOnly /\ calls[p].at = "correct" /\ Goto(p, "corrected?") /\ Corrected(Principal(p), Intent(p))
    BY <1>5 DEF Correct, Is
  <2>2. PICK a \in Architects, body \in Bodies : a = Principal(p) /\ body = Intent(p)
    BY <1>1
  <2>3. Wrote
    BY <2>1, <2>2, CorrectWrites DEF GovernedInv
  <2>4. /\ archive' = archive /\ ArchiveInv' /\ RegistryOK' /\ Grown
        /\ \A q \in Procs : appends'[q] = appends[q]
    BY <2>1, <2>3, RunOnlyKeeps
  <2>5. "corrected?" \in Relying /\ "correct" \in Relying
    BY DEF Relying
  <2>6. CallsInv'
    BY <1>1, <2>1, <2>4, <2>5, Onward
  <2> QED
    BY <2>3, <2>4, <2>6 DEF Safe
<1>6. CASE CorrectRefused(p)
  <2>1. CallOnly /\ calls[p].at = "correct" /\ Goto(p, "corrected?")
    BY <1>6 DEF CorrectRefused, Is
  <2>2. "corrected?" \in Relying /\ "correct" \in Relying
    BY DEF Relying
  <2>3. CallsInv'
    BY <1>1, <1>2, <2>1, <2>2, Onward
  <2> QED
    BY <1>2, <2>1, <2>3 DEF Safe
<1>7. CASE ConfirmCorrection(p)
  <2>1. /\ CallOnly /\ calls[p].at = "corrected?" /\ Goto(p, "corrected")
        /\ IssuedAfter(calls[p].seen, Principal(p))
        /\ Now.correction # None /\ WithBody(Now.correction) = {Document(p)}
    BY <1>7 DEF ConfirmCorrection, Is
  <2>2. \A i \in 1..Len(calls[p].docs) : calls[p].docs[i] \in archive
    BY <1>1, <2>1 DEF CallOK, Preserves, Relying
  <2>3. Now.correction = Intent(p)
    BY <2>1 DEF WithBody, Intent
  <2>4. /\ calls[p].seen > 0 /\ ByArchitect(calls[p].seen, "REJECT_EXACT_SHA", Principal(p))
        /\ Answers[Intent(p)][2] = RunAt(calls[p].seen).iterations + 1
    BY <1>1, <2>1 DEF CallOK, Answering, Principal, Intent, Document
  <2>5. PICK n \in 1..Len(audit) : n = calls[p].seen
    BY <1>1, <2>4
  <2>6. n < Len(audit) /\ n + 1 \in 1..Len(audit) /\ audit[n + 1].action = "ISSUE_CORRECTION_PACKET"
    BY <1>1, <2>1, <2>5 DEF IssuedAfter, ByArchitect
  <2>7. RunAt(n).iterations = audit[n + 1].run.iterations
    <3>1. RunAt((n + 1) - 1).iterations = audit[n + 1].run.iterations
      BY <2>6 DEF GovernedInv, RunInv, CorrectionsStand
    <3>2. (n + 1) - 1 = n
      OBVIOUS
    <3> QED
      BY <3>1, <3>2
  <2>8. RunAt(n + 1).correction = Intent(p)
    BY <2>1, <2>3, <2>4, <2>5, <2>6, <2>7, CurrentAnswer DEF GovernedInv
  <2>9. CallsInv'
    BY <1>1, <2>1, <2>2, <2>4, <2>5, <2>8, CorrectedTruthfully
  <2> QED
    BY <1>2, <2>1, <2>9 DEF Safe
<1> QED
  BY <1>3, <1>4, <1>5, <1>6, <1>7 DEF CorrectionStep

(* The runner's read, the call to the actor, and the start of a review's decision. *)
LEMMA DriverReads ==
  ASSUME GovernedInv, NEW p \in Procs, RunnerReads(p) \/ Dispatch(p) \/ ApplyReview(p)
  PROVE  Safe
<1>1. /\ calls[p] \in CallType /\ CallOK(p) /\ Len(audit) \in Nat
      /\ calls[p].seen \in 0..Len(audit) /\ appends[p] = NoAppend
      /\ calls[p].at \in {"gated", "dispatch", "called"}
  BY CallFacts DEF RunnerReads, Dispatch, ApplyReview, Is
<1>2. /\ calls[p].docs = <<>> /\ calls[p].kept = 0 /\ calls[p].who \in Architects
      /\ calls[p].facts \subseteq archive
      /\ Rests(calls[p].seen, calls[p].who)
      /\ calls[p].at # "gated" => RunAt(calls[p].seen).state \in DOMAIN Entering
      /\ Len(audit) = calls[p].seen
  <2>1. Len(audit) = calls[p].seen
    BY DEF RunnerReads, AtPosition, Dispatch, ApplyReview, Unmoved
  <2> QED
    BY <1>1, <2>1 DEF CallOK, Preserves, Driving, Before, Unprincipled
<1>3. /\ audit' = audit /\ archive' = archive /\ ArchiveInv' /\ RegistryOK' /\ Grown
      /\ \A q \in Procs : appends'[q] = appends[q]
  BY CallOnlyKeeps DEF RunnerReads, Dispatch, ApplyReview
<1>4. Rests(Len(audit), calls[p].who)'
  <2>1. PICK n \in Nat, a \in Architects : n = Len(audit) /\ a = calls[p].who
    BY <1>1, <1>2
  <2>2. Rests(n, a)'
    BY <1>2, <1>3, <2>1, RestsKept DEF GovernedInv
  <2>3. CASE calls'[p].who = calls[p].who
    BY <1>3, <2>1, <2>2, <2>3
  <2>4. calls'[p].who = calls[p].who
    <3>1. calls \in [Procs -> CallType]
      BY DEF GovernedInv, CallsInv
    <3> QED
      BY <1>1, <3>1 DEF CallType, RunnerReads, Dispatch, ApplyReview, Goto
  <2> QED
    BY <2>3, <2>4
<1>5. CASE RunnerReads(p)
  <2>1. PICK s \in {"dispatch", "move"} :
          /\ s = "dispatch" => Now.state \in DOMAIN Entering
          /\ calls' = [calls EXCEPT ![p].at = s, ![p].seen = Len(audit)]
    BY <1>5 DEF RunnerReads
  <2>2. PICK c \in CallType : c = [calls[p] EXCEPT !.at = s, !.seen = Len(audit)]
    <3>1. s \in Steps
      BY DEF Steps
    <3> QED
      BY <1>1, <3>1 DEF CallType
  <2>3. /\ c.at = s /\ c.docs = <<>> /\ c.kept = 0 /\ c.seen = Len(audit) /\ c.who = calls[p].who
        /\ c.facts = calls[p].facts
    BY <1>1, <1>2, <2>2 DEF CallType
  <2>4. ASSUME calls'[p] = c
        PROVE  CallOK(p)' /\ Truthful(p)'
    <3>1. Preserves(p)'
      BY <1>1, <1>2, <1>3, <2>3, <2>4 DEF Preserves, Before, Unprincipled, WithDocs, Relying
    <3>2. Answering(p)' /\ Truthful(p)'
      BY <2>3, <2>4 DEF Answering, Truthful, Is
    <3>3. Driving(p)'
      BY <1>3, <1>4, <2>1, <2>3, <2>4 DEF Driving, Now, RunAt
    <3> QED
      BY <3>1, <3>2, <3>3 DEF CallOK
  <2> QED
    BY <1>3, <2>1, <2>2, <2>4, OneCall DEF Safe
<1>6. CASE Dispatch(p)
  <2>1. PICK c \in CallType : c = [calls[p] EXCEPT !.at = "called"]
    <3>1. "called" \in Steps
      BY DEF Steps
    <3> QED
      BY <1>1, <3>1 DEF CallType
  <2>2. /\ c.at = "called" /\ c.docs = <<>> /\ c.kept = 0 /\ c.seen = Len(audit)
        /\ c.who = calls[p].who /\ c.facts = calls[p].facts
        /\ RunAt(calls[p].seen).state \in DOMAIN Entering
    BY <1>1, <1>2, <1>6, <2>1 DEF CallType, Dispatch, Is
  <2>3. calls' = [calls EXCEPT ![p] = c]
    BY <1>6, <2>1 DEF Dispatch, Goto
  <2>4. ASSUME calls'[p] = c
        PROVE  CallOK(p)' /\ Truthful(p)'
    <3>1. Preserves(p)'
      BY <1>1, <1>2, <1>3, <2>2, <2>4 DEF Preserves, Before, Unprincipled, WithDocs, Relying
    <3>2. Answering(p)' /\ Truthful(p)'
      BY <2>2, <2>4 DEF Answering, Truthful, Is
    <3>3. Driving(p)'
      BY <1>2, <1>3, <1>4, <2>2, <2>4 DEF Driving, RunAt
    <3> QED
      BY <3>1, <3>2, <3>3 DEF CallOK
  <2> QED
    BY <1>3, <2>3, <2>4, OneCall DEF Safe
<1>7. CASE ApplyReview(p)
  <2>1. "decide" \in Steps /\ "preserve" \in Steps
    BY DEF Steps
  <2>2. CASE Goto(p, "decide")
    <3>1. PICK c \in CallType : c = [calls[p] EXCEPT !.at = "decide"]
      BY <1>1, <2>1 DEF CallType
    <3>2. /\ c.at = "decide" /\ c.docs = <<>> /\ c.kept = 0 /\ c.seen = Len(audit)
          /\ c.who = calls[p].who /\ c.facts = calls[p].facts
      BY <1>1, <1>2, <3>1 DEF CallType
    <3>3. calls' = [calls EXCEPT ![p] = c]
      BY <2>2, <3>1 DEF Goto
    <3>4. ASSUME calls'[p] = c
          PROVE  CallOK(p)' /\ Truthful(p)'
      <4>1. Preserves(p)'
        BY <1>1, <1>2, <1>3, <3>2, <3>4 DEF Preserves, Before, Unprincipled, WithDocs, Relying
      <4>2. Answering(p)' /\ Driving(p)' /\ Truthful(p)'
        BY <3>2, <3>4 DEF Answering, Driving, Truthful, Is
      <4> QED
        BY <4>1, <4>2 DEF CallOK
    <3> QED
      BY <1>3, <3>3, <3>4, OneCall DEF Safe
  <2>3. ASSUME NEW d \in Corrections,
               calls' = [calls EXCEPT ![p].at = "preserve", ![p].next = "decide", ![p].docs = <<d>>]
        PROVE  Safe
    <3>1. d \in Docs /\ <<d>> \in Seq(Docs) /\ <<d>> # <<>> /\ Len(<<d>>) = 1
      BY GovernedRunAssumption
    <3>2. PICK c \in CallType :
            c = [calls[p] EXCEPT !.at = "preserve", !.next = "decide", !.docs = <<d>>]
      BY <1>1, <2>1, <3>1 DEF CallType
    <3>3. /\ c.at = "preserve" /\ c.next = "decide" /\ c.docs # <<>> /\ Len(c.docs) = 1 /\ c.kept = 0
          /\ c.seen = Len(audit) /\ c.who = calls[p].who /\ c.facts = calls[p].facts
      BY <1>1, <1>2, <3>1, <3>2 DEF CallType
    <3>4. calls' = [calls EXCEPT ![p] = c]
      BY <2>3, <3>2 DEF GovernedInv, CallsInv
    <3>5. ASSUME calls'[p] = c
          PROVE  CallOK(p)' /\ Truthful(p)'
      <4>1. Preserves(p)'
        BY <1>1, <1>2, <1>3, <3>1, <3>3, <3>5 DEF Preserves, Before, Unprincipled, WithDocs, Relying
      <4>2. Answering(p)' /\ Driving(p)' /\ Truthful(p)'
        BY <3>3, <3>5 DEF Answering, Driving, Truthful, Is
      <4> QED
        BY <4>1, <4>2 DEF CallOK
    <3> QED
      BY <1>3, <3>4, <3>5, OneCall DEF Safe
  <2> QED
    BY <1>7, <2>2, <2>3 DEF ApplyReview
<1> QED
  BY <1>5, <1>6, <1>7

(* The steps that write what the runner or the actor decided. *)
LEMMA DriverWrites ==
  ASSUME GovernedInv, NEW p \in Procs,
         \/ Move(p) \/ ApplyImplementation(p) \/ HaltAt(p) \/ ReviewRefused(p)
         \/ Decide(p) \/ AnswerRejection(p)
  PROVE  Safe
<1>1. /\ calls[p] \in CallType /\ CallOK(p) /\ Len(audit) \in Nat
      /\ Principal(p) \in Architects
      /\ calls[p].at # "preserve" => appends[p] = NoAppend
      /\ calls[p].docs # <<>> => Intent(p) \in Bodies
  BY CallFacts DEF Move, ApplyImplementation, HaltAt, ReviewRefused, Decide, AnswerRejection, Is,
     Unprincipled
<1>2. PICK a \in Architects : a = Principal(p)
  BY <1>1
<1>3. "archived" \in Retained
  BY DEF Retained
<1>4. Wrote
  <2>1. CASE Move(p)
    BY <1>2, <1>3, <2>1, BeginWrites, ReportWrites, ReviewWrites DEF Move, GovernedInv
  <2>2. CASE ApplyImplementation(p)
    BY <2>2, ReportWrites DEF ApplyImplementation, GovernedInv
  <2>3. CASE HaltAt(p)
    BY <2>3, StopWrites DEF HaltAt, GovernedInv
  <2>4. CASE ReviewRefused(p)
    <3>1. "ARCHITECTURE_STOP" \in Stops
      BY DEF Stops
    <3> QED
      BY <2>4, <3>1, StopWrites DEF ReviewRefused, GovernedInv
  <2>5. CASE Decide(p)
    BY <1>2, <1>3, <2>5, ReviewWrites DEF Decide, GovernedInv
  <2>6. CASE AnswerRejection(p)
    <3>1. calls[p].docs # <<>>
      BY <1>1, <2>6 DEF AnswerRejection, Is, CallOK, Preserves, WithDocs, Relying
    <3>2. PICK body \in Bodies : body = Intent(p)
      BY <1>1, <3>1
    <3> QED
      BY <1>2, <2>6, <3>2, CorrectWrites DEF AnswerRejection, GovernedInv
  <2> QED
    BY <2>1, <2>2, <2>3, <2>4, <2>5, <2>6
<1>5. CASE ReviewRefused(p)
  <2>1. /\ RegistryOK' /\ appends' = [appends EXCEPT ![p] = NoAppend]
        /\ UNCHANGED <<archive, diskArchive>> /\ Finish(p)
    BY <1>5 DEF ReviewRefused, GovernedInv, RegistryOK, registry
  <2>2. /\ ArchiveInv' /\ archive \subseteq archive' /\ Grown
        /\ \A q \in Procs \ {p} : appends'[q] = appends[q]
    BY <1>4, <2>1, ArchiveStep, WroteGrows DEF GovernedInv
  <2>3. appends'[p] = NoAppend
    BY <2>1 DEF GovernedInv, ArchiveInv, ArchiveTypeOK, AppendType
  <2> QED
    BY <1>4, <2>1, <2>2, <2>3, Finished DEF Safe
<1>6. CASE ~ReviewRefused(p)
  <2>1. RunOnly /\ calls[p].at # "preserve"
    BY <1>6 DEF Move, ApplyImplementation, HaltAt, Decide, AnswerRejection, Is
  <2>2. /\ archive' = archive /\ ArchiveInv' /\ RegistryOK' /\ Grown
        /\ \A q \in Procs : appends'[q] = appends[q]
    BY <1>4, <2>1, RunOnlyKeeps
  <2>3. CASE Finish(p)
    BY <1>1, <1>4, <2>1, <2>2, <2>3, Finished DEF Safe
  <2>4. CASE Goto(p, "answer") /\ calls[p].at = "decide" /\ calls[p].docs # <<>>
    <3>1. "answer" \in Relying /\ "decide" \in Relying
      BY DEF Relying
    <3>2. CallsInv'
      BY <2>2, <2>4, <3>1, Onward
    <3> QED
      BY <1>4, <2>2, <3>2 DEF Safe
  <2> QED
    BY <1>6, <2>3, <2>4 DEF Move, ApplyImplementation, HaltAt, Decide, AnswerRejection, Is
<1> QED
  BY <1>5, <1>6

LEMMA OutsideSteps ==
  ASSUME GovernedInv, Admit \/ Direct
  PROVE  Safe
<1>1. archive' = archive /\ appends' = appends /\ diskArchive' = diskArchive /\ calls' = calls
  BY DEF Admit, Direct, archiveVars
<1>2. RegistryOK'
  <2>1. CASE Admit
    BY <2>1, Zenon DEF Admit, GovernedInv, RegistryOK
  <2>2. CASE Direct
    BY <2>2 DEF Direct, registry, GovernedInv, RegistryOK
  <2> QED
    BY <2>1, <2>2
<1>3. ArchiveInv'
  BY <1>1 DEF GovernedInv, ArchiveInv, ArchiveTypeOK, AppendOK, Doc, SameVersion, Chain, Succeeds
<1>4. audit' = audit \/ Wrote
  <2>1. CASE Admit
    BY <2>1 DEF Admit
  <2>2. CASE Direct
    <3>1. /\ Others \subseteq Architects /\ PacketBodies \subseteq Bodies
          /\ CorrectionBodies \subseteq Bodies
      BY GovernedRunAssumption DEF PacketBodies, CorrectionBodies, Bodies
    <3>2. ASSUME NEW a \in Others, Entered(a, Now.binding)
          PROVE  Wrote
      <4>1. PICK body \in Bodies \cup {None} : body = Now.binding
        BY NowIsRun DEF GovernedInv, RunInv, Run
      <4> QED
        BY <3>1, <3>2, <4>1, EnterWrites DEF GovernedInv
    <3>3. ASSUME NEW a \in Others, ResumeArchitecture(a) \/ Reviewing(a)
          PROVE  Wrote
      <4>1. None \in Retained
        BY DEF Retained
      <4> QED
        BY <3>1, <3>3, <4>1, ResumeWrites, ReviewWrites DEF GovernedInv
    <3>4. ASSUME NEW a \in Others, NEW body \in PacketBodies, Issued(a, body)
          PROVE  Wrote
      BY <3>1, <3>4, IssueWrites DEF GovernedInv
    <3>5. ASSUME NEW a \in Others, NEW review \in Retained, Accepted(a, review) \/ Rejected(a, review)
          PROVE  Wrote
      BY <3>1, <3>5, ReviewWrites DEF GovernedInv
    <3>6. ASSUME NEW a \in Others, NEW body \in CorrectionBodies, Corrected(a, body)
          PROVE  Wrote
      BY <3>1, <3>6, CorrectWrites DEF GovernedInv
    <3>7. ASSUME Begun \/ Reported \/ Recorded
          PROVE  Wrote
      BY <3>7, BeginWrites, ReportWrites DEF GovernedInv
    <3>8. ASSUME NEW grant \in Retained, ResumeSoft \/ ClearRecheck \/ ResumeHuman(grant)
          PROVE  Wrote
      BY <3>8, ControllerResumes DEF GovernedInv
    <3>9. ASSUME NEW kind \in Stops, Stopped(kind)
          PROVE  Wrote
      BY <3>9, StopWrites DEF GovernedInv
    <3>10. \E grant \in Retained : TRUE
      BY DEF Retained
    <3> QED
      BY <2>2, <3>2, <3>3, <3>4, <3>5, <3>6, <3>7, <3>8, <3>9, <3>10 DEF Direct
  <2> QED
    BY <2>1, <2>2
<1>5. Grown
  BY <1>1, <1>4, WroteGrows DEF GovernedInv
<1>6. CallsInv'
  BY <1>1, <1>5, CallKept DEF GovernedInv, CallsInv
<1> QED
  BY <1>1, <1>2, <1>3, <1>4, <1>6 DEF Safe

-----------------------------------------------------------------------------
(* The theorems *)

LEMMA InitGoverned ==
  Init => GovernedInv
<1> SUFFICES ASSUME Init PROVE GovernedInv
  OBVIOUS
<1> USE DEF Init, ArchiveInit
<1>1. /\ audit = <<>> /\ audit \in Seq(Entry) /\ Len(audit) = 0 /\ Now = Fresh
      /\ Fresh.state = "IDLE" /\ Fresh.binding = None
  BY DEF Now, RunAt, Fresh
<1>2. RunInv
  BY <1>1 DEF RunInv, RunTypeOK, StopsResumable, Stops, OneBinding, CorrectionsStand, RejectionStands,
     Place, Active, AuthorityNeverBehind, LastRejection
<1>3. ArchiveInv
  BY DEF ArchiveInv, ArchiveTypeOK, AppendOK, NoAppend, At
<1>4. RegistryOK
  BY DEF RegistryOK
<1>5. CallsInv
  <2>1. PICK c \in CallType : c = NoCall
    <3>1. "none" \in Steps
      BY DEF Steps
    <3>2. <<>> \in Seq(Docs)
      OBVIOUS
    <3>3. NoCall \in CallType
      BY <3>1, <3>2 DEF NoCall, Call, CallType
    <3> QED
      BY <3>3
  <2>2. calls \in [Procs -> CallType] /\ \A p \in Procs : calls[p] = NoCall
    BY <2>1
  <2>3. ASSUME NEW p \in Procs
        PROVE  CallOK(p) /\ Truthful(p)
    BY <1>1, <2>2, <2>3 DEF NoCall, Call, CallOK, Preserves, Answering, Driving, Truthful, Unprincipled,
       WithDocs, Relying, Is
  <2> QED
    BY <2>2, <2>3 DEF CallsInv
<1> QED
  BY <1>2, <1>3, <1>4, <1>5 DEF GovernedInv

LEMMA SafeKeeps ==
  ASSUME GovernedInv, Safe
  PROVE  GovernedInv'
<1>1. CASE audit' = audit
  <2>1. Now' = Now /\ \A n \in Nat : RunAt(n)' = RunAt(n)
    BY <1>1 DEF Now, RunAt
  <2>2. \A n \in 1..Len(audit) : n - 1 \in Nat
    BY DEF GovernedInv, RunInv, RunTypeOK
  <2>3. RunTypeOK' /\ StopsResumable' /\ OneBinding' /\ RejectionStands'
    BY <1>1, <2>1 DEF GovernedInv, RunInv, RunTypeOK, StopsResumable, OneBinding, RejectionStands, Place,
       LastRejection
  <2>4. CorrectionsStand'
    BY <1>1, <2>1, <2>2 DEF GovernedInv, RunInv, CorrectionsStand, Place, HoldsCurrent
  <2>5. AuthorityNeverBehind'
    BY <2>1 DEF Safe, GovernedInv, RunInv, AuthorityNeverBehind, WithBody
  <2> QED
    BY <2>3, <2>4, <2>5 DEF Safe, GovernedInv, RunInv
<1>2. CASE Wrote
  BY <1>2, RunStep DEF Safe, GovernedInv
<1> QED
  BY <1>1, <1>2 DEF Safe

LEMMA StepGoverned ==
  GovernedInv /\ [Next]_vars => GovernedInv'
<1> SUFFICES ASSUME GovernedInv, [Next]_vars PROVE GovernedInv'
  OBVIOUS
<1>1. ASSUME NEW p \in Procs, Process(p)
      PROVE  Safe
  BY <1>1, RegistrySteps, BeginningSteps, PreserveSteps, ActivateSteps, CorrectionSteps, DriverReads,
     DriverWrites, EndStep DEF Process, DriverStep
<1>2. CASE Next
  BY <1>1, <1>2, OutsideSteps, SafeKeeps DEF Next
<1>3. CASE UNCHANGED vars
  <2>1. /\ archive' = archive /\ appends' = appends /\ diskArchive' = diskArchive /\ calls' = calls
        /\ audit' = audit /\ minted' = minted /\ diskMinted' = diskMinted /\ admitted' = admitted
    BY <1>3 DEF vars, archiveVars, registry
  <2>2. ArchiveInv' /\ RegistryOK'
    BY <2>1 DEF GovernedInv, ArchiveInv, ArchiveTypeOK, AppendOK, Doc, SameVersion, Chain, Succeeds,
       RegistryOK
  <2>3. Grown
    BY <2>1, WroteGrows DEF GovernedInv
  <2>4. CallsInv'
    BY <2>1, <2>3, CallKept DEF GovernedInv, CallsInv
  <2>5. Safe
    BY <2>1, <2>2, <2>4 DEF Safe
  <2> QED
    BY <2>5, SafeKeeps
<1> QED
  BY <1>2, <1>3

(* The invariant of the governed change holds throughout: the entries of the *)
(* run, the archive's chains and every call agree, as long as no power is    *)
(* lost.                                                                     *)
THEOREM GovernedChange == Spec => []GovernedInv
<1> QED
  BY InitGoverned, StepGoverned, PTL DEF Spec

(* Every chain of the archive replays, one document per version, whoever     *)
(* races to publish (file-archive.ts), and the trail and the calls are typed. *)
THEOREM ChainsReplay == Spec => []TypeOK
<1>1. ASSUME GovernedInv
      PROVE  TypeOK
  <2>1. ArchiveTypeOK /\ audit \in Seq(Entry) /\ calls \in [Procs -> CallType]
        /\ \A p \in Procs : calls[p].seen <= Len(audit) /\ calls[p].kept <= Len(calls[p].docs)
    BY <1>1 DEF GovernedInv, ArchiveInv, RunInv, RunTypeOK, CallsInv, CallOK, Preserves
  <2>2. minted \in BOOLEAN /\ diskMinted \in BOOLEAN /\ admitted \in BOOLEAN
    BY <1>1 DEF GovernedInv, RegistryOK
  <2> QED
    BY <2>1, <2>2 DEF TypeOK, Entry, By, CallType
<1> QED
  BY <1>1, GovernedChange, PTL

(* The authority that binds a run is in the archive at every moment          *)
(* (activation-core.ts:34-36), as long as no power is lost.                  *)
THEOREM ArchivedAuthority == Spec => []AuthorityNeverBehind
<1>1. GovernedInv => AuthorityNeverBehind
  BY DEF GovernedInv, RunInv
<1> QED
  BY <1>1, GovernedChange, PTL

(* What activate and applyCorrection answered is true of the run and of the  *)
(* archive, and stays true, whatever other writers did between their reads.  *)
THEOREM TrueReports == Spec => []ReportsAreTrue
<1>1. GovernedInv => ReportsAreTrue
  BY DEF GovernedInv, CallsInv, Truthful, ReportsAreTrue
<1> QED
  BY <1>1, GovernedChange, PTL

(* A model call under way was gated on the governed lineage, with the packet, *)
(* the correction and the live-call grant archived (execution-driver.ts).     *)
THEOREM AuthorizedCalls == Spec => []CallsRestOnAuthority
<1>1. ASSUME GovernedInv
      PROVE  CallsRestOnAuthority
  <2>1. SUFFICES ASSUME NEW p \in Procs, Is(p, "called")
                 PROVE  LET run == RunAt(calls[p].seen)
                        IN /\ Governed(calls[p].seen, Principal(p))
                           /\ \A body \in {run.packet, run.correction} \ {None} : WithBody(body) # {}
                           /\ WithBody(BodyOf[Supplied[ActorOf[run.state]].grant]) # {}
    BY DEF CallsRestOnAuthority
  <2>2. Rests(calls[p].seen, Principal(p)) /\ RunAt(calls[p].seen).state \in DOMAIN Entering
    BY <1>1, <2>1 DEF GovernedInv, CallsInv, CallOK, Driving, Is, Principal
  <2>3. DOMAIN Entering \subseteq DOMAIN ActorOf
    BY DEF Entering, ActorOf
  <2> QED
    BY <2>2, <2>3 DEF Rests
<1> QED
  BY <1>1, GovernedChange, PTL

(* An entry an activation, a correction or a review writes under its         *)
(* principal's name finds every document of its call in the archive, and a   *)
(* run is admitted only for a minted change.                                 *)
THEOREM EvidenceFirst == Spec => EvidencePrecedesReliance
<1> DEFINE Evident == /\ admitted' => minted
                      /\ \A p \in Procs :
                           /\ audit' # audit /\ calls'[p] # calls[p]
                           /\ audit'[Len(audit')].by = Principal(p)
                           => \A i \in DOMAIN calls[p].docs : calls[p].docs[i] \in archive
<1>1. ASSUME GovernedInv, Next
      PROVE  Evident
  <2>1. admitted' => minted
    <3>1. CASE Admit
      BY <3>1 DEF Admit
    <3>2. CASE Direct
      BY <1>1, <3>2 DEF Direct, registry, GovernedInv, RegistryOK
    <3>3. ASSUME NEW p \in Procs, Process(p)
          PROVE  admitted' = admitted
      BY <3>3 DEF Process, Govern, Mint, SyncMint, Activate, ApplyCorrection, Gate, Preserve, AppendFor,
         Preserved, End, ActivateStep, Locate, Enter, EnterRefused, Reread, Issue, IssueRefused, Confirm,
         Report, CorrectionStep, AlreadyCorrected, NotYetCorrected, Correct, CorrectRefused,
         ConfirmCorrection, DriverStep, RunnerReads, Move, Dispatch, ApplyImplementation, HaltAt,
         ApplyReview, ReviewRefused, Decide, AnswerRejection, CallOnly, RunOnly, registry
    <3> QED
      BY <1>1, <3>1, <3>2, <3>3 DEF Next, GovernedInv, RegistryOK
  <2>2. ASSUME NEW p \in Procs, audit' # audit, calls'[p] # calls[p],
               audit'[Len(audit')].by = Principal(p)
        PROVE  \A i \in DOMAIN calls[p].docs : calls[p].docs[i] \in archive
    <3>1. /\ calls[p] \in CallType /\ CallOK(p) /\ calls[p].docs \in Seq(Docs)
          /\ calls \in [Procs -> CallType]
      BY <1>1, CallFacts DEF CallType, GovernedInv, CallsInv
    <3>2. PICK q \in Procs : Process(q)
      BY <1>1, <2>2 DEF Next, Admit, Direct
    <3>3. q = p
      BY <2>2, <3>1, <3>2 DEF Process, Govern, Mint, SyncMint, Activate, ApplyCorrection, Gate, Preserve,
         AppendFor, Preserved, End, ActivateStep, Locate, Enter, EnterRefused, Reread, Issue,
         IssueRefused, Confirm, Report, CorrectionStep, AlreadyCorrected, NotYetCorrected, Correct,
         CorrectRefused, ConfirmCorrection, DriverStep, RunnerReads, Move, Dispatch,
         ApplyImplementation, HaltAt, ApplyReview, ReviewRefused, Decide, AnswerRejection, Goto, Finish,
         Preserving
    <3>4. CASE Enter(p) \/ Issue(p) \/ Correct(p) \/ Decide(p) \/ AnswerRejection(p)
      <4>1. calls[p].at \in Relying
        BY <3>4 DEF Enter, Issue, Correct, Decide, AnswerRejection, Is, Relying
      <4> QED
        BY <3>1, <4>1 DEF CallOK, Preserves
    <3>5. CASE Move(p) \/ ApplyImplementation(p) \/ HaltAt(p)
      <4>1. calls[p].docs = <<>>
        BY <3>1, <3>5 DEF Move, ApplyImplementation, HaltAt, Is, CallOK, Driving
      <4> QED
        BY <4>1
    <3>6. CASE ReviewRefused(p)
      <4>1. Stopped("ARCHITECTURE_STOP") /\ Principal(p) \in Architects
        BY <3>1, <3>6 DEF ReviewRefused, Is, CallOK, Preserves, Unprincipled, Principal
      <4>2. audit'[Len(audit')].by = "controller"
        BY <1>1, <4>1 DEF Stopped, Commit, GovernedInv, RunInv, RunTypeOK
      <4> QED
        BY <2>2, <4>1, <4>2, GovernedRunAssumption
    <3>7. \/ Enter(p) \/ Issue(p) \/ Correct(p) \/ Decide(p) \/ AnswerRejection(p)
          \/ Move(p) \/ ApplyImplementation(p) \/ HaltAt(p) \/ ReviewRefused(p)
      BY <2>2, <3>2, <3>3 DEF Process, Govern, Mint, SyncMint, Activate, ApplyCorrection, Gate, Preserve,
         AppendFor, Preserved, End, ActivateStep, Locate, EnterRefused, Reread,
         IssueRefused, Confirm, Report, CorrectionStep, AlreadyCorrected, NotYetCorrected,
         CorrectRefused, ConfirmCorrection, DriverStep, RunnerReads, Dispatch, ApplyReview, CallOnly
    <3> QED
      BY <3>4, <3>5, <3>6, <3>7
  <2> QED
    BY <2>1, <2>2
<1>2. GovernedInv /\ [Next]_vars => [Evident]_vars
  BY <1>1
<1> QED
  BY <1>2, GovernedChange, PTL DEF Spec, EvidencePrecedesReliance
=============================================================================
