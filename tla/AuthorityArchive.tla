--------------------------- MODULE AuthorityArchive ---------------------------
(***************************************************************************)
(* The authority archive of src/automation/authority/: processes that      *)
(* preserve complete documents in one archive directory.                   *)
(*                                                                         *)
(* An append is synchronous in its process, but between any two of its     *)
(* file operations other processes may act.  A document is published as    *)
(* records/<key>/<version> by one exclusive link of a synced temp file and *)
(* an fsync of the directory: archive is what processes see, diskArchive   *)
(* what an fsync has put on the disk.                                      *)
(*                                                                         *)
(* A document is opaque: its logical key (kind and authorityId), version,  *)
(* body, issuer and the document it supersedes are constant functions, and *)
(* two documents may have one body.  Temp names are never read.  The key   *)
(* directory is taken as there and synced; its own mkdir and fsync         *)
(* (file-archive.ts:170-173) are not modelled.                             *)
(***************************************************************************)
EXTENDS Integers, Sequences

CONSTANTS Procs, Docs, None, KeyOf, VersionOf, BodyOf, IssuerOf, Supersedes

Bodies == {BodyOf[d] : d \in Docs}

(* A body holds its own id, so it is of one key. *)
ASSUME ArchiveAssumption ==
  /\ None \notin Docs \cup Bodies
  /\ DOMAIN KeyOf = Docs /\ DOMAIN BodyOf = Docs /\ DOMAIN IssuerOf = Docs
  /\ VersionOf \in [Docs -> Nat \ {0}]
  /\ Supersedes \in [Docs -> Docs \cup {None}]
  /\ \A d, e \in Docs : BodyOf[d] = BodyOf[e] => KeyOf[d] = KeyOf[e]

VARIABLES
  archive,       \* the documents linked
  diskArchive,   \* those whose directory entry is on the disk
  appends        \* the append each process is in, and how its last one ended

archiveVars == <<archive, diskArchive, appends>>

At(step, doc) == [at |-> step, doc |-> doc]
NoAppend == At("none", None)

Into(p, step) == appends' = [appends EXCEPT ![p].at = step]
Doc(p) == appends[p].doc

-----------------------------------------------------------------------------
(* #chain *)

Chain(d) == {e \in archive : KeyOf[e] = KeyOf[d]}
SameVersion(d) == {e \in Chain(d) : VersionOf[e] = VersionOf[d]}

(* The first version, or the one after the version it supersedes. *)
Succeeds(d) ==
  IF VersionOf[d] = 1 THEN Supersedes[d] = None
  ELSE /\ Supersedes[d] \in Chain(d)
       /\ VersionOf[Supersedes[d]] = VersionOf[d] - 1

-----------------------------------------------------------------------------
(* append and #publish *)

(* The chain is read: the document is there, or it is the next one, or it is *)
(* refused (VERSION_CONFLICT, VERSION_GAP, INVALID_SUPERSESSION).            *)
BeginAppend(p, d) ==
  /\ appends' = [appends EXCEPT ![p] = At(IF d \in archive THEN "kept"
                                          ELSE IF SameVersion(d) = {} /\ Succeeds(d) THEN "link"
                                          ELSE "refused", d)]
  /\ UNCHANGED <<archive, diskArchive>>

(* Mutant of Link: publication is not exclusive. *)
LinkBeside(p) ==
  /\ appends[p].at = "link"
  /\ archive' = archive \cup {Doc(p)}
  /\ Into(p, "sync")
  /\ UNCHANGED diskArchive

Link(p) ==
  /\ appends[p].at = "link"
  /\ SameVersion(Doc(p)) = {}
  /\ archive' = archive \cup {Doc(p)}
  /\ Into(p, "sync")
  /\ UNCHANGED diskArchive

(* EEXIST: the writer that published this version first decides. *)
LinkLost(p) ==
  /\ appends[p].at = "link"
  /\ SameVersion(Doc(p)) # {}
  /\ Into(p, IF Doc(p) \in archive THEN "kept" ELSE "refused")
  /\ UNCHANGED <<archive, diskArchive>>

SyncChain(p) ==
  /\ appends[p].at = "sync"
  /\ diskArchive' = diskArchive \cup Chain(Doc(p))
  /\ Into(p, "kept")
  /\ UNCHANGED archive

(* A file operation that fails ends the caller's call, as a crash does, with *)
(* whatever is linked left there.                                            *)
AppendStep(p) == Link(p) \/ LinkLost(p) \/ SyncChain(p)

(* A power loss keeps what was synced; of the rest, directory entries reach *)
(* the disk in the order they were made.                                    *)
LosePower ==
  /\ \E lost \in SUBSET (archive \ diskArchive) :
       /\ \A d \in lost : {e \in Chain(d) : VersionOf[e] > VersionOf[d]} \subseteq lost
       /\ archive' = archive \ lost
  /\ diskArchive' = archive'
  /\ appends' = [p \in Procs |-> NoAppend]

-----------------------------------------------------------------------------
(* What an archive is for its readers *)

ArchiveInit ==
  /\ archive = {} /\ diskArchive = {}
  /\ appends = [p \in Procs |-> NoAppend]

(* The archived records a reference to a body matches, and whether it resolves. *)
WithBody(body) == {d \in archive : BodyOf[d] = body}
Resolves(body) == \E d \in archive : WithBody(body) = {d}

(* Every chain replays: one document per version, each superseding the one *)
(* before.                                                                 *)
ArchiveTypeOK ==
  /\ archive \subseteq Docs /\ diskArchive \subseteq archive
  /\ appends \in [Procs -> [at: {"none", "link", "sync", "kept", "refused"}, doc: Docs \cup {None}]]
  /\ \A d \in archive : SameVersion(d) = {d} /\ Succeeds(d)

=============================================================================
