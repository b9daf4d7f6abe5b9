--------------------------- MODULE EvidenceStore ---------------------------
(***************************************************************************)
(* Evidence: EvidenceStore.place makes the bytes of a submission visible   *)
(* under their digest, ingest_placement registers them in the database,    *)
(* and IntegrityService.inspect compares the two. Files and rows are two   *)
(* stores with no transaction across them: the order of write, fsync, link *)
(* and commit is all that keeps them in step when requests interleave, die *)
(* or the power goes.                                                      *)
(*                                                                         *)
(* What the operating system shows (file, directories) is told apart from  *)
(* what a power loss leaves (disk). The database survives what it has      *)
(* committed (PRAGMA synchronous=FULL).                                    *)
(***************************************************************************)
EXTENDS Naturals

CONSTANTS
  Clients,             \* submissions in flight
  Contents,            \* distinct bytes, each known by its digest
  Sources,             \* source identities
  Directories,         \* directories sha256[:2]/sha256[2:4]
  DirectoryOf,         \* the directory of each digest
  KeptDirectories,     \* those whose own entry an fsync of them keeps on disk
  MaxOutages,          \* bound: losses of power
  NoContent, NoSource

ASSUME EvidenceAssumption ==
  /\ DirectoryOf \in [Contents -> Directories]
  /\ KeptDirectories \subseteq Directories
  /\ MaxOutages \in Nat
  /\ NoContent \notin Contents
  /\ NoSource \notin Sources

VARIABLES
  file,         \* what is visible under each digest
  directories,  \* the directories that are visible
  disk,         \* what is on disk: bytes, directory entries, directories
  registered,   \* evidence_blob, with its document and processing job
  source,       \* source_reference: the evidence of each identity
  place,        \* each submission: how far its placement got
  answers,      \* history: submissions that were answered successfully
  inspector,    \* an inspection under way; before: history, visible at its start
  outages

vars == <<file, directories, disk, registered, source, place, answers,
          inspector, outages>>

database == <<registered, source, answers>>

Stages == {"idle", "streaming", "streamed", "ready", "linked", "placed"}

Placements == [at : Stages, content : Contents \cup {NoContent},
               source : Sources \cup {NoSource}, flushed : BOOLEAN]

NoPlacement == [at |-> "idle", content |-> NoContent, source |-> NoSource,
                flushed |-> FALSE]

NoReport == [at |-> "idle", known |-> {}, before |-> {}, todo |-> {},
             missing |-> {}, orphan |-> {}]

Init ==
  /\ file = [x \in Contents |-> "absent"]
  /\ directories = {}
  /\ disk = [bytes |-> {}, entries |-> {}, directories |-> {}]
  /\ registered = {}
  /\ source = [s \in Sources |-> NoContent]
  /\ place = [c \in Clients |-> NoPlacement]
  /\ answers = {}
  /\ inspector = NoReport
  /\ outages = 0

Visible == {x \in Contents : file[x] # "absent"}

Advance(c, from, to) ==
  /\ place[c].at = from
  /\ place' = [place EXCEPT ![c].at = to]

\* Mutant of Submit: the source identity is not required.
SubmitUnidentified(c) ==
  /\ place[c].at = "idle"
  /\ \E x \in Contents :
       place' = [place EXCEPT ![c] =
                   [at |-> "streaming", content |-> x, source |-> NoSource, flushed |-> FALSE]]
  /\ UNCHANGED <<file, directories, disk, database, inspector, outages>>

Submit(c) ==
  /\ place[c].at = "idle"
  /\ \E x \in Contents, s \in Sources :
       place' = [place EXCEPT ![c] =
                   [at |-> "streaming", content |-> x, source |-> s, flushed |-> FALSE]]
  /\ UNCHANGED <<file, directories, disk, database, inspector, outages>>

\* Mutant of Stream: the temporary file is not fsynced.
StreamUnflushed(c) ==
  /\ Advance(c, "streaming", "streamed")
  /\ UNCHANGED <<file, directories, disk, database, inspector, outages>>

(***************************************************************************)
(* The bytes go to a temporary file of this submission, invisible to the   *)
(* rest, hashed on the way, flushed and fsynced.                           *)
(***************************************************************************)
Stream(c) ==
  /\ place[c].at = "streaming"
  /\ place' = [place EXCEPT ![c] = [at |-> "streamed", content |-> @.content,
                                    source |-> @.source, flushed |-> TRUE]]
  /\ UNCHANGED <<file, directories, disk, database, inspector, outages>>

MakeDirectory(c) ==
  /\ Advance(c, "streamed", "ready")
  /\ directories' = directories \cup {DirectoryOf[place[c].content]}
  /\ UNCHANGED <<file, disk, database, inspector, outages>>

(***************************************************************************)
(* os.link makes the whole file visible at once. Where another submission  *)
(* has linked the same digest before, its file stays (if its size agrees,  *)
(* and a visible file is whole), and this placement goes on.               *)
(***************************************************************************)
LinkNew(c) ==
  LET x == place[c].content
  IN  /\ Advance(c, "ready", "linked")
      /\ file[x] = "absent" /\ DirectoryOf[x] \in directories
      /\ file' = [file EXCEPT ![x] = "whole"]
      /\ disk' = IF place[c].flushed
                 THEN [disk EXCEPT !.bytes = @ \cup {x}] ELSE disk
      /\ UNCHANGED <<directories, database, inspector, outages>>

\* Mutant of LinkExisting: an existing file is taken as placed already.
LinkExistingPlaced(c) ==
  /\ Advance(c, "ready", "placed")
  /\ file[place[c].content] = "whole"
  /\ UNCHANGED <<file, directories, disk, database, inspector, outages>>

LinkExisting(c) ==
  /\ Advance(c, "ready", "linked")
  /\ file[place[c].content] = "whole"
  /\ UNCHANGED <<file, directories, disk, database, inspector, outages>>

(***************************************************************************)
(* fsync of the directory keeps all its entries. The entry of a new        *)
(* directory is in a parent that is never fsynced: whether it is kept too  *)
(* is up to the file system, and to what was there before.                 *)
(***************************************************************************)
SyncDirectory(c) ==
  LET d == DirectoryOf[place[c].content]
  IN  /\ Advance(c, "linked", "placed")
      /\ disk' = [disk EXCEPT
                    !.entries = @ \cup {x \in Visible : DirectoryOf[x] = d},
                    !.directories = @ \cup ({d} \cap KeptDirectories)]
      /\ UNCHANGED <<file, directories, database, inspector, outages>>

(***************************************************************************)
(* Registration, one write transaction: a source seen before is replayed,  *)
(* or refused if it came with other evidence; otherwise the blob, its      *)
(* document and job (if they are new) and the source are inserted.         *)
(***************************************************************************)
Answered(c) ==
  /\ place' = [place EXCEPT ![c] = NoPlacement]
  /\ answers' = answers \cup
       {[source |-> place[c].source, content |-> place[c].content]}

\* Mutant of RegisterNew: the source is not looked up first.
RegisterAnySource(c) ==
  /\ place[c].at = "placed"
  /\ registered' = registered \cup {place[c].content}
  /\ source' = [source EXCEPT ![place[c].source] = place[c].content]
  /\ Answered(c)
  /\ UNCHANGED <<file, directories, disk, inspector, outages>>

RegisterNew(c) ==
  /\ place[c].at = "placed"
  /\ source[place[c].source] = NoContent
  /\ registered' = registered \cup {place[c].content}
  /\ source' = [source EXCEPT ![place[c].source] = place[c].content]
  /\ Answered(c)
  /\ UNCHANGED <<file, directories, disk, inspector, outages>>

RegisterReplay(c) ==
  /\ place[c].at = "placed"
  /\ source[place[c].source] = place[c].content
  /\ Answered(c)
  /\ UNCHANGED <<file, directories, disk, registered, source, inspector, outages>>

\* Mutant of Abandon: the clean-up takes the linked file along.
AbandonUnlinking(c) ==
  /\ place[c].at # "idle"
  /\ file' = IF place[c].at \in {"linked", "placed"}
             THEN [file EXCEPT ![place[c].content] = "absent"] ELSE file
  /\ place' = [place EXCEPT ![c] = NoPlacement]
  /\ UNCHANGED <<directories, disk, database, inspector, outages>>

(***************************************************************************)
(* A submission ends early, at any point: the stream is too long, the disk *)
(* full, the source in conflict, the process dead. Bytes already visible   *)
(* stay where they are.                                                    *)
(***************************************************************************)
Abandon(c) ==
  /\ place[c].at # "idle"
  /\ place' = [place EXCEPT ![c] = NoPlacement]
  /\ UNCHANGED <<file, directories, disk, database, inspector, outages>>

(***************************************************************************)
(* Power loss: what was fsynced stays; of the rest, any part may.          *)
(***************************************************************************)
PowerLoss ==
  /\ outages < MaxOutages
  /\ outages' = outages + 1
  /\ \E ds \in SUBSET directories, es \in SUBSET Visible, bs \in SUBSET Visible :
       LET left == {x \in es : DirectoryOf[x] \in ds}
       IN  /\ disk.directories \subseteq ds /\ disk.entries \subseteq es
           /\ disk.bytes \subseteq bs
           /\ directories' = ds
           /\ file' = [x \in Contents |->
                         IF x \notin left THEN "absent"
                         ELSE IF x \in bs THEN file[x] ELSE "torn"]
           /\ disk' = [bytes |-> left \cap bs, entries |-> left, directories |-> ds]
  /\ place' = [c \in Clients |-> NoPlacement]
  /\ inspector' = NoReport
  /\ UNCHANGED database

(***************************************************************************)
(* Inspection: the registered paths are read, in one snapshot; then each   *)
(* of them is looked for; then the directories are walked. Placements go   *)
(* on meanwhile, and the walk sees of them what has passed where it looks. *)
(***************************************************************************)
ReadRegistered ==
  /\ inspector.at = "idle"
  /\ inspector' = [at |-> "checking", known |-> registered, before |-> Visible,
                   todo |-> registered, missing |-> {}, orphan |-> {}]
  /\ UNCHANGED <<file, directories, disk, database, place, outages>>

CheckFile ==
  /\ inspector.at = "checking"
  /\ \E x \in inspector.todo :
       inspector' = [inspector EXCEPT !.todo = @ \ {x}, !.missing = @ \cup ({x} \ Visible)]
  /\ UNCHANGED <<file, directories, disk, database, place, outages>>

BeginListing ==
  /\ inspector.at = "checking" /\ inspector.todo = {}
  /\ inspector' = [inspector EXCEPT !.at = "listing", !.todo = Contents]
  /\ UNCHANGED <<file, directories, disk, database, place, outages>>

\* Mutant of ListFile: the operands of the difference are swapped.
ListSwapped ==
  /\ inspector.at = "listing"
  /\ \E x \in inspector.todo :
       inspector' = [inspector EXCEPT
                       !.todo = @ \ {x},
                       !.orphan = @ \cup ({x} \cap (inspector.known \ Visible))]
  /\ UNCHANGED <<file, directories, disk, database, place, outages>>

ListFile ==
  /\ inspector.at = "listing"
  /\ \E x \in inspector.todo :
       inspector' = [inspector EXCEPT
                       !.todo = @ \ {x},
                       !.orphan = @ \cup ({x} \cap (Visible \ inspector.known))]
  /\ UNCHANGED <<file, directories, disk, database, place, outages>>

\* The inspection returns what it has gathered.
Report ==
  /\ inspector.at = "listing" /\ inspector.todo = {}
  /\ inspector' = NoReport
  /\ UNCHANGED <<file, directories, disk, database, place, outages>>

Next ==
  \/ \E c \in Clients :
       \/ Submit(c) \/ Stream(c) \/ MakeDirectory(c)
       \/ LinkNew(c) \/ LinkExisting(c) \/ SyncDirectory(c)
       \/ RegisterNew(c) \/ RegisterReplay(c) \/ Abandon(c)
  \/ PowerLoss
  \/ ReadRegistered \/ CheckFile \/ BeginListing \/ ListFile \/ Report

Spec == Init /\ [][Next]_vars

-----------------------------------------------------------------------------
\* Types of the rows, the files and the program counters.
TypeOK ==
  /\ file \in [Contents -> {"absent", "whole", "torn"}]
  /\ directories \subseteq Directories
  /\ disk \in [bytes : SUBSET Contents, entries : SUBSET Contents,
               directories : SUBSET Directories]
  /\ registered \subseteq Contents
  /\ source \in [Sources -> Contents \cup {NoContent}]
  /\ place \in [Clients -> Placements]
  /\ answers \subseteq [source : Sources, content : Contents]
  /\ inspector \in [at : {"idle", "checking", "listing"}, known : SUBSET Contents,
                    before : SUBSET Contents, todo : SUBSET Contents,
                    missing : SUBSET Contents, orphan : SUBSET Contents]
  /\ outages \in Nat
  /\ \A c \in Clients : place[c].at # "idle" =>
       place[c].content \in Contents /\ place[c].source \in Sources

(***************************************************************************)
(* Registered evidence is on disk, whole: a worker that claims the job of  *)
(* a document finds its bytes, whatever died in between, also when two     *)
(* submissions of the same bytes overlap and only one linked them. With a  *)
(* directory that is not kept a file may go, but none is ever torn.        *)
(***************************************************************************)
RegisteredEvidenceIsWhole ==
  \A x \in registered :
    /\ file[x] # "torn"
    /\ DirectoryOf[x] \in KeptDirectories => file[x] = "whole"

(***************************************************************************)
(* What the docstrings of submit and place say, of every directory:        *)
(* evidence is preserved, and its document enqueued to be processed later. *)
(***************************************************************************)
AllEvidenceIsPreserved == \A x \in registered : file[x] = "whole"

(***************************************************************************)
(* A submission that was answered is kept: its source stands for its bytes *)
(* for good, and these are registered.                                     *)
(***************************************************************************)
AnsweredSubmissionIsKept ==
  \A a \in answers : source[a.source] = a.content /\ a.content \in registered

\* The step in which an inspection returns its report.
Reports == inspector.at = "listing" /\ inspector'.at = "idle" /\ outages' = outages

(***************************************************************************)
(* An inspection misses nothing, although it is no snapshot: a file that   *)
(* was there when it began and is not registered when it returns has been  *)
(* reported as an orphan, and evidence that it knew as registered and that *)
(* is not there as missing.                                                *)
(***************************************************************************)
InspectionMissesNothing ==
  [][Reports => /\ inspector.before \ registered \subseteq inspector.orphan
                /\ inspector.known \ Visible \subseteq inspector.missing]_vars

(***************************************************************************)
(* An inspection raises no false alarm: what it reports missing it knew as *)
(* registered, and none of it is in a directory that is kept, whatever is  *)
(* placed, registered or abandoned while it looks.                         *)
(***************************************************************************)
MissingIsLost ==
  \A x \in inspector.missing : x \in registered /\ DirectoryOf[x] \notin KeptDirectories

(***************************************************************************)
(* Files and rows together implement the ledger of accepted evidence: no   *)
(* step but a loss of power takes anything away, that takes nothing that   *)
(* was accepted and is kept, and no reader ever finds a part of a file.    *)
(***************************************************************************)
Ledger == INSTANCE EvidenceLedger WITH
  Kept <- {x \in Contents : DirectoryOf[x] \in KeptDirectories},
  shown <- file, stands <- source, answered <- answers, losses <- outages

LedgerSpec == Ledger!Spec
=============================================================================
