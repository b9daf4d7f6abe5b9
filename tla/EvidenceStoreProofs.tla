------------------------ MODULE EvidenceStoreProofs ------------------------
(***************************************************************************)
(* Theorems about the evidence store, for every number of submissions,     *)
(* digests, directories, inspections and losses of power.                  *)
(***************************************************************************)
EXTENDS EvidenceStore, TLAPS

(***************************************************************************)
(* Typing.                                                                 *)
(***************************************************************************)

\* Going on with a placement keeps its typing and what it was asked.
LEMMA AdvanceType ==
  ASSUME TypeOK, NEW c \in Clients, NEW from \in Stages \ {"idle"},
         NEW to \in Stages, Advance(c, from, to)
  PROVE  /\ place' \in [Clients -> Placements]
         /\ \A e \in Clients : /\ place'[e].content = place[e].content
                               /\ place'[e].source = place[e].source
                               /\ place'[e].flushed = place[e].flushed
                               /\ place'[e].at # "idle" => place[e].at # "idle"
         /\ place[c].at = from /\ place'[c].at = to
         /\ \A e \in Clients \ {c} : place'[e] = place[e]
         /\ place[c].content \in Contents /\ place[c].source \in Sources
BY DEF TypeOK, Advance, Placements

\* So does ending one, and it leaves nothing in flight for that client.
LEMMA EndType ==
  ASSUME TypeOK, NEW c \in Clients, place' = [place EXCEPT ![c] = NoPlacement]
  PROVE  /\ place' \in [Clients -> Placements]
         /\ place'[c].at = "idle"
         /\ \A e \in Clients \ {c} : place'[e] = place[e]
BY DEF TypeOK, NoPlacement, Placements, Stages

LEMMA TypeStep == ASSUME TypeOK, [Next]_vars PROVE TypeOK'
<1> USE DEF database
<1>1. ASSUME NEW c \in Clients, Submit(c) PROVE TypeOK'
  <2>1. PICK x \in Contents, s \in Sources :
          place' = [place EXCEPT ![c] =
            [at |-> "streaming", content |-> x, source |-> s, flushed |-> FALSE]]
    BY <1>1 DEF Submit
  <2>2. place' \in [Clients -> Placements]
    BY <2>1 DEF TypeOK, Placements, Stages
  <2>3. \A e \in Clients : place'[e].at # "idle" =>
          place'[e].content \in Contents /\ place'[e].source \in Sources
    BY <2>1 DEF TypeOK, Placements
  <2> QED BY <1>1, <2>2, <2>3 DEF Submit, TypeOK
<1>2. ASSUME NEW c \in Clients, Stream(c) PROVE TypeOK'
  <2> DEFINE next == [at |-> "streamed", content |-> place[c].content,
                      source |-> place[c].source, flushed |-> TRUE]
  <2>1. next \in Placements /\ place' = [place EXCEPT ![c] = next]
    BY <1>2 DEF Stream, TypeOK, Placements, Stages
  <2>2. place' \in [Clients -> Placements]
    BY <2>1 DEF TypeOK
  <2>3. /\ next.content = place[c].content /\ next.source = place[c].source
        /\ place[c].at = "streaming"
    BY <1>2 DEF Stream, TypeOK, Placements
  <2>4. \A e \in Clients : place'[e].at # "idle" =>
          place'[e].content \in Contents /\ place'[e].source \in Sources
    BY <2>1, <2>3 DEF TypeOK
  <2> QED BY <1>2, <2>2, <2>4 DEF Stream, TypeOK
<1>3. ASSUME NEW c \in Clients, MakeDirectory(c) PROVE TypeOK'
  <2>1. Advance(c, "streamed", "ready")
    BY <1>3 DEF MakeDirectory
  <2>2. DirectoryOf[place[c].content] \in Directories
    BY <2>1, AdvanceType, EvidenceAssumption DEF EvidenceAssumption, Stages
  <2> QED BY <1>3, <2>1, <2>2, AdvanceType DEF MakeDirectory, TypeOK, Stages
<1>4. ASSUME NEW c \in Clients, LinkNew(c) PROVE TypeOK'
  <2>1. Advance(c, "ready", "linked")
    BY <1>4 DEF LinkNew
  <2>2. /\ file' \in [Contents -> {"absent", "whole", "torn"}]
        /\ disk' \in [bytes : SUBSET Contents, entries : SUBSET Contents,
                      directories : SUBSET Directories]
    BY <1>4, <2>1, AdvanceType DEF LinkNew, TypeOK, Stages
  <2> QED BY <1>4, <2>1, <2>2, AdvanceType DEF LinkNew, TypeOK, Stages
<1>5. ASSUME NEW c \in Clients, LinkExisting(c) PROVE TypeOK'
  BY <1>5, AdvanceType DEF LinkExisting, TypeOK, Stages
<1>6. ASSUME NEW c \in Clients, SyncDirectory(c) PROVE TypeOK'
  <2>1. Advance(c, "linked", "placed")
    BY <1>6 DEF SyncDirectory
  <2>2. DirectoryOf[place[c].content] \in Directories
    BY <2>1, AdvanceType, EvidenceAssumption DEF EvidenceAssumption, Stages
  <2>3. disk' \in [bytes : SUBSET Contents, entries : SUBSET Contents,
                   directories : SUBSET Directories]
    BY <1>6, <2>2 DEF SyncDirectory, TypeOK, Visible
  <2> QED BY <1>6, <2>1, <2>3, AdvanceType DEF SyncDirectory, TypeOK, Stages
<1>7. ASSUME NEW c \in Clients, RegisterNew(c) \/ RegisterReplay(c) PROVE TypeOK'
  <2>1. place' = [place EXCEPT ![c] = NoPlacement]
    BY <1>7 DEF RegisterNew, RegisterReplay, Answered
  <2>2. place[c].content \in Contents /\ place[c].source \in Sources
    BY <1>7 DEF RegisterNew, RegisterReplay, TypeOK
  <2>3. /\ registered' \subseteq Contents
        /\ source' \in [Sources -> Contents \cup {NoContent}]
        /\ answers' \subseteq [source : Sources, content : Contents]
    BY <1>7, <2>2 DEF RegisterNew, RegisterReplay, Answered, TypeOK
  <2> QED BY <1>7, <2>1, <2>3, EndType DEF RegisterNew, RegisterReplay, TypeOK
<1>8. ASSUME NEW c \in Clients, Abandon(c) PROVE TypeOK'
  BY <1>8, EndType DEF Abandon, TypeOK
<1>9. CASE PowerLoss
  <2>1. PICK ds \in SUBSET directories, es \in SUBSET Visible, bs \in SUBSET Visible :
          LET left == {x \in es : DirectoryOf[x] \in ds}
          IN  /\ directories' = ds
              /\ file' = [x \in Contents |->
                            IF x \notin left THEN "absent"
                            ELSE IF x \in bs THEN file[x] ELSE "torn"]
              /\ disk' = [bytes |-> left \cap bs, entries |-> left, directories |-> ds]
    BY <1>9 DEF PowerLoss
  <2>2. /\ directories' \subseteq Directories
        /\ file' \in [Contents -> {"absent", "whole", "torn"}]
        /\ disk' \in [bytes : SUBSET Contents, entries : SUBSET Contents,
                      directories : SUBSET Directories]
    BY <2>1 DEF TypeOK, Visible
  <2>3. place' \in [Clients -> Placements] /\ \A c \in Clients : place'[c].at = "idle"
    BY <1>9 DEF PowerLoss, NoPlacement, Placements, Stages
  <2> QED BY <1>9, <2>2, <2>3 DEF PowerLoss, NoReport, TypeOK
<1>10. CASE ReadRegistered
  BY <1>10 DEF ReadRegistered, Visible, TypeOK
<1>11. CASE CheckFile
  <2>1. PICK x \in inspector.todo :
          inspector' = [inspector EXCEPT !.todo = @ \ {x}, !.missing = @ \cup ({x} \ Visible)]
    BY <1>11 DEF CheckFile
  <2>2. x \in Contents
    BY DEF TypeOK
  <2>3. {x} \ Visible \subseteq Contents
    BY <2>2
  <2> QED BY <1>11, <2>1, <2>3 DEF CheckFile, TypeOK
<1>12. CASE BeginListing
  BY <1>12 DEF BeginListing, TypeOK
<1>13. CASE ListFile
  <2>1. PICK x \in inspector.todo :
          inspector' = [inspector EXCEPT
                          !.todo = @ \ {x},
                          !.orphan = @ \cup ({x} \cap (Visible \ inspector.known))]
    BY <1>13 DEF ListFile
  <2>2. x \in Contents
    BY DEF TypeOK
  <2>3. {x} \cap (Visible \ inspector.known) \subseteq Contents
    BY <2>2
  <2> QED BY <1>13, <2>1, <2>3 DEF ListFile, TypeOK
<1>14. CASE Report
  BY <1>14 DEF Report, NoReport, TypeOK
<1>15. CASE UNCHANGED vars
  BY <1>15 DEF vars, TypeOK
<1> QED BY <1>1, <1>2, <1>3, <1>4, <1>5, <1>6, <1>7, <1>8, <1>9, <1>10, <1>11,
           <1>12, <1>13, <1>14, <1>15 DEF Next

\* Files, rows and program counters have their types in every reachable state.
THEOREM EvidenceTypes == Spec => []TypeOK
<1>1. Init => TypeOK
  BY EvidenceAssumption
  DEF EvidenceAssumption, Init, TypeOK, NoPlacement, NoReport, Placements, Stages
<1> QED BY <1>1, TypeStep, PTL DEF Spec

-----------------------------------------------------------------------------
(***************************************************************************)
(* Answers. A registration never touches a source that stands for          *)
(* something already, so what was answered stays; a replay answers for     *)
(* bytes that the first registration of the source has registered.         *)
(***************************************************************************)
SourcesStand == \A s \in Sources : source[s] \in registered \cup {NoContent}

AnswersInv == AnsweredSubmissionIsKept /\ SourcesStand

LEMMA AnswersStep ==
  ASSUME TypeOK, AnswersInv, [Next]_vars
  PROVE  AnswersInv'
<1> USE DEF AnswersInv, SourcesStand, AnsweredSubmissionIsKept, database
<1>1. ASSUME NEW c \in Clients, RegisterNew(c) PROVE AnswersInv'
  <2>1. place[c].content \in Contents /\ place[c].source \in Sources
    BY <1>1 DEF RegisterNew, TypeOK
  <2>2. ASSUME NEW a \in answers
        PROVE  a.source # place[c].source /\ a.source \in Sources
    BY <1>1, EvidenceAssumption DEF RegisterNew, TypeOK, EvidenceAssumption
  <2>3. ASSUME NEW a \in answers
        PROVE  source'[a.source] = a.content /\ a.content \in registered'
    BY <1>1, <2>2 DEF RegisterNew, TypeOK
  <2>4. source'[place[c].source] = place[c].content /\ place[c].content \in registered'
    BY <1>1, <2>1 DEF RegisterNew, TypeOK
  <2>5. SourcesStand'
    BY <1>1, <2>1 DEF RegisterNew, TypeOK
  <2> QED BY <1>1, <2>3, <2>4, <2>5 DEF RegisterNew, Answered
<1>2. ASSUME NEW c \in Clients, RegisterReplay(c) PROVE AnswersInv'
  <2>1. place[c].content \in Contents /\ place[c].source \in Sources
    BY <1>2 DEF RegisterReplay, TypeOK
  <2>2. source[place[c].source] = place[c].content /\ place[c].content \in registered
    BY <1>2, <2>1, EvidenceAssumption DEF RegisterReplay, EvidenceAssumption
  <2> QED BY <1>2, <2>2 DEF RegisterReplay, Answered
<1>3. ASSUME UNCHANGED database PROVE AnswersInv'
  BY <1>3
<1>4. ASSUME NEW c \in Clients,
             \/ Submit(c) \/ Stream(c) \/ MakeDirectory(c) \/ LinkNew(c)
             \/ LinkExisting(c) \/ SyncDirectory(c) \/ Abandon(c)
      PROVE  UNCHANGED database
  BY <1>4 DEF Submit, Stream, MakeDirectory, LinkNew, LinkExisting, SyncDirectory, Abandon
<1>5. ASSUME \/ PowerLoss \/ ReadRegistered \/ CheckFile \/ BeginListing
             \/ ListFile \/ Report \/ UNCHANGED vars
      PROVE  UNCHANGED database
  BY <1>5 DEF PowerLoss, ReadRegistered, CheckFile, BeginListing, ListFile, Report, vars
<1> QED BY <1>1, <1>2, <1>3, <1>4, <1>5 DEF Next

(***************************************************************************)
(* A submission that was answered is kept through every later submission,  *)
(* crash and power loss: its identity stands for its bytes.                *)
(***************************************************************************)
THEOREM AnswersKept == Spec => []AnsweredSubmissionIsKept
<1>1. Init => AnswersInv
  BY DEF Init, AnswersInv, SourcesStand, AnsweredSubmissionIsKept
<1>2. AnswersInv => AnsweredSubmissionIsKept
  BY DEF AnswersInv
<1> QED BY <1>1, <1>2, EvidenceTypes, AnswersStep, PTL DEF Spec

-----------------------------------------------------------------------------
(***************************************************************************)
(* Inspections. But for a power loss, which ends the inspection too, files *)
(* and rows only come; and the inspection itself leaves both alone.        *)
(***************************************************************************)
LEMMA FilesAndRowsGrow ==
  ASSUME TypeOK, [Next]_vars, outages' = outages
  PROVE  /\ registered \subseteq registered'
         /\ Visible \subseteq Visible'
<1> USE DEF database, Visible
<1>1. ~ PowerLoss
  BY DEF PowerLoss, TypeOK
<1>2. ASSUME NEW c \in Clients, LinkNew(c) PROVE Visible \subseteq Visible'
  BY <1>2 DEF LinkNew, TypeOK
<1>3. ASSUME NEW c \in Clients, LinkNew(c) PROVE registered \subseteq registered'
  BY <1>3 DEF LinkNew
<1>4. ASSUME NEW c \in Clients,
             \/ Submit(c) \/ Stream(c) \/ MakeDirectory(c) \/ LinkExisting(c)
             \/ SyncDirectory(c) \/ RegisterNew(c) \/ RegisterReplay(c) \/ Abandon(c)
      PROVE  file' = file /\ registered \subseteq registered'
  BY <1>4 DEF Submit, Stream, MakeDirectory, LinkExisting, SyncDirectory,
              RegisterNew, RegisterReplay, Abandon
<1>5. ASSUME \/ ReadRegistered \/ CheckFile \/ BeginListing
             \/ ListFile \/ Report \/ UNCHANGED vars
      PROVE  file' = file /\ registered' = registered
  BY <1>5 DEF ReadRegistered, CheckFile, BeginListing, ListFile, Report, vars
<1> QED BY <1>1, <1>2, <1>3, <1>4, <1>5 DEF Next

(***************************************************************************)
(* Why an inspection misses nothing: rows stay, so what was known is       *)
(* registered, and files stay too, so what was looked for and found is     *)
(* there.                                                                  *)
(***************************************************************************)
InspectionIsInformed ==
  /\ inspector.known \subseteq registered
  /\ inspector.at # "idle" => inspector.before \subseteq Visible
  /\ inspector.at = "checking" =>
       inspector.known \ Visible \subseteq inspector.missing \cup inspector.todo
  /\ inspector.at = "listing" =>
       /\ inspector.known \ Visible \subseteq inspector.missing
       /\ inspector.before \ inspector.known \subseteq inspector.orphan \cup inspector.todo

LEMMA InspectionStep ==
  ASSUME TypeOK, TypeOK', InspectionIsInformed, [Next]_vars
  PROVE  InspectionIsInformed'
<1> USE DEF database
<1>1. CASE PowerLoss
  BY <1>1 DEF PowerLoss, NoReport, InspectionIsInformed
<1>2. CASE ReadRegistered
  BY <1>2 DEF ReadRegistered, Visible, InspectionIsInformed
<1>3. CASE CheckFile
  <2>1. PICK x \in inspector.todo :
          inspector' = [inspector EXCEPT !.todo = @ \ {x}, !.missing = @ \cup ({x} \ Visible)]
    BY <1>3 DEF CheckFile
  <2>2. /\ inspector'.todo = inspector.todo \ {x}
        /\ inspector'.missing = inspector.missing \cup ({x} \ Visible)
        /\ inspector'.at = "checking" /\ inspector.at = "checking"
        /\ inspector'.known = inspector.known /\ inspector'.before = inspector.before
        /\ Visible' = Visible /\ registered' = registered
    BY <1>3, <2>1 DEF CheckFile, TypeOK, Visible
  <2> QED BY <2>2 DEF InspectionIsInformed
<1>4. CASE BeginListing
  <2>1. /\ inspector'.todo = Contents /\ inspector.todo = {}
        /\ inspector'.at = "listing" /\ inspector.at = "checking"
        /\ inspector'.missing = inspector.missing
        /\ inspector'.known = inspector.known /\ inspector'.before = inspector.before
        /\ Visible' = Visible /\ registered' = registered
    BY <1>4 DEF BeginListing, TypeOK, Visible
  <2> QED BY <2>1 DEF InspectionIsInformed, TypeOK
<1>5. CASE ListFile
  <2>1. PICK x \in inspector.todo :
          inspector' = [inspector EXCEPT
                          !.todo = @ \ {x},
                          !.orphan = @ \cup ({x} \cap (Visible \ inspector.known))]
    BY <1>5 DEF ListFile
  <2>2. /\ inspector'.todo = inspector.todo \ {x}
        /\ inspector'.orphan = inspector.orphan \cup ({x} \cap (Visible \ inspector.known))
        /\ inspector'.at = "listing" /\ inspector.at = "listing"
        /\ inspector'.missing = inspector.missing
        /\ inspector'.known = inspector.known /\ inspector'.before = inspector.before
        /\ Visible' = Visible /\ registered' = registered
    BY <1>5, <2>1 DEF ListFile, TypeOK, Visible
  <2> QED BY <2>2 DEF InspectionIsInformed
<1>6. CASE Report
  BY <1>6 DEF Report, NoReport, InspectionIsInformed
<1>7. CASE outages' = outages /\ inspector' = inspector
  BY <1>7, FilesAndRowsGrow DEF InspectionIsInformed
<1>8. ASSUME NEW c \in Clients,
             \/ Submit(c) \/ Stream(c) \/ MakeDirectory(c) \/ LinkNew(c)
             \/ LinkExisting(c) \/ SyncDirectory(c) \/ RegisterNew(c)
             \/ RegisterReplay(c) \/ Abandon(c)
      PROVE  outages' = outages /\ inspector' = inspector
  BY <1>8 DEF Submit, Stream, MakeDirectory, LinkNew, LinkExisting, SyncDirectory,
              RegisterNew, RegisterReplay, Abandon
<1>9. CASE UNCHANGED vars
  BY <1>7, <1>9 DEF vars
<1> QED BY <1>1, <1>2, <1>3, <1>4, <1>5, <1>6, <1>7, <1>8, <1>9 DEF Next

(***************************************************************************)
(* What an inspection has gathered at any point is true of rows and files  *)
(* at that point, whatever submissions have done since it began.           *)
(***************************************************************************)
THEOREM InspectionInformed == Spec => []InspectionIsInformed
<1>1. Init => InspectionIsInformed
  BY DEF Init, NoReport, InspectionIsInformed
<1> QED BY <1>1, EvidenceTypes, InspectionStep, PTL DEF Spec

(***************************************************************************)
(* So the report of an inspection misses nothing: `reverse-crm integrity`  *)
(* names every file that was there, unregistered, all the time, and every  *)
(* registered file it knew of that is not there.                           *)
(***************************************************************************)
THEOREM NothingMissed == Spec => InspectionMissesNothing
<1>1. ASSUME TypeOK, InspectionIsInformed, [Next]_vars
      PROVE  Reports => /\ inspector.before \ registered \subseteq inspector.orphan
                        /\ inspector.known \ Visible \subseteq inspector.missing
  <2>1. ASSUME inspector' # inspector, outages' = outages
        PROVE  ReadRegistered \/ CheckFile \/ BeginListing \/ ListFile \/ Report
    <3>1. ~ PowerLoss
      BY <1>1, <2>1 DEF PowerLoss, TypeOK
    <3>2. ~ (\E c \in Clients :
               \/ Submit(c) \/ Stream(c) \/ MakeDirectory(c) \/ LinkNew(c)
               \/ LinkExisting(c) \/ SyncDirectory(c) \/ RegisterNew(c)
               \/ RegisterReplay(c) \/ Abandon(c))
      BY <2>1 DEF Submit, Stream, MakeDirectory, LinkNew, LinkExisting, SyncDirectory,
                  RegisterNew, RegisterReplay, Abandon
    <3> QED BY <1>1, <2>1, <3>1, <3>2 DEF Next, vars
  <2>2. ASSUME ReadRegistered \/ CheckFile \/ BeginListing PROVE inspector.at # "listing"
    BY <2>2 DEF ReadRegistered, CheckFile, BeginListing
  <2>3. ASSUME ListFile PROVE inspector'.at # "idle"
    BY <1>1, <2>3 DEF ListFile, TypeOK
  <2>4. ASSUME Report PROVE inspector.todo = {}
    BY <2>4 DEF Report
  <2>5. Reports => inspector.todo = {}
    BY <2>1, <2>2, <2>3, <2>4 DEF Reports
  <2> QED BY <1>1, <2>5 DEF Reports, InspectionIsInformed
<1> QED BY <1>1, EvidenceTypes, InspectionInformed, PTL DEF Spec, InspectionMissesNothing

-----------------------------------------------------------------------------
\* The bytes, the entry and the directory of x are on disk.
Durable(x) ==
  /\ x \in disk.bytes /\ x \in disk.entries /\ DirectoryOf[x] \in disk.directories
  /\ file[x] = "whole" /\ DirectoryOf[x] \in directories

\* So it is wherever the file system keeps the directory.
Promised(x) == DirectoryOf[x] \in KeptDirectories => Durable(x)

(***************************************************************************)
(* Why registered evidence is whole: it is on disk before it is registered *)
(* and nothing that is on disk is ever removed. What the steps before need *)
(* is carried along: fsynced bytes, and an entry to fsync.                 *)
(***************************************************************************)
RowsAreDurable == \A x \in registered : Promised(x)

FilesAreFlushed ==
  \A x \in Visible : file[x] = "whole" /\ x \in disk.bytes /\ DirectoryOf[x] \in directories

Ordered(c) ==
  /\ place[c].at \in {"streamed", "ready"} => place[c].flushed
  /\ place[c].at \in {"linked", "placed"} => place[c].content \in Visible
  /\ place[c].at = "placed" => Promised(place[c].content)

PlacementsAreOrdered == \A c \in Clients : Ordered(c)

DurableBeforeRegistered == RowsAreDurable /\ FilesAreFlushed /\ PlacementsAreOrdered

(***************************************************************************)
(* Durability. What is durable stays so; a file is flushed before it is    *)
(* linked, and durable before it is registered, unless its directory is    *)
(* one that the file system does not keep.                                 *)
(***************************************************************************)
LEMMA PowerLossKeeps ==
  ASSUME TypeOK, PowerLoss, FilesAreFlushed
  PROVE  /\ \A x \in Contents : Durable(x) => Durable(x)'
         /\ FilesAreFlushed'
<1>1. PICK ds \in SUBSET directories, es \in SUBSET Visible, bs \in SUBSET Visible :
        LET left == {x \in es : DirectoryOf[x] \in ds}
        IN  /\ disk.directories \subseteq ds /\ disk.entries \subseteq es
            /\ disk.bytes \subseteq bs
            /\ directories' = ds
            /\ file' = [x \in Contents |->
                          IF x \notin left THEN "absent"
                          ELSE IF x \in bs THEN file[x] ELSE "torn"]
            /\ disk' = [bytes |-> left \cap bs, entries |-> left, directories |-> ds]
  BY DEF PowerLoss
<1> DEFINE left == {x \in es : DirectoryOf[x] \in ds}
<1>2. /\ disk.directories \subseteq ds /\ disk.entries \subseteq es /\ disk.bytes \subseteq bs
      /\ directories' = ds
      /\ disk'.bytes = left \cap bs /\ disk'.entries = left /\ disk'.directories = ds
      /\ \A x \in Contents : /\ x \notin left => file'[x] = "absent"
                             /\ x \in left /\ x \in bs => file'[x] = file[x]
  BY <1>1
<1>3. left \subseteq Visible /\ Visible \subseteq Contents
  BY DEF Visible
<1> HIDE DEF left
<1>4. ASSUME NEW x \in Contents, Durable(x) PROVE Durable(x)'
  <2>1. x \in left /\ x \in bs
    BY <1>2, <1>4 DEF Durable, left
  <2> QED BY <1>2, <1>4, <2>1 DEF Durable
<1>5. FilesAreFlushed'
  <2>1. ASSUME NEW x \in Contents, file'[x] # "absent"
        PROVE  file'[x] = "whole" /\ x \in disk'.bytes /\ DirectoryOf[x] \in directories'
    <3>1. x \in left
      BY <1>2, <2>1
    <3>2. x \in bs /\ file[x] = "whole"
      BY <1>2, <1>3, <3>1 DEF FilesAreFlushed
    <3> QED BY <1>2, <3>1, <3>2 DEF left
  <2> QED BY <2>1 DEF FilesAreFlushed, Visible
<1> QED BY <1>4, <1>5

LEMMA DurableStays ==
  ASSUME TypeOK, [Next]_vars, FilesAreFlushed
  PROVE  \A x \in Contents : Durable(x) => Durable(x)'
<1>1. ASSUME NEW c \in Clients, LinkNew(c), NEW x \in Contents, Durable(x)
      PROVE  Durable(x)'
  <2>1. file'[x] = "whole" /\ directories' = directories
    BY <1>1 DEF LinkNew, Durable, TypeOK
  <2>2. /\ disk.bytes \subseteq disk'.bytes
        /\ disk'.entries = disk.entries /\ disk'.directories = disk.directories
    BY <1>1 DEF LinkNew, TypeOK
  <2> QED BY <1>1, <2>1, <2>2 DEF Durable
<1>2. ASSUME NEW c \in Clients, SyncDirectory(c), NEW x \in Contents, Durable(x)
      PROVE  Durable(x)'
  <2>1. /\ disk.bytes \subseteq disk'.bytes /\ disk.entries \subseteq disk'.entries
        /\ disk.directories \subseteq disk'.directories
        /\ file' = file /\ directories' = directories
    BY <1>2 DEF SyncDirectory, TypeOK
  <2> QED BY <1>2, <2>1 DEF Durable
<1>3. ASSUME NEW c \in Clients,
             \/ Submit(c) \/ Stream(c) \/ MakeDirectory(c) \/ LinkExisting(c)
             \/ RegisterNew(c) \/ RegisterReplay(c) \/ Abandon(c)
      PROVE  file' = file /\ disk' = disk /\ directories \subseteq directories'
  BY <1>3 DEF Submit, Stream, MakeDirectory, LinkExisting, RegisterNew, RegisterReplay, Abandon
<1>4. ASSUME \/ ReadRegistered \/ CheckFile \/ BeginListing
             \/ ListFile \/ Report \/ UNCHANGED vars
      PROVE  file' = file /\ disk' = disk /\ directories' = directories
  BY <1>4 DEF ReadRegistered, CheckFile, BeginListing, ListFile, Report, vars
<1>5. ASSUME file' = file, disk' = disk, directories \subseteq directories',
             NEW x \in Contents, Durable(x)
      PROVE  Durable(x)'
  BY <1>5 DEF Durable
<1> QED BY <1>1, <1>2, <1>3, <1>4, <1>5, PowerLossKeeps DEF Next

LEMMA FlushedStep ==
  ASSUME TypeOK, [Next]_vars, FilesAreFlushed, PlacementsAreOrdered
  PROVE  FilesAreFlushed'
<1>1. ASSUME NEW c \in Clients, LinkNew(c) PROVE FilesAreFlushed'
  <2>1. /\ place[c].at = "ready" /\ place[c].content \in Contents
        /\ DirectoryOf[place[c].content] \in directories
    BY <1>1 DEF LinkNew, Advance, TypeOK
  <2>2. place[c].flushed
    BY <2>1 DEF PlacementsAreOrdered, Ordered
  <2>3. disk'.bytes = disk.bytes \cup {place[c].content} /\ directories' = directories
    BY <1>1, <2>2 DEF LinkNew, TypeOK
  <2>4. file' = [file EXCEPT ![place[c].content] = "whole"]
    BY <1>1 DEF LinkNew
  <2> QED BY <2>1, <2>3, <2>4 DEF FilesAreFlushed, Visible, TypeOK
<1>2. ASSUME NEW c \in Clients,
             \/ Submit(c) \/ Stream(c) \/ MakeDirectory(c) \/ LinkExisting(c)
             \/ SyncDirectory(c) \/ RegisterNew(c) \/ RegisterReplay(c) \/ Abandon(c)
      PROVE  file' = file /\ disk'.bytes = disk.bytes /\ directories \subseteq directories'
  BY <1>2 DEF Submit, Stream, MakeDirectory, LinkExisting, SyncDirectory, RegisterNew,
              RegisterReplay, Abandon, TypeOK
<1>3. ASSUME \/ ReadRegistered \/ CheckFile \/ BeginListing
             \/ ListFile \/ Report \/ UNCHANGED vars
      PROVE  file' = file /\ disk' = disk /\ directories' = directories
  BY <1>3 DEF ReadRegistered, CheckFile, BeginListing, ListFile, Report, vars
<1>4. ASSUME file' = file, disk'.bytes = disk.bytes, directories \subseteq directories'
      PROVE  FilesAreFlushed'
  BY <1>4 DEF FilesAreFlushed, Visible
<1> QED BY <1>1, <1>2, <1>3, <1>4, PowerLossKeeps DEF Next

\* A placement that stays where it is stays in order.
LEMMA OrderStays ==
  ASSUME TypeOK, FilesAreFlushed, [Next]_vars, outages' = outages,
         NEW e \in Clients, Ordered(e), place'[e] = place[e]
  PROVE  Ordered(e)'
<1>1. /\ Visible \subseteq Visible'
      /\ \A x \in Contents : Promised(x) => Promised(x)'
  BY FilesAndRowsGrow, DurableStays DEF Promised
<1>2. place[e].at = "placed" => place[e].content \in Contents
  BY DEF TypeOK
<1>3. /\ place[e].at = "placed" => Promised(place[e].content)
      /\ place[e].at \in {"linked", "placed"} => place[e].content \in Visible
      /\ place[e].at \in {"streamed", "ready"} => place[e].flushed
  BY DEF Ordered
<1>4. ASSUME place[e].at = "placed" PROVE Promised(place[e].content)'
  <2>1. PICK x \in Contents : x = place[e].content
    BY <1>2, <1>4
  <2>2. Promised(x)' /\ place'[e].content = x
    BY <1>1, <1>3, <1>4, <2>1
  <2> QED BY <2>2 DEF Promised, Durable
<1> QED BY <1>1, <1>3, <1>4 DEF Ordered

LEMMA OrderStep ==
  ASSUME TypeOK, [Next]_vars, FilesAreFlushed, PlacementsAreOrdered
  PROVE  PlacementsAreOrdered'
<1> DEFINE Others(c) == outages' = outages /\ \A e \in Clients \ {c} : place'[e] = place[e]
<1>1. ASSUME NEW c \in Clients, Others(c), Ordered(c)' PROVE PlacementsAreOrdered'
  <2>1. ASSUME NEW e \in Clients \ {c} PROVE Ordered(e)'
    BY <1>1, OrderStays DEF PlacementsAreOrdered
  <2> QED BY <1>1, <2>1 DEF PlacementsAreOrdered
<1>2. ASSUME NEW c \in Clients, Submit(c) \/ Stream(c) PROVE Others(c) /\ Ordered(c)'
  <2>1. outages' = outages /\ \A e \in Clients \ {c} : place'[e] = place[e]
    BY <1>2 DEF Submit, Stream, TypeOK
  <2>2. CASE Submit(c)
    <3>1. place'[c].at = "streaming"
      BY <2>2 DEF Submit, TypeOK
    <3> QED BY <2>1, <3>1 DEF Ordered
  <2>3. CASE Stream(c)
    <3>1. place'[c].at = "streamed" /\ place'[c].flushed
      BY <2>3 DEF Stream, TypeOK
    <3> QED BY <2>1, <3>1 DEF Ordered
  <2> QED BY <1>2, <2>2, <2>3
<1>3. ASSUME NEW c \in Clients, MakeDirectory(c) PROVE Others(c) /\ Ordered(c)'
  <2>1. Advance(c, "streamed", "ready") /\ outages' = outages
    BY <1>3 DEF MakeDirectory
  <2>2. place[c].at = "streamed" /\ place'[c].at = "ready" /\ place'[c].flushed = place[c].flushed
        /\ \A e \in Clients \ {c} : place'[e] = place[e]
    BY <2>1, AdvanceType DEF Stages
  <2>3. place[c].flushed
    BY <2>2 DEF PlacementsAreOrdered, Ordered
  <2> QED BY <2>1, <2>2, <2>3 DEF Ordered
<1>4. ASSUME NEW c \in Clients, LinkNew(c) \/ LinkExisting(c) PROVE Others(c) /\ Ordered(c)'
  <2>1. Advance(c, "ready", "linked") /\ outages' = outages
    BY <1>4 DEF LinkNew, LinkExisting
  <2>2. place'[c].at = "linked" /\ place'[c].content = place[c].content
        /\ place[c].content \in Contents /\ \A e \in Clients \ {c} : place'[e] = place[e]
    BY <2>1, AdvanceType DEF Stages
  <2>3. file'[place[c].content] = "whole"
    BY <1>4, <2>2 DEF LinkNew, LinkExisting, TypeOK
  <2> QED BY <2>1, <2>2, <2>3 DEF Ordered, Visible
<1>5. ASSUME NEW c \in Clients, SyncDirectory(c) PROVE Others(c) /\ Ordered(c)'
  <2> DEFINE x == place[c].content
  <2>1. Advance(c, "linked", "placed") /\ outages' = outages
    BY <1>5 DEF SyncDirectory
  <2>2. /\ place[c].at = "linked" /\ place'[c].at = "placed" /\ place'[c].content = x
        /\ x \in Contents /\ \A e \in Clients \ {c} : place'[e] = place[e]
    BY <2>1, AdvanceType DEF Stages
  <2>3. x \in Visible
    BY <2>2 DEF PlacementsAreOrdered, Ordered
  <2>4. file[x] = "whole" /\ x \in disk.bytes /\ DirectoryOf[x] \in directories
    BY <2>3 DEF FilesAreFlushed
  <2>5. /\ x \in disk'.bytes /\ x \in disk'.entries
        /\ DirectoryOf[x] \in KeptDirectories => DirectoryOf[x] \in disk'.directories
        /\ file' = file /\ directories' = directories
    BY <1>5, <2>3, <2>4 DEF SyncDirectory, TypeOK
  <2> HIDE DEF x
  <2>6. Promised(place[c].content)'
    BY <2>2, <2>4, <2>5 DEF Promised, Durable
  <2>7. (place[c].content \in Visible)'
    BY <2>2, <2>3, <2>5 DEF Visible
  <2> QED BY <2>1, <2>2, <2>6, <2>7 DEF Ordered
<1>6. ASSUME NEW c \in Clients, RegisterNew(c) \/ RegisterReplay(c) \/ Abandon(c)
      PROVE  Others(c) /\ Ordered(c)'
  <2>1. place' = [place EXCEPT ![c] = NoPlacement] /\ outages' = outages
    BY <1>6 DEF RegisterNew, RegisterReplay, Abandon, Answered
  <2>2. place'[c].at = "idle" /\ \A e \in Clients \ {c} : place'[e] = place[e]
    BY <2>1, EndType
  <2> QED BY <2>1, <2>2 DEF Ordered
<1>7. CASE PowerLoss
  BY <1>7 DEF PowerLoss, NoPlacement, PlacementsAreOrdered, Ordered
<1>8. CASE \/ ReadRegistered \/ CheckFile \/ BeginListing
           \/ ListFile \/ Report \/ UNCHANGED vars
  <2>1. outages' = outages /\ place' = place
    BY <1>8 DEF ReadRegistered, CheckFile, BeginListing, ListFile, Report, vars
  <2> QED BY <2>1, OrderStays DEF PlacementsAreOrdered
<1> HIDE DEF Others
<1> QED BY <1>1, <1>2, <1>3, <1>4, <1>5, <1>6, <1>7, <1>8 DEF Next

\* Rows come only from placements that are durable.
LEMMA RowsStep ==
  ASSUME TypeOK, [Next]_vars, FilesAreFlushed, PlacementsAreOrdered, RowsAreDurable
  PROVE  RowsAreDurable'
<1> USE DEF database
<1>1. ASSUME NEW x \in registered' PROVE x \in Contents /\ Promised(x)
  <2>1. CASE x \in registered
    BY <2>1 DEF RowsAreDurable, TypeOK
  <2>2. CASE x \notin registered
    <3>1. PICK c \in Clients : RegisterNew(c)
      BY <2>2 DEF Next, Submit, Stream, MakeDirectory, LinkNew, LinkExisting,
        SyncDirectory, RegisterReplay, Abandon, PowerLoss, ReadRegistered,
        CheckFile, BeginListing, ListFile, Report, vars
    <3>2. x = place[c].content /\ place[c].at = "placed"
      BY <2>2, <3>1 DEF RegisterNew
    <3> QED BY <3>2 DEF PlacementsAreOrdered, Ordered, TypeOK
  <2> QED BY <2>1, <2>2
<1>2. ASSUME NEW x \in registered' PROVE Promised(x)'
  BY <1>1, DurableStays DEF Promised
<1> QED BY <1>2 DEF RowsAreDurable

(***************************************************************************)
(* The order of fsync, link, fsync and commit puts evidence on disk before *)
(* it is registered, in every directory that the file system keeps.        *)
(***************************************************************************)
THEOREM Durability == Spec => []DurableBeforeRegistered
<1>1. Init => DurableBeforeRegistered
  BY DEF Init, NoPlacement, Visible, DurableBeforeRegistered, RowsAreDurable,
         FilesAreFlushed, PlacementsAreOrdered, Ordered
<1>2. TypeOK /\ DurableBeforeRegistered /\ [Next]_vars => DurableBeforeRegistered'
  BY FlushedStep, OrderStep, RowsStep DEF DurableBeforeRegistered
<1> QED BY <1>1, <1>2, EvidenceTypes, PTL DEF Spec

(***************************************************************************)
(* Hence registered evidence is whole, through overlapping submissions of  *)
(* the same bytes, deaths at any point and losses of power.                *)
(***************************************************************************)
THEOREM Wholeness == Spec => []RegisteredEvidenceIsWhole
<1>1. DurableBeforeRegistered /\ TypeOK => RegisteredEvidenceIsWhole
  <2> SUFFICES ASSUME DurableBeforeRegistered, TypeOK, NEW x \in registered
               PROVE  /\ file[x] # "torn"
                      /\ DirectoryOf[x] \in KeptDirectories => file[x] = "whole"
    BY DEF RegisteredEvidenceIsWhole
  <2>1. file[x] # "torn"
    BY DEF DurableBeforeRegistered, FilesAreFlushed, Visible, TypeOK
  <2> QED BY <2>1 DEF DurableBeforeRegistered, RowsAreDurable, Promised, Durable
<1> QED BY <1>1, Durability, EvidenceTypes, PTL

-----------------------------------------------------------------------------
(***************************************************************************)
(* False alarms. What an inspection looks for it has read as registered;   *)
(* registered evidence that is kept is there at every moment, so also at   *)
(* the one at which it is looked for.                                      *)
(***************************************************************************)
LooksForKnown == inspector.at = "checking" => inspector.todo \subseteq inspector.known

AlarmInv == MissingIsLost /\ LooksForKnown

LEMMA AlarmStep ==
  ASSUME TypeOK, InspectionIsInformed, RegisteredEvidenceIsWhole, AlarmInv, [Next]_vars
  PROVE  AlarmInv'
<1> USE DEF AlarmInv, MissingIsLost, LooksForKnown
<1>1. CASE PowerLoss \/ Report
  BY <1>1 DEF PowerLoss, Report, NoReport
<1>2. CASE ReadRegistered
  BY <1>2 DEF ReadRegistered, database
<1>3. CASE CheckFile
  <2>1. PICK x \in inspector.todo :
          inspector' = [inspector EXCEPT !.todo = @ \ {x}, !.missing = @ \cup ({x} \ Visible)]
    BY <1>3 DEF CheckFile
  <2>2. /\ inspector'.todo = inspector.todo \ {x}
        /\ inspector'.missing = inspector.missing \cup ({x} \ Visible)
        /\ inspector.at = "checking" /\ inspector'.known = inspector.known
        /\ registered' = registered
    BY <1>3, <2>1 DEF CheckFile, TypeOK, database
  <2>3. x \in registered /\ x \in Contents
    BY <2>2 DEF InspectionIsInformed, TypeOK
  <2>4. x \notin Visible => DirectoryOf[x] \notin KeptDirectories
    BY <2>3 DEF RegisteredEvidenceIsWhole, Visible
  <2> QED BY <2>2, <2>3, <2>4
<1>4. CASE BeginListing \/ ListFile
  BY <1>4 DEF BeginListing, ListFile, TypeOK, database
<1>5. CASE outages' = outages /\ inspector' = inspector
  BY <1>5, FilesAndRowsGrow
<1>6. ASSUME NEW c \in Clients,
             \/ Submit(c) \/ Stream(c) \/ MakeDirectory(c) \/ LinkNew(c)
             \/ LinkExisting(c) \/ SyncDirectory(c) \/ RegisterNew(c)
             \/ RegisterReplay(c) \/ Abandon(c)
      PROVE  outages' = outages /\ inspector' = inspector
  BY <1>6 DEF Submit, Stream, MakeDirectory, LinkNew, LinkExisting, SyncDirectory,
              RegisterNew, RegisterReplay, Abandon
<1>7. CASE UNCHANGED vars
  BY <1>5, <1>7 DEF vars
<1> QED BY <1>1, <1>2, <1>3, <1>4, <1>5, <1>6, <1>7 DEF Next

(***************************************************************************)
(* `reverse-crm integrity` names as missing only evidence that is lost and *)
(* whose directory the file system did not keep.                           *)
(***************************************************************************)
THEOREM NoFalseAlarm == Spec => []MissingIsLost
<1>1. Init => AlarmInv
  BY DEF Init, NoReport, AlarmInv, MissingIsLost, LooksForKnown
<1>2. AlarmInv => MissingIsLost
  BY DEF AlarmInv
<1> QED BY <1>1, <1>2, EvidenceTypes, InspectionInformed, Wholeness, AlarmStep, PTL DEF Spec

-----------------------------------------------------------------------------
(***************************************************************************)
(* The store implements the ledger of accepted evidence. A link is Show, a *)
(* registration Accept, a loss of power Lose; of the steps between them,   *)
(* and of the inspection, the ledger sees nothing.                         *)
(***************************************************************************)
StoreInv == TypeOK /\ DurableBeforeRegistered /\ AnswersInv

evidence == <<file, source, answers, outages>>

LEMMA LinkIsShow ==
  ASSUME StoreInv, NEW c \in Clients, LinkNew(c)
  PROVE  Ledger!Show(place[c].content) /\ place[c].content \in Contents
<1>1. place[c].content \in Contents
  BY DEF LinkNew, Advance, StoreInv, TypeOK
<1> QED BY <1>1 DEF LinkNew, Ledger!Show, database

LEMMA RegistrationIsAccept ==
  ASSUME StoreInv, NEW c \in Clients, RegisterNew(c) \/ RegisterReplay(c)
  PROVE  /\ Ledger!Accept(place[c].source, place[c].content)
         /\ place[c].source \in Sources /\ place[c].content \in Contents
<1> DEFINE s == place[c].source
           x == place[c].content
<1>1. place[c].at = "placed" /\ s \in Sources /\ x \in Contents
  BY DEF RegisterNew, RegisterReplay, StoreInv, TypeOK
<1>2. file[x] = "whole"
  BY <1>1 DEF StoreInv, DurableBeforeRegistered, PlacementsAreOrdered, Ordered, FilesAreFlushed
<1>3. source[s] \in {NoContent, x} /\ source' = [source EXCEPT ![s] = x]
  <2>1. CASE RegisterNew(c)
    BY <2>1 DEF RegisterNew
  <2>2. CASE RegisterReplay(c)
    BY <1>1, <2>2 DEF RegisterReplay, StoreInv, TypeOK
  <2> QED BY <2>1, <2>2
<1>4. /\ answers' = answers \cup {[source |-> s, content |-> x]}
      /\ UNCHANGED <<file, outages>>
  BY DEF RegisterNew, RegisterReplay, Answered
<1> QED BY <1>1, <1>2, <1>3, <1>4 DEF Ledger!Accept

LEMMA PowerLossIsLose ==
  ASSUME StoreInv, StoreInv', PowerLoss
  PROVE  Ledger!Lose
<1> DEFINE kept == {x \in Contents : DirectoryOf[x] \in KeptDirectories}
           gone == {x \in Contents : file'[x] = "absent"}
<1>1. UNCHANGED <<source, answers>> /\ outages' = outages + 1
  BY DEF PowerLoss, database
<1>2. file \in [Contents -> {"absent", "whole", "torn"}]
      /\ file' \in [Contents -> {"absent", "whole", "torn"}]
  BY DEF StoreInv, TypeOK
<1>3. \A x \in Contents : file'[x] # "absent" => file'[x] = "whole"
  BY DEF StoreInv, DurableBeforeRegistered, FilesAreFlushed, Visible
<1>4. ASSUME NEW x \in Contents, file'[x] # "absent" PROVE file'[x] = file[x]
  <2>1. file[x] # "absent"
    BY <1>4 DEF PowerLoss, Visible
  <2>2. file[x] = "whole"
    BY <2>1 DEF StoreInv, DurableBeforeRegistered, FilesAreFlushed, Visible
  <2> QED BY <1>3, <1>4, <2>2
<1>5. file' = [x \in Contents |-> IF x \in gone THEN "absent" ELSE file[x]]
  BY <1>2, <1>4
<1>6. ASSUME NEW s \in Sources, source[s] \in kept PROVE source[s] \notin gone
  <2>1. source'[s] = source[s] /\ source[s] # NoContent
    BY <1>1, <1>6, EvidenceAssumption DEF EvidenceAssumption
  <2>2. source[s] \in registered'
    BY <2>1 DEF StoreInv, AnswersInv, SourcesStand
  <2>3. file'[source[s]] = "whole"
    BY <1>6, <2>2 DEF StoreInv, DurableBeforeRegistered, RowsAreDurable, Promised, Durable
  <2> QED BY <2>3
<1>7. gone \in SUBSET (Contents \ (Ledger!Accepted \cap kept))
  BY <1>6 DEF Ledger!Accepted
<1> HIDE DEF gone
<1> QED BY <1>1, <1>5, <1>7 DEF Ledger!Lose

LEMMA LedgerStep ==
  ASSUME StoreInv, StoreInv', [Next]_vars
  PROVE  [Ledger!Next]_evidence
<1>1. ASSUME NEW c \in Clients, LinkNew(c) PROVE Ledger!Next
  BY <1>1, LinkIsShow DEF Ledger!Next
<1>2. ASSUME NEW c \in Clients, RegisterNew(c) \/ RegisterReplay(c) PROVE Ledger!Next
  BY <1>2, RegistrationIsAccept DEF Ledger!Next
<1>3. CASE PowerLoss
  BY <1>3, PowerLossIsLose DEF Ledger!Next
<1>4. ASSUME NEW c \in Clients,
             \/ Submit(c) \/ Stream(c) \/ MakeDirectory(c) \/ LinkExisting(c)
             \/ SyncDirectory(c) \/ Abandon(c)
      PROVE  UNCHANGED evidence
  BY <1>4 DEF Submit, Stream, MakeDirectory, LinkExisting, SyncDirectory, Abandon,
              database, evidence
<1>5. CASE \/ ReadRegistered \/ CheckFile \/ BeginListing
           \/ ListFile \/ Report \/ UNCHANGED vars
  BY <1>5 DEF ReadRegistered, CheckFile, BeginListing, ListFile, Report, vars,
              database, evidence
<1> QED BY <1>1, <1>2, <1>3, <1>4, <1>5 DEF Next

(***************************************************************************)
(* To a submitter the store is the ledger: nothing that was accepted, and  *)
(* is kept, is ever lost, and nothing but a loss of power loses anything.  *)
(***************************************************************************)
THEOREM ImplementsLedger == Spec => LedgerSpec
<1>1. Init => Ledger!Init
  BY DEF Init, Ledger!Init
<1>2. Init => AnswersInv
  BY DEF Init, AnswersInv, SourcesStand, AnsweredSubmissionIsKept
<1>3. Spec => []StoreInv
  BY <1>2, EvidenceTypes, Durability, AnswersStep, PTL DEF Spec, StoreInv
<1>4. StoreInv /\ StoreInv' /\ [Next]_vars => [Ledger!Next]_evidence
  BY LedgerStep
<1> QED BY <1>1, <1>3, <1>4, PTL DEF Spec, LedgerSpec, Ledger!Spec, Ledger!evars, evidence
=============================================================================
