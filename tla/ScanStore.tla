------------------------------- MODULE ScanStore -------------------------------
(***************************************************************************)
(* Scans on their way through the data directory: the console stages an    *)
(* upload in chunks and queues it, a reader thread per class reads it into *)
(* the class's file, packages are imported with the blobs they name, and a *)
(* class is purged or discarded.  Blobs live by their content in a         *)
(* directory that no database owns: who still needs one is found by        *)
(* scanning every database for its hash.                                   *)
(*                                                                         *)
(* Abstracted: a blob is its hash; a database's rows are what names one;   *)
(* page rasters and crops share the life of the scan they come from; the   *)
(* staging file's name and age (a reaped or failed staging is a failed     *)
(* put); the schema guards of a purge (one more way to fail); the class's  *)
(* test paper (taken to be read: one more document, of no submission).     *)
(***************************************************************************)
EXTENDS Naturals, Sequences, SequencesExt, FiniteSets

CONSTANTS
  Classes,     \* the cohort files
  Files,       \* the PDFs a teacher uploads: one is one student's paper
  Big,         \* those longer than one upload chunk
  MaxUploads,  \* bound: uploads
  MaxImports,  \* bound: package imports
  MaxFaults    \* bound: operations that raise, console processes killed

ASSUME ScanAssumption ==
  /\ Big \subseteq Files /\ "packages" \notin Classes
  /\ {MaxUploads, MaxImports, MaxFaults} \subseteq Nat

VARIABLES
  stored,    \* hashes present under blobs/
  parts,     \* [Classes -> files with an upload_part row]
  papers,    \* [Classes -> files with a submission row]
  docs,      \* [Classes -> files with a document of their scan]
  exemplars, \* files whose scan a package names
  exists,    \* classes whose file exists
  runs,      \* classes that hold a run
  promoted,  \* classes whose evidence is in Tier D
  queue,     \* [Classes -> _intake_queues]
  upload,    \* [Classes -> the request being handled]
  reader,    \* [Classes -> the _intake_worker]
  import,    \* the package import being done
  purge,     \* the purge being done
  deleted,   \* classes reported as purged, and not uploaded to since
  uploads, imports, faults

shelf == <<stored, parts, docs, exemplars>>
classes == <<papers, exists, runs, promoted>>
bounds == <<uploads, imports, faults>>
vars == <<shelf, classes, queue, upload, reader, import, purge, deleted, bounds>>

Dbs == Classes \cup {"packages"}
Scan(f) == <<f, "scan">>
Chunks(f) == IF f \in Big THEN <<<<f, "first">>, <<f, "second">>>> ELSE <<Scan(f)>>
HashesOf(f) == {Scan(f)} \cup ToSet(Chunks(f))
Hashes == UNION {HashesOf(f) : f \in Files}

(* An upload's row names its first chunk, a document's the whole scan.      *)
PartHash(f) == Chunks(f)[1]

Named(d) ==
  IF d = "packages" THEN {Scan(f) : f \in exemplars}
  ELSE {PartHash(f) : f \in parts[d]} \cup {Scan(f) : f \in docs[d]}

(* A caller of put(): the hashes it has yet to store, and whether the next  *)
(* one is staged in .incoming.                                              *)
NoOne == [pc |-> "idle", file |-> "none", todo |-> <<>>, staged |-> FALSE]
Calls(f, hs) == [pc |-> "put", file |-> f, todo |-> hs, staged |-> FALSE]

(* The same of a reader, with the handle it opened its class by and whether *)
(* the class held the scan when intake looked.                              *)
NoReader == [pc |-> "idle", file |-> "none", todo |-> <<>>, staged |-> FALSE,
             handle |-> "none", known |-> FALSE]
Reads(f, h, k) == [pc |-> "put", file |-> f, todo |-> <<Scan(f)>>, staged |-> FALSE,
                   handle |-> h, known |-> k]

(* `before` and `since` remember, for the properties, what the class named  *)
(* when its rows went and what each database has named ever since.          *)
NoPurge == [pc |-> "idle", class |-> "none", before |-> {},
            since |-> [d \in Dbs |-> {}],
            found |-> {}, unscanned |-> {}, kept |-> {}, again |-> {}]

Init ==
  /\ stored = {} /\ exemplars = {}
  /\ parts = [c \in Classes |-> {}]
  /\ papers = [c \in Classes |-> {}]
  /\ docs = [c \in Classes |-> {}]
  /\ exists = Classes /\ runs = {} /\ promoted = {}
  /\ queue = [c \in Classes |-> <<>>]
  /\ upload = [c \in Classes |-> NoOne]
  /\ reader = [c \in Classes |-> NoReader]
  /\ import = NoOne /\ purge = NoPurge
  /\ deleted = {}
  /\ uploads = 0 /\ imports = 0 /\ faults = 0

Faulty ==
  /\ faults < MaxFaults /\ faults' = faults + 1
  /\ UNCHANGED <<uploads, imports>>

-----------------------------------------------------------------------------
(* Storing a blob *)

(* put(): a hash already present is left alone; any other is staged, then   *)
(* renamed into place.  `again` remembers what was stored while a purge     *)
(* reclaims.                                                                *)
Stage(a) ==
  IF Head(a.todo) \in stored THEN [a EXCEPT !.todo = Tail(@)]
                             ELSE [a EXCEPT !.staged = TRUE]

Placed(a) == [a EXCEPT !.todo = Tail(@), !.staged = FALSE]

(* The caller after a step of put(), and what the step does to the store.   *)
Put(a) == IF a.staged THEN Placed(a) ELSE Stage(a)

Puts(a) ==
  /\ a.pc = "put" /\ a.todo # <<>>
  /\ IF a.staged
     THEN /\ stored' = stored \cup {Head(a.todo)}
          /\ purge' = [purge EXCEPT !.again = IF purge.pc = "idle" THEN {}
                                              ELSE @ \cup {Head(a.todo)}]
     ELSE UNCHANGED <<stored, purge>>

-----------------------------------------------------------------------------
(* Uploads *)

Upload(c, f) ==
  /\ c \in exists /\ upload[c].pc = "idle" /\ uploads < MaxUploads
  /\ uploads' = uploads + 1
  /\ upload' = [upload EXCEPT ![c] = Calls(f, Chunks(f))]
  /\ deleted' = deleted \ {c}
  /\ UNCHANGED <<shelf, classes, queue, reader, import, purge, imports, faults>>

UploadPut(c) ==
  /\ Puts(upload[c])
  /\ upload' = [upload EXCEPT ![c] = Put(@)]
  /\ UNCHANGED <<parts, docs, exemplars, classes, queue, reader, import, deleted, bounds>>

(* _stage_chunk swallows whatever the store raises: the digests are handed  *)
(* on all the same.                                                         *)
UploadPutFails(c) ==
  /\ upload[c].staged /\ Faulty
  /\ upload' = [upload EXCEPT ![c] = Placed(@)]
  /\ UNCHANGED <<shelf, classes, queue, reader, import, purge, deleted>>

(* _record_upload_part, for a class that still exists.                      *)
UploadRecord(c) ==
  /\ upload[c].pc = "put" /\ upload[c].todo = <<>>
  /\ parts' = [parts EXCEPT ![c] = IF c \in exists THEN @ \cup {upload[c].file} ELSE @]
  /\ upload' = [upload EXCEPT ![c].pc = "queue"]
  /\ UNCHANGED <<stored, docs, exemplars, classes, queue, reader, import, purge, deleted,
                 bounds>>

(* queue_paper_intake: the file joins the class's queue, under the guard    *)
(* the reader's last look at it is taken under; a class without a reader    *)
(* gets one.                                                                *)
Queue(c) ==
  /\ upload[c].pc = "queue"
  /\ queue' = [queue EXCEPT ![c] = Append(@, upload[c].file)]
  /\ reader' = [reader EXCEPT ![c].pc = IF @ = "idle" THEN "look" ELSE @]
  /\ upload' = [upload EXCEPT ![c] = NoOne]
  /\ UNCHANGED <<shelf, classes, import, purge, deleted, bounds>>

-----------------------------------------------------------------------------
(* The reader of a class *)

Readable(f) == ToSet(Chunks(f)) \subseteq stored

(* The next file is put together from its chunks and handed to intake,      *)
(* which opens the class (and makes its file, if it is gone), looks which   *)
(* scans it holds, and only then stores the whole scan.  A chunk that is    *)
(* missing ends this file's read.                                           *)
ReaderTake(c) ==
  LET f == Head(queue[c])
      h == IF reader[c].handle = "none" THEN "open" ELSE reader[c].handle IN
  /\ reader[c].pc = "look" /\ queue[c] # <<>>
  /\ queue' = [queue EXCEPT ![c] = Tail(@)]
  /\ IF Readable(f)
     THEN /\ reader' = [reader EXCEPT ![c] = Reads(f, h, h = "open" /\ f \in docs[c])]
          /\ exists' = IF reader[c].handle = "none" THEN exists \cup {c} ELSE exists
     ELSE UNCHANGED <<reader, exists>>
  /\ UNCHANGED <<shelf, papers, runs, promoted, upload, import, purge, deleted, bounds>>

ReaderPut(c) ==
  /\ Puts(reader[c])
  /\ reader' = [reader EXCEPT ![c] = Put(@)]
  /\ UNCHANGED <<parts, docs, exemplars, classes, queue, upload, import, deleted, bounds>>

(* A scan the class held is skipped; any other gets a submission row of its *)
(* own before its pages are read.  Rows written through a handle whose file *)
(* was discarded go with that file.                                         *)
ReaderAdmit(c) ==
  LET known == reader[c].known IN
  /\ reader[c].pc = "put" /\ reader[c].todo = <<>>
  /\ reader' = [reader EXCEPT ![c].pc = IF known THEN "look" ELSE "read"]
  /\ papers' = IF known \/ reader[c].handle = "gone" THEN papers
               ELSE [papers EXCEPT ![c] = @ \cup {reader[c].file}]
  /\ UNCHANGED <<shelf, exists, runs, promoted, queue, upload, import, purge, deleted, bounds>>

(* The document commits; if its submission was purged meanwhile, the        *)
(* foreign key refuses it.                                                  *)
ReaderCommit(c) ==
  LET f == reader[c].file IN
  /\ reader[c].pc = "read"
  /\ docs' = IF reader[c].handle = "open" /\ f \in papers[c]
             THEN [docs EXCEPT ![c] = @ \cup {f}] ELSE docs
  /\ reader' = [reader EXCEPT ![c].pc = "look"]
  /\ UNCHANGED <<stored, parts, exemplars, classes, queue, upload, import, purge, deleted,
                 bounds>>

(* The blob store, the page reader or a check raises: this file is          *)
(* reported as not read and the next one is taken.                          *)
ReaderFails(c) ==
  /\ reader[c].pc \in {"put", "read"} /\ Faulty
  /\ reader' = [reader EXCEPT ![c].pc = "look", ![c].todo = <<>>, ![c].staged = FALSE]
  /\ UNCHANGED <<shelf, classes, queue, upload, import, purge, deleted>>

ReaderEnds(c) ==
  /\ reader[c].pc = "look" /\ queue[c] = <<>>
  /\ reader' = [reader EXCEPT ![c] = NoReader]
  /\ UNCHANGED <<shelf, classes, queue, upload, import, purge, deleted, bounds>>

(* Mutant: the job is closed and the queue kept for a reader nobody starts. *)
ReaderDiesAlone(c) ==
  /\ reader[c].pc = "look" /\ reader[c].handle = "none" /\ Faulty
  /\ reader' = [reader EXCEPT ![c] = NoReader]
  /\ UNCHANGED <<shelf, classes, queue, upload, import, purge, deleted>>

(* The thread cannot start or cannot open the store: its job fails, and the *)
(* files behind it are dropped with it.                                     *)
ReaderDies(c) ==
  /\ reader[c].pc = "look" /\ reader[c].handle = "none" /\ Faulty
  /\ reader' = [reader EXCEPT ![c] = NoReader]
  /\ queue' = [queue EXCEPT ![c] = <<>>]
  /\ UNCHANGED <<shelf, classes, upload, import, purge, deleted>>

-----------------------------------------------------------------------------
(* Runs, promotion, single papers, packages *)

(* A run takes in the papers that were read.                                *)
StartRun(c) ==
  /\ c \in exists \ runs
  /\ docs[c] # {}
  /\ runs' = runs \cup {c}
  /\ UNCHANGED <<shelf, papers, exists, promoted, queue, upload, reader, import, purge, deleted,
                 bounds>>

(* The audit records, labels and statistics of a graded class reach Tier D. *)
Promote(c) ==
  /\ c \in runs \ promoted
  /\ promoted' = promoted \cup {c}
  /\ UNCHANGED <<shelf, papers, exists, runs, queue, upload, reader, import, purge, deleted,
                 bounds>>

NamesLeft(c, f) == {PartHash(g) : g \in parts[c]} \cup {Scan(g) : g \in docs[c] \ {f}}

(* discard_ungraded_paper: the rows intake wrote for it; no blob, and not   *)
(* the row of its upload.                                                   *)
RemovePaper(c, f) ==
  /\ c \in exists \ runs /\ f \in papers[c]
  /\ papers' = [papers EXCEPT ![c] = @ \ {f}]
  /\ docs' = [docs EXCEPT ![c] = @ \ {f}]
  /\ purge' = [purge EXCEPT !.since[c] = @ \cap NamesLeft(c, f)]
  /\ UNCHANGED <<stored, parts, exemplars, exists, runs, promoted, queue, upload, reader, import,
                 deleted, bounds>>

(* import_file: the blobs the exemplars name, then the file that names them.*)
Import(f) ==
  /\ import.pc = "idle" /\ imports < MaxImports
  /\ imports' = imports + 1
  /\ import' = Calls(f, <<Scan(f)>>)
  /\ UNCHANGED <<shelf, classes, queue, upload, reader, purge, deleted, uploads, faults>>

ImportPut ==
  /\ Puts(import)
  /\ import' = Put(import)
  /\ UNCHANGED <<parts, docs, exemplars, classes, queue, upload, reader, deleted, bounds>>

ImportInstall ==
  /\ import.pc = "put" /\ import.todo = <<>>
  /\ exemplars' = exemplars \cup {import.file}
  /\ import' = NoOne
  /\ UNCHANGED <<stored, parts, docs, classes, queue, upload, reader, purge, deleted, bounds>>

ImportFails ==
  /\ import.pc = "put" /\ Faulty
  /\ import' = NoOne
  /\ UNCHANGED <<shelf, classes, queue, upload, reader, purge, deleted>>

-----------------------------------------------------------------------------
(* Deleting a class *)

others == <<queue, upload, import, bounds>>

(* "purge cohort": refused without promoted evidence, and a refusal is      *)
(* tried as a discard.                                                      *)
DeleteClass(c) ==
  /\ purge.pc = "idle" /\ c \in exists
  /\ purge' = [NoPurge EXCEPT !.pc = IF c \in promoted THEN "sweep" ELSE "count", !.class = c]
  /\ UNCHANGED <<shelf, classes, reader, deleted, others>>

(* Mutant: the scan of the class's rows does not know upload_part.          *)
CollectedFromDocuments(c) == {Scan(f) : f \in docs[c]}

(* _collect_blob_hash_references over the tables the sweep empties.         *)
Collected(c) == Named(c)

(* Mutant: package files are taken not to hold student scans.               *)
OtherClasses(c) == {d \in Classes : d \in exists} \ {c}

OtherDbs(c) == {d \in Dbs : d \in exists \/ d = "packages"} \ {c}

(* One transaction: read every hash of the class, delete every row.         *)
PurgeRows ==
  LET c == purge.class IN
  /\ purge.pc = "sweep"
  /\ purge' = [purge EXCEPT !.pc = "vacuum", !.before = Named(c),
                            !.since = [d \in Dbs |-> Named(d)],
                            !.found = Collected(c)]
  /\ parts' = [parts EXCEPT ![c] = {}] /\ docs' = [docs EXCEPT ![c] = {}]
  /\ papers' = [papers EXCEPT ![c] = {}]
  /\ runs' = runs \ {c}
  /\ UNCHANGED <<stored, exemplars, exists, promoted, reader, deleted, others>>

(* The file is compacted; the other databases are listed when there is      *)
(* something to reclaim.                                                    *)
PurgeVacuum ==
  /\ purge.pc = "vacuum"
  /\ purge' = [purge EXCEPT !.pc = "scan",
                 !.unscanned = IF purge.found = {} THEN {} ELSE OtherDbs(purge.class)]
  /\ UNCHANGED <<shelf, classes, reader, deleted, others>>

PurgeScan(d) ==
  /\ purge.pc = "scan" /\ d \in purge.unscanned
  /\ purge' = [purge EXCEPT !.unscanned = @ \ {d}, !.kept = @ \cup Named(d)]
  /\ UNCHANGED <<shelf, classes, reader, deleted, others>>

(* Unlinked hash by hash, once every database was scanned.                  *)
PurgeUnlink ==
  /\ purge.pc = "scan" /\ purge.unscanned = {}
  /\ \E h \in purge.found \ purge.kept :
       /\ stored' = stored \ {h}
       /\ purge' = [purge EXCEPT !.found = @ \ {h}]
  /\ UNCHANGED <<parts, docs, exemplars, classes, reader, deleted, others>>

PurgeReports ==
  /\ purge.pc = "scan" /\ purge.unscanned = {} /\ purge.found \subseteq purge.kept
  /\ deleted' = deleted \cup {purge.class}
  /\ purge' = NoPurge
  /\ UNCHANGED <<shelf, classes, reader, others>>

(* Whatever the purge raises, at whatever point, is answered by a discard.  *)
PurgeFails ==
  /\ purge.pc \in {"sweep", "vacuum", "scan"} /\ Faulty
  /\ purge' = [purge EXCEPT !.pc = "count"]
  /\ UNCHANGED <<shelf, classes, queue, upload, reader, import, deleted>>

(* discard_empty_cohort: papers and runs are counted, then the file is      *)
(* unlinked, under whoever still has it open.                               *)
DiscardCount ==
  LET c == purge.class IN
  /\ purge.pc = "count"
  /\ IF papers[c] = {} /\ c \notin runs
     THEN purge' = [purge EXCEPT !.pc = "remove"]
     ELSE purge' = NoPurge
  /\ UNCHANGED <<shelf, classes, reader, deleted, others>>

DiscardFile ==
  LET c == purge.class IN
  /\ purge.pc = "remove"
  /\ exists' = exists \ {c}
  /\ parts' = [parts EXCEPT ![c] = {}] /\ docs' = [docs EXCEPT ![c] = {}]
  /\ papers' = [papers EXCEPT ![c] = {}]
  /\ runs' = runs \ {c}
  /\ reader' = [reader EXCEPT ![c].handle = IF @ = "open" THEN "gone" ELSE @]
  /\ purge' = NoPurge
  /\ UNCHANGED <<stored, exemplars, promoted, deleted, others>>

(* The console process is killed: queue, threads and requests are gone.     *)
Crash ==
  /\ Faulty
  /\ queue' = [c \in Classes |-> <<>>]
  /\ upload' = [c \in Classes |-> NoOne]
  /\ reader' = [c \in Classes |-> NoReader]
  /\ import' = NoOne /\ purge' = NoPurge
  /\ UNCHANGED <<shelf, classes, deleted>>

-----------------------------------------------------------------------------
Reader(c) == ReaderTake(c) \/ ReaderPut(c) \/ ReaderAdmit(c) \/ ReaderCommit(c) \/ ReaderEnds(c)

Next ==
  \/ \E c \in Classes :
       \/ \E f \in Files : Upload(c, f) \/ RemovePaper(c, f)
       \/ UploadPut(c) \/ UploadPutFails(c) \/ UploadRecord(c) \/ Queue(c)
       \/ Reader(c) \/ ReaderFails(c) \/ ReaderDies(c)
       \/ StartRun(c) \/ Promote(c) \/ DeleteClass(c)
  \/ \E f \in Files : Import(f)
  \/ ImportPut \/ ImportInstall \/ ImportFails
  \/ PurgeRows \/ PurgeVacuum \/ PurgeUnlink \/ PurgeReports \/ PurgeFails
  \/ \E d \in Dbs : PurgeScan(d)
  \/ DiscardCount \/ DiscardFile
  \/ Crash

Spec == Init /\ [][Next]_vars

(* A reader thread that has something to do gets to run.                    *)
FairSpec == Spec /\ \A c \in Classes : WF_vars(Reader(c))

-----------------------------------------------------------------------------
(* What is claimed *)

(* Every variable keeps its type.                                           *)
TypeOK ==
  /\ stored \subseteq Hashes /\ exemplars \subseteq Files
  /\ {parts, papers, docs} \subseteq [Classes -> SUBSET Files]
  /\ exists \subseteq Classes /\ runs \subseteq Classes /\ promoted \subseteq Classes
  /\ queue \in [Classes -> Seq(Files)]
  /\ purge.pc \in {"idle", "sweep", "vacuum", "scan", "count", "remove"}

(* purge_cohort: a blob that another class or a package has named ever      *)
(* since the purge deleted its rows is never unlinked, whatever is          *)
(* uploaded, read, removed or imported while it scans.                      *)
PurgeSparesNamedBlobs ==
  [][\A h \in stored \ stored' :
       \A d \in Dbs \ {purge.class} : h \notin purge.since[d] \cap Named(d)]_vars

(* purge_cohort: when it reports, every blob the class's rows had named is  *)
(* gone, unless another database named it or it was stored again meanwhile. *)
ReportedPurgeIsWhole ==
  [][\A c \in Classes :
       c \in deleted' \ deleted =>
         purge.before \cap stored \subseteq purge.kept \cup purge.again]_vars

(* queue_paper_intake: a file that was queued is taken by a reader, or      *)
(* dropped with the job that reports it, however its arrival falls against  *)
(* the reader's last look.                                                  *)
QueuedFilesAreTaken ==
  \A c \in Classes : queue[c] # <<>> ~> queue[c] = <<>>

(* docs/code-notes/store.md of purge_cohort: "a blob referenced by nothing  *)
(* loses its student bytes".                                                *)
PurgedClassLeavesNoScan ==
  \A c \in deleted :
    upload[c].pc = "idle" /\ reader[c].pc = "idle" =>
      stored \subseteq UNION {Named(d) : d \in Dbs}

================================================================================
