------------------------------ MODULE ScanProofs ------------------------------
(***************************************************************************)
(* What a purge keeps for any classes, files, uploads, imports and faults: *)
(* it spares what another database has named all along, and what it        *)
(* reports as deleted is gone.                                             *)
(*                                                                         *)
(* The argument follows the purge's lists: what the class named is found   *)
(* or stored again until it is unlinked, and what the other databases have *)
(* named since is kept once they are scanned.  A database that is not      *)
(* scanned has no file, so it must be shown to hold no rows.               *)
(***************************************************************************)
EXTENDS ScanStore, TLAPS

-----------------------------------------------------------------------------
(* Shapes: what a hash, a file or a row is does not matter.                 *)

IsPurge(r) ==
  /\ r \in [pc : {r.pc}, class : {r.class}, before : {r.before}, since : {r.since},
            found : {r.found}, unscanned : {r.unscanned}, kept : {r.kept}, again : {r.again}]
  /\ r.since = [d \in Dbs |-> r.since[d]]
IsReader(r) ==
  r \in [pc : {r.pc}, file : {r.file}, todo : {r.todo}, staged : {r.staged},
         handle : {r.handle}, known : {r.known}]

Shapes ==
  /\ parts = [c \in Classes |-> parts[c]]
  /\ docs = [c \in Classes |-> docs[c]]
  /\ reader = [c \in Classes |-> reader[c]]
  /\ \A c \in Classes : IsReader(reader[c])
  /\ IsPurge(purge)
  /\ purge.pc # "idle" => purge.class \in Classes

-----------------------------------------------------------------------------
(* The invariant *)

(* A reader's open handle is of a file that is there.                       *)
OpenIsThere == \A c \in Classes : reader[c].handle = "open" => c \in exists

(* A class without a file has no rows.                                      *)
NoFileNoRows == \A c \in Classes \ exists : parts[c] = {} /\ docs[c] = {}

Deletes == purge.pc \in {"vacuum", "scan"}

(* What the class named is still to be unlinked, or was stored again.       *)
ToUnlink == Deletes => purge.before \cap stored \subseteq purge.found \cup purge.again

(* What another database has named ever since, it names.                    *)
StillNamed == Deletes => \A d \in Dbs \ {purge.class} : purge.since[d] \subseteq Named(d)

(* ... and what it has named ever since is kept once it is scanned.         *)
ScannedIsKept ==
  purge.pc = "scan" /\ purge.found # {} =>
    \A d \in Dbs \ {purge.class} :
      d \notin purge.unscanned => purge.since[d] \subseteq purge.kept

PurgeInv ==
  /\ Shapes
  /\ OpenIsThere
  /\ NoFileNoRows
  /\ ToUnlink
  /\ StillNamed
  /\ ScannedIsKept

-----------------------------------------------------------------------------
(* Who writes what *)

(* A blob stored while the purge is on is remembered.                       *)
StoredAgain(h) ==
  /\ stored' = stored \cup {h}
  /\ purge' = [purge EXCEPT !.again = IF purge.pc = "idle" THEN {} ELSE @ \cup {h}]

(* A put stores one blob, or touches neither the blobs nor the purge.       *)
LEMMA WhoPuts ==
  ASSUME NEW a, Puts(a)
  PROVE  UNCHANGED <<stored, purge>> \/ \E h : StoredAgain(h)
BY DEF Puts, StoredAgain

(* The actions that write rows or make and unlink files.                    *)
LEMMA WhoWritesRows ==
  ASSUME [Next]_vars
  PROVE  \/ UNCHANGED <<parts, docs, exists>>
         \/ \E c \in Classes : UploadRecord(c) \/ ReaderTake(c) \/ ReaderCommit(c)
         \/ \E c \in Classes, f \in Files : RemovePaper(c, f)
         \/ PurgeRows
         \/ DiscardFile
BY ZenonT(40) DEF Next, Reader, vars, shelf, classes, bounds, others, Upload, UploadPut,
   UploadPutFails, Queue, ReaderPut, ReaderAdmit, ReaderEnds, ReaderFails, ReaderDies,
   StartRun, Promote, DeleteClass, Import, ImportPut, ImportInstall, ImportFails,
   PurgeVacuum, PurgeUnlink, PurgeReports, PurgeFails, PurgeScan, DiscardCount, Crash

(* The actions that write a reader.                                         *)
LEMMA WhoWritesReader ==
  ASSUME [Next]_vars
  PROVE  \/ UNCHANGED reader
         \/ \E c \in Classes : \/ Queue(c) \/ ReaderTake(c) \/ ReaderPut(c) \/ ReaderAdmit(c)
                               \/ ReaderCommit(c) \/ ReaderFails(c) \/ ReaderEnds(c)
                               \/ ReaderDies(c)
         \/ DiscardFile
         \/ Crash
BY ZenonT(40) DEF Next, Reader, vars, shelf, classes, bounds, others, Upload, UploadPut,
   UploadPutFails, UploadRecord, RemovePaper, StartRun, Promote, DeleteClass, Import,
   ImportPut, ImportInstall, ImportFails, PurgeRows, PurgeVacuum, PurgeUnlink,
   PurgeReports, PurgeFails, PurgeScan, DiscardCount

(* The actions that write the purge or the store.                           *)
LEMMA WhoWritesPurge ==
  ASSUME [Next]_vars
  PROVE  \/ UNCHANGED <<purge, stored>>
         \/ \E h : StoredAgain(h)
         \/ \E c \in Classes, f \in Files : RemovePaper(c, f)
         \/ \E c \in Classes : DeleteClass(c)
         \/ PurgeRows \/ PurgeVacuum \/ (\E d \in Dbs : PurgeScan(d))
         \/ PurgeUnlink \/ PurgeReports \/ PurgeFails
         \/ DiscardCount \/ DiscardFile \/ Crash
<1>1. ASSUME NEW c \in Classes, UploadPut(c) \/ ReaderPut(c)
      PROVE  UNCHANGED <<purge, stored>> \/ \E h : StoredAgain(h)
  BY <1>1, WhoPuts DEF UploadPut, ReaderPut
<1>2. ASSUME ImportPut
      PROVE  UNCHANGED <<purge, stored>> \/ \E h : StoredAgain(h)
  BY <1>2, WhoPuts DEF ImportPut
<1>3. \/ UNCHANGED <<purge, stored>>
      \/ \E c \in Classes : UploadPut(c) \/ ReaderPut(c)
      \/ ImportPut
      \/ \E c \in Classes, f \in Files : RemovePaper(c, f)
      \/ \E c \in Classes : DeleteClass(c)
      \/ PurgeRows \/ PurgeVacuum \/ (\E d \in Dbs : PurgeScan(d))
      \/ PurgeUnlink \/ PurgeReports \/ PurgeFails
      \/ DiscardCount \/ DiscardFile \/ Crash
  BY ZenonT(40) DEF Next, Reader, vars, shelf, classes, bounds, Upload, UploadPutFails,
     UploadRecord, Queue, ReaderTake, ReaderAdmit, ReaderCommit, ReaderEnds, ReaderFails,
     ReaderDies, StartRun, Promote, Import, ImportInstall, ImportFails
<1> QED
  BY <1>1, <1>2, <1>3

-----------------------------------------------------------------------------
(* Readers and rows *)

(* A step of put() leaves a reader its handle.                              *)
LEMMA PutKeepsHandle ==
  ASSUME NEW a, IsReader(a)
  PROVE  IsReader(Put(a)) /\ Put(a).handle = a.handle
<1>1. CASE a.staged
  BY <1>1 DEF Put, Placed, IsReader
<1>2. CASE ~a.staged
  BY <1>2 DEF Put, Stage, IsReader
<1> QED
  BY <1>1, <1>2

(* Writing a field of a reader leaves the others.                           *)
LEMMA ReaderFields ==
  ASSUME NEW a, IsReader(a), NEW pc, NEW handle
  PROVE  /\ IsReader([a EXCEPT !.pc = pc]) /\ [a EXCEPT !.pc = pc].handle = a.handle
         /\ IsReader([a EXCEPT !.pc = pc, !.todo = <<>>, !.staged = FALSE])
         /\ [a EXCEPT !.pc = pc, !.todo = <<>>, !.staged = FALSE].handle = a.handle
         /\ IsReader([a EXCEPT !.handle = handle])
         /\ [a EXCEPT !.handle = handle].handle = handle
BY DEF IsReader

(* A reader keeps its shape, and what it has open is there.                 *)
LEMMA StepReader ==
  ASSUME Shapes, OpenIsThere, [Next]_vars
  PROVE  /\ reader' = [c \in Classes |-> reader'[c]]
         /\ \A c \in Classes : IsReader(reader'[c])
         /\ OpenIsThere'
<1>1. /\ reader = [c \in Classes |-> reader[c]]
      /\ \A c \in Classes : IsReader(reader[c])
      /\ \A c \in Classes : reader[c].handle = "open" => c \in exists
  BY DEF Shapes, OpenIsThere
(* A reader that changes to a row whose handle was open before, or is no    *)
(* longer, leaves what is to be shown as it was.                            *)
<1>2. ASSUME NEW c \in Classes, NEW row, reader' = [reader EXCEPT ![c] = row],
             IsReader(row), row.handle = "open" => c \in exists', exists \subseteq exists'
      PROVE  /\ reader' = [d \in Classes |-> reader'[d]]
             /\ \A d \in Classes : IsReader(reader'[d])
             /\ OpenIsThere'
  <2>1. /\ reader'[c] = row
        /\ \A d \in Classes : d # c => reader'[d] = reader[d]
        /\ reader' = [d \in Classes |-> reader'[d]]
    BY <1>1, <1>2
  <2> QED
    BY <1>1, <1>2, <2>1 DEF OpenIsThere
<1>3. CASE UNCHANGED reader /\ ~DiscardFile
  <2>1. exists \subseteq exists'
    BY <1>3, WhoWritesRows DEF UploadRecord, ReaderTake, ReaderCommit, RemovePaper, PurgeRows,
                               classes
  <2> QED
    BY <1>1, <1>3, <2>1 DEF OpenIsThere
<1>4. ASSUME NEW c \in Classes,
             \/ Queue(c) \/ ReaderPut(c) \/ ReaderAdmit(c) \/ ReaderCommit(c)
             \/ ReaderFails(c) \/ ReaderEnds(c) \/ ReaderDies(c)
      PROVE  \E row : /\ reader' = [reader EXCEPT ![c] = row] /\ IsReader(row)
                      /\ row.handle = "open" => reader[c].handle = "open"
                      /\ exists' = exists
  <2>2. CASE Queue(c) \/ ReaderAdmit(c) \/ ReaderCommit(c)
    <3>1. PICK pc : reader' = [reader EXCEPT ![c].pc = pc] /\ exists' = exists
      BY <2>2 DEF Queue, ReaderAdmit, ReaderCommit, classes
    <3>2. reader' = [reader EXCEPT ![c] = [reader[c] EXCEPT !.pc = pc]]
      BY <3>1
    <3> DEFINE row == [reader[c] EXCEPT !.pc = pc]
    <3>3. IsReader(row) /\ row.handle = reader[c].handle
      BY <1>1, ReaderFields
    <3> HIDE DEF row
    <3> QED
      BY <3>1, <3>2, <3>3 DEF row
  <2>3. CASE ReaderFails(c)
    <3> DEFINE row == [reader[c] EXCEPT !.pc = "look", !.todo = <<>>, !.staged = FALSE]
    <3>1. reader' = [reader EXCEPT ![c] = row] /\ exists' = exists
      BY <1>1, <2>3 DEF ReaderFails, classes
    <3>2. IsReader(row) /\ row.handle = reader[c].handle
      BY <1>1, ReaderFields
    <3> HIDE DEF row
    <3> QED
      BY <3>1, <3>2
  <2>4. CASE ReaderPut(c)
    <3>1. reader' = [reader EXCEPT ![c] = Put(reader[c])] /\ exists' = exists
      BY <2>4 DEF ReaderPut, classes
    <3> QED
      BY <1>1, <3>1, PutKeepsHandle
  <2>5. CASE ReaderEnds(c) \/ ReaderDies(c)
    <3>1. reader' = [reader EXCEPT ![c] = NoReader] /\ exists' = exists
      BY <2>5 DEF ReaderEnds, ReaderDies, classes
    <3>2. IsReader(NoReader) /\ NoReader.handle # "open"
      BY DEF NoReader, IsReader
    <3> QED
      BY <3>1, <3>2
  <2> QED
    BY <1>4, <2>2, <2>3, <2>4, <2>5
<1>5. ASSUME NEW c \in Classes, ReaderTake(c)
      PROVE  \/ reader' = reader /\ exists' = exists
             \/ \E row : /\ reader' = [reader EXCEPT ![c] = row] /\ IsReader(row)
                         /\ row.handle = "open" => c \in exists'
                         /\ exists \subseteq exists'
  <2>1. CASE Readable(Head(queue[c]))
    <3> DEFINE handle == IF reader[c].handle = "none" THEN "open" ELSE reader[c].handle
               known == handle = "open" /\ Head(queue[c]) \in docs[c]
               row == Reads(Head(queue[c]), handle, known)
    <3>1. /\ reader' = [reader EXCEPT ![c] = row]
          /\ exists' = IF reader[c].handle = "none" THEN exists \cup {c} ELSE exists
      BY <1>5, <2>1 DEF ReaderTake
    <3> HIDE DEF known
    <3>2. IsReader(row) /\ row.handle = handle
      BY DEF Reads, IsReader
    <3> HIDE DEF row
    <3> QED
      BY <1>1, <3>1, <3>2
  <2> QED
    BY <1>5, <2>1 DEF ReaderTake
<1>6. CASE DiscardFile
  <2> DEFINE c == purge.class
             handle == IF reader[c].handle = "open" THEN "gone" ELSE reader[c].handle
             row == [reader[c] EXCEPT !.handle = handle]
  <2>1. /\ c \in Classes /\ exists' = exists \ {c}
        /\ reader' = [reader EXCEPT ![c].handle = IF @ = "open" THEN "gone" ELSE @]
    BY <1>6 DEF DiscardFile, Shapes
  <2>2. reader' = [reader EXCEPT ![c] = row]
    BY <2>1
  <2>3. IsReader(row) /\ row.handle # "open"
    <3>1. IsReader(reader[c]) /\ handle # "open"
      BY <1>1, <2>1
    <3> HIDE DEF handle, c
    <3>2. IsReader(row) /\ row.handle = handle
      BY <3>1, ReaderFields
    <3> QED
      BY <3>1, <3>2
  <2> HIDE DEF row, c
  <2>4. /\ reader'[c] = row
        /\ \A d \in Classes : d # c => reader'[d] = reader[d]
        /\ reader' = [d \in Classes |-> reader'[d]]
    BY <1>1, <2>1, <2>2
  <2> QED
    BY <1>1, <2>1, <2>3, <2>4 DEF OpenIsThere
<1>7. CASE Crash
  BY <1>7 DEF Crash, NoReader, IsReader, OpenIsThere
<1> QED
  <2>1. CASE \E c \in Classes : ReaderTake(c)
    BY <1>1, <1>2, <1>5, <2>1 DEF OpenIsThere
  <2>2. CASE \E c \in Classes :
               \/ Queue(c) \/ ReaderPut(c) \/ ReaderAdmit(c) \/ ReaderCommit(c)
               \/ ReaderFails(c) \/ ReaderEnds(c) \/ ReaderDies(c)
    BY <1>1, <1>2, <1>4, <2>2
  <2> QED
    BY <1>3, <1>6, <1>7, <2>1, <2>2, WhoWritesReader

(* Rows keep their shape, and are written only of classes with a file.      *)
LEMMA StepRows ==
  ASSUME Shapes, OpenIsThere, NoFileNoRows, [Next]_vars
  PROVE  /\ parts' = [c \in Classes |-> parts'[c]]
         /\ docs' = [c \in Classes |-> docs'[c]]
         /\ NoFileNoRows'
<1>1. /\ parts = [c \in Classes |-> parts[c]]
      /\ docs = [c \in Classes |-> docs[c]]
      /\ \A c \in Classes \ exists : parts[c] = {} /\ docs[c] = {}
      /\ \A c \in Classes : reader[c].handle = "open" => c \in exists
  BY DEF Shapes, OpenIsThere, NoFileNoRows
<1>2. CASE UNCHANGED <<parts, docs, exists>>
  BY <1>1, <1>2 DEF NoFileNoRows
<1>3. ASSUME NEW c \in Classes, UploadRecord(c)
      PROVE  /\ parts' = [d \in Classes |-> parts'[d]]
             /\ docs' = [d \in Classes |-> docs'[d]]
             /\ NoFileNoRows'
  <2>1. /\ parts' = [parts EXCEPT ![c] = IF c \in exists THEN @ \cup {upload[c].file} ELSE @]
        /\ docs' = docs /\ exists' = exists
    BY <1>3 DEF UploadRecord, classes
  <2> QED
    BY <1>1, <2>1 DEF NoFileNoRows
<1>4. ASSUME NEW c \in Classes, ReaderTake(c)
      PROVE  /\ parts' = [d \in Classes |-> parts'[d]]
             /\ docs' = [d \in Classes |-> docs'[d]]
             /\ NoFileNoRows'
  <2>1. parts' = parts /\ docs' = docs /\ exists \subseteq exists'
    BY <1>4 DEF ReaderTake, shelf
  <2> QED
    BY <1>1, <2>1 DEF NoFileNoRows
<1>5. ASSUME NEW c \in Classes, ReaderCommit(c)
      PROVE  /\ parts' = [d \in Classes |-> parts'[d]]
             /\ docs' = [d \in Classes |-> docs'[d]]
             /\ NoFileNoRows'
  <2>1. /\ docs' = docs \/ (c \in exists /\ docs' = [docs EXCEPT ![c] = @ \cup {reader[c].file}])
        /\ parts' = parts /\ exists' = exists
    BY <1>1, <1>5 DEF ReaderCommit, classes
  <2> QED
    BY <1>1, <2>1 DEF NoFileNoRows
<1>6. ASSUME NEW c \in Classes, NEW f \in Files, RemovePaper(c, f)
      PROVE  /\ parts' = [d \in Classes |-> parts'[d]]
             /\ docs' = [d \in Classes |-> docs'[d]]
             /\ NoFileNoRows'
  <2>1. /\ docs' = [docs EXCEPT ![c] = @ \ {f}]
        /\ parts' = parts /\ exists' = exists
    BY <1>6 DEF RemovePaper
  <2> QED
    BY <1>1, <2>1 DEF NoFileNoRows
<1>7. CASE PurgeRows \/ DiscardFile
  <2>1. /\ purge.class \in Classes
        /\ parts' = [parts EXCEPT ![purge.class] = {}]
        /\ docs' = [docs EXCEPT ![purge.class] = {}]
        /\ exists' = exists \/ exists' = exists \ {purge.class}
    BY <1>7 DEF PurgeRows, DiscardFile, Shapes
  <2> QED
    BY <1>1, <2>1 DEF NoFileNoRows
<1> QED
  BY <1>2, <1>3, <1>4, <1>5, <1>6, <1>7, WhoWritesRows

-----------------------------------------------------------------------------
(* The purge *)

(* No purge is a purge that is idle.                                        *)
LEMMA NoPurgeIsPurge == IsPurge(NoPurge) /\ NoPurge.pc = "idle"
BY DEF NoPurge, IsPurge

(* What a database names, it names after the step, unless one of its papers *)
(* is removed or it is the class that is being deleted.                     *)
LEMMA StepNames ==
  ASSUME Shapes, [Next]_vars, NEW d \in Dbs,
         d \in Classes => \A f \in Files : ~RemovePaper(d, f),
         ~(d = purge.class /\ (PurgeRows \/ DiscardFile))
  PROVE  Named(d) \subseteq Named(d)'
<1>1. exemplars \subseteq exemplars'
  <2>1. UNCHANGED exemplars \/ ImportInstall
    BY ZenonT(40) DEF Next, Reader, vars, shelf, classes, bounds, others, Upload, UploadPut,
       UploadPutFails, UploadRecord, Queue, ReaderTake, ReaderPut, ReaderAdmit, ReaderCommit,
       ReaderEnds, ReaderFails, ReaderDies, StartRun, Promote, RemovePaper, DeleteClass,
       Import, ImportPut, ImportFails, PurgeRows, PurgeVacuum, PurgeUnlink, PurgeReports,
       PurgeFails, PurgeScan, DiscardCount, DiscardFile, Crash
  <2> QED
    BY <2>1 DEF ImportInstall
<1>2. CASE d = "packages"
  BY <1>1, <1>2 DEF Named
<1>3. CASE d # "packages"
  <2>1. d \in Classes
    BY <1>3 DEF Dbs
  <2>2. /\ parts = [c \in Classes |-> parts[c]]
        /\ docs = [c \in Classes |-> docs[c]]
    BY DEF Shapes
  <2>3. parts[d] \subseteq parts'[d] /\ docs[d] \subseteq docs'[d]
    <3>1. CASE UNCHANGED <<parts, docs, exists>>
      BY <3>1
    <3>2. ASSUME NEW c \in Classes, UploadRecord(c)
          PROVE  parts[d] \subseteq parts'[d] /\ docs[d] \subseteq docs'[d]
      <4>1. /\ parts' = [parts EXCEPT ![c] = IF c \in exists THEN @ \cup {upload[c].file} ELSE @]
            /\ docs' = docs
        BY <3>2 DEF UploadRecord
      <4> QED
        BY <2>1, <2>2, <4>1
    <3>3. ASSUME NEW c \in Classes, ReaderTake(c)
          PROVE  parts[d] \subseteq parts'[d] /\ docs[d] \subseteq docs'[d]
      BY <3>3 DEF ReaderTake, shelf
    <3>4. ASSUME NEW c \in Classes, ReaderCommit(c)
          PROVE  parts[d] \subseteq parts'[d] /\ docs[d] \subseteq docs'[d]
      <4>1. /\ docs' = docs \/ docs' = [docs EXCEPT ![c] = @ \cup {reader[c].file}]
            /\ parts' = parts
        BY <3>4 DEF ReaderCommit
      <4> QED
        BY <2>1, <2>2, <4>1
    <3>5. ASSUME NEW c \in Classes, NEW f \in Files, RemovePaper(c, f)
          PROVE  parts[d] \subseteq parts'[d] /\ docs[d] \subseteq docs'[d]
      <4>1. docs' = [docs EXCEPT ![c] = @ \ {f}] /\ parts' = parts /\ c # d
        BY <2>1, <3>5 DEF RemovePaper
      <4> QED
        BY <2>1, <2>2, <4>1
    <3>6. CASE PurgeRows \/ DiscardFile
      <4>1. /\ parts' = [parts EXCEPT ![purge.class] = {}]
            /\ docs' = [docs EXCEPT ![purge.class] = {}]
            /\ purge.class # d
        BY <3>6 DEF PurgeRows, DiscardFile
      <4> QED
        BY <2>1, <2>2, <4>1
    <3> QED
      BY <3>1, <3>2, <3>3, <3>4, <3>5, <3>6, WhoWritesRows
  <2> QED
    BY <1>3, <2>3 DEF Named
<1> QED
  BY <1>2, <1>3

(* The purge keeps its shape, and what it has promised so far.              *)
LEMMA StepPurge ==
  ASSUME PurgeInv, [Next]_vars
  PROVE  /\ IsPurge(purge')
         /\ purge'.pc # "idle" => purge'.class \in Classes
         /\ ToUnlink' /\ StillNamed' /\ ScannedIsKept'
<1> DEFINE Good ==
      /\ IsPurge(purge')
      /\ purge'.pc # "idle" => purge'.class \in Classes
      /\ ToUnlink' /\ StillNamed' /\ ScannedIsKept'
<1> SUFFICES Good
  OBVIOUS
<1>1. /\ Shapes /\ IsPurge(purge)
      /\ purge.pc # "idle" => purge.class \in Classes
      /\ OpenIsThere /\ NoFileNoRows /\ ToUnlink /\ StillNamed /\ ScannedIsKept
      /\ "packages" \notin Classes
  BY ScanAssumption DEF PurgeInv, Shapes
(* A purge that is not deleting has promised nothing.                       *)
<1>2. ASSUME IsPurge(purge'), purge'.pc # "idle" => purge'.class \in Classes,
             purge'.pc \notin {"vacuum", "scan"}
      PROVE  Good
  BY <1>2 DEF ToUnlink, StillNamed, ScannedIsKept, Deletes
<1>3. ASSUME NEW c \in Classes, NEW f \in Files, RemovePaper(c, f)
      PROVE  Good
  <2>1. /\ purge' = [purge EXCEPT !.since[c] = purge.since[c] \cap NamesLeft(c, f)]
        /\ docs' = [docs EXCEPT ![c] = @ \ {f}]
        /\ UNCHANGED <<stored, parts, exemplars>>
    BY <1>3 DEF RemovePaper
  <2>2. c \in Dbs /\ c # "packages"
    BY <1>1 DEF Dbs
  <2>3. /\ IsPurge(purge') /\ purge'.pc = purge.pc /\ purge'.class = purge.class
        /\ purge'.before = purge.before
        /\ purge'.since[c] = purge.since[c] \cap NamesLeft(c, f)
        /\ \A e \in Dbs : e # c => purge'.since[e] = purge.since[e]
        /\ purge'.found = purge.found /\ purge'.unscanned = purge.unscanned
        /\ purge'.kept = purge.kept /\ purge'.again = purge.again
    BY <1>1, <2>1, <2>2 DEF IsPurge
  <2>4. NamesLeft(c, f) = Named(c)'
    <3>1. docs'[c] = docs[c] \ {f} /\ parts'[c] = parts[c]
      BY <1>1, <2>1 DEF Shapes
    <3> QED
      BY <2>2, <3>1 DEF Named, NamesLeft
  <2>5. \A e \in Dbs : e # c => Named(e)' = Named(e)
    <3> TAKE e \in Dbs
    <3> HAVE e # c
    <3>1. e # "packages" => docs'[e] = docs[e] /\ parts'[e] = parts[e]
      BY <1>1, <2>1 DEF Shapes, Dbs
    <3> QED
      BY <2>1, <3>1 DEF Named
  <2>6. ToUnlink'
    BY <1>1, <2>1, <2>3 DEF ToUnlink, Deletes
  <2>7. StillNamed'
    BY <1>1, <2>3, <2>4, <2>5 DEF StillNamed, Deletes
  <2>8. ScannedIsKept'
    BY <1>1, <2>3 DEF ScannedIsKept
  <2> QED
    BY <1>1, <2>3, <2>6, <2>7, <2>8
<1>4. CASE PurgeRows
  <2> DEFINE c == purge.class
  <2>1. /\ purge.pc = "sweep" /\ UNCHANGED <<stored, exemplars>>
        /\ purge' = [purge EXCEPT !.pc = "vacuum", !.before = Named(c),
                                  !.since = [d \in Dbs |-> Named(d)], !.found = Collected(c)]
        /\ parts' = [parts EXCEPT ![c] = {}] /\ docs' = [docs EXCEPT ![c] = {}]
    BY <1>4 DEF PurgeRows
  <2>2. /\ IsPurge(purge') /\ purge'.pc = "vacuum" /\ purge'.class = c
        /\ purge'.before = Named(c) /\ purge'.found = Named(c)
        /\ purge'.since = [d \in Dbs |-> Named(d)]
    BY <1>1, <2>1 DEF IsPurge, Collected
  <2>3. \A d \in Dbs \ {c} : Named(d)' = Named(d)
    <3> TAKE d \in Dbs \ {c}
    <3>1. d # "packages" => docs'[d] = docs[d] /\ parts'[d] = parts[d]
      BY <1>1, <2>1 DEF Shapes, Dbs
    <3> QED
      BY <2>1, <3>1 DEF Named
  <2>4. ToUnlink' /\ ScannedIsKept'
    BY <2>2 DEF ToUnlink, ScannedIsKept
  <2>5. StillNamed'
    BY <2>2, <2>3 DEF StillNamed
  <2> QED
    BY <1>1, <2>1, <2>2, <2>4, <2>5
<1>5. CASE DiscardFile \/ Crash \/ PurgeReports
  <2>1. purge' = NoPurge
    BY <1>5 DEF DiscardFile, Crash, PurgeReports
  <2> QED
    BY <1>2, <2>1, NoPurgeIsPurge
<1>6. ASSUME NEW c \in Classes, DeleteClass(c)
      PROVE  Good
  <2>1. \/ purge' = [NoPurge EXCEPT !.pc = "sweep", !.class = c]
        \/ purge' = [NoPurge EXCEPT !.pc = "count", !.class = c]
    BY <1>6 DEF DeleteClass
  <2>2. IsPurge(purge') /\ purge'.class = c /\ purge'.pc \in {"sweep", "count"}
    BY ZenonT(60), <2>1 DEF NoPurge, IsPurge
  <2> QED
    BY <1>2, <2>2
<1>7. CASE PurgeFails \/ DiscardCount
  <2>1. purge.pc # "idle" /\ (\/ purge' = [purge EXCEPT !.pc = "count"]
                              \/ purge' = [purge EXCEPT !.pc = "remove"]
                              \/ purge' = NoPurge)
    BY <1>7 DEF PurgeFails, DiscardCount
  <2>2. \/ purge' = NoPurge
        \/ /\ IsPurge(purge') /\ purge'.class = purge.class
           /\ purge'.pc \in {"count", "remove"}
    BY <1>1, <2>1 DEF IsPurge
  <2> QED
    BY <1>1, <1>2, <2>1, <2>2, NoPurgeIsPurge
(* What is left takes no name from any database.                            *)
<1>8. ASSUME ~DiscardFile, ~PurgeRows, \A c \in Classes, f \in Files : ~RemovePaper(c, f)
      PROVE  \A d \in Dbs : Named(d) \subseteq Named(d)'
  <2> TAKE d \in Dbs
  <2>1. CASE d \in Classes
    BY <1>1, <1>8, <2>1, StepNames
  <2>2. CASE d = "packages"
    BY <1>1, <1>8, <2>2, StepNames
  <2> QED
    BY <2>1, <2>2 DEF Dbs
<1>9. ASSUME NEW h, StoredAgain(h), \A d \in Dbs : Named(d) \subseteq Named(d)'
      PROVE  Good
  <2>1. /\ stored' = stored \cup {h}
        /\ purge' = [purge EXCEPT !.again = IF purge.pc = "idle" THEN {} ELSE purge.again \cup {h}]
    BY <1>9 DEF StoredAgain
  <2> DEFINE again == IF purge.pc = "idle" THEN {} ELSE purge.again \cup {h}
  <2>2. purge.pc # "idle" => again = purge.again \cup {h}
    OBVIOUS
  <2> HIDE DEF again
  <2>3. /\ IsPurge(purge') /\ purge'.pc = purge.pc /\ purge'.class = purge.class
        /\ purge'.before = purge.before /\ purge'.since = purge.since
        /\ purge'.found = purge.found /\ purge'.unscanned = purge.unscanned
        /\ purge'.kept = purge.kept /\ purge'.again = again
    <3>1. purge' = [purge EXCEPT !.again = again]
      BY <2>1 DEF again
    <3> QED
      BY <1>1, <3>1 DEF IsPurge
  <2>4. ToUnlink'
    BY <1>1, <2>1, <2>2, <2>3 DEF ToUnlink, Deletes
  <2>5. StillNamed'
    BY <1>1, <1>9, <2>3 DEF StillNamed, Deletes
  <2>6. ScannedIsKept'
    BY <1>1, <2>3 DEF ScannedIsKept
  <2> QED
    BY <1>1, <2>3, <2>4, <2>5, <2>6
<1>10. ASSUME UNCHANGED <<purge, stored>>, \A d \in Dbs : Named(d) \subseteq Named(d)'
       PROVE  Good
  <2>1. StillNamed'
    BY <1>1, <1>10 DEF StillNamed, Deletes
  <2>2. ToUnlink' /\ ScannedIsKept'
    BY <1>1, <1>10 DEF ToUnlink, ScannedIsKept, Deletes
  <2> QED
    BY <1>1, <1>10, <2>1, <2>2
<1>11. ASSUME PurgeVacuum, \A d \in Dbs : Named(d) \subseteq Named(d)'
       PROVE  Good
  <2> DEFINE others2 == IF purge.found = {} THEN {} ELSE OtherDbs(purge.class)
  <2>1. /\ purge.pc = "vacuum" /\ stored' = stored
        /\ purge' = [purge EXCEPT !.pc = "scan", !.unscanned = others2]
    BY <1>11 DEF PurgeVacuum, shelf
  <2>2. /\ IsPurge(purge') /\ purge'.pc = "scan" /\ purge'.class = purge.class
        /\ purge'.before = purge.before /\ purge'.since = purge.since
        /\ purge'.found = purge.found /\ purge'.unscanned = others2
        /\ purge'.kept = purge.kept /\ purge'.again = purge.again
    <3> HIDE DEF others2
    <3> QED
      BY <1>1, <2>1 DEF IsPurge
  <2>3. ToUnlink'
    BY <1>1, <2>1, <2>2 DEF ToUnlink, Deletes
  <2>4. StillNamed'
    BY <1>1, <1>11, <2>1, <2>2 DEF StillNamed, Deletes
  <2>5. ASSUME purge.found # {}, NEW d \in Dbs \ {purge.class}, d \notin others2
        PROVE  purge.since[d] = {}
    <3>1. d \in Classes \ exists
      BY <2>5 DEF OtherDbs, Dbs
    <3>2. Named(d) = {}
      BY <1>1, <3>1 DEF NoFileNoRows, Named
    <3> QED
      BY <1>1, <2>1, <2>5, <3>2 DEF StillNamed, Deletes
  <2> HIDE DEF others2
  <2>6. ScannedIsKept'
    BY <2>2, <2>5 DEF ScannedIsKept
  <2> QED
    BY <1>1, <2>1, <2>2, <2>3, <2>4, <2>6
<1>12. ASSUME NEW e \in Dbs, PurgeScan(e), \A d \in Dbs : Named(d) \subseteq Named(d)'
       PROVE  Good
  <2>1. /\ purge.pc = "scan" /\ stored' = stored
        /\ purge' = [purge EXCEPT !.unscanned = @ \ {e}, !.kept = @ \cup Named(e)]
    BY <1>12 DEF PurgeScan, shelf
  <2>2. /\ IsPurge(purge') /\ purge'.pc = "scan" /\ purge'.class = purge.class
        /\ purge'.before = purge.before /\ purge'.since = purge.since
        /\ purge'.found = purge.found /\ purge'.unscanned = purge.unscanned \ {e}
        /\ purge'.kept = purge.kept \cup Named(e) /\ purge'.again = purge.again
    BY <1>1, <2>1 DEF IsPurge
  <2>3. ToUnlink'
    BY <1>1, <2>1, <2>2 DEF ToUnlink, Deletes
  <2>4. StillNamed'
    BY <1>1, <1>12, <2>1, <2>2 DEF StillNamed, Deletes
  <2>5. \A d \in Dbs \ {purge.class} : purge.since[d] \subseteq Named(d)
    BY <1>1, <2>1 DEF StillNamed, Deletes
  <2>6. ScannedIsKept'
    BY <1>1, <2>1, <2>2, <2>5 DEF ScannedIsKept
  <2> QED
    BY <1>1, <2>1, <2>2, <2>3, <2>4, <2>6
<1>13. ASSUME PurgeUnlink, \A d \in Dbs : Named(d) \subseteq Named(d)'
       PROVE  Good
  <2>1. PICK h \in purge.found \ purge.kept :
          /\ purge.pc = "scan" /\ stored' = stored \ {h}
          /\ purge' = [purge EXCEPT !.found = purge.found \ {h}]
    BY <1>13 DEF PurgeUnlink
  <2>2. /\ IsPurge(purge') /\ purge'.pc = "scan" /\ purge'.class = purge.class
        /\ purge'.before = purge.before /\ purge'.since = purge.since
        /\ purge'.found = purge.found \ {h} /\ purge'.unscanned = purge.unscanned
        /\ purge'.kept = purge.kept /\ purge'.again = purge.again
    BY <1>1, <2>1 DEF IsPurge
  <2>3. ToUnlink'
    BY <1>1, <2>1, <2>2 DEF ToUnlink, Deletes
  <2>4. StillNamed'
    BY <1>1, <1>13, <2>1, <2>2 DEF StillNamed, Deletes
  <2>5. ScannedIsKept'
    BY <1>1, <2>1, <2>2 DEF ScannedIsKept
  <2> QED
    BY <1>1, <2>1, <2>2, <2>3, <2>4, <2>5
<1> QED
  <2>1. CASE \E c \in Classes, f \in Files : RemovePaper(c, f)
    BY <1>3, <2>1
  <2>2. CASE DiscardFile \/ PurgeRows
    BY <1>4, <1>5, <2>2
  <2>3. CASE ~DiscardFile /\ ~PurgeRows /\ \A c \in Classes, f \in Files : ~RemovePaper(c, f)
    <3>1. \A d \in Dbs : Named(d) \subseteq Named(d)'
      BY <1>8, <2>3
    <3> HIDE DEF Good
    <3>2. CASE UNCHANGED <<purge, stored>> \/ \E h : StoredAgain(h)
      BY <1>9, <1>10, <3>1, <3>2
    <3>3. CASE PurgeVacuum \/ (\E d \in Dbs : PurgeScan(d)) \/ PurgeUnlink
      BY <1>11, <1>12, <1>13, <3>1, <3>3
    <3>4. CASE Crash \/ PurgeReports \/ PurgeFails \/ DiscardCount
      BY <1>5, <1>7, <3>4
    <3>5. CASE \E c \in Classes : DeleteClass(c)
      BY <1>6, <3>5
    <3> QED
      BY <2>3, <3>2, <3>3, <3>4, <3>5, WhoWritesPurge
  <2> QED
    BY <2>1, <2>2, <2>3

-----------------------------------------------------------------------------
(* The theorems *)

(* Readers hold files that are there, rows belong to a file, and the lists  *)
(* of a purge cover what it must unlink and what it must spare.             *)
THEOREM PurgeInvariant == Spec => []PurgeInv
<1>1. Init => PurgeInv
  <2> SUFFICES ASSUME Init PROVE PurgeInv
    OBVIOUS
  <2>1. IsReader(NoReader) /\ NoReader.handle = "none"
    BY DEF NoReader, IsReader
  <2>2. Shapes
    BY <2>1, NoPurgeIsPurge DEF Init, Shapes
  <2>3. OpenIsThere
    BY <2>1 DEF Init, OpenIsThere
  <2>4. NoFileNoRows
    BY DEF Init, NoFileNoRows
  <2>5. ToUnlink /\ StillNamed /\ ScannedIsKept
    BY NoPurgeIsPurge DEF Init, ToUnlink, StillNamed, ScannedIsKept, Deletes
  <2> QED
    BY <2>2, <2>3, <2>4, <2>5 DEF PurgeInv
<1>2. PurgeInv /\ [Next]_vars => PurgeInv'
  <2> SUFFICES ASSUME PurgeInv, [Next]_vars PROVE PurgeInv'
    OBVIOUS
  <2>1. Shapes'
    BY StepReader, StepRows, StepPurge DEF PurgeInv, Shapes
  <2> QED
    BY <2>1, StepReader, StepRows, StepPurge DEF PurgeInv
<1> QED
  BY <1>1, <1>2, PTL DEF Spec

(* No step unlinks a blob that another class or a package has named ever    *)
(* since the purge deleted its rows.                                        *)
THEOREM NamedBlobsAreSpared == Spec => PurgeSparesNamedBlobs
<1>1. PurgeInv /\ [Next]_vars
        => [\A h \in stored \ stored' :
              \A d \in Dbs \ {purge.class} : h \notin purge.since[d] \cap Named(d)]_vars
  <2> SUFFICES ASSUME PurgeInv, [Next]_vars, NEW h \in stored \ stored',
                      NEW d \in Dbs \ {purge.class}
               PROVE  h \notin purge.since[d] \cap Named(d)
    OBVIOUS
  <2>1. stored' # stored /\ ~(\E g : StoredAgain(g))
    BY DEF StoredAgain
  <2>2. PurgeUnlink
    BY <2>1, WhoWritesPurge DEF RemovePaper, DeleteClass, PurgeRows, PurgeVacuum, PurgeScan,
       PurgeReports, PurgeFails, DiscardCount, DiscardFile, Crash, shelf
  <2>3. /\ purge.pc = "scan" /\ purge.unscanned = {}
        /\ h \in purge.found \ purge.kept
    BY <2>2 DEF PurgeUnlink
  <2>4. purge.since[d] \subseteq purge.kept
    BY <2>3 DEF PurgeInv, ScannedIsKept
  <2> QED
    BY <2>3, <2>4
<1> QED
  BY <1>1, PurgeInvariant, PTL DEF Spec, PurgeSparesNamedBlobs

(* When a purge reports, what the class had named is gone, is named         *)
(* elsewhere or was stored again.                                           *)
THEOREM ReportsAreWhole == Spec => ReportedPurgeIsWhole
<1>1. PurgeInv /\ [Next]_vars
        => [\A c \in Classes :
              c \in deleted' \ deleted =>
                purge.before \cap stored \subseteq purge.kept \cup purge.again]_vars
  <2> SUFFICES ASSUME PurgeInv, [Next]_vars, NEW c \in Classes, c \in deleted' \ deleted
               PROVE  purge.before \cap stored \subseteq purge.kept \cup purge.again
    OBVIOUS
  <2>1. UNCHANGED deleted \/ PurgeReports \/ \E d \in Classes, f \in Files : Upload(d, f)
    BY ZenonT(40) DEF Next, Reader, vars, shelf, classes, bounds, others, UploadPut,
       UploadPutFails, UploadRecord, Queue, ReaderTake, ReaderPut, ReaderAdmit, ReaderCommit,
       ReaderEnds, ReaderFails, ReaderDies, StartRun, Promote, RemovePaper, DeleteClass,
       Import, ImportPut, ImportInstall, ImportFails, PurgeRows, PurgeVacuum, PurgeUnlink,
       PurgeFails, PurgeScan, DiscardCount, DiscardFile, Crash
  <2>2. PurgeReports
    BY <2>1 DEF Upload
  <2>3. purge.pc = "scan" /\ purge.found \subseteq purge.kept
    BY <2>2 DEF PurgeReports
  <2> QED
    BY <2>3 DEF PurgeInv, ToUnlink, Deletes
<1> QED
  BY <1>1, PurgeInvariant, PTL DEF Spec, ReportedPurgeIsWhole

==============================================================================
