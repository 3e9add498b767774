------------------------ MODULE ReportPipelineProofs ------------------------
(***************************************************************************)
(* ReportPipeline, proved for all values of its constants: its types, and  *)
(* that nothing is lost: no report is forgotten, none is SENT unsent, and  *)
(* every blob a Report or a MediaAsset row names is in the store.  Reports *)
(* and files share one behaviour here, which the run keeps apart.          *)
(***************************************************************************)
EXTENDS ReportPipeline, TLAPS

-----------------------------------------------------------------------------
(* The inductive invariant.                                                *)

\* A slot works its own queue, and one that does not wait has a report.
SlotAt(w) ==
  /\ worker[w].pc = "idle" => worker[w] = Free
  /\ worker[w].pc # "idle" => worker[w].report \in Reports
  /\ w \in Generators => /\ worker[w].pc \in {"idle", "upload", "mark", "enqueue", "fail"}
                         /\ worker[w].tries \in GenerateTries
  /\ w \in Senders => /\ worker[w].pc \in {"idle", "fetch", "mail", "notify"}
                      /\ worker[w].tries \in SendTries
SlotsOK == \A w \in Workers : SlotAt(w)

\* A report is generated by one job at a time, waiting or at work: it was
\* queued once, by the call that created it.
OneJob(r) ==
  /\ \A t, u \in GenerateTries : generate[r][t] > 0 /\ generate[r][u] > 0 => t = u
  /\ \A t \in GenerateTries : generate[r][t] \in {0, 1}
  /\ \A t \in GenerateTries, w \in Generators : generate[r][t] > 0 => worker[w].report # r
  /\ \A v, w \in Generators : worker[v].report = r /\ worker[w].report = r => v = w
OneJobEach == \A r \in Reports : OneJob(r)

\* Until its creator is done a report has no job, no key and no blob, and then
\* its key comes with the status that follows the upload.
RowAt(r) ==
  /\ creator[r] # "done" => ~BeingWritten(r) /\ ~report[r].keyed /\ blob[r] = "none"
  /\ creator[r] = "enqueue" => report[r].status = "PENDING"
  /\ report[r].status \in Ready => report[r].keyed
  /\ report[r].keyed => report[r].status \in {"GENERATED", "SENT", "FAILED"}
RowsOK == \A r \in Reports : RowAt(r)

\* A generator has not stored the key until it has the blob; the blob stays
\* young while it works; a job that will be skipped was cut short before.
GeneratingAt(r) ==
  /\ \A w \in Generators : worker[w].report = r =>
       /\ worker[w].pc \in {"upload", "mark"} => ~report[r].keyed
       /\ worker[w].pc = "mark" => blob[r] = "young"
       /\ worker[w].pc = "enqueue" => report[r].keyed
  /\ \A t \in GenerateTries : generate[r][t] > 0 /\ report[r].status # "PENDING" => r \in cut
  /\ blob[r] = "old" => ~BeingWritten(r)
GeneratingOK == \A r \in Reports : GeneratingAt(r)

\* Only what has a key is queued to be sent, and the mails go out in order.
SendingAt(r) ==
  /\ \A t \in SendTries : send[r][t] > 0 => report[r].keyed
  /\ \A q \in Resends : resend[q].pc = "enqueue" /\ resend[q].report = r => report[r].keyed
  /\ \A w \in Senders : worker[w].report = r =>
       /\ report[r].keyed
       /\ worker[w].next >= 1
       /\ worker[w].pc = "mail" => mailed[r] >= worker[w].next - 1
       /\ worker[w].pc = "fetch" => worker[w].next = 1
       /\ worker[w].pc = "notify" => report[r].status \in {"SENT", "FAILED"}
SendingOK ==
  /\ \A r \in Reports : SendingAt(r)
  /\ \A q \in Resends : resend[q].pc = "enqueue" => resend[q].report \in Reports

\* A report the sweep does not know was not keyed when the sweep began: what
\* got its key since is young, and what it found old is finished with.
SweptReportAt(r) ==
  sweep.pc # "idle" /\ r \notin sweep.known =>
    /\ sweep.pc = "read" /\ report[r].keyed => blob[r] = "young"
    /\ r \in sweep.listed => ~report[r].keyed /\ ~BeingWritten(r) /\ creator[r] = "done"
SweptReportsOK == \A r \in Reports : SweptReportAt(r)

\* The blob precedes the row.
FileAt(f) ==
  /\ upload[f] = "idle" => blob[f] = "none"
  /\ upload[f] = "row" => blob[f] = "young"
  /\ f \in row => upload[f] = "done"
FilesOK == \A f \in Files : FileAt(f)

\* A file the sweep found old was uploaded long ago; one it does not know
\* had no row when the rows were read, or is young.
SweptFileAt(f) ==
  sweep.pc # "idle" =>
    /\ f \in sweep.listed => upload[f] = "done"
    /\ "media" \notin sweep.unread /\ f \in row /\ f \in Media /\ f \notin sweep.known =>
         f \notin sweep.listed /\ (sweep.pc = "read" => blob[f] # "old")
SweptFilesOK ==
  /\ \A f \in Files : SweptFileAt(f)
  /\ sweep.pc # "read" => sweep.unread = {}

\* A deletion has a file at hand, found in its row, when it deletes the blob.
DeletionAt(d) ==
  /\ deletion[d].pc \in {"blob", "row"} => deletion[d].file \in Media
  /\ deletion[d].pc = "blob" => upload[deletion[d].file] = "done"
DeletionsOK == \A d \in Deletions : DeletionAt(d)

\* The two halves of NamedBlobKept.
ReportBlobsKept == \A r \in Reports : report[r].keyed => blob[r] # "none"
FileBlobsKept == \A f \in row \cap Media :
  blob[f] # "none" \/ \E d \in Deletions : f \in deletion[d].begun

\* What holds of the reports, and what holds of the files.
ReportsInv ==
  /\ SlotsOK /\ OneJobEach /\ RowsOK /\ GeneratingOK /\ SendingOK
  /\ SweptReportsOK /\ NoReportForgotten /\ SentWasMailed /\ ReportBlobsKept
LibraryInv == FilesOK /\ SweptFilesOK /\ DeletionsOK /\ FileBlobsKept

IInv == TypeOK /\ ReportsInv /\ LibraryInv

\* The invariant gives the property that is checked.
LEMMA InvariantGives == IInv => NothingIsLost
  BY DEF IInv, ReportsInv, LibraryInv, ReportBlobsKept, FileBlobsKept, NothingIsLost, NamedBlobKept

\* It holds when nothing has been called yet.
LEMMA InitHolds == ASSUME ConstantsAssumption, Init PROVE IInv
  <1> USE DEF ConstantsAssumption, Init, Free, NoDeletion, NoSweep
  <1>1. TypeOK
    <2>1. report \in [Reports -> [status : Status, keyed : BOOLEAN]]
      BY DEF Status
    <2>2. generate \in [Reports -> [GenerateTries -> Nat]] /\ send \in [Reports -> [SendTries -> Nat]]
      OBVIOUS
    <2>3. worker \in [Workers -> Attempt]
      BY DEF Attempt, Workers, GenerateTries, SendTries
    <2>4. deletion \in [Deletions -> Deletion] /\ sweep \in Sweep
      BY DEF Deletion, Sweep
    <2>5. mailed \in [Reports -> 0 .. Recipients]
      OBVIOUS
    <2>6. resend \in [Resends -> [pc : {"idle", "enqueue", "done"}, report : Reports \cup {None}]]
      OBVIOUS
    <2> HIDE DEF Free, NoDeletion, NoSweep
    <2> QED BY <2>1, <2>2, <2>3, <2>4, <2>5, <2>6 DEF TypeOK
  <1>2. SlotsOK
    BY DEF SlotsOK, SlotAt, GenerateTries, SendTries
  <1>3. OneJobEach /\ RowsOK /\ GeneratingOK
    BY
       DEF OneJobEach, OneJob, RowsOK, RowAt, GeneratingOK, GeneratingAt, BeingWritten, Keys,
           Workers, Ready
  <1>4. SendingOK /\ SweptReportsOK
    BY DEF SendingOK, SendingAt, SweptReportsOK, SweptReportAt, Keys, Workers
  <1>5. NoReportForgotten /\ SentWasMailed /\ ReportBlobsKept
    BY DEF NoReportForgotten, SentWasMailed, ReportBlobsKept
  <1>6. LibraryInv
    BY DEF LibraryInv, FilesOK, FileAt, SweptFilesOK, SweptFileAt, DeletionsOK, DeletionAt,
           FileBlobsKept, Keys
  <1> QED BY <1>1, <1>2, <1>3, <1>4, <1>5, <1>6 DEF IInv, ReportsInv

-----------------------------------------------------------------------------
(* Frames.                                                                 *)

\* A report is being written by its jobs, waiting or at work.
LEMMA BeingWrittenReport ==
  ASSUME NEW r \in Reports
  PROVE /\ BeingWritten(r) <=> \/ \E t \in GenerateTries : generate[r][t] > 0
                               \/ \E w \in Generators : worker[w].report = r
        /\ BeingWritten(r)' <=> \/ \E t \in GenerateTries : generate'[r][t] > 0
                                \/ \E w \in Generators : worker'[w].report = r
  BY DEF BeingWritten

\* What touches files only keeps what holds of the reports.
LEMMA ReportsFrame ==
  ASSUME ReportsInv, UNCHANGED <<pipeline, sweep>>, \A r \in Reports : blob'[r] = blob[r]
  PROVE ReportsInv'
  <1> USE DEF pipeline
  <1>1. SlotsOK' /\ OneJobEach'
    BY DEF ReportsInv, SlotsOK, SlotAt, OneJobEach, OneJob
  <1>2. RowsOK'
    BY BeingWrittenReport DEF ReportsInv, RowsOK, RowAt
  <1>3. GeneratingOK'
    BY BeingWrittenReport DEF ReportsInv, GeneratingOK, GeneratingAt
  <1>4. SendingOK'
    BY DEF ReportsInv, SendingOK, SendingAt
  <1>5. SweptReportsOK'
    BY BeingWrittenReport DEF ReportsInv, SweptReportsOK, SweptReportAt
  <1>6. NoReportForgotten' /\ SentWasMailed' /\ ReportBlobsKept'
    BY DEF ReportsInv, NoReportForgotten, InHand, GivenUp, SentWasMailed, ReportBlobsKept
  <1> QED BY <1>1, <1>2, <1>3, <1>4, <1>5, <1>6 DEF ReportsInv

\* What touches reports only keeps what holds of the files.
LEMMA LibraryFrame ==
  ASSUME LibraryInv, UNCHANGED <<library, sweep>>, \A f \in Files : blob'[f] = blob[f]
  PROVE LibraryInv'
  BY DEF LibraryInv, FilesOK, FileAt, SweptFilesOK, SweptFileAt, DeletionsOK, DeletionAt,
         FileBlobsKept, library, Files

-----------------------------------------------------------------------------
(* What the changes to a slot, a queue and a row amount to.                *)

Steps == {"idle", "upload", "mark", "enqueue", "fail", "fetch", "mail", "notify"}

\* A slot that goes on keeps its report and its tries; the others stay.
LEMMA Moved ==
  ASSUME TypeOK, NEW w \in Workers, NEW pc \in Steps, worker' = [worker EXCEPT ![w].pc = pc]
  PROVE /\ worker' \in [Workers -> Attempt]
        /\ worker'[w].pc = pc /\ worker'[w].report = worker[w].report
        /\ worker'[w].tries = worker[w].tries /\ worker'[w].next = worker[w].next
        /\ \A v \in Workers : v # w => worker'[v] = worker[v]
  <1>1. worker[w] \in Attempt /\ worker \in [Workers -> Attempt]
    BY DEF TypeOK
  <1>2. [worker[w] EXCEPT !.pc = pc] \in Attempt
    BY <1>1 DEF Attempt, Steps
  <1> QED BY <1>1, <1>2 DEF Attempt

\* A slot that is given an attempt has it; the others stay.
LEMMA Given ==
  ASSUME TypeOK, NEW w \in Workers, NEW a \in Attempt, worker' = [worker EXCEPT ![w] = a]
  PROVE /\ worker' \in [Workers -> Attempt]
        /\ worker'[w] = a
        /\ \A v \in Workers : v # w => worker'[v] = worker[v]
  BY DEF TypeOK

\* A free slot is an attempt at nothing.
LEMMA FreeSlot ==
  ASSUME ConstantsAssumption
  PROVE Free \in Attempt /\ Free.pc = "idle" /\ Free.report \notin Reports /\ Free.tries = 0
  BY DEF Free, Attempt, ConstantsAssumption, GenerateTries, SendTries, Keys

\* A row's status changes and its key stays; the other rows stay.
LEMMA Marked ==
  ASSUME TypeOK, NEW r \in Reports, NEW st \in Status, report' = [report EXCEPT ![r].status = st]
  PROVE /\ report' \in [Reports -> [status : Status, keyed : BOOLEAN]]
        /\ report'[r].status = st /\ report'[r].keyed = report[r].keyed
        /\ \A s \in Reports : s # r => report'[s] = report[s]
  BY DEF TypeOK

-----------------------------------------------------------------------------
(* A report, its generation and its mails. *)

\* CreateReport keeps the invariant.
LEMMA CreateReportKeeps ==
  ASSUME ConstantsAssumption, IInv, NEW r \in Reports, CreateReport(r)
  PROVE IInv'
  <1> USE ConstantsAssumption DEF IInv, ReportsInv
  <1>1. /\ report' \in [Reports -> [status : Status, keyed : BOOLEAN]]
        /\ report'[r].status = "PENDING" /\ report'[r].keyed = report[r].keyed
        /\ \A s \in Reports : s # r => report'[s] = report[s]
    BY Marked DEF Status, CreateReport
  <1>2. /\ creator' \in [Reports -> {"idle", "enqueue", "done"}] /\ creator'[r] = "enqueue"
        /\ \A s \in Reports : s # r => creator'[s] = creator[s]
    BY DEF TypeOK, CreateReport
  <1>3. TypeOK'
    BY <1>1, <1>2 DEF CreateReport, TypeOK, library
  <1>4. RowsOK'
    BY <1>1, <1>2, BeingWrittenReport DEF CreateReport, RowsOK, RowAt, Ready
  <1>5. GeneratingOK'
    BY <1>1, <1>2, BeingWrittenReport DEF CreateReport, GeneratingOK, GeneratingAt, Ready
  <1>6. SendingOK'
    BY <1>1, <1>2 DEF CreateReport, SendingOK, SendingAt, RowsOK, RowAt, Ready
  <1>7. SweptReportsOK'
    BY <1>1, <1>2, BeingWrittenReport DEF CreateReport, SweptReportsOK, SweptReportAt, Ready
  <1>8. NoReportForgotten'
    BY <1>1, <1>2 DEF CreateReport, NoReportForgotten, InHand, GivenUp, Ready
  <1>9. SentWasMailed'
    BY <1>1, <1>2 DEF CreateReport, SentWasMailed, Ready
  <1>10. ReportBlobsKept'
    BY <1>1, <1>2 DEF CreateReport, ReportBlobsKept, Ready
  <1>11. SlotsOK' /\ OneJobEach'
    BY DEF CreateReport, SlotsOK, SlotAt, OneJobEach, OneJob
  <1>12. LibraryInv'
    BY LibraryFrame DEF CreateReport
  <1> QED BY <1>3, <1>4, <1>5, <1>6, <1>7, <1>8, <1>9, <1>10, <1>11, <1>12

\* EnqueueGenerate keeps the invariant.
LEMMA EnqueueGenerateKeeps ==
  ASSUME ConstantsAssumption, IInv, NEW r \in Reports, EnqueueGenerate(r)
  PROVE IInv'
  <1> USE ConstantsAssumption DEF IInv, ReportsInv
  <1>1. 0 \in GenerateTries
    BY DEF GenerateTries, EnqueueGenerate
  <1>2. /\ generate' \in [Reports -> [GenerateTries -> Nat]] /\ generate'[r][0] = generate[r][0] + 1
        /\ \A s \in Reports, u \in GenerateTries : <<s, u>> # <<r, 0>> => generate'[s][u] = generate[s][u]
    BY <1>1 DEF TypeOK, EnqueueGenerate
  <1>3. /\ creator' \in [Reports -> {"idle", "enqueue", "done"}] /\ creator'[r] = "done"
        /\ \A s \in Reports : s # r => creator'[s] = creator[s]
    BY DEF TypeOK, EnqueueGenerate
  <1>4. TypeOK'
    BY <1>1, <1>2, <1>3 DEF EnqueueGenerate, TypeOK, library
  <1>5. OneJobEach'
    BY <1>1, <1>2, <1>3, BeingWrittenReport DEF EnqueueGenerate, OneJobEach, OneJob, RowsOK, RowAt
  <1>6. RowsOK'
    BY <1>1, <1>2, <1>3, BeingWrittenReport DEF EnqueueGenerate, RowsOK, RowAt
  <1>7. GeneratingOK'
    BY <1>1, <1>2, <1>3, BeingWrittenReport
       DEF EnqueueGenerate, GeneratingOK, GeneratingAt, RowsOK, RowAt
  <1>8. SweptReportsOK'
    BY <1>1, <1>2, <1>3, BeingWrittenReport DEF EnqueueGenerate, SweptReportsOK, SweptReportAt
  <1>9. NoReportForgotten'
    <2>1. InHand(r)'
      BY <1>1, <1>2 DEF InHand, TypeOK
    <2>2. \A s \in Reports : s # r => (InHand(s)' <=> InHand(s)) /\ (GivenUp(s)' <=> GivenUp(s))
      BY <1>2, <1>3 DEF EnqueueGenerate, InHand, GivenUp
    <2> QED BY <2>1, <2>2 DEF EnqueueGenerate, NoReportForgotten
  <1>10. SlotsOK' /\ SendingOK' /\ SentWasMailed' /\ ReportBlobsKept'
    BY DEF EnqueueGenerate, SlotsOK, SlotAt, SendingOK, SendingAt, SentWasMailed, ReportBlobsKept
  <1>11. LibraryInv'
    BY LibraryFrame DEF EnqueueGenerate
  <1> QED BY <1>4, <1>5, <1>6, <1>7, <1>8, <1>9, <1>10, <1>11

\* CreatorStops keeps the invariant.
LEMMA CreatorStopsKeeps ==
  ASSUME ConstantsAssumption, IInv, NEW r \in Reports, CreatorStops(r)
  PROVE IInv'
  <1> USE ConstantsAssumption DEF IInv, ReportsInv
  <1>1. /\ creator' \in [Reports -> {"idle", "enqueue", "done"}] /\ creator'[r] = "done"
        /\ \A s \in Reports : s # r => creator'[s] = creator[s]
    BY DEF TypeOK, CreatorStops
  <1>2. TypeOK'
    BY <1>1 DEF CreatorStops, TypeOK, library
  <1>3. RowsOK'
    BY <1>1, BeingWrittenReport DEF CreatorStops, RowsOK, RowAt
  <1>4. GeneratingOK'
    BY <1>1, BeingWrittenReport DEF CreatorStops, GeneratingOK, GeneratingAt
  <1>5. SweptReportsOK'
    BY <1>1, BeingWrittenReport DEF CreatorStops, SweptReportsOK, SweptReportAt
  <1>6. NoReportForgotten'
    BY <1>1 DEF CreatorStops, NoReportForgotten, InHand, GivenUp
  <1>7. SlotsOK' /\ OneJobEach' /\ SendingOK' /\ SentWasMailed' /\ ReportBlobsKept'
    BY
       DEF CreatorStops, SlotsOK, SlotAt, OneJobEach, OneJob, SendingOK, SendingAt, SentWasMailed,
           ReportBlobsKept
  <1>8. LibraryInv'
    BY LibraryFrame DEF CreatorStops
  <1> QED BY <1>2, <1>3, <1>4, <1>5, <1>6, <1>7, <1>8

\* StartGenerate keeps the invariant.
LEMMA StartGenerateKeeps ==
  ASSUME ConstantsAssumption, IInv, NEW w \in Generators, NEW r \in Reports, NEW t \in GenerateTries, StartGenerate(w, r, t)
  PROVE IInv'
  <1> USE ConstantsAssumption DEF IInv, ReportsInv
  <1>1. /\ generate' \in [Reports -> [GenerateTries -> Nat]] /\ generate'[r][t] = generate[r][t] - 1
        /\ \A s \in Reports, u \in GenerateTries : <<s, u>> # <<r, t>> => generate'[s][u] = generate[s][u]
    BY DEF TypeOK, StartGenerate
  <1>2. [pc |-> "upload", report |-> r, tries |-> t, next |-> 0] \in Attempt
    BY DEF Attempt, ConstantsAssumption, GenerateTries, SendTries, StartGenerate
  <1>3. /\ worker' \in [Workers -> Attempt]
        /\ worker'[w] = IF report[r].status = "PENDING"
                        THEN [pc |-> "upload", report |-> r, tries |-> t, next |-> 0] ELSE Free
        /\ \A v \in Workers : v # w => worker'[v] = worker[v]
    BY <1>2, Given, FreeSlot DEF Workers, StartGenerate
  <1>4. TypeOK'
    BY <1>1, <1>2, <1>3 DEF StartGenerate, TypeOK, library
  <1>5. SlotsOK'
    BY <1>1, <1>2, <1>3, FreeSlot DEF StartGenerate, SlotsOK, SlotAt, Workers
  <1>6. OneJobEach'
    BY <1>1, <1>2, <1>3, FreeSlot DEF StartGenerate, OneJobEach, OneJob, Workers
  <1>7. RowsOK'
    BY <1>1, <1>2, <1>3, BeingWrittenReport, FreeSlot DEF StartGenerate, RowsOK, RowAt, Workers
  <1>8. GeneratingOK'
    BY <1>1, <1>2, <1>3, BeingWrittenReport, FreeSlot
       DEF StartGenerate, GeneratingOK, GeneratingAt, RowsOK, RowAt, Workers
  <1>9. SendingOK'
    BY <1>1, <1>2, <1>3, FreeSlot DEF StartGenerate, SendingOK, SendingAt, Workers
  <1>10. SweptReportsOK'
    BY <1>1, <1>2, <1>3, BeingWrittenReport, FreeSlot
       DEF StartGenerate, SweptReportsOK, SweptReportAt, Workers
  <1>11. NoReportForgotten'
    <2>1. \A s \in Reports : s # r /\ InHand(s) => InHand(s)'
      BY <1>1, <1>3, FreeSlot DEF StartGenerate, InHand, SlotsOK, SlotAt, Workers
    <2>2. CASE report[r].status = "PENDING"
      <3>1. InHand(r)'
        BY <1>3, <2>2 DEF InHand, Workers
      <3> QED BY <2>1, <3>1 DEF StartGenerate, NoReportForgotten, GivenUp
    <2>3. CASE report[r].status # "PENDING"
      BY <2>1, <2>3 DEF StartGenerate, NoReportForgotten, GivenUp, GeneratingOK, GeneratingAt
    <2> QED BY <2>2, <2>3
  <1>12. SentWasMailed' /\ ReportBlobsKept'
    BY DEF StartGenerate, SentWasMailed, ReportBlobsKept
  <1>13. LibraryInv'
    BY LibraryFrame DEF StartGenerate
  <1> QED BY <1>4, <1>5, <1>6, <1>7, <1>8, <1>9, <1>10, <1>11, <1>12, <1>13

\* UploadPdf keeps the invariant.
LEMMA UploadPdfKeeps ==
  ASSUME ConstantsAssumption, IInv, NEW w \in Generators, UploadPdf(w)
  PROVE IInv'
  <1> USE ConstantsAssumption DEF IInv, ReportsInv
  <1>1. w \in Workers /\ worker[w].report \in Reports
    BY DEF SlotsOK, SlotAt, Workers, UploadPdf
  <1>2. /\ worker' \in [Workers -> Attempt] /\ worker'[w].pc \in {"mark", "fail"}
        /\ worker'[w].report = worker[w].report
        /\ worker'[w].tries = worker[w].tries /\ worker'[w].next = worker[w].next
        /\ \A v \in Workers : v # w => worker'[v] = worker[v]
    BY <1>1, Moved DEF Onward, Steps, UploadPdf
  <1>3. /\ blob' \in [Keys -> {"none", "young", "old"}] /\ blob'[worker[w].report] = "young"
        /\ \A k \in Keys : k # worker[w].report => blob'[k] = blob[k]
    BY <1>1 DEF TypeOK, Keys, UploadPdf
  <1>4. TypeOK'
    BY <1>1, <1>2, <1>3 DEF UploadPdf, TypeOK, library
  <1>5. SlotsOK'
    BY <1>1, <1>2, <1>3, FreeSlot DEF UploadPdf, SlotsOK, SlotAt, Workers, Keys
  <1>6. OneJobEach'
    BY <1>1, <1>2, <1>3, FreeSlot DEF UploadPdf, OneJobEach, OneJob, Workers, Keys
  <1>7. RowsOK'
    BY <1>1, <1>2, <1>3, BeingWrittenReport, FreeSlot DEF UploadPdf, RowsOK, RowAt, Workers, Keys
  <1>8. GeneratingOK'
    BY <1>1, <1>2, <1>3, BeingWrittenReport, FreeSlot
       DEF UploadPdf, GeneratingOK, GeneratingAt, Workers, Keys
  <1>9. SendingOK'
    BY <1>1, <1>2, <1>3, FreeSlot DEF UploadPdf, SendingOK, SendingAt, Workers, Keys
  <1>10. SweptReportsOK'
    BY <1>1, <1>2, <1>3, BeingWrittenReport, FreeSlot
       DEF UploadPdf, SweptReportsOK, SweptReportAt, Workers, Keys
  <1>11. NoReportForgotten'
    BY <1>1, <1>2, <1>3, FreeSlot DEF UploadPdf, NoReportForgotten, InHand, GivenUp, Workers, Keys
  <1>12. ReportBlobsKept'
    BY <1>1, <1>2, <1>3, FreeSlot DEF UploadPdf, ReportBlobsKept, Workers, Keys
  <1>13. SentWasMailed'
    BY DEF UploadPdf, SentWasMailed
  <1>14. LibraryInv'
    BY <1>1, <1>3, LibraryFrame DEF UploadPdf, ConstantsAssumption, Keys
  <1> QED BY <1>4, <1>5, <1>6, <1>7, <1>8, <1>9, <1>10, <1>11, <1>12, <1>13, <1>14

\* MarkGenerated keeps the invariant.
LEMMA MarkGeneratedKeeps ==
  ASSUME ConstantsAssumption, IInv, NEW w \in Generators, MarkGenerated(w)
  PROVE IInv'
  <1> USE ConstantsAssumption DEF IInv, ReportsInv
  <1>1. w \in Workers /\ worker[w].report \in Reports
    BY DEF SlotsOK, SlotAt, Workers, MarkGenerated
  <1>2. /\ worker' \in [Workers -> Attempt] /\ worker'[w].pc \in {"enqueue", "fail"}
        /\ worker'[w].report = worker[w].report
        /\ worker'[w].tries = worker[w].tries /\ worker'[w].next = worker[w].next
        /\ \A v \in Workers : v # w => worker'[v] = worker[v]
    BY <1>1, Moved DEF Onward, Steps, MarkGenerated
  <1>3. /\ report' \in [Reports -> [status : Status, keyed : BOOLEAN]]
        /\ report'[worker[w].report] = [status |-> "GENERATED", keyed |-> TRUE]
        /\ \A s \in Reports : s # worker[w].report => report'[s] = report[s]
    BY <1>1 DEF TypeOK, Status, MarkGenerated
  <1>4. TypeOK'
    BY <1>1, <1>2, <1>3 DEF MarkGenerated, TypeOK, library
  <1>5. SlotsOK'
    BY <1>1, <1>2, <1>3, FreeSlot DEF MarkGenerated, SlotsOK, SlotAt, Workers, Ready
  <1>6. OneJobEach'
    BY <1>1, <1>2, <1>3, FreeSlot DEF MarkGenerated, OneJobEach, OneJob, Workers, Ready
  <1>7. RowsOK'
    BY <1>1, <1>2, <1>3, BeingWrittenReport, FreeSlot
       DEF MarkGenerated, RowsOK, RowAt, Workers, Ready
  <1>8. GeneratingOK'
    BY <1>1, <1>2, <1>3, BeingWrittenReport, FreeSlot
       DEF MarkGenerated, GeneratingOK, GeneratingAt, OneJobEach, OneJob, Workers, Ready
  <1>9. SendingOK'
    BY <1>1, <1>2, <1>3, FreeSlot
       DEF MarkGenerated, SendingOK, SendingAt, GeneratingOK, GeneratingAt, Workers, Ready
  <1>10. SweptReportsOK'
    BY <1>1, <1>2, <1>3, BeingWrittenReport, FreeSlot
       DEF MarkGenerated, SweptReportsOK, SweptReportAt, GeneratingOK, GeneratingAt, Workers,
           Ready
  <1>11. NoReportForgotten'
    BY <1>1, <1>2, <1>3, FreeSlot
       DEF MarkGenerated, NoReportForgotten, InHand, GivenUp, Workers, Ready
  <1>12. SentWasMailed'
    BY <1>1, <1>2, <1>3, FreeSlot DEF MarkGenerated, SentWasMailed, Workers, Ready
  <1>13. ReportBlobsKept'
    BY <1>1, <1>2, <1>3, FreeSlot
       DEF MarkGenerated, ReportBlobsKept, GeneratingOK, GeneratingAt, Workers, Ready
  <1>14. LibraryInv'
    BY LibraryFrame DEF MarkGenerated
  <1> QED BY <1>4, <1>5, <1>6, <1>7, <1>8, <1>9, <1>10, <1>11, <1>12, <1>13, <1>14

\* EnqueueSend keeps the invariant.
LEMMA EnqueueSendKeeps ==
  ASSUME ConstantsAssumption, IInv, NEW w \in Generators, EnqueueSend(w)
  PROVE IInv'
  <1> USE ConstantsAssumption DEF IInv, ReportsInv
  <1>1. w \in Workers /\ worker[w].report \in Reports
    BY DEF SlotsOK, SlotAt, Workers, EnqueueSend
  <1>2. /\ send' \in [Reports -> [SendTries -> Nat]]
        /\ send'[worker[w].report][0] = send[worker[w].report][0] + 1
        /\ \A s \in Reports, u \in SendTries : <<s, u>> # <<worker[w].report, 0>> => send'[s][u] = send[s][u]
    <2>1. 0 \in SendTries /\ send \in [Reports -> [SendTries -> Nat]]
      BY DEF TypeOK, SendTries
    <2>2. send' = [send EXCEPT ![worker[w].report][0] = @ + 1]
      BY DEF EnqueueSend
    <2> QED BY <1>1, <2>1, <2>2
  <1>3. worker' \in [Workers -> Attempt] /\ \A v \in Workers : v # w => worker'[v] = worker[v]
    BY <1>1, Moved, Given, FreeSlot DEF Steps, EnqueueSend
  <1>4. \/ worker'[w] = Free
        \/ worker'[w].pc = "fail" /\ worker'[w].report = worker[w].report
           /\ worker'[w].tries = worker[w].tries
    BY <1>1, Moved, Given, FreeSlot DEF Steps, EnqueueSend
  <1>5. TypeOK'
    BY <1>1, <1>2, <1>3, <1>4 DEF EnqueueSend, TypeOK, library
  <1>6. SlotsOK'
    BY <1>1, <1>2, <1>3, <1>4, FreeSlot
       DEF EnqueueSend, SlotsOK, SlotAt, ConstantsAssumption, GenerateTries, Workers
  <1>7. OneJobEach'
    BY <1>1, <1>2, <1>3, <1>4, FreeSlot DEF EnqueueSend, OneJobEach, OneJob, Workers
  <1>8. RowsOK'
    BY <1>1, <1>2, <1>3, <1>4, BeingWrittenReport, FreeSlot DEF EnqueueSend, RowsOK, RowAt, Workers
  <1>9. GeneratingOK'
    BY <1>1, <1>2, <1>3, <1>4, BeingWrittenReport, FreeSlot
       DEF EnqueueSend, GeneratingOK, GeneratingAt, Workers
  <1>10. SendingOK'
    BY <1>1, <1>2, <1>3, <1>4, FreeSlot
       DEF EnqueueSend, SendingOK, SendingAt, GeneratingOK, GeneratingAt, Workers
  <1>11. SweptReportsOK'
    BY <1>1, <1>2, <1>3, <1>4, BeingWrittenReport, FreeSlot
       DEF EnqueueSend, SweptReportsOK, SweptReportAt, Workers
  <1>12. NoReportForgotten'
    <2> PICK r \in Reports : r = worker[w].report
      BY <1>1
    <2>1. InHand(r)'
      BY <1>2 DEF InHand, TypeOK, SendTries
    <2>2. \A s \in Reports : s # r /\ InHand(s) => InHand(s)'
      BY <1>2, <1>3 DEF EnqueueSend, InHand
    <2> QED BY <2>1, <2>2 DEF EnqueueSend, NoReportForgotten, GivenUp
  <1>13. SentWasMailed' /\ ReportBlobsKept'
    BY DEF EnqueueSend, SentWasMailed, ReportBlobsKept
  <1>14. LibraryInv'
    BY LibraryFrame DEF EnqueueSend
  <1> QED BY <1>5, <1>6, <1>7, <1>8, <1>9, <1>10, <1>11, <1>12, <1>13, <1>14

\* GenerateThrows keeps the invariant.
LEMMA GenerateThrowsKeeps ==
  ASSUME ConstantsAssumption, IInv, NEW w \in Generators, GenerateThrows(w)
  PROVE IInv'
  <1> USE ConstantsAssumption DEF IInv, ReportsInv
  <1>1. w \in Workers /\ worker[w].report \in Reports
    BY DEF SlotsOK, SlotAt, Workers, GenerateThrows
  <1>2. /\ worker' \in [Workers -> Attempt] /\ worker'[w].pc = "fail"
        /\ worker'[w].report = worker[w].report
        /\ worker'[w].tries = worker[w].tries /\ worker'[w].next = worker[w].next
        /\ \A v \in Workers : v # w => worker'[v] = worker[v]
    BY <1>1, Moved DEF Steps, GenerateThrows
  <1>3. TypeOK'
    BY <1>1, <1>2 DEF GenerateThrows, TypeOK, library
  <1>4. SlotsOK'
    BY <1>1, <1>2, FreeSlot DEF GenerateThrows, SlotsOK, SlotAt, Workers
  <1>5. OneJobEach'
    BY <1>1, <1>2, FreeSlot DEF GenerateThrows, OneJobEach, OneJob, Workers
  <1>6. RowsOK'
    BY <1>1, <1>2, BeingWrittenReport, FreeSlot DEF GenerateThrows, RowsOK, RowAt, Workers
  <1>7. GeneratingOK'
    BY <1>1, <1>2, BeingWrittenReport, FreeSlot
       DEF GenerateThrows, GeneratingOK, GeneratingAt, Workers
  <1>8. SendingOK'
    BY <1>1, <1>2, FreeSlot DEF GenerateThrows, SendingOK, SendingAt, Workers
  <1>9. SweptReportsOK'
    BY <1>1, <1>2, BeingWrittenReport, FreeSlot
       DEF GenerateThrows, SweptReportsOK, SweptReportAt, Workers
  <1>10. NoReportForgotten'
    BY <1>1, <1>2, FreeSlot DEF GenerateThrows, NoReportForgotten, InHand, GivenUp, Workers
  <1>11. SentWasMailed' /\ ReportBlobsKept'
    BY DEF GenerateThrows, SentWasMailed, ReportBlobsKept
  <1>12. LibraryInv'
    BY LibraryFrame DEF GenerateThrows
  <1> QED BY <1>3, <1>4, <1>5, <1>6, <1>7, <1>8, <1>9, <1>10, <1>11, <1>12

\* MarkFailed keeps the invariant.
LEMMA MarkFailedKeeps ==
  ASSUME ConstantsAssumption, IInv, NEW w \in Generators, MarkFailed(w)
  PROVE IInv'
  <1> USE ConstantsAssumption DEF IInv, ReportsInv
  <1>1. w \in Workers /\ worker[w].report \in Reports
    BY DEF SlotsOK, SlotAt, Workers, MarkFailed
  <1>2. /\ worker' \in [Workers -> Attempt] /\ worker'[w] = Free
        /\ \A v \in Workers : v # w => worker'[v] = worker[v]
    BY <1>1, Given, FreeSlot DEF MarkFailed
  <1>3. /\ report' \in [Reports -> [status : Status, keyed : BOOLEAN]]
        /\ report'[worker[w].report].status = "FAILED" /\ report'[worker[w].report].keyed = report[worker[w].report].keyed
        /\ \A s \in Reports : s # worker[w].report => report'[s] = report[s]
    BY <1>1, Marked DEF Status, MarkFailed
  <1>4. TypeOK'
    BY <1>1, <1>2, <1>3 DEF MarkFailed, TypeOK, library
  <1>5. SlotsOK'
    BY <1>1, <1>2, <1>3, FreeSlot
       DEF MarkFailed, SlotsOK, SlotAt, ConstantsAssumption, GenerateTries, Workers, Ready
  <1>6. OneJobEach'
    BY <1>1, <1>2, <1>3, FreeSlot DEF MarkFailed, OneJobEach, OneJob, Workers, Ready
  <1>7. RowsOK'
    BY <1>1, <1>2, <1>3, BeingWrittenReport, FreeSlot DEF MarkFailed, RowsOK, RowAt, Workers, Ready
  <1>8. GeneratingOK'
    BY <1>1, <1>2, <1>3, BeingWrittenReport, FreeSlot
       DEF MarkFailed, GeneratingOK, GeneratingAt, OneJobEach, OneJob, Workers, Ready
  <1>9. SendingOK'
    BY <1>1, <1>2, <1>3, FreeSlot DEF MarkFailed, SendingOK, SendingAt, Workers, Ready
  <1>10. SweptReportsOK'
    BY <1>1, <1>2, <1>3, BeingWrittenReport, FreeSlot
       DEF MarkFailed, SweptReportsOK, SweptReportAt, Workers, Ready
  <1>11. NoReportForgotten'
    BY <1>1, <1>2, <1>3, FreeSlot DEF MarkFailed, NoReportForgotten, InHand, GivenUp, Workers, Ready
  <1>12. SentWasMailed'
    BY <1>1, <1>2, <1>3, FreeSlot DEF MarkFailed, SentWasMailed, Workers, Ready
  <1>13. ReportBlobsKept'
    BY <1>1, <1>2, <1>3, FreeSlot DEF MarkFailed, ReportBlobsKept, Workers, Ready
  <1>14. LibraryInv'
    BY LibraryFrame DEF MarkFailed
  <1> QED BY <1>4, <1>5, <1>6, <1>7, <1>8, <1>9, <1>10, <1>11, <1>12, <1>13, <1>14

\* StartSend keeps the invariant.
LEMMA StartSendKeeps ==
  ASSUME ConstantsAssumption, IInv, NEW w \in Senders, NEW r \in Reports, NEW t \in SendTries, StartSend(w, r, t)
  PROVE IInv'
  <1> USE ConstantsAssumption DEF IInv, ReportsInv
  <1>1. /\ send' \in [Reports -> [SendTries -> Nat]] /\ send'[r][t] = send[r][t] - 1
        /\ \A s \in Reports, u \in SendTries : <<s, u>> # <<r, t>> => send'[s][u] = send[s][u]
    BY DEF TypeOK, StartSend
  <1>2. [pc |-> "fetch", report |-> r, tries |-> t, next |-> 1] \in Attempt
    BY DEF Attempt, ConstantsAssumption, GenerateTries, SendTries, StartSend
  <1>3. /\ worker' \in [Workers -> Attempt]
        /\ worker'[w] = IF report[r].status \in Ready /\ report[r].keyed
                        THEN [pc |-> "fetch", report |-> r, tries |-> t, next |-> 1] ELSE Free
        /\ \A v \in Workers : v # w => worker'[v] = worker[v]
    BY <1>2, Given, FreeSlot DEF Workers, StartSend
  <1>4. TypeOK'
    BY <1>1, <1>2, <1>3 DEF StartSend, TypeOK, library
  <1>5. SlotsOK'
    BY <1>1, <1>2, <1>3, FreeSlot DEF StartSend, SlotsOK, SlotAt, Workers, Ready
  <1>6. OneJobEach'
    BY <1>1, <1>2, <1>3, FreeSlot DEF StartSend, OneJobEach, OneJob, Workers, Ready
  <1>7. RowsOK'
    BY <1>1, <1>2, <1>3, BeingWrittenReport, FreeSlot DEF StartSend, RowsOK, RowAt, Workers, Ready
  <1>8. GeneratingOK'
    BY <1>1, <1>2, <1>3, BeingWrittenReport, FreeSlot
       DEF StartSend, GeneratingOK, GeneratingAt, Workers, Ready
  <1>9. SendingOK'
    BY <1>1, <1>2, <1>3, FreeSlot DEF StartSend, SendingOK, SendingAt, Workers, Ready
  <1>10. SweptReportsOK'
    BY <1>1, <1>2, <1>3, BeingWrittenReport, FreeSlot
       DEF StartSend, SweptReportsOK, SweptReportAt, Workers, Ready
  <1>11. NoReportForgotten'
    BY <1>1, <1>2, <1>3, FreeSlot
       DEF StartSend, NoReportForgotten, InHand, GivenUp, SendingOK, SendingAt, RowsOK, RowAt,
           Workers, Ready
  <1>12. SentWasMailed' /\ ReportBlobsKept'
    BY DEF StartSend, SentWasMailed, ReportBlobsKept
  <1>13. LibraryInv'
    BY LibraryFrame DEF StartSend
  <1> QED BY <1>4, <1>5, <1>6, <1>7, <1>8, <1>9, <1>10, <1>11, <1>12, <1>13

\* FetchPdf keeps the invariant.
LEMMA FetchPdfKeeps ==
  ASSUME ConstantsAssumption, IInv, NEW w \in Senders, FetchPdf(w)
  PROVE IInv'
  <1> USE ConstantsAssumption DEF IInv, ReportsInv
  <1>1. w \in Workers /\ worker[w].report \in Reports
    BY DEF SlotsOK, SlotAt, Workers, FetchPdf
  <1>2. /\ worker' \in [Workers -> Attempt] /\ worker'[w].pc = "mail"
        /\ worker'[w].report = worker[w].report
        /\ worker'[w].tries = worker[w].tries /\ worker'[w].next = worker[w].next
        /\ \A v \in Workers : v # w => worker'[v] = worker[v]
    BY <1>1, Moved DEF Steps, FetchPdf
  <1>3. TypeOK'
    BY <1>1, <1>2 DEF FetchPdf, TypeOK, library
  <1>4. SlotsOK'
    BY <1>1, <1>2, FreeSlot DEF FetchPdf, SlotsOK, SlotAt, Workers
  <1>5. OneJobEach'
    BY <1>1, <1>2, FreeSlot DEF FetchPdf, OneJobEach, OneJob, Workers
  <1>6. RowsOK'
    BY <1>1, <1>2, BeingWrittenReport, FreeSlot DEF FetchPdf, RowsOK, RowAt, Workers
  <1>7. GeneratingOK'
    BY <1>1, <1>2, BeingWrittenReport, FreeSlot DEF FetchPdf, GeneratingOK, GeneratingAt, Workers
  <1>8. SendingOK'
    BY <1>1, <1>2, FreeSlot DEF FetchPdf, SendingOK, SendingAt, TypeOK, Workers
  <1>9. SweptReportsOK'
    BY <1>1, <1>2, BeingWrittenReport, FreeSlot DEF FetchPdf, SweptReportsOK, SweptReportAt, Workers
  <1>10. NoReportForgotten'
    BY <1>1, <1>2, FreeSlot DEF FetchPdf, NoReportForgotten, InHand, GivenUp, Workers
  <1>11. SentWasMailed' /\ ReportBlobsKept'
    BY DEF FetchPdf, SentWasMailed, ReportBlobsKept
  <1>12. LibraryInv'
    BY LibraryFrame DEF FetchPdf
  <1> QED BY <1>3, <1>4, <1>5, <1>6, <1>7, <1>8, <1>9, <1>10, <1>11, <1>12

\* MarkSent keeps the invariant.
LEMMA MarkSentKeeps ==
  ASSUME ConstantsAssumption, IInv, NEW w \in Senders, MarkSent(w)
  PROVE IInv'
  <1> USE ConstantsAssumption DEF IInv, ReportsInv
  <1>1. w \in Workers /\ worker[w].report \in Reports
    BY DEF SlotsOK, SlotAt, Workers, MarkSent
  <1>2. /\ worker' \in [Workers -> Attempt] /\ worker'[w].pc = "notify"
        /\ worker'[w].report = worker[w].report
        /\ worker'[w].tries = worker[w].tries /\ worker'[w].next = worker[w].next
        /\ \A v \in Workers : v # w => worker'[v] = worker[v]
    BY <1>1, Moved DEF Steps, MarkSent
  <1>3. /\ report' \in [Reports -> [status : Status, keyed : BOOLEAN]]
        /\ report'[worker[w].report].status = "SENT" /\ report'[worker[w].report].keyed = report[worker[w].report].keyed
        /\ \A s \in Reports : s # worker[w].report => report'[s] = report[s]
    BY <1>1, Marked DEF Status, MarkSent
  <1>4. TypeOK'
    BY <1>1, <1>2, <1>3 DEF MarkSent, TypeOK, library
  <1>5. SlotsOK'
    BY <1>1, <1>2, <1>3, FreeSlot DEF MarkSent, SlotsOK, SlotAt, Workers, Ready
  <1>6. OneJobEach'
    BY <1>1, <1>2, <1>3, FreeSlot DEF MarkSent, OneJobEach, OneJob, Workers, Ready
  <1>7. RowsOK'
    BY <1>1, <1>2, <1>3, BeingWrittenReport, FreeSlot
       DEF MarkSent, RowsOK, RowAt, SendingOK, SendingAt, Workers, Ready
  <1>8. GeneratingOK'
    BY <1>1, <1>2, <1>3, BeingWrittenReport, FreeSlot
       DEF MarkSent, GeneratingOK, GeneratingAt, SendingOK, SendingAt, RowsOK, RowAt, Workers,
           Ready
  <1>9. SendingOK'
    BY <1>1, <1>2, <1>3, FreeSlot DEF MarkSent, SendingOK, SendingAt, Workers, Ready
  <1>10. SweptReportsOK'
    BY <1>1, <1>2, <1>3, BeingWrittenReport, FreeSlot
       DEF MarkSent, SweptReportsOK, SweptReportAt, Workers, Ready
  <1>11. NoReportForgotten'
    BY <1>1, <1>2, <1>3, FreeSlot DEF MarkSent, NoReportForgotten, InHand, GivenUp, Workers, Ready
  <1>12. SentWasMailed'
    <2>1. worker[w].next \in 0 .. Recipients + 1 /\ mailed[worker[w].report] \in 0 .. Recipients
      BY <1>1 DEF TypeOK, Attempt
    <2>2. mailed[worker[w].report] >= worker[w].next - 1 /\ worker[w].next > Recipients
      BY <1>1 DEF SendingOK, SendingAt, MarkSent
    <2>3. mailed[worker[w].report] = Recipients
      BY <2>1, <2>2
    <2> QED BY <1>3, <2>3 DEF MarkSent, SentWasMailed
  <1>13. ReportBlobsKept'
    BY <1>1, <1>2, <1>3, FreeSlot DEF MarkSent, ReportBlobsKept, Workers, Ready
  <1>14. LibraryInv'
    BY LibraryFrame DEF MarkSent
  <1> QED BY <1>4, <1>5, <1>6, <1>7, <1>8, <1>9, <1>10, <1>11, <1>12, <1>13, <1>14

\* Notify keeps the invariant.
LEMMA NotifyKeeps ==
  ASSUME ConstantsAssumption, IInv, NEW w \in Senders, Notify(w)
  PROVE IInv'
  <1> USE ConstantsAssumption DEF IInv, ReportsInv
  <1>1. w \in Workers /\ worker[w].report \in Reports
    BY DEF SlotsOK, SlotAt, Workers, Notify
  <1>2. /\ worker' \in [Workers -> Attempt] /\ worker'[w] = Free
        /\ \A v \in Workers : v # w => worker'[v] = worker[v]
    BY <1>1, Given, FreeSlot DEF Notify
  <1>3. TypeOK'
    BY <1>1, <1>2 DEF Notify, TypeOK, library
  <1>4. SlotsOK'
    BY <1>1, <1>2, FreeSlot DEF Notify, SlotsOK, SlotAt, ConstantsAssumption, SendTries, Workers
  <1>5. OneJobEach'
    BY <1>1, <1>2, FreeSlot DEF Notify, OneJobEach, OneJob, Workers
  <1>6. RowsOK'
    BY <1>1, <1>2, BeingWrittenReport, FreeSlot DEF Notify, RowsOK, RowAt, Workers
  <1>7. GeneratingOK'
    BY <1>1, <1>2, BeingWrittenReport, FreeSlot DEF Notify, GeneratingOK, GeneratingAt, Workers
  <1>8. SendingOK'
    BY <1>1, <1>2, FreeSlot DEF Notify, SendingOK, SendingAt, Workers
  <1>9. SweptReportsOK'
    BY <1>1, <1>2, BeingWrittenReport, FreeSlot DEF Notify, SweptReportsOK, SweptReportAt, Workers
  <1>10. NoReportForgotten'
    BY <1>1, <1>2, FreeSlot
       DEF Notify, NoReportForgotten, InHand, GivenUp, SendingOK, SendingAt, Workers
  <1>11. SentWasMailed' /\ ReportBlobsKept'
    BY DEF Notify, SentWasMailed, ReportBlobsKept
  <1>12. LibraryInv'
    BY LibraryFrame DEF Notify
  <1> QED BY <1>3, <1>4, <1>5, <1>6, <1>7, <1>8, <1>9, <1>10, <1>11, <1>12

\* Resend keeps the invariant.
LEMMA ResendKeeps ==
  ASSUME ConstantsAssumption, IInv, NEW q \in Resends, NEW r \in Reports, Resend(q, r)
  PROVE IInv'
  <1> USE ConstantsAssumption DEF IInv, ReportsInv
  <1>1. /\ resend' \in [Resends -> [pc : {"idle", "enqueue", "done"}, report : Reports \cup {None}]]
        /\ resend'[q].report = r /\ (resend'[q].pc = "enqueue" => report[r].status \in Ready)
        /\ \A p \in Resends : p # q => resend'[p] = resend[p]
    BY DEF TypeOK, Resend
  <1>2. TypeOK'
    BY <1>1 DEF Resend, TypeOK, library
  <1>3. SendingOK'
    BY <1>1 DEF Resend, SendingOK, SendingAt, RowsOK, RowAt, Ready
  <1>4. SlotsOK' /\ OneJobEach' /\ RowsOK' /\ GeneratingOK' /\ SweptReportsOK'
        /\ NoReportForgotten' /\ SentWasMailed' /\ ReportBlobsKept'
    BY BeingWrittenReport
       DEF Resend, SlotsOK, SlotAt, OneJobEach, OneJob, RowsOK, RowAt, GeneratingOK, GeneratingAt,
           SweptReportsOK, SweptReportAt, NoReportForgotten, InHand, GivenUp, SentWasMailed,
           ReportBlobsKept
  <1>5. LibraryInv'
    BY LibraryFrame DEF Resend
  <1> QED BY <1>2, <1>3, <1>4, <1>5

\* EnqueueResend keeps the invariant.
LEMMA EnqueueResendKeeps ==
  ASSUME ConstantsAssumption, IInv, NEW q \in Resends, EnqueueResend(q)
  PROVE IInv'
  <1> USE ConstantsAssumption DEF IInv, ReportsInv
  <1>1. /\ resend' \in [Resends -> [pc : {"idle", "enqueue", "done"}, report : Reports \cup {None}]]
        /\ resend'[q].pc = "done" /\ \A p \in Resends : p # q => resend'[p] = resend[p]
    BY DEF TypeOK, EnqueueResend
  <1>2. resend[q].report \in Reports
    BY DEF SendingOK, EnqueueResend
  <1>3. /\ send' \in [Reports -> [SendTries -> Nat]]
        /\ send'[resend[q].report][0] = send[resend[q].report][0] + 1
        /\ \A s \in Reports, u \in SendTries : <<s, u>> # <<resend[q].report, 0>> => send'[s][u] = send[s][u]
    BY <1>2 DEF TypeOK, SendTries, ConstantsAssumption, EnqueueResend
  <1>4. TypeOK'
    BY <1>1, <1>2, <1>3 DEF EnqueueResend, TypeOK, library
  <1>5. SendingOK'
    BY <1>1, <1>2, <1>3 DEF EnqueueResend, SendingOK, SendingAt
  <1>6. NoReportForgotten'
    <2> PICK r \in Reports : r = resend[q].report
      BY <1>2
    <2>1. InHand(r)'
      BY <1>3 DEF InHand, TypeOK, SendTries
    <2>2. \A s \in Reports : s # r /\ InHand(s) => InHand(s)'
      BY <1>3 DEF EnqueueResend, InHand
    <2> QED BY <2>1, <2>2 DEF EnqueueResend, NoReportForgotten, GivenUp
  <1>7. SlotsOK' /\ OneJobEach' /\ RowsOK' /\ GeneratingOK' /\ SweptReportsOK' /\ SentWasMailed'
        /\ ReportBlobsKept'
    BY BeingWrittenReport
       DEF EnqueueResend, SlotsOK, SlotAt, OneJobEach, OneJob, RowsOK, RowAt, GeneratingOK,
           GeneratingAt, SweptReportsOK, SweptReportAt, SentWasMailed, ReportBlobsKept
  <1>8. LibraryInv'
    BY LibraryFrame DEF EnqueueResend
  <1> QED BY <1>4, <1>5, <1>6, <1>7, <1>8

\* ResendStops keeps the invariant.
LEMMA ResendStopsKeeps ==
  ASSUME ConstantsAssumption, IInv, NEW q \in Resends, ResendStops(q)
  PROVE IInv'
  <1> USE ConstantsAssumption DEF IInv, ReportsInv
  <1>1. /\ resend' \in [Resends -> [pc : {"idle", "enqueue", "done"}, report : Reports \cup {None}]]
        /\ resend'[q].pc = "done" /\ \A p \in Resends : p # q => resend'[p] = resend[p]
    <2>1. resend' = [resend EXCEPT ![q].pc = "done"]
      BY DEF ResendStops
    <2> QED BY <2>1 DEF TypeOK
  <1>2. TypeOK'
    BY <1>1 DEF ResendStops, TypeOK, library
  <1>3. SendingOK'
    BY <1>1 DEF ResendStops, SendingOK, SendingAt
  <1>4. SlotsOK' /\ OneJobEach' /\ RowsOK' /\ GeneratingOK' /\ SweptReportsOK'
        /\ NoReportForgotten' /\ SentWasMailed' /\ ReportBlobsKept'
    BY BeingWrittenReport
       DEF ResendStops, SlotsOK, SlotAt, OneJobEach, OneJob, RowsOK, RowAt, GeneratingOK,
           GeneratingAt, SweptReportsOK, SweptReportAt, NoReportForgotten, InHand, GivenUp,
           SentWasMailed, ReportBlobsKept
  <1>5. LibraryInv'
    BY LibraryFrame DEF ResendStops
  <1> QED BY <1>2, <1>3, <1>4, <1>5

\* An attempt of report.generate that dies puts its job back, or gives it up,
\* and a row that has left PENDING counts as cut short.
LEMMA GenerateDiesKeeps ==
  ASSUME ConstantsAssumption, IInv, NEW w \in Generators, GenerateDies(w)
  PROVE IInv'
  <1> USE ConstantsAssumption DEF IInv, ReportsInv
  <1>1. w \in Workers /\ worker[w].report \in Reports /\ worker[w].tries \in GenerateTries
    BY DEF SlotsOK, SlotAt, Workers, GenerateDies
  <1> PICK r \in Reports, t \in GenerateTries : r = worker[w].report /\ t = worker[w].tries
    BY <1>1
  <1>2. /\ worker' \in [Workers -> Attempt] /\ worker'[w] = Free
        /\ \A v \in Workers : v # w => worker'[v] = worker[v]
    BY <1>1, Given, FreeSlot DEF GenerateDies
  <1>3. /\ cut' = IF report[r].status = "PENDING" THEN cut ELSE cut \cup {r}
        /\ UNCHANGED <<report, creator, send, mailed, resend, blob, library, sweep>>
    BY DEF GenerateDies
  <1>4. /\ generate' \in [Reports -> [GenerateTries -> Nat]]
        /\ failed \subseteq failed' /\ failed' \subseteq failed \cup {<<"report.generate", r>>}
        /\ \/ /\ t < GenerateRetries /\ t + 1 \in GenerateTries
              /\ generate'[r][t + 1] = generate[r][t + 1] + 1
              /\ \A s \in Reports, u \in GenerateTries : <<s, u>> # <<r, t + 1>> =>
                   generate'[s][u] = generate[s][u]
           \/ generate' = generate /\ <<"report.generate", r>> \in failed'
    <2>1. CASE t < GenerateRetries
      <3>1. t + 1 \in GenerateTries
        BY <2>1 DEF GenerateTries
      <3>2. generate' = [generate EXCEPT ![r][t + 1] = @ + 1] /\ failed' = failed
        BY <2>1 DEF GenerateDies
      <3>3. generate \in [Reports -> [GenerateTries -> Nat]]
        BY DEF TypeOK
      <3> QED BY <2>1, <3>1, <3>2, <3>3
    <2>2. CASE ~(t < GenerateRetries)
      BY <2>2 DEF GenerateDies, TypeOK
    <2> QED BY <2>1, <2>2
  <1>5. TypeOK'
    <2>1. failed' \subseteq {"report.generate", "report.send"} \X Reports
      BY <1>4 DEF TypeOK
    <2> QED BY <1>2, <1>3, <1>4, <2>1 DEF TypeOK, library
  <1>6. SlotsOK'
    BY <1>1, <1>2, FreeSlot DEF SlotsOK, SlotAt, GenerateTries, Workers
  <1>7. \A u \in GenerateTries : generate[r][u] = 0
    BY <1>1 DEF OneJobEach, OneJob
  <1>8. OneJobEach'
    <2>1. OneJob(r)'
      <3>1. \A v \in Generators : worker'[v].report # r
        BY <1>1, <1>2, FreeSlot DEF OneJobEach, OneJob, Workers
      <3>2. /\ \A u \in GenerateTries : generate'[r][u] \in {0, 1}
            /\ \A u, v \in GenerateTries : generate'[r][u] > 0 /\ generate'[r][v] > 0 => u = v
        BY <1>4, <1>7
      <3> QED BY <3>1, <3>2 DEF OneJob
    <2>2. ASSUME NEW s \in Reports, s # r PROVE OneJob(s)'
      <3>1. \A u \in GenerateTries : generate'[s][u] = generate[s][u]
        BY <1>4, <2>2
      <3>2. \A v \in Generators : worker'[v].report = s => worker[v].report = s
        BY <1>2, FreeSlot DEF Workers
      <3> QED BY <3>1, <3>2 DEF OneJobEach, OneJob
    <2> QED BY <2>1, <2>2 DEF OneJobEach
  <1>9. \A s \in Reports : BeingWritten(s)' => BeingWritten(s)
    BY <1>1, <1>2, <1>4, BeingWrittenReport, FreeSlot DEF Workers
  <1>10. RowsOK' /\ SweptReportsOK'
    BY <1>3, <1>9 DEF RowsOK, RowAt, SweptReportsOK, SweptReportAt
  <1>11. GeneratingOK'
    <2>1. ASSUME NEW s \in Reports, NEW u \in GenerateTries,
                 generate'[s][u] > 0, report'[s].status # "PENDING"
          PROVE s \in cut'
      BY <1>3, <1>4, <1>7, <2>1 DEF GeneratingOK, GeneratingAt
    <2> QED BY <1>2, <1>3, <1>9, <2>1, FreeSlot DEF GeneratingOK, GeneratingAt, Workers
  <1>12. SendingOK'
    BY <1>2, <1>3 DEF SendingOK, SendingAt, Workers
  <1>13. NoReportForgotten'
    <2>1. InHand(r)' \/ GivenUp(r)'
      BY <1>4, <1>7 DEF InHand, GivenUp
    <2>2. \A s \in Reports : s # r /\ InHand(s) => InHand(s)'
      BY <1>2, <1>3, <1>4 DEF InHand
    <2> QED BY <1>3, <1>4, <2>1, <2>2 DEF NoReportForgotten, GivenUp
  <1>14. SentWasMailed' /\ ReportBlobsKept'
    BY <1>3 DEF SentWasMailed, ReportBlobsKept
  <1>15. LibraryInv'
    BY <1>3, LibraryFrame
  <1> QED BY <1>5, <1>6, <1>8, <1>10, <1>11, <1>12, <1>13, <1>14, <1>15

\* A mail goes to the recipient whose turn it is, and the turn passes on.
LEMMA MailKeeps ==
  ASSUME ConstantsAssumption, IInv, NEW w \in Senders, Mail(w)
  PROVE IInv'
  <1> USE ConstantsAssumption DEF IInv, ReportsInv
  <1>1. w \in Workers /\ worker[w].report \in Reports /\ worker[w].pc = "mail"
    BY DEF SlotsOK, SlotAt, Workers, Mail
  <1> PICK r \in Reports, n \in 0 .. Recipients : r = worker[w].report /\ n = worker[w].next
    <2>1. worker[w] \in Attempt /\ worker[w].next <= Recipients
      BY <1>1 DEF TypeOK, Mail
    <2> QED BY <1>1, <2>1 DEF Attempt
  <1>2. /\ worker' \in [Workers -> Attempt] /\ worker'[w].pc = "mail" /\ worker'[w].report = r
        /\ worker'[w].next = n + 1 /\ worker'[w].tries = worker[w].tries
        /\ \A v \in Workers : v # w => worker'[v] = worker[v]
    <2>1. worker[w] \in Attempt /\ worker \in [Workers -> Attempt]
      BY <1>1 DEF TypeOK
    <2>2. [worker[w] EXCEPT !.next = n + 1] \in Attempt
      BY <2>1 DEF Attempt
    <2>3. worker' = [worker EXCEPT ![w] = [worker[w] EXCEPT !.next = n + 1]]
      BY DEF Mail
    <2> QED BY <1>1, <2>1, <2>2, <2>3 DEF Attempt
  <1>3. /\ mailed' \in [Reports -> 0 .. Recipients]
        /\ mailed'[r] >= mailed[r] /\ mailed'[r] >= n
        /\ \A s \in Reports : s # r => mailed'[s] = mailed[s]
    BY DEF TypeOK, Mail
  <1>4. TypeOK'
    BY <1>2, <1>3 DEF Mail, TypeOK, library
  <1>5. SlotsOK'
    BY <1>1, <1>2, FreeSlot DEF SlotsOK, SlotAt, Workers
  <1>6. OneJobEach' /\ NoReportForgotten'
    BY <1>1, <1>2 DEF Mail, OneJobEach, OneJob, NoReportForgotten, InHand, GivenUp, Workers
  <1>7. RowsOK' /\ GeneratingOK' /\ SweptReportsOK'
    BY <1>1, <1>2, BeingWrittenReport
       DEF Mail, RowsOK, RowAt, GeneratingOK, GeneratingAt, SweptReportsOK, SweptReportAt, Workers
  <1>8. SendingOK'
    <2> SUFFICES ASSUME NEW s \in Reports PROVE SendingAt(s)'
      BY DEF Mail, SendingOK
    <2>1. \A v \in Workers : worker[v].next \in Nat /\ mailed[s] \in Nat /\ mailed'[s] \in Nat
      BY <1>3 DEF TypeOK, Attempt
    <2> QED BY <1>1, <1>2, <1>3, <2>1 DEF Mail, SendingOK, SendingAt, Workers
  <1>9. SentWasMailed' /\ ReportBlobsKept'
    <2>1. \A s \in Reports : mailed'[s] >= mailed[s] /\ mailed[s] \in 0 .. Recipients
      <3>1. \A s \in Reports : mailed[s] \in 0 .. Recipients
        BY DEF TypeOK
      <3> QED BY <1>3, <3>1
    <2> QED BY <1>3, <2>1 DEF Mail, SentWasMailed, ReportBlobsKept
  <1>10. LibraryInv'
    BY LibraryFrame DEF Mail
  <1> QED BY <1>4, <1>5, <1>6, <1>7, <1>8, <1>9, <1>10

\* An attempt of report.send that throws puts its job back, or gives it up.
LEMMA SendThrowsKeeps ==
  ASSUME ConstantsAssumption, IInv, NEW w \in Senders, SendThrows(w)
  PROVE IInv'
  <1> USE ConstantsAssumption DEF IInv, ReportsInv
  <1>1. w \in Workers /\ worker[w].report \in Reports /\ worker[w].tries \in SendTries
    BY DEF SlotsOK, SlotAt, Workers, SendThrows
  <1> PICK r \in Reports, t \in SendTries : r = worker[w].report /\ t = worker[w].tries
    BY <1>1
  <1>2. /\ worker' \in [Workers -> Attempt] /\ worker'[w] = Free
        /\ \A v \in Workers : v # w => worker'[v] = worker[v]
    BY <1>1, Given, FreeSlot DEF SendThrows
  <1>3. UNCHANGED <<report, creator, generate, mailed, resend, cut, blob, library, sweep>>
    BY DEF SendThrows
  <1>4. /\ send' \in [Reports -> [SendTries -> Nat]]
        /\ failed \subseteq failed' /\ failed' \subseteq failed \cup {<<"report.send", r>>}
        /\ \/ /\ t + 1 \in SendTries /\ send'[r][t + 1] = send[r][t + 1] + 1
              /\ \A s \in Reports, u \in SendTries : <<s, u>> # <<r, t + 1>> =>
                   send'[s][u] = send[s][u]
           \/ send' = send /\ <<"report.send", r>> \in failed'
    <2>1. CASE t < SendRetries
      <3>1. t + 1 \in SendTries
        BY <2>1 DEF SendTries
      <3>2. send' = [send EXCEPT ![r][t + 1] = @ + 1] /\ failed' = failed
        BY <2>1 DEF SendThrows
      <3>3. send \in [Reports -> [SendTries -> Nat]]
        BY DEF TypeOK
      <3> QED BY <3>1, <3>2, <3>3
    <2>2. CASE ~(t < SendRetries)
      BY <2>2 DEF SendThrows, TypeOK
    <2> QED BY <2>1, <2>2
  <1>5. TypeOK'
    <2>1. failed' \subseteq {"report.generate", "report.send"} \X Reports
      BY <1>4 DEF TypeOK
    <2> QED BY <1>2, <1>3, <1>4, <2>1 DEF TypeOK, library
  <1>6. SlotsOK'
    BY <1>1, <1>2, FreeSlot DEF SlotsOK, SlotAt, SendTries, Workers
  <1>7. OneJobEach'
    BY <1>1, <1>2, <1>3 DEF OneJobEach, OneJob, Workers
  <1>8. RowsOK' /\ GeneratingOK' /\ SweptReportsOK'
    BY <1>1, <1>2, <1>3, BeingWrittenReport
       DEF RowsOK, RowAt, GeneratingOK, GeneratingAt, SweptReportsOK, SweptReportAt, Workers
  <1>9. SendingOK'
    <2>1. report[r].keyed
      BY <1>1 DEF SendingOK, SendingAt
    <2> QED BY <1>2, <1>3, <1>4, <2>1, FreeSlot DEF SendingOK, SendingAt, Workers
  <1>10. NoReportForgotten'
    <2>1. InHand(r)' \/ GivenUp(r)'
      <3>1. \A u \in SendTries : send[r][u] \in Nat
        BY DEF TypeOK
      <3> QED BY <1>4, <3>1 DEF InHand, GivenUp
    <2>2. \A s \in Reports : s # r /\ InHand(s) => InHand(s)'
      BY <1>2, <1>3, <1>4 DEF InHand
    <2> QED BY <1>3, <1>4, <2>1, <2>2 DEF NoReportForgotten, GivenUp
  <1>11. SentWasMailed' /\ ReportBlobsKept'
    BY <1>3 DEF SentWasMailed, ReportBlobsKept
  <1>12. LibraryInv'
    BY <1>3, LibraryFrame
  <1> QED BY <1>5, <1>6, <1>7, <1>8, <1>9, <1>10, <1>11, <1>12

-----------------------------------------------------------------------------
(* Files.                                                                  *)

\* An upload stores the blob of a file that had none.
LEMMA UploadFileKeeps ==
  ASSUME ConstantsAssumption, IInv, NEW f \in Files, UploadFile(f)
  PROVE IInv'
  <1> USE ConstantsAssumption DEF IInv, LibraryInv
  <1>1. /\ blob' \in [Keys -> {"none", "young", "old"}] /\ blob'[f] = "young"
        /\ \A k \in Keys : k # f => blob'[k] = blob[k]
    BY DEF UploadFile, TypeOK, Keys
  <1>2. /\ upload' \in [Files -> {"idle", "row", "done"}] /\ upload'[f] = "row"
        /\ upload[f] = "idle"
        /\ \A g \in Files : g # f => upload'[g] = upload[g]
    BY DEF UploadFile, TypeOK
  <1>3. UNCHANGED <<pipeline, row, parents, deletion, sweep>>
    BY DEF UploadFile
  <1>4. TypeOK'
    BY <1>1, <1>2, <1>3 DEF TypeOK, pipeline
  <1>5. ReportsInv'
    <2>1. f \notin Reports /\ Reports \subseteq Keys
      BY DEF Keys
    <2> QED BY <1>1, <1>3, <2>1, ReportsFrame
  <1>6. FilesOK'
    BY <1>1, <1>2, <1>3 DEF FilesOK, FileAt, Keys
  <1>7. SweptFilesOK'
    BY <1>1, <1>2, <1>3 DEF SweptFilesOK, SweptFileAt, FilesOK, FileAt, Keys
  <1>8. DeletionsOK'
    BY <1>2, <1>3 DEF DeletionsOK, DeletionAt, Files
  <1>9. FileBlobsKept'
    BY <1>1, <1>2, <1>3 DEF FileBlobsKept, FilesOK, FileAt, Keys, Files
  <1> QED BY <1>4, <1>5, <1>6, <1>7, <1>8, <1>9

\* The row of an upload comes when the blob is there, too young to be swept.
LEMMA CreateRowKeeps ==
  ASSUME ConstantsAssumption, IInv, NEW f \in Files, CreateRow(f)
  PROVE IInv'
  <1> USE ConstantsAssumption DEF IInv, LibraryInv
  <1>1. /\ upload' \in [Files -> {"idle", "row", "done"}] /\ upload'[f] = "done"
        /\ upload[f] = "row"
        /\ \A g \in Files : g # f => upload'[g] = upload[g]
    BY DEF CreateRow, TypeOK
  <1>2. row \subseteq row' /\ row' \subseteq row \cup {f}
    BY DEF CreateRow
  <1>3. UNCHANGED <<pipeline, blob, parents, deletion, sweep>>
    BY DEF CreateRow
  <1>4. TypeOK'
    BY <1>1, <1>2, <1>3 DEF TypeOK, pipeline
  <1>5. ReportsInv'
    BY <1>3, ReportsFrame
  <1>6. blob[f] = "young"
    BY <1>1 DEF FilesOK, FileAt
  <1>7. FilesOK'
    BY <1>1, <1>2, <1>3, <1>6 DEF FilesOK, FileAt
  <1>8. SweptFilesOK'
    BY <1>1, <1>2, <1>3, <1>6 DEF SweptFilesOK, SweptFileAt
  <1>9. DeletionsOK'
    BY <1>1, <1>3 DEF DeletionsOK, DeletionAt, Files
  <1>10. FileBlobsKept'
    BY <1>1, <1>2, <1>3, <1>6 DEF FileBlobsKept
  <1> QED BY <1>4, <1>5, <1>7, <1>8, <1>9, <1>10

\* An upload that stops leaves a blob and no row.
LEMMA UploadStopsKeeps ==
  ASSUME ConstantsAssumption, IInv, NEW f \in Files, UploadStops(f)
  PROVE IInv'
  <1> USE ConstantsAssumption DEF IInv, LibraryInv
  <1>1. /\ upload' \in [Files -> {"idle", "row", "done"}] /\ upload'[f] = "done"
        /\ \A g \in Files : g # f => upload'[g] = upload[g]
    BY DEF UploadStops, TypeOK
  <1>2. UNCHANGED <<pipeline, blob, row, parents, deletion, sweep>>
    BY DEF UploadStops
  <1>3. TypeOK'
    BY <1>1, <1>2 DEF TypeOK, pipeline
  <1>4. ReportsInv'
    BY <1>2, ReportsFrame
  <1>5. FilesOK' /\ SweptFilesOK'
    BY <1>1, <1>2 DEF FilesOK, FileAt, SweptFilesOK, SweptFileAt
  <1>6. DeletionsOK' /\ FileBlobsKept'
    BY <1>1, <1>2 DEF DeletionsOK, DeletionAt, FileBlobsKept, Files
  <1> QED BY <1>3, <1>4, <1>5, <1>6

\* A plan takes its rows with it.
LEMMA DeletePlanKeeps ==
  ASSUME ConstantsAssumption, IInv, DeletePlan
  PROVE IInv'
  <1> USE ConstantsAssumption DEF IInv, LibraryInv
  <1>1. row' \subseteq row /\ parents' \subseteq parents
        /\ UNCHANGED <<pipeline, blob, upload, deletion, sweep>>
    BY DEF DeletePlan
  <1>2. TypeOK'
    BY <1>1 DEF TypeOK, pipeline
  <1>3. ReportsInv'
    BY <1>1, ReportsFrame
  <1>4. LibraryInv'
    BY <1>1 DEF FilesOK, FileAt, SweptFilesOK, SweptFileAt, DeletionsOK, DeletionAt, FileBlobsKept
  <1> QED BY <1>2, <1>3, <1>4

\* A step of a deletion changes that deletion only: what it has begun stays begun.
LEMMA DeletionFrame ==
  ASSUME ConstantsAssumption, IInv, NEW d \in Deletions, deletion' \in [Deletions -> Deletion],
         \A e \in Deletions : e # d => deletion'[e] = deletion[e],
         deletion[d].begun \subseteq deletion'[d].begun, DeletionAt(d)',
         row' \subseteq row, parents' \subseteq parents, UNCHANGED <<pipeline, blob, upload, sweep>>
  PROVE IInv'
  <1> USE ConstantsAssumption DEF IInv, LibraryInv
  <1>1. TypeOK'
    BY DEF TypeOK, pipeline
  <1>2. ReportsInv'
    BY ReportsFrame
  <1>3. FilesOK' /\ SweptFilesOK'
    BY DEF FilesOK, FileAt, SweptFilesOK, SweptFileAt
  <1>4. DeletionsOK'
    BY DEF DeletionsOK, DeletionAt
  <1>5. FileBlobsKept'
    BY DEF FileBlobsKept
  <1> QED BY <1>1, <1>2, <1>3, <1>4, <1>5

\* The steps of a deletion that leave the store alone.
LEMMA DeletionKeeps ==
  ASSUME ConstantsAssumption, IInv, NEW d \in Deletions,
         StartDeletion(d) \/ FindFile(d) \/ DeleteRow(d) \/ DeleteItem(d) \/ DeletionStops(d)
  PROVE IInv'
  <1> USE ConstantsAssumption DEF IInv
  <1>1. deletion \in [Deletions -> Deletion] /\ deletion[d] \in Deletion
    BY DEF TypeOK
  <1>2. CASE StartDeletion(d)
    <2>1. /\ deletion' \in [Deletions -> Deletion] /\ deletion'[d].pc \in {"find", "item"}
          /\ deletion'[d].begun = deletion[d].begun
          /\ \A e \in Deletions : e # d => deletion'[e] = deletion[e]
      <3>1. CASE \E f \in Media :
                   deletion' = [deletion EXCEPT ![d].pc = "find", ![d].todo = {f}]
        <4> PICK f \in Media : deletion' = [deletion EXCEPT ![d].pc = "find", ![d].todo = {f}]
          BY <3>1
        <4>1. {f} \in SUBSET Media
          OBVIOUS
        <4> QED BY <1>1, <4>1 DEF Deletion
      <3>2. CASE deletion' = [deletion EXCEPT
                   ![d].pc = IF row \cap Media = {} THEN "item" ELSE "find",
                   ![d].todo = row \cap Media, ![d].item = TRUE]
        BY <1>1, <3>2 DEF Deletion
      <3> QED BY <1>2, <3>1, <3>2 DEF StartDeletion
    <2>2. UNCHANGED <<pipeline, blob, upload, row, parents, sweep>>
      BY <1>2 DEF StartDeletion
    <2> QED BY <2>1, <2>2, DeletionFrame DEF DeletionAt
  <1>3. CASE FindFile(d)
    <2> PICK f \in deletion[d].todo :
          deletion' = [deletion EXCEPT ![d].pc = IF f \in row THEN "blob" ELSE "done", ![d].file = f]
      BY <1>3 DEF FindFile
    <2>1. f \in Media
      BY <1>1 DEF Deletion
    <2>2. /\ deletion' \in [Deletions -> Deletion]
          /\ deletion'[d].pc = (IF f \in row THEN "blob" ELSE "done") /\ deletion'[d].file = f
          /\ deletion'[d].begun = deletion[d].begun
          /\ \A e \in Deletions : e # d => deletion'[e] = deletion[e]
      BY <1>1, <2>1 DEF Deletion
    <2>3. UNCHANGED <<pipeline, blob, upload, row, parents, sweep>>
      BY <1>3 DEF FindFile
    <2>4. f \in row => upload[f] = "done"
      BY <2>1 DEF LibraryInv, FilesOK, FileAt, Files
    <2> QED BY <2>1, <2>2, <2>3, <2>4, DeletionFrame DEF DeletionAt
  <1>4. CASE DeleteRow(d)
    <2>1. /\ deletion' \in [Deletions -> Deletion] /\ deletion'[d].pc \in {"find", "item", "done"}
          /\ deletion'[d].begun = deletion[d].begun
          /\ \A e \in Deletions : e # d => deletion'[e] = deletion[e]
      BY <1>1, <1>4 DEF DeleteRow, Deletion
    <2>2. row' \subseteq row /\ UNCHANGED <<pipeline, blob, upload, parents, sweep>>
      BY <1>4 DEF DeleteRow
    <2> QED BY <2>1, <2>2, DeletionFrame DEF DeletionAt
  <1>5. CASE DeleteItem(d) \/ DeletionStops(d)
    <2>1. /\ deletion' \in [Deletions -> Deletion] /\ deletion'[d].pc = "done"
          /\ deletion'[d].begun = deletion[d].begun
          /\ \A e \in Deletions : e # d => deletion'[e] = deletion[e]
      BY <1>1, <1>5 DEF DeleteItem, DeletionStops, Deletion
    <2>2. parents' \subseteq parents /\ UNCHANGED <<pipeline, blob, upload, row, sweep>>
      BY <1>5 DEF DeleteItem, DeletionStops
    <2> QED BY <2>1, <2>2, DeletionFrame DEF DeletionAt
  <1> QED BY <1>2, <1>3, <1>4, <1>5

\* A deletion that removes a blob has begun with the file.
LEMMA DeleteBlobKeeps ==
  ASSUME ConstantsAssumption, IInv, NEW d \in Deletions, DeleteBlob(d)
  PROVE IInv'
  <1> USE ConstantsAssumption DEF IInv, LibraryInv
  <1>1. deletion[d].file \in Media /\ upload[deletion[d].file] = "done"
    BY DEF DeleteBlob, DeletionsOK, DeletionAt
  <1> PICK f \in Media : f = deletion[d].file
    BY <1>1
  <1>2. f \in Files /\ f \in Keys /\ f \notin Reports /\ Reports \subseteq Keys
    BY DEF Files, Keys
  <1>3. /\ deletion' \in [Deletions -> Deletion] /\ deletion'[d].pc = "row"
        /\ deletion'[d].file = f /\ f \in deletion'[d].begun
        /\ \A e \in Deletions : deletion[e].begun \subseteq deletion'[e].begun
        /\ \A e \in Deletions : e # d => deletion'[e] = deletion[e]
    <2>1. deletion \in [Deletions -> Deletion] /\ deletion[d] \in Deletion
      BY DEF TypeOK
    <2> QED BY <2>1 DEF DeleteBlob, Deletion
  <1>4. /\ blob' \in [Keys -> {"none", "young", "old"}] /\ blob'[f] = "none"
        /\ \A k \in Keys : k # f => blob'[k] = blob[k]
    BY <1>2 DEF DeleteBlob, TypeOK
  <1>5. UNCHANGED <<pipeline, upload, row, parents, sweep>>
    BY DEF DeleteBlob
  <1>6. TypeOK'
    BY <1>3, <1>4, <1>5 DEF TypeOK, pipeline
  <1>7. ReportsInv'
    BY <1>2, <1>4, <1>5, ReportsFrame
  <1>8. FilesOK' /\ SweptFilesOK'
    BY <1>1, <1>4, <1>5 DEF FilesOK, FileAt, SweptFilesOK, SweptFileAt, Keys
  <1>9. DeletionsOK' /\ FileBlobsKept'
    BY <1>3, <1>4, <1>5 DEF DeletionsOK, DeletionAt, FileBlobsKept, Keys, Files
  <1> QED BY <1>6, <1>7, <1>8, <1>9

-----------------------------------------------------------------------------
(* The nightly sweep, and time.                                            *)

\* While the blobs stay, what holds apart from the sweep stays too.
LEMMA SweepFrame ==
  ASSUME ConstantsAssumption, IInv, UNCHANGED <<pipeline, blob, library>>,
         sweep' \in Sweep, SweptReportsOK', SweptFilesOK'
  PROVE IInv'
  <1> USE ConstantsAssumption DEF IInv, pipeline, library
  <1>1. TypeOK'
    BY DEF TypeOK
  <1>2. SlotsOK' /\ OneJobEach' /\ SendingOK'
    BY DEF ReportsInv, SlotsOK, SlotAt, OneJobEach, OneJob, SendingOK, SendingAt
  <1>3. RowsOK' /\ GeneratingOK'
    BY BeingWrittenReport DEF ReportsInv, RowsOK, RowAt, GeneratingOK, GeneratingAt
  <1>4. NoReportForgotten' /\ SentWasMailed' /\ ReportBlobsKept'
    BY DEF ReportsInv, NoReportForgotten, InHand, GivenUp, SentWasMailed, ReportBlobsKept
  <1>5. FilesOK' /\ DeletionsOK' /\ FileBlobsKept'
    BY DEF LibraryInv, FilesOK, FileAt, DeletionsOK, DeletionAt, FileBlobsKept
  <1> QED BY <1>1, <1>2, <1>3, <1>4, <1>5 DEF ReportsInv, LibraryInv

\* A sweep begins with the keys that rows store.
LEMMA StartSweepKeeps ==
  ASSUME ConstantsAssumption, IInv, StartSweep
  PROVE IInv'
  <1>1. /\ sweep'.pc = "read" /\ sweep'.unread = {"media", "list"} /\ sweep'.listed = {}
        /\ sweep'.known = {r \in Reports : report[r].keyed} /\ sweep' \in Sweep
    BY DEF StartSweep, Sweep, Keys
  <1>2. UNCHANGED <<pipeline, blob, library>>
    BY DEF StartSweep
  <1>3. SweptReportsOK'
    BY <1>1, <1>2 DEF SweptReportsOK, SweptReportAt, pipeline
  <1>4. SweptFilesOK'
    BY <1>1 DEF SweptFilesOK, SweptFileAt
  <1> QED BY <1>1, <1>2, <1>3, <1>4, SweepFrame

\* The rows and the listing, in either order.
LEMMA ReadKeeps ==
  ASSUME ConstantsAssumption, IInv, NEW what \in {"media", "list"}, Read(what)
  PROVE IInv'
  <1> USE ConstantsAssumption DEF IInv
  <1>1. sweep \in Sweep /\ what \in sweep.unread /\ sweep.pc = "read"
    BY DEF Read, TypeOK, LibraryInv, SweptFilesOK
  <1>2. UNCHANGED <<pipeline, blob, library>>
    BY DEF Read
  <1>3. /\ sweep'.pc \in {"read", "delete"} /\ (sweep'.pc = "delete" => sweep'.unread = {})
        /\ sweep'.unread = sweep.unread \ {what}
    BY <1>1 DEF Read
  <1>4. CASE what = "media"
    <2>1. sweep'.known = sweep.known \cup (row \cap Media) /\ sweep'.listed = sweep.listed
      BY <1>4 DEF Read
    <2>2. sweep' \in Sweep
      BY <1>1, <1>3, <2>1 DEF Read, Sweep, Keys, Files
    <2>3. SweptReportsOK'
      BY <1>1, <1>2, <1>3, <2>1, BeingWrittenReport
         DEF ReportsInv, SweptReportsOK, SweptReportAt, pipeline
    <2>4. SweptFilesOK'
      BY <1>1, <1>2, <1>3, <2>1 DEF LibraryInv, SweptFilesOK, SweptFileAt, library
    <2> QED BY <1>2, <2>2, <2>3, <2>4, SweepFrame
  <1>5. CASE what = "list"
    <2>1. sweep'.known = sweep.known /\ sweep'.listed = {k \in Keys : blob[k] = "old"}
      BY <1>5 DEF Read
    <2>2. sweep' \in Sweep
      BY <1>1, <1>3, <2>1 DEF Read, Sweep
    <2>3. \A r \in Reports : blob[r] = "old" => ~BeingWritten(r) /\ creator[r] = "done"
      BY DEF ReportsInv, GeneratingOK, GeneratingAt, RowsOK, RowAt, TypeOK
    <2>4. SweptReportsOK'
      BY <1>1, <1>2, <1>3, <2>1, <2>3, BeingWrittenReport
         DEF ReportsInv, SweptReportsOK, SweptReportAt, pipeline
    <2>5. \A f \in Files : blob[f] = "old" => upload[f] = "done"
      BY DEF LibraryInv, FilesOK, FileAt, TypeOK
    <2>6. SweptFilesOK'
      BY <1>1, <1>2, <1>3, <1>5, <2>1, <2>5 DEF LibraryInv, SweptFilesOK, SweptFileAt, library
    <2> QED BY <1>2, <2>2, <2>4, <2>6, SweepFrame
  <1> QED BY <1>4, <1>5

\* What the sweep deletes is an orphan: no row names it, and nobody writes it.
LEMMA OrphanIsNamedByNobody ==
  ASSUME ConstantsAssumption, IInv, NEW k \in Orphans, sweep.pc = "delete"
  PROVE /\ k \in Keys
        /\ k \in Reports => ~report[k].keyed /\ ~BeingWritten(k) /\ creator[k] = "done"
        /\ k \in Files => upload[k] = "done"
        /\ k \in Media => k \notin row
  <1> USE ConstantsAssumption DEF IInv, Orphans
  <1>1. k \in Keys
    BY DEF TypeOK, Sweep
  <1>2. k \in Reports => ~report[k].keyed /\ ~BeingWritten(k) /\ creator[k] = "done"
    BY DEF ReportsInv, SweptReportsOK, SweptReportAt
  <1>3. (k \in Files => upload[k] = "done") /\ (k \in Media => k \notin row)
    BY DEF LibraryInv, SweptFilesOK, SweptFileAt, Files
  <1> QED BY <1>1, <1>2, <1>3

\* So its deletion loses nothing.
LEMMA SweepDeletesKeeps ==
  ASSUME ConstantsAssumption, IInv, NEW k \in Keys, SweepDeletes(k)
  PROVE IInv'
  <1> USE ConstantsAssumption DEF IInv, library
  <1>1. /\ k \in Reports => ~report[k].keyed /\ ~BeingWritten(k) /\ creator[k] = "done"
        /\ k \in Files => upload[k] = "done"
        /\ k \in Media => k \notin row
    BY OrphanIsNamedByNobody DEF SweepDeletes
  <1>2. /\ blob' \in [Keys -> {"none", "young", "old"}] /\ blob'[k] = "none"
        /\ \A l \in Keys : l # k => blob'[l] = blob[l]
    BY DEF SweepDeletes, TypeOK
  <1>3. /\ sweep' \in Sweep /\ sweep'.pc = "delete" /\ sweep.pc = "delete"
        /\ sweep'.unread = sweep.unread /\ sweep'.known = sweep.known
        /\ sweep'.listed \subseteq sweep.listed
    BY DEF SweepDeletes, TypeOK, Sweep
  <1>4. UNCHANGED <<pipeline, library>> /\ Reports \subseteq Keys /\ Files \subseteq Keys
    BY DEF SweepDeletes, Keys
  <1>5. TypeOK'
    BY <1>2, <1>3, <1>4 DEF TypeOK, pipeline
  <1>6. SlotsOK' /\ OneJobEach' /\ SendingOK'
    BY <1>4 DEF ReportsInv, SlotsOK, SlotAt, OneJobEach, OneJob, SendingOK, SendingAt, pipeline
  <1>7. \A r \in Reports : BeingWritten(r)' <=> BeingWritten(r)
    BY <1>4, BeingWrittenReport DEF pipeline
  <1>8. \A w \in Generators : worker[w].report = k => k \notin Reports
    BY <1>1, BeingWrittenReport
  <1>9. RowsOK' /\ SweptReportsOK'
    BY <1>1, <1>2, <1>3, <1>4, <1>7
       DEF ReportsInv, RowsOK, RowAt, SweptReportsOK, SweptReportAt, pipeline
  <1>10. GeneratingOK'
    BY <1>2, <1>4, <1>7, <1>8 DEF ReportsInv, GeneratingOK, GeneratingAt, pipeline
  <1>11. NoReportForgotten' /\ SentWasMailed' /\ ReportBlobsKept'
    BY <1>1, <1>2, <1>4 DEF ReportsInv, NoReportForgotten, InHand, GivenUp, SentWasMailed,
                            ReportBlobsKept, pipeline
  <1>12. FilesOK' /\ SweptFilesOK'
    BY <1>1, <1>2, <1>3, <1>4 DEF LibraryInv, FilesOK, FileAt, SweptFilesOK, SweptFileAt
  <1>13. DeletionsOK' /\ FileBlobsKept'
    BY <1>1, <1>2, <1>4 DEF LibraryInv, DeletionsOK, DeletionAt, FileBlobsKept, Files
  <1> QED BY <1>5, <1>6, <1>9, <1>10, <1>11, <1>12, <1>13 DEF ReportsInv, LibraryInv

\* A deletion passed over shortens the list; an ended sweep forgets it.
LEMMA SweepLeavesKeeps ==
  ASSUME ConstantsAssumption, IInv, (\E k \in Keys : SweepPasses(k)) \/ EndSweep \/ SweepStops
  PROVE IInv'
  <1> USE ConstantsAssumption DEF IInv
  <1>1. UNCHANGED <<pipeline, blob, library>>
    BY DEF SweepPasses, EndSweep, SweepStops
  <1>2. CASE \E k \in Keys : SweepPasses(k)
    <2>1. /\ sweep' \in Sweep /\ sweep'.pc = "delete" /\ sweep.pc = "delete"
          /\ sweep'.unread = sweep.unread /\ sweep'.known = sweep.known
          /\ sweep'.listed \subseteq sweep.listed
      <3> PICK k \in Keys : SweepPasses(k)
        BY <1>2
      <3> QED BY DEF SweepPasses, TypeOK, Sweep
    <2>2. SweptReportsOK'
      BY <1>1, <2>1, BeingWrittenReport DEF ReportsInv, SweptReportsOK, SweptReportAt, pipeline
    <2>3. SweptFilesOK'
      BY <1>1, <2>1 DEF LibraryInv, SweptFilesOK, SweptFileAt, library
    <2> QED BY <1>1, <2>1, <2>2, <2>3, SweepFrame
  <1>3. CASE EndSweep \/ SweepStops
    <2>1. sweep' \in Sweep /\ sweep'.pc = "idle" /\ sweep'.unread = {}
      BY <1>3 DEF EndSweep, SweepStops, NoSweep, Sweep
    <2>2. SweptReportsOK' /\ SweptFilesOK'
      BY <2>1 DEF SweptReportsOK, SweptReportAt, SweptFilesOK, SweptFileAt
    <2> QED BY <1>1, <2>1, <2>2, SweepFrame
  <1> QED BY <1>2, <1>3

\* A blob grows old when nobody is at work on it and no sweep is reading.
LEMMA AgeKeeps ==
  ASSUME ConstantsAssumption, IInv, NEW k \in Keys, Age(k)
  PROVE IInv'
  <1> USE ConstantsAssumption DEF IInv, library
  <1>1. /\ blob' \in [Keys -> {"none", "young", "old"}] /\ blob'[k] = "old" /\ blob[k] = "young"
        /\ \A l \in Keys : l # k => blob'[l] = blob[l]
    BY DEF Age, TypeOK
  <1>2. /\ ~BeingWritten(k) /\ sweep.pc # "read" /\ UNCHANGED <<pipeline, library, sweep>>
        /\ Reports \subseteq Keys /\ Files \subseteq Keys
    BY DEF Age, Keys
  <1>3. TypeOK'
    BY <1>1, <1>2 DEF TypeOK, pipeline
  <1>4. SlotsOK' /\ OneJobEach' /\ SendingOK'
    BY <1>2 DEF ReportsInv, SlotsOK, SlotAt, OneJobEach, OneJob, SendingOK, SendingAt, pipeline
  <1>5. \A r \in Reports : BeingWritten(r)' <=> BeingWritten(r)
    BY <1>2, BeingWrittenReport DEF pipeline
  <1>6. \A w \in Generators : worker[w].report = k => k \notin Reports
    BY <1>2, BeingWrittenReport
  <1>7. RowsOK' /\ SweptReportsOK'
    BY <1>1, <1>2, <1>5 DEF ReportsInv, RowsOK, RowAt, SweptReportsOK, SweptReportAt, pipeline
  <1>8. GeneratingOK'
    BY <1>1, <1>2, <1>5, <1>6 DEF ReportsInv, GeneratingOK, GeneratingAt, pipeline
  <1>9. NoReportForgotten' /\ SentWasMailed' /\ ReportBlobsKept'
    BY <1>1, <1>2 DEF ReportsInv, NoReportForgotten, InHand, GivenUp, SentWasMailed,
                      ReportBlobsKept, pipeline
  <1>10. k \in Files => upload[k] # "row"
    BY <1>2 DEF BeingWritten, Keys
  <1>11. FilesOK' /\ SweptFilesOK'
    BY <1>1, <1>2, <1>10 DEF LibraryInv, FilesOK, FileAt, SweptFilesOK, SweptFileAt
  <1>12. DeletionsOK' /\ FileBlobsKept'
    BY <1>1, <1>2 DEF LibraryInv, DeletionsOK, DeletionAt, FileBlobsKept, Files
  <1> QED BY <1>3, <1>4, <1>7, <1>8, <1>9, <1>11, <1>12 DEF ReportsInv, LibraryInv

-----------------------------------------------------------------------------
(* The theorems.                                                           *)

\* Every step keeps the invariant.
LEMMA NextHolds == ASSUME ConstantsAssumption, IInv, [Next]_vars PROVE IInv'
  <1>1. CASE \E r \in Reports : CreateReport(r) \/ CreatorStep(r)
    BY <1>1, CreateReportKeeps, EnqueueGenerateKeeps, CreatorStopsKeeps DEF CreatorStep
  <1>2. CASE \E w \in Generators : GeneratorStep(w)
    BY <1>2, StartGenerateKeeps, UploadPdfKeeps, MarkGeneratedKeeps, EnqueueSendKeeps,
       GenerateThrowsKeeps, MarkFailedKeeps, GenerateDiesKeeps DEF GeneratorStep
  <1>3. CASE \E w \in Senders : SenderStep(w)
    BY <1>3, StartSendKeeps, FetchPdfKeeps, MailKeeps, MarkSentKeeps, NotifyKeeps,
       SendThrowsKeeps DEF SenderStep
  <1>4. CASE \E q \in Resends : ResendStep(q) \/ \E r \in Reports : Resend(q, r)
    BY <1>4, ResendKeeps, EnqueueResendKeeps, ResendStopsKeeps DEF ResendStep
  <1>5. CASE \E f \in Files : UploadFile(f) \/ UploadStep(f)
    BY <1>5, UploadFileKeeps, CreateRowKeeps, UploadStopsKeeps DEF UploadStep
  <1>6. CASE \E d \in Deletions : StartDeletion(d) \/ DeletionStep(d)
    BY <1>6, DeletionKeeps, DeleteBlobKeeps DEF DeletionStep
  <1>7. CASE DeletePlan \/ SweepStep
    BY <1>7, DeletePlanKeeps, StartSweepKeeps, ReadKeeps, SweepDeletesKeeps, SweepLeavesKeeps
       DEF SweepStep
  <1>8. CASE \E k \in Keys : Age(k)
    BY <1>8, AgeKeeps
  <1>9. CASE UNCHANGED vars
    <2>1. UNCHANGED <<pipeline, blob, library>> /\ sweep' = sweep
      BY <1>9 DEF vars, pipeline, library
    <2>2. SweptReportsOK'
      BY <2>1, BeingWrittenReport DEF IInv, ReportsInv, SweptReportsOK, SweptReportAt, pipeline
    <2>3. SweptFilesOK'
      BY <2>1 DEF IInv, LibraryInv, SweptFilesOK, SweptFileAt, library
    <2> QED BY <2>1, <2>2, <2>3, SweepFrame DEF IInv, TypeOK
  <1> QED BY <1>1, <1>2, <1>3, <1>4, <1>5, <1>6, <1>7, <1>8, <1>9 DEF Next

\* The invariant holds in every state.
THEOREM ReportsInvariant == Spec => []IInv
  <1>1. Init => IInv
    BY InitHolds, ConstantsAssumption
  <1>2. IInv /\ [Next]_vars => IInv'
    BY NextHolds, ConstantsAssumption
  <1> QED BY <1>1, <1>2, PTL DEF Spec

\* Every variable keeps its type, for any number of reports, files, slots and
\* retries, whatever fails.
THEOREM ReportsTypeCorrect == Spec => []TypeOK
  <1>1. IInv => TypeOK
    BY DEF IInv
  <1> QED BY <1>1, ReportsInvariant, PTL

\* No report is forgotten between its queues, none is SENT before every
\* recipient was mailed, and no blob that a Report or a MediaAsset row names is
\* removed by the nightly sweep (report-generator and report-sender workers,
\* cleanup.job.ts), with reports and files sharing the store.
THEOREM NothingIsEverLost == Spec => []NothingIsLost
  <1>1. IInv => NothingIsLost
    BY InvariantGives
  <1> QED BY <1>1, ReportsInvariant, PTL
=============================================================================
