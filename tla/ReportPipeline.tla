--------------------------- MODULE ReportPipeline ---------------------------
(***************************************************************************)
(* From a Report row to the mails that carry its PDF, and the store that   *)
(* keeps the PDFs beside the uploaded files.  A row is created and queued  *)
(* (session.completed, POST /plans/:id/summary-report), report.generate    *)
(* renders and stores the PDF, report.send mails it, POST .../resend sends *)
(* it again.  Content and plan uploads write the same store, a deletion    *)
(* empties it, and the nightly sweep removes the blobs no row names.       *)
(*                                                                         *)
(* Abstracted: a blob's key is its owner, the report or the file (report   *)
(* keys are derived from the id, file keys hold a random UUID); one        *)
(* organisation, one content item, one plan; a blob is young or older than *)
(* ORPHANED_BLOB_RETENTION_HOURS; rendering, notifications, audit rows and *)
(* resendCount are left out.  Nothing calls submitTranscript with a stored *)
(* transcript, so the transcript half of the sweep finds nothing.          *)
(***************************************************************************)
EXTENDS Naturals, FiniteSets

CONSTANTS
  Reports,          \* Report rows
  Media,            \* files uploaded to the content item
  PlanMedia,        \* files uploaded to the plan's content snapshots
  Recipients,       \* how many recipients a report has
  Generators,       \* slots working report.generate
  Senders,          \* slots working report.send
  GenerateRetries,  \* pg-boss retryLimit of report.generate
  SendRetries,      \* and of report.send
  Resends,          \* calls of POST /reports/:id/resend, each made at most once
  Deletions,        \* calls that delete a file or the content item, likewise
  None,             \* no report, no file
  Faults            \* what may go wrong in this run

FaultKinds ==
  {"error",      \* a call to the store, the mailer or the database throws
   "lostReply",  \* the same, after it took effect
   "crash"}      \* the process dies at an await

Files == Media \cup PlanMedia
Keys == Reports \cup Files
Workers == Generators \cup Senders

ASSUME ConstantsAssumption ==
  /\ None \notin Keys
  /\ Reports \cap Files = {} /\ Media \cap PlanMedia = {}
  /\ Generators \cap Senders = {}
  /\ Recipients \in Nat \ {0} /\ GenerateRetries \in Nat /\ SendRetries \in Nat
  /\ Faults \subseteq FaultKinds

VARIABLES
  report,    \* report[r]: the row of r
  creator,   \* creator[r]: how far the call that creates r has got
  generate,  \* generate[r][t]: waiting report.generate jobs of r with t tries behind them
  send,      \* send[r][t]: the same for report.send
  failed,    \* <<queue, report>> of the jobs that ran out of retries
  worker,    \* worker[w]: the attempt slot w is making
  mailed,    \* mailed[r]: the first so many recipients have been mailed r
  resend,    \* resend[q]: how far the resend q has got
  cut,       \* reports whose creation or generation stopped between its write and the job it owed
  blob,      \* blob[k]: is there a blob under k, and is it more than a day old?
  upload,    \* upload[f]: how far the upload of f has got
  row,       \* files with a MediaAsset or PlanContentMedia row
  parents,   \* which of the content item and the plan still exist
  deletion,  \* deletion[d]: how far the deletion d has got
  sweep      \* what the nightly sweep has read

pipeline == <<report, creator, generate, send, failed, worker, mailed, resend, cut>>
library == <<upload, row, parents, deletion>>
vars == <<report, creator, generate, send, failed, worker, mailed, resend, cut,
          blob, upload, row, parents, deletion, sweep>>

-----------------------------------------------------------------------------
(* The state's parts.                                                      *)

Status == {"none", "PENDING", "GENERATED", "SENT", "FAILED"}
Ready == {"GENERATED", "SENT"}

GenerateTries == 0 .. GenerateRetries
SendTries == 0 .. SendRetries

\* next is the recipient whose mail is due.
Free == [pc |-> "idle", report |-> None, tries |-> 0, next |-> 0]
Attempt == [pc : {"idle", "upload", "mark", "enqueue", "fail", "fetch", "mail", "notify"},
            report : Reports \cup {None}, tries : GenerateTries \cup SendTries,
            next : 0 .. Recipients + 1]

\* todo are the files still to delete, file the one at hand, item is true when
\* the content item goes last, begun are the files whose blob it asked to delete.
NoDeletion == [pc |-> "idle", todo |-> {}, file |-> None, item |-> FALSE, begun |-> {}]
Deletion == [pc : {"idle", "find", "blob", "row", "item", "done"}, todo : SUBSET Media,
             file : Media \cup {None}, item : BOOLEAN, begun : SUBSET Media]

\* unread are the reads still under way, listed the old blobs the listing showed.
NoSweep == [pc |-> "idle", unread |-> {}, known |-> {}, listed |-> {}]
Sweep == [pc : {"idle", "read", "delete"}, unread : SUBSET {"media", "list"},
          known : SUBSET Keys, listed : SUBSET Keys]

Init ==
  /\ report = [r \in Reports |-> [status |-> "none", keyed |-> FALSE]]
  /\ creator = [r \in Reports |-> "idle"]
  /\ generate = [r \in Reports |-> [t \in GenerateTries |-> 0]]
  /\ send = [r \in Reports |-> [t \in SendTries |-> 0]]
  /\ failed = {}
  /\ worker = [w \in Workers |-> Free]
  /\ mailed = [r \in Reports |-> 0]
  /\ resend = [q \in Resends |-> [pc |-> "idle", report |-> None]]
  /\ cut = {}
  /\ blob = [k \in Keys |-> "none"]
  /\ upload = [f \in Files |-> "idle"]
  /\ row = {}
  /\ parents = {"content", "plan"}
  /\ deletion = [d \in Deletions |-> NoDeletion]
  /\ sweep = NoSweep

-----------------------------------------------------------------------------
(* A report is created and queued.                                         *)

CreateReport(r) ==
  /\ creator[r] = "idle"
  /\ report' = [report EXCEPT ![r].status = "PENDING"]
  /\ creator' = [creator EXCEPT ![r] = "enqueue"]
  /\ UNCHANGED <<generate, send, failed, worker, mailed, resend, cut, blob, library, sweep>>

EnqueueGenerate(r) ==
  /\ creator[r] = "enqueue"
  /\ generate' = [generate EXCEPT ![r][0] = @ + 1]
  /\ creator' = [creator EXCEPT ![r] = "done"]
  /\ UNCHANGED <<report, send, failed, worker, mailed, resend, cut, blob, library, sweep>>

\* The row stays PENDING: nothing queues it again.
CreatorStops(r) ==
  /\ Faults \cap {"error", "crash"} # {} /\ creator[r] = "enqueue"
  /\ creator' = [creator EXCEPT ![r] = "done"]
  /\ cut' = cut \cup {r}
  /\ UNCHANGED <<report, generate, send, failed, worker, mailed, resend, blob, library, sweep>>

-----------------------------------------------------------------------------
(* report.generate.                                                        *)

\* The attempt skips a report that is no longer PENDING.
StartGenerate(w, r, t) ==
  /\ worker[w] = Free /\ generate[r][t] > 0
  /\ generate' = [generate EXCEPT ![r][t] = @ - 1]
  /\ worker' = [worker EXCEPT ![w] =
       IF report[r].status = "PENDING"
       THEN [pc |-> "upload", report |-> r, tries |-> t, next |-> 0] ELSE Free]
  /\ UNCHANGED <<report, creator, send, failed, mailed, resend, cut, blob, library, sweep>>

\* An awaited call of w goes on to pc, or its reply is lost and it throws.
Onward(w, pc) ==
  \E p \in {pc} \cup IF "lostReply" \in Faults THEN {"fail"} ELSE {} :
    worker' = [worker EXCEPT ![w].pc = p]

UploadPdf(w) ==
  /\ worker[w].pc = "upload"
  /\ blob' = [blob EXCEPT ![worker[w].report] = "young"]
  /\ Onward(w, "mark")
  /\ UNCHANGED <<report, creator, generate, send, failed, mailed, resend, cut, library, sweep>>

MarkGenerated(w) ==
  /\ worker[w].pc = "mark"
  /\ report' = [report EXCEPT ![worker[w].report] = [status |-> "GENERATED", keyed |-> TRUE]]
  /\ Onward(w, "enqueue")
  /\ UNCHANGED <<creator, generate, send, failed, mailed, resend, cut, blob, library, sweep>>

EnqueueSend(w) ==
  /\ worker[w].pc = "enqueue"
  /\ send' = [send EXCEPT ![worker[w].report][0] = @ + 1]
  /\ \/ worker' = [worker EXCEPT ![w] = Free]
     \/ "lostReply" \in Faults /\ worker' = [worker EXCEPT ![w].pc = "fail"]
  /\ UNCHANGED <<report, creator, generate, failed, mailed, resend, cut, blob, library, sweep>>

\* What rendering, the store, the database or the queue throws is caught ...
GenerateThrows(w) ==
  /\ "error" \in Faults /\ worker[w].pc \in {"upload", "mark", "enqueue"}
  /\ worker' = [worker EXCEPT ![w].pc = "fail"]
  /\ UNCHANGED <<report, creator, generate, send, failed, mailed, resend, cut, blob, library, sweep>>

\* ... and ends the attempt with markFailed, whatever the status is by then.
MarkFailed(w) ==
  /\ worker[w].pc = "fail"
  /\ report' = [report EXCEPT ![worker[w].report].status = "FAILED"]
  /\ worker' = [worker EXCEPT ![w] = Free]
  /\ UNCHANGED <<creator, generate, send, failed, mailed, resend, cut, blob, library, sweep>>

\* The attempt dies, or markFailed itself throws: pg-boss tries again.  If the
\* row is no longer PENDING, the next attempt skips it and nothing is sent.
GenerateDies(w) ==
  LET r == worker[w].report
      t == worker[w].tries IN
  /\ w \in Generators /\ worker[w] # Free
  /\ "crash" \in Faults \/ ("error" \in Faults /\ worker[w].pc = "fail")
  /\ IF t < GenerateRetries
     THEN generate' = [generate EXCEPT ![r][t + 1] = @ + 1] /\ UNCHANGED failed
     ELSE failed' = failed \cup {<<"report.generate", r>>} /\ UNCHANGED generate
  /\ cut' = IF report[r].status = "PENDING" THEN cut ELSE cut \cup {r}
  /\ worker' = [worker EXCEPT ![w] = Free]
  /\ UNCHANGED <<report, creator, send, mailed, resend, blob, library, sweep>>

-----------------------------------------------------------------------------
(* report.send.                                                            *)

\* Mutant: only a report already SENT is mailed.
StartOnlySent(w, r, t) ==
  /\ worker[w] = Free /\ send[r][t] > 0
  /\ send' = [send EXCEPT ![r][t] = @ - 1]
  /\ worker' = [worker EXCEPT ![w] =
       IF report[r].status = "SENT"
       THEN [pc |-> "fetch", report |-> r, tries |-> t, next |-> 1] ELSE Free]
  /\ UNCHANGED <<report, creator, generate, failed, mailed, resend, cut, blob, library, sweep>>

\* SENT is a valid start too: a resend mails the same PDF.
StartSend(w, r, t) ==
  /\ worker[w] = Free /\ send[r][t] > 0
  /\ send' = [send EXCEPT ![r][t] = @ - 1]
  /\ worker' = [worker EXCEPT ![w] =
       IF report[r].status \in Ready /\ report[r].keyed
       THEN [pc |-> "fetch", report |-> r, tries |-> t, next |-> 1] ELSE Free]
  /\ UNCHANGED <<report, creator, generate, failed, mailed, resend, cut, blob, library, sweep>>

FetchPdf(w) ==
  /\ worker[w].pc = "fetch" /\ blob[worker[w].report] # "none"
  /\ worker' = [worker EXCEPT ![w].pc = "mail"]
  /\ UNCHANGED <<report, creator, generate, send, failed, mailed, resend, cut, blob, library, sweep>>

\* Mutant: the loop runs once too often.
MailOnceMore(w) ==
  LET r == worker[w].report
      n == worker[w].next IN
  /\ worker[w].pc = "mail" /\ n <= Recipients + 1
  /\ mailed' = [mailed EXCEPT ![r] = IF n > @ THEN n ELSE @]
  /\ worker' = [worker EXCEPT ![w].next = n + 1]
  /\ UNCHANGED <<report, creator, generate, send, failed, resend, cut, blob, library, sweep>>

\* The recipients in their order; an attempt starts from the first again.
Mail(w) ==
  LET r == worker[w].report
      n == worker[w].next IN
  /\ worker[w].pc = "mail" /\ n <= Recipients
  /\ mailed' = [mailed EXCEPT ![r] = IF n > @ THEN n ELSE @]
  /\ worker' = [worker EXCEPT ![w].next = n + 1]
  /\ UNCHANGED <<report, creator, generate, send, failed, resend, cut, blob, library, sweep>>

\* Mutant: the row is marked before the mails go out.
MarkSentFirst(w) ==
  /\ worker[w].pc = "mail"
  /\ report' = [report EXCEPT ![worker[w].report].status = "SENT"]
  /\ worker' = [worker EXCEPT ![w].pc = "notify"]
  /\ UNCHANGED <<creator, generate, send, failed, mailed, resend, cut, blob, library, sweep>>

MarkSent(w) ==
  /\ worker[w].pc = "mail" /\ worker[w].next > Recipients
  /\ report' = [report EXCEPT ![worker[w].report].status = "SENT"]
  /\ worker' = [worker EXCEPT ![w].pc = "notify"]
  /\ UNCHANGED <<creator, generate, send, failed, mailed, resend, cut, blob, library, sweep>>

\* Notifications and the audit row follow: if they throw, the mails go out again.
Notify(w) ==
  /\ worker[w].pc = "notify"
  /\ worker' = [worker EXCEPT ![w] = Free]
  /\ UNCHANGED <<report, creator, generate, send, failed, mailed, resend, cut, blob, library, sweep>>

\* Whatever is thrown, a missing PDF included, goes to pg-boss.
SendThrows(w) ==
  LET r == worker[w].report
      t == worker[w].tries IN
  /\ w \in Senders /\ worker[w] # Free
  /\ Faults # {} \/ (worker[w].pc = "fetch" /\ blob[r] = "none")
  /\ IF t < SendRetries
     THEN send' = [send EXCEPT ![r][t + 1] = @ + 1] /\ UNCHANGED failed
     ELSE failed' = failed \cup {<<"report.send", r>>} /\ UNCHANGED send
  /\ worker' = [worker EXCEPT ![w] = Free]
  /\ UNCHANGED <<report, creator, generate, mailed, resend, cut, blob, library, sweep>>

-----------------------------------------------------------------------------
(* POST /reports/:id/resend: the status is read, then a job is queued.     *)

Resend(q, r) ==
  /\ resend[q].pc = "idle" /\ report[r].status # "none"
  /\ resend' = [resend EXCEPT ![q] =
       [pc |-> IF report[r].status \in Ready THEN "enqueue" ELSE "done", report |-> r]]
  /\ UNCHANGED <<report, creator, generate, send, failed, worker, mailed, cut, blob, library, sweep>>

EnqueueResend(q) ==
  /\ resend[q].pc = "enqueue"
  /\ send' = [send EXCEPT ![resend[q].report][0] = @ + 1]
  /\ resend' = [resend EXCEPT ![q].pc = "done"]
  /\ UNCHANGED <<report, creator, generate, failed, worker, mailed, cut, blob, library, sweep>>

ResendStops(q) ==
  /\ Faults \cap {"error", "crash"} # {} /\ resend[q].pc = "enqueue"
  /\ resend' = [resend EXCEPT ![q].pc = "done"]
  /\ UNCHANGED <<report, creator, generate, send, failed, worker, mailed, cut, blob, library, sweep>>

-----------------------------------------------------------------------------
(* Uploads and deletions of files.                                         *)

Parent(f) == IF f \in Media THEN "content" ELSE "plan"

\* MediaService.upload, PlanContentMediaService.upload: the blob first ...
UploadFile(f) ==
  /\ upload[f] = "idle" /\ Parent(f) \in parents
  /\ blob' = [blob EXCEPT ![f] = "young"]
  /\ upload' = [upload EXCEPT ![f] = "row"]
  /\ UNCHANGED <<pipeline, row, parents, deletion, sweep>>

\* ... then the row, unless its parent is gone by now.
CreateRow(f) ==
  /\ upload[f] = "row"
  /\ row' = IF Parent(f) \in parents THEN row \cup {f} ELSE row
  /\ upload' = [upload EXCEPT ![f] = "done"]
  /\ UNCHANGED <<pipeline, blob, parents, deletion, sweep>>

\* The blob is an orphan.
UploadStops(f) ==
  /\ Faults # {} /\ upload[f] = "row"
  /\ upload' = [upload EXCEPT ![f] = "done"]
  /\ UNCHANGED <<pipeline, blob, row, parents, deletion, sweep>>

\* The plan, or its learner, is deleted: rows go, blobs are left.
DeletePlan ==
  /\ "plan" \in parents
  /\ parents' = parents \ {"plan"}
  /\ row' = row \ PlanMedia
  /\ UNCHANGED <<pipeline, blob, upload, deletion, sweep>>

\* DELETE of one file, or of the content item with every file it has now.
StartDeletion(d) ==
  /\ deletion[d].pc = "idle" /\ "content" \in parents
  /\ \/ \E f \in Media :
          deletion' = [deletion EXCEPT ![d].pc = "find", ![d].todo = {f}]
     \/ deletion' = [deletion EXCEPT ![d].pc = IF row \cap Media = {} THEN "item" ELSE "find",
                                     ![d].todo = row \cap Media, ![d].item = TRUE]
  /\ UNCHANGED <<pipeline, blob, upload, row, parents, sweep>>

\* MediaService.delete throws when another call has deleted the row.
FindFile(d) ==
  /\ deletion[d].pc = "find"
  /\ \E f \in deletion[d].todo :
       deletion' = [deletion EXCEPT ![d].pc = IF f \in row THEN "blob" ELSE "done",
                                    ![d].file = f]
  /\ UNCHANGED <<pipeline, blob, upload, row, parents, sweep>>

DeleteBlob(d) ==
  LET f == deletion[d].file IN
  /\ deletion[d].pc = "blob"
  /\ blob' = [blob EXCEPT ![f] = "none"]
  /\ deletion' = [deletion EXCEPT ![d].pc = "row",
                                  ![d].begun = @ \cup {f}]
  /\ UNCHANGED <<pipeline, upload, row, parents, sweep>>

DeleteRow(d) ==
  LET f == deletion[d].file
      rest == deletion[d].todo \ {f} IN
  /\ deletion[d].pc = "row"
  /\ row' = row \ {f}
  /\ deletion' = [deletion EXCEPT ![d].todo = rest,
       ![d].pc = CASE f \notin row -> "done"
                   [] f \in row /\ rest # {} -> "find"
                   [] OTHER -> IF deletion[d].item THEN "item" ELSE "done"]
  /\ UNCHANGED <<pipeline, blob, upload, parents, sweep>>

\* The database refuses while a file uploaded meanwhile, a session or a
\* recommendation points at the item: its own files are gone by then.
DeleteItem(d) ==
  /\ deletion[d].pc = "item"
  /\ \/ row \cap Media = {} /\ parents' = parents \ {"content"}
     \/ UNCHANGED parents
  /\ deletion' = [deletion EXCEPT ![d].pc = "done"]
  /\ UNCHANGED <<pipeline, blob, upload, row, sweep>>

DeletionStops(d) ==
  /\ Faults # {} /\ deletion[d].pc \in {"find", "blob", "row", "item"}
  /\ deletion' = [deletion EXCEPT ![d].pc = "done"]
  /\ UNCHANGED <<pipeline, blob, upload, row, parents, sweep>>

-----------------------------------------------------------------------------
(* sweepOrphanedBlobs of the nightly cleanup.                              *)

\* Mutant: the key of every report is taken for known, stored in its row or not.
StartSweepKnowingAll ==
  /\ sweep.pc = "idle"
  /\ sweep' = [pc |-> "read", unread |-> {"media", "list"}, listed |-> {}, known |-> Reports]
  /\ UNCHANGED <<pipeline, blob, library>>

\* The report keys are read first ...
StartSweep ==
  /\ sweep.pc = "idle"
  /\ sweep' = [pc |-> "read", unread |-> {"media", "list"}, listed |-> {},
               known |-> {r \in Reports : report[r].keyed}]
  /\ UNCHANGED <<pipeline, blob, library>>

\* ... then the media rows and the store's listing, in either order.  The rows
\* are MediaAsset's: nothing reads PlanContentMedia.
Read(what) ==
  /\ what \in sweep.unread
  /\ sweep' = [pc |-> IF sweep.unread = {what} THEN "delete" ELSE "read",
               unread |-> sweep.unread \ {what},
               known |-> IF what = "media" THEN sweep.known \cup (row \cap Media)
                                           ELSE sweep.known,
               listed |-> IF what = "list" THEN {k \in Keys : blob[k] = "old"}
                                           ELSE sweep.listed]
  /\ UNCHANGED <<pipeline, blob, library>>

Orphans == sweep.listed \ sweep.known

SweepDeletes(k) ==
  /\ sweep.pc = "delete" /\ k \in Orphans
  /\ blob' = [blob EXCEPT ![k] = "none"]
  /\ sweep' = [sweep EXCEPT !.listed = @ \ {k}]
  /\ UNCHANGED <<pipeline, library>>

\* A failed deletion is logged and passed over.
SweepPasses(k) ==
  /\ "error" \in Faults
  /\ sweep.pc = "delete" /\ k \in Orphans
  /\ sweep' = [sweep EXCEPT !.listed = @ \ {k}]
  /\ UNCHANGED <<pipeline, blob, library>>

EndSweep ==
  /\ sweep.pc = "delete" /\ Orphans = {}
  /\ sweep' = NoSweep
  /\ UNCHANGED <<pipeline, blob, library>>

\* A failed read, or a crash, ends the night's sweep: the job is not retried.
SweepStops ==
  /\ \/ sweep.pc = "read" /\ Faults # {}
     \/ sweep.pc = "delete" /\ "crash" \in Faults
  /\ sweep' = NoSweep
  /\ UNCHANGED <<pipeline, blob, library>>

\* Will a call or a job that is already under way name k?
BeingWritten(k) ==
  IF k \in Reports
  THEN \/ \E t \in GenerateTries : generate[k][t] > 0
       \/ \E w \in Generators : worker[w].report = k
  ELSE upload[k] = "row"

\* A day passes; no upload, no report's retries and no sweep's reads last that long.
Age(k) ==
  /\ blob[k] = "young" /\ ~BeingWritten(k) /\ sweep.pc # "read"
  /\ blob' = [blob EXCEPT ![k] = "old"]
  /\ UNCHANGED <<pipeline, library, sweep>>

-----------------------------------------------------------------------------

GeneratorStep(w) ==
  \/ \E r \in Reports, t \in GenerateTries : StartGenerate(w, r, t)
  \/ UploadPdf(w) \/ MarkGenerated(w) \/ EnqueueSend(w) \/ GenerateThrows(w)
  \/ MarkFailed(w) \/ GenerateDies(w)

SenderStep(w) ==
  \/ \E r \in Reports, t \in SendTries : StartSend(w, r, t)
  \/ FetchPdf(w) \/ Mail(w) \/ MarkSent(w) \/ Notify(w) \/ SendThrows(w)

CreatorStep(r) == EnqueueGenerate(r) \/ CreatorStops(r)
ResendStep(q) == EnqueueResend(q) \/ ResendStops(q)
UploadStep(f) == CreateRow(f) \/ UploadStops(f)

DeletionStep(d) ==
  FindFile(d) \/ DeleteBlob(d) \/ DeleteRow(d) \/ DeleteItem(d) \/ DeletionStops(d)

SweepStep ==
  \/ StartSweep \/ EndSweep \/ SweepStops
  \/ \E what \in {"media", "list"} : Read(what)
  \/ \E k \in Keys : SweepDeletes(k) \/ SweepPasses(k)

Next ==
  \/ \E r \in Reports : CreateReport(r) \/ CreatorStep(r)
  \/ \E w \in Generators : GeneratorStep(w)
  \/ \E w \in Senders : SenderStep(w)
  \/ \E q \in Resends : ResendStep(q) \/ \E r \in Reports : Resend(q, r)
  \/ \E f \in Files : UploadFile(f) \/ UploadStep(f)
  \/ \E d \in Deletions : StartDeletion(d) \/ DeletionStep(d)
  \/ DeletePlan \/ SweepStep
  \/ \E k \in Keys : Age(k)

Spec == Init /\ [][Next]_vars

\* What has begun goes on, queues are worked, days pass and the cron fires.  An
\* outage ends: the sweep's reads and its deletions succeed again and again.
\* Nobody has to call.
Fairness ==
  /\ \A r \in Reports : WF_vars(CreatorStep(r))
  /\ \A w \in Generators : WF_vars(GeneratorStep(w))
  /\ \A w \in Senders : WF_vars(SenderStep(w))
  /\ \A f \in Files : WF_vars(UploadStep(f))
  /\ \A d \in Deletions : WF_vars(DeletionStep(d))
  /\ WF_vars(SweepStep)
  /\ \A n \in 1 .. 2 :
       SF_vars(Cardinality(sweep.unread) = n /\ \E what \in sweep.unread : Read(what))
  /\ SF_vars(\E k \in Keys : Age(k))
  /\ SF_vars(\E k \in Keys : SweepDeletes(k))

FairSpec == Spec /\ Fairness

-----------------------------------------------------------------------------
(* Properties.                                                             *)

\* Every variable keeps its type.
TypeOK ==
  /\ report \in [Reports -> [status : Status, keyed : BOOLEAN]]
  /\ creator \in [Reports -> {"idle", "enqueue", "done"}]
  /\ generate \in [Reports -> [GenerateTries -> Nat]]
  /\ send \in [Reports -> [SendTries -> Nat]]
  /\ failed \subseteq {"report.generate", "report.send"} \X Reports
  /\ worker \in [Workers -> Attempt]
  /\ mailed \in [Reports -> 0 .. Recipients]
  /\ resend \in [Resends -> [pc : {"idle", "enqueue", "done"}, report : Reports \cup {None}]]
  /\ cut \subseteq Reports
  /\ blob \in [Keys -> {"none", "young", "old"}]
  /\ upload \in [Files -> {"idle", "row", "done"}]
  /\ row \subseteq Files
  /\ parents \subseteq {"content", "plan"}
  /\ deletion \in [Deletions -> Deletion]
  /\ sweep \in Sweep

\* A job that is waiting, or an attempt under way, will still act on r.
InHand(r) ==
  \/ creator[r] = "enqueue"
  \/ \E t \in GenerateTries : generate[r][t] > 0
  \/ \E t \in SendTries : send[r][t] > 0
  \/ \E w \in Workers : worker[w].report = r

\* r's job ran out of retries, which the queue board shows.
GivenUp(r) == \E q \in {"report.generate", "report.send"} : <<q, r>> \in failed

\* A report that is neither SENT nor FAILED is still in hand or given up, but
\* for one whose process stopped between the row and the job it was about to
\* queue: there is no other way for a report to be forgotten.
NoReportForgotten ==
  \A r \in Reports : report[r].status \in {"PENDING", "GENERATED"} =>
    InHand(r) \/ GivenUp(r) \/ r \in cut

\* A report that is SENT was mailed to every recipient, through retries and
\* resends that overlap.
SentWasMailed == \A r \in Reports : report[r].status = "SENT" => mailed[r] = Recipients

\* A report that was mailed stays SENT.
SentStaysSent ==
  [][\A r \in Reports : report[r].status = "SENT" => report'[r].status = "SENT"]_vars

\* A blob that a Report or a MediaAsset row names is in the store, whatever the
\* nightly sweep does, until somebody asks for the file to be deleted.
NamedBlobKept ==
  /\ \A r \in Reports : report[r].keyed => blob[r] # "none"
  /\ \A f \in row \cap Media :
       blob[f] # "none" \/ \E d \in Deletions : f \in deletion[d].begun

\* All three: no report is forgotten or SENT unsent, and no blob that is named is lost.
NothingIsLost == NoReportForgotten /\ SentWasMailed /\ NamedBlobKept

\* A blob that a PlanContentMedia row names is in the store.
PlanBlobKept == \A f \in row \cap PlanMedia : blob[f] # "none"

\* Once it is queued, a report is sent, marked FAILED or given up, unless its
\* generation stopped before it queued report.send.
ReportSettles ==
  \A r \in Reports : creator[r] = "done" ~>
    report[r].status \in {"SENT", "FAILED"} \/ GivenUp(r) \/ r \in cut

\* A blob nobody names, and nobody is about to, is removed in the end: the
\* leftovers of uploads and generations that stopped, and of deleted plans.
OrphanRemoved ==
  \A k \in Keys :
    LET named == IF k \in Reports THEN report[k].keyed ELSE k \in row IN
    blob[k] # "none" /\ ~named /\ ~BeingWritten(k) ~> blob[k] = "none"
=============================================================================
